---------------------------- MODULE GluetunState ----------------------------
(***************************************************************************)
(* What the web server knows of Gluetun's control API                      *)
(* (src/server/gluetun/state.ts, with the routes of src/server/routes/     *)
(* api.ts that change it).  The saved connection is numbered by how often  *)
(* it was edited.  A status or a set of capabilities is represented by the *)
(* edit whose connection it was fetched from, and by the generation in     *)
(* which the fetch began.                                                  *)
(*                                                                         *)
(* A route holds the record of the connection that it read at its start    *)
(* across its awaits; the fetch of a status compares generations before it *)
(* writes, a connection test does not.                                     *)
(***************************************************************************)
EXTENDS Naturals

CONSTANTS
  Fetches,   \* reads of a status that may be under way
  NoFetch,
  Tasks,     \* control requests and connection tests of the owner
  MaxEdits,  \* bound on saved edits
  MaxGens    \* bound on invalidations

ASSUME StateAssumption ==
  /\ NoFetch \notin Fetches
  /\ MaxEdits \in Nat /\ MaxGens \in Nat

VARIABLES
  conn,     \* number of the saved connection, 0 before there is one
  caps,     \* stored capabilities: which connection they are from, and who
            \* asked for them; [of |-> 0] when there are none
  gen,      \* how often the state was invalidated
  cached,   \* the last status, [of |-> 0] without one
  fetch,    \* fetch[f] : the read f
  pending,  \* the read that later requests share
  task,     \* task[t] : the request t
  phase     \* of the shut-down

vars == <<conn, caps, gen, cached, fetch, pending, task, phase>>

Conns  == 1..MaxEdits
Nobody == [of |-> 0]
\* Who began a fetch; the code does not keep it.  A poll stands for the timer
\* and for the routes that refresh and read the connection in one go.
Askers == {"poll", "control", "test"}
IdleFetch == [st |-> "idle"]
IdleTask  == [pc |-> "idle"]
Unknown   == caps = Nobody

Init == /\ conn = 0 /\ caps = Nobody
        /\ gen = 0 /\ cached = Nobody
        /\ fetch = [f \in Fetches |-> IdleFetch]
        /\ pending = NoFetch
        /\ task = [t \in Tasks |-> IdleTask]
        /\ phase = "running"
-----------------------------------------------------------------------------
\* invalidate(): forget the status and the read that others would share.
Invalidated == /\ gen < MaxGens /\ gen' = gen + 1
               /\ cached' = Nobody

\* Read f begins for connection c, in generation g.
Begins(f, c, g, who) ==
  /\ fetch[f] = IdleFetch
  /\ fetch' = [fetch EXCEPT ![f] = [st |-> "running", of |-> c, gen |-> g,
                                    by |-> who]]
  /\ pending' = f

\* refresh(): by the timer, or a route that reads the connection now.  With a
\* read under way there is nothing to do but wait for it.
Poll == /\ phase = "running" /\ conn # 0 /\ pending = NoFetch
        /\ \E f \in Fetches : Begins(f, conn, gen, "poll")
        /\ UNCHANGED <<conn, caps, gen, cached, task, phase>>

\* Mutant of Valid: a late status is written all the same.
ValidAlways(f) == TRUE
Valid(f) == fetch[f].gen = gen

\* Mutant of Shared: the end of any read clears the one that is shared.
SharedCleared(f) == NoFetch
Shared(f) == IF pending = f THEN NoFetch ELSE pending

\* overview(): what is shown is of the record the read was begun with.
Overview(f) == [of |-> fetch[f].of, gen |-> fetch[f].gen, by |-> fetch[f].by]

\* Read f ends; connected says whether some route of the API answered.
FetchEnds(f, connected) ==
  /\ fetch[f].st = "running"
  /\ fetch' = [fetch EXCEPT ![f] = IdleFetch]
  /\ pending' = Shared(f)
  /\ IF Valid(f)
     THEN /\ cached' = Overview(f)
          /\ caps' = IF connected THEN [of |-> fetch[f].of, by |-> fetch[f].by]
                     ELSE caps
     ELSE UNCHANGED <<cached, caps>>
  /\ UNCHANGED <<conn, gen, task, phase>>

\* Mutant of EditedCaps: the capabilities survive an edit.
EditedCapsKept == caps
EditedCaps == Nobody

\* PUT of a connection: validated first, then saved without an await.
Edit == /\ phase = "running" /\ conn < MaxEdits
        /\ conn' = conn + 1 /\ caps' = EditedCaps
        /\ Invalidated /\ pending' = NoFetch
        /\ UNCHANGED <<fetch, task, phase>>

\* The credential of the connection is removed.
ClearCredential ==
  /\ phase = "running"
  /\ Invalidated /\ pending' = NoFetch
  /\ UNCHANGED <<conn, caps, fetch, task, phase>>

\* A control request reads the connection, and asks for the capabilities if
\* none are stored.
ControlBegin(t) ==
  /\ phase = "running" /\ conn # 0 /\ task[t] = IdleTask
  /\ task' = [task EXCEPT ![t] = [pc |-> IF Unknown THEN "probing"
                                         ELSE "changing", of |-> conn]]
  /\ UNCHANGED <<conn, caps, gen, cached, fetch, pending, phase>>

\* The answer shows that Gluetun has what is to be changed.
ControlProbed(t) ==
  /\ task[t].pc = "probing"
  /\ task' = [task EXCEPT ![t].pc = "changing"]
  /\ UNCHANGED <<conn, caps, gen, cached, fetch, pending, phase>>

\* Gluetun has changed: forget what was known, and fetch again with the
\* connection read at the start.
ControlDone(t) ==
  /\ task[t].pc = "changing"
  /\ Invalidated
  /\ \E f \in Fetches : Begins(f, task[t].of, gen', "control")
  /\ task' = [task EXCEPT ![t] = IdleTask]
  /\ UNCHANGED <<conn, caps, phase>>

\* A test of the saved connection writes what it finds, if it is accepted.
TestBegin(t) ==
  /\ phase = "running" /\ conn # 0 /\ task[t] = IdleTask
  /\ task' = [task EXCEPT ![t] = [pc |-> "testing", of |-> conn]]
  /\ UNCHANGED <<conn, caps, gen, cached, fetch, pending, phase>>

\* probe(): every route is tried with the record of the test.
Probed(t) == [of |-> task[t].of, by |-> "test"]

TestAccepted(t) ==
  /\ task[t].pc = "testing"
  /\ caps' = Probed(t)
  /\ task' = [task EXCEPT ![t] = IdleTask]
  /\ UNCHANGED <<conn, gen, cached, fetch, pending, phase>>

\* A request ends without effect: the capability is missing, Gluetun does not
\* answer, or a test is not accepted.
TaskFails(t) ==
  /\ task[t] # IdleTask
  /\ task' = [task EXCEPT ![t] = IdleTask]
  /\ UNCHANGED <<conn, caps, gen, cached, fetch, pending, phase>>

\* The server closes when its requests are done (Fastify), then stop() clears
\* the timers and waits for the shared read.
Stop == /\ phase = "running" /\ \A t \in Tasks : task[t] = IdleTask
        /\ phase' = "stopping"
        /\ UNCHANGED <<conn, caps, gen, cached, fetch, pending, task>>

\* Mutant of Settled: stop() only clears the timers.
SettledAlways == TRUE
Settled == pending = NoFetch

Stopped == /\ phase = "stopping" /\ Settled
           /\ phase' = "stopped"
           /\ UNCHANGED <<conn, caps, gen, cached, fetch, pending, task>>

Next == \/ Poll \/ Edit \/ ClearCredential \/ Stop \/ Stopped
        \/ \E f \in Fetches, connected \in BOOLEAN : FetchEnds(f, connected)
        \/ \E t \in Tasks : \/ ControlBegin(t) \/ ControlProbed(t)
                            \/ ControlDone(t) \/ TaskFails(t)
                            \/ TestBegin(t) \/ TestAccepted(t)

Spec == Init /\ [][Next]_vars
-----------------------------------------------------------------------------
\* The state has its shape, and what is shared is under way.
TypeOK ==
  /\ conn \in 0..MaxEdits /\ gen \in 0..MaxGens
  /\ caps \in {Nobody} \cup [of : Conns, by : Askers]
  /\ cached \in {Nobody} \cup [of : Conns, gen : 0..MaxGens, by : Askers]
  /\ fetch \in [Fetches -> {IdleFetch} \cup
                  [st : {"running"}, of : Conns, gen : 0..MaxGens, by : Askers]]
  /\ task \in [Tasks -> {IdleTask} \cup
                 [pc : {"probing", "changing", "testing"}, of : Conns]]
  /\ pending \in Fetches \cup {NoFetch}
  /\ pending # NoFetch => fetch[pending].st = "running"
  /\ phase \in {"running", "stopping", "stopped"}

\* tests/unit/state.test.ts: "never caches a pre-change result after
\* invalidation".  The status that is shown was fetched after the last edit,
\* removal or control request.
SinceInvalidation == cached # Nobody => cached.gen = gen

\* What a poll has fetched is of the connection that is saved now, in the
\* status and in the stored capabilities, whatever was edited while it ran.
PollsCurrent == \A r \in {cached, caps} :
                  r # Nobody /\ r.by = "poll" => r.of = conn

\* At most one read of the present generation runs: requests share it, and the
\* end of an older read does not disturb that.
OneValidFetch ==
  \A f, g \in Fetches :
    /\ fetch[f].st = "running" /\ Valid(f)
    /\ fetch[g].st = "running" /\ Valid(g)
    => f = g

\* After stop() has returned the database is closed: nothing writes to it,
\* although reads that were cut off by an invalidation may still end.
StoppedQuiet == [][phase = "stopped" => UNCHANGED <<caps, cached>>]_vars

\* CHANGELOG.md: connection and control results that are stale are
\* invalidated.  The status that is shown is of the saved connection.
ShownCurrent == cached # Nobody => cached.of = conn
=============================================================================
