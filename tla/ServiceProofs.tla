--------------------------- MODULE ServiceProofs ----------------------------
(***************************************************************************)
(* What the connection to the control server guarantees, for any number of *)
(* reads, requests, edits and invalidations, and any destinations and      *)
(* modes. The invariant of GluetunState says which reads may still write:  *)
(* the one that is shared, and no other (Sole), and it was begun for the   *)
(* present generation. That a credential stays with the destination and    *)
(* the mode it was entered for is inductive as it stands: the credential   *)
(* that an edit carries over is that of the connection before it, which is *)
(* the one after. Traffic is attributed to the connection of the poll that *)
(* counted it, and what a poll has counted is later than the last sample.  *)
(* What the days add up to follows from a telescoping sum: what one sample *)
(* adds to a day is a difference of By at the ends of the day.             *)
(***************************************************************************)
EXTENDS GluetunState, Connection, Traffic, WellFoundedInduction, TLAPS

Running(f) == fetch[f].st = "running"

Sole == /\ \A f \in Fetches : Running(f) => fetch[f].gen <= gen
        /\ \A f \in Fetches : Running(f) /\ Valid(f) => pending = f
        /\ pending # NoFetch => Valid(pending)

FetchCurrent == \A f \in Fetches :
  Running(f) /\ Valid(f) /\ fetch[f].by = "poll" => fetch[f].of = conn

Idle == /\ phase # "running" => \A t \in Tasks : task[t] = IdleTask
        /\ phase = "stopped" => pending = NoFetch

StateInv == /\ TypeOK /\ Sole /\ FetchCurrent /\ Idle
            /\ SinceInvalidation /\ PollsCurrent

-----------------------------------------------------------------------------
\* An empty state.
LEMMA InitHolds == ASSUME Init PROVE StateInv
BY StateAssumption DEF Init, StateInv, TypeOK, Sole, FetchCurrent, Idle,
   SinceInvalidation, PollsCurrent, Running, Valid, Nobody, IdleFetch, IdleTask

\* A read that begins alone, for the present generation, keeps the invariant.
LEMMA BeginsHolds ==
  ASSUME TypeOK, NEW f \in Fetches, NEW c \in Conns, NEW g \in 0..MaxGens,
         NEW who \in Askers, Begins(f, c, g, who)
  PROVE  /\ fetch' \in [Fetches -> {IdleFetch} \cup
               [st : {"running"}, of : Conns, gen : 0..MaxGens, by : Askers]]
         /\ fetch'[f] = [st |-> "running", of |-> c, gen |-> g, by |-> who]
         /\ \A h \in Fetches \ {f} : fetch'[h] = fetch[h]
         /\ pending' = f
BY DEF TypeOK, Begins

\* The timer, or a request that refreshes.
LEMMA PollHolds == ASSUME StateInv, Poll PROVE StateInv'
<1> USE DEF StateInv
<1>1. PICK f \in Fetches : Begins(f, conn, gen, "poll") BY DEF Poll
<1>2. /\ conn \in Conns /\ gen \in 0..MaxGens /\ "poll" \in Askers
      /\ UNCHANGED <<conn, caps, gen, cached, task, phase>>
      /\ phase = "running" /\ pending = NoFetch
  BY StateAssumption DEF Poll, TypeOK, Conns, Askers
<1>3. /\ fetch' \in [Fetches -> {IdleFetch} \cup
           [st : {"running"}, of : Conns, gen : 0..MaxGens, by : Askers]]
      /\ fetch'[f] = [st |-> "running", of |-> conn, gen |-> gen, by |-> "poll"]
      /\ \A h \in Fetches \ {f} : fetch'[h] = fetch[h]
      /\ pending' = f
  BY <1>1, <1>2, BeginsHolds
<1>4. TypeOK' BY <1>2, <1>3 DEF TypeOK
<1>5. Sole' BY <1>2, <1>3, StateAssumption DEF Sole, Running, Valid, TypeOK
<1>6. FetchCurrent' BY <1>2, <1>3 DEF FetchCurrent, Running, Valid
<1>7. (Idle /\ SinceInvalidation /\ PollsCurrent)'
  BY <1>2 DEF Idle, SinceInvalidation, PollsCurrent
<1> QED BY <1>4, <1>5, <1>6, <1>7

\* The end of a read: it writes only if it is the shared one.
LEMMA FetchEndsHolds ==
  ASSUME StateInv, NEW f \in Fetches, NEW connected \in BOOLEAN,
         FetchEnds(f, connected)
  PROVE  StateInv'
<1> USE DEF StateInv
<1>1. /\ fetch[f] \in [st : {"running"}, of : Conns, gen : 0..MaxGens, by : Askers]
      /\ fetch' = [fetch EXCEPT ![f] = IdleFetch]
      /\ pending' = IF pending = f THEN NoFetch ELSE pending
      /\ UNCHANGED <<conn, gen, task, phase>>
  <2>1. fetch[f].st = "running" BY DEF FetchEnds
  <2>2. fetch[f] \in {IdleFetch} \cup
          [st : {"running"}, of : Conns, gen : 0..MaxGens, by : Askers]
    BY DEF TypeOK
  <2> QED BY <2>1, <2>2 DEF FetchEnds, Shared, IdleFetch
<1>2. \/ UNCHANGED <<cached, caps>>
      \/ /\ Valid(f)
         /\ cached' = [of |-> fetch[f].of, gen |-> fetch[f].gen,
                       by |-> fetch[f].by]
         /\ caps' = [of |-> fetch[f].of, by |-> fetch[f].by] \/ caps' = caps
  BY DEF FetchEnds, Overview
<1>3. /\ cached' \in {Nobody} \cup [of : Conns, gen : 0..MaxGens, by : Askers]
      /\ caps' \in {Nobody} \cup [of : Conns, by : Askers]
  BY <1>1, <1>2 DEF TypeOK
<1>4. TypeOK'
  <2>1. fetch' \in [Fetches -> {IdleFetch} \cup
           [st : {"running"}, of : Conns, gen : 0..MaxGens, by : Askers]]
    BY <1>1 DEF TypeOK
  <2>2. pending' \in Fetches \cup {NoFetch} BY <1>1 DEF TypeOK
  <2>3. pending' # NoFetch => fetch'[pending'].st = "running"
    BY <1>1, StateAssumption DEF TypeOK
  <2> QED BY <1>1, <1>3, <2>1, <2>2, <2>3 DEF TypeOK
<1>5. Sole'
  <2>1. \A h \in Fetches : Running(h)' => h # f /\ fetch'[h] = fetch[h]
    BY <1>1 DEF Running, IdleFetch, TypeOK
  <2>2. pending' # NoFetch => pending' \in Fetches /\ pending' # f
                                /\ pending' = pending
    BY <1>1 DEF TypeOK
  <2>3. pending' # NoFetch => Valid(pending)'
    BY <2>2, <1>1 DEF Sole, Valid, TypeOK
  <2>4. \A h \in Fetches : Running(h)' => fetch'[h].gen <= gen'
    BY <2>1, <1>1 DEF Sole, Running
  <2>5. \A h \in Fetches : Running(h)' /\ Valid(h)' => pending' = h
    BY <2>1, <1>1 DEF Sole, Running, Valid
  <2> QED BY <2>3, <2>4, <2>5 DEF Sole
<1>6. FetchCurrent'
  <2>1. \A h \in Fetches : Running(h)' => fetch'[h] = fetch[h]
    BY <1>1 DEF Running, IdleFetch, TypeOK
  <2> QED BY <2>1, <1>1 DEF FetchCurrent, Running, Valid
<1>7. Idle' BY <1>1 DEF Idle
<1>8. SinceInvalidation'
  BY <1>1, <1>2 DEF SinceInvalidation, Valid
<1>9. PollsCurrent'
  <2>1. Valid(f) /\ fetch[f].by = "poll" => fetch[f].of = conn
    BY <1>1 DEF FetchCurrent, Running
  <2> QED BY <2>1, <1>1, <1>2 DEF PollsCurrent
<1> QED BY <1>4, <1>5, <1>6, <1>7, <1>8, <1>9

\* An invalidation leaves no read that may write.
LEMMA InvalidatedNoneValid ==
  ASSUME StateInv, Invalidated, UNCHANGED fetch
  PROVE  /\ gen' \in 0..MaxGens /\ cached' = Nobody
         /\ \A f \in Fetches : Running(f) => ~Valid(f)' /\ fetch[f].gen <= gen'
<1>1. gen \in Nat /\ gen' = gen + 1 /\ gen' \in 0..MaxGens /\ cached' = Nobody
  BY StateAssumption DEF StateInv, TypeOK, Invalidated
<1>2. \A f \in Fetches : Running(f) => fetch[f].gen \in Nat /\ fetch[f].gen <= gen
  BY DEF StateInv, Sole, TypeOK, Running, IdleFetch
<1> QED BY <1>1, <1>2 DEF Valid, Running

\* An edit, or the removal of the credential.
LEMMA EditHolds == ASSUME StateInv, Edit \/ ClearCredential PROVE StateInv'
<1> USE DEF StateInv
<1>1. /\ Invalidated /\ pending' = NoFetch /\ UNCHANGED <<fetch, task, phase>>
      /\ conn' \in 0..MaxEdits
      /\ phase = "running"
      /\ caps' = Nobody \/ (caps' = caps /\ conn' = conn)
  BY StateAssumption DEF Edit, ClearCredential, EditedCaps, TypeOK
<1>2. /\ gen' \in 0..MaxGens /\ cached' = Nobody
      /\ \A f \in Fetches : Running(f) => ~Valid(f)' /\ fetch[f].gen <= gen'
  BY <1>1, InvalidatedNoneValid
<1>3. TypeOK' BY <1>1, <1>2 DEF TypeOK
<1>4. Sole' BY <1>1, <1>2 DEF Sole, Running, Valid
<1>5. FetchCurrent' BY <1>1, <1>2 DEF FetchCurrent, Running, Valid
<1>6. (Idle /\ SinceInvalidation /\ PollsCurrent)'
  BY <1>1, <1>2 DEF Idle, SinceInvalidation, PollsCurrent
<1> QED BY <1>3, <1>4, <1>5, <1>6

\* A control request is done: an invalidation, and a read of the generation
\* after it.
LEMMA ControlDoneHolds ==
  ASSUME StateInv, NEW t \in Tasks, ControlDone(t) PROVE StateInv'
<1> USE DEF StateInv
<1>1. PICK f \in Fetches : Begins(f, task[t].of, gen', "control")
  BY DEF ControlDone
<1>2. /\ gen \in Nat /\ gen' = gen + 1 /\ gen' \in 0..MaxGens
      /\ cached' = Nobody
      /\ task[t] # IdleTask /\ task[t].of \in Conns
      /\ task' = [task EXCEPT ![t] = IdleTask]
      /\ UNCHANGED <<conn, caps, phase>>
  <2>1. task[t].pc = "changing" BY DEF ControlDone
  <2>2. task[t] \in [pc : {"probing", "changing", "testing"}, of : Conns]
    BY <2>1 DEF TypeOK, IdleTask
  <2>3. gen \in Nat /\ gen' = gen + 1 /\ gen' \in 0..MaxGens
    BY StateAssumption DEF ControlDone, Invalidated, TypeOK
  <2> QED BY <2>1, <2>2, <2>3 DEF ControlDone, Invalidated, IdleTask
<1>3. /\ fetch' \in [Fetches -> {IdleFetch} \cup
           [st : {"running"}, of : Conns, gen : 0..MaxGens, by : Askers]]
      /\ fetch'[f] = [st |-> "running", of |-> task[t].of, gen |-> gen',
                      by |-> "control"]
      /\ \A h \in Fetches \ {f} : fetch'[h] = fetch[h]
      /\ pending' = f
  <2>1. "control" \in Askers BY DEF Askers
  <2> QED BY <1>1, <1>2, <2>1, BeginsHolds
<1>4. \A h \in Fetches \ {f} : Running(h)' =>
         /\ fetch'[h].gen \in Nat /\ fetch'[h].gen <= gen
  BY <1>3 DEF Sole, TypeOK, Running, IdleFetch
<1>5. TypeOK' BY <1>2, <1>3 DEF TypeOK
<1>6. Sole'
  <2>1. \A h \in Fetches : Running(h)' => fetch'[h].gen <= gen'
    BY <1>2, <1>3, <1>4 DEF Running
  <2>2. \A h \in Fetches : Running(h)' /\ Valid(h)' => h = f
    BY <1>2, <1>4 DEF Valid
  <2>3. Valid(f)' BY <1>3 DEF Valid
  <2> QED BY <1>3, <2>1, <2>2, <2>3 DEF Sole, Valid
<1>7. FetchCurrent'
  <2>1. \A h \in Fetches : Running(h)' /\ Valid(h)' => h = f
    BY <1>2, <1>4 DEF Valid
  <2> QED BY <2>1, <1>3 DEF FetchCurrent
<1>8. (Idle /\ SinceInvalidation /\ PollsCurrent)'
  <2>1. phase = "running" BY <1>2 DEF Idle, TypeOK
  <2> QED BY <2>1, <1>2 DEF Idle, SinceInvalidation, PollsCurrent
<1> QED BY <1>5, <1>6, <1>7, <1>8

\* Requests that change no generation.
LEMMA TaskHolds ==
  ASSUME StateInv, NEW t \in Tasks,
         \/ ControlBegin(t) \/ ControlProbed(t) \/ TaskFails(t)
         \/ TestBegin(t) \/ TestAccepted(t)
  PROVE  StateInv'
<1> USE DEF StateInv
<1> DEFINE Busy == [pc : {"probing", "changing", "testing"}, of : Conns]
<1>1. UNCHANGED <<conn, gen, cached, fetch, pending, phase>>
  BY DEF ControlBegin, ControlProbed, TaskFails, TestBegin, TestAccepted
<1>2. task[t] # IdleTask => task[t] \in Busy BY DEF TypeOK
<1>3. phase # "running" => task[t] = IdleTask BY DEF Idle
<1>4. \/ phase = "running" /\ \E b \in Busy : task' = [task EXCEPT ![t] = b]
      \/ task' = [task EXCEPT ![t] = IdleTask]
  <2>1. CASE ControlBegin(t) \/ TestBegin(t)
    <3>1. conn \in Conns BY <2>1 DEF ControlBegin, TestBegin, TypeOK, Conns
    <3>2. [pc |-> IF Unknown THEN "probing" ELSE "changing", of |-> conn] \in Busy
      BY <3>1
    <3>3. [pc |-> "testing", of |-> conn] \in Busy BY <3>1
    <3> QED BY <2>1, <3>2, <3>3 DEF ControlBegin, TestBegin
  <2>2. CASE ControlProbed(t)
    <3>1. task[t].pc = "probing" BY <2>2 DEF ControlProbed
    <3>2. task[t] \in Busy BY <3>1 DEF TypeOK, IdleTask
    <3>3. [task[t] EXCEPT !.pc = "changing"] \in Busy BY <3>2
    <3>4. phase = "running" BY <3>1, <3>2, <1>3 DEF IdleTask, TypeOK
    <3> QED BY <2>2, <3>3, <3>4 DEF ControlProbed
  <2>3. CASE TaskFails(t) \/ TestAccepted(t)
    BY <2>3 DEF TaskFails, TestAccepted, Probed
  <2> QED BY <2>1, <2>2, <2>3
<1>5. task' \in [Tasks -> {IdleTask} \cup Busy] BY <1>4 DEF TypeOK
<1>6. /\ caps' \in {Nobody} \cup [of : Conns, by : Askers]
      /\ caps' = caps \/ (caps' # Nobody => caps'.by # "poll")
  <2>1. CASE TestAccepted(t)
    <3>1. task[t].pc = "testing" BY <2>1 DEF TestAccepted
    <3>2. task[t].of \in Conns BY <3>1 DEF TypeOK, IdleTask
    <3> QED BY <2>1, <3>2 DEF TestAccepted, Probed, Askers
  <2>2. CASE caps' = caps BY <2>2 DEF TypeOK
  <2> QED BY <2>1, <2>2 DEF ControlBegin, ControlProbed, TaskFails, TestBegin
<1>7. TypeOK' BY <1>1, <1>5, <1>6 DEF TypeOK
<1>8. (Sole /\ FetchCurrent)'
  BY <1>1 DEF Sole, FetchCurrent, Running, Valid
<1>9. Idle' BY <1>1, <1>4 DEF Idle, TypeOK
<1>10. (SinceInvalidation /\ PollsCurrent)'
  BY <1>1, <1>6 DEF SinceInvalidation, PollsCurrent
<1> QED BY <1>7, <1>8, <1>9, <1>10

\* The shut-down.
LEMMA StopHolds ==
  ASSUME StateInv, Stop \/ Stopped \/ UNCHANGED vars PROVE StateInv'
BY DEF StateInv, Stop, Stopped, vars, Settled, TypeOK, Sole, FetchCurrent, Idle,
   SinceInvalidation, PollsCurrent, Running, Valid

\* Every step keeps it.
LEMMA StepHolds == ASSUME StateInv, [Next]_vars PROVE StateInv'
BY PollHolds, FetchEndsHolds, EditHolds, ControlDoneHolds, TaskHolds, StopHolds
   DEF Next

\* So it always holds.
THEOREM StateInvariant == Spec => []StateInv
<1>1. Init => StateInv BY InitHolds
<1>2. StateInv /\ [Next]_vars => StateInv' BY StepHolds
<1> QED BY <1>1, <1>2, PTL DEF Spec

\* fetchSnapshot() (state.ts:81-84): the status shown was fetched after the last
\* invalidation.
THEOREM NothingFromBefore == Spec => []SinceInvalidation
<1>1. StateInv => SinceInvalidation BY DEF StateInv
<1> QED BY <1>1, StateInvariant, PTL

\* The timer never writes what it learnt of a connection edited since.
THEOREM PollsStayCurrent == Spec => []PollsCurrent
<1>1. StateInv => PollsCurrent BY DEF StateInv
<1> QED BY <1>1, StateInvariant, PTL

\* refresh() (state.ts:67-75): one read at a time for the present generation.
THEOREM OneAtATime == Spec => []OneValidFetch
<1>1. StateInv => OneValidFetch
  BY DEF StateInv, Sole, Running, OneValidFetch
<1> QED BY <1>1, StateInvariant, PTL

\* stop() (state.ts:152-158): the store is closed for good.
THEOREM QuietAfterStop == Spec => StoppedQuiet
<1>1. StateInv /\ [Next]_vars => [phase = "stopped" => UNCHANGED <<caps, cached>>]_vars
  <2> SUFFICES ASSUME StateInv, Next, phase = "stopped"
      PROVE  UNCHANGED <<caps, cached>>
    BY DEF vars
  <2>1. /\ pending = NoFetch
        /\ \A t \in Tasks : task[t] = IdleTask
    BY DEF StateInv, Idle
  <2>2. ~Poll /\ ~Edit /\ ~ClearCredential /\ ~Stop /\ ~Stopped
    BY DEF Poll, Edit, ClearCredential, Stop, Stopped
  <2>3. ASSUME NEW f \in Fetches, NEW connected \in BOOLEAN,
               FetchEnds(f, connected)
        PROVE  UNCHANGED <<caps, cached>>
    <3>1. ~Valid(f)
      BY <2>1, <2>3, StateAssumption DEF StateInv, Sole, Running, FetchEnds
    <3> QED BY <2>3, <3>1 DEF FetchEnds
  <2>4. ASSUME NEW t \in Tasks
        PROVE  /\ ~ControlProbed(t) /\ ~ControlDone(t) /\ ~TaskFails(t)
               /\ ~TestAccepted(t) /\ ~ControlBegin(t) /\ ~TestBegin(t)
    BY <2>1 DEF ControlProbed, ControlDone, TaskFails, TestAccepted,
                ControlBegin, TestBegin, IdleTask
  <2> QED BY <2>2, <2>3, <2>4 DEF Next
<1> QED BY <1>1, StateInvariant, PTL DEF Spec, StoppedQuiet

\* What credentialFor() hands out is of the saved connection.
LEMMA HandedOut ==
  ASSUME KeptScoped
  PROVE  CredentialFor \in {NoCred, saved}
BY DEF KeptScoped, CredentialFor

\* An edit: a credential that is kept was entered with it, or for the same
\* connection before.
LEMMA SaveScoped ==
  ASSUME KeptScoped, NEW target \in Targets, NEW save \in BOOLEAN, NEW given \in BOOLEAN,
         SaveConnection(target, save, given)
  PROVE  KeptScoped'
<1> DEFINE new  == CredentialFromBody(target, given)
           mine == IF Scoped(target) THEN CredentialFor ELSE NoCred
<1>1. saved' = target
  BY DEF SaveConnection
<1>2. new \in {NoCred, target}
  BY DEF CredentialFromBody
<1>3. mine \in {NoCred, target}
  BY HandedOut DEF Scoped
<1>4. memory' \in {NoCred, target}
  <2>1. memory' = IF save \/ target.mode = "none" THEN NoCred ELSE Other(new, mine)
    BY DEF SaveConnection
  <2> QED BY <2>1, <1>2, <1>3 DEF Other
<1>5. stored' \in {NoCred, target}
  <2>1. CASE ~save \/ target.mode = "none"
    BY <2>1 DEF SaveConnection
  <2>2. CASE save /\ target.mode # "none"
    <3>1. stored' = Other(new, stored)
      BY <2>2 DEF SaveConnection
    <3>2. CASE new = NoCred
      <4>1. Scoped(target) /\ stored # NoCred
        BY <2>2, <3>2 DEF SaveConnection
      <4> QED BY <4>1, <3>1, <3>2 DEF Other, Scoped, KeptScoped
    <3>3. CASE new # NoCred
      BY <3>1, <3>3, <1>2 DEF Other
    <3> QED BY <3>2, <3>3
  <2> QED BY <2>1, <2>2
<1> QED BY <1>1, <1>4, <1>5 DEF KeptScoped

\* Requests to Gluetun change nothing that is kept.
LEMMA CallsKeep ==
  ASSUME KeptScoped, NEW t \in Calls,
         \/ PreviewResolved(t) \/ ControlSends(t) \/ ControlFetches(t) \/ CallEnds(t)
         \/ \E given \in BOOLEAN :
              \/ TestSends(t, given)
              \/ \E target \in Targets : PreviewBegin(t, target, given)
  PROVE  KeptScoped'
<1>1. UNCHANGED <<saved, stored, memory>>
  BY DEF PreviewResolved, ControlSends, ControlFetches, CallEnds, TestSends, PreviewBegin
<1> QED BY <1>1 DEF KeptScoped

\* KeptScoped (api.ts, "Credentials are scoped to their destination and
\* authentication mode") for every set of destinations, modes and requests,
\* across restarts of the process.
THEOREM CredentialsScoped == ConnectionSpec => []KeptScoped
<1>1. ConnectionInit => KeptScoped
  BY DEF ConnectionInit, KeptScoped
<1>2. KeptScoped /\ [ConnectionNext \/ Forgotten]_connection => KeptScoped'
  <2> SUFFICES ASSUME KeptScoped, [ConnectionNext \/ Forgotten]_connection
               PROVE  KeptScoped'
    OBVIOUS
  <2>1. CASE ForgetCredential \/ Forgotten
    BY <2>1 DEF ForgetCredential, Forgotten, KeptScoped
  <2>2. CASE UNCHANGED connection
    BY <2>2 DEF connection, KeptScoped
  <2> QED BY <2>1, <2>2, SaveScoped, CallsKeep DEF ConnectionNext
<1> QED BY <1>1, <1>2, PTL DEF ConnectionSpec

-----------------------------------------------------------------------------
(* Traffic.                                                                *)

\* What is attributed: a poll counts in the container that its address leads
\* to, unless one was restarted, and what it has counted is later than the last
\* sample, which is the one that is shown, unless the clock was set back.
Troubles == restarts \in Nat /\ backs \in Nat /\ clock \in Int
Sampled == sample # NoSample =>
             sample.at \in Int /\ (restarts = 0 => sample.url = sample.under)
ShownSampled == backs = 0 /\ identity # NoUrl => sample.url = identity
Counts == poll.pc = "counting" /\ restarts = 0 => at[poll.id] = poll.url
Records == poll.pc = "recording" =>
  /\ poll.at \in Int /\ {"at", "url", "under"} \subseteq DOMAIN poll
  /\ restarts = 0 => poll.url = poll.under
  /\ backs = 0 => ~Late(poll)
Attributed == Troubles /\ Sampled /\ ShownSampled /\ Counts /\ Records

\* At first nothing is.
LEMMA TrafficStart == TrafficInit => Attributed
BY DEF TrafficInit, Attributed, Troubles, Sampled, ShownSampled, Counts, Records,
       IdlePoll

\* The world restarts containers and sets the clock back, and counts both.
LEMMA WorldHolds == ASSUME Attributed, World PROVE Attributed'
<1>1. UNCHANGED <<sample, identity, poll>>
  BY DEF World
<1>2. /\ Troubles'
      /\ restarts' = 0 => restarts = 0 /\ at' = at
      /\ backs' = 0 => backs = 0
  <2>0. restarts \in Nat /\ backs \in Nat /\ clock \in Int
    BY DEF Attributed, Troubles
  <2>1. ASSUME UNCHANGED <<clock, backs, at, restarts>>
        PROVE  /\ Troubles'
               /\ restarts' = 0 => restarts = 0 /\ at' = at
               /\ backs' = 0 => backs = 0
    BY <2>0, <2>1 DEF Troubles
  <2>2. ASSUME NEW c \in Containers, Moves(c)
        PROVE  UNCHANGED <<clock, backs, at, restarts>>
    BY <2>2, Zenon DEF Moves
  <2>3. ASSUME NEW cs \in SUBSET Containers, Replaced(cs)
        PROVE  UNCHANGED <<clock, backs, at, restarts>>
    BY <2>3 DEF Replaced
  <2>4. ASSUME NEW c \in Containers, NEW u \in Urls, Restarts(c, u)
        PROVE  Troubles' /\ restarts' # 0 /\ backs' = backs
    BY <2>0, <2>4 DEF Restarts, Troubles
  <2>5. CASE Passes \/ SetBack
    BY <2>0, <2>5 DEF Passes, SetBack, Troubles
  <2> QED
    BY <2>1, <2>2, <2>3, <2>4, <2>5 DEF World
<1>3. Late(poll)' = Late(poll)
  BY <1>1 DEF Late
<1> QED
  BY <1>1, <1>2, <1>3 DEF Attributed, Sampled, ShownSampled, Counts, Records

\* A poll that ends without a sample shows nothing.
LEMMA ThrowsHolds == ASSUME Attributed, Throws, UNCHANGED env PROVE Attributed'
BY DEF Throws, env, Attributed, Troubles, Sampled, ShownSampled, Counts, Records,
       IdlePoll

\* A sample is recorded with the address that it was counted for.
LEMMA RecordsHolds == ASSUME Attributed, PollRecords PROVE Attributed'
<1>1. poll.pc = "recording" /\ UNCHANGED <<env, row>>
  BY DEF PollRecords
<1>2. CASE Throws
  BY <1>1, <1>2, ThrowsHolds
<1>3. CASE Recorded(poll) /\ identity' = poll.url /\ poll' = IdlePoll
  <2>1. /\ poll.at \in Int /\ {"at", "url", "under"} \subseteq DOMAIN poll
        /\ restarts = 0 => poll.url = poll.under
        /\ backs = 0 => ~Late(poll)
    BY <1>1 DEF Attributed, Records
  <2>2. Troubles' /\ Counts' /\ Records'
    BY <1>1, <1>3 DEF Attributed, Troubles, Counts, Records, IdlePoll, env
  <2>3. CASE Late(poll)
    <3>1. backs # 0 /\ sample' = sample
      BY <1>3, <2>1, <2>3 DEF Recorded
    <3> QED
      BY <1>1, <2>2, <3>1 DEF Attributed, Sampled, ShownSampled, env
  <2>4. CASE ~Late(poll)
    <3>1. sample' = [f \in DOMAIN poll \ {"pc"} |-> poll[f]]
      BY <1>3, <2>4 DEF Recorded
    <3>2. sample'.at = poll.at /\ sample'.url = poll.url /\ sample'.under = poll.under
      BY <2>1, <3>1
    <3> QED
      BY <1>1, <1>3, <2>1, <2>2, <3>2 DEF Attributed, Sampled, ShownSampled, env
  <2> QED
    BY <2>3, <2>4
<1> QED
  BY <1>2, <1>3 DEF PollRecords

\* Every step of the world, of the owner and of the poll keeps it.
LEMMA TrafficStep == Attributed /\ [TrafficNext]_trafficVars => Attributed'
<1> SUFFICES ASSUME Attributed, [TrafficNext]_trafficVars PROVE Attributed'
  OBVIOUS
<1>1. ASSUME UNCHANGED <<env, sample, identity, poll>> PROVE Attributed'
  BY <1>1 DEF env, Attributed, Troubles, Sampled, ShownSampled, Counts, Records, Late
<1>2. ASSUME NEW u \in Urls, EditAddress(u) PROVE Attributed'
  BY <1>1, <1>2 DEF EditAddress
<1>3. CASE PollBegin
  <2>1. CASE Throws
    BY <1>3, <2>1, ThrowsHolds DEF PollBegin
  <2>2. CASE poll' = [pc |-> "inspecting", url |-> row] /\ UNCHANGED <<env, sample, identity>>
    BY <2>2 DEF env, Attributed, Troubles, Sampled, ShownSampled, Counts, Records
  <2> QED
    BY <1>3, <2>1, <2>2 DEF PollBegin
<1>4. CASE PollInspects
  <2>1. PICK c \in Containers :
          /\ at[c] = poll.url
          /\ poll' = [pc |-> "counting", url |-> poll.url, id |-> c]
    BY <1>4 DEF PollInspects, Matches
  <2> QED
    BY <1>4, <2>1 DEF PollInspects, env, Attributed, Troubles, Sampled, ShownSampled,
       Counts, Records
<1>5. CASE PollCounts
  <2>1. PICK c \in Containers :
          /\ c = poll.id
          /\ poll' = [pc |-> "recording", url |-> poll.url, under |-> at[c],
                      id |-> c, rx |-> rx[c], at |-> clock, moved |-> moved[c]]
    BY <1>5 DEF PollCounts, Same
  <2>2. /\ poll.pc = "counting" /\ UNCHANGED <<env, sample, identity>>
        /\ sample # NoSample /\ backs = 0 => clock > sample.at
    BY <1>5 DEF PollCounts
  <2>3. /\ poll'.at = clock /\ poll'.url = poll.url /\ poll'.under = at[poll.id]
        /\ poll'.pc = "recording" /\ {"at", "url", "under"} \subseteq DOMAIN poll'
    BY <2>1
  <2>4. clock \in Int /\ (sample # NoSample => sample.at \in Int)
    BY DEF Attributed, Troubles, Sampled
  <2>5. backs = 0 => ~Late(poll)'
    BY <2>2, <2>3, <2>4 DEF Late
  <2>6. restarts = 0 => poll'.url = poll'.under
    BY <2>2, <2>3 DEF Attributed, Counts
  <2>7. Records'
    BY <2>2, <2>3, <2>4, <2>5, <2>6 DEF Records, env
  <2> QED
    BY <2>2, <2>3, <2>7 DEF env, Attributed, Troubles, Sampled, ShownSampled, Counts
<1>6. CASE PollFails
  BY <1>6, ThrowsHolds DEF PollFails
<1>7. CASE PollRecords
  BY <1>7, RecordsHolds
<1>8. CASE Restart
  BY <1>8 DEF Restart, env, Attributed, Troubles, Sampled, ShownSampled, Counts, Records,
     IdlePoll
<1>9. CASE UNCHANGED trafficVars
  BY <1>1, <1>9 DEF trafficVars
<1> QED
  BY <1>2, <1>3, <1>4, <1>5, <1>6, <1>7, <1>8, <1>9, WorldHolds DEF TrafficNext

\* Traffic is attributed to the connection that it was counted for, whatever
\* is edited, replaced or restarted during a poll (state.ts:124-144,
\* db.ts:382-431, state.ts:98-103).
THEOREM TrafficAttributed == TrafficSpec => []TrafficOfSaved
<1>1. Attributed => TrafficOfSaved
  BY DEF Attributed, Sampled, ShownSampled, TrafficOfSaved, Available
<1> QED
  BY <1>1, TrafficStart, TrafficStep, PTL DEF TrafficSpec

-----------------------------------------------------------------------------
(* What the traffic adds up to.                                            *)

\* The greater of two times, and the lesser.
LEMMA MaxOfTwo ==
  ASSUME NEW a \in Int, NEW b \in Int
  PROVE  Max({a, b}) = IF a >= b THEN a ELSE b
<1> DEFINE m == IF a >= b THEN a ELSE b
<1>1. m \in {a, b} /\ \A y \in {a, b} : m >= y
  OBVIOUS
<1>2. \A x \in {a, b} : (\A y \in {a, b} : x >= y) => x = m
  OBVIOUS
<1> HIDE DEF m
<1>3. Max({a, b}) = m
  BY <1>1, <1>2 DEF Max
<1> QED
  BY <1>3 DEF m

\* Likewise.
LEMMA MinOfTwo ==
  ASSUME NEW a \in Int, NEW b \in Int
  PROVE  Min({a, b}) = IF a <= b THEN a ELSE b
<1> DEFINE m == IF a <= b THEN a ELSE b
<1>1. m \in {a, b} /\ \A y \in {a, b} : m <= y
  OBVIOUS
<1>2. \A x \in {a, b} : (\A y \in {a, b} : x <= y) => x = m
  OBVIOUS
<1> HIDE DEF m
<1>3. Min({a, b}) = m
  BY <1>1, <1>2 DEF Min
<1> QED
  BY <1>3 DEF m

\* What is received by a later time is no less.
LEMMA ByGrows ==
  ASSUME NEW bytes \in Nat, NEW s \in Int, NEW e \in Int, s < e,
         NEW t \in Int, NEW u \in Int, t <= u
  PROVE  /\ By(bytes, s, e, t) \in Int /\ By(bytes, s, e, t) <= By(bytes, s, e, u)
         /\ By(bytes, s, e, s) = 0 /\ By(bytes, s, e, e) = bytes
<1> DEFINE k == e - s
           x == bytes * (t - s)
           y == bytes * (u - s)
<1>1. k \in Int /\ k > 0 /\ x \in Int /\ y \in Int
  OBVIOUS
<1>2. x <= y
  <2>1. t - s \in Int /\ u - s \in Int /\ t - s <= u - s
    OBVIOUS
  <2>2. \A n \in Nat, a, b \in Int : a <= b => n * a <= n * b
    OBVIOUS
  <2> QED
    BY <2>1, <2>2
<1>3. \A a, b \in Int : a <= b => a \div k <= b \div k
  <2> HIDE DEF k
  <2> QED
    BY <1>1
<1>4. \A n \in Int : (n * k) \div k = n
  <2> HIDE DEF k
  <2> QED
    BY <1>1
<1>5. x \div k \in Int /\ x \div k <= y \div k
  <2> HIDE DEF x, y, k
  <2> QED
    BY <1>1, <1>2, <1>3
<1>6. By(bytes, s, e, s) = 0
  <2>1. bytes * (s - s) = 0 * k
    OBVIOUS
  <2> QED
    BY <1>4, <2>1 DEF By
<1>7. By(bytes, s, e, e) = bytes
  BY <1>4 DEF By
<1> QED
  BY <1>5, <1>6, <1>7 DEF By

\* Induction over the natural numbers, for the elements of a set.
LEMMA AllNumbers ==
  ASSUME NEW S, 0 \in S, \A n \in Nat : n \in S => n + 1 \in S
  PROVE  Nat \subseteq S
<1> DEFINE T == Nat \ S
<1> SUFFICES ASSUME T # {} PROVE FALSE
  OBVIOUS
<1>1. PICK n \in T : \A m \in T : ~(<<m, n>> \in OpToRel(<, Nat))
  <2>1. T \subseteq Nat
    OBVIOUS
  <2> HIDE DEF T
  <2> QED
    BY <2>1, NatLessThanWellFounded, WFMin
<1>2. n \in Nat /\ n # 0
  OBVIOUS
<1>3. n - 1 \in Nat /\ n - 1 < n
  BY <1>2
<1>4. n - 1 \notin T
  BY <1>1, <1>2, <1>3 DEF OpToRel
<1> QED
  BY <1>2, <1>3, <1>4

\* There is a last day, and no sample is later than it.
LEMMA LastDay ==
  /\ DayOf(MaxClock) \in Nat /\ MaxClock \in Nat /\ Day \in Nat /\ Day > 0
  /\ MaxClock < (DayOf(MaxClock) + 1) * Day
  /\ \A d \in AllDays : d \in Nat /\ d <= DayOf(MaxClock)
  /\ 0 \in AllDays
<1>1. Day \in Nat /\ Day > 0 /\ MaxClock \in Nat
  BY TrafficAssumption
<1>2. MaxClock \div Day \in Nat /\ MaxClock < (MaxClock \div Day + 1) * Day
  BY <1>1
<1> QED
  BY <1>1, <1>2 DEF DayOf, AllDays

\* f has the sums of g up to each day.
Adds(g, f) == /\ f \in [AllDays -> Int] /\ f[0] = g[0]
              /\ \A d \in AllDays \ {0} : f[d] = f[d - 1] + g[d]
\* The recursion in Total has a solution, which gives its value.
LEMMA TotalSolved ==
  ASSUME NEW g, \A d \in AllDays : g[d] \in Int
  PROVE  \E f : Adds(g, f) /\ Total(g) = f[DayOf(MaxClock)]
<1> DEFINE N == DayOf(MaxClock)
           Solves(f, m) == f = [d \in 0..m |-> IF d = 0 THEN g[0] ELSE f[d - 1] + g[d]]
           T == {m \in Nat : m <= N => \E f : Solves(f, m) /\ f \in [0..m -> Int]}
<1>0. N \in Nat /\ AllDays = 0..N
  BY LastDay DEF AllDays
<1>1. 0 \in T
  <2>1. Solves([d \in 0..0 |-> g[0]], 0) /\ [d \in 0..0 |-> g[0]] \in [0..0 -> Int]
    BY <1>0
  <2> QED
    BY <2>1
<1>2. ASSUME NEW m \in Nat, m \in T PROVE m + 1 \in T
  <2> SUFFICES ASSUME m + 1 <= N
               PROVE  \E f : Solves(f, m + 1) /\ f \in [0..(m + 1) -> Int]
    OBVIOUS
  <2>0. PICK f : Solves(f, m) /\ f \in [0..m -> Int]
    BY <1>0, <1>2
  <2>1. \A d \in 0..m : f[d] = IF d = 0 THEN g[0] ELSE f[d - 1] + g[d]
    BY <2>0
  <2> DEFINE h == [d \in 0..(m + 1) |-> IF d \in 0..m THEN f[d] ELSE f[m] + g[d]]
  <2>2. ASSUME NEW d \in 0..(m + 1)
        PROVE  h[d] = (IF d = 0 THEN g[0] ELSE h[d - 1] + g[d]) /\ h[d] \in Int
    <3>1. CASE d = 0
      BY <1>0, <2>0, <2>1, <3>1
    <3>2. CASE d \in 1..m
      BY <2>0, <2>1, <3>2
    <3>3. CASE d = m + 1
      <4>1. g[d] \in Int /\ f[m] \in Int /\ d \notin 0..m /\ d # 0 /\ d - 1 = m /\ m \in 0..m
        BY <1>0, <2>0, <3>3
      <4> QED
        BY <4>1
    <3> QED
      BY <3>1, <3>2, <3>3
  <2>3. Solves(h, m + 1) /\ h \in [0..(m + 1) -> Int]
    BY <2>2
  <2> HIDE DEF h, Solves
  <2> QED
    BY <2>3
<1> HIDE DEF T
<1>3. N \in T
  BY <1>0, <1>1, <1>2, AllNumbers
<1>4. \E f : Solves(f, N)
  BY <1>0, <1>3 DEF T
<1> DEFINE sum == CHOOSE f : Solves(f, N)
<1>5. Solves(sum, N)
  <2> HIDE DEF Solves
  <2> QED
    BY <1>4
<1>6. Total(g) = sum[N]
  BY <1>0 DEF Total
<1> HIDE DEF sum
<1>7. /\ \A d \in 0..N : sum[d] = IF d = 0 THEN g[0] ELSE sum[d - 1] + g[d]
      /\ sum = [d \in 0..N |-> sum[d]]
  BY <1>5
<1> DEFINE Z == {d \in Nat : d <= N => sum[d] \in Int}
<1>8. 0 \in Z
  <2>1. 0 \in 0..N /\ g[0] \in Int
    BY <1>0
  <2>2. sum[0] = g[0]
    BY <1>7, <2>1
  <2> HIDE DEF sum, N, Solves
  <2> QED
    BY <2>1, <2>2
<1>9. ASSUME NEW d \in Nat, d \in Z PROVE d + 1 \in Z
  <2> SUFFICES ASSUME d + 1 <= N PROVE sum[d + 1] \in Int
    OBVIOUS
  <2>1. d + 1 \in 0..N /\ d + 1 # 0 /\ sum[d] \in Int /\ g[d + 1] \in Int
    BY <1>0, <1>9
  <2>2. sum[d + 1] = sum[(d + 1) - 1] + g[d + 1]
    BY <1>7, <2>1
  <2>3. (d + 1) - 1 = d
    OBVIOUS
  <2> QED
    BY <2>1, <2>2, <2>3
<1> HIDE DEF Z
<1>10. \A d \in 0..N : d \in Z
  BY <1>0, <1>8, <1>9, AllNumbers
<1>11. \A d \in 0..N : sum[d] \in Int
  BY <1>10 DEF Z
<1> HIDE DEF N
<1>12. sum \in [AllDays -> Int]
  BY <1>0, <1>7, <1>11
<1>13. Adds(g, sum)
  BY <1>0, <1>7, <1>12 DEF Adds
<1> QED
  BY <1>6, <1>13 DEF N

\* What holds of the first day, and of a day if it does of the one before.
LEMMA EachDay ==
  ASSUME NEW Z, 0 \in Z, \A d \in AllDays \ {0} : d - 1 \in Z => d \in Z
  PROVE  \A d \in AllDays : d \in Z
<1> DEFINE T == {n \in Nat : n \in AllDays => n \in Z}
<1>1. 0 \in T
  OBVIOUS
<1>2. ASSUME NEW n \in Nat, n \in T PROVE n + 1 \in T
  BY <1>2, LastDay DEF AllDays
<1> HIDE DEF T
<1>3. Nat \subseteq T
  BY <1>1, <1>2, AllNumbers
<1> QED
  BY <1>3, LastDay DEF T

\* What is added on each day is added in total.
LEMMA TotalAdds ==
  ASSUME NEW g, NEW h, NEW k,
         \A d \in AllDays : g[d] \in Int /\ h[d] \in Int /\ k[d] \in Int
  PROVE  /\ Total(k) \in Int /\ Total(g) \in Int /\ Total(h) \in Int
         /\ (\A d \in AllDays : k[d] <= g[d] + h[d]) => Total(k) <= Total(g) + Total(h)
         /\ (\A d \in AllDays : k[d] = g[d] + h[d]) => Total(k) = Total(g) + Total(h)
<1>1. PICK a : Adds(g, a) /\ Total(g) = a[DayOf(MaxClock)]
  BY TotalSolved
<1>2. PICK b : Adds(h, b) /\ Total(h) = b[DayOf(MaxClock)]
  BY TotalSolved
<1>3. PICK c : Adds(k, c) /\ Total(k) = c[DayOf(MaxClock)]
  BY TotalSolved
<1>4. \A d \in AllDays : /\ a[d] \in Int /\ b[d] \in Int /\ c[d] \in Int
                         /\ d # 0 => d - 1 \in AllDays
  <2>1. \A d \in AllDays : d # 0 => d - 1 \in AllDays
    BY LastDay DEF AllDays
  <2> QED
    BY <1>1, <1>2, <1>3, <2>1 DEF Adds
<1>5. DayOf(MaxClock) \in AllDays
  BY LastDay DEF AllDays
<1>6. ASSUME \A d \in AllDays : k[d] <= g[d] + h[d]
      PROVE  Total(k) <= Total(g) + Total(h)
  <2> DEFINE Z == {d \in AllDays : c[d] <= a[d] + b[d]}
  <2>1. 0 \in Z
    BY <1>1, <1>2, <1>3, <1>6, LastDay DEF Adds
  <2>2. ASSUME NEW d \in AllDays \ {0}, d - 1 \in Z PROVE d \in Z
    <3>1. /\ a[d] = a[d - 1] + g[d] /\ b[d] = b[d - 1] + h[d] /\ c[d] = c[d - 1] + k[d]
          /\ c[d - 1] <= a[d - 1] + b[d - 1] /\ k[d] <= g[d] + h[d] /\ d - 1 \in AllDays
      BY <1>1, <1>2, <1>3, <1>6, <2>2 DEF Adds
    <3>2. c[d] <= a[d] + b[d]
      BY <1>4, <3>1
    <3> QED
      BY <3>2
  <2> HIDE DEF Z
  <2>3. \A d \in AllDays : d \in Z
    BY <2>1, <2>2, EachDay
  <2> QED
    BY <1>1, <1>2, <1>3, <1>5, <2>3 DEF Z
<1>7. ASSUME \A d \in AllDays : k[d] = g[d] + h[d]
      PROVE  Total(k) = Total(g) + Total(h)
  <2> DEFINE Z == {d \in AllDays : c[d] = a[d] + b[d]}
  <2>1. 0 \in Z
    BY <1>1, <1>2, <1>3, <1>7, LastDay DEF Adds
  <2>2. ASSUME NEW d \in AllDays \ {0}, d - 1 \in Z PROVE d \in Z
    <3>1. /\ a[d] = a[d - 1] + g[d] /\ b[d] = b[d - 1] + h[d] /\ c[d] = c[d - 1] + k[d]
          /\ c[d - 1] = a[d - 1] + b[d - 1] /\ k[d] = g[d] + h[d] /\ d - 1 \in AllDays
      BY <1>1, <1>2, <1>3, <1>7, <2>2 DEF Adds
    <3>2. c[d] = a[d] + b[d]
      BY <1>4, <3>1
    <3> QED
      BY <3>2
  <2> HIDE DEF Z
  <2>3. \A d \in AllDays : d \in Z
    BY <2>1, <2>2, EachDay
  <2> QED
    BY <1>1, <1>2, <1>3, <1>5, <2>3 DEF Z
<1> QED
  BY <1>1, <1>2, <1>3, <1>4, <1>5, <1>6, <1>7

\* A function that is zero everywhere adds up to zero.
LEMMA TotalOfNothing ==
  ASSUME NEW g, \A d \in AllDays : g[d] = 0 PROVE Total(g) = 0
<1>1. Total(g) = Total(g) + Total(g) /\ Total(g) \in Int
  BY TotalAdds
<1>2. \A n \in Int : n = n + n => n = 0
  OBVIOUS
<1> QED
  BY <1>1, <1>2

\* Differences add up to the difference of the ends.
LEMMA TotalTelescopes ==
  ASSUME NEW g, NEW v,
         \A d \in AllDays : v[d] \in Int /\ v[d + 1] \in Int /\ g[d] = v[d + 1] - v[d]
  PROVE  Total(g) = v[DayOf(MaxClock) + 1] - v[0]
<1>1. PICK a : Adds(g, a) /\ Total(g) = a[DayOf(MaxClock)]
  BY TotalSolved
<1> DEFINE Z == {d \in AllDays : a[d] = v[d + 1] - v[0]}
<1>2. 0 \in Z
  BY <1>1, LastDay DEF Adds
<1>3. ASSUME NEW d \in AllDays \ {0}, d - 1 \in Z PROVE d \in Z
  <2>1. /\ a[d] = a[d - 1] + g[d] /\ a[d - 1] = v[d] - v[0] /\ g[d] = v[d + 1] - v[d]
        /\ v[0] \in Int /\ v[d] \in Int /\ v[d + 1] \in Int
    <3>1. d \in Nat /\ (d - 1) + 1 = d
      BY LastDay
    <3> QED
      BY <1>1, <1>3, <3>1, LastDay DEF Adds
  <2>2. a[d] = v[d + 1] - v[0]
    BY <2>1
  <2> QED
    BY <2>2
<1> HIDE DEF Z
<1>4. \A d \in AllDays : d \in Z
  BY <1>2, <1>3, EachDay
<1>5. DayOf(MaxClock) \in AllDays
  BY LastDay DEF AllDays
<1> QED
  BY <1>1, <1>4, <1>5 DEF Z

\* What a delta adds to the days is never negative, and in total it is the
\* delta, unless a part of it is too old (daily.ts:6-22).
LEMMA AllocatedTotal ==
  ASSUME NEW bytes \in Nat, NEW s \in 0..MaxClock, NEW e \in 0..MaxClock, s < e,
         Cutoff \in Int, NEW a, a = Allocated(bytes, s, e)
  PROVE  /\ \A d \in AllDays : a[d] \in Nat
         /\ Total(a) \in Int /\ Total(a) <= bytes
         /\ Cutoff <= 0 => Total(a) = bytes
<1> DEFINE from == Max({s, Cutoff * Day})
           N == DayOf(MaxClock)
           B(t) == By(bytes, s, e, t)
           clamp(t) == IF t >= e THEN IF from >= e THEN from ELSE e
                       ELSE IF from >= t THEN from ELSE t
           v == [d \in 0..(N + 1) |-> B(clamp(d * Day))]
<1>0. /\ N \in Nat /\ Day \in Nat /\ Day > 0 /\ s \in Int /\ e \in Int /\ 0 <= s
      /\ e < (N + 1) * Day /\ AllDays = 0..N
  BY LastDay DEF AllDays
<1>1. from \in Int /\ from = IF s >= Cutoff * Day THEN s ELSE Cutoff * Day
  BY <1>0, MaxOfTwo
<1>2. s <= from /\ (Cutoff <= 0 => from = s)
  <2>1. Cutoff <= 0 => Cutoff * Day <= 0
    BY <1>0
  <2> QED
    BY <1>0, <1>1, <2>1
<1> HIDE DEF from
<1>3. ASSUME NEW t \in Int, NEW u \in Int, t <= u
      PROVE  /\ B(t) \in Int /\ B(u) \in Int /\ B(t) <= B(u) /\ B(s) = 0 /\ B(e) = bytes
  <2>1. B(t) \in Int /\ B(t) <= B(u) /\ B(s) = 0 /\ B(e) = bytes
    BY <1>0, <1>3, ByGrows
  <2>2. B(u) \in Int
    <3>1. u <= u
      OBVIOUS
    <3> QED
      BY <1>0, <3>1, ByGrows
  <2> QED
    BY <2>1, <2>2
<1>4. \A d \in 0..(N + 1) : d * Day \in Int /\ clamp(d * Day) \in Int
  BY <1>0, <1>1
<1>5. ASSUME NEW d \in AllDays
      PROVE  /\ a[d] = B(clamp((d + 1) * Day)) - B(clamp(d * Day))
             /\ clamp(d * Day) <= clamp((d + 1) * Day)
  <2> DEFINE x == d * Day
             y == (d + 1) * Day
             lo == Max({from, x})
             hi == Min({e, y})
  <2>1. x \in Int /\ y \in Int /\ x < y
    BY <1>0
  <2>2. a[d] = IF lo < hi THEN B(hi) - B(lo) ELSE 0
    BY DEF Allocated, Part, from
  <2> HIDE DEF x, y
  <2>3. /\ lo = IF from >= x THEN from ELSE x
        /\ hi = IF e <= y THEN e ELSE y
    BY <1>0, <1>1, <2>1, MaxOfTwo, MinOfTwo
  <2> HIDE DEF lo, hi
  <2>4. /\ lo < hi => clamp(x) = lo /\ clamp(y) = hi
        /\ ~(lo < hi) => clamp(x) = clamp(y)
        /\ clamp(x) <= clamp(y) /\ clamp(x) \in Int /\ clamp(y) \in Int
    BY <1>0, <1>1, <2>1, <2>3
  <2> HIDE DEF clamp
  <2>5. B(clamp(x)) \in Int
    BY <1>3, <2>4
  <2>6. a[d] = B(clamp(y)) - B(clamp(x))
    BY <2>2, <2>4, <2>5
  <2> QED
    BY <2>4, <2>6 DEF x, y
<1>6. ASSUME NEW d \in AllDays
      PROVE  v[d] \in Int /\ v[d + 1] \in Int /\ v[d] <= v[d + 1] /\ a[d] = v[d + 1] - v[d]
  <2>1. d \in 0..(N + 1) /\ d + 1 \in 0..(N + 1)
    BY <1>0
  <2>2. clamp(d * Day) \in Int /\ clamp((d + 1) * Day) \in Int
    BY <1>4, <2>1
  <2>3. v[d] = B(clamp(d * Day)) /\ v[d + 1] = B(clamp((d + 1) * Day))
    BY <2>1
  <2> HIDE DEF clamp, v, B
  <2> QED
    BY <1>3, <1>5, <2>2, <2>3
<1>7. \A d \in AllDays : a[d] \in Nat
  <2> HIDE DEF v
  <2> QED
    BY <1>6
<1>8. Total(a) = v[N + 1] - v[0]
  <2> HIDE DEF v
  <2> QED
    BY <1>6, TotalTelescopes
<1>9. /\ v[0] = B(from)
      /\ v[N + 1] = IF from >= e THEN B(from) ELSE B(e)
  <2>1. clamp(0 * Day) = from
    BY <1>0, <1>1, <1>2
  <2>2. clamp((N + 1) * Day) = IF from >= e THEN from ELSE e
    BY <1>0, <1>1
  <2>3. 0 \in 0..(N + 1) /\ N + 1 \in 0..(N + 1)
    BY <1>0
  <2> QED
    BY <2>1, <2>2, <2>3
<1>10. B(s) = 0 /\ B(e) = bytes /\ B(from) \in Int /\ B(s) <= B(from)
  BY <1>0, <1>1, <1>2, <1>3
<1> HIDE DEF v, B
<1>11. Total(a) = (IF from >= e THEN B(from) ELSE bytes) - B(from)
  BY <1>8, <1>9, <1>10
<1>12. Cutoff <= 0 => Total(a) = bytes
  BY <1>0, <1>2, <1>10, <1>11
<1> QED
  BY <1>7, <1>10, <1>11, <1>12

\* What a counter shows is what its container received, less what it had
\* received when it was restarted last. Of two observations of a container the
\* earlier one has received no more and lost no more.
Counter(id, m, r) == /\ id \in Containers /\ m \in Nat /\ r \in Nat /\ r <= m
                     /\ restarts = 0 => r = m
Earlier(m, r, n, q) == m <= n /\ m - r <= n - q
Counters ==
  /\ moved \in [Containers -> Nat] /\ rx \in [Containers -> Nat]
  /\ restarts \in Nat /\ backs \in Nat /\ clock \in 0..MaxClock
  /\ \A c \in Containers : Counter(c, moved[c], rx[c])
SampleTrue == sample # NoSample =>
  /\ Counter(sample.id, sample.moved, sample.rx) /\ sample.at \in 0..MaxClock
  /\ Earlier(sample.moved, sample.rx, moved[sample.id], rx[sample.id])
RecordFields == {"pc", "url", "under", "id", "rx", "at", "moved"}
PollTrue ==
  /\ poll.pc = "counting" => poll.id \in Containers
  /\ poll.pc = "recording" =>
       /\ DOMAIN poll = RecordFields
       /\ Counter(poll.id, poll.moved, poll.rx) /\ poll.at \in 0..MaxClock
       /\ Earlier(poll.moved, poll.rx, moved[poll.id], rx[poll.id])
       /\ Comparable(poll) => Earlier(sample.moved, sample.rx, poll.moved, poll.rx)
Sums == /\ \A d \in AllDays : days[d] \in Nat
        /\ owed.fair \in Nat /\ owed.counted \in Nat /\ TotalsTrue
Accounted == Counters /\ SampleTrue /\ PollTrue /\ Sums

\* At first nothing is received, and nothing is counted.
LEMMA AccountStart == TrafficInit => Accounted
<1> SUFFICES ASSUME TrafficInit PROVE Accounted
  OBVIOUS
<1>1. Counters
  BY LastDay DEF TrafficInit, Counters, Counter
<1>2. SampleTrue /\ PollTrue
  BY DEF TrafficInit, SampleTrue, PollTrue, IdlePoll
<1>3. \A d \in AllDays : days[d] = 0
  BY DEF TrafficInit
<1>4. Total(days) = 0
  BY <1>3, TotalOfNothing
<1>5. owed.fair = 0 /\ owed.counted = 0
  BY DEF TrafficInit
<1>6. Sums
  BY <1>3, <1>4, <1>5 DEF Sums, TotalsTrue
<1> QED
  BY <1>1, <1>2, <1>6 DEF Accounted

\* What the days add up to depends on the clock only in that days get too old.
LEMMA SumsRest ==
  ASSUME Accounted, UNCHANGED <<days, owed>>, Counters',
         restarts' = 0 => restarts = 0,
         backs' = 0 => backs = 0 /\ clock <= clock'
  PROVE  Sums'
<1>1. backs' = 0 /\ Cutoff' <= 0 => backs = 0 /\ Cutoff <= 0
  <2> SUFFICES ASSUME backs' = 0, Cutoff' <= 0 PROVE Cutoff <= 0
    OBVIOUS
  <2>1. clock \in Int /\ clock' \in Int /\ clock <= clock'
    BY LastDay DEF Accounted, Counters
  <2>2. clock \div Day <= clock' \div Day /\ clock \div Day \in Int /\ clock' \div Day \in Int
    <3>1. \A a, b \in Int : a <= b => /\ a \div Day <= b \div Day
                                     /\ a \div Day \in Int /\ b \div Day \in Int
      BY LastDay
    <3> QED
      BY <2>1, <3>1
  <2>3. Keep \in Int
    BY TrafficAssumption
  <2> QED
    BY <2>2, <2>3 DEF Cutoff, DayOf
<1> HIDE DEF Cutoff
<1>2. Sums
  BY DEF Accounted
<1> QED
  BY <1>1, <1>2 DEF Sums, TotalsTrue

\* The world: what is received is counted, and a restart loses what it was.
LEMMA WorldAccounts == ASSUME Accounted, World PROVE Accounted'
<1>0. UNCHANGED <<sample, poll, days, owed>>
  BY DEF World
<1>1. ASSUME Counters', restarts' \in Nat, restarts <= restarts',
             backs' = 0 => backs = 0 /\ clock <= clock',
             \A c \in Containers : Earlier(moved[c], rx[c], moved'[c], rx'[c])
      PROVE  Accounted'
  <2>1. /\ restarts' = 0 => restarts = 0
        /\ \A c \in Containers : rx[c] \in Nat /\ moved[c] \in Nat
                                 /\ rx'[c] \in Nat /\ moved'[c] \in Nat
    BY <1>1 DEF Accounted, Counters
  <2>2. \A id, m, r : Counter(id, m, r) => Counter(id, m, r)'
    BY <2>1 DEF Counter
  <2>3. \A c \in Containers, m \in Nat, r \in Nat :
          Earlier(m, r, moved[c], rx[c]) => Earlier(m, r, moved'[c], rx'[c])
    BY <1>1, <2>1 DEF Earlier
  <2>4. SampleTrue'
    BY <1>0, <2>2, <2>3 DEF Accounted, SampleTrue, Counter
  <2>5. PollTrue'
    BY <1>0, <2>2, <2>3 DEF Accounted, PollTrue, Counter, Comparable
  <2> QED
    BY <1>0, <1>1, <2>1, <2>4, <2>5, SumsRest DEF Accounted
<1>2. /\ moved \in [Containers -> Nat] /\ rx \in [Containers -> Nat]
      /\ restarts \in Nat /\ backs \in Nat /\ clock \in 0..MaxClock
      /\ \A c \in Containers : rx[c] <= moved[c] /\ (restarts = 0 => rx[c] = moved[c])
  BY DEF Accounted, Counters, Counter
<1>3. ASSUME NEW c \in Containers, Moves(c) PROVE Accounted'
  <2>1. /\ rx' = [rx EXCEPT ![c] = @ + 1] /\ moved' = [moved EXCEPT ![c] = @ + 1]
        /\ UNCHANGED <<clock, backs, restarts>>
    BY <1>3 DEF Moves
  <2>2. \A d \in Containers : /\ rx'[d] = IF d = c THEN rx[d] + 1 ELSE rx[d]
                              /\ moved'[d] = IF d = c THEN moved[d] + 1 ELSE moved[d]
    BY <1>2, <2>1
  <2>3. rx' \in [Containers -> Nat] /\ moved' \in [Containers -> Nat]
    BY <1>2, <2>1
  <2>4. \A d \in Containers : /\ Earlier(moved[d], rx[d], moved'[d], rx'[d])
                              /\ rx'[d] <= moved'[d]
                              /\ restarts = 0 => rx'[d] = moved'[d]
    BY <1>2, <2>2 DEF Earlier
  <2>5. Counters'
    BY <1>2, <2>1, <2>3, <2>4 DEF Counters, Counter
  <2> QED
    BY <1>1, <1>2, <2>1, <2>4, <2>5
<1>4. ASSUME NEW c \in Containers, NEW u \in Urls, Restarts(c, u) PROVE Accounted'
  <2>1. /\ rx' = [rx EXCEPT ![c] = 0] /\ restarts' = restarts + 1
        /\ UNCHANGED <<clock, backs, moved>>
    BY <1>4 DEF Restarts
  <2>2. \A d \in Containers : rx'[d] = IF d = c THEN 0 ELSE rx[d]
    BY <1>2, <2>1
  <2>3. rx' \in [Containers -> Nat]
    BY <1>2, <2>1
  <2>4. \A d \in Containers : /\ Earlier(moved[d], rx[d], moved'[d], rx'[d])
                              /\ rx'[d] <= moved'[d]
    BY <1>2, <2>1, <2>2 DEF Earlier
  <2>5. restarts' # 0 /\ restarts' \in Nat /\ restarts <= restarts'
    BY <1>2, <2>1
  <2>6. Counters'
    BY <1>2, <2>1, <2>3, <2>4, <2>5 DEF Counters, Counter
  <2> QED
    BY <1>1, <1>2, <2>1, <2>4, <2>5, <2>6
<1>5. CASE /\ UNCHANGED <<rx, moved, restarts>> /\ clock' \in 0..MaxClock
           /\ \/ UNCHANGED backs /\ clock <= clock'
              \/ backs' = backs + 1
  <2>1. \A d \in Containers : Earlier(moved[d], rx[d], moved'[d], rx'[d])
    BY <1>2, <1>5 DEF Earlier
  <2>2. Counters' /\ restarts' \in Nat /\ restarts <= restarts'
    BY <1>2, <1>5 DEF Counters, Counter
  <2>3. backs' = 0 => backs = 0 /\ clock <= clock'
    BY <1>2, <1>5
  <2> QED
    BY <1>1, <2>1, <2>2, <2>3
<1>6. ASSUME NEW cs, Replaced(cs) PROVE Accounted'
  BY <1>2, <1>5, <1>6 DEF Replaced
<1>7. CASE Passes
  <2>1. clock' \in 0..MaxClock /\ clock <= clock'
    BY <1>2, <1>7, LastDay DEF Passes
  <2> QED
    BY <1>5, <1>7, <2>1 DEF Passes
<1>8. CASE SetBack
  <2>1. clock' \in 0..MaxClock
    BY <1>2, <1>8, LastDay DEF SetBack
  <2> QED
    BY <1>5, <1>8, <2>1 DEF SetBack
<1> QED
  BY <1>3, <1>4, <1>6, <1>7, <1>8 DEF World

\* A step that neither counts nor records.
LEMMA RestAccounts ==
  ASSUME Accounted, UNCHANGED <<env, sample, days, owed>>,
         \/ UNCHANGED poll
         \/ poll'.pc \in {"idle", "inspecting"}
         \/ poll'.pc = "counting" /\ poll'.id \in Containers
  PROVE  Accounted'
<1>1. Counters' /\ SampleTrue'
  BY DEF Accounted, Counters, Counter, SampleTrue, Earlier, env
<1>2. PollTrue'
  BY DEF Accounted, PollTrue, Counter, Earlier, Comparable, env
<1>3. Sums'
  BY DEF Accounted, Sums, TotalsTrue, Cutoff, env
<1> QED
  BY <1>1, <1>2, <1>3 DEF Accounted

\* The counters are read: the last sample is an earlier observation.
LEMMA CountsAccounts == ASSUME Accounted, PollCounts PROVE Accounted'
<1>1. PICK c \in Containers :
        poll' = [pc |-> "recording", url |-> poll.url, under |-> at[c],
                 id |-> c, rx |-> rx[c], at |-> clock, moved |-> moved[c]]
  BY DEF PollCounts
<1>2. UNCHANGED <<env, sample, days, owed>>
  BY DEF PollCounts
<1>3. Counters' /\ SampleTrue' /\ Sums'
  BY <1>2 DEF Accounted, Counters, Counter, SampleTrue, Earlier, Sums, TotalsTrue,
     Cutoff, env
<1>4. /\ DOMAIN poll' = RecordFields /\ poll'.pc = "recording" /\ poll'.id = c
      /\ poll'.rx = rx[c] /\ poll'.moved = moved[c] /\ poll'.at = clock
  BY <1>1 DEF RecordFields
<1>5. Counter(c, moved[c], rx[c])' /\ Earlier(moved[c], rx[c], moved[c], rx[c])
  BY <1>2 DEF Accounted, Counters, Counter, Earlier, env
<1>6. sample.id = c => Earlier(sample.moved, sample.rx, moved[c], rx[c])
  BY TrafficAssumption DEF Accounted, SampleTrue, NoSample
<1>7. clock \in 0..MaxClock
  BY DEF Accounted, Counters
<1>8. PollTrue'
  BY <1>2, <1>4, <1>5, <1>6, <1>7 DEF PollTrue, Comparable, env, Counter, Earlier
<1> QED
  BY <1>3, <1>8 DEF Accounted

\* The days take what was received since the last sample, and the oldest of
\* them are forgotten.
LEMMA DaysTake ==
  ASSUME Accounted, NEW bytes \in Nat, NEW a, \A d \in AllDays : a[d] \in Nat,
         Total(a) <= bytes, Cutoff <= 0 => Total(a) = bytes,
         UNCHANGED <<clock, backs>>,
         \A d \in AllDays : days'[d] = IF d < Cutoff THEN 0 ELSE days[d] + a[d],
         owed'.counted = owed.counted + bytes
  PROVE  /\ \A d \in AllDays : days'[d] \in Nat
         /\ owed'.counted \in Nat /\ Total(days)' <= owed'.counted
         /\ DayOf(MaxClock) < Keep \/ (backs' = 0 /\ Cutoff' <= 0)
              => Total(days)' = owed'.counted
<1>0. /\ \A d \in AllDays : days[d] \in Nat /\ d \in Nat
      /\ owed.counted \in Nat /\ Total(days) <= owed.counted
      /\ DayOf(MaxClock) < Keep \/ (backs = 0 /\ Cutoff <= 0)
           => Total(days) = owed.counted
  BY LastDay DEF Accounted, Sums, TotalsTrue
<1>1. Cutoff \in Int /\ Cutoff' = Cutoff /\ (DayOf(MaxClock) < Keep => Cutoff <= 0)
  <2>1. clock \in Int /\ clock <= MaxClock /\ Keep \in Int
    BY LastDay, TrafficAssumption DEF Accounted, Counters
  <2>2. \A n \in Int : n <= MaxClock => n \div Day <= MaxClock \div Day /\ n \div Day \in Int
    BY LastDay
  <2>3. DayOf(clock) \in Int /\ DayOf(clock) <= DayOf(MaxClock) /\ DayOf(MaxClock) \in Int
    BY <2>1, <2>2, LastDay DEF DayOf
  <2> QED
    BY <2>1, <2>3 DEF Cutoff, DayOf
<1> HIDE DEF Cutoff
<1>2. \A d \in AllDays : days'[d] \in Nat /\ days'[d] <= days[d] + a[d]
  BY <1>0, <1>1
<1>3. /\ Total(days') \in Int /\ Total(days) \in Int /\ Total(a) \in Int
      /\ Total(days') <= Total(days) + Total(a)
  <2>1. \A d \in AllDays : days[d] \in Int /\ a[d] \in Int /\ days'[d] \in Int
    BY <1>0, <1>2
  <2>2. \A d \in AllDays : days'[d] <= days[d] + a[d]
    BY <1>2
  <2> QED
    BY <2>1, <2>2, TotalAdds
<1>4. ASSUME Cutoff <= 0 PROVE Total(days') = Total(days) + Total(a)
  <2>1. \A d \in AllDays : days'[d] = days[d] + a[d]
    BY <1>0, <1>1, <1>4
  <2> QED
    BY <1>0, <1>2, <2>1, TotalAdds
<1>5. Total(days)' = Total(days')
  BY DEF Total, AllDays
<1> QED
  BY <1>0, <1>1, <1>2, <1>3, <1>4, <1>5

\* A sample is recorded.
LEMMA RecordAccounts == ASSUME Accounted, PollRecords PROVE Accounted'
<1>0. UNCHANGED env /\ poll.pc = "recording"
  BY DEF PollRecords
<1>1. CASE UNCHANGED <<sample, days, owed>> /\ poll' = IdlePoll
  <2>1. poll'.pc = "idle"
    BY <1>1 DEF IdlePoll
  <2> QED
    BY <1>0, <1>1, <2>1, RestAccounts
<1>2. CASE Recorded(poll) /\ poll' = IdlePoll /\ ~Late(poll)
  <2>1. /\ DOMAIN poll = RecordFields
        /\ Counter(poll.id, poll.moved, poll.rx) /\ poll.at \in 0..MaxClock
        /\ Earlier(poll.moved, poll.rx, moved[poll.id], rx[poll.id])
        /\ Comparable(poll) => Earlier(sample.moved, sample.rx, poll.moved, poll.rx)
    BY <1>0 DEF Accounted, PollTrue
  <2>2. /\ sample'.id = poll.id /\ sample'.moved = poll.moved /\ sample'.rx = poll.rx
        /\ sample'.at = poll.at
    <3>1. sample' = [f \in DOMAIN poll \ {"pc"} |-> poll[f]]
      BY <1>2 DEF Recorded
    <3>2. {"id", "moved", "rx", "at"} \subseteq DOMAIN poll \ {"pc"}
      BY <2>1 DEF RecordFields
    <3> QED
      BY <3>1, <3>2
  <2>3. Counters' /\ PollTrue'
    BY <1>0, <1>2 DEF Accounted, Counters, Counter, PollTrue, IdlePoll, env
  <2>4. SampleTrue'
    BY <1>0, <2>1, <2>2 DEF SampleTrue, Counter, Earlier, env
  <2>5. Comparable(poll) =>
          /\ sample # NoSample /\ sample.at \in 0..MaxClock /\ sample.at < poll.at
          /\ Counter(sample.id, sample.moved, sample.rx)
    <3> SUFFICES ASSUME Comparable(poll)
                 PROVE  /\ sample # NoSample /\ sample.at \in 0..MaxClock
                        /\ sample.at < poll.at
                        /\ Counter(sample.id, sample.moved, sample.rx)
      OBVIOUS
    <3>1. sample # NoSample
      BY <2>1, TrafficAssumption DEF Comparable, Counter, NoSample
    <3>2. sample.at \in 0..MaxClock /\ Counter(sample.id, sample.moved, sample.rx)
      BY <3>1 DEF Accounted, SampleTrue
    <3> QED
      BY <1>2, <2>1, <3>1, <3>2, LastDay DEF Late
  <2> DEFINE bytes == Delta(poll)
             a == [d \in AllDays |-> IF Comparable(poll)
                     THEN Allocated(bytes, sample.at, poll.at)[d] ELSE 0]
             more == IF sample.id = poll.id THEN poll.moved - sample.moved ELSE 0
  <2>6. bytes \in Nat /\ more \in Nat /\ bytes <= more /\ (restarts = 0 => bytes = more)
    BY <2>1, <2>5 DEF Delta, Counter, Earlier, Comparable
  <2>7. /\ owed'.fair = owed.fair + more /\ owed'.counted = owed.counted + bytes
        /\ \A d \in AllDays : days'[d] = IF d < Cutoff THEN 0 ELSE days[d] + a[d]
    BY <1>2 DEF Recorded
  <2>8. /\ \A d \in AllDays : a[d] \in Nat
        /\ Total(a) <= bytes /\ (Cutoff <= 0 => Total(a) = bytes)
    <3>1. CASE Comparable(poll)
      <4> DEFINE g == Allocated(bytes, sample.at, poll.at)
      <4>1. a = g
        BY <3>1 DEF Allocated
      <4>2. Cutoff \in Int
        <5>1. clock \in Int /\ Keep \in Int
          BY LastDay, TrafficAssumption DEF Accounted, Counters
        <5>2. \A n \in Int : n \div Day \in Int
          BY LastDay
        <5> QED
          BY <5>1, <5>2 DEF Cutoff, DayOf
      <4> HIDE DEF a, bytes
      <4>3. /\ \A d \in AllDays : a[d] \in Nat
            /\ Total(a) <= bytes /\ (Cutoff <= 0 => Total(a) = bytes)
        BY <2>1, <2>5, <2>6, <3>1, <4>1, <4>2, AllocatedTotal
      <4> QED
        BY <4>3
    <3>2. CASE ~Comparable(poll)
      <4>1. (\A d \in AllDays : a[d] = 0) /\ bytes = 0
        BY <3>2 DEF Delta
      <4> HIDE DEF a, bytes
      <4> QED
        BY <4>1, TotalOfNothing
    <3> QED
      BY <3>1, <3>2
  <2> HIDE DEF a, bytes, more
  <2>9. /\ \A d \in AllDays : days'[d] \in Nat
        /\ owed'.counted \in Nat /\ Total(days)' <= owed'.counted
        /\ DayOf(MaxClock) < Keep \/ (backs' = 0 /\ Cutoff' <= 0)
             => Total(days)' = owed'.counted
    BY <1>0, <2>6, <2>7, <2>8, DaysTake DEF env
  <2>10. /\ owed.fair \in Nat /\ owed.counted \in Nat /\ owed.counted <= owed.fair
         /\ restarts = 0 => owed.counted = owed.fair
    BY DEF Accounted, Sums, TotalsTrue
  <2>11. Sums'
    BY <1>0, <2>6, <2>7, <2>9, <2>10 DEF Sums, TotalsTrue, env
  <2> QED
    BY <2>3, <2>4, <2>11 DEF Accounted
<1> QED
  BY <1>1, <1>2 DEF PollRecords, Recorded, Throws

\* Every step of the world, of the owner and of the poll keeps the account.
LEMMA AccountStep == Accounted /\ [TrafficNext]_trafficVars => Accounted'
<1> SUFFICES ASSUME Accounted, [TrafficNext]_trafficVars PROVE Accounted'
  OBVIOUS
<1>1. ASSUME NEW u \in Urls, EditAddress(u) PROVE Accounted'
  BY <1>1, RestAccounts DEF EditAddress
<1>2. CASE PollBegin
  <2>1. poll'.pc \in {"idle", "inspecting"}
    BY <1>2 DEF PollBegin, Throws, IdlePoll
  <2> QED
    BY <1>2, <2>1, RestAccounts DEF PollBegin, Throws
<1>3. CASE PollInspects
  <2>1. poll'.pc = "counting" /\ poll'.id \in Containers
    BY <1>3 DEF PollInspects
  <2> QED
    BY <1>3, <2>1, RestAccounts DEF PollInspects
<1>4. CASE PollFails \/ Restart
  <2>1. poll'.pc = "idle" /\ UNCHANGED <<env, sample, days, owed>>
    BY <1>4 DEF PollFails, Restart, Throws, IdlePoll
  <2> QED
    BY <2>1, RestAccounts
<1>5. CASE UNCHANGED trafficVars
  BY <1>5, RestAccounts DEF trafficVars
<1> QED
  BY <1>1, <1>2, <1>3, <1>4, <1>5, WorldAccounts, CountsAccounts, RecordAccounts
  DEF TrafficNext

\* TotalsTrue (db.ts:382-443, daily.ts:6-22), for every length of a day, every
\* number of days that are kept and every number of restarts, of replacements
\* and of clocks set back: the totals never show a byte that was not received
\* by one container between two samples of it, and show them all as long as no
\* counter was reset and no day is too old.
THEOREM TotalsAreTrue == TrafficSpec => []TotalsTrue
<1>1. Accounted => TotalsTrue
  BY DEF Accounted, Sums
<1> QED
  BY <1>1, AccountStart, AccountStep, PTL DEF TrafficSpec
=============================================================================
