-------------------------- MODULE ObservationCache --------------------------
(***************************************************************************)
(* The cache of Docker metadata in the web server                          *)
(* (src/server/docker/observationCache.ts).  Requests for one connection   *)
(* share one read of Docker; what it returned is kept for a while, failures *)
(* included; whatever changes the connection or the stack invalidates the  *)
(* whole cache while reads may be under way; shutting down waits for them. *)
(*                                                                         *)
(* get() runs without interruption up to its await, and a read that ends   *)
(* settles its promise, the entry and every request that waits for it      *)
(* before the next request is served: each is one action.                  *)
(***************************************************************************)
EXTENDS Naturals, FiniteSets, SequencesExt

CONSTANTS
  Keys,      \* connections: the pair of instance identity and base URL
  Callers,   \* requests of browsers
  Loads,     \* reads of Docker that may be under way
  Capacity   \* bound on entries and on reads under way (8 in the code)

ASSUME CacheAssumption ==
  /\ Capacity \in Nat \ {0}
  /\ IsFiniteSet(Keys)

VARIABLES
  entry,    \* entry[k] : what is cached for connection k
  order,    \* the cached connections in the order of the Map, oldest first
  load,     \* load[l] : the read l
  caller,   \* caller[c] : the request c
  phase,    \* of the shut-down
  awaits    \* the reads that close() waits for

vars == <<entry, order, load, caller, phase, awaits>>

\* old: begun before the last invalidation.  The code has no such field: it
\* says what an observation is worth, and no action depends on it.
NoEntry  == [st |-> "none"]
Pending  == [st : {"pending"}, by : Loads]
Settled  == [st : {"good", "failed"}, fresh : BOOLEAN, old : BOOLEAN]
NoLoad   == [st |-> "none"]
Reads    == [st : {"running"}, key : Keys, old : BOOLEAN]
Waiting  == [st : {"waiting"}, on : Loads]
Replies  == [st : {"answered"}, old : BOOLEAN]
Idle     == [st |-> "idle"]
Refused  == [st |-> "refused"]

Active   == {l \in Loads : load[l].st = "running"}
Cached   == {k \in Keys : entry[k].st # "none"}
Removable == {i \in DOMAIN order : entry[order[i]].st # "pending"}

\* Mutant of Current: any entry of its connection will do.
CurrentKey(l) == entry[load[l].key].st = "pending"
\* The entry of the read is the one in the table, not a later one of its key.
Current(l) == entry[load[l].key] = [st |-> "pending", by |-> l]

\* get() finds nothing it may return at once.
Unserved(k, force) ==
  \/ entry[k].st = "none"
  \/ entry[k].st \in {"good", "failed"} /\ (force \/ ~entry[k].fresh)

NoRoom(k) == k \notin Cached /\ Len(order) >= Capacity /\ Removable = {}
\* Mutant of Busy: only the entries are counted.
BusyTable(k) == NoRoom(k)
Busy(k)   == Cardinality(Active) >= Capacity \/ NoRoom(k)

\* Mutant of Oldest: the first entry, whatever it is.
OldestAny == {1}
Oldest    == {i \in Removable : \A j \in Removable : i <= j}
Evicted(k) == IF k \notin Cached /\ Len(order) >= Capacity
              THEN {order[i] : i \in Oldest} ELSE {}
-----------------------------------------------------------------------------
Init == /\ entry = [k \in Keys |-> NoEntry]
        /\ order = <<>>
        /\ load = [l \in Loads |-> NoLoad]
        /\ caller = [c \in Callers |-> Idle]
        /\ phase = "open"
        /\ awaits = {}

Answer(c, r) == caller' = [caller EXCEPT ![c] = r]

\* The request of c is answered without a read: refused while shutting down
\* or when there is no room, otherwise from what is cached.
GetCached(c, k, force) ==
  /\ caller[c].st # "waiting"
  /\ \/ phase # "open" /\ Answer(c, Refused)
     \/ /\ phase = "open"
        /\ \/ /\ entry[k].st = "pending"
              /\ Answer(c, [st |-> "waiting", on |-> entry[k].by])
           \/ /\ entry[k].st # "pending" /\ ~Unserved(k, force)
              /\ Answer(c, IF entry[k].st = "failed" THEN Refused
                           ELSE [st |-> "answered", old |-> entry[k].old])
           \/ Unserved(k, force) /\ Busy(k) /\ Answer(c, Refused)
  /\ UNCHANGED <<entry, order, load, phase, awaits>>

\* The request of c begins read l, in the entry of k or in a new one.
GetLoads(c, k, force, l) ==
  /\ phase = "open" /\ caller[c].st # "waiting"
  /\ Unserved(k, force) /\ ~Busy(k)
  /\ load[l].st = "none"
  /\ load' = [load EXCEPT ![l] = [st |-> "running", key |-> k, old |-> FALSE]]
  /\ entry' = [j \in Keys |-> CASE j = k -> [st |-> "pending", by |-> l]
                                [] j # k /\ j \in Evicted(k) -> NoEntry
                                [] OTHER -> entry[j]]
  /\ order' = IF k \in Cached THEN order
              ELSE Append(SelectSeq(order, LAMBDA j : j \notin Evicted(k)), k)
  /\ Answer(c, [st |-> "waiting", on |-> l])
  /\ UNCHANGED <<phase, awaits>>

Stored(l, ok) ==
  IF Current(l)
  THEN [st |-> IF ok THEN "good" ELSE "failed", fresh |-> TRUE,
        old |-> load[l].old]
  ELSE entry[load[l].key]

\* Mutant of Told: a read that is not current any more tells nobody.
ToldCurrent(l, ok) ==
  [c \in Callers |->
     IF ~(caller[c].st = "waiting" /\ caller[c].on = l /\ Current(l))
     THEN caller[c]
     ELSE IF ok THEN [st |-> "answered", old |-> load[l].old] ELSE Refused]
Told(l, ok) ==
  [c \in Callers |->
     IF ~(caller[c].st = "waiting" /\ caller[c].on = l) THEN caller[c]
     ELSE IF ok /\ Current(l) THEN [st |-> "answered", old |-> load[l].old]
     ELSE Refused]

Over(l) == {l}

\* Read l ends, with an observation or with an error.
LoadEnds(l, ok) ==
  /\ load[l].st = "running"
  /\ entry' = [entry EXCEPT ![load[l].key] = Stored(l, ok)]
  /\ caller' = Told(l, ok)
  /\ load' = [r \in Loads |-> IF r \in Over(l) THEN NoLoad ELSE load[r]]
  /\ awaits' = awaits \ Over(l)
  /\ UNCHANGED <<order, phase>>

\* Ten seconds after an observation, two after a failure.
Expire(k) == /\ entry[k].st \in {"good", "failed"} /\ entry[k].fresh
             /\ entry' = [entry EXCEPT ![k].fresh = FALSE]
             /\ UNCHANGED <<order, load, caller, phase, awaits>>

Cleared ==
  /\ entry' = [k \in Keys |-> NoEntry]
  /\ order' = <<>>
  /\ load' = [l \in Loads |-> IF load[l].st = "running"
                              THEN [load[l] EXCEPT !.old = TRUE] ELSE NoLoad]

\* A connection is saved, its credential removed, something changed with
\* Gluetun's API, or a change or a cleanup of the stack requested or answered.
Invalidate == Cleared /\ UNCHANGED <<caller, phase, awaits>>

\* Mutant of Collected: what the table still knows after it was cleared.
CollectedCurrent == {}
Collected == Active

Close == /\ phase = "open"
         /\ Cleared
         /\ phase' = "closing" /\ awaits' = Collected
         /\ UNCHANGED caller

Closed == /\ phase = "closing" /\ awaits = {}
          /\ phase' = "closed"
          /\ UNCHANGED <<entry, order, load, caller, awaits>>

Next == \/ \E c \in Callers, k \in Keys, force \in BOOLEAN :
             \/ GetCached(c, k, force)
             \/ \E l \in Loads : GetLoads(c, k, force, l)
        \/ \E l \in Loads, ok \in BOOLEAN : LoadEnds(l, ok)
        \/ \E k \in Keys : Expire(k)
        \/ Invalidate \/ Close \/ Closed

Spec == Init /\ [][Next]_vars
-----------------------------------------------------------------------------
\* Every request of a read is given up after five seconds, so a read ends.
FairSpec == /\ Spec
            /\ \A l \in Loads : WF_vars(\E ok \in BOOLEAN : LoadEnds(l, ok))
            /\ WF_vars(Closed)

Shape ==
  /\ entry \in [Keys -> {NoEntry} \cup Pending \cup Settled]
  /\ load \in [Loads -> {NoLoad} \cup Reads]
  /\ caller \in [Callers -> {Idle, Refused} \cup Waiting \cup Replies]
  /\ phase \in {"open", "closing", "closed"}
  /\ awaits \subseteq Loads

\* The state has its shape, and the table lists each cached connection once
\* and no more than Capacity of them (get() evicts before it adds).
TypeOK ==
  /\ Shape
  /\ order \in Seq(Keys) /\ Len(order) <= Capacity
  /\ IsInjective(order) /\ ToSet(order) = Cached

\* docs/architecture.md: the cache is bounded.  No more than Capacity reads of
\* Docker run at once, those that an invalidation has cut off from the table
\* included.
LoadsBounded == Cardinality(Active) <= Capacity

\* An observation begun before the last invalidation is neither kept nor
\* given to a request that was still waiting: it would show the connection
\* or the containers as they were before the change.
NeverStale ==
  /\ \A k \in Keys : entry[k].st = "good" => ~entry[k].old
  /\ \A c \in Callers : caller[c].st = "answered" => ~caller[c].old

\* Between two invalidations at most one read of a connection is under way,
\* whatever is evicted meanwhile.
Coalesced ==
  \A l, m \in Active : load[l].key = load[m].key /\ ~load[l].old /\ ~load[m].old
                         => l = m

\* While a read may begin, a full table has an entry to give up: the second
\* refusal of get() (line 25) is never the reason.
RoomFound ==
  Cardinality(Active) < Capacity /\ Len(order) >= Capacity => Removable # {}

\* When close() returns, no read of Docker is under way or begins later.
ClosedQuiet == phase = "closed" => Active = {}

\* Every request that waits is answered or refused, and close() returns.
WaitersServed ==
  /\ \A c \in Callers : caller[c].st = "waiting" ~> caller[c].st # "waiting"
  /\ phase = "closing" ~> phase = "closed"
=============================================================================
