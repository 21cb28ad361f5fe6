------------------------- MODULE ObservationProofs -------------------------
(***************************************************************************)
(* What ObservationCache guarantees for any number of connections,         *)
(* requests and reads and any capacity. The invariant relates the table to *)
(* the reads under way: an entry that waits for a read waits for one that  *)
(* runs, is of its connection and has not been cut off (Waits), and a read *)
(* that has not been cut off still has its entry (Kept).                   *)
(***************************************************************************)
EXTENDS ObservationCache, FiniteSetTheorems, TLAPS

Waits == \A k \in Keys : entry[k].st = "pending" =>
           /\ load[entry[k].by].st = "running"
           /\ load[entry[k].by].key = k
           /\ ~load[entry[k].by].old

Kept == \A l \in Active : ~load[l].old => Current(l)

Ending == /\ phase # "open" => Active \subseteq awaits
          /\ phase = "closed" => awaits = {}

Bounded == IsFiniteSet(Active) /\ LoadsBounded

CacheInv == Shape /\ Waits /\ Kept /\ NeverStale /\ Ending /\ Bounded

-----------------------------------------------------------------------------
\* Init() of the cache: an empty table and no read.
LEMMA InitHolds == ASSUME Init PROVE CacheInv
<1> USE DEF Init, NoEntry, NoLoad, Idle, Refused
<1>1. Active = {} BY DEF Active
<1>2. Shape BY DEF Shape
<1>3. Waits /\ Kept /\ NeverStale /\ Ending
  BY <1>1 DEF Waits, Kept, NeverStale, Ending
<1>4. Bounded BY <1>1, FS_EmptySet, CacheAssumption DEF Bounded, LoadsBounded
<1> QED BY <1>2, <1>3, <1>4 DEF CacheInv

\* A request that needs no read changes only what it is told: what the table
\* holds, and that is not old.
LEMMA GetCachedHolds ==
  ASSUME CacheInv, NEW c \in Callers, NEW k \in Keys, NEW force \in BOOLEAN,
         GetCached(c, k, force)
  PROVE  CacheInv'
<1> USE DEF CacheInv, Shape, Pending, Settled, Reads, Waiting, Replies, NoEntry,
        NoLoad, Idle, Refused
<1>1. UNCHANGED <<entry, order, load, phase, awaits>> BY DEF GetCached
<1>2. /\ caller' = [caller EXCEPT ![c] = caller'[c]]
      /\ caller'[c] \in {Refused} \cup Waiting \cup Replies
      /\ caller'[c].st = "answered" => ~caller'[c].old
  <2>1. CASE Answer(c, Refused)
    BY <2>1 DEF Answer
  <2>2. CASE entry[k].st = "pending"
               /\ Answer(c, [st |-> "waiting", on |-> entry[k].by])
    <3>1. entry[k].by \in Loads BY <2>2
    <3> QED BY <2>2, <3>1 DEF Answer
  <2>3. CASE /\ entry[k].st # "pending" /\ ~Unserved(k, force)
             /\ Answer(c, IF entry[k].st = "failed" THEN Refused
                          ELSE [st |-> "answered", old |-> entry[k].old])
    <3>1. entry[k].st \in {"good", "failed"} BY <2>3 DEF Unserved
    <3>2. CASE entry[k].st = "failed" BY <2>3, <3>2 DEF Answer
    <3>3. CASE entry[k].st = "good"
      <4>1. entry[k].old \in BOOLEAN /\ ~entry[k].old BY <3>3 DEF NeverStale
      <4> QED BY <2>3, <3>3, <4>1 DEF Answer
    <3> QED BY <3>1, <3>2, <3>3
  <2> QED BY <2>1, <2>2, <2>3 DEF GetCached
<1>3. Shape' BY <1>1, <1>2
<1>4. (Waits /\ Kept /\ Ending /\ Bounded)'
  BY <1>1 DEF Waits, Kept, Ending, Bounded, LoadsBounded, Active, Current
<1>5. NeverStale' BY <1>1, <1>2 DEF NeverStale
<1> QED BY <1>3, <1>4, <1>5

\* What is evicted waits for no read.
LEMMA EvictsIdle ==
  ASSUME NEW k \in Keys, NEW j \in Evicted(k)
  PROVE  entry[j].st # "pending"
BY DEF Evicted, Oldest, Removable

\* A read begins only while fewer than Capacity run, and takes over an entry
\* that no other read will write.
LEMMA GetLoadsHolds ==
  ASSUME CacheInv, NEW c \in Callers, NEW k \in Keys, NEW force \in BOOLEAN,
         NEW l \in Loads, GetLoads(c, k, force, l)
  PROVE  CacheInv'
<1> USE DEF CacheInv, Shape, Pending, Settled, Reads, Waiting, Replies, NoEntry,
        NoLoad, Idle, Refused
<1> DEFINE mine == [st |-> "pending", by |-> l]
<1>1. /\ phase = "open" /\ UNCHANGED <<phase, awaits>>
      /\ load[l].st = "none"
      /\ load' = [load EXCEPT ![l] = [st |-> "running", key |-> k, old |-> FALSE]]
      /\ caller' = [caller EXCEPT ![c] = [st |-> "waiting", on |-> l]]
      /\ entry[k].st # "pending" /\ Cardinality(Active) < Capacity
  <2>1. Unserved(k, force) => entry[k].st # "pending" BY DEF Unserved
  <2>2. Cardinality(Active) \in Nat BY FS_CardinalityType DEF Bounded
  <2>3. ~Busy(k) => Cardinality(Active) < Capacity
    BY <2>2, CacheAssumption DEF Busy
  <2> QED BY <2>1, <2>3 DEF GetLoads, Answer
<1>2. /\ entry' \in [Keys -> {NoEntry} \cup Pending \cup Settled]
      /\ entry'[k] = mine
      /\ \A j \in Keys \ {k} : entry'[j] = NoEntry \/ entry'[j] = entry[j]
      /\ \A j \in Keys \ {k} : entry[j].st = "pending" => entry'[j] = entry[j]
  <2>1. entry' = [j \in Keys |-> CASE j = k -> mine
                                   [] j # k /\ j \in Evicted(k) -> NoEntry
                                   [] OTHER -> entry[j]]
    BY DEF GetLoads
  <2>2. \A j \in Keys \ {k} :
          entry'[j] = IF j \in Evicted(k) THEN NoEntry ELSE entry[j]
    BY <2>1
  <2>3. entry'[k] = mine BY <2>1
  <2>4. \A j \in Keys : entry'[j] \in {NoEntry} \cup Pending \cup Settled
    BY <2>2, <2>3
  <2> QED BY <2>1, <2>2, <2>3, <2>4, EvictsIdle
<1>3. Active' = Active \cup {l} BY <1>1 DEF Active
<1>4. Shape' BY <1>1, <1>2
<1>5. Waits'
  <2> SUFFICES ASSUME NEW j \in Keys, entry'[j].st = "pending"
      PROVE  /\ load'[entry'[j].by].st = "running"
             /\ load'[entry'[j].by].key = j
             /\ ~load'[entry'[j].by].old
    BY DEF Waits
  <2>1. CASE j = k BY <2>1, <1>1, <1>2
  <2>2. CASE j # k
    <3>1. entry'[j] = entry[j] BY <2>2, <1>2
    <3>2. entry[j].by \in Loads /\ load[entry[j].by].st = "running"
      BY <3>1 DEF Waits
    <3>3. load'[entry[j].by] = load[entry[j].by] BY <3>2, <1>1
    <3> QED BY <3>1, <3>3 DEF Waits
  <2> QED BY <2>1, <2>2
<1>6. Kept'
  <2> SUFFICES ASSUME NEW m \in Active', ~load'[m].old
      PROVE  Current(m)'
    BY DEF Kept
  <2>1. CASE m = l BY <2>1, <1>1, <1>2 DEF Current
  <2>2. CASE m # l
    <3>1. m \in Active /\ load'[m] = load[m] BY <2>2, <1>1, <1>3 DEF Active
    <3>2. load[m].key \in Keys BY <3>1 DEF Active
    <3>3. entry[load[m].key] = [st |-> "pending", by |-> m]
      BY <3>1 DEF Kept, Current
    <3>4. load[m].key # k BY <3>3, <1>1
    <3> QED BY <3>1, <3>2, <3>3, <3>4, <1>2 DEF Current
  <2> QED BY <2>1, <2>2
<1>7. NeverStale' BY <1>1, <1>2 DEF NeverStale
<1>8. Ending' BY <1>1 DEF Ending
<1>9. Bounded'
  <2>1. l \notin Active BY <1>1 DEF Active
  <2>2. /\ IsFiniteSet(Active')
        /\ Cardinality(Active') = Cardinality(Active) + 1
    BY <2>1, <1>3, FS_AddElement DEF Bounded
  <2>3. Cardinality(Active) \in Nat BY FS_CardinalityType DEF Bounded
  <2> QED BY <2>2, <2>3, <1>1, CacheAssumption DEF Bounded, LoadsBounded
<1> QED BY <1>4, <1>5, <1>6, <1>7, <1>8, <1>9

\* Fewer reads satisfy the same bound.
LEMMA FewerBounded ==
  ASSUME Bounded, Active' \subseteq Active
  PROVE  Bounded'
<1>1. IsFiniteSet(Active') /\ Cardinality(Active') <= Cardinality(Active)
  BY FS_Subset DEF Bounded
<1>2. Cardinality(Active) \in Nat /\ Cardinality(Active') \in Nat
  BY <1>1, FS_CardinalityType DEF Bounded
<1> QED BY <1>1, <1>2, CacheAssumption DEF Bounded, LoadsBounded

\* A read writes its entry and its observation is handed out only if it is
\* current, and then it is not old.
LEMMA LoadEndsHolds ==
  ASSUME CacheInv, NEW l \in Loads, NEW ok \in BOOLEAN, LoadEnds(l, ok)
  PROVE  CacheInv'
<1> USE DEF CacheInv, Shape, Pending, Settled, Reads, Waiting, Replies, NoEntry,
        NoLoad, Idle, Refused
<1> DEFINE k == load[l].key
<1>1. /\ load[l].st = "running" /\ k \in Keys /\ load[l].old \in BOOLEAN
      /\ load' = [load EXCEPT ![l] = NoLoad]
      /\ awaits' = awaits \ {l}
      /\ UNCHANGED phase
  <2>1. load[l].st = "running" BY DEF LoadEnds
  <2>2. load[l] \in Reads BY <2>1
  <2>3. load' = [r \in Loads |-> IF r \in {l} THEN NoLoad ELSE load[r]]
    BY DEF LoadEnds, Over
  <2>4. load' = [load EXCEPT ![l] = NoLoad] BY <2>3
  <2> QED BY <2>1, <2>2, <2>4 DEF LoadEnds, Over
<1>2. Current(l) => ~load[l].old
  BY <1>1 DEF Current, Waits
<1>3. /\ \A j \in Keys \ {k} : entry'[j] = entry[j]
      /\ ~Current(l) => entry' = entry
      /\ Current(l) => entry'[k] \in Settled /\ ~entry'[k].old
  BY <1>1, <1>2 DEF LoadEnds, Stored
<1>4. entry' \in [Keys -> {NoEntry} \cup Pending \cup Settled]
  BY <1>1, <1>3 DEF LoadEnds
<1>5. \A b \in Callers :
        \/ caller'[b] = caller[b] /\ ~(caller[b].st = "waiting" /\ caller[b].on = l)
        \/ caller'[b] = Refused
        \/ caller'[b] = [st |-> "answered", old |-> FALSE]
  <2> SUFFICES ASSUME NEW b \in Callers
      PROVE  \/ caller'[b] = caller[b]
                  /\ ~(caller[b].st = "waiting" /\ caller[b].on = l)
             \/ caller'[b] = Refused
             \/ caller'[b] = [st |-> "answered", old |-> FALSE]
    OBVIOUS
  <2>1. caller'[b] =
          IF ~(caller[b].st = "waiting" /\ caller[b].on = l) THEN caller[b]
          ELSE IF ok /\ Current(l) THEN [st |-> "answered", old |-> load[l].old]
          ELSE Refused
    BY DEF LoadEnds, Told
  <2>2. Current(l) => load[l].old = FALSE BY <1>1, <1>2
  <2>3. CASE ~(caller[b].st = "waiting" /\ caller[b].on = l) BY <2>1, <2>3
  <2>4. CASE caller[b].st = "waiting" /\ caller[b].on = l /\ ok /\ Current(l)
    <3>1. caller'[b] = [st |-> "answered", old |-> load[l].old] BY <2>1, <2>4
    <3> QED BY <3>1, <2>2, <2>4
  <2>5. CASE caller[b].st = "waiting" /\ caller[b].on = l /\ ~(ok /\ Current(l))
    BY <2>1, <2>5
  <2> QED BY <2>3, <2>4, <2>5
<1>6. caller' \in [Callers -> {Idle, Refused} \cup Waiting \cup Replies]
  <2>1. caller' = [b \in Callers |-> caller'[b]] BY DEF LoadEnds, Told
  <2>2. [st |-> "answered", old |-> FALSE] \in Replies OBVIOUS
  <2>3. \A b \in Callers :
          caller'[b] \in {Idle, Refused} \cup Waiting \cup Replies
    BY <2>2, <1>5
  <2> QED BY <2>1, <2>3
<1>7. Active' = Active \ {l} BY <1>1 DEF Active
<1>8. Shape' BY <1>1, <1>4, <1>6
<1>9. \A j \in Keys : entry'[j].st = "pending" =>
        entry'[j] = entry[j] /\ entry[j].by \in Loads /\ entry[j].by # l
  <2> SUFFICES ASSUME NEW j \in Keys, entry'[j].st = "pending"
      PROVE  entry'[j] = entry[j] /\ entry[j].by \in Loads /\ entry[j].by # l
    OBVIOUS
  <2>1. entry'[j] = entry[j] BY <1>3
  <2>2. entry[j] \in Pending BY <2>1
  <2>3. entry[j].by # l
    <3> SUFFICES ASSUME entry[j].by = l PROVE FALSE OBVIOUS
    <3>1. j = k BY <2>1 DEF Waits
    <3>2. Current(l) BY <3>1, <2>2 DEF Current
    <3> QED BY <3>1, <3>2, <1>3
  <2> QED BY <2>1, <2>2, <2>3
<1>10. Waits' BY <1>1, <1>9 DEF Waits
<1>11. Kept'
  <2> SUFFICES ASSUME NEW m \in Active', ~load'[m].old
      PROVE  Current(m)'
    BY DEF Kept
  <2>1. m \in Active /\ m # l /\ load'[m] = load[m] /\ load[m].key \in Keys
    BY <1>1, <1>7 DEF Active
  <2>2. entry[load[m].key] = [st |-> "pending", by |-> m]
    BY <2>1 DEF Kept, Current
  <2>3. entry'[load[m].key] = entry[load[m].key]
    <3>1. CASE load[m].key # k BY <3>1, <2>1, <1>3
    <3>2. CASE load[m].key = k BY <3>2, <2>1, <2>2, <1>3 DEF Current
    <3> QED BY <3>1, <3>2
  <2> QED BY <2>1, <2>2, <2>3 DEF Current
<1>12. NeverStale' BY <1>3, <1>5, <1>1 DEF NeverStale
<1>13. Ending' BY <1>1, <1>7 DEF Ending
<1>14. Bounded' BY <1>7, FewerBounded
<1> QED BY <1>8, <1>10, <1>11, <1>12, <1>13, <1>14

\* Clearing the table cuts every read off.
LEMMA ClearedHolds ==
  ASSUME CacheInv, Cleared, UNCHANGED caller,
         \/ UNCHANGED <<phase, awaits>>
         \/ phase' = "closing" /\ awaits' = Active
         
  PROVE  CacheInv'
<1> USE DEF CacheInv, Shape, Pending, Settled, Reads, Waiting, Replies, NoEntry,
        NoLoad, Idle, Refused
<1>1. entry' = [k \in Keys |-> NoEntry] BY DEF Cleared
<1>2. \A l \in Loads :
        /\ load'[l] \in {NoLoad} \cup Reads
        /\ load[l].st = "running" <=> load'[l].st = "running"
        /\ load'[l].st = "running" => load'[l].old
  <2> SUFFICES ASSUME NEW l \in Loads
      PROVE  /\ load'[l] \in {NoLoad} \cup Reads
             /\ load[l].st = "running" <=> load'[l].st = "running"
             /\ load'[l].st = "running" => load'[l].old
    OBVIOUS
  <2>1. CASE load[l].st = "running"
    <3>1. load[l] \in Reads BY <2>1
    <3>2. load'[l] = [load[l] EXCEPT !.old = TRUE] BY <2>1 DEF Cleared
    <3> QED BY <2>1, <3>1, <3>2
  <2>2. CASE load[l].st # "running" BY <2>2 DEF Cleared
  <2> QED BY <2>1, <2>2
<1>3. Active' = Active BY <1>2 DEF Active
<1>4. Shape'
  <2>1. load' \in [Loads -> {NoLoad} \cup Reads] BY <1>2 DEF Cleared
  <2> QED BY <1>1, <2>1 DEF Active
<1>5. Waits' /\ Kept' BY <1>1, <1>2 DEF Waits, Kept, Active
<1>6. NeverStale' BY <1>1 DEF NeverStale
<1>7. Ending' BY <1>3 DEF Ending
<1>8. Bounded' BY <1>3, FewerBounded
<1> QED BY <1>4, <1>5, <1>6, <1>7, <1>8

\* Time passing, and the end of close().
LEMMA OthersHold ==
  ASSUME CacheInv, (\E k \in Keys : Expire(k)) \/ Closed \/ UNCHANGED vars
  PROVE  CacheInv'
<1> USE DEF CacheInv, Shape, Pending, Settled, Reads, Waiting, Replies, NoEntry,
        NoLoad, Idle, Refused
<1>1. UNCHANGED <<load, caller>>
  BY DEF Expire, Closed, vars
<1>2. Active' = Active BY <1>1 DEF Active
<1>3. /\ entry' \in [Keys -> {NoEntry} \cup Pending \cup Settled]
      /\ \A k \in Keys : /\ entry'[k].st = entry[k].st
                         /\ entry[k].st = "pending" => entry'[k] = entry[k]
                         /\ entry[k].st = "good" => entry'[k].old = entry[k].old
  <2>1. CASE entry' = entry BY <2>1
  <2>2. ASSUME NEW j \in Keys, Expire(j)
        PROVE  /\ entry' = [entry EXCEPT ![j] = entry'[j]]
               /\ entry[j] \in Settled /\ entry'[j] \in Settled
               /\ entry'[j].st = entry[j].st /\ entry'[j].old = entry[j].old
    <3>1. entry[j] \in Settled BY <2>2 DEF Expire
    <3>2. entry' = [entry EXCEPT ![j] = [entry[j] EXCEPT !.fresh = FALSE]]
      BY <2>2 DEF Expire
    <3> QED BY <3>1, <3>2
  <2>3. ASSUME NEW j \in Keys, Expire(j), NEW k \in Keys
        PROVE  /\ entry'[k] \in {NoEntry} \cup Pending \cup Settled
               /\ entry'[k].st = entry[k].st
               /\ entry[k].st = "pending" => entry'[k] = entry[k]
               /\ entry[k].st = "good" => entry'[k].old = entry[k].old
    <3>1. CASE k = j BY <2>2, <2>3, <3>1
    <3>2. CASE k # j BY <2>2, <2>3, <3>2
    <3> QED BY <3>1, <3>2
  <2>4. ASSUME NEW j \in Keys, Expire(j) PROVE entry' = [k \in Keys |-> entry'[k]]
    BY <2>4, <2>2
  <2> QED BY <2>1, <2>3, <2>4 DEF Closed, vars
<1>4. phase' \in {"open", "closing", "closed"} /\ awaits' = awaits /\ Ending'
  BY <1>2 DEF Expire, Closed, vars, Ending
<1>5. Shape' BY <1>1, <1>3, <1>4
<1>6. Waits' BY <1>1, <1>3 DEF Waits
<1>7. Kept'
  <2> SUFFICES ASSUME NEW m \in Active', ~load'[m].old PROVE Current(m)'
    BY DEF Kept
  <2>1. m \in Active /\ load[m].key \in Keys BY <1>2 DEF Active
  <2>2. Current(m) BY <2>1, <1>1 DEF Kept
  <2> QED BY <2>1, <2>2, <1>1, <1>3 DEF Current
<1>8. NeverStale' BY <1>1, <1>3 DEF NeverStale
<1>9. Bounded' BY <1>2, FewerBounded
<1> QED BY <1>4, <1>5, <1>6, <1>7, <1>8, <1>9

\* The invariant holds of every state of the cache.
THEOREM CacheInvariant == Spec => []CacheInv
<1>1. Init => CacheInv BY InitHolds
<1>2. CacheInv /\ [Next]_vars => CacheInv'
  <2> SUFFICES ASSUME CacheInv, [Next]_vars PROVE CacheInv'
    OBVIOUS
  <2>1. ASSUME NEW c \in Callers, NEW k \in Keys, NEW force \in BOOLEAN,
               GetCached(c, k, force) \/ \E l \in Loads : GetLoads(c, k, force, l)
        PROVE  CacheInv'
    BY <2>1, GetCachedHolds, GetLoadsHolds
  <2>2. ASSUME NEW l \in Loads, NEW ok \in BOOLEAN, LoadEnds(l, ok)
        PROVE  CacheInv'
    BY <2>2, LoadEndsHolds
  <2>3. CASE Invalidate BY <2>3, ClearedHolds DEF Invalidate
  <2>4. CASE Close BY <2>4, ClearedHolds DEF Close, Collected
  <2>5. CASE (\E k \in Keys : Expire(k)) \/ Closed \/ UNCHANGED vars
    BY <2>5, OthersHold
  <2> QED BY <2>1, <2>2, <2>3, <2>4, <2>5 DEF Next
<1> QED BY <1>1, <1>2, PTL DEF Spec

\* However often the table is cleared while reads are under way, no more than
\* Capacity of them run (get(), lines 21 and 43).
THEOREM BoundKept == Spec => []LoadsBounded
<1>1. CacheInv => LoadsBounded BY DEF CacheInv, Bounded
<1> QED BY <1>1, CacheInvariant, PTL

\* No observation from before an invalidation is kept or handed out.
THEOREM StaleNever == Spec => []NeverStale
<1>1. CacheInv => NeverStale BY DEF CacheInv
<1> QED BY <1>1, CacheInvariant, PTL

\* One read of a connection at a time, between two invalidations.
THEOREM ReadsCoalesce == Spec => []Coalesced
<1>1. CacheInv => Coalesced
  <2> SUFFICES ASSUME CacheInv, NEW l \in Active, NEW m \in Active,
                      load[l].key = load[m].key, ~load[l].old, ~load[m].old
      PROVE  l = m
    BY DEF Coalesced
  <2>1. Current(l) /\ Current(m) BY DEF CacheInv, Kept
  <2>2. [st |-> "pending", by |-> l].by = [st |-> "pending", by |-> m].by
    BY <2>1 DEF Current
  <2> QED BY <2>2
<1> QED BY <1>1, CacheInvariant, PTL

\* After close() has returned, nothing runs.
THEOREM QuietWhenClosed == Spec => []ClosedQuiet
<1>1. CacheInv => ClosedQuiet BY DEF CacheInv, Ending, ClosedQuiet
<1> QED BY <1>1, CacheInvariant, PTL
=============================================================================
