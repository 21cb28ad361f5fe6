--------------------------- MODULE StackOutcomes ----------------------------
(***************************************************************************)
(* Proofs of what a change of the managed-stack engine does to a stack     *)
(* while it is under way. Every container keeps its place: its slot, its   *)
(* network namespace and its configuration. So whatever projects, plans    *)
(* and operations name is a stack or a part of one, an application never   *)
(* lends its namespace to another container, what a change creates is      *)
(* never what it replaces, and a cleanup takes retained originals only. On *)
(* its way forward a change stops, renames and replaces one slot after the *)
(* other, on its way back it discards, names and restarts one after the    *)
(* other. So a success has replaced the whole stack, no application loses  *)
(* its VPN while it runs, and after a rollback that failed nothing runs.   *)
(***************************************************************************)
EXTENDS StackProofs

-----------------------------------------------------------------------------
(* Where a container belongs.                                              *)

Used(i) == ctr[i].st # "unused"

\* The namespace of the container in slot k of a stack with VPN v.
NsOf(k, v) == IF k = Vpn THEN NoId ELSE v

\* A stack, or the first containers of one.
Shaped(s) ==
  \A k \in DOMAIN s : /\ Used(s[k]) /\ ctr[s[k]].name.slot = k
                      /\ ctr[s[k]].ns = NsOf(k, s[Vpn])
Chosen(s) == \A k \in Slots : Used(s[k]) /\ ctr[s[k]].name.slot = k

\* The containers of a snapshot, and a snapshot of a stack.
IdsOf(snap) == [k \in Slots |-> snap[k].conf.id]
Recognised(snap) ==
  /\ Shaped(IdsOf(snap))
  /\ \A k \in Slots : /\ snap[k].conf.name.slot = k
                      /\ snap[k].conf.ns = NsOf(k, snap[Vpn].conf.id)
                      /\ snap[k].conf.cfg = ctr[snap[k].conf.id].cfg

\* The replacements of a change, and what it renamed.
Replaces(o, created, renamed) ==
  /\ Shaped(created) /\ Members(created) \cap Members(Originals(o)) = {}
  /\ renamed \subseteq Members(Originals(o))

ContainersPlaced ==
  \A i \in Ids : Used(i) =>
    /\ ctr[i].ns = NoId <=> ctr[i].name.slot = Vpn
    /\ ctr[i].ns \in Ids => Used(ctr[i].ns) /\ ctr[ctr[i].ns].name.slot = Vpn
ProjectsPlaced == \A p \in Projects : proj[p] # <<>> => Shaped(proj[p])
AdoptionsPlaced ==
  \A p \in Projects : /\ adopting[p].pc # "idle" => Chosen(adopting[p].own)
                      /\ adopting[p].pc = "claim" => Shaped(adopting[p].own)
DraftsPlaced ==
  \A l \in Plans : /\ draft[l].pc = "observe" => Shaped(draft[l].own)
                   /\ draft[l].pc = "store" => Recognised(draft[l].snap)
PlansPlaced == \A l \in Plans : plan[l].st # "none" => Recognised(plan[l].snap)
ChangesPlaced ==
  \A o \in Live : /\ Replaces(o, op[o].created, op[o].renamed)
                  /\ flow[o].pc # "idle" =>
                       Replaces(o, flow[o].created, flow[o].renamed)
Placed == /\ ContainersPlaced /\ ProjectsPlaced /\ AdoptionsPlaced
          /\ DraftsPlaced /\ PlansPlaced /\ ChangesPlaced

-----------------------------------------------------------------------------
(* Every container keeps its place.                                        *)

\* What is used stays used, in its slot, namespace and configuration.
Lasting ==
  \A i \in Ids : Used(i) =>
    /\ Used(i)' /\ ctr'[i].name.slot = ctr[i].name.slot
    /\ ctr'[i].ns = ctr[i].ns /\ ctr'[i].cfg = ctr[i].cfg
\* Nothing new comes into use.
Closed == \A i \in Ids : Used(i)' => Used(i)
Steady == Lasting /\ Closed

\* What is removed stays removed.
RemovedStays == \A i \in Ids : ctr[i].st = "removed" => ctr'[i].st = "removed"
\* No two containers have the same name.
NamesUnique ==
  \A i, j \in Ids : Exists(i) /\ Exists(j) /\ ctr[i].name = ctr[j].name => i = j

\* What every step does to the containers, unless it creates one.
Keeps == Steady /\ RemovedStays /\ (NamesUnique => NamesUnique')

\* The daemon creates the container an apply is at.
Creates(o) ==
  /\ flow[o].pc = "create" /\ CanCreate(Snap(o)[flow[o].k].conf.name)
  /\ ctr' = Replacement(o, flow[o].k)

\* The daemon stops or renames containers of a set T, starts one of the set
\* up, or removes one of the set gone.
Handles(T, up, gone) ==
  \/ ctr' = ctr
  \/ \E S \in SUBSET T : (\A i \in S : Exists(i)) /\ ctr' = Stopped(S)
  \/ \E i \in up : CanStart(i) /\ ctr' = Started(i)
  \/ \E i \in gone : Exists(i) /\ ctr' = RemovedC(i)
  \/ \E i \in T, n \in Names : /\ n.slot = ctr[i].name.slot
                               /\ CanRename(i, n) /\ ctr' = Renamed(i, n)

\* It does nothing else.
Only(T, up, gone) ==
  \A i \in Ids : /\ i \notin T => ctr'[i] = ctr[i]
                 /\ Exists(i) /\ i \notin gone => Exists(i)'
                 /\ Running(i)' => Running(i) \/ i \in up

\* What it does to the containers of T keeps their place and the names apart,
\* brings back none, and leaves the others alone.
LEMMA HandlesKeeps ==
  ASSUME TypeInv, NEW T \in SUBSET Ids, NEW up \in SUBSET T,
         NEW gone \in SUBSET T, Handles(T, up, gone)
  PROVE  Keeps /\ Only(T, up, gone)
<1>1. ctr \in [Ids -> Containers] /\ \A i \in Ids : ctr[i] \in Containers
  BY OldTypes
<1> DEFINE to(i, s) == [ctr[i] EXCEPT !.st = s]
           as(i, n) == [ctr[i] EXCEPT !.name = n]
<1>2. \A i \in Ids : \A s : /\ to(i, s).st = s /\ to(i, s).name = ctr[i].name
                            /\ to(i, s).ns = ctr[i].ns /\ to(i, s).cfg = ctr[i].cfg
  BY <1>1 DEF Containers
<1>3. \A i \in Ids : \A n : /\ as(i, n).st = ctr[i].st /\ as(i, n).name = n
                            /\ as(i, n).ns = ctr[i].ns /\ as(i, n).cfg = ctr[i].cfg
  BY <1>1 DEF Containers
\* A change of the run state of containers that are there.
<1>4. ASSUME NEW S \in SUBSET T, \A i \in S : Exists(i),
             NEW s \in {"stopped", "running", "removed"},
             s = "running" => S \subseteq up, s = "removed" => S \subseteq gone,
             \A i \in Ids : ctr'[i] = IF i \in S THEN to(i, s) ELSE ctr[i]
      PROVE  Keeps /\ Only(T, up, gone)
  <2> HIDE DEF to
  <2>1. \A i \in Ids : /\ Used(i) <=> Used(i)'
                       /\ ctr'[i].name = ctr[i].name /\ ctr'[i].ns = ctr[i].ns
                       /\ ctr'[i].cfg = ctr[i].cfg
                       /\ ctr[i].st = "removed" => ctr'[i].st = "removed"
                       /\ Exists(i)' => Exists(i)
                       /\ Exists(i) /\ i \notin gone => Exists(i)'
                       /\ Running(i)' => Running(i) \/ i \in up
    BY <1>2, <1>4 DEF Used, Exists, Running
  <2>2. NamesUnique => NamesUnique'
    BY <2>1 DEF NamesUnique
  <2> QED
    BY <1>4, <2>1, <2>2 DEF Only, Keeps, Steady, Lasting, Closed, RemovedStays
<1>5. CASE ctr' = ctr
  BY <1>5 DEF Only, Keeps, Steady, Lasting, Closed, Used, RemovedStays, NamesUnique,
     Exists, Running
<1>6. CASE \E S \in SUBSET T : (\A i \in S : Exists(i)) /\ ctr' = Stopped(S)
  <2>1. PICK S \in SUBSET T : (\A i \in S : Exists(i)) /\ ctr' = Stopped(S)
    BY <1>6
  <2>2. \A i \in Ids : ctr'[i] = IF i \in S THEN to(i, "stopped") ELSE ctr[i]
    BY <2>1 DEF Stopped
  <2> HIDE DEF to
  <2> QED
    BY <1>4, <2>1, <2>2
<1>7. ASSUME NEW i \in T, Exists(i), NEW s \in {"running", "removed"},
             s = "running" => i \in up, s = "removed" => i \in gone,
             ctr' = [ctr EXCEPT ![i] = to(i, s)]
      PROVE  Keeps /\ Only(T, up, gone)
  <2> HIDE DEF to
  <2>1. \A j \in Ids : ctr'[j] = IF j \in {i} THEN to(j, s) ELSE ctr[j]
    BY <1>1, <1>7
  <2>2. /\ {i} \in SUBSET T /\ \A j \in {i} : Exists(j)
        /\ s = "running" => {i} \subseteq up
        /\ s = "removed" => {i} \subseteq gone
        /\ s \in {"stopped", "running", "removed"}
    BY <1>7
  <2> QED
    BY <1>4, <2>1, <2>2
<1>8. ASSUME NEW i \in T, NEW n \in Names, n.slot = ctr[i].name.slot,
             Exists(i), NameFree(n), ctr' = [ctr EXCEPT ![i] = as(i, n)]
      PROVE  Keeps /\ Only(T, up, gone)
  <2>1. /\ as(i, n).st = ctr[i].st /\ as(i, n).name = n
        /\ as(i, n).name.slot = ctr[i].name.slot
        /\ as(i, n).ns = ctr[i].ns /\ as(i, n).cfg = ctr[i].cfg
    BY <1>3, <1>8
  <2> HIDE DEF as
  <2>2. \A j \in Ids : ctr'[j] = IF j = i THEN as(i, n) ELSE ctr[j]
    BY <1>1, <1>8
  <2>3. \A j \in Ids : /\ ctr'[j].st = ctr[j].st
                       /\ ctr'[j].name = IF j = i THEN n ELSE ctr[j].name
    BY <2>1, <2>2
  <2>4. NamesUnique => NamesUnique'
    <3>1. \A j \in Ids : Exists(j)' => Exists(j)
      BY <2>3 DEF Exists
    <3>2. \A j \in Ids : Exists(j) => ctr[j].name # n
      BY <1>8 DEF NameFree
    <3>3. \A j \in Ids : ctr'[j].name = IF j = i THEN n ELSE ctr[j].name
      BY <2>3
    <3> HIDE DEF as
    <3> QED
      BY <3>1, <3>2, <3>3 DEF NamesUnique
  <2>5. Only(T, up, gone)
    BY <1>8, <2>2, <2>3 DEF Only, Exists, Running
  <2> QED
    BY <1>8, <2>1, <2>2, <2>4, <2>5 DEF Keeps, Steady, Lasting, Closed, Used, RemovedStays
<1>9. CASE \/ \E i \in up : CanStart(i) /\ ctr' = Started(i)
           \/ \E i \in gone : Exists(i) /\ ctr' = RemovedC(i)
  <2>1. PICK i \in T :
          /\ Exists(i)
          /\ \/ i \in up /\ ctr' = [ctr EXCEPT ![i] = to(i, "running")]
             \/ i \in gone /\ ctr' = [ctr EXCEPT ![i] = to(i, "removed")]
    BY <1>9 DEF CanStart, Started, RemovedC
  <2> HIDE DEF to
  <2> QED
    BY <1>7, <2>1
<1>10. CASE \E i \in T, n \in Names : /\ n.slot = ctr[i].name.slot
                                      /\ CanRename(i, n) /\ ctr' = Renamed(i, n)
  <2>1. PICK i \in T, n \in Names :
           /\ n.slot = ctr[i].name.slot /\ Exists(i) /\ NameFree(n)
           /\ ctr' = [ctr EXCEPT ![i] = as(i, n)]
    BY <1>10 DEF CanRename, Renamed
  <2> HIDE DEF as
  <2> QED
    BY <1>8, <2>1
<1> HIDE DEF to, as
<1> QED
  BY <1>5, <1>6, <1>9, <1>10 DEF Handles

\* What an operation refers to has its place.
LEMMA OriginalsPlaced ==
  ASSUME TypeInv, Placed, NEW o \in Live
  PROVE  /\ o \in Ops /\ Recognised(Snap(o))
         /\ \A k \in Slots :
              /\ Orig(o, k) \in Ids /\ Used(Orig(o, k))
              /\ ctr[Orig(o, k)].name.slot = k
              /\ ctr[Orig(o, k)].ns = NsOf(k, Orig(o, Vpn))
              /\ Snap(o)[k].conf.name \in Names /\ Snap(o)[k].conf.name.slot = k
              /\ Backup(o, k) \in Names /\ Backup(o, k).slot = k
              /\ Snap(o)[k].conf.ns = NsOf(k, Orig(o, Vpn))
              /\ Snap(o)[k].conf.cfg = ctr[Orig(o, k)].cfg
<1>1. o \in Ops /\ op[o].plan \in Plans /\ Plan(o).st # "none"
  BY DEF Live, TypeInv, LiveOK
<1>2. Recognised(Snap(o))
  BY <1>1 DEF Placed, PlansPlaced, Snap, Plan
<1>3. Vpn \in Slots
  BY SlotFacts
<1>4. DOMAIN IdsOf(Snap(o)) = Slots /\ \A k \in Slots : IdsOf(Snap(o))[k] = Orig(o, k)
  BY DEF IdsOf, Orig
<1>5. ASSUME NEW k \in Slots
      PROVE  /\ Orig(o, k) \in Ids /\ Used(Orig(o, k))
             /\ ctr[Orig(o, k)].name.slot = k
             /\ ctr[Orig(o, k)].ns = NsOf(k, Orig(o, Vpn))
             /\ Snap(o)[k].conf.name \in Names /\ Snap(o)[k].conf.name.slot = k
             /\ Backup(o, k) \in Names
             /\ Snap(o)[k].conf.ns = NsOf(k, Orig(o, Vpn))
             /\ Snap(o)[k].conf.cfg = ctr[Orig(o, k)].cfg
  BY <1>1, <1>2, <1>3, <1>4, OriginalTypes DEF Recognised, Shaped, Orig
<1>6. \A k \in Slots : Backup(o, k).slot = k
  BY <1>5 DEF Backup, Names
<1> QED
  BY <1>1, <1>2, <1>5, <1>6

\* The containers an apply may touch: its originals and its replacements.
Touchable(o) == Members(Originals(o)) \cup Members(flow[o].created)
\* Those it may start: a service that ran, and whose VPN ran, or its
\* replacement.
Startable(o) == {Orig(o, k) : k \in {j \in Slots : Wanted(o, j)}}
                  \cup Members(flow[o].created)
\* The daemon does something of what an apply may ask for.
Serves(o) == Handles(Touchable(o), Startable(o), Members(flow[o].created))

\* The containers that an apply touches are those of its copies.
LEMMA FlowPlaced ==
  ASSUME TypeInv, NEW o \in Ops, flow[o].pc # "idle"
  PROVE  /\ o \in Live /\ flow[o].created \in Seq(Ids)
         /\ DOMAIN flow[o].created = 1..Len(flow[o].created)
         /\ \A k \in Slots : Orig(o, k) \in Touchable(o)
         /\ \A k \in DOMAIN flow[o].created : flow[o].created[k] \in Touchable(o)
         /\ Asked(o) \subseteq Touchable(o) /\ \A i \in Asked(o) : Exists(i)
         /\ Touchable(o) \in SUBSET Ids /\ Startable(o) \in SUBSET Touchable(o)
         /\ Members(flow[o].created) \in SUBSET Touchable(o)
         /\ \A k \in Slots : Wanted(o, k) => Orig(o, k) \in Startable(o)
         /\ \A k \in DOMAIN flow[o].created :
              flow[o].created[k] \in Members(flow[o].created) \cap Startable(o)
<1>1. o \in Live /\ flow[o].created \in Seq(Ids)
      /\ DOMAIN flow[o].created = 1..Len(flow[o].created)
  BY Flowing
<1>2. \A k \in Slots : Orig(o, k) \in Ids
  BY <1>1, OriginalTypes
<1>3. Members(Originals(o)) = {Orig(o, k) : k \in Slots}
  BY DEF Members, Originals
<1>4. Members(flow[o].created) \subseteq Ids
  BY <1>1 DEF Members
<1>5. /\ Asked(o) \subseteq Touchable(o) /\ \A i \in Asked(o) : Exists(i)
  BY <1>3 DEF Asked, Touchable, Running, Exists, Apps
<1> QED
  BY <1>1, <1>2, <1>3, <1>4, <1>5 DEF Touchable, Startable, Members

\* A step of an apply handles what it may touch, or creates a container.
LEMMA ApplyHandles ==
  ASSUME TypeInv, Placed, NEW o \in Ops, ApplyStep(o)
  PROVE  Serves(o) \/ Creates(o)
<1> DEFINE k == flow[o].k
           T == Touchable(o)
<1>0. /\ flow[o].pc # "idle" /\ (flow[o].pc \in Loops => k \in Slots)
      /\ (flow[o].pc \in Discards => k \in DOMAIN flow[o].created)
  <2>1. flow[o].pc # "idle"
    BY DEF ApplyStep, ValidationFails, NothingToChange, Prepared, StopOriginal,
       RenameOriginal, CreateReplacement, StartReplacement, AwaitReplacement,
       VerifyNamespace, Commit, CommitFails, BeginRollback,
       DiscardReplacement, RestoreName, RestoreOwnership, RestartOriginal,
       RolledBack, StopEverything, RollbackFailed
  <2> QED
    BY <2>1, Flowing, FlowPlaced DEF Position
<1>1. /\ \A j \in Slots : Orig(o, j) \in T
      /\ \A j \in DOMAIN flow[o].created :
           flow[o].created[j] \in T \cap Startable(o) \cap Members(flow[o].created)
      /\ \A j \in Slots : Wanted(o, j) => Orig(o, j) \in Startable(o)
      /\ Asked(o) \subseteq T /\ \A i \in Asked(o) : Exists(i)
      /\ o \in Live
  BY <1>0, FlowPlaced
<1>2. \A i \in T : Exists(i) /\ ctr' = Stopped({i}) => Serves(o)
  BY DEF Serves, Handles
<1>3. CASE \/ ValidationFails(o) \/ NothingToChange(o) \/ Prepared(o)
           \/ AwaitReplacement(o) \/ VerifyNamespace(o) \/ Commit(o)
           \/ CommitFails(o) \/ BeginRollback(o) \/ RestoreOwnership(o)
           \/ RolledBack(o) \/ RollbackFailed(o)
  <2>1. ctr' = ctr
    BY <1>3 DEF ValidationFails, NothingToChange, Prepared, AwaitReplacement,
       VerifyNamespace, Commit, CommitFails, BeginRollback, RestoreOwnership,
       RolledBack, RollbackFailed, Await, Refused, ReadFails
  <2> QED
    BY <2>1 DEF Serves, Handles
<1>4. CASE StopOriginal(o)
  <2>1. StopSlot(k) \in Slots
    BY <1>0, <1>4, SlotMoves DEF StopOriginal, Loops
  <2>2. \/ ctr' = ctr
        \/ CanStop(Orig(o, StopSlot(k))) /\ ctr' = Stopped({Orig(o, StopSlot(k))})
    BY <1>4 DEF StopOriginal, Await, Refused
  <2> QED
    BY <1>1, <1>2, <2>1, <2>2 DEF CanStop, Serves, Handles
<1>5. CASE RenameOriginal(o)
  <2>1. k \in Slots
    BY <1>0, <1>5 DEF RenameOriginal, Loops
  <2>2. \/ ctr' = ctr
        \/ /\ CanRename(Orig(o, k), Backup(o, k))
           /\ ctr' = Renamed(Orig(o, k), Backup(o, k))
    BY <1>5 DEF RenameOriginal, Refused
  <2>3. /\ Backup(o, k) \in Names /\ Backup(o, k).slot = ctr[Orig(o, k)].name.slot
        /\ Orig(o, k) \in T
    BY <1>1, <2>1, OriginalsPlaced
  <2> QED
    BY <2>2, <2>3 DEF Serves, Handles
<1>6. CASE CreateReplacement(o)
  BY <1>6 DEF CreateReplacement, Refused, Creates, Serves, Handles
<1>7. CASE StartReplacement(o)
  <2>1. k \in DOMAIN flow[o].created
    BY <1>0, <1>7, FlowPlaced, AtReplacement, SlotFacts DEF StartReplacement
  <2>2. \/ ctr' = ctr
        \/ CanStart(flow[o].created[k]) /\ ctr' = Started(flow[o].created[k])
    BY <1>7 DEF StartReplacement, Await, Refused
  <2> QED
    BY <1>1, <2>1, <2>2 DEF Serves, Handles
<1>8. CASE DiscardReplacement(o)
  <2> DEFINE i == flow[o].created[k]
  <2>1. i \in T /\ i \in Members(flow[o].created)
    BY <1>0, <1>1, <1>8 DEF DiscardReplacement, Discards
  <2>2. \/ ctr' = ctr
        \/ CanStop(i) /\ ctr' = Stopped({i})
        \/ CanRemove(i) /\ ctr' = RemovedC(i)
    BY <1>8 DEF DiscardReplacement, Await, Refused
  <2> QED
    BY <1>2, <2>1, <2>2 DEF CanStop, CanRemove, Exists, Serves, Handles
<1>9. CASE RestoreName(o)
  <2> DEFINE n == Snap(o)[k].conf.name
  <2>1. k \in Slots
    BY <1>0, <1>9 DEF RestoreName, Loops
  <2>2. ctr' = ctr \/ (CanRename(Orig(o, k), n) /\ ctr' = Renamed(Orig(o, k), n))
    BY <1>9 DEF RestoreName, Await, Refused
  <2>3. n \in Names /\ n.slot = ctr[Orig(o, k)].name.slot /\ Orig(o, k) \in T
    BY <1>1, <2>1, OriginalsPlaced
  <2> QED
    BY <2>2, <2>3 DEF Serves, Handles
<1>10. CASE RestartOriginal(o)
  <2>1. k \in Slots
    BY <1>0, <1>10 DEF RestartOriginal, Loops
  <2>2. \/ ctr' = ctr
        \/ Wanted(o, k) /\ CanStart(Orig(o, k)) /\ ctr' = Started(Orig(o, k))
    BY <1>10 DEF RestartOriginal, Await, Refused
  <2> QED
    BY <1>1, <2>1, <2>2 DEF Serves, Handles
<1>11. CASE StopEverything(o)
  <2>1. PICK S : S \subseteq Asked(o) /\ ctr' = Stopped(S)
    BY <1>11 DEF StopEverything
  <2> QED
    BY <1>1, <2>1 DEF Serves, Handles
<1> QED
  BY <1>3, <1>4, <1>5, <1>6, <1>7, <1>8, <1>9, <1>10, <1>11 DEF ApplyStep

\* So does a call that is answered no more.
LEMMA UnansweredHandles ==
  ASSUME TypeInv, Placed, NEW o \in Ops, Unanswered(o)
  PROVE  flow[o].pc # "idle" /\ (Serves(o) \/ Creates(o))
<1> DEFINE k == flow[o].k
           new == flow[o].created[k]
           T == Touchable(o)
<1>0. /\ flow[o].pc # "idle" /\ (flow[o].pc \in Loops => k \in Slots)
      /\ (flow[o].pc \in Discards => k \in DOMAIN flow[o].created)
  <2>1. flow[o].pc # "idle"
    BY DEF Unanswered
  <2> QED
    BY <2>1, Flowing, FlowPlaced DEF Position
<1>1. /\ \A j \in Slots : Orig(o, j) \in T
      /\ \A j \in DOMAIN flow[o].created :
           flow[o].created[j] \in T \cap Startable(o) \cap Members(flow[o].created)
      /\ \A j \in Slots : Wanted(o, j) => Orig(o, j) \in Startable(o)
      /\ Asked(o) \subseteq T /\ \A i \in Asked(o) : Exists(i)
      /\ o \in Live
  BY <1>0, FlowPlaced
<1>2. \A i \in T : Exists(i) /\ ctr' = Stopped({i}) => Serves(o)
  BY DEF Serves, Handles
<1>3. CASE /\ flow[o].pc = "stop" /\ CanStop(Orig(o, StopSlot(k)))
           /\ ctr' = Stopped({Orig(o, StopSlot(k))})
  <2>1. Orig(o, StopSlot(k)) \in T
    BY <1>0, <1>1, <1>3, SlotMoves DEF Loops
  <2> QED
    BY <1>0, <1>2, <1>3, <2>1 DEF CanStop
<1>4. CASE /\ flow[o].pc \in {"rename", "rename back"}
           /\ \E n \in {Backup(o, k), Snap(o)[k].conf.name} :
                CanRename(Orig(o, k), n) /\ ctr' = Renamed(Orig(o, k), n)
  <2>1. k \in Slots /\ o \in Live
    BY <1>0, <1>1, <1>4 DEF Loops
  <2>2. PICK n \in Names : /\ n.slot = ctr[Orig(o, k)].name.slot
                           /\ CanRename(Orig(o, k), n) /\ ctr' = Renamed(Orig(o, k), n)
    <3>1. \A n \in {Backup(o, k), Snap(o)[k].conf.name} :
            n \in Names /\ n.slot = ctr[Orig(o, k)].name.slot
      BY <2>1, OriginalsPlaced
    <3> QED
      BY <1>4, <3>1
  <2> QED
    BY <1>0, <1>1, <2>1, <2>2 DEF Serves, Handles
<1>5. CASE Creates(o)
  BY <1>0, <1>5
<1>6. CASE flow[o].pc = "start" /\ CanStart(new) /\ ctr' = Started(new)
  <2>1. k \in DOMAIN flow[o].created
    BY <1>0, <1>6, FlowPlaced, AtReplacement, SlotFacts
  <2> QED
    BY <1>0, <1>1, <1>6, <2>1 DEF Serves, Handles
<1>7. CASE /\ flow[o].pc \in Discards
           /\ \/ CanStop(new) /\ ctr' = Stopped({new})
              \/ CanRemove(new) /\ ctr' = RemovedC(new)
  <2>1. new \in T /\ new \in Members(flow[o].created)
    BY <1>0, <1>1, <1>7
  <2> QED
    BY <1>0, <1>2, <1>7, <2>1 DEF CanStop, CanRemove, Exists, Serves, Handles
<1>8. CASE /\ flow[o].pc = "restart" /\ Wanted(o, k) /\ CanStart(Orig(o, k))
           /\ ctr' = Started(Orig(o, k))
  <2>1. k \in Slots
    BY <1>0, <1>8 DEF Loops
  <2> QED
    BY <1>0, <1>1, <1>8, <2>1 DEF Serves, Handles
<1>9. CASE \E S \in SUBSET Asked(o) : ctr' = Stopped(S)
  BY <1>0, <1>1, <1>9 DEF Serves, Handles
<1> QED
  BY <1>3, <1>4, <1>5, <1>6, <1>7, <1>8, <1>9 DEF Unanswered, Creates, Discards

\* The owner puts containers back, or removes them.
LEMMA RepairsKeep ==
  ASSUME TypeInv, Placed, NEW o \in Ops, o \in Live, OwnerRepairs(o)
  PROVE  Keeps
<1> DEFINE slot(i) == {k \in Slots : Orig(o, k) = i}
           names == {Snap(o)[k].conf.name : k \in Slots}
           back(i, k) == [ctr[i] EXCEPT !.name = Snap(o)[k].conf.name,
                            !.st = IF Snap(o)[k].up THEN "running" ELSE "stopped"]
           gone(i) == [ctr[i] EXCEPT !.st = "removed"]
<1>1. \A i \in Ids : ctr[i] \in Containers
  BY OldTypes
<1>2. ASSUME NEW i \in Ids
      PROVE  \/ slot(i) = {} /\ ctr'[i] = ctr[i]
                /\ (Exists(i) => ctr[i].name \notin names)
             \/ slot(i) = {} /\ Exists(i) /\ ctr'[i] = gone(i)
             \/ \E k \in Slots : Orig(o, k) = i /\ ctr'[i] = back(i, k)
  <2>1. CASE slot(i) # {}
    <3>1. ctr'[i] = back(i, CHOOSE k \in slot(i) : TRUE)
      BY <2>1 DEF OwnerRepairs
    <3>2. (CHOOSE k \in slot(i) : TRUE) \in slot(i)
      BY <2>1
    <3> HIDE DEF back
    <3> QED
      BY <3>1, <3>2
  <2>2. CASE slot(i) = {}
    BY <2>2 DEF OwnerRepairs
  <2> QED
    BY <2>1, <2>2
<1>3. \A i \in Ids : /\ gone(i).st = "removed" /\ gone(i).name = ctr[i].name
                     /\ gone(i).ns = ctr[i].ns /\ gone(i).cfg = ctr[i].cfg
  BY <1>1 DEF Containers
<1>4. \A i \in Ids, k \in Slots :
        /\ back(i, k).st \in {"running", "stopped"}
        /\ back(i, k).name = Snap(o)[k].conf.name
        /\ back(i, k).ns = ctr[i].ns /\ back(i, k).cfg = ctr[i].cfg
  BY <1>1 DEF Containers
<1>5. \A k \in Slots : /\ Snap(o)[k].conf.name.slot = ctr[Orig(o, k)].name.slot
                       /\ Snap(o)[k].conf.name.slot = k
                       /\ Exists(Orig(o, k))
  <2>1. \A k \in Slots : Exists(Orig(o, k))
    BY DEF OwnerRepairs
  <2> HIDE DEF gone, back, slot, names
  <2> QED
    BY <2>1, OriginalsPlaced
<1> HIDE DEF gone, back
<1>6. Steady /\ RemovedStays
  BY <1>2, <1>3, <1>4, <1>5 DEF Steady, Lasting, Closed, Used, RemovedStays, Exists
<1>7. ASSUME NamesUnique
      PROVE  NamesUnique'
  <2>1. ASSUME NEW i \in Ids, Exists(i)'
        PROVE  \/ /\ slot(i) = {} /\ ctr'[i] = ctr[i] /\ Exists(i)
                  /\ ctr[i].name \notin names
               \/ \E k \in Slots : Orig(o, k) = i /\ ctr'[i].name = Snap(o)[k].conf.name
    BY <1>2, <1>3, <1>4, <2>1 DEF Exists
  <2>2. \A j, k \in Slots : Snap(o)[j].conf.name = Snap(o)[k].conf.name => j = k
    BY <1>5
  <2> QED
    BY <1>7, <2>1, <2>2 DEF NamesUnique
<1> QED
  BY <1>6, <1>7 DEF Keeps

\* Every step keeps the containers in their place, or creates one.
LEMMA StepKeeps ==
  ASSUME TypeInv, Exclusion, Placed, [Next]_vars
  PROVE  Keeps \/ \E o \in Ops : Creates(o)
<1>0. ctr' = ctr => Keeps
  <2>1. ctr' = ctr => Handles({}, {}, {})
    BY DEF Handles
  <2> QED
    BY <2>1, HandlesKeeps
<1>1. CASE Aside
  <2>1. CASE \E q \in Ops : OwnerRepairs(q)
    BY <2>1, RepairsKeep DEF OwnerRepairs, NeedsRecovery, Live
  <2>2. CASE \E i \in Ids : Drift(i)
    <3>1. PICK i \in Ids : Drift(i)
      BY <2>2
    <3>2. Handles({i}, {i}, {i})
      BY <3>1 DEF Drift, Handles
    <3> QED
      BY <3>2, HandlesKeeps
  <2>3. CASE ~(\E q \in Ops : OwnerRepairs(q)) /\ ~(\E i \in Ids : Drift(i))
    <3>1. ctr' = ctr
      BY <1>1, <2>3 DEF Aside, AdoptBegin, AdoptInspect, AdoptClaim, RecoveryBegin,
         RecoveryInspect, ExpireReview, PlanBegin, PlanStore, PlanObserve,
         ExpirePlan, ReviewRecovery, ReviewCleanup, Prune, ReadFails, Refused, vars
    <3> QED
      BY <1>0, <3>1
  <2> QED
    BY <2>1, <2>2, <2>3
<1>2. ASSUME NEW o \in Ops, clean[o].pc = "delete",
             CanRemove(Orig(o, StopSlot(clean[o].k))),
             ctr' = RemovedC(Orig(o, StopSlot(clean[o].k)))
      PROVE  Keeps
  <2>1. o \in Live /\ clean[o].k \in Slots
    BY <1>2, Cleaning
  <2>2. Orig(o, StopSlot(clean[o].k)) \in Ids
    BY <2>1, SlotMoves, OriginalsPlaced
  <2>3. LET i == Orig(o, StopSlot(clean[o].k)) IN Handles({i}, {i}, {i})
    BY <1>2 DEF Handles, CanRemove, Exists
  <2> QED
    BY <2>2, <2>3, HandlesKeeps
<1>3. ASSUME NEW o \in Ops, flow[o].pc # "idle", Serves(o)
      PROVE  Keeps
  BY <1>3, FlowPlaced, HandlesKeeps DEF Serves
<1>4. CASE Crash
  BY <1>0, <1>2, <1>3, <1>4, UnansweredHandles DEF Crash, Stray
<1>5. ASSUME NEW o \in Ops, NEW l \in Plans, ApplyBegin(o, l)
      PROVE  Keeps
  BY <1>0, <1>5 DEF ApplyBegin
<1>6. ASSUME NEW o \in Ops, CleanupBegin(o) \/ CleanupStep(o)
      PROVE  Keeps
  <2>1. \/ ctr' = ctr
        \/ /\ clean[o].pc = "delete" /\ CanRemove(Orig(o, StopSlot(clean[o].k)))
           /\ ctr' = RemovedC(Orig(o, StopSlot(clean[o].k)))
    BY <1>6 DEF CleanupBegin, CleanupStep, CleanupVet, CleanupCheck, CleanupDelete,
       CleanupDone, ReadFails, Refused
  <2> QED
    BY <1>0, <1>2, <2>1
<1>7. ASSUME NEW r \in Requests, RecoveryConfirm(r)
      PROVE  Keeps
  BY <1>0, <1>7 DEF RecoveryConfirm, ReadFails, Refused
<1>8. ASSUME NEW o \in Ops, ApplyStep(o)
      PROVE  Keeps \/ Creates(o)
  <2>1. flow[o].pc # "idle"
    BY <1>8 DEF ApplyStep, ValidationFails, NothingToChange, Prepared, StopOriginal,
       RenameOriginal, CreateReplacement, StartReplacement, AwaitReplacement,
       VerifyNamespace, Commit, CommitFails, BeginRollback,
       DiscardReplacement, RestoreName, RestoreOwnership, RestartOriginal,
       RolledBack, StopEverything, RollbackFailed
  <2> QED
    BY <1>3, <1>8, <2>1, ApplyHandles
<1> QED
  BY <1>1, <1>4, <1>5, <1>6, <1>7, <1>8, NextCases

\* What the daemon creates for an apply.
LEMMA CreatedPlace ==
  ASSUME TypeInv, Placed, NEW o \in Ops, Creates(o)
  PROVE  /\ o \in Live /\ FreshId \in Ids /\ ~Used(FreshId)
         /\ flow[o].k \in Slots /\ flow[o].created \in Seq(Ids)
         /\ Len(flow[o].created) = flow[o].k - 1
         /\ flow[o].k # Vpn => flow[o].created[Vpn] \in Ids
         /\ \A j \in Ids \ {FreshId} : ctr'[j] = ctr[j]
         /\ ctr'[FreshId].st = "stopped"
         /\ ctr'[FreshId].name = Snap(o)[flow[o].k].conf.name
         /\ ctr'[FreshId].ns = NsOf(flow[o].k, flow[o].created[Vpn])
         /\ ctr'[FreshId].cfg = IF flow[o].k = Vpn THEN Plan(o).cfg
                                ELSE Snap(o)[flow[o].k].conf.cfg
<1>1. /\ flow[o].pc = "create" /\ CanCreate(Snap(o)[flow[o].k].conf.name)
      /\ ctr' = Replacement(o, flow[o].k)
  BY DEF Creates
<1>2. /\ o \in Live /\ flow[o].created \in Seq(Ids) /\ flow[o].k \in Slots
      /\ Len(flow[o].created) = flow[o].k - 1
  BY <1>1, Flowing DEF Position, Loops
<1>3. FreshId \in Ids /\ ~Used(FreshId)
  BY <1>1 DEF CanCreate, UnusedIds, FreshId, Used
<1>4. flow[o].k # Vpn => flow[o].created[Vpn] \in Ids
  <2>1. flow[o].k # Vpn => Vpn \in 1..Len(flow[o].created)
    BY <1>2, SlotFacts DEF Slots, Vpn
  <2> QED
    BY <1>2, <2>1
<1>5. ctr \in [Ids -> Containers]
  BY OldTypes
<1>6. ASSUME NEW n, NEW c, NEW v, ctr' = Created(n, c, v)
      PROVE  /\ \A j \in Ids \ {FreshId} : ctr'[j] = ctr[j]
             /\ ctr'[FreshId].st = "stopped" /\ ctr'[FreshId].name = n
             /\ ctr'[FreshId].cfg = c /\ ctr'[FreshId].ns = v
  BY <1>3, <1>5, <1>6 DEF Created
<1>7. Snap(o)[Vpn].conf.ns = NsOf(Vpn, flow[o].created[Vpn])
  BY <1>2, SlotFacts, OriginalsPlaced DEF NsOf
<1>8. PICK n, c, v : ctr' = Created(n, c, v) /\ n = Snap(o)[flow[o].k].conf.name
        /\ c = (IF flow[o].k = Vpn THEN Plan(o).cfg ELSE Snap(o)[flow[o].k].conf.cfg)
        /\ v = NsOf(flow[o].k, flow[o].created[Vpn])
  BY <1>1, <1>7 DEF Replacement, NsOf
<1>9. /\ \A j \in Ids \ {FreshId} : ctr'[j] = ctr[j]
      /\ ctr'[FreshId].st = "stopped" /\ ctr'[FreshId].name = n
      /\ ctr'[FreshId].cfg = c /\ ctr'[FreshId].ns = v
  BY <1>6, <1>8
<1> QED
  BY <1>2, <1>3, <1>4, <1>8, <1>9

\* Nothing that is used ever loses its place.
LEMMA StepLasting ==
  ASSUME TypeInv, Exclusion, Placed, [Next]_vars
  PROVE  Lasting
<1>1. ASSUME NEW o \in Ops, Creates(o)
      PROVE  Lasting
  BY <1>1, CreatedPlace DEF Lasting, Used
<1> QED
  BY <1>1, StepKeeps DEF Keeps, Steady

\* So a stack keeps its shape.
LEMMA ShapesLast ==
  ASSUME TypeInv, Lasting
  PROVE  /\ \A s : Shaped(s) /\ (\A k \in DOMAIN s : s[k] \in Ids) => Shaped(s)'
         /\ \A s \in Stacks : Chosen(s) => Chosen(s)'
         /\ \A snap \in [Slots -> Snapshots] : Recognised(snap) => Recognised(snap)'
<1>1. \A s : Shaped(s) /\ (\A k \in DOMAIN s : s[k] \in Ids) => Shaped(s)'
  BY DEF Shaped, Lasting
<1>2. \A s \in Stacks : Chosen(s) => Chosen(s)'
  BY DEF Chosen, Lasting, Stacks
<1>3. ASSUME NEW snap \in [Slots -> Snapshots], Recognised(snap)
      PROVE  Recognised(snap)'
  <2>1. /\ \A k \in Slots : snap[k].conf.id \in Ids
        /\ DOMAIN IdsOf(snap) = Slots
        /\ \A k \in Slots : IdsOf(snap)[k] = snap[k].conf.id
    BY DEF Snapshots, Confs, IdsOf
  <2>2. Shaped(IdsOf(snap))'
    BY <1>1, <1>3, <2>1 DEF Recognised, IdsOf
  <2>3. \A k \in Slots : Used(snap[k].conf.id)
    BY <1>3, <2>1 DEF Recognised, Shaped
  <2> QED
    BY <1>3, <2>1, <2>2, <2>3 DEF Recognised, Lasting
<1> QED
  BY <1>1, <1>2, <1>3

\* Whom a project goes to: its owner, the originals or the replacements of an
\* operation, or an adoption.
GoesTo(p, s) ==
  \/ s = proj[p]
  \/ \E o \in Live : Project(o) = p /\ s = Originals(o)
  \/ \E o \in Live : /\ flow[o].pc = "commit" /\ AllThere(o)
                     /\ Project(o) = p /\ s = flow[o].created
  \/ /\ adopting[p].pc = "claim" /\ s = adopting[p].own
     /\ adopting'[p].pc = "idle" /\ ctr' = ctr
     /\ Dependents(s[Vpn]) \subseteq {s[k] : k \in Apps}

\* A step leaves a project alone or takes it there.
LEMMA ProjectMoves ==
  ASSUME TypeInv, [Next]_vars, NEW p \in Projects
  PROVE  GoesTo(p, proj'[p])
<1>0. proj \in [Projects -> Stacks \cup {<<>>}]
  BY OldTypes
<1>1. ASSUME NEW o \in Live,
             \/ proj' = [proj EXCEPT ![Project(o)] = Originals(o)]
             \/ flow[o].pc = "commit" /\ AllThere(o) /\ proj' = Rebound(o)
      PROVE  GoesTo(p, proj'[p])
  <2>1. Project(o) \in Projects /\ o \in Ops
    BY PlanTypes DEF Live
  <2> QED
    BY <1>0, <1>1, <2>1 DEF GoesTo, Rebound
<1>2. CASE proj' = proj
  BY <1>2 DEF GoesTo
<1>3. ASSUME NEW q \in Projects, AdoptClaim(q)
      PROVE  GoesTo(p, proj'[p])
  <2>1. adopting'[q].pc = "idle"
    BY <1>3 DEF AdoptClaim, TypeInv, TypeOK, IdleAdopt
  <2> QED
    BY <1>0, <1>3, <2>1 DEF AdoptClaim, GoesTo
<1>4. CASE Aside /\ ~(\E q \in Projects : AdoptClaim(q))
  <2>1. proj' = proj
    BY <1>4 DEF Aside, AdoptBegin, AdoptInspect, RecoveryBegin, RecoveryInspect,
       OwnerRepairs, Drift, ExpireReview, PlanBegin, PlanStore, PlanObserve,
       ExpirePlan, ReviewRecovery, ReviewCleanup, Prune, vars, disk
  <2> QED
    BY <1>2, <2>1
<1>5. ASSUME NEW r \in Requests, req[r].pc = "confirm", proj' = Returned(req[r].op)
      PROVE  GoesTo(p, proj'[p])
  <2>1. PICK o : o = req[r].op
    OBVIOUS
  <2>2. o \in Live
    BY <1>5, <2>1, Requesting
  <2> QED
    BY <1>1, <1>5, <2>1, <2>2 DEF Returned
<1>6. CASE Crash
  <2>1. ASSUME NEW o \in Ops, flow[o].pc = "commit", AllThere(o), proj' = Rebound(o)
        PROVE  GoesTo(p, proj'[p])
    BY <1>1, <2>1, Flowing
  <2> QED
    BY <1>2, <1>5, <1>6, <2>1 DEF Crash, Torn
<1>7. ASSUME NEW r \in Requests, RecoveryConfirm(r)
      PROVE  GoesTo(p, proj'[p])
  BY <1>2, <1>5, <1>7 DEF RecoveryConfirm
<1>8. ASSUME NEW o \in Ops, NEW l \in Plans, ApplyBegin(o, l)
      PROVE  GoesTo(p, proj'[p])
  BY <1>2, <1>8 DEF ApplyBegin
<1>9. ASSUME NEW o \in Ops, ApplyStep(o)
      PROVE  GoesTo(p, proj'[p])
  <2>1. CASE Commit(o) \/ CommitFails(o)
    <3>1. o \in Live
      BY <2>1, Flowing DEF Commit, CommitFails
    <3>2. proj' = proj \/ (flow[o].pc = "commit" /\ AllThere(o) /\ proj' = Rebound(o))
      BY <2>1 DEF Commit, CommitFails
    <3> QED
      BY <1>1, <1>2, <3>1, <3>2
  <2>2. CASE RestoreOwnership(o)
    <3>1. o \in Live
      BY <2>2, Flowing DEF RestoreOwnership
    <3> QED
      BY <1>1, <1>2, <2>2, <3>1 DEF RestoreOwnership
  <2>3. CASE ~(Commit(o) \/ CommitFails(o) \/ RestoreOwnership(o))
    <3>1. proj' = proj
      BY <1>9, <2>3 DEF ApplyStep, ValidationFails, NothingToChange, Prepared,
         StopOriginal, RenameOriginal, CreateReplacement, StartReplacement,
         AwaitReplacement, VerifyNamespace, BeginRollback, DiscardReplacement,
         RestoreName, RestartOriginal, RolledBack, StopEverything,
         RollbackFailed, still, disk
    <3> QED
      BY <1>2, <3>1
  <2> QED
    BY <2>1, <2>2, <2>3
<1>10. ASSUME NEW o \in Ops, CleanupBegin(o) \/ CleanupStep(o)
       PROVE  GoesTo(p, proj'[p])
  <2>1. proj' = proj
    BY <1>10 DEF CleanupBegin, CleanupStep, CleanupVet, CleanupCheck, CleanupDelete,
       CleanupDone, untouched
  <2> QED
    BY <1>2, <2>1
<1> QED
  BY <1>3, <1>4, <1>6, <1>7, <1>8, <1>9, <1>10, NextCases

\* What the record of an operation, or its running copy, holds after a step:
\* what either held, nothing yet, or one container more.
Holds(o, created, renamed) ==
  \/ created = op[o].created /\ renamed = op[o].renamed
  \/ created = flow[o].created /\ renamed = flow[o].renamed
     /\ flow[o].pc # "idle"
  \/ created = <<>> /\ renamed = {}
  \/ /\ flow[o].pc = "rename" /\ created = flow[o].created
     /\ renamed = flow[o].renamed \cup {Orig(o, flow[o].k)}
  \/ Creates(o) /\ created = Append(flow[o].created, FreshId)
     /\ renamed = flow[o].renamed
HeldTrue(o) ==
  /\ Holds(o, op'[o].created, op'[o].renamed)
  /\ flow'[o].pc # "idle" => Holds(o, flow'[o].created, flow'[o].renamed)

\* A step of an apply keeps what every operation holds true,
LEMMA ApplyHolds ==
  ASSUME TypeInv, NEW o \in Ops, ApplyStep(o)
  PROVE  HeldTrue(o) /\ \A q \in Ops \ {o} : HeldTrue(q)
<1>0. flow[o].pc # "idle" /\ flow[o] \in FlowRec
  <2>1. flow[o].pc # "idle"
    BY DEF ApplyStep, ValidationFails, NothingToChange, Prepared, StopOriginal,
       RenameOriginal, CreateReplacement, StartReplacement, AwaitReplacement,
       VerifyNamespace, Commit, CommitFails, BeginRollback,
       DiscardReplacement, RestoreName, RestoreOwnership, RestartOriginal,
       RolledBack, StopEverything, RollbackFailed
  <2> QED
    BY <2>1, Flowing
<1>1. ASSUME NEW q \in Ops \ {o}
      PROVE  HeldTrue(q)
  <2>1. op'[q] = op[q] /\ flow'[q] = flow[q]
    BY ApplyShapes, JournalFields DEF ApplyShape, TypeInv, TypeOK
  <2> QED
    BY <2>1 DEF HeldTrue, Holds
<1> SUFFICES HeldTrue(o)
  BY <1>1
\* A write of a copy, and a step to a copy.
<1>2. ASSUME NEW f \in FlowRec, Holds(o, f.created, f.renamed),
             op' = op \/ op' = Journal(o, f) \/ op' = Journal(o, flow[o]),
             \/ End(o) \/ \E at : Goto(o, f, at) \/ Goto(o, flow[o], at)
      PROVE  HeldTrue(o)
  <2>1. Holds(o, op'[o].created, op'[o].renamed)
    BY <1>0, <1>2, JournalFields DEF Holds
  <2>2. flow'[o].pc = "idle" \/ Holds(o, flow'[o].created, flow'[o].renamed)
    <3>1. CASE End(o)
      BY <3>1 DEF End, IdleFlow, TypeInv, TypeOK
    <3>2. ASSUME NEW at, Goto(o, f, at) \/ Goto(o, flow[o], at)
          PROVE  Holds(o, flow'[o].created, flow'[o].renamed)
      BY <1>0, <1>2, <3>2, GotoFields DEF Holds
    <3> QED
      BY <1>2, <3>1, <3>2
  <2> QED
    BY <2>1, <2>2 DEF HeldTrue
<1>3. Holds(o, flow[o].created, flow[o].renamed)
  BY <1>0 DEF Holds
<1>4. ASSUME NEW st \in OpStatus
      PROVE  LET f == [flow[o] EXCEPT !.st = st]
             IN f \in FlowRec /\ Holds(o, f.created, f.renamed)
  BY <1>0, <1>3 DEF FlowRec, Holds
<1>5. CASE \/ ValidationFails(o) \/ NothingToChange(o) \/ Commit(o)
           \/ RolledBack(o) \/ RollbackFailed(o) \/ CommitFails(o)
  <2>1. \E f \in {flow[o], [flow[o] EXCEPT !.st = "rolled_back"],
                  [flow[o] EXCEPT !.st = "succeeded"],
                  [flow[o] EXCEPT !.st = "rollback_failed"]} :
          /\ op' = op \/ op' = Journal(o, f)
          /\ End(o) \/ \E at : Goto(o, f, at) \/ Goto(o, flow[o], at)
    BY <1>5 DEF ValidationFails, Abandoned, AbandonBreaks, Undone, NothingToChange,
       Commit, RolledBack, RollbackFailed, CommitFails, Conclude
  <2>2. \A st \in {"rolled_back", "succeeded", "rollback_failed"} : st \in OpStatus
    BY DEF OpStatus
  <2> QED
    BY <1>0, <1>2, <1>3, <1>4, <2>1, <2>2
<1>6. CASE \/ Prepared(o) \/ StopOriginal(o) \/ StartReplacement(o)
           \/ AwaitReplacement(o) \/ VerifyNamespace(o) \/ BeginRollback(o)
           \/ DiscardReplacement(o) \/ RestoreName(o) \/ RestoreOwnership(o)
           \/ RestartOriginal(o) \/ StopEverything(o)
  <2>1. /\ op' = op \/ op' = Journal(o, flow[o])
        /\ \E at : Goto(o, flow[o], at)
    BY <1>6 DEF Prepared, StopOriginal, StartReplacement, AwaitReplacement,
       VerifyNamespace, BeginRollback, DiscardReplacement, RestoreName,
       RestoreOwnership, RestartOriginal, StopEverything, Await, still, disk
  <2> QED
    BY <1>0, <1>2, <1>3, <2>1
<1>7. CASE RenameOriginal(o)
  <2> DEFINE f == [flow[o] EXCEPT !.renamed = @ \cup {Orig(o, flow[o].k)}]
  <2>1. o \in Live /\ flow[o].pc = "rename" /\ flow[o].k \in Slots
    BY <1>7, Flowing DEF RenameOriginal, Position, Loops
  <2>2. f \in FlowRec /\ f.created = flow[o].created
        /\ f.renamed = flow[o].renamed \cup {Orig(o, flow[o].k)}
    BY <1>0, <2>1, OriginalTypes DEF FlowRec
  <2>3. /\ op' = op \/ op' = Journal(o, f)
        /\ \E at : Goto(o, f, at) \/ Goto(o, flow[o], at)
    BY <1>7 DEF RenameOriginal, Recorded
  <2> HIDE DEF f
  <2>4. Holds(o, f.created, f.renamed)
    BY <2>1, <2>2 DEF Holds
  <2> QED
    BY <1>2, <2>2, <2>3, <2>4
<1>8. CASE CreateReplacement(o)
  <2> DEFINE f == [flow[o] EXCEPT !.created = Append(@, FreshId)]
  <2>1. CASE Creates(o)
    <3>1. FreshId \in Ids
      BY <2>1 DEF Creates, CanCreate, UnusedIds, FreshId
    <3>2. f \in FlowRec /\ f.created = Append(flow[o].created, FreshId)
          /\ f.renamed = flow[o].renamed
      <4>1. Append(flow[o].created, FreshId) \in Seq(Ids)
        BY <1>0, <3>1, AppendProperties DEF FlowRec
      <4> QED
        BY <1>0, <4>1 DEF FlowRec
    <3>3. /\ op' = op \/ op' = Journal(o, f)
          /\ \E at : Goto(o, f, at) \/ Goto(o, flow[o], at)
      BY <1>8 DEF CreateReplacement, Recorded
    <3> HIDE DEF f
    <3>4. Holds(o, f.created, f.renamed)
      BY <2>1, <3>2 DEF Holds
    <3> QED
      BY <1>2, <3>2, <3>3, <3>4
  <2>2. CASE ~Creates(o)
    <3>1. op' = op /\ \E at : Goto(o, flow[o], at)
      BY <1>8, <2>2 DEF CreateReplacement, Creates
    <3> QED
      BY <1>0, <1>2, <1>3, <3>1
  <2> QED
    BY <2>1, <2>2
<1> QED
  BY <1>5, <1>6, <1>7, <1>8 DEF ApplyStep

\* No step takes anything from an operation's lists but the end of the apply.
LEMMA StepHolds ==
  ASSUME TypeInv, [Next]_vars, NEW q \in Ops
  PROVE  HeldTrue(q)
<1>1. ASSUME op'[q].created = op[q].created, op'[q].renamed = op[q].renamed,
             flow'[q] = flow[q] \/ flow'[q] = IdleFlow
      PROVE  HeldTrue(q)
  BY <1>1 DEF HeldTrue, Holds, IdleFlow
<1>2. CASE Aside
  BY <1>1, <1>2, AsideKeeps
<1>3. CASE Crash
  BY <1>1, <1>3, RestartMarks DEF Crash
<1>4. ASSUME NEW o \in Ops, NEW l \in Plans, ApplyBegin(o, l)
      PROVE  HeldTrue(q)
  <2> DEFINE done == [Start(l) EXCEPT !.st = "rolled_back"]
             f == [IdleFlow EXCEPT !.pc = "validate", !.st = "applying",
                                   !.own = proj[plan[l].project]]
  <2>1. /\ Start(l).created = <<>> /\ Start(l).renamed = {}
        /\ done.created = <<>> /\ done.renamed = {}
        /\ f.created = <<>> /\ f.renamed = {}
    BY DEF Start, NoOp, IdleFlow
  <2>2. /\ op' = op \/ op' = [op EXCEPT ![o] = Start(l)] \/ op' = [op EXCEPT ![o] = done]
        /\ flow' = flow \/ flow' = [flow EXCEPT ![o] = f]
    BY <1>4 DEF ApplyBegin
  <2>3. op \in [Ops -> OpRec] /\ flow \in [Ops -> FlowRec]
    BY DEF TypeInv, TypeOK
  <2> HIDE DEF done, f
  <2> QED
    BY <2>1, <2>2, <2>3 DEF HeldTrue, Holds
<1>5. ASSUME NEW o \in Ops, CleanupBegin(o) \/ CleanupStep(o)
      PROVE  HeldTrue(q)
  <2>1. flow' = flow
    BY <1>5 DEF CleanupBegin, CleanupStep, CleanupVet, CleanupCheck, CleanupDelete,
       CleanupDone, untouched
  <2>2. op' = op \/ \E u : Marked(o, u)
    BY <1>5, CleanupStepMarks DEF CleanupBegin
  <2> QED
    BY <1>1, <2>1, <2>2 DEF Marked
<1>6. ASSUME NEW r \in Requests, RecoveryConfirm(r)
      PROVE  HeldTrue(q)
  BY <1>1, <1>6, ConfirmMarks DEF RecoveryConfirm
<1> QED
  BY <1>2, <1>3, <1>4, <1>5, <1>6, ApplyHolds, NextCases

\* What an operation holds has its place after the step.
LEMMA HeldPlaced ==
  ASSUME TypeInv, Exclusion, Placed, [Next]_vars, NEW o \in Live,
         NEW created, NEW renamed, Holds(o, created, renamed)
  PROVE  Replaces(o, created, renamed)'
<1>1. o \in Ops /\ Lasting /\ Originals(o)' = Originals(o)
  BY StepLasting, ReadsFixed DEF Live, Exclusion
<1>2. Members(Originals(o)) = {Orig(o, k) : k \in Slots}
  BY DEF Members, Originals
<1>3. ASSUME NEW c, NEW m, Replaces(o, c, m), c \in Seq(Ids)
      PROVE  Replaces(o, c, m)'
  <2>1. \A k \in DOMAIN c : c[k] \in Ids
    BY <1>3
  <2>2. Shaped(c)'
    BY <1>1, <1>3, <2>1, ShapesLast DEF Replaces
  <2> QED
    BY <1>1, <1>3, <2>2 DEF Replaces, Members
<1>4. CASE created = op[o].created /\ renamed = op[o].renamed
  <2>1. created \in Seq(Ids)
    BY <1>1, <1>4, OldTypes DEF OpRec
  <2> QED
    BY <1>3, <1>4, <2>1 DEF Placed, ChangesPlaced
<1>5. flow[o].pc # "idle" => flow[o].created \in Seq(Ids)
                             /\ Replaces(o, flow[o].created, flow[o].renamed)
  BY <1>1, Flowing DEF Placed, ChangesPlaced
<1>6. CASE created = <<>> /\ renamed = {}
  BY <1>6 DEF Replaces, Shaped, Members
<1>7. CASE /\ flow[o].pc = "rename" /\ created = flow[o].created
           /\ renamed = flow[o].renamed \cup {Orig(o, flow[o].k)}
  <2>1. flow[o].k \in Slots
    BY <1>1, <1>7, Flowing DEF Position, Loops
  <2>2. Replaces(o, created, renamed)
    BY <1>2, <1>5, <1>7, <2>1 DEF Replaces
  <2> QED
    BY <1>3, <1>5, <1>7, <2>2
<1>8. CASE /\ Creates(o) /\ created = Append(flow[o].created, FreshId)
           /\ renamed = flow[o].renamed
  <2>0. PICK old, k, new : old = flow[o].created /\ k = flow[o].k /\ new = FreshId
    OBVIOUS
  <2>1. /\ old \in Seq(Ids) /\ k \in Slots /\ Len(old) = k - 1 /\ new \in Ids
        /\ Replaces(o, old, renamed)'
    BY <1>1, <1>3, <1>5, <1>8, <2>0, CreatedPlace DEF Creates
  <2>2. /\ DOMAIN created = 1..k /\ created[k] = new
        /\ \A j \in 1..k : j # k => j \in DOMAIN old /\ created[j] = old[j]
        /\ k = Vpn \/ created[Vpn] = old[Vpn]
    <3>1. /\ Len(created) = Len(old) + 1 /\ created[Len(old) + 1] = new
          /\ \A j \in 1..Len(old) : created[j] = old[j]
          /\ DOMAIN created = 1..(Len(old) + 1) /\ DOMAIN old = 1..Len(old)
      BY <1>8, <2>0, <2>1, AppendProperties
    <3>2. k \in Nat /\ k >= 1 /\ (k # Vpn => Vpn \in 1..(k - 1))
      BY <2>1, SlotFacts DEF Vpn
    <3> QED
      BY <2>1, <3>1, <3>2
  <2>3. /\ Used(new)' /\ ctr'[new].name.slot = k
        /\ ctr'[new].ns = NsOf(k, old[Vpn])
    <3>1. Snap(o)[k].conf.name.slot = k
      BY <2>1, OriginalsPlaced
    <3> QED
      BY <1>1, <1>8, <2>0, <3>1, CreatedPlace DEF Used
  <2>4. Shaped(created)'
    <3> SUFFICES ASSUME NEW j \in 1..k
                 PROVE  /\ Used(created[j])' /\ ctr'[created[j]].name.slot = j
                        /\ ctr'[created[j]].ns = NsOf(j, created[Vpn])
      BY <2>2 DEF Shaped
    <3>1. CASE j = k
      BY <2>2, <2>3, <3>1 DEF NsOf
    <3>2. CASE j # k
      <4>1. j \in DOMAIN old /\ created[j] = old[j]
        BY <2>2, <3>2
      <4>2. created[Vpn] = old[Vpn] \/ j = Vpn
        BY <2>1, <2>2, <3>2, SlotFacts DEF Vpn
      <4>3. /\ Used(old[j])' /\ ctr'[old[j]].name.slot = j
            /\ ctr'[old[j]].ns = NsOf(j, old[Vpn])
        BY <2>1, <4>1 DEF Replaces, Shaped
      <4> QED
        BY <4>1, <4>2, <4>3 DEF NsOf
    <3> QED
      BY <3>1, <3>2
  <2>5. Members(created) = Members(old) \cup {new}
    <3>1. k \in 1..k
      BY <2>1, SlotFacts
    <3>2. DOMAIN old \subseteq 1..k
      BY <2>1, SlotFacts
    <3> QED
      BY <2>1, <2>2, <3>1, <3>2 DEF Members
  <2>6. new \notin Members(Originals(o))
    <3>1. ~Used(new)
      BY <1>1, <1>8, <2>0, CreatedPlace
    <3> QED
      BY <1>2, <3>1, OriginalsPlaced
  <2> QED
    BY <1>1, <2>1, <2>4, <2>5, <2>6 DEF Replaces, Members
<1> QED
  BY <1>3, <1>4, <1>5, <1>6, <1>7, <1>8 DEF Holds

\* The namespaces stay where they are.
LEMMA StepContainers ==
  ASSUME TypeInv, Exclusion, Placed, [Next]_vars
  PROVE  ContainersPlaced'
<1>1. Lasting
  BY StepLasting
<1>2. ContainersPlaced
  BY DEF Placed
<1>3. CASE Steady
  BY <1>2, <1>3 DEF Steady, Closed, Lasting, ContainersPlaced
<1>4. ASSUME NEW o \in Ops, Creates(o)
      PROVE  ContainersPlaced'
  <2>0. PICK new, k, v : new = FreshId /\ k = flow[o].k /\ v = flow[o].created[Vpn]
    OBVIOUS
  <2>1. /\ new \in Ids /\ ~Used(new) /\ k \in Slots
        /\ \A j \in Ids \ {new} : ctr'[j] = ctr[j]
        /\ ctr'[new].name.slot = k /\ ctr'[new].ns = NsOf(k, v)
    BY <1>4, <2>0, CreatedPlace, OriginalsPlaced
  <2>2. k # Vpn => v \in Ids /\ Used(v) /\ ctr[v].name.slot = Vpn
    <3>1. k # Vpn => Vpn \in DOMAIN flow[o].created /\ v \in Ids
      <4>1. flow[o].created \in Seq(Ids) /\ Len(flow[o].created) = k - 1
            /\ (k # Vpn => v \in Ids)
        BY <1>4, <2>0, CreatedPlace
      <4>2. k # Vpn => Vpn \in 1..Len(flow[o].created)
        BY <2>1, <4>1, SlotFacts DEF Vpn
      <4> QED
        BY <4>1, <4>2
    <3>2. flow[o].pc # "idle"
      BY <1>4 DEF Creates
    <3>3. Shaped(flow[o].created)
      BY <1>4, <3>2, CreatedPlace DEF Placed, ChangesPlaced, Replaces
    <3> QED
      BY <2>0, <3>1, <3>3 DEF Shaped
  <2>3. NoId \notin Ids
    BY DockerAssumption
  <2> QED
    BY <1>1, <1>2, <2>1, <2>2, <2>3 DEF ContainersPlaced, NsOf, Lasting, Used
<1> QED
  BY <1>3, <1>4, StepKeeps DEF Keeps

\* Whatever a project goes to is a stack.
LEMMA StepProjects ==
  ASSUME TypeInv, Exclusion, Placed, [Next]_vars
  PROVE  ProjectsPlaced'
<1> SUFFICES ASSUME NEW p \in Projects, proj'[p] # <<>>
             PROVE  Shaped(proj[p])'
  BY DEF ProjectsPlaced
<1>1. PICK s : s = proj'[p]
  OBVIOUS
<1>2. Lasting /\ GoesTo(p, s)
  BY <1>1, StepLasting, ProjectMoves
<1>3. ASSUME Shaped(s), s \in Stacks
      PROVE  Shaped(proj[p])'
  <2>1. Shaped(s)'
    BY <1>2, <1>3, ShapesLast DEF Stacks
  <2> QED
    BY <1>1, <2>1
<1>4. CASE s = proj[p]
  BY <1>1, <1>3, <1>4, OldTypes DEF Placed, ProjectsPlaced
<1>5. ASSUME NEW o \in Live, s = Originals(o)
      PROVE  Shaped(proj[p])'
  <2>1. Vpn \in Slots /\ DOMAIN s = Slots /\ \A k \in Slots : s[k] = Orig(o, k)
    BY <1>5, SlotFacts DEF Originals
  <2>2. Shaped(s)
    BY <2>1, OriginalsPlaced DEF Shaped
  <2>3. s \in Stacks
    BY <1>5, <2>1, OriginalTypes DEF Live
  <2> QED
    BY <1>3, <2>2, <2>3
<1>6. ASSUME NEW o \in Live, flow[o].pc = "commit", s = flow[o].created
      PROVE  Shaped(proj[p])'
  BY <1>3, <1>6, CreatedStack DEF Live, Placed, ChangesPlaced, Replaces
<1>7. CASE adopting[p].pc = "claim" /\ s = adopting[p].own
  <2>1. adopting[p].own \in Stacks
    BY <1>7 DEF TypeInv, TypeOK, AdoptRec, IdleAdopt
  <2> QED
    BY <1>3, <1>7, <2>1 DEF Placed, AdoptionsPlaced
<1> QED
  BY <1>2, <1>4, <1>5, <1>6, <1>7 DEF GoesTo

\* An adoption looks at the stack it was given.
AdoptMoves(p) ==
  \/ adopting'[p] = adopting[p]
  \/ adopting'[p].pc = "idle"
  \/ \E s \in Selections : /\ proj[p] = <<>> /\ adopting[p].pc = "idle"
                           /\ adopting'[p] = [pc |-> "inspect", own |-> s]
  \/ /\ adopting[p].pc = "inspect" /\ adopting'[p].pc = "claim"
     /\ adopting'[p].own = adopting[p].own /\ ctr' = ctr
     /\ \A k \in Slots : Exists(adopting[p].own[k])
     /\ \A k \in Apps : ctr[adopting[p].own[k]].ns = adopting[p].own[Vpn]
     /\ adopting'[p].confs = ConfsOf(adopting[p].own)

\* A step moves an adoption so.
LEMMA StepAdopts ==
  ASSUME TypeInv, [Next]_vars, NEW p \in Projects
  PROVE  AdoptMoves(p)
<1>1. adopting \in [Projects -> AdoptRec]
  BY DEF TypeInv, TypeOK
<1>2. CASE adopting' = adopting
  BY <1>2 DEF AdoptMoves
<1>3. CASE Crash
  BY <1>3 DEF Crash, IdleAdopt, AdoptMoves
<1>4. ASSUME NEW q \in Projects, NEW s \in Selections, AdoptBegin(q, s)
      PROVE  AdoptMoves(p)
  BY <1>1, <1>4 DEF AdoptBegin, AdoptMoves
<1>5. ASSUME NEW q \in Projects, AdoptInspect(q)
      PROVE  AdoptMoves(p)
  <2> DEFINE s == adopting[q].own
             next == [pc |-> "claim", own |-> s, confs |-> ConfsOf(s)]
  <2>1. /\ adopting[q].pc = "inspect"
        /\ \/ /\ \A k \in Slots : Exists(s[k])
              /\ \A k \in Apps : ctr[s[k]].ns = s[Vpn]
              /\ ctr' = ctr /\ adopting' = [adopting EXCEPT ![q] = next]
           \/ adopting' = [adopting EXCEPT ![q] = IdleAdopt]
    BY <1>5 DEF AdoptInspect
  <2>2. IdleAdopt.pc = "idle" /\ next.pc = "claim" /\ next.own = s
        /\ next.confs = ConfsOf(s)
    BY DEF IdleAdopt
  <2> HIDE DEF next
  <2>3. CASE p # q
    BY <1>1, <2>1, <2>3 DEF AdoptMoves
  <2>4. CASE p = q
    BY <1>1, <2>1, <2>2, <2>4 DEF AdoptMoves
  <2> QED
    BY <2>3, <2>4
<1>6. ASSUME NEW q \in Projects, AdoptClaim(q)
      PROVE  AdoptMoves(p)
  BY <1>1, <1>6 DEF AdoptClaim, AdoptMoves, IdleAdopt
<1>7. CASE Aside /\ ~(\E q \in Projects : AdoptClaim(q) \/ AdoptInspect(q))
           /\ ~(\E q \in Projects, s \in Selections : AdoptBegin(q, s))
  <2>1. adopting' = adopting
    BY <1>7 DEF Aside, RecoveryBegin, RecoveryInspect,
       OwnerRepairs, Drift, ExpireReview, PlanBegin, PlanStore, PlanObserve,
       ExpirePlan, ReviewRecovery, ReviewCleanup, Prune, vars, memory
  <2> QED
    BY <1>2, <2>1
<1>8. ASSUME NEW o \in Ops, CleanupBegin(o) \/ CleanupStep(o)
      PROVE  adopting' = adopting
  BY <1>8 DEF CleanupBegin, CleanupStep, CleanupVet, CleanupCheck, CleanupDelete,
     CleanupDone, untouched
<1>9. ASSUME NEW o \in Ops, ApplyStep(o)
      PROVE  adopting' = adopting
  BY <1>9 DEF ApplyStep, ValidationFails, NothingToChange, Prepared,
     StopOriginal, RenameOriginal, CreateReplacement, StartReplacement,
     AwaitReplacement, VerifyNamespace, Commit, CommitFails, BeginRollback,
     DiscardReplacement, RestoreName, RestoreOwnership, RestartOriginal,
     RolledBack, StopEverything, RollbackFailed, still
<1>10. ASSUME \/ \E o \in Ops, l \in Plans : ApplyBegin(o, l)
              \/ \E r \in Requests : RecoveryConfirm(r)
       PROVE  adopting' = adopting
  BY <1>10 DEF ApplyBegin, RecoveryConfirm
<1> QED
  BY <1>2, <1>3, <1>4, <1>5, <1>6, <1>7, <1>8, <1>9, <1>10, NextCases

\* An adoption keeps the containers it was asked for in their slots.
LEMMA StepAdoptions ==
  ASSUME TypeInv, Exclusion, Placed, [Next]_vars
  PROVE  AdoptionsPlaced'
<1> SUFFICES ASSUME NEW p \in Projects, adopting'[p].pc # "idle"
             PROVE  /\ Chosen(adopting[p].own)'
                    /\ adopting'[p].pc = "claim" => Shaped(adopting[p].own)'
  BY DEF AdoptionsPlaced
<1>1. PICK s : s = adopting'[p].own
  OBVIOUS
<1>2. Lasting /\ AdoptMoves(p)
  BY StepLasting, StepAdopts
<1>3. adopting[p].pc # "idle" => adopting[p].own \in Stacks
  BY DEF TypeInv, TypeOK, AdoptRec, IdleAdopt
<1>4. AdoptionsPlaced
  BY DEF Placed
<1>5. ASSUME Chosen(s), s \in Stacks, adopting'[p].pc = "claim" => Shaped(s)
      PROVE  /\ Chosen(adopting[p].own)'
             /\ adopting'[p].pc = "claim" => Shaped(adopting[p].own)'
  <2>1. Chosen(s)' /\ (adopting'[p].pc = "claim" => Shaped(s)')
    BY <1>2, <1>5, ShapesLast DEF Stacks
  <2> QED
    BY <1>1, <2>1
<1>6. CASE adopting'[p] = adopting[p]
  BY <1>1, <1>3, <1>4, <1>5, <1>6 DEF AdoptionsPlaced
<1>7. ASSUME NEW t \in Selections, adopting'[p] = [pc |-> "inspect", own |-> t]
      PROVE  /\ Chosen(adopting[p].own)'
             /\ adopting'[p].pc = "claim" => Shaped(adopting[p].own)'
  <2>1. s = t /\ adopting'[p].pc # "claim"
    BY <1>1, <1>7
  <2> QED
    BY <1>5, <1>7, <2>1 DEF Selections, Chosen, Exists, Used
<1>8. CASE /\ adopting[p].pc = "inspect" /\ adopting'[p].own = adopting[p].own
           /\ \A k \in Apps : ctr[adopting[p].own[k]].ns = adopting[p].own[Vpn]
  <2>1. Chosen(s) /\ s \in Stacks
    BY <1>1, <1>3, <1>4, <1>8 DEF AdoptionsPlaced
  <2>2. ctr[s[Vpn]].ns = NoId
    BY <2>1, SlotFacts DEF Placed, ContainersPlaced, Chosen, Stacks, NsOf
  <2>3. Shaped(s)
    BY <1>1, <1>8, <2>1, <2>2 DEF Shaped, Chosen, Stacks, NsOf, Apps
  <2> QED
    BY <1>5, <2>1, <2>3
<1> QED
  BY <1>2, <1>6, <1>7, <1>8 DEF AdoptMoves

\* A plan is prepared from a project that is free, and from what was observed.
DraftMoves(l) ==
  \/ draft'[l] = draft[l]
  \/ draft'[l].pc = "idle"
  \/ \E p \in Projects :
       /\ proj[p] # <<>> /\ Free(p) /\ plan[l].st = "none" /\ UNCHANGED <<ctr, proj>>
       /\ draft'[l] = [pc |-> "observe", project |-> p, own |-> proj[p]]
  \/ /\ draft[l].pc = "observe" /\ Intact(draft[l].own) /\ UNCHANGED <<ctr, proj>>
     /\ draft'[l] = [pc |-> "store", project |-> draft[l].project,
                     snap |-> Observed(draft[l].own)]

\* A step moves a preparation so.
LEMMA StepDrafts ==
  ASSUME TypeInv, [Next]_vars, NEW l \in Plans
  PROVE  DraftMoves(l)
<1>1. draft \in [Plans -> DraftRec]
  BY DEF TypeInv, TypeOK
<1>2. CASE draft' = draft
  BY <1>2 DEF DraftMoves
<1>3. CASE Crash
  BY <1>3 DEF Crash, IdleDraft, DraftMoves
<1>4. ASSUME NEW m \in Plans, NEW p \in Projects, PlanBegin(m, p)
      PROVE  DraftMoves(l)
  BY <1>1, <1>4 DEF PlanBegin, DraftMoves, disk
<1>5. ASSUME NEW m \in Plans, PlanObserve(m)
      PROVE  DraftMoves(l)
  <2> DEFINE next == [pc |-> "store", project |-> draft[m].project,
                      snap |-> Observed(draft[m].own)]
  <2>1. /\ draft[m].pc = "observe" /\ proj' = proj
        /\ \/ Intact(draft[m].own) /\ ctr' = ctr
              /\ draft' = [draft EXCEPT ![m] = next]
           \/ draft' = [draft EXCEPT ![m] = IdleDraft]
    BY <1>5 DEF PlanObserve
  <2>2. CASE l # m
    BY <1>1, <2>1, <2>2 DEF DraftMoves
  <2>3. CASE l = m /\ draft'[l] = IdleDraft
    BY <2>3 DEF DraftMoves, IdleDraft
  <2>4. CASE /\ l = m /\ Intact(draft[m].own) /\ ctr' = ctr
             /\ draft' = [draft EXCEPT ![m] = next]
    BY <1>1, <2>1, <2>4 DEF DraftMoves
  <2> QED
    BY <1>1, <2>1, <2>2, <2>3, <2>4
<1>6. ASSUME NEW m \in Plans, NEW c \in Cfgs, PlanStore(m, c)
      PROVE  DraftMoves(l)
  BY <1>1, <1>6 DEF PlanStore, DraftMoves, IdleDraft
<1>7. CASE Aside /\ ~(\E m \in Plans : PlanObserve(m))
           /\ ~(\E m \in Plans, p \in Projects : PlanBegin(m, p))
           /\ ~(\E m \in Plans, c \in Cfgs : PlanStore(m, c))
  <2>1. draft' = draft
    BY <1>7 DEF Aside, AdoptBegin, AdoptInspect, AdoptClaim, RecoveryBegin,
       RecoveryInspect, OwnerRepairs, Drift, ExpireReview, ExpirePlan,
       ReviewRecovery, ReviewCleanup, Prune, vars, memory
  <2> QED
    BY <1>2, <2>1
<1>8. ASSUME NEW o \in Ops, CleanupBegin(o) \/ CleanupStep(o)
      PROVE  draft' = draft
  BY <1>8 DEF CleanupBegin, CleanupStep, CleanupVet, CleanupCheck, CleanupDelete,
     CleanupDone, untouched
<1>9. ASSUME NEW o \in Ops, ApplyStep(o)
      PROVE  draft' = draft
  BY <1>9, ApplyShapes DEF ApplyShape
<1>10. ASSUME \/ \E o \in Ops, m \in Plans : ApplyBegin(o, m)
              \/ \E r \in Requests : RecoveryConfirm(r)
       PROVE  draft' = draft
  BY <1>10 DEF ApplyBegin, RecoveryConfirm
<1> QED
  BY <1>2, <1>3, <1>4, <1>5, <1>6, <1>7, <1>8, <1>9, <1>10, NextCases

\* A plan is stored with what its draft observed.
LEMMA StepPlan ==
  ASSUME TypeInv, DraftsNew, [Next]_vars, NEW l \in Plans, plan[l].st = "none"
  PROVE  \/ plan'[l] = plan[l]
         \/ /\ draft[l].pc = "store" /\ UNCHANGED <<ctr, proj, op, flow>>
            /\ plan'[l].project = draft[l].project /\ plan'[l].snap = draft[l].snap
            /\ plan'[l].base = base[draft[l].project]
            /\ plan'[l].st = "kept"
<1>1. plan \in [Plans -> PlanRec \cup {NoPlanRec}]
  BY DEF TypeInv, TypeOK
<1>3. plan' = PrunedPlans => plan'[l] = plan[l]
  BY DEF PrunedPlans, Kept
<1>4. ASSUME NEW m \in Plans, ExpirePlan(m)
      PROVE  plan'[l] = plan[l]
  BY <1>1, <1>4 DEF ExpirePlan, Kept
<1>5. ASSUME NEW m \in Plans, NEW c \in Cfgs, PlanStore(m, c)
      PROVE  \/ plan'[l] = plan[l]
             \/ /\ draft[l].pc = "store" /\ UNCHANGED <<ctr, proj, op, flow>>
                /\ plan'[l].project = draft[l].project
                /\ plan'[l].snap = draft[l].snap
                /\ plan'[l].base = base[draft[l].project] /\ plan'[l].st = "kept"
  BY <1>1, <1>5 DEF PlanStore
<1>6. ASSUME Aside, ~(\E m \in Plans, c \in Cfgs : PlanStore(m, c)),
             ~(\E m \in Plans : ExpirePlan(m))
      PROVE  plan'[l] = plan[l]
  <2>1. plan' = plan \/ plan' = PrunedPlans
    BY <1>6 DEF Aside, AdoptBegin, AdoptInspect, AdoptClaim, RecoveryBegin,
       RecoveryInspect, OwnerRepairs, Drift, ExpireReview, PlanBegin, PlanObserve,
       ReviewRecovery, ReviewCleanup, Prune, vars, disk
  <2> QED
    BY <1>3, <2>1
<1>7. ASSUME NEW o \in Ops, CleanupBegin(o) \/ CleanupStep(o)
      PROVE  plan' = plan
  BY <1>7 DEF CleanupBegin, CleanupStep, CleanupVet, CleanupCheck, CleanupDelete,
     CleanupDone, untouched
<1>8. ASSUME NEW o \in Ops, ApplyStep(o)
      PROVE  plan' = plan
  BY <1>8, ApplyShapes DEF ApplyShape
<1>9. ASSUME \/ \E o \in Ops, m \in Plans : ApplyBegin(o, m)
             \/ \E r \in Requests : RecoveryConfirm(r)
             \/ Crash
      PROVE  plan' = plan
  BY <1>9 DEF ApplyBegin, RecoveryConfirm, Crash
<1>10. \/ plan'[l] = plan[l]
       \/ \E m \in Plans, c \in Cfgs : PlanStore(m, c)
  <2>1. CASE Aside
    BY <1>4, <1>6, <2>1
  <2>2. CASE ~Aside
    <3>1. plan' = plan
      BY <1>7, <1>8, <1>9, <2>2, NextCases
    <3> QED
      BY <3>1
  <2> QED
    BY <2>1, <2>2
<1> QED
  BY <1>5, <1>10

\* What is observed of a stack is recognised.
LEMMA ObservedPlaced ==
  ASSUME TypeInv, NEW s \in Stacks, Shaped(s)
  PROVE  Recognised(Observed(s)) /\ IdsOf(Observed(s)) = s
<1>0. \A i : /\ ConfOf(i).id = i /\ ConfOf(i).name = ctr[i].name
              /\ ConfOf(i).ns = ctr[i].ns /\ ConfOf(i).cfg = ctr[i].cfg
  BY DEF ConfOf
<1>1. \A k \in Slots : Observed(s)[k].conf = ConfOf(s[k])
  BY DEF Observed, Seen
<1>2. \A k \in Slots : /\ Observed(s)[k].conf.id = s[k]
                       /\ Observed(s)[k].conf.name = ctr[s[k]].name
                       /\ Observed(s)[k].conf.ns = ctr[s[k]].ns
                       /\ Observed(s)[k].conf.cfg = ctr[s[k]].cfg
  BY <1>0, <1>1
<1>3. IdsOf(Observed(s)) = s
  BY <1>2 DEF IdsOf, Stacks
<1>4. Vpn \in Slots
  BY SlotFacts
<1> QED
  BY <1>2, <1>3, <1>4 DEF Recognised, Shaped, Stacks

\* What is planned is what was observed of a stack in its places.
LEMMA StepDraftsPlaced ==
  ASSUME TypeInv, Exclusion, Placed, [Next]_vars
  PROVE  DraftsPlaced' /\ PlansPlaced'
<1>1. Lasting /\ DraftsNew
  BY StepLasting DEF Exclusion
<1>2. DraftsPlaced /\ PlansPlaced
  BY DEF Placed
<1>3. ASSUME NEW l \in Plans
      PROVE  /\ draft[l].pc = "observe" => draft[l].own \in Stacks
             /\ draft[l].pc = "store" => draft[l].snap \in [Slots -> Snapshots]
  BY DEF TypeInv, TypeOK, DraftRec, IdleDraft
<1>4. ASSUME NEW l \in Plans
      PROVE  /\ draft'[l].pc = "observe" => Shaped(draft[l].own)'
             /\ draft'[l].pc = "store" => Recognised(draft[l].snap)'
  <2>1. DraftMoves(l)
    BY StepDrafts
  <2>2. CASE draft'[l] = draft[l]
    <3>1. PICK s, n : s = draft[l].own /\ n = draft[l].snap
      OBVIOUS
    <3>2. /\ draft[l].pc = "observe" => s \in Stacks /\ Shaped(s)
          /\ draft[l].pc = "store" => n \in [Slots -> Snapshots] /\ Recognised(n)
      BY <1>2, <1>3, <3>1 DEF DraftsPlaced
    <3>3. /\ draft[l].pc = "observe" => Shaped(s)'
          /\ draft[l].pc = "store" => Recognised(n)'
      BY <1>1, <3>2, ShapesLast DEF Stacks
    <3> QED
      BY <2>2, <3>1, <3>3
  <2>3. ASSUME NEW p \in Projects, proj[p] # <<>>, UNCHANGED <<ctr, proj>>,
               draft'[l] = [pc |-> "observe", project |-> p, own |-> proj[p]]
        PROVE  /\ draft'[l].pc = "observe" => Shaped(draft[l].own)'
               /\ draft'[l].pc = "store" => Recognised(draft[l].snap)'
    <3>1. Shaped(proj[p])
      BY <2>3 DEF Placed, ProjectsPlaced
    <3>2. /\ draft'[l].pc = "observe" /\ draft'[l].own = proj[p] /\ ctr' = ctr
      BY <2>3
    <3> QED
      BY <3>1, <3>2 DEF Shaped, Used
  <2>4. CASE /\ draft[l].pc = "observe" /\ UNCHANGED ctr
             /\ draft'[l] = [pc |-> "store", project |-> draft[l].project,
                             snap |-> Observed(draft[l].own)]
    <3>1. PICK n : n = Observed(draft[l].own)
      OBVIOUS
    <3>2. Recognised(n)
      BY <1>2, <1>3, <2>4, <3>1, ObservedPlaced DEF DraftsPlaced
    <3>3. Recognised(n)'
      BY <2>4, <3>2 DEF Recognised, Shaped, Used, IdsOf
    <3>4. draft'[l].pc = "store" /\ draft'[l].snap = n
      BY <2>4, <3>1
    <3> QED
      BY <3>3, <3>4
  <2> QED
    BY <2>1, <2>2, <2>3, <2>4 DEF DraftMoves
<1>5. ASSUME NEW l \in Plans, plan'[l].st # "none"
      PROVE  Recognised(plan[l].snap)'
  <2>1. PICK n : n = plan'[l].snap
    OBVIOUS
  <2>2. n \in [Slots -> Snapshots] /\ Recognised(n)
    <3>1. CASE plan[l].st # "none"
      <4>1. n = plan[l].snap
        BY <1>1, <2>1, <3>1, PlansFixed DEF PlanFixed
      <4>2. plan[l] \in PlanRec
        BY <3>1 DEF TypeInv, TypeOK, NoPlanRec
      <4> QED
        BY <1>2, <3>1, <4>1, <4>2 DEF PlansPlaced, PlanRec
    <3>2. CASE plan[l].st = "none"
      BY <1>1, <1>2, <1>3, <1>5, <2>1, <3>2, StepPlan DEF DraftsPlaced
    <3> QED
      BY <3>1, <3>2
  <2>3. Recognised(n)'
    BY <1>1, <2>2, ShapesLast
  <2> QED
    BY <2>1, <2>3
<1> QED
  BY <1>4, <1>5 DEF DraftsPlaced, PlansPlaced

\* An operation that has just begun holds nothing.
LEMMA BegunHolds ==
  ASSUME TypeInv, [Next]_vars, NEW o \in Ops, o \notin Live, o \in Live'
  PROVE  \E l \in Plans : ApplyBegin(o, l)
<1>1. op[o].st = "none" /\ op'[o].st # "none"
  BY DEF Live
<1>2. ASSUME NEW q \in Ops, ApplyStep(q)
      PROVE  FALSE
  <2>1. q \in Live
    BY <1>2, Flowing DEF ApplyStep, ValidationFails, NothingToChange, Prepared,
       StopOriginal, RenameOriginal, CreateReplacement, StartReplacement,
       AwaitReplacement, VerifyNamespace, Commit, CommitFails, BeginRollback,
       DiscardReplacement, RestoreName, RestoreOwnership, RestartOriginal,
       RolledBack, StopEverything, RollbackFailed
  <2>2. op' = op \/ \A p \in Ops \ {q} : op'[p] = op[p]
    BY <1>2, ApplyShapes, JournalFields DEF ApplyShape
  <2> QED
    BY <1>1, <2>1, <2>2 DEF Live
<1>3. ASSUME NEW q \in Ops, CleanupBegin(q) \/ CleanupStep(q)
      PROVE  FALSE
  <2>1. op' = op \/ \E u : Marked(q, u)
    BY <1>3, CleanupStepMarks DEF CleanupBegin
  <2> QED
    BY <1>1, <2>1 DEF Marked
<1>4. ASSUME NEW r \in Requests, RecoveryConfirm(r)
      PROVE  FALSE
  BY <1>1, <1>4, ConfirmMarks, Requesting DEF RecoveryConfirm, Live
<1>5. ~Crash
  BY <1>1, RestartMarks DEF Crash
<1>6. ~Aside
  BY <1>1, AsideKeeps
<1>7. ASSUME NEW q \in Ops, NEW l \in Plans, ApplyBegin(q, l)
      PROVE  \E m \in Plans : ApplyBegin(o, m)
  <2>1. q # o => op'[o] = op[o]
    BY <1>7, OldTypes DEF ApplyBegin
  <2> QED
    BY <1>1, <1>7, <2>1
<1> QED
  BY <1>2, <1>3, <1>4, <1>5, <1>6, <1>7, NextCases

\* Every step keeps replacements apart from what they replace.
LEMMA StepChanges ==
  ASSUME TypeInv, Exclusion, Placed, [Next]_vars
  PROVE  ChangesPlaced'
<1> SUFFICES ASSUME NEW o \in Live'
             PROVE  /\ Replaces(o, op[o].created, op[o].renamed)'
                    /\ flow'[o].pc # "idle" =>
                         Replaces(o, flow[o].created, flow[o].renamed)'
  BY DEF ChangesPlaced
<1>1. o \in Ops
  BY DEF Live
<1>2. PICK c, n : c = op'[o].created /\ n = op'[o].renamed
  OBVIOUS
<1>3. PICK d, m : d = flow'[o].created /\ m = flow'[o].renamed
  OBVIOUS
<1>4. HeldTrue(o)
  BY <1>1, StepHolds
<1>5. ASSUME Replaces(o, c, n)', flow'[o].pc # "idle" => Replaces(o, d, m)'
      PROVE  /\ Replaces(o, op[o].created, op[o].renamed)'
             /\ flow'[o].pc # "idle" => Replaces(o, flow[o].created, flow[o].renamed)'
  BY <1>2, <1>3, <1>5
<1>6. CASE o \in Live
  BY <1>2, <1>3, <1>4, <1>5, <1>6, HeldPlaced DEF HeldTrue
<1>7. CASE o \notin Live
  <2>1. PICK l \in Plans : ApplyBegin(o, l)
    BY <1>1, <1>7, BegunHolds
  <2>2. c = <<>> /\ n = {} /\ (flow'[o].pc # "idle" => d = <<>> /\ m = {})
    <3> DEFINE done == [Start(l) EXCEPT !.st = "rolled_back"]
               f == [IdleFlow EXCEPT !.pc = "validate", !.st = "applying",
                                     !.own = proj[plan[l].project]]
    <3>1. /\ Start(l).created = <<>> /\ Start(l).renamed = {}
          /\ done.created = <<>> /\ done.renamed = {}
          /\ f.created = <<>> /\ f.renamed = {}
      BY DEF Start, NoOp, IdleFlow
    <3>2. /\ op' = op \/ op' = [op EXCEPT ![o] = Start(l)] \/ op' = [op EXCEPT ![o] = done]
          /\ flow' = flow \/ flow' = [flow EXCEPT ![o] = f]
          /\ flow[o].pc = "idle"
      BY <2>1 DEF ApplyBegin
    <3>3. op \in [Ops -> OpRec] /\ flow \in [Ops -> FlowRec]
      BY DEF TypeInv, TypeOK
    <3>4. op' # op
      BY <1>7 DEF Live
    <3> HIDE DEF done, f
    <3> QED
      BY <1>1, <1>2, <1>3, <3>1, <3>2, <3>3, <3>4
  <2>3. Replaces(o, <<>>, {})'
    BY DEF Replaces, Shaped, Members
  <2> QED
    BY <1>5, <2>2, <2>3
<1> QED
  BY <1>6, <1>7

\* A step keeps everything in its place.
LEMMA StepPlaced ==
  ASSUME TypeInv, Exclusion, Placed, [Next]_vars
  PROVE  Placed'
BY StepContainers, StepProjects, StepAdoptions, StepDraftsPlaced, StepChanges DEF Placed

\* Nothing is out of place at first.
LEMMA InitPlaced == Init => Placed
<1> SUFFICES ASSUME Init PROVE Placed
  OBVIOUS
<1> DEFINE s == CHOOSE t \in Stacks : Injective(t)
<1>1. PICK up : ctr = InitContainer(s, up)
  BY DEF Init
<1>2. s \in Stacks /\ Injective(s)
  BY HostAssumption
<1>3. ASSUME NEW i \in Ids, Used(i)
      PROVE  \E k \in Slots : /\ s[k] = i /\ ctr[i].name.slot = k
                              /\ ctr[i].ns = NsOf(k, s[Vpn])
  <2> DEFINE at == CHOOSE k \in Slots : s[k] = i
             there == [st |-> IF at \in up THEN "running" ELSE "stopped",
                       name |-> [slot |-> at, tags |-> {}],
                       cfg |-> CHOOSE c \in Cfgs : TRUE,
                       ns |-> IF at = Vpn THEN NoId ELSE s[Vpn]]
             away == [st |-> "unused", name |-> [slot |-> Vpn, tags |-> {}],
                      cfg |-> CHOOSE c \in Cfgs : TRUE, ns |-> NoId]
  <2>1. ctr[i] = IF \E k \in Slots : s[k] = i THEN there ELSE away
    BY <1>1 DEF InitContainer
  <2>2. away.st = "unused" /\ there.name.slot = at
        /\ there.ns = NsOf(at, s[Vpn])
    BY DEF NsOf
  <2> HIDE DEF there, away
  <2>3. \E k \in Slots : s[k] = i
    BY <1>3, <2>1, <2>2 DEF Used
  <2>4. at \in Slots /\ s[at] = i
    BY <2>3
  <2> QED
    BY <2>1, <2>2, <2>3, <2>4
<1>4. ASSUME NEW k \in Slots
      PROVE  Used(s[k]) /\ ctr[s[k]].name.slot = k
  <2> DEFINE i == s[k]
             at == CHOOSE j \in Slots : s[j] = i
             there == [st |-> IF at \in up THEN "running" ELSE "stopped",
                       name |-> [slot |-> at, tags |-> {}],
                       cfg |-> CHOOSE c \in Cfgs : TRUE,
                       ns |-> IF at = Vpn THEN NoId ELSE s[Vpn]]
  <2>1. i \in Ids
    BY <1>2 DEF Stacks
  <2>2. at = k
    BY <1>2 DEF Injective
  <2>3. ctr[i] = there
    BY <1>1, <2>1 DEF InitContainer
  <2>4. there.st # "unused" /\ there.name.slot = at
    OBVIOUS
  <2> HIDE DEF there, at
  <2> QED
    BY <2>2, <2>3, <2>4 DEF Used
<1>5. ContainersPlaced
  <2>1. s[Vpn] \in Ids /\ Vpn \in Slots /\ NoId \notin Ids
    BY <1>2, SlotFacts, DockerAssumption DEF Stacks
  <2> HIDE DEF s
  <2> QED
    BY <1>3, <1>4, <2>1 DEF ContainersPlaced, NsOf
<1> QED
  BY <1>5 DEF Init, Placed, ProjectsPlaced, AdoptionsPlaced, DraftsPlaced,
     PlansPlaced, ChangesPlaced, Live, IdleAdopt, IdleDraft, NoPlanRec, NoOp

\* Every container keeps its slot, its namespace and its configuration, and
\* what projects, plans and operations name are stacks, as long as one
\* recovery is confirmed at a time.
THEOREM PlacesKept == OneRequest /\ Spec => [](TypeInv /\ Exclusion /\ Placed)
<1>1. TypeInv /\ Exclusion /\ Placed /\ [Next]_vars => Placed'
  BY StepPlaced
<1> QED
  BY InitPlaced, Excluded, <1>1, PTL DEF Spec

-----------------------------------------------------------------------------
(* Names, and what is gone.                                                *)

\* What is removed stays so, and no two containers ever share a name.
LEMMA StepNames ==
  ASSUME TypeInv, Exclusion, Placed, NamesUnique, [Next]_vars
  PROVE  RemovedStays /\ NamesUnique'
<1>1. ASSUME NEW o \in Ops, Creates(o)
      PROVE  RemovedStays /\ NamesUnique'
  <2>1. /\ FreshId \in Ids /\ ctr[FreshId].st = "unused"
        /\ \A j \in Ids \ {FreshId} : ctr'[j] = ctr[j]
        /\ ctr'[FreshId].name = Snap(o)[flow[o].k].conf.name
    BY <1>1, CreatedPlace DEF Used
  <2>2. \A j \in Ids : Exists(j) => ctr[j].name # Snap(o)[flow[o].k].conf.name
    BY <1>1 DEF Creates, CanCreate, NameFree
  <2>3. PICK i : i = FreshId
    OBVIOUS
  <2>4. \A j \in Ids \ {i} : ctr'[j] = ctr[j] /\ (Exists(j)' <=> Exists(j))
    BY <2>1, <2>3 DEF Exists
  <2> QED
    BY <1>1, <2>1, <2>2, <2>3, <2>4 DEF RemovedStays, NamesUnique
<1> QED
  BY <1>1, StepKeeps DEF Keeps

\* The names differ at first.
LEMMA InitNames == Init => NamesUnique
<1> SUFFICES ASSUME Init PROVE NamesUnique
  OBVIOUS
<1> DEFINE s == CHOOSE t \in Stacks : Injective(t)
           at(i) == CHOOSE k \in Slots : s[k] = i
<1>1. PICK up : ctr = InitContainer(s, up)
  BY DEF Init
<1>2. ASSUME NEW i \in Ids, Exists(i)
      PROVE  ctr[i].name.slot \in Slots /\ s[ctr[i].name.slot] = i
  <2> DEFINE there == [st |-> IF at(i) \in up THEN "running" ELSE "stopped",
                       name |-> [slot |-> at(i), tags |-> {}],
                       cfg |-> CHOOSE c \in Cfgs : TRUE,
                       ns |-> IF at(i) = Vpn THEN NoId ELSE s[Vpn]]
             away == [st |-> "unused", name |-> [slot |-> Vpn, tags |-> {}],
                      cfg |-> CHOOSE c \in Cfgs : TRUE, ns |-> NoId]
  <2>1. ctr[i] = IF \E k \in Slots : s[k] = i THEN there ELSE away
    BY <1>1 DEF InitContainer
  <2>2. away.st = "unused" /\ there.name.slot = at(i)
    OBVIOUS
  <2> HIDE DEF there, away
  <2>3. \E k \in Slots : s[k] = i
    BY <1>2, <2>1, <2>2 DEF Exists
  <2>4. at(i) \in Slots /\ s[at(i)] = i
    BY <2>3
  <2> HIDE DEF at, s
  <2> QED
    BY <2>1, <2>2, <2>3, <2>4
<1> HIDE DEF s
<1> QED
  BY <1>2 DEF NamesUnique

-----------------------------------------------------------------------------
(* One project.                                                            *)

\* The helper manages one stack.  Two adoptions at a time can give one
\* container to two projects (engine.ts:212-222): see the run that shows it.
OneProject == \A p, q \in Projects : p = q

\* A project is adopted before anything is planned for it.
AdoptedFirst ==
  /\ \A p \in Projects : adopting[p].pc # "idle" => proj[p] = <<>>
  /\ \A l \in Plans : /\ draft[l].pc # "idle" => proj[draft[l].project] # <<>>
                      /\ plan[l].st # "none" => proj[plan[l].project] # <<>>

\* So a project that an operation works on is adopted.
LEMMA LiveAdopted ==
  ASSUME TypeInv, AdoptedFirst, NEW o \in Live
  PROVE  /\ Project(o) \in Projects /\ proj[Project(o)] # <<>>
         /\ proj[Project(o)] \in Stacks /\ adopting[Project(o)].pc = "idle"
         /\ Originals(o) \in Stacks
<1>1. o \in Ops /\ op[o].plan \in Plans /\ Plan(o).st # "none"
  BY DEF Live, TypeInv, LiveOK
<1>2. Project(o) \in Projects /\ proj[Project(o)] # <<>>
  BY <1>1, PlanTypes DEF AdoptedFirst, Project, Plan
<1>3. proj[Project(o)] \in Stacks /\ adopting[Project(o)].pc = "idle"
  BY <1>2, OldTypes DEF AdoptedFirst
<1>4. Originals(o) \in Stacks
  BY <1>1, OriginalTypes DEF Originals, Stacks
<1> QED
  BY <1>2, <1>3, <1>4

\* A step keeps the order.
LEMMA StepAdopted ==
  ASSUME TypeInv, DraftsNew, AdoptedFirst, [Next]_vars
  PROVE  AdoptedFirst'
<1>1. \A s \in Stacks : s # <<>>
  <2>1. DOMAIN <<>> = {}
    OBVIOUS
  <2> QED
    BY <2>1, SlotFacts DEF Stacks
<1>2. ASSUME NEW p \in Projects, proj[p] # <<>>
      PROVE  proj'[p] # <<>>
  <2>1. \A o \in Live : Originals(o) \in Stacks
    BY LiveAdopted
  <2>2. \A o \in Live : flow[o].pc = "commit" => flow[o].created \in Stacks
    BY CreatedStack DEF Live
  <2>3. adopting[p].pc = "idle"
    BY <1>2 DEF AdoptedFirst
  <2> QED
    BY <1>1, <1>2, <2>1, <2>2, <2>3, ProjectMoves DEF GoesTo
<1>3. ASSUME NEW p \in Projects, adopting'[p].pc # "idle"
      PROVE  proj'[p] = <<>>
  <2>1. proj[p] = <<>>
    BY <1>3, StepAdopts DEF AdoptMoves, AdoptedFirst
  <2> QED
    BY <1>3, <2>1, ProjectMoves, LiveAdopted DEF GoesTo
<1>4. ASSUME NEW l \in Plans, draft'[l].pc # "idle"
      PROVE  proj'[draft'[l].project] # <<>>
  <2>1. draft[l].pc # "idle" => draft[l].project \in Projects
    BY DEF TypeInv, TypeOK, DraftRec, IdleDraft
  <2>2. \/ draft[l].pc # "idle" /\ draft'[l].project = draft[l].project
        \/ draft'[l].project \in Projects /\ proj[draft'[l].project] # <<>>
    <3>1. \A p \in Projects :
            LET d == [pc |-> "observe", project |-> p, own |-> proj[p]]
            IN d.project = p
      OBVIOUS
    <3>2. LET d == [pc |-> "store", project |-> draft[l].project,
                    snap |-> Observed(draft[l].own)]
          IN d.project = draft[l].project
      OBVIOUS
    <3>3. \/ draft'[l] = draft[l]
          \/ \E p \in Projects :
               /\ proj[p] # <<>>
               /\ draft'[l] = [pc |-> "observe", project |-> p, own |-> proj[p]]
          \/ /\ draft[l].pc = "observe"
             /\ draft'[l] = [pc |-> "store", project |-> draft[l].project,
                             snap |-> Observed(draft[l].own)]
      BY <1>4, StepDrafts DEF DraftMoves
    <3> QED
      BY <1>4, <3>1, <3>2, <3>3
  <2> QED
    BY <1>2, <2>1, <2>2 DEF AdoptedFirst
<1>5. ASSUME NEW l \in Plans, plan'[l].st # "none"
      PROVE  proj'[plan'[l].project] # <<>>
  <2>1. CASE plan[l].st # "none"
    <3>1. plan'[l].project = plan[l].project
      BY <2>1, PlansFixed DEF PlanFixed
    <3>2. plan[l].project \in Projects
      BY <2>1 DEF TypeInv, TypeOK, PlanRec, NoPlanRec
    <3> QED
      BY <1>2, <2>1, <3>1, <3>2 DEF AdoptedFirst
  <2>2. CASE plan[l].st = "none"
    <3>1. draft[l].pc # "idle" /\ plan'[l].project = draft[l].project
      BY <1>5, <2>2, StepPlan
    <3>2. draft[l].project \in Projects
      BY <3>1 DEF TypeInv, TypeOK, DraftRec, IdleDraft
    <3> QED
      BY <1>2, <3>1, <3>2 DEF AdoptedFirst
  <2> QED
    BY <2>1, <2>2
<1> QED
  BY <1>3, <1>4, <1>5 DEF AdoptedFirst

\* Nothing is planned at first.
LEMMA InitAdopted == Init => AdoptedFirst
BY DEF Init, AdoptedFirst, IdleAdopt, IdleDraft, NoPlanRec

\* A step that is not the work of an operation: it leaves the records and the
\* containers of the project alone, unless something drifts.
Bystands ==
  /\ UNCHANGED <<proj, base, op, flow, clean, locks>>
  /\ ctr' = ctr \/ \E i \in Ids : Drift(i)

\* While an operation is busy, nobody else works on the project.
LEMMA OnlyWorker ==
  ASSUME OneProject, TypeInv, Exclusion, AdoptedFirst, NEW o \in Ops, Busy(o),
         [Next]_vars
  PROVE  ApplyStep(o) \/ CleanupStep(o) \/ Crash \/ Bystands
<1>1. o \in Live /\ Project(o) \in Projects /\ Project(o) \in locks
      /\ proj[Project(o)] # <<>>
  BY LiveAdopted DEF Exclusion, BusyLocked
<1>2. \A q \in Live : Project(q) = Project(o)
  BY <1>1, LiveAdopted DEF OneProject
<1>3. ASSUME NEW q \in Ops, Busy(q)
      PROVE  q = o
  <2>1. q \in Live
    BY <1>3 DEF Exclusion, BusyLocked
  <2> QED
    BY <1>1, <1>2, <1>3, <2>1 DEF Exclusion, BusyAlone
<1>4. \A q \in Ops : ~NeedsRecovery(q)
  BY <1>1, <1>2 DEF NeedsRecovery, Live
<1>5. CASE Aside
  <2>1. UNCHANGED <<op, flow, clean, locks>>
    BY <1>5, AsideKeeps
  <2>2. \A p \in Projects : ~AdoptClaim(p)
    BY <1>1 DEF AdoptClaim, AdoptedFirst, OneProject
  <2>3. \A q \in Ops : ~OwnerRepairs(q)
    BY <1>4 DEF OwnerRepairs
  <2>4. UNCHANGED <<proj, base>> /\ (ctr' = ctr \/ \E i \in Ids : Drift(i))
    BY <1>5, <2>2, <2>3 DEF Aside, AdoptBegin, AdoptInspect, RecoveryBegin,
       RecoveryInspect, ExpireReview, Drift, PlanBegin, PlanStore, PlanObserve,
       ExpirePlan, ReviewRecovery, ReviewCleanup, Prune, vars, disk, memory,
       ReadFails, Refused
  <2> QED
    BY <2>1, <2>4 DEF Bystands
<1>6. ASSUME NEW q \in Ops, ApplyStep(q) \/ CleanupStep(q)
      PROVE  q = o
  <2>1. Busy(q)
    BY <1>6 DEF ApplyStep, ValidationFails, NothingToChange, Prepared, StopOriginal,
       RenameOriginal, CreateReplacement, StartReplacement, AwaitReplacement,
       VerifyNamespace, Commit, CommitFails, BeginRollback,
       DiscardReplacement, RestoreName, RestoreOwnership, RestartOriginal,
       RolledBack, StopEverything, RollbackFailed, CleanupStep, CleanupVet,
       CleanupCheck, CleanupDelete, CleanupDone, Busy
  <2> QED
    BY <1>3, <2>1
<1>7. ASSUME NEW q \in Ops, NEW l \in Plans, ApplyBegin(q, l)
      PROVE  FALSE
  <2>1. plan[l].project \in Projects /\ plan[l].project \notin locks
    BY <1>7 DEF ApplyBegin, Free, TypeInv, TypeOK, PlanRec, NoPlanRec
  <2> QED
    BY <1>1, <2>1 DEF OneProject
<1>8. ASSUME NEW q \in Ops, CleanupBegin(q)
      PROVE  FALSE
  <2>1. q \in Live /\ Project(q) \notin locks
    BY <1>8 DEF CleanupBegin, Cleanable, Live
  <2> QED
    BY <1>1, <1>2, <2>1
<1>9. ASSUME NEW r \in Requests, RecoveryConfirm(r)
      PROVE  FALSE
  <2>1. req[r].pc # "idle"
    BY <1>9 DEF RecoveryConfirm
  <2>2. NeedsRecovery(req[r].op) /\ req[r].op \in Ops
    BY <2>1, Requesting DEF Exclusion, ClaimsStuck
  <2> QED
    BY <1>4, <2>2
<1> QED
  BY <1>5, <1>6, <1>7, <1>8, <1>9, NextCases

-----------------------------------------------------------------------------
(* Removal of the retained originals.                                      *)

\* What a cleanup vetted: every container it is going to remove was renamed
\* by its change and belongs to nobody, and those that depend on the VPN are
\* removed before it.
Ahead(c) == {j \in Slots : c.k <= j /\ StopSlot(j) \in c.todo}
Vetted(o, c) ==
  /\ \A k \in c.todo : Orig(o, k) \in op[o].renamed \ Owned
  /\ Vpn \in c.todo =>
       Dependents(Orig(o, Vpn)) \subseteq {Orig(o, StopSlot(j)) : j \in Ahead(c)}
  /\ c.pc = "delete" => /\ StopSlot(c.k) \in c.todo
                        /\ o \in ctr[Orig(o, StopSlot(c.k))].name.tags
CleanupVetted ==
  \A o \in Ops : clean[o].pc \in {"check", "delete"} => Vetted(o, clean[o])

\* What the journal says is removed is gone.
CleanedGone == \A o \in Ops : \A i \in op[o].cleaned : ctr[i].st = "removed"

\* A cleanup writes down the container it has just removed.
LEMMA CleanupGone ==
  ASSUME TypeInv, NEW o \in Ops, CleanupStep(o)
  PROVE  /\ \A q \in Ops \ {o} : op'[q] = op[q]
         /\ op'[o].renamed = op[o].renamed
         /\ \/ op'[o].cleaned = op[o].cleaned
            \/ \E i \in Ids : /\ ctr' = RemovedC(i)
                              /\ op'[o].cleaned = op[o].cleaned \cup {i}
<1>1. op \in [Ops -> OpRec] /\ op[o] \in OpRec
  BY OldTypes
<1>2. ASSUME NEW u
      PROVE  [op[o] EXCEPT !.cleanup = u].cleaned = op[o].cleaned
  BY <1>1 DEF OpRec
<1>3. ASSUME NEW u, op' = [op EXCEPT ![o].cleanup = u]
      PROVE  op'[o].cleaned = op[o].cleaned
  BY <1>1, <1>2, <1>3
<1>4. CleanupStops(o) => op'[o].cleaned = op[o].cleaned
  BY <1>3 DEF CleanupStops
<1>5. (\A q \in Ops \ {o} : op'[q] = op[q]) /\ op'[o].renamed = op[o].renamed
  BY CleanupStepMarks DEF Marked
<1>6. CASE CleanupVet(o)
  BY <1>3, <1>4, <1>5, <1>6 DEF CleanupVet
<1>7. CASE CleanupCheck(o)
  BY <1>4, <1>5, <1>7 DEF CleanupCheck
<1>8. CASE CleanupDone(o)
  BY <1>3, <1>5, <1>8 DEF CleanupDone
<1>9. CASE CleanupDelete(o)
  <2> DEFINE i == Orig(o, StopSlot(clean[o].k))
  <2>1. clean[o].k \in Slots /\ o \in Live
    BY <1>9, Cleaning DEF CleanupDelete
  <2>2. i \in Ids
    BY <2>1, SlotMoves, OriginalTypes
  <2>3. \/ CleanupStops(o) \/ op' = op
        \/ ctr' = RemovedC(i) /\ op' = [op EXCEPT ![o].cleaned = @ \cup {i}]
        \/ ctr' = RemovedC(i) /\ op' = [op EXCEPT ![o].cleanup = "interrupted",
                                                  ![o].cleaned = @ \cup {i}]
    BY <1>9 DEF CleanupDelete
  <2>4. ASSUME NEW g \in Ids,
               \/ op' = [op EXCEPT ![o].cleaned = @ \cup {g}]
               \/ op' = [op EXCEPT ![o].cleanup = "interrupted",
                                   ![o].cleaned = @ \cup {g}]
        PROVE  op'[o].cleaned = op[o].cleaned \cup {g}
    <3> DEFINE one == [op[o] EXCEPT !.cleaned = @ \cup {g}]
               two == [op[o] EXCEPT !.cleanup = "interrupted", !.cleaned = @ \cup {g}]
    <3>1. op'[o] = one \/ op'[o] = two
      BY <1>1, <2>4
    <3>2. one.cleaned = op[o].cleaned \cup {g} /\ two.cleaned = op[o].cleaned \cup {g}
      BY <1>1 DEF OpRec
    <3> QED
      BY <3>1, <3>2
  <2> HIDE DEF i
  <2> QED
    BY <1>4, <1>5, <2>2, <2>3, <2>4
<1> QED
  BY <1>6, <1>7, <1>8, <1>9 DEF CleanupStep


\* So what is on record as removed is gone for good.
LEMMA StepGone ==
  ASSUME TypeInv, CleanedGone, RemovedStays, [Next]_vars
  PROVE  CleanedGone'
<1> SUFFICES ASSUME NEW o \in Ops, NEW i \in op'[o].cleaned
             PROVE  ctr'[i].st = "removed"
  BY DEF CleanedGone
<1>1. op \in [Ops -> OpRec] /\ \A q \in Ops : op[q].cleaned \in SUBSET Ids
  BY OldTypes DEF OpRec
<1>2. CASE op'[o].cleaned = op[o].cleaned
  BY <1>1, <1>2 DEF CleanedGone, RemovedStays
<1>3. CASE Aside
  BY <1>2, <1>3, AsideKeeps
<1>4. CASE Crash
  BY <1>2, <1>4, RestartMarks DEF Crash
<1>5. ASSUME NEW q \in Ops, NEW l \in Plans, ApplyBegin(q, l)
      PROVE  ctr'[i].st = "removed"
  <2> DEFINE back == [Start(l) EXCEPT !.st = "rolled_back"]
  <2>1. op' = op \/ op' = [op EXCEPT ![q] = Start(l)] \/ op' = [op EXCEPT ![q] = back]
    BY <1>5 DEF ApplyBegin
  <2>2. Start(l).cleaned = {} /\ back.cleaned = {}
    BY DEF Start, NoOp
  <2> HIDE DEF back
  <2>3. op'[o].cleaned = op[o].cleaned \/ op'[o].cleaned = {}
    BY <1>1, <2>1, <2>2
  <2> QED
    BY <1>2, <2>3
<1>6. ASSUME NEW q \in Ops, ApplyStep(q)
      PROVE  ctr'[i].st = "removed"
  <2>1. op'[o].cleaned = op[o].cleaned
    BY <1>6, ApplyShapes, JournalFields DEF ApplyShape
  <2> QED
    BY <1>2, <2>1
<1>7. ASSUME NEW q \in Ops, CleanupBegin(q)
      PROVE  ctr'[i].st = "removed"
  BY <1>2, <1>7 DEF CleanupBegin
<1>8. ASSUME NEW q \in Ops, CleanupStep(q)
      PROVE  ctr'[i].st = "removed"
  <2>1. \/ op'[o].cleaned = op[o].cleaned
        \/ \E j \in Ids : ctr' = RemovedC(j) /\ op'[o].cleaned = op[o].cleaned \cup {j}
    BY <1>8, CleanupGone
  <2>2. ASSUME NEW j \in Ids, ctr' = RemovedC(j)
        PROVE  ctr'[j].st = "removed"
    <3>1. ctr \in [Ids -> Containers]
      BY OldTypes
    <3> QED
      BY <2>2, <3>1 DEF RemovedC, Containers
  <2> QED
    BY <1>1, <1>2, <2>1, <2>2 DEF CleanedGone, RemovedStays
<1>9. ASSUME NEW r \in Requests, RecoveryConfirm(r)
      PROVE  ctr'[i].st = "removed"
  <2>1. op'[o].cleaned = op[o].cleaned
    BY <1>9, ConfirmMarks
  <2> QED
    BY <1>2, <2>1
<1> QED
  BY <1>3, <1>4, <1>5, <1>6, <1>7, <1>8, <1>9, NextCases

\* The order of the loops that stop or remove the applications first.
LEMMA StopOrder ==
  /\ \A k \in Slots : k # Vpn => k - 1 \in Slots /\ StopSlot(k - 1) = k
  /\ StopSlot(Size) = Vpn
  /\ \A k \in Slots : k < Size => StopSlot(k) = k + 1 /\ StopSlot(k) # Vpn
BY SlotFacts, SMT DEF Slots, Vpn, StopSlot

\* What happens outside of the work keeps names and namespaces, and brings
\* nothing back.
LEMMA BystandKeeps ==
  ASSUME TypeInv, Bystands
  PROVE  \A i \in Ids : /\ ctr'[i].name = ctr[i].name /\ ctr'[i].ns = ctr[i].ns
                        /\ Exists(i)' => Exists(i)
<1>1. ctr \in [Ids -> Containers]
  BY OldTypes
<1> DEFINE to(i, s) == [ctr[i] EXCEPT !.st = s]
<1>2. \A i \in Ids : \A s : /\ to(i, s).st = s /\ to(i, s).name = ctr[i].name
                            /\ to(i, s).ns = ctr[i].ns
  BY <1>1 DEF Containers
<1>3. ASSUME NEW i \in Ids, Drift(i)
      PROVE  \E s : Exists(i) /\ ctr' = [ctr EXCEPT ![i] = to(i, s)]
  <2>1. \/ ctr' = [j \in Ids |-> IF j \in {i} THEN to(j, "stopped") ELSE ctr[j]]
        \/ ctr' = [ctr EXCEPT ![i] = to(i, "running")]
        \/ ctr' = [ctr EXCEPT ![i] = to(i, "removed")]
    BY <1>3 DEF Drift, Stopped, Started, RemovedC
  <2>2. ctr' = [j \in Ids |-> IF j \in {i} THEN to(j, "stopped") ELSE ctr[j]]
        => ctr' = [ctr EXCEPT ![i] = to(i, "stopped")]
    <3> HIDE DEF to
    <3> QED
      BY <1>1
  <2> QED
    BY <1>3, <2>1, <2>2 DEF Drift
<1> HIDE DEF to
<1> QED
  BY <1>1, <1>2, <1>3 DEF Bystands, Exists

\* A vetted cleanup goes on as vetted.
LEMMA CleanupKeepsVetted ==
  ASSUME TypeInv, Exclusion, Placed, CleanedGone, CleanupVetted,
         NEW o \in Ops, CleanupStep(o), clean'[o].pc \in {"check", "delete"}
  PROVE  Vetted(o, clean[o])'
<1>0. clean[o].pc # "idle" /\ UNCHANGED untouched
  BY DEF CleanupStep, CleanupVet, CleanupCheck, CleanupDelete, CleanupDone
<1>1. PICK c : c = clean[o]
  OBVIOUS
<1>2. PICK d : d = clean'[o]
  OBVIOUS
<1>3. /\ o \in Live /\ c.k \in 0..Size /\ c.todo \in SUBSET Slots
      /\ c.pc \in {"check", "delete"} => c.k \in Slots
  BY <1>0, <1>1, Cleaning
<1>4. /\ \A k : Orig(o, k)' = Orig(o, k)
      /\ op'[o].renamed = op[o].renamed /\ Owned' = Owned
  <2>1. op'[o].plan = op[o].plan /\ op'[o].renamed = op[o].renamed
    BY CleanupStepMarks DEF Marked
  <2> QED
    BY <1>0, <2>1 DEF untouched, Orig, Snap, Owned
<1>5. c.pc \in {"check", "delete"} => Vetted(o, c)
  BY <1>1 DEF CleanupVetted
<1>6. ctr \in [Ids -> Containers] /\ \A k \in Slots : Orig(o, k) \in Ids
  BY <1>3, OldTypes, OriginalTypes
<1>7. /\ \A todo, at : CleanGoto(o, todo, at) =>
           d.pc = at[1] /\ d.k = at[2] /\ d.todo = todo
      /\ ~EndClean(o) /\ ~CleanupStops(o)
  BY <1>2, CleanFields DEF CleanupStops, IdleClean
<1> SUFFICES Vetted(o, d)'
  BY <1>2
<1>8. CASE CleanupVet(o)
  <2>1. /\ Deletable(o) /\ ctr' = ctr /\ d.pc = "check" /\ d.k = 1
        /\ d.todo = Candidates(o)
    BY <1>7, <1>8 DEF CleanupVet
  <2>2. \A k \in Candidates(o) : Orig(o, k) \in op[o].renamed \ Owned
    BY <2>1 DEF Deletable, Candidates, Removable
  <2>3. ASSUME Vpn \in Candidates(o), NEW j \in Dependents(Orig(o, Vpn))
        PROVE  \E k \in Ahead(d) : j = Orig(o, StopSlot(k))
    <3>1. j \in op[o].renamed /\ Exists(j) /\ ctr[j].ns = Orig(o, Vpn)
      BY <2>1, <2>3 DEF Deletable, Removable, Dependents
    <3>2. PICK k \in Slots : j = Orig(o, k)
      BY <1>3, <3>1 DEF Placed, ChangesPlaced, Replaces, Members, Originals
    <3>3. k # Vpn
      BY <1>3, <1>6, <3>1, <3>2, SlotFacts, OriginalsPlaced, DockerAssumption DEF NsOf
    <3>4. k \in Candidates(o)
      BY <3>1, <3>2 DEF Candidates, CleanedGone, Exists
    <3>5. k - 1 \in Slots /\ StopSlot(k - 1) = k /\ 1 <= k - 1
      BY <3>3, StopOrder, SlotFacts
    <3> QED
      BY <2>1, <3>2, <3>4, <3>5 DEF Ahead
  <2> QED
    BY <1>4, <2>1, <2>2, <2>3 DEF Vetted, Dependents, Exists
<1>9. CASE CleanupCheck(o)
  <2>1. c.k \in Slots /\ Vetted(o, c) /\ c.pc = "check"
    BY <1>1, <1>3, <1>5, <1>9 DEF CleanupCheck
  <2>2. ctr' = ctr /\ d.todo = c.todo
    BY <1>1, <1>7, <1>9 DEF CleanupCheck
  <2>0. \/ /\ StopSlot(c.k) \in c.todo /\ CleanGoto(o, c.todo, <<"delete", c.k>>)
           /\ Seen(Orig(o, StopSlot(c.k))) =
                [conf |-> [Snap(o)[StopSlot(c.k)].conf EXCEPT !.name = Backup(o, StopSlot(c.k))],
                 up |-> FALSE]
        \/ /\ StopSlot(c.k) \notin c.todo
           /\ CleanGoto(o, c.todo, Then("check", c.k, <<"done", 0>>))
    <3>1. \/ /\ StopSlot(c.k) \in c.todo /\ CleanGoto(o, c.todo, <<"delete", c.k>>)
             /\ Seen(Orig(o, StopSlot(c.k))) =
                  [conf |-> [Snap(o)[StopSlot(c.k)].conf EXCEPT !.name = Backup(o, StopSlot(c.k))],
                   up |-> FALSE]
          \/ CleanupStops(o)
          \/ /\ StopSlot(c.k) \notin c.todo
             /\ CleanGoto(o, c.todo, Then("check", c.k, <<"done", 0>>))
      BY <1>1, <1>9, Zenon DEF CleanupCheck
    <3> QED
      BY <1>7, <3>1
  <2>3. CASE d.pc = "delete"
    <3>1. d.k = c.k /\ StopSlot(c.k) \in c.todo
      <4>1. CASE StopSlot(c.k) \in c.todo /\ CleanGoto(o, c.todo, <<"delete", c.k>>)
        BY <1>7, <4>1
      <4>2. CASE CleanGoto(o, c.todo, Then("check", c.k, <<"done", 0>>))
        BY <1>7, <2>3, <4>2 DEF Then
      <4> QED
        BY <2>0, <4>1, <4>2
    <3>2. Seen(Orig(o, StopSlot(c.k))).conf.name = Backup(o, StopSlot(c.k))
      <4>1. Snap(o)[StopSlot(c.k)].conf \in Confs
        BY <1>3, <2>1, SlotMoves, PlanTypes DEF Snapshots
      <4>2. Seen(Orig(o, StopSlot(c.k))) =
              [conf |-> [Snap(o)[StopSlot(c.k)].conf EXCEPT !.name = Backup(o, StopSlot(c.k))],
               up |-> FALSE]
        BY <2>0, <3>1
      <4> QED
        BY <4>1, <4>2 DEF Confs
    <3>3. ctr[Orig(o, StopSlot(c.k))].name = Backup(o, StopSlot(c.k))
      BY <3>2 DEF Seen, ConfOf
    <3>4. o \in Backup(o, StopSlot(c.k)).tags
      <4>1. Snap(o)[StopSlot(c.k)].conf.name \in Names
        BY <1>3, <2>1, SlotMoves, OriginalTypes
      <4> QED
        BY <4>1 DEF Backup, Names
    <3>5. Ahead(d) = Ahead(c)
      BY <2>2, <3>1 DEF Ahead
    <3> QED
      BY <1>4, <2>1, <2>2, <3>1, <3>3, <3>4, <3>5 DEF Vetted, Dependents, Exists
  <2>4. CASE d.pc # "delete"
    <3>1. d.pc = "check" /\ StopSlot(c.k) \notin c.todo /\ c.k < Size /\ d.k = c.k + 1
      <4>1. CleanGoto(o, c.todo, <<"delete", c.k>>) => d.pc = "delete"
        BY <1>7
      <4>2. /\ StopSlot(c.k) \notin c.todo
            /\ CleanGoto(o, c.todo, Then("check", c.k, <<"done", 0>>))
        BY <2>0, <2>4, <4>1
      <4>3. /\ d.pc = Then("check", c.k, <<"done", 0>>)[1]
            /\ d.k = Then("check", c.k, <<"done", 0>>)[2]
        BY <1>7, <4>2
      <4> QED
        BY <1>2, <4>2, <4>3 DEF Then
    <3>2. Ahead(d) = Ahead(c)
      <4>1. ASSUME NEW j \in Slots
            PROVE  (d.k <= j /\ StopSlot(j) \in d.todo) <=>
                   (c.k <= j /\ StopSlot(j) \in c.todo)
        <5>1. c.k \in Nat /\ j \in Nat
          BY <2>1, SlotFacts
        <5>2. d.k <= j <=> c.k <= j /\ j # c.k
          BY <3>1, <5>1
        <5> QED
          BY <2>2, <3>1, <5>2
      <4> QED
        BY <4>1 DEF Ahead
    <3> QED
      BY <1>4, <2>1, <2>2, <3>1, <3>2 DEF Vetted, Dependents, Exists
  <2> QED
    BY <2>3, <2>4
<1>10. CASE CleanupDelete(o)
  <2> DEFINE i == Orig(o, StopSlot(c.k))
  <2>1. c.k \in Slots /\ Vetted(o, c) /\ c.pc = "delete"
    BY <1>1, <1>3, <1>5, <1>10 DEF CleanupDelete
  <2>2. /\ ctr' = RemovedC(i) /\ d.todo = c.todo
        /\ d.pc = "check" /\ c.k < Size /\ d.k = c.k + 1
    BY <1>1, <1>2, <1>7, <1>10 DEF CleanupDelete, Then
  <2>3. i \in Ids
    BY <1>6, <2>1, SlotMoves
  <2>4. /\ ctr'[i].st = "removed" /\ \A j \in Ids \ {i} : ctr'[j] = ctr[j]
        /\ ctr'[i].ns = ctr[i].ns
    BY <1>6, <2>2, <2>3 DEF RemovedC, Containers
  <2>5. Dependents(Orig(o, Vpn))' \subseteq Dependents(Orig(o, Vpn)) \ {i}
    <3> HIDE DEF i
    <3> QED
      BY <1>4, <2>3, <2>4 DEF Dependents, Exists
  <2>6. Ahead(c) \subseteq Ahead(d) \cup {c.k}
    <3>1. \A j \in Slots : c.k <= j => j = c.k \/ d.k <= j
      <4>1. \A m, j \in Slots : m <= j => j = m \/ m + 1 <= j
        BY SlotFacts
      <4> QED
        BY <2>1, <2>2, <4>1
    <3> QED
      BY <2>2, <3>1 DEF Ahead
  <2>7. Vpn \in c.todo =>
          Dependents(Orig(o, Vpn))' \subseteq {Orig(o, StopSlot(j)) : j \in Ahead(d)}
    BY <2>1, <2>5, <2>6 DEF Vetted
  <2> QED
    BY <1>4, <2>1, <2>2, <2>7 DEF Vetted
<1>11. CASE CleanupDone(o)
  BY <1>2, <1>7, <1>11 DEF CleanupDone
<1> QED
  BY <1>8, <1>9, <1>10, <1>11 DEF CleanupStep

\* Only a step of a cleanup takes it to its checks.
LEMMA ChecksBegin ==
  ASSUME TypeInv, [Next]_vars, NEW o \in Ops,
         clean'[o].pc \in {"check", "delete"}, ~CleanupStep(o)
  PROVE  clean'[o] = clean[o]
<1>1. clean \in [Ops -> CleanRec]
  BY DEF TypeInv, TypeOK
<1>2. CASE Aside
  BY <1>2, AsideKeeps
<1>3. CASE Crash
  BY <1>3 DEF Crash, IdleClean
<1>4. ASSUME NEW q \in Ops, CleanupBegin(q)
      PROVE  clean'[o] = clean[o]
  <2> DEFINE c == [clean[q] EXCEPT !.pc = "vet"]
  <2>1. c.pc = "vet" /\ clean' = [clean EXCEPT ![q] = c]
    BY <1>1, <1>4 DEF CleanupBegin, CleanRec
  <2> HIDE DEF c
  <2> QED
    BY <1>1, <2>1
<1>5. ASSUME NEW q \in Ops \ {o}, CleanupStep(q)
      PROVE  clean'[o] = clean[o]
  BY <1>5, CleanFields DEF CleanupStep, CleanupVet, CleanupCheck, CleanupDelete,
     CleanupDone, CleanupStops
<1>6. ASSUME NEW q \in Ops, ApplyStep(q)
      PROVE  clean'[o] = clean[o]
  BY <1>6, ApplyShapes DEF ApplyShape
<1>7. ASSUME NEW q \in Ops, NEW l \in Plans, ApplyBegin(q, l)
      PROVE  clean'[o] = clean[o]
  BY <1>7 DEF ApplyBegin
<1>8. ASSUME NEW r \in Requests, RecoveryConfirm(r)
      PROVE  clean'[o] = clean[o]
  BY <1>8 DEF RecoveryConfirm
<1> QED
  BY <1>2, <1>3, <1>4, <1>5, <1>6, <1>7, <1>8, NextCases

\* What is vetted stays vetted until it is removed.
LEMMA StepVetted ==
  ASSUME OneProject, TypeInv, Exclusion, Placed, AdoptedFirst, CleanedGone,
         CleanupVetted, [Next]_vars
  PROVE  CleanupVetted'
<1> SUFFICES ASSUME NEW o \in Ops, clean'[o].pc \in {"check", "delete"}
             PROVE  Vetted(o, clean[o])'
  BY DEF CleanupVetted
<1>1. CASE CleanupStep(o)
  BY <1>1, CleanupKeepsVetted
<1>2. CASE ~CleanupStep(o)
  <2>1. PICK c : c = clean[o]
    OBVIOUS
  <2>2. clean'[o] = c /\ c.pc # "idle" /\ Busy(o) /\ o \in Live /\ c.todo \in SUBSET Slots
        /\ Vetted(o, c)
    BY <1>2, <2>1, ChecksBegin, Cleaning DEF Busy, CleanupVetted
  <2>3. ~ApplyStep(o)
    <3>1. flow[o].pc = "idle"
      BY <2>1, <2>2 DEF Exclusion, BusyOnce
    <3> QED
      BY <3>1 DEF ApplyStep, ValidationFails, NothingToChange, Prepared, StopOriginal,
         RenameOriginal, CreateReplacement, StartReplacement, AwaitReplacement,
         VerifyNamespace, Commit, CommitFails, BeginRollback,
         DiscardReplacement, RestoreName, RestoreOwnership, RestartOriginal,
         RolledBack, StopEverything, RollbackFailed
  <2>4. ~Crash
    BY DEF Crash, IdleClean
  <2>5. Bystands
    BY <1>2, <2>2, <2>3, <2>4, OnlyWorker
  <2>6. /\ \A k : Orig(o, k)' = Orig(o, k)
        /\ op'[o].renamed = op[o].renamed /\ Owned' = Owned
    BY <2>2, <2>5, ReadsFixed DEF Bystands, Owned, Exclusion
  <2>7. c.pc = "delete" => StopSlot(c.k) \in Slots /\ Orig(o, StopSlot(c.k)) \in Ids
    BY <2>1, <2>2, Cleaning, SlotMoves, OriginalTypes
  <2>8. \A i \in Ids : /\ ctr'[i].name = ctr[i].name /\ ctr'[i].ns = ctr[i].ns
                       /\ Exists(i)' => Exists(i)
    BY <2>5, BystandKeeps
  <2>9. Dependents(Orig(o, Vpn))' \subseteq Dependents(Orig(o, Vpn))
    BY <2>6, <2>8 DEF Dependents
  <2> QED
    BY <2>2, <2>6, <2>7, <2>8, <2>9 DEF Vetted
<1> QED
  BY <1>1, <1>2

\* A vetted removal takes a retained original that nothing depends on.
LEMMA VettedTakes ==
  ASSUME TypeInv, Placed, NEW o \in Ops, clean[o].pc = "delete",
         Vetted(o, clean[o]), CanRemove(Orig(o, StopSlot(clean[o].k)))
  PROVE  LET i == Orig(o, StopSlot(clean[o].k))
         IN /\ i \in op[o].renamed \ Owned /\ o \in ctr[i].name.tags /\ ~Running(i)
            /\ Dependents(i) = {}
<1>1. PICK c : c = clean[o]
  OBVIOUS
<1>2. PICK i : i = Orig(o, StopSlot(c.k))
  OBVIOUS
<1>3. o \in Live /\ c.k \in Slots /\ StopSlot(c.k) \in Slots
  BY <1>1, Cleaning, SlotMoves
<1>4. /\ i \in Ids /\ ctr[i].name.slot = StopSlot(c.k) /\ Used(i)
      /\ ctr[Orig(o, Vpn)].ns = NoId /\ Orig(o, Vpn) \in Ids
  BY <1>2, <1>3, SlotFacts, OriginalsPlaced DEF NsOf
<1>5. Dependents(i) = {}
  <2>1. SUFFICES ASSUME NEW j \in Ids, Exists(j), ctr[j].ns = i PROVE FALSE
    BY DEF Dependents
  <2>2. StopSlot(c.k) = Vpn
    BY <1>4, <2>1 DEF Placed, ContainersPlaced, Used, Exists
  <2>3. c.k = Size
    BY <1>3, <2>2, StopOrder, SlotMoves
  <2>4. Ahead(c) \subseteq {Size}
    <3>1. \A m \in Slots : Size <= m => m = Size
      BY SlotFacts
    <3> QED
      BY <2>3, <3>1 DEF Ahead
  <2>5. j \in Dependents(Orig(o, Vpn)) /\ Vpn \in c.todo
    BY <1>1, <1>2, <2>1, <2>2 DEF Dependents, Vetted
  <2>6. j = Orig(o, Vpn)
    BY <1>1, <2>4, <2>5, StopOrder DEF Vetted
  <2> QED
    BY <1>2, <1>4, <2>1, <2>2, <2>6, DockerAssumption
<1> QED
  BY <1>1, <1>2, <1>5 DEF Vetted, CanRemove, Running

\* What a step removes while a cleanup works, its deletion removes.
LEMMA RemovesAlone ==
  ASSUME OneProject, TypeInv, Exclusion, AdoptedFirst, [Next]_vars,
         NEW o \in Ops, NEW i \in Ids, clean[o].pc = "delete", clean'[o] # clean[o],
         Exists(i), ctr'[i].st = "removed"
  PROVE  i = Orig(o, StopSlot(clean[o].k)) /\ CanRemove(i)
<1>1. PICK g : g = Orig(o, StopSlot(clean[o].k))
  OBVIOUS
<1>2. Busy(o) /\ o \in Live /\ clean[o].k \in Slots
  BY Cleaning DEF Busy
<1>3. ctr \in [Ids -> Containers]
  BY OldTypes
<1>4. ctr'[i] # ctr[i]
  BY DEF Exists
<1>5. CanRemove(g) /\ ctr' = RemovedC(g) => i = g /\ CanRemove(i)
  BY <1>3, <1>4 DEF RemovedC
<1>6. CASE CleanupStep(o)
  <2>1. CleanupDelete(o)
    BY <1>6 DEF CleanupStep, CleanupVet, CleanupCheck, CleanupDone
  <2>2. CanRemove(g) /\ ctr' = RemovedC(g)
    BY <1>1, <1>4, <2>1 DEF CleanupDelete, Refused
  <2> QED
    BY <1>1, <1>5, <2>2
<1>7. CASE Crash
  <2>1. ASSUME NEW q \in Ops, Busy(q)
        PROVE  q = o
    <3>1. q \in Live
      BY <2>1 DEF Exclusion, BusyLocked
    <3>2. Project(q) = Project(o)
      BY <1>2, <3>1, LiveAdopted DEF OneProject
    <3> QED
      BY <1>2, <2>1, <3>1, <3>2 DEF Exclusion, BusyAlone
  <2>2. ASSUME NEW q \in Ops
        PROVE  ~Unanswered(q)
    <3>1. Unanswered(q) => flow[q].pc # "idle"
      BY DEF Unanswered
    <3> QED
      BY <2>1, <3>1 DEF Busy, Exclusion, BusyOnce
  <2>3. \E q \in Ops : /\ clean[q].pc = "delete"
                       /\ CanRemove(Orig(q, StopSlot(clean[q].k)))
                       /\ ctr' = RemovedC(Orig(q, StopSlot(clean[q].k)))
    BY <1>4, <1>7, <2>2 DEF Crash, Stray
  <2>4. CanRemove(g) /\ ctr' = RemovedC(g)
    BY <1>1, <2>1, <2>3 DEF Busy
  <2> QED
    BY <1>1, <1>5, <2>4
<1>8. CASE ApplyStep(o)
  BY <1>8, ApplyShapes DEF ApplyShape
<1>9. CASE Bystands
  BY <1>9 DEF Bystands
<1> QED
  BY <1>2, <1>6, <1>7, <1>8, <1>9, OnlyWorker

\* What is known of the retained originals, at any time.
Retains == TypeInv /\ Exclusion /\ Placed /\ NamesUnique /\ AdoptedFirst /\ CleanedGone

\* It holds initially, and every step keeps it.
LEMMA Retained == OneRequest /\ OneProject /\ Spec => [](Retains /\ CleanupVetted)
<1>1. Init => NamesUnique /\ AdoptedFirst /\ CleanedGone /\ CleanupVetted
  <2>1. Init => CleanedGone /\ CleanupVetted
    <3>1. NoOp.cleaned = {} /\ IdleClean.pc = "idle"
      BY DEF NoOp, IdleClean
    <3> QED
      BY <3>1 DEF Init, CleanedGone, CleanupVetted
  <2> QED
    BY <2>1, InitNames, InitAdopted
<1>2. /\ TypeInv /\ Exclusion /\ Placed /\ NamesUnique /\ AdoptedFirst /\ CleanedGone
      /\ OneProject /\ CleanupVetted /\ [Next]_vars
      => (NamesUnique /\ AdoptedFirst /\ CleanedGone /\ CleanupVetted)'
  BY StepNames, StepAdopted, StepGone, StepVetted DEF Exclusion
<1>3. OneProject => []OneProject
  OBVIOUS
<1> QED
  BY PlacesKept, <1>1, <1>2, <1>3, PTL DEF Spec, Retains

\* The removal of retained originals deletes nothing else, whatever fails and
\* whoever interferes (engine.ts:376-384, 402-404).
THEOREM CleanupSafe == OneRequest /\ OneProject /\ Spec => CleanupTakesRetained
<1>1. /\ OneProject /\ Retains /\ CleanupVetted /\ [Next]_vars
      => [\A o \in Ops, i \in Ids :
           /\ clean[o].pc = "delete" /\ clean'[o] # clean[o]
           /\ Exists(i) /\ ctr'[i].st = "removed"
           => /\ i \in op[o].renamed \ Owned
              /\ o \in ctr[i].name.tags /\ ~Running(i)
              /\ Dependents(i) = {}]_vars
  BY RemovesAlone, VettedTakes DEF Retains, CleanupVetted
<1>2. OneProject => []OneProject
  OBVIOUS
<1> QED
  BY Retained, <1>1, <1>2, PTL DEF Spec, CleanupTakesRetained

-----------------------------------------------------------------------------
(* What holds from the validation of a change to its end.                  *)

\* Nobody touches the containers behind the helper's back.
Undisturbed == "drift" \notin Faults

\* The originals are there, and nothing else uses their network.
Standing(o) == /\ \A k \in Slots : Exists(Orig(o, k))
               /\ Dependents(Orig(o, Vpn)) \subseteq Members(Originals(o))
\* No original runs that did not run before.
UpAsPlanned(o) == \A k \in Slots : Running(Orig(o, k)) => Snap(o)[k].up
\* Only replacements run in the network of the new VPN.
Clients(c) == c # <<>> =>
  \A j \in Dependents(c[Vpn]) : Running(j) => j \in Members(c)

\* A container that exists after a step of an apply existed before.
LEMMA KeepsDown ==
  ASSUME TypeInv, Keeps, NEW j \in Ids
  PROVE  /\ Exists(j)' => Exists(j) /\ ctr'[j].ns = ctr[j].ns
         /\ Used(j) => ctr'[j].ns = ctr[j].ns
<1>1. ctr[j].st \in States
  BY OldTypes DEF Containers
<1> QED
  BY <1>1 DEF Keeps, Steady, Lasting, Closed, RemovedStays, Used, Exists, States

\* What may be started of the originals ran before.
LEMMA StartablePlaced ==
  ASSUME TypeInv, Placed, NEW o \in Ops, flow[o].pc # "idle"
  PROVE  /\ \A k \in Slots : /\ Orig(o, k) \in Startable(o) => Wanted(o, k)
                             /\ Orig(o, k) \notin Members(flow[o].created)
                             /\ Orig(o, k) \in Members(Originals(o))
         /\ \A j \in Startable(o) : \/ j \in Members(flow[o].created)
                                    \/ \E k \in Slots : j = Orig(o, k)
         /\ \A j \in Startable(o) : Used(j)
<1>1. o \in Live
  BY FlowPlaced
<1>2. Replaces(o, flow[o].created, flow[o].renamed)
  BY <1>1 DEF Placed, ChangesPlaced
<1>3. \A k \in Slots : Orig(o, k) \in Members(Originals(o))
  BY DEF Members, Originals
<1>4. \A k \in Slots : /\ ctr[Orig(o, k)].name.slot = k
                       /\ Orig(o, k) \notin Members(flow[o].created)
                       /\ Used(Orig(o, k))
  BY <1>1, <1>2, <1>3, OriginalsPlaced DEF Replaces
<1>5. \A j \in Members(flow[o].created) : Used(j)
  BY <1>2 DEF Replaces, Shaped, Members
<1> QED
  BY <1>3, <1>4, <1>5 DEF Startable

\* What the daemon does for an apply leaves the stack standing.
LEMMA ServesUphold ==
  ASSUME TypeInv, Exclusion, Placed, [Next]_vars, NEW o \in Ops,
         flow[o].pc # "idle", Serves(o)
  PROVE  /\ Standing(o) => Standing(o)'
         /\ UpAsPlanned(o) => UpAsPlanned(o)'
         /\ \A c : c = flow[o].created /\ Clients(c) => Clients(c)'
<1>1. /\ o \in Live /\ flow[o].created \in Seq(Ids)
      /\ Touchable(o) \in SUBSET Ids /\ Startable(o) \in SUBSET Touchable(o)
      /\ Members(flow[o].created) \in SUBSET Touchable(o)
  BY FlowPlaced
<1>2. Keeps /\ Only(Touchable(o), Startable(o), Members(flow[o].created))
  BY <1>1, HandlesKeeps DEF Serves
<1>3. /\ \A k : Orig(o, k)' = Orig(o, k)
      /\ Snap(o)' = Snap(o) /\ Originals(o)' = Originals(o)
  BY <1>1, ReadsFixed DEF Exclusion
<1>4. Vpn \in Slots /\ \A k \in Slots : Orig(o, k) \in Ids
  BY <1>1, SlotFacts, OriginalTypes
<1>5. ASSUME Standing(o)
      PROVE  Standing(o)'
  <2>1. \A k \in Slots : Exists(Orig(o, k))'
    <3>1. SUFFICES ASSUME NEW k \in Slots, NEW i \in Ids, i = Orig(o, k)
                   PROVE  Exists(i)'
      BY <1>3, <1>4
    <3> QED
      BY <1>2, <1>5, <3>1, StartablePlaced DEF Standing, Only
  <2>2. Dependents(Orig(o, Vpn))' \subseteq Dependents(Orig(o, Vpn))
    BY <1>2, <1>3, KeepsDown DEF Dependents
  <2> QED
    BY <1>3, <1>5, <2>1, <2>2 DEF Standing, Members
<1>6. ASSUME UpAsPlanned(o)
      PROVE  UpAsPlanned(o)'
  BY <1>2, <1>3, <1>4, <1>6, StartablePlaced DEF UpAsPlanned, Only, Wanted
<1>7. ASSUME NEW c, c = flow[o].created, Clients(c)
      PROVE  Clients(c)'
  <2>1. SUFFICES ASSUME c # <<>>, NEW j \in Ids, Running(j)', ctr'[j].ns = c[Vpn]
                 PROVE  j \in Members(c)
    BY DEF Clients, Dependents
  <2>2. Vpn \in DOMAIN c
    BY <1>1, <1>7, <2>1 DEF Vpn
  <2>3. c[Vpn] \in Members(c) /\ c[Vpn] \in Ids
    BY <1>1, <1>7, <2>2 DEF Members
  <2>4. \A k \in Slots : ctr[Orig(o, k)].ns # c[Vpn]
    BY <1>1, <1>4, <1>7, <2>3, StartablePlaced, OriginalsPlaced, DockerAssumption DEF NsOf
  <2>5. CASE j \in Startable(o)
    BY <1>7, <2>1, <2>4, <2>5, <1>2, StartablePlaced, KeepsDown
  <2>6. CASE Running(j)
    BY <1>2, <1>7, <2>1, <2>6, KeepsDown DEF Clients, Dependents, Running, Exists, Used
  <2> QED
    BY <1>2, <2>1, <2>5, <2>6 DEF Only
<1> QED
  BY <1>5, <1>6, <1>7

\* So does the creation of a replacement.
LEMMA CreatesUphold ==
  ASSUME TypeInv, Exclusion, Placed, [Next]_vars, NEW o \in Ops, Creates(o)
  PROVE  /\ Standing(o) => Standing(o)'
         /\ UpAsPlanned(o) => UpAsPlanned(o)'
         /\ \A c : c = flow[o].created /\ Clients(c) =>
              Clients(c)' /\ \A g : g = Append(c, FreshId) => Clients(g)'
<1>1. PICK i : i = FreshId
  OBVIOUS
<1>2. /\ o \in Live /\ i \in Ids /\ ~Used(i) /\ flow[o].k \in Slots
      /\ flow[o].created \in Seq(Ids) /\ Len(flow[o].created) = flow[o].k - 1
      /\ \A j \in Ids \ {i} : ctr'[j] = ctr[j]
      /\ ctr'[i].st = "stopped" /\ ctr'[i].ns = NsOf(flow[o].k, flow[o].created[Vpn])
  BY <1>1, CreatedPlace
<1>3. /\ \A k : Orig(o, k)' = Orig(o, k)
      /\ Snap(o)' = Snap(o) /\ Originals(o)' = Originals(o)
  BY <1>2, ReadsFixed DEF Exclusion
<1>4. Vpn \in Slots /\ \A k \in Slots : Orig(o, k) \in Ids \ {i}
  BY <1>2, SlotFacts, OriginalTypes, OriginalsPlaced
<1>5. flow[o].pc # "idle"
  BY DEF Creates
<1>6. \A j \in Ids : Running(j)' => j # i /\ Running(j) /\ ctr'[j].ns = ctr[j].ns
  BY <1>2 DEF Running
<1>7. flow[o].k # Vpn => Vpn \in DOMAIN flow[o].created
  <2>1. flow[o].k # Vpn => Vpn \in 1..Len(flow[o].created)
    BY <1>2, SlotFacts DEF Slots, Vpn
  <2> QED
    BY <1>2, <2>1
<1>8. ctr'[i].ns # Orig(o, Vpn)
  BY <1>2, <1>4, <1>5, <1>7, StartablePlaced, DockerAssumption DEF NsOf, Members
<1>9. ASSUME Standing(o)
      PROVE  Standing(o)'
  <2>1. \A k \in Slots : Exists(Orig(o, k))'
    BY <1>2, <1>3, <1>4, <1>9 DEF Standing, Exists
  <2>2. Dependents(Orig(o, Vpn))' \subseteq Dependents(Orig(o, Vpn))
    BY <1>2, <1>3, <1>8 DEF Dependents, Exists
  <2> QED
    BY <1>3, <1>9, <2>1, <2>2 DEF Standing, Members
<1>10. UpAsPlanned(o) => UpAsPlanned(o)'
  BY <1>3, <1>4, <1>6 DEF UpAsPlanned
<1>11. ASSUME NEW c, c = flow[o].created, Clients(c)
       PROVE  Clients(c)'
  BY <1>6, <1>11 DEF Clients, Dependents, Running, Exists
<1>12. ASSUME NEW c, c = flow[o].created, Clients(c), NEW g, g = Append(c, i)
       PROVE  Clients(g)'
  <2>1. SUFFICES ASSUME NEW j \in Ids, Running(j)', ctr'[j].ns = g[Vpn]
                 PROVE  j \in Members(g)
    BY DEF Clients, Dependents
  <2>2. CASE c = <<>>
    <3>1. g[Vpn] = i
      BY <1>2, <1>12, <2>2 DEF Vpn
    <3>2. ctr[j].ns = i /\ Used(j)
      BY <1>6, <2>1, <3>1 DEF Used, Running
    <3> QED
      BY <1>2, <3>2 DEF Placed, ContainersPlaced
  <2>3. CASE c # <<>>
    <3>1. g[Vpn] = c[Vpn]
      BY <1>2, <1>12, <2>3 DEF Vpn
    <3>2. j \in Members(c)
      BY <1>6, <1>12, <2>1, <2>3, <3>1 DEF Clients, Dependents, Running, Exists
    <3> QED
      BY <1>2, <1>12, <3>2 DEF Members
  <2> QED
    BY <2>2, <2>3
<1> QED
  BY <1>1, <1>9, <1>10, <1>11, <1>12

\* A flow that has begun was valid, or is being validated.
LEMMA FlowBegins ==
  ASSUME TypeInv, NEW o \in Ops, flow[o].pc = "idle", [Next]_vars
  PROVE  \/ flow'[o].pc = "idle" /\ flow'[o] \in {flow[o], IdleFlow}
         \/ /\ flow'[o].pc = "validate" /\ flow'[o].renamed = {}
            /\ \E l \in Plans : ApplyBegin(o, l)
<1>1. flow \in [Ops -> FlowRec]
  BY DEF TypeInv, TypeOK
<1>2. CASE Aside
  BY <1>2, AsideKeeps
<1>3. CASE Crash
  BY <1>3 DEF Crash, IdleFlow
<1>4. ASSUME NEW q \in Ops, NEW l \in Plans, ApplyBegin(q, l)
      PROVE  \/ flow'[o].pc = "idle" /\ flow'[o] \in {flow[o], IdleFlow}
             \/ /\ flow'[o].pc = "validate" /\ flow'[o].renamed = {}
                /\ \E m \in Plans : ApplyBegin(o, m)
  <2> DEFINE f == [IdleFlow EXCEPT !.pc = "validate", !.st = "applying",
                                   !.own = proj[plan[l].project]]
  <2>1. f.pc = "validate" /\ f.renamed = {}
    BY DEF IdleFlow
  <2>2. flow' = flow \/ flow' = [flow EXCEPT ![q] = f]
    BY <1>4 DEF ApplyBegin
  <2> HIDE DEF f
  <2> QED
    BY <1>1, <1>4, <2>1, <2>2
<1>5. ASSUME NEW q \in Ops, ApplyStep(q)
      PROVE  flow'[o].pc = "idle" /\ flow'[o] = flow[o]
  <2>1. q # o
    BY <1>5 DEF ApplyStep, ValidationFails, NothingToChange, Prepared, StopOriginal,
       RenameOriginal, CreateReplacement, StartReplacement, AwaitReplacement,
       VerifyNamespace, Commit, CommitFails, BeginRollback,
       DiscardReplacement, RestoreName, RestoreOwnership, RestartOriginal,
       RolledBack, StopEverything, RollbackFailed
  <2> QED
    BY <1>1, <1>5, <2>1, ApplyShapes DEF ApplyShape
<1>6. ASSUME NEW q \in Ops, CleanupBegin(q) \/ CleanupStep(q)
      PROVE  flow' = flow
  BY <1>6 DEF CleanupBegin, CleanupStep, CleanupVet, CleanupCheck, CleanupDelete,
     CleanupDone, untouched
<1>7. ASSUME NEW r \in Requests, RecoveryConfirm(r)
      PROVE  flow' = flow
  BY <1>7 DEF RecoveryConfirm
<1> QED
  BY <1>2, <1>3, <1>4, <1>5, <1>6, <1>7, NextCases

\* What is validated is what was planned.
LEMMA ValidSnap ==
  ASSUME TypeInv, NEW o \in Ops, flow[o].pc = "validate", Valid(o)
  PROVE  /\ \A k \in Slots : /\ flow[o].own[k] = Orig(o, k)
                             /\ Snap(o)[k] = Seen(Orig(o, k))
                             /\ ctr[Orig(o, k)].name = Snap(o)[k].conf.name
         /\ Standing(o) /\ UpAsPlanned(o) /\ flow[o].created = <<>>
<1>1. /\ o \in Live /\ Len(flow[o].created) = 0 /\ flow[o].created \in Seq(Ids)
  BY Flowing DEF Position
<1>2. ASSUME NEW k \in Slots
      PROVE  /\ flow[o].own[k] = Orig(o, k) /\ Snap(o)[k] = Seen(Orig(o, k))
             /\ Exists(Orig(o, k))
             /\ ctr[Orig(o, k)].name = Snap(o)[k].conf.name
             /\ Running(Orig(o, k)) => Snap(o)[k].up
  <2>1. Snap(o)[k] = Seen(flow[o].own[k]) /\ Exists(flow[o].own[k])
    BY DEF Valid, Observed, Intact
  <2>2. Snap(o)[k].conf.id = flow[o].own[k]
    BY <2>1 DEF Seen, ConfOf
  <2>3. flow[o].own[k] = Orig(o, k)
    BY <2>2 DEF Orig
  <2> QED
    BY <2>1, <2>3 DEF Seen, ConfOf
<1>3. Vpn \in Slots /\ Apps \subseteq Slots
  BY SlotFacts DEF Apps
<1>4. Dependents(Orig(o, Vpn)) \subseteq Members(Originals(o))
  BY <1>2, <1>3 DEF Valid, Intact, Members, Originals
<1> QED
  BY <1>1, <1>2, <1>4 DEF Standing, UpAsPlanned

\* The copy of the record grows by what has just been created.
LEMMA ApplyCreated ==
  ASSUME TypeInv, NEW o \in Ops, ApplyStep(o), flow'[o].pc # "idle"
  PROVE  /\ \/ flow'[o].created = flow[o].created
            \/ /\ Creates(o)
               /\ flow'[o].created = Append(flow[o].created, FreshId)
         /\ flow[o].pc # "idle"
         /\ flow[o].pc = "validate" => Prepared(o)
<1>0. flow[o].pc # "idle"
  BY DEF ApplyStep, ValidationFails, NothingToChange, Prepared, StopOriginal,
     RenameOriginal, CreateReplacement, StartReplacement, AwaitReplacement,
     VerifyNamespace, Commit, CommitFails, BeginRollback,
     DiscardReplacement, RestoreName, RestoreOwnership, RestartOriginal,
     RolledBack, StopEverything, RollbackFailed
<1>1. flow \in [Ops -> FlowRec] /\ flow[o] \in FlowRec
  BY DEF TypeInv, TypeOK
<1>2. ASSUME NEW at, Goto(o, flow[o], at)
      PROVE  flow'[o].created = flow[o].created
  BY <1>1, <1>2, GotoFields
<1>3. ASSUME NEW can, NEW after, NEW at, NEW bad, Await(o, can, after, at, bad)
      PROVE  flow'[o].created = flow[o].created
  BY <1>2, <1>3 DEF Await
<1>4. ~End(o)
  BY <1>1 DEF End, IdleFlow
<1>5. /\ ~ValidationFails(o) /\ ~NothingToChange(o) /\ ~Commit(o)
      /\ \A f : ~Conclude(o, f)
  BY <1>4 DEF ValidationFails, NothingToChange, Commit, Conclude
<1>6. CASE RenameOriginal(o)
  <2>1. PICK done : done = [flow[o] EXCEPT !.renamed = @ \cup {Orig(o, flow[o].k)}]
    OBVIOUS
  <2>2. done \in FlowRec /\ done.created = flow[o].created
    <3>1. flow[o].renamed \cup {Orig(o, flow[o].k)} \in SUBSET Ids
      BY <1>0, <1>6, Flowing, OriginalTypes DEF RenameOriginal, Position, Loops
    <3> QED
      BY <1>1, <2>1, <3>1 DEF FlowRec
  <2>3. (\E at : Goto(o, done, at)) \/ \E at : Goto(o, flow[o], at)
    BY <1>6, <2>1 DEF RenameOriginal, Recorded
  <2> QED
    BY <1>0, <1>2, <1>6, <2>2, <2>3, GotoFields DEF RenameOriginal
<1>7. CASE CreateReplacement(o)
  <2>1. PICK done : done = [flow[o] EXCEPT !.created = Append(@, FreshId)]
    OBVIOUS
  <2>2. CASE Creates(o) /\ \E at : Goto(o, done, at)
    <3>1. Append(flow[o].created, FreshId) \in Seq(Ids)
      BY <1>0, <2>2, Flowing DEF Creates, CanCreate, UnusedIds, FreshId
    <3>2. done \in FlowRec /\ done.created = Append(flow[o].created, FreshId)
      BY <1>1, <2>1, <3>1 DEF FlowRec
    <3> QED
      BY <1>0, <2>2, <3>2, GotoFields DEF Creates
  <2>3. CASE \E at : Goto(o, flow[o], at)
    BY <1>0, <1>2, <1>7, <2>3 DEF CreateReplacement
  <2> QED
    BY <1>7, <2>1, <2>2, <2>3 DEF CreateReplacement, Recorded, Creates
<1> QED
  <2>1. \/ Prepared(o) \/ StopOriginal(o) \/ RenameOriginal(o)
        \/ CreateReplacement(o) \/ StartReplacement(o) \/ AwaitReplacement(o)
        \/ VerifyNamespace(o) \/ CommitFails(o)
        \/ BeginRollback(o) \/ DiscardReplacement(o) \/ RestoreName(o)
        \/ RestoreOwnership(o) \/ RestartOriginal(o) \/ RolledBack(o)
        \/ StopEverything(o) \/ RollbackFailed(o)
    BY <1>5 DEF ApplyStep
  <2>2. CASE Prepared(o) \/ StopOriginal(o) \/ StartReplacement(o) \/ AwaitReplacement(o)
             \/ VerifyNamespace(o)
    BY <1>0, <1>2, <1>3, <2>2 DEF Prepared, StopOriginal, StartReplacement,
       AwaitReplacement, VerifyNamespace
  <2>3. CASE CommitFails(o)
    <3>1. PICK done : done = [flow[o] EXCEPT !.st = "succeeded"]
      OBVIOUS
    <3>2. done \in FlowRec /\ done.created = flow[o].created
      BY <1>1, <3>1 DEF FlowRec, OpStatus
    <3> QED
      BY <1>0, <1>2, <2>3, <3>1, <3>2, GotoFields DEF CommitFails
  <2>4. CASE BeginRollback(o) \/ DiscardReplacement(o) \/ RestoreName(o)
    BY <1>0, <1>2, <1>3, <2>4 DEF BeginRollback, DiscardReplacement, RestoreName
  <2>5. CASE RestoreOwnership(o) \/ RestartOriginal(o) \/ RolledBack(o)
             \/ StopEverything(o) \/ RollbackFailed(o)
    BY <1>0, <1>2, <1>3, <1>4, <1>5, <2>5 DEF RestoreOwnership, RestartOriginal,
       RolledBack, StopEverything, RollbackFailed
  <2> QED
    BY <1>6, <1>7, <2>1, <2>2, <2>3, <2>4, <2>5

\* So, while a change goes on, its stack stands, and nothing runs in the new
\* namespace that does not belong there.
Upheld(o) == Standing(o) /\ UpAsPlanned(o) /\ Clients(flow[o].created)
AllUpheld ==
  \A o \in Ops : flow[o].pc \notin {"idle", "validate"} => Upheld(o)

\* What is not the work of an operation changes nothing for it.
LEMMA UndisturbedBystands ==
  ASSUME Undisturbed, Bystands
  PROVE  UNCHANGED <<ctr, proj, base, op, flow, clean, locks>>
BY DEF Undisturbed, Bystands, Drift, Fault

\* While a change goes on, only its own steps and a crash change anything.
LEMMA OnlyApply ==
  ASSUME Undisturbed, OneProject, TypeInv, Exclusion, AdoptedFirst, NEW o \in Ops,
         flow[o].pc # "idle", [Next]_vars
  PROVE  \/ ApplyStep(o) \/ Crash
         \/ UNCHANGED <<ctr, proj, base, op, flow, clean, locks>>
<1>1. Busy(o) /\ clean[o].pc = "idle"
  BY DEF Busy, Exclusion, BusyOnce
<1>2. ~CleanupStep(o)
  BY <1>1 DEF CleanupStep, CleanupVet, CleanupCheck, CleanupDelete, CleanupDone
<1> QED
  BY <1>1, <1>2, OnlyWorker, UndisturbedBystands

\* A step of another operation, of the owner or of Docker undoes none of it.
LEMMA StepUpheld ==
  ASSUME Undisturbed, OneProject, TypeInv, Exclusion, Placed, AdoptedFirst,
         AllUpheld, [Next]_vars
  PROVE  AllUpheld'
<1> SUFFICES ASSUME NEW o \in Ops, flow'[o].pc \notin {"idle", "validate"}
             PROVE  Upheld(o)'
  BY DEF AllUpheld
<1>1. flow[o].pc # "idle" /\ o \in Live
  BY FlowBegins, Flowing
<1>2. flow[o].pc # "validate" => Upheld(o)
  BY <1>1 DEF AllUpheld
<1>3. CASE ApplyStep(o)
  <2>1. PICK c : c = flow[o].created
    OBVIOUS
  <2>2. PICK g : g = flow'[o].created
    OBVIOUS
  <2>3. Standing(o) /\ UpAsPlanned(o) /\ Clients(c)
    <3>1. CASE flow[o].pc = "validate"
      <4>1. Valid(o)
        BY <1>3, <3>1, ApplyCreated DEF Prepared
      <4> QED
        BY <2>1, <3>1, <4>1, ValidSnap DEF Clients
    <3> QED
      BY <1>2, <2>1, <3>1 DEF Upheld
  <2>4. g = c \/ (Creates(o) /\ g = Append(c, FreshId))
    BY <1>3, <2>1, <2>2, ApplyCreated
  <2>5. Standing(o)' /\ UpAsPlanned(o)' /\ Clients(g)'
    <3>1. CASE Creates(o)
      BY <2>1, <2>3, <2>4, <3>1, CreatesUphold
    <3>2. CASE ~Creates(o)
      <4>1. Serves(o)
        BY <1>3, <3>2, ApplyHandles
      <4> QED
        BY <1>1, <2>1, <2>3, <2>4, <3>2, <4>1, ServesUphold
    <3> QED
      BY <3>1, <3>2
  <2> QED
    BY <2>2, <2>5 DEF Upheld
<1>4. CASE UNCHANGED <<ctr, proj, base, op, flow, clean, locks>>
  <2>1. Upheld(o)
    BY <1>2, <1>4
  <2>2. \A k : Orig(o, k)' = Orig(o, k)
    BY <1>1, ReadsFixed DEF Exclusion
  <2>3. Snap(o)' = Snap(o) /\ Originals(o)' = Originals(o)
    BY <1>1, ReadsFixed DEF Exclusion
  <2> QED
    BY <1>4, <2>1, <2>2, <2>3 DEF Upheld, Standing, UpAsPlanned, Clients, Exists, Running,
       Dependents
<1>5. ~Crash
  BY DEF Crash, IdleFlow
<1> QED
  BY <1>1, <1>3, <1>4, <1>5, OnlyApply

-----------------------------------------------------------------------------
(* A change goes forward.                                                  *)

Advances == {"stop", "rename", "create", "start", "health", "verify", "commit"}

\* The originals that have been stopped, and those that have been renamed,
\* when an apply is at f.
Before(k) == {j \in Slots : j < k}
StoppedBy(f) == IF f.pc = "stop" THEN {StopSlot(j) : j \in Before(f.k)} ELSE Slots
RenamedBy(f) == IF f.pc = "stop" THEN {}
                ELSE IF f.pc = "rename" THEN Before(f.k) ELSE Slots

OriginalsAside(o, f) ==
  /\ \A j \in StoppedBy(f) : ~Running(Orig(o, j))
  /\ f.renamed = {Orig(o, j) : j \in RenamedBy(f)}
  /\ \A j \in RenamedBy(f) : ctr[Orig(o, j)].name = Backup(o, j)

\* A replacement has its name, and runs if it is to, unless it is just being
\* started.
ReplacedSoFar(o, f) ==
  /\ \A j \in DOMAIN f.created :
       LET i == f.created[j]
       IN /\ Exists(i) /\ ctr[i].name = Snap(o)[j].conf.name
          /\ ~(f.pc = "start" /\ j = f.k) => (Running(i) <=> Wanted(o, j))
          /\ f.pc = "start" /\ j = f.k => Wanted(o, j) /\ ~Running(i)

Forward(o, f) == OriginalsAside(o, f) /\ ReplacedSoFar(o, f)
AllForward ==
  \A o \in Ops : flow[o].pc \in Advances => Forward(o, flow[o])

\* A step of an apply that goes forward, from f to g.
Lists(f, g) == g.created = f.created /\ g.renamed = f.renamed
At(g) == <<g.pc, g.k>>
Advanced(o, f, g) ==
  \/ f.pc = "validate" /\ Valid(o) /\ Interrupts(o) /\ ctr' = ctr
     /\ At(g) = <<"stop", 1>> /\ Lists(f, g)
  \/ /\ f.pc = "stop" /\ At(g) = Then("stop", f.k, <<"rename", 1>>) /\ Lists(f, g)
     /\ IF Snap(o)[StopSlot(f.k)].up
        THEN ctr' = Stopped({Orig(o, StopSlot(f.k))}) ELSE ctr' = ctr
  \/ /\ f.pc = "rename" /\ At(g) = Then("rename", f.k, <<"create", Vpn>>)
     /\ ctr' = Renamed(Orig(o, f.k), Backup(o, f.k))
     /\ g.created = f.created /\ g.renamed = f.renamed \cup {Orig(o, f.k)}
  \/ /\ f.pc = "create" /\ Creates(o)
     /\ At(g) = IF Wanted(o, f.k) THEN <<"start", f.k>> ELSE AfterStart(f.k)
     /\ g.created = Append(f.created, FreshId) /\ g.renamed = f.renamed
  \/ /\ f.pc = "start" /\ At(g) = <<"health", f.k>> /\ Lists(f, g)
     /\ ctr' = Started(f.created[f.k])
  \/ /\ f.pc = "health" /\ At(g) = AfterStart(f.k) /\ Lists(f, g) /\ ctr' = ctr
  \/ /\ f.pc = "verify" /\ At(g) = AfterSlot(f.k) /\ Lists(f, g) /\ ctr' = ctr

\* A step of an apply that leads forward is one of these.
LEMMA AdvancesBy ==
  ASSUME TypeInv, NEW o \in Ops, ApplyStep(o), flow'[o].pc \in Advances
  PROVE  Advanced(o, flow[o], flow'[o])
<1>1. flow \in [Ops -> FlowRec] /\ flow[o] \in FlowRec /\ flow[o].pc # "idle"
  BY ApplyCreated DEF TypeInv, TypeOK, Advances
<1>2. PICK f : f = flow[o]
  OBVIOUS
<1>3. PICK g : g = flow'[o]
  OBVIOUS
<1>4. ASSUME NEW at, Goto(o, flow[o], at)
      PROVE  At(g) = <<at[1], at[2]>> /\ Lists(f, g)
  BY <1>1, <1>2, <1>3, <1>4, GotoFields DEF At, Lists
<1>5. ASSUME NEW at, Goto(o, flow[o], at)
      PROVE  at[1] \in Advances
  BY <1>1, <1>5, GotoFields
<1>6. ~Goto(o, flow[o], Caught) /\ ~Goto(o, flow[o], GiveUp)
  BY <1>5 DEF Caught, GiveUp, Advances
<1>7. ASSUME NEW can, NEW after, NEW at, Await(o, can, after, at, Caught)
      PROVE  can /\ ctr' = after /\ Goto(o, flow[o], at)
  BY <1>6, <1>7 DEF Await
<1>8. ASSUME NEW h \in FlowRec, NEW at, Recorded(o, h, at)
      PROVE  /\ Goto(o, h, at) /\ At(g) = <<at[1], at[2]>>
             /\ g.created = h.created /\ g.renamed = h.renamed
  <2>1. ~Goto(o, h, Caught)
    BY <1>8, GotoFields DEF Caught, Advances
  <2> QED
    BY <1>3, <1>8, <2>1, GotoFields DEF At, Recorded
<1>9. /\ \A loop, k, at : Then(loop, k, at) = <<loop, k + 1>> \/ Then(loop, k, at) = at
      /\ \A k : AfterSlot(k) = <<"create", k + 1>> \/ AfterSlot(k) = <<"commit", 0>>
      /\ \A k : AfterStart(k) = <<"verify", k>> \/ AfterStart(k) = AfterSlot(k)
  BY DEF Then, AfterSlot, AfterStart
<1>10. CASE Prepared(o)
  BY <1>2, <1>3, <1>4, <1>10 DEF Prepared, Advanced
<1>11. CASE StopOriginal(o)
  <2>1. PICK at : at = Then("stop", f.k, <<"rename", 1>>)
    OBVIOUS
  <2>2. f.pc = "stop" /\ Goto(o, flow[o], at)
    BY <1>2, <1>7, <1>11, <2>1 DEF StopOriginal
  <2>3. At(g) = at /\ Lists(f, g)
    BY <1>4, <1>9, <2>1, <2>2
  <2>4. IF Snap(o)[StopSlot(f.k)].up
        THEN ctr' = Stopped({Orig(o, StopSlot(f.k))}) ELSE ctr' = ctr
    BY <1>2, <1>7, <1>11 DEF StopOriginal
  <2> QED
    BY <1>2, <1>3, <2>1, <2>2, <2>3, <2>4 DEF Advanced
<1>12. CASE RenameOriginal(o)
  <2>1. PICK done : done = [flow[o] EXCEPT !.renamed = @ \cup {Orig(o, flow[o].k)}]
    OBVIOUS
  <2>2. /\ done \in FlowRec /\ done.created = f.created
        /\ done.renamed = f.renamed \cup {Orig(o, f.k)}
    <3>1. flow[o].renamed \cup {Orig(o, flow[o].k)} \in SUBSET Ids
      BY <1>1, <1>12, Flowing, OriginalTypes DEF RenameOriginal, Position, Loops
    <3> QED
      BY <1>1, <1>2, <2>1, <3>1 DEF FlowRec
  <2>3. PICK at : at = Then("rename", f.k, <<"create", Vpn>>)
    OBVIOUS
  <2>4. /\ f.pc = "rename" /\ ctr' = Renamed(Orig(o, f.k), Backup(o, f.k))
        /\ Recorded(o, done, at)
    BY <1>2, <1>6, <1>12, <2>1, <2>3 DEF RenameOriginal
  <2>5. At(g) = at /\ g.created = f.created /\ g.renamed = f.renamed \cup {Orig(o, f.k)}
    BY <1>8, <1>9, <2>2, <2>3, <2>4
  <2> QED
    BY <1>2, <1>3, <2>3, <2>4, <2>5 DEF Advanced
<1>13. CASE CreateReplacement(o)
  <2>1. PICK done : done = [flow[o] EXCEPT !.created = Append(@, FreshId)]
    OBVIOUS
  <2>2. PICK at : at = IF Wanted(o, f.k) THEN <<"start", f.k>> ELSE AfterStart(f.k)
    OBVIOUS
  <2>3. Creates(o) /\ Recorded(o, done, at) /\ f.pc = "create"
    BY <1>2, <1>6, <1>13, <2>1, <2>2 DEF CreateReplacement, Creates
  <2>4. /\ done \in FlowRec /\ done.created = Append(f.created, FreshId)
        /\ done.renamed = f.renamed
    <3>1. Append(flow[o].created, FreshId) \in Seq(Ids)
      BY <1>1, <2>3, Flowing DEF Creates, CanCreate, UnusedIds, FreshId
    <3> QED
      BY <1>1, <1>2, <2>1, <3>1 DEF FlowRec
  <2>5. /\ At(g) = at /\ g.created = Append(f.created, FreshId)
        /\ g.renamed = f.renamed
    BY <1>8, <1>9, <2>2, <2>3, <2>4
  <2> QED
    BY <1>2, <1>3, <2>2, <2>3, <2>5 DEF Advanced
<1>14. CASE StartReplacement(o)
  <2>1. PICK at : at = <<"health", f.k>>
    OBVIOUS
  <2>2. f.pc = "start" /\ ctr' = Started(f.created[f.k]) /\ Goto(o, flow[o], at)
    BY <1>2, <1>7, <1>14, <2>1 DEF StartReplacement
  <2>3. At(g) = at /\ Lists(f, g)
    BY <1>4, <2>1, <2>2
  <2> QED
    BY <1>2, <1>3, <2>1, <2>2, <2>3 DEF Advanced
<1>15. CASE AwaitReplacement(o)
  <2>1. PICK at : at = AfterStart(f.k)
    OBVIOUS
  <2>2. f.pc = "health" /\ ctr' = ctr /\ Goto(o, flow[o], at)
    BY <1>2, <1>7, <1>15, <2>1 DEF AwaitReplacement
  <2>3. At(g) = at /\ Lists(f, g)
    BY <1>4, <1>9, <2>1, <2>2
  <2> QED
    BY <1>2, <1>3, <2>1, <2>2, <2>3 DEF Advanced
<1>16. CASE VerifyNamespace(o)
  <2>1. PICK at : at = AfterSlot(f.k)
    OBVIOUS
  <2>2. f.pc = "verify" /\ ctr' = ctr /\ Goto(o, flow[o], at)
    BY <1>2, <1>7, <1>16, <2>1 DEF VerifyNamespace
  <2>3. At(g) = at /\ Lists(f, g)
    BY <1>4, <1>9, <2>1, <2>2
  <2> QED
    BY <1>2, <1>3, <2>1, <2>2, <2>3 DEF Advanced
<1> QED
  <2>1. /\ ~End(o) /\ \A h : ~Conclude(o, h)
    BY <1>1 DEF End, IdleFlow, Conclude, Advances
  <2>2. ~ValidationFails(o) /\ ~NothingToChange(o) /\ ~Commit(o)
    BY <2>1 DEF ValidationFails, NothingToChange, Commit
  <2>3. ~CommitFails(o)
    <3>1. PICK done : done = [flow[o] EXCEPT !.st = "succeeded"]
      OBVIOUS
    <3>2. done \in FlowRec
      BY <1>1, <3>1 DEF FlowRec, OpStatus
    <3>3. ~Goto(o, done, Caught)
      BY <3>2, GotoFields DEF Caught, Advances
    <3> QED
      BY <1>6, <3>1, <3>3 DEF CommitFails
  <2>4. ~BeginRollback(o)
    <3>1. PICK at : at = IF Len(flow[o].created) > 0
                         THEN <<"discard", Len(flow[o].created)>>
                         ELSE <<"rename back", 1>>
      OBVIOUS
    <3>2. at[1] \notin Advances
      BY <3>1 DEF Advances
    <3>3. ~Goto(o, flow[o], at)
      BY <1>5, <3>2
    <3> QED
      BY <1>6, <3>1, <3>3 DEF BeginRollback
  <2>5. ASSUME NEW can, NEW after, NEW at, Await(o, can, after, at, GiveUp)
        PROVE  at[1] \in Advances
    BY <1>5, <1>6, <2>5 DEF Await
  <2>6. ~DiscardReplacement(o)
    <3>1. PICK at : at = IF flow[o].k > 1 THEN <<"discard", flow[o].k - 1>>
                         ELSE <<"rename back", 1>>
      OBVIOUS
    <3>2. at[1] \notin Advances /\ <<"remove", flow[o].k>>[1] \notin Advances
      BY <3>1 DEF Advances
    <3>3. \A can, after : /\ ~Await(o, can, after, at, GiveUp)
                          /\ ~Await(o, can, after, <<"remove", flow[o].k>>, GiveUp)
      BY <2>5, <3>2
    <3> QED
      BY <3>1, <3>3 DEF DiscardReplacement
  <2>7. ~RestoreName(o) /\ ~RestartOriginal(o)
    <3>1. PICK at : at = Then("rename back", flow[o].k, <<"disown", 0>>)
      OBVIOUS
    <3>2. PICK to : to = Then("restart", flow[o].k, <<"restored", 0>>)
      OBVIOUS
    <3>3. /\ at[1] \notin Advances /\ to[1] \notin Advances
          /\ <<"reverify", flow[o].k>>[1] \notin Advances
      <4>1. at[1] = "rename back" \/ at[1] = "disown"
        BY <3>1 DEF Then
      <4>2. to[1] = "restart" \/ to[1] = "restored"
        BY <3>2 DEF Then
      <4> QED
        BY <4>1, <4>2 DEF Advances
    <3>4. /\ ~Goto(o, flow[o], at) /\ ~Goto(o, flow[o], to)
          /\ \A can, after : /\ ~Await(o, can, after, at, GiveUp)
                             /\ ~Await(o, can, after, to, GiveUp)
                             /\ ~Await(o, can, after, <<"reverify", flow[o].k>>, GiveUp)
      BY <1>5, <2>5, <3>3
    <3> QED
      BY <3>1, <3>2, <3>4 DEF RestoreName, RestartOriginal
  <2>8. ~RestoreOwnership(o) /\ ~RolledBack(o) /\ ~StopEverything(o) /\ ~RollbackFailed(o)
    BY <1>5, <1>6, <2>1 DEF RestoreOwnership, RolledBack, StopEverything, RollbackFailed,
       Advances
  <2> QED
    BY <1>10, <1>11, <1>12, <1>13, <1>14, <1>15, <1>16, <2>2, <2>3, <2>4, <2>6, <2>7,
       <2>8 DEF ApplyStep

\* A step of an apply ends it, or leads on, never back to its validation.
Entries == {"idle", "validate"}
Leaves(o) == flow'[o] = IdleFlow \/ flow'[o].pc \notin Entries

\* So no step leads back to the validation.
LEMMA ApplyLeaves ==
  ASSUME TypeInv, NEW o \in Ops, ApplyStep(o)
  PROVE  Leaves(o)
<1>0. flow \in [Ops -> FlowRec] /\ flow[o] \in FlowRec
  BY DEF TypeInv, TypeOK
<1>1. ASSUME NEW f \in FlowRec, NEW at, Goto(o, f, at), at[1] \notin Entries
      PROVE  Leaves(o)
  BY <1>1, GotoFields DEF Leaves
<1>2. ASSUME NEW can, NEW after, NEW at, NEW bad, Await(o, can, after, at, bad),
             at[1] \notin Entries, bad[1] \notin Entries
      PROVE  Leaves(o)
  BY <1>0, <1>1, <1>2 DEF Await
<1>3. Caught[1] \notin Entries /\ GiveUp[1] \notin Entries
  BY DEF Caught, GiveUp, Entries
<1>4. End(o) => Leaves(o)
  BY <1>0 DEF End, Leaves
<1>5. \A loop, k, at : loop \notin Entries /\ at[1] \notin Entries
        => Then(loop, k, at)[1] \notin Entries
  BY DEF Then
<1>6. \A k : AfterSlot(k)[1] \notin Entries /\ AfterStart(k)[1] \notin Entries
  BY DEF AfterSlot, AfterStart, Then, Entries
<1>8. CASE ValidationFails(o) \/ NothingToChange(o) \/ Commit(o)
  BY <1>4, <1>8 DEF ValidationFails, NothingToChange, Commit, Conclude
<1>9. CASE Prepared(o)
  BY <1>0, <1>1, <1>9 DEF Prepared, Entries
<1>10. CASE StopOriginal(o)
  <2>1. PICK at : at = Then("stop", flow[o].k, <<"rename", 1>>)
    OBVIOUS
  <2>2. at[1] \notin Entries
    BY <1>5, <2>1 DEF Entries
  <2> QED
    BY <1>0, <1>1, <1>2, <1>3, <1>10, <2>1, <2>2 DEF StopOriginal
<1>11. CASE RenameOriginal(o)
  <2>1. PICK at : at = Then("rename", flow[o].k, <<"create", Vpn>>)
    OBVIOUS
  <2>2. at[1] \notin Entries
    BY <1>5, <2>1 DEF Entries
  <2>3. PICK done : done = [flow[o] EXCEPT !.renamed = @ \cup {Orig(o, flow[o].k)}]
    OBVIOUS
  <2>4. done \in FlowRec
    <3>1. flow[o].renamed \cup {Orig(o, flow[o].k)} \in SUBSET Ids
      BY <1>11, Flowing, OriginalTypes DEF RenameOriginal, Position, Loops
    <3> QED
      BY <1>0, <2>3, <3>1 DEF FlowRec
  <2>5. \A h \in FlowRec : Recorded(o, h, at) => Leaves(o)
    BY <1>1, <1>3, <2>2 DEF Recorded
  <2> QED
    BY <1>0, <1>1, <1>3, <1>11, <2>1, <2>3, <2>4, <2>5 DEF RenameOriginal
<1>12. CASE CreateReplacement(o)
  <2>1. PICK at : at = IF Wanted(o, flow[o].k) THEN <<"start", flow[o].k>>
                       ELSE AfterStart(flow[o].k)
    OBVIOUS
  <2>2. at[1] \notin Entries
    BY <1>6, <2>1 DEF Entries
  <2>3. PICK done : done = [flow[o] EXCEPT !.created = Append(@, FreshId)]
    OBVIOUS
  <2>4. ASSUME CanCreate(Snap(o)[flow[o].k].conf.name)
        PROVE  done \in FlowRec
    <3>1. Append(flow[o].created, FreshId) \in Seq(Ids)
      BY <1>12, <2>4, Flowing DEF CreateReplacement, CanCreate, UnusedIds, FreshId
    <3> QED
      BY <1>0, <2>3, <3>1 DEF FlowRec
  <2>5. \A h \in FlowRec : Recorded(o, h, at) => Leaves(o)
    BY <1>1, <1>3, <2>2 DEF Recorded
  <2> QED
    BY <1>0, <1>1, <1>3, <1>12, <2>1, <2>3, <2>4, <2>5 DEF CreateReplacement
<1>13. CASE StartReplacement(o) \/ AwaitReplacement(o) \/ VerifyNamespace(o)
  <2>1. PICK a, b, c : /\ a = <<"health", flow[o].k>>
                       /\ b = AfterStart(flow[o].k) /\ c = AfterSlot(flow[o].k)
    OBVIOUS
  <2>2. a[1] \notin Entries /\ b[1] \notin Entries /\ c[1] \notin Entries
    BY <1>6, <2>1 DEF Entries
  <2> QED
    BY <1>2, <1>3, <1>13, <2>1, <2>2 DEF StartReplacement, AwaitReplacement, VerifyNamespace
<1>14. CASE CommitFails(o)
  <2>1. PICK done : done = [flow[o] EXCEPT !.st = "succeeded"]
    OBVIOUS
  <2>2. done \in FlowRec
    BY <1>0, <2>1 DEF FlowRec, OpStatus
  <2> QED
    BY <1>0, <1>1, <1>3, <1>14, <2>1, <2>2 DEF CommitFails
<1>15. CASE BeginRollback(o)
  <2>1. PICK at : at = IF Len(flow[o].created) > 0
                       THEN <<"discard", Len(flow[o].created)>>
                       ELSE <<"rename back", 1>>
    OBVIOUS
  <2>2. at[1] \notin Entries
    BY <2>1 DEF Entries
  <2> QED
    BY <1>0, <1>1, <1>3, <1>15, <2>1, <2>2 DEF BeginRollback
<1>16. CASE DiscardReplacement(o)
  <2>1. PICK at, to : /\ at = (IF flow[o].k > 1 THEN <<"discard", flow[o].k - 1>>
                               ELSE <<"rename back", 1>>)
                      /\ to = <<"remove", flow[o].k>>
    OBVIOUS
  <2>2. at[1] \notin Entries /\ to[1] \notin Entries
    BY <2>1 DEF Entries
  <2> QED
    BY <1>2, <1>3, <1>16, <2>1, <2>2 DEF DiscardReplacement
<1>17. CASE RestoreName(o) \/ RestartOriginal(o)
  <2>1. PICK a, b, c : /\ a = Then("rename back", flow[o].k, <<"disown", 0>>)
                       /\ b = Then("restart", flow[o].k, <<"restored", 0>>)
                       /\ c = <<"reverify", flow[o].k>>
    OBVIOUS
  <2>2. a[1] \notin Entries /\ b[1] \notin Entries /\ c[1] \notin Entries
    BY <1>5, <2>1 DEF Entries
  <2> QED
    BY <1>0, <1>1, <1>2, <1>3, <1>17, <2>1, <2>2 DEF RestoreName, RestartOriginal
<1>18. CASE RestoreOwnership(o) \/ RolledBack(o) \/ StopEverything(o) \/ RollbackFailed(o)
  <2>1. PICK a, b : a = <<"restart", 1>> /\ b = <<"failed", 0>>
    OBVIOUS
  <2>2. a[1] \notin Entries /\ b[1] \notin Entries
    BY <2>1 DEF Entries
  <2> QED
    BY <1>0, <1>1, <1>3, <1>4, <1>18, <2>1, <2>2 DEF RestoreOwnership, RolledBack,
       StopEverything, RollbackFailed, Conclude
<1> QED
  BY <1>8, <1>9, <1>10, <1>11, <1>12, <1>13, <1>14, <1>15, <1>16, <1>17, <1>18
  DEF ApplyStep

\* The slots before one, and the order in which services are stopped.
LEMMA SlotsBefore ==
  /\ Before(1) = {}
  /\ \A k \in Slots : /\ k < Size => Before(k + 1) = Before(k) \cup {k}
                      /\ ~(k < Size) => Slots = Before(k) \cup {k}
                      /\ Before(k) \subseteq Slots /\ k \notin Before(k)
                      /\ StopSlot(k) \in Slots
  /\ \A j \in Slots : \E i \in Slots : StopSlot(i) = j
<1>1. /\ Before(1) = {}
      /\ \A k \in Slots : /\ k < Size => Before(k + 1) = Before(k) \cup {k}
                          /\ ~(k < Size) => Slots = Before(k) \cup {k}
                          /\ Before(k) \subseteq Slots /\ k \notin Before(k)
  BY SlotFacts DEF Slots, Before
<1>2. \A j \in Slots : StopSlot(j) \in Slots
  BY SlotMoves
<1>3. \A j \in Slots : \E i \in Slots : StopSlot(i) = j
  BY StopOrder, SlotFacts
<1> QED
  BY <1>1, <1>2, <1>3

\* Where a step forward leads.
LEMMA AdvanceSets ==
  ASSUME NEW o, NEW f, NEW g, Advanced(o, f, g), f.pc # "validate" => f.k \in Slots
  PROVE  /\ f.pc = "validate" => StoppedBy(g) = {} /\ RenamedBy(g) = {}
         /\ f.pc = "stop" => /\ StoppedBy(g) \subseteq StoppedBy(f) \cup {StopSlot(f.k)}
                             /\ RenamedBy(g) = {} /\ RenamedBy(f) = {}
         /\ f.pc = "rename" => /\ StoppedBy(g) = Slots /\ StoppedBy(f) = Slots
                               /\ RenamedBy(g) = RenamedBy(f) \cup {f.k}
                               /\ f.k \notin RenamedBy(f)
         /\ f.pc \notin {"validate", "stop", "rename"} =>
              /\ StoppedBy(g) = Slots /\ StoppedBy(f) = Slots
              /\ RenamedBy(g) = Slots /\ RenamedBy(f) = Slots
         /\ f.pc = "create" /\ Wanted(o, f.k) => g.pc = "start" /\ g.k = f.k
         /\ ~(f.pc = "create" /\ Wanted(o, f.k)) => g.pc # "start"
<1>0. \A x, y : At(g) = <<x, y>> => g.pc = x /\ g.k = y
  BY DEF At
<1>1. CASE f.pc = "validate"
  <2>1. g.pc = "stop" /\ g.k = 1
    BY <1>0, <1>1 DEF Advanced
  <2> QED
    BY <1>1, <2>1, SlotsBefore DEF StoppedBy, RenamedBy
<1>2. CASE f.pc = "stop"
  <2>1. At(g) = Then("stop", f.k, <<"rename", 1>>)
    BY <1>2 DEF Advanced
  <2>2. CASE f.k < Size
    <3>1. g.pc = "stop" /\ g.k = f.k + 1
      BY <1>0, <2>1, <2>2 DEF Then
    <3> QED
      BY <1>2, <2>2, <3>1, SlotsBefore DEF StoppedBy, RenamedBy
  <2>3. CASE ~(f.k < Size)
    <3>1. g.pc = "rename" /\ g.k = 1
      BY <1>0, <2>1, <2>3 DEF Then
    <3>2. Slots \subseteq StoppedBy(f) \cup {StopSlot(f.k)}
      BY <1>2, <2>3, SlotsBefore DEF StoppedBy
    <3> QED
      BY <1>2, <3>1, <3>2, SlotsBefore DEF StoppedBy, RenamedBy
  <2> QED
    BY <2>2, <2>3
<1>3. CASE f.pc = "rename"
  <2>1. At(g) = Then("rename", f.k, <<"create", Vpn>>)
    BY <1>3 DEF Advanced
  <2>2. CASE f.k < Size
    <3>1. g.pc = "rename" /\ g.k = f.k + 1
      BY <1>0, <2>1, <2>2 DEF Then
    <3> QED
      BY <1>3, <2>2, <3>1, SlotsBefore DEF StoppedBy, RenamedBy
  <2>3. CASE ~(f.k < Size)
    <3>1. g.pc = "create"
      BY <1>0, <2>1, <2>3 DEF Then
    <3> QED
      BY <1>3, <2>3, <3>1, SlotsBefore DEF StoppedBy, RenamedBy
  <2> QED
    BY <2>2, <2>3
<1>4. CASE f.pc \notin {"validate", "stop", "rename"}
  <2>1. g.pc \in {"verify", "create", "commit", "start", "health"}
    BY <1>0, <1>4 DEF Advanced, AfterStart, AfterSlot, Then
  <2>2. f.pc = "create" /\ Wanted(o, f.k) => g.pc = "start" /\ g.k = f.k
    BY <1>0, <1>4 DEF Advanced
  <2>3. ~(f.pc = "create" /\ Wanted(o, f.k)) => g.pc # "start"
    BY <1>0, <1>4 DEF Advanced, AfterStart, AfterSlot, Then
  <2> QED
    BY <1>4, <2>1, <2>2, <2>3 DEF StoppedBy, RenamedBy
<1> QED
  BY <1>1, <1>2, <1>3, <1>4

\* What a step of Docker changes of a container that it starts, stops or
\* renames, and of the others.
LEMMA DockerMoves ==
  ASSUME TypeInv
  PROVE  /\ \A i, j \in Ids : ctr' = Stopped({i}) =>
              /\ ctr'[j].name = ctr[j].name
              /\ ctr'[j].st = IF j = i THEN "stopped" ELSE ctr[j].st
         /\ \A i, j \in Ids : ctr' = Started(i) =>
              /\ ctr'[j].name = ctr[j].name
              /\ ctr'[j].st = IF j = i THEN "running" ELSE ctr[j].st
         /\ \A i, j \in Ids : ctr' = RemovedC(i) =>
              /\ ctr'[j].name = ctr[j].name
              /\ ctr'[j].st = IF j = i THEN "removed" ELSE ctr[j].st
         /\ \A i, j \in Ids, n \in Names : ctr' = Renamed(i, n) =>
              /\ ctr'[j].st = ctr[j].st
              /\ ctr'[j].name = IF j = i THEN n ELSE ctr[j].name
<1>1. ctr \in [Ids -> Containers] /\ \A i \in Ids : ctr[i] \in Containers
  BY OldTypes
<1> DEFINE to(i, s) == [ctr[i] EXCEPT !.st = s]
           as(i, n) == [ctr[i] EXCEPT !.name = n]
<1>2. \A i \in Ids : \A s : to(i, s).st = s /\ to(i, s).name = ctr[i].name
  BY <1>1 DEF Containers
<1>3. \A i \in Ids, n \in Names : as(i, n).st = ctr[i].st /\ as(i, n).name = n
  BY <1>1 DEF Containers
<1>4. /\ \A i, j \in Ids : Stopped({i})[j] = IF j = i THEN to(j, "stopped") ELSE ctr[j]
      /\ \A i, j \in Ids : Started(i)[j] = IF j = i THEN to(j, "running") ELSE ctr[j]
      /\ \A i, j \in Ids : RemovedC(i)[j] = IF j = i THEN to(j, "removed") ELSE ctr[j]
      /\ \A i, j \in Ids, n \in Names : Renamed(i, n)[j] = IF j = i THEN as(j, n) ELSE ctr[j]
  BY <1>1 DEF Stopped, Started, RemovedC, Renamed
<1> HIDE DEF to, as
<1>5. ASSUME NEW i \in Ids, NEW j \in Ids, ctr' = Stopped({i})
      PROVE  /\ ctr'[j].name = ctr[j].name
             /\ ctr'[j].st = IF j = i THEN "stopped" ELSE ctr[j].st
  BY <1>2, <1>4, <1>5
<1>6. ASSUME NEW i \in Ids, NEW j \in Ids, ctr' = Started(i)
      PROVE  /\ ctr'[j].name = ctr[j].name
             /\ ctr'[j].st = IF j = i THEN "running" ELSE ctr[j].st
  BY <1>2, <1>4, <1>6
<1>7. ASSUME NEW i \in Ids, NEW j \in Ids, ctr' = RemovedC(i)
      PROVE  /\ ctr'[j].name = ctr[j].name
             /\ ctr'[j].st = IF j = i THEN "removed" ELSE ctr[j].st
  BY <1>2, <1>4, <1>7
<1>8. ASSUME NEW i \in Ids, NEW j \in Ids, NEW n \in Names, ctr' = Renamed(i, n)
      PROVE  /\ ctr'[j].st = ctr[j].st
             /\ ctr'[j].name = IF j = i THEN n ELSE ctr[j].name
  <2>1. ctr'[j] = IF j = i THEN as(j, n) ELSE ctr[j]
    BY <1>4, <1>8
  <2> QED
    BY <1>3, <2>1
<1> QED
  BY <1>5, <1>6, <1>7, <1>8

\* No container is two of those an apply works on.
LEMMA ReplacementsPlaced ==
  ASSUME TypeInv, Placed, NEW o \in Ops, flow[o].pc # "idle"
  PROVE  LET c == flow[o].created
         IN /\ DOMAIN c = 1..Len(c) /\ Len(c) \in Nat /\ DOMAIN c \subseteq Slots
            /\ \A j \in DOMAIN c : c[j] \in Ids /\ Used(c[j])
            /\ \A j \in DOMAIN c : ctr[c[j]].ns = NsOf(j, c[Vpn])
            /\ \A j \in DOMAIN c, k \in Slots : c[j] # Orig(o, k)
            /\ \A j, k \in DOMAIN c : c[j] = c[k] => j = k
            /\ \A j, k \in Slots : Orig(o, j) = Orig(o, k) => j = k
<1>0. PICK c : c = flow[o].created
  OBVIOUS
<1>1. /\ o \in Live /\ c \in Seq(Ids) /\ Len(c) \in Nat /\ Len(c) <= Size
      /\ DOMAIN c = 1..Len(c)
  BY <1>0, Flowing
<1>2. DOMAIN c \subseteq Slots
  BY <1>1, SlotFacts DEF Slots
<1>3. Replaces(o, c, flow[o].renamed)
  BY <1>0, <1>1 DEF Placed, ChangesPlaced
<1>4. \A j \in DOMAIN c : /\ c[j] \in Ids /\ Used(c[j]) /\ ctr[c[j]].name.slot = j
                          /\ ctr[c[j]].ns = NsOf(j, c[Vpn]) /\ c[j] \in Members(c)
  BY <1>1, <1>3 DEF Replaces, Shaped, Members
<1>5. \A k \in Slots : Orig(o, k) \in Members(Originals(o))
  BY DEF Members, Originals
<1>6. \A j, k \in Slots : Orig(o, j) = Orig(o, k) => j = k
  BY <1>1, OriginalsPlaced
<1>7. \A j \in DOMAIN c, k \in Slots : c[j] # Orig(o, k)
  BY <1>3, <1>4, <1>5 DEF Replaces
<1>8. \A j, k \in DOMAIN c : c[j] = c[k] => j = k
  BY <1>4
<1> QED
  BY <1>0, <1>1, <1>2, <1>4, <1>6, <1>7, <1>8

\* A step forward leaves behind what it says.
LEMMA AdvanceKeeps ==
  ASSUME TypeInv, Placed, NEW o \in Ops, flow[o].pc # "idle",
         NEW f, f = flow[o], NEW g, Advanced(o, f, g),
         f.pc = "validate" => f.renamed = {},
         f.pc # "validate" => Forward(o, f) /\ UpAsPlanned(o)
  PROVE  /\ \A j \in StoppedBy(g) : ctr'[Orig(o, j)].st # "running"
         /\ g.renamed = {Orig(o, j) : j \in RenamedBy(g)}
         /\ \A j \in RenamedBy(g) : ctr'[Orig(o, j)].name = Backup(o, j)
         /\ \A j \in DOMAIN g.created :
              LET i == g.created[j]
              IN /\ ctr'[i].st \in {"stopped", "running"}
                 /\ ctr'[i].name = Snap(o)[j].conf.name
                 /\ ~(g.pc = "start" /\ j = g.k) =>
                      (ctr'[i].st = "running" <=> Wanted(o, j))
                 /\ g.pc = "start" /\ j = g.k =>
                      Wanted(o, j) /\ ctr'[i].st # "running"
<1>0. PICK c : c = f.created
  OBVIOUS
<1>1. /\ DOMAIN c = 1..Len(c) /\ Len(c) \in Nat /\ DOMAIN c \subseteq Slots
      /\ \A j \in DOMAIN c : c[j] \in Ids /\ Used(c[j])
      /\ \A j \in DOMAIN c, k \in Slots : c[j] # Orig(o, k)
      /\ \A j, k \in DOMAIN c : c[j] = c[k] => j = k
      /\ \A j, k \in Slots : Orig(o, j) = Orig(o, k) => j = k
      /\ \A k \in Slots : Orig(o, k) \in Ids /\ Used(Orig(o, k))
      /\ o \in Live /\ c \in Seq(Ids)
  <2>1. c = flow[o].created /\ o \in Live /\ c \in Seq(Ids)
    BY <1>0, Flowing
  <2>2. \A k \in Slots : Orig(o, k) \in Ids /\ Used(Orig(o, k))
    BY <2>1, OriginalsPlaced
  <2> QED
    BY <2>1, <2>2, ReplacementsPlaced
<1>2. f.pc # "validate" => f.k \in Slots
  <2>1. f.pc # "validate" => f.pc \in Loops
    BY DEF Advanced, Creates, Loops
  <2> QED
    BY <2>1, Flowing DEF Position
<1>3. StoppedBy(g) \subseteq Slots /\ RenamedBy(g) \subseteq Slots
      /\ (f.pc # "validate" => RenamedBy(f) \subseteq Slots /\ StoppedBy(f) \subseteq Slots)
  BY <1>2, AdvanceSets, SlotsBefore DEF StoppedBy, RenamedBy
<1>4. CASE f.pc = "validate"
  <2>1. c = <<>> /\ g.created = c /\ g.renamed = {}
    <3>1. Len(c) = 0
      BY <1>0, <1>4, Flowing DEF Position
    <3> QED
      BY <1>0, <1>1, <1>4, <3>1 DEF Advanced, Lists
  <2> QED
    BY <1>4, <2>1, AdvanceSets
<1>5. CASE f.pc = "stop"
  <2>1. PICK i : i = Orig(o, StopSlot(f.k))
    OBVIOUS
  <2>2. i \in Ids /\ StopSlot(f.k) \in Slots /\ Forward(o, f) /\ UpAsPlanned(o)
    BY <1>1, <1>2, <1>5, <2>1, SlotsBefore
  <2>3. Lists(f, g) /\ (ctr' = Stopped({i}) \/ (ctr' = ctr /\ ~Running(i)))
    BY <1>5, <2>1, <2>2 DEF Advanced, UpAsPlanned
  <2>4. \A j \in Ids : /\ ctr'[j].name = ctr[j].name
                       /\ j # i => ctr'[j].st = ctr[j].st
                       /\ j = i => ctr'[j].st # "running"
    BY <2>2, <2>3, DockerMoves DEF Running
  <2>5. c = <<>> /\ g.created = c
    <3>1. Len(c) = 0
      BY <1>0, <1>5, Flowing DEF Position
    <3> QED
      BY <1>0, <1>1, <1>5, <3>1 DEF Advanced, Lists
  <2>6. \A j \in StoppedBy(g) : ctr'[Orig(o, j)].st # "running"
    BY <1>1, <1>2, <1>3, <1>5, <2>1, <2>2, <2>4, AdvanceSets
    DEF Forward, OriginalsAside, Running
  <2>7. g.renamed = {} /\ RenamedBy(g) = {}
    <3>1. RenamedBy(g) = {} /\ RenamedBy(f) = {}
      BY <1>2, <1>5, AdvanceSets
    <3>2. f.renamed = {}
      BY <2>2, <3>1 DEF Forward, OriginalsAside
    <3>3. g.renamed = f.renamed
      BY <2>3 DEF Lists
    <3> QED
      BY <3>1, <3>2, <3>3
  <2> QED
    BY <2>5, <2>6, <2>7
<1>6. CASE f.pc = "rename"
  <2>1. PICK i : i = Orig(o, f.k)
    OBVIOUS
  <2>2. /\ i \in Ids /\ f.k \in Slots /\ Forward(o, f)
        /\ ctr' = Renamed(i, Backup(o, f.k))
        /\ g.created = f.created /\ g.renamed = f.renamed \cup {i}
    BY <1>1, <1>2, <1>6, <2>1 DEF Advanced
  <2>3. \A j \in Ids : /\ ctr'[j].st = ctr[j].st
                       /\ j # i => ctr'[j].name = ctr[j].name
                       /\ j = i => ctr'[j].name = Backup(o, f.k)
    <3>1. Backup(o, f.k) \in Names
      BY <1>1, <2>2, OriginalsPlaced
    <3> QED
      BY <2>2, <3>1, DockerMoves
  <2>4. c = <<>> /\ g.created = c
    <3>1. Len(c) = 0
      BY <1>0, <1>6, Flowing DEF Position
    <3> QED
      BY <1>0, <1>1, <2>2, <3>1
  <2>5. RenamedBy(g) = RenamedBy(f) \cup {f.k} /\ StoppedBy(g) = Slots /\ StoppedBy(f) = Slots
    BY <1>2, <1>6, AdvanceSets
  <2>6. \A j \in StoppedBy(g) : ctr'[Orig(o, j)].st # "running"
    BY <1>1, <2>2, <2>3, <2>5 DEF Forward, OriginalsAside, Running
  <2>7. g.renamed = {Orig(o, j) : j \in RenamedBy(g)}
    BY <2>1, <2>2, <2>5 DEF Forward, OriginalsAside
  <2>8. \A j \in RenamedBy(g) : ctr'[Orig(o, j)].name = Backup(o, j)
    BY <1>1, <1>3, <2>1, <2>2, <2>3, <2>5 DEF Forward, OriginalsAside
  <2> QED
    BY <2>4, <2>6, <2>7, <2>8
<1>7. ASSUME f.pc \notin {"validate", "stop", "rename"}
      PROVE  /\ Forward(o, f) /\ f.k \in Slots
             /\ StoppedBy(g) = Slots /\ RenamedBy(g) = Slots
             /\ \A j \in Slots : /\ ctr[Orig(o, j)].st # "running"
                                 /\ ctr[Orig(o, j)].name = Backup(o, j)
             /\ f.renamed = {Orig(o, j) : j \in Slots}
             /\ \A j \in DOMAIN c :
                  /\ ctr[c[j]].st \in {"stopped", "running"}
                  /\ ctr[c[j]].name = Snap(o)[j].conf.name
                  /\ ~(f.pc = "start" /\ j = f.k) =>
                       (ctr[c[j]].st = "running" <=> Wanted(o, j))
                  /\ f.pc = "start" /\ j = f.k => Wanted(o, j)
  BY <1>0, <1>2, <1>7, AdvanceSets
  DEF Forward, OriginalsAside, ReplacedSoFar, Running, Exists
<1>8. CASE f.pc = "create"
  <2>1. PICK i : i = FreshId
    OBVIOUS
  <2>2. /\ Creates(o) /\ g.created = Append(c, i) /\ g.renamed = f.renamed
        /\ i \in Ids /\ ~Used(i) /\ Len(c) = f.k - 1
        /\ \A j \in Ids \ {i} : ctr'[j] = ctr[j]
        /\ ctr'[i].st = "stopped" /\ ctr'[i].name = Snap(o)[f.k].conf.name
    BY <1>0, <1>8, <2>1, CreatedPlace DEF Advanced
  <2>3. \A j \in Slots : Orig(o, j) # i
    BY <1>1, <2>2
  <2>4. /\ DOMAIN g.created = DOMAIN c \cup {f.k} /\ f.k \notin DOMAIN c
        /\ g.created[f.k] = i /\ \A j \in DOMAIN c : g.created[j] = c[j]
    <3>1. f.k = Len(c) + 1
      <4>1. \A m \in Slots : \A n : n = m - 1 => m = n + 1
        BY SlotFacts
      <4> QED
        BY <1>7, <1>8, <2>2, <4>1
    <3> QED
      BY <1>1, <2>2, <3>1
  <2>5. \A j \in DOMAIN c : c[j] # i
    BY <1>1, <2>2
  <2>6. /\ Wanted(o, f.k) => g.pc = "start" /\ g.k = f.k
        /\ ~Wanted(o, f.k) => g.pc # "start"
    BY <1>2, <1>8, AdvanceSets
  <2>7. ASSUME NEW j \in DOMAIN c
        PROVE  /\ ctr'[g.created[j]].st \in {"stopped", "running"}
               /\ ctr'[g.created[j]].name = Snap(o)[j].conf.name
               /\ ctr'[g.created[j]].st = "running" <=> Wanted(o, j)
               /\ j # f.k
    BY <1>1, <1>7, <1>8, <2>2, <2>4, <2>5
  <2>8. /\ ctr'[g.created[f.k]].st = "stopped"
        /\ ctr'[g.created[f.k]].name = Snap(o)[f.k].conf.name
    BY <2>2, <2>4
  <2>9. \A j \in Slots : ctr'[Orig(o, j)] = ctr[Orig(o, j)]
    BY <1>1, <2>2, <2>3
  <2> QED
    BY <1>7, <1>8, <2>2, <2>4, <2>6, <2>7, <2>8, <2>9
<1>9. CASE f.pc = "start"
  <2>1. PICK i : i = c[f.k]
    OBVIOUS
  <2>2. f.k \in DOMAIN c /\ i \in Ids
    <3>1. Len(c) = f.k
      BY <1>0, <1>9, Flowing DEF Position
    <3> QED
      BY <1>1, <1>2, <1>9, <2>1, <3>1, SlotFacts
  <2>3. ctr' = Started(i) /\ g.created = c /\ g.renamed = f.renamed
    BY <1>0, <1>9, <2>1 DEF Advanced, Lists
  <2>4. \A j \in Ids : /\ ctr'[j].name = ctr[j].name
                       /\ j # i => ctr'[j].st = ctr[j].st
                       /\ j = i => ctr'[j].st = "running"
    BY <2>2, <2>3, DockerMoves
  <2>5. g.pc # "start"
    BY <1>2, <1>9, AdvanceSets
  <2> QED
    BY <1>1, <1>7, <1>9, <2>1, <2>2, <2>3, <2>4, <2>5
<1>10. CASE f.pc \in {"health", "verify"}
  <2>1. ctr' = ctr /\ g.created = c /\ g.renamed = f.renamed
    BY <1>0, <1>10 DEF Advanced, Lists
  <2>2. g.pc # "start"
    BY <1>2, <1>10, AdvanceSets
  <2> QED
    BY <1>7, <1>10, <2>1, <2>2
<1> QED
  BY <1>4, <1>5, <1>6, <1>8, <1>9, <1>10 DEF Advanced

\* Before anything is changed nothing is renamed, and what has ended is gone.
FlowsBare ==
  \A o \in Ops : /\ flow[o].pc = "validate" => flow[o].renamed = {}
                 /\ flow[o].pc = "idle" => flow[o] = IdleFlow

\* Only a validated change renames.
LEMMA StepBare ==
  ASSUME Undisturbed, OneProject, TypeInv, Exclusion, AdoptedFirst, FlowsBare,
         [Next]_vars
  PROVE  FlowsBare'
<1> SUFFICES ASSUME NEW o \in Ops
             PROVE  /\ flow'[o].pc = "validate" => flow'[o].renamed = {}
                    /\ flow'[o].pc = "idle" => flow'[o] = IdleFlow
  BY DEF FlowsBare
<1>1. CASE flow[o].pc = "idle"
  BY <1>1, FlowBegins DEF FlowsBare
<1>2. CASE flow[o].pc # "idle"
  <2>1. CASE Crash
    BY <2>1 DEF Crash, IdleFlow
  <2>2. CASE ApplyStep(o)
    BY <2>2, ApplyLeaves DEF Leaves, Entries, IdleFlow
  <2>3. CASE flow' = flow
    BY <2>3 DEF FlowsBare
  <2> QED
    BY <1>2, <2>1, <2>2, <2>3, OnlyApply
<1> QED
  BY <1>1, <1>2

\* Every step keeps it.
LEMMA StepForward ==
  ASSUME Undisturbed, OneProject, TypeInv, Exclusion, Placed, AdoptedFirst,
         AllUpheld, FlowsBare, AllForward, [Next]_vars
  PROVE  AllForward'
<1> SUFFICES ASSUME NEW o \in Ops, flow'[o].pc \in Advances
             PROVE  Forward(o, flow[o])'
  BY DEF AllForward
<1>1. flow[o].pc # "idle" /\ o \in Live
  BY FlowBegins, Flowing DEF Advances
<1>2. /\ \A k : Orig(o, k)' = Orig(o, k)
      /\ Snap(o)' = Snap(o)
      /\ \A k : Backup(o, k)' = Backup(o, k)
  BY <1>1, ReadsFixed DEF Exclusion
<1>3. PICK f : f = flow[o]
  OBVIOUS
<1>4. PICK g : g = flow'[o]
  OBVIOUS
<1>5. SUFFICES Forward(o, g)'
  BY <1>4 DEF Forward, OriginalsAside, ReplacedSoFar, StoppedBy, RenamedBy
<1>6. CASE ApplyStep(o)
  <2>1. Advanced(o, f, g)
    BY <1>3, <1>4, <1>6, AdvancesBy
  <2>2. f.pc # "validate" => f.pc \in Advances
    BY <2>1 DEF Advanced, Advances
  <2>3. f.pc # "validate" => Forward(o, f) /\ UpAsPlanned(o)
    BY <1>1, <1>3, <2>2 DEF AllForward, AllUpheld, Upheld
  <2>4. f.pc = "validate" => f.renamed = {}
    BY <1>3 DEF FlowsBare
  <2>5. /\ \A j \in StoppedBy(g) : ctr'[Orig(o, j)].st # "running"
        /\ g.renamed = {Orig(o, j) : j \in RenamedBy(g)}
        /\ \A j \in RenamedBy(g) : ctr'[Orig(o, j)].name = Backup(o, j)
        /\ \A j \in DOMAIN g.created :
              LET i == g.created[j]
              IN /\ ctr'[i].st \in {"stopped", "running"}
                 /\ ctr'[i].name = Snap(o)[j].conf.name
                 /\ ~(g.pc = "start" /\ j = g.k) =>
                      (ctr'[i].st = "running" <=> Wanted(o, j))
                 /\ g.pc = "start" /\ j = g.k =>
                      Wanted(o, j) /\ ctr'[i].st # "running"
    BY <1>1, <1>3, <2>1, <2>3, <2>4, AdvanceKeeps
  <2>6. \A j : Wanted(o, j)' = Wanted(o, j)
    BY <1>2 DEF Wanted
  <2>7. OriginalsAside(o, g)'
    BY <1>2, <2>5 DEF OriginalsAside, StoppedBy, RenamedBy, Running
  <2>8. ReplacedSoFar(o, g)'
    BY <1>2, <2>5, <2>6 DEF ReplacedSoFar, Running, Exists
  <2> QED
    BY <2>7, <2>8 DEF Forward
<1>7. CASE UNCHANGED <<ctr, proj, base, op, flow, clean, locks>>
  <2>1. Forward(o, g)
    BY <1>4, <1>7 DEF AllForward
  <2>2. \A j : Wanted(o, j)' = Wanted(o, j)
    BY <1>2 DEF Wanted
  <2>3. OriginalsAside(o, g)'
    BY <1>2, <1>7, <2>1 DEF Forward, OriginalsAside, StoppedBy, RenamedBy, Running
  <2>4. ReplacedSoFar(o, g)'
    BY <1>2, <1>7, <2>1, <2>2 DEF Forward, ReplacedSoFar, Running, Exists
  <2> QED
    BY <2>3, <2>4 DEF Forward
<1>8. ~Crash
  BY DEF Crash, IdleFlow, Advances
<1> QED
  BY <1>1, <1>6, <1>7, <1>8, OnlyApply

-----------------------------------------------------------------------------
(* How a change ends.                                                      *)

\* An apply ends in one of four places (engine.ts:437, 442-446, 447-474, 489).
LEMMA EndsBy ==
  ASSUME TypeInv, JournalTrue, Journalled, NEW o \in Ops, ApplyStep(o),
         op'[o].st # "applying"
  PROVE  \/ op'[o].st = "succeeded" /\ (NothingToChange(o) \/ Commit(o))
         \/ op'[o].st = "rolled_back" /\ (ValidationFails(o) \/ RolledBack(o))
         \/ op'[o].st = "rollback_failed" /\ RollbackFailed(o)
<1>1. /\ flow \in [Ops -> FlowRec] /\ flow[o] \in FlowRec /\ flow[o].pc # "idle"
      /\ flow[o].st = "applying" /\ op[o].st = "applying"
  <2>1. flow[o].pc # "idle"
    BY DEF ApplyStep, ValidationFails, NothingToChange, Prepared, StopOriginal,
       RenameOriginal, CreateReplacement, StartReplacement, AwaitReplacement,
       VerifyNamespace, Commit, CommitFails, BeginRollback,
       DiscardReplacement, RestoreName, RestoreOwnership, RestartOriginal,
       RolledBack, StopEverything, RollbackFailed
  <2> QED
    BY <2>1 DEF TypeInv, TypeOK, JournalTrue
<1>2. op' # op
  BY <1>1
<1>3. \A g : op' = Journal(o, g) => op'[o].st = g.st
  BY JournalFields
<1>4. ASSUME NEW st
      PROVE  /\ op' = Journal(o, [flow[o] EXCEPT !.st = st]) => op'[o].st = st
             /\ Conclude(o, [flow[o] EXCEPT !.st = st]) => op'[o].st = st
  <2>1. [flow[o] EXCEPT !.st = st].st = st
    BY <1>1 DEF FlowRec
  <2> QED
    BY <1>3, <2>1 DEF Conclude
<1>5. ~RenameOriginal(o)
  <2>1. PICK done : done = [flow[o] EXCEPT !.renamed = @ \cup {Orig(o, flow[o].k)}]
    OBVIOUS
  <2>2. done.st = "applying"
    BY <1>1, <2>1 DEF FlowRec
  <2>3. \A at : ~Recorded(o, done, at)
    BY <1>2, <1>3, <2>2 DEF Recorded
  <2> QED
    BY <1>2, <2>1, <2>3 DEF RenameOriginal
<1>6. ~CreateReplacement(o)
  <2>1. PICK done : done = [flow[o] EXCEPT !.created = Append(@, FreshId)]
    OBVIOUS
  <2>2. done.st = "applying"
    BY <1>1, <2>1 DEF FlowRec
  <2>3. \A at : ~Recorded(o, done, at)
    BY <1>2, <1>3, <2>2 DEF Recorded
  <2> QED
    BY <1>2, <2>1, <2>3 DEF CreateReplacement
<1>7. ~BeginRollback(o)
  BY <1>1, <1>2, <1>3 DEF BeginRollback
<1>8. /\ ~Prepared(o) /\ ~StopOriginal(o) /\ ~StartReplacement(o) /\ ~AwaitReplacement(o)
      /\ ~VerifyNamespace(o) /\ ~CommitFails(o) /\ ~DiscardReplacement(o)
      /\ ~RestoreName(o) /\ ~RestoreOwnership(o) /\ ~RestartOriginal(o)
      /\ ~StopEverything(o)
  BY <1>2 DEF Prepared, StopOriginal, StartReplacement, AwaitReplacement,
     VerifyNamespace, CommitFails, DiscardReplacement, RestoreName, RestoreOwnership,
     RestartOriginal, StopEverything, still, disk
<1>9. ValidationFails(o) => op'[o].st = "rolled_back"
  BY <1>4 DEF ValidationFails, Abandoned, AbandonBreaks, Undone, Journalled, Fault
<1>10. NothingToChange(o) \/ Commit(o) => op'[o].st = "succeeded"
  BY <1>4 DEF NothingToChange, Commit
<1>11. RolledBack(o) => op'[o].st = "rolled_back"
  BY <1>2, <1>4 DEF RolledBack
<1>12. RollbackFailed(o) => op'[o].st = "rollback_failed"
  BY <1>2, <1>4 DEF RollbackFailed
<1> QED
  BY <1>5, <1>6, <1>7, <1>8, <1>9, <1>10, <1>11, <1>12 DEF ApplyStep

\* Nothing else gives an operation a status, but a restart, and the owner who
\* confirms its recovery (engine.ts:117-129, 351-366).
LEMMA OutcomeBy ==
  ASSUME TypeInv, JournalTrue, Journalled, NEW o \in Ops, [Next]_vars,
         op'[o].st # op[o].st
  PROVE  \/ op'[o].st = "applying" /\ \E l \in Plans : ApplyBegin(o, l)
         \/ op'[o].st = "interrupted" /\ Crash
         \/ op'[o].st = "rolled_back"
              /\ \E r \in Requests : RecoveryConfirm(r) /\ req[r].op = o
         \/ ApplyStep(o) /\ op'[o].st # "applying"
<1>1. ~Aside
  BY AsideKeeps
<1>2. CASE Crash
  BY <1>2, RestartMarks DEF Crash
<1>3. ASSUME NEW q \in Ops, NEW l \in Plans, ApplyBegin(q, l)
      PROVE  op'[o].st = "applying" /\ q = o
  BY <1>3, ApplyBegins DEF Begun
<1>4. ASSUME NEW q \in Ops, ApplyStep(q)
      PROVE  q = o /\ op'[o].st # "applying"
  <2>1. q = o
    BY <1>4, ApplyMoves DEF Onward, Ended
  <2>2. op[o].st = "applying"
    BY <1>4, <2>1 DEF JournalTrue, ApplyStep, ValidationFails, NothingToChange, Prepared,
       StopOriginal, RenameOriginal, CreateReplacement, StartReplacement,
       AwaitReplacement, VerifyNamespace, Commit, CommitFails, BeginRollback,
       DiscardReplacement, RestoreName, RestoreOwnership, RestartOriginal,
       RolledBack, StopEverything, RollbackFailed
  <2> QED
    BY <2>1, <2>2
<1>5. ASSUME NEW q \in Ops
      PROVE  ~CleanupBegin(q) /\ ~CleanupStep(q)
  BY CleanupStepMarks DEF CleanupBegin, Marked
<1>6. ASSUME NEW r \in Requests, RecoveryConfirm(r)
      PROVE  op'[o].st = "rolled_back" /\ req[r].op = o
  <2>1. req[r].op \in Ops
    BY <1>6 DEF RecoveryConfirm, TypeInv, RequestsOK, Live
  <2> QED
    BY <1>6, <2>1, ConfirmMarks
<1> QED
  BY <1>1, <1>2, <1>3, <1>4, <1>5, <1>6, NextCases

\* What a change that commits leaves behind is whole.
LEMMA CommitsWhole ==
  ASSUME TypeInv, Exclusion, Placed, AllUpheld, AllForward, NEW o \in Ops, Commit(o)
  PROVE  LET new == proj'[Project(o)]
         IN /\ Members(new) \cap Members(Originals(o)) = {}
            /\ base'[Project(o)] = ConfsOf(new)
            /\ \A k \in Slots :
                 /\ ctr[new[k]].name = Snap(o)[k].conf.name
                 /\ Exists(new[k]) /\ Running(new[k]) = Wanted(o, k)
                 /\ k \in Apps => ctr[new[k]].ns = new[Vpn]
                 /\ ConfOf(Orig(o, k)) =
                      [Snap(o)[k].conf EXCEPT !.name = Backup(o, k)]
                 /\ ctr[Orig(o, k)].st = "stopped"
<1>1. PICK c : c = flow[o].created
  OBVIOUS
<1>2. /\ flow[o].pc = "commit" /\ o \in Live /\ Project(o) \in Projects
      /\ Len(c) = Size /\ c \in Seq(Ids) /\ DOMAIN c = Slots
  <2>1. flow[o].pc = "commit" /\ o \in Live
    BY Flowing DEF Commit
  <2> QED
    BY <1>1, <2>1, Flowing, PlanTypes DEF Position, Slots
<1>3. proj'[Project(o)] = c /\ base'[Project(o)] = ConfsOf(c)
  <2>1. /\ base \in [Projects -> [Slots -> Confs] \cup {<<>>}]
        /\ proj \in [Projects -> Stacks \cup {<<>>}]
    BY OldTypes
  <2> QED
    BY <1>1, <1>2, <2>1 DEF Commit, Replaced, Rebound
<1>4. /\ Forward(o, flow[o]) /\ Standing(o)
      /\ StoppedBy(flow[o]) = Slots /\ RenamedBy(flow[o]) = Slots
  BY <1>2 DEF AllForward, AllUpheld, Upheld, Advances, StoppedBy, RenamedBy
<1>5. Replaces(o, c, flow[o].renamed)
  BY <1>1, <1>2 DEF Placed, ChangesPlaced
<1>6. ASSUME NEW k \in Slots
      PROVE  /\ ctr[c[k]].name = Snap(o)[k].conf.name
             /\ Exists(c[k]) /\ Running(c[k]) = Wanted(o, k)
             /\ k \in Apps => ctr[c[k]].ns = c[Vpn]
  <2>1. /\ Exists(c[k]) /\ ctr[c[k]].name = Snap(o)[k].conf.name
        /\ Running(c[k]) <=> Wanted(o, k)
    BY <1>1, <1>2, <1>4 DEF Forward, ReplacedSoFar
  <2>2. ctr[c[k]].ns = NsOf(k, c[Vpn])
    BY <1>2, <1>5 DEF Replaces, Shaped
  <2>3. Running(c[k]) \in BOOLEAN /\ Wanted(o, k) \in BOOLEAN
    BY DEF Running, Wanted
  <2> QED
    BY <2>1, <2>2, <2>3 DEF NsOf, Apps
<1>7. ASSUME NEW k \in Slots
      PROVE  /\ ConfOf(Orig(o, k)) = [Snap(o)[k].conf EXCEPT !.name = Backup(o, k)]
             /\ ctr[Orig(o, k)].st = "stopped"
  <2>1. ctr[Orig(o, k)].st = "stopped" /\ ctr[Orig(o, k)].name = Backup(o, k)
    BY <1>4 DEF Forward, OriginalsAside, Standing, Exists, Running
  <2>2. PICK i, s : i = Orig(o, k) /\ s = Snap(o)[k].conf
    OBVIOUS
  <2>3. /\ s \in Confs /\ s.id = i /\ s.ns = ctr[i].ns /\ s.cfg = ctr[i].cfg
    <3>1. Snap(o)[k] \in Snapshots
      BY <1>2, PlanTypes
    <3> QED
      BY <1>2, <2>2, <3>1, OriginalsPlaced DEF Snapshots, Orig
  <2>4. ConfOf(i) = [s EXCEPT !.name = Backup(o, k)]
    BY <2>1, <2>2, <2>3 DEF ConfOf, Confs
  <2> QED
    BY <2>1, <2>2, <2>4
<1> QED
  BY <1>3, <1>5, <1>6, <1>7 DEF Replaces

\* What is known of a change that goes forward.
Changes == Retains /\ AllUpheld /\ FlowsBare /\ AllForward

\* It holds initially, and every step keeps it.
LEMMA ChangesForward ==
  OneRequest /\ OneProject /\ Undisturbed /\ Spec => []Changes
<1>1. Init => AllUpheld /\ FlowsBare /\ AllForward
  BY DEF Init, IdleFlow, AllUpheld, FlowsBare, AllForward, Advances
<1>2. /\ OneProject /\ Undisturbed /\ Retains /\ AllUpheld /\ FlowsBare /\ AllForward
      /\ [Next]_vars
      => (AllUpheld /\ FlowsBare /\ AllForward)'
  BY StepUpheld, StepBare, StepForward DEF Retains
<1>3. OneProject /\ Undisturbed => [](OneProject /\ Undisturbed)
  OBVIOUS
<1> QED
  BY Retained, <1>1, <1>2, <1>3, PTL DEF Spec, Changes

\* The journal says what is under way, whatever happens.
LEMMA JournalKept == OneRequest /\ Journalled /\ Spec => []JournalTrue
<1>1. OneRequest /\ Journalled /\ TypeInv /\ Exclusion /\ JournalTrue /\ [Next]_vars
      => JournalTrue'
  BY StepJournal
<1>2. OneRequest /\ Journalled => [](OneRequest /\ Journalled)
  OBVIOUS
<1> QED
  BY InitJournal, Excluded, <1>1, <1>2, PTL DEF Spec

\* A change that the journal calls a success has replaced the whole stack
\* (engine.ts:447-474).
THEOREM SuccessWhole ==
  OneRequest /\ OneProject /\ Journalled /\ Undisturbed /\ Spec => SucceedsWhole
<1> DEFINE Whole ==
      \A o \in Ops : Becomes(o, "succeeded") /\ Interrupts(o) =>
        LET new == proj'[Project(o)]
        IN /\ Members(new) \cap Members(Originals(o)) = {}
           /\ base'[Project(o)] = ConfsOf(new)
           /\ \A k \in Slots :
                /\ ctr[new[k]].name = Snap(o)[k].conf.name
                /\ Exists(new[k]) /\ Running(new[k]) = Wanted(o, k)
                /\ k \in Apps => ctr[new[k]].ns = new[Vpn]
                /\ ConfOf(Orig(o, k)) =
                     [Snap(o)[k].conf EXCEPT !.name = Backup(o, k)]
                /\ ctr[Orig(o, k)].st = "stopped"
<1>1. Changes /\ JournalTrue /\ Journalled /\ [Next]_vars => Whole
  <2> SUFFICES ASSUME Changes, JournalTrue, Journalled, [Next]_vars, NEW o \in Ops,
                      Becomes(o, "succeeded"), Interrupts(o)
               PROVE  Commit(o)
    BY CommitsWhole DEF Changes, Retains
  <2>1. ApplyStep(o) /\ op'[o].st = "succeeded"
    BY OutcomeBy DEF Becomes, Changes, Retains
  <2> QED
    BY <2>1, EndsBy DEF Changes, Retains, NothingToChange
<1>2. Changes /\ JournalTrue /\ Journalled /\ [Next]_vars => [Whole]_vars
  BY <1>1
<1>3. Journalled => []Journalled
  OBVIOUS
<1> QED
  BY ChangesForward, JournalKept, <1>2, <1>3, PTL DEF Spec, SucceedsWhole

-----------------------------------------------------------------------------
(* A change goes back.                                                     *)

Restores == {"rename back", "disown", "restart", "reverify", "restored"}
Retreats == Discards \cup Restores

\* A step of the rollback that succeeds, from f to g.
Retreated(o, f, g) ==
  LET i == f.created[f.k]
      j == Orig(o, f.k)
      name == Snap(o)[f.k].conf.name
  IN /\ Lists(f, g)
     /\ \/ /\ f.pc = "caught" /\ UNCHANGED <<ctr, proj, base>>
           /\ op' = Journal(o, f)
           /\ At(g) = IF Len(f.created) > 0 THEN <<"discard", Len(f.created)>>
                      ELSE <<"rename back", 1>>
        \/ /\ f.pc = "discard" /\ UNCHANGED <<proj, base>> /\ ctr' = Stopped({i})
           /\ At(g) = <<"remove", f.k>>
        \/ /\ f.pc = "remove" /\ UNCHANGED <<proj, base>> /\ ctr' = RemovedC(i)
           /\ At(g) = IF f.k > 1 THEN <<"discard", f.k - 1>> ELSE <<"rename back", 1>>
        \/ /\ f.pc = "rename back" /\ UNCHANGED <<proj, base>>
           /\ ctr' = IF j \in f.renamed THEN Renamed(j, name) ELSE ctr
           /\ At(g) = Then("rename back", f.k, <<"disown", 0>>)
        \/ /\ f.pc = "disown" /\ ctr' = ctr /\ base' = Former(o)
           /\ proj' = [proj EXCEPT ![Project(o)] = Originals(o)]
           /\ At(g) = <<"restart", 1>>
        \/ /\ f.pc = "restart" /\ UNCHANGED <<proj, base>>
           /\ IF Wanted(o, f.k)
              THEN ctr' = Started(j) /\ At(g) = <<"reverify", f.k>>
              ELSE ctr' = ctr /\ At(g) = Then("restart", f.k, <<"restored", 0>>)
        \/ /\ f.pc = "reverify" /\ UNCHANGED <<ctr, proj, base>> /\ Running(j)
           /\ At(g) = Then("restart", f.k, <<"restored", 0>>)

\* A step of an apply that leads back is one of these.
LEMMA RetreatsBy ==
  ASSUME TypeInv, NEW o \in Ops, ApplyStep(o), flow'[o].pc \in Retreats
  PROVE  Retreated(o, flow[o], flow'[o])
<1>0. /\ "stop" \notin Retreats /\ "caught" \notin Retreats /\ "giveUp" \notin Retreats
      /\ "failed" \notin Retreats /\ "idle" \notin Retreats
  BY DEF Retreats, Restores, Discards
<1>1. flow \in [Ops -> FlowRec] /\ flow[o] \in FlowRec /\ flow[o].pc # "idle"
  BY <1>0, ApplyCreated DEF TypeInv, TypeOK
<1>2. PICK f : f = flow[o]
  OBVIOUS
<1>3. PICK g : g = flow'[o]
  OBVIOUS
<1>4. ASSUME NEW at, Goto(o, flow[o], at)
      PROVE  At(g) = <<at[1], at[2]>> /\ Lists(f, g) /\ at[1] \in Retreats
  BY <1>1, <1>2, <1>3, <1>4, GotoFields DEF At, Lists
<1>5. ASSUME NEW h \in FlowRec, NEW at, Goto(o, h, at)
      PROVE  at[1] \in Retreats
  BY <1>5, GotoFields
<1>6. /\ \A h \in FlowRec : ~Goto(o, h, Caught) /\ ~Goto(o, h, GiveUp)
      /\ ~Goto(o, flow[o], Caught) /\ ~Goto(o, flow[o], GiveUp)
  BY <1>0, <1>1, <1>5 DEF Caught, GiveUp
<1>7. ASSUME NEW can, NEW after, NEW at, Await(o, can, after, at, GiveUp)
      PROVE  can /\ ctr' = after /\ Goto(o, flow[o], at)
  BY <1>6, <1>7 DEF Await
<1>8. ASSUME NEW can, NEW after, NEW at, Await(o, can, after, at, Caught)
      PROVE  at[1] \in Retreats
  BY <1>4, <1>6, <1>8 DEF Await
<1>9. ASSUME NEW h \in FlowRec, NEW at, Recorded(o, h, at)
      PROVE  at[1] \in Retreats
  BY <1>5, <1>6, <1>9 DEF Recorded
<1>10. ~End(o) /\ \A h : ~Conclude(o, h)
  BY <1>0, <1>1 DEF End, IdleFlow, Conclude
<1>11. \A at : at[1] \in Advances => at[1] \notin Retreats
  BY DEF Advances, Retreats, Restores, Discards
<1>12. \A loop, k, at : loop \in Advances /\ at[1] \in Advances
         => Then(loop, k, at)[1] \in Advances
  BY DEF Then
<1>13. \A k : AfterSlot(k)[1] \in Advances /\ AfterStart(k)[1] \in Advances
  BY DEF AfterSlot, AfterStart, Then, Advances
<1>14. ~ValidationFails(o) /\ ~NothingToChange(o) /\ ~Commit(o) /\ ~RollbackFailed(o)
  BY <1>10 DEF ValidationFails, NothingToChange, Commit, RollbackFailed
<1>15. ~Prepared(o)
  BY <1>0, <1>4 DEF Prepared
<1>16. ~StopOriginal(o)
  <2>1. PICK at : at = Then("stop", flow[o].k, <<"rename", 1>>)
    OBVIOUS
  <2>2. at[1] \notin Retreats
    BY <1>11, <1>12, <2>1 DEF Advances
  <2> QED
    BY <1>4, <1>8, <2>1, <2>2 DEF StopOriginal
<1>17. ~RenameOriginal(o)
  <2>1. PICK at : at = Then("rename", flow[o].k, <<"create", Vpn>>)
    OBVIOUS
  <2>2. at[1] \notin Retreats
    BY <1>11, <1>12, <2>1 DEF Advances
  <2>3. PICK done : done = [flow[o] EXCEPT !.renamed = @ \cup {Orig(o, flow[o].k)}]
    OBVIOUS
  <2>4. SUFFICES ASSUME RenameOriginal(o) PROVE FALSE
    OBVIOUS
  <2>5. done \in FlowRec
    <3>1. flow[o].renamed \cup {Orig(o, flow[o].k)} \in SUBSET Ids
      BY <2>4, Flowing, OriginalTypes DEF RenameOriginal, Position, Loops
    <3> QED
      BY <1>1, <2>3, <3>1 DEF FlowRec
  <2> QED
    BY <1>6, <1>9, <2>1, <2>2, <2>3, <2>4, <2>5 DEF RenameOriginal
<1>18. ~CreateReplacement(o)
  <2>1. PICK at : at = IF Wanted(o, flow[o].k) THEN <<"start", flow[o].k>>
                       ELSE AfterStart(flow[o].k)
    OBVIOUS
  <2>2. at[1] \notin Retreats
    <3>1. <<"start", flow[o].k>>[1] \notin Retreats
      BY DEF Retreats, Restores, Discards
    <3> QED
      BY <1>11, <1>13, <2>1, <3>1
  <2>3. PICK done : done = [flow[o] EXCEPT !.created = Append(@, FreshId)]
    OBVIOUS
  <2>4. SUFFICES ASSUME CreateReplacement(o) PROVE FALSE
    OBVIOUS
  <2>5. CanCreate(Snap(o)[flow[o].k].conf.name) /\ Recorded(o, done, at)
    BY <1>6, <2>1, <2>3, <2>4 DEF CreateReplacement
  <2>6. done \in FlowRec
    <3>1. Append(flow[o].created, FreshId) \in Seq(Ids)
      BY <2>4, <2>5, Flowing DEF CreateReplacement, CanCreate, UnusedIds, FreshId
    <3> QED
      BY <1>1, <2>3, <3>1 DEF FlowRec
  <2> QED
    BY <1>9, <2>2, <2>5, <2>6
<1>19. ~StartReplacement(o) /\ ~AwaitReplacement(o) /\ ~VerifyNamespace(o)
  <2>1. PICK a, b, c : /\ a = <<"health", flow[o].k>>
                       /\ b = AfterStart(flow[o].k) /\ c = AfterSlot(flow[o].k)
    OBVIOUS
  <2>2. a[1] \notin Retreats /\ b[1] \notin Retreats /\ c[1] \notin Retreats
    <3>1. a[1] \in Advances /\ b[1] \in Advances /\ c[1] \in Advances
      BY <1>13, <2>1 DEF Advances
    <3> QED
      BY <1>11, <3>1
  <2> QED
    BY <1>8, <2>1, <2>2 DEF StartReplacement, AwaitReplacement, VerifyNamespace
<1>20. ~CommitFails(o)
  <2>1. PICK done : done = [flow[o] EXCEPT !.st = "succeeded"]
    OBVIOUS
  <2>2. done \in FlowRec
    BY <1>1, <2>1 DEF FlowRec, OpStatus
  <2> QED
    BY <1>6, <2>1, <2>2 DEF CommitFails
<1>21. ~RolledBack(o) /\ ~StopEverything(o)
  BY <1>0, <1>4, <1>6, <1>10 DEF RolledBack, StopEverything
<1>22. \A loop, k, at : Then(loop, k, at) = <<loop, k + 1>> \/ Then(loop, k, at) = at
  BY DEF Then
<1>23. CASE BeginRollback(o)
  <2>1. PICK at : at = IF Len(f.created) > 0 THEN <<"discard", Len(f.created)>>
                       ELSE <<"rename back", 1>>
    OBVIOUS
  <2>2. /\ f.pc = "caught" /\ UNCHANGED <<ctr, proj, base>> /\ op' = Journal(o, f)
        /\ Goto(o, flow[o], at)
    BY <1>2, <1>6, <1>23, <2>1 DEF BeginRollback, still
  <2>3. At(g) = at /\ Lists(f, g)
    <3>1. at = <<at[1], at[2]>>
      BY <2>1
    <3> QED
      BY <1>4, <2>2, <3>1
  <2> QED
    BY <1>2, <1>3, <2>1, <2>2, <2>3 DEF Retreated
<1>24. CASE DiscardReplacement(o)
  <2>1. PICK at, to : /\ at = (IF f.k > 1 THEN <<"discard", f.k - 1>>
                               ELSE <<"rename back", 1>>)
                      /\ to = <<"remove", f.k>>
    OBVIOUS
  <2>2. /\ UNCHANGED <<proj, base>>
        /\ \/ /\ f.pc = "discard" /\ ctr' = Stopped({f.created[f.k]})
              /\ Goto(o, flow[o], to)
           \/ /\ f.pc = "remove" /\ ctr' = RemovedC(f.created[f.k])
              /\ Goto(o, flow[o], at)
    BY <1>2, <1>7, <1>24, <2>1 DEF DiscardReplacement, still
  <2>3. /\ Goto(o, flow[o], to) => At(g) = to /\ Lists(f, g)
        /\ Goto(o, flow[o], at) => At(g) = at /\ Lists(f, g)
    <3>1. at = <<at[1], at[2]>> /\ to = <<to[1], to[2]>>
      BY <2>1
    <3> QED
      BY <1>4, <3>1
  <2> QED
    BY <1>2, <1>3, <2>1, <2>2, <2>3 DEF Retreated
<1>25. CASE RestoreName(o)
  <2>1. PICK at : at = Then("rename back", f.k, <<"disown", 0>>)
    OBVIOUS
  <2>2. /\ f.pc = "rename back" /\ UNCHANGED <<proj, base>>
        /\ ctr' = IF Orig(o, f.k) \in f.renamed
                  THEN Renamed(Orig(o, f.k), Snap(o)[f.k].conf.name) ELSE ctr
        /\ Goto(o, flow[o], at)
    <3>1. f.pc = "rename back" /\ UNCHANGED <<proj, base>>
      BY <1>2, <1>25 DEF RestoreName, still
    <3>2. CASE Orig(o, f.k) \in f.renamed
      <4>1. \E can : Await(o, can, Renamed(Orig(o, f.k), Snap(o)[f.k].conf.name), at,
                          GiveUp)
        BY <1>2, <1>25, <2>1, <3>2 DEF RestoreName
      <4> QED
        BY <1>7, <3>1, <3>2, <4>1
    <3>3. CASE Orig(o, f.k) \notin f.renamed
      BY <1>2, <1>25, <2>1, <3>1, <3>3 DEF RestoreName
    <3> QED
      BY <3>2, <3>3
  <2>3. At(g) = at /\ Lists(f, g)
    <3>1. at = <<at[1], at[2]>>
      BY <2>1 DEF Then
    <3> QED
      BY <1>4, <2>2, <3>1
  <2> QED
    BY <1>2, <1>3, <2>1, <2>2, <2>3 DEF Retreated
<1>26. CASE RestoreOwnership(o)
  <2>1. /\ f.pc = "disown" /\ ctr' = ctr /\ base' = Former(o)
        /\ proj' = [proj EXCEPT ![Project(o)] = Originals(o)]
        /\ Goto(o, flow[o], <<"restart", 1>>)
    BY <1>2, <1>6, <1>26 DEF RestoreOwnership
  <2>2. At(g) = <<"restart", 1>> /\ Lists(f, g)
    BY <1>4, <2>1
  <2> QED
    BY <1>2, <1>3, <2>1, <2>2 DEF Retreated
<1>27. CASE RestartOriginal(o)
  <2>1. PICK at, to : /\ at = Then("restart", f.k, <<"restored", 0>>)
                      /\ to = <<"reverify", f.k>>
    OBVIOUS
  <2>2. UNCHANGED <<proj, base>>
    BY <1>27 DEF RestartOriginal, still
  <2>3. \/ /\ f.pc = "restart" /\ Wanted(o, f.k) /\ ctr' = Started(Orig(o, f.k))
           /\ Goto(o, flow[o], to)
        \/ f.pc = "restart" /\ ~Wanted(o, f.k) /\ ctr' = ctr /\ Goto(o, flow[o], at)
        \/ f.pc = "reverify" /\ Running(Orig(o, f.k)) /\ ctr' = ctr /\ Goto(o, flow[o], at)
    BY <1>2, <1>7, <1>27, <2>1 DEF RestartOriginal, CanBeHealthy
  <2>4. /\ Goto(o, flow[o], to) => At(g) = to /\ Lists(f, g)
        /\ Goto(o, flow[o], at) => At(g) = at /\ Lists(f, g)
    BY <1>4, <1>22, <2>1
  <2> QED
    BY <1>2, <1>3, <2>1, <2>2, <2>3, <2>4 DEF Retreated
<1> QED
  BY <1>14, <1>15, <1>16, <1>17, <1>18, <1>19, <1>20, <1>21, <1>23, <1>24, <1>25,
     <1>26, <1>27 DEF ApplyStep

\* What is gone of the replacements, when the rollback is at f.
Discarded(o, f) ==
  \A j \in DOMAIN f.created : (f.pc \in Discards => j > f.k) => ~Exists(f.created[j])
AllDiscarded ==
  \A o \in Ops : flow[o].pc \in Retreats => Discarded(o, flow[o])

\* A step back keeps it.
LEMMA RetreatKeeps ==
  ASSUME TypeInv, Placed, NEW o \in Ops, flow[o].pc # "idle", ApplyStep(o),
         NEW f, f = flow[o], NEW g, Retreated(o, f, g),
         f.pc \in Retreats => Discarded(o, f)
  PROVE  Discarded(o, g)'
<1>1. PICK c : c = f.created
  OBVIOUS
<1>2. /\ DOMAIN c = 1..Len(c) /\ Len(c) \in Nat /\ \A j \in DOMAIN c : c[j] \in Ids
      /\ g.created = c
  BY <1>1, ReplacementsPlaced DEF Retreated, Lists
<1>3. SUFFICES ASSUME NEW j \in DOMAIN c, g.pc \in Discards => j > g.k
               PROVE  ~Exists(c[j])'
  BY <1>2 DEF Discarded
<1>4. \A x, y : At(g) = <<x, y>> => g.pc = x /\ g.k = y
  BY DEF At
<1>5. ~Creates(o)
  BY DEF Creates, Retreated
<1>6. \A i \in Ids : ~Exists(i) => ~Exists(i)'
  <2>1. Serves(o)
    BY <1>5, ApplyHandles
  <2>2. /\ Touchable(o) \in SUBSET Ids /\ Startable(o) \in SUBSET Touchable(o)
        /\ Members(flow[o].created) \in SUBSET Touchable(o)
    BY FlowPlaced
  <2>3. Keeps
    BY <2>1, <2>2, HandlesKeeps DEF Serves
  <2> QED
    BY <2>3, KeepsDown
<1>7. CASE f.pc = "caught"
  <2>1. Len(c) > 0
    BY <1>2, <1>3
  <2>2. g.pc = "discard" /\ g.k = Len(c)
    BY <1>1, <1>4, <1>7, <2>1 DEF Retreated
  <2> QED
    BY <1>2, <1>3, <2>2 DEF Discards
<1>8. CASE f.pc = "discard"
  <2>1. g.pc = "remove" /\ g.k = f.k
    BY <1>4, <1>8 DEF Retreated
  <2>2. ~Exists(c[j])
    BY <1>1, <1>3, <1>8, <2>1 DEF Discarded, Discards, Retreats
  <2> QED
    BY <1>2, <1>3, <1>6, <2>2
<1>9. CASE f.pc = "remove"
  <2>1. f.k \in DOMAIN c
    BY <1>1, <1>2, <1>9, Flowing DEF Position, Discards
  <2>2. CASE j > f.k
    <3>1. ~Exists(c[j])
      BY <1>1, <1>9, <2>2 DEF Discarded, Discards, Retreats
    <3> QED
      BY <1>2, <1>3, <1>6, <3>1
  <2>3. CASE ~(j > f.k)
    <3>1. j = f.k
      <4>1. CASE f.k > 1
        <5>1. g.pc = "discard" /\ g.k = f.k - 1
          BY <1>4, <1>9, <4>1 DEF Retreated
        <5> QED
          BY <1>2, <1>3, <2>1, <2>3, <5>1 DEF Discards
      <4> QED
        BY <1>2, <1>3, <2>1, <2>3, <4>1
    <3>2. ctr' = RemovedC(c[j])
      BY <1>1, <1>9, <3>1 DEF Retreated
    <3> QED
      BY <1>2, <1>3, <3>2, DockerMoves DEF Exists
  <2> QED
    BY <2>2, <2>3
<1>10. CASE f.pc \in Restores
  <2>1. ~Exists(c[j])
    BY <1>1, <1>3, <1>10 DEF Discarded, Discards, Restores, Retreats
  <2> QED
    BY <1>2, <1>3, <1>6, <2>1
<1> QED
  BY <1>7, <1>8, <1>9, <1>10 DEF Retreated, Restores

\* What has been discarded stays discarded.
LEMMA StepDiscarded ==
  ASSUME Undisturbed, OneProject, TypeInv, Exclusion, Placed, AdoptedFirst,
         AllDiscarded, [Next]_vars
  PROVE  AllDiscarded'
<1> SUFFICES ASSUME NEW o \in Ops, flow'[o].pc \in Retreats
             PROVE  Discarded(o, flow[o])'
  BY DEF AllDiscarded
<1>1. flow'[o].pc \notin {"idle", "validate"}
  BY DEF Retreats, Restores, Discards
<1>2. flow[o].pc # "idle"
  BY <1>1, FlowBegins
<1>3. PICK f : f = flow[o]
  OBVIOUS
<1>4. PICK g : g = flow'[o]
  OBVIOUS
<1>5. SUFFICES Discarded(o, g)'
  BY <1>4 DEF Discarded
<1>6. CASE ApplyStep(o)
  BY <1>2, <1>3, <1>4, <1>6, RetreatsBy, RetreatKeeps DEF AllDiscarded
<1>7. CASE UNCHANGED <<ctr, proj, base, op, flow, clean, locks>>
  BY <1>4, <1>7 DEF AllDiscarded, Discarded, Exists
<1>8. ~Crash
  BY <1>1 DEF Crash, IdleFlow
<1> QED
  BY <1>2, <1>6, <1>7, <1>8, OnlyApply

\* What an apply stops, whether it learns of it or not.
LEMMA ApplyStops ==
  ASSUME TypeInv, NEW o \in Ops, ApplyStep(o) \/ Unanswered(o),
         flow[o].pc # "giveUp", NEW i \in Ids, Running(i), ctr'[i].st = "stopped"
  PROVE  \/ flow[o].pc = "stop" /\ i = Orig(o, StopSlot(flow[o].k))
         \/ flow[o].pc = "discard" /\ i = flow[o].created[flow[o].k]
<1>0. ctr \in [Ids -> Containers] /\ ctr[i] \in Containers /\ ctr[i].st = "running"
  BY OldTypes DEF Running
<1>1. ctr' # ctr
  BY <1>0
<1>2. \A j \in Ids : ctr' = Stopped({j}) => i = j
  BY <1>0, DockerMoves
<1>3. \A j : j \in Ids => ctr' # Started(j) /\ ctr' # RemovedC(j)
  BY <1>0, DockerMoves
<1>4. \A j \in Ids, n \in Names : ctr' # Renamed(j, n)
  BY <1>0, DockerMoves
<1>5. \A n, c, v : UnusedIds # {} => ctr' # Created(n, c, v)
  <2> SUFFICES ASSUME NEW n, NEW c, NEW v, UnusedIds # {}, ctr' = Created(n, c, v)
               PROVE  FALSE
    OBVIOUS
  <2>1. FreshId # i
    BY <1>0 DEF FreshId, UnusedIds
  <2>2. ctr'[i] = ctr[i]
    BY <1>0, <2>1 DEF Created
  <2> QED
    BY <1>0, <2>2
<1>6. \A can, after : Refused(can, after) => can /\ ctr' = after
  BY <1>1 DEF Refused
<1>7. \A can, after, at, bad : Await(o, can, after, at, bad) => can /\ ctr' = after
  BY <1>6 DEF Await
<1>8. /\ flow[o].pc # "idle" => /\ o \in Live /\ flow[o].created \in Seq(Ids)
                                /\ Position(flow[o])
      /\ flow[o].pc \in Loops /\ flow[o].pc # "idle" =>
           /\ flow[o].k \in Slots /\ StopSlot(flow[o].k) \in Slots
           /\ Orig(o, flow[o].k) \in Ids /\ Orig(o, StopSlot(flow[o].k)) \in Ids
           /\ Backup(o, flow[o].k) \in Names
           /\ Snap(o)[flow[o].k].conf.name \in Names
      /\ flow[o].pc \in Discards \cup {"start"} => flow[o].created[flow[o].k] \in Ids
  <2>1. flow[o].pc # "idle" => /\ o \in Live /\ flow[o].created \in Seq(Ids)
                               /\ Position(flow[o])
    BY Flowing
  <2>2. flow[o].pc \in Loops => flow[o].k \in Slots /\ StopSlot(flow[o].k) \in Slots
    BY <2>1, SlotMoves DEF Position, Loops
  <2>3. flow[o].pc \in Discards \cup {"start"} => flow[o].k \in DOMAIN flow[o].created
    <3>1. flow[o].pc = "start" => flow[o].k = Len(flow[o].created) /\ flow[o].k \in Slots
      BY <2>1, <2>2 DEF Position, Loops
    <3>2. flow[o].pc \in Discards => flow[o].k \in 1..Len(flow[o].created)
      BY <2>1 DEF Position, Discards
    <3>3. flow[o].pc = "start" => flow[o].k \in 1..Len(flow[o].created)
      BY <3>1, SlotFacts
    <3> QED
      BY <2>1, <3>2, <3>3 DEF Discards
  <2> QED
    BY <2>1, <2>2, <2>3, OriginalTypes DEF Discards
<1>9. CASE Unanswered(o)
  BY <1>2, <1>3, <1>4, <1>5, <1>8, <1>9 DEF Unanswered, Loops, Discards, Replacement,
     CanCreate
<1>10. CASE ApplyStep(o)
  <2>1. /\ ~ValidationFails(o) /\ ~NothingToChange(o) /\ ~Prepared(o)
        /\ ~AwaitReplacement(o) /\ ~VerifyNamespace(o)
        /\ ~Commit(o) /\ ~CommitFails(o) /\ ~BeginRollback(o) /\ ~RestoreOwnership(o)
        /\ ~RolledBack(o) /\ ~RollbackFailed(o) /\ ~StopEverything(o)
    BY <1>1, <1>6, <1>7 DEF ValidationFails, NothingToChange, Prepared,
       AwaitReplacement, VerifyNamespace, Commit, CommitFails, BeginRollback,
       RestoreOwnership, RolledBack, RollbackFailed, StopEverything, ReadFails
  <2>0. /\ {"rename", "rename back", "restart"} \subseteq Loops /\ "start" \notin Discards
        /\ {"discard", "remove"} \subseteq Discards
    BY DEF Loops, Discards
  <2>2. ~RenameOriginal(o)
    <3>1. RenameOriginal(o) => /\ flow[o].pc = "rename"
                               /\ ctr' = Renamed(Orig(o, flow[o].k), Backup(o, flow[o].k))
      BY <1>6 DEF RenameOriginal
    <3> QED
      BY <1>4, <1>8, <2>0, <3>1
  <2>3. ~CreateReplacement(o)
    <3>1. CreateReplacement(o) => /\ ctr' = Replacement(o, flow[o].k)
                                  /\ CanCreate(Snap(o)[flow[o].k].conf.name)
      BY <1>6 DEF CreateReplacement
    <3> QED
      BY <1>5, <3>1 DEF Replacement, CanCreate
  <2>4. ~StartReplacement(o)
    BY <1>3, <1>7, <1>8 DEF StartReplacement
  <2>5. ~RestoreName(o)
    <3>1. RestoreName(o) =>
            /\ flow[o].pc = "rename back"
            /\ ctr' = Renamed(Orig(o, flow[o].k), Snap(o)[flow[o].k].conf.name)
      BY <1>1, <1>7 DEF RestoreName
    <3> QED
      BY <1>4, <1>8, <2>0, <3>1
  <2>6. ~RestartOriginal(o)
    <3>1. RestartOriginal(o) => flow[o].pc = "restart" /\ ctr' = Started(Orig(o, flow[o].k))
      BY <1>1, <1>7 DEF RestartOriginal
    <3> QED
      BY <1>3, <1>8, <2>0, <3>1
  <2>7. CASE StopOriginal(o)
    BY <1>1, <1>2, <1>7, <1>8, <2>7 DEF StopOriginal, Loops
  <2>8. CASE DiscardReplacement(o)
    <3>1. \/ flow[o].pc = "discard" /\ ctr' = Stopped({flow[o].created[flow[o].k]})
          \/ flow[o].pc = "remove" /\ ctr' = RemovedC(flow[o].created[flow[o].k])
      BY <1>7, <2>8 DEF DiscardReplacement
    <3> QED
      BY <1>2, <1>3, <1>8, <2>0, <3>1
  <2> QED
    BY <1>10, <2>1, <2>2, <2>3, <2>4, <2>5, <2>6, <2>7, <2>8 DEF ApplyStep
<1> QED
  BY <1>9, <1>10

\* What an apply stops is an application, or a VPN whose applications are
\* stopped already.
LEMMA StopsClientless ==
  ASSUME TypeInv, Placed, AllUpheld, AllForward, AllDiscarded, NEW o \in Ops,
         flow[o].pc # "idle", ApplyStep(o) \/ Unanswered(o), flow[o].pc # "giveUp",
         NEW i \in Ids, Running(i), ctr'[i].st = "stopped", NEW j \in Dependents(i)
  PROVE  ~Running(j)
<1>0. j \in Ids /\ Used(j) /\ ctr[j].ns = i /\ ctr[j].ns \in Ids /\ Vpn \in Slots
  BY SlotFacts DEF Dependents, Exists, Used
<1>1. ctr[i].name.slot = Vpn /\ ctr[j].name.slot # Vpn
  BY <1>0, DockerAssumption DEF Placed, ContainersPlaced
<1>2. PICK c : c = flow[o].created
  OBVIOUS
<1>3. /\ o \in Live /\ Position(flow[o]) /\ c \in Seq(Ids) /\ DOMAIN c = 1..Len(c)
      /\ Replaces(o, c, flow[o].renamed)
  BY <1>2, Flowing DEF Placed, ChangesPlaced
<1>4. CASE flow[o].pc = "stop" /\ i = Orig(o, StopSlot(flow[o].k))
  <2>1. /\ flow[o].k \in Slots /\ StopSlot(flow[o].k) = Vpn /\ i = Orig(o, Vpn)
    <3>1. flow[o].k \in Slots
      BY <1>3, <1>4 DEF Position, Loops
    <3>2. ctr[i].name.slot = StopSlot(flow[o].k)
      BY <1>3, <1>4, <3>1, SlotMoves, OriginalsPlaced
    <3> QED
      BY <1>1, <1>4, <3>1, <3>2
  <2>2. flow[o].k = Size
    BY <2>1, StopOrder, SlotMoves
  <2>3. PICK k \in Slots : j = Orig(o, k)
    <3>1. Standing(o)
      BY <1>4 DEF AllUpheld, Upheld
    <3> QED
      BY <2>1, <3>1 DEF Standing, Members, Originals
  <2>4. k # Vpn
    BY <1>1, <1>3, <2>3, OriginalsPlaced
  <2>5. k - 1 \in Slots /\ StopSlot(k - 1) = k /\ k - 1 < flow[o].k
    <3>1. k - 1 \in Slots /\ StopSlot(k - 1) = k
      BY <2>4, StopOrder
    <3>2. \A m \in Slots : m - 1 < Size
      BY SlotFacts
    <3> QED
      BY <2>2, <3>1, <3>2
  <2>6. k \in StoppedBy(flow[o])
    BY <1>4, <2>5 DEF StoppedBy, Before
  <2> QED
    BY <1>4, <2>3, <2>6 DEF AllForward, Forward, OriginalsAside, Advances
<1>5. CASE flow[o].pc = "discard" /\ i = c[flow[o].k]
  <2>1. flow[o].k \in DOMAIN c /\ flow[o].k = Vpn
    <3>1. flow[o].k \in DOMAIN c
      BY <1>2, <1>3, <1>5 DEF Position, Discards
    <3>2. ctr[i].name.slot = flow[o].k
      BY <1>3, <1>5, <3>1 DEF Replaces, Shaped
    <3> QED
      BY <1>1, <3>1, <3>2
  <2>2. SUFFICES ASSUME Running(j) PROVE FALSE
    OBVIOUS
  <2>3. Clients(c)
    BY <1>2, <1>5 DEF AllUpheld, Upheld
  <2>4. PICK k \in DOMAIN c : j = c[k]
    <3>1. c # <<>>
      BY <1>3, <2>1
    <3> QED
      BY <1>5, <2>1, <2>2, <2>3, <3>1 DEF Clients, Members
  <2>5. k # Vpn
    BY <1>1, <1>3, <2>4 DEF Replaces, Shaped
  <2>6. k > Vpn
    BY <1>3, <2>4, <2>5 DEF Vpn
  <2>7. ~Exists(c[k])
    <3>1. Discarded(o, flow[o])
      BY <1>5 DEF AllDiscarded, Retreats, Discards
    <3> QED
      BY <1>2, <2>1, <2>4, <2>6, <3>1 DEF Discarded
  <2> QED
    BY <2>2, <2>4, <2>7 DEF Running, Exists
<1> QED
  BY <1>2, <1>4, <1>5, ApplyStops

\* What is known of a change that is under way.
UnderWay == Changes /\ AllDiscarded

\* All of this holds of every change at any time.
LEMMA ChangesUnderWay ==
  OneRequest /\ OneProject /\ Undisturbed /\ Spec => []UnderWay
<1>1. Init => AllDiscarded
  <2>1. IdleFlow.pc \notin Retreats
    BY DEF IdleFlow, Retreats, Restores, Discards
  <2> QED
    BY <2>1 DEF Init, AllDiscarded
<1>2. OneProject /\ Undisturbed /\ Changes /\ AllDiscarded /\ [Next]_vars => AllDiscarded'
  BY StepDiscarded DEF Changes, Retains
<1>3. OneProject /\ Undisturbed => [](OneProject /\ Undisturbed)
  OBVIOUS
<1> QED
  BY ChangesForward, <1>1, <1>2, <1>3, PTL DEF Spec, UnderWay

\* The step of an operation whose flow moves is its own, or a crash, in which
\* no call but one of its own is under way.
LEMMA MovesAlone ==
  ASSUME Undisturbed, OneProject, TypeInv, Exclusion, AdoptedFirst, FlowsBare,
         NEW o \in Ops, flow'[o] # flow[o], [Next]_vars, ctr' # ctr
  PROVE  /\ flow[o].pc # "idle"
         /\ ApplyStep(o) \/ (Crash /\ \A q \in Ops : Busy(q) => q = o)
<1>1. flow[o].pc # "idle"
  <2> SUFFICES ASSUME flow[o].pc = "idle" PROVE FALSE
    OBVIOUS
  <2>1. flow'[o] \notin {flow[o], IdleFlow}
    BY DEF FlowsBare
  <2>2. \E l \in Plans : ApplyBegin(o, l)
    BY <2>1, FlowBegins
  <2> QED
    BY <2>2 DEF ApplyBegin
<1>2. ASSUME NEW q \in Ops, Busy(q)
      PROVE  q = o
  <2>1. o \in Live /\ q \in Live /\ Busy(o)
    BY <1>1, <1>2 DEF Exclusion, BusyLocked, Busy
  <2>2. Project(o) = Project(q)
    BY <2>1, LiveAdopted DEF OneProject
  <2> QED
    BY <1>2, <2>1, <2>2 DEF Exclusion, BusyAlone
<1> QED
  BY <1>1, <1>2, OnlyApply

\* A call that a crash cuts off is one of the operation at work.
LEMMA CrashStops ==
  ASSUME TypeInv, Crash, NEW i \in Ids, Running(i), ctr'[i].st = "stopped"
  PROVE  \E q \in Ops : flow[q].pc # "idle" /\ Unanswered(q)
<1>1. ctr \in [Ids -> Containers] /\ ctr[i].st = "running"
  BY OldTypes DEF Running
<1>2. ASSUME NEW o \in Ops, clean[o].pc = "delete",
             ctr' = RemovedC(Orig(o, StopSlot(clean[o].k)))
      PROVE  FALSE
  <2>1. Orig(o, StopSlot(clean[o].k)) \in Ids
    BY <1>2, Cleaning, SlotMoves, OriginalTypes
  <2> QED
    BY <1>1, <1>2, <2>1, DockerMoves
<1>3. \A q \in Ops : Unanswered(q) => flow[q].pc # "idle"
  BY DEF Unanswered
<1> QED
  BY <1>1, <1>2, <1>3 DEF Crash, Stray

\* An apply stops a VPN only when nothing that runs uses its network
\* (engine.ts:448, 480).
THEOREM ClientsStopFirst ==
  OneRequest /\ OneProject /\ Undisturbed /\ Spec => ClientsFirst
<1> DEFINE First ==
      \A o \in Ops, i \in Ids :
        /\ flow'[o] # flow[o] /\ flow[o].pc # "giveUp"
        /\ Running(i) /\ ctr'[i].st = "stopped"
        => \A j \in Dependents(i) : ~Running(j)
<1>1. OneProject /\ Undisturbed /\ UnderWay /\ [Next]_vars => First
  <2> SUFFICES ASSUME OneProject, Undisturbed, UnderWay, [Next]_vars, NEW o \in Ops,
                      NEW i \in Ids, flow'[o] # flow[o], flow[o].pc # "giveUp",
                      Running(i), ctr'[i].st = "stopped", NEW j \in Dependents(i)
               PROVE  ~Running(j)
    OBVIOUS
  <2>1. ctr' # ctr
    BY DEF Running
  <2>2. flow[o].pc # "idle" /\ (ApplyStep(o) \/ Unanswered(o))
    BY <2>1, MovesAlone, CrashStops DEF UnderWay, Changes, Retains, Busy
  <2> QED
    BY <2>2, StopsClientless DEF UnderWay, Changes, Retains
<1>2. OneProject /\ Undisturbed /\ UnderWay /\ [Next]_vars => [First]_vars
  BY <1>1
<1>3. OneProject /\ Undisturbed => [](OneProject /\ Undisturbed)
  OBVIOUS
<1> QED
  BY ChangesUnderWay, <1>2, <1>3, PTL DEF Spec, ClientsFirst

-----------------------------------------------------------------------------
(* A rollback that failed leaves nothing running.                          *)

\* A stop of the emergency stop does what it was asked for: nobody looks
\* whether it did (engine.ts:491).
EmergencyStops == [][\A o \in Ops : StopEverything(o) => ctr' = Stopped(Asked(o))]_vars

\* What an emergency stop is for.
Endangered(o) == {Orig(o, k) : k \in Apps} \cup Members(flow[o].created)
\* The record of a running apply names nothing that the apply does not hold,
\* and does not say yet that the rollback failed; once the emergency stop is
\* over nothing of the change runs.
Truthful(o) ==
  flow[o].pc # "idle" =>
    /\ op[o].st # "rollback_failed" /\ flow[o].st # "rollback_failed"
    /\ Members(op[o].created) \subseteq Members(flow[o].created)
Silenced ==
  \A o \in Ops : /\ Truthful(o)
                 /\ flow[o].pc = "failed" => \A i \in Endangered(o) : ~Running(i)

\* What an apply writes unless it ends: it holds more than before, and what it
\* records it holds.
Writes(o) ==
  /\ flow'[o].pc = "failed" => StopEverything(o)
  /\ flow'[o].st \in {flow[o].st, "succeeded"}
  /\ Members(flow[o].created) \subseteq Members(flow'[o].created)
  /\ \/ op' = op
     \/ op'[o].st = flow'[o].st /\ op'[o].created = flow'[o].created

\* An apply goes to another place without a write.
LEMMA WritesNothing ==
  ASSUME TypeInv, NEW o \in Ops, flow[o].pc # "idle", NEW at,
         Goto(o, flow[o], at), at[1] = "failed" => StopEverything(o), op' = op
  PROVE  Writes(o)
<1>1. flow[o] \in FlowRec
  BY Flowing
<1>2. flow'[o].pc = at[1] /\ flow'[o].st = flow[o].st /\ flow'[o].created = flow[o].created
  BY <1>1, GotoFields
<1> QED
  BY <1>2 DEF Writes

\* So does one that waits.
LEMMA WritesWaiting ==
  ASSUME TypeInv, NEW o \in Ops, flow[o].pc # "idle", NEW can, NEW after, NEW at, NEW bad,
         Await(o, can, after, at, bad), at[1] # "failed", bad[1] # "failed", op' = op
  PROVE  Writes(o)
BY WritesNothing DEF Await

\* An apply records what it has done, or fails to.
LEMMA WritesRecord ==
  ASSUME TypeInv, NEW o \in Ops, flow[o].pc # "idle", NEW f \in FlowRec, NEW at,
         Recorded(o, f, at), at[1] # "failed", f.st = flow[o].st,
         Members(flow[o].created) \subseteq Members(f.created)
  PROVE  Writes(o)
<1>1. CASE op' = Journal(o, f) /\ Goto(o, f, at)
  <2>1. /\ flow'[o].pc = at[1] /\ flow'[o].st = f.st /\ flow'[o].created = f.created
    BY <1>1, GotoFields
  <2>2. op'[o].st = f.st /\ op'[o].created = f.created
    BY <1>1, JournalFields
  <2> QED
    BY <2>1, <2>2 DEF Writes
<1>2. CASE UNCHANGED op /\ Goto(o, f, Caught)
  <2>1. /\ flow'[o].pc = Caught[1] /\ flow'[o].st = f.st /\ flow'[o].created = f.created
    BY <1>2, GotoFields
  <2>2. Caught[1] # "failed"
    BY DEF Caught
  <2> QED
    BY <1>2, <2>1, <2>2 DEF Writes
<1> QED
  BY <1>1, <1>2 DEF Recorded

\* Every step of an apply writes so, or ends it, and only the last step of a
\* failed rollback says that it failed (engine.ts:436-501).
LEMMA ApplyWrites ==
  ASSUME TypeInv, NEW o \in Ops, ApplyStep(o)
  PROVE  /\ flow[o].pc # "idle"
         /\ \/ Writes(o)
            \/ /\ flow'[o] = IdleFlow
               /\ \/ op' = op \/ RollbackFailed(o)
                  \/ op'[o].st \in {"succeeded", "rolled_back"}
<1>0. flow \in [Ops -> FlowRec] /\ flow[o] \in FlowRec
  BY DEF TypeInv, TypeOK
<1>1. /\ Caught[1] # "failed" /\ GiveUp[1] # "failed"
      /\ \A loop, k, at : loop # "failed" /\ at[1] # "failed" => Then(loop, k, at)[1] # "failed"
      /\ \A k : AfterSlot(k)[1] # "failed" /\ AfterStart(k)[1] # "failed"
  BY DEF Caught, GiveUp, Then, AfterSlot, AfterStart
<1>2. \A st : [flow[o] EXCEPT !.st = st].st = st
  BY <1>0 DEF FlowRec
<1>3. ASSUME NEW st \in {"succeeded", "rolled_back"}, op' = Journal(o, [flow[o] EXCEPT !.st = st])
      PROVE  op'[o].st \in {"succeeded", "rolled_back"}
  <2>1. PICK g : g = [flow[o] EXCEPT !.st = st]
    OBVIOUS
  <2>2. op'[o].st = g.st
    BY <1>3, <2>1, JournalFields
  <2> QED
    BY <1>2, <2>1, <2>2
<1>4. End(o) => flow'[o] = IdleFlow
  BY <1>0 DEF End
<1>5. CASE ValidationFails(o)
  <2>1. flow[o].pc # "idle" /\ End(o) /\ (op' = op \/ op' = Undone(o))
    BY <1>5 DEF ValidationFails, Abandoned, AbandonBreaks
  <2> QED
    BY <1>3, <1>4, <2>1 DEF Undone
<1>6. CASE NothingToChange(o) \/ Commit(o)
  <2>1. /\ flow[o].pc # "idle" /\ End(o)
        /\ op' = Journal(o, [flow[o] EXCEPT !.st = "succeeded"])
    BY <1>6 DEF NothingToChange, Commit, Conclude
  <2> QED
    BY <1>3, <1>4, <2>1
<1>7. CASE Prepared(o)
  <2>1. flow[o].pc # "idle" /\ Goto(o, flow[o], <<"stop", 1>>) /\ op' = op
    BY <1>7 DEF Prepared, disk
  <2> QED
    BY <2>1, WritesNothing
<1>8. CASE StopOriginal(o)
  <2>1. PICK at : at = Then("stop", flow[o].k, <<"rename", 1>>)
    OBVIOUS
  <2>2. flow[o].pc # "idle" /\ op' = op /\ at[1] # "failed"
    BY <1>1, <1>8, <2>1 DEF StopOriginal
  <2>3. \/ \E can, after : Await(o, can, after, at, Caught)
        \/ Goto(o, flow[o], at)
    BY <1>8, <2>1 DEF StopOriginal
  <2> QED
    BY <1>1, <2>2, <2>3, WritesNothing, WritesWaiting
<1>9. CASE RenameOriginal(o)
  <2>1. PICK done : done = [flow[o] EXCEPT !.renamed = @ \cup {Orig(o, flow[o].k)}]
    OBVIOUS
  <2>2. flow[o].pc # "idle" /\ flow[o].pc = "rename"
    BY <1>9 DEF RenameOriginal
  <2>3. done.st = flow[o].st /\ done.created = flow[o].created
    BY <1>0, <2>1 DEF FlowRec
  <2>4. done \in FlowRec
    <3>1. Orig(o, flow[o].k) \in Ids
      BY <2>2, Flowing, OriginalTypes DEF Position, Loops
    <3> QED
      BY <1>0, <2>1, <3>1 DEF FlowRec
  <2>5. \/ Recorded(o, done, Then("rename", flow[o].k, <<"create", Vpn>>))
        \/ Goto(o, flow[o], Caught) /\ op' = op
    BY <1>9, <2>1 DEF RenameOriginal
  <2> QED
    BY <1>1, <2>2, <2>3, <2>4, <2>5, WritesNothing, WritesRecord
<1>10. CASE CreateReplacement(o)
  <2>1. PICK done : done = [flow[o] EXCEPT !.created = Append(@, FreshId)]
    OBVIOUS
  <2>2. PICK at : at = IF Wanted(o, flow[o].k) THEN <<"start", flow[o].k>>
                       ELSE AfterStart(flow[o].k)
    OBVIOUS
  <2>3. flow[o].pc # "idle" /\ flow[o].pc = "create" /\ at[1] # "failed"
    BY <1>1, <1>10, <2>2 DEF CreateReplacement
  <2>4. \/ /\ CanCreate(Snap(o)[flow[o].k].conf.name)
           /\ Recorded(o, done, at)
        \/ Goto(o, flow[o], Caught) /\ op' = op
    BY <1>10, <2>1, <2>2 DEF CreateReplacement
  <2>5. CASE CanCreate(Snap(o)[flow[o].k].conf.name) /\ Recorded(o, done, at)
    <3>1. FreshId \in Ids
      BY <2>3, <2>5, ReplacementTypes
    <3>2. flow[o].created \in Seq(Ids)
      BY <2>3, Flowing
    <3>3. done.st = flow[o].st /\ done.created = Append(flow[o].created, FreshId)
      BY <1>0, <2>1 DEF FlowRec
    <3>4. done \in FlowRec
      BY <1>0, <2>1, <3>1, <3>2, AppendProperties DEF FlowRec
    <3>5. Members(flow[o].created) \subseteq Members(done.created)
      BY <3>1, <3>2, <3>3, AppendProperties DEF Members
    <3> QED
      BY <2>3, <2>5, <3>3, <3>4, <3>5, WritesRecord
  <2> QED
    BY <1>1, <2>3, <2>4, <2>5, WritesNothing
<1>11. CASE StartReplacement(o) \/ AwaitReplacement(o) \/ VerifyNamespace(o)
  <2>1. /\ flow[o].pc # "idle" /\ op' = op
        /\ \E can, after, at : Await(o, can, after, at, Caught) /\ at[1] # "failed"
    BY <1>1, <1>11 DEF StartReplacement, AwaitReplacement, VerifyNamespace, still
  <2> QED
    BY <1>1, <2>1, WritesWaiting
<1>12. CASE CommitFails(o)
  <2>1. /\ flow[o].pc # "idle" /\ op' = op
        /\ Goto(o, flow[o], Caught) \/ Goto(o, [flow[o] EXCEPT !.st = "succeeded"], Caught)
    BY <1>12 DEF CommitFails
  <2>2. CASE Goto(o, [flow[o] EXCEPT !.st = "succeeded"], Caught)
    <3>1. PICK f : f = [flow[o] EXCEPT !.st = "succeeded"]
      OBVIOUS
    <3>2. f \in FlowRec /\ f.st = "succeeded" /\ f.created = flow[o].created
      BY <1>0, <3>1 DEF FlowRec, OpStatus
    <3>3. flow'[o].pc = Caught[1] /\ flow'[o].st = f.st /\ flow'[o].created = f.created
      BY <2>2, <3>1, <3>2, GotoFields
    <3> QED
      BY <1>1, <2>1, <3>2, <3>3 DEF Writes
  <2> QED
    BY <1>1, <2>1, <2>2, WritesNothing
<1>13. CASE BeginRollback(o)
  <2>1. PICK at : at = IF Len(flow[o].created) > 0 THEN <<"discard", Len(flow[o].created)>>
                       ELSE <<"rename back", 1>>
    OBVIOUS
  <2>2. at[1] # "failed" /\ flow[o].pc # "idle"
    BY <1>13, <2>1 DEF BeginRollback
  <2>3. CASE op' = Journal(o, flow[o]) /\ Goto(o, flow[o], at)
    <3>1. flow'[o].pc = at[1] /\ flow'[o].st = flow[o].st /\ flow'[o].created = flow[o].created
      BY <1>0, <2>3, GotoFields
    <3>2. op'[o].st = flow[o].st /\ op'[o].created = flow[o].created
      BY <2>3, JournalFields
    <3> QED
      BY <2>2, <3>1, <3>2 DEF Writes
  <2>4. CASE op' = op /\ Goto(o, flow[o], GiveUp)
    BY <1>1, <2>2, <2>4, WritesNothing
  <2> QED
    BY <1>13, <2>1, <2>2, <2>3, <2>4 DEF BeginRollback
<1>14. CASE DiscardReplacement(o)
  <2>1. PICK at : at = IF flow[o].k > 1 THEN <<"discard", flow[o].k - 1>>
                       ELSE <<"rename back", 1>>
    OBVIOUS
  <2>2. flow[o].pc # "idle" /\ op' = op /\ at[1] # "failed"
    BY <1>14, <2>1 DEF DiscardReplacement, still
  <2>3. \/ \E can, after : Await(o, can, after, <<"remove", flow[o].k>>, GiveUp)
        \/ \E can, after : Await(o, can, after, at, GiveUp)
    BY <1>14, <2>1 DEF DiscardReplacement
  <2> QED
    BY <1>1, <2>2, <2>3, WritesWaiting
<1>15. CASE RestoreName(o)
  <2>1. PICK at : at = Then("rename back", flow[o].k, <<"disown", 0>>)
    OBVIOUS
  <2>2. /\ flow[o].pc # "idle" /\ op' = op /\ at[1] # "failed"
        /\ Goto(o, flow[o], at) \/ \E can, after : Await(o, can, after, at, GiveUp)
    BY <1>1, <1>15, <2>1 DEF RestoreName, still
  <2> QED
    BY <1>1, <2>2, WritesNothing, WritesWaiting
<1>16. CASE RestoreOwnership(o)
  <2>1. /\ flow[o].pc # "idle" /\ op' = op
        /\ Goto(o, flow[o], <<"restart", 1>>) \/ Goto(o, flow[o], GiveUp)
    BY <1>16 DEF RestoreOwnership
  <2> QED
    BY <1>1, <2>1, WritesNothing
<1>17. CASE RestartOriginal(o)
  <2>1. PICK at : at = Then("restart", flow[o].k, <<"restored", 0>>)
    OBVIOUS
  <2>2. /\ flow[o].pc # "idle" /\ op' = op /\ at[1] # "failed"
        /\ \/ Goto(o, flow[o], at)
           \/ \E can, after, to : Await(o, can, after, to, GiveUp) /\ to[1] # "failed"
    BY <1>1, <1>17, <2>1 DEF RestartOriginal, still
  <2> QED
    BY <1>1, <2>2, WritesNothing, WritesWaiting
<1>18. CASE RolledBack(o)
  <2>1. CASE Conclude(o, [flow[o] EXCEPT !.st = "rolled_back"])
    <3>1. End(o) /\ op' = Journal(o, [flow[o] EXCEPT !.st = "rolled_back"])
      BY <2>1 DEF Conclude
    <3> QED
      BY <1>3, <1>4, <1>18, <3>1 DEF RolledBack
  <2>2. CASE Goto(o, flow[o], GiveUp) /\ op' = op
    BY <1>1, <1>18, <2>2, WritesNothing DEF RolledBack
  <2> QED
    BY <1>18, <2>1, <2>2 DEF RolledBack
<1>19. CASE StopEverything(o)
  <2>1. flow[o].pc # "idle" /\ op' = op /\ Goto(o, flow[o], <<"failed", 0>>)
    BY <1>19 DEF StopEverything, still
  <2> QED
    BY <1>19, <2>1, WritesNothing
<1>20. CASE RollbackFailed(o)
  <2>1. flow[o].pc # "idle" /\ End(o)
    BY <1>20 DEF RollbackFailed, Conclude
  <2> QED
    BY <1>4, <1>20, <2>1
<1> QED
  BY <1>5, <1>6, <1>7, <1>8, <1>9, <1>10, <1>11, <1>12, <1>13, <1>14, <1>15, <1>16,
     <1>17, <1>18, <1>19, <1>20 DEF ApplyStep

\* An apply that begins holds nothing, and says nothing yet.
LEMMA BeginTruthful ==
  ASSUME TypeInv, NEW o \in Ops, NEW l \in Plans, ApplyBegin(o, l), flow'[o].pc # "idle"
  PROVE  Truthful(o)' /\ flow'[o].pc = "validate"
<1> DEFINE f == [IdleFlow EXCEPT !.pc = "validate", !.st = "applying",
                                 !.own = proj[plan[l].project]]
<1>1. flow' = [flow EXCEPT ![o] = f] /\ op' = [op EXCEPT ![o] = Start(l)]
  BY DEF ApplyBegin
<1>2. f.pc = "validate" /\ f.st = "applying"
  BY DEF IdleFlow
<1>3. Start(l).st = "applying" /\ Members(Start(l).created) = {}
  BY DEF Start, NoOp, Members
<1>4. flow \in [Ops -> FlowRec] /\ op \in [Ops -> OpRec]
  BY DEF TypeInv, TypeOK
<1>5. flow'[o] = f /\ op'[o] = Start(l)
  BY <1>1, <1>4
<1> HIDE DEF f
<1> QED
  BY <1>2, <1>3, <1>5 DEF Truthful

\* The emergency stop stops what it is for (engine.ts:491).
LEMMA StopSilences ==
  ASSUME TypeInv, Exclusion, NEW o \in Ops, StopEverything(o), ctr' = Stopped(Asked(o)),
         [Next]_vars
  PROVE  \A i \in Endangered(o)' : ~Running(i)'
<1>1. /\ flow[o].pc # "idle" /\ o \in Live /\ flow[o] \in FlowRec
      /\ ctr \in [Ids -> Containers] /\ DOMAIN flow[o].created = 1..Len(flow[o].created)
      /\ flow[o].created \in Seq(Ids)
  BY Flowing, OldTypes, FlowPlaced DEF StopEverything
<1>2. flow'[o].created = flow[o].created
  BY <1>1, GotoFields DEF StopEverything
<1>3. \A k \in Apps : Orig(o, k)' = Orig(o, k)
  BY <1>1, ReadsFixed DEF Exclusion
<1>4. Endangered(o)' = Endangered(o)
  BY <1>2, <1>3 DEF Endangered, Members
<1>5. Endangered(o) \subseteq Ids
  BY <1>1, OriginalTypes DEF Endangered, Members, Apps
<1>6. \A i \in Endangered(o) : Running(i) => i \in Asked(o)
  BY DEF Endangered, Asked
<1>7. \A i \in Ids : /\ i \in Asked(o) => ctr'[i] = [ctr[i] EXCEPT !.st = "stopped"]
                     /\ i \notin Asked(o) => ctr'[i] = ctr[i]
  BY DEF Stopped
<1>8. \A i \in Ids : [ctr[i] EXCEPT !.st = "stopped"].st = "stopped"
  BY <1>1 DEF Containers
<1> QED
  BY <1>4, <1>5, <1>6, <1>7, <1>8 DEF Running

\* Nothing of a change runs once its emergency stop is over.
LEMMA StepSilenced ==
  ASSUME Undisturbed, OneProject, TypeInv, Exclusion, AdoptedFirst, Silenced, [Next]_vars,
         \A o \in Ops : StopEverything(o) => ctr' = Stopped(Asked(o))
  PROVE  Silenced'
<1> SUFFICES ASSUME NEW o \in Ops, flow'[o].pc # "idle"
             PROVE  /\ Truthful(o)'
                    /\ flow'[o].pc = "failed" => \A i \in Endangered(o)' : ~Running(i)'
  <2>1. \A o \in Ops : flow'[o].pc = "idle" => Truthful(o)' /\ flow'[o].pc # "failed"
    BY DEF Truthful
  <2> QED
    BY <2>1 DEF Silenced
<1>1. Truthful(o)
  BY DEF Silenced
<1>2. CASE flow[o].pc = "idle"
  <2>1. PICK l \in Plans : ApplyBegin(o, l)
    BY <1>2, FlowBegins
  <2> QED
    BY <2>1, BeginTruthful
<1>3. CASE ApplyStep(o)
  <2>1. IdleFlow.pc = "idle"
    BY DEF IdleFlow
  <2>2. flow[o].pc # "idle" /\ Writes(o)
    BY <1>3, <2>1, ApplyWrites
  <2> QED
    BY <1>1, <2>2, StopSilences DEF Truthful, Writes
<1>4. CASE UNCHANGED <<ctr, op, flow>> /\ flow[o].pc # "idle"
  <2>1. \A k : Orig(o, k)' = Orig(o, k)
    BY <1>4, Flowing, ReadsFixed DEF Exclusion
  <2>2. Endangered(o)' = Endangered(o)
    BY <1>4, <2>1 DEF Endangered, Members
  <2>3. Truthful(o)'
    BY <1>1, <1>4 DEF Truthful, Members
  <2> QED
    BY <1>4, <2>2, <2>3 DEF Silenced, Running
<1>5. ~Crash
  BY DEF Crash, IdleFlow
<1> QED
  BY <1>2, <1>3, <1>4, <1>5, OnlyApply

\* Nobody else says that a rollback failed.
LEMMA FailureBy ==
  ASSUME TypeInv, Silenced, [Next]_vars, NEW o \in Ops,
         op[o].st # "rollback_failed", op'[o].st = "rollback_failed"
  PROVE  flow[o].pc = "failed"
<1>1. ~Aside
  BY AsideKeeps
<1>2. ~Crash
  BY RestartMarks DEF Crash
<1>3. ASSUME NEW q \in Ops, NEW l \in Plans, ApplyBegin(q, l)
      PROVE  FALSE
  <2>1. /\ Start(l).st = "applying"
        /\ [Start(l) EXCEPT !.st = "rolled_back"].st = "rolled_back"
    BY DEF Start, NoOp
  <2>2. \/ op' = op \/ op' = [op EXCEPT ![q] = Start(l)]
        \/ op' = [op EXCEPT ![q] = [Start(l) EXCEPT !.st = "rolled_back"]]
    BY <1>3 DEF ApplyBegin
  <2>3. op \in [Ops -> OpRec]
    BY OldTypes
  <2> QED
    BY <2>1, <2>2, <2>3
<1>4. ASSUME NEW q \in Ops, ApplyStep(q)
      PROVE  flow[o].pc = "failed"
  <2>1. CASE q # o
    <3>1. flow[q].pc # "idle" /\ q \in Live
      BY <1>4, ApplyWrites, Flowing
    <3>2. op' = op \/ \E g : op' = Journal(q, g)
      BY <1>4, ApplyShapes DEF ApplyShape
    <3> QED
      BY <2>1, <3>2, JournalFields
  <2>2. CASE q = o
    <3>1. Truthful(o) /\ flow[o].pc # "idle"
      BY <1>4, <2>2, ApplyWrites DEF Silenced
    <3>2. ~Writes(o)
      BY <3>1 DEF Writes, Truthful
    <3>3. RollbackFailed(o)
      BY <1>4, <2>2, <3>2, ApplyWrites
    <3> QED
      BY <3>3 DEF RollbackFailed
  <2> QED
    BY <2>1, <2>2
<1>5. ASSUME NEW q \in Ops
      PROVE  ~CleanupBegin(q) /\ ~CleanupStep(q)
  BY CleanupStepMarks DEF CleanupBegin, Marked
<1>6. ASSUME NEW r \in Requests, RecoveryConfirm(r)
      PROVE  FALSE
  <2>1. req[r].op \in Ops
    BY <1>6 DEF RecoveryConfirm, TypeInv, RequestsOK, Live
  <2> QED
    BY <1>6, <2>1, ConfirmMarks
<1> QED
  BY <1>1, <1>2, <1>3, <1>4, <1>5, <1>6, NextCases

\* When the journal says that a rollback failed, no application and no
\* replacement runs, if the emergency stop does what it was asked for
\* (engine.ts:490-494).
THEOREM FailuresStop ==
  OneRequest /\ OneProject /\ Undisturbed /\ Spec /\ EmergencyStops => FailedMeansStopped
<1> DEFINE Stops == \A o \in Ops : StopEverything(o) => ctr' = Stopped(Asked(o))
           Down == \A o \in Ops : Becomes(o, "rollback_failed") =>
                     /\ \A k \in Apps : ~Running(Orig(o, k))
                     /\ \A k \in DOMAIN op[o].created : ~Running(op[o].created[k])
<1>1. Init => Silenced
  <2>1. IdleFlow.pc = "idle"
    BY DEF IdleFlow
  <2> QED
    BY <2>1 DEF Init, Silenced, Truthful
<1>2. Undisturbed /\ OneProject /\ TypeInv /\ Exclusion /\ AdoptedFirst /\ Silenced
      /\ [Next]_vars /\ Stops => Silenced'
  <2> SUFFICES ASSUME Undisturbed, OneProject, TypeInv, Exclusion, AdoptedFirst, Silenced,
                      [Next]_vars, Stops
               PROVE  Silenced'
    OBVIOUS
  <2> QED
    BY StepSilenced
<1>3. TypeInv /\ Silenced /\ [Next]_vars => Down
  <2> SUFFICES ASSUME TypeInv, Silenced, [Next]_vars, NEW o \in Ops,
                      op[o].st # "rollback_failed", op'[o].st = "rollback_failed"
               PROVE  /\ \A k \in Apps : ~Running(Orig(o, k))
                      /\ \A k \in DOMAIN op[o].created : ~Running(op[o].created[k])
    BY DEF Becomes
  <2>1. flow[o].pc = "failed"
    BY FailureBy
  <2>2. /\ \A i \in Endangered(o) : ~Running(i)
        /\ Members(op[o].created) \subseteq Members(flow[o].created)
    BY <2>1 DEF Silenced, Truthful
  <2> QED
    BY <2>2 DEF Endangered, Members
<1>4. Undisturbed /\ OneProject => [](Undisturbed /\ OneProject)
  OBVIOUS
<1>5. OneRequest /\ OneProject /\ Spec => [](TypeInv /\ Exclusion /\ AdoptedFirst)
  <2>1. Retains /\ CleanupVetted => TypeInv /\ Exclusion /\ AdoptedFirst
    BY DEF Retains
  <2> QED
    BY <2>1, Retained, PTL
<1>6. TypeInv /\ UNCHANGED vars => Stops
  <2> SUFFICES ASSUME TypeInv, UNCHANGED vars, NEW o \in Ops, StopEverything(o)
               PROVE  FALSE
    OBVIOUS
  <2>1. flow[o] \in FlowRec /\ flow[o].pc = "giveUp"
    BY DEF StopEverything, TypeInv, TypeOK
  <2>2. flow'[o].pc = "failed"
    BY <2>1, GotoFields DEF StopEverything
  <2> QED
    BY <2>1, <2>2 DEF vars, memory
<1>7. TypeInv /\ [Stops]_vars => Stops
  BY <1>6
<1>8. TypeInv /\ Silenced /\ [Next]_vars => [Down]_vars
  BY <1>3
<1> QED
  BY <1>1, <1>2, <1>4, <1>5, <1>7, <1>8, PTL DEF Spec, EmergencyStops, FailedMeansStopped
=============================================================================
