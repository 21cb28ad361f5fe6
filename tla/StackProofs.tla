---------------------------- MODULE StackProofs -----------------------------
(***************************************************************************)
(* Proofs about the managed-stack engine, for every number of services,    *)
(* operations, plans, projects and faults. Its state is well typed. Its    *)
(* operations keep out of each other's way: whatever fails or crashes, one *)
(* project has at most one unfinished operation and at most one worker,    *)
(* provided the owner confirms one recovery at a time. While the journal   *)
(* can be written, each operation then goes through the statuses that      *)
(* ChangeLifecycle describes.                                              *)
(***************************************************************************)
EXTENDS StackProperties, SequenceTheorems, TLAPS

-----------------------------------------------------------------------------
(* The tables of containers that Docker's operations lead to.              *)

\* A stack has at least its VPN, and a slot is a number.
LEMMA SlotFacts == /\ Size \in Nat /\ Size >= 1
                   /\ Vpn \in Slots /\ Size \in Slots
                   /\ \A k \in Slots : k \in Nat /\ 1 <= k /\ k <= Size
BY DockerAssumption, SMT DEF Slots, Vpn

\* Renaming, starting and removing lead to a table of containers, and what
\* inspect shows of one is a snapshot.
LEMMA DockerTypes ==
  ASSUME ctr \in [Ids -> Containers], NEW i \in Ids
  PROVE  /\ \A n \in Names : Renamed(i, n) \in [Ids -> Containers]
         /\ Started(i) \in [Ids -> Containers]
         /\ RemovedC(i) \in [Ids -> Containers]
         /\ ConfOf(i) \in Confs /\ Seen(i) \in Snapshots
<1>1. ctr[i] \in Containers
  OBVIOUS
<1>2. \A n \in Names : Renamed(i, n) \in [Ids -> Containers]
  BY <1>1 DEF Renamed, Containers
<1>3. Started(i) \in [Ids -> Containers]
  BY <1>1 DEF Started, Containers, States
<1>4. RemovedC(i) \in [Ids -> Containers]
  BY <1>1 DEF RemovedC, Containers, States
<1>5. ConfOf(i) \in Confs
  BY <1>1 DEF ConfOf, Confs, Containers
<1>6. Seen(i) \in Snapshots
  BY <1>5 DEF Seen, Snapshots, Running
<1> QED
  BY <1>2, <1>3, <1>4, <1>5, <1>6

\* Stopping any set of containers leads to a table of containers.
LEMMA StoppedTypes ==
  ASSUME ctr \in [Ids -> Containers], NEW S
  PROVE  Stopped(S) \in [Ids -> Containers]
<1>1. \A i \in Ids : [ctr[i] EXCEPT !.st = "stopped"] \in Containers
  BY DEF Containers, States
<1> QED
  BY <1>1 DEF Stopped

\* Creating leads to a table of containers, and its container is a new one.
LEMMA CreatedTypes ==
  ASSUME ctr \in [Ids -> Containers], UnusedIds # {},
         NEW n \in Names, NEW c \in Cfgs, NEW v \in Ids \cup {NoId}
  PROVE  FreshId \in Ids /\ Created(n, c, v) \in [Ids -> Containers]
<1>1. FreshId \in Ids
  BY DEF FreshId, UnusedIds
<1>2. [st |-> "stopped", name |-> n, cfg |-> c, ns |-> v] \in Containers
  BY DEF Containers, States
<1> QED
  BY <1>1, <1>2 DEF Created
-----------------------------------------------------------------------------
(* What a started operation refers to.                                     *)

\* A started operation refers to a stored plan.
LEMMA PlanTypes ==
  ASSUME TypeInv, NEW o \in Ops, o \in Live
  PROVE  /\ Plan(o) \in PlanRec /\ op[o].plan \in Plans
         /\ Project(o) \in Projects
         /\ Snap(o) \in [Slots -> Snapshots]
         /\ Plan(o).cfg \in Cfgs
         /\ Plan(o).base \in [Slots -> Confs] \cup {<<>>}
<1>1. Plan(o) \in PlanRec /\ op[o].plan \in Plans
  <2>1. op[o].plan \in Plans /\ Plan(o).st # "none"
    BY DEF TypeInv, LiveOK
  <2>2. Plan(o) \in PlanRec \cup {NoPlanRec}
    BY <2>1 DEF TypeInv, TypeOK, Plan
  <2> QED
    BY <2>1, <2>2 DEF NoPlanRec
<1>2. /\ Plan(o).project \in Projects /\ Plan(o).snap \in [Slots -> Snapshots]
      /\ Plan(o).cfg \in Cfgs /\ Plan(o).base \in [Slots -> Confs] \cup {<<>>}
  BY <1>1 DEF PlanRec
<1> QED
  BY <1>1, <1>2 DEF Project, Snap, Plan

\* The containers, names and configurations that an operation reads from its
\* plan.
LEMMA OriginalTypes ==
  ASSUME TypeInv, NEW o \in Ops, o \in Live, NEW k \in Slots
  PROVE  /\ Orig(o, k) \in Ids
         /\ Snap(o)[k].conf.name \in Names
         /\ Backup(o, k) \in Names
         /\ Snap(o)[k].conf.cfg \in Cfgs
         /\ Snap(o)[k].conf.ns \in Ids \cup {NoId}
         /\ Originals(o) \in Stacks
<1>1. \A j \in Slots : Snap(o)[j].conf \in Confs
  BY PlanTypes DEF Snapshots
<1>2. \A j \in Slots : Snap(o)[j].conf.id \in Ids
  BY <1>1 DEF Confs
<1>3. /\ Snap(o)[k].conf.name \in Names /\ Snap(o)[k].conf.cfg \in Cfgs
      /\ Snap(o)[k].conf.ns \in Ids \cup {NoId}
  BY <1>1 DEF Confs
<1>4. Backup(o, k) \in Names
  BY <1>3 DEF Backup, Names
<1> QED
  BY <1>2, <1>3, <1>4 DEF Orig, Originals, Stacks

\* Writing the record of a flow keeps the journal in shape, begins no operation
\* and changes no plan.
LEMMA JournalTypes ==
  ASSUME TypeInv, NEW o \in Ops, o \in Live, NEW g \in FlowRec, g.st # "none"
  PROVE  /\ Journal(o, g) \in [Ops -> OpRec]
         /\ \A q \in Ops : Journal(o, g)[q].plan = op[q].plan
         /\ \A q \in Ops : Journal(o, g)[q].st = "none" <=> op[q].st = "none"
<1> DEFINE rec == [op[o] EXCEPT !.st = g.st, !.created = g.created,
                                !.renamed = g.renamed]
<1>1. op \in [Ops -> OpRec] /\ op[o] \in OpRec
  BY DEF TypeInv, TypeOK
<1>2. g.st \in OpStatus /\ g.created \in Seq(Ids) /\ g.renamed \in SUBSET Ids
  BY DEF FlowRec
<1>3. rec \in OpRec /\ rec.st = g.st /\ rec.plan = op[o].plan
  BY <1>1, <1>2 DEF OpRec
<1>4. Journal(o, g) = [op EXCEPT ![o] = rec]
  BY <1>1 DEF Journal
<1>5. op[o].st # "none"
  BY DEF Live
<1> QED
  BY <1>1, <1>3, <1>4, <1>5

\* Every step of an apply has this shape.
LEMMA FlowChange ==
  ASSUME TypeInv, NEW o \in Ops, flow[o].pc # "idle",
         NEW f \in FlowRec, flow' = [flow EXCEPT ![o] = f],
         f.pc # "idle" => f.st # "none" /\ Position(f),
         ctr' \in [Ids -> Containers],
         proj' \in [Projects -> Stacks \cup {<<>>}],
         base' \in [Projects -> [Slots -> Confs] \cup {<<>>}],
         \/ op' = op
         \/ \E g \in FlowRec : g.st # "none" /\ op' = Journal(o, g),
         locks' \subseteq Projects, faults' \in 0..MaxFaults,
         UNCHANGED <<plan, reviews, clean, draft, adopting, req>>
  PROVE  TypeInv'
<1>1. o \in Live
  BY DEF TypeInv, FlowOK
<1>2. /\ op' \in [Ops -> OpRec]
      /\ \A q \in Ops : op'[q].plan = op[q].plan
      /\ \A q \in Ops : op'[q].st = "none" <=> op[q].st = "none"
  BY <1>1, JournalTypes DEF TypeInv, TypeOK
<1>3. Live' = Live
  BY <1>2 DEF Live
<1>4. flow' \in [Ops -> FlowRec]
  BY DEF TypeInv, TypeOK
<1>5. TypeOK'
  BY <1>2, <1>4 DEF TypeInv, TypeOK
<1>6. LiveOK'
  BY <1>2, <1>3 DEF TypeInv, LiveOK, Plan, Live
<1>7. FlowOK'
  <2> SUFFICES ASSUME NEW q \in Ops, flow'[q].pc # "idle"
               PROVE  q \in Live /\ flow'[q].st # "none" /\ Position(flow'[q])
    BY <1>3 DEF FlowOK, Position
  <2>1. CASE q = o
    BY <2>1, <1>1 DEF TypeInv, TypeOK
  <2>2. CASE q # o
    BY <2>2 DEF TypeInv, TypeOK, FlowOK
  <2> QED
    BY <2>1, <2>2
<1>8. CleanOK' /\ RequestsOK'
  BY <1>3 DEF TypeInv, CleanOK, RequestsOK
<1> QED
  BY <1>5, <1>6, <1>7, <1>8 DEF TypeInv
\* What is known of an apply that is under way.
LEMMA Flowing ==
  ASSUME TypeInv, NEW o \in Ops, flow[o].pc # "idle"
  PROVE  /\ o \in Live /\ flow[o] \in FlowRec /\ flow[o].st # "none"
         /\ flow[o].pc \in Points /\ flow[o].k \in 0..Size
         /\ flow[o].st \in OpStatus /\ flow[o].renamed \in SUBSET Ids
         /\ flow[o].own \in Stacks \cup {<<>>}
         /\ flow[o].created \in Seq(Ids) /\ Len(flow[o].created) \in Nat
         /\ Position(flow[o]) /\ Len(flow[o].created) <= Size
<1>1. flow[o] \in FlowRec
  BY DEF TypeInv, TypeOK
<1>2. o \in Live /\ flow[o].st # "none" /\ Position(flow[o])
  BY DEF TypeInv, FlowOK
<1> QED
  BY <1>1, <1>2 DEF FlowRec, Position

\* Trouble is counted up to its bound.
LEMMA FaultTypes ==
  ASSUME TypeInv, NEW kind, Fault(kind)
  PROVE  faults' \in 0..MaxFaults
BY StackAssumption DEF TypeInv, TypeOK, Fault

\* The record that Goto leaves behind.
LEMMA GotoTypes ==
  ASSUME TypeInv, NEW o \in Ops, NEW f \in FlowRec, NEW at,
         at[1] \in Points, at[2] \in 0..Size, Goto(o, f, at)
  PROVE  \E g \in FlowRec :
           /\ flow' = [flow EXCEPT ![o] = g]
           /\ g.pc = at[1] /\ g.k = at[2] /\ g.st = f.st
           /\ g.created = f.created /\ g.renamed = f.renamed
<1> DEFINE g == [f EXCEPT !.pc = at[1], !.k = at[2]]
<1>1. g \in FlowRec
  BY DEF FlowRec
<1>2. /\ g.pc = at[1] /\ g.k = at[2] /\ g.st = f.st
      /\ g.created = f.created /\ g.renamed = f.renamed
  BY DEF FlowRec
<1>3. flow' = [flow EXCEPT ![o] = g]
  BY DEF Goto
<1> QED
  BY <1>1, <1>2, <1>3

\* The replacements of record f fit the place where the apply goes on.
Fits(f, at) ==
  LET n == Len(f.created)
  IN /\ at[1] \in {"validate", "stop", "rename"} => n = 0
     /\ at[1] \in Loops => at[2] \in Slots
     /\ at[1] = "create" => n = at[2] - 1
     /\ at[1] \in {"start", "health", "verify"} => n = at[2]
     /\ at[1] = "commit" => n = Size
     /\ at[1] \in Discards => at[2] \in 1..n

\* A step of an apply that goes on, or that ends up in a catch block.
LEMMA StepTo ==
  ASSUME TypeInv, NEW o \in Ops, flow[o].pc # "idle",
         NEW f \in FlowRec, f.st # "none", Len(f.created) <= Size,
         \/ Goto(o, f, Caught) \/ Goto(o, f, GiveUp)
         \/ \E at \in Points \X (0..Size) : Goto(o, f, at) /\ Fits(f, at),
         ctr' \in [Ids -> Containers],
         proj' \in [Projects -> Stacks \cup {<<>>}],
         base' \in [Projects -> [Slots -> Confs] \cup {<<>>}],
         \/ op' = op
         \/ \E g \in FlowRec : g.st # "none" /\ op' = Journal(o, g),
         locks' \subseteq Projects, faults' \in 0..MaxFaults,
         UNCHANGED <<plan, reviews, clean, draft, adopting, req>>
  PROVE  TypeInv'
<1>1. \E g \in FlowRec : /\ flow' = [flow EXCEPT ![o] = g]
                         /\ g.st # "none" /\ Position(g)
  <2>1. CASE Goto(o, f, Caught)
    <3>1. PICK g \in FlowRec :
            /\ flow' = [flow EXCEPT ![o] = g] /\ g.pc = "caught"
            /\ g.st = f.st /\ g.created = f.created
      BY <2>1, GotoTypes, SlotFacts DEF Caught, Points
    <3> QED
      BY <3>1 DEF Position, Loops, Discards
  <2>2. CASE Goto(o, f, GiveUp)
    <3>1. PICK g \in FlowRec :
            /\ flow' = [flow EXCEPT ![o] = g] /\ g.pc = "giveUp"
            /\ g.st = f.st /\ g.created = f.created
      BY <2>2, GotoTypes, SlotFacts DEF GiveUp, Points
    <3> QED
      BY <3>1 DEF Position, Loops, Discards
  <2>3. ASSUME NEW at \in Points \X (0..Size), Goto(o, f, at), Fits(f, at)
        PROVE  \E g \in FlowRec : /\ flow' = [flow EXCEPT ![o] = g]
                                  /\ g.st # "none" /\ Position(g)
    <3>1. PICK g \in FlowRec :
            /\ flow' = [flow EXCEPT ![o] = g]
            /\ g.pc = at[1] /\ g.k = at[2]
            /\ g.st = f.st /\ g.created = f.created
      BY <2>3, GotoTypes
    <3> QED
      BY <3>1, <2>3 DEF Position, Fits
  <2> QED
    BY <2>1, <2>2, <2>3
<1> QED
  BY <1>1, FlowChange
-----------------------------------------------------------------------------
(* The steps of an apply.                                                  *)

\* The types of the variables a step may leave alone.
LEMMA OldTypes ==
  ASSUME TypeInv
  PROVE  /\ ctr \in [Ids -> Containers]
         /\ proj \in [Projects -> Stacks \cup {<<>>}]
         /\ base \in [Projects -> [Slots -> Confs] \cup {<<>>}]
         /\ op \in [Ops -> OpRec]
         /\ locks \subseteq Projects /\ faults \in 0..MaxFaults
BY DEF TypeInv, TypeOK

\* The slots that the loops over a stack move to.
LEMMA SlotMoves ==
  ASSUME NEW k \in Slots
  PROVE  /\ StopSlot(k) \in Slots
         /\ k < Size => k + 1 \in Slots /\ k + 1 \in 0..Size
         /\ ~(k < Size) => k = Size
         /\ k \in 0..Size
BY SlotFacts, SMT DEF StopSlot, Slots, Vpn

\* Stopping an original keeps the types (engine.ts:448-450).
LEMMA StopOriginalTypes ==
  ASSUME TypeInv, NEW o \in Ops, StopOriginal(o)
  PROVE  TypeInv'
<1> DEFINE k == flow[o].k
           i == Orig(o, StopSlot(k))
           at == Then("stop", k, <<"rename", 1>>)
<1>1. /\ flow[o].pc = "stop" /\ k \in Slots /\ Len(flow[o].created) = 0
      /\ o \in Live /\ i \in Ids
  BY Flowing, OriginalTypes, SlotMoves DEF StopOriginal, Position, Loops
<1>2. at \in Points \X (0..Size) /\ at[1] \in {"stop", "rename"} /\ at[2] \in Slots
  BY <1>1, SlotMoves, SlotFacts DEF Then, Points, Loops, Vpn
<1>3. Goto(o, flow[o], at) \/ Goto(o, flow[o], Caught)
  BY DEF StopOriginal, Await
<1>4. ctr' \in [Ids -> Containers] /\ faults' \in 0..MaxFaults
  BY <1>1, OldTypes, StoppedTypes, FaultTypes DEF StopOriginal, Await, Refused
<1>5. UNCHANGED <<op, still>>
  BY DEF StopOriginal
<1>6. Fits(flow[o], at)
  BY <1>1, <1>2 DEF Fits, Discards
<1>7. flow[o].pc # "idle"
  BY <1>1
<1>8. flow[o] \in FlowRec /\ flow[o].st # "none" /\ Len(flow[o].created) <= Size
  BY <1>7, Flowing
<1> QED
  BY <1>2, <1>3, <1>4, <1>5, <1>6, <1>7, <1>8, StepTo, OldTypes DEF still

\* Renaming an original keeps the types (engine.ts:451-455).
LEMMA RenameOriginalTypes ==
  ASSUME TypeInv, NEW o \in Ops, RenameOriginal(o)
  PROVE  TypeInv'
<1> DEFINE k == flow[o].k
           i == Orig(o, k)
           done == [flow[o] EXCEPT !.renamed = @ \cup {i}]
           at == Then("rename", k, <<"create", Vpn>>)
<1>1. /\ flow[o].pc = "rename" /\ k \in Slots /\ Len(flow[o].created) = 0
      /\ o \in Live /\ i \in Ids /\ Backup(o, k) \in Names
  BY Flowing, OriginalTypes DEF RenameOriginal, Position, Loops
<1>2. /\ flow[o].pc # "idle" /\ flow[o] \in FlowRec /\ flow[o].st # "none"
  BY <1>1, Flowing
<1>3. /\ done \in FlowRec /\ done.st # "none"
      /\ done.created = flow[o].created
  BY <1>1, <1>2 DEF FlowRec
<1>4. /\ at \in Points \X (0..Size) /\ at[2] \in Slots
      /\ at[1] = "rename" \/ (at[1] = "create" /\ at[2] = 1)
  BY <1>1, SlotMoves, SlotFacts DEF Then, Points, Loops, Vpn
<1>5. ctr' \in [Ids -> Containers] /\ faults' \in 0..MaxFaults
  BY <1>1, OldTypes, DockerTypes, FaultTypes DEF RenameOriginal, Recorded, Refused
<1>6. UNCHANGED still
  BY DEF RenameOriginal
<1>7. Fits(done, at) /\ Len(done.created) <= Size
  BY <1>1, <1>3, <1>4, SlotFacts DEF Fits, Discards
<1>8. CASE Recorded(o, done, at)
  <2>1. \/ op' = Journal(o, done) /\ Goto(o, done, at)
        \/ op' = op /\ Goto(o, done, Caught)
    BY <1>8 DEF Recorded
  <2>2. op' = op \/ \E g \in FlowRec : g.st # "none" /\ op' = Journal(o, g)
    BY <2>1, <1>3
  <2> QED
    BY <2>1, <2>2, <1>2, <1>3, <1>4, <1>5, <1>6, <1>7, StepTo, OldTypes DEF still
<1>9. CASE Goto(o, flow[o], Caught) /\ op' = op
  BY <1>9, <1>2, <1>3, <1>5, <1>6, <1>7, StepTo, OldTypes DEF still
<1> QED
  BY <1>8, <1>9 DEF RenameOriginal

\* Where an apply goes once slot k has a replacement.
LEMMA NextSlot ==
  ASSUME NEW k \in Slots
  PROVE  /\ AfterSlot(k) \in Points \X (0..Size)
         /\ \/ AfterSlot(k)[1] = "create" /\ AfterSlot(k)[2] = k + 1
               /\ k + 1 \in Slots
            \/ AfterSlot(k)[1] = "commit" /\ k = Size
         /\ AfterStart(k) = AfterSlot(k) \/ AfterStart(k) = <<"verify", k>>
<1>0. AfterStart(k) = AfterSlot(k) \/ AfterStart(k) = <<"verify", k>>
  BY DEF AfterStart
<1>1. CASE k < Size
  <2>1. AfterSlot(k) = <<"create", k + 1>>
    BY <1>1 DEF AfterSlot, Then
  <2>2. "create" \in Points
    BY DEF Points, Loops
  <2>3. k + 1 \in Slots /\ k + 1 \in 0..Size
    BY <1>1, SlotMoves
  <2>4. AfterSlot(k)[1] = "create" /\ AfterSlot(k)[2] = k + 1
    BY <2>1
  <2>5. AfterSlot(k) \in Points \X (0..Size)
    BY <2>1, <2>2, <2>3
  <2> QED
    BY <2>3, <2>4, <2>5, <1>0
<1>2. CASE ~(k < Size)
  <2>1. AfterSlot(k) = <<"commit", 0>>
    BY <1>2 DEF AfterSlot, Then
  <2> QED
    BY <2>1, <1>0, <1>2, SlotMoves, SlotFacts DEF Points
<1> QED
  BY <1>1, <1>2

\* Whatever is created for a slot is a container of its stack.
LEMMA ReplacementTypes ==
  ASSUME TypeInv, NEW o \in Ops, flow[o].pc = "create",
         CanCreate(Snap(o)[flow[o].k].conf.name)
  PROVE  FreshId \in Ids /\ Replacement(o, flow[o].k) \in [Ids -> Containers]
<1> DEFINE k == flow[o].k
<1>1. /\ k \in Slots /\ o \in Live /\ Len(flow[o].created) = k - 1
      /\ flow[o].created \in Seq(Ids)
  BY Flowing DEF Position, Loops
<1>2. UnusedIds # {}
  BY DEF CanCreate
<1>3. CASE k = Vpn
  BY <1>1, <1>2, <1>3, CreatedTypes, OriginalTypes, PlanTypes, OldTypes
  DEF Replacement
<1>4. CASE k # Vpn
  <2>1. k \in Nat /\ k >= 1 /\ k # 1
    BY <1>1, <1>4, SlotFacts DEF Vpn
  <2>3. Len(flow[o].created) >= 1
    BY <2>1, <1>1
  <2>2. flow[o].created[Vpn] \in Ids
    BY <2>3, <1>1 DEF Vpn
  <2> QED
    BY <2>2, <1>1, <1>2, <1>4, CreatedTypes, OriginalTypes, OldTypes
    DEF Replacement
<1> QED
  BY <1>3, <1>4
\* What fits once slot k has its replacement.
LEMMA NextFits ==
  ASSUME NEW k \in Slots, NEW f, Len(f.created) = k
  PROVE  /\ Fits(f, AfterSlot(k)) /\ Fits(f, AfterStart(k))
         /\ Fits(f, <<"start", k>>) /\ Fits(f, <<"health", k>>)
         /\ AfterStart(k) \in Points \X (0..Size)
         /\ <<"start", k>> \in Points \X (0..Size)
         /\ <<"health", k>> \in Points \X (0..Size)
<1>1. k \in Nat /\ k \in 0..Size /\ {"start", "health", "verify"} \subseteq Points
  BY SlotFacts, SlotMoves DEF Points, Loops
<1>2. AfterSlot(k) \in Points \X (0..Size)
  BY NextSlot
<1>3. Fits(f, AfterSlot(k))
  <2>1. CASE AfterSlot(k)[1] = "create" /\ AfterSlot(k)[2] = k + 1 /\ k + 1 \in Slots
    BY <2>1, <1>1 DEF Fits, Discards
  <2>2. CASE AfterSlot(k)[1] = "commit" /\ k = Size
    BY <2>2 DEF Fits, Discards, Loops
  <2> QED
    BY <2>1, <2>2, NextSlot
<1>4. Fits(f, <<"verify", k>>) /\ Fits(f, <<"start", k>>) /\ Fits(f, <<"health", k>>)
  BY <1>1 DEF Fits, Discards
<1>5. Fits(f, AfterStart(k)) /\ AfterStart(k) \in Points \X (0..Size)
  BY <1>1, <1>2, <1>3, <1>4, NextSlot
<1> QED
  BY <1>1, <1>3, <1>4, <1>5

\* Creating a replacement keeps the types (engine.ts:456-466).
LEMMA CreateReplacementTypes ==
  ASSUME TypeInv, NEW o \in Ops, CreateReplacement(o)
  PROVE  TypeInv'
<1> DEFINE k == flow[o].k
           can == CanCreate(Snap(o)[k].conf.name)
           after == Replacement(o, k)
           done == [flow[o] EXCEPT !.created = Append(@, FreshId)]
           at == IF Wanted(o, k) THEN <<"start", k>> ELSE AfterStart(k)
<1>1. /\ flow[o].pc = "create" /\ flow[o].pc # "idle"
      /\ flow[o] \in FlowRec /\ flow[o].st # "none" /\ k \in Slots
      /\ flow[o].created \in Seq(Ids) /\ Len(flow[o].created) = k - 1
  BY Flowing DEF CreateReplacement, Position, Loops
<1>2. UNCHANGED still
  BY DEF CreateReplacement
<1>3. CASE can /\ ctr' = after /\ Recorded(o, done, at)
  <2>1. FreshId \in Ids /\ ctr' \in [Ids -> Containers]
    BY <1>1, <1>3, ReplacementTypes
  <2>2. /\ done \in FlowRec /\ done.st # "none"
        /\ done.created = Append(flow[o].created, FreshId)
    <3>1. Append(flow[o].created, FreshId) \in Seq(Ids)
      BY <1>1, <2>1
    <3> QED
      BY <1>1, <3>1 DEF FlowRec
  <2>3. Len(done.created) = k /\ k <= Size
    BY <1>1, <2>1, <2>2, SlotFacts
  <2>4. Fits(done, at) /\ at \in Points \X (0..Size)
    BY <1>1, <2>3, NextFits
  <2>5. \/ op' = Journal(o, done) /\ Goto(o, done, at)
        \/ op' = op /\ Goto(o, done, Caught)
    BY <1>3 DEF Recorded
  <2>6. op' = op \/ \E g \in FlowRec : g.st # "none" /\ op' = Journal(o, g)
    BY <2>2, <2>5
  <2>7. faults' \in 0..MaxFaults
    BY <1>3, OldTypes, FaultTypes DEF Recorded
  <2> QED
    BY <1>1, <1>2, <2>1, <2>2, <2>3, <2>4, <2>5, <2>6, <2>7, StepTo, OldTypes
    DEF still
<1>4. CASE Refused(can, after) /\ Goto(o, flow[o], Caught) /\ op' = op
  <2>1. ctr' \in [Ids -> Containers] /\ faults' \in 0..MaxFaults
    BY <1>1, <1>4, ReplacementTypes, OldTypes, FaultTypes DEF Refused
  <2>2. Len(flow[o].created) <= Size
    BY <1>1, Flowing
  <2> QED
    BY <1>1, <1>2, <1>4, <2>1, <2>2, StepTo, OldTypes DEF still
<1> QED
  BY <1>3, <1>4 DEF CreateReplacement

\* Where a replacement is started, checked or discarded, it has been created.
LEMMA AtReplacement ==
  ASSUME TypeInv, NEW o \in Ops, flow[o].pc \in {"start", "health", "verify"}
  PROVE  /\ flow[o].pc # "idle" /\ flow[o] \in FlowRec /\ flow[o].st # "none"
         /\ flow[o].k \in Slots /\ Len(flow[o].created) = flow[o].k
         /\ Len(flow[o].created) <= Size
         /\ flow[o].created[flow[o].k] \in Ids /\ flow[o].created[Vpn] \in Ids
<1>1. /\ flow[o].pc # "idle" /\ flow[o] \in FlowRec /\ flow[o].st # "none"
      /\ flow[o].k \in Slots /\ Len(flow[o].created) = flow[o].k
      /\ Len(flow[o].created) <= Size /\ flow[o].created \in Seq(Ids)
  BY Flowing DEF Position, Loops
<1>2. /\ flow[o].k \in 1..Len(flow[o].created)
      /\ Vpn \in 1..Len(flow[o].created)
  BY <1>1, SlotFacts DEF Vpn
<1> QED
  BY <1>1, <1>2

\* Starting a replacement keeps the types (engine.ts:459, 467).
LEMMA StartReplacementTypes ==
  ASSUME TypeInv, NEW o \in Ops, StartReplacement(o)
  PROVE  TypeInv'
<1>1. flow[o].pc = "start" /\ UNCHANGED <<op, still>>
  BY DEF StartReplacement
<1>2. ctr' \in [Ids -> Containers] /\ faults' \in 0..MaxFaults
  BY <1>1, AtReplacement, OldTypes, DockerTypes, FaultTypes
  DEF StartReplacement, Await, Refused
<1>3. \/ Goto(o, flow[o], <<"health", flow[o].k>>) \/ Goto(o, flow[o], Caught)
  BY DEF StartReplacement, Await
<1>4. /\ flow[o].pc # "idle" /\ flow[o] \in FlowRec /\ flow[o].st # "none"
      /\ flow[o].k \in Slots /\ Len(flow[o].created) = flow[o].k
      /\ Len(flow[o].created) <= Size
  BY <1>1, AtReplacement
<1>5. /\ <<"health", flow[o].k>> \in Points \X (0..Size)
      /\ Fits(flow[o], <<"health", flow[o].k>>)
  BY <1>4, NextFits
<1> QED
  BY <1>1, <1>2, <1>3, <1>4, <1>5, StepTo, OldTypes DEF still

\* Waiting for the health of a replacement keeps the types (engine.ts:459,
\* 468).
LEMMA AwaitReplacementTypes ==
  ASSUME TypeInv, NEW o \in Ops, AwaitReplacement(o)
  PROVE  TypeInv'
<1>1. flow[o].pc = "health" /\ UNCHANGED <<op, still>>
  BY DEF AwaitReplacement
<1>2. ctr' \in [Ids -> Containers] /\ faults' \in 0..MaxFaults
  BY OldTypes, FaultTypes DEF AwaitReplacement, Await, Refused
<1>3. \/ Goto(o, flow[o], AfterStart(flow[o].k)) \/ Goto(o, flow[o], Caught)
  BY DEF AwaitReplacement, Await
<1>4. /\ flow[o].pc # "idle" /\ flow[o] \in FlowRec /\ flow[o].st # "none"
      /\ flow[o].k \in Slots /\ Len(flow[o].created) = flow[o].k
      /\ Len(flow[o].created) <= Size
  BY <1>1, AtReplacement
<1>5. /\ AfterStart(flow[o].k) \in Points \X (0..Size)
      /\ Fits(flow[o], AfterStart(flow[o].k))
  BY <1>4, NextFits
<1> QED
  BY <1>1, <1>2, <1>3, <1>4, <1>5, StepTo, OldTypes DEF still

\* Checking the namespace of an application keeps the types (engine.ts:469).
LEMMA VerifyNamespaceTypes ==
  ASSUME TypeInv, NEW o \in Ops, VerifyNamespace(o)
  PROVE  TypeInv'
<1>1. flow[o].pc = "verify" /\ UNCHANGED <<op, still>>
  BY DEF VerifyNamespace
<1>2. ctr' \in [Ids -> Containers] /\ faults' \in 0..MaxFaults
  BY OldTypes, FaultTypes DEF VerifyNamespace, Await, Refused
<1>3. \/ Goto(o, flow[o], AfterSlot(flow[o].k)) \/ Goto(o, flow[o], Caught)
  BY DEF VerifyNamespace, Await
<1>4. /\ flow[o].pc # "idle" /\ flow[o] \in FlowRec /\ flow[o].st # "none"
      /\ flow[o].k \in Slots /\ Len(flow[o].created) = flow[o].k
      /\ Len(flow[o].created) <= Size
  BY <1>1, AtReplacement
<1>5. /\ AfterSlot(flow[o].k) \in Points \X (0..Size)
      /\ Fits(flow[o], AfterSlot(flow[o].k))
  BY <1>4, NextFits, NextSlot
<1> QED
  BY <1>1, <1>2, <1>3, <1>4, <1>5, StepTo, OldTypes DEF still
\* An apply ends.
LEMMA EndTypes ==
  ASSUME TypeInv, NEW o \in Ops, flow[o].pc # "idle", End(o),
         ctr' \in [Ids -> Containers],
         proj' \in [Projects -> Stacks \cup {<<>>}],
         base' \in [Projects -> [Slots -> Confs] \cup {<<>>}],
         op' = op \/ \E g \in FlowRec : g.st # "none" /\ op' = Journal(o, g),
         Unlock(o) \/ UNCHANGED locks, faults' \in 0..MaxFaults,
         UNCHANGED <<plan, reviews, clean, draft, adopting, req>>
  PROVE  TypeInv'
<1>1. IdleFlow \in FlowRec /\ IdleFlow.pc = "idle"
  BY SlotFacts DEF IdleFlow, FlowRec, Points, OpStatus
<1>2. flow' = [flow EXCEPT ![o] = IdleFlow]
  BY DEF End
<1>3. locks' \subseteq Projects
  BY OldTypes DEF Unlock
<1> QED
  BY <1>1, <1>2, <1>3, FlowChange

\* The last record of an apply keeps the types (engine.ts:499-501).
LEMMA ConcludeTypes ==
  ASSUME TypeInv, NEW o \in Ops, flow[o].pc # "idle",
         NEW st \in OpStatus \ {"none"},
         Conclude(o, [flow[o] EXCEPT !.st = st]),
         ctr' \in [Ids -> Containers],
         proj' \in [Projects -> Stacks \cup {<<>>}],
         base' \in [Projects -> [Slots -> Confs] \cup {<<>>}],
         UNCHANGED <<plan, reviews, clean, draft, adopting, req>>
  PROVE  TypeInv'
<1>1. [flow[o] EXCEPT !.st = st] \in FlowRec /\ [flow[o] EXCEPT !.st = st].st # "none"
  BY Flowing DEF FlowRec
<1>2. End(o) /\ (Unlock(o) \/ UNCHANGED locks) /\ faults' \in 0..MaxFaults
  BY FaultTypes, OldTypes DEF Conclude
<1>3. op' = Journal(o, [flow[o] EXCEPT !.st = st])
  BY DEF Conclude
<1> QED
  BY <1>1, <1>2, <1>3, EndTypes

\* The stack that a commit makes the project's own.
LEMMA CreatedStack ==
  ASSUME TypeInv, NEW o \in Ops, flow[o].pc = "commit"
  PROVE  /\ flow[o].created \in Stacks
         /\ Replaced(o) \in [Projects -> [Slots -> Confs] \cup {<<>>}]
         /\ Rebound(o) \in [Projects -> Stacks \cup {<<>>}]
<1>1. flow[o].created \in Seq(Ids) /\ Len(flow[o].created) = Size /\ o \in Live
  BY Flowing DEF Position
<1>2. flow[o].created \in Stacks
  BY <1>1 DEF Stacks, Slots
<1>3. ConfsOf(flow[o].created) \in [Slots -> Confs]
  BY <1>2, OldTypes, DockerTypes DEF ConfsOf, Stacks
<1> QED
  BY <1>1, <1>2, <1>3, OldTypes, PlanTypes DEF Replaced, Rebound

\* A commit keeps the types (engine.ts:471-474).
LEMMA CommitTypes ==
  ASSUME TypeInv, NEW o \in Ops, Commit(o)
  PROVE  TypeInv'
<1>1. flow[o].pc = "commit" /\ "succeeded" \in OpStatus \ {"none"}
  BY DEF Commit, OpStatus
<1> QED
  BY <1>1, CreatedStack, ConcludeTypes, OldTypes DEF Commit

\* A commit that fails at one of its writes keeps the types
\* (engine.ts:471-477).
LEMMA CommitFailsTypes ==
  ASSUME TypeInv, NEW o \in Ops, CommitFails(o)
  PROVE  TypeInv'
<1> DEFINE f == [flow[o] EXCEPT !.st = "succeeded"]
<1>1. /\ flow[o].pc = "commit" /\ flow[o].pc # "idle"
      /\ flow[o] \in FlowRec /\ flow[o].st # "none"
      /\ Len(flow[o].created) <= Size
  BY Flowing DEF CommitFails
<1>2. f \in FlowRec /\ f.st # "none" /\ f.created = flow[o].created
  BY <1>1 DEF FlowRec, OpStatus
<1>3. /\ ctr' \in [Ids -> Containers]
      /\ proj' \in [Projects -> Stacks \cup {<<>>}]
      /\ base' \in [Projects -> [Slots -> Confs] \cup {<<>>}]
      /\ faults' \in 0..MaxFaults
  BY <1>1, CreatedStack, OldTypes, FaultTypes DEF CommitFails, ReadFails, Refused
<1>4. Goto(o, flow[o], Caught) \/ Goto(o, f, Caught)
  BY DEF CommitFails
<1>5. UNCHANGED <<op, plan, reviews, locks, clean, draft, adopting, req>>
  BY DEF CommitFails
<1> QED
  BY <1>1, <1>2, <1>3, <1>4, <1>5, StepTo, OldTypes

\* The places of a rollback that fit.
LEMMA RollbackFits ==
  ASSUME NEW f, Len(f.created) \in Nat, Len(f.created) <= Size
  PROVE  /\ \A k \in 1..Len(f.created), pc \in Discards :
              <<pc, k>> \in Points \X (0..Size) /\ Fits(f, <<pc, k>>)
         /\ \A k \in Slots, pc \in {"rename back", "restart", "reverify"} :
              <<pc, k>> \in Points \X (0..Size) /\ Fits(f, <<pc, k>>)
         /\ \A pc \in {"disown", "restored", "failed"} :
              <<pc, 0>> \in Points \X (0..Size) /\ Fits(f, <<pc, 0>>)
<1>1. ASSUME NEW k \in 1..Len(f.created), NEW pc \in Discards
      PROVE  <<pc, k>> \in Points \X (0..Size) /\ Fits(f, <<pc, k>>)
  <2>1. k \in 0..Size
    BY SlotFacts
  <2>2. pc \in Points
    BY DEF Points
  <2>3. Fits(f, <<pc, k>>)
    BY DEF Fits, Discards, Loops
  <2> QED
    BY <2>1, <2>2, <2>3
<1>2. ASSUME NEW k \in Slots, NEW pc \in {"rename back", "restart", "reverify"}
      PROVE  <<pc, k>> \in Points \X (0..Size) /\ Fits(f, <<pc, k>>)
  <2>1. k \in 0..Size
    BY SlotMoves
  <2>2. pc \in Points
    BY DEF Points, Loops
  <2>3. Fits(f, <<pc, k>>)
    BY DEF Fits, Discards
  <2> QED
    BY <2>1, <2>2, <2>3
<1>3. ASSUME NEW pc \in {"disown", "restored", "failed"}
      PROVE  <<pc, 0>> \in Points \X (0..Size) /\ Fits(f, <<pc, 0>>)
  <2>1. 0 \in 0..Size
    BY SlotFacts
  <2>2. pc \in Points
    BY DEF Points
  <2>3. Fits(f, <<pc, 0>>)
    BY DEF Fits, Discards, Loops
  <2> QED
    BY <2>1, <2>2, <2>3
<1> QED
  BY <1>1, <1>2, <1>3

\* The beginning of a rollback keeps the types (engine.ts:476-479).
LEMMA BeginRollbackTypes ==
  ASSUME TypeInv, NEW o \in Ops, BeginRollback(o)
  PROVE  TypeInv'
<1> DEFINE n == Len(flow[o].created)
           at == IF n > 0 THEN <<"discard", n>> ELSE <<"rename back", 1>>
<1>1. /\ flow[o].pc # "idle" /\ flow[o] \in FlowRec /\ flow[o].st # "none"
      /\ n \in Nat /\ n <= Size
  BY Flowing DEF BeginRollback
<1>2. at \in Points \X (0..Size) /\ Fits(flow[o], at)
  <2>1. CASE n > 0
    <3>1. n \in 1..n /\ "discard" \in Discards
      BY <2>1, <1>1 DEF Discards
    <3> QED
      BY <2>1, <3>1, <1>1, RollbackFits
  <2>2. CASE ~(n > 0)
    BY <2>2, <1>1, RollbackFits, SlotFacts DEF Vpn
  <2> QED
    BY <2>1, <2>2
<1>3. Goto(o, flow[o], at) \/ Goto(o, flow[o], GiveUp)
  BY DEF BeginRollback
<1>4. op' = op \/ \E g \in FlowRec : g.st # "none" /\ op' = Journal(o, g)
  BY <1>1 DEF BeginRollback
<1>5. UNCHANGED <<ctr, still>> /\ faults' \in 0..MaxFaults
  BY OldTypes, FaultTypes DEF BeginRollback
<1> QED
  BY <1>1, <1>2, <1>3, <1>4, <1>5, StepTo, OldTypes DEF still

\* Stopping and removing a replacement keeps the types (engine.ts:480-481).
LEMMA DiscardReplacementTypes ==
  ASSUME TypeInv, NEW o \in Ops, DiscardReplacement(o)
  PROVE  TypeInv'
<1> DEFINE k == flow[o].k
           i == flow[o].created[k]
           at == IF k > 1 THEN <<"discard", k - 1>> ELSE <<"rename back", 1>>
<1>1. /\ flow[o].pc # "idle" /\ flow[o] \in FlowRec /\ flow[o].st # "none"
      /\ flow[o].created \in Seq(Ids) /\ Len(flow[o].created) \in Nat
      /\ Len(flow[o].created) <= Size /\ k \in 1..Len(flow[o].created)
  BY Flowing DEF DiscardReplacement, Position, Discards
<1>2. i \in Ids
  BY <1>1
<1>3. ctr' \in [Ids -> Containers] /\ faults' \in 0..MaxFaults
  BY <1>2, OldTypes, StoppedTypes, DockerTypes, FaultTypes
  DEF DiscardReplacement, Await, Refused
<1>4. at \in Points \X (0..Size) /\ Fits(flow[o], at)
  <2>1. CASE k > 1
    <3>1. k - 1 \in 1..Len(flow[o].created) /\ "discard" \in Discards
      BY <2>1, <1>1 DEF Discards
    <3> QED
      BY <2>1, <3>1, <1>1, RollbackFits
  <2>2. CASE ~(k > 1)
    BY <2>2, <1>1, RollbackFits, SlotFacts DEF Vpn
  <2> QED
    BY <2>1, <2>2
<1>5. <<"remove", k>> \in Points \X (0..Size) /\ Fits(flow[o], <<"remove", k>>)
  BY <1>1, RollbackFits DEF Discards
<1>6. \/ Goto(o, flow[o], at) \/ Goto(o, flow[o], <<"remove", k>>)
      \/ Goto(o, flow[o], GiveUp)
  BY DEF DiscardReplacement, Await
<1>7. UNCHANGED <<op, still>>
  BY DEF DiscardReplacement
<1> QED
  BY <1>1, <1>3, <1>4, <1>5, <1>6, <1>7, StepTo, OldTypes DEF still
\* A loop of the rollback goes on with the next slot or ends.
LEMMA ThenFits ==
  ASSUME NEW f, Len(f.created) \in Nat, Len(f.created) <= Size, NEW k \in Slots,
         NEW loop \in {"rename back", "restart"}, NEW end \in {"disown", "restored"}
  PROVE  /\ Then(loop, k, <<end, 0>>) \in Points \X (0..Size)
         /\ Fits(f, Then(loop, k, <<end, 0>>))
<1>1. CASE k < Size
  <2>1. Then(loop, k, <<end, 0>>) = <<loop, k + 1>> /\ k + 1 \in Slots
    BY <1>1, SlotMoves DEF Then
  <2> QED
    BY <2>1, RollbackFits
<1>2. CASE ~(k < Size)
  BY <1>2, RollbackFits DEF Then
<1> QED
  BY <1>1, <1>2

\* Giving an original its name back keeps the types (engine.ts:482-483).
LEMMA RestoreNameTypes ==
  ASSUME TypeInv, NEW o \in Ops, RestoreName(o)
  PROVE  TypeInv'
<1> DEFINE k == flow[o].k
           at == Then("rename back", k, <<"disown", 0>>)
<1>1. /\ flow[o].pc # "idle" /\ flow[o] \in FlowRec /\ flow[o].st # "none"
      /\ Len(flow[o].created) \in Nat /\ Len(flow[o].created) <= Size
      /\ k \in Slots /\ o \in Live
  BY Flowing DEF RestoreName, Position, Loops
<1>2. ctr' \in [Ids -> Containers] /\ faults' \in 0..MaxFaults
  <2>1. Orig(o, k) \in Ids /\ Snap(o)[k].conf.name \in Names
    BY <1>1, OriginalTypes
  <2>2. Renamed(Orig(o, k), Snap(o)[k].conf.name) \in [Ids -> Containers]
    BY <2>1, OldTypes, DockerTypes
  <2> QED
    BY <2>2, OldTypes, FaultTypes DEF RestoreName, Await, Refused
<1>3. at \in Points \X (0..Size) /\ Fits(flow[o], at)
  BY <1>1, ThenFits
<1>4. Goto(o, flow[o], at) \/ Goto(o, flow[o], GiveUp)
  BY DEF RestoreName, Await
<1>5. UNCHANGED <<op, still>>
  BY DEF RestoreName
<1> QED
  BY <1>1, <1>2, <1>3, <1>4, <1>5, StepTo, OldTypes DEF still

\* The records that a rollback or an abandoned apply writes back.
LEMMA FormerTypes ==
  ASSUME TypeInv, NEW o \in Ops, o \in Live
  PROVE  /\ Former(o) \in [Projects -> [Slots -> Confs] \cup {<<>>}]
         /\ [proj EXCEPT ![Project(o)] = Originals(o)]
              \in [Projects -> Stacks \cup {<<>>}]
<1>1. Originals(o) \in Stacks
  BY OriginalTypes, SlotFacts
<1> QED
  BY <1>1, PlanTypes, OldTypes DEF Former

\* Writing the former ownership keeps the types (engine.ts:484).
LEMMA RestoreOwnershipTypes ==
  ASSUME TypeInv, NEW o \in Ops, RestoreOwnership(o)
  PROVE  TypeInv'
<1>1. /\ flow[o].pc # "idle" /\ flow[o] \in FlowRec /\ flow[o].st # "none"
      /\ Len(flow[o].created) \in Nat /\ Len(flow[o].created) <= Size
      /\ o \in Live
  BY Flowing DEF RestoreOwnership
<1>2. /\ proj' \in [Projects -> Stacks \cup {<<>>}]
      /\ base' \in [Projects -> [Slots -> Confs] \cup {<<>>}]
      /\ faults' \in 0..MaxFaults
  BY <1>1, FormerTypes, OldTypes, FaultTypes DEF RestoreOwnership
<1>3. <<"restart", 1>> \in Points \X (0..Size) /\ Fits(flow[o], <<"restart", 1>>)
  BY <1>1, RollbackFits, SlotFacts DEF Vpn
<1>4. Goto(o, flow[o], <<"restart", 1>>) \/ Goto(o, flow[o], GiveUp)
  BY DEF RestoreOwnership
<1>5. UNCHANGED <<ctr, plan, op, reviews, locks, clean, draft, adopting, req>>
  BY DEF RestoreOwnership
<1> QED
  BY <1>1, <1>2, <1>3, <1>4, <1>5, StepTo, OldTypes

\* Starting an original again keeps the types (engine.ts:485-487).
LEMMA RestartOriginalTypes ==
  ASSUME TypeInv, NEW o \in Ops, RestartOriginal(o)
  PROVE  TypeInv'
<1> DEFINE k == flow[o].k
           at == Then("restart", k, <<"restored", 0>>)
<1>1. /\ flow[o].pc # "idle" /\ flow[o] \in FlowRec /\ flow[o].st # "none"
      /\ Len(flow[o].created) \in Nat /\ Len(flow[o].created) <= Size
      /\ k \in Slots /\ o \in Live
  BY Flowing DEF RestartOriginal, Position, Loops
<1>2. ctr' \in [Ids -> Containers] /\ faults' \in 0..MaxFaults
  BY <1>1, OriginalTypes, OldTypes, DockerTypes, FaultTypes
  DEF RestartOriginal, Await, Refused
<1>3. at \in Points \X (0..Size) /\ Fits(flow[o], at)
  BY <1>1, ThenFits
<1>4. <<"reverify", k>> \in Points \X (0..Size) /\ Fits(flow[o], <<"reverify", k>>)
  BY <1>1, RollbackFits
<1>5. \/ Goto(o, flow[o], at) \/ Goto(o, flow[o], <<"reverify", k>>)
      \/ Goto(o, flow[o], GiveUp)
  BY DEF RestartOriginal, Await
<1>6. UNCHANGED <<op, still>>
  BY DEF RestartOriginal
<1> QED
  BY <1>1, <1>2, <1>3, <1>4, <1>5, <1>6, StepTo, OldTypes DEF still

\* The end of a rollback keeps the types (engine.ts:488-489).
LEMMA RolledBackTypes ==
  ASSUME TypeInv, NEW o \in Ops, RolledBack(o)
  PROVE  TypeInv'
<1>1. flow[o].pc # "idle" /\ "rolled_back" \in OpStatus \ {"none"}
  BY DEF RolledBack, OpStatus
<1>2. UNCHANGED <<ctr, proj, base, plan, reviews, clean, draft, adopting, req>>
  BY DEF RolledBack
<1>3. CASE Conclude(o, [flow[o] EXCEPT !.st = "rolled_back"])
  BY <1>1, <1>2, <1>3, ConcludeTypes, OldTypes
<1>4. CASE Fault("save") /\ Goto(o, flow[o], GiveUp) /\ UNCHANGED <<op, locks>>
  BY <1>1, <1>2, <1>4, Flowing, FaultTypes, StepTo, OldTypes
<1> QED
  BY <1>3, <1>4 DEF RolledBack

\* The emergency stop keeps the types (engine.ts:490-493).
LEMMA StopEverythingTypes ==
  ASSUME TypeInv, NEW o \in Ops, StopEverything(o)
  PROVE  TypeInv'
<1>1. /\ flow[o].pc # "idle" /\ flow[o] \in FlowRec /\ flow[o].st # "none"
      /\ Len(flow[o].created) \in Nat /\ Len(flow[o].created) <= Size
  BY Flowing DEF StopEverything
<1>2. ctr' \in [Ids -> Containers] /\ faults' \in 0..MaxFaults
  BY OldTypes, StoppedTypes, FaultTypes DEF StopEverything
<1>3. /\ Goto(o, flow[o], <<"failed", 0>>) /\ Fits(flow[o], <<"failed", 0>>)
      /\ <<"failed", 0>> \in Points \X (0..Size)
  BY <1>1, RollbackFits DEF StopEverything
<1>4. UNCHANGED <<op, still>>
  BY DEF StopEverything
<1> QED
  BY <1>1, <1>2, <1>3, <1>4, StepTo, OldTypes DEF still

\* The end of a failed rollback keeps the types (engine.ts:494).
LEMMA RollbackFailedTypes ==
  ASSUME TypeInv, NEW o \in Ops, RollbackFailed(o)
  PROVE  TypeInv'
<1>1. flow[o].pc # "idle" /\ "rollback_failed" \in OpStatus \ {"none"}
  BY DEF RollbackFailed, OpStatus
<1>2. UNCHANGED <<ctr, proj, base, plan, reviews, clean, draft, adopting, req>>
  BY DEF RollbackFailed
<1>3. CASE Conclude(o, [flow[o] EXCEPT !.st = "rollback_failed"])
  BY <1>1, <1>2, <1>3, ConcludeTypes, OldTypes
<1>4. CASE UNCHANGED <<op, locks>> /\ End(o) /\ Fault("save")
  BY <1>1, <1>2, <1>4, FaultTypes, EndTypes, OldTypes
<1> QED
  BY <1>3, <1>4 DEF RollbackFailed

\* An apply that changed nothing and fails keeps the types (engine.ts:495-498).
LEMMA ValidationFailsTypes ==
  ASSUME TypeInv, NEW o \in Ops, ValidationFails(o)
  PROVE  TypeInv'
<1> DEFINE f == [flow[o] EXCEPT !.st = "rolled_back"]
<1>1. flow[o].pc # "idle" /\ o \in Live /\ flow[o] \in FlowRec
  BY Flowing DEF ValidationFails
<1>2. f \in FlowRec /\ f.st # "none" /\ Undone(o) = Journal(o, f)
  BY <1>1 DEF FlowRec, OpStatus, Undone
<1>3. op' = op \/ op' = Journal(o, f)
  BY <1>2 DEF ValidationFails, Abandoned, AbandonBreaks
<1>4. base' \in [Projects -> [Slots -> Confs] \cup {<<>>}]
  BY <1>1, FormerTypes, OldTypes DEF ValidationFails, Abandoned, AbandonBreaks
<1>5. faults' \in 0..MaxFaults
  BY OldTypes, FaultTypes DEF ValidationFails, AbandonBreaks
<1>6. End(o) /\ (Unlock(o) \/ UNCHANGED locks)
  BY DEF ValidationFails, Abandoned, AbandonBreaks
<1>7. UNCHANGED <<ctr, proj, plan, reviews, clean, draft, adopting, req>>
  BY DEF ValidationFails
<1> QED
  BY <1>1, <1>2, <1>3, <1>4, <1>5, <1>6, <1>7, EndTypes, OldTypes

\* An apply with nothing to change keeps the types (engine.ts:442-445).
LEMMA NothingToChangeTypes ==
  ASSUME TypeInv, NEW o \in Ops, NothingToChange(o)
  PROVE  TypeInv'
<1>1. flow[o].pc # "idle" /\ o \in Live /\ "succeeded" \in OpStatus \ {"none"}
  BY Flowing DEF NothingToChange, OpStatus
<1>2. [k \in Slots |-> Snap(o)[k].conf] \in [Slots -> Confs]
  BY <1>1, PlanTypes DEF Snapshots
<1>3. base' \in [Projects -> [Slots -> Confs] \cup {<<>>}]
  BY <1>1, <1>2, PlanTypes, OldTypes DEF NothingToChange, Confirming
<1>4. UNCHANGED <<ctr, proj, plan, reviews, clean, draft, adopting, req>>
  BY DEF NothingToChange
<1> QED
  BY <1>1, <1>3, <1>4, ConcludeTypes, OldTypes DEF NothingToChange

\* The beginning of the change keeps the types (engine.ts:436-447).
LEMMA PreparedTypes ==
  ASSUME TypeInv, NEW o \in Ops, Prepared(o)
  PROVE  TypeInv'
<1>1. /\ flow[o].pc = "validate" /\ flow[o].pc # "idle"
      /\ flow[o] \in FlowRec /\ flow[o].st # "none"
      /\ Len(flow[o].created) = 0
  BY Flowing DEF Prepared, Position
<1>2. <<"stop", 1>> \in Points \X (0..Size) /\ Fits(flow[o], <<"stop", 1>>)
  BY <1>1, SlotFacts, SlotMoves DEF Fits, Points, Loops, Discards, Vpn
<1>3. /\ Goto(o, flow[o], <<"stop", 1>>)
      /\ UNCHANGED <<ctr, disk, locks, clean, draft, adopting, req, faults>>
  BY DEF Prepared
<1> QED
  BY <1>1, <1>2, <1>3, SlotFacts, StepTo, OldTypes DEF disk

\* Every step of an apply keeps the types.
LEMMA ApplyStepTypes ==
  ASSUME TypeInv, NEW o \in Ops, ApplyStep(o)
  PROVE  TypeInv'
BY ValidationFailsTypes, NothingToChangeTypes, PreparedTypes,
   StopOriginalTypes, RenameOriginalTypes, CreateReplacementTypes,
   StartReplacementTypes, AwaitReplacementTypes, VerifyNamespaceTypes,
   CommitTypes, CommitFailsTypes, BeginRollbackTypes, DiscardReplacementTypes,
   RestoreNameTypes, RestoreOwnershipTypes, RestartOriginalTypes,
   RolledBackTypes, StopEverythingTypes, RollbackFailedTypes DEF ApplyStep

-----------------------------------------------------------------------------
(* The other steps.                                                        *)

\* A step of the owner, or a restart: no operation begins, no plan is lost,
\* and whatever request begins has an operation to work on.
LEMMA OwnerChange ==
  ASSUME TypeInv, TypeOK',
         \A o \in Ops : /\ op'[o].st = "none" <=> op[o].st = "none"
                        /\ op'[o].plan = op[o].plan,
         \A l \in Plans : plan[l].st # "none" => plan'[l].st # "none",
         \A o \in Ops : flow'[o] = flow[o] \/ flow'[o].pc = "idle",
         \A o \in Ops :
           \/ clean'[o] = clean[o] \/ clean'[o].pc = "idle"
           \/ /\ o \in Live
              /\ clean'[o].pc \in {"check", "delete"} => clean'[o].k \in Slots,
         \A r \in Requests : \/ req'[r] = req[r] \/ req'[r].pc = "idle"
                             \/ req'[r].op \in Live
  PROVE  TypeInv'
<1>1. Live' = Live
  BY DEF Live
<1>2. LiveOK'
  BY <1>1 DEF TypeInv, LiveOK, Plan, Live
<1>3. FlowOK'
  BY <1>1 DEF TypeInv, FlowOK, Position
<1>4. CleanOK'
  BY <1>1 DEF TypeInv, CleanOK
<1>5. RequestsOK'
  BY <1>1 DEF TypeInv, RequestsOK
<1> QED
  BY <1>2, <1>3, <1>4, <1>5 DEF TypeInv

\* A step that changes neither the journal of the operations nor who works.
LEMMA QuietChange ==
  ASSUME TypeInv, TypeOK', UNCHANGED <<op, flow, clean, req>>,
         \A l \in Plans : plan[l].st # "none" => plan'[l].st # "none"
  PROVE  TypeInv'
BY OwnerChange

\* A stored plan is pruned or expires without another change.
LEMMA PlanMarks ==
  ASSUME TypeInv, NEW l \in Plans, plan[l].st = "kept"
  PROVE  /\ [plan[l] EXCEPT !.st = "pruned"] \in PlanRec
         /\ [plan[l] EXCEPT !.expired = TRUE] \in PlanRec
         /\ [plan[l] EXCEPT !.st = "pruned"].st = "pruned"
         /\ [plan[l] EXCEPT !.expired = TRUE].st = "kept"
<1>1. plan[l] \in PlanRec
  <2>1. plan[l] \in PlanRec \cup {NoPlanRec}
    BY DEF TypeInv, TypeOK
  <2> QED
    BY <2>1 DEF NoPlanRec
<1> QED
  BY <1>1 DEF PlanRec

\* Pruning keeps the stored plans in shape and forgets none.
LEMMA PruneTypes ==
  ASSUME TypeInv
  PROVE  /\ PrunedPlans \in [Plans -> PlanRec \cup {NoPlanRec}]
         /\ \A l \in Plans : plan[l].st # "none" => PrunedPlans[l].st # "none"
<1>1. plan \in [Plans -> PlanRec \cup {NoPlanRec}]
  BY DEF TypeInv, TypeOK
<1> QED
  BY <1>1, PlanMarks DEF PrunedPlans, Kept

\* What is seen of containers that are there.
LEMMA ObservedTypes ==
  ASSUME TypeInv, NEW s \in Stacks
  PROVE  /\ Observed(s) \in [Slots -> Snapshots]
         /\ ConfsOf(s) \in [Slots -> Confs]
<1>1. \A k \in Slots : s[k] \in Ids
  BY DEF Stacks
<1>2. \A k \in Slots : Seen(s[k]) \in Snapshots /\ ConfOf(s[k]) \in Confs
  BY <1>1, OldTypes, DockerTypes
<1> QED
  BY <1>2 DEF Observed, ConfsOf

\* Beginning a plan keeps the types (engine.ts:228-232).
LEMMA PlanBeginTypes ==
  ASSUME TypeInv, NEW l \in Plans, NEW p \in Projects, PlanBegin(l, p)
  PROVE  TypeInv'
<1>1. proj[p] \in Stacks
  BY DEF TypeInv, TypeOK, PlanBegin
<1>2. [pc |-> "observe", project |-> p, own |-> proj[p]] \in DraftRec
  BY <1>1 DEF DraftRec
<1>3. draft' \in [Plans -> DraftRec]
  BY <1>2 DEF TypeInv, TypeOK, PlanBegin
<1>4. TypeOK'
  BY <1>3 DEF TypeInv, TypeOK, PlanBegin, disk
<1> QED
  BY <1>4, QuietChange DEF PlanBegin, disk

\* Observing the stack for a plan keeps the types (engine.ts:233-248).
LEMMA PlanObserveTypes ==
  ASSUME TypeInv, NEW l \in Plans, PlanObserve(l)
  PROVE  TypeInv'
<1> DEFINE d == draft[l]
           next == [pc |-> "store", project |-> d.project, snap |-> Observed(d.own)]
<1>1. d \in DraftRec /\ d.pc = "observe" /\ draft \in [Plans -> DraftRec]
  BY DEF TypeInv, TypeOK, PlanObserve
<1>2. d.project \in Projects /\ d.own \in Stacks
  BY <1>1 DEF DraftRec, IdleDraft
<1>3. next \in DraftRec /\ IdleDraft \in DraftRec
  BY <1>2, ObservedTypes DEF DraftRec
<1>4. \/ draft' = [draft EXCEPT ![l] = next]
      \/ draft' = [draft EXCEPT ![l] = IdleDraft]
  BY DEF PlanObserve
<1>5. draft' \in [Plans -> DraftRec]
  BY <1>1, <1>3, <1>4
<1>6. plan' = plan \/ plan' = PrunedPlans
  BY DEF PlanObserve
<1>7. /\ plan' \in [Plans -> PlanRec \cup {NoPlanRec}]
      /\ \A m \in Plans : plan[m].st # "none" => plan'[m].st # "none"
  BY <1>6, PruneTypes DEF TypeInv, TypeOK
<1>8. ctr' = ctr /\ faults' \in 0..MaxFaults
  BY OldTypes, FaultTypes DEF PlanObserve, ReadFails, Refused
<1>9. UNCHANGED <<proj, base, op, reviews, locks, flow, clean, adopting, req>>
  BY DEF PlanObserve
<1>10. TypeOK'
  BY <1>5, <1>7, <1>8, <1>9 DEF TypeInv, TypeOK
<1> QED
  BY <1>7, <1>9, <1>10, QuietChange

\* Storing a plan keeps the types (engine.ts:285-290).
LEMMA PlanStoreTypes ==
  ASSUME TypeInv, NEW l \in Plans, NEW c \in Cfgs, PlanStore(l, c)
  PROVE  TypeInv'
<1> DEFINE d == draft[l]
           new == [st |-> "kept", project |-> d.project, snap |-> d.snap,
                   cfg |-> c, base |-> base[d.project], expired |-> FALSE]
<1>1. d \in DraftRec /\ d.pc = "store" /\ draft \in [Plans -> DraftRec]
  BY DEF TypeInv, TypeOK, PlanStore
<1>2. d.project \in Projects /\ d.snap \in [Slots -> Snapshots]
  BY <1>1 DEF DraftRec, IdleDraft
<1>3. base[d.project] \in [Slots -> Confs] \cup {<<>>}
  BY <1>2, OldTypes
<1>4. new \in PlanRec /\ new.st = "kept"
  BY <1>2, <1>3 DEF PlanRec
<1>5. plan' = [plan EXCEPT ![l] = new] \/ plan' = plan
  BY DEF PlanStore
<1>6. plan \in [Plans -> PlanRec \cup {NoPlanRec}]
  BY DEF TypeInv, TypeOK
<1>7. /\ plan' \in [Plans -> PlanRec \cup {NoPlanRec}]
      /\ \A m \in Plans : plan[m].st # "none" => plan'[m].st # "none"
  BY <1>4, <1>5, <1>6
<1>8. draft' \in [Plans -> DraftRec]
  BY <1>1 DEF PlanStore, DraftRec
<1>9. /\ UNCHANGED <<ctr, proj, base, op, reviews, locks, flow, clean, adopting,
                     req>>
      /\ faults' = faults \/ Fault("fail") \/ Fault("save")
  BY DEF PlanStore
<1>10. TypeOK'
  BY <1>7, <1>8, <1>9, FaultTypes DEF TypeInv, TypeOK
<1> QED
  BY <1>7, <1>9, <1>10, QuietChange

\* Time passes, or expired plans are pruned.
LEMMA ExpiryTypes ==
  ASSUME TypeInv,
         \/ \E l \in Plans : ExpirePlan(l)
         \/ \E v \in reviews : ExpireReview(v)
         \/ Prune
  PROVE  TypeInv'
<1>1. plan \in [Plans -> PlanRec \cup {NoPlanRec}]
  BY DEF TypeInv, TypeOK
<1>2. ASSUME NEW l \in Plans, ExpirePlan(l)
      PROVE  /\ plan' \in [Plans -> PlanRec \cup {NoPlanRec}]
             /\ \A m \in Plans : plan[m].st # "none" => plan'[m].st # "none"
  <2>1. plan' = [plan EXCEPT ![l] = [plan[l] EXCEPT !.expired = TRUE]]
    BY <1>2, <1>1 DEF ExpirePlan
  <2>2. plan[l].st = "kept"
    BY <1>2 DEF ExpirePlan, Kept
  <2> QED
    BY <2>1, <2>2, <1>1, PlanMarks
<1>3. /\ plan' \in [Plans -> PlanRec \cup {NoPlanRec}]
      /\ \A m \in Plans : plan[m].st # "none" => plan'[m].st # "none"
  BY <1>1, <1>2, PruneTypes DEF ExpireReview, Prune
<1>4. reviews' \subseteq reviews
  BY DEF ExpirePlan, ExpireReview, Prune
<1>5. UNCHANGED <<ctr, proj, base, op, locks, flow, clean, draft, adopting,
                  req, faults>>
  BY DEF ExpirePlan, ExpireReview, Prune, memory
<1>6. TypeOK'
  BY <1>3, <1>4, <1>5 DEF TypeInv, TypeOK
<1> QED
  BY <1>3, <1>5, <1>6, QuietChange

\* A review keeps the types (engine.ts:346-350, 388-392).
LEMMA ReviewTypes ==
  ASSUME TypeInv, NEW o \in Ops, ReviewRecovery(o) \/ ReviewCleanup(o)
  PROVE  TypeInv'
<1>1. plan' = PrunedPlans
  BY DEF ReviewRecovery, ReviewCleanup
<1>2. \A v \in reviews' : v.op \in Ops /\ v.kind \in {"recovery", "cleanup"}
  BY DEF ReviewRecovery, ReviewCleanup, Listed, TypeInv, TypeOK
<1>3. UNCHANGED <<ctr, proj, base, op, locks, flow, clean, draft, adopting,
                  req, faults>>
  BY DEF ReviewRecovery, ReviewCleanup, memory
<1>4. TypeOK'
  BY <1>1, <1>2, <1>3, PruneTypes DEF TypeInv, TypeOK
<1> QED
  BY <1>1, <1>3, <1>4, PruneTypes, QuietChange

\* Beginning an adoption, and inspecting for it, keeps the types
\* (engine.ts:204-217).
LEMMA AdoptTypes ==
  ASSUME TypeInv, NEW p \in Projects,
         \/ \E s \in Selections : AdoptBegin(p, s)
         \/ AdoptInspect(p)
  PROVE  TypeInv'
<1> DEFINE s == adopting[p].own
           next == [pc |-> "claim", own |-> s, confs |-> ConfsOf(s)]
<1>1. adopting \in [Projects -> AdoptRec] /\ adopting[p] \in AdoptRec
  BY DEF TypeInv, TypeOK
<1>2. ASSUME NEW t \in Selections, AdoptBegin(p, t)
      PROVE  adopting' \in [Projects -> AdoptRec] /\ UNCHANGED <<ctr, faults>>
  <2>1. [pc |-> "inspect", own |-> t] \in AdoptRec
    BY DEF AdoptRec, Selections
  <2> QED
    BY <1>1, <1>2, <2>1 DEF AdoptBegin
<1>3. ASSUME AdoptInspect(p)
      PROVE  /\ adopting' \in [Projects -> AdoptRec]
             /\ ctr' = ctr /\ faults' \in 0..MaxFaults
  <2>1. adopting[p].pc = "inspect"
    BY <1>3 DEF AdoptInspect
  <2>2. s \in Stacks
    BY <1>1, <2>1 DEF AdoptRec, IdleAdopt
  <2>3. next \in AdoptRec /\ IdleAdopt \in AdoptRec
    BY <2>2, ObservedTypes DEF AdoptRec
  <2>4. \/ adopting' = [adopting EXCEPT ![p] = next]
        \/ adopting' = [adopting EXCEPT ![p] = IdleAdopt]
    BY <1>3 DEF AdoptInspect
  <2>5. ctr' = ctr /\ faults' \in 0..MaxFaults
    BY <1>3, OldTypes, FaultTypes DEF AdoptInspect, ReadFails, Refused
  <2> QED
    BY <1>1, <2>3, <2>4, <2>5
<1>4. UNCHANGED <<disk, locks, flow, clean, draft, req>>
  BY DEF AdoptBegin, AdoptInspect
<1>5. adopting' \in [Projects -> AdoptRec] /\ ctr' = ctr /\ faults' \in 0..MaxFaults
  BY <1>2, <1>3, OldTypes
<1>6. TypeOK'
  BY <1>4, <1>5 DEF TypeInv, TypeOK, disk
<1> QED
  BY <1>4, <1>6, QuietChange DEF disk

\* Claiming a stack keeps the types (engine.ts:218-226).
LEMMA AdoptClaimTypes ==
  ASSUME TypeInv, NEW p \in Projects, AdoptClaim(p)
  PROVE  TypeInv'
<1>1. adopting \in [Projects -> AdoptRec] /\ adopting[p] \in AdoptRec
  BY DEF TypeInv, TypeOK
<1>2. adopting[p].pc = "claim"
  BY DEF AdoptClaim
<1>3. adopting[p].own \in Stacks /\ adopting[p].confs \in [Slots -> Confs]
  BY <1>1, <1>2 DEF AdoptRec, IdleAdopt
<1>4. adopting' \in [Projects -> AdoptRec]
  BY <1>1 DEF AdoptClaim, AdoptRec
<1>5. /\ base' \in [Projects -> [Slots -> Confs] \cup {<<>>}]
      /\ proj' \in [Projects -> Stacks \cup {<<>>}]
      /\ ctr' = ctr /\ faults' \in 0..MaxFaults
  BY <1>3, OldTypes, FaultTypes DEF AdoptClaim, ReadFails, Refused
<1>6. UNCHANGED <<plan, op, reviews, locks, flow, clean, draft, req>>
  BY DEF AdoptClaim
<1>7. TypeOK'
  BY <1>4, <1>5, <1>6 DEF TypeInv, TypeOK
<1> QED
  BY <1>6, <1>7, QuietChange

\* Beginning a recovery completion keeps the types (engine.ts:351-353).
LEMMA RecoveryBeginTypes ==
  ASSUME TypeInv, NEW r \in Requests, NEW o \in Ops, RecoveryBegin(r, o)
  PROVE  TypeInv'
<1>1. o \in Live
  BY DEF RecoveryBegin, NeedsRecovery, Live
<1>2. [pc |-> "inspect", op |-> o] \in ReqRec
  BY DEF ReqRec
<1>3. req' = [req EXCEPT ![r] = [pc |-> "inspect", op |-> o]]
  BY DEF RecoveryBegin
<1>4. UNCHANGED <<ctr, disk, locks, flow, clean, draft, adopting, faults>>
  BY DEF RecoveryBegin
<1>5. req \in [Requests -> ReqRec]
  BY DEF TypeInv, TypeOK
<1>6. TypeOK'
  BY <1>2, <1>3, <1>4, <1>5 DEF TypeInv, TypeOK, disk
<1>7. \A q \in Requests : req'[q] = req[q] \/ req'[q].op \in Live
  BY <1>1, <1>3, <1>5
<1> QED
  BY <1>4, <1>6, <1>7, OwnerChange DEF disk

\* What is known of a running recovery completion.
LEMMA Requesting ==
  ASSUME TypeInv, NEW r \in Requests, req[r].pc # "idle"
  PROVE  /\ req[r] \in [pc : {"inspect", "confirm"}, op : Ops]
         /\ req[r].op \in Live
BY DEF TypeInv, TypeOK, RequestsOK, ReqRec, IdleReq

\* Inspecting for a recovery completion keeps the types (engine.ts:311-320).
LEMMA RecoveryInspectTypes ==
  ASSUME TypeInv, NEW r \in Requests, RecoveryInspect(r)
  PROVE  TypeInv'
<1> DEFINE next == [req[r] EXCEPT !.pc = "confirm"]
<1>1. req[r] \in [pc : {"inspect", "confirm"}, op : Ops] /\ req[r].op \in Live
  BY Requesting DEF RecoveryInspect
<1>2. next \in ReqRec /\ next.op = req[r].op /\ IdleReq \in ReqRec
  BY <1>1 DEF ReqRec
<1>3. req \in [Requests -> ReqRec]
  BY DEF TypeInv, TypeOK
<1>4. req' = [req EXCEPT ![r] = next] \/ req' = [req EXCEPT ![r] = IdleReq]
  BY DEF RecoveryInspect
<1>5. ctr' = ctr /\ faults' \in 0..MaxFaults
  BY OldTypes, FaultTypes DEF RecoveryInspect, ReadFails, Refused
<1>6. UNCHANGED <<disk, locks, flow, clean, draft, adopting>>
  BY DEF RecoveryInspect
<1>7. TypeOK'
  BY <1>2, <1>3, <1>4, <1>5, <1>6 DEF TypeInv, TypeOK, disk
<1>8. \A q \in Requests : \/ req'[q] = req[q] \/ req'[q].pc = "idle"
                          \/ req'[q].op \in Live
  BY <1>1, <1>2, <1>3, <1>4 DEF IdleReq
<1> QED
  BY <1>6, <1>7, <1>8, OwnerChange DEF disk

\* An operation record that takes another status or another clean-up status.
LEMMA MarkTypes ==
  ASSUME TypeInv, NEW o \in Ops, NEW st \in OpStatus,
         NEW up \in {"none", "applying", "completed", "interrupted"},
         NEW gone \in SUBSET Ids
  PROVE  /\ [op[o] EXCEPT !.st = st] \in OpRec
         /\ [op[o] EXCEPT !.cleanup = up] \in OpRec
         /\ [op[o] EXCEPT !.cleaned = gone] \in OpRec
         /\ [op[o] EXCEPT !.cleanup = up, !.cleaned = gone] \in OpRec
         /\ [op[o] EXCEPT !.st = st, !.cleanup = up] \in OpRec
         /\ op[o] \in OpRec
<1>1. op[o] \in OpRec
  BY OldTypes
<1> QED
  BY <1>1 DEF OpRec

\* Confirming a recovery keeps the types (engine.ts:355-366).
LEMMA RecoveryConfirmTypes ==
  ASSUME TypeInv, NEW r \in Requests, RecoveryConfirm(r)
  PROVE  TypeInv'
<1> DEFINE o == req[r].op
<1>1. o \in Ops /\ o \in Live
  BY Requesting DEF RecoveryConfirm
<1>2. /\ proj' \in [Projects -> Stacks \cup {<<>>}]
      /\ base' \in [Projects -> [Slots -> Confs] \cup {<<>>}]
      /\ ctr' = ctr /\ faults' \in 0..MaxFaults
  BY <1>1, FormerTypes, OldTypes, FaultTypes
  DEF RecoveryConfirm, Returned, ReadFails, Refused
<1>3. /\ op' \in [Ops -> OpRec]
      /\ \A q \in Ops : /\ op'[q].st = "none" <=> op[q].st = "none"
                        /\ op'[q].plan = op[q].plan
  <2> DEFINE rec == [op[o] EXCEPT !.st = "rolled_back"]
  <2>1. rec \in OpRec
    BY <1>1, MarkTypes DEF OpStatus
  <2>2. rec.st = "rolled_back" /\ rec.plan = op[o].plan
    BY <1>1, OldTypes DEF OpRec
  <2>3. op' = op \/ op' = [op EXCEPT ![o] = rec]
    BY DEF RecoveryConfirm
  <2> QED
    BY <1>1, <2>1, <2>2, <2>3, OldTypes DEF Live
<1>4. locks' \subseteq Projects
  BY OldTypes DEF RecoveryConfirm, Unlock
<1>5. req' \in [Requests -> ReqRec]
  BY DEF RecoveryConfirm, TypeInv, TypeOK, ReqRec
<1>6. UNCHANGED <<plan, reviews, flow, clean, draft, adopting>>
  BY DEF RecoveryConfirm
<1>7. TypeOK'
  BY <1>2, <1>3, <1>4, <1>5, <1>6 DEF TypeInv, TypeOK
<1>8. \A q \in Requests : req'[q] = req[q] \/ req'[q].pc = "idle"
  BY DEF RecoveryConfirm, IdleReq, TypeInv, TypeOK
<1> QED
  BY <1>3, <1>6, <1>7, <1>8, OwnerChange

\* A cleanup changes nothing of a record but its marks.
Marks(o) ==
  \E rec \in OpRec : /\ rec.st = op[o].st /\ rec.plan = op[o].plan
                     /\ op' = op \/ op' = [op EXCEPT ![o] = rec]

\* Every step of a cleanup has this shape.
LEMMA CleanChange ==
  ASSUME TypeInv, NEW o \in Ops, o \in Live,
         NEW c \in CleanRec, clean' = [clean EXCEPT ![o] = c],
         c.pc \in {"check", "delete"} => c.k \in Slots,
         Marks(o),
         ctr' \in [Ids -> Containers],
         locks' \subseteq Projects, faults' \in 0..MaxFaults,
         UNCHANGED untouched
  PROVE  TypeInv'
<1>1. /\ op' \in [Ops -> OpRec]
      /\ \A q \in Ops : /\ op'[q].st = "none" <=> op[q].st = "none"
                        /\ op'[q].plan = op[q].plan
  BY OldTypes DEF Marks
<1>2. clean' \in [Ops -> CleanRec]
  BY DEF TypeInv, TypeOK
<1>3. TypeOK'
  BY <1>1, <1>2 DEF TypeInv, TypeOK, untouched
<1>4. \A q \in Ops : \/ clean'[q] = clean[q]
                     \/ /\ q \in Live
                        /\ clean'[q].pc \in {"check", "delete"} => clean'[q].k \in Slots
  BY DEF TypeInv, TypeOK
<1> QED
  BY <1>1, <1>3, <1>4, OwnerChange DEF untouched

\* What is known of a running cleanup.
LEMMA Cleaning ==
  ASSUME TypeInv, NEW o \in Ops, clean[o].pc # "idle"
  PROVE  /\ o \in Live /\ clean[o].k \in 0..Size /\ clean[o].todo \in SUBSET Slots
         /\ clean[o].pc \in {"check", "delete"} => clean[o].k \in Slots
<1>1. clean[o] \in CleanRec
  BY DEF TypeInv, TypeOK
<1> QED
  BY <1>1 DEF TypeInv, CleanOK, CleanRec

\* A cleanup ends, with some mark in its record or with none.
LEMMA EndCleanTypes ==
  ASSUME TypeInv, NEW o \in Ops, o \in Live, EndClean(o),
         Marks(o),
         ctr' \in [Ids -> Containers], faults' \in 0..MaxFaults,
         UNCHANGED untouched
  PROVE  TypeInv'
<1>1. IdleClean \in CleanRec /\ IdleClean.pc = "idle"
  BY SlotFacts DEF IdleClean, CleanRec
<1>2. clean' = [clean EXCEPT ![o] = IdleClean] /\ locks' \subseteq Projects
  BY OldTypes DEF EndClean, Unlock
<1> QED
  BY <1>1, <1>2, CleanChange

\* A cleanup that fails keeps the types (engine.ts:408-410).
LEMMA CleanupStopsTypes ==
  ASSUME TypeInv, NEW o \in Ops, o \in Live, CleanupStops(o),
         ctr' \in [Ids -> Containers], faults' \in 0..MaxFaults,
         UNCHANGED untouched
  PROVE  TypeInv'
<1> DEFINE up == IF op[o].cleanup = "applying" THEN "interrupted" ELSE op[o].cleanup
           rec == [op[o] EXCEPT !.cleanup = up]
<1>1. op[o] \in OpRec
  BY OldTypes
<1>2. up \in {"none", "applying", "completed", "interrupted"}
  BY <1>1 DEF OpRec
<1>3. rec \in OpRec /\ rec.st = op[o].st /\ rec.plan = op[o].plan
  BY <1>1, <1>2 DEF OpRec
<1>4. op' = [op EXCEPT ![o] = rec]
  BY OldTypes DEF CleanupStops
<1>5. Marks(o)
  BY <1>3, <1>4 DEF Marks
<1> QED
  BY <1>5, EndCleanTypes DEF CleanupStops

\* A cleanup goes on.
LEMMA CleanGotoTypes ==
  ASSUME TypeInv, NEW o \in Ops, o \in Live, NEW todo \in SUBSET Slots,
         NEW at, at[1] \in {"check", "delete", "done"}, at[2] \in 0..Size,
         at[1] \in {"check", "delete"} => at[2] \in Slots,
         CleanGoto(o, todo, at),
         Marks(o),
         ctr' \in [Ids -> Containers],
         locks' \subseteq Projects, faults' \in 0..MaxFaults,
         UNCHANGED untouched
  PROVE  TypeInv'
<1> DEFINE c == [pc |-> at[1], k |-> at[2], todo |-> todo]
<1>1. c \in CleanRec /\ c.pc = at[1] /\ c.k = at[2]
  BY DEF CleanRec
<1>2. clean' = [clean EXCEPT ![o] = c]
  BY DEF CleanGoto
<1> QED
  BY <1>1, <1>2, CleanChange

\* The next slot of a cleanup.
LEMMA NextCheck ==
  ASSUME NEW k \in Slots
  PROVE  LET at == Then("check", k, <<"done", 0>>)
         IN /\ at[1] \in {"check", "delete", "done"} /\ at[2] \in 0..Size
            /\ at[1] \in {"check", "delete"} => at[2] \in Slots
<1>1. CASE k < Size
  <2>1. Then("check", k, <<"done", 0>>) = <<"check", k + 1>>
    BY <1>1 DEF Then
  <2>2. k + 1 \in Slots /\ k + 1 \in 0..Size
    BY <1>1, SlotMoves
  <2> QED
    BY <2>1, <2>2
<1>2. CASE ~(k < Size)
  BY <1>2, SlotFacts DEF Then
<1> QED
  BY <1>1, <1>2

\* Beginning a cleanup keeps the types (engine.ts:393-397).
LEMMA CleanupBeginTypes ==
  ASSUME TypeInv, NEW o \in Ops, CleanupBegin(o)
  PROVE  TypeInv'
<1> DEFINE c == [clean[o] EXCEPT !.pc = "vet"]
<1>1. o \in Live /\ op[o] \in OpRec
  BY OldTypes DEF CleanupBegin, Cleanable, Live
<1>2. c \in CleanRec /\ c.pc = "vet"
  BY DEF TypeInv, TypeOK, CleanRec
<1>3. locks' \subseteq Projects
  BY <1>1, PlanTypes, OldTypes DEF CleanupBegin
<1>4. clean' = [clean EXCEPT ![o] = c] /\ UNCHANGED <<ctr, op, untouched, faults>>
  BY DEF CleanupBegin
<1>5. Marks(o)
  BY <1>1, <1>4 DEF Marks
<1> QED
  BY <1>1, <1>2, <1>3, <1>4, <1>5, CleanChange, OldTypes

\* Vetting a cleanup keeps the types (engine.ts:398-400).
LEMMA CleanupVetTypes ==
  ASSUME TypeInv, NEW o \in Ops, CleanupVet(o)
  PROVE  TypeInv'
<1> DEFINE good == Deletable(o) /\ Listed(o) \in reviews
           begun == [op[o] EXCEPT !.cleanup = "applying"]
           cut == [op[o] EXCEPT !.cleanup = "interrupted"]
<1>1. o \in Live /\ op[o] \in OpRec
  BY Cleaning, OldTypes DEF CleanupVet
<1>2. /\ begun \in OpRec /\ begun.st = op[o].st /\ begun.plan = op[o].plan
      /\ cut \in OpRec /\ cut.st = op[o].st /\ cut.plan = op[o].plan
  BY <1>1 DEF OpRec
<1>3. UNCHANGED untouched
  BY DEF CleanupVet
<1>4. CASE /\ op' = [op EXCEPT ![o].cleanup = "applying"]
           /\ CleanGoto(o, Candidates(o), <<"check", 1>>)
           /\ UNCHANGED <<ctr, locks, faults>>
  <2>1. Marks(o)
    <3>1. op' = [op EXCEPT ![o] = begun]
      BY <1>4
    <3> QED
      BY <3>1, <1>2 DEF Marks
  <2>2. Candidates(o) \in SUBSET Slots /\ 1 \in Slots /\ 1 \in 0..Size
    BY SlotFacts, SlotMoves DEF Candidates, Vpn
  <2>3. /\ CleanGoto(o, Candidates(o), <<"check", 1>>)
        /\ ctr' \in [Ids -> Containers] /\ locks' \subseteq Projects
        /\ faults' \in 0..MaxFaults
    BY <1>4, OldTypes
  <2>4. <<"check", 1>>[1] = "check" /\ <<"check", 1>>[2] = 1
    OBVIOUS
  <2> QED
    BY <1>1, <1>3, <2>4, <2>1, <2>2, <2>3, CleanGotoTypes
<1>5. CASE ReadFails(good) /\ CleanupStops(o)
  <2>1. ctr' = ctr /\ faults' \in 0..MaxFaults
    BY <1>5, OldTypes, FaultTypes DEF ReadFails, Refused
  <2> QED
    BY <1>1, <1>3, <1>5, <2>1, CleanupStopsTypes, OldTypes
<1>6. CASE /\ Fault("save") /\ EndClean(o) /\ UNCHANGED ctr
           /\ op' \in {op, [op EXCEPT ![o].cleanup = "interrupted"]}
  <2>1. Marks(o)
    <3>1. op' = op \/ op' = [op EXCEPT ![o] = cut]
      BY <1>6
    <3> QED
      BY <3>1, <1>2 DEF Marks
  <2> QED
    BY <1>1, <1>3, <1>6, <2>1, EndCleanTypes, FaultTypes, OldTypes
<1> QED
  BY <1>4, <1>5, <1>6 DEF CleanupVet

\* Checking the next original keeps the types (engine.ts:401-403).
LEMMA CleanupCheckTypes ==
  ASSUME TypeInv, NEW o \in Ops, CleanupCheck(o)
  PROVE  TypeInv'
<1> DEFINE c == clean[o]
           at == Then("check", c.k, <<"done", 0>>)
<1>1. /\ o \in Live /\ op[o] \in OpRec
      /\ c.k \in Slots /\ c.k \in 0..Size /\ c.todo \in SUBSET Slots
  BY Cleaning, OldTypes DEF CleanupCheck
<1>2. UNCHANGED untouched
  BY DEF CleanupCheck
<1>3. CASE /\ CleanGoto(o, c.todo, <<"delete", c.k>>) \/ CleanGoto(o, c.todo, at)
           /\ UNCHANGED <<ctr, op, locks, faults>>
  <2>1. /\ at[1] \in {"check", "delete", "done"} /\ at[2] \in 0..Size
        /\ at[1] \in {"check", "delete"} => at[2] \in Slots
    BY <1>1, NextCheck
  <2>0. Marks(o)
    BY <1>1, <1>3 DEF Marks
  <2>2. CASE CleanGoto(o, c.todo, at)
    BY <2>0, <1>1, <1>2, <1>3, <2>1, <2>2, CleanGotoTypes, OldTypes
  <2>3. CASE CleanGoto(o, c.todo, <<"delete", c.k>>)
    BY <2>0, <1>1, <1>2, <1>3, <2>3, CleanGotoTypes, OldTypes
  <2> QED
    BY <1>3, <2>2, <2>3
<1>4. CASE (\E good \in BOOLEAN : ReadFails(good)) /\ CleanupStops(o)
  <2>1. ctr' = ctr /\ faults' \in 0..MaxFaults
    BY <1>4, OldTypes, FaultTypes DEF ReadFails, Refused
  <2> QED
    BY <1>1, <1>2, <1>4, <2>1, CleanupStopsTypes, OldTypes
<1> QED
  BY <1>3, <1>4 DEF CleanupCheck

\* Removing an original keeps the types (engine.ts:404-405).
LEMMA CleanupDeleteTypes ==
  ASSUME TypeInv, NEW o \in Ops, CleanupDelete(o)
  PROVE  TypeInv'
<1> DEFINE c == clean[o]
           i == Orig(o, StopSlot(c.k))
           at == Then("check", c.k, <<"done", 0>>)
           gone == [op[o] EXCEPT !.cleaned = @ \cup {i}]
           cut == [op[o] EXCEPT !.cleanup = "interrupted", !.cleaned = @ \cup {i}]
<1>1. /\ o \in Live /\ op[o] \in OpRec
      /\ c.k \in Slots /\ c.k \in 0..Size /\ c.todo \in SUBSET Slots
  BY Cleaning, OldTypes DEF CleanupDelete
<1>2. i \in Ids
  BY <1>1, OriginalTypes, SlotMoves
<1>3. /\ gone \in OpRec /\ gone.st = op[o].st /\ gone.plan = op[o].plan
      /\ cut \in OpRec /\ cut.st = op[o].st /\ cut.plan = op[o].plan
  BY <1>1, <1>2 DEF OpRec
<1>4. UNCHANGED untouched
  BY DEF CleanupDelete
<1>5. RemovedC(i) \in [Ids -> Containers]
  BY <1>2, OldTypes, DockerTypes
<1>6. ctr' \in [Ids -> Containers] /\ faults' \in 0..MaxFaults
  BY <1>5, OldTypes, FaultTypes DEF CleanupDelete, Refused
<1>7. CASE /\ op' = [op EXCEPT ![o].cleaned = @ \cup {i}]
           /\ CleanGoto(o, c.todo, at) /\ UNCHANGED <<locks, faults>>
  <2>1. Marks(o)
    <3>1. op' = [op EXCEPT ![o] = gone]
      BY <1>7
    <3> QED
      BY <3>1, <1>3 DEF Marks
  <2>2. /\ at[1] \in {"check", "delete", "done"} /\ at[2] \in 0..Size
        /\ at[1] \in {"check", "delete"} => at[2] \in Slots
    BY <1>1, NextCheck
  <2>3. CleanGoto(o, c.todo, at) /\ locks' \subseteq Projects
    BY <1>7, OldTypes
  <2> HIDE DEF at
  <2> QED
    BY <1>1, <1>4, <1>6, <2>1, <2>2, <2>3, CleanGotoTypes
<1>8. CASE /\ EndClean(o)
           /\ op' \in {op, [op EXCEPT ![o].cleanup = "interrupted",
                                      ![o].cleaned = @ \cup {i}]}
  <2>1. Marks(o)
    <3>1. op' = op \/ op' = [op EXCEPT ![o] = cut]
      BY <1>8
    <3> QED
      BY <3>1, <1>3 DEF Marks
  <2> QED
    BY <1>1, <1>4, <1>6, <1>8, <2>1, EndCleanTypes, OldTypes
<1>9. CASE CleanupStops(o)
  BY <1>1, <1>4, <1>6, <1>9, CleanupStopsTypes
<1> QED
  BY <1>7, <1>8, <1>9 DEF CleanupDelete

\* The end of a cleanup keeps the types (engine.ts:406-411).
LEMMA CleanupDoneTypes ==
  ASSUME TypeInv, NEW o \in Ops, CleanupDone(o)
  PROVE  TypeInv'
<1> DEFINE rec == [op[o] EXCEPT !.cleanup = "completed"]
<1>1. o \in Live /\ op[o] \in OpRec
  BY Cleaning, OldTypes DEF CleanupDone
<1>2. rec \in OpRec /\ rec.st = op[o].st /\ rec.plan = op[o].plan
  BY <1>1 DEF OpRec
<1>3. op' = op \/ op' = [op EXCEPT ![o] = rec]
  BY DEF CleanupDone
<1>4. EndClean(o) /\ UNCHANGED <<ctr, untouched>> /\ faults' \in 0..MaxFaults
  BY OldTypes, FaultTypes DEF CleanupDone
<1>5. Marks(o)
  BY <1>2, <1>3 DEF Marks
<1> QED
  BY <1>1, <1>4, <1>5, EndCleanTypes, OldTypes

\* Every step of a cleanup keeps the types.
LEMMA CleanupStepTypes ==
  ASSUME TypeInv, NEW o \in Ops, CleanupStep(o)
  PROVE  TypeInv'
BY CleanupVetTypes, CleanupCheckTypes, CleanupDeleteTypes, CleanupDoneTypes
DEF CleanupStep

\* The record of an apply that begins.
LEMMA BeginRecord ==
  ASSUME TypeInv, NEW l \in Plans, NEW st \in OpStatus \ {"none"}
  PROVE  /\ [Start(l) EXCEPT !.st = st] \in OpRec /\ Start(l) \in OpRec
         /\ [Start(l) EXCEPT !.st = st].st = st /\ Start(l).st = "applying"
         /\ [Start(l) EXCEPT !.st = st].plan = l /\ Start(l).plan = l
<1>1. <<>> \in Seq(Ids)
  OBVIOUS
<1>2. NoOp \in OpRec
  BY <1>1 DEF NoOp, OpRec, OpStatus
<1>3. Start(l) \in OpRec /\ Start(l).st = "applying" /\ Start(l).plan = l
  BY <1>2 DEF Start, OpRec, OpStatus
<1> QED
  BY <1>3 DEF OpRec

\* Beginning an apply keeps the types (engine.ts:426-434).
LEMMA ApplyBeginTypes ==
  ASSUME TypeInv, NEW o \in Ops, NEW l \in Plans, ApplyBegin(o, l)
  PROVE  TypeInv'
<1> DEFINE p == plan[l].project
           f == [IdleFlow EXCEPT !.pc = "validate", !.st = "applying",
                                 !.own = proj[p]]
           done == [Start(l) EXCEPT !.st = "rolled_back"]
<1>1. /\ op[o].st = "none" /\ flow[o].pc = "idle" /\ plan[l].st = "kept"
      /\ UNCHANGED <<ctr, proj, plan, reviews, clean, draft, adopting, req>>
  BY DEF ApplyBegin
<1>2. p \in Projects /\ plan[l].base \in [Slots -> Confs] \cup {<<>>}
  <2>1. plan[l] \in PlanRec \cup {NoPlanRec}
    BY DEF TypeInv, TypeOK
  <2> QED
    BY <1>1, <2>1 DEF PlanRec, NoPlanRec
<1>3. /\ f \in FlowRec /\ f.pc = "validate" /\ f.st = "applying"
      /\ f.created = <<>>
  <2>1. proj[p] \in Stacks \cup {<<>>} /\ <<>> \in Seq(Ids) /\ 0 \in 0..Size
    BY <1>2, OldTypes, SlotFacts
  <2>2. IdleFlow \in FlowRec /\ IdleFlow.created = <<>>
    BY <2>1 DEF IdleFlow, FlowRec, Points, OpStatus
  <2> QED
    BY <2>1, <2>2 DEF FlowRec, Points, OpStatus
<1>4. /\ Start(l) \in OpRec /\ Start(l).st = "applying" /\ Start(l).plan = l
      /\ done \in OpRec /\ done.st = "rolled_back" /\ done.plan = l
  BY BeginRecord DEF OpStatus
<1>5. /\ base' \in [Projects -> [Slots -> Confs] \cup {<<>>}]
      /\ locks' \subseteq Projects /\ faults' \in 0..MaxFaults
  BY <1>2, OldTypes, FaultTypes DEF ApplyBegin
<1>6. CASE op' = op /\ flow' = flow
  <2>1. TypeOK'
    BY <1>1, <1>5, <1>6 DEF TypeInv, TypeOK
  <2> QED
    BY <1>1, <1>6, <2>1, QuietChange
<1>7. ASSUME NEW rec \in OpRec, rec.st # "none", rec.plan = l,
             op' = [op EXCEPT ![o] = rec],
             flow' = flow \/ flow' = [flow EXCEPT ![o] = f]
      PROVE  TypeInv'
  <2>1. op' \in [Ops -> OpRec] /\ flow' \in [Ops -> FlowRec]
    BY <1>7, <1>3 DEF TypeInv, TypeOK
  <2>2. TypeOK'
    BY <1>1, <1>5, <2>1 DEF TypeInv, TypeOK
  <2>3. op'[o] = rec /\ \A q \in Ops \ {o} : op'[q] = op[q]
    BY <1>7, OldTypes
  <2>4. Live \subseteq Live' /\ o \in Live'
    BY <1>7, <2>3 DEF Live
  <2>5. LiveOK'
    BY <1>1, <1>7, <2>3 DEF TypeInv, LiveOK, Plan, Live
  <2>6. Position(f)
    BY <1>3, SlotFacts DEF Position, Loops, Discards
  <2>7. FlowOK'
    <3> SUFFICES ASSUME NEW q \in Ops, flow'[q].pc # "idle"
                 PROVE  q \in Live' /\ flow'[q].st # "none" /\ Position(flow'[q])
      BY DEF FlowOK, Position
    <3>1. CASE flow'[q] = flow[q]
      BY <3>1, <2>4 DEF TypeInv, FlowOK
    <3>2. CASE q = o /\ flow'[q] = f
      BY <3>2, <1>3, <2>4, <2>6
    <3> QED
      BY <3>1, <3>2, <1>7 DEF TypeInv, TypeOK
  <2>8. CleanOK' /\ RequestsOK'
    BY <1>1, <2>4 DEF TypeInv, CleanOK, RequestsOK
  <2> QED
    BY <2>2, <2>5, <2>7, <2>8 DEF TypeInv
<1>8. \/ op' = [op EXCEPT ![o] = Start(l)] /\ flow' = [flow EXCEPT ![o] = f]
      \/ op' = [op EXCEPT ![o] = done] /\ flow' = flow
      \/ op' = [op EXCEPT ![o] = Start(l)] /\ flow' = flow
      \/ op' = op /\ flow' = flow
  BY DEF ApplyBegin
<1> HIDE DEF f, done
<1> QED
  BY <1>4, <1>6, <1>7, <1>8

\* A call that a crash leaves unanswered.
LEMMA UnansweredTypes ==
  ASSUME TypeInv, NEW o \in Ops, Unanswered(o)
  PROVE  ctr' \in [Ids -> Containers]
<1> DEFINE k == flow[o].k
           i == Orig(o, k)
           new == flow[o].created[k]
<1>1. /\ flow[o].pc # "idle" /\ o \in Live /\ Position(flow[o])
      /\ flow[o].created \in Seq(Ids) /\ Len(flow[o].created) \in Nat
  BY Flowing DEF Unanswered
<1>2. CASE \E S : ctr' = Stopped(S)
  BY <1>2, StoppedTypes, OldTypes
<1>3. CASE flow[o].pc = "create" /\ ctr' = Replacement(o, k)
           /\ CanCreate(Snap(o)[k].conf.name)
  BY <1>3, ReplacementTypes
<1>4. CASE flow[o].pc \in {"rename", "rename back"}
           /\ \/ ctr' = Renamed(i, Backup(o, k))
              \/ ctr' = Renamed(i, Snap(o)[k].conf.name)
  <2>1. i \in Ids /\ Backup(o, k) \in Names /\ Snap(o)[k].conf.name \in Names
    BY <1>1, <1>4, OriginalTypes DEF Position, Loops
  <2>2. /\ Renamed(i, Backup(o, k)) \in [Ids -> Containers]
        /\ Renamed(i, Snap(o)[k].conf.name) \in [Ids -> Containers]
    BY <2>1, DockerTypes, OldTypes
  <2> QED
    BY <2>2, <1>4
<1>5. CASE flow[o].pc \in {"start", "remove"}
           /\ (ctr' = Started(new) \/ ctr' = RemovedC(new))
  <2>1. k \in 1..Len(flow[o].created)
    <3>1. CASE flow[o].pc = "start"
      <4>1. k = Len(flow[o].created) /\ k \in Slots
        BY <1>1, <3>1 DEF Position, Loops
      <4> QED
        BY <4>1, SlotFacts, <1>1
    <3>2. CASE flow[o].pc = "remove"
      BY <1>1, <3>2 DEF Position, Discards
    <3> QED
      BY <1>5, <3>1, <3>2
  <2>2. new \in Ids
    BY <1>1, <2>1
  <2> QED
    BY <2>2, <1>5, DockerTypes, OldTypes
<1>6. CASE flow[o].pc = "restart" /\ ctr' = Started(i)
  <2>1. i \in Ids
    BY <1>1, <1>6, OriginalTypes DEF Position, Loops
  <2> QED
    BY <2>1, <1>6, DockerTypes, OldTypes
<1> QED
  BY <1>2, <1>3, <1>4, <1>5, <1>6 DEF Unanswered

\* A call that was under way when the helper crashed keeps the types of the
\* containers.
LEMMA StrayTypes ==
  ASSUME TypeInv, Stray
  PROVE  ctr' \in [Ids -> Containers]
<1>1. ASSUME NEW o \in Ops, clean[o].pc = "delete",
             ctr' = RemovedC(Orig(o, StopSlot(clean[o].k)))
      PROVE  ctr' \in [Ids -> Containers]
  <2>1. o \in Live /\ clean[o].k \in Slots
    BY <1>1, Cleaning
  <2>2. Orig(o, StopSlot(clean[o].k)) \in Ids
    BY <2>1, OriginalTypes, SlotMoves
  <2> QED
    BY <1>1, <2>2, DockerTypes, OldTypes
<1> QED
  BY <1>1, UnansweredTypes, OldTypes DEF Stray

\* The writes that precede a crash keep the types of the records.
LEMMA TornTypes ==
  ASSUME TypeInv, Torn
  PROVE  /\ proj' \in [Projects -> Stacks \cup {<<>>}]
         /\ base' \in [Projects -> [Slots -> Confs] \cup {<<>>}]
<1>1. ASSUME NEW o \in Ops, flow[o].pc = "commit",
             base' = Replaced(o), proj' \in {proj, Rebound(o)}
      PROVE  /\ proj' \in [Projects -> Stacks \cup {<<>>}]
             /\ base' \in [Projects -> [Slots -> Confs] \cup {<<>>}]
  BY <1>1, CreatedStack, OldTypes
<1>2. ASSUME NEW o \in Ops, flow[o].pc # "idle", base' = Former(o), proj' = proj
      PROVE  /\ proj' \in [Projects -> Stacks \cup {<<>>}]
             /\ base' \in [Projects -> [Slots -> Confs] \cup {<<>>}]
  BY <1>2, Flowing, FormerTypes, OldTypes
<1>3. ASSUME NEW r \in Requests, req[r].pc = "confirm",
             proj' = Returned(req[r].op), base' \in {base, Former(req[r].op)}
      PROVE  /\ proj' \in [Projects -> Stacks \cup {<<>>}]
             /\ base' \in [Projects -> [Slots -> Confs] \cup {<<>>}]
  BY <1>3, Requesting, FormerTypes, OldTypes DEF Returned
<1>4. ASSUME NEW o \in Ops, flow[o].pc = "validate", base' = Confirming(o), proj' = proj
      PROVE  /\ proj' \in [Projects -> Stacks \cup {<<>>}]
             /\ base' \in [Projects -> [Slots -> Confs] \cup {<<>>}]
  <2>1. o \in Live
    BY <1>4, Flowing
  <2>2. [k \in Slots |-> Snap(o)[k].conf] \in [Slots -> Confs]
    BY <2>1, PlanTypes DEF Snapshots
  <2> QED
    BY <1>4, <2>1, <2>2, PlanTypes, OldTypes DEF Confirming
<1> QED
  BY <1>1, <1>2, <1>3, <1>4, OldTypes DEF Torn

\* A crash and the restart after it keep the types (engine.ts:117-129).
LEMMA CrashTypes ==
  ASSUME TypeInv, Crash
  PROVE  TypeInv'
<1>1. /\ ctr' \in [Ids -> Containers] /\ faults' \in 0..MaxFaults
      /\ proj' \in [Projects -> Stacks \cup {<<>>}]
      /\ base' \in [Projects -> [Slots -> Confs] \cup {<<>>}]
  BY StrayTypes, TornTypes, FaultTypes DEF Crash
<1>2. ASSUME NEW o \in Ops
      PROVE  /\ Restarted[o] \in OpRec
             /\ Restarted[o].st = "none" <=> op[o].st = "none"
             /\ Restarted[o].plan = op[o].plan
  <2> DEFINE st == IF op[o].st = "applying" THEN "interrupted" ELSE op[o].st
             up == IF op[o].cleanup = "applying" THEN "interrupted"
                   ELSE op[o].cleanup
  <2>1. op[o] \in OpRec
    BY OldTypes
  <2>2. /\ st \in OpStatus /\ (st = "none" <=> op[o].st = "none")
        /\ up \in {"none", "applying", "completed", "interrupted"}
    BY <2>1 DEF OpRec, OpStatus
  <2>3. Restarted[o] = [op[o] EXCEPT !.st = st, !.cleanup = up]
    BY DEF Restarted
  <2> HIDE DEF st, up
  <2> QED
    BY <2>1, <2>2, <2>3 DEF OpRec
<1>3. /\ op' \in [Ops -> OpRec]
      /\ \A o \in Ops : /\ op'[o].st = "none" <=> op[o].st = "none"
                        /\ op'[o].plan = op[o].plan
  BY <1>2 DEF Crash, Restarted
<1>4. /\ IdleFlow \in FlowRec /\ IdleClean \in CleanRec
      /\ IdleDraft \in DraftRec /\ IdleAdopt \in AdoptRec /\ IdleReq \in ReqRec
  <2>1. 0 \in 0..Size /\ <<>> \in Seq(Ids)
    BY SlotFacts
  <2>2. IdleFlow \in FlowRec
    BY <2>1 DEF IdleFlow, FlowRec, Points, OpStatus
  <2>3. IdleClean \in CleanRec
    BY <2>1 DEF IdleClean, CleanRec
  <2> QED
    BY <2>2, <2>3 DEF DraftRec, AdoptRec, ReqRec
<1>5. /\ flow' = [o \in Ops |-> IdleFlow] /\ clean' = [o \in Ops |-> IdleClean]
      /\ draft' = [l \in Plans |-> IdleDraft]
      /\ adopting' = [p \in Projects |-> IdleAdopt]
      /\ req' = [r \in Requests |-> IdleReq]
      /\ locks' = {} /\ UNCHANGED <<plan, reviews>>
  BY DEF Crash
<1>6. TypeOK'
  BY <1>1, <1>3, <1>4, <1>5 DEF TypeInv, TypeOK
<1>7. /\ \A o \in Ops : flow'[o].pc = "idle" /\ clean'[o].pc = "idle"
      /\ \A r \in Requests : req'[r].pc = "idle"
  BY <1>5 DEF IdleFlow, IdleClean, IdleReq
<1> QED
  BY <1>3, <1>5, <1>6, <1>7, OwnerChange

\* The owner and everybody else change containers only.
LEMMA OutsideTypes ==
  ASSUME TypeInv, (\E o \in Ops : OwnerRepairs(o)) \/ (\E i \in Ids : Drift(i))
  PROVE  TypeInv'
<1>1. ASSUME NEW o \in Ops, OwnerRepairs(o)
      PROVE  ctr' \in [Ids -> Containers] /\ faults' = faults
  <2> DEFINE slot(i) == {k \in Slots : Orig(o, k) = i}
             its(i) == CHOOSE k \in slot(i) : TRUE
             names == {Snap(o)[k].conf.name : k \in Slots}
             own(i) == [ctr[i] EXCEPT !.name = Snap(o)[its(i)].conf.name,
                          !.st = IF Snap(o)[its(i)].up THEN "running"
                                 ELSE "stopped"]
             gone(i) == [ctr[i] EXCEPT !.st = "removed"]
             other(i) == IF Exists(i) /\ (ctr[i].name \in names
                                            \/ i \in Members(op[o].created))
                         THEN gone(i) ELSE ctr[i]
  <2>1. o \in Live
    BY <1>1 DEF OwnerRepairs, NeedsRecovery, Live
  <2>2. ASSUME NEW i \in Ids
        PROVE  (IF slot(i) # {} THEN own(i) ELSE other(i)) \in Containers
    <3>1. ctr[i] \in Containers
      BY OldTypes
    <3>2. CASE slot(i) # {}
      <4>1. its(i) \in Slots
        BY <3>2
      <4>2. Snap(o)[its(i)].conf.name \in Names
        BY <2>1, <4>1, OriginalTypes
      <4> HIDE DEF its
      <4>3. own(i) \in Containers
        BY <3>1, <4>2 DEF Containers, States
      <4> QED
        BY <3>2, <4>3
    <3>3. CASE slot(i) = {}
      BY <3>1, <3>3 DEF Containers, States
    <3> QED
      BY <3>2, <3>3
  <2>3. ctr' = [i \in Ids |-> IF slot(i) # {} THEN own(i) ELSE other(i)]
    BY <1>1 DEF OwnerRepairs
  <2> HIDE DEF slot, own, other
  <2> QED
    BY <1>1, <2>2, <2>3 DEF OwnerRepairs
<1>2. ASSUME NEW i \in Ids, Drift(i)
      PROVE  ctr' \in [Ids -> Containers] /\ faults' \in 0..MaxFaults
  BY <1>2, OldTypes, StoppedTypes, DockerTypes, FaultTypes DEF Drift
<1>3. UNCHANGED <<disk, memory>>
  BY DEF OwnerRepairs, Drift
<1>4. TypeOK'
  BY <1>1, <1>2, <1>3, OldTypes DEF TypeInv, TypeOK, disk, memory
<1> QED
  BY <1>3, <1>4, QuietChange DEF disk, memory

\* A helper that has adopted nothing has its records in shape.
LEMMA InitTypes == Init => TypeInv
<1> SUFFICES ASSUME Init PROVE TypeInv
  OBVIOUS
<1>1. ctr \in [Ids -> Containers]
  <2> DEFINE s == CHOOSE s \in Stacks : Injective(s)
             c == CHOOSE c \in Cfgs : TRUE
             its(i) == CHOOSE k \in Slots : s[k] = i
             spare == [st |-> "unused", name |-> [slot |-> Vpn, tags |-> {}],
                       cfg |-> c, ns |-> NoId]
  <2>1. s \in Stacks /\ c \in Cfgs
    BY HostAssumption
  <2>2. s[Vpn] \in Ids /\ Vpn \in Slots
    BY <2>1, SlotFacts DEF Stacks
  <2> HIDE DEF s, c
  <2>3. spare \in Containers
    BY <2>1, <2>2 DEF Containers, States, Names
  <2>4. ASSUME NEW i \in Ids, \E k \in Slots : s[k] = i, NEW up
        PROVE  [st |-> IF its(i) \in up THEN "running" ELSE "stopped",
                name |-> [slot |-> its(i), tags |-> {}], cfg |-> c,
                ns |-> IF its(i) = Vpn THEN NoId ELSE s[Vpn]] \in Containers
    <3>1. its(i) \in Slots
      BY <2>4
    <3> HIDE DEF its
    <3>2. [slot |-> its(i), tags |-> {}] \in Names
      BY <3>1 DEF Names
    <3> QED
      BY <2>1, <2>2, <3>2 DEF Containers, States
  <2>5. \A up : InitContainer(s, up) \in [Ids -> Containers]
    BY <2>3, <2>4 DEF InitContainer, s, c
  <2> QED
    BY <2>5 DEF Init, s
<1>2. /\ IdleFlow \in FlowRec /\ IdleClean \in CleanRec /\ NoOp \in OpRec
      /\ IdleDraft \in DraftRec /\ IdleAdopt \in AdoptRec /\ IdleReq \in ReqRec
  <2>1. 0 \in 0..Size /\ <<>> \in Seq(Ids)
    BY SlotFacts
  <2>2. IdleFlow \in FlowRec
    BY <2>1 DEF IdleFlow, FlowRec, Points, OpStatus
  <2>3. IdleClean \in CleanRec /\ NoOp \in OpRec
    BY <2>1 DEF IdleClean, CleanRec, NoOp, OpRec, OpStatus
  <2> QED
    BY <2>2, <2>3 DEF DraftRec, AdoptRec, ReqRec
<1>3. faults \in 0..MaxFaults
  BY StackAssumption DEF Init
<1>4. TypeOK
  BY <1>1, <1>2, <1>3 DEF Init, TypeOK
<1>5. Live = {} /\ LiveOK
  BY DEF Init, Live, LiveOK, NoOp
<1>6. FlowOK /\ CleanOK /\ RequestsOK
  BY DEF Init, FlowOK, CleanOK, RequestsOK, IdleFlow, IdleClean, IdleReq
<1> QED
  BY <1>4, <1>5, <1>6 DEF TypeInv

\* Every step keeps the types.
LEMMA StepTypes ==
  ASSUME TypeInv, [Next]_vars
  PROVE  TypeInv'
<1>1. CASE Next
  BY <1>1, ApplyBeginTypes, ApplyStepTypes, PlanBeginTypes, PlanObserveTypes,
     PlanStoreTypes, ExpiryTypes, AdoptTypes, AdoptClaimTypes, ReviewTypes,
     RecoveryBeginTypes, RecoveryInspectTypes, RecoveryConfirmTypes,
     CleanupBeginTypes, CleanupStepTypes, CrashTypes, OutsideTypes DEF Next
<1>2. CASE UNCHANGED vars
  <2>1. TypeOK'
    BY <1>2 DEF TypeInv, TypeOK, vars, disk, memory
  <2> QED
    BY <1>2, <2>1, QuietChange DEF vars, disk, memory
<1> QED
  BY <1>1, <1>2

\* Every record keeps its declared shape, whatever fails, crashes or is
\* changed behind the helper: an apply never looks up a service, a plan or a
\* replacement that is not there (engine.ts:424-504).
THEOREM TypesHold == Spec => []TypeOK
<1>1. TypeInv /\ [Next]_vars => TypeInv'
  BY StepTypes
<1>2. TypeInv => TypeOK
  BY DEF TypeInv
<1> QED
  BY InitTypes, <1>1, <1>2, PTL DEF Spec

-----------------------------------------------------------------------------
(* The shapes of a step.                                                   *)

\* No operation changes its plan, and no plan its project.
Faithful ==
  /\ Live \subseteq Live'
  /\ \A o \in Live : Project(o)' = Project(o) /\ Plan(o)'.st = "kept"

\* A plan that changes its status or its age only, or is new.
LEMMA PlansStay ==
  ASSUME TypeInv, Exclusion,
         \A o \in Live : o \in Live' /\ op'[o].plan = op[o].plan,
         \A l \in Plans : l \in Referenced =>
           plan'[l].project = plan[l].project /\ plan'[l].st = "kept"
  PROVE  Faithful
BY DEF Faithful, Live, Project, Plan, Referenced, TypeInv, LiveOK

\* Steps that neither begin, nor end, nor mark anything.
LEMMA QuietExclusion ==
  ASSUME TypeInv, Exclusion, UNCHANGED <<op, flow, clean, locks, req>>,
         DraftsNew', Faithful
  PROVE  Exclusion'
<1>1. /\ Live' = Live /\ \A o \in Live : Project(o)' = Project(o)
      /\ \A o \in Ops : Unfinished(o)' = Unfinished(o) /\ Busy(o)' = Busy(o)
  BY DEF Faithful, Live, Unfinished, Busy
<1>2. ReferencedPlansKept'
  BY <1>1 DEF Faithful, ReferencedPlansKept
<1>3. BusyLocked'
  BY <1>1 DEF Exclusion, BusyLocked
<1>4. BusyAlone' /\ BusyOnce'
  <2>1. BusyOnce'
    BY DEF Exclusion, BusyOnce
  <2>2. ASSUME NEW a \in Ops, NEW b \in Live, Busy(a)',
               Project(a)' = Project(b)', Busy(b)' \/ Unfinished(b)'
        PROVE  a = b
    <3>1. Busy(a) /\ a \in Live /\ (Busy(b) \/ Unfinished(b))
      BY <1>1, <2>2 DEF Exclusion, BusyLocked, Live
    <3>2. Project(a) = Project(b)
      BY <1>1, <2>2, <3>1
    <3> QED
      BY <3>1, <3>2 DEF Exclusion, BusyAlone
  <2> QED
    BY <1>1, <2>1, <2>2 DEF BusyAlone
<1>5. OneUnfinished'
  BY <1>1 DEF Exclusion, OneUnfinished, Live
<1>6. ClaimsStuck'
  BY <1>1 DEF Exclusion, ClaimsStuck, NeedsRecovery, TypeInv, RequestsOK
<1> QED
  BY <1>2, <1>3, <1>4, <1>5, <1>6 DEF Exclusion

\* A busy operation works, or ends and may release the lock.
LEMMA WorkExclusion ==
  ASSUME TypeInv, Exclusion, NEW o \in Ops, Busy(o),
         UNCHANGED <<plan, draft, req>>,
         \A q \in Ops \ {o} : /\ op'[q] = op[q] /\ flow'[q] = flow[q]
                              /\ clean'[q] = clean[q],
         op'[o].plan = op[o].plan, op'[o].st # "none", BusyOnce',
         \/ locks' = locks
         \/ locks' = locks \ {Project(o)} /\ ~Busy(o)'
  PROVE  Exclusion'
<1>1. o \in Live /\ Project(o) \in locks
  BY DEF Exclusion, BusyLocked
<1>2. Live' = Live
  BY <1>1 DEF Live
<1>3. \A q \in Ops : op'[q].plan = op[q].plan
  OBVIOUS
<1>4. \A q \in Live : Project(q)' = Project(q) /\ Plan(q)' = Plan(q)
  BY <1>3 DEF Project, Plan, Live
<1>5. \A q \in Ops \ {o} : Unfinished(q)' = Unfinished(q) /\ Busy(q)' = Busy(q)
  BY DEF Unfinished, Busy
<1>6. ReferencedPlansKept' /\ DraftsNew'
  BY <1>2, <1>4 DEF Exclusion, ReferencedPlansKept, DraftsNew
<1>7. BusyLocked'
  <2> SUFFICES ASSUME NEW q \in Ops, Busy(q)'
               PROVE  q \in Live /\ Project(q) \in locks'
    BY <1>2, <1>4 DEF BusyLocked
  <2>1. CASE q = o
    BY <2>1, <1>1
  <2>2. CASE q # o
    <3>1. Busy(q) /\ q \in Live /\ Project(q) \in locks
      BY <2>2, <1>5 DEF Exclusion, BusyLocked
    <3>2. Project(q) # Project(o)
      BY <3>1, <2>2, <1>1 DEF Exclusion, BusyAlone
    <3> QED
      BY <3>1, <3>2
  <2> QED
    BY <2>1, <2>2
<1>8. BusyAlone'
  <2> SUFFICES ASSUME NEW a \in Ops, NEW b \in Live, Busy(a)',
                      Project(a)' = Project(b)', Busy(b)' \/ Unfinished(b)'
               PROVE  a = b
    BY <1>2 DEF BusyAlone
  <2>1. Busy(a) /\ a \in Live
    BY <1>1, <1>5 DEF Exclusion, BusyLocked
  <2>2. Project(a) = Project(b)
    BY <2>1, <1>4
  <2>3. b = o \/ Busy(b) \/ Unfinished(b)
    BY <1>5 DEF Live
  <2> QED
    BY <2>1, <2>2, <2>3 DEF Exclusion, BusyAlone
<1>9. OneUnfinished'
  <2> SUFFICES ASSUME NEW a \in Live, NEW b \in Live, Project(a)' = Project(b)',
                      Unfinished(a)', Unfinished(b)'
               PROVE  a = b
    BY <1>2 DEF OneUnfinished
  <2>1. Project(a) = Project(b)
    BY <1>4
  <2>2. /\ a = o \/ Unfinished(a)
        /\ b = o \/ Unfinished(b)
    BY <1>5 DEF Live
  <2> QED
    BY <2>1, <2>2 DEF Exclusion, BusyAlone, OneUnfinished
<1>10. ClaimsStuck'
  <2> SUFFICES ASSUME NEW r \in Requests, req[r].pc # "idle"
               PROVE  NeedsRecovery(req[r].op)'
    BY DEF ClaimsStuck
  <2>1. NeedsRecovery(req[r].op) /\ req[r].op \in Live
    BY DEF Exclusion, ClaimsStuck, TypeInv, RequestsOK
  <2>2. req[r].op # o
    BY <2>1, <1>1 DEF NeedsRecovery
  <2> QED
    BY <2>1, <2>2, <1>4 DEF NeedsRecovery, Live
<1> QED
  BY <1>6, <1>7, <1>8, <1>9, <1>10 DEF Exclusion

-----------------------------------------------------------------------------
(* The steps of those who are busy.                                        *)

\* Writing the record of one operation leaves the others alone.
LEMMA JournalKeeps ==
  ASSUME TypeInv, NEW o \in Ops, o \in Live, NEW g, g.st # "none"
  PROVE  /\ \A q \in Ops \ {o} : Journal(o, g)[q] = op[q]
         /\ Journal(o, g)[o].plan = op[o].plan /\ Journal(o, g)[o].st # "none"
<1>1. op \in [Ops -> OpRec] /\ op[o] \in OpRec
  BY OldTypes
<1> DEFINE rec == [op[o] EXCEPT !.st = g.st, !.created = g.created,
                                !.renamed = g.renamed]
<1>2. Journal(o, g) = [op EXCEPT ![o] = rec]
  BY DEF Journal
<1>3. rec.plan = op[o].plan /\ rec.st = g.st
  BY <1>1 DEF OpRec
<1> QED
  BY <1>1, <1>2, <1>3

\* Every step of an apply has this shape.
ApplyShape(o) ==
  /\ UNCHANGED <<plan, clean, draft, req>>
  /\ \E f : flow' = [flow EXCEPT ![o] = f]
  /\ op' = op \/ \E g : g.st # "none" /\ op' = Journal(o, g)
  /\ \/ locks' = locks
     \/ Unlock(o) /\ End(o)

\* No step of an apply touches the plans or another flow.
LEMMA ApplyShapes ==
  ASSUME TypeInv, NEW o \in Ops, ApplyStep(o)
  PROVE  ApplyShape(o)
<1>1. flow[o].pc # "idle" => flow[o].st # "none"
  BY Flowing
<1> DEFINE f(st) == [flow[o] EXCEPT !.st = st]
<1>2. flow[o].pc # "idle" => \A st : f(st).st = st
  BY Flowing DEF FlowRec
<1>3. CASE ValidationFails(o)
  BY <1>2, <1>3 DEF ValidationFails, Abandoned, AbandonBreaks, Undone, End, ApplyShape
<1>4. CASE NothingToChange(o)
  BY <1>2, <1>4 DEF NothingToChange, Conclude, End, ApplyShape
<1>5. CASE Prepared(o)
  BY <1>5 DEF Prepared, Goto, disk, ApplyShape
<1>6. CASE StopOriginal(o)
  BY <1>6 DEF StopOriginal, Await, Goto, still, ApplyShape
<1>7. CASE RenameOriginal(o)
  <2>1. [flow[o] EXCEPT !.renamed = @ \cup {Orig(o, flow[o].k)}].st # "none"
    BY <1>7, Flowing DEF RenameOriginal, FlowRec
  <2> QED
    BY <1>7, <2>1 DEF RenameOriginal, Recorded, Goto, still, ApplyShape
<1>8. CASE CreateReplacement(o)
  <2>1. [flow[o] EXCEPT !.created = Append(@, FreshId)].st # "none"
    BY <1>8, Flowing DEF CreateReplacement, FlowRec
  <2> QED
    BY <1>8, <2>1 DEF CreateReplacement, Recorded, Goto, still, ApplyShape
<1>9. CASE StartReplacement(o) \/ AwaitReplacement(o) \/ VerifyNamespace(o)
  BY <1>9 DEF StartReplacement, AwaitReplacement, VerifyNamespace, Await, Goto,
              still, ApplyShape
<1>10. CASE Commit(o)
  BY <1>2, <1>10 DEF Commit, Conclude, End, ApplyShape
<1>11. CASE CommitFails(o)
  BY <1>11 DEF CommitFails, Goto, ApplyShape
<1>12. CASE BeginRollback(o)
  BY <1>1, <1>12 DEF BeginRollback, Goto, still, ApplyShape
<1>13. CASE DiscardReplacement(o) \/ RestoreName(o)
  BY <1>13 DEF DiscardReplacement, RestoreName, Await, Goto, still, ApplyShape
<1>14. CASE RestoreOwnership(o)
  BY <1>14 DEF RestoreOwnership, Goto, ApplyShape
<1>15. CASE RestartOriginal(o) \/ StopEverything(o)
  BY <1>15 DEF RestartOriginal, StopEverything, Await, Goto, still, ApplyShape
<1>16. CASE RolledBack(o) \/ RollbackFailed(o)
  BY <1>2, <1>16 DEF RolledBack, RollbackFailed, Conclude, Goto, End, ApplyShape
<1> QED
  BY <1>3, <1>4, <1>5, <1>6, <1>7, <1>8, <1>9, <1>10, <1>11, <1>12, <1>13,
     <1>14, <1>15, <1>16 DEF ApplyStep

\* A step of an apply keeps the others out.
LEMMA ApplyExclusion ==
  ASSUME TypeInv, Exclusion, NEW o \in Ops, ApplyStep(o)
  PROVE  Exclusion'
<1>1. ApplyShape(o)
  BY ApplyShapes
<1>2. flow[o].pc # "idle"
  BY DEF ApplyStep, ValidationFails, NothingToChange, Prepared, StopOriginal,
         RenameOriginal, CreateReplacement, StartReplacement, AwaitReplacement,
         VerifyNamespace, Commit, CommitFails, BeginRollback,
         DiscardReplacement, RestoreName, RestoreOwnership, RestartOriginal,
         RolledBack, StopEverything, RollbackFailed
<1>3. Busy(o) /\ o \in Live /\ clean[o].pc = "idle"
  BY <1>2, Flowing DEF Busy, Exclusion, BusyOnce
<1>4. /\ \A q \in Ops \ {o} : op'[q] = op[q] /\ flow'[q] = flow[q]
                              /\ clean'[q] = clean[q]
      /\ op'[o].plan = op[o].plan /\ op'[o].st # "none"
  BY <1>1, <1>3, JournalKeeps DEF ApplyShape, Live, TypeInv, TypeOK
<1>5. BusyOnce'
  BY <1>1, <1>3, <1>4 DEF ApplyShape, Exclusion, BusyOnce
<1>6. End(o) => ~Busy(o)'
  BY <1>1, <1>3 DEF ApplyShape, End, Busy, IdleFlow, TypeInv, TypeOK
<1> QED
  BY <1>1, <1>3, <1>4, <1>5, <1>6, WorkExclusion DEF ApplyShape, Unlock

\* A cleanup changes the marks of its record only.
Remarked(o) ==
  \E rec : /\ op' = op \/ op' = [op EXCEPT ![o] = rec]
           /\ rec.st = op[o].st /\ rec.plan = op[o].plan

\* A step of a cleanup keeps the others out.
LEMMA CleanupExclusion ==
  ASSUME TypeInv, Exclusion, NEW o \in Ops, CleanupStep(o)
  PROVE  Exclusion'
<1>1. clean[o].pc # "idle" /\ UNCHANGED untouched
  BY DEF CleanupStep, CleanupVet, CleanupCheck, CleanupDelete, CleanupDone
<1>2. Busy(o) /\ o \in Live /\ flow[o].pc = "idle"
  BY <1>1, Cleaning DEF Busy, Exclusion, BusyOnce
<1>3. \/ locks' = locks /\ \E c : clean' = [clean EXCEPT ![o] = c]
      \/ EndClean(o)
  BY DEF CleanupStep, CleanupVet, CleanupCheck, CleanupDelete, CleanupDone,
         CleanGoto, CleanupStops
<1>4. Remarked(o)
  <2> DEFINE up(u) == [op[o] EXCEPT !.cleanup = u]
             gone(S) == [op[o] EXCEPT !.cleaned = S]
             both(u, S) == [op[o] EXCEPT !.cleanup = u, !.cleaned = S]
  <2>1. /\ \A u : up(u).st = op[o].st /\ up(u).plan = op[o].plan
        /\ \A S : gone(S).st = op[o].st /\ gone(S).plan = op[o].plan
    BY OldTypes DEF OpRec
  <2>2. ASSUME NEW u, op' = [op EXCEPT ![o] = up(u)]
        PROVE  Remarked(o)
    BY <2>1, <2>2 DEF Remarked
  <2>3. ASSUME NEW S, op' = [op EXCEPT ![o] = gone(S)]
        PROVE  Remarked(o)
    BY <2>1, <2>3 DEF Remarked
  <2>4. ASSUME NEW u, NEW S, op' = [op EXCEPT ![o] = both(u, S)]
        PROVE  Remarked(o)
    <3>1. both(u, S).st = op[o].st /\ both(u, S).plan = op[o].plan
      BY OldTypes DEF OpRec
    <3>2. op' = [op EXCEPT ![o] = both(u, S)]
      BY <2>4
    <3> HIDE DEF both
    <3> QED
      BY <3>1, <3>2 DEF Remarked
  <2>5. CASE op' = op
    BY <2>5 DEF Remarked
  <2>6. CASE CleanupStops(o)
    <3> DEFINE u == IF op[o].cleanup = "applying" THEN "interrupted"
                    ELSE op[o].cleanup
    <3>1. op' = [op EXCEPT ![o] = up(u)]
      BY <2>6 DEF CleanupStops
    <3> QED
      BY <3>1, <2>2
  <2>7. CASE CleanupVet(o) \/ CleanupDone(o)
    <3>1. \/ op' = [op EXCEPT ![o] = up("applying")] \/ op' = op
          \/ op' = [op EXCEPT ![o] = up("interrupted")] \/ CleanupStops(o)
          \/ op' = [op EXCEPT ![o] = up("completed")]
      BY <2>7 DEF CleanupVet, CleanupDone
    <3> HIDE DEF up
    <3> QED
      BY <3>1, <2>2, <2>5, <2>6
  <2>8. CASE CleanupCheck(o)
    BY <2>5, <2>6, <2>8 DEF CleanupCheck
  <2>9. CASE CleanupDelete(o)
    <3> DEFINE S == op[o].cleaned \cup {Orig(o, StopSlot(clean[o].k))}
    <3>1. \/ op' = [op EXCEPT ![o] = gone(S)] \/ op' = op
          \/ op' = [op EXCEPT ![o] = both("interrupted", S)]
          \/ CleanupStops(o)
      BY <2>9 DEF CleanupDelete
    <3> HIDE DEF S, gone, both
    <3> QED
      BY <3>1, <2>3, <2>4, <2>5, <2>6
  <2> QED
    BY <2>7, <2>8, <2>9 DEF CleanupStep
<1>5. op'[o].plan = op[o].plan /\ op'[o].st # "none"
  BY <1>2, <1>4, OldTypes DEF Live, Remarked
<1>6. \A q \in Ops \ {o} : op'[q] = op[q] /\ flow'[q] = flow[q]
                           /\ clean'[q] = clean[q]
  BY <1>1, <1>3, <1>4, OldTypes DEF Remarked, untouched, EndClean, TypeInv, TypeOK
<1>7. BusyOnce'
  BY <1>1, <1>2, <1>6 DEF untouched, Exclusion, BusyOnce
<1>8. EndClean(o) => ~Busy(o)' /\ locks' = locks \ {Project(o)}
  BY <1>1, <1>2 DEF EndClean, Unlock, untouched, Busy, IdleClean, TypeInv, TypeOK
<1> QED
  BY <1>1, <1>2, <1>3, <1>5, <1>6, <1>7, <1>8, WorkExclusion DEF untouched

-----------------------------------------------------------------------------
(* The steps of those who begin.                                           *)

\* What a free project is free of.
LEMMA FreeProject ==
  ASSUME TypeInv, Exclusion, NEW p \in Projects, Free(p)
  PROVE  /\ \A q \in Live : Project(q) = p => ~Busy(q) /\ ~Unfinished(q)
         /\ \A r \in Requests : req[r].pc # "idle" => Project(req[r].op) # p
<1>1. \A q \in Live : Project(q) = p => ~Busy(q) /\ ~Unfinished(q)
  BY DEF Free, Blocked, Exclusion, BusyLocked, Live
<1>2. ASSUME NEW r \in Requests, req[r].pc # "idle"
      PROVE  Project(req[r].op) # p
  <2>1. req[r].op \in Live /\ Unfinished(req[r].op)
    BY <1>2 DEF Exclusion, ClaimsStuck, NeedsRecovery, Unfinished, TypeInv, RequestsOK
  <2> QED
    BY <2>1, <1>1
<1> QED
  BY <1>1, <1>2

\* An apply begins in a project without any other work (engine.ts:426-434).
LEMMA ApplyBeginExclusion ==
  ASSUME TypeInv, Exclusion, NEW o \in Ops, NEW l \in Plans, ApplyBegin(o, l)
  PROVE  Exclusion'
<1> DEFINE p == plan[l].project
           done == [Start(l) EXCEPT !.st = "rolled_back"]
           f == [IdleFlow EXCEPT !.pc = "validate", !.st = "applying",
                                 !.own = proj[p]]
<1>1. /\ o \notin Live /\ flow[o].pc = "idle" /\ plan[l].st = "kept" /\ Free(p)
      /\ UNCHANGED <<ctr, proj, plan, reviews, clean, draft, adopting, req>>
  BY DEF ApplyBegin, Live
<1>2. ~Busy(o) /\ clean[o].pc = "idle"
  BY <1>1 DEF Exclusion, BusyLocked, Busy
<1>3. p \in Projects
  BY <1>1 DEF TypeInv, TypeOK, PlanRec, NoPlanRec
<1>4. /\ \A q \in Live : Project(q) = p => ~Busy(q) /\ ~Unfinished(q)
      /\ \A r \in Requests : req[r].pc # "idle" => Project(req[r].op) # p
  BY <1>1, <1>3, FreeProject
<1>5. DraftsNew'
  BY <1>1 DEF Exclusion, DraftsNew
<1>6. CASE op' = op /\ flow' = flow /\ (locks' = locks \/ locks' = locks \cup {p})
  <2>1. Live' = Live /\ \A q \in Ops : /\ Project(q)' = Project(q)
                                       /\ Plan(q)' = Plan(q)
                                       /\ Busy(q)' = Busy(q)
                                       /\ Unfinished(q)' = Unfinished(q)
    BY <1>1, <1>6 DEF Live, Project, Plan, Busy, Unfinished
  <2>2. ReferencedPlansKept' /\ OneUnfinished'
    BY <2>1 DEF Exclusion, ReferencedPlansKept, OneUnfinished, Live
  <2>3. BusyLocked' /\ BusyAlone' /\ BusyOnce'
    BY <1>1, <1>6, <2>1 DEF Exclusion, BusyLocked, BusyAlone, BusyOnce, Live
  <2>4. ClaimsStuck'
    <3> SUFFICES ASSUME NEW r \in Requests, req[r].pc # "idle"
                 PROVE  NeedsRecovery(req[r].op)'
      BY <1>1 DEF ClaimsStuck
    <3>1. NeedsRecovery(req[r].op) /\ Project(req[r].op) # p
      BY <1>4 DEF Exclusion, ClaimsStuck
    <3> QED
      BY <3>1, <1>1, <1>6 DEF NeedsRecovery, Project
  <2> QED
    BY <1>5, <2>2, <2>3, <2>4 DEF Exclusion
<1>7. ASSUME NEW rec, rec.st # "none", rec.plan = l, op' = [op EXCEPT ![o] = rec],
             \/ flow' = flow /\ locks' = locks
             \/ /\ flow' = flow \/ flow' = [flow EXCEPT ![o] = f]
                /\ locks' = locks \cup {p}
      PROVE  Exclusion'
  <2>1. op'[o] = rec /\ \A q \in Ops \ {o} : op'[q] = op[q]
    BY <1>7, OldTypes
  <2>2. Live' = Live \cup {o}
    BY <1>1, <1>7, <2>1 DEF Live
  <2>3. /\ Project(o)' = p /\ Plan(o)'.st = "kept"
        /\ \A q \in Live : Project(q)' = Project(q) /\ Plan(q)' = Plan(q)
    BY <1>1, <1>7, <2>1 DEF Project, Plan, Live
  <2>4. \A q \in Ops \ {o} : Busy(q)' = Busy(q) /\ Unfinished(q)' = Unfinished(q)
    BY <1>1, <1>7, <2>1 DEF Busy, Unfinished, TypeInv, TypeOK
  <2>5. Busy(o)' => p \in locks'
    BY <1>1, <1>2, <1>7 DEF Busy
  <2>6. locks \subseteq locks'
    BY <1>7
  <2>7. ReferencedPlansKept'
    BY <2>2, <2>3 DEF Exclusion, ReferencedPlansKept
  <2>8. BusyLocked'
    BY <2>2, <2>3, <2>4, <2>5, <2>6 DEF Exclusion, BusyLocked
  <2>9. ASSUME NEW a \in Live', NEW b \in Live', Project(a)' = Project(b)',
               Busy(a)' \/ Unfinished(a)', Busy(b)' \/ Unfinished(b)'
        PROVE  /\ a = o \/ Project(a) = Project(b)
               /\ a = o <=> b = o
    BY <1>4, <2>2, <2>3, <2>4, <2>9 DEF Live
  <2>10. BusyAlone'
    <3> SUFFICES ASSUME NEW a \in Ops, NEW b \in Live', Busy(a)',
                        Project(a)' = Project(b)', Busy(b)' \/ Unfinished(b)'
                 PROVE  a = b
      BY DEF BusyAlone
    <3>1. a \in Live'
      BY <2>8 DEF BusyLocked
    <3> QED
      BY <3>1, <2>2, <2>4, <2>9 DEF Exclusion, BusyAlone, Live
  <2>11. OneUnfinished'
    <3> SUFFICES ASSUME NEW a \in Live', NEW b \in Live', Project(a)' = Project(b)',
                        Unfinished(a)', Unfinished(b)'
                 PROVE  a = b
      BY DEF OneUnfinished
    <3> QED
      BY <2>2, <2>4, <2>9 DEF Exclusion, OneUnfinished, Live
  <2>12. BusyOnce'
    BY <1>1, <1>2, <1>7 DEF Exclusion, BusyOnce, TypeInv, TypeOK
  <2>13. ClaimsStuck'
    <3> SUFFICES ASSUME NEW r \in Requests, req[r].pc # "idle"
                 PROVE  NeedsRecovery(req[r].op)'
      BY <1>1 DEF ClaimsStuck
    <3>1. /\ NeedsRecovery(req[r].op) /\ Project(req[r].op) # p
          /\ req[r].op \in Live /\ req[r].op # o
      BY <1>1, <1>4 DEF Exclusion, ClaimsStuck, TypeInv, RequestsOK
    <3> QED
      BY <3>1, <1>1, <1>7, <2>1, <2>3 DEF NeedsRecovery, Live
  <2> QED
    BY <1>5, <2>7, <2>8, <2>10, <2>11, <2>12, <2>13 DEF Exclusion
<1>8. /\ Start(l).st # "none" /\ Start(l).plan = l
      /\ done.st # "none" /\ done.plan = l
  <2>1. "rolled_back" \in OpStatus \ {"none"}
    BY DEF OpStatus
  <2> QED
    BY <2>1, BeginRecord
<1>9. \/ /\ op' = [op EXCEPT ![o] = Start(l)] /\ flow' = [flow EXCEPT ![o] = f]
         /\ locks' = locks \cup {p}
      \/ /\ op' = [op EXCEPT ![o] = done] /\ flow' = flow
         /\ locks' = locks \/ locks' = locks \cup {p}
      \/ op' = [op EXCEPT ![o] = Start(l)] /\ flow' = flow /\ locks' = locks
      \/ op' = op /\ flow' = flow /\ locks' = locks \cup {p}
  BY DEF ApplyBegin
<1> HIDE DEF f, done
<1> QED
  BY <1>6, <1>7, <1>8, <1>9

\* A cleanup begins in a project without any other work (engine.ts:393-397).
LEMMA CleanupBeginExclusion ==
  ASSUME TypeInv, Exclusion, NEW o \in Ops, CleanupBegin(o)
  PROVE  Exclusion'
<1>1. /\ Cleanable(o) /\ Project(o) \notin locks /\ o \in Live
      /\ UNCHANGED <<op, plan, draft, req, flow>>
      /\ locks' = locks \cup {Project(o)}
      /\ \A q \in Ops \ {o} : clean'[q] = clean[q]
  BY DEF CleanupBegin, Cleanable, Live, untouched, TypeInv, TypeOK
<1>2. /\ Live' = Live
      /\ \A q \in Ops : /\ Project(q)' = Project(q) /\ Plan(q)' = Plan(q)
                        /\ Unfinished(q)' = Unfinished(q)
      /\ \A q \in Ops \ {o} : Busy(q)' = Busy(q)
  BY <1>1 DEF Live, Project, Plan, Unfinished, Busy
<1>3. \A q \in Live : Project(q) = Project(o) =>
        ~Busy(q) /\ (Unfinished(q) => q = o)
  BY <1>1 DEF Cleanable, Exclusion, BusyLocked, Live
<1>4. ReferencedPlansKept' /\ DraftsNew' /\ OneUnfinished'
  BY <1>1, <1>2 DEF Exclusion, ReferencedPlansKept, DraftsNew, OneUnfinished, Live
<1>5. BusyLocked'
  BY <1>1, <1>2 DEF Exclusion, BusyLocked
<1>6. BusyAlone'
  <2> SUFFICES ASSUME NEW a \in Ops, NEW b \in Live, Busy(a)',
                      Project(a) = Project(b), Busy(b)' \/ Unfinished(b)
               PROVE  a = b
    BY <1>2 DEF BusyAlone, Live
  <2>1. CASE a = o \/ b = o
    BY <2>1, <1>1, <1>2, <1>3 DEF Exclusion, BusyLocked, Live
  <2>2. CASE a # o /\ b # o
    BY <2>2, <1>2 DEF Exclusion, BusyAlone, Live
  <2> QED
    BY <2>1, <2>2
<1>7. BusyOnce'
  BY <1>1, <1>3 DEF Exclusion, BusyOnce, Busy
<1>8. ClaimsStuck'
  <2> SUFFICES ASSUME NEW r \in Requests, req[r].pc # "idle"
               PROVE  NeedsRecovery(req[r].op)'
    BY <1>1 DEF ClaimsStuck
  <2>1. /\ NeedsRecovery(req[r].op) /\ req[r].op \in Live
        /\ Unfinished(req[r].op) /\ op[req[r].op].st # "succeeded"
    BY DEF Exclusion, ClaimsStuck, NeedsRecovery, Unfinished, TypeInv, RequestsOK
  <2>2. Project(req[r].op) # Project(o)
    BY <2>1, <1>1, <1>3 DEF Cleanable
  <2> QED
    BY <2>1, <2>2, <1>1, <1>2 DEF NeedsRecovery, Live
<1> QED
  BY <1>4, <1>5, <1>6, <1>7, <1>8 DEF Exclusion

\* A recovery completion begins for an operation that is stuck
\* (engine.ts:351-353).
LEMMA RecoveryBeginExclusion ==
  ASSUME TypeInv, Exclusion, NEW r \in Requests, NEW o \in Ops,
         RecoveryBegin(r, o)
  PROVE  Exclusion'
<1>1. /\ NeedsRecovery(o) /\ UNCHANGED <<op, plan, locks, flow, clean, draft>>
      /\ req' = [req EXCEPT ![r] = [pc |-> "inspect", op |-> o]]
  BY DEF RecoveryBegin, disk
<1>2. /\ Live' = Live
      /\ \A q \in Ops : /\ Project(q)' = Project(q) /\ Plan(q)' = Plan(q)
                        /\ Unfinished(q)' = Unfinished(q) /\ Busy(q)' = Busy(q)
                        /\ NeedsRecovery(q)' = NeedsRecovery(q)
  BY <1>1 DEF Live, Project, Plan, Unfinished, Busy, NeedsRecovery
<1>3. /\ ReferencedPlansKept' /\ DraftsNew' /\ BusyLocked' /\ BusyAlone'
      /\ BusyOnce' /\ OneUnfinished'
  BY <1>1, <1>2 DEF Exclusion, ReferencedPlansKept, DraftsNew, BusyLocked,
     BusyAlone, BusyOnce, OneUnfinished, Live
<1>4. ClaimsStuck'
  <2> SUFFICES ASSUME NEW s \in Requests, req'[s].pc # "idle"
               PROVE  NeedsRecovery(req'[s].op)
    BY <1>1 DEF ClaimsStuck, NeedsRecovery, Project
  <2>1. CASE s = r
    BY <2>1, <1>1 DEF TypeInv, TypeOK
  <2>2. CASE s # r
    BY <2>2, <1>1 DEF Exclusion, ClaimsStuck, TypeInv, TypeOK
  <2> QED
    BY <2>1, <2>2
<1> QED
  BY <1>3, <1>4 DEF Exclusion

\* The inspection of a recovery completion changes no record.
LEMMA RecoveryInspectExclusion ==
  ASSUME TypeInv, Exclusion, NEW r \in Requests, RecoveryInspect(r)
  PROVE  Exclusion'
<1>1. /\ UNCHANGED <<op, plan, locks, flow, clean, draft>>
      /\ \A s \in Requests : \/ req'[s].pc = "idle"
                             \/ req[s].pc # "idle" /\ req'[s].op = req[s].op
  <2> DEFINE next == [req[r] EXCEPT !.pc = "confirm"]
  <2>1. req[r] \in [pc : {"inspect", "confirm"}, op : Ops] /\ req[r].pc # "idle"
    BY Requesting DEF RecoveryInspect
  <2>2. next.op = req[r].op
    BY <2>1
  <2>3. req' = [req EXCEPT ![r] = next] \/ req' = [req EXCEPT ![r] = IdleReq]
    BY DEF RecoveryInspect
  <2>4. req \in [Requests -> ReqRec]
    BY DEF TypeInv, TypeOK
  <2> HIDE DEF next
  <2> QED
    BY <2>1, <2>2, <2>3, <2>4 DEF RecoveryInspect, disk, IdleReq
<1>2. /\ Live' = Live
      /\ \A q \in Ops : /\ Project(q)' = Project(q) /\ Plan(q)' = Plan(q)
                        /\ Unfinished(q)' = Unfinished(q) /\ Busy(q)' = Busy(q)
  BY <1>1 DEF Live, Project, Plan, Unfinished, Busy
<1>3. /\ ReferencedPlansKept' /\ DraftsNew' /\ BusyLocked' /\ BusyAlone'
      /\ BusyOnce' /\ OneUnfinished'
  BY <1>1, <1>2 DEF Exclusion, ReferencedPlansKept, DraftsNew, BusyLocked,
     BusyAlone, BusyOnce, OneUnfinished, Live
<1>4. ClaimsStuck'
  <2> SUFFICES ASSUME NEW s \in Requests, req'[s].pc # "idle"
               PROVE  NeedsRecovery(req'[s].op)
    BY <1>1 DEF ClaimsStuck, NeedsRecovery, Project
  <2> QED
    BY <1>1 DEF Exclusion, ClaimsStuck
<1> QED
  BY <1>3, <1>4 DEF Exclusion

\* The lock that the confirmation drops was not there to be dropped.
LEMMA RecoveryConfirmExclusion ==
  ASSUME TypeInv, Exclusion, OneRequest, NEW r \in Requests, RecoveryConfirm(r)
  PROVE  Exclusion'
<1> DEFINE o == req[r].op
           rec == [op[o] EXCEPT !.st = "rolled_back"]
<1>1. /\ o \in Live /\ o \in Ops /\ NeedsRecovery(o)
  BY Requesting DEF RecoveryConfirm, Exclusion, ClaimsStuck
<1>2. locks' = locks /\ UNCHANGED <<plan, flow, clean, draft>>
  BY <1>1 DEF RecoveryConfirm, Unlock, NeedsRecovery
<1>3. \A s \in Requests : req'[s].pc = "idle"
  BY DEF RecoveryConfirm, OneRequest, IdleReq, TypeInv, TypeOK
<1>4. op' = op \/ op' = [op EXCEPT ![o] = rec]
  BY DEF RecoveryConfirm
<1>5. rec.st = "rolled_back" /\ rec.plan = op[o].plan /\ rec.cleanup = op[o].cleanup
  BY <1>1, OldTypes DEF OpRec
<1>6. \A q \in Ops : /\ op'[q].plan = op[q].plan
                     /\ op'[q].cleanup = op[q].cleanup
                     /\ op'[q].st = op[q].st \/ (q = o /\ op'[q].st = "rolled_back")
  BY <1>1, <1>4, <1>5, OldTypes
<1>7. /\ Live' = Live
      /\ \A q \in Ops : /\ Project(q)' = Project(q) /\ Plan(q)' = Plan(q)
                        /\ Busy(q)' = Busy(q)
                        /\ Unfinished(q)' => Unfinished(q)
  <2>1. Live' = Live
    BY <1>1, <1>6 DEF Live
  <2>2. \A q \in Ops : /\ Project(q)' = Project(q) /\ Plan(q)' = Plan(q)
                       /\ Busy(q)' = Busy(q)
    BY <1>2, <1>6 DEF Project, Plan, Busy
  <2>3. \A q \in Ops : Unfinished(q)' => Unfinished(q)
    BY <1>6 DEF Unfinished
  <2> QED
    BY <2>1, <2>2, <2>3
<1>8. ReferencedPlansKept' /\ DraftsNew' /\ BusyOnce' /\ ClaimsStuck'
  BY <1>2, <1>3, <1>7 DEF Exclusion, ReferencedPlansKept, DraftsNew, BusyOnce,
     ClaimsStuck, Live
<1>9. BusyLocked' /\ OneUnfinished'
  BY <1>2, <1>7 DEF Exclusion, BusyLocked, OneUnfinished, Live
<1>10. BusyAlone'
  <2> SUFFICES ASSUME NEW a \in Ops, NEW b \in Live, Busy(a),
                      Project(a)' = Project(b)', Busy(b) \/ Unfinished(b)
               PROVE  a = b
    BY <1>7 DEF BusyAlone, Live
  <2> QED
    BY <1>7 DEF Exclusion, BusyAlone, Live
<1> QED
  BY <1>8, <1>9, <1>10 DEF Exclusion

\* Nothing is busy after a crash, and nothing becomes unfinished by it
\* (engine.ts:117-129).
LEMMA CrashExclusion ==
  ASSUME TypeInv, Exclusion, Crash
  PROVE  Exclusion'
<1>1. /\ \A o \in Ops : flow'[o].pc = "idle" /\ clean'[o].pc = "idle"
      /\ \A r \in Requests : req'[r].pc = "idle"
      /\ \A l \in Plans : draft'[l].pc = "idle"
      /\ plan' = plan
  BY DEF Crash, IdleFlow, IdleClean, IdleReq, IdleDraft
<1>2. ASSUME NEW o \in Ops
      PROVE  /\ op'[o].plan = op[o].plan /\ (op'[o].st = "none" <=> op[o].st = "none")
             /\ Unfinished(o)' => Unfinished(o)
  <2> DEFINE st == IF op[o].st = "applying" THEN "interrupted" ELSE op[o].st
             up == IF op[o].cleanup = "applying" THEN "interrupted"
                   ELSE op[o].cleanup
  <2>1. op'[o] = [op[o] EXCEPT !.st = st, !.cleanup = up]
    BY DEF Crash, Restarted
  <2>2. /\ op'[o].plan = op[o].plan /\ op'[o].st = st /\ op'[o].cleanup = up
    BY <2>1, OldTypes DEF OpRec
  <2> QED
    BY <2>2 DEF Unfinished
<1>3. /\ Live' = Live
      /\ \A o \in Ops : Project(o)' = Project(o) /\ Plan(o)' = Plan(o)
  BY <1>1, <1>2 DEF Live, Project, Plan
<1>4. ReferencedPlansKept' /\ OneUnfinished'
  BY <1>2, <1>3 DEF Exclusion, ReferencedPlansKept, OneUnfinished, Live
<1>5. DraftsNew' /\ BusyLocked' /\ BusyAlone' /\ BusyOnce' /\ ClaimsStuck'
  BY <1>1 DEF DraftsNew, BusyLocked, BusyAlone, BusyOnce, ClaimsStuck, Busy
<1> QED
  BY <1>4, <1>5 DEF Exclusion

-----------------------------------------------------------------------------
(* The other steps.                                                        *)

\* Pruning leaves the plans of operations alone (engine.ts:292-301).
LEMMA PrunedStay ==
  ASSUME TypeInv, Exclusion
  PROVE  /\ \A l \in Plans : plan[l].st = "none" => PrunedPlans[l].st = "none"
         /\ \A l \in Plans : l \in Referenced => PrunedPlans[l] = plan[l]
BY DEF PrunedPlans, Kept

\* Preparing a plan, or its expiry, changes no plan of an operation.
LEMMA PlanExclusion ==
  ASSUME TypeInv, Exclusion, NEW l \in Plans,
         \/ \E p \in Projects : PlanBegin(l, p)
         \/ \E c \in Cfgs : PlanStore(l, c)
         \/ PlanObserve(l) \/ ExpirePlan(l)
  PROVE  Exclusion'
<1>1. UNCHANGED <<op, flow, clean, locks, req>>
  BY DEF PlanBegin, PlanStore, PlanObserve, ExpirePlan, disk, memory
<1>2. plan \in [Plans -> PlanRec \cup {NoPlanRec}] /\ draft \in [Plans -> DraftRec]
  BY DEF TypeInv, TypeOK
<1>3. \A m \in Referenced : m \in Plans /\ plan[m].st = "kept"
  BY DEF Exclusion, ReferencedPlansKept, Referenced, Plan, TypeInv, LiveOK, Live
<1>4. ASSUME NEW p \in Projects, PlanBegin(l, p)
      PROVE  DraftsNew' /\ plan' = plan
  BY <1>2, <1>4 DEF PlanBegin, disk, Exclusion, DraftsNew
<1>5. ASSUME NEW c \in Cfgs, PlanStore(l, c)
      PROVE  DraftsNew' /\ \A m \in Referenced : plan'[m] = plan[m]
  <2>1. plan[l].st = "none"
    BY <1>5 DEF PlanStore, Exclusion, DraftsNew
  <2>2. l \notin Referenced
    BY <2>1, <1>3
  <2>3. \A m \in Plans \ {l} : plan'[m] = plan[m] /\ draft'[m] = draft[m]
    BY <1>2, <1>5 DEF PlanStore
  <2>4. draft'[l].pc = "idle"
    BY <1>2, <1>5 DEF PlanStore, IdleDraft
  <2> QED
    BY <1>3, <2>2, <2>3, <2>4 DEF Exclusion, DraftsNew
<1>6. ASSUME PlanObserve(l)
      PROVE  DraftsNew' /\ \A m \in Referenced : plan'[m] = plan[m]
  <2>1. plan' = plan \/ plan' = PrunedPlans
    BY <1>6 DEF PlanObserve
  <2>2. \A m \in Plans : draft'[m].pc # "idle" => draft[m].pc # "idle"
    BY <1>2, <1>6 DEF PlanObserve, IdleDraft
  <2> QED
    BY <1>3, <2>1, <2>2, PrunedStay DEF Exclusion, DraftsNew
<1>7. ASSUME ExpirePlan(l)
      PROVE  /\ DraftsNew'
             /\ \A m \in Referenced : /\ plan'[m].project = plan[m].project
                                      /\ plan'[m].st = "kept"
  <2> DEFINE old == [plan[l] EXCEPT !.expired = TRUE]
  <2>1. plan' = [plan EXCEPT ![l] = old] /\ plan[l].st = "kept"
    BY <1>2, <1>7 DEF ExpirePlan, Kept
  <2>2. plan[l] \in PlanRec
    BY <1>2, <2>1 DEF NoPlanRec
  <2>3. old.st = "kept" /\ old.project = plan[l].project
    BY <2>1, <2>2 DEF PlanRec
  <2>4. draft' = draft
    BY <1>7 DEF ExpirePlan, memory
  <2> HIDE DEF old
  <2> QED
    BY <1>2, <1>3, <2>1, <2>3, <2>4 DEF Exclusion, DraftsNew
<1>8. DraftsNew' /\ \A m \in Referenced : /\ plan'[m].project = plan[m].project
                                          /\ plan'[m].st = "kept"
  BY <1>3, <1>4, <1>5, <1>6, <1>7
<1>9. Faithful
  BY <1>1, <1>8, PlansStay DEF Live
<1> QED
  BY <1>1, <1>8, <1>9, QuietExclusion

\* Steps that change at most what is pruned.
LEMMA OtherExclusion ==
  ASSUME TypeInv, Exclusion, UNCHANGED <<op, locks, flow, clean, draft, req>>,
         plan' = plan \/ plan' = PrunedPlans
  PROVE  Exclusion'
<1>1. \A m \in Referenced : m \in Plans /\ plan[m].st = "kept"
  BY DEF Exclusion, ReferencedPlansKept, Referenced, Plan, TypeInv, LiveOK, Live
<1>2. \A m \in Referenced : plan'[m].project = plan[m].project /\ plan'[m].st = "kept"
  BY <1>1, PrunedStay
<1>3. DraftsNew'
  BY PrunedStay DEF Exclusion, DraftsNew
<1>4. Faithful
  BY <1>2, PlansStay DEF Live
<1> QED
  BY <1>3, <1>4, QuietExclusion

\* Every step keeps the exclusion.
LEMMA StepExclusion ==
  ASSUME TypeInv, Exclusion, OneRequest, [Next]_vars
  PROVE  Exclusion'
<1>1. CASE \/ Prune \/ \E v \in reviews : ExpireReview(v)
           \/ \E o \in Ops : ReviewRecovery(o) \/ ReviewCleanup(o)
           \/ \E p \in Projects, s \in Selections : AdoptBegin(p, s)
           \/ \E p \in Projects : AdoptInspect(p) \/ AdoptClaim(p)
           \/ \E o \in Ops : OwnerRepairs(o)
           \/ \E i \in Ids : Drift(i)
           \/ UNCHANGED vars
  <2>1. /\ UNCHANGED <<op, locks, flow, clean, draft, req>>
        /\ plan' = plan \/ plan' = PrunedPlans
    BY <1>1 DEF Prune, ExpireReview, ReviewRecovery, ReviewCleanup, AdoptBegin,
       AdoptInspect, AdoptClaim, OwnerRepairs, Drift, vars, disk, memory
  <2> QED
    BY <2>1, OtherExclusion
<1>2. CASE \/ \E l \in Plans : PlanObserve(l) \/ ExpirePlan(l)
           \/ \E l \in Plans, p \in Projects : PlanBegin(l, p)
           \/ \E l \in Plans, c \in Cfgs : PlanStore(l, c)
  BY <1>2, PlanExclusion
<1>3. CASE \/ \E o \in Ops, l \in Plans : ApplyBegin(o, l)
           \/ \E o \in Ops : ApplyStep(o)
           \/ \E o \in Ops : CleanupBegin(o) \/ CleanupStep(o)
  BY <1>3, ApplyBeginExclusion, ApplyExclusion, CleanupBeginExclusion,
     CleanupExclusion
<1>4. CASE \/ \E r \in Requests, o \in Ops : RecoveryBegin(r, o)
           \/ \E r \in Requests : RecoveryInspect(r) \/ RecoveryConfirm(r)
  BY <1>4, RecoveryBeginExclusion, RecoveryInspectExclusion,
     RecoveryConfirmExclusion
<1> QED
  BY <1>1, <1>2, <1>3, <1>4, CrashExclusion DEF Next

\* Nothing is under way initially.
LEMMA InitExclusion == Init => Exclusion
BY DEF Init, Exclusion, ReferencedPlansKept, DraftsNew, BusyLocked, BusyAlone,
   BusyOnce, OneUnfinished, ClaimsStuck, Busy, Live, NoOp, IdleFlow, IdleClean,
   IdleDraft, IdleReq, NoPlanRec

-----------------------------------------------------------------------------
(* The theorems.                                                           *)

\* The exclusion is an invariant, if recoveries are confirmed one at a time.
LEMMA Excluded == OneRequest /\ Spec => [](TypeInv /\ Exclusion)
<1>1. OneRequest /\ TypeInv /\ Exclusion /\ [Next]_vars => (TypeInv /\ Exclusion)'
  BY StepTypes, StepExclusion
<1>2. OneRequest => [](OneRequest)
  OBVIOUS
<1> QED
  BY InitTypes, InitExclusion, <1>1, <1>2, PTL DEF Spec

\* What a stack may be changed or restored from is never pruned while the
\* journal refers to it (engine.ts:292-301).
THEOREM PlansKept == OneRequest /\ Spec => []ReferencedPlansKept
<1>1. Exclusion => ReferencedPlansKept
  BY DEF Exclusion
<1> QED
  BY Excluded, <1>1, PTL

\* A project has at most one unfinished operation, in the journal and across
\* every crash (engine.ts:229, 352, 431).
THEOREM UnfinishedAlone == OneRequest /\ Spec => []OneUnfinished
<1>1. Exclusion => OneUnfinished
  BY DEF Exclusion
<1> QED
  BY Excluded, <1>1, PTL

\* No two requests change the containers of a project at a time, and the one
\* that does holds its lock (engine.ts:397, 432).
THEOREM WorkersExclude == OneRequest /\ Spec => []SoleWorker
<1>1. Exclusion => SoleWorker
  BY DEF Exclusion, BusyLocked, BusyAlone, SoleWorker
<1> QED
  BY Excluded, <1>1, PTL

-----------------------------------------------------------------------------
(* What an operation refers to.                                            *)

\* A plan that is stored keeps its contents, whatever becomes of its status.
PlanFixed(l) ==
  plan[l].st # "none" =>
    /\ plan'[l].st # "none" /\ plan'[l].project = plan[l].project
    /\ plan'[l].snap = plan[l].snap /\ plan'[l].cfg = plan[l].cfg
    /\ plan'[l].base = plan[l].base

\* Pruning and expiry change the marks of a plan only.
LEMMA MarksFixed ==
  ASSUME TypeInv, NEW l \in Plans
  PROVE  /\ plan' = plan \/ plan' = PrunedPlans => PlanFixed(l)
         /\ \A m \in Plans : ExpirePlan(m) => PlanFixed(l)
<1> DEFINE pruned == [plan[l] EXCEPT !.st = "pruned"]
           old(m) == [plan[m] EXCEPT !.expired = TRUE]
<1>1. plan \in [Plans -> PlanRec \cup {NoPlanRec}]
  BY DEF TypeInv, TypeOK
<1>2. plan[l].st # "none" => plan[l] \in PlanRec
  BY <1>1 DEF NoPlanRec
<1>3. plan[l].st # "none" =>
        /\ pruned.st = "pruned" /\ pruned.project = plan[l].project
        /\ pruned.snap = plan[l].snap /\ pruned.cfg = plan[l].cfg
        /\ pruned.base = plan[l].base
  BY <1>2 DEF PlanRec
<1>4. plan[l].st # "none" =>
        /\ old(l).st = plan[l].st /\ old(l).project = plan[l].project
        /\ old(l).snap = plan[l].snap /\ old(l).cfg = plan[l].cfg
        /\ old(l).base = plan[l].base
  BY <1>2 DEF PlanRec
<1>5. PrunedPlans[l] = pruned \/ PrunedPlans[l] = plan[l]
  BY DEF PrunedPlans
<1>6. \A m \in Plans : ExpirePlan(m) => plan'[l] = plan[l] \/ plan'[l] = old(l)
  BY <1>1 DEF ExpirePlan
<1> HIDE DEF pruned, old
<1> QED
  BY <1>3, <1>4, <1>5, <1>6 DEF PlanFixed

\* Storing a plan uses an identity that no plan has.
LEMMA StoreFixed ==
  ASSUME TypeInv, DraftsNew, NEW l \in Plans, NEW m \in Plans, NEW c \in Cfgs,
         PlanStore(m, c)
  PROVE  PlanFixed(l)
BY DEF PlanStore, DraftsNew, PlanFixed, TypeInv, TypeOK

\* No step changes what a stored plan says.
LEMMA PlansFixed ==
  ASSUME TypeInv, DraftsNew, [Next]_vars
  PROVE  \A l \in Plans : PlanFixed(l)
<1> SUFFICES ASSUME NEW l \in Plans PROVE PlanFixed(l)
  OBVIOUS
<1>1. plan' = plan \/ plan' = PrunedPlans
      \/ (\E m \in Plans : ExpirePlan(m))
      \/ (\E m \in Plans, c \in Cfgs : PlanStore(m, c))
  <2>1. ASSUME NEW o \in Ops, ApplyStep(o)
        PROVE  plan' = plan
    BY <2>1, ApplyShapes DEF ApplyShape
  <2>2. ASSUME NEW o \in Ops, CleanupBegin(o) \/ CleanupStep(o)
        PROVE  plan' = plan
    BY <2>2 DEF CleanupBegin, CleanupStep, CleanupVet, CleanupCheck,
       CleanupDelete, CleanupDone, untouched
  <2>3. ASSUME NEW o \in Ops, NEW m \in Plans, ApplyBegin(o, m)
        PROVE  plan' = plan
    BY <2>3 DEF ApplyBegin
  <2>4. CASE \/ \E p \in Projects, s \in Selections : AdoptBegin(p, s)
             \/ \E p \in Projects : AdoptInspect(p) \/ AdoptClaim(p)
             \/ \E r \in Requests, o \in Ops : RecoveryBegin(r, o)
             \/ \E r \in Requests : RecoveryInspect(r) \/ RecoveryConfirm(r)
             \/ \E o \in Ops : OwnerRepairs(o)
             \/ \E v \in reviews : ExpireReview(v)
             \/ \E i \in Ids : Drift(i)
             \/ \E m \in Plans, p \in Projects : PlanBegin(m, p)
             \/ Crash \/ UNCHANGED vars
    BY <2>4 DEF AdoptBegin, AdoptInspect, AdoptClaim, RecoveryBegin,
       RecoveryInspect, RecoveryConfirm, OwnerRepairs, ExpireReview, Drift,
       PlanBegin, Crash, vars, disk
  <2>5. CASE \/ Prune \/ \E m \in Plans : PlanObserve(m)
             \/ \E o \in Ops : ReviewRecovery(o) \/ ReviewCleanup(o)
    BY <2>5 DEF Prune, PlanObserve, ReviewRecovery, ReviewCleanup
  <2> QED
    BY <2>1, <2>2, <2>3, <2>4, <2>5 DEF Next
<1> QED
  BY <1>1, MarksFixed, StoreFixed DEF PlanFixed

\* What the record of an operation holds after a write.
LEMMA JournalFields ==
  ASSUME TypeInv, NEW o \in Ops, NEW g
  PROVE  /\ \A q \in Ops \ {o} : Journal(o, g)[q] = op[q]
         /\ Journal(o, g)[o].st = g.st /\ Journal(o, g)[o].created = g.created
         /\ Journal(o, g)[o].renamed = g.renamed
         /\ Journal(o, g)[o].plan = op[o].plan
         /\ Journal(o, g)[o].cleanup = op[o].cleanup
         /\ Journal(o, g)[o].cleaned = op[o].cleaned
<1>1. op \in [Ops -> OpRec] /\ op[o] \in OpRec
  BY OldTypes
<1> DEFINE rec == [op[o] EXCEPT !.st = g.st, !.created = g.created,
                                !.renamed = g.renamed]
<1>2. Journal(o, g) = [op EXCEPT ![o] = rec]
  BY DEF Journal
<1>3. /\ rec.st = g.st /\ rec.created = g.created /\ rec.renamed = g.renamed
      /\ rec.plan = op[o].plan /\ rec.cleanup = op[o].cleanup
      /\ rec.cleaned = op[o].cleaned
  BY <1>1 DEF OpRec
<1> HIDE DEF rec
<1> QED
  BY <1>1, <1>2, <1>3

\* A write of the marks leaves the rest of the record alone.
Marked(o, u) ==
  /\ \A q \in Ops \ {o} : op'[q] = op[q]
  /\ op'[o].st = op[o].st /\ op'[o].plan = op[o].plan
  /\ op'[o].created = op[o].created /\ op'[o].renamed = op[o].renamed
  /\ op'[o].cleanup = u /\ op[o].cleaned \subseteq op'[o].cleaned

\* The mark a cleanup leaves behind when it stops.
Halfway(o) == IF op[o].cleanup = "applying" THEN "interrupted" ELSE op[o].cleanup

\* What a cleanup writes of its operation marks it.
LEMMA CleanupMarks ==
  ASSUME TypeInv, NEW o \in Ops
  PROVE  /\ op' = op => Marked(o, op[o].cleanup)
         /\ \A u : op' = [op EXCEPT ![o].cleanup = u] => Marked(o, u)
         /\ \A i : op' = [op EXCEPT ![o].cleaned = @ \cup {i}] =>
                     Marked(o, op[o].cleanup)
         /\ \A i, u : op' = [op EXCEPT ![o].cleanup = u, ![o].cleaned = @ \cup {i}]
                       => Marked(o, u)
         /\ CleanupStops(o) => Marked(o, Halfway(o))
<1>1. op \in [Ops -> OpRec] /\ op[o] \in OpRec
  BY OldTypes
<1> DEFINE up(u) == [op[o] EXCEPT !.cleanup = u]
           gone(i) == [op[o] EXCEPT !.cleaned = @ \cup {i}]
           both(u, i) == [op[o] EXCEPT !.cleanup = u, !.cleaned = @ \cup {i}]
<1>2. op' = op => Marked(o, op[o].cleanup)
  BY DEF Marked
<1>3. ASSUME NEW u, op' = [op EXCEPT ![o].cleanup = u]
      PROVE  Marked(o, u)
  <2>1. op' = [op EXCEPT ![o] = up(u)]
    BY <1>3
  <2>2. /\ up(u).st = op[o].st /\ up(u).plan = op[o].plan /\ up(u).cleanup = u
        /\ up(u).created = op[o].created /\ up(u).renamed = op[o].renamed
        /\ up(u).cleaned = op[o].cleaned
    BY <1>1 DEF OpRec
  <2> HIDE DEF up
  <2> QED
    BY <1>1, <2>1, <2>2 DEF Marked
<1>4. ASSUME NEW i, op' = [op EXCEPT ![o].cleaned = @ \cup {i}]
      PROVE  Marked(o, op[o].cleanup)
  <2>1. op' = [op EXCEPT ![o] = gone(i)]
    BY <1>4
  <2>2. /\ gone(i).st = op[o].st /\ gone(i).plan = op[o].plan
        /\ gone(i).cleanup = op[o].cleanup
        /\ gone(i).created = op[o].created /\ gone(i).renamed = op[o].renamed
        /\ gone(i).cleaned = op[o].cleaned \cup {i}
    BY <1>1 DEF OpRec
  <2> HIDE DEF gone
  <2> QED
    BY <1>1, <2>1, <2>2 DEF Marked
<1>5. ASSUME NEW i, NEW u,
             op' = [op EXCEPT ![o].cleanup = u, ![o].cleaned = @ \cup {i}]
      PROVE  Marked(o, u)
  <2>1. op' = [op EXCEPT ![o] = both(u, i)]
    BY <1>1, <1>5
  <2>2. /\ both(u, i).st = op[o].st /\ both(u, i).plan = op[o].plan
        /\ both(u, i).cleanup = u
        /\ both(u, i).created = op[o].created /\ both(u, i).renamed = op[o].renamed
        /\ both(u, i).cleaned = op[o].cleaned \cup {i}
    BY <1>1 DEF OpRec
  <2> HIDE DEF both
  <2> QED
    BY <1>1, <2>1, <2>2 DEF Marked
<1>6. ASSUME CleanupStops(o)
      PROVE  Marked(o, Halfway(o))
  <2>1. op' = [op EXCEPT ![o].cleanup = Halfway(o)]
    BY <1>6 DEF CleanupStops, Halfway
  <2> QED
    BY <1>3, <2>1
<1> QED
  BY <1>2, <1>3, <1>4, <1>5, <1>6

\* Every step of a cleanup is a write of its marks.
LEMMA CleanupStepMarks ==
  ASSUME TypeInv, NEW o \in Ops, CleanupStep(o)
  PROVE  \E u : Marked(o, u)
<1>1. CASE CleanupVet(o)
  BY <1>1, CleanupMarks DEF CleanupVet
<1>2. CASE CleanupCheck(o)
  BY <1>2, CleanupMarks DEF CleanupCheck
<1>3. CASE CleanupDelete(o)
  BY <1>3, CleanupMarks DEF CleanupDelete
<1>4. CASE CleanupDone(o)
  BY <1>4, CleanupMarks DEF CleanupDone
<1> QED
  BY <1>1, <1>2, <1>3, <1>4 DEF CleanupStep

\* A restart marks what was unfinished.
LEMMA RestartMarks ==
  ASSUME TypeInv, NEW o \in Ops
  PROVE  /\ Restarted[o].st = IF op[o].st = "applying" THEN "interrupted" ELSE op[o].st
         /\ Restarted[o].cleanup = Halfway(o)
         /\ Restarted[o].plan = op[o].plan
         /\ Restarted[o].created = op[o].created
         /\ Restarted[o].renamed = op[o].renamed
         /\ Restarted[o].cleaned = op[o].cleaned
<1>1. op \in [Ops -> OpRec] /\ op[o] \in OpRec
  BY OldTypes
<1> DEFINE st == IF op[o].st = "applying" THEN "interrupted" ELSE op[o].st
           rec(s, u) == [op[o] EXCEPT !.st = s, !.cleanup = u]
<1>2. Restarted[o] = rec(st, Halfway(o))
  BY <1>1 DEF Restarted, Halfway, OpRec
<1>3. \A s, u : /\ rec(s, u).st = s /\ rec(s, u).cleanup = u
                /\ rec(s, u).plan = op[o].plan
                /\ rec(s, u).created = op[o].created
                /\ rec(s, u).renamed = op[o].renamed
                /\ rec(s, u).cleaned = op[o].cleaned
  BY <1>1 DEF OpRec
<1> HIDE DEF rec
<1> QED
  BY <1>2, <1>3

\* A confirmed recovery changes the status of its operation.
LEMMA ConfirmMarks ==
  ASSUME TypeInv, NEW r \in Requests, RecoveryConfirm(r)
  PROVE  LET o == req[r].op
         IN \/ op' = op
            \/ /\ \A q \in Ops \ {o} : op'[q] = op[q]
               /\ op'[o].st = "rolled_back" /\ op'[o].plan = op[o].plan
               /\ op'[o].created = op[o].created
               /\ op'[o].renamed = op[o].renamed
               /\ op'[o].cleanup = op[o].cleanup
               /\ op'[o].cleaned = op[o].cleaned
<1> DEFINE o == req[r].op
           rec == [op[o] EXCEPT !.st = "rolled_back"]
<1>1. o \in Ops /\ op \in [Ops -> OpRec] /\ op[o] \in OpRec
  BY OldTypes, Requesting DEF RecoveryConfirm
<1>2. /\ rec.st = "rolled_back" /\ rec.plan = op[o].plan
      /\ rec.created = op[o].created /\ rec.renamed = op[o].renamed
      /\ rec.cleanup = op[o].cleanup /\ rec.cleaned = op[o].cleaned
  BY <1>1 DEF OpRec
<1>3. op' = op \/ op' = [op EXCEPT ![o] = rec]
  BY DEF RecoveryConfirm
<1> HIDE DEF rec
<1> QED
  BY <1>1, <1>2, <1>3

\* An operation that has begun keeps its plan.
LEMMA OpsFixed ==
  ASSUME TypeInv, [Next]_vars
  PROVE  \A o \in Live : o \in Live' /\ op'[o].plan = op[o].plan
<1> SUFFICES ASSUME NEW o \in Live PROVE o \in Live' /\ op'[o].plan = op[o].plan
  OBVIOUS
<1>0. o \in Ops /\ op[o].st # "none"
  BY DEF Live
<1>1. ASSUME NEW q \in Ops, ApplyStep(q)
      PROVE  op'[o].st # "none" /\ op'[o].plan = op[o].plan
  BY <1>0, <1>1, ApplyShapes, JournalFields DEF ApplyShape
<1>2. ASSUME NEW q \in Ops, CleanupStep(q)
      PROVE  op'[o].st # "none" /\ op'[o].plan = op[o].plan
  BY <1>0, <1>2, CleanupStepMarks DEF Marked
<1>3. ASSUME NEW r \in Requests, RecoveryConfirm(r)
      PROVE  op'[o].st # "none" /\ op'[o].plan = op[o].plan
  BY <1>0, <1>3, ConfirmMarks
<1>4. ASSUME Crash
      PROVE  op'[o].st # "none" /\ op'[o].plan = op[o].plan
  BY <1>0, <1>4, RestartMarks DEF Crash
<1>5. ASSUME NEW q \in Ops, NEW m \in Plans, ApplyBegin(q, m)
      PROVE  op'[o].st # "none" /\ op'[o].plan = op[o].plan
  BY <1>0, <1>5, OldTypes DEF ApplyBegin
<1>6. CASE \/ \E p \in Projects, s \in Selections : AdoptBegin(p, s)
           \/ \E p \in Projects : AdoptInspect(p) \/ AdoptClaim(p)
           \/ \E r \in Requests, q \in Ops : RecoveryBegin(r, q)
           \/ \E r \in Requests : RecoveryInspect(r)
           \/ \E q \in Ops : OwnerRepairs(q) \/ CleanupBegin(q)
           \/ \E v \in reviews : ExpireReview(v)
           \/ \E i \in Ids : Drift(i)
           \/ \E m \in Plans, p \in Projects : PlanBegin(m, p)
           \/ \E m \in Plans, c \in Cfgs : PlanStore(m, c)
           \/ \E m \in Plans : PlanObserve(m) \/ ExpirePlan(m)
           \/ \E q \in Ops : ReviewRecovery(q) \/ ReviewCleanup(q)
           \/ Prune \/ UNCHANGED vars
  <2>1. op' = op
    BY <1>6 DEF AdoptBegin, AdoptInspect, AdoptClaim, RecoveryBegin,
       RecoveryInspect, OwnerRepairs, CleanupBegin, ExpireReview, Drift,
       PlanBegin, PlanStore, PlanObserve, ExpirePlan, ReviewRecovery,
       ReviewCleanup, Prune, vars, disk
  <2> QED
    BY <1>0, <2>1 DEF Live
<1> QED
  BY <1>0, <1>1, <1>2, <1>3, <1>4, <1>5, <1>6 DEF Next, Live

\* What an operation reads from its plan stays the same.
LEMMA ReadsFixed ==
  ASSUME TypeInv, DraftsNew, [Next]_vars, NEW o \in Live
  PROVE  /\ o \in Live' /\ Snap(o)' = Snap(o) /\ Project(o)' = Project(o)
         /\ Plan(o)'.base = Plan(o).base /\ Plan(o)'.cfg = Plan(o).cfg
         /\ Originals(o)' = Originals(o)
         /\ \A k : Orig(o, k)' = Orig(o, k) /\ Backup(o, k)' = Backup(o, k)
<1>1. o \in Live' /\ op'[o].plan = op[o].plan
  BY OpsFixed
<1>2. op[o].plan \in Plans /\ plan[op[o].plan].st # "none"
  BY DEF TypeInv, LiveOK, Plan
<1>3. PlanFixed(op[o].plan)
  BY <1>2, PlansFixed
<1> QED
  BY <1>1, <1>2, <1>3 DEF PlanFixed, Snap, Project, Plan, Originals, Orig, Backup

-----------------------------------------------------------------------------
(* The journal when it can always be written.                              *)

\* No write of the journal fails.
Journalled == "save" \notin Faults

\* The record of a running apply says that it is applied, and is what the
\* apply holds; a cleanup runs for a change that succeeded, and its record
\* says so from its first check on.
JournalTrue ==
  /\ \A o \in Ops : flow[o].pc # "idle" =>
       /\ op[o].st = "applying" /\ flow[o].st = "applying"
       /\ flow[o].created = op[o].created /\ flow[o].renamed = op[o].renamed
  /\ \A o \in Ops : op[o].st = "applying" => flow[o].pc # "idle"
  /\ \A o \in Ops : clean[o].pc # "idle" => op[o].st = "succeeded"
  /\ \A o \in Ops : clean[o].pc \in {"check", "delete", "done"}
                     => op[o].cleanup = "applying"
  /\ \A o \in Ops : op[o].st # "succeeded" => op[o].cleanup = "none"

\* What a write of the copy leaves in the flow.
LEMMA GotoFields ==
  ASSUME TypeInv, NEW o \in Ops, NEW at
  PROVE  /\ \A f \in FlowRec : Goto(o, f, at) =>
              /\ \A q \in Ops \ {o} : flow'[q] = flow[q]
              /\ flow'[o].pc = at[1] /\ flow'[o].k = at[2]
              /\ flow'[o].st = f.st /\ flow'[o].own = f.own
              /\ flow'[o].created = f.created /\ flow'[o].renamed = f.renamed
<1> SUFFICES ASSUME NEW f \in FlowRec, Goto(o, f, at)
             PROVE  /\ \A q \in Ops \ {o} : flow'[q] = flow[q]
                    /\ flow'[o].pc = at[1] /\ flow'[o].k = at[2]
                    /\ flow'[o].st = f.st /\ flow'[o].own = f.own
                    /\ flow'[o].created = f.created
                    /\ flow'[o].renamed = f.renamed
  OBVIOUS
<1> DEFINE g == [f EXCEPT !.pc = at[1], !.k = at[2]]
<1>1. flow' = [flow EXCEPT ![o] = g] /\ flow \in [Ops -> FlowRec]
  BY DEF Goto, TypeInv, TypeOK
<1>2. /\ g.pc = at[1] /\ g.k = at[2] /\ g.st = f.st /\ g.own = f.own
      /\ g.created = f.created /\ g.renamed = f.renamed
  BY DEF FlowRec
<1> HIDE DEF g
<1> QED
  BY <1>1, <1>2

\* An apply goes on with what its record holds,
Onward(o) ==
  /\ \A q \in Ops \ {o} : flow'[q] = flow[q] /\ op'[q] = op[q]
  /\ flow'[o].pc # "idle" /\ flow'[o].st = "applying"
  /\ flow'[o].own = flow[o].own /\ op'[o].st = "applying"
  /\ op'[o].created = flow'[o].created /\ op'[o].renamed = flow'[o].renamed
  /\ op'[o].plan = op[o].plan /\ op'[o].cleanup = op[o].cleanup
  /\ op'[o].cleaned = op[o].cleaned /\ locks' = locks
\* or ends with it.
Ended(o, st) ==
  /\ \A q \in Ops \ {o} : flow'[q] = flow[q] /\ op'[q] = op[q]
  /\ flow'[o] = IdleFlow /\ op'[o].st = st
  /\ op'[o].created = flow[o].created /\ op'[o].renamed = flow[o].renamed
  /\ op'[o].plan = op[o].plan /\ op'[o].cleanup = op[o].cleanup
  /\ op'[o].cleaned = op[o].cleaned /\ locks' = locks \ {Project(o)}

\* The apply waits, or goes on, without a write.
LEMMA GoesOn ==
  ASSUME TypeInv, JournalTrue, NEW o \in Ops, flow[o].pc # "idle", NEW at,
         Goto(o, flow[o], at), at[1] # "idle", op' = op, locks' = locks
  PROVE  Onward(o)
<1>1. flow[o] \in FlowRec
  BY Flowing
<1> QED
  BY <1>1, GotoFields DEF Onward, JournalTrue

\* The apply goes on, and writes what it has done.
LEMMA GoesOnRecorded ==
  ASSUME TypeInv, JournalTrue, Journalled, NEW o \in Ops, flow[o].pc # "idle",
         NEW at, NEW f \in FlowRec, f.st = flow[o].st, f.own = flow[o].own,
         Recorded(o, f, at), at[1] # "idle", locks' = locks
  PROVE  Onward(o) /\ op' = Journal(o, f) /\ Goto(o, f, at)
<1>1. op' = Journal(o, f) /\ Goto(o, f, at)
  BY DEF Recorded, Journalled, Fault
<1> QED
  BY <1>1, GotoFields, JournalFields DEF Onward, JournalTrue

\* The apply ends.
LEMMA Concludes ==
  ASSUME TypeInv, JournalTrue, Journalled, NEW o \in Ops, flow[o].pc # "idle",
         NEW st, Conclude(o, [flow[o] EXCEPT !.st = st])
  PROVE  Ended(o, st)
<1> DEFINE f == [flow[o] EXCEPT !.st = st]
<1>1. flow[o] \in FlowRec
  BY Flowing
<1>2. f.st = st /\ f.created = flow[o].created /\ f.renamed = flow[o].renamed
  BY <1>1 DEF FlowRec
<1>3. op' = Journal(o, f) /\ End(o) /\ Unlock(o)
  BY DEF Conclude, Journalled, Fault
<1>4. flow \in [Ops -> FlowRec]
  BY DEF TypeInv, TypeOK
<1> HIDE DEF f
<1> QED
  BY <1>2, <1>3, <1>4, JournalFields DEF Ended, End, Unlock

\* Every step of an apply goes on or ends (engine.ts:436-501).
LEMMA ApplyMoves ==
  ASSUME TypeInv, JournalTrue, Journalled, NEW o \in Ops, ApplyStep(o)
  PROVE  \/ Onward(o)
         \/ \E st \in {"succeeded", "rolled_back", "rollback_failed"} : Ended(o, st)
<1>0. /\ Caught[1] # "idle" /\ GiveUp[1] # "idle"
      /\ \A loop, k, at : loop # "idle" /\ at[1] # "idle" => Then(loop, k, at)[1] # "idle"
  BY DEF Caught, GiveUp, Then
<1>1. ASSUME NEW can, NEW after, NEW at, NEW bad, flow[o].pc # "idle",
             Await(o, can, after, at, bad),
             at[1] # "idle", bad[1] # "idle", op' = op, locks' = locks
      PROVE  Onward(o)
  BY <1>1, GoesOn DEF Await
<1>2. \A k : AfterSlot(k)[1] # "idle" /\ AfterStart(k)[1] # "idle"
  BY <1>0 DEF AfterSlot, AfterStart
<1>3. CASE ValidationFails(o)
  <2>1. Ended(o, "rolled_back")
    <3> DEFINE f == [flow[o] EXCEPT !.st = "rolled_back"]
    <3>1. flow[o] \in FlowRec /\ flow[o].pc # "idle"
      BY <1>3, Flowing DEF ValidationFails
    <3>2. f.st = "rolled_back" /\ f.created = flow[o].created /\ f.renamed = flow[o].renamed
      BY <3>1 DEF FlowRec
    <3>3. op' = Journal(o, f) /\ End(o) /\ Unlock(o)
      BY <1>3 DEF ValidationFails, Abandoned, AbandonBreaks, Undone, Journalled, Fault
    <3>4. flow \in [Ops -> FlowRec]
      BY DEF TypeInv, TypeOK
    <3> HIDE DEF f
    <3> QED
      BY <3>2, <3>3, <3>4, JournalFields DEF Ended, End, Unlock
  <2> QED
    BY <2>1
<1>4. CASE NothingToChange(o) \/ Commit(o)
  BY <1>4, Concludes DEF NothingToChange, Commit
<1>5. CASE Prepared(o)
  BY <1>5, GoesOn DEF Prepared, disk
<1>6. CASE StopOriginal(o)
  <2>1. Then("stop", flow[o].k, <<"rename", 1>>)[1] # "idle"
    BY <1>0
  <2> QED
    BY <1>0, <1>1, <1>6, <2>1, GoesOn DEF StopOriginal, still
<1>7. CASE RenameOriginal(o)
  <2> DEFINE f == [flow[o] EXCEPT !.renamed = @ \cup {Orig(o, flow[o].k)}]
  <2>1. flow[o].pc # "idle" /\ flow[o].pc = "rename" /\ flow[o] \in FlowRec
        /\ o \in Live /\ flow[o].k \in Slots
    BY <1>7, Flowing DEF RenameOriginal, Position, Loops
  <2>2. f \in FlowRec /\ f.st = flow[o].st /\ f.own = flow[o].own
    BY <2>1, OriginalTypes DEF FlowRec
  <2>3. Then("rename", flow[o].k, <<"create", Vpn>>)[1] # "idle"
    BY <1>0
  <2>4. \/ Recorded(o, f, Then("rename", flow[o].k, <<"create", Vpn>>))
        \/ Goto(o, flow[o], Caught) /\ op' = op
    BY <1>7 DEF RenameOriginal
  <2>5. locks' = locks
    BY <1>7 DEF RenameOriginal, still
  <2> HIDE DEF f
  <2> QED
    BY <1>0, <2>1, <2>2, <2>3, <2>4, <2>5, GoesOn, GoesOnRecorded
<1>8. CASE CreateReplacement(o)
  <2> DEFINE f == [flow[o] EXCEPT !.created = Append(@, FreshId)]
             k == flow[o].k
             at == IF Wanted(o, k) THEN <<"start", k>> ELSE AfterStart(k)
  <2>1. flow[o].pc = "create" /\ flow[o] \in FlowRec
        /\ flow[o].created \in Seq(Ids) /\ flow[o].pc # "idle"
    BY <1>8, Flowing DEF CreateReplacement
  <2>3. at[1] # "idle"
    BY <1>2
  <2>4. \/ CanCreate(Snap(o)[k].conf.name) /\ Recorded(o, f, at)
        \/ Goto(o, flow[o], Caught) /\ op' = op
    BY <1>8 DEF CreateReplacement
  <2>2. CanCreate(Snap(o)[k].conf.name) =>
          f \in FlowRec /\ f.st = flow[o].st /\ f.own = flow[o].own
    <3> SUFFICES ASSUME CanCreate(Snap(o)[k].conf.name)
                 PROVE  f \in FlowRec /\ f.st = flow[o].st /\ f.own = flow[o].own
      OBVIOUS
    <3>1. Append(flow[o].created, FreshId) \in Seq(Ids)
      BY <2>1, ReplacementTypes
    <3> QED
      BY <2>1, <3>1 DEF FlowRec
  <2>5. locks' = locks
    BY <1>8 DEF CreateReplacement, still
  <2> HIDE DEF f, at
  <2> QED
    BY <1>0, <2>1, <2>2, <2>3, <2>4, <2>5, GoesOn, GoesOnRecorded
<1>9. CASE StartReplacement(o) \/ AwaitReplacement(o) \/ VerifyNamespace(o)
  BY <1>0, <1>1, <1>2, <1>9
  DEF StartReplacement, AwaitReplacement, VerifyNamespace, still
<1>10. CASE CommitFails(o)
  <2>1. flow[o].pc # "idle" /\ Goto(o, flow[o], Caught) /\ op' = op /\ locks' = locks
    BY <1>10 DEF CommitFails, Journalled, Fault
  <2> QED
    BY <1>0, <2>1, GoesOn
<1>11. CASE BeginRollback(o)
  <2> DEFINE n == Len(flow[o].created)
             at == IF n > 0 THEN <<"discard", n>> ELSE <<"rename back", 1>>
  <2>1. flow[o].pc # "idle" /\ op' = Journal(o, flow[o]) /\ Goto(o, flow[o], at)
        /\ locks' = locks /\ at[1] # "idle"
    BY <1>11 DEF BeginRollback, still, Journalled, Fault
  <2> HIDE DEF at
  <2>2. flow[o] \in FlowRec
    BY <2>1, Flowing
  <2> QED
    BY <2>1, <2>2, GotoFields, JournalFields DEF Onward, JournalTrue
<1>12. CASE DiscardReplacement(o)
  <2> DEFINE k == flow[o].k
             i == flow[o].created[k]
             at == IF k > 1 THEN <<"discard", k - 1>> ELSE <<"rename back", 1>>
             on == <<"remove", k>>
  <2>1. at[1] # "idle" /\ on[1] # "idle"
    OBVIOUS
  <2>2. /\ flow[o].pc # "idle" /\ op' = op /\ locks' = locks
        /\ \/ Await(o, CanStop(i), Stopped({i}), on, GiveUp)
           \/ Await(o, CanRemove(i), RemovedC(i), at, GiveUp)
    BY <1>12 DEF DiscardReplacement, still
  <2> HIDE DEF at, on
  <2> QED
    BY <1>0, <1>1, <2>1, <2>2
<1>13. CASE RestoreName(o)
  <2>1. Then("rename back", flow[o].k, <<"disown", 0>>)[1] # "idle"
    BY <1>0
  <2> QED
    BY <1>0, <1>1, <1>13, <2>1, GoesOn DEF RestoreName, still
<1>14. CASE RestoreOwnership(o)
  BY <1>0, <1>14, GoesOn DEF RestoreOwnership
<1>15. CASE RestartOriginal(o)
  <2>1. Then("restart", flow[o].k, <<"restored", 0>>)[1] # "idle"
    BY <1>0
  <2> QED
    BY <1>0, <1>1, <1>15, <2>1, GoesOn DEF RestartOriginal, still
<1>16. CASE StopEverything(o)
  BY <1>16, GoesOn DEF StopEverything, still
<1>17. CASE RolledBack(o) \/ RollbackFailed(o)
  BY <1>17, Concludes DEF RolledBack, RollbackFailed, Journalled, Fault
<1> QED
  BY <1>3, <1>4, <1>5, <1>6, <1>7, <1>8, <1>9, <1>10, <1>11, <1>12, <1>13, <1>14,
     <1>15, <1>16, <1>17 DEF ApplyStep

\* Beginning an apply with its first record (engine.ts:426-434).
Begun(o, l) ==
  /\ op[o].st = "none" /\ flow[o].pc = "idle" /\ Free(plan[l].project)
  /\ plan[l].st = "kept"
  /\ \A q \in Ops \ {o} : flow'[q] = flow[q] /\ op'[q] = op[q]
  /\ flow'[o].pc = "validate" /\ flow'[o].st = "applying"
  /\ flow'[o].own = proj[plan[l].project]
  /\ flow'[o].created = <<>> /\ flow'[o].renamed = {}
  /\ op'[o].st = "applying" /\ op'[o].plan = l /\ op'[o].cleanup = "none"
  /\ op'[o].created = <<>> /\ op'[o].renamed = {} /\ op'[o].cleaned = {}
  /\ locks' = locks \cup {plan[l].project}
  /\ UNCHANGED <<ctr, proj, base, plan, reviews, clean, draft, adopting, req, faults>>

\* A change that begins takes the lock of its project and nothing else.
LEMMA ApplyBegins ==
  ASSUME TypeInv, Journalled, NEW o \in Ops, NEW l \in Plans, ApplyBegin(o, l)
  PROVE  Begun(o, l)
<1> DEFINE f == [IdleFlow EXCEPT !.pc = "validate", !.st = "applying",
                                 !.own = proj[plan[l].project]]
<1>1. /\ flow' = [flow EXCEPT ![o] = f] /\ op' = [op EXCEPT ![o] = Start(l)]
      /\ op[o].st = "none" /\ flow[o].pc = "idle" /\ Free(plan[l].project)
      /\ plan[l].st = "kept" /\ locks' = locks \cup {plan[l].project}
      /\ UNCHANGED <<ctr, proj, base, plan, reviews, clean, draft, adopting, req, faults>>
  BY DEF ApplyBegin, Journalled, Fault
<1>2. /\ f.pc = "validate" /\ f.st = "applying" /\ f.own = proj[plan[l].project]
      /\ f.created = <<>> /\ f.renamed = {}
  BY DEF IdleFlow
<1>3. /\ Start(l).st = "applying" /\ Start(l).plan = l /\ Start(l).cleanup = "none"
      /\ Start(l).created = <<>> /\ Start(l).renamed = {} /\ Start(l).cleaned = {}
  BY DEF Start, NoOp
<1>4. flow \in [Ops -> FlowRec] /\ op \in [Ops -> OpRec]
  BY DEF TypeInv, TypeOK
<1> HIDE DEF f
<1> QED
  BY <1>1, <1>2, <1>3, <1>4 DEF Begun

\* What a cleanup leaves in its place.
LEMMA CleanFields ==
  ASSUME TypeInv, NEW o \in Ops
  PROVE  /\ \A todo, at : CleanGoto(o, todo, at) =>
              /\ \A q \in Ops \ {o} : clean'[q] = clean[q]
              /\ clean'[o].pc = at[1] /\ clean'[o].k = at[2] /\ clean'[o].todo = todo
         /\ EndClean(o) => /\ \A q \in Ops \ {o} : clean'[q] = clean[q]
                           /\ clean'[o] = IdleClean
                           /\ locks' = locks \ {Project(o)}
<1>1. clean \in [Ops -> CleanRec]
  BY DEF TypeInv, TypeOK
<1> QED
  BY <1>1 DEF CleanGoto, EndClean, Unlock

\* A cleanup goes on with its mark in the record,
CleansOn(o) ==
  /\ \A q \in Ops \ {o} : clean'[q] = clean[q]
  /\ clean'[o].pc \in {"check", "delete", "done"} /\ locks' = locks
  /\ Marked(o, "applying")
\* or ends: unmarked, half done, or complete.
CleanEnds(o) ==
  /\ \A q \in Ops \ {o} : clean'[q] = clean[q]
  /\ clean'[o] = IdleClean /\ locks' = locks \ {Project(o)}
  /\ Marked(o, Halfway(o)) \/ (clean[o].pc = "done" /\ Marked(o, "completed"))

\* A step of a cleanup leads on or ends it.
LEMMA CleanMoves ==
  ASSUME TypeInv, JournalTrue, Journalled, NEW o \in Ops, CleanupStep(o)
  PROVE  CleansOn(o) \/ CleanEnds(o)
<1>1. ASSUME CleanupStops(o)
      PROVE  CleanEnds(o)
  BY <1>1, CleanFields, CleanupMarks DEF CleanupStops, CleanEnds
<1>2. CASE CleanupVet(o)
  <2>1. CleanupStops(o) \/ (/\ op' = [op EXCEPT ![o].cleanup = "applying"]
                            /\ CleanGoto(o, Candidates(o), <<"check", 1>>)
                            /\ locks' = locks)
    BY <1>2 DEF CleanupVet, Journalled, Fault
  <2> QED
    BY <1>1, <2>1, CleanFields, CleanupMarks DEF CleansOn
<1>3. \A k : Then("check", k, <<"done", 0>>)[1] \in {"check", "done"}
  BY DEF Then
<1>4. CASE CleanupCheck(o)
  <2>1. op[o].cleanup = "applying"
    BY <1>4 DEF CleanupCheck, JournalTrue
  <2>2. CleanupStops(o) \/ (/\ op' = op /\ locks' = locks
                            /\ \/ CleanGoto(o, clean[o].todo, <<"delete", clean[o].k>>)
                               \/ CleanGoto(o, clean[o].todo,
                                            Then("check", clean[o].k, <<"done", 0>>)))
    BY <1>4 DEF CleanupCheck
  <2> QED
    BY <1>1, <1>3, <2>1, <2>2, CleanFields, CleanupMarks DEF CleansOn
<1>5. CASE CleanupDelete(o)
  <2> DEFINE i == Orig(o, StopSlot(clean[o].k))
  <2>1. op[o].cleanup = "applying"
    BY <1>5 DEF CleanupDelete, JournalTrue
  <2>2. CleanupStops(o) \/ (/\ op' = [op EXCEPT ![o].cleaned = @ \cup {i}]
                            /\ locks' = locks
                            /\ CleanGoto(o, clean[o].todo,
                                         Then("check", clean[o].k, <<"done", 0>>)))
    BY <1>5 DEF CleanupDelete, Journalled, Fault
  <2> HIDE DEF i
  <2>3. op' = [op EXCEPT ![o].cleaned = @ \cup {i}] => Marked(o, op[o].cleanup)
    BY CleanupMarks
  <2> QED
    BY <1>1, <1>3, <2>1, <2>2, <2>3, CleanFields DEF CleansOn
<1>6. CASE CleanupDone(o)
  <2>1. /\ clean[o].pc = "done" /\ EndClean(o)
        /\ op' = [op EXCEPT ![o].cleanup = "completed"]
    BY <1>6 DEF CleanupDone, Journalled, Fault
  <2> QED
    BY <2>1, CleanFields, CleanupMarks DEF CleanEnds
<1> QED
  BY <1>2, <1>4, <1>5, <1>6 DEF CleanupStep

\* The steps that neither change a record nor begin, move or end an apply or
\* a cleanup.
Aside ==
  \/ \E p \in Projects, s \in Selections : AdoptBegin(p, s)
  \/ \E p \in Projects : AdoptInspect(p) \/ AdoptClaim(p)
  \/ \E r \in Requests, q \in Ops : RecoveryBegin(r, q)
  \/ \E r \in Requests : RecoveryInspect(r)
  \/ \E q \in Ops : OwnerRepairs(q) \/ ReviewRecovery(q) \/ ReviewCleanup(q)
  \/ \E v \in reviews : ExpireReview(v)
  \/ \E i \in Ids : Drift(i)
  \/ \E m \in Plans, p \in Projects : PlanBegin(m, p)
  \/ \E m \in Plans, c \in Cfgs : PlanStore(m, c)
  \/ \E m \in Plans : PlanObserve(m) \/ ExpirePlan(m)
  \/ Prune \/ UNCHANGED vars

\* Nothing of the others moves an operation.
LEMMA AsideKeeps ==
  ASSUME Aside
  PROVE  UNCHANGED <<op, flow, clean, locks>>
BY DEF Aside, AdoptBegin, AdoptInspect, AdoptClaim, RecoveryBegin,
   RecoveryInspect, OwnerRepairs, ExpireReview, Drift, PlanBegin, PlanStore,
   PlanObserve, ExpirePlan, ReviewRecovery, ReviewCleanup, Prune, vars, disk,
   memory

\* Every step is one of these.
LEMMA NextCases ==
  ASSUME [Next]_vars
  PROVE  \/ Aside \/ Crash
         \/ \E o \in Ops, l \in Plans : ApplyBegin(o, l)
         \/ \E o \in Ops : ApplyStep(o) \/ CleanupBegin(o) \/ CleanupStep(o)
         \/ \E r \in Requests : RecoveryConfirm(r)
BY DEF Next, Aside

\* A step keeps the journal true to what runs.
LEMMA StepJournal ==
  ASSUME TypeInv, Exclusion, JournalTrue, Journalled, [Next]_vars
  PROVE  JournalTrue'
<1>1. CASE Aside
  BY <1>1, AsideKeeps DEF JournalTrue
<1>2. CASE Crash
  BY <1>2, RestartMarks DEF Crash, JournalTrue, Halfway, IdleFlow, IdleClean
<1>3. ASSUME NEW o \in Ops, NEW l \in Plans, ApplyBegin(o, l)
      PROVE  JournalTrue'
  <2>1. Begun(o, l)
    BY <1>3, ApplyBegins
  <2>2. clean' = clean /\ clean[o].pc = "idle"
    BY <2>1 DEF Begun, JournalTrue
  <2>3. /\ \A q \in Ops \ {o} : flow'[q] = flow[q] /\ op'[q] = op[q]
        /\ flow'[o].pc # "idle" /\ flow'[o].st = "applying" /\ op'[o].st = "applying"
        /\ flow'[o].created = op'[o].created /\ flow'[o].renamed = op'[o].renamed
        /\ op'[o].cleanup = "none"
    BY <2>1 DEF Begun
  <2>4. \A q \in Ops : clean'[q].pc # "idle" => q # o
    BY <2>2
  <2>5. \A q \in Ops : clean'[q].pc \in {"check", "delete", "done"} => q # o
    BY <2>2
  <2> QED
    BY <2>2, <2>3, <2>4, <2>5 DEF JournalTrue
<1>4. ASSUME NEW o \in Ops, ApplyStep(o)
      PROVE  JournalTrue'
  <2>1. clean' = clean
    BY <1>4, ApplyShapes DEF ApplyShape
  <2>2. clean[o].pc = "idle" /\ op[o].st = "applying"
    <3>1. flow[o].pc # "idle"
      BY <1>4 DEF ApplyStep, ValidationFails, NothingToChange, Prepared,
         StopOriginal, RenameOriginal, CreateReplacement, StartReplacement,
         AwaitReplacement, VerifyNamespace, Commit, CommitFails, BeginRollback,
         DiscardReplacement, RestoreName, RestoreOwnership, RestartOriginal,
         RolledBack, StopEverything, RollbackFailed
    <3> QED
      BY <3>1 DEF JournalTrue, Exclusion, BusyOnce
  <2>3. Onward(o) \/ \E st \in {"succeeded", "rolled_back", "rollback_failed"} :
                       Ended(o, st)
    BY <1>4, ApplyMoves
  <2>4. CASE Onward(o)
    BY <2>1, <2>2, <2>4 DEF Onward, JournalTrue
  <2>5. ASSUME NEW st \in {"succeeded", "rolled_back", "rollback_failed"}, Ended(o, st)
        PROVE  JournalTrue'
    BY <2>1, <2>2, <2>5 DEF Ended, JournalTrue, IdleFlow
  <2> QED
    BY <2>3, <2>4, <2>5
<1>5. ASSUME NEW o \in Ops, CleanupBegin(o)
      PROVE  JournalTrue'
  <2>1. /\ UNCHANGED <<op, flow>> /\ op[o].st = "succeeded"
        /\ clean' = [clean EXCEPT ![o].pc = "vet"]
    BY <1>5 DEF CleanupBegin, Cleanable, untouched
  <2>2. /\ clean'[o].pc = "vet"
        /\ \A q \in Ops \ {o} : clean'[q] = clean[q]
    BY <2>1 DEF TypeInv, TypeOK, CleanRec
  <2> QED
    BY <2>1, <2>2 DEF JournalTrue
<1>6. ASSUME NEW o \in Ops, CleanupStep(o)
      PROVE  JournalTrue'
  <2>1. flow' = flow /\ clean[o].pc # "idle"
    BY <1>6 DEF CleanupStep, CleanupVet, CleanupCheck, CleanupDelete,
       CleanupDone, untouched
  <2>2. CASE CleansOn(o)
    BY <2>1, <2>2 DEF CleansOn, Marked, JournalTrue
  <2>3. CASE CleanEnds(o)
    BY <2>1, <2>3 DEF CleanEnds, Marked, JournalTrue, IdleClean
  <2> QED
    BY <1>6, <2>2, <2>3, CleanMoves
<1>7. ASSUME NEW r \in Requests, RecoveryConfirm(r)
      PROVE  JournalTrue'
  <2> DEFINE o == req[r].op
  <2>1. UNCHANGED <<flow, clean>> /\ o \in Ops
        /\ op[o].st \in {"interrupted", "rollback_failed"}
    BY <1>7, Requesting DEF RecoveryConfirm, Exclusion, ClaimsStuck, NeedsRecovery
  <2> QED
    BY <1>7, <2>1, ConfirmMarks DEF JournalTrue
<1> QED
  BY <1>1, <1>2, <1>3, <1>4, <1>5, <1>6, <1>7, NextCases

\* At first there is no operation.
LEMMA InitJournal == Init => JournalTrue
BY DEF Init, JournalTrue, NoOp, IdleFlow, IdleClean

-----------------------------------------------------------------------------
(* The journal refines the life cycle of a change.                         *)

PhaseMap == [o \in Ops |-> PhaseOf(o)]
OfMap == [o \in Ops |-> IF o \in Live THEN Project(o) ELSE NoProject]

\* One change moves from one phase to another, and keeps its project.
PhaseMoves(o, from, to) ==
  /\ PhaseOf(o) = from /\ PhaseOf(o)' = to
  /\ \A q \in Ops \ {o} : PhaseOf(q)' = PhaseOf(q)

\* What moves one change only is a move of the life cycle.
LEMMA LifeMoves ==
  ASSUME NEW o \in Ops, NEW from, NEW to, PhaseMoves(o, from, to)
  PROVE  Life!Becomes(o, from, to)
BY DEF PhaseMoves, Life!Becomes

\* The project of a change is that of its plan, once it has begun.
LEMMA OfFixed ==
  ASSUME TypeInv, DraftsNew, [Next]_vars, Live' \subseteq Live
  PROVE  OfMap' = OfMap
<1>1. \A o \in Live : o \in Live' /\ Project(o)' = Project(o)
  BY ReadsFixed
<1>2. \A o \in Ops : (o \in Live)' <=> o \in Live
  BY <1>1
<1> QED
  BY <1>1, <1>2 DEF OfMap

\* A phase depends on the status and on the mark of the removal.
LEMMA SamePhase ==
  ASSUME NEW q \in Ops, op'[q] = op[q]
  PROVE  PhaseOf(q)' = PhaseOf(q) /\ ((q \in Live)' <=> q \in Live)
BY DEF PhaseOf, Live

\* What reserves a project in the abstract is unfinished in the journal.
LEMMA ReservingUnfinished ==
  ASSUME TypeInv, NEW c \in Ops, Life!Reserving(c)
  PROVE  c \in Live /\ Unfinished(c)
<1>1. op[c].st \in OpStatus
  BY OldTypes DEF OpRec
<1>2. PhaseOf(c) \in {"changing", "stuck", "cleaning"}
  BY DEF Life!Reserving
<1> QED
  BY <1>1, <1>2 DEF PhaseOf, Unfinished, Live, OpStatus

\* Every step of the engine is a step of the life cycle, or none.
LEMMA LifeStep ==
  ASSUME TypeInv, Exclusion, JournalTrue, Journalled, [Next]_vars
  PROVE  Life!LifeNext \/ UNCHANGED <<PhaseMap, OfMap>>
<1>0. DraftsNew
  BY DEF Exclusion
<1>1. CASE UNCHANGED op
  <2>1. \A q \in Ops : PhaseOf(q)' = PhaseOf(q)
    BY <1>1, SamePhase
  <2>2. OfMap' = OfMap
    BY <1>0, <1>1, OfFixed DEF Live
  <2> QED
    BY <2>1, <2>2 DEF PhaseMap
<1>2. CASE Crash
  <2>1. \A q \in Ops : PhaseOf(q)' = IF PhaseOf(q) = "changing" THEN "stuck"
                                    ELSE PhaseOf(q)
    <3> SUFFICES ASSUME NEW q \in Ops
                 PROVE  PhaseOf(q)' = IF PhaseOf(q) = "changing" THEN "stuck"
                                      ELSE PhaseOf(q)
      OBVIOUS
    <3>1. op[q].st \in OpStatus
      BY OldTypes DEF OpRec
    <3>2. /\ op'[q].st = IF op[q].st = "applying" THEN "interrupted" ELSE op[q].st
          /\ op'[q].cleanup = Halfway(q)
      BY <1>2, RestartMarks DEF Crash
    <3> QED
      BY <3>1, <3>2 DEF PhaseOf, OpStatus, Halfway
  <2>2. Live' \subseteq Live
    BY <1>2, RestartMarks DEF Crash, Live
  <2>3. OfMap' = OfMap
    BY <1>0, <2>2, OfFixed
  <2> QED
    BY <2>1, <2>3 DEF Life!LifeNext, Life!Restart, OfMap
<1>3. ASSUME NEW o \in Ops, NEW l \in Plans, ApplyBegin(o, l)
      PROVE  Life!LifeNext
  <2>0. PICK p : p = plan[l].project
    OBVIOUS
  <2>1. Begun(o, l)
    BY <1>3, ApplyBegins
  <2>2. /\ op[o].st = "none" /\ op'[o].st = "applying" /\ op'[o].plan = l
        /\ plan' = plan /\ Free(p) /\ plan[l].st = "kept"
        /\ \A q \in Ops \ {o} : op'[q] = op[q]
    BY <2>0, <2>1 DEF Begun
  <2>3. p \in Projects
    BY <2>0, <2>2 DEF TypeInv, TypeOK, PlanRec, NoPlanRec
  <2>4. PhaseMoves(o, "new", "changing")
    BY <2>2, SamePhase DEF PhaseMoves, PhaseOf
  <2>5. OfMap' = [OfMap EXCEPT ![o] = p]
    <3>1. o \in Live' /\ Project(o)' = p
      BY <2>0, <2>2 DEF Live, Project
    <3>2. \A q \in Ops \ {o} : ((q \in Live)' <=> q \in Live) /\ Project(q)' = Project(q)
      BY <2>2, SamePhase DEF Project
    <3> QED
      BY <3>1, <3>2 DEF OfMap
  <2>6. ~Life!Reserved(p)
    <3> SUFFICES ASSUME NEW c \in Ops, OfMap[c] = p, Life!Reserving(c)
                 PROVE  FALSE
      BY DEF Life!Reserved, OfMap
    <3>1. c \in Live /\ Unfinished(c)
      BY ReservingUnfinished
    <3>2. Project(c) = p
      BY <3>1 DEF OfMap
    <3> QED
      BY <2>2, <3>1, <3>2 DEF Free, Blocked
  <2>7. Life!Begin(o, p)
    BY <2>4, <2>5, <2>6, LifeMoves DEF Life!Begin, OfMap
  <2> QED
    BY <2>3, <2>7 DEF Life!LifeNext
<1>4. ASSUME NEW o \in Ops, ApplyStep(o)
      PROVE  Life!LifeNext \/ UNCHANGED <<PhaseMap, OfMap>>
  <2>1. flow[o].pc # "idle"
    BY <1>4 DEF ApplyStep, ValidationFails, NothingToChange, Prepared,
       StopOriginal, RenameOriginal, CreateReplacement, StartReplacement,
       AwaitReplacement, VerifyNamespace, Commit, CommitFails, BeginRollback,
       DiscardReplacement, RestoreName, RestoreOwnership, RestartOriginal,
       RolledBack, StopEverything, RollbackFailed
  <2>2. op[o].st = "applying" /\ op[o].cleanup = "none" /\ PhaseOf(o) = "changing"
    BY <2>1 DEF JournalTrue, PhaseOf
  <2>3. CASE Onward(o)
    <3>1. \A q \in Ops : PhaseOf(q)' = PhaseOf(q) /\ ((q \in Live)' <=> q \in Live)
      BY <2>2, <2>3, SamePhase DEF Onward, PhaseOf, Live
    <3>2. OfMap' = OfMap
      BY <1>0, <3>1, OfFixed DEF Live
    <3> QED
      BY <3>1, <3>2 DEF PhaseMap
  <2>4. ASSUME NEW st \in {"succeeded", "rolled_back", "rollback_failed"}, Ended(o, st)
        PROVE  Life!LifeNext
    <3>1. /\ op'[o].st = st /\ op'[o].cleanup = "none"
          /\ \A q \in Ops \ {o} : op'[q] = op[q]
      BY <2>2, <2>4 DEF Ended
    <3>2. \A q \in Ops \ {o} : PhaseOf(q)' = PhaseOf(q)
      BY <3>1, SamePhase
    <3>3. OfMap' = OfMap
      BY <1>0, <2>2, <3>1, OfFixed DEF Live
    <3>4. PhaseMoves(o, "changing", IF st = "succeeded" THEN "kept"
                    ELSE IF st = "rolled_back" THEN "undone" ELSE "stuck")
      BY <2>2, <3>1, <3>2 DEF PhaseMoves, PhaseOf
    <3>5. Life!Keep(o) \/ Life!Undo(o) \/ Life!Stick(o)
      BY <3>3, <3>4, LifeMoves DEF Life!Keep, Life!Undo, Life!Stick, OfMap
    <3> QED
      BY <3>5 DEF Life!LifeNext
  <2> QED
    BY <1>4, <2>3, <2>4, ApplyMoves
<1>5. ASSUME NEW o \in Ops, CleanupStep(o)
      PROVE  Life!LifeNext \/ UNCHANGED <<PhaseMap, OfMap>>
  <2>1. clean[o].pc # "idle"
    BY <1>5 DEF CleanupStep, CleanupVet, CleanupCheck, CleanupDelete, CleanupDone
  <2>2. op[o].st = "succeeded" /\ o \in Live /\ Busy(o)
    BY <2>1 DEF JournalTrue, Live, Busy
  <2>3. PICK u : Marked(o, u)
    BY <1>5, CleanupStepMarks
  <2>4. /\ op'[o].st = "succeeded" /\ op'[o].cleanup = u
        /\ \A q \in Ops \ {o} : op'[q] = op[q]
    BY <2>2, <2>3 DEF Marked
  <2>5. \A q \in Ops \ {o} : PhaseOf(q)' = PhaseOf(q)
    BY <2>4, SamePhase
  <2>6. OfMap' = OfMap
    BY <1>0, <2>2, <2>4, OfFixed DEF Live
  <2>7. CASE PhaseOf(o)' = PhaseOf(o)
    BY <2>5, <2>6, <2>7 DEF PhaseMap
  <2>8. CASE PhaseOf(o) = "cleaning" /\ PhaseOf(o)' = "kept"
    BY <2>5, <2>6, <2>8, LifeMoves DEF PhaseMoves, Life!Cleaned, Life!LifeNext, OfMap
  <2>9. CASE PhaseOf(o) = "kept" /\ PhaseOf(o)' = "cleaning"
    <3>1. ~Life!Reserved(Project(o))
      <4> SUFFICES ASSUME NEW c \in Ops, OfMap[c] = Project(o), Life!Reserving(c)
                   PROVE  FALSE
        BY DEF Life!Reserved, OfMap
      <4>1. c \in Live /\ Unfinished(c)
        BY ReservingUnfinished
      <4>2. Project(c) = Project(o)
        BY <4>1 DEF OfMap
      <4>3. c = o
        BY <2>2, <4>1, <4>2 DEF Exclusion, BusyAlone
      <4> QED
        BY <2>9, <4>3 DEF Life!Reserving
    <3>2. Life!Clean(o)
      BY <2>2, <2>5, <2>6, <2>9, <3>1, LifeMoves DEF PhaseMoves, Life!Clean, OfMap
    <3> QED
      BY <3>2 DEF Life!LifeNext
  <2> QED
    BY <2>2, <2>4, <2>7, <2>8, <2>9 DEF PhaseOf
<1>6. ASSUME NEW r \in Requests, RecoveryConfirm(r)
      PROVE  Life!LifeNext \/ UNCHANGED <<PhaseMap, OfMap>>
  <2>0. PICK o : o = req[r].op
    OBVIOUS
  <2>1. o \in Ops /\ op[o].st \in {"interrupted", "rollback_failed"}
    BY <1>6, <2>0, Requesting
    DEF RecoveryConfirm, Exclusion, ClaimsStuck, NeedsRecovery
  <2>2. CASE op' = op
    BY <1>1, <2>2
  <2>3. CASE /\ \A q \in Ops \ {o} : op'[q] = op[q]
             /\ op'[o].st = "rolled_back"
    <3>1. PhaseMoves(o, "stuck", "undone")
      <4>1. PhaseOf(o) = "stuck" /\ PhaseOf(o)' = "undone"
        BY <2>1, <2>3 DEF PhaseOf
      <4>2. \A q \in Ops \ {o} : PhaseOf(q)' = PhaseOf(q)
        BY <2>3, SamePhase
      <4> QED
        BY <4>1, <4>2 DEF PhaseMoves
    <3>2. OfMap' = OfMap
      BY <1>0, <2>1, <2>3, OfFixed DEF Live
    <3>3. Life!Release(o)
      BY <2>1, <3>1, <3>2, LifeMoves DEF Life!Release, OfMap
    <3> QED
      BY <2>1, <3>3 DEF Life!LifeNext
  <2> QED
    BY <1>6, <2>0, <2>2, <2>3, ConfirmMarks
<1>7. CASE Aside \/ \E o \in Ops : CleanupBegin(o)
  BY <1>1, <1>7, AsideKeeps DEF CleanupBegin
<1> QED
  BY <1>2, <1>3, <1>4, <1>5, <1>6, <1>7, NextCases

\* At first no change has begun.
LEMMA InitLife == Init => Life!LifeInit
BY DEF Init, Life!LifeInit, PhaseOf, Live, NoOp

\* The journal refines the life cycle (engine.ts:117-129, 229, 351-366, 397,
\* 432): a change begins when nothing of its project is unfinished, ends once,
\* and is handed back by the owner only.
THEOREM LifecycleKept == OneRequest /\ Journalled /\ Spec => Lifecycle
<1>1. OneRequest /\ Journalled /\ TypeInv /\ Exclusion /\ JournalTrue /\ [Next]_vars
      => JournalTrue'
  BY StepJournal
<1>2. OneRequest /\ Journalled /\ TypeInv /\ Exclusion /\ JournalTrue /\ [Next]_vars
      => [Life!LifeNext]_<<PhaseMap, OfMap>>
  BY LifeStep
<1>3. OneRequest => [](OneRequest)
  OBVIOUS
<1>4. Journalled => [](Journalled)
  OBVIOUS
<1> QED
  BY InitJournal, InitLife, Excluded, <1>1, <1>2, <1>3, <1>4, PTL
  DEF Spec, Lifecycle, Life!LifeSpec, PhaseMap, OfMap
=============================================================================
