---------------------------- MODULE StackSettled ----------------------------
(***************************************************************************)
(* Proof of what a change of the managed-stack engine leaves behind. A     *)
(* stack that nothing works on is complete; the originals of a change that *)
(* succeeded are there, stopped and under their other names, until a       *)
(* cleanup takes them; a change that was rolled back has left them what,   *)
(* where and how they were; its reference describes a stack that nothing   *)
(* works on; and no container belongs to two projects.                     *)
(***************************************************************************)
EXTENDS StackOutcomes

-----------------------------------------------------------------------------
(* A stack that nothing works on is complete.                              *)

\* The statuses of an operation that has changed its stack, or may have.
Stuck == {"interrupted", "rollback_failed"}
Settled(p) ==
  \A o \in Live : Project(o) = p => op[o].st \notin Stuck \cup {"applying"}

\* Only replacements use the network of the new VPN.
Tight(c) == c # <<>> => Dependents(c[Vpn]) \subseteq Members(c)
AllTight == \A o \in Ops : flow[o].pc \in Advances => Tight(flow[o].created)

SettledIntact ==
  \A p \in Projects : proj[p] # <<>> /\ Settled(p) => Intact(proj[p])
StuckStands == \A o \in Live : op[o].st \in Stuck => Standing(o)
\* What is validated is what the project owns, and what it owns from there on
\* is what it owned.
FlowsOwn ==
  \A o \in Ops :
    /\ flow[o].pc = "validate" =>
         flow[o].own = proj[Project(o)] /\ Intact(proj[Project(o)])
    /\ flow[o].pc \notin Entries => proj[Project(o)] = Originals(o)
\* What an adoption has inspected is still there.
ClaimsThere ==
  \A p \in Projects : adopting[p].pc = "claim" =>
    \A k \in Slots : Exists(adopting[p].own[k])
Held == SettledIntact /\ StuckStands /\ FlowsOwn /\ ClaimsThere /\ AllTight

\* An operation is applied to the stack it was planned for: between a restart
\* and the end of its validation nobody has changed the stack since the plan
\* (engine.ts:437; the run that shows a plan gone stale does without).
Fresh ==
  "crash" \in Faults => \A o \in Ops :
    flow[o].pc = "validate" => Originals(o) = proj[Project(o)]

\* A stack that stands as its originals is intact.
LEMMA StandingIntact ==
  ASSUME TypeInv, Placed, NEW o \in Live
  PROVE  Standing(o) <=> Intact(Originals(o))
<1>1. /\ o \in Ops
      /\ \A k \in Slots : /\ Orig(o, k) \in Ids /\ Used(Orig(o, k))
                          /\ ctr[Orig(o, k)].ns = NsOf(k, Orig(o, Vpn))
  BY OriginalsPlaced
<1>2. PICK s : s = Originals(o)
  OBVIOUS
<1>3. DOMAIN s = Slots /\ \A k \in Slots : s[k] = Orig(o, k)
  BY <1>2 DEF Originals
<1>4. Vpn \in Slots
  BY SlotFacts
<1>5. \A j \in Dependents(s[Vpn]) : j # s[Vpn]
  BY <1>1, <1>3, <1>4, DockerAssumption DEF Dependents, NsOf
<1>6. Members(s) = {s[k] : k \in Slots}
  BY <1>3 DEF Members
<1>7. \A k \in Apps : ctr[s[k]].ns = s[Vpn]
  BY <1>1, <1>3, <1>4 DEF NsOf, Apps
<1>8. Dependents(s[Vpn]) \subseteq Members(s)
        <=> Dependents(s[Vpn]) \subseteq {s[k] : k \in Apps}
  BY <1>4, <1>5, <1>6 DEF Apps
<1>9. Standing(o) <=> /\ \A k \in Slots : Exists(s[k])
                      /\ Dependents(s[Vpn]) \subseteq Members(s)
  BY <1>2, <1>3, <1>4 DEF Standing
<1> QED
  BY <1>2, <1>7, <1>8, <1>9 DEF Intact

\* No container comes up that was not there.
Fewer == \A j \in Ids : Exists(j)' => Exists(j) /\ ctr'[j].ns = ctr[j].ns

\* What is intact stays intact when nothing of it is removed, and nothing else
\* comes up.
LEMMA IntactLasts ==
  ASSUME TypeInv, Lasting, Fewer, NEW s \in Stacks, Shaped(s), Intact(s),
         \A k \in Slots : Exists(s[k])'
  PROVE  Intact(s)'
<1>1. \A k \in Slots : s[k] \in Ids /\ Used(s[k])
  BY DEF Stacks, Shaped
<1>2. \A k \in Slots : ctr'[s[k]].ns = ctr[s[k]].ns
  BY <1>1 DEF Lasting
<1>3. Dependents(s[Vpn])' \subseteq Dependents(s[Vpn])
  BY DEF Fewer, Dependents
<1> QED
  BY <1>2, <1>3 DEF Intact, Apps

\* A replacement joins the network of its own VPN.
LEMMA CreatesTight ==
  ASSUME TypeInv, Placed, NEW o \in Ops, Creates(o), NEW c, c = flow[o].created,
         Tight(c), NEW g, g = Append(c, FreshId)
  PROVE  Tight(g)'
<1>1. PICK i : i = FreshId
  OBVIOUS
<1>2. /\ i \in Ids /\ ~Used(i) /\ flow[o].k \in Slots
      /\ c \in Seq(Ids) /\ Len(c) = flow[o].k - 1
      /\ \A j \in Ids \ {i} : ctr'[j] = ctr[j]
  BY <1>1, CreatedPlace
<1>3. SUFFICES ASSUME NEW j \in Ids, Exists(j)', ctr'[j].ns = g[Vpn]
               PROVE  j \in Members(g)
  BY DEF Tight, Dependents
<1>4. CASE j = i
  <2>1. Len(g) \in DOMAIN g /\ g[Len(g)] = i
    BY <1>1, <1>2
  <2> QED
    BY <1>4, <2>1 DEF Members
<1>5. CASE j # i
  <2>1. Exists(j) /\ Used(j) /\ ctr[j].ns = g[Vpn]
    BY <1>2, <1>3, <1>5 DEF Exists, Used
  <2>2. CASE c = <<>>
    <3>1. g[Vpn] = i
      BY <1>1, <1>2, <2>2 DEF Vpn
    <3> QED
      BY <1>2, <2>1, <3>1 DEF Placed, ContainersPlaced
  <2>3. CASE c # <<>>
    <3>1. g[Vpn] = c[Vpn]
      BY <1>1, <1>2, <2>3 DEF Vpn
    <3>2. j \in Members(c)
      BY <2>1, <2>3, <3>1 DEF Tight, Dependents
    <3> QED
      BY <1>1, <1>2, <3>2 DEF Members
  <2> QED
    BY <2>2, <2>3
<1> QED
  BY <1>4, <1>5

\* So no step of a change lets another container into that network.
LEMMA StepTight ==
  ASSUME Undisturbed, OneProject, TypeInv, Exclusion, Placed, AdoptedFirst,
         AllTight, [Next]_vars
  PROVE  AllTight'
<1> SUFFICES ASSUME NEW o \in Ops, flow'[o].pc \in Advances
             PROVE  Tight(flow[o].created)'
  BY DEF AllTight
<1>1. flow[o].pc # "idle"
  BY FlowBegins DEF Advances
<1>2. PICK c : c = flow[o].created
  OBVIOUS
<1>3. PICK g : g = flow'[o].created
  OBVIOUS
<1>4. CASE ApplyStep(o)
  <2>1. Advanced(o, flow[o], flow'[o])
    BY <1>4, AdvancesBy
  <2>2. Tight(c)
    <3>1. flow[o].pc = "validate" => c = <<>>
      BY <1>2, <2>1, ValidSnap DEF Advanced
    <3>2. flow[o].pc = "validate" \/ flow[o].pc \in Advances
      BY <2>1 DEF Advanced, Advances
    <3> QED
      BY <1>2, <3>1, <3>2 DEF AllTight, Tight
  <2>3. CASE Creates(o)
    <3>1. g = Append(c, FreshId)
      BY <1>2, <1>3, <2>1, <2>3 DEF Advanced, Creates
    <3> QED
      BY <1>2, <1>3, <2>2, <2>3, <3>1, CreatesTight
  <2>4. CASE ~Creates(o)
    <3>1. g = c
      BY <1>2, <1>3, <2>1, <2>4 DEF Advanced, Lists, Renamed, Creates
    <3>2. Keeps
      <4>1. Serves(o)
        BY <1>4, <2>4, ApplyHandles
      <4> QED
        BY <1>1, <4>1, FlowPlaced, HandlesKeeps DEF Serves
    <3>3. Dependents(c[Vpn])' \subseteq Dependents(c[Vpn])
      BY <3>2, KeepsDown DEF Dependents
    <3> QED
      BY <1>3, <2>2, <3>1, <3>3 DEF Tight
  <2> QED
    BY <2>3, <2>4
<1>5. CASE UNCHANGED <<ctr, proj, base, op, flow, clean, locks>>
  BY <1>5 DEF AllTight, Tight, Dependents, Exists
<1>6. ~Crash
  BY DEF Crash, IdleFlow, Advances
<1> QED
  BY <1>1, <1>4, <1>5, <1>6, OnlyApply

\* A step of an apply is one of an apply that runs.
LEMMA ApplyRuns ==
  ASSUME NEW o \in Ops, ApplyStep(o)
  PROVE  flow[o].pc # "idle"
<1>1. CASE ValidationFails(o) \/ NothingToChange(o) \/ Prepared(o) \/ StopOriginal(o)
  BY <1>1 DEF ValidationFails, NothingToChange, Prepared, StopOriginal
<1>2. CASE \/ RenameOriginal(o) \/ CreateReplacement(o) \/ StartReplacement(o)
           \/ AwaitReplacement(o) \/ VerifyNamespace(o)
  BY <1>2 DEF RenameOriginal, CreateReplacement, StartReplacement, AwaitReplacement,
     VerifyNamespace
<1>3. CASE Commit(o) \/ CommitFails(o) \/ BeginRollback(o) \/ DiscardReplacement(o)
  BY <1>3 DEF Commit, CommitFails, BeginRollback, DiscardReplacement
<1>4. CASE RestoreName(o) \/ RestoreOwnership(o) \/ RestartOriginal(o)
  BY <1>4 DEF RestoreName, RestoreOwnership, RestartOriginal
<1>5. CASE RolledBack(o) \/ StopEverything(o) \/ RollbackFailed(o)
  BY <1>5 DEF RolledBack, StopEverything, RollbackFailed
<1> QED
  BY <1>1, <1>2, <1>3, <1>4, <1>5 DEF ApplyStep

\* While an apply goes on, it hands the project back at most (engine.ts:485).
LEMMA ApplyRebinds ==
  ASSUME TypeInv, Journalled, NEW o \in Ops, ApplyStep(o), flow'[o].pc # "idle"
  PROVE  /\ flow[o].pc = "validate" => proj' = proj
         /\ \/ proj' = proj
            \/ proj' = [proj EXCEPT ![Project(o)] = Originals(o)]
<1>0. flow \in [Ops -> FlowRec]
  BY DEF TypeInv, TypeOK
<1>1. ~Fault("save")
  BY DEF Journalled, Fault
<1>2. End(o) => flow'[o].pc = "idle"
  BY <1>0 DEF End, IdleFlow
<1>3. CASE ValidationFails(o) \/ NothingToChange(o) \/ Commit(o)
  BY <1>2, <1>3 DEF ValidationFails, NothingToChange, Commit, Conclude
<1>4. CASE Prepared(o) \/ StopOriginal(o) \/ RenameOriginal(o)
  BY <1>4 DEF Prepared, StopOriginal, RenameOriginal, still, disk
<1>5. CASE \/ CreateReplacement(o) \/ StartReplacement(o) \/ AwaitReplacement(o)
           \/ VerifyNamespace(o)
  BY <1>5 DEF CreateReplacement, StartReplacement, AwaitReplacement, VerifyNamespace, still
<1>6. CASE CommitFails(o)
  BY <1>1, <1>6 DEF CommitFails
<1>7. CASE BeginRollback(o) \/ DiscardReplacement(o) \/ RestoreName(o)
  BY <1>7 DEF BeginRollback, DiscardReplacement, RestoreName, still
<1>8. CASE RestoreOwnership(o)
  BY <1>8 DEF RestoreOwnership
<1>9. CASE RestartOriginal(o) \/ StopEverything(o)
  BY <1>9 DEF RestartOriginal, StopEverything, still
<1>10. CASE RolledBack(o) \/ RollbackFailed(o)
  BY <1>10 DEF RolledBack, RollbackFailed
<1> QED
  BY <1>3, <1>4, <1>5, <1>6, <1>7, <1>8, <1>9, <1>10 DEF ApplyStep

\* Whoever works on the project keeps every other operation out of it.
LEMMA AloneAtWork ==
  ASSUME OneProject, TypeInv, Exclusion, AdoptedFirst, NEW o \in Ops, Busy(o)
  PROVE  /\ o \in Live /\ Project(o) \in Projects
         /\ \A p \in Projects : p = Project(o)
         /\ \A q \in Live \ {o} : op[q].st \notin Stuck \cup {"applying"}
         /\ \A q \in Ops \ {o} : ~Busy(q)
<1>1. o \in Live
  BY DEF Exclusion, BusyLocked
<1>2. \A q \in Live : Project(q) \in Projects
  BY LiveAdopted
<1>3. \A q \in Live : Project(q) = Project(o)
  BY <1>1, <1>2 DEF OneProject
<1>4. \A q \in Live \ {o} : ~Busy(q) /\ ~Unfinished(q)
  BY <1>3 DEF Exclusion, BusyAlone, Live
<1>5. \A q \in Ops : Busy(q) => q \in Live
  BY DEF Exclusion, BusyLocked
<1> QED
  BY <1>1, <1>2, <1>4, <1>5 DEF OneProject, Unfinished, Stuck

\* What a change commits to is intact.
LEMMA CommitIntact ==
  ASSUME TypeInv, Placed, AllTight, NEW o \in Ops, Commit(o)
  PROVE  flow[o].created \in Stacks /\ Intact(flow[o].created)
<1>1. PICK c : c = flow[o].created
  OBVIOUS
<1>2. flow[o].pc = "commit" /\ AllThere(o)
  BY DEF Commit
<1>3. c \in Stacks /\ DOMAIN c = Slots
  BY <1>1, <1>2, CreatedStack DEF Stacks
<1>4. /\ \A k \in Slots : c[k] \in Ids /\ ctr[c[k]].ns = NsOf(k, c[Vpn])
  BY <1>1, <1>2, <1>3, ReplacementsPlaced
<1>5. Dependents(c[Vpn]) \subseteq Members(c) /\ Vpn \in Slots
  BY <1>1, <1>2, <1>3, SlotFacts DEF AllTight, Tight, Advances
<1>6. Members(c) = {c[k] : k \in Slots}
  BY <1>3 DEF Members
<1>7. c[Vpn] \notin Dependents(c[Vpn])
  BY <1>4, <1>5, DockerAssumption DEF Dependents, NsOf
<1>8. Dependents(c[Vpn]) \subseteq {c[k] : k \in Apps}
  BY <1>5, <1>6, <1>7 DEF Apps
<1>9. \A k \in Apps : ctr[c[k]].ns = c[Vpn]
  BY <1>4 DEF Apps, NsOf
<1>10. \A k \in Slots : Exists(c[k])
  BY <1>1, <1>2 DEF AllThere
<1> QED
  BY <1>1, <1>3, <1>8, <1>9, <1>10 DEF Intact

\* What is known of an operation that works, and of what it leaves behind.
Known == CleanupVetted /\ JournalTrue /\ UnderWay

\* A step of an apply keeps the stack, or leaves it complete.
LEMMA ApplyHeld ==
  ASSUME Undisturbed, OneProject, Journalled, Known, Held, [Next]_vars,
         NEW o \in Ops, ApplyStep(o)
  PROVE  (SettledIntact /\ StuckStands /\ FlowsOwn)'
<1>0. /\ TypeInv /\ Exclusion /\ Placed /\ AdoptedFirst /\ JournalTrue /\ AllUpheld
      /\ DraftsNew
  BY DEF Known, UnderWay, Changes, Retains, Exclusion
<1>1. flow[o].pc # "idle" /\ Busy(o)
  BY ApplyRuns DEF Busy
<1>2. /\ o \in Live /\ Project(o) \in Projects /\ \A p \in Projects : p = Project(o)
      /\ \A q \in Live \ {o} : op[q].st \notin Stuck \cup {"applying"}
      /\ \A q \in Ops \ {o} : flow[q].pc = "idle"
  BY <1>0, <1>1, AloneAtWork DEF Busy
<1>3. /\ o \in Live' /\ Project(o)' = Project(o) /\ Originals(o)' = Originals(o)
      /\ \A k : Orig(o, k)' = Orig(o, k)
  BY <1>0, <1>2, ReadsFixed
<1>4. PICK P : P = Project(o)
  OBVIOUS
<1>5. \A q \in Live : Project(q)' = Project(q)
  BY <1>0, ReadsFixed
<1>6. CASE Onward(o)
  <2>1. flow'[o].pc \notin Entries
    BY <1>0, <1>6, ApplyLeaves DEF Onward, Leaves, IdleFlow
  <2>2. proj'[P] = Originals(o)
    <3>1. CASE flow[o].pc = "validate"
      <4>1. Valid(o) /\ proj' = proj
        BY <1>0, <1>6, <3>1, ApplyCreated, ApplyRebinds DEF Onward, Prepared
      <4>2. \A k \in Slots : flow[o].own[k] = Orig(o, k)
        BY <1>0, <3>1, <4>1, ValidSnap
      <4>3. proj[P] \in Stacks /\ flow[o].own = proj[P] /\ Originals(o) \in Stacks
        BY <1>0, <1>2, <1>4, <3>1, LiveAdopted DEF Held, FlowsOwn
      <4>4. \A k \in Slots : proj[P][k] = Originals(o)[k]
        BY <4>2, <4>3 DEF Originals
      <4>5. proj[P] = Originals(o)
        BY <4>3, <4>4 DEF Stacks
      <4> QED
        BY <4>1, <4>5
    <3>2. CASE flow[o].pc # "validate"
      <4>1. proj[P] = Originals(o)
        BY <1>1, <1>4, <3>2 DEF Held, FlowsOwn, Entries
      <4>2. proj' = proj \/ proj' = [proj EXCEPT ![P] = Originals(o)]
        BY <1>0, <1>4, <1>6, ApplyRebinds DEF Onward
      <4> QED
        BY <1>0, <1>2, <1>4, <4>1, <4>2 DEF TypeInv, TypeOK
    <3> QED
      BY <3>1, <3>2
  <2>3. \A q \in Ops \ {o} : flow'[q].pc = "idle" /\ op'[q] = op[q]
    BY <1>2, <1>6 DEF Onward
  <2>4. op'[o].st = "applying"
    BY <1>6 DEF Onward
  <2>5. SettledIntact'
    BY <1>2, <1>3, <2>4 DEF SettledIntact, Settled
  <2>6. StuckStands'
    BY <1>2, <2>3, <2>4 DEF StuckStands, Live, Stuck
  <2>7. FlowsOwn'
    BY <1>3, <1>4, <2>1, <2>2, <2>3 DEF FlowsOwn, Entries
  <2> QED
    BY <2>5, <2>6, <2>7
<1>7. ASSUME NEW st \in {"succeeded", "rolled_back", "rollback_failed"}, Ended(o, st)
      PROVE  (SettledIntact /\ StuckStands /\ FlowsOwn)'
  <2>1. /\ \A q \in Ops \ {o} : flow'[q].pc = "idle" /\ op'[q] = op[q]
        /\ flow'[o].pc = "idle" /\ op'[o].st = st
    BY <1>2, <1>7 DEF Ended, IdleFlow
  <2>2. \/ NothingToChange(o) \/ Commit(o) \/ ValidationFails(o) \/ RolledBack(o)
        \/ RollbackFailed(o) /\ st = "rollback_failed"
    BY <1>0, <1>7, <2>1, EndsBy
  <2>3. FlowsOwn'
    BY <2>1 DEF FlowsOwn, Entries
  <2>4. StuckStands'
    <3>1. SUFFICES ASSUME op'[o].st \in Stuck
                   PROVE  Standing(o)'
      BY <1>2, <2>1 DEF StuckStands, Live, Stuck
    <3>2. RollbackFailed(o)
      BY <1>0, <2>1, <3>1, EndsBy DEF Stuck
    <3>3. Standing(o) /\ ctr' = ctr
      BY <3>2 DEF RollbackFailed, Known, UnderWay, Changes, AllUpheld, Upheld
    <3> QED
      BY <1>3, <3>3 DEF Standing, Exists, Dependents
  <2>5. CASE st # "rollback_failed"
    <3>1. ctr' = ctr /\ Intact(proj'[P])
      <4>1. CASE NothingToChange(o) \/ ValidationFails(o)
        BY <1>4, <4>1 DEF NothingToChange, ValidationFails, Held, FlowsOwn
      <4>2. CASE Commit(o)
        <5>1. proj'[P] = flow[o].created /\ ctr' = ctr
          BY <1>0, <1>2, <1>4, <4>2 DEF Commit, Rebound, TypeInv, TypeOK
        <5> QED
          BY <1>0, <4>2, <5>1, CommitIntact DEF Held
      <4>3. CASE RolledBack(o)
        <5>1. ctr' = ctr /\ proj' = proj /\ flow[o].pc = "restored"
          BY <4>3 DEF RolledBack
        <5>2. Standing(o) /\ proj[P] = Originals(o)
          BY <1>0, <1>4, <5>1 DEF AllUpheld, Upheld, Held, FlowsOwn, Entries
        <5> QED
          BY <1>0, <1>2, <5>1, <5>2, StandingIntact
      <4> QED
        BY <2>2, <2>5, <4>1, <4>2, <4>3
    <3>2. PICK s : s = proj'[P]
      OBVIOUS
    <3>3. Intact(s)'
      BY <3>1, <3>2 DEF Intact, Exists, Dependents
    <3>4. \A p \in Projects : p = P
      BY <1>2, <1>4
    <3> QED
      BY <2>3, <2>4, <3>2, <3>3, <3>4 DEF SettledIntact
  <2>6. CASE st = "rollback_failed"
    <3>1. SettledIntact'
      BY <1>2, <1>3, <2>1, <2>6 DEF SettledIntact, Settled, Stuck
    <3> QED
      BY <2>3, <2>4, <3>1
  <2> QED
    BY <2>5, <2>6
<1> QED
  BY <1>0, <1>6, <1>7, ApplyMoves

\* The removal of a retained original leaves the stack of a project complete.
LEMMA RemovalIntact ==
  ASSUME TypeInv, Placed, Lasting, CleanupVetted, NEW o \in Ops,
         clean[o].pc = "delete", NEW i, i = Orig(o, StopSlot(clean[o].k)),
         CanRemove(i), ctr' = RemovedC(i),
         NEW p \in Projects, NEW s, s = proj[p], s # <<>>, Intact(s)
  PROVE  Intact(s)'
<1>1. i \in Ids /\ i \notin Owned
  <2>1. i \notin Owned
    BY VettedTakes DEF CleanupVetted
  <2>2. o \in Live /\ clean[o].k \in Slots
    BY Cleaning
  <2>3. StopSlot(clean[o].k) \in Slots
    BY <2>2, SlotMoves
  <2> QED
    BY <2>1, <2>2, <2>3, OriginalTypes
<1>2. s \in Stacks /\ Shaped(s)
  BY DEF TypeInv, TypeOK, Placed, ProjectsPlaced
<1>3. \A k \in Slots : s[k] \in Owned /\ s[k] \in Ids /\ s[k] # i
  BY <1>1, <1>2 DEF Owned, Members, Stacks
<1>4. \A j \in Ids : ctr'[j].st = IF j = i THEN "removed" ELSE ctr[j].st
  BY <1>1, DockerMoves
<1>5. \A j \in Ids : ctr'[j].ns = ctr[j].ns
  BY <1>1, OldTypes DEF RemovedC
<1>6. Fewer
  BY <1>4, <1>5 DEF Fewer, Exists
<1>7. \A k \in Slots : Exists(s[k])'
  BY <1>3, <1>4 DEF Exists, Intact
<1> QED
  BY <1>2, <1>6, <1>7, IntactLasts

\* After a crash the stack that was being changed stands as its originals,
\* and any other is complete.
LEMMA CrashHeld ==
  ASSUME OneProject, Journalled, Known, Held, Fresh, Crash
  PROVE  (SettledIntact /\ StuckStands /\ FlowsOwn)'
<1>0. /\ TypeInv /\ Exclusion /\ Placed /\ AdoptedFirst /\ JournalTrue /\ AllUpheld
      /\ DraftsNew /\ [Next]_vars /\ CleanupVetted /\ Lasting
  BY StepLasting DEF Known, UnderWay, Changes, Retains, Exclusion, Next
<1>1. \A q \in Ops : flow'[q].pc = "idle"
  BY DEF Crash, IdleFlow
<1>2. FlowsOwn'
  BY <1>1 DEF FlowsOwn, Entries
<1>3. \A q \in Ops : op'[q].st = IF op[q].st = "applying" THEN "interrupted" ELSE op[q].st
  BY <1>0, RestartMarks DEF Crash
<1>4. \A q \in Ops : q \in Live' <=> q \in Live
  BY <1>3 DEF Live
<1>5. \A q \in Live : /\ Project(q)' = Project(q) /\ Originals(q)' = Originals(q)
                      /\ \A k : Orig(q, k)' = Orig(q, k)
  BY <1>0, ReadsFixed
<1>6. ASSUME NEW o \in Ops, flow[o].pc # "idle"
      PROVE  SettledIntact' /\ StuckStands'
  <2>1. Busy(o)
    BY <1>6 DEF Busy
  <2>2. /\ o \in Live /\ Project(o) \in Projects /\ \A p \in Projects : p = Project(o)
        /\ \A q \in Live \ {o} : op[q].st \notin Stuck \cup {"applying"}
        /\ \A q \in Ops \ {o} : flow[q].pc = "idle" /\ clean[q].pc = "idle"
        /\ clean[o].pc = "idle"
    BY <1>0, <1>6, <2>1, AloneAtWork DEF Busy, Exclusion, BusyOnce
  <2>3. op'[o].st = "interrupted"
    BY <1>0, <1>3, <1>6 DEF JournalTrue
  <2>4. SettledIntact'
    BY <1>4, <1>5, <2>2, <2>3 DEF SettledIntact, Settled, Stuck
  <2>5. Standing(o)
    <3>1. CASE flow[o].pc = "validate"
      <4>1. Originals(o) = proj[Project(o)]
        BY <3>1 DEF Fresh, Crash, Fault
      <4>2. Intact(Originals(o))
        BY <3>1, <4>1 DEF Held, FlowsOwn
      <4> QED
        BY <1>0, <2>2, <4>2, StandingIntact
    <3>2. CASE flow[o].pc # "validate"
      BY <1>0, <1>6, <3>2 DEF AllUpheld, Upheld
    <3> QED
      BY <3>1, <3>2
  <2>6. Standing(o)'
    <3>1. CASE ctr' = ctr
      BY <1>5, <2>2, <2>5, <3>1 DEF Standing, Exists, Dependents
    <3>2. CASE Unanswered(o)
      BY <1>0, <1>6, <2>5, <3>2, UnansweredHandles, ServesUphold, CreatesUphold
    <3>3. \A q \in Ops : Unanswered(q) => flow[q].pc # "idle"
      BY <1>0, UnansweredHandles
    <3> QED
      BY <2>2, <3>1, <3>2, <3>3 DEF Crash, Stray
  <2>7. StuckStands'
    BY <1>3, <2>2, <2>6 DEF StuckStands, Live, Stuck
  <2> QED
    BY <2>4, <2>7
<1>7. ASSUME \A q \in Ops : flow[q].pc = "idle"
      PROVE  SettledIntact' /\ StuckStands'
  <2>1. \A q \in Ops : op'[q].st = op[q].st /\ op[q].st # "applying"
    BY <1>0, <1>3, <1>7 DEF JournalTrue
  <2>2. \/ ctr' = ctr
        \/ \E o \in Ops : /\ clean[o].pc = "delete"
                          /\ CanRemove(Orig(o, StopSlot(clean[o].k)))
                          /\ ctr' = RemovedC(Orig(o, StopSlot(clean[o].k)))
    BY <1>0, <1>7, UnansweredHandles DEF Crash, Stray
  <2>3. StuckStands'
    <3>1. SUFFICES ASSUME NEW q \in Live, op[q].st \in Stuck
                   PROVE  Standing(q)'
      BY <1>4, <2>1 DEF StuckStands, Live
    <3>2. Standing(q)
      BY <3>1 DEF Held, StuckStands
    <3>3. \A o \in Ops : clean[o].pc # "delete"
      <4>1. SUFFICES ASSUME NEW o \in Ops, clean[o].pc = "delete" PROVE FALSE
        OBVIOUS
      <4>2. Busy(o) /\ op[o].st = "succeeded"
        BY <1>0, <4>1 DEF Busy, JournalTrue
      <4> QED
        BY <1>0, <3>1, <4>2, AloneAtWork DEF Stuck
    <3>4. ctr' = ctr
      BY <2>2, <3>3
    <3> QED
      BY <1>5, <3>2, <3>4 DEF Standing, Exists, Dependents
  <2>4. SettledIntact'
    <3>1. SUFFICES ASSUME NEW p \in Projects, proj'[p] # <<>>, Settled(p)'
                   PROVE  Intact(proj[p])'
      BY DEF SettledIntact
    <3>2. Settled(p)
      BY <1>4, <1>5, <2>1, <3>1 DEF Settled, Live
    <3>3. proj' = proj
      <4>1. SUFFICES ASSUME NEW r \in Requests, req[r].pc = "confirm"
                     PROVE  FALSE
        BY <1>7 DEF Crash, Torn
      <4>2. req[r].op \in Live /\ op[req[r].op].st \in Stuck
        BY <1>0, <4>1 DEF Exclusion, ClaimsStuck, NeedsRecovery, Stuck, TypeInv, RequestsOK
      <4>3. Project(req[r].op) = p
        BY <1>0, <4>2, LiveAdopted DEF OneProject
      <4> QED
        BY <3>2, <4>2, <4>3 DEF Settled
    <3>4. PICK s : s = proj[p]
      OBVIOUS
    <3>5. s # <<>> /\ Intact(s)
      BY <3>1, <3>2, <3>3, <3>4 DEF Held, SettledIntact
    <3>6. Intact(s)'
      <4>1. CASE ctr' = ctr
        BY <3>5, <4>1 DEF Intact, Exists, Dependents
      <4> QED
        BY <1>0, <2>2, <3>4, <3>5, <4>1, RemovalIntact
    <3> QED
      BY <3>3, <3>4, <3>6
  <2> QED
    BY <2>3, <2>4
<1> QED
  BY <1>2, <1>6, <1>7

\* A cleanup takes nothing of the stack.
LEMMA CleanupHeld ==
  ASSUME OneProject, Known, Held, [Next]_vars, NEW o \in Ops, CleanupStep(o)
  PROVE  (SettledIntact /\ StuckStands /\ FlowsOwn)'
<1>0. /\ TypeInv /\ Exclusion /\ Placed /\ AdoptedFirst /\ JournalTrue /\ DraftsNew
      /\ CleanupVetted /\ Lasting
  BY StepLasting DEF Known, UnderWay, Changes, Retains, Exclusion
<1>1. clean[o].pc # "idle" /\ UNCHANGED <<proj, plan, flow>>
  BY DEF CleanupStep, CleanupVet, CleanupCheck, CleanupDelete, CleanupDone, untouched
<1>2. Busy(o) /\ op[o].st = "succeeded" /\ flow[o].pc = "idle"
  BY <1>0, <1>1 DEF Busy, JournalTrue, Exclusion, BusyOnce
<1>3. /\ \A q \in Live \ {o} : op[q].st \notin Stuck \cup {"applying"}
      /\ \A q \in Ops \ {o} : flow[q].pc = "idle"
  BY <1>0, <1>2, AloneAtWork DEF Busy
<1>4. \A q \in Ops : op'[q].st = op[q].st
  BY <1>0, CleanupStepMarks DEF Marked
<1>5. FlowsOwn'
  BY <1>1, <1>2, <1>3 DEF FlowsOwn, Entries
<1>6. \A q \in Live : op[q].st \notin Stuck \cup {"applying"}
  BY <1>2, <1>3 DEF Stuck
<1>7. StuckStands'
  BY <1>4, <1>6 DEF StuckStands, Live
<1>8. ASSUME NEW p \in Projects, proj[p] # <<>>
      PROVE  Intact(proj[p])'
  <2>1. PICK s : s = proj[p]
    OBVIOUS
  <2>2. Intact(s)
    BY <1>6, <1>8, <2>1 DEF Held, SettledIntact, Settled
  <2>3. CASE ctr' = ctr
    BY <1>1, <2>1, <2>2, <2>3 DEF Intact, Exists, Dependents
  <2>4. CASE ctr' # ctr
    <3>1. PICK i : i = Orig(o, StopSlot(clean[o].k))
      OBVIOUS
    <3>2. clean[o].pc = "delete" /\ CanRemove(i) /\ ctr' = RemovedC(i)
      BY <2>4, <3>1 DEF CleanupStep, CleanupVet, CleanupCheck, CleanupDelete, CleanupDone,
         ReadFails, Refused
    <3>3. Intact(s)'
      BY <1>0, <1>8, <2>1, <2>2, <3>1, <3>2, RemovalIntact
    <3> QED
      BY <1>1, <2>1, <3>3
  <2> QED
    BY <2>3, <2>4
<1>9. SettledIntact'
  BY <1>1, <1>8 DEF SettledIntact
<1> QED
  BY <1>5, <1>7, <1>9

\* A confirmed recovery hands back a stack that is complete
\* (engine.ts:311-327, 351-366).
LEMMA ConfirmHeld ==
  ASSUME OneProject, Journalled, Known, Held, [Next]_vars,
         NEW r \in Requests, RecoveryConfirm(r)
  PROVE  (SettledIntact /\ StuckStands)'
<1>0. /\ TypeInv /\ Exclusion /\ Placed /\ AdoptedFirst /\ DraftsNew /\ OneUnfinished
  BY DEF Known, UnderWay, Changes, Retains, Exclusion
<1>1. PICK o : o = req[r].op
  OBVIOUS
<1>2. req[r].pc = "confirm" /\ ctr' = ctr /\ plan' = plan
  BY DEF RecoveryConfirm, ReadFails, Refused
<1>3. o \in Live /\ o \in Ops /\ op[o].st \in Stuck
  BY <1>0, <1>1, <1>2 DEF Exclusion, ClaimsStuck, NeedsRecovery, Stuck, TypeInv, RequestsOK,
     Live
<1>4. /\ \A q \in Live : Project(q)' = Project(q) /\ \A k : Orig(q, k)' = Orig(q, k)
      /\ \A q \in Live : Originals(q)' = Originals(q)
      /\ \A q \in Live : Project(q) = Project(o) /\ Project(q) \in Projects
      /\ \A p \in Projects : p = Project(o)
  BY <1>0, <1>3, ReadsFixed, LiveAdopted DEF OneProject
<1>5. Standing(o)
  BY <1>3 DEF Held, StuckStands
<1>6. ASSUME NEW q \in Live, Standing(q)
      PROVE  Standing(q)'
  BY <1>2, <1>4, <1>6 DEF Standing, Exists, Dependents
<1>7. CASE op' = op
  <2>1. StuckStands'
    BY <1>6, <1>7 DEF Held, StuckStands, Live
  <2>2. SettledIntact'
    BY <1>3, <1>4, <1>7 DEF SettledIntact, Settled, Live, Stuck
  <2> QED
    BY <2>1, <2>2
<1>8. CASE op' # op
  <2>1. /\ \A q \in Ops \ {o} : op'[q] = op[q]
        /\ op'[o].st = "rolled_back"
    BY <1>0, <1>1, <1>8, ConfirmMarks
  <2>2. proj' = Returned(o)
    BY <1>1, <1>8 DEF RecoveryConfirm, Journalled, Fault, ReadFails
  <2>3. \A q \in Live : op[q].st \in Stuck => q = o
    BY <1>0, <1>3, <1>4 DEF OneUnfinished, Unfinished, Stuck
  <2>4. StuckStands'
    BY <2>1, <2>3 DEF StuckStands, Live, Stuck
  <2>5. PICK s : s = Originals(o)
    OBVIOUS
  <2>6. Intact(s)
    BY <1>0, <1>3, <1>5, <2>5, StandingIntact
  <2>7. Intact(s)'
    BY <1>2, <2>6 DEF Intact, Exists, Dependents
  <2>8. \A p \in Projects : proj'[p] = s
    BY <1>0, <1>4, <2>2, <2>5 DEF Returned, TypeInv, TypeOK
  <2> QED
    BY <2>4, <2>7, <2>8 DEF SettledIntact
<1> QED
  BY <1>7, <1>8

\* An apply begins with a complete stack.
LEMMA BeginHeld ==
  ASSUME OneProject, Journalled, Known, Held, [Next]_vars,
         NEW o \in Ops, NEW l \in Plans, ApplyBegin(o, l),
         \A q \in Ops : flow[q].pc = "idle"
  PROVE  (SettledIntact /\ StuckStands /\ FlowsOwn)'
<1>0. /\ TypeInv /\ Exclusion /\ AdoptedFirst /\ DraftsNew
  BY DEF Known, UnderWay, Changes, Retains, Exclusion
<1>1. Begun(o, l)
  BY <1>0, ApplyBegins
<1>2. PICK P : P = plan[l].project
  OBVIOUS
<1>3. P \in Projects /\ proj[P] # <<>> /\ Free(P)
  <2>1. plan[l] \in PlanRec \cup {NoPlanRec} /\ plan[l].st = "kept"
    BY <1>0, <1>1 DEF Begun, TypeInv, TypeOK
  <2> QED
    BY <1>0, <1>1, <1>2, <2>1 DEF Begun, AdoptedFirst, PlanRec, NoPlanRec
<1>4. \A q \in Live : op[q].st \notin Stuck \cup {"applying"}
  <2>1. \A q \in Live : Project(q) = P
    BY <1>0, <1>3, LiveAdopted DEF OneProject
  <2> QED
    BY <1>3, <2>1 DEF Free, Blocked, Unfinished, Stuck
<1>5. PICK s : s = proj[P]
  OBVIOUS
<1>6. Intact(s) /\ Intact(s)'
  <2>1. Intact(s)
    BY <1>3, <1>4, <1>5 DEF Held, SettledIntact, Settled
  <2> QED
    BY <1>1, <2>1 DEF Begun, Intact, Exists, Dependents
<1>7. proj' = proj /\ \A p \in Projects : p = P
  BY <1>1, <1>3 DEF Begun, OneProject
<1>8. Project(o)' = P
  BY <1>1, <1>2 DEF Begun, Project
<1>9. SettledIntact'
  BY <1>5, <1>6, <1>7 DEF SettledIntact
<1>10. StuckStands'
  BY <1>1, <1>4 DEF StuckStands, Begun, Live, Stuck
<1>11. FlowsOwn'
  <2>1. \A q \in Ops \ {o} : flow'[q].pc = "idle"
    BY <1>1 DEF Begun
  <2>2. flow'[o].pc = "validate" /\ flow'[o].own = s
    BY <1>1, <1>2, <1>5 DEF Begun
  <2> QED
    BY <1>5, <1>6, <1>7, <1>8, <2>1, <2>2 DEF FlowsOwn, Entries
<1> QED
  BY <1>9, <1>10, <1>11

\* The owner's repairs bring no container up but the originals.
LEMMA RepairsStand ==
  ASSUME TypeInv, Exclusion, Placed, [Next]_vars, NEW o \in Live, OwnerRepairs(o),
         Standing(o)
  PROVE  Standing(o)'
<1>1. /\ \A k \in Slots : Orig(o, k) \in Ids /\ Exists(Orig(o, k))
      /\ Originals(o)' = Originals(o) /\ \A k : Orig(o, k)' = Orig(o, k)
  BY OriginalsPlaced, ReadsFixed DEF OwnerRepairs, Exclusion
<1>2. \A i \in Ids : ctr[i] \in Containers
  BY DEF TypeInv, TypeOK
<1>3. ASSUME NEW i \in Ids, NEW k \in Slots, Orig(o, k) = i
      PROVE  ctr'[i].st \in {"running", "stopped"} /\ ctr'[i].ns = ctr[i].ns
  BY <1>2, <1>3 DEF OwnerRepairs, Containers
<1>4. ASSUME NEW i \in Ids, \A k \in Slots : Orig(o, k) # i
      PROVE  ctr'[i].ns = ctr[i].ns /\ (ctr'[i].st \in {ctr[i].st, "removed"})
  BY <1>2, <1>4 DEF OwnerRepairs, Containers
<1>5. \A i \in Ids : Exists(i)' => Exists(i) /\ ctr'[i].ns = ctr[i].ns
  BY <1>1, <1>3, <1>4 DEF Exists
<1>6. \A k \in Slots : Exists(Orig(o, k))'
  BY <1>1, <1>3 DEF Exists
<1>7. Dependents(Orig(o, Vpn))' \subseteq Dependents(Orig(o, Vpn))
  BY <1>1, <1>5 DEF Dependents
<1> QED
  BY <1>1, <1>6, <1>7 DEF Standing

\* Of the requests that neither begin nor end an operation only an adoption
\* changes a project, and only the owner's repairs a container.
LEMMA AsideMoves ==
  ASSUME Undisturbed, Aside
  PROVE  /\ ctr' = ctr \/ \E o \in Ops : OwnerRepairs(o)
         /\ proj' = proj \/ \E p \in Projects : AdoptClaim(p)
<1>1. CASE \/ \E p \in Projects, s \in Selections : AdoptBegin(p, s)
           \/ \E p \in Projects : AdoptInspect(p) \/ AdoptClaim(p)
  BY <1>1 DEF AdoptBegin, AdoptInspect, AdoptClaim, ReadFails, Refused, disk
<1>2. CASE \/ \E r \in Requests, q \in Ops : RecoveryBegin(r, q)
           \/ \E r \in Requests : RecoveryInspect(r)
  BY <1>2 DEF RecoveryBegin, RecoveryInspect, ReadFails, Refused, disk
<1>3. CASE \E q \in Ops : OwnerRepairs(q) \/ ReviewRecovery(q) \/ ReviewCleanup(q)
  BY <1>3 DEF OwnerRepairs, ReviewRecovery, ReviewCleanup, disk
<1>4. CASE \/ \E m \in Plans, p \in Projects : PlanBegin(m, p)
           \/ \E m \in Plans, c \in Cfgs : PlanStore(m, c)
           \/ \E m \in Plans : PlanObserve(m) \/ ExpirePlan(m)
           \/ \E v \in reviews : ExpireReview(v)
           \/ Prune \/ UNCHANGED vars
  BY <1>4 DEF PlanBegin, PlanStore, PlanObserve, ExpirePlan, ExpireReview, Prune, vars, disk,
     ReadFails, Refused, Fault
<1>5. ~\E i \in Ids : Drift(i)
  BY DEF Undisturbed, Drift, Fault
<1> QED
  BY <1>1, <1>2, <1>3, <1>4, <1>5 DEF Aside

\* They keep the stacks as they are, and adopt complete ones only
\* (engine.ts:205-225).
LEMMA AsideHeld ==
  ASSUME Undisturbed, OneProject, Known, Held, [Next]_vars, Aside
  PROVE  (SettledIntact /\ StuckStands)'
<1>0. /\ TypeInv /\ Exclusion /\ Placed /\ AdoptedFirst /\ DraftsNew /\ OneUnfinished
  BY DEF Known, UnderWay, Changes, Retains, Exclusion
<1>1. op' = op
  BY AsideKeeps
<1>2. /\ \A q \in Live : Project(q)' = Project(q) /\ \A k : Orig(q, k)' = Orig(q, k)
      /\ \A q \in Live : Originals(q)' = Originals(q) /\ Project(q) \in Projects
      /\ \A q \in Live : proj[Project(q)] # <<>> /\ adopting[Project(q)].pc = "idle"
  BY <1>0, ReadsFixed, LiveAdopted
<1>3. \A p \in Projects : Settled(p)' <=> Settled(p)
  BY <1>1, <1>2 DEF Settled, Live
<1>4. CASE \E o \in Ops : OwnerRepairs(o)
  <2>1. PICK o \in Ops : OwnerRepairs(o)
    BY <1>4
  <2>2. o \in Live /\ op[o].st \in Stuck /\ proj' = proj
    BY <2>1 DEF OwnerRepairs, NeedsRecovery, Stuck, Live, disk
  <2>3. \A p \in Projects : p = Project(o)
    BY <1>2, <2>2 DEF OneProject
  <2>4. \A q \in Live : op[q].st \in Stuck => q = o
    BY <1>0, <1>2, <2>2, <2>3 DEF OneUnfinished, Unfinished, Stuck
  <2>5. Standing(o)'
    BY <1>0, <2>1, <2>2, RepairsStand DEF Held, StuckStands
  <2>6. StuckStands'
    BY <1>1, <2>4, <2>5 DEF StuckStands, Live
  <2>7. \A p \in Projects : ~Settled(p)
    BY <2>2, <2>3 DEF Settled
  <2> QED
    BY <1>3, <2>6, <2>7 DEF SettledIntact
<1>5. CASE ctr' = ctr
  <2>1. StuckStands'
    <3>1. SUFFICES ASSUME NEW q \in Live, op[q].st \in Stuck
                   PROVE  Standing(q)'
      BY <1>1 DEF StuckStands, Live
    <3>2. Standing(q)
      BY <3>1 DEF Held, StuckStands
    <3> QED
      BY <1>2, <1>5, <3>2 DEF Standing, Exists, Dependents
  <2>2. ASSUME NEW s, Intact(s)
        PROVE  Intact(s)'
    BY <1>5, <2>2 DEF Intact, Exists, Dependents
  <2>3. CASE proj' = proj
    BY <1>3, <2>1, <2>2, <2>3 DEF Held, SettledIntact
  <2>4. CASE \E p \in Projects : AdoptClaim(p)
    <3>1. PICK p \in Projects : AdoptClaim(p)
      BY <2>4
    <3>2. PICK s : s = adopting[p].own
      OBVIOUS
    <3>3. adopting[p].pc = "claim" /\ Shaped(s) /\ s \in Stacks
      BY <1>0, <3>1, <3>2, AdoptTypes DEF AdoptClaim, Placed, AdoptionsPlaced, TypeInv,
         TypeOK, AdoptRec, IdleAdopt
    <3>4. CASE proj' # proj
      <4>1. /\ proj' = [proj EXCEPT ![p] = s]
            /\ Dependents(s[Vpn]) \subseteq {s[k] : k \in Apps}
        BY <3>1, <3>2, <3>4 DEF AdoptClaim
      <4>2. \A k \in Slots : Exists(s[k])
        BY <3>2, <3>3 DEF Held, ClaimsThere
      <4>3. \A k \in Apps : ctr[s[k]].ns = s[Vpn]
        BY <3>3 DEF Shaped, Stacks, NsOf, Apps
      <4>4. Intact(s)
        BY <4>1, <4>2, <4>3 DEF Intact
      <4>5. \A q \in Projects : proj'[q] = s
        BY <1>0, <4>1 DEF OneProject, TypeInv, TypeOK
      <4> QED
        BY <2>1, <2>2, <4>4, <4>5 DEF SettledIntact
    <3> QED
      BY <2>1, <2>3, <3>4
  <2> QED
    BY <2>1, <2>3, <2>4, AsideMoves
<1> QED
  BY <1>4, <1>5, AsideMoves

\* While a stack is being adopted no container changes.
LEMMA NothingChanges ==
  ASSUME Undisturbed, OneProject, TypeInv, Exclusion, AdoptedFirst, [Next]_vars,
         NEW p \in Projects, adopting[p].pc # "idle", adopting'[p].pc # "idle"
  PROVE  ctr' = ctr
<1>1. Live = {}
  BY LiveAdopted DEF OneProject
<1>2. \A o \in Ops : flow[o].pc = "idle" /\ clean[o].pc = "idle"
  BY <1>1 DEF Exclusion, BusyLocked, Busy
<1>3. CASE Aside
  BY <1>1, <1>3, AsideMoves DEF OwnerRepairs, NeedsRecovery, Live
<1>4. CASE Crash
  BY <1>4 DEF Crash, IdleAdopt
<1>5. CASE \E o \in Ops, l \in Plans : ApplyBegin(o, l)
  BY <1>5 DEF ApplyBegin
<1>6. CASE \E o \in Ops : ApplyStep(o) \/ CleanupBegin(o) \/ CleanupStep(o)
  BY <1>2, <1>6, ApplyRuns DEF CleanupBegin, CleanupStep, CleanupVet, CleanupCheck,
     CleanupDelete, CleanupDone
<1>7. CASE \E r \in Requests : RecoveryConfirm(r)
  BY <1>7 DEF RecoveryConfirm, ReadFails, Refused
<1> QED
  BY <1>3, <1>4, <1>5, <1>6, <1>7, NextCases

\* What an adoption is about to claim is still there: nothing is changed
\* before a stack is adopted.
LEMMA StepClaims ==
  ASSUME Undisturbed, OneProject, Known, ClaimsThere, [Next]_vars
  PROVE  ClaimsThere'
<1>0. /\ TypeInv /\ Exclusion /\ AdoptedFirst
  BY DEF Known, UnderWay, Changes, Retains
<1> SUFFICES ASSUME NEW p \in Projects, adopting'[p].pc = "claim"
             PROVE  \A k \in Slots : Exists(adopting[p].own[k])'
  BY DEF ClaimsThere
<1>1. /\ adopting[p].pc # "idle" /\ adopting'[p].own = adopting[p].own
      /\ \/ adopting[p].pc = "claim"
         \/ ctr' = ctr /\ \A k \in Slots : Exists(adopting[p].own[k])
  <2>1. AdoptMoves(p)
    BY <1>0, StepAdopts
  <2>2. \A s : adopting'[p] = [pc |-> "inspect", own |-> s] => adopting'[p].pc = "inspect"
    OBVIOUS
  <2> QED
    BY <2>1, <2>2 DEF AdoptMoves
<1>2. ctr' = ctr
  BY <1>0, <1>1, NothingChanges
<1> QED
  BY <1>1, <1>2 DEF ClaimsThere, Exists

\* What neither changes a container, nor a project, nor an operation, keeps
\* the stacks.
LEMMA SameHeld ==
  ASSUME Known, Held, [Next]_vars, UNCHANGED <<ctr, proj, op, flow>>
  PROVE  (SettledIntact /\ StuckStands /\ FlowsOwn)'
<1>0. TypeInv /\ DraftsNew
  BY DEF Known, UnderWay, Changes, Retains, Exclusion
<1>1. Live' = Live
  BY DEF Live
<1>2. \A q \in Live : /\ Project(q)' = Project(q) /\ Originals(q)' = Originals(q)
                      /\ \A k : Orig(q, k)' = Orig(q, k)
  BY <1>0, ReadsFixed
<1>3. \A p \in Projects : Settled(p)' <=> Settled(p)
  BY <1>1, <1>2 DEF Settled
<1>4. \A s : Intact(s) => Intact(s)'
  BY DEF Intact, Exists, Dependents
<1>5. SettledIntact'
  BY <1>3, <1>4 DEF SettledIntact, Held
<1>6. \A q \in Live : Standing(q) => Standing(q)'
  BY <1>2 DEF Standing, Exists, Dependents
<1>7. StuckStands'
  BY <1>1, <1>6 DEF StuckStands, Held
<1>8. \A q \in Ops : flow[q].pc # "idle" => q \in Live
  BY <1>0, Flowing
<1>9. FlowsOwn'
  BY <1>2, <1>4, <1>8 DEF FlowsOwn, Entries, Held
<1> QED
  BY <1>5, <1>7, <1>9

\* Every step keeps the stacks.
LEMMA StepHeld ==
  ASSUME Undisturbed, OneProject, Journalled, Known, Held, Fresh, [Next]_vars
  PROVE  Held'
<1>0. /\ TypeInv /\ Exclusion /\ Placed /\ AdoptedFirst /\ DraftsNew
  BY DEF Known, UnderWay, Changes, Retains, Exclusion
<1>1. ClaimsThere' /\ AllTight'
  BY <1>0, StepClaims, StepTight DEF Held
<1>2. ASSUME NEW o \in Ops, flow[o].pc # "idle"
      PROVE  (SettledIntact /\ StuckStands /\ FlowsOwn)'
  <2>1. CASE ApplyStep(o)
    BY <2>1, ApplyHeld
  <2>2. CASE Crash
    BY <2>2, CrashHeld
  <2>3. CASE UNCHANGED <<ctr, proj, base, op, flow, clean, locks>>
    BY <2>3, SameHeld
  <2> QED
    BY <1>0, <1>2, <2>1, <2>2, <2>3, OnlyApply
<1>3. ASSUME \A q \in Ops : flow[q].pc = "idle"
      PROVE  (SettledIntact /\ StuckStands /\ FlowsOwn)'
  <2>1. CASE Aside
    <3>1. FlowsOwn'
      BY <1>3, <2>1, AsideKeeps DEF FlowsOwn, Entries
    <3> QED
      BY <2>1, <3>1, AsideHeld
  <2>2. CASE Crash
    BY <2>2, CrashHeld
  <2>3. CASE \E o \in Ops, l \in Plans : ApplyBegin(o, l)
    BY <1>3, <2>3, BeginHeld
  <2>4. CASE \E o \in Ops : ApplyStep(o)
    BY <1>3, <2>4, ApplyRuns
  <2>5. CASE \E o \in Ops : CleanupBegin(o)
    BY <2>5, SameHeld DEF CleanupBegin, untouched
  <2>6. CASE \E o \in Ops : CleanupStep(o)
    BY <2>6, CleanupHeld
  <2>7. CASE \E r \in Requests : RecoveryConfirm(r)
    <3>1. FlowsOwn'
      BY <1>3, <2>7 DEF FlowsOwn, Entries, RecoveryConfirm
    <3> QED
      BY <2>7, <3>1, ConfirmHeld
  <2> QED
    BY <2>1, <2>2, <2>3, <2>4, <2>5, <2>6, <2>7, NextCases
<1>4. (SettledIntact /\ StuckStands /\ FlowsOwn)'
  BY <1>2, <1>3
<1> QED
  BY <1>1, <1>4 DEF Held

\* Nothing is adopted, or changed, at first.
LEMMA InitHeld == Init => Held
<1> SUFFICES ASSUME Init PROVE Held
  OBVIOUS
<1>1. /\ \A p \in Projects : proj[p] = <<>> /\ adopting[p].pc = "idle"
      /\ \A o \in Ops : flow[o].pc = "idle" /\ op[o].st = "none"
  BY DEF Init, IdleAdopt, IdleFlow, NoOp
<1> QED
  BY <1>1 DEF Held, SettledIntact, StuckStands, FlowsOwn, ClaimsThere, AllTight, Live,
     Entries, Advances

\* What is held is kept, as long as no plan goes stale over a restart.
LEMMA StacksHeld ==
  OneRequest /\ OneProject /\ Journalled /\ Undisturbed /\ Spec /\ []Fresh
    => [](Known /\ Held)
<1>1. OneRequest /\ OneProject /\ Journalled /\ Undisturbed /\ Spec => []Known
  BY Retained, JournalKept, ChangesUnderWay, PTL DEF Known
<1>2. OneProject /\ Journalled /\ Undisturbed /\ Known /\ Held /\ Fresh /\ [Next]_vars
        => Held'
  BY StepHeld
<1>3. OneProject => []OneProject
  OBVIOUS
<1>4. Journalled => []Journalled
  OBVIOUS
<1>5. Undisturbed => []Undisturbed
  OBVIOUS
<1> QED
  BY <1>1, <1>2, <1>3, <1>4, <1>5, InitHeld, PTL DEF Spec

\* A stack that nothing works on is complete, so that its next change can be
\* planned (engine.ts:183-197, 447-489): whatever fails, and over restarts.
THEOREM StacksIntact ==
  OneRequest /\ OneProject /\ Journalled /\ Undisturbed /\ Spec /\ []Fresh
    => []StackIntact
<1>1. Known /\ Held => StackIntact
  <2> SUFFICES ASSUME Held, NEW p \in Projects, proj[p] # <<>>, Free(p)
               PROVE  Intact(proj[p])
    BY DEF StackIntact
  <2>1. Settled(p)
    BY DEF Free, Blocked, Unfinished, Settled, Stuck
  <2> QED
    BY <2>1 DEF Held, SettledIntact
<1> QED
  BY StacksHeld, <1>1, PTL

-----------------------------------------------------------------------------
(* What a change has retained stays retained.                              *)

Succeeded(q) == op[q].st = "succeeded"
\* An operation that has changed its stack and is not done with it.
AtWork(w) == op[w].st \in Stuck \/ flow[w].pc \notin Entries

\* An operation whose name says what it renamed: it has not begun, goes
\* forward, or succeeded.
Clear(q) ==
  op[q].st \in {"none", "succeeded"} \/ flow[q].pc \in Advances \cup {"validate"}
RenamedOf(q) == IF q \in Live THEN op[q].renamed ELSE {}
\* Containers, plans and preparations show its name on those of R only.
ShownOn(snap, q, R) ==
  \A k \in Slots : q \in snap[k].conf.name.tags => snap[k].conf.id \in R
TagsOf(q, R) ==
  /\ \A i \in Ids : q \in ctr[i].name.tags => i \in R
  /\ \A l \in Plans : /\ plan[l].st # "none" => ShownOn(plan[l].snap, q, R)
                      /\ draft[l].pc = "store" => ShownOn(draft[l].snap, q, R)
TagsTrue == \A q \in Ops : Clear(q) => TagsOf(q, RenamedOf(q))
\* What an operation was planned for does not bear its name.
NotItsOwn == \A q \in Live : \A k \in Slots : q \notin Snap(q)[k].conf.name.tags

\* What a successful change has renamed belongs to nobody, is nothing that
\* another change works on, and waits under its recovery name.
SparesUnowned == \A q \in Live : Succeeded(q) => op[q].renamed \cap Owned = {}
SparesUntouched ==
  \A q, w \in Live : Succeeded(q) /\ AtWork(w) =>
    op[q].renamed \cap (Members(Originals(w)) \cup Members(op[w].created)) = {}
SparesApart ==
  \A q, w \in Live : Succeeded(q) /\ Succeeded(w) /\ q # w =>
    op[q].renamed \cap op[w].renamed = {}
SparesKept ==
  \A q \in Live : Succeeded(q) /\ op[q].cleanup = "none" =>
    \A i \in op[q].renamed : ctr[i].st = "stopped" /\ q \in ctr[i].name.tags
Spares == SparesUnowned /\ SparesUntouched /\ SparesApart /\ SparesKept

\* An operation that is clear was clear before, and has renamed more.
LEMMA ClearBefore ==
  ASSUME Journalled, Known, [Next]_vars, NEW q \in Ops, Clear(q)'
  PROVE  Clear(q) /\ RenamedOf(q) \subseteq RenamedOf(q)'
<1>0. TypeInv /\ JournalTrue
  BY DEF Known, UnderWay, Changes, Retains
<1>1. CASE Aside
  BY <1>1, AsideKeeps DEF Clear, RenamedOf, Live
<1>2. CASE Crash
  <2>1. op'[q].st \in {"none", "succeeded"} /\ op'[q].renamed = op[q].renamed
    BY <1>0, <1>2, RestartMarks DEF Crash, Clear, IdleFlow, Advances
  <2>2. op'[q].st = op[q].st
    BY <1>0, <1>2, <2>1, RestartMarks DEF Crash
  <2> QED
    BY <2>1, <2>2 DEF Clear, RenamedOf, Live
<1>3. ASSUME NEW o \in Ops, NEW l \in Plans, ApplyBegin(o, l)
      PROVE  Clear(q) /\ RenamedOf(q) \subseteq RenamedOf(q)'
  <2>1. Begun(o, l)
    BY <1>0, <1>3, ApplyBegins
  <2> QED
    BY <2>1 DEF Begun, Clear, RenamedOf, Live
<1>4. ASSUME NEW o \in Ops, ApplyStep(o)
      PROVE  Clear(q) /\ RenamedOf(q) \subseteq RenamedOf(q)'
  <2>1. \/ Onward(o)
        \/ \E st \in {"succeeded", "rolled_back", "rollback_failed"} : Ended(o, st)
    BY <1>0, <1>4, ApplyMoves
  <2>2. CASE q # o
    BY <2>1, <2>2 DEF Onward, Ended, Clear, RenamedOf, Live
  <2>3. flow[o].pc # "idle" /\ o \in Live /\ op[o].st = "applying"
    BY <1>0, <1>4, ApplyRuns, Flowing DEF JournalTrue
  <2>4. op[o].renamed = flow[o].renamed
    BY <1>0, <2>3 DEF JournalTrue
  <2>5. ASSUME q = o, Onward(o)
        PROVE  Clear(q) /\ RenamedOf(q) \subseteq RenamedOf(q)'
    <3>1. flow'[o].pc \notin Entries
      BY <1>0, <1>4, <2>5, ApplyLeaves DEF Leaves, IdleFlow, Onward
    <3>2. flow'[o].pc \in Advances /\ op'[o].st = "applying"
      BY <2>5, <3>1 DEF Onward, Clear, Entries
    <3>3. Advanced(o, flow[o], flow'[o])
      BY <1>0, <1>4, <3>2, AdvancesBy
    <3>4. flow[o].pc \in Advances \cup {"validate"}
      BY <3>3 DEF Advanced, Advances
    <3>5. flow[o].renamed \subseteq flow'[o].renamed
      BY <3>3 DEF Advanced, Lists
    <3>6. op'[o].renamed = flow'[o].renamed
      BY <2>5 DEF Onward
    <3> QED
      BY <2>3, <2>4, <2>5, <3>2, <3>4, <3>5, <3>6 DEF Clear, RenamedOf, Live
  <2>6. ASSUME q = o, ~Onward(o)
        PROVE  Clear(q) /\ RenamedOf(q) \subseteq RenamedOf(q)'
    <3>1. PICK st \in {"succeeded", "rolled_back", "rollback_failed"} : Ended(o, st)
      BY <2>1, <2>6
    <3>2. op'[o].st = "succeeded" /\ op'[o].renamed = flow[o].renamed
      BY <2>6, <3>1 DEF Ended, Clear, IdleFlow, Advances
    <3>3. NothingToChange(o) \/ Commit(o)
      BY <1>0, <1>4, <3>2, EndsBy
    <3> QED
      BY <2>3, <2>4, <2>6, <3>2, <3>3
      DEF NothingToChange, Commit, Clear, RenamedOf, Live, Advances
  <2> QED
    BY <2>2, <2>5, <2>6
<1>5. ASSUME NEW o \in Ops, CleanupBegin(o)
      PROVE  Clear(q) /\ RenamedOf(q) \subseteq RenamedOf(q)'
  BY <1>5 DEF CleanupBegin, untouched, Clear, RenamedOf, Live
<1>6. ASSUME NEW o \in Ops, CleanupStep(o)
      PROVE  Clear(q) /\ RenamedOf(q) \subseteq RenamedOf(q)'
  <2>1. PICK u : Marked(o, u)
    BY <1>0, <1>6, CleanupStepMarks
  <2>2. flow' = flow
    BY <1>6 DEF CleanupStep, CleanupVet, CleanupCheck, CleanupDelete, CleanupDone,
       untouched
  <2> QED
    BY <2>1, <2>2 DEF Marked, Clear, RenamedOf, Live
<1>7. ASSUME NEW r \in Requests, RecoveryConfirm(r)
      PROVE  Clear(q) /\ RenamedOf(q) \subseteq RenamedOf(q)'
  <2>1. flow' = flow
    BY <1>7 DEF RecoveryConfirm
  <2>2. PICK o : o = req[r].op
    OBVIOUS
  <2>3. \/ op' = op
        \/ /\ \A w \in Ops \ {o} : op'[w] = op[w]
           /\ op'[o].st = "rolled_back" /\ op'[o].renamed = op[o].renamed
    BY <1>0, <1>7, <2>2, ConfirmMarks
  <2>4. o \in Live
    BY <1>0, <1>7, <2>2 DEF RecoveryConfirm, TypeInv, RequestsOK
  <2> QED
    BY <2>1, <2>3, <2>4 DEF Clear, RenamedOf, Live
<1> QED
  BY <1>1, <1>2, <1>3, <1>4, <1>5, <1>6, <1>7, NextCases

\* How a container comes by a new name: an operation gives it the name of the
\* service, creates it, or retains it.
Renames(w, i) ==
  \E k \in Slots :
    \/ i = Orig(w, k) /\ ctr'[i].name = Snap(w)[k].conf.name
    \/ /\ i = Orig(w, k) /\ flow[w].pc = "rename"
       /\ ctr'[i].name = Backup(w, k) /\ (Clear(w)' => i \in RenamedOf(w)')
    \/ flow[w].k = k /\ Creates(w) /\ i = FreshId
NameMoves ==
  \A i \in Ids : ctr'[i].name = ctr[i].name \/ \E w \in Live : Renames(w, i)
\* A call that may rename a container leaves the other names alone.
LEMMA RenamedNames ==
  ASSUME TypeInv, NEW w \in Live, NEW k \in Slots, NEW i, i = Orig(w, k), NEW n,
         ctr' = Renamed(i, n),
         \/ n = Snap(w)[k].conf.name
         \/ /\ flow[w].pc = "rename" /\ n = Backup(w, k)
            /\ Clear(w)' => i \in RenamedOf(w)'
  PROVE  NameMoves
<1>1. i \in Ids /\ w \in Ops
  BY OriginalTypes DEF Live
<1>2. \A j \in Ids : ctr'[j].name = IF j = i THEN n ELSE ctr[j].name
  BY <1>1 DEF Renamed, TypeInv, TypeOK
<1> QED
  BY <1>1, <1>2 DEF NameMoves, Renames

\* What stops, starts or removes containers leaves their names alone.
LEMMA PlainMoves ==
  ASSUME TypeInv,
         \/ ctr' = ctr
         \/ \E S : ctr' = Stopped(S)
         \/ \E i \in Ids : ctr' = Started(i) \/ ctr' = RemovedC(i)
  PROVE  NameMoves
<1>0. ctr \in [Ids -> Containers]
  BY DEF TypeInv, TypeOK
<1>1. ASSUME NEW S, ctr' = Stopped(S), NEW j \in Ids
      PROVE  ctr'[j].name = ctr[j].name
  <2>1. PICK c \in Containers : c = ctr[j]
    BY <1>0
  <2>2. [c EXCEPT !.st = "stopped"].name = c.name
    BY <2>1 DEF Containers
  <2> QED
    BY <1>1, <2>1, <2>2 DEF Stopped
<1>2. ASSUME NEW i \in Ids, ctr' = Started(i) \/ ctr' = RemovedC(i), NEW j \in Ids
      PROVE  ctr'[j].name = ctr[j].name
  BY <1>0, <1>2, DockerMoves
<1> QED
  BY <1>1, <1>2 DEF NameMoves

\* The creation of a replacement names nothing else.
LEMMA CreatesNames ==
  ASSUME TypeInv, Placed, NEW w \in Ops, Creates(w)
  PROVE  NameMoves
<1>1. /\ w \in Live /\ flow[w].k \in Slots
      /\ \A j \in Ids \ {FreshId} : ctr'[j] = ctr[j]
  BY CreatedPlace
<1> QED
  BY <1>1 DEF NameMoves, Renames

\* A call that is cut off retains nothing for an operation that is clear.
LEMMA UnansweredNames ==
  ASSUME TypeInv, Placed, NEW o \in Ops, Unanswered(o), ~Clear(o)'
  PROVE  NameMoves
<1>0. flow[o].pc # "idle"
  BY DEF Unanswered
<1>1. /\ o \in Live /\ flow[o].k \in 0..Size /\ Position(flow[o])
      /\ flow[o].created \in Seq(Ids)
  BY <1>0, Flowing
<1>2. flow[o].pc \in Loops => flow[o].k \in Slots /\ Orig(o, flow[o].k) \in Ids
  BY <1>1, OriginalTypes DEF Position, Live
<1>3. flow[o].pc \in {"start", "discard", "remove"} =>
        flow[o].created[flow[o].k] \in Ids
  <2>1. CASE flow[o].pc = "start"
    BY <2>1, AtReplacement
  <2>2. CASE flow[o].pc \in Discards
    <3>1. flow[o].k \in 1..Len(flow[o].created)
      BY <1>1, <2>2 DEF Position
    <3> QED
      BY <1>1, <3>1
  <2> QED
    BY <2>1, <2>2 DEF Discards
<1>4. PICK k, i, new : k = flow[o].k /\ i = Orig(o, k) /\ new = flow[o].created[k]
  OBVIOUS
<1>5. CASE flow[o].pc = "create"
  <2>1. Creates(o)
    BY <1>5 DEF Unanswered, Creates
  <2> QED
    BY <2>1, CreatesNames
<1>6. CASE flow[o].pc \in {"rename", "rename back"}
  <2>1. \/ flow[o].pc = "rename" /\ ctr' = Renamed(i, Backup(o, k))
        \/ flow[o].pc = "rename back" /\ ctr' = Renamed(i, Snap(o)[k].conf.name)
    BY <1>4, <1>6 DEF Unanswered
  <2>2. k \in Slots
    BY <1>2, <1>4, <1>6 DEF Loops
  <2> QED
    BY <1>1, <1>4, <2>1, <2>2, RenamedNames
<1>7. CASE flow[o].pc \notin {"create", "rename", "rename back"}
  <2>1. \/ \E S : ctr' = Stopped(S)
        \/ flow[o].pc = "start" /\ ctr' = Started(new)
        \/ flow[o].pc = "restart" /\ ctr' = Started(i)
        \/ flow[o].pc = "remove" /\ ctr' = RemovedC(new)
    BY <1>4, <1>7 DEF Unanswered
  <2>2. \E S : ctr' = Stopped(S) \/ \E j \in Ids : ctr' = Started(j) \/ ctr' = RemovedC(j)
    BY <1>2, <1>3, <1>4, <2>1 DEF Loops
  <2> QED
    BY <2>2, PlainMoves
<1> QED
  BY <1>5, <1>6, <1>7

\* What an apply renames, and when.
LEMMA ApplyNames ==
  ASSUME TypeInv, Placed, JournalTrue', NEW o \in Ops, ApplyStep(o)
  PROVE  NameMoves
<1>0. flow[o].pc # "idle"
  BY ApplyRuns
<1>1. /\ o \in Live /\ flow[o] \in FlowRec /\ flow[o].k \in 0..Size
      /\ Position(flow[o]) /\ flow[o].created \in Seq(Ids)
  BY <1>0, Flowing
<1>2. flow[o].pc \in Loops => flow[o].k \in Slots /\ Orig(o, flow[o].k) \in Ids
  BY <1>1, OriginalTypes DEF Position, Live
<1>3. PICK k, i, new : k = flow[o].k /\ i = Orig(o, k) /\ new = flow[o].created[k]
  OBVIOUS
<1>4. CASE RenameOriginal(o)
  <2>1. flow[o].pc = "rename" /\ k \in Slots /\ i \in Ids
    BY <1>2, <1>3, <1>4 DEF RenameOriginal, Loops
  <2>2. ctr' = ctr \/ ctr' = Renamed(i, Backup(o, k))
    BY <1>3, <1>4 DEF RenameOriginal, Refused
  <2>3. CASE ctr' = ctr
    BY <2>3, PlainMoves
  <2>4. ASSUME ctr' = Renamed(i, Backup(o, k)), Clear(o)'
        PROVE  i \in RenamedOf(o)'
    <3>1. PICK f : f = flow[o] /\ f \in FlowRec
      BY <1>1
    <3>2. PICK done : done = [f EXCEPT !.renamed = @ \cup {i}]
      OBVIOUS
    <3>3. done \in FlowRec /\ done.renamed = f.renamed \cup {i} /\ done.st = f.st
      BY <2>1, <3>1, <3>2 DEF FlowRec
    <3>4. \/ Recorded(o, done, Then("rename", k, <<"create", Vpn>>))
          \/ Goto(o, f, Caught) /\ op' = op
      BY <1>3, <1>4, <3>1, <3>2 DEF RenameOriginal
    <3>5. ASSUME NEW g \in FlowRec, Goto(o, g, Caught), op' = op
          PROVE  FALSE
      <4>1. flow'[o].pc = "caught"
        BY <3>5, GotoFields DEF Caught
      <4>2. op'[o].st = "applying"
        BY <4>1 DEF JournalTrue
      <4> QED
        BY <2>4, <4>1, <4>2 DEF Clear, Advances
    <3>6. op' = Journal(o, done)
      BY <3>1, <3>3, <3>4, <3>5 DEF Recorded
    <3>7. op'[o].st = f.st /\ op'[o].renamed = done.renamed /\ f.st # "none"
      BY <1>0, <3>1, <3>3, <3>6, JournalFields, Flowing
    <3> QED
      BY <3>3, <3>7 DEF RenamedOf, Live
  <2> QED
    BY <1>1, <1>3, <2>1, <2>2, <2>3, <2>4, RenamedNames
<1>5. CASE RestoreName(o)
  <2>1. k \in Slots /\ i \in Ids
    BY <1>2, <1>3, <1>5 DEF RestoreName, Loops
  <2>2. ctr' = ctr \/ ctr' = Renamed(i, Snap(o)[k].conf.name)
    BY <1>3, <1>5 DEF RestoreName, Await, Refused
  <2> QED
    BY <1>1, <1>3, <2>1, <2>2, PlainMoves, RenamedNames
<1>6. CASE CreateReplacement(o)
  <2>1. ctr' = ctr \/ Creates(o)
    BY <1>6 DEF CreateReplacement, Creates, Refused
  <2> QED
    BY <2>1, PlainMoves, CreatesNames
<1>7. CASE StartReplacement(o) \/ DiscardReplacement(o)
  <2>1. flow[o].pc \in {"start", "discard", "remove"}
    BY <1>7 DEF StartReplacement, DiscardReplacement
  <2>2. new \in Ids
    <3>1. CASE flow[o].pc = "start"
      BY <1>3, <3>1, AtReplacement
    <3>2. CASE flow[o].pc \in Discards
      <4>1. flow[o].k \in 1..Len(flow[o].created)
        BY <1>1, <3>2 DEF Position
      <4> QED
        BY <1>1, <1>3, <4>1
    <3> QED
      BY <2>1, <3>1, <3>2 DEF Discards
  <2>3. ctr' \in {ctr, Started(new), Stopped({new}), RemovedC(new)}
    BY <1>3, <1>7 DEF StartReplacement, DiscardReplacement, Await, Refused
  <2> QED
    BY <2>2, <2>3, PlainMoves
<1>8. CASE StopOriginal(o)
  <2>1. ctr' = ctr \/ \E S : ctr' = Stopped(S)
    BY <1>8 DEF StopOriginal, Await, Refused
  <2> QED
    BY <2>1, PlainMoves
<1>9. CASE RestartOriginal(o)
  <2>1. i \in Ids
    BY <1>2, <1>3, <1>9 DEF RestartOriginal, Loops
  <2>2. ctr' \in {ctr, Started(i)}
    BY <1>3, <1>9 DEF RestartOriginal, Await, Refused
  <2> QED
    BY <2>1, <2>2, PlainMoves
<1>10. CASE StopEverything(o)
  <2>1. \E S : ctr' = Stopped(S)
    BY <1>10 DEF StopEverything
  <2> QED
    BY <2>1, PlainMoves
<1>11. CASE \/ ValidationFails(o) \/ NothingToChange(o) \/ Prepared(o)
            \/ AwaitReplacement(o) \/ VerifyNamespace(o) \/ Commit(o)
            \/ CommitFails(o) \/ BeginRollback(o) \/ RestoreOwnership(o)
            \/ RolledBack(o) \/ RollbackFailed(o)
  <2>1. ctr' = ctr
    BY <1>11 DEF ValidationFails, NothingToChange, Prepared, AwaitReplacement,
       VerifyNamespace, Commit, CommitFails, BeginRollback, RestoreOwnership,
       RolledBack, RollbackFailed, Await, ReadFails, Refused
  <2> QED
    BY <2>1, PlainMoves
<1> QED
  BY <1>4, <1>5, <1>6, <1>7, <1>8, <1>9, <1>10, <1>11 DEF ApplyStep

\* What a cleanup is about to remove is an original of its operation.
LEMMA CleanPlaces ==
  ASSUME TypeInv, NEW o \in Ops, clean[o].pc = "delete"
  PROVE  /\ o \in Live /\ StopSlot(clean[o].k) \in Slots
         /\ Orig(o, StopSlot(clean[o].k)) \in Ids
         /\ Orig(o, StopSlot(clean[o].k)) \in Members(Originals(o))
<1>1. o \in Live /\ clean[o].k \in Slots
  BY DEF TypeInv, CleanOK
<1>2. StopSlot(clean[o].k) \in Slots
  BY <1>1, SlotMoves
<1> QED
  BY <1>1, <1>2, OriginalTypes DEF Originals, Members

\* Every step renames so.
LEMMA StepRenames ==
  ASSUME Undisturbed, Known, JournalTrue', [Next]_vars
  PROVE  NameMoves
<1>0. TypeInv /\ Placed /\ JournalTrue /\ ctr \in [Ids -> Containers]
  BY DEF Known, UnderWay, Changes, Retains, TypeInv, TypeOK
<1>1. ASSUME NEW o \in Ops, OwnerRepairs(o)
      PROVE  NameMoves
  <2>1. o \in Live
    BY <1>1 DEF OwnerRepairs, NeedsRecovery, Live
  <2>2. ASSUME NEW j \in Ids, ctr'[j].name # ctr[j].name
        PROVE  \E k \in Slots : j = Orig(o, k) /\ ctr'[j].name = Snap(o)[k].conf.name
    <3>1. PICK c \in Containers : c = ctr[j]
      BY <1>0
    <3>2. \A n, u : [c EXCEPT !.name = n, !.st = u].name = n
      BY <3>1 DEF Containers
    <3>3. \A u : [c EXCEPT !.st = u].name = c.name
      BY <3>1 DEF Containers
    <3>4. PICK S : S = {k \in Slots : Orig(o, k) = j}
      OBVIOUS
    <3>5. CASE S = {}
      <4>1. ctr'[j] \in {c, [c EXCEPT !.st = "removed"]}
        BY <1>1, <3>1, <3>4, <3>5 DEF OwnerRepairs
      <4> QED
        BY <2>2, <3>1, <3>3, <4>1
    <3>6. CASE S # {}
      <4>1. PICK k : k = CHOOSE m \in S : TRUE
        OBVIOUS
      <4>2. k \in S
        BY <3>6, <4>1
      <4>3. \E u : ctr'[j] = [c EXCEPT !.name = Snap(o)[k].conf.name, !.st = u]
        BY <1>1, <3>1, <3>4, <3>6, <4>1 DEF OwnerRepairs
      <4> QED
        BY <3>2, <3>4, <4>2, <4>3
    <3> QED
      BY <3>5, <3>6
  <2> QED
    BY <2>1, <2>2 DEF NameMoves, Renames
<1>2. CASE Aside
  BY <1>0, <1>1, <1>2, AsideMoves, PlainMoves
<1>3. CASE Crash
  <2>1. ASSUME NEW o \in Ops, Unanswered(o)
        PROVE  NameMoves
    <3>1. op[o].st = "applying"
      BY <1>0, <2>1 DEF Unanswered, JournalTrue
    <3>2. op'[o].st = "interrupted" /\ flow'[o].pc = "idle"
      BY <1>0, <1>3, <3>1, RestartMarks DEF Crash, IdleFlow
    <3>3. ~Clear(o)'
      BY <3>2 DEF Clear, Advances
    <3> QED
      BY <1>0, <2>1, <3>3, UnansweredNames
  <2>2. ASSUME NEW o \in Ops, clean[o].pc = "delete"
        PROVE  Orig(o, StopSlot(clean[o].k)) \in Ids
    BY <1>0, <2>2, CleanPlaces
  <2>3. \/ ctr' = ctr
        \/ \E o \in Ops : Unanswered(o)
        \/ \E o \in Ops : /\ clean[o].pc = "delete"
                          /\ ctr' = RemovedC(Orig(o, StopSlot(clean[o].k)))
    BY <1>3 DEF Crash, Stray
  <2> QED
    BY <1>0, <2>1, <2>2, <2>3, PlainMoves
<1>4. ASSUME NEW o \in Ops, ApplyStep(o)
      PROVE  NameMoves
  BY <1>0, <1>4, ApplyNames
<1>5. ASSUME NEW o \in Ops, CleanupStep(o)
      PROVE  NameMoves
  <2>1. clean[o].pc = "delete" => Orig(o, StopSlot(clean[o].k)) \in Ids
    BY <1>0, <1>5, CleanPlaces
  <2>2. ctr' = ctr \/ (clean[o].pc = "delete"
                         /\ ctr' = RemovedC(Orig(o, StopSlot(clean[o].k))))
    BY <1>5 DEF CleanupStep, CleanupVet, CleanupCheck, CleanupDelete, CleanupDone,
       ReadFails, Refused
  <2> QED
    BY <1>0, <2>1, <2>2, PlainMoves
<1>6. CASE \/ \E o \in Ops, l \in Plans : ApplyBegin(o, l)
           \/ \E o \in Ops : CleanupBegin(o)
           \/ \E r \in Requests : RecoveryConfirm(r)
  <2>1. ctr' = ctr
    BY <1>6 DEF ApplyBegin, CleanupBegin, RecoveryConfirm, ReadFails, Refused
  <2> QED
    BY <1>0, <2>1, PlainMoves
<1> QED
  BY <1>2, <1>3, <1>4, <1>5, <1>6, NextCases

\* The name of an operation that is clear is on what it renamed only.
LEMMA StepTags ==
  ASSUME Undisturbed, OneProject, Journalled, Known, JournalTrue',
         TagsTrue, NotItsOwn, Spares, [Next]_vars
  PROVE  TagsTrue'
<1>0. /\ TypeInv /\ Exclusion /\ DraftsNew /\ Placed /\ AdoptedFirst
      /\ ctr \in [Ids -> Containers]
  BY DEF Known, UnderWay, Changes, Retains, Exclusion, TypeInv, TypeOK
<1> SUFFICES ASSUME NEW q \in Ops, Clear(q)'
             PROVE  TagsOf(q, RenamedOf(q))'
  BY DEF TagsTrue
<1>1. PICK R, N : R = RenamedOf(q) /\ N = RenamedOf(q)'
  OBVIOUS
<1>2. Clear(q) /\ TagsOf(q, R) /\ R \subseteq N
  BY <1>1, ClearBefore DEF TagsTrue
<1>3. ASSUME NEW i \in Ids, q \in ctr'[i].name.tags
      PROVE  i \in N
  <2>1. CASE ctr'[i].name = ctr[i].name
    BY <1>2, <1>3, <2>1 DEF TagsOf
  <2>2. CASE ctr'[i].name # ctr[i].name
    <3>1. PICK w \in Live : Renames(w, i)
      BY <2>2, StepRenames DEF NameMoves
    <3>2. PICK k \in Slots :
            \/ i = Orig(w, k) /\ ctr'[i].name = Snap(w)[k].conf.name
            \/ /\ i = Orig(w, k) /\ ctr'[i].name = Backup(w, k)
               /\ Clear(w)' => i \in RenamedOf(w)'
            \/ flow[w].k = k /\ Creates(w) /\ i = FreshId
      BY <3>1 DEF Renames
    <3>3. w \in Ops /\ op[w].plan \in Plans /\ Plan(w).st # "none"
      BY <1>0 DEF Live, TypeInv, LiveOK
    <3>4. q \in Snap(w)[k].conf.name.tags => Orig(w, k) \in R
      BY <1>2, <3>3 DEF TagsOf, ShownOn, Plan, Snap, Orig
    <3>5. Backup(w, k).tags = Snap(w)[k].conf.name.tags \cup {w}
      <4>1. PICK n \in Names : n = Snap(w)[k].conf.name
        BY <1>0, <3>3, OriginalTypes
      <4> QED
        BY <4>1 DEF Backup, Names
    <3>6. ASSUME flow[w].k = k, Creates(w), i = FreshId
          PROVE  FALSE
      <4>1. ctr'[i].name = Snap(w)[k].conf.name /\ flow[w].pc = "create"
        BY <1>0, <3>3, <3>6, CreatedPlace DEF Creates
      <4>2. Orig(w, k) \in R /\ q # w
        BY <1>3, <3>4, <4>1 DEF NotItsOwn
      <4>3. q \in Live
        BY <1>1, <4>2 DEF RenamedOf
      <4>4. ~Busy(q)
        BY <1>0, <3>3, <4>1, <4>2, AloneAtWork DEF Busy
      <4>5. Succeeded(q)
        BY <1>2, <4>3, <4>4 DEF Clear, Busy, Live, Succeeded, Advances
      <4>6. AtWork(w)
        BY <4>1 DEF AtWork, Entries
      <4>7. Orig(w, k) \in Members(Originals(w))
        BY DEF Originals, Members
      <4> QED
        BY <1>1, <4>2, <4>3, <4>5, <4>6, <4>7 DEF Spares, SparesUntouched, RenamedOf
    <3> QED
      BY <1>1, <1>2, <1>3, <3>2, <3>4, <3>5, <3>6
  <2> QED
    BY <2>1, <2>2
<1>4. ASSUME NEW l \in Plans, draft'[l].pc = "store"
      PROVE  ShownOn(draft'[l].snap, q, N)
  <2>1. DraftMoves(l)
    BY <1>0, StepDrafts
  <2>2. CASE draft'[l] = draft[l]
    BY <1>2, <1>4, <2>2 DEF TagsOf, ShownOn
  <2>3. CASE draft'[l] # draft[l]
    <3>1. PICK s : s = draft[l].own
      OBVIOUS
    <3>2. draft'[l].snap = Observed(s) /\ draft[l].pc = "observe"
      <4>1. ~\E p \in Projects :
              draft'[l] = [pc |-> "observe", project |-> p, own |-> proj[p]]
        <5> SUFFICES ASSUME NEW p \in Projects, NEW d, d = draft'[l],
                            d = [pc |-> "observe", project |-> p, own |-> proj[p]]
                     PROVE  FALSE
          OBVIOUS
        <5>1. d.pc = "observe"
          OBVIOUS
        <5> QED
          BY <1>4, <5>1
      <4>2. /\ draft[l].pc = "observe"
            /\ draft'[l] = [pc |-> "store", project |-> draft[l].project,
                            snap |-> Observed(s)]
        BY <1>4, <2>1, <2>3, <3>1, <4>1 DEF DraftMoves
      <4> QED
        BY <4>2
    <3>3. s \in Stacks
      BY <1>0, <3>1, <3>2 DEF TypeInv, TypeOK, DraftRec, IdleDraft
    <3>4. \A k \in Slots : /\ Observed(s)[k].conf.id = s[k] /\ s[k] \in Ids
                           /\ Observed(s)[k].conf.name = ctr[s[k]].name
      BY <3>3 DEF Observed, Seen, ConfOf, Stacks
    <3> QED
      BY <1>2, <3>2, <3>4 DEF TagsOf, ShownOn
  <2> QED
    BY <2>2, <2>3
<1>5. ASSUME NEW l \in Plans, plan'[l].st # "none"
      PROVE  ShownOn(plan'[l].snap, q, N)
  <2>1. CASE plan[l].st # "none"
    <3>1. plan'[l].snap = plan[l].snap
      BY <1>0, <2>1, PlansFixed DEF PlanFixed
    <3> QED
      BY <1>2, <2>1, <3>1 DEF TagsOf, ShownOn
  <2>2. CASE plan[l].st = "none"
    <3>1. draft[l].pc = "store" /\ plan'[l].snap = draft[l].snap
      BY <1>0, <1>5, <2>2, StepPlan
    <3> QED
      BY <1>2, <3>1 DEF TagsOf, ShownOn
  <2> QED
    BY <2>1, <2>2
<1> QED
  BY <1>1, <1>3, <1>4, <1>5 DEF TagsOf, ShownOn

\* No operation is planned for what bears its name.
LEMMA StepNotItsOwn ==
  ASSUME Journalled, Known, TagsTrue, NotItsOwn, [Next]_vars
  PROVE  NotItsOwn'
<1>0. TypeInv /\ DraftsNew
  BY DEF Known, UnderWay, Changes, Retains, Exclusion
<1> SUFFICES ASSUME NEW q \in Live', NEW k \in Slots
             PROVE  q \notin Snap(q)'[k].conf.name.tags
  BY DEF NotItsOwn
<1>1. CASE q \in Live
  BY <1>0, <1>1, ReadsFixed DEF NotItsOwn
<1>2. CASE q \notin Live
  <2>1. q \in Ops
    BY DEF Live
  <2>2. PICK l \in Plans : ApplyBegin(q, l)
    BY <1>0, <1>2, <2>1, BegunHolds
  <2>3. Begun(q, l)
    BY <1>0, <2>1, <2>2, ApplyBegins
  <2>4. op'[q].plan = l /\ plan' = plan /\ plan[l].st = "kept" /\ op[q].st = "none"
    BY <2>3 DEF Begun
  <2>5. ShownOn(plan[l].snap, q, {})
    BY <1>2, <2>1, <2>4 DEF TagsTrue, TagsOf, Clear, RenamedOf
  <2> QED
    BY <2>4, <2>5 DEF Snap, ShownOn
<1> QED
  BY <1>1, <1>2

\* Whom a project goes to: its owner, or the originals or the replacements of
\* an operation at work.
LEMMA ProjectStays ==
  ASSUME OneProject, Journalled, Known, [Next]_vars, NEW w \in Live,
         NEW p \in Projects
  PROVE  \/ proj'[p] = proj[p]
         \/ \E o \in Live : AtWork(o) /\ proj'[p] = Originals(o)
         \/ \E o \in Live : /\ flow[o].pc = "commit" /\ proj'[p] = flow[o].created
<1>0. /\ TypeInv /\ Exclusion /\ JournalTrue /\ AdoptedFirst
      /\ proj \in [Projects -> Stacks \cup {<<>>}]
  BY DEF Known, UnderWay, Changes, Retains, TypeInv, TypeOK
<1>1. proj[p] # <<>> /\ adopting[p].pc = "idle"
  BY <1>0, LiveAdopted DEF OneProject
<1>2. ASSUME NEW o \in Live, AtWork(o),
             proj' = [proj EXCEPT ![Project(o)] = Originals(o)]
      PROVE  \/ proj'[p] = proj[p]
             \/ \E q \in Live : AtWork(q) /\ proj'[p] = Originals(q)
  BY <1>0, <1>2
<1>3. ASSUME NEW r \in Requests, req[r].pc = "confirm", proj' = Returned(req[r].op)
      PROVE  \/ proj'[p] = proj[p]
             \/ \E q \in Live : AtWork(q) /\ proj'[p] = Originals(q)
  <2>1. PICK o : o = req[r].op
    OBVIOUS
  <2>2. o \in Live /\ NeedsRecovery(o)
    BY <1>0, <1>3, <2>1, Requesting DEF Exclusion, ClaimsStuck
  <2>3. AtWork(o)
    BY <2>2 DEF NeedsRecovery, AtWork, Stuck
  <2> QED
    BY <1>2, <1>3, <2>1, <2>2, <2>3 DEF Returned
<1>4. ASSUME NEW o \in Ops, flow[o].pc = "commit", proj' = Rebound(o)
      PROVE  \/ proj'[p] = proj[p]
             \/ \E q \in Live : flow[q].pc = "commit" /\ proj'[p] = flow[q].created
  <2>1. o \in Live
    BY <1>0, <1>4, Flowing
  <2> QED
    BY <1>0, <1>4, <2>1 DEF Rebound
<1>5. CASE Aside
  <2>1. ~\E q \in Projects : AdoptClaim(q)
    BY <1>1 DEF OneProject, AdoptClaim
  <2>2. proj' = proj
    BY <1>5, <2>1 DEF Aside, AdoptBegin, AdoptInspect, RecoveryBegin, RecoveryInspect,
       OwnerRepairs, Drift, ExpireReview, PlanBegin, PlanStore, PlanObserve,
       ExpirePlan, ReviewRecovery, ReviewCleanup, Prune, vars, disk
  <2> QED
    BY <2>2
<1>6. CASE Crash
  BY <1>3, <1>4, <1>6 DEF Crash, Torn
<1>7. ASSUME NEW r \in Requests, RecoveryConfirm(r), proj' # proj
      PROVE  \/ proj'[p] = proj[p]
             \/ \E q \in Live : AtWork(q) /\ proj'[p] = Originals(q)
  BY <1>3, <1>7 DEF RecoveryConfirm
<1>8. ASSUME NEW o \in Ops, ApplyStep(o), proj' # proj
      PROVE  \/ proj'[p] = proj[p]
             \/ \E q \in Live : AtWork(q) /\ proj'[p] = Originals(q)
             \/ \E q \in Live : flow[q].pc = "commit" /\ proj'[p] = flow[q].created
  <2>1. \/ flow[o].pc = "commit" /\ proj' = Rebound(o)
        \/ RestoreOwnership(o)
    BY <1>8 DEF ApplyStep, ValidationFails, NothingToChange, Prepared,
       StopOriginal, RenameOriginal, CreateReplacement, StartReplacement,
       AwaitReplacement, VerifyNamespace, BeginRollback, DiscardReplacement,
       RestoreName, RestartOriginal, RolledBack, StopEverything,
       RollbackFailed, still, disk, Commit, CommitFails
  <2>2. CASE RestoreOwnership(o)
    <3>1. flow[o].pc = "disown" /\ proj' = [proj EXCEPT ![Project(o)] = Originals(o)]
      BY <1>8, <2>2 DEF RestoreOwnership
    <3>2. o \in Live /\ AtWork(o)
      BY <1>0, <3>1, Flowing DEF AtWork, Entries
    <3> QED
      BY <1>2, <3>1, <3>2
  <2> QED
    BY <1>4, <2>1, <2>2
<1>9. CASE \/ \E o \in Ops, l \in Plans : ApplyBegin(o, l)
           \/ \E o \in Ops : CleanupBegin(o) \/ CleanupStep(o)
  <2>1. proj' = proj
    BY <1>9 DEF ApplyBegin, CleanupBegin, CleanupStep, CleanupVet, CleanupCheck,
       CleanupDelete, CleanupDone, untouched
  <2> QED
    BY <2>1
<1> QED
  BY <1>5, <1>6, <1>7, <1>8, <1>9, NextCases

\* What an operation works on: its stack, and what it has created.
Worked(w) == Members(Originals(w)) \cup Members(op[w].created)
\* Who is at work after a step was so before, or begins with the stack of its
\* project; and it works on what it did, and what it creates.
LEMMA WorkMoves ==
  ASSUME Undisturbed, OneProject, Journalled, Known, Held, Fresh, JournalTrue',
         [Next]_vars, NEW w \in Live, AtWork(w)'
  PROVE  /\ AtWork(w) \/ Originals(w) = proj[Project(w)]
         /\ Worked(w)' \subseteq Worked(w) \cup {i \in Ids : ~Used(i)}
<1>0. /\ TypeInv /\ Exclusion /\ DraftsNew /\ JournalTrue /\ AdoptedFirst /\ Placed
      /\ w \in Ops
  BY DEF Known, UnderWay, Changes, Retains, Exclusion, Live
<1>1. AtWork(w) \/ Originals(w) = proj[Project(w)]
  <2>1. CASE Aside
    BY <2>1, AsideKeeps DEF AtWork
  <2>2. CASE Crash
    <3>1. /\ op'[w].st = IF op[w].st = "applying" THEN "interrupted" ELSE op[w].st
          /\ flow'[w].pc = "idle"
      BY <1>0, <2>2, RestartMarks DEF Crash, IdleFlow
    <3>2. CASE op[w].st = "applying"
      <4>1. flow[w].pc # "idle"
        BY <1>0, <3>2 DEF JournalTrue
      <4>2. "crash" \in Faults
        BY <2>2 DEF Crash, Fault
      <4> QED
        BY <1>0, <4>1, <4>2 DEF Fresh, AtWork, Entries
    <3>3. CASE op[w].st # "applying"
      BY <3>1, <3>3 DEF AtWork, Entries
    <3> QED
      BY <3>2, <3>3
  <2>3. ASSUME NEW o \in Ops, NEW l \in Plans, ApplyBegin(o, l)
        PROVE  AtWork(w)
    <3>1. Begun(o, l)
      BY <1>0, <2>3, ApplyBegins
    <3> QED
      BY <1>0, <3>1 DEF Begun, AtWork, Live
  <2>4. ASSUME NEW o \in Ops, ApplyStep(o)
        PROVE  AtWork(w) \/ Originals(w) = proj[Project(w)]
    <3>1. \/ Onward(o)
          \/ \E st \in {"succeeded", "rolled_back", "rollback_failed"} : Ended(o, st)
      BY <1>0, <2>4, ApplyMoves
    <3>2. CASE w # o
      BY <1>0, <3>1, <3>2 DEF Onward, Ended, AtWork
    <3>3. CASE w = o /\ flow[o].pc \notin Entries
      BY <3>3 DEF AtWork
    <3>4. CASE w = o /\ flow[o].pc \in Entries
      <4>1. flow[o].pc = "validate"
        BY <2>4, <3>4, ApplyRuns DEF Entries
      <4>2. Prepared(o)
        <5>1. \A q \in Ops : flow[q].pc = "validate" /\ ApplyStep(q)
                => ValidationFails(q) \/ NothingToChange(q) \/ Prepared(q)
          BY DEF ApplyStep, StopOriginal, RenameOriginal, CreateReplacement,
             StartReplacement, AwaitReplacement, VerifyNamespace, Commit,
             CommitFails, BeginRollback, DiscardReplacement, RestoreName,
             RestoreOwnership, RestartOriginal, RolledBack, StopEverything,
             RollbackFailed
        <5>2. ~ValidationFails(o) /\ ~NothingToChange(o)
          <6>1. SUFFICES ASSUME ValidationFails(o) \/ NothingToChange(o)
                         PROVE  FALSE
            OBVIOUS
          <6>2. flow'[o].pc = "idle"
            BY <1>0, <3>4, <6>1
            DEF ValidationFails, NothingToChange, Conclude, End, IdleFlow, TypeInv, TypeOK
          <6>3. op'[o].st \in Stuck
            BY <3>4, <6>2 DEF AtWork, Entries
          <6>4. \E st \in {"succeeded", "rolled_back", "rollback_failed"} : Ended(o, st)
            BY <3>1, <6>2 DEF Onward
          <6>5. RollbackFailed(o)
            BY <1>0, <2>4, <6>3, EndsBy DEF Stuck
          <6> QED
            BY <4>1, <6>5 DEF RollbackFailed
        <5> QED
          BY <2>4, <4>1, <5>1, <5>2
      <4>3. Valid(o) /\ flow[o].own = proj[Project(o)]
        BY <1>0, <4>1, <4>2 DEF Prepared, Held, FlowsOwn
      <4>4. \A k \in Slots : proj[Project(o)][k] = Orig(o, k)
        BY <1>0, <4>1, <4>3, ValidSnap
      <4>5. proj[Project(o)] \in Stacks /\ Originals(o) \in Stacks
        BY <1>0, <3>4, LiveAdopted
      <4> QED
        BY <3>4, <4>4, <4>5 DEF Stacks, Originals
    <3> QED
      BY <3>2, <3>3, <3>4
  <2>5. ASSUME NEW o \in Ops, CleanupBegin(o) \/ CleanupStep(o)
        PROVE  AtWork(w)
    <3>1. flow' = flow
      BY <2>5 DEF CleanupBegin, CleanupStep, CleanupVet, CleanupCheck, CleanupDelete,
         CleanupDone, untouched
    <3>2. op' = op \/ \E u : Marked(o, u)
      BY <1>0, <2>5, CleanupStepMarks DEF CleanupBegin
    <3> QED
      BY <1>0, <3>1, <3>2 DEF Marked, AtWork
  <2>6. ASSUME NEW r \in Requests, RecoveryConfirm(r)
        PROVE  AtWork(w)
    <3>1. flow' = flow
      BY <2>6 DEF RecoveryConfirm
    <3>2. op'[w].st = op[w].st \/ op'[w].st = "rolled_back"
      BY <1>0, <2>6, ConfirmMarks
    <3> QED
      BY <3>1, <3>2 DEF AtWork, Stuck
  <2> QED
    BY <2>1, <2>2, <2>3, <2>4, <2>5, <2>6, NextCases
<1>2. Worked(w)' \subseteq Worked(w) \cup {i \in Ids : ~Used(i)}
  <2>1. Originals(w)' = Originals(w)
    BY <1>0, ReadsFixed
  <2>2. Holds(w, op'[w].created, op'[w].renamed)
    BY <1>0, StepHolds DEF HeldTrue
  <2>3. flow[w].pc # "idle" => flow[w].created = op[w].created
    BY <1>0 DEF JournalTrue
  <2>4. CASE op'[w].created = op[w].created \/ op'[w].created = <<>>
    BY <2>1, <2>4 DEF Worked, Members
  <2>5. CASE Creates(w) /\ op'[w].created = Append(flow[w].created, FreshId)
    <3>1. FreshId \in Ids /\ ~Used(FreshId) /\ flow[w].created \in Seq(Ids)
      BY <1>0, <2>5, CreatedPlace
    <3>2. flow[w].created = op[w].created
      BY <2>3, <2>5 DEF Creates
    <3>3. PICK c : c = op[w].created
      OBVIOUS
    <3>4. /\ DOMAIN c = 1..Len(c) /\ DOMAIN Append(c, FreshId) = 1..Len(c) + 1
          /\ \A k \in 1..Len(c) : Append(c, FreshId)[k] = c[k]
          /\ Append(c, FreshId)[Len(c) + 1] = FreshId /\ Len(c) \in Nat
      BY <3>1, <3>2, <3>3
    <3>5. Members(Append(c, FreshId)) \subseteq Members(c) \cup {FreshId}
      BY <3>4 DEF Members
    <3> QED
      BY <2>1, <2>5, <3>1, <3>2, <3>3, <3>5 DEF Worked, Members
  <2> QED
    BY <2>2, <2>3, <2>4, <2>5 DEF Holds
<1> QED
  BY <1>1, <1>2

\* What a success has renamed stays on record, and so does that its removal
\* has not begun.
LEMMA SuccessLasts ==
  ASSUME Journalled, Known, [Next]_vars, NEW q \in Live, Succeeded(q)
  PROVE  /\ op'[q].renamed \subseteq op[q].renamed
         /\ op'[q].cleanup = "none" => op[q].cleanup = "none"
<1>0. TypeInv /\ JournalTrue /\ q \in Ops
  BY DEF Known, UnderWay, Changes, Retains, Live
<1>1. op'[q].renamed \subseteq op[q].renamed
  <2>1. Holds(q, op'[q].created, op'[q].renamed)
    BY <1>0, StepHolds DEF HeldTrue
  <2>2. flow[q].pc = "idle"
    BY <1>0 DEF JournalTrue, Succeeded
  <2> QED
    BY <2>1, <2>2 DEF Holds, Creates
<1>2. ASSUME op[q].cleanup # "none", op'[q].cleanup = "none"
      PROVE  FALSE
  <2>1. CASE Aside
    BY <1>2, <2>1, AsideKeeps
  <2>2. CASE Crash
    BY <1>0, <1>2, <2>2, RestartMarks DEF Crash, Halfway
  <2>3. ASSUME NEW o \in Ops, NEW l \in Plans, ApplyBegin(o, l)
        PROVE  FALSE
    <3>1. Begun(o, l)
      BY <1>0, <2>3, ApplyBegins
    <3> QED
      BY <1>0, <1>2, <3>1 DEF Begun, Succeeded
  <2>4. ASSUME NEW o \in Ops, ApplyStep(o)
        PROVE  FALSE
    <3>1. \/ Onward(o)
          \/ \E st \in {"succeeded", "rolled_back", "rollback_failed"} : Ended(o, st)
      BY <1>0, <2>4, ApplyMoves
    <3> QED
      BY <1>0, <1>2, <3>1 DEF Onward, Ended
  <2>5. ASSUME NEW o \in Ops, CleanupStep(o)
        PROVE  FALSE
    <3>1. CleansOn(o) \/ CleanEnds(o)
      BY <1>0, <2>5, CleanMoves
    <3> QED
      BY <1>0, <1>2, <3>1 DEF CleansOn, CleanEnds, Marked, Halfway
  <2>6. ASSUME NEW o \in Ops, CleanupBegin(o)
        PROVE  FALSE
    BY <1>2, <2>6 DEF CleanupBegin
  <2>7. ASSUME NEW r \in Requests, RecoveryConfirm(r)
        PROVE  FALSE
    BY <1>0, <1>2, <2>7, ConfirmMarks
  <2> QED
    BY <2>1, <2>2, <2>3, <2>4, <2>5, <2>6, <2>7, NextCases
<1> QED
  BY <1>1, <1>2

\* Nothing that an apply does reaches a retained original of another change.
LEMMA ApplySpares ==
  ASSUME Known, Spares, NEW q \in Live, Succeeded(q), NEW i \in op[q].renamed,
         ctr[i].st = "stopped", NEW w \in Ops, flow[w].pc # "idle",
         ApplyStep(w) \/ Unanswered(w)
  PROVE  ctr'[i] = ctr[i]
<1>0. /\ TypeInv /\ Placed /\ JournalTrue /\ q \in Ops /\ i \in Ids
  BY DEF Known, UnderWay, Changes, Retains, Live, TypeInv, TypeOK, OpRec
<1>1. w \in Live /\ flow[w].created = op[w].created
  BY <1>0, Flowing DEF JournalTrue
<1>2. CASE flow[w].pc = "validate"
  BY <1>2 DEF ApplyStep, ValidationFails, NothingToChange, Prepared, StopOriginal,
     RenameOriginal, CreateReplacement, StartReplacement, AwaitReplacement,
     VerifyNamespace, Commit, CommitFails, BeginRollback, DiscardReplacement,
     RestoreName, RestoreOwnership, RestartOriginal, RolledBack, StopEverything,
     RollbackFailed, Unanswered
<1>3. CASE flow[w].pc # "validate"
  <2>1. AtWork(w)
    BY <1>3 DEF AtWork, Entries
  <2>2. i \notin Touchable(w)
    BY <1>1, <2>1 DEF Spares, SparesUntouched, Touchable
  <2>3. CASE Serves(w)
    <3>1. /\ Touchable(w) \in SUBSET Ids /\ Startable(w) \in SUBSET Touchable(w)
          /\ Members(flow[w].created) \in SUBSET Touchable(w)
      BY <1>0, FlowPlaced
    <3>2. Only(Touchable(w), Startable(w), Members(flow[w].created))
      BY <1>0, <2>3, <3>1, HandlesKeeps DEF Serves
    <3> QED
      BY <1>0, <2>2, <3>2 DEF Only
  <2>4. CASE Creates(w)
    <3>1. ~Used(FreshId) /\ \A j \in Ids \ {FreshId} : ctr'[j] = ctr[j]
      BY <1>0, <2>4, CreatedPlace
    <3> QED
      BY <1>0, <3>1 DEF Used
  <2> QED
    BY <1>0, <2>3, <2>4, ApplyHandles, UnansweredHandles
<1> QED
  BY <1>2, <1>3

\* Nor does a removal, unless it is its own.
LEMMA RemovalSpares ==
  ASSUME Known, Spares, NEW q \in Live, Succeeded(q), NEW i \in op[q].renamed,
         op[q].cleanup = "none", NEW w \in Ops, clean[w].pc = "delete",
         ctr' = RemovedC(Orig(w, StopSlot(clean[w].k)))
  PROVE  ctr'[i] = ctr[i]
<1>0. /\ TypeInv /\ JournalTrue /\ CleanupVetted /\ q \in Ops /\ i \in Ids
  BY DEF Known, UnderWay, Changes, Retains, Live, TypeInv, TypeOK, OpRec
<1>1. PICK j : j = Orig(w, StopSlot(clean[w].k))
  OBVIOUS
<1>2. w \in Live /\ Succeeded(w) /\ w # q
  BY <1>0, CleanPlaces DEF JournalTrue, Succeeded
<1>3. j \in op[w].renamed
  BY <1>0, <1>1 DEF CleanupVetted, Vetted
<1>4. i # j
  BY <1>2, <1>3 DEF Spares, SparesApart
<1> QED
  BY <1>0, <1>1, <1>4 DEF RemovedC, TypeInv, TypeOK

\* The owner's repairs of another operation leave it alone, too.
LEMMA RepairsSpare ==
  ASSUME Known, Spares, TagsTrue, NEW q \in Live, Succeeded(q),
         NEW i \in op[q].renamed, q \in ctr[i].name.tags,
         NEW w \in Ops, OwnerRepairs(w)
  PROVE  ctr'[i] = ctr[i]
<1>0. /\ TypeInv /\ q \in Ops /\ i \in Ids
  BY DEF Known, UnderWay, Changes, Retains, Live, TypeInv, TypeOK, OpRec
<1>1. w \in Live /\ AtWork(w)
  BY DEF OwnerRepairs, NeedsRecovery, Live, AtWork, Stuck
<1>2. i \notin Members(Originals(w)) /\ i \notin Members(op[w].created)
  BY <1>1 DEF Spares, SparesUntouched
<1>3. \A k \in Slots : Orig(w, k) \in Members(Originals(w))
  BY DEF Originals, Members
<1>4. ASSUME NEW k \in Slots, ctr[i].name = Snap(w)[k].conf.name
      PROVE  FALSE
  <2>1. op[w].plan \in Plans /\ Plan(w).st # "none"
    BY <1>0, <1>1 DEF TypeInv, LiveOK
  <2>2. TagsOf(q, op[q].renamed)
    BY <1>0 DEF TagsTrue, Clear, Succeeded, RenamedOf
  <2>3. Orig(w, k) \in op[q].renamed
    BY <1>4, <2>1, <2>2 DEF TagsOf, ShownOn, Plan, Snap, Orig
  <2> QED
    BY <1>1, <1>3, <2>3 DEF Spares, SparesUntouched
<1>5. PICK S, M : S = {k \in Slots : Orig(w, k) = i}
                  /\ M = {Snap(w)[k].conf.name : k \in Slots}
  OBVIOUS
<1>6. S = {} /\ ctr[i].name \notin M
  BY <1>2, <1>3, <1>4, <1>5
<1> QED
  BY <1>0, <1>2, <1>5, <1>6 DEF OwnerRepairs

\* So what waits under its recovery name is left alone.
LEMMA SpareStays ==
  ASSUME Undisturbed, Known, Spares, TagsTrue, [Next]_vars, NEW q \in Live,
         Succeeded(q), op[q].cleanup = "none", NEW i \in op[q].renamed,
         ctr[i].st = "stopped", q \in ctr[i].name.tags
  PROVE  ctr'[i] = ctr[i]
<1>0. TypeInv
  BY DEF Known, UnderWay, Changes, Retains
<1>1. CASE Aside
  BY <1>1, AsideMoves, RepairsSpare
<1>2. CASE Crash
  <2>1. \/ ctr' = ctr
        \/ \E o \in Ops : Unanswered(o)
        \/ \E o \in Ops : /\ clean[o].pc = "delete"
                          /\ ctr' = RemovedC(Orig(o, StopSlot(clean[o].k)))
    BY <1>2 DEF Crash, Stray
  <2>2. ASSUME NEW o \in Ops, Unanswered(o)
        PROVE  ctr'[i] = ctr[i]
    <3>1. flow[o].pc # "idle"
      BY <2>2 DEF Unanswered
    <3> QED
      BY <2>2, <3>1, ApplySpares
  <2> QED
    BY <2>1, <2>2, RemovalSpares
<1>3. ASSUME NEW o \in Ops, ApplyStep(o)
      PROVE  ctr'[i] = ctr[i]
  BY <1>0, <1>3, ApplyRuns, ApplySpares
<1>4. ASSUME NEW o \in Ops, CleanupStep(o)
      PROVE  ctr'[i] = ctr[i]
  <2>1. ctr' = ctr \/ (clean[o].pc = "delete"
                         /\ ctr' = RemovedC(Orig(o, StopSlot(clean[o].k))))
    BY <1>4 DEF CleanupStep, CleanupVet, CleanupCheck, CleanupDelete, CleanupDone,
       ReadFails, Refused
  <2> QED
    BY <2>1, RemovalSpares
<1>5. CASE \/ \E o \in Ops, l \in Plans : ApplyBegin(o, l)
           \/ \E o \in Ops : CleanupBegin(o)
           \/ \E r \in Requests : RecoveryConfirm(r)
  BY <1>5 DEF ApplyBegin, CleanupBegin, RecoveryConfirm, ReadFails, Refused
<1> QED
  BY <1>1, <1>2, <1>3, <1>4, <1>5, NextCases

\* A change that has just succeeded had nothing to change, or commits.
LEMMA NewSuccess ==
  ASSUME Journalled, Known, [Next]_vars, NEW q \in Ops, Succeeded(q)', ~Succeeded(q)
  PROVE  /\ q \in Live /\ flow[q].pc # "idle" /\ op'[q].renamed = flow[q].renamed
         /\ \/ op'[q].renamed = {}
            \/ Commit(q)
<1>0. /\ TypeInv /\ Exclusion /\ JournalTrue /\ FlowsBare
  BY DEF Known, UnderWay, Changes, Retains
<1>1. op'[q].st = "succeeded" /\ op[q].st # "succeeded"
  BY DEF Succeeded
<1>2. ApplyStep(q)
  BY <1>0, <1>1, OutcomeBy
<1>3. NothingToChange(q) \/ Commit(q)
  BY <1>0, <1>1, <1>2, EndsBy
<1>4. q \in Live /\ flow[q].pc # "idle" /\ op[q].st = "applying"
  BY <1>0, <1>2, ApplyRuns, Flowing DEF JournalTrue
<1>5. op'[q].renamed = flow[q].renamed
  BY <1>0, <1>1, <1>2, ApplyMoves DEF Onward, Ended
<1>6. NothingToChange(q) => flow[q].renamed = {}
  BY <1>0 DEF NothingToChange, FlowsBare
<1> QED
  BY <1>3, <1>4, <1>5, <1>6

\* What it has renamed is apart from what the project owns now, and stopped
\* under its recovery name.
LEMMA CommitSpares ==
  ASSUME OneProject, Known, Spares, NEW q \in Ops, Commit(q)
  PROVE  /\ flow[q].renamed \subseteq Members(Originals(q))
         /\ flow[q].renamed \cap UNION {Members(proj'[p]) : p \in Projects} = {}
         /\ \A i \in flow[q].renamed : ctr[i].st = "stopped" /\ q \in ctr[i].name.tags
         /\ ctr' = ctr /\ AtWork(q)
<1>0. /\ TypeInv /\ Exclusion /\ Placed /\ AllUpheld /\ AllForward
      /\ flow[q].pc = "commit"
  BY DEF Known, UnderWay, Changes, Retains, Commit
<1>1. q \in Live /\ Project(q) \in Projects
  BY <1>0, Flowing, PlanTypes DEF Live
<1>2. /\ flow[q].renamed \subseteq Members(Originals(q))
      /\ Members(flow[q].created) \cap Members(Originals(q)) = {}
  BY <1>0, <1>1 DEF Placed, ChangesPlaced, Replaces
<1>3. \A p \in Projects : proj'[p] = flow[q].created
  <2>1. proj' = Rebound(q)
    BY DEF Commit
  <2>2. \A p \in Projects : p = Project(q)
    BY <1>1 DEF OneProject
  <2> QED
    BY <1>0, <1>1, <2>1, <2>2 DEF Rebound, TypeInv, TypeOK
<1>4. ASSUME NEW i \in flow[q].renamed
      PROVE  ctr[i].st = "stopped" /\ q \in ctr[i].name.tags
  <2>1. PICK k \in Slots : i = Orig(q, k)
    BY <1>2 DEF Originals, Members
  <2>2. /\ ctr[i].st = "stopped"
        /\ ConfOf(i) = [Snap(q)[k].conf EXCEPT !.name = Backup(q, k)]
    BY <1>0, <2>1, CommitsWhole
  <2>3. PICK c \in Confs : c = Snap(q)[k].conf
    BY <1>0, <1>1, PlanTypes DEF Live, Snapshots
  <2>4. ctr[i].name = Backup(q, k)
    <3>1. [c EXCEPT !.name = Backup(q, k)].name = Backup(q, k)
      BY <2>3 DEF Confs
    <3>2. ConfOf(i).name = ctr[i].name
      BY DEF ConfOf
    <3> QED
      BY <2>2, <2>3, <3>1, <3>2
  <2>5. q \in Backup(q, k).tags
    <3>1. PICK n \in Names : n = Snap(q)[k].conf.name
      BY <1>0, <1>1, OriginalTypes
    <3> QED
      BY <3>1 DEF Backup, Names
  <2> QED
    BY <2>2, <2>4, <2>5
<1>5. ctr' = ctr /\ AtWork(q)
  BY <1>0 DEF Commit, AtWork, Entries
<1>6. flow[q].renamed \cap UNION {Members(proj'[p]) : p \in Projects} = {}
  BY <1>2, <1>3
<1> QED
  BY <1>2, <1>4, <1>5, <1>6

\* A success keeps what it retained, and a new one retains its originals.
LEMMA StepSpares ==
  ASSUME Undisturbed, OneProject, Journalled, Known, JournalTrue', Held, Fresh,
         TagsTrue, Spares, [Next]_vars
  PROVE  Spares'
<1>0. /\ TypeInv /\ Exclusion /\ DraftsNew /\ Placed /\ AdoptedFirst /\ JournalTrue
      /\ op \in [Ops -> OpRec]
  BY DEF Known, UnderWay, Changes, Retains, Exclusion, TypeInv, TypeOK
<1>1. PICK N : N = UNION {Members(proj'[p]) : p \in Projects}
  OBVIOUS
<1>2. ASSUME NEW q \in Ops, NEW i \in Ids, ~Used(i), q \in Live
      PROVE  i \notin op[q].renamed
  <2>1. op[q].renamed \subseteq Members(Originals(q))
    BY <1>0, <1>2 DEF Placed, ChangesPlaced, Replaces
  <2>2. \A j \in Members(Originals(q)) : Used(j)
    BY <1>0, <1>2, OriginalsPlaced DEF Originals, Members
  <2> QED
    BY <1>2, <2>1, <2>2
<1>3. ASSUME NEW w \in Live', AtWork(w)'
      PROVE  /\ w \in Live
             /\ AtWork(w) \/ Originals(w) = proj[Project(w)]
             /\ Worked(w)' \subseteq Worked(w) \cup {i \in Ids : ~Used(i)}
             /\ Project(w) \in Projects
  <2>1. w \in Live
    <3>1. SUFFICES ASSUME w \notin Live
                   PROVE  FALSE
      OBVIOUS
    <3>2. w \in Ops
      BY DEF Live
    <3>3. PICK l \in Plans : ApplyBegin(w, l)
      BY <1>0, <3>1, <3>2, BegunHolds
    <3>4. Begun(w, l)
      BY <1>0, <3>2, <3>3, ApplyBegins
    <3> QED
      BY <1>3, <3>4 DEF Begun, AtWork, Stuck, Entries
  <2> QED
    BY <1>0, <1>3, <2>1, WorkMoves, LiveAdopted
<1>4. ASSUME NEW q \in Live, Succeeded(q)
      PROVE  /\ op[q].renamed \cap N = {}
             /\ \A w \in Live' : AtWork(w)' => op[q].renamed \cap Worked(w)' = {}
  <2>1. op[q].renamed \cap Owned = {}
    BY <1>4 DEF Spares, SparesUnowned
  <2>2. \A w \in Live : AtWork(w) => op[q].renamed \cap Worked(w) = {}
    BY <1>4 DEF Spares, SparesUntouched, Worked
  <2>3. \A p \in Projects : op[q].renamed \cap Members(proj[p]) = {}
    BY <2>1 DEF Owned
  <2>4. ASSUME NEW p \in Projects
        PROVE  op[q].renamed \cap Members(proj'[p]) = {}
    <3>1. CASE proj'[p] = proj[p]
      BY <2>3, <3>1
    <3>2. ASSUME NEW o \in Live, AtWork(o), proj'[p] = Originals(o)
          PROVE  op[q].renamed \cap Members(proj'[p]) = {}
      BY <2>2, <3>2 DEF Worked
    <3>3. ASSUME NEW o \in Live, flow[o].pc = "commit", proj'[p] = flow[o].created
          PROVE  op[q].renamed \cap Members(proj'[p]) = {}
      <4>1. AtWork(o) /\ flow[o].created = op[o].created
        BY <1>0, <3>3 DEF AtWork, Entries, JournalTrue, Live
      <4> QED
        BY <2>2, <3>3, <4>1 DEF Worked
    <3> QED
      BY <3>1, <3>2, <3>3, ProjectStays
  <2>5. ASSUME NEW w \in Live', AtWork(w)'
        PROVE  op[q].renamed \cap Worked(w)' = {}
    <3>1. \A i \in op[q].renamed : i \in Ids /\ Used(i)
      BY <1>0, <1>2 DEF Live, OpRec
    <3>2. op[q].renamed \cap Worked(w) = {}
      <4>1. CASE AtWork(w)
        BY <1>3, <2>2, <2>5, <4>1
      <4>2. CASE ~AtWork(w)
        <5>1. w \in Live /\ Originals(w) = proj[Project(w)] /\ Project(w) \in Projects
          BY <1>3, <2>5, <4>2
        <5>2. op[q].renamed \cap Members(Originals(w)) = {}
          BY <2>3, <5>1
        <5>3. op[w].st = "applying"
          <6>1. flow[w].pc \in Entries /\ op[w].st \notin Stuck
            BY <4>2 DEF AtWork
          <6>2. CASE flow[w].pc = "idle"
            <7>1. op[w].st \notin {"applying"}
              BY <1>0, <5>1, <6>2 DEF JournalTrue, Live
            <7>2. flow'[w].pc \notin Entries \/ op'[w].st \in Stuck
              BY <2>5 DEF AtWork
            <7>3. w \in Ops
              BY <5>1 DEF Live
            <7>4. flow'[w].pc \in Entries
              BY <1>0, <6>2, <7>3, FlowBegins DEF Entries
            <7>5. op'[w].st \in {"interrupted", "rollback_failed"} /\ op'[w].st # op[w].st
              BY <6>1, <7>2, <7>4 DEF Stuck
            <7>6. \/ op'[w].st = "interrupted" /\ Crash
                  \/ ApplyStep(w)
              BY <1>0, <7>3, <7>5, OutcomeBy
            <7>7. ~ApplyStep(w)
              BY <6>2, <7>3, ApplyRuns
            <7> QED
              BY <1>0, <7>1, <7>3, <7>5, <7>6, <7>7, RestartMarks DEF Crash
          <6>3. CASE flow[w].pc = "validate"
            BY <1>0, <5>1, <6>3 DEF JournalTrue, Live
          <6> QED
            BY <6>1, <6>2, <6>3 DEF Entries
        <5>4. flow[w].pc = "validate" /\ w \in Ops
          BY <1>0, <4>2, <5>1, <5>3 DEF AtWork, Entries, JournalTrue, Live
        <5>5. Len(flow[w].created) = 0 /\ flow[w].created \in Seq(Ids)
          BY <1>0, <5>4, Flowing DEF Position
        <5>6. flow[w].created = op[w].created
          BY <1>0, <5>4 DEF JournalTrue
        <5>7. Members(op[w].created) = {}
          BY <5>5, <5>6 DEF Members
        <5> QED
          BY <5>2, <5>7 DEF Worked
      <4> QED
        BY <4>1, <4>2
    <3> QED
      BY <1>3, <2>5, <3>1, <3>2
  <2> QED
    BY <1>1, <2>4, <2>5
<1>5. ASSUME NEW q \in Live', Succeeded(q)', ~Succeeded(q)
      PROVE  /\ q \in Live /\ op'[q].renamed \cap N = {}
             /\ \A w \in Live' : AtWork(w)' => op'[q].renamed \cap Worked(w)' = {}
             /\ \A w \in Live : Succeeded(w) =>
                  op'[q].renamed \cap op[w].renamed = {} /\ Succeeded(w)'
             /\ \A i \in op'[q].renamed : ctr'[i].st = "stopped" /\ q \in ctr'[i].name.tags
             /\ \A w \in Live' : w # q => (Succeeded(w)' <=> Succeeded(w))
  <2>0. q \in Ops
    BY DEF Live
  <2>1. /\ q \in Live /\ flow[q].pc # "idle" /\ op'[q].renamed = flow[q].renamed
        /\ op'[q].renamed = {} \/ Commit(q)
    BY <1>5, <2>0, NewSuccess
  <2>2. \A w \in Live \ {q} : op[w].st \notin Stuck /\ flow[w].pc = "idle"
    BY <1>0, <2>0, <2>1, AloneAtWork DEF Busy, Live
  <2>3. ApplyStep(q) /\ Ended(q, "succeeded")
    <3>1. op'[q].st = "succeeded" /\ op[q].st # "succeeded"
      BY <1>5 DEF Succeeded
    <3>2. ApplyStep(q)
      BY <1>0, <2>0, <3>1, OutcomeBy
    <3> QED
      BY <1>0, <2>0, <3>1, <3>2, ApplyMoves DEF Onward, Ended
  <2>4. \A w \in Ops \ {q} : op'[w] = op[w] /\ flow'[w] = flow[w]
    BY <2>3 DEF Ended
  <2>5. \A w \in Live' : ~AtWork(w)'
    <3>1. ~AtWork(q)'
      BY <2>3 DEF Ended, AtWork, IdleFlow, Entries, Stuck
    <3>2. ASSUME NEW w \in Live', w # q
          PROVE  ~AtWork(w)'
      <4>1. w \in Live /\ w \in Ops /\ op'[w] = op[w] /\ flow'[w] = flow[w]
        BY <2>4, <3>2 DEF Live
      <4> QED
        BY <2>2, <3>2, <4>1 DEF AtWork, Entries
    <3> QED
      BY <3>1, <3>2
  <2>6. \A w \in Live' : w # q => (Succeeded(w)' <=> Succeeded(w))
    BY <2>4 DEF Live, Succeeded
  <2>7. \A w \in Live : Succeeded(w) => w # q /\ Succeeded(w)'
    BY <1>5, <2>4 DEF Live, Succeeded
  <2>8. CASE op'[q].renamed = {}
    BY <2>1, <2>5, <2>6, <2>7, <2>8
  <2>9. CASE Commit(q)
    <3>1. /\ op'[q].renamed \subseteq Members(Originals(q)) /\ op'[q].renamed \cap N = {}
          /\ \A i \in op'[q].renamed : ctr'[i].st = "stopped" /\ q \in ctr'[i].name.tags
          /\ AtWork(q)
      BY <1>1, <2>0, <2>1, <2>9, CommitSpares
    <3>2. \A w \in Live : Succeeded(w) => op[w].renamed \cap Members(Originals(q)) = {}
      BY <2>1, <3>1 DEF Spares, SparesUntouched
    <3> QED
      BY <2>1, <2>5, <2>6, <2>7, <3>1, <3>2
  <2> QED
    BY <2>1, <2>8, <2>9
<1>6. ASSUME NEW q \in Live', Succeeded(q)
      PROVE  /\ q \in Live /\ op'[q].renamed \subseteq op[q].renamed
             /\ op'[q].cleanup = "none" => op[q].cleanup = "none"
  <2>1. q \in Live
    BY <1>6 DEF Live, Succeeded
  <2> QED
    BY <1>6, <2>1, SuccessLasts
<1>7. SparesUnowned'
  <2> SUFFICES ASSUME NEW q \in Live', Succeeded(q)'
               PROVE  op'[q].renamed \cap N = {}
    BY <1>1 DEF SparesUnowned, Owned
  <2> QED
    BY <1>4, <1>5, <1>6
<1>8. SparesUntouched'
  <2> SUFFICES ASSUME NEW q \in Live', NEW w \in Live', Succeeded(q)', AtWork(w)'
               PROVE  op'[q].renamed \cap Worked(w)' = {}
    BY DEF SparesUntouched, Worked
  <2> QED
    BY <1>4, <1>5, <1>6
<1>9. SparesApart'
  <2> SUFFICES ASSUME NEW q \in Live', NEW w \in Live', Succeeded(q)', Succeeded(w)',
                      q # w
               PROVE  op'[q].renamed \cap op'[w].renamed = {}
    BY DEF SparesApart
  <2>1. CASE Succeeded(q) /\ Succeeded(w)
    BY <1>6, <2>1 DEF Spares, SparesApart
  <2>2. CASE ~Succeeded(q)
    <3>1. Succeeded(w)
      BY <1>5, <2>2
    <3> QED
      BY <1>5, <1>6, <2>2, <3>1
  <2>3. CASE ~Succeeded(w)
    <3>1. Succeeded(q)
      BY <1>5, <2>3
    <3> QED
      BY <1>5, <1>6, <2>3, <3>1
  <2> QED
    BY <2>1, <2>2, <2>3
<1>10. SparesKept'
  <2> SUFFICES ASSUME NEW q \in Live', Succeeded(q)', op'[q].cleanup = "none",
                      NEW i \in op'[q].renamed
               PROVE  ctr'[i].st = "stopped" /\ q \in ctr'[i].name.tags
    BY DEF SparesKept
  <2>1. CASE Succeeded(q)
    <3>1. q \in Live /\ i \in op[q].renamed /\ op[q].cleanup = "none"
      BY <1>6, <2>1
    <3>2. ctr[i].st = "stopped" /\ q \in ctr[i].name.tags
      BY <2>1, <3>1 DEF Spares, SparesKept
    <3>3. ctr'[i] = ctr[i]
      BY <2>1, <3>1, <3>2, SpareStays
    <3> QED
      BY <3>2, <3>3
  <2>2. CASE ~Succeeded(q)
    BY <1>5, <2>2
  <2> QED
    BY <2>1, <2>2
<1> QED
  BY <1>7, <1>8, <1>9, <1>10 DEF Spares

\* Nothing has been retained at first, and nothing bears a name of an
\* operation.
LEMMA InitSpares == Init => TagsTrue /\ NotItsOwn /\ Spares
<1> SUFFICES ASSUME Init
             PROVE  TagsTrue /\ NotItsOwn /\ Spares
  OBVIOUS
<1>1. Live = {} /\ \A q \in Ops : RenamedOf(q) = {}
  BY DEF Init, Live, NoOp, RenamedOf
<1>2. \A i \in Ids : ctr[i].name.tags = {}
  <2>1. PICK s, up : ctr = InitContainer(s, up)
    BY DEF Init
  <2> SUFFICES ASSUME NEW i \in Ids
               PROVE  ctr[i].name.tags = {}
    OBVIOUS
  <2>2. \E k : ctr[i].name = [slot |-> k, tags |-> {}]
    BY <2>1 DEF InitContainer
  <2> QED
    BY <2>2
<1>3. \A l \in Plans : plan[l].st = "none" /\ draft[l].pc = "idle"
  BY DEF Init, NoPlanRec, IdleDraft
<1> QED
  BY <1>1, <1>2, <1>3
  DEF TagsTrue, TagsOf, NotItsOwn, Spares, SparesUnowned, SparesUntouched,
      SparesApart, SparesKept

\* A change that succeeded retains its originals, stopped, under their recovery
\* names and owned by nobody, until their removal begins (engine.ts:451-455,
\* 474): whatever fails, and over restarts.
THEOREM OriginalsKept ==
  OneRequest /\ OneProject /\ Journalled /\ Undisturbed /\ Spec /\ []Fresh
    => []OriginalsRetained
<1>1. OneProject /\ Journalled /\ Undisturbed /\ Known /\ Held /\ Fresh
        /\ TagsTrue /\ NotItsOwn /\ Spares /\ [Next]_vars /\ Known'
        => (TagsTrue /\ NotItsOwn /\ Spares)'
  <2> SUFFICES ASSUME OneProject, Journalled, Undisturbed, Known, Held, Fresh,
                      TagsTrue, NotItsOwn, Spares, [Next]_vars, Known'
               PROVE  (TagsTrue /\ NotItsOwn /\ Spares)'
    OBVIOUS
  <2>1. JournalTrue'
    BY DEF Known
  <2> QED
    BY <2>1, StepTags, StepNotItsOwn, StepSpares
<1>2. OneProject => []OneProject
  OBVIOUS
<1>3. Journalled => []Journalled
  OBVIOUS
<1>4. Undisturbed => []Undisturbed
  OBVIOUS
<1>5. Spares => OriginalsRetained
  BY DEF Spares, SparesKept, SparesUnowned, OriginalsRetained, Succeeded
<1> QED
  BY <1>1, <1>2, <1>3, <1>4, <1>5, InitSpares, StacksHeld, PTL DEF Spec

-----------------------------------------------------------------------------
(* No application runs without its VPN.                                    *)

\* What an operation created that has not succeeded.
Loose(i) == \E o \in Live : ~Succeeded(o) /\ i \in Members(op[o].created)
\* Whatever runs uses no network of a stopped container, unless an emergency
\* stop has taken it away.
Served ==
  \A i \in Ids : Running(i) /\ ctr[i].ns \in Ids /\ ctr[ctr[i].ns].st = "stopped"
                   => Loose(i)
\* No container is created twice.
CreatedApart ==
  \A o, q \in Live : o # q => Members(op[o].created) \cap Members(op[q].created) = {}
\* What projects own, plans and adoptions name is nothing loose.
Unstuck(p) == \A o \in Live : Project(o) = p => op[o].st \notin Stuck
NothingLoose(s) == \A i \in Members(s) : ~Loose(i)
KeptTight ==
  /\ \A p \in Projects : /\ Unstuck(p) => NothingLoose(proj[p])
                         /\ adopting[p].pc # "idle" => NothingLoose(adopting[p].own)
  /\ \A l \in Plans : /\ draft[l].pc = "observe" => NothingLoose(draft[l].own)
                      /\ draft[l].pc = "store" => NothingLoose(IdsOf(draft[l].snap))
                      /\ plan[l].st # "none" => NothingLoose(IdsOf(plan[l].snap))
\* A plan shows an application running only with its VPN.
ServedIn(snap) == \A k \in Slots : snap[k].up => snap[Vpn].up
PlansServed ==
  \A l \in Plans : /\ draft[l].pc = "store" => ServedIn(draft[l].snap)
                   /\ plan[l].st # "none" => ServedIn(plan[l].snap)
NoneStranded == Served /\ CreatedApart /\ KeptTight /\ PlansServed

\* The record of an operation grows by what it has just created.
LEMMA CreatedMoves ==
  ASSUME Journalled, Known, [Next]_vars, NEW o \in Live
  PROVE  \/ op'[o].created = op[o].created
         \/ Creates(o) /\ op'[o].created = Append(op[o].created, FreshId)
<1>0. TypeInv /\ JournalTrue /\ o \in Ops
  BY DEF Known, UnderWay, Changes, Retains, Live
<1>1. CASE Aside
  BY <1>1, AsideKeeps
<1>2. CASE Crash
  BY <1>0, <1>2, RestartMarks DEF Crash
<1>3. ASSUME NEW q \in Ops, NEW l \in Plans, ApplyBegin(q, l)
      PROVE  op'[o].created = op[o].created
  <2>1. Begun(q, l)
    BY <1>0, <1>3, ApplyBegins
  <2> QED
    BY <1>0, <2>1 DEF Begun, Live
<1>4. ASSUME NEW q \in Ops, ApplyStep(q)
      PROVE  \/ op'[o].created = op[o].created
             \/ Creates(o) /\ op'[o].created = Append(op[o].created, FreshId)
  <2>1. \/ Onward(q)
        \/ \E st \in {"succeeded", "rolled_back", "rollback_failed"} : Ended(q, st)
    BY <1>0, <1>4, ApplyMoves
  <2>2. flow[q].pc # "idle" /\ flow[q].created = op[q].created
    BY <1>0, <1>4, ApplyRuns DEF JournalTrue
  <2>3. CASE q # o
    BY <1>0, <2>1, <2>3 DEF Onward, Ended
  <2>4. CASE q = o /\ Onward(q)
    BY <1>4, <1>0, <2>2, <2>4, ApplyCreated DEF Onward
  <2>5. CASE q = o /\ ~Onward(q)
    BY <2>1, <2>2, <2>5 DEF Ended
  <2> QED
    BY <2>3, <2>4, <2>5
<1>5. ASSUME NEW q \in Ops, CleanupBegin(q) \/ CleanupStep(q)
      PROVE  op'[o].created = op[o].created
  <2>1. op' = op \/ \E u : Marked(q, u)
    BY <1>0, <1>5, CleanupStepMarks DEF CleanupBegin
  <2> QED
    BY <1>0, <2>1 DEF Marked
<1>6. ASSUME NEW r \in Requests, RecoveryConfirm(r)
      PROVE  op'[o].created = op[o].created
  BY <1>0, <1>6, ConfirmMarks
<1> QED
  BY <1>1, <1>2, <1>3, <1>4, <1>5, <1>6, NextCases

\* So its replacements are what they were, and at most a new container.
LEMMA CreatedGrows ==
  ASSUME Journalled, Known, [Next]_vars, NEW o \in Live
  PROVE  /\ Members(op[o].created) \subseteq Members(op'[o].created)
         /\ \A i \in Members(op'[o].created) \ Members(op[o].created) :
              Creates(o) /\ i = FreshId /\ ~Used(i)
         /\ \A i \in Members(op[o].created) : i \in Ids /\ Used(i)
<1>0. TypeInv /\ JournalTrue /\ Placed /\ o \in Ops
  BY DEF Known, UnderWay, Changes, Retains, Live
<1>1. PICK c, d : c = op[o].created /\ d = op'[o].created
  OBVIOUS
<1>2. c \in Seq(Ids) /\ \A k \in DOMAIN c : Used(c[k])
  BY <1>0, <1>1 DEF TypeInv, TypeOK, OpRec, Placed, ChangesPlaced, Replaces, Shaped
<1>3. \A i \in Members(c) : i \in Ids /\ Used(i)
  BY <1>2 DEF Members
<1>4. CASE d = c
  BY <1>1, <1>3, <1>4
<1>5. CASE Creates(o) /\ d = Append(c, FreshId)
  <2>1. FreshId \in Ids /\ ~Used(FreshId)
    BY <1>0, <1>5, CreatedPlace
  <2>2. /\ DOMAIN c = 1..Len(c) /\ DOMAIN d = 1..Len(c) + 1 /\ Len(c) \in Nat
        /\ \A k \in 1..Len(c) : d[k] = c[k]
        /\ d[Len(c) + 1] = FreshId
    BY <1>2, <1>5, <2>1
  <2>3. Members(c) \subseteq Members(d) /\ Members(d) \subseteq Members(c) \cup {FreshId}
    BY <2>2 DEF Members
  <2> QED
    BY <1>1, <1>3, <1>5, <2>1, <2>3
<1> QED
  BY <1>1, <1>4, <1>5, CreatedMoves

\* A success stays one.
LEMMA SuccessStays ==
  ASSUME Journalled, Known, [Next]_vars, NEW q \in Ops, Succeeded(q)
  PROVE  Succeeded(q)'
<1>0. TypeInv /\ JournalTrue /\ Exclusion
  BY DEF Known, UnderWay, Changes, Retains
<1> SUFFICES ASSUME op'[q].st # op[q].st
             PROVE  FALSE
  BY DEF Succeeded
<1>1. \/ \E l \in Plans : ApplyBegin(q, l)
      \/ op'[q].st = "interrupted" /\ Crash
      \/ \E r \in Requests : RecoveryConfirm(r) /\ req[r].op = q
      \/ ApplyStep(q)
  BY <1>0, OutcomeBy
<1>2. ~\E l \in Plans : ApplyBegin(q, l)
  BY DEF ApplyBegin, Succeeded
<1>3. ~Crash
  BY <1>0, RestartMarks DEF Crash, Succeeded
<1>4. ASSUME NEW r \in Requests, RecoveryConfirm(r), req[r].op = q
      PROVE  FALSE
  BY <1>0, <1>4 DEF RecoveryConfirm, Exclusion, ClaimsStuck, NeedsRecovery, Succeeded
<1>5. ~ApplyStep(q)
  BY <1>0, ApplyRuns DEF JournalTrue, Succeeded
<1> QED
  BY <1>1, <1>2, <1>3, <1>4, <1>5

\* What becomes loose is new; what is no longer so has been committed to.
LEMMA LooseMoves ==
  ASSUME Journalled, Known, [Next]_vars, NEW i \in Ids
  PROVE  /\ Loose(i)' => Loose(i) \/ ~Used(i)
         /\ Loose(i) => Loose(i)' \/ \E o \in Ops : Commit(o) /\ i \in Members(flow[o].created)
         /\ Loose(i)' => Live # {}
<1>0. TypeInv /\ JournalTrue /\ Exclusion
  BY DEF Known, UnderWay, Changes, Retains
<1>1. ASSUME NEW o \in Live', ~Succeeded(o)', i \in Members(op'[o].created)
      PROVE  o \in Live /\ (Loose(i) \/ ~Used(i))
  <2>0. o \in Ops
    BY DEF Live
  <2>1. o \in Live
    <3>1. SUFFICES ASSUME o \notin Live
                   PROVE  FALSE
      OBVIOUS
    <3>2. PICK l \in Plans : ApplyBegin(o, l)
      BY <1>0, <2>0, <3>1, BegunHolds
    <3>3. op'[o].created = <<>>
      BY <1>0, <2>0, <3>2, ApplyBegins DEF Begun
    <3> QED
      BY <1>1, <3>3 DEF Members
  <2>2. ~Succeeded(o)
    BY <1>1, <2>0, SuccessStays
  <2> QED
    BY <1>1, <2>1, <2>2, CreatedGrows DEF Loose
<1>2. ASSUME NEW o \in Live, ~Succeeded(o), i \in Members(op[o].created)
      PROVE  Loose(i)' \/ (Commit(o) /\ i \in Members(flow[o].created))
  <2>0. o \in Ops /\ TypeInv
    BY <1>0 DEF Live
  <2>1. o \in Live' /\ i \in Members(op'[o].created)
    BY <1>0, <1>2, CreatedGrows, OpsFixed
  <2>2. CASE ~Succeeded(o)'
    BY <2>1, <2>2 DEF Loose
  <2>3. CASE Succeeded(o)'
    <3>1. op'[o].st = "succeeded" /\ op[o].st # "succeeded"
      BY <1>2, <2>3 DEF Succeeded
    <3>2. ApplyStep(o)
      BY <1>0, <2>0, <3>1, OutcomeBy
    <3>3. NothingToChange(o) \/ Commit(o)
      BY <1>0, <2>0, <3>1, <3>2, EndsBy
    <3>4. flow[o].pc # "idle" /\ flow[o].created = op[o].created
      BY <1>0, <2>0, <3>2, ApplyRuns DEF JournalTrue
    <3>5. NothingToChange(o) => Members(flow[o].created) = {}
      <4>1. SUFFICES ASSUME flow[o].pc = "validate"
                     PROVE  Members(flow[o].created) = {}
        BY DEF NothingToChange
      <4>2. Len(flow[o].created) = 0 /\ flow[o].created \in Seq(Ids)
        BY <1>0, <2>0, <4>1, Flowing DEF Position
      <4> QED
        BY <4>2 DEF Members
    <3> QED
      BY <1>2, <3>3, <3>4, <3>5
  <2> QED
    BY <2>2, <2>3
<1>3. Loose(i)' => \E o \in Live' : ~Succeeded(o)' /\ i \in Members(op'[o].created)
  BY DEF Loose
<1>4. Loose(i) => \E o \in Live : ~Succeeded(o) /\ i \in Members(op[o].created)
  BY DEF Loose
<1>5. Live \subseteq Ops
  BY DEF Live
<1> QED
  BY <1>1, <1>2, <1>3, <1>4, <1>5

\* No container is created for two operations.
LEMMA StepApart ==
  ASSUME OneProject, Journalled, Known, CreatedApart, [Next]_vars
  PROVE  CreatedApart'
<1>0. TypeInv /\ JournalTrue /\ Exclusion /\ AdoptedFirst
  BY DEF Known, UnderWay, Changes, Retains
<1> SUFFICES ASSUME NEW o \in Live', NEW q \in Live', o # q,
                    NEW i, i \in Members(op'[o].created), i \in Members(op'[q].created)
             PROVE  FALSE
  BY DEF CreatedApart
<1>1. ASSUME NEW w \in Live', i \in Members(op'[w].created)
      PROVE  w \in Live
  <2>1. SUFFICES ASSUME w \notin Live
                 PROVE  FALSE
    OBVIOUS
  <2>2. w \in Ops
    BY DEF Live
  <2>3. PICK l \in Plans : ApplyBegin(w, l)
    BY <1>0, <2>1, <2>2, BegunHolds
  <2>4. op'[w].created = <<>>
    BY <1>0, <2>2, <2>3, ApplyBegins DEF Begun
  <2> QED
    BY <1>1, <2>4 DEF Members
<1>2. o \in Live /\ q \in Live /\ o \in Ops /\ q \in Ops
  BY <1>1 DEF Live
<1>3. ~(Creates(o) /\ Creates(q))
  <2>1. Creates(o) => \A w \in Ops \ {o} : ~Busy(w)
    BY <1>0, <1>2, AloneAtWork DEF Creates, Busy
  <2> QED
    BY <1>2, <2>1 DEF Creates, Busy
<1>4. \/ i \in Members(op[o].created) /\ i \in Members(op[q].created)
      \/ Used(i) /\ ~Used(i)
  BY <1>2, <1>3, CreatedGrows
<1> QED
  BY <1>2, <1>4 DEF CreatedApart

\* How a step changes containers: it makes a call of an apply or of a cleanup,
\* or the owner repairs them.
LEMMA CallsMade ==
  ASSUME Undisturbed, Journalled, Known, [Next]_vars, ctr' # ctr
  PROVE  \/ \E o \in Ops : flow[o].pc # "idle" /\ (ApplyStep(o) \/ Unanswered(o))
         \/ \E o \in Ops : /\ clean[o].pc = "delete"
                           /\ ctr' = RemovedC(Orig(o, StopSlot(clean[o].k)))
         \/ \E o \in Live : OwnerRepairs(o)
<1>0. TypeInv /\ JournalTrue
  BY DEF Known, UnderWay, Changes, Retains
<1>1. ~\E o \in Ops, l \in Plans : ApplyBegin(o, l)
  BY <1>0, ApplyBegins DEF Begun
<1>2. CASE Aside
  <2>1. PICK o \in Ops : OwnerRepairs(o)
    BY <1>2, AsideMoves
  <2>2. o \in Live
    BY <2>1 DEF OwnerRepairs, NeedsRecovery, Live
  <2> QED
    BY <2>1, <2>2
<1>3. CASE Crash
  <2>1. \A q \in Ops : Unanswered(q) => flow[q].pc # "idle"
    BY DEF Unanswered
  <2> QED
    BY <1>3, <2>1 DEF Crash, Stray
<1>4. ASSUME NEW o \in Ops, ApplyStep(o)
      PROVE  flow[o].pc # "idle"
  BY <1>4, ApplyRuns
<1>5. ASSUME NEW o \in Ops, CleanupStep(o)
      PROVE  clean[o].pc = "delete" /\ ctr' = RemovedC(Orig(o, StopSlot(clean[o].k)))
  BY <1>5 DEF CleanupStep, CleanupVet, CleanupCheck, CleanupDelete, CleanupDone,
     ReadFails, Refused
<1>6. ~\E o \in Ops : CleanupBegin(o)
  BY DEF CleanupBegin
<1>7. ~\E r \in Requests : RecoveryConfirm(r)
  BY DEF RecoveryConfirm, ReadFails, Refused
<1> QED
  BY <1>1, <1>2, <1>3, <1>4, <1>5, <1>6, <1>7, NextCases

\* What the owner's repairs do to the originals, and to other containers.
LEMMA RepairsTo ==
  ASSUME TypeInv, Placed, NEW o \in Live, OwnerRepairs(o)
  PROVE  /\ \A k \in Slots :
              /\ ctr'[Orig(o, k)].name = Snap(o)[k].conf.name
              /\ ctr'[Orig(o, k)].st = IF Snap(o)[k].up THEN "running" ELSE "stopped"
              /\ ctr'[Orig(o, k)].cfg = ctr[Orig(o, k)].cfg
              /\ ctr'[Orig(o, k)].ns = ctr[Orig(o, k)].ns
         /\ \A i \in Ids \ Members(Originals(o)) :
              ctr'[i] = ctr[i] \/ ctr'[i].st = "removed"
<1>0. /\ \A i \in Ids : ctr[i] \in Containers
      /\ \A k \in Slots : Orig(o, k) \in Ids
      /\ \A i : i \in Members(Originals(o)) <=> \E k \in Slots : Orig(o, k) = i
  BY OriginalsPlaced DEF TypeInv, TypeOK, Members, Originals
<1>1. \A j, k \in Slots : Orig(o, j) = Orig(o, k) => j = k
  BY OriginalsPlaced
<1>2. ASSUME NEW k \in Slots
      PROVE  ctr'[Orig(o, k)] =
               [ctr[Orig(o, k)] EXCEPT !.name = Snap(o)[k].conf.name,
                  !.st = IF Snap(o)[k].up THEN "running" ELSE "stopped"]
  BY <1>0, <1>1, <1>2 DEF OwnerRepairs
<1>3. ASSUME NEW i \in Ids, \A k \in Slots : Orig(o, k) # i
      PROVE  ctr'[i] = ctr[i] \/ ctr'[i].st = "removed"
  BY <1>0, <1>3 DEF OwnerRepairs, Containers
<1>4. ASSUME NEW k \in Slots
      PROVE  /\ ctr'[Orig(o, k)].name = Snap(o)[k].conf.name
             /\ ctr'[Orig(o, k)].st = IF Snap(o)[k].up THEN "running" ELSE "stopped"
             /\ ctr'[Orig(o, k)].cfg = ctr[Orig(o, k)].cfg
             /\ ctr'[Orig(o, k)].ns = ctr[Orig(o, k)].ns
  <2>1. PICK c : c = ctr[Orig(o, k)] /\ c \in Containers
    BY <1>0, <1>4
  <2>2. PICK n, up : n = Snap(o)[k].conf.name /\ up = Snap(o)[k].up
    OBVIOUS
  <2>3. ctr'[Orig(o, k)] =
          [c EXCEPT !.name = n, !.st = IF up THEN "running" ELSE "stopped"]
    BY <1>2, <1>4, <2>1, <2>2
  <2>4. /\ [c EXCEPT !.name = n, !.st = IF up THEN "running" ELSE "stopped"].name = n
        /\ [c EXCEPT !.name = n, !.st = IF up THEN "running" ELSE "stopped"].st =
             IF up THEN "running" ELSE "stopped"
        /\ [c EXCEPT !.name = n, !.st = IF up THEN "running" ELSE "stopped"].cfg = c.cfg
        /\ [c EXCEPT !.name = n, !.st = IF up THEN "running" ELSE "stopped"].ns = c.ns
    BY <2>1 DEF Containers
  <2> QED
    BY <2>1, <2>2, <2>3, <2>4
<1> QED
  BY <1>0, <1>3, <1>4

\* What a call starts could be started.
LEMMA HandlesStarts ==
  ASSUME TypeInv, NEW T, NEW up \in SUBSET Ids, NEW gone, T \subseteq Ids, gone \subseteq Ids,
         Handles(T, up, gone), NEW i \in Ids, ~Running(i), ctr'[i].st = "running"
  PROVE  CanStart(i) /\ ctr' = Started(i)
<1>0. ctr \in [Ids -> Containers]
  BY OldTypes
<1>1. ASSUME NEW S, ctr' = Stopped(S)
      PROVE  FALSE
  BY <1>0, <1>1 DEF Stopped, Running, Containers
<1>2. ASSUME NEW j \in up, CanStart(j), ctr' = Started(j)
      PROVE  j = i
  BY <1>0, <1>2, DockerMoves DEF Running
<1>3. ASSUME NEW j \in gone, ctr' = RemovedC(j)
      PROVE  FALSE
  BY <1>0, <1>3, DockerMoves DEF Running
<1>4. ASSUME NEW j \in T, NEW n \in Names, ctr' = Renamed(j, n)
      PROVE  FALSE
  BY <1>0, <1>4, DockerMoves DEF Running
<1>5. ctr' # ctr
  BY DEF Running
<1> QED
  BY <1>1, <1>2, <1>3, <1>4, <1>5 DEF Handles

\* The plan of a stored snapshot that shows an application running shows its
\* VPN running, and so do the owner's repairs.
LEMMA RepairsServe ==
  ASSUME Known, PlansServed, NEW o \in Live, OwnerRepairs(o), NEW k \in Slots,
         Snap(o)[k].up
  PROVE  ctr'[Orig(o, Vpn)].st = "running"
<1>0. TypeInv /\ Placed
  BY DEF Known, UnderWay, Changes, Retains
<1>1. op[o].plan \in Plans /\ Plan(o).st # "none"
  BY <1>0, PlanTypes DEF TypeInv, LiveOK
<1>2. Snap(o)[Vpn].up
  BY <1>1 DEF PlansServed, ServedIn, Plan, Snap
<1> QED
  BY <1>0, <1>2, RepairsTo, SlotFacts

\* Whatever runs keeps its network, or is taken away from it by an emergency
\* stop.
LEMMA StepServed ==
  ASSUME Undisturbed, OneProject, Journalled, Known, Held, Served, PlansServed,
         [Next]_vars
  PROVE  Served'
<1>0. /\ TypeInv /\ Exclusion /\ Placed /\ NamesUnique /\ AdoptedFirst /\ JournalTrue
      /\ AllUpheld /\ AllForward /\ AllDiscarded
      /\ ctr \in [Ids -> Containers]
  BY OldTypes DEF Known, UnderWay, Changes, Retains
<1> SUFFICES ASSUME NEW i \in Ids, ctr'[i].st = "running",
                    NEW v \in Ids, v = ctr'[i].ns, ctr'[v].st = "stopped"
             PROVE  Loose(i)'
  BY DEF Served, Running
<1>1. Lasting /\ RemovedStays
  BY <1>0, StepLasting, StepNames
<1>2. Used(i)
  <2>1. CASE Keeps
    BY <2>1 DEF Keeps, Steady, Closed, Used
  <2>2. ASSUME NEW o \in Ops, Creates(o)
        PROVE  Used(i)
    BY <1>0, <2>2, CreatedPlace DEF Used
  <2> QED
    BY <1>0, <2>1, <2>2, StepKeeps
<1>3. /\ v = ctr[i].ns /\ Used(v) /\ ctr[v].name.slot = Vpn
      /\ ctr[v].st \in {"stopped", "running"} /\ ctr[i].st # "removed"
  <2>1. v = ctr[i].ns
    BY <1>1, <1>2 DEF Lasting
  <2>2. Used(v) /\ ctr[v].name.slot = Vpn
    BY <1>0, <1>2, <2>1 DEF Placed, ContainersPlaced
  <2>3. ctr[v].st # "removed" /\ ctr[i].st # "removed"
    BY <1>1 DEF RemovedStays
  <2> QED
    BY <1>0, <2>1, <2>2, <2>3 DEF Used, Containers, States
<1>4. ASSUME NEW o \in Ops, Commit(o), i \in Members(flow[o].created)
      PROVE  FALSE
  <2>1. ctr' = ctr /\ flow[o].pc = "commit" /\ proj' = Rebound(o)
    BY <1>4 DEF Commit
  <2>2. o \in Live /\ flow[o].created \in Stacks /\ Project(o) \in Projects
    BY <1>0, <2>1, CreatedStack, Flowing, PlanTypes
  <2>3. proj'[Project(o)] = flow[o].created
    BY <1>0, <2>1, <2>2, OldTypes DEF Rebound
  <2>4. PICK k \in Slots : flow[o].created[k] = i
    BY <1>4, <2>2 DEF Members, Stacks
  <2>5. \A j \in Slots : /\ Running(flow[o].created[j]) <=> Wanted(o, j)
                         /\ j \in Apps => ctr[flow[o].created[j]].ns = flow[o].created[Vpn]
    BY <1>0, <1>4, <2>3, CommitsWhole
  <2>6. Wanted(o, k) /\ Wanted(o, Vpn)
    BY <2>1, <2>4, <2>5 DEF Running, Wanted
  <2>7. k \in Apps
    <3>1. ctr[i].name.slot # Vpn
      BY <1>0, <1>2, <1>3, DockerAssumption DEF Placed, ContainersPlaced
    <3>2. ctr[i].name.slot = k
      BY <1>0, <2>1, <2>2, <2>4 DEF Placed, ChangesPlaced, Replaces, Shaped, Stacks
    <3> QED
      BY <3>1, <3>2 DEF Apps
  <2>8. v = flow[o].created[Vpn] /\ Running(v)
    BY <1>3, <2>4, <2>5, <2>6, <2>7, SlotFacts
  <2> QED
    BY <2>1, <2>8 DEF Running
<1>5. CASE Running(i) /\ ctr[v].st = "stopped"
  BY <1>3, <1>4, <1>5, LooseMoves DEF Served
<1>6. ASSUME Running(i), ctr[v].st = "running", NEW o \in Ops, flow[o].pc # "idle",
             ApplyStep(o) \/ Unanswered(o)
      PROVE  Loose(i)'
  <2>0. i \in Dependents(v) /\ Running(v)
    BY <1>3, <1>6 DEF Dependents, Exists, Running
  <2>1. flow[o].pc = "giveUp"
    BY <1>0, <1>6, <2>0, StopsClientless
  <2>2. PICK S : S \subseteq Asked(o) /\ ctr' = Stopped(S)
    BY <1>6, <2>1 DEF ApplyStep, Unanswered, ValidationFails, NothingToChange, Prepared,
       StopOriginal, RenameOriginal, CreateReplacement, StartReplacement,
       AwaitReplacement, VerifyNamespace, Commit, CommitFails, BeginRollback,
       DiscardReplacement, RestoreName, RestoreOwnership, RestartOriginal, RolledBack,
       StopEverything, RollbackFailed
  <2>3. v \in Asked(o)
    BY <1>0, <1>6, <2>2 DEF Stopped
  <2>4. o \in Live /\ v \in Members(flow[o].created) /\ flow[o].created \in Seq(Ids)
    <3>1. o \in Live /\ flow[o].created \in Seq(Ids)
      BY <1>0, <1>6, Flowing
    <3>2. \A k \in Apps : Orig(o, k) # v
      BY <1>0, <1>3, <3>1, OriginalsPlaced DEF Apps
    <3> QED
      BY <2>3, <3>1, <3>2 DEF Asked
  <2>5. v = flow[o].created[Vpn] /\ flow[o].created # <<>>
    BY <1>0, <1>3, <1>6, <2>4 DEF Placed, ChangesPlaced, Replaces, Shaped, Members
  <2>6. i \in Members(flow[o].created)
    BY <1>0, <1>6, <2>0, <2>1, <2>5 DEF AllUpheld, Upheld, Clients
  <2>7. Loose(i)
    BY <1>0, <1>6, <2>4, <2>6 DEF JournalTrue, Loose, Succeeded
  <2> QED
    BY <1>4, <2>7, LooseMoves
<1>7. ASSUME Running(i), ctr[v].st = "running", NEW o \in Live, OwnerRepairs(o)
      PROVE  FALSE
  <2>1. PICK k \in Slots : Orig(o, k) = v
    BY <1>0, <1>7, RepairsTo, OriginalsPlaced DEF Members, Originals
  <2>2. k = Vpn
    BY <1>0, <1>3, <2>1, OriginalsPlaced
  <2>3. Dependents(Orig(o, Vpn)) \subseteq Members(Originals(o))
    BY <1>7 DEF Held, StuckStands, Standing, OwnerRepairs, NeedsRecovery, Stuck
  <2>4. PICK j \in Slots : Orig(o, j) = i
    BY <1>3, <1>7, <2>1, <2>2, <2>3 DEF Dependents, Exists, Running, Members, Originals
  <2>5. Snap(o)[j].up
    BY <1>0, <1>7, <2>4, RepairsTo
  <2> QED
    BY <1>7, <2>1, <2>2, <2>5, RepairsServe
<1>8. CASE ~Running(i)
  <2>1. ctr' # ctr
    BY <1>8 DEF Running
  <2>2. ASSUME NEW o \in Ops, flow[o].pc # "idle", ApplyStep(o) \/ Unanswered(o)
        PROVE  FALSE
    <3>1. ~Creates(o)
      BY <1>0, <1>2, <1>8, CreatedPlace DEF Running
    <3>2. Serves(o)
      BY <1>0, <2>2, <3>1, ApplyHandles, UnansweredHandles
    <3>3. /\ Touchable(o) \subseteq Ids /\ Startable(o) \in SUBSET Ids
          /\ Members(flow[o].created) \subseteq Ids
      BY <1>0, <2>2, FlowPlaced
    <3>4. CanStart(i) /\ ctr' = Started(i)
      BY <1>0, <1>8, <3>2, <3>3, HandlesStarts DEF Serves
    <3>5. Running(v)
      BY <1>3, <3>4 DEF CanStart
    <3> QED
      BY <1>0, <3>4, <3>5, DockerMoves DEF Running
  <2>3. ASSUME NEW o \in Live, OwnerRepairs(o)
        PROVE  FALSE
    <3>1. PICK k \in Slots : Orig(o, k) = i
      BY <1>0, <1>8, <2>3, RepairsTo DEF Running, Members, Originals
    <3>2. Snap(o)[k].up /\ ctr[i].ns = NsOf(k, Orig(o, Vpn))
      BY <1>0, <2>3, <3>1, RepairsTo, OriginalsPlaced
    <3>3. v = Orig(o, Vpn)
      BY <1>3, <3>2, DockerAssumption DEF NsOf
    <3> QED
      BY <2>3, <3>2, <3>3, RepairsServe
  <2>4. ASSUME NEW o \in Ops, clean[o].pc = "delete",
               ctr' = RemovedC(Orig(o, StopSlot(clean[o].k)))
        PROVE  FALSE
    BY <1>0, <1>8, <2>4, CleanPlaces, DockerMoves DEF Running
  <2> QED
    BY <2>1, <2>2, <2>3, <2>4, CallsMade
<1>9. CASE Running(i) /\ ctr[v].st = "running"
  <2>1. ctr' # ctr
    BY <1>9
  <2>2. ASSUME NEW o \in Ops, clean[o].pc = "delete",
               ctr' = RemovedC(Orig(o, StopSlot(clean[o].k)))
        PROVE  FALSE
    BY <1>0, <1>9, <2>2, CleanPlaces, DockerMoves
  <2> QED
    BY <1>6, <1>7, <1>9, <2>1, <2>2, CallsMade
<1> QED
  BY <1>3, <1>5, <1>8, <1>9

\* What is planned shows no application running without its VPN.
LEMMA StepPlansServed ==
  ASSUME Known, Served, KeptTight, PlansServed, [Next]_vars
  PROVE  PlansServed'
<1>0. TypeInv /\ Exclusion /\ Placed /\ DraftsNew /\ ctr \in [Ids -> Containers]
  BY OldTypes DEF Known, UnderWay, Changes, Retains, Exclusion
<1>1. ASSUME NEW l \in Plans, draft'[l].pc = "store"
      PROVE  ServedIn(draft'[l].snap)
  <2>1. CASE draft'[l] = draft[l]
    BY <1>1, <2>1 DEF PlansServed
  <2>2. ASSUME draft[l].pc = "observe", Intact(draft[l].own),
               draft'[l] = [pc |-> "store", project |-> draft[l].project,
                            snap |-> Observed(draft[l].own)]
        PROVE  ServedIn(draft'[l].snap)
    <3>1. PICK s : s = draft[l].own
      OBVIOUS
    <3>2. s \in Stacks /\ Shaped(s)
      BY <1>0, <1>1, <2>2, <3>1 DEF TypeInv, TypeOK, DraftRec, IdleDraft, Placed, DraftsPlaced
    <3>3. NothingLoose(s) /\ Intact(s)
      BY <2>2, <3>1 DEF KeptTight
    <3>4. ASSUME NEW k \in Slots, Running(s[k])
          PROVE  Running(s[Vpn])
      <4>1. s[k] \in Ids /\ s[Vpn] \in Ids /\ DOMAIN s = Slots /\ s[k] \in Members(s)
        BY <3>2, SlotFacts DEF Stacks, Members
      <4>2. k # Vpn => ctr[s[k]].ns = s[Vpn]
        BY <3>2, <4>1 DEF Shaped, NsOf
      <4>3. ~Loose(s[k]) /\ Exists(s[Vpn])
        BY <3>3, <4>1, SlotFacts DEF NothingLoose, Intact
      <4> QED
        BY <3>4, <4>1, <4>2, <4>3 DEF Served, Exists, Running
    <3>5. \A k \in Slots : Observed(s)[k].up <=> Running(s[k])
      BY DEF Observed, Seen
    <3>6. draft'[l].snap = Observed(s)
      BY <2>2, <3>1
    <3> QED
      BY <3>4, <3>5, <3>6, SlotFacts DEF ServedIn
  <2>3. ASSUME NEW d, d = draft'[l], NEW p, NEW s,
               d = [pc |-> "observe", project |-> p, own |-> s]
        PROVE  FALSE
    <3>1. d.pc = "observe"
      BY <2>3
    <3> QED
      BY <1>1, <2>3, <3>1
  <2>4. DraftMoves(l)
    BY <1>0, StepDrafts
  <2> QED
    BY <1>1, <2>1, <2>2, <2>3, <2>4 DEF DraftMoves
<1>2. ASSUME NEW l \in Plans, plan'[l].st # "none"
      PROVE  ServedIn(plan'[l].snap)
  <2>1. CASE plan[l].st # "none"
    BY <1>0, <2>1, PlansFixed DEF PlanFixed, PlansServed
  <2>2. CASE plan[l].st = "none"
    BY <1>0, <1>2, <2>2, StepPlan DEF PlansServed
  <2> QED
    BY <2>1, <2>2
<1> QED
  BY <1>1, <1>2 DEF PlansServed, ServedIn

\* What is loose keeps out of what projects own, plans and adoptions name: a
\* project goes to nothing loose, unless its operation waits for the owner.
LEMMA StepProjectTight ==
  ASSUME OneProject, Journalled, Known, Known', CreatedApart', KeptTight,
         [Next]_vars, NEW p \in Projects, Unstuck(p)'
  PROVE  (\A i \in Members(proj'[p]) : ~Loose(i)')
<1>0. /\ TypeInv /\ Exclusion /\ Placed /\ DraftsNew /\ JournalTrue /\ AdoptedFirst
      /\ proj \in [Projects -> Stacks \cup {<<>>}]
  BY OldTypes DEF Known, UnderWay, Changes, Retains, Exclusion
<1> SUFFICES ASSUME NEW i, i \in Members(proj'[p]), Loose(i)'
             PROVE  FALSE
  BY DEF NothingLoose
<1>1. ASSUME NEW o \in Live, proj'[p] = Originals(o)
      PROVE  FALSE
  <2>1. i \in Ids /\ Used(i) /\ i \in Members(IdsOf(Snap(o)))
    BY <1>0, <1>1, OriginalsPlaced DEF Originals, IdsOf, Orig, Members
  <2>2. op[o].plan \in Plans /\ Plan(o).st # "none"
    BY <1>0, PlanTypes DEF TypeInv, LiveOK
  <2>3. ~Loose(i)
    BY <2>1, <2>2 DEF KeptTight, NothingLoose, Plan, Snap
  <2> QED
    BY <2>1, <2>3, LooseMoves
<1>2. CASE proj'[p] = proj[p]
  <2>1. i \in Ids /\ Used(i)
    BY <1>0, <1>2 DEF Placed, ProjectsPlaced, Shaped, Members, Stacks
  <2>2. Loose(i)
    BY <2>1, LooseMoves
  <2>3. PICK o \in Live : Project(o) = p /\ op[o].st \in Stuck
    BY <1>2, <2>2 DEF KeptTight, NothingLoose, Unstuck
  <2>4. o \in Ops /\ o \in Live' /\ Project(o)' = p
    BY <1>0, <2>3, ReadsFixed DEF Live
  <2>5. op'[o].st \notin Stuck
    BY <2>4 DEF Unstuck
  <2>6. PICK r \in Requests : RecoveryConfirm(r) /\ req[r].op = o
    <3>1. ~ApplyStep(o) /\ ~\E l \in Plans : ApplyBegin(o, l)
      BY <1>0, <2>3, <2>4, ApplyRuns DEF JournalTrue, ApplyBegin, Stuck
    <3> QED
      BY <1>0, <2>3, <2>4, <2>5, <3>1, OutcomeBy DEF Stuck
  <2>7. proj' = Returned(o)
    BY <2>3, <2>5, <2>6 DEF RecoveryConfirm, Journalled, Fault
  <2>8. proj'[p] = Originals(o)
    BY <1>0, <2>3, <2>7 DEF Returned
  <2> QED
    BY <1>1, <2>3, <2>8
<1>3. ASSUME NEW o \in Live, flow[o].pc = "commit", proj'[p] = flow[o].created,
             proj' # proj
      PROVE  FALSE
  <2>0. o \in Ops /\ Project(o) \in Projects
    BY <1>0, PlanTypes DEF Live
  <2>1. /\ flow[o].pc # "idle" /\ flow[o].created = op[o].created
        /\ op[o].st = "applying"
    BY <1>0, <1>3, <2>0 DEF JournalTrue
  <2>2. o \in Live' /\ Project(o)' = p
    BY <1>0, <2>0, ReadsFixed DEF OneProject
  <2>3. ~Crash
    <3>1. Crash => op'[o].st = "interrupted"
      BY <1>0, <2>0, <2>1, RestartMarks DEF Crash
    <3> QED
      BY <2>2, <3>1 DEF Unstuck, Stuck
  <2>4. CASE ApplyStep(o)
    <3>1. Commit(o)
      BY <1>3, <2>4 DEF ApplyStep, ValidationFails, NothingToChange, Prepared,
         StopOriginal, RenameOriginal, CreateReplacement, StartReplacement,
         AwaitReplacement, VerifyNamespace, CommitFails, BeginRollback,
         DiscardReplacement, RestoreName, RestoreOwnership, RestartOriginal, RolledBack,
         StopEverything, RollbackFailed, Journalled, Fault
    <3>2. op'[o].st = "succeeded" /\ op'[o].created = op[o].created
      <4>1. Conclude(o, [flow[o] EXCEPT !.st = "succeeded"])
        BY <3>1 DEF Commit
      <4>2. Ended(o, "succeeded")
        BY <1>0, <2>0, <2>1, <4>1, Concludes
      <4> QED
        BY <2>1, <4>2 DEF Ended
    <3>3. PICK w \in Live' : ~Succeeded(w)' /\ i \in Members(op'[w].created)
      BY DEF Loose
    <3>4. i \in Members(op'[o].created)
      BY <1>3, <2>1, <3>2
    <3> QED
      BY <2>2, <3>2, <3>3, <3>4 DEF CreatedApart, Succeeded
  <2> QED
    BY <1>0, <1>3, <2>0, <2>1, <2>3, <2>4, OnlyWorker DEF Busy, Bystands, CleanupStep,
       CleanupVet, CleanupCheck, CleanupDelete, CleanupDone, untouched
<1>4. i \in Ids
  BY <1>0 DEF Known, UnderWay, Changes, Retains, TypeInv, TypeOK, Members, Stacks
<1>5. Live # {}
  BY <1>4, LooseMoves
<1> QED
  BY <1>1, <1>2, <1>3, <1>5, ProjectStays

\* Nothing loose is planned for, or adopted.
LEMMA StepKeptTight ==
  ASSUME OneProject, Journalled, Known, Known', CreatedApart', KeptTight, [Next]_vars
  PROVE  KeptTight'
<1>0. /\ TypeInv /\ Exclusion /\ Placed /\ DraftsNew /\ AdoptedFirst
      /\ proj \in [Projects -> Stacks \cup {<<>>}]
  BY OldTypes DEF Known, UnderWay, Changes, Retains, Exclusion
<1>1. ASSUME NEW p \in Projects, adopting'[p].pc # "idle"
      PROVE  (\A i \in Members(adopting'[p].own) : ~Loose(i)')
  <2> SUFFICES ASSUME NEW i, i \in Members(adopting'[p].own), Loose(i)'
               PROVE  FALSE
    BY DEF NothingLoose
  <2>1. i \in Ids
    BY <1>1 DEF Known, UnderWay, Changes, Retains, TypeInv, TypeOK, AdoptRec, IdleAdopt,
       Members, Stacks
  <2>2. PICK w \in Live : TRUE
    BY <2>1, LooseMoves
  <2>3. proj[p] # <<>> /\ adopting[p].pc = "idle"
    BY <1>0, <2>2, LiveAdopted DEF OneProject
  <2> QED
    BY <1>0, <1>1, <2>3, StepAdopts DEF AdoptMoves
<1>2. \A s \in Stacks : Shaped(s) /\ NothingLoose(s) => NothingLoose(s)'
  <2> SUFFICES ASSUME NEW s \in Stacks, Shaped(s), NothingLoose(s),
                      NEW i \in Members(s), Loose(i)'
               PROVE  FALSE
    BY DEF NothingLoose
  <2>1. i \in Ids /\ Used(i) /\ ~Loose(i)
    BY DEF Shaped, Members, Stacks, NothingLoose
  <2> QED
    BY <2>1, LooseMoves
<1>3. ASSUME NEW p \in Projects, proj[p] # <<>>, Free(p)
      PROVE  proj[p] \in Stacks /\ Shaped(proj[p]) /\ NothingLoose(proj[p])
  <2>1. Unstuck(p)
    BY <1>0, <1>3, FreeProject DEF Unstuck, Stuck, Unfinished
  <2> QED
    BY <1>0, <1>3, <2>1 DEF KeptTight, Placed, ProjectsPlaced
<1>4. ASSUME NEW l \in Plans, draft[l].pc = "observe"
      PROVE  /\ draft[l].own \in Stacks /\ Shaped(draft[l].own)
             /\ NothingLoose(draft[l].own)
  BY <1>0, <1>4 DEF KeptTight, Placed, DraftsPlaced, TypeInv, TypeOK, DraftRec, IdleDraft
<1>5. ASSUME NEW l \in Plans, draft[l].pc = "store"
      PROVE  /\ IdsOf(draft[l].snap) \in Stacks /\ Shaped(IdsOf(draft[l].snap))
             /\ NothingLoose(IdsOf(draft[l].snap))
  <2>1. draft[l].snap \in [Slots -> Snapshots]
    BY <1>0, <1>5 DEF TypeInv, TypeOK, DraftRec, IdleDraft
  <2> QED
    BY <1>0, <1>5, <2>1 DEF KeptTight, Placed, DraftsPlaced, Recognised, IdsOf, Stacks,
       Snapshots, Confs
<1>6. ASSUME NEW l \in Plans, plan[l].st # "none"
      PROVE  (\A i \in Members(IdsOf(plan'[l].snap)) : ~Loose(i)')
  <2>1. PICK s : s = IdsOf(plan[l].snap)
    OBVIOUS
  <2>2. plan[l].snap \in [Slots -> Snapshots]
    BY <1>0, <1>6 DEF TypeInv, TypeOK, PlanRec, NoPlanRec
  <2>3. s \in Stacks /\ Shaped(s) /\ NothingLoose(s)
    BY <1>0, <1>6, <2>1, <2>2 DEF KeptTight, Placed, PlansPlaced, Recognised, IdsOf, Stacks,
       Snapshots, Confs
  <2>4. IdsOf(plan'[l].snap) = s
    BY <1>0, <1>6, <2>1, PlansFixed DEF PlanFixed, IdsOf
  <2> QED
    BY <1>2, <2>3, <2>4 DEF NothingLoose
<1>7. ASSUME NEW l \in Plans, plan[l].st = "none", plan'[l].st # "none"
      PROVE  (\A i \in Members(IdsOf(plan'[l].snap)) : ~Loose(i)')
  <2>1. draft[l].pc = "store" /\ plan'[l].snap = draft[l].snap
    BY <1>0, <1>7, StepPlan
  <2>2. IdsOf(plan'[l].snap) = IdsOf(draft[l].snap)
    BY <2>1 DEF IdsOf
  <2>3. PICK s : s = IdsOf(draft[l].snap)
    OBVIOUS
  <2> QED
    BY <1>2, <1>5, <2>1, <2>2, <2>3 DEF NothingLoose
<1>8. ASSUME NEW l \in Plans
      PROVE  /\ draft'[l].pc = "observe" => (\A i \in Members(draft'[l].own) : ~Loose(i)')
             /\ draft'[l].pc = "store" => (\A i \in Members(IdsOf(draft'[l].snap)) : ~Loose(i)')
  <2>1. CASE draft'[l] = draft[l]
    <3>1. PICK s : s = draft[l].own
      OBVIOUS
    <3>2. PICK t : t = IdsOf(draft[l].snap)
      OBVIOUS
    <3>3. draft'[l].own = s /\ IdsOf(draft'[l].snap) = t
      BY <2>1, <3>1, <3>2 DEF IdsOf
    <3>4. draft[l].pc = "observe" => NothingLoose(s)'
      BY <1>2, <1>4, <1>8, <3>1
    <3>5. draft[l].pc = "store" => NothingLoose(t)'
      BY <1>2, <1>5, <1>8, <3>2
    <3> QED
      BY <2>1, <3>3, <3>4, <3>5 DEF NothingLoose
  <2>2. ASSUME NEW d, d = draft'[l], NEW p \in Projects, proj[p] # <<>>, Free(p),
               d = [pc |-> "observe", project |-> p, own |-> proj[p]]
        PROVE  /\ draft'[l].pc = "observe" => (\A i \in Members(draft'[l].own) : ~Loose(i)')
               /\ draft'[l].pc = "store" => (\A i \in Members(IdsOf(draft'[l].snap)) : ~Loose(i)')
    <3>1. PICK s : s = proj[p]
      OBVIOUS
    <3>2. d.pc = "observe" /\ d.own = s
      BY <2>2, <3>1
    <3>3. NothingLoose(s)'
      BY <1>2, <1>3, <2>2, <3>1
    <3> QED
      BY <2>2, <3>2, <3>3 DEF NothingLoose
  <2>3. ASSUME NEW d, d = draft'[l], draft[l].pc = "observe",
               d = [pc |-> "store", project |-> draft[l].project,
                    snap |-> Observed(draft[l].own)]
        PROVE  /\ draft'[l].pc = "observe" => (\A i \in Members(draft'[l].own) : ~Loose(i)')
               /\ draft'[l].pc = "store" => (\A i \in Members(IdsOf(draft'[l].snap)) : ~Loose(i)')
    <3>1. PICK s : s = draft[l].own
      OBVIOUS
    <3>2. d.pc = "store" /\ d.snap = Observed(s)
      BY <2>3, <3>1
    <3>3. s \in Stacks /\ Shaped(s) /\ NothingLoose(s)'
      BY <1>2, <1>4, <1>8, <2>3, <3>1
    <3>4. IdsOf(Observed(s)) = s
      BY <1>0, <3>3, ObservedPlaced
    <3>5. IdsOf(draft'[l].snap) = s
      BY <2>3, <3>2, <3>4
    <3> QED
      BY <2>3, <3>2, <3>3, <3>5 DEF NothingLoose
  <2>4. draft'[l].pc = "idle" => /\ draft'[l].pc # "observe" /\ draft'[l].pc # "store"
    OBVIOUS
  <2>5. DraftMoves(l)
    BY <1>0, <1>8, StepDrafts
  <2> QED
    BY <2>1, <2>2, <2>3, <2>4, <2>5 DEF DraftMoves
<1>9. \A p \in Projects : Unstuck(p)' => (\A i \in Members(proj'[p]) : ~Loose(i)')
  BY StepProjectTight
<1> QED
  BY <1>1, <1>6, <1>7, <1>8, <1>9 DEF KeptTight, NothingLoose

\* Every step keeps applications from running without their VPN.
LEMMA StepStranded ==
  ASSUME Undisturbed, OneProject, Journalled, Known, Known', Held, NoneStranded,
         [Next]_vars
  PROVE  NoneStranded'
<1>1. CreatedApart'
  BY StepApart DEF NoneStranded
<1> QED
  BY <1>1, StepServed, StepKeptTight, StepPlansServed DEF NoneStranded

\* At first an application runs only with its VPN.
LEMMA InitStranded == Init => NoneStranded
<1> SUFFICES ASSUME Init
             PROVE  NoneStranded
  OBVIOUS
<1>1. Live = {}
  BY DEF Init, Live, NoOp
<1>2. CreatedApart /\ KeptTight
  BY <1>1 DEF CreatedApart, KeptTight, NothingLoose, Loose
<1>3. PlansServed
  BY DEF Init, PlansServed, NoPlanRec, IdleDraft
<1>4. PICK s : s = CHOOSE t \in Stacks : Injective(t)
  OBVIOUS
<1>5. s \in Stacks /\ Injective(s)
  BY <1>4, HostAssumption
<1>6. PICK up \in {{}, {Vpn}, Slots} : ctr = InitContainer(s, up)
  BY <1>4 DEF Init
<1>7. ASSUME NEW i \in Ids, Running(i), ctr[i].ns \in Ids
      PROVE  ctr[ctr[i].ns].st = "running"
  <2>1. PICK k \in Slots : s[k] = i
    BY <1>6, <1>7 DEF InitContainer, Running
  <2>2. \A j \in Slots : s[j] = i => j = k
    BY <1>5, <2>1 DEF Injective
  <2>3. k \in up /\ ctr[i].ns = IF k = Vpn THEN NoId ELSE s[Vpn]
    BY <1>6, <1>7, <2>1, <2>2 DEF InitContainer, Running
  <2>4. up = Slots /\ ctr[i].ns = s[Vpn]
    BY <1>7, <2>3, DockerAssumption
  <2>5. s[Vpn] \in Ids /\ Vpn \in Slots /\ \A j \in Slots : s[j] = s[Vpn] => j = Vpn
    BY <1>5, SlotFacts DEF Stacks, Injective
  <2> QED
    BY <1>6, <2>4, <2>5 DEF InitContainer
<1>8. Served
  BY <1>7 DEF Served
<1> QED
  BY <1>2, <1>3, <1>8 DEF NoneStranded

-----------------------------------------------------------------------------
(* A change that is rolled back leaves the originals as they were.         *)

\* No answer of Docker is lost.
Answered == "lost" \notin Faults
\* The originals that have their names when an apply is at f,
NamedBy(o, f) ==
  {k \in Slots : \/ Orig(o, k) \notin f.renamed
                 \/ f.pc = "rename back" /\ k < f.k
                 \/ f.pc \in Restores \ {"rename back"}}
NamedBack(o, f) ==
  \A k \in NamedBy(o, f) : ctr[Orig(o, k)].name = Snap(o)[k].conf.name
\* and those that have been started again.
RestartedBy(f) ==
  {k \in Slots : \/ f.pc = "restart" /\ k < f.k
                 \/ f.pc = "reverify" /\ k <= f.k
                 \/ f.pc = "restored"}
UpBack(o, f) == \A k \in RestartedBy(f) : Wanted(o, k) => Running(Orig(o, k))
BaseBack(o, f) ==
  f.pc \in {"restart", "reverify", "restored"} => base[Project(o)] = Plan(o).base
BackSoFar(o, f) == NamedBack(o, f) /\ UpBack(o, f) /\ BaseBack(o, f)
AllBack == \A o \in Ops : flow[o].pc \notin Entries => BackSoFar(o, flow[o])
\* What the owner is about to confirm is still as it was inspected.
ConfirmsRestored ==
  \A r \in Requests : req[r].pc = "confirm" => Restored(req[r].op)

\* Where a step of an apply that fails leads to.
Failed == {"caught", "giveUp", "failed"}

\* It has changed no container, or has stopped some.
LEMMA FailsBy ==
  ASSUME TypeInv, Journalled, Answered, NEW o \in Ops, ApplyStep(o),
         flow'[o].pc \in Failed
  PROVE  /\ flow[o].pc # "validate" /\ Lists(flow[o], flow'[o])
         /\ ctr' = ctr \/ \E S : ctr' = Stopped(S)
<1>0. flow[o].pc # "idle" /\ flow[o] \in FlowRec /\ flow[o].pc \in Points
  BY ApplyRuns, Flowing
<1>1. \A at : Goto(o, flow[o], at) => Lists(flow[o], flow'[o]) /\ flow'[o].pc = at[1]
  BY <1>0, GotoFields DEF Lists
<1>2. ~Fault("save") /\ ~Fault("lost")
  BY DEF Fault, Journalled, Answered
<1>3. ~End(o)
  <2>1. End(o) => flow'[o] = IdleFlow
    BY DEF End, TypeInv, TypeOK
  <2>2. IdleFlow.pc \notin Failed
    BY DEF IdleFlow, Failed
  <2> QED
    BY <2>1, <2>2
<1>4. /\ ~ValidationFails(o) /\ ~NothingToChange(o) /\ ~Commit(o) /\ ~RollbackFailed(o)
      /\ \A st : ~Conclude(o, [flow[o] EXCEPT !.st = st])
  BY <1>3 DEF ValidationFails, NothingToChange, Commit, RollbackFailed, Conclude
<1>5. ~RolledBack(o) /\ ~Prepared(o)
  BY <1>1, <1>2, <1>4 DEF RolledBack, Prepared, Failed
<1>6. ASSUME RenameOriginal(o) \/ CreateReplacement(o)
      PROVE  Goto(o, flow[o], Caught) /\ ctr' = ctr /\ flow[o].pc # "validate"
  <2>1. ASSUME NEW f \in FlowRec, NEW at, Recorded(o, f, at), at[1] \notin Failed
        PROVE  FALSE
    BY <1>0, <1>2, <2>1, GotoFields DEF Recorded
  <2>2. CASE RenameOriginal(o)
    <3>1. PICK f : f = [flow[o] EXCEPT !.renamed = @ \cup {Orig(o, flow[o].k)}]
      OBVIOUS
    <3>2. flow[o].pc = "rename" /\ o \in Live /\ flow[o].k \in Slots
      BY <2>2, Flowing DEF RenameOriginal, Position, Loops
    <3>3. Orig(o, flow[o].k) \in Ids
      BY <3>2, OriginalTypes
    <3>4. f \in FlowRec
      BY <1>0, <3>1, <3>3 DEF FlowRec
    <3>5. PICK at : at = Then("rename", flow[o].k, <<"create", Vpn>>)
      OBVIOUS
    <3>6. at[1] \notin Failed
      BY <3>5 DEF Then, Failed
    <3>7. ~Recorded(o, f, at)
      BY <2>1, <3>4, <3>6
    <3> QED
      BY <1>2, <2>2, <3>1, <3>5, <3>7 DEF RenameOriginal, Refused
  <2>3. CASE CreateReplacement(o)
    <3>1. PICK f : f = [flow[o] EXCEPT !.created = Append(@, FreshId)]
      OBVIOUS
    <3>2. flow[o].pc = "create" /\ flow[o].k \in Slots
      BY <2>3, Flowing DEF CreateReplacement, Position, Loops
    <3>3. CanCreate(Snap(o)[flow[o].k].conf.name) => f \in FlowRec
      <4>1. SUFFICES ASSUME CanCreate(Snap(o)[flow[o].k].conf.name)
                     PROVE  f \in FlowRec
        OBVIOUS
      <4>2. FreshId \in Ids
        BY <3>2, <4>1, ReplacementTypes
      <4>3. PICK r : r = flow[o]
        OBVIOUS
      <4>4. Append(r.created, FreshId) \in Seq(Ids)
        BY <1>0, <4>2, <4>3 DEF FlowRec
      <4> QED
        BY <1>0, <3>1, <4>3, <4>4 DEF FlowRec
    <3>4. PICK at : at = IF Wanted(o, flow[o].k) THEN <<"start", flow[o].k>>
                         ELSE AfterStart(flow[o].k)
      OBVIOUS
    <3>5. at[1] \notin Failed
      BY <3>4 DEF AfterStart, AfterSlot, Then, Failed
    <3> QED
      BY <1>2, <2>1, <2>3, <3>1, <3>2, <3>3, <3>4, <3>5 DEF CreateReplacement, Refused
  <2> QED
    BY <1>6, <2>2, <2>3
<1>7. ASSUME StopOriginal(o) \/ StartReplacement(o) \/ AwaitReplacement(o)
               \/ VerifyNamespace(o)
      PROVE  Goto(o, flow[o], Caught) /\ ctr' = ctr /\ flow[o].pc # "validate"
  BY <1>1, <1>2, <1>7 DEF StopOriginal, StartReplacement, AwaitReplacement,
     VerifyNamespace, Await, Refused, Then, AfterSlot, AfterStart, Failed
<1>8. ASSUME CommitFails(o) \/ BeginRollback(o)
      PROVE  (\E at : Goto(o, flow[o], at)) /\ ctr' = ctr /\ flow[o].pc # "validate"
  BY <1>2, <1>8 DEF CommitFails, BeginRollback, ReadFails, Refused, still
<1>9. ASSUME DiscardReplacement(o) \/ RestoreName(o) \/ RestartOriginal(o)
      PROVE  Goto(o, flow[o], GiveUp) /\ ctr' = ctr /\ flow[o].pc # "validate"
  <2>0. \A can, after, at : at[1] \notin Failed /\ Await(o, can, after, at, GiveUp) =>
          Goto(o, flow[o], GiveUp) /\ ctr' = ctr
    BY <1>1, <1>2 DEF Await, Refused
  <2>1. CASE DiscardReplacement(o)
    <3>1. PICK k : k = flow[o].k
      OBVIOUS
    <3>2. PICK at : at = IF k > 1 THEN <<"discard", k - 1>> ELSE <<"rename back", 1>>
      OBVIOUS
    <3>3. at[1] \notin Failed /\ <<"remove", k>>[1] \notin Failed
      BY <3>2 DEF Failed
    <3> QED
      BY <2>0, <2>1, <3>1, <3>2, <3>3 DEF DiscardReplacement
  <2>2. CASE RestoreName(o)
    <3>1. PICK at : at = Then("rename back", flow[o].k, <<"disown", 0>>)
      OBVIOUS
    <3>2. at[1] \notin Failed
      BY <3>1 DEF Then, Failed
    <3> QED
      BY <1>1, <2>0, <2>2, <3>1, <3>2 DEF RestoreName
  <2>3. CASE RestartOriginal(o)
    BY <1>1, <1>2, <2>3 DEF RestartOriginal, Await, Refused, Then, Failed
  <2> QED
    BY <1>9, <2>1, <2>2, <2>3
<1>10. ASSUME RestoreOwnership(o)
       PROVE  (\E at : Goto(o, flow[o], at)) /\ ctr' = ctr /\ flow[o].pc # "validate"
  BY <1>2, <1>10 DEF RestoreOwnership
<1>11. ASSUME StopEverything(o)
       PROVE  /\ \E at : Goto(o, flow[o], at)
              /\ \E S : ctr' = Stopped(S)
              /\ flow[o].pc # "validate"
  BY <1>11 DEF StopEverything
<1> QED
  BY <1>1, <1>4, <1>5, <1>6, <1>7, <1>8, <1>9, <1>10, <1>11 DEF ApplyStep

\* A step forward takes the name of an original only when it renames it.
LEMMA AdvancesBack ==
  ASSUME TypeInv, Placed, FlowsBare, NEW o \in Ops, flow[o].pc # "idle",
         NEW f, f = flow[o], NEW g, g.pc \in Advances, Advanced(o, f, g),
         f.pc \notin Entries => NamedBack(o, f)
  PROVE  \A k \in NamedBy(o, g) : ctr'[Orig(o, k)].name = Snap(o)[k].conf.name
<1>0. /\ o \in Live /\ f.pc # "validate" => f.k \in Slots \/ f.pc \notin Loops
      /\ \A k \in Slots : Orig(o, k) \in Ids /\ Used(Orig(o, k))
      /\ \A j, k \in Slots : Orig(o, j) = Orig(o, k) => j = k
  BY Flowing, OriginalsPlaced DEF Position
<1> SUFFICES ASSUME NEW k \in Slots, Orig(o, k) \notin g.renamed
             PROVE  ctr'[Orig(o, k)].name = Snap(o)[k].conf.name
  BY DEF NamedBy, Restores, Advances
<1>1. CASE f.pc = "validate"
  BY <1>1, ValidSnap DEF Advanced
<1>2. CASE f.pc # "validate"
  <2>1. Orig(o, k) \notin f.renamed
    BY DEF Advanced, Lists
  <2>2. ctr[Orig(o, k)].name = Snap(o)[k].conf.name
    BY <1>2, <2>1 DEF NamedBack, NamedBy, Entries
  <2>3. ASSUME f.pc = "rename"
        PROVE  ctr'[Orig(o, k)].name = ctr[Orig(o, k)].name
    <3>1. f.k \in Slots /\ o \in Live
      BY <2>3, Flowing DEF Position, Loops
    <3>2. ctr' = Renamed(Orig(o, f.k), Backup(o, f.k)) /\ Backup(o, f.k) \in Names
      BY <2>3, <3>1, OriginalTypes DEF Advanced
    <3>3. Orig(o, k) # Orig(o, f.k)
      BY <2>3 DEF Advanced
    <3> QED
      BY <1>0, <3>1, <3>2, <3>3, DockerMoves
  <2>4. ASSUME Creates(o)
        PROVE  ctr'[Orig(o, k)].name = ctr[Orig(o, k)].name
    BY <1>0, <2>4, CreatedPlace
  <2>5. ASSUME f.pc = "stop"
        PROVE  ctr'[Orig(o, k)].name = ctr[Orig(o, k)].name
    <3>1. o \in Live /\ StopSlot(f.k) \in Slots
      BY <2>5, Flowing, SlotMoves DEF Position, Loops
    <3>2. ctr' = ctr \/ ctr' = Stopped({Orig(o, StopSlot(f.k))})
      BY <2>5 DEF Advanced
    <3> QED
      BY <1>0, <3>1, <3>2, DockerMoves
  <2>6. ASSUME f.pc = "start"
        PROVE  ctr'[Orig(o, k)].name = ctr[Orig(o, k)].name
    BY <1>0, <2>6, DockerMoves, AtReplacement DEF Advanced
  <2>7. ctr'[Orig(o, k)].name = ctr[Orig(o, k)].name
    BY <1>2, <2>3, <2>4, <2>5, <2>6 DEF Advanced
  <2> QED
    BY <2>2, <2>7
<1> QED
  BY <1>1, <1>2

\* A step back gives an original its name, or starts it, and keeps the others.
LEMMA RetreatsBack ==
  ASSUME TypeInv, Placed, NEW o \in Ops, flow[o].pc # "idle",
         NEW f, f = flow[o], NEW g, g.pc \in Retreats, Retreated(o, f, g),
         f.pc \notin Entries, BackSoFar(o, f)
  PROVE  /\ \A k \in NamedBy(o, g) : ctr'[Orig(o, k)].name = Snap(o)[k].conf.name
         /\ \A k \in RestartedBy(g) : Wanted(o, k) => ctr'[Orig(o, k)].st = "running"
         /\ g.pc \in {"restart", "reverify", "restored"} =>
              base'[Project(o)] = Plan(o).base
<1>0. /\ o \in Live
      /\ f.pc \in Loops => f.k \in Slots
      /\ f.pc \in Discards => f.k \in Nat /\ f.created[f.k] \in Ids
      /\ \A k \in Slots : Orig(o, k) \in Ids /\ Used(Orig(o, k))
      /\ \A j, k \in Slots : Orig(o, j) = Orig(o, k) => j = k
      /\ \A k \in Slots : Snap(o)[k].conf.name \in Names
      /\ Project(o) \in Projects
  <2>1. o \in Live /\ Position(f) /\ f.created \in Seq(Ids)
    BY Flowing
  <2>2. \A k \in 1..Len(f.created) : f.created[k] \in Ids
    BY <2>1
  <2> QED
    BY <2>1, <2>2, OriginalsPlaced, PlanTypes DEF Position
<1>1. /\ g.renamed = f.renamed
      /\ NamedBack(o, f) /\ UpBack(o, f) /\ BaseBack(o, f)
  BY DEF Retreated, Lists, BackSoFar
<1>2. Size \in Nat /\ \A k \in Slots : k \in Nat /\ 1 <= k /\ k <= Size
  BY SlotFacts
<1>3. CASE f.pc \in {"caught", "discard", "remove"}
  <2>1. /\ g.pc \in Discards \/ (g.pc = "rename back" /\ g.k = 1)
    BY <1>3 DEF Retreated, At, Discards
  <2>2. RestartedBy(g) = {}
    BY <2>1 DEF RestartedBy, Discards
  <2>4. ASSUME NEW k \in NamedBy(o, g)
        PROVE  k \in NamedBy(o, f)
    <3>1. k \in Slots
      BY <2>4 DEF NamedBy
    <3>2. ~(k < 1)
      BY <1>2, <3>1
    <3> QED
      BY <1>1, <2>1, <2>4, <3>1, <3>2 DEF NamedBy, Restores, Discards
  <2>3. \A k \in Slots : ctr'[Orig(o, k)].name = ctr[Orig(o, k)].name
    <3>1. \/ ctr' = ctr
          \/ /\ f.created[f.k] \in Ids
             /\ ctr' = Stopped({f.created[f.k]}) \/ ctr' = RemovedC(f.created[f.k])
      BY <1>0, <1>3 DEF Retreated, Discards
    <3> QED
      BY <1>0, <3>1, DockerMoves
  <2> QED
    BY <1>1, <2>1, <2>2, <2>3, <2>4 DEF NamedBack, NamedBy, Discards
<1>4. CASE f.pc = "rename back"
  <2>1. /\ f.k \in Slots
        /\ \/ g.pc = "rename back" /\ g.k = f.k + 1
           \/ g.pc = "disown" /\ f.k = Size
    <3>1. f.k \in Slots /\ At(g) = Then("rename back", f.k, <<"disown", 0>>)
      BY <1>0, <1>4 DEF Retreated, Loops
    <3>2. f.k < Size \/ f.k = Size
      BY <3>1, SlotMoves
    <3> QED
      BY <1>2, <3>1, <3>2 DEF At, Then
  <2>2. RestartedBy(g) = {}
    BY <2>1 DEF RestartedBy
  <2>6. ASSUME NEW k \in NamedBy(o, g), k # f.k
        PROVE  k \in NamedBy(o, f)
    <3>1. /\ k \in Slots
          /\ \/ Orig(o, k) \notin f.renamed
             \/ g.pc = "rename back" /\ k < g.k
             \/ g.pc \in Restores \ {"rename back"}
      BY <1>1, <2>6 DEF NamedBy
    <3>2. k \in Nat /\ f.k \in Nat /\ k <= Size
      BY <1>2, <2>1, <3>1
    <3>3. Orig(o, k) \notin f.renamed \/ k < f.k
      <4>1. CASE g.pc = "rename back" /\ g.k = f.k + 1 /\ k < g.k
        <5>1. PICK n : n = f.k
          OBVIOUS
        <5>2. k \in Nat /\ n \in Nat /\ k < n + 1 /\ k # n
          BY <2>6, <3>2, <4>1, <5>1
        <5>3. k < n
          BY <5>2
        <5> QED
          BY <5>1, <5>3
      <4>2. CASE g.pc = "disown" /\ f.k = Size
        BY <2>6, <3>2, <4>2
      <4> QED
        BY <2>1, <3>1, <4>1, <4>2
    <3> QED
      BY <1>4, <3>1, <3>3 DEF NamedBy
  <2>3. ctr' = IF Orig(o, f.k) \in f.renamed
               THEN Renamed(Orig(o, f.k), Snap(o)[f.k].conf.name) ELSE ctr
    BY <1>4 DEF Retreated
  <2>7. ASSUME Orig(o, f.k) \in f.renamed, NEW k \in Slots
        PROVE  ctr'[Orig(o, k)].name = IF k = f.k THEN Snap(o)[f.k].conf.name
                                       ELSE ctr[Orig(o, k)].name
    <3>1. PICK n : n = Snap(o)[f.k].conf.name
      OBVIOUS
    <3>2. n \in Names /\ ctr' = Renamed(Orig(o, f.k), n)
      BY <1>0, <2>1, <2>3, <2>7, <3>1
    <3>3. Orig(o, k) \in Ids /\ Orig(o, f.k) \in Ids
      BY <1>0, <2>1
    <3>4. ctr'[Orig(o, k)].name = IF Orig(o, k) = Orig(o, f.k) THEN n
                                  ELSE ctr[Orig(o, k)].name
      BY <3>2, <3>3, DockerMoves
    <3> QED
      BY <1>0, <2>1, <3>1, <3>4
  <2>4. \A k \in Slots : k # f.k => ctr'[Orig(o, k)].name = ctr[Orig(o, k)].name
    BY <2>3, <2>7
  <2>5. ctr'[Orig(o, f.k)].name = Snap(o)[f.k].conf.name
    <3>1. CASE Orig(o, f.k) \in f.renamed
      BY <2>1, <2>7, <3>1
    <3>2. CASE Orig(o, f.k) \notin f.renamed
      BY <1>1, <2>1, <2>3, <3>2 DEF NamedBack, NamedBy
    <3> QED
      BY <3>1, <3>2
  <2> QED
    BY <1>1, <2>1, <2>2, <2>4, <2>5, <2>6 DEF NamedBack, NamedBy
<1>5. CASE f.pc \in {"disown", "restart", "reverify"}
  <2>1. NamedBy(o, f) = Slots
    BY <1>5 DEF NamedBy, Restores
  <2>0. \/ ctr' = ctr /\ ~(f.pc = "restart" /\ Wanted(o, f.k))
        \/ /\ f.pc = "restart" /\ Wanted(o, f.k) /\ f.k \in Slots
           /\ ctr' = Started(Orig(o, f.k)) /\ g.pc = "reverify" /\ g.k = f.k
    BY <1>0, <1>5 DEF Retreated, Loops, At
  <2>2. \A k \in Slots : ctr'[Orig(o, k)].name = ctr[Orig(o, k)].name
    BY <1>0, <2>0, DockerMoves
  <2>3. base'[Project(o)] = Plan(o).base
    BY <1>0, <1>1, <1>5, OldTypes DEF Retreated, Former, BaseBack
  <2>4. \A k \in Slots : Running(Orig(o, k)) => ctr'[Orig(o, k)].st = "running"
    BY <1>0, <2>0, DockerMoves DEF Running
  <2>5. ASSUME NEW k \in RestartedBy(g), Wanted(o, k)
        PROVE  ctr'[Orig(o, k)].st = "running"
    <3>1. CASE f.pc = "disown"
      <4>1. g.pc = "restart" /\ g.k = 1
        BY <3>1 DEF Retreated, At
      <4>2. k \in Slots /\ ~(k < 1)
        BY <1>2, <2>5 DEF RestartedBy
      <4> QED
        BY <2>5, <4>1, <4>2 DEF RestartedBy
    <3>2. CASE f.pc = "restart" /\ Wanted(o, f.k)
      <4>1. k \in RestartedBy(f) \/ k = f.k
        <5>1. k \in Slots /\ k <= f.k /\ k \in Nat /\ f.k \in Nat
          BY <1>2, <2>0, <2>5, <3>2 DEF RestartedBy
        <5> QED
          BY <3>2, <5>1 DEF RestartedBy
      <4>2. ctr'[Orig(o, f.k)].st = "running"
        BY <1>0, <2>0, <3>2, DockerMoves
      <4> QED
        BY <1>1, <2>4, <2>5, <4>1, <4>2 DEF UpBack, RestartedBy
    <3>3. CASE f.pc = "reverify" \/ (f.pc = "restart" /\ ~Wanted(o, f.k))
      <4>1. /\ f.k \in Slots
            /\ \/ g.pc = "restart" /\ g.k = f.k + 1
               \/ g.pc = "restored" /\ f.k = Size
        <5>1. f.k \in Slots /\ At(g) = Then("restart", f.k, <<"restored", 0>>)
          BY <1>0, <3>3 DEF Retreated, Loops
        <5>2. f.k < Size \/ f.k = Size
          BY <5>1, SlotMoves
        <5> QED
          BY <1>2, <5>1, <5>2 DEF At, Then
      <4>2. k \in Slots /\ (k \in RestartedBy(f) \/ k = f.k)
        BY <1>2, <2>5, <3>3, <4>1 DEF RestartedBy
      <4>3. k \in RestartedBy(f)
        BY <1>2, <2>5, <3>3, <4>1, <4>2 DEF RestartedBy
      <4> QED
        BY <1>1, <2>4, <2>5, <4>2, <4>3 DEF UpBack
    <3> QED
      BY <1>5, <3>1, <3>2, <3>3
  <2> QED
    BY <1>1, <2>1, <2>2, <2>3, <2>5 DEF NamedBack, NamedBy
<1> QED
  BY <1>3, <1>4, <1>5 DEF Retreated

\* Every step keeps what an apply has put back.
LEMMA StepBack ==
  ASSUME Undisturbed, OneProject, Journalled, Answered, Known, AllBack, [Next]_vars
  PROVE  AllBack'
<1>0. /\ TypeInv /\ Exclusion /\ Placed /\ DraftsNew /\ AdoptedFirst /\ FlowsBare
  BY DEF Known, UnderWay, Changes, Retains, Exclusion
<1> SUFFICES ASSUME NEW o \in Ops, flow'[o].pc \notin Entries
             PROVE  BackSoFar(o, flow[o])'
  BY DEF AllBack
<1>1. flow[o].pc # "idle"
  BY <1>0, FlowBegins DEF Entries, IdleFlow
<1>2. o \in Live /\ (\A k \in Slots : Orig(o, k) \in Ids)
  BY <1>0, <1>1, Flowing, OriginalTypes
<1>3. /\ Snap(o)' = Snap(o) /\ Project(o)' = Project(o) /\ Plan(o)'.base = Plan(o).base
      /\ \A k : Orig(o, k)' = Orig(o, k)
  BY <1>0, <1>2, ReadsFixed
<1>4. \A k : Wanted(o, k)' <=> Wanted(o, k)
  BY <1>3 DEF Wanted
<1>5. PICK f, g : f = flow[o] /\ g = flow'[o]
  OBVIOUS
<1> SUFFICES /\ \A k \in NamedBy(o, g) : ctr'[Orig(o, k)].name = Snap(o)[k].conf.name
             /\ \A k \in RestartedBy(g) : Wanted(o, k) => ctr'[Orig(o, k)].st = "running"
             /\ g.pc \in {"restart", "reverify", "restored"} =>
                  base'[Project(o)] = Plan(o).base
  BY <1>3, <1>4, <1>5 DEF BackSoFar, NamedBack, UpBack, BaseBack, NamedBy, RestartedBy,
     Running
<1>6. f.pc \notin Entries => BackSoFar(o, f)
  BY <1>5 DEF AllBack
<1>7. CASE ApplyStep(o)
  <2>1. g \in FlowRec => g.pc \in Entries \cup Advances \cup Retreats \cup Failed
    BY DEF FlowRec, Points, Entries, Advances, Retreats, Failed, Restores, Discards, Loops
  <2>2. CASE g.pc \in Advances
    <3>1. Advanced(o, f, g)
      BY <1>0, <1>5, <1>7, <2>2, AdvancesBy
    <3>2. f.pc \notin Entries => NamedBack(o, f)
      BY <1>6 DEF BackSoFar
    <3>3. \A k \in NamedBy(o, g) : ctr'[Orig(o, k)].name = Snap(o)[k].conf.name
      BY <1>0, <1>1, <1>5, <2>2, <3>1, <3>2, AdvancesBack
    <3> QED
      BY <2>2, <3>3 DEF Advances, RestartedBy
  <2>3. CASE g.pc \in Retreats
    <3>1. Retreated(o, f, g)
      BY <1>0, <1>5, <1>7, <2>3, RetreatsBy
    <3>2. f.pc \notin Entries
      BY <3>1 DEF Retreated, Entries
    <3> QED
      BY <1>0, <1>1, <1>5, <1>6, <2>3, <3>1, <3>2, RetreatsBack
  <2>4. CASE g.pc \in Failed
    <3>1. /\ f.pc # "validate" /\ Lists(f, g)
          /\ ctr' = ctr \/ \E S : ctr' = Stopped(S)
      BY <1>0, <1>5, <1>7, <2>4, FailsBy
    <3>2. NamedBack(o, f)
      BY <1>1, <1>5, <1>6, <3>1 DEF Entries, BackSoFar
    <3>3. \A k \in Slots : ctr'[Orig(o, k)].name = ctr[Orig(o, k)].name
      BY <1>0, <1>2, <3>1, OldTypes DEF Stopped, Containers
    <3>4. NamedBy(o, g) \subseteq NamedBy(o, f) /\ RestartedBy(g) = {}
      BY <2>4, <3>1 DEF NamedBy, RestartedBy, Lists, Failed, Restores
    <3> QED
      BY <2>4, <3>2, <3>3, <3>4 DEF NamedBack, NamedBy, Failed
  <2>5. g \in FlowRec
    BY <1>0, <1>5, <1>7, ApplyStepTypes DEF TypeInv, TypeOK
  <2> QED
    BY <1>5, <2>1, <2>2, <2>3, <2>4, <2>5
<1>8. CASE UNCHANGED <<ctr, proj, base, op, flow, clean, locks>>
  BY <1>5, <1>6, <1>8 DEF BackSoFar, NamedBack, UpBack, BaseBack, RestartedBy, Running
<1>9. ~Crash
  BY DEF Crash, IdleFlow, Entries
<1> QED
  BY <1>0, <1>1, <1>7, <1>8, <1>9, OnlyApply

\* What is to be confirmed was so before, or has just been inspected.
LEMMA ConfirmsBegin ==
  ASSUME TypeInv, [Next]_vars, NEW r \in Requests, req'[r].pc = "confirm"
  PROVE  \/ req'[r] = req[r]
         \/ /\ req[r].pc = "inspect" /\ req'[r].op = req[r].op
            /\ Restored(req[r].op) /\ ctr' = ctr
<1>0. req \in [Requests -> ReqRec]
  BY DEF TypeInv, TypeOK
<1>1. SUFFICES ASSUME req' # req
               PROVE  \/ req'[r] = req[r]
                      \/ /\ req[r].pc = "inspect" /\ req'[r].op = req[r].op
                         /\ Restored(req[r].op) /\ ctr' = ctr
  OBVIOUS
<1>2. ASSUME NEW q \in Requests, NEW o \in Ops, RecoveryBegin(q, o)
      PROVE  req'[r] = req[r]
  BY <1>0, <1>2 DEF RecoveryBegin
<1>3. ASSUME NEW q \in Requests, RecoveryInspect(q)
      PROVE  \/ req'[r] = req[r]
             \/ /\ req[r].pc = "inspect" /\ req'[r].op = req[r].op
                /\ Restored(req[r].op) /\ ctr' = ctr
  <2>1. CASE q # r
    BY <1>0, <1>3, <2>1 DEF RecoveryInspect
  <2>2. CASE q = r
    <3>1. req[r].pc = "inspect" /\ req[r] \in [pc : {"inspect", "confirm"}, op : Ops]
      BY <1>0, <1>3, <2>2 DEF RecoveryInspect, ReqRec, IdleReq
    <3>2. req'[r].pc = "confirm" => Restored(req[r].op) /\ ctr' = ctr
      BY <1>0, <1>3, <2>2 DEF RecoveryInspect, IdleReq
    <3>3. [req[r] EXCEPT !.pc = "confirm"].op = req[r].op
      BY <3>1
    <3>4. req'[r] = [req[r] EXCEPT !.pc = "confirm"] \/ req'[r] = IdleReq
      BY <1>0, <1>3, <2>2 DEF RecoveryInspect
    <3> QED
      BY <3>1, <3>2, <3>3, <3>4 DEF IdleReq
  <2> QED
    BY <2>1, <2>2
<1>4. ASSUME NEW q \in Requests, RecoveryConfirm(q)
      PROVE  req'[r] = req[r]
  BY <1>0, <1>4 DEF RecoveryConfirm, IdleReq
<1>5. ~Crash
  BY DEF Crash, IdleReq
<1>6. \A o \in Ops : ~ApplyStep(o)
  BY <1>1 DEF ApplyStep, ValidationFails, NothingToChange, Prepared,
     StopOriginal, RenameOriginal, CreateReplacement, StartReplacement,
     AwaitReplacement, VerifyNamespace, Commit, CommitFails, BeginRollback,
     DiscardReplacement, RestoreName, RestoreOwnership, RestartOriginal, RolledBack,
     StopEverything, RollbackFailed, still
<1>7. \A o \in Ops : ~CleanupBegin(o) /\ ~CleanupStep(o)
  BY <1>1 DEF CleanupBegin, CleanupStep, CleanupVet, CleanupCheck, CleanupDelete,
     CleanupDone, untouched
<1>8. \A o \in Ops, l \in Plans : ~ApplyBegin(o, l)
  BY <1>1 DEF ApplyBegin
<1>9. ~\E p \in Projects, s \in Selections : AdoptBegin(p, s)
  BY <1>1 DEF AdoptBegin
<1>10. ~\E p \in Projects : AdoptInspect(p) \/ AdoptClaim(p)
  BY <1>1 DEF AdoptInspect, AdoptClaim
<1>11. ~\E o \in Ops : OwnerRepairs(o) \/ ReviewRecovery(o) \/ ReviewCleanup(o)
  BY <1>1 DEF OwnerRepairs, ReviewRecovery, ReviewCleanup, memory
<1>12. ~\E v \in reviews : ExpireReview(v)
  BY <1>1 DEF ExpireReview, memory
<1>13. (~\E i \in Ids : Drift(i)) /\ ~Prune
  BY <1>1 DEF Drift, Prune, memory
<1>14. ~\E l \in Plans, p \in Projects : PlanBegin(l, p)
  BY <1>1 DEF PlanBegin
<1>15. /\ ~\E l \in Plans, c \in Cfgs : PlanStore(l, c)
       /\ ~\E l \in Plans : PlanObserve(l) \/ ExpirePlan(l)
  BY <1>1 DEF PlanStore, PlanObserve, ExpirePlan, memory
<1>16. ~UNCHANGED vars
  BY <1>1 DEF vars, memory
<1> QED
  BY <1>2, <1>3, <1>4, <1>5, <1>6, <1>7, <1>8, <1>9, <1>10, <1>11, <1>12, <1>13, <1>14,
     <1>15, <1>16, NextCases DEF Aside

\* What was inspected is still so when it is confirmed: while an operation waits
\* for its recovery only the owner's repairs change a container.
LEMMA StepConfirms ==
  ASSUME Undisturbed, OneProject, Journalled, Known, ConfirmsRestored, [Next]_vars
  PROVE  ConfirmsRestored'
<1>0. /\ TypeInv /\ Exclusion /\ Placed /\ DraftsNew /\ AdoptedFirst /\ JournalTrue
      /\ ctr \in [Ids -> Containers]
  BY OldTypes DEF Known, UnderWay, Changes, Retains, Exclusion
<1> SUFFICES ASSUME NEW r \in Requests, req'[r].pc = "confirm",
                    NEW o, o = req'[r].op
             PROVE  Restored(o)'
  BY DEF ConfirmsRestored
<1>1. /\ req[r].pc \in {"inspect", "confirm"} /\ req[r].op = o /\ Restored(o)
      /\ ctr' = ctr \/ req[r].pc = "confirm"
  BY <1>0, ConfirmsBegin DEF ConfirmsRestored
<1>2. o \in Ops /\ o \in Live /\ op[o].st \in Stuck
  BY <1>0, <1>1 DEF Exclusion, ClaimsStuck, NeedsRecovery, Stuck, TypeInv, RequestsOK, Live
<1>3. /\ Snap(o)' = Snap(o) /\ (\A k : Orig(o, k)' = Orig(o, k))
      /\ \A k \in Slots : Orig(o, k) \in Ids
  BY <1>0, <1>2, ReadsFixed, OriginalTypes
<1> SUFFICES \A k \in Slots : ctr'[Orig(o, k)] = ctr[Orig(o, k)]
  BY <1>1, <1>3 DEF Restored, Exists, Seen, ConfOf, Running
<1>4. ~\E w \in Ops : Busy(w)
  <2> SUFFICES ASSUME NEW w \in Ops, Busy(w)
               PROVE  FALSE
    OBVIOUS
  <2>1. op[w].st \in {"applying", "succeeded"}
    BY <1>0 DEF Busy, JournalTrue
  <2>2. w # o
    BY <1>2, <2>1 DEF Stuck
  <2> QED
    BY <1>0, <1>2, <2>2, AloneAtWork
<1>5. CASE ctr' = ctr
  BY <1>5
<1>6. ASSUME NEW w \in Live, OwnerRepairs(w)
      PROVE  \A k \in Slots : ctr'[Orig(o, k)] = ctr[Orig(o, k)]
  <2>1. w = o
    <3>1. Unfinished(w) /\ Unfinished(o)
      BY <1>2, <1>6 DEF OwnerRepairs, NeedsRecovery, Unfinished, Stuck
    <3>2. Project(w) = Project(o)
      BY <1>0, <1>2, PlanTypes DEF OneProject, Live
    <3> QED
      BY <1>0, <1>2, <1>6, <3>1, <3>2 DEF Exclusion, OneUnfinished
  <2>2. ASSUME NEW k \in Slots
        PROVE  ctr'[Orig(o, k)] = ctr[Orig(o, k)]
    <3>1. /\ Exists(Orig(o, k)) /\ Snap(o)[k] = Seen(Orig(o, k))
      BY <1>1, <2>2 DEF Restored
    <3>2. PICK c, d : c = ctr[Orig(o, k)] /\ d = ctr'[Orig(o, k)]
      OBVIOUS
    <3>3. /\ d.name = Snap(o)[k].conf.name
          /\ d.st = IF Snap(o)[k].up THEN "running" ELSE "stopped"
          /\ d.cfg = c.cfg /\ d.ns = c.ns
      BY <1>0, <1>2, <1>6, <2>1, <3>2, RepairsTo
    <3>6. PICK s : s = Snap(o)[k]
      OBVIOUS
    <3>7. /\ s.conf.name = c.name /\ s.up = (c.st = "running")
          /\ c.st \in {"stopped", "running"}
      BY <3>1, <3>2, <3>6 DEF Seen, ConfOf, Running, Exists
    <3>4. d.name = c.name /\ d.st = c.st
      BY <3>3, <3>6, <3>7
    <3>5. c \in Containers /\ d \in Containers
      <4>1. TypeInv'
        BY <1>0, StepTypes
      <4> QED
        BY <1>0, <1>3, <3>2, <4>1 DEF TypeInv, TypeOK
    <3> QED
      BY <3>2, <3>3, <3>4, <3>5 DEF Containers
  <2> QED
    BY <2>2
<1> QED
  BY <1>4, <1>5, <1>6, CallsMade DEF Busy

\* What a change that goes back knows of its originals.
GoesBack == NoneStranded /\ AllBack /\ ConfirmsRestored

\* It holds at first, where no change is under way.
LEMMA InitBack == Init => GoesBack
<1>1. Init => AllBack
  BY DEF Init, AllBack, IdleFlow, Entries
<1>2. Init => ConfirmsRestored
  BY DEF Init, ConfirmsRestored, IdleReq
<1> QED
  BY <1>1, <1>2, InitStranded DEF GoesBack

\* And every step keeps it.
LEMMA StepGoesBack ==
  ASSUME Undisturbed, OneProject, Journalled, Answered, Known, Known', Held, GoesBack,
         [Next]_vars
  PROVE  GoesBack'
BY StepStranded, StepBack, StepConfirms DEF GoesBack

\* When a rollback ends the originals are what and how they were.
LEMMA RollbackWhole ==
  ASSUME Known, Held, GoesBack, NEW o \in Ops, RolledBack(o)
  PROVE  /\ Restored(o)
         /\ \A k \in DOMAIN op[o].created : ~Exists(op[o].created[k])
         /\ proj'[Project(o)] = Originals(o)
         /\ base'[Project(o)] = Plan(o).base
<1>0. /\ TypeInv /\ Placed /\ JournalTrue /\ AllUpheld /\ AllDiscarded
  BY DEF Known, UnderWay, Changes, Retains
<1>1. flow[o].pc = "restored" /\ UNCHANGED <<ctr, proj, base>>
  BY DEF RolledBack
<1>2. /\ o \in Live /\ op[o].created = flow[o].created
      /\ op[o].plan \in Plans /\ Plan(o).st # "none" /\ Snap(o) \in [Slots -> Snapshots]
  BY <1>0, <1>1, Flowing, PlanTypes DEF JournalTrue, TypeInv, LiveOK
<1>3. /\ NamedBy(o, flow[o]) = Slots /\ RestartedBy(flow[o]) = Slots
      /\ BackSoFar(o, flow[o])
  BY <1>1 DEF NamedBy, RestartedBy, Restores, Entries, GoesBack, AllBack
<1>4. /\ \A k \in Slots : ctr[Orig(o, k)].name = Snap(o)[k].conf.name
      /\ \A k \in Slots : Wanted(o, k) => Running(Orig(o, k))
      /\ base[Project(o)] = Plan(o).base
  BY <1>1, <1>3 DEF BackSoFar, NamedBack, UpBack, BaseBack
<1>5. Standing(o) /\ UpAsPlanned(o)
  BY <1>0, <1>1 DEF AllUpheld, Upheld
<1>6. \A k \in Slots : Running(Orig(o, k)) <=> Snap(o)[k].up
  <2>1. ServedIn(Snap(o))
    BY <1>2 DEF GoesBack, NoneStranded, PlansServed, Snap, Plan
  <2> QED
    BY <1>4, <1>5, <2>1 DEF UpAsPlanned, ServedIn, Wanted
<1>7. ASSUME NEW k \in Slots
      PROVE  Exists(Orig(o, k)) /\ Seen(Orig(o, k)) = Snap(o)[k]
  <2>1. PICK s, c : s = Snap(o)[k] /\ c = ctr[Orig(o, k)]
    OBVIOUS
  <2>2. s \in Snapshots /\ s.conf \in Confs
    BY <1>2, <1>7, <2>1 DEF Snapshots
  <2>3. c.name = s.conf.name /\ c.cfg = s.conf.cfg /\ c.ns = s.conf.ns
    BY <1>0, <1>2, <1>4, <1>7, <2>1, OriginalsPlaced
  <2>4. Orig(o, k) = s.conf.id
    BY <2>1 DEF Orig
  <2>5. ConfOf(Orig(o, k)) = s.conf
    BY <2>1, <2>2, <2>3, <2>4 DEF ConfOf, Confs
  <2>6. Running(Orig(o, k)) = s.up
    BY <1>6, <1>7, <2>1, <2>2 DEF Snapshots, Running
  <2>7. Seen(Orig(o, k)) = s
    BY <2>2, <2>5, <2>6 DEF Seen, Snapshots
  <2> QED
    BY <1>5, <1>7, <2>1, <2>7 DEF Standing
<1>8. \A k \in DOMAIN op[o].created : ~Exists(op[o].created[k])
  BY <1>0, <1>1, <1>2 DEF AllDiscarded, Discarded, Retreats, Restores, Discards
<1>9. proj[Project(o)] = Originals(o)
  BY <1>1 DEF Held, FlowsOwn, Entries
<1> QED
  BY <1>1, <1>4, <1>7, <1>8, <1>9 DEF Restored

\* A change that the journal calls rolled back has left the originals as they
\* were, nothing that it created, and the project and its reference as planned
\* (engine.ts:478-489, 355-364): when no answer of Docker is lost, see the run
\* that shows what a lost one does.
THEOREM RollbackWholly ==
  OneRequest /\ OneProject /\ Journalled /\ Undisturbed /\ Answered /\ Spec /\ []Fresh
    => RollbackRestores
<1> DEFINE Whole ==
      \A o \in Ops : Becomes(o, "rolled_back") /\ op[o].renamed # {} =>
        /\ Restored(o)
        /\ \A k \in DOMAIN op[o].created : ~Exists(op[o].created[k])
        /\ proj'[Project(o)] = Originals(o)
        /\ base'[Project(o)] = Plan(o).base
<1>1. ASSUME Journalled, Known, Held, GoesBack, [Next]_vars
      PROVE  Whole
  <2>0. /\ TypeInv /\ Exclusion /\ JournalTrue /\ FlowsBare
        /\ proj \in [Projects -> Stacks \cup {<<>>}]
        /\ base \in [Projects -> [Slots -> Confs] \cup {<<>>}]
    BY <1>1, OldTypes DEF Known, UnderWay, Changes, Retains
  <2> SUFFICES ASSUME NEW o \in Ops, op[o].st # "rolled_back", op'[o].st = "rolled_back",
                      op[o].renamed # {}
               PROVE  /\ Restored(o)
                      /\ \A k \in DOMAIN op[o].created : ~Exists(op[o].created[k])
                      /\ proj'[Project(o)] = Originals(o)
                      /\ base'[Project(o)] = Plan(o).base
    BY DEF Becomes
  <2>1. CASE ApplyStep(o)
    <3>1. flow[o].pc # "idle" /\ flow[o].renamed = op[o].renamed
      BY <2>0, <2>1, ApplyRuns DEF JournalTrue
    <3>2. ~ValidationFails(o)
      BY <2>0, <3>1 DEF ValidationFails, FlowsBare
    <3>3. RolledBack(o)
      BY <1>1, <2>0, <2>1, <3>2, EndsBy
    <3> QED
      BY <1>1, <3>3, RollbackWhole
  <2>2. ASSUME NEW r \in Requests, RecoveryConfirm(r), req[r].op = o
        PROVE  /\ Restored(o)
               /\ \A k \in DOMAIN op[o].created : ~Exists(op[o].created[k])
               /\ proj'[Project(o)] = Originals(o)
               /\ base'[Project(o)] = Plan(o).base
    <3>1. req[r].pc = "confirm" /\ o \in Live
      BY <2>0, <2>2 DEF RecoveryConfirm, TypeInv, RequestsOK
    <3>2. Restored(o)
      BY <1>1, <2>2, <3>1 DEF GoesBack, ConfirmsRestored
    <3>3. Unreplaced(o) /\ proj' = Returned(o) /\ base' = Former(o)
      BY <1>1, <2>2 DEF RecoveryConfirm, Journalled, Fault
    <3>4. Project(o) \in Projects
      BY <2>0, <3>1, PlanTypes
    <3> QED
      BY <2>0, <3>2, <3>3, <3>4 DEF Unreplaced, Returned, Former
  <2> QED
    BY <1>1, <2>0, <2>1, <2>2, OutcomeBy
<1>2. Undisturbed /\ OneProject /\ Journalled /\ Answered /\ Known /\ Known' /\ Held /\ GoesBack /\ [Next]_vars => GoesBack'
  BY StepGoesBack
<1>3. Journalled /\ Known /\ Held /\ GoesBack /\ [Next]_vars => [Whole]_vars
  BY <1>1
<1>4. /\ Undisturbed => []Undisturbed
      /\ OneProject => []OneProject
      /\ Journalled => []Journalled
      /\ Answered => []Answered
  OBVIOUS
<1> HIDE DEF Whole
<1>5. OneRequest /\ OneProject /\ Journalled /\ Undisturbed /\ Answered /\ Spec /\ []Fresh => [][Whole]_vars
  BY <1>2, <1>3, <1>4, InitBack, StacksHeld, PTL DEF Spec
<1> QED
  BY <1>5 DEF Whole, RollbackRestores

-----------------------------------------------------------------------------
(* A stack that nothing works on is described by its reference.            *)

\* The configurations that a snapshot shows.
ConfsIn(snap) == [k \in Slots |-> snap[k].conf]
\* The reference of a project says what its stack is.
Described(p) == base[p] = ConfsOf(proj[p])
SettledDescribed ==
  \A p \in Projects : proj[p] # <<>> /\ Settled(p) => Described(p)
ValidatedDescribed ==
  \A o \in Ops : flow[o].pc = "validate" => Described(Project(o))
\* What an operation at work would write back is what its plan saw.
WorkDescribed == \A o \in Live : AtWork(o) => Plan(o).base = ConfsIn(Snap(o))
ClaimsDescribed ==
  \A p \in Projects : adopting[p].pc = "claim" =>
    adopting[p].confs = ConfsOf(adopting[p].own)
Matching ==
  SettledDescribed /\ ValidatedDescribed /\ WorkDescribed /\ ClaimsDescribed
\* What is applied was planned for the stack as it is: the plan was stored with
\* the present reference, and saw what that describes (engine.ts:437; the run
\* that shows a plan gone stale does without).
Current ==
  \A o \in Ops : flow[o].pc = "validate" =>
    /\ Plan(o).base = base[Project(o)]
    /\ Plan(o).base = ConfsIn(Snap(o))

\* A plan that is current was made for the containers that the project owns.
LEMMA CurrentFresh ==
  ASSUME TypeInv, AdoptedFirst, ValidatedDescribed, Current
  PROVE  Fresh
<1> SUFFICES ASSUME NEW o \in Ops, flow[o].pc = "validate"
             PROVE  Originals(o) = proj[Project(o)]
  BY DEF Fresh
<1>1. o \in Live
  BY Flowing
<1>2. proj[Project(o)] \in Stacks /\ Originals(o) \in Stacks
  BY <1>1, LiveAdopted
<1>3. PICK s : s = proj[Project(o)]
  OBVIOUS
<1>4. ConfsIn(Snap(o)) = ConfsOf(s)
  BY <1>3 DEF Current, ValidatedDescribed, Described
<1>5. \A k \in Slots : Snap(o)[k].conf = ConfOf(s[k])
  BY <1>4 DEF ConfsIn, ConfsOf
<1>6. \A k \in Slots : Originals(o)[k] = s[k]
  <2>1. \A i : ConfOf(i).id = i
    BY DEF ConfOf
  <2>2. \A k \in Slots : Originals(o)[k] = Snap(o)[k].conf.id
    BY DEF Originals, Orig
  <2> QED
    BY <1>5, <2>1, <2>2
<1> QED
  BY <1>2, <1>3, <1>6 DEF Stacks

\* What is inspected of containers that stay what they are.
LEMMA ConfsStay ==
  ASSUME NEW s, \A k \in Slots : /\ ctr'[s[k]].name = ctr[s[k]].name
                                 /\ ctr'[s[k]].cfg = ctr[s[k]].cfg
                                 /\ ctr'[s[k]].ns = ctr[s[k]].ns
  PROVE  ConfsOf(s)' = ConfsOf(s)
BY DEF ConfsOf, ConfOf

\* A stack whose originals are what was planned is described by what was seen.
LEMMA RestoredConfs ==
  ASSUME NEW o \in Ops, Restored(o)
  PROVE  ConfsOf(Originals(o)) = ConfsIn(Snap(o))
<1>1. \A i : Seen(i).conf = ConfOf(i)
  BY DEF Seen
<1>2. \A k \in Slots : Originals(o)[k] = Orig(o, k)
  BY DEF Originals
<1>3. \A k \in Slots : ConfOf(Originals(o)[k]) = Snap(o)[k].conf
  BY <1>1, <1>2 DEF Restored
<1> QED
  BY <1>3 DEF ConfsOf, ConfsIn

\* What is valid is described by what was seen.
LEMMA ValidConfs ==
  ASSUME TypeInv, NEW o \in Ops, flow[o].pc = "validate", Valid(o)
  PROVE  ConfsOf(flow[o].own) = ConfsIn(Snap(o))
<1>1. \A k \in Slots : Seen(flow[o].own[k]) = Snap(o)[k]
  BY ValidSnap
<1>2. \A i : Seen(i).conf = ConfOf(i)
  BY DEF Seen
<1>3. \A k \in Slots : ConfOf(flow[o].own[k]) = Snap(o)[k].conf
  BY <1>1, <1>2
<1> QED
  BY <1>3 DEF ConfsOf, ConfsIn

\* A step of an apply keeps its stack described, or leaves it so.
LEMMA ApplyMatches ==
  ASSUME Undisturbed, OneProject, Journalled, Answered, Known, Held, GoesBack,
         Matching, Current, [Next]_vars, NEW o \in Ops, ApplyStep(o)
  PROVE  (SettledDescribed /\ ValidatedDescribed /\ WorkDescribed)'
<1>0. /\ TypeInv /\ Exclusion /\ Placed /\ AdoptedFirst /\ JournalTrue /\ DraftsNew
      /\ proj \in [Projects -> Stacks \cup {<<>>}]
      /\ base \in [Projects -> [Slots -> Confs] \cup {<<>>}]
  BY OldTypes DEF Known, UnderWay, Changes, Retains, Exclusion
<1>1. flow[o].pc # "idle" /\ Busy(o)
  BY ApplyRuns DEF Busy
<1>2. /\ o \in Live /\ Project(o) \in Projects /\ \A p \in Projects : p = Project(o)
      /\ \A q \in Live \ {o} : op[q].st \notin Stuck \cup {"applying"}
      /\ \A q \in Ops \ {o} : flow[q].pc = "idle"
  BY <1>0, <1>1, AloneAtWork DEF Busy
<1>3. /\ o \in Live' /\ Project(o)' = Project(o) /\ Plan(o)'.base = Plan(o).base
      /\ Snap(o)' = Snap(o)
  BY <1>0, <1>2, ReadsFixed
<1>4. PICK P : P = Project(o)
  OBVIOUS
<1>5. Plan(o).base = ConfsIn(Snap(o))
  <2>1. CASE flow[o].pc = "validate"
    BY <2>1 DEF Current
  <2>2. CASE flow[o].pc # "validate"
    BY <1>1, <1>2, <2>2 DEF Matching, WorkDescribed, AtWork, Entries
  <2> QED
    BY <2>1, <2>2
<1>6. WorkDescribed'
  <2>1. SUFFICES ASSUME NEW q \in Live', q # o, AtWork(q)'
                 PROVE  FALSE
    BY <1>3, <1>5 DEF WorkDescribed, ConfsIn
  <2>2. flow'[q] = flow[q] /\ op'[q] = op[q]
    BY <1>0, <2>1, ApplyMoves DEF Onward, Ended, Live
  <2> QED
    BY <1>2, <2>1, <2>2 DEF AtWork, Entries, Live
<1>7. CASE Onward(o)
  <2>1. flow'[o].pc \notin Entries
    BY <1>0, <1>7, ApplyLeaves DEF Onward, Leaves, IdleFlow
  <2>2. SettledDescribed'
    BY <1>2, <1>3, <1>7 DEF Onward, SettledDescribed, Settled
  <2>3. ValidatedDescribed'
    BY <1>2, <1>7, <2>1 DEF Onward, ValidatedDescribed, Entries
  <2> QED
    BY <1>6, <2>2, <2>3
<1>8. ASSUME NEW st \in {"succeeded", "rolled_back", "rollback_failed"}, Ended(o, st)
      PROVE  (SettledDescribed /\ ValidatedDescribed)'
  <2>1. /\ \A q \in Ops \ {o} : flow'[q].pc = "idle" /\ op'[q] = op[q]
        /\ flow'[o].pc = "idle" /\ op'[o].st = st
    BY <1>2, <1>8 DEF Ended, IdleFlow
  <2>2. \/ NothingToChange(o) \/ Commit(o) \/ ValidationFails(o) \/ RolledBack(o)
        \/ RollbackFailed(o) /\ st = "rollback_failed"
    BY <1>0, <1>8, <2>1, EndsBy
  <2>3. ValidatedDescribed'
    BY <2>1 DEF ValidatedDescribed
  <2>4. CASE st = "rollback_failed"
    BY <1>2, <1>3, <2>1, <2>3, <2>4 DEF SettledDescribed, Settled, Stuck
  <2>5. CASE st # "rollback_failed"
    <3>1. ctr' = ctr /\ base'[P] = ConfsOf(proj'[P])
      <4>1. CASE ValidationFails(o)
        <5>1. flow[o].pc = "validate" /\ UNCHANGED <<ctr, proj>>
          BY <4>1 DEF ValidationFails
        <5>2. base' \in {base, Former(o)}
          BY <4>1 DEF ValidationFails, Abandoned, AbandonBreaks
        <5>3. base'[P] = base[P]
          BY <1>0, <1>2, <1>4, <5>1, <5>2 DEF Former, Current
        <5> QED
          BY <1>4, <5>1, <5>3 DEF Matching, ValidatedDescribed, Described
      <4>2. CASE NothingToChange(o)
        <5>1. /\ flow[o].pc = "validate" /\ Valid(o) /\ UNCHANGED <<ctr, proj>>
              /\ base' = [base EXCEPT ![P] = ConfsIn(Snap(o))]
          BY <1>4, <4>2 DEF NothingToChange, Confirming, ConfsIn
        <5>2. flow[o].own = proj[P]
          BY <1>4, <5>1 DEF Held, FlowsOwn
        <5> QED
          BY <1>0, <1>2, <1>4, <5>1, <5>2, ValidConfs
      <4>3. CASE Commit(o)
        BY <1>0, <1>2, <1>4, <4>3 DEF Commit, Replaced, Rebound
      <4>4. CASE RolledBack(o)
        <5>1. Restored(o) /\ proj'[P] = Originals(o) /\ base'[P] = ConfsIn(Snap(o))
          BY <1>4, <1>5, <4>4, RollbackWhole
        <5>2. ctr' = ctr
          BY <4>4 DEF RolledBack
        <5> QED
          BY <5>1, <5>2, RestoredConfs
      <4> QED
        BY <2>2, <2>5, <4>1, <4>2, <4>3, <4>4
    <3>2. PICK s : s = proj'[P]
      OBVIOUS
    <3>3. ConfsOf(s)' = ConfsOf(s)
      BY <3>1, ConfsStay
    <3>4. \A p \in Projects : p = P
      BY <1>2, <1>4
    <3> QED
      BY <2>3, <3>1, <3>2, <3>3, <3>4 DEF SettledDescribed, Described
  <2> QED
    BY <2>4, <2>5
<1> QED
  BY <1>0, <1>6, <1>7, <1>8, ApplyMoves

\* After a crash a stack that was being changed waits for its owner, and what
\* a call that was cut off removes is none of another's.
LEMMA CrashMatches ==
  ASSUME OneProject, Journalled, Known, Held, Matching, Current, Crash
  PROVE  (SettledDescribed /\ ValidatedDescribed /\ WorkDescribed)'
<1>0. /\ TypeInv /\ Exclusion /\ Placed /\ AdoptedFirst /\ JournalTrue
      /\ DraftsNew /\ [Next]_vars /\ CleanupVetted
      /\ ctr \in [Ids -> Containers]
  BY OldTypes DEF Known, UnderWay, Changes, Retains, Exclusion, Next
<1>1. \A q \in Ops : flow'[q].pc = "idle"
  BY DEF Crash, IdleFlow
<1>2. ValidatedDescribed'
  BY <1>1 DEF ValidatedDescribed
<1>3. \A q \in Ops : op'[q].st = IF op[q].st = "applying" THEN "interrupted" ELSE op[q].st
  BY <1>0, RestartMarks DEF Crash
<1>4. \A q \in Ops : q \in Live' <=> q \in Live
  BY <1>3 DEF Live
<1>5. \A q \in Live : /\ Project(q)' = Project(q) /\ Plan(q)'.base = Plan(q).base
                      /\ Snap(q)' = Snap(q)
  BY <1>0, ReadsFixed
<1>6. WorkDescribed'
  <2>1. SUFFICES ASSUME NEW q \in Live, op'[q].st \in Stuck
                 PROVE  Plan(q).base = ConfsIn(Snap(q))
    <3>1. \A q \in Live : ConfsIn(Snap(q))' = ConfsIn(Snap(q))
      BY <1>5 DEF ConfsIn
    <3>2. \A q \in Live' : q \in Live /\ (AtWork(q)' => op'[q].st \in Stuck)
      BY <1>1, <1>4 DEF AtWork, Entries, Live
    <3> QED
      BY <1>5, <3>1, <3>2 DEF WorkDescribed
  <2>2. CASE op[q].st \in Stuck
    BY <2>2 DEF Matching, WorkDescribed, AtWork
  <2>3. CASE op[q].st \notin Stuck
    <3>1. op[q].st = "applying"
      BY <1>3, <2>1, <2>3 DEF Live
    <3>2. flow[q].pc # "idle"
      BY <1>0, <3>1 DEF JournalTrue, Live
    <3> QED
      BY <3>2 DEF Matching, WorkDescribed, AtWork, Current, Entries, Live
  <2> QED
    BY <2>2, <2>3
<1>7. SettledDescribed'
  <2>1. SUFFICES ASSUME NEW p \in Projects, proj'[p] # <<>>, Settled(p)'
                 PROVE  Described(p)'
    BY DEF SettledDescribed
  <2>2. ASSUME NEW o \in Live
        PROVE  Project(o) = p /\ op'[o].st \notin Stuck
    <3>1. Project(o) = p
      BY <1>0, LiveAdopted DEF OneProject
    <3>2. o \in Live' /\ Project(o)' = p
      BY <1>4, <1>5, <3>1 DEF Live
    <3> QED
      BY <2>1, <3>1, <3>2 DEF Settled
  <2>3. \A o \in Ops : flow[o].pc = "idle"
    <3>1. SUFFICES ASSUME NEW o \in Ops, flow[o].pc # "idle" PROVE FALSE
      OBVIOUS
    <3>2. o \in Live /\ op[o].st = "applying"
      BY <1>0, <3>1, Flowing DEF JournalTrue
    <3> QED
      BY <1>3, <2>2, <3>2 DEF Stuck, Live
  <2>4. Settled(p)
    BY <1>0, <1>3, <2>2, <2>3 DEF Settled, JournalTrue, Live
  <2>5. UNCHANGED <<proj, base>>
    <3>1. SUFFICES ASSUME NEW r \in Requests, req[r].pc = "confirm"
                   PROVE  FALSE
      BY <2>3 DEF Crash, Torn
    <3>2. req[r].op \in Live /\ op[req[r].op].st \in Stuck
      BY <1>0, <3>1 DEF Exclusion, ClaimsStuck, NeedsRecovery, Stuck, TypeInv, RequestsOK
    <3> QED
      BY <1>3, <2>2, <3>2 DEF Stuck, Live
  <2>6. \A i \in Ids : /\ ctr'[i].name = ctr[i].name /\ ctr'[i].cfg = ctr[i].cfg
                       /\ ctr'[i].ns = ctr[i].ns
    <3>1. \/ ctr' = ctr
          \/ \E o \in Ops : clean[o].pc = "delete"
                              /\ ctr' = RemovedC(Orig(o, StopSlot(clean[o].k)))
      BY <1>0, <2>3, UnansweredHandles DEF Crash, Stray
    <3>2. \A i : ctr' = RemovedC(i) => ctr' = [ctr EXCEPT ![i].st = "removed"]
      BY DEF RemovedC
    <3> QED
      BY <1>0, <3>1, <3>2 DEF Containers
  <2>7. PICK s : s = proj[p]
    OBVIOUS
  <2>8. s \in Stacks
    BY <1>0, <2>1, <2>5, <2>7 DEF TypeInv, TypeOK
  <2>9. ConfsOf(s)' = ConfsOf(s)
    BY <2>6, <2>8, ConfsStay DEF Stacks
  <2>10. base[p] = ConfsOf(s)
    BY <2>1, <2>4, <2>5, <2>7 DEF Matching, SettledDescribed, Described
  <2> QED
    BY <2>5, <2>7, <2>9, <2>10 DEF Described
<1> QED
  BY <1>2, <1>6, <1>7

\* What leaves the references, the projects, the records and all of the
\* containers but their run state as they are keeps every stack described.
LEMMA SameMatches ==
  ASSUME Known, Matching, [Next]_vars, UNCHANGED <<proj, base, flow>>,
         \A q \in Ops : op'[q].st = op[q].st,
         \A i \in Ids : /\ ctr'[i].name = ctr[i].name /\ ctr'[i].cfg = ctr[i].cfg
                        /\ ctr'[i].ns = ctr[i].ns
  PROVE  (SettledDescribed /\ ValidatedDescribed /\ WorkDescribed)'
<1>0. TypeInv /\ DraftsNew /\ AdoptedFirst
  BY DEF Known, UnderWay, Changes, Retains, Exclusion
<1>1. Live' = Live
  BY DEF Live
<1>2. \A q \in Live : /\ Project(q)' = Project(q) /\ Plan(q)'.base = Plan(q).base
                      /\ Snap(q)' = Snap(q)
  BY <1>0, ReadsFixed
<1>3. \A p \in Projects : Settled(p)' <=> Settled(p)
  BY <1>1, <1>2 DEF Settled, Live
<1>4. ASSUME NEW p \in Projects, proj[p] # <<>>, Described(p)
      PROVE  Described(p)'
  <2>1. PICK s : s = proj[p]
    OBVIOUS
  <2>2. s \in Stacks
    BY <1>0, <1>4, <2>1 DEF TypeInv, TypeOK
  <2>3. ConfsOf(s)' = ConfsOf(s)
    BY <2>2, ConfsStay DEF Stacks
  <2> QED
    BY <1>4, <2>1, <2>3 DEF Described
<1>5. SettledDescribed'
  BY <1>3, <1>4 DEF Matching, SettledDescribed
<1>6. ValidatedDescribed'
  <2>1. SUFFICES ASSUME NEW o \in Ops, flow[o].pc = "validate"
                 PROVE  Described(Project(o))'
    BY <1>0, <1>2, Flowing DEF ValidatedDescribed
  <2>2. o \in Live /\ Described(Project(o))
    BY <1>0, <2>1, Flowing DEF Matching, ValidatedDescribed
  <2>3. Project(o) \in Projects /\ proj[Project(o)] # <<>>
    BY <1>0, <2>2, LiveAdopted
  <2>4. PICK P : P = Project(o)
    OBVIOUS
  <2>5. Described(P)'
    BY <1>4, <2>2, <2>3, <2>4
  <2> QED
    BY <1>2, <2>2, <2>4, <2>5
<1>7. WorkDescribed'
  BY <1>1, <1>2 DEF Matching, WorkDescribed, AtWork, ConfsIn, Live
<1> QED
  BY <1>5, <1>6, <1>7

\* A cleanup changes no container that a project owns, but for what it removes.
LEMMA CleanupMatches ==
  ASSUME Known, Matching, [Next]_vars, NEW o \in Ops, CleanupBegin(o) \/ CleanupStep(o)
  PROVE  (SettledDescribed /\ ValidatedDescribed /\ WorkDescribed)'
<1>0. TypeInv /\ ctr \in [Ids -> Containers]
  BY OldTypes DEF Known, UnderWay, Changes, Retains
<1>1. UNCHANGED <<proj, base, flow>>
  BY DEF CleanupBegin, CleanupStep, CleanupVet, CleanupCheck, CleanupDelete, CleanupDone,
     untouched
<1>2. \A q \in Ops : op'[q].st = op[q].st
  BY <1>0, CleanupStepMarks DEF Marked, CleanupBegin
<1>3. ctr' = ctr \/ \E i : ctr' = RemovedC(i)
  BY DEF CleanupBegin, CleanupStep, CleanupVet, CleanupCheck, CleanupDelete, CleanupDone,
     ReadFails, Refused
<1>4. \A i : ctr' = RemovedC(i) => ctr' = [ctr EXCEPT ![i].st = "removed"]
  BY DEF RemovedC
<1>5. \A i \in Ids : /\ ctr'[i].name = ctr[i].name /\ ctr'[i].cfg = ctr[i].cfg
                     /\ ctr'[i].ns = ctr[i].ns
  BY <1>0, <1>3, <1>4 DEF Containers
<1> QED
  BY <1>1, <1>2, <1>5, SameMatches

\* A confirmed recovery hands back the originals, described as they were
\* (engine.ts:351-366).
LEMMA ConfirmMatches ==
  ASSUME OneProject, Journalled, Known, GoesBack, Matching, [Next]_vars,
         NEW r \in Requests, RecoveryConfirm(r), \A q \in Ops : flow[q].pc = "idle"
  PROVE  (SettledDescribed /\ ValidatedDescribed /\ WorkDescribed)'
<1>0. /\ TypeInv /\ Exclusion /\ AdoptedFirst /\ DraftsNew /\ OneUnfinished
      /\ proj \in [Projects -> Stacks \cup {<<>>}]
      /\ base \in [Projects -> [Slots -> Confs] \cup {<<>>}]
  BY OldTypes DEF Known, UnderWay, Changes, Retains, Exclusion
<1>1. PICK o : o = req[r].op
  OBVIOUS
<1>2. req[r].pc = "confirm" /\ ctr' = ctr /\ flow' = flow
  BY DEF RecoveryConfirm, ReadFails, Refused
<1>3. o \in Live /\ o \in Ops /\ op[o].st \in Stuck /\ Restored(o)
  BY <1>0, <1>1, <1>2 DEF Exclusion, ClaimsStuck, NeedsRecovery, Stuck, TypeInv, RequestsOK,
     Live, GoesBack, ConfirmsRestored
<1>4. CASE op' = op
  <2>1. op' # [op EXCEPT ![o].st = "rolled_back"]
    BY <1>0, <1>3, <1>4, OldTypes DEF Stuck, OpRec
  <2>2. UNCHANGED <<proj, base>>
    BY <1>1, <2>1 DEF RecoveryConfirm, Journalled, Fault
  <2> QED
    BY <1>2, <1>4, <2>2, SameMatches
<1>5. CASE op' # op
  <2>1. /\ \A q \in Ops \ {o} : op'[q] = op[q]
        /\ op'[o].st = "rolled_back"
    BY <1>0, <1>1, <1>5, ConfirmMarks
  <2>2. proj' = Returned(o) /\ base' = Former(o)
    BY <1>1, <1>5 DEF RecoveryConfirm, Journalled, Fault, ReadFails
  <2>3. /\ \A q \in Live : Project(q) = Project(o)
        /\ Project(o) \in Projects /\ \A p \in Projects : p = Project(o)
        /\ \A q \in Live : op[q].st \in Stuck => q = o
    BY <1>0, <1>3, LiveAdopted DEF OneProject, OneUnfinished, Unfinished, Stuck
  <2>4. \A q \in Live' : ~AtWork(q)'
    BY <1>2, <2>1, <2>3 DEF AtWork, Live, Stuck, Entries
  <2>5. WorkDescribed' /\ ValidatedDescribed'
    BY <1>2, <2>4 DEF WorkDescribed, ValidatedDescribed
  <2>6. PICK s : s = Originals(o)
    OBVIOUS
  <2>7. Plan(o).base = ConfsIn(Snap(o))
    BY <1>3 DEF Matching, WorkDescribed, AtWork
  <2>8. \A p \in Projects : proj'[p] = s /\ base'[p] = ConfsOf(s)
    BY <1>0, <1>3, <2>2, <2>3, <2>6, <2>7, RestoredConfs DEF Returned, Former
  <2>9. ConfsOf(s)' = ConfsOf(s)
    BY <1>2, ConfsStay
  <2> QED
    BY <2>5, <2>8, <2>9 DEF SettledDescribed, Described
<1> QED
  BY <1>4, <1>5

\* What begins to be validated is described by its reference.
LEMMA BeginMatches ==
  ASSUME OneProject, Journalled, Known, Matching, [Next]_vars,
         NEW o \in Ops, NEW l \in Plans, ApplyBegin(o, l),
         \A q \in Ops : flow[q].pc = "idle"
  PROVE  (SettledDescribed /\ ValidatedDescribed /\ WorkDescribed)'
<1>0. /\ TypeInv /\ Exclusion /\ AdoptedFirst /\ DraftsNew
  BY DEF Known, UnderWay, Changes, Retains, Exclusion
<1>1. Begun(o, l)
  BY <1>0, ApplyBegins
<1>2. PICK P : P = plan[l].project
  OBVIOUS
<1>3. P \in Projects /\ proj[P] # <<>> /\ Free(P)
  <2>1. plan[l] \in PlanRec \cup {NoPlanRec} /\ plan[l].st = "kept"
    BY <1>0, <1>1 DEF Begun, TypeInv, TypeOK
  <2> QED
    BY <1>0, <1>1, <1>2, <2>1 DEF Begun, AdoptedFirst, PlanRec, NoPlanRec
<1>4. \A q \in Live : op[q].st \notin Stuck \cup {"applying"}
  <2>1. \A q \in Live : Project(q) = P
    BY <1>0, <1>3, LiveAdopted DEF OneProject
  <2> QED
    BY <1>3, <2>1 DEF Free, Blocked, Unfinished, Stuck
<1>5. PICK s : s = proj[P]
  OBVIOUS
<1>6. base[P] = ConfsOf(s)
  BY <1>3, <1>4, <1>5 DEF Matching, SettledDescribed, Settled, Described
<1>7. /\ UNCHANGED <<ctr, proj, base>> /\ \A p \in Projects : p = P
      /\ Project(o)' = P
  BY <1>1, <1>2, <1>3 DEF Begun, OneProject, Project
<1>8. ConfsOf(s)' = ConfsOf(s)
  BY <1>7, ConfsStay
<1>9. Described(P)'
  BY <1>5, <1>6, <1>7, <1>8 DEF Described
<1>10. SettledDescribed' /\ ValidatedDescribed'
  <2>1. \A q \in Ops : flow'[q].pc = "validate" => q = o
    BY <1>1 DEF Begun
  <2> QED
    BY <1>7, <1>9, <2>1 DEF SettledDescribed, ValidatedDescribed
<1>11. WorkDescribed'
  <2>1. \A q \in Live' : ~AtWork(q)'
    BY <1>1, <1>4 DEF Begun, AtWork, Live, Stuck, Entries
  <2> QED
    BY <2>1 DEF WorkDescribed
<1> QED
  BY <1>10, <1>11

\* The other requests leave the reference of a stack alone, or adopt it as
\* inspected (engine.ts:205-225).
LEMMA AsideMatches ==
  ASSUME Undisturbed, OneProject, Known, Matching, [Next]_vars, Aside,
         \A q \in Ops : flow[q].pc = "idle"
  PROVE  (SettledDescribed /\ ValidatedDescribed /\ WorkDescribed)'
<1>0. /\ TypeInv /\ Exclusion /\ Placed /\ AdoptedFirst /\ DraftsNew /\ OneUnfinished
      /\ proj \in [Projects -> Stacks \cup {<<>>}]
      /\ base \in [Projects -> [Slots -> Confs] \cup {<<>>}]
  BY OldTypes DEF Known, UnderWay, Changes, Retains, Exclusion
<1>1. UNCHANGED <<op, flow>>
  BY AsideKeeps
<1>2. \A q \in Live : Project(q)' = Project(q) /\ Project(q) \in Projects
  BY <1>0, ReadsFixed, LiveAdopted
<1>3. CASE \E o \in Ops : OwnerRepairs(o)
  <2>1. PICK o \in Ops : OwnerRepairs(o)
    BY <1>3
  <2>2. o \in Live /\ op[o].st \in Stuck
    BY <2>1 DEF OwnerRepairs, NeedsRecovery, Stuck, Live
  <2>3. \A p \in Projects : ~Settled(p)'
    BY <1>1, <1>2, <2>2 DEF Settled, OneProject, Live
  <2>4. \A q \in Live : Plan(q)'.base = Plan(q).base /\ Snap(q)' = Snap(q)
    BY <1>0, ReadsFixed
  <2>5. WorkDescribed'
    BY <1>1, <2>4 DEF Matching, WorkDescribed, AtWork, ConfsIn, Live
  <2> QED
    BY <1>1, <2>3, <2>5 DEF SettledDescribed, ValidatedDescribed
<1>4. CASE ctr' = ctr /\ UNCHANGED <<proj, base>>
  BY <1>1, <1>4, SameMatches
<1>5. CASE \E p \in Projects : AdoptClaim(p)
  <2>1. PICK p \in Projects : AdoptClaim(p)
    BY <1>5
  <2>2. adopting[p].pc = "claim" /\ ctr' = ctr
    BY <2>1 DEF AdoptClaim, ReadFails, Refused
  <2>3. \A q : q \notin Live
    BY <1>0, <2>2, LiveAdopted DEF OneProject
  <2>4. WorkDescribed' /\ ValidatedDescribed'
    BY <1>1, <2>3 DEF WorkDescribed, ValidatedDescribed, Live
  <2>5. CASE UNCHANGED <<proj, base>>
    BY <1>4, <2>2, <2>5
  <2>6. CASE ~UNCHANGED <<proj, base>>
    <3>1. PICK s : s = adopting[p].own
      OBVIOUS
    <3>2. /\ base' = [base EXCEPT ![p] = adopting[p].confs]
          /\ proj' = [proj EXCEPT ![p] = s]
      BY <2>1, <2>6, <3>1 DEF AdoptClaim
    <3>3. adopting[p].confs = ConfsOf(s)
      BY <2>2, <3>1 DEF Matching, ClaimsDescribed
    <3>4. \A q \in Projects : proj'[q] = s /\ base'[q] = ConfsOf(s)
      BY <1>0, <3>2, <3>3 DEF OneProject
    <3>5. ConfsOf(s)' = ConfsOf(s)
      BY <2>2, ConfsStay
    <3> QED
      BY <2>4, <3>4, <3>5 DEF SettledDescribed, Described
  <2> QED
    BY <2>5, <2>6
<1>6. base' = base \/ \E p \in Projects : AdoptClaim(p)
  BY DEF Aside, AdoptBegin, AdoptInspect, RecoveryBegin, RecoveryInspect, OwnerRepairs,
     ExpireReview, Drift, PlanBegin, PlanStore, PlanObserve, ExpirePlan, ReviewRecovery,
     ReviewCleanup, Prune, vars, disk
<1> QED
  BY <1>3, <1>4, <1>5, <1>6, AsideMoves

\* An adoption claims the stack as it is: nothing is changed before a stack is
\* adopted.
LEMMA StepClaimsDescribed ==
  ASSUME Undisturbed, OneProject, Known, ClaimsDescribed, [Next]_vars
  PROVE  ClaimsDescribed'
<1>0. /\ TypeInv /\ Exclusion /\ AdoptedFirst
  BY DEF Known, UnderWay, Changes, Retains
<1> SUFFICES ASSUME NEW p \in Projects, adopting'[p].pc = "claim"
             PROVE  (adopting[p].confs = ConfsOf(adopting[p].own))'
  BY DEF ClaimsDescribed
<1>1. PICK s : s = adopting'[p].own
  OBVIOUS
<1>2. adopting[p].pc # "idle" /\ adopting'[p].confs = ConfsOf(s)
  <2>1. AdoptMoves(p)
    BY <1>0, StepAdopts
  <2>2. \A c : adopting'[p] = [pc |-> "inspect", own |-> c] => adopting'[p].pc = "inspect"
    OBVIOUS
  <2>3. CASE adopting'[p] = adopting[p]
    BY <1>1, <2>3 DEF ClaimsDescribed
  <2> QED
    BY <1>1, <2>1, <2>2, <2>3 DEF AdoptMoves
<1>3. ctr' = ctr
  BY <1>0, <1>2, NothingChanges
<1>4. ConfsOf(s)' = ConfsOf(s)
  BY <1>3, ConfsStay
<1> QED
  BY <1>1, <1>2, <1>4 DEF ConfsOf, ConfOf

\* Every step keeps what references say.
LEMMA StepMatches ==
  ASSUME Undisturbed, OneProject, Journalled, Answered, Known, Held, GoesBack,
         Matching, Current, [Next]_vars
  PROVE  Matching'
<1>0. /\ TypeInv /\ Exclusion /\ AdoptedFirst
  BY DEF Known, UnderWay, Changes, Retains
<1>1. ClaimsDescribed'
  BY StepClaimsDescribed DEF Matching
<1>2. ASSUME NEW o \in Ops, flow[o].pc # "idle"
      PROVE  (SettledDescribed /\ ValidatedDescribed /\ WorkDescribed)'
  <2>1. CASE ApplyStep(o)
    BY <2>1, ApplyMatches
  <2>2. CASE Crash
    BY <2>2, CrashMatches
  <2>3. CASE UNCHANGED <<ctr, proj, base, op, flow, clean, locks>>
    BY <2>3, SameMatches
  <2> QED
    BY <1>0, <1>2, <2>1, <2>2, <2>3, OnlyApply
<1>3. ASSUME \A q \in Ops : flow[q].pc = "idle"
      PROVE  (SettledDescribed /\ ValidatedDescribed /\ WorkDescribed)'
  <2>1. CASE Aside
    BY <1>3, <2>1, AsideMatches
  <2>2. CASE Crash
    BY <2>2, CrashMatches
  <2>3. CASE \E o \in Ops, l \in Plans : ApplyBegin(o, l)
    BY <1>3, <2>3, BeginMatches
  <2>4. CASE \E o \in Ops : ApplyStep(o)
    BY <1>3, <2>4, ApplyRuns
  <2>5. CASE \E o \in Ops : CleanupBegin(o) \/ CleanupStep(o)
    BY <2>5, CleanupMatches
  <2>6. CASE \E r \in Requests : RecoveryConfirm(r)
    BY <1>3, <2>6, ConfirmMatches
  <2> QED
    BY <2>1, <2>2, <2>3, <2>4, <2>5, <2>6, NextCases
<1> QED
  BY <1>1, <1>2, <1>3 DEF Matching

\* Nothing is adopted at first.
LEMMA InitMatches == Init => Matching
<1> SUFFICES ASSUME Init PROVE Matching
  OBVIOUS
<1>1. /\ \A p \in Projects : proj[p] = <<>> /\ adopting[p].pc = "idle"
      /\ \A o \in Ops : flow[o].pc = "idle" /\ op[o].st = "none"
  BY DEF Init, IdleAdopt, IdleFlow, NoOp
<1> QED
  BY <1>1 DEF Matching, SettledDescribed, ValidatedDescribed, WorkDescribed,
     ClaimsDescribed, Live

\* What is known of a helper to which nothing that is out of date is given.
LEMMA MatchesKept ==
  /\ OneRequest /\ OneProject /\ Journalled /\ Undisturbed /\ Answered
  /\ Spec /\ []Current
  => [](Known /\ Held /\ GoesBack /\ Matching)
<1>1. Known /\ Matching /\ Current => Fresh
  BY CurrentFresh DEF Known, UnderWay, Changes, Retains, Matching
<1>2. /\ Undisturbed /\ OneProject /\ Journalled /\ Answered /\ Known /\ Known'
      /\ Held /\ GoesBack /\ Matching /\ Current /\ [Next]_vars
      => Held' /\ GoesBack' /\ Matching'
  BY <1>1, StepHeld, StepGoesBack, StepMatches
<1>3. /\ OneRequest => []OneRequest
      /\ Undisturbed => []Undisturbed
      /\ OneProject => []OneProject
      /\ Journalled => []Journalled
      /\ Answered => []Answered
  OBVIOUS
<1>4. Init => Held /\ GoesBack /\ Matching
  BY InitHeld, InitBack, InitMatches
<1>5. OneRequest /\ OneProject /\ Journalled /\ Undisturbed /\ Spec => []Known
  BY Retained, JournalKept, ChangesUnderWay, PTL DEF Known
<1> QED
  BY <1>2, <1>3, <1>4, <1>5, PTL DEF Spec

\* A stack that nothing works on is described by its reference: drift shows what
\* somebody else did, never what the engine left behind (engine.ts:442, 471,
\* 484, 496, 360), as long as every answer comes and no plan is out of date.
THEOREM ReferencesMatch ==
  /\ OneRequest /\ OneProject /\ Journalled /\ Undisturbed /\ Answered
  /\ Spec /\ []Current
  => []ReferenceMatches
<1>1. Known /\ Matching => ReferenceMatches
  BY DEF Matching, SettledDescribed, Settled, Described, ReferenceMatches, Free, Blocked,
     Unfinished, Stuck
<1> QED
  BY <1>1, MatchesKept, PTL

-----------------------------------------------------------------------------
(* A single change.                                                        *)

OneOperation == \A a, b \in Ops : a = b
\* What is prepared and planned before any operation begins is of the stack as
\* it is.
DraftCurrent(l) ==
  /\ draft[l].pc = "observe" => draft[l].own = proj[draft[l].project]
  /\ draft[l].pc = "store" => ConfsIn(draft[l].snap) = base[draft[l].project]
PlanCurrent(l) ==
  plan[l].st # "none" =>
    plan[l].base = base[plan[l].project] /\ plan[l].base = ConfsIn(plan[l].snap)
AllCurrent ==
  /\ \A p \in Projects : proj[p] # <<>> => Described(p)
  /\ \A l \in Plans : DraftCurrent(l) /\ PlanCurrent(l)
Early == /\ Live = {} => AllCurrent
         /\ ClaimsDescribed /\ ValidatedDescribed /\ Current

\* Before an operation begins only an adoption writes a reference or a project,
\* and nothing is planned before that.
LEMMA EarlyMoves ==
  ASSUME Undisturbed, OneProject, Journalled, Known, [Next]_vars, Live' = {}
  PROVE  /\ Live = {} /\ ctr' = ctr
         /\ \/ UNCHANGED <<proj, base>>
            \/ /\ UNCHANGED <<draft, plan>>
               /\ \A l \in Plans : draft[l].pc = "idle" /\ plan[l].st = "none"
               /\ \E p \in Projects : /\ adopting[p].pc = "claim"
                                      /\ proj' = [proj EXCEPT ![p] = adopting[p].own]
                                      /\ base' = [base EXCEPT ![p] = adopting[p].confs]
<1>0. TypeInv /\ Exclusion /\ AdoptedFirst
  BY DEF Known, UnderWay, Changes, Retains
<1>1. Live = {}
  BY <1>0, OpsFixed DEF Live, Exclusion
<1>2. \A o \in Ops : flow[o].pc = "idle" /\ clean[o].pc = "idle"
  BY <1>0, <1>1 DEF Exclusion, BusyLocked, Busy
<1>3. \A r \in Requests : req[r].pc = "idle"
  BY <1>0, <1>1 DEF TypeInv, RequestsOK
<1>4. CASE Aside
  <2>1. ctr' = ctr
    BY <1>1, <1>4, AsideMoves DEF OwnerRepairs, NeedsRecovery, Live
  <2>2. UNCHANGED <<proj, base>> \/ \E p \in Projects : AdoptClaim(p)
    BY <1>4 DEF Undisturbed, Aside, AdoptBegin, AdoptInspect, RecoveryBegin, RecoveryInspect, OwnerRepairs,
       ExpireReview, Drift, PlanBegin, PlanStore, PlanObserve, ExpirePlan, ReviewRecovery,
       ReviewCleanup, Prune, vars, disk
  <2>3. ASSUME NEW p \in Projects, AdoptClaim(p)
        PROVE  \/ UNCHANGED <<proj, base>>
               \/ /\ UNCHANGED <<draft, plan>>
                  /\ \A l \in Plans : draft[l].pc = "idle" /\ plan[l].st = "none"
                  /\ adopting[p].pc = "claim"
                  /\ proj' = [proj EXCEPT ![p] = adopting[p].own]
                  /\ base' = [base EXCEPT ![p] = adopting[p].confs]
    <3>1. adopting[p].pc = "claim" /\ proj[p] = <<>> /\ \A q \in Projects : q = p
      BY <1>0, <2>3 DEF AdoptClaim, AdoptedFirst, OneProject
    <3>2. \A l \in Plans : draft[l].pc = "idle" /\ plan[l].st = "none"
      <4>1. \A l \in Plans : draft[l].pc # "idle" => draft[l].project \in Projects
        BY <1>0 DEF TypeInv, TypeOK, DraftRec, IdleDraft
      <4>2. \A l \in Plans : plan[l].st # "none" => plan[l].project \in Projects
        BY <1>0 DEF TypeInv, TypeOK, PlanRec, NoPlanRec
      <4> QED
        BY <1>0, <3>1, <4>1, <4>2 DEF AdoptedFirst
    <3> QED
      BY <2>3, <3>1, <3>2 DEF AdoptClaim
  <2> QED
    BY <1>1, <2>1, <2>2, <2>3
<1>5. CASE Crash
  <2>1. ctr' = ctr
    BY <1>2, <1>5, UnansweredHandles, <1>0 DEF Known, UnderWay, Changes, Retains, Crash, Stray
  <2>2. UNCHANGED <<proj, base>>
    BY <1>2, <1>3, <1>5 DEF Crash, Torn
  <2> QED
    BY <1>1, <2>1, <2>2
<1>6. ~\E o \in Ops, l \in Plans : ApplyBegin(o, l)
  BY <1>0, ApplyBegins DEF Begun, Live
<1>7. ~\E o \in Ops : ApplyStep(o) \/ CleanupBegin(o) \/ CleanupStep(o)
  BY <1>1, <1>2, ApplyRuns DEF CleanupBegin, CleanupStep, CleanupVet, CleanupCheck,
     CleanupDelete, CleanupDone, Cleanable, Live
<1>8. ~\E r \in Requests : RecoveryConfirm(r)
  BY <1>3 DEF RecoveryConfirm
<1> QED
  BY <1>4, <1>5, <1>6, <1>7, <1>8, NextCases

\* What an observation of a stack shows is what is inspected.
LEMMA ObservedConfs ==
  ASSUME NEW s
  PROVE  ConfsIn(Observed(s)) = ConfsOf(s)
BY DEF ConfsIn, Observed, ConfsOf, Seen

\* So what is planned stays current.
LEMMA EarlyCurrent ==
  ASSUME Undisturbed, OneProject, Journalled, Known, Early, [Next]_vars, Live' = {}
  PROVE  AllCurrent'
<1>0. /\ TypeInv /\ Exclusion /\ AdoptedFirst /\ DraftsNew
      /\ proj \in [Projects -> Stacks \cup {<<>>}]
      /\ base \in [Projects -> [Slots -> Confs] \cup {<<>>}]
  BY OldTypes DEF Known, UnderWay, Changes, Retains, Exclusion
<1>1. Live = {} /\ ctr' = ctr /\ AllCurrent
  BY EarlyMoves DEF Early
<1>2. CASE UNCHANGED <<proj, base>>
  <2>1. ASSUME NEW p \in Projects, proj'[p] # <<>>
        PROVE  Described(p)'
    BY <1>1, <1>2, <2>1 DEF AllCurrent, Described, ConfsOf, ConfOf
  <2>2. ASSUME NEW l \in Plans
        PROVE  DraftCurrent(l)'
    <3>1. CASE draft'[l] = draft[l]
      BY <1>1, <1>2, <3>1 DEF AllCurrent, DraftCurrent, ConfsIn
    <3>2. CASE draft'[l].pc = "idle"
      BY <3>2 DEF DraftCurrent
    <3>3. ASSUME NEW p \in Projects,
                 draft'[l] = [pc |-> "observe", project |-> p, own |-> proj[p]]
          PROVE  DraftCurrent(l)'
      BY <1>2, <3>3 DEF DraftCurrent
    <3>4. CASE /\ draft[l].pc = "observe"
               /\ draft'[l] = [pc |-> "store", project |-> draft[l].project,
                               snap |-> Observed(draft[l].own)]
      <4>1. PICK p, s : p = draft[l].project /\ s = draft[l].own
        OBVIOUS
      <4>2. s = proj[p] /\ proj[p] # <<>> /\ p \in Projects
        BY <1>0, <1>1, <3>4, <4>1 DEF AllCurrent, DraftCurrent, AdoptedFirst, TypeInv, TypeOK,
           DraftRec, IdleDraft
      <4>3. base[p] = ConfsIn(Observed(s))
        BY <1>1, <4>2, ObservedConfs DEF AllCurrent, Described
      <4>4. draft'[l].pc = "store" /\ draft'[l].project = p /\ draft'[l].snap = Observed(s)
        BY <3>4, <4>1
      <4>5. ConfsIn(draft'[l].snap) = base[p]
        BY <4>3, <4>4
      <4> QED
        BY <1>2, <4>4, <4>5 DEF DraftCurrent, ConfsIn
    <3> QED
      BY <1>0, <3>1, <3>2, <3>3, <3>4, StepDrafts DEF DraftMoves
  <2>3. ASSUME NEW l \in Plans
        PROVE  PlanCurrent(l)'
    <3>1. CASE plan[l].st # "none"
      <4>1. /\ plan'[l].project = plan[l].project /\ plan'[l].base = plan[l].base
            /\ plan'[l].snap = plan[l].snap
        BY <1>0, <3>1, PlansFixed DEF PlanFixed
      <4> QED
        BY <1>1, <1>2, <3>1, <4>1 DEF AllCurrent, PlanCurrent, ConfsIn
    <3>2. CASE plan[l].st = "none"
      <4>1. CASE plan'[l] = plan[l]
        BY <3>2, <4>1 DEF PlanCurrent
      <4>2. CASE plan'[l] # plan[l]
        <5>1. /\ draft[l].pc = "store" /\ plan'[l].project = draft[l].project
              /\ plan'[l].snap = draft[l].snap /\ plan'[l].base = base[draft[l].project]
          BY <1>0, <3>2, <4>2, StepPlan
        <5>2. ConfsIn(draft[l].snap) = base[draft[l].project]
          BY <1>1, <5>1 DEF AllCurrent, DraftCurrent
        <5> QED
          BY <1>2, <5>1, <5>2 DEF PlanCurrent, ConfsIn
      <4> QED
        BY <4>1, <4>2
    <3> QED
      BY <3>1, <3>2
  <2> QED
    BY <2>1, <2>2, <2>3 DEF AllCurrent
<1>3. CASE ~UNCHANGED <<proj, base>>
  <2>1. /\ \A l \in Plans : draft'[l].pc = "idle" /\ plan'[l].st = "none"
        /\ \E p \in Projects : /\ adopting[p].pc = "claim"
                               /\ proj' = [proj EXCEPT ![p] = adopting[p].own]
                               /\ base' = [base EXCEPT ![p] = adopting[p].confs]
    BY <1>3, EarlyMoves
  <2>2. \A l \in Plans : DraftCurrent(l)' /\ PlanCurrent(l)'
    BY <2>1 DEF DraftCurrent, PlanCurrent
  <2>3. PICK p \in Projects : /\ adopting[p].pc = "claim"
                              /\ proj' = [proj EXCEPT ![p] = adopting[p].own]
                              /\ base' = [base EXCEPT ![p] = adopting[p].confs]
    BY <2>1
  <2>4. PICK s : s = adopting[p].own
    OBVIOUS
  <2>5. \A q \in Projects : proj'[q] = s /\ base'[q] = ConfsOf(s)
    BY <1>0, <2>3, <2>4 DEF Early, ClaimsDescribed, OneProject
  <2>6. ConfsOf(s)' = ConfsOf(s)
    BY <1>1, ConfsStay
  <2> QED
    BY <2>2, <2>5, <2>6 DEF AllCurrent, Described
<1> QED
  BY <1>2, <1>3

\* And what is validated is current: the only operation begins, and is not
\* validated a second time.
LEMMA StepEarly ==
  ASSUME Undisturbed, OneProject, OneOperation, Journalled, Known, Early, [Next]_vars
  PROVE  Early'
<1>0. /\ TypeInv /\ Exclusion /\ AdoptedFirst /\ DraftsNew
      /\ plan \in [Plans -> PlanRec \cup {NoPlanRec}]
  BY DEF Known, UnderWay, Changes, Retains, Exclusion, TypeInv, TypeOK
<1>1. (Live = {} => AllCurrent)'
  BY EarlyCurrent
<1>2. ClaimsDescribed'
  BY StepClaimsDescribed DEF Early
<1>3. ASSUME NEW o \in Ops, flow'[o].pc = "validate"
      PROVE  /\ Described(Project(o))'
             /\ (Plan(o).base = base[Project(o)])' /\ (Plan(o).base = ConfsIn(Snap(o)))'
  <2>1. CASE flow[o].pc = "idle"
    <3>1. PICK l \in Plans : ApplyBegin(o, l)
      BY <1>0, <1>3, <2>1, FlowBegins
    <3>2. Begun(o, l)
      BY <1>0, <3>1, ApplyBegins
    <3>3. Live = {}
      BY <3>2 DEF Begun, Live, OneOperation
    <3>4. PICK P : P = plan[l].project
      OBVIOUS
    <3>5. P \in Projects /\ proj[P] # <<>> /\ PlanCurrent(l) /\ plan[l].st # "none"
      BY <1>0, <3>2, <3>3, <3>4 DEF Begun, AdoptedFirst, PlanRec, NoPlanRec, Early, AllCurrent
    <3>6. Described(P)
      BY <3>3, <3>5 DEF Early, AllCurrent
    <3>7. UNCHANGED <<ctr, proj, base, plan>> /\ op'[o].plan = l
      BY <3>2 DEF Begun
    <3>8. Described(P)'
      BY <3>6, <3>7 DEF Described, ConfsOf, ConfOf
    <3>9. /\ Project(o)' = P /\ Plan(o)'.base = plan[l].base /\ Snap(o)' = plan[l].snap
      BY <3>4, <3>7 DEF Project, Plan, Snap
    <3>10. plan[l].base = base[P] /\ plan[l].base = ConfsIn(plan[l].snap)
      BY <3>4, <3>5 DEF PlanCurrent
    <3> QED
      BY <3>7, <3>8, <3>9, <3>10 DEF Described, ConfsIn
  <2>2. CASE flow[o].pc # "idle"
    <3>1. ~Crash
      BY <1>3 DEF Crash, IdleFlow
    <3>2. ~ApplyStep(o)
      BY <1>0, <1>3, ApplyLeaves DEF Leaves, IdleFlow, Entries
    <3>3. UNCHANGED <<ctr, proj, base, op, flow, clean, locks>>
      BY <1>0, <2>2, <3>1, <3>2, OnlyApply
    <3>4. o \in Live /\ flow[o].pc = "validate"
      BY <1>0, <1>3, <2>2, <3>3, Flowing
    <3>5. Project(o)' = Project(o) /\ Plan(o)'.base = Plan(o).base /\ Snap(o)' = Snap(o)
      BY <1>0, <3>4, ReadsFixed
    <3>6. /\ Described(Project(o)) /\ Plan(o).base = base[Project(o)]
          /\ Plan(o).base = ConfsIn(Snap(o))
      BY <3>4 DEF Early, ValidatedDescribed, Current
    <3> QED
      BY <3>3, <3>5, <3>6 DEF Described, ConfsOf, ConfOf, ConfsIn
  <2> QED
    BY <2>1, <2>2
<1> QED
  BY <1>1, <1>2, <1>3 DEF Early, ValidatedDescribed, Current

\* Nothing is planned at first.
LEMMA InitEarly == Init => Early
<1> SUFFICES ASSUME Init PROVE Early
  OBVIOUS
<1>1. /\ \A p \in Projects : proj[p] = <<>> /\ adopting[p].pc = "idle"
      /\ \A o \in Ops : flow[o].pc = "idle"
      /\ \A l \in Plans : draft[l].pc = "idle" /\ plan[l].st = "none"
  BY DEF Init, IdleAdopt, IdleFlow, IdleDraft, NoPlanRec
<1> QED
  BY <1>1 DEF Early, AllCurrent, DraftCurrent, PlanCurrent, ClaimsDescribed,
     ValidatedDescribed, Current

\* With a single operation no plan is out of date when it is applied.
LEMMA OneIsCurrent ==
  OneRequest /\ OneProject /\ OneOperation /\ Journalled /\ Undisturbed /\ Spec
    => []Current /\ []Fresh
<1>1. Known /\ Early => Current /\ Fresh
  BY CurrentFresh DEF Known, UnderWay, Changes, Retains, Early
<1>2. Undisturbed /\ OneProject /\ OneOperation /\ Journalled /\ Known /\ Early /\ [Next]_vars
        => Early'
  BY StepEarly
<1>3. /\ Undisturbed => []Undisturbed
      /\ OneProject => []OneProject
      /\ OneOperation => []OneOperation
      /\ Journalled => []Journalled
  OBVIOUS
<1>4. OneRequest /\ OneProject /\ Journalled /\ Undisturbed /\ Spec => []Known
  BY Retained, JournalKept, ChangesUnderWay, PTL DEF Known
<1> QED
  BY <1>1, <1>2, <1>3, <1>4, InitEarly, PTL DEF Spec

\* So a single change, whatever fails in it and over restarts, leaves a stack
\* complete, and keeps its originals when it succeeds (engine.ts:183-197,
\* 447-489).
THEOREM OneChangeKeeps ==
  OneRequest /\ OneProject /\ OneOperation /\ Journalled /\ Undisturbed /\ Spec
    => []StackIntact /\ []OriginalsRetained
BY OneIsCurrent, StacksIntact, OriginalsKept, PTL

\* When every answer comes, too, it is undone wholly when it fails, and leaves
\* the stack described by its reference either way (engine.ts:442, 471, 478-489,
\* 496, 355-364).
THEOREM OneChangeRestores ==
  OneRequest /\ OneProject /\ OneOperation /\ Journalled /\ Undisturbed /\ Answered /\ Spec
    => []ReferenceMatches /\ RollbackRestores
BY OneIsCurrent, ReferencesMatch, RollbackWholly, PTL

-----------------------------------------------------------------------------
(* Several projects.                                                       *)

\* What is known of the operations of any number of projects.
Orderly == TypeInv /\ Exclusion /\ Placed /\ AdoptedFirst /\ JournalTrue

\* How a step moves an operation: it leaves it as it is, steps or begins its
\* apply, cleans up, cuts it off, or hands its project back.
OperationMoves(o) ==
  \/ op'[o] = op[o] /\ flow'[o] = flow[o]
  \/ ApplyStep(o) /\ Onward(o)
  \/ ApplyStep(o) /\ \E st \in {"succeeded", "rolled_back", "rollback_failed"} : Ended(o, st)
  \/ \E l \in Plans : Begun(o, l)
  \/ CleanupStep(o) /\ flow'[o] = flow[o] /\ \E u : Marked(o, u)
  \/ Crash /\ op'[o] = Restarted[o] /\ flow'[o] = IdleFlow
  \/ /\ \E r \in Requests : RecoveryConfirm(r) /\ req[r].op = o
     /\ flow'[o] = flow[o] /\ op[o].st \in Stuck
     /\ op'[o].st = "rolled_back" /\ op'[o].cleaned = op[o].cleaned

\* Every step moves each operation so.
LEMMA StepOperations ==
  ASSUME Orderly, Journalled, [Next]_vars, NEW o \in Ops
  PROVE  OperationMoves(o)
<1>0. TypeInv /\ JournalTrue /\ Exclusion
  BY DEF Orderly
<1>1. CASE Aside
  BY <1>1, AsideKeeps DEF OperationMoves
<1>2. CASE Crash
  BY <1>2 DEF Crash, OperationMoves
<1>3. ASSUME NEW q \in Ops, NEW l \in Plans, ApplyBegin(q, l)
      PROVE  OperationMoves(o)
  <2>1. Begun(q, l)
    BY <1>0, <1>3, ApplyBegins
  <2>2. CASE q = o
    BY <2>1, <2>2 DEF OperationMoves
  <2>3. CASE q # o
    BY <2>1, <2>3 DEF OperationMoves, Begun
  <2> QED
    BY <2>2, <2>3
<1>4. ASSUME NEW q \in Ops, ApplyStep(q)
      PROVE  OperationMoves(o)
  <2>1. \/ Onward(q)
        \/ \E st \in {"succeeded", "rolled_back", "rollback_failed"} : Ended(q, st)
    BY <1>0, <1>4, ApplyMoves
  <2>2. CASE q = o
    BY <1>4, <2>1, <2>2 DEF OperationMoves
  <2>3. CASE q # o
    BY <2>1, <2>3 DEF OperationMoves, Onward, Ended
  <2> QED
    BY <2>2, <2>3
<1>5. ASSUME NEW q \in Ops, CleanupBegin(q)
      PROVE  OperationMoves(o)
  BY <1>5 DEF CleanupBegin, untouched, OperationMoves
<1>6. ASSUME NEW q \in Ops, CleanupStep(q)
      PROVE  OperationMoves(o)
  <2>1. flow' = flow
    BY <1>6 DEF CleanupStep, CleanupVet, CleanupCheck, CleanupDelete, CleanupDone, untouched
  <2>2. \E u : Marked(q, u)
    BY <1>0, <1>6, CleanupStepMarks
  <2>3. CASE q = o
    BY <1>6, <2>1, <2>2, <2>3 DEF OperationMoves
  <2>4. CASE q # o
    BY <2>1, <2>2, <2>4 DEF OperationMoves, Marked
  <2> QED
    BY <2>3, <2>4
<1>7. ASSUME NEW r \in Requests, RecoveryConfirm(r)
      PROVE  OperationMoves(o)
  <2>1. flow' = flow
    BY <1>7 DEF RecoveryConfirm
  <2>2. PICK q : q = req[r].op
    OBVIOUS
  <2>3. q \in Ops /\ op[q].st \in Stuck
    BY <1>0, <1>7, <2>2, Requesting
    DEF Exclusion, ClaimsStuck, NeedsRecovery, Stuck, RecoveryConfirm, Live
  <2>4. CASE op' = op
    BY <2>1, <2>4 DEF OperationMoves
  <2>5. CASE op' # op
    <3>1. /\ \A p \in Ops \ {q} : op'[p] = op[p]
          /\ op'[q].st = "rolled_back" /\ op'[q].cleaned = op[q].cleaned
      BY <1>0, <1>7, <2>2, <2>5, ConfirmMarks
    <3>2. CASE q = o
      BY <1>7, <2>1, <2>2, <2>3, <3>1, <3>2 DEF OperationMoves
    <3>3. CASE q # o
      BY <2>1, <3>1, <3>3 DEF OperationMoves
    <3> QED
      BY <3>2, <3>3
  <2> QED
    BY <2>4, <2>5
<1> QED
  BY <1>1, <1>2, <1>3, <1>4, <1>5, <1>6, <1>7, NextCases

\* An operation that works, or whose handler has not returned.
Working(o) == AtWork(o) \/ flow[o].pc # "idle"

\* An operation under way keeps every other out of its project.
LEMMA WorkingAlone ==
  ASSUME Orderly, NEW o \in Live, NEW w \in Live, Working(o), Working(w),
         Project(o) = Project(w)
  PROVE  o = w
<1>1. \A q \in Live : Working(q) => Unfinished(q)
  BY DEF Orderly, JournalTrue, Working, AtWork, Stuck, Entries, Unfinished, Live
<1> QED
  BY <1>1 DEF Orderly, Exclusion, OneUnfinished

\* A project is claimed by an adoption.
Claims(p) ==
  /\ adopting[p].pc = "claim" /\ proj[p] = <<>>
  /\ proj'[p] = adopting[p].own /\ Members(adopting[p].own) \cap Owned = {}
  /\ \A q \in Projects \ {p} : proj'[q] = proj[q]
  /\ UNCHANGED <<op, flow, plan>>
\* How a step changes whom a project goes to: it is claimed, or goes from an
\* operation at work to its originals or replacements.  That operation is done
\* then, or is cut off, or goes on with its originals.
OwnerMoves(p) ==
  \/ proj'[p] = proj[p]
  \/ Claims(p)
  \/ \E o \in Live :
       /\ AtWork(o) /\ Project(o) = p
       /\ \/ proj'[p] = Originals(o)
          \/ flow[o].pc = "commit" /\ proj'[p] = flow[o].created
       /\ \/ Crash /\ (flow[o].pc = "commit" \/ op[o].st \in Stuck)
          \/ flow[o].pc = "disown" /\ proj'[p] = Originals(o)
          \/ op'[o].st \in {"succeeded", "rolled_back"} /\ flow'[o].pc = "idle"

\* Every step changes it so.
LEMMA StepOwners ==
  ASSUME Orderly, Journalled, [Next]_vars, NEW p \in Projects
  PROVE  OwnerMoves(p)
<1>0. /\ TypeInv /\ Exclusion /\ JournalTrue /\ AdoptedFirst
      /\ proj \in [Projects -> Stacks \cup {<<>>}]
  BY DEF Orderly, TypeInv, TypeOK
<1>1. CASE proj' = proj
  BY <1>1 DEF OwnerMoves
<1>2. CASE Aside /\ proj' # proj
  <2>1. PICK q \in Projects : AdoptClaim(q)
    BY <1>2 DEF Aside, AdoptBegin, AdoptInspect, RecoveryBegin, RecoveryInspect,
       OwnerRepairs, Drift, ExpireReview, PlanBegin, PlanStore, PlanObserve,
       ExpirePlan, ReviewRecovery, ReviewCleanup, Prune, vars, disk
  <2>2. /\ proj' = [proj EXCEPT ![q] = adopting[q].own] /\ adopting[q].pc = "claim"
        /\ Members(adopting[q].own) \cap Owned = {} /\ UNCHANGED <<op, flow, plan>>
    BY <1>2, <2>1 DEF AdoptClaim
  <2>3. proj[q] = <<>>
    BY <1>0, <2>2 DEF AdoptedFirst
  <2> QED
    BY <1>0, <2>2, <2>3 DEF OwnerMoves, Claims
<1>3. ASSUME NEW r \in Requests, req[r].pc = "confirm"
      PROVE  req[r].op \in Live /\ op[req[r].op].st \in Stuck /\ AtWork(req[r].op)
  BY <1>0, <1>3, Requesting DEF Exclusion, ClaimsStuck, NeedsRecovery, AtWork, Stuck
<1>4. CASE Crash /\ proj' # proj
  <2>1. CASE \E o \in Ops : flow[o].pc = "commit" /\ proj' = Rebound(o)
    <3>1. PICK o \in Ops : flow[o].pc = "commit" /\ proj' = Rebound(o)
      BY <2>1
    <3>2. o \in Live /\ AtWork(o)
      BY <1>0, <3>1, Flowing DEF AtWork, Entries
    <3>3. proj'[p] = proj[p] \/ (Project(o) = p /\ proj'[p] = flow[o].created)
      BY <1>0, <3>1 DEF Rebound
    <3> QED
      BY <1>4, <3>1, <3>2, <3>3 DEF OwnerMoves
  <2>2. CASE \E r \in Requests : req[r].pc = "confirm" /\ proj' = Returned(req[r].op)
    <3>1. PICK r \in Requests : req[r].pc = "confirm" /\ proj' = Returned(req[r].op)
      BY <2>2
    <3>2. PICK o : o = req[r].op
      OBVIOUS
    <3>3. o \in Live /\ op[o].st \in Stuck /\ AtWork(o)
      BY <1>3, <3>1, <3>2
    <3>4. proj'[p] = proj[p] \/ (Project(o) = p /\ proj'[p] = Originals(o))
      BY <1>0, <3>1, <3>2 DEF Returned
    <3> QED
      BY <1>4, <3>3, <3>4 DEF OwnerMoves
  <2> QED
    BY <1>4, <2>1, <2>2 DEF Crash, Torn
<1>5. ASSUME NEW r \in Requests, RecoveryConfirm(r), proj' # proj
      PROVE  OwnerMoves(p)
  <2>1. PICK o : o = req[r].op
    OBVIOUS
  <2>2. o \in Live /\ op[o].st \in Stuck /\ AtWork(o)
    BY <1>3, <1>5, <2>1 DEF RecoveryConfirm
  <2>3. ~Fault("save")
    BY DEF Fault, Journalled
  <2>4. /\ proj' = Returned(o) /\ op' = [op EXCEPT ![o].st = "rolled_back"]
        /\ flow' = flow
    BY <1>5, <2>1, <2>3 DEF RecoveryConfirm
  <2>5. o \in Ops /\ op[o] \in OpRec
    BY <1>0, <2>2 DEF Live, TypeInv, TypeOK
  <2>6. op'[o].st = "rolled_back"
    BY <1>0, <2>4, <2>5 DEF OpRec, TypeInv, TypeOK
  <2>7. flow[o].pc = "idle"
    BY <1>0, <2>2, <2>5 DEF JournalTrue, Stuck
  <2>8. proj'[p] = proj[p] \/ (Project(o) = p /\ proj'[p] = Originals(o))
    BY <1>0, <2>4 DEF Returned
  <2> QED
    BY <2>2, <2>4, <2>6, <2>7, <2>8 DEF OwnerMoves
<1>6. ASSUME NEW o \in Ops, ApplyStep(o), proj' # proj
      PROVE  OwnerMoves(p)
  <2>0. ~Fault("save")
    BY DEF Fault, Journalled
  <2>1. Commit(o) \/ RestoreOwnership(o)
    BY <1>6, <2>0 DEF ApplyStep, ValidationFails, NothingToChange, Prepared,
       StopOriginal, RenameOriginal, CreateReplacement, StartReplacement,
       AwaitReplacement, VerifyNamespace, BeginRollback, DiscardReplacement,
       RestoreName, RestartOriginal, RolledBack, StopEverything,
       RollbackFailed, still, disk, CommitFails
  <2>2. CASE RestoreOwnership(o)
    <3>1. flow[o].pc = "disown" /\ proj' = [proj EXCEPT ![Project(o)] = Originals(o)]
      BY <1>6, <2>2 DEF RestoreOwnership
    <3>2. o \in Live /\ AtWork(o)
      BY <1>0, <3>1, Flowing DEF AtWork, Entries
    <3>3. proj'[p] = proj[p] \/ (Project(o) = p /\ proj'[p] = Originals(o))
      BY <1>0, <3>1
    <3> QED
      BY <3>1, <3>2, <3>3 DEF OwnerMoves
  <2>3. CASE Commit(o)
    <3>1. flow[o].pc = "commit" /\ proj' = Rebound(o)
      BY <2>3 DEF Commit
    <3>2. o \in Live /\ AtWork(o)
      BY <1>0, <3>1, Flowing DEF AtWork, Entries
    <3>3. proj'[p] = proj[p] \/ (Project(o) = p /\ proj'[p] = flow[o].created)
      BY <1>0, <3>1 DEF Rebound
    <3>4. Ended(o, "succeeded")
      BY <1>0, <2>3, <3>1, Concludes DEF Commit
    <3>5. op'[o].st = "succeeded" /\ flow'[o].pc = "idle"
      BY <3>4 DEF Ended, IdleFlow
    <3> QED
      BY <3>1, <3>2, <3>3, <3>5 DEF OwnerMoves
  <2> QED
    BY <2>1, <2>2, <2>3
<1>7. CASE \/ \E o \in Ops, l \in Plans : ApplyBegin(o, l)
           \/ \E o \in Ops : CleanupBegin(o) \/ CleanupStep(o)
  <2>1. proj' = proj
    BY <1>7 DEF ApplyBegin, CleanupBegin, CleanupStep, CleanupVet, CleanupCheck,
       CleanupDelete, CleanupDone, untouched
  <2> QED
    BY <1>1, <2>1
<1> QED
  BY <1>1, <1>2, <1>4, <1>5, <1>6, <1>7, NextCases

\* Nobody but an operation under way takes its project elsewhere: it keeps it,
\* or takes it to its originals or its replacements.
LEMMA OwnerStays ==
  ASSUME Orderly, Journalled, [Next]_vars, NEW o \in Live, Working(o)
  PROVE  \/ proj'[Project(o)] = proj[Project(o)]
         \/ AtWork(o) /\ proj'[Project(o)] = Originals(o)
         \/ /\ AtWork(o) /\ flow[o].pc = "commit"
            /\ proj'[Project(o)] = flow[o].created
            /\ Crash \/ flow'[o].pc = "idle"
<1>1. PICK p : p = Project(o)
  OBVIOUS
<1>2. p \in Projects /\ proj[p] # <<>>
  BY <1>1, LiveAdopted DEF Orderly
<1>3. OwnerMoves(p) /\ ~Claims(p)
  BY <1>2, StepOwners DEF Claims
<1>4. \A w \in Live : AtWork(w) /\ Project(w) = p => w = o
  BY <1>1, WorkingAlone DEF Working
<1> QED
  BY <1>1, <1>3, <1>4 DEF OwnerMoves

\* What belongs to a project: what it owns, and what its operation works on.
Has(p, i) ==
  \/ i \in Members(proj[p])
  \/ \E o \in Live : AtWork(o) /\ Project(o) = p /\ i \in Worked(o)
\* No container belongs to two projects.
Apart == \A p, q \in Projects, i \in Ids : p # q => ~(Has(p, i) /\ Has(q, i))
\* Of what belongs to another project an adoption names only what is owned,
\* which its last check refuses (engine.ts:220).
Foreign ==
  \A p, q \in Projects, i \in Ids :
    p # q /\ adopting[q].pc # "idle" /\ i \in Members(adopting[q].own) /\ Has(p, i)
      => i \in Members(proj[p])
\* What is validated is what the project owns, and what it owns from there on
\* are the originals.
OwnsOriginals ==
  \A o \in Ops :
    /\ flow[o].pc = "validate" => flow[o].own = proj[Project(o)]
    /\ flow[o].pc \notin Entries => proj[Project(o)] = Originals(o)
\* The originals of a stuck operation are its project's, or all renamed.
SetAside ==
  \A o \in Live : op[o].st \in Stuck =>
    \/ proj[Project(o)] = Originals(o)
    \/ Members(Originals(o)) \subseteq op[o].renamed
\* What an apply has renamed when it goes forward.
RenamedSoFar ==
  \A o \in Ops, j \in Slots :
    /\ flow[o].pc = "rename" /\ j < flow[o].k => Orig(o, j) \in flow[o].renamed
    /\ flow[o].pc \in Advances \ {"stop", "rename"} => Orig(o, j) \in flow[o].renamed
\* Only what a success retained is cleaned up.
Uncleaned == \A o \in Ops : op[o].st # "succeeded" => op[o].cleaned = {}
Ownership == /\ Apart /\ Foreign /\ OwnsOriginals /\ SetAside
             /\ RenamedSoFar /\ Uncleaned

\* Whatever belongs to a project, or is named by an adoption, is in use.
LEMMA HasUsed ==
  ASSUME Orderly
  PROVE  /\ \A p \in Projects : \A i : Has(p, i) => i \in Ids /\ Used(i)
         /\ \A q \in Projects : \A i : adopting[q].pc # "idle" /\ i \in Members(adopting[q].own)
                                     => i \in Ids /\ Used(i)
<1>0. TypeInv /\ Placed /\ proj \in [Projects -> Stacks \cup {<<>>}]
  BY DEF Orderly, TypeInv, TypeOK
<1>1. ASSUME NEW p \in Projects, NEW i \in Members(proj[p])
      PROVE  i \in Ids /\ Used(i)
  <2>1. PICK s : s = proj[p]
    OBVIOUS
  <2>2. s # <<>> /\ s \in Stacks
    BY <1>0, <1>1, <2>1 DEF Members
  <2>3. Shaped(s)
    BY <1>0, <2>1, <2>2 DEF Placed, ProjectsPlaced
  <2> QED
    BY <1>1, <2>1, <2>2, <2>3 DEF Members, Shaped, Stacks
<1>2. ASSUME NEW o \in Live, NEW i \in Worked(o)
      PROVE  i \in Ids /\ Used(i)
  <2>1. o \in Ops /\ op[o].created \in Seq(Ids)
    BY <1>0 DEF Live, TypeInv, TypeOK, OpRec
  <2>2. \A k \in Slots : Orig(o, k) \in Ids /\ Used(Orig(o, k))
    BY <1>0, OriginalsPlaced
  <2>3. Shaped(op[o].created)
    BY <1>0 DEF Placed, ChangesPlaced, Replaces
  <2>4. \A k \in DOMAIN op[o].created : op[o].created[k] \in Ids /\ Used(op[o].created[k])
    BY <2>1, <2>3 DEF Shaped
  <2> QED
    BY <1>2, <2>2, <2>4 DEF Worked, Members, Originals
<1>3. ASSUME NEW q \in Projects, adopting[q].pc # "idle", NEW i \in Members(adopting[q].own)
      PROVE  i \in Ids /\ Used(i)
  <2>1. adopting[q] \in AdoptRec
    BY <1>0 DEF TypeInv, TypeOK
  <2>2. adopting[q].own \in Stacks
    BY <1>3, <2>1 DEF AdoptRec, IdleAdopt
  <2>3. Chosen(adopting[q].own)
    BY <1>0, <1>3 DEF Placed, AdoptionsPlaced
  <2> QED
    BY <1>3, <2>2, <2>3 DEF Members, Chosen, Stacks
<1> QED
  BY <1>1, <1>2, <1>3 DEF Has

\* An operation is at work after a step if it was before, or if what has been
\* validated is what its project owns.
LEMMA WorkBegins ==
  ASSUME Orderly, Journalled, OwnsOriginals, Fresh, [Next]_vars, NEW w \in Live,
         AtWork(w)'
  PROVE  \/ AtWork(w)
         \/ flow[w].pc = "validate" /\ Originals(w) = proj[Project(w)]
<1>0. /\ TypeInv /\ Exclusion /\ JournalTrue /\ AdoptedFirst /\ w \in Ops
  BY DEF Orderly, Live
<1>1. CASE op'[w].st = op[w].st /\ flow'[w] = flow[w]
  BY <1>1 DEF AtWork
<1>2. CASE ApplyStep(w) /\ Onward(w)
  <2>1. CASE flow[w].pc \notin Entries
    BY <2>1 DEF AtWork
  <2>2. CASE flow[w].pc \in Entries
    <3>1. flow[w].pc = "validate" /\ Prepared(w)
      BY <1>0, <1>2, <2>2, ApplyRuns, ApplyCreated DEF Onward, Entries
    <3>2. Valid(w) /\ flow[w].own = proj[Project(w)]
      BY <1>0, <3>1 DEF Prepared, OwnsOriginals
    <3>3. \A k \in Slots : proj[Project(w)][k] = Orig(w, k)
      BY <1>0, <3>1, <3>2, ValidSnap
    <3>4. proj[Project(w)] \in Stacks /\ Originals(w) \in Stacks
      BY <1>0, LiveAdopted
    <3> QED
      BY <3>1, <3>3, <3>4 DEF Stacks, Originals
  <2> QED
    BY <2>1, <2>2
<1>3. CASE ApplyStep(w) /\ \E st \in {"succeeded", "rolled_back", "rollback_failed"} : Ended(w, st)
  <2>1. flow'[w].pc = "idle"
    BY <1>3 DEF Ended, IdleFlow
  <2>2. op'[w].st \in Stuck
    BY <2>1 DEF AtWork, Entries
  <2>3. RollbackFailed(w)
    BY <1>0, <1>3, <2>2, EndsBy DEF Stuck
  <2> QED
    BY <2>3 DEF RollbackFailed, AtWork, Entries
<1>4. CASE \E l \in Plans : Begun(w, l)
  BY <1>4 DEF Begun, Live
<1>5. CASE Crash /\ op'[w] = Restarted[w] /\ flow'[w] = IdleFlow
  <2>1. /\ op'[w].st = IF op[w].st = "applying" THEN "interrupted" ELSE op[w].st
        /\ flow'[w].pc = "idle"
    BY <1>0, <1>5, RestartMarks DEF IdleFlow
  <2>2. CASE op[w].st = "applying"
    <3>1. flow[w].pc # "idle"
      BY <1>0, <2>2 DEF JournalTrue
    <3>2. "crash" \in Faults
      BY <1>5 DEF Crash, Fault
    <3> QED
      BY <1>0, <3>1, <3>2 DEF Fresh, AtWork, Entries
  <2>3. CASE op[w].st # "applying"
    BY <2>1, <2>3 DEF AtWork, Entries
  <2> QED
    BY <2>2, <2>3
<1>6. CASE op[w].st \in Stuck
  BY <1>6 DEF AtWork
<1> QED
  BY <1>0, <1>1, <1>2, <1>3, <1>4, <1>5, <1>6, StepOperations DEF OperationMoves, Marked

\* The operation w advances.
Grows(w) == Onward(w) /\ op'[w] # op[w]

\* What an operation works on grows by what is newly in use, while nothing
\* changes of the others.
LEMMA WorkedMoves ==
  ASSUME Orderly, Journalled, [Next]_vars, NEW w \in Live, NEW i \in Worked(w)'
  PROVE  i \in Worked(w) \/ (Grows(w) /\ i \in Ids /\ ~Used(i))
<1>0. TypeInv /\ Exclusion /\ DraftsNew /\ Placed /\ JournalTrue /\ w \in Ops
  BY DEF Orderly, Exclusion, Live
<1>1. Originals(w)' = Originals(w)
  BY <1>0, ReadsFixed
<1>2. CASE op'[w].created = op[w].created
  BY <1>1, <1>2 DEF Worked, Members
<1>3. op'[w].created = op[w].created \/ Onward(w)
  <2>1. ApplyStep(w) => flow[w].created = op[w].created
    BY <1>0, ApplyRuns DEF JournalTrue
  <2>2. ~\E l \in Plans : Begun(w, l)
    BY DEF Begun, Live
  <2>3. Restarted[w].created = op[w].created
    BY <1>0, RestartMarks
  <2>4. \A r \in Requests : RecoveryConfirm(r) => op'[w].created = op[w].created
    BY <1>0, ConfirmMarks
  <2> QED
    BY <1>0, <2>1, <2>2, <2>3, <2>4, StepOperations DEF OperationMoves, Ended, Marked
<1>4. CASE Onward(w) /\ op'[w].created # op[w].created
  <2>1. Holds(w, op'[w].created, op'[w].renamed)
    BY <1>0, StepHolds DEF HeldTrue
  <2>2. flow[w].pc # "idle" => flow[w].created = op[w].created
    BY <1>0 DEF JournalTrue
  <2>3. CASE op'[w].created = <<>>
    BY <1>1, <2>3 DEF Worked, Members
  <2>4. CASE Creates(w) /\ op'[w].created = Append(flow[w].created, FreshId)
    <3>1. FreshId \in Ids /\ ~Used(FreshId) /\ flow[w].created \in Seq(Ids)
      BY <1>0, <2>4, CreatedPlace
    <3>2. flow[w].created = op[w].created
      BY <2>2, <2>4 DEF Creates
    <3>3. PICK c : c = op[w].created
      OBVIOUS
    <3>4. /\ DOMAIN c = 1..Len(c) /\ DOMAIN Append(c, FreshId) = 1..Len(c) + 1
          /\ \A k \in 1..Len(c) : Append(c, FreshId)[k] = c[k]
          /\ Append(c, FreshId)[Len(c) + 1] = FreshId /\ Len(c) \in Nat
      BY <3>1, <3>2, <3>3
    <3>5. Members(Append(c, FreshId)) \subseteq Members(c) \cup {FreshId}
      BY <3>4 DEF Members
    <3>6. i \in Worked(w) \/ i = FreshId
      BY <1>1, <2>4, <3>2, <3>3, <3>5 DEF Worked, Members
    <3> QED
      BY <1>4, <3>1, <3>6 DEF Grows
  <2> QED
    BY <1>4, <2>1, <2>2, <2>3, <2>4 DEF Holds
<1> QED
  BY <1>2, <1>3, <1>4

\* What comes to belong to a project is claimed by its adoption, or created.
LEMMA HasMoves ==
  ASSUME Orderly, Journalled, OwnsOriginals, Fresh, [Next]_vars,
         NEW p \in Projects, NEW i, Has(p, i)'
  PROVE  \/ Has(p, i)
         \/ Claims(p) /\ i \in Members(adopting[p].own)
         \/ \E w \in Live : Project(w) = p /\ Grows(w) /\ ~Used(i)
<1>0. /\ TypeInv /\ Exclusion /\ DraftsNew /\ JournalTrue
  BY DEF Orderly, Exclusion
<1>1. CASE i \in Members(proj'[p])
  <2>1. CASE proj'[p] = proj[p]
    BY <1>1, <2>1 DEF Has
  <2>2. CASE Claims(p)
    BY <1>1, <2>2 DEF Claims
  <2>3. ASSUME NEW o \in Live, AtWork(o), Project(o) = p,
               proj'[p] = Originals(o) \/ (flow[o].pc = "commit" /\ proj'[p] = flow[o].created)
        PROVE  Has(p, i)
    <3>1. flow[o].pc = "commit" => flow[o].created = op[o].created
      BY <1>0 DEF JournalTrue, Live
    <3>2. i \in Worked(o)
      BY <1>1, <2>3, <3>1 DEF Worked
    <3> QED
      BY <2>3, <3>2 DEF Has
  <2> QED
    BY <2>1, <2>2, <2>3, StepOwners DEF OwnerMoves
<1>2. CASE \E o \in Live' : AtWork(o)' /\ Project(o)' = p /\ i \in Worked(o)'
  <2>1. PICK w \in Live' : AtWork(w)' /\ Project(w)' = p /\ i \in Worked(w)'
    BY <1>2
  <2>2. w \in Ops
    BY DEF Live
  <2>3. w \in Live
    <3>1. SUFFICES ASSUME w \notin Live PROVE FALSE
      OBVIOUS
    <3>2. PICK l \in Plans : ApplyBegin(w, l)
      BY <1>0, <2>2, <3>1, BegunHolds
    <3>3. Begun(w, l)
      BY <1>0, <2>2, <3>2, ApplyBegins
    <3> QED
      BY <2>1, <3>3 DEF Begun, AtWork, Stuck, Entries
  <2>4. Project(w) = p
    BY <1>0, <2>1, <2>3, ReadsFixed
  <2>5. CASE i \notin Worked(w)
    BY <2>1, <2>3, <2>4, <2>5, WorkedMoves
  <2>6. CASE i \in Worked(w)
    <3>1. CASE AtWork(w)
      BY <2>3, <2>4, <2>6, <3>1 DEF Has
    <3>2. CASE flow[w].pc = "validate" /\ Originals(w) = proj[p]
      <4>1. flow[w].created = <<>> /\ flow[w].created = op[w].created
        BY <1>0, <2>2, <3>2, Flowing DEF Position, JournalTrue
      <4>2. i \in Members(proj[p])
        BY <2>6, <3>2, <4>1 DEF Worked, Members
      <4> QED
        BY <4>2 DEF Has
    <3> QED
      BY <2>1, <2>3, <2>4, <3>1, <3>2, WorkBegins
  <2> QED
    BY <2>5, <2>6
<1> QED
  BY <1>1, <1>2 DEF Has

\* No container comes to belong to two projects.
LEMMA StepApartProjects ==
  ASSUME Orderly, Journalled, Ownership, Fresh, [Next]_vars
  PROVE  Apart'
<1>0. Apart /\ Foreign /\ OwnsOriginals
  BY DEF Ownership
<1> SUFFICES ASSUME NEW p \in Projects, NEW q \in Projects, NEW i \in Ids, p # q,
                    Has(p, i)', Has(q, i)'
             PROVE  FALSE
  BY DEF Apart
<1>1. ASSUME NEW a \in Projects, NEW b \in Projects, a # b, Claims(a),
             i \in Members(adopting[a].own), Has(b, i)'
      PROVE  FALSE
  <2>1. ~Has(b, i)
    <3>1. Has(b, i) => i \in Members(proj[b])
      BY <1>0, <1>1 DEF Foreign, Claims
    <3> QED
      BY <1>1, <3>1 DEF Claims, Owned
  <2>2. ~Claims(b)
    <3>1. SUFFICES ASSUME Claims(b) PROVE FALSE
      OBVIOUS
    <3>2. proj'[b] = proj[b] /\ proj[b] = <<>> /\ proj'[b] = adopting[b].own
      BY <1>1, <3>1 DEF Claims
    <3>3. adopting[b] \in AdoptRec /\ adopting[b].pc = "claim"
      BY <3>1 DEF Claims, Orderly, TypeInv, TypeOK
    <3>4. adopting[b].own \in Stacks
      BY <3>3 DEF AdoptRec, IdleAdopt
    <3>5. DOMAIN <<>> = {}
      OBVIOUS
    <3> QED
      BY <3>2, <3>4, <3>5, SlotFacts DEF Stacks
  <2>3. ~\E w \in Live : Project(w) = b /\ Grows(w) /\ ~Used(i)
    BY <1>1 DEF Claims, Grows
  <2> QED
    BY <1>0, <1>1, <2>1, <2>2, <2>3, HasMoves
<1>2. /\ Has(p, i) \/ \E w \in Live : Project(w) = p /\ Grows(w) /\ ~Used(i)
      /\ Has(q, i) \/ \E w \in Live : Project(w) = q /\ Grows(w) /\ ~Used(i)
  BY <1>0, <1>1, HasMoves
<1>3. ~(Has(p, i) /\ Has(q, i))
  BY <1>0 DEF Apart
<1>4. (Has(p, i) \/ Has(q, i)) => Used(i)
  BY HasUsed
<1>5. \A v, w \in Live : Grows(v) /\ Grows(w) => v = w
  BY DEF Grows, Onward, Live
<1> QED
  BY <1>2, <1>3, <1>4, <1>5

\* Only a request to adopt begins an adoption.
LEMMA AdoptionBegins ==
  ASSUME [Next]_vars, NEW q \in Projects, adopting[q].pc = "idle",
         adopting'[q].pc # "idle", TypeInv
  PROVE  \E s \in Selections : AdoptBegin(q, s)
<1>0. adopting \in [Projects -> AdoptRec]
  BY DEF TypeInv, TypeOK
<1>1. adopting' # adopting
  OBVIOUS
<1>2. ~Crash
  BY DEF Crash, IdleAdopt
<1>3. ASSUME NEW p \in Projects, AdoptInspect(p) \/ AdoptClaim(p)
      PROVE  FALSE
  BY <1>0, <1>3 DEF AdoptInspect, AdoptClaim, IdleAdopt
<1>4. ASSUME NEW o \in Ops, ApplyStep(o)
      PROVE  FALSE
  BY <1>1, <1>4 DEF ApplyStep, ValidationFails, NothingToChange, Prepared,
     StopOriginal, RenameOriginal, CreateReplacement, StartReplacement,
     AwaitReplacement, VerifyNamespace, Commit, CommitFails, BeginRollback,
     DiscardReplacement, RestoreName, RestoreOwnership, RestartOriginal,
     RolledBack, StopEverything, RollbackFailed, still
<1>5. CASE \/ \E o \in Ops, l \in Plans : ApplyBegin(o, l)
           \/ \E o \in Ops : CleanupBegin(o) \/ CleanupStep(o)
           \/ \E r \in Requests : RecoveryConfirm(r)
  BY <1>1, <1>5 DEF ApplyBegin, CleanupBegin, CleanupStep, CleanupVet, CleanupCheck,
     CleanupDelete, CleanupDone, untouched, RecoveryConfirm
<1>6. CASE Aside
  <2>1. \E p \in Projects, s \in Selections : AdoptBegin(p, s)
    BY <1>1, <1>3, <1>6 DEF Aside, RecoveryBegin, RecoveryInspect,
       OwnerRepairs, Drift, ExpireReview, PlanBegin, PlanStore, PlanObserve,
       ExpirePlan, ReviewRecovery, ReviewCleanup, Prune, vars, memory
  <2>2. PICK p \in Projects, s \in Selections : AdoptBegin(p, s)
    BY <2>1
  <2>3. p = q
    BY <1>0, <2>2 DEF AdoptBegin
  <2> QED
    BY <2>2, <2>3
<1> QED
  BY <1>2, <1>4, <1>5, <1>6, NextCases

\* What belongs to a project and may be adopted, it owns: what else it works
\* on is kept out of adoptions (inventory.ts).
LEMMA RecoveryHolds ==
  ASSUME Orderly, Ownership, NEW p \in Projects, NEW i, Has(p, i), i \notin RecoveryIds
  PROVE  i \in Members(proj[p])
<1>0. /\ TypeInv /\ JournalTrue /\ OwnsOriginals /\ SetAside /\ Uncleaned
  BY DEF Orderly, Ownership
<1> SUFFICES ASSUME NEW o \in Live, AtWork(o), Project(o) = p, i \in Worked(o)
             PROVE  i \in Members(proj[p])
  BY DEF Has
<1>1. o \in Ops /\ op[o].cleaned = {}
      /\ op[o].st \in {"applying", "interrupted", "rollback_failed"}
  BY <1>0 DEF Live, AtWork, Stuck, Entries, JournalTrue, Uncleaned
<1>2. op[o].renamed \cup Members(op[o].created) \subseteq RecoveryIds
  BY <1>1 DEF RecoveryIds, Members
<1>3. i \in Members(Originals(o)) /\ i \notin op[o].renamed
  BY <1>2 DEF Worked
<1>4. proj[p] = Originals(o)
  BY <1>0, <1>1, <1>3 DEF AtWork, OwnsOriginals, SetAside
<1> QED
  BY <1>3, <1>4

\* Of what belongs to another project an adoption names only what is owned.
LEMMA StepForeign ==
  ASSUME Orderly, Journalled, Ownership, Fresh, [Next]_vars
  PROVE  Foreign'
<1>0. /\ TypeInv /\ Foreign /\ OwnsOriginals /\ Exclusion /\ DraftsNew
  BY DEF Ownership, Orderly, Exclusion
<1> SUFFICES ASSUME NEW p \in Projects, NEW q \in Projects, NEW i \in Ids, p # q,
                    adopting'[q].pc # "idle", i \in Members(adopting'[q].own), Has(p, i)'
             PROVE  i \in Members(proj'[p])
  BY DEF Foreign
<1>1. CASE adopting[q].pc = "idle"
  <2>1. PICK s \in Selections : AdoptBegin(q, s)
    BY <1>0, <1>1, AdoptionBegins
  <2>2. /\ Members(s) \cap RecoveryIds = {} /\ UNCHANGED <<disk, flow>>
        /\ adopting' = [adopting EXCEPT ![q] = [pc |-> "inspect", own |-> s]]
    BY <2>1 DEF AdoptBegin
  <2>3. adopting'[q].own = s
    BY <1>0, <2>2 DEF TypeInv, TypeOK
  <2>4. UNCHANGED <<proj, op, plan, flow>>
    BY <2>2 DEF disk
  <2>5. Has(p, i)' <=> Has(p, i)
    BY <2>4 DEF Has, Live, AtWork, Project, Worked, Originals, Orig, Snap, Members
  <2>6. i \in Members(s) /\ i \notin RecoveryIds
    BY <2>2, <2>3
  <2>7. i \in Members(proj[p])
    BY <2>5, <2>6, RecoveryHolds
  <2> QED
    BY <2>4, <2>7
<1>2. CASE adopting[q].pc # "idle"
  <2>1. adopting'[q].own = adopting[q].own
    BY <1>0, <1>2, StepAdopts DEF AdoptMoves
  <2>2. i \in Members(adopting[q].own) /\ Used(i)
    BY <1>2, <2>1, HasUsed
  <2>3. CASE Claims(p) /\ i \in Members(adopting[p].own)
    BY <2>3 DEF Claims
  <2>4. CASE Has(p, i)
    <3>1. i \in Members(proj[p])
      BY <1>0, <1>2, <2>2, <2>4 DEF Foreign
    <3>2. CASE proj'[p] = proj[p]
      BY <3>1, <3>2
    <3>3. ~Claims(p)
      <4>1. Members(<<>>) = {}
        BY DEF Members
      <4> QED
        BY <3>1, <4>1 DEF Claims
    <3>4. ASSUME NEW o \in Live, AtWork(o), Project(o) = p, flow[o].pc = "disown",
                 proj'[p] = Originals(o)
          PROVE  i \in Members(proj'[p])
      <4>1. proj[p] = Originals(o)
        BY <1>0, <3>4 DEF OwnsOriginals, Entries, Live
      <4> QED
        BY <3>1, <3>4, <4>1
    <3>5. ~Crash
      BY DEF Crash, IdleAdopt
    <3>6. ASSUME NEW o \in Live, AtWork(o), Project(o) = p,
                 op'[o].st \in {"succeeded", "rolled_back"}, flow'[o].pc = "idle"
          PROVE  i \in Members(proj'[p])
      <4>1. SUFFICES ASSUME NEW w \in Live', AtWork(w)', Project(w)' = p PROVE FALSE
        BY DEF Has
      <4>2. w \in Ops
        BY DEF Live
      <4>3. w \in Live
        <5>1. SUFFICES ASSUME w \notin Live PROVE FALSE
          OBVIOUS
        <5>2. PICK l \in Plans : ApplyBegin(w, l)
          BY <1>0, <4>2, <5>1, BegunHolds
        <5>3. Begun(w, l)
          BY <1>0, <4>2, <5>2, ApplyBegins
        <5> QED
          BY <4>1, <5>3 DEF Begun, AtWork, Stuck, Entries
      <4>4. Project(w) = p
        BY <1>0, <4>1, <4>3, ReadsFixed
      <4>5. Working(w)
        BY <1>0, <4>1, <4>3, WorkBegins DEF Working
      <4>6. w = o
        BY <3>6, <4>3, <4>4, <4>5, WorkingAlone DEF Working
      <4> QED
        BY <3>6, <4>1, <4>6 DEF AtWork, Stuck, Entries
    <3> QED
      BY <3>2, <3>3, <3>4, <3>5, <3>6, StepOwners DEF OwnerMoves
  <2> QED
    BY <1>0, <2>2, <2>3, <2>4, HasMoves
<1> QED
  BY <1>1, <1>2

\* An apply works on what its project owns.
LEMMA StepOwnsOriginals ==
  ASSUME Orderly, Journalled, Ownership, Fresh, [Next]_vars
  PROVE  OwnsOriginals'
<1>0. /\ TypeInv /\ JournalTrue /\ OwnsOriginals /\ Exclusion /\ DraftsNew
  BY DEF Ownership, Orderly, Exclusion
<1> SUFFICES ASSUME NEW o \in Ops
             PROVE  /\ flow'[o].pc = "validate" => flow'[o].own = proj'[Project(o)']
                    /\ flow'[o].pc \notin Entries => proj'[Project(o)'] = Originals(o)'
  BY DEF OwnsOriginals
<1>1. CASE flow'[o].pc = "idle"
  BY <1>1 DEF Entries
<1>2. ASSUME NEW l \in Plans, Begun(o, l)
      PROVE  flow'[o].pc = "validate" /\ flow'[o].own = proj'[Project(o)']
  BY <1>2 DEF Begun, Project
<1>3. CASE flow[o].pc # "idle" /\ flow'[o].pc # "idle"
  <2>1. o \in Live
    BY <1>0, <1>3, Flowing
  <2>2. /\ Project(o)' = Project(o) /\ Originals(o)' = Originals(o)
    BY <1>0, <2>1, ReadsFixed
  <2>3. ~Crash
    BY <1>3 DEF Crash, IdleFlow
  <2>4. op[o].st = "applying"
    BY <1>0, <1>3 DEF JournalTrue
  <2>5. \/ proj'[Project(o)] = proj[Project(o)]
        \/ AtWork(o) /\ proj'[Project(o)] = Originals(o)
    BY <1>3, <2>1, <2>3, OwnerStays DEF Working
  <2>6. CASE flow[o].pc \notin Entries
    <3>1. proj[Project(o)] = Originals(o)
      BY <1>0, <2>6 DEF OwnsOriginals
    <3>2. flow'[o].pc # "validate"
      BY <1>0, <1>3, <2>6, StepOperations, ApplyLeaves
      DEF OperationMoves, Leaves, Entries, Begun, Ended, IdleFlow
    <3> QED
      BY <2>2, <2>5, <3>1, <3>2
  <2>7. CASE flow[o].pc = "validate"
    <3>1. proj'[Project(o)] = proj[Project(o)]
      BY <2>4, <2>5, <2>7 DEF AtWork, Stuck, Entries
    <3>2. flow[o].own = proj[Project(o)]
      BY <1>0, <2>7 DEF OwnsOriginals
    <3>3. CASE flow'[o] = flow[o]
      BY <2>2, <2>7, <3>1, <3>2, <3>3 DEF Entries
    <3>4. CASE flow'[o] # flow[o]
      <4>1. ApplyStep(o) /\ Onward(o)
        BY <1>3, <2>3, <3>4, StepOperations DEF OperationMoves, Ended, Begun, IdleFlow
      <4>2. flow'[o].pc \notin Entries
        BY <1>0, <1>3, <4>1, ApplyLeaves DEF Leaves, IdleFlow
      <4>3. AtWork(o)'
        BY <4>2 DEF AtWork
      <4>4. Originals(o) = proj[Project(o)]
        BY <1>0, <2>1, <2>4, <2>7, <4>3, WorkBegins DEF AtWork, Stuck, Entries
      <4> QED
        BY <2>2, <3>1, <4>2, <4>4 DEF Entries
    <3> QED
      BY <3>3, <3>4
  <2> QED
    BY <1>3, <2>6, <2>7 DEF Entries
<1>4. CASE flow[o].pc = "idle" /\ flow'[o].pc # "idle"
  <2>1. \E l \in Plans : Begun(o, l)
    BY <1>4, StepOperations, ApplyRuns DEF OperationMoves, IdleFlow
  <2> QED
    BY <1>2, <2>1 DEF Entries
<1> QED
  BY <1>1, <1>3, <1>4

\* The originals of a stuck operation are its project's, or all renamed.
LEMMA StepSetAside ==
  ASSUME Orderly, Journalled, Ownership, Fresh, [Next]_vars
  PROVE  SetAside'
<1>0. /\ TypeInv /\ JournalTrue /\ OwnsOriginals /\ SetAside /\ RenamedSoFar
      /\ Exclusion /\ DraftsNew
  BY DEF Ownership, Orderly, Exclusion
<1> SUFFICES ASSUME NEW o \in Live', op'[o].st \in Stuck
             PROVE  \/ proj'[Project(o)'] = Originals(o)'
                    \/ Members(Originals(o)') \subseteq op'[o].renamed
  BY DEF SetAside
<1>1. o \in Ops /\ OperationMoves(o)
  BY StepOperations DEF Live
<1>2. o \in Live
  BY <1>0, <1>1, BegunHolds, ApplyBegins DEF Begun, Stuck
<1>3. Project(o)' = Project(o) /\ Originals(o)' = Originals(o)
  BY <1>0, <1>2, ReadsFixed
<1>4. CASE op[o].st \in Stuck
  <2>1. flow[o].pc = "idle" /\ op[o].st # "applying"
    BY <1>0, <1>1, <1>4 DEF JournalTrue, Stuck
  <2>2. \/ proj'[Project(o)] = proj[Project(o)]
        \/ proj'[Project(o)] = Originals(o)
    BY <1>2, <1>4, <2>1, OwnerStays DEF Working, AtWork
  <2>3. op'[o].renamed = op[o].renamed
    <3>1. Restarted[o].renamed = op[o].renamed
      BY <1>0, <1>1, RestartMarks
    <3> QED
      BY <1>1, <1>2, <2>1, <3>1, ApplyRuns DEF OperationMoves, Marked, Begun, Live, Stuck
  <2> QED
    BY <1>0, <1>2, <1>3, <1>4, <2>2, <2>3 DEF SetAside
<1>5. CASE op[o].st \notin Stuck
  <2>1. \/ ApplyStep(o) /\ op'[o].st = "rollback_failed"
        \/ Crash /\ op'[o] = Restarted[o] /\ flow'[o] = IdleFlow
    BY <1>1, <1>2, <1>5 DEF OperationMoves, Onward, Ended, Begun, Marked, Stuck
  <2>2. CASE ApplyStep(o) /\ op'[o].st = "rollback_failed"
    <3>1. RollbackFailed(o)
      BY <1>0, <1>1, <2>2, EndsBy
    <3>2. flow[o].pc = "failed"
      BY <3>1 DEF RollbackFailed
    <3>3. proj[Project(o)] = Originals(o) /\ Working(o)
      BY <1>0, <1>1, <3>2 DEF OwnsOriginals, Entries, Working
    <3> QED
      BY <1>2, <1>3, <3>2, <3>3, OwnerStays
  <2>3. CASE Crash /\ op'[o] = Restarted[o]
    <3>1. op[o].st = "applying" /\ op'[o].renamed = op[o].renamed
      BY <1>0, <1>1, <1>5, <2>3, RestartMarks
    <3>2. /\ flow[o].pc # "idle" /\ Working(o) /\ flow[o].renamed = op[o].renamed
      BY <1>0, <1>1, <3>1 DEF JournalTrue, Working
    <3>3. proj[Project(o)] = Originals(o)
      <4>1. "crash" \in Faults
        BY <2>3 DEF Crash, Fault
      <4> QED
        BY <1>0, <1>1, <3>2, <4>1 DEF Fresh, OwnsOriginals, Entries
    <3>4. CASE flow[o].pc = "commit"
      <4>1. \A j \in Slots : Orig(o, j) \in flow[o].renamed
        BY <1>0, <1>1, <3>4 DEF RenamedSoFar, Advances
      <4>2. Members(Originals(o)) \subseteq op'[o].renamed
        BY <3>1, <3>2, <4>1 DEF Members, Originals
      <4> QED
        BY <1>3, <4>2
    <3> QED
      BY <1>2, <1>3, <3>2, <3>3, <3>4, OwnerStays
  <2> QED
    BY <2>1, <2>2, <2>3
<1> QED
  BY <1>4, <1>5

\* An apply that goes forward renames one original after the other.
LEMMA StepRenamedSoFar ==
  ASSUME Orderly, Journalled, Ownership, [Next]_vars
  PROVE  RenamedSoFar'
<1>0. /\ TypeInv /\ JournalTrue /\ RenamedSoFar /\ Exclusion /\ DraftsNew
  BY DEF Ownership, Orderly, Exclusion
<1> SUFFICES ASSUME NEW o \in Ops, NEW j \in Slots, flow'[o].pc \in Advances,
                    flow'[o].pc = "rename" => j < flow'[o].k,
                    flow'[o].pc # "stop"
             PROVE  Orig(o, j)' \in flow'[o].renamed
  BY DEF RenamedSoFar, Advances
<1>1. flow[o].pc # "idle"
  BY StepOperations, ApplyRuns
  DEF OperationMoves, Advances, Begun, IdleFlow, Ended
<1>2. o \in Live /\ Orig(o, j)' = Orig(o, j)
  BY <1>0, <1>1, Flowing, ReadsFixed
<1>3. CASE flow'[o] = flow[o]
  BY <1>0, <1>2, <1>3 DEF RenamedSoFar
<1>4. CASE flow'[o] # flow[o]
  <2>1. ApplyStep(o)
    BY <1>4, StepOperations DEF OperationMoves, Advances, Begun, IdleFlow
  <2>2. PICK f, g : f = flow[o] /\ g = flow'[o]
    OBVIOUS
  <2>3. Advanced(o, f, g)
    BY <1>0, <2>1, <2>2, AdvancesBy
  <2>4. f.pc \in Loops => f.k \in Slots
    BY <1>0, <1>1, <2>2, Flowing DEF Position
  <2>5. CASE f.pc = "validate"
    BY <2>2, <2>3, <2>5 DEF Advanced, At
  <2>6. CASE f.pc = "stop"
    <3>1. At(g) = Then("stop", f.k, <<"rename", 1>>)
      BY <2>3, <2>6 DEF Advanced
    <3>2. g.pc = "rename" /\ g.k = 1
      BY <2>2, <3>1 DEF At, Then
    <3>3. ~(j < 1)
      BY SlotFacts
    <3> QED
      BY <2>2, <3>2, <3>3
  <2>7. CASE f.pc = "rename"
    <3>1. /\ At(g) = Then("rename", f.k, <<"create", Vpn>>)
          /\ g.renamed = f.renamed \cup {Orig(o, f.k)}
      BY <2>3, <2>7 DEF Advanced
    <3>2. f.k \in Slots /\ f.k \in Nat /\ f.k <= Size /\ j \in Nat /\ j <= Size /\ Size \in Nat
      BY <2>4, <2>7, SlotFacts DEF Loops
    <3>3. j < f.k \/ j = f.k
      <4>1. \/ f.k < Size /\ g.pc = "rename" /\ g.k = f.k + 1
            \/ ~(f.k < Size)
        BY <3>1 DEF At, Then
      <4> QED
        BY <2>2, <3>2, <4>1
    <3>4. j < f.k => Orig(o, j) \in f.renamed
      BY <1>0, <2>2, <2>7 DEF RenamedSoFar
    <3> QED
      BY <1>2, <2>2, <3>1, <3>3, <3>4
  <2>8. CASE f.pc \in {"create", "start", "health", "verify"}
    <3>1. Orig(o, j) \in f.renamed
      BY <1>0, <2>2, <2>8 DEF RenamedSoFar, Advances
    <3>2. g.renamed = f.renamed
      BY <2>3, <2>8 DEF Advanced, Lists
    <3> QED
      BY <1>2, <2>2, <3>1, <3>2
  <2> QED
    BY <2>3, <2>5, <2>6, <2>7, <2>8 DEF Advanced
<1> QED
  BY <1>3, <1>4

\* Only what a success retained is cleaned up.
LEMMA StepUncleaned ==
  ASSUME Orderly, Journalled, Ownership, [Next]_vars
  PROVE  Uncleaned'
<1>0. TypeInv /\ JournalTrue /\ Uncleaned
  BY DEF Ownership, Orderly
<1> SUFFICES ASSUME NEW o \in Ops, op'[o].st # "succeeded"
             PROVE  op'[o].cleaned = {}
  BY DEF Uncleaned
<1>1. OperationMoves(o)
  BY StepOperations
<1>2. ApplyStep(o) => op[o].st = "applying"
  BY <1>0, ApplyRuns DEF JournalTrue
<1>3. ASSUME CleanupStep(o), NEW u, Marked(o, u)
      PROVE  FALSE
  <2>1. clean[o].pc # "idle"
    BY <1>3 DEF CleanupStep, CleanupVet, CleanupCheck, CleanupDelete, CleanupDone
  <2> QED
    BY <1>0, <1>3, <2>1 DEF JournalTrue, Marked
<1>4. /\ Restarted[o].cleaned = op[o].cleaned
      /\ Restarted[o].st # "succeeded" => op[o].st # "succeeded"
  BY <1>0, RestartMarks
<1> QED
  BY <1>0, <1>1, <1>2, <1>3, <1>4 DEF OperationMoves, Onward, Ended, Begun, Uncleaned, Stuck

\* Nothing belongs to anybody at first.
LEMMA InitOwnership == Init => Ownership
<1> SUFFICES ASSUME Init PROVE Ownership
  OBVIOUS
<1>1. /\ Live = {} /\ \A p \in Projects : proj[p] = <<>> /\ adopting[p].pc = "idle"
      /\ \A o \in Ops : flow[o].pc = "idle" /\ op[o].cleaned = {}
  BY DEF Init, Live, NoOp, IdleFlow, IdleAdopt
<1>2. Members(<<>>) = {}
  BY DEF Members
<1>3. Apart /\ Foreign
  BY <1>1, <1>2 DEF Apart, Foreign, Has
<1>4. OwnsOriginals /\ SetAside /\ RenamedSoFar /\ Uncleaned
  BY <1>1 DEF OwnsOriginals, SetAside, RenamedSoFar, Uncleaned, Entries, Advances
<1> QED
  BY <1>3, <1>4 DEF Ownership

\* The operations of any number of projects are orderly.
LEMMA OrderlyKept == OneRequest /\ Journalled /\ Spec => []Orderly
<1>1. TypeInv /\ Exclusion /\ AdoptedFirst /\ [Next]_vars => AdoptedFirst'
  BY StepAdopted DEF Exclusion
<1>2. OneRequest /\ Spec => [](TypeInv /\ Exclusion /\ Placed)
  BY PlacesKept
<1>3. OneRequest /\ Journalled /\ Spec => []JournalTrue
  BY JournalKept
<1> QED
  BY <1>1, <1>2, <1>3, InitAdopted, PTL DEF Spec, Orderly

\* Two projects never own the same container, so that no change of one
\* replaces a service of the other (engine.ts:219-222, inventory.ts): however
\* many projects there are, whatever fails and whoever interferes, as long as
\* an operation is applied to the stack that it was planned for.
THEOREM OwnershipKept ==
  OneRequest /\ Journalled /\ Spec /\ []Fresh => []OwnershipDisjoint
<1>1. Orderly /\ Ownership => OwnershipDisjoint
  <2> SUFFICES ASSUME Orderly, Ownership, NEW p \in Projects, NEW q \in Projects, p # q
               PROVE  Members(proj[p]) \cap Members(proj[q]) = {}
    BY DEF OwnershipDisjoint
  <2>1. \A i : i \in Members(proj[p]) => Has(p, i) /\ i \in Ids
    BY HasUsed DEF Has
  <2>2. \A i : i \in Members(proj[q]) => Has(q, i)
    BY DEF Has
  <2> QED
    BY <2>1, <2>2 DEF Ownership, Apart
<1>2. Journalled /\ Orderly /\ Ownership /\ Fresh /\ [Next]_vars => Ownership'
  BY StepApartProjects, StepForeign, StepOwnsOriginals, StepSetAside, StepRenamedSoFar,
     StepUncleaned DEF Ownership
<1>3. Journalled => []Journalled
  OBVIOUS
<1> QED
  BY <1>1, <1>2, <1>3, InitOwnership, OrderlyKept, PTL DEF Spec

\* What is planned before any operation begins is of the stack that the
\* project owns.
DraftFresh(l) ==
  /\ draft[l].pc = "observe" => draft[l].own = proj[draft[l].project]
  /\ draft[l].pc = "store" => IdsOf(draft[l].snap) = proj[draft[l].project]
PlanFresh(l) == plan[l].st # "none" => IdsOf(plan[l].snap) = proj[plan[l].project]
PlannedFresh ==
  /\ Live = {} => \A l \in Plans : DraftFresh(l) /\ PlanFresh(l)
  /\ \A o \in Ops : flow[o].pc = "validate" => Originals(o) = proj[Project(o)]

\* Before an operation begins a project that is adopted keeps its stack, so
\* what is planned stays of the stack that the project owns.
LEMMA DraftsFresh ==
  ASSUME Orderly, Journalled, PlannedFresh, [Next]_vars, Live' = {}, NEW l \in Plans
  PROVE  DraftFresh(l)' /\ PlanFresh(l)'
<1>0. /\ TypeInv /\ Placed /\ AdoptedFirst /\ Exclusion /\ DraftsNew
      /\ draft[l] \in DraftRec /\ plan[l] \in PlanRec \cup {NoPlanRec}
      /\ proj \in [Projects -> Stacks \cup {<<>>}]
  BY DEF Orderly, Exclusion, TypeInv, TypeOK
<1>1. Live = {} /\ DraftFresh(l) /\ PlanFresh(l)
  BY <1>0, OpsFixed DEF PlannedFresh
<1>2. \A p \in Projects : proj[p] # <<>> => proj'[p] = proj[p]
  BY <1>1, StepOwners DEF OwnerMoves, Claims
<1>3. DraftFresh(l)'
  <2>1. CASE draft'[l] = draft[l]
    <3>1. draft[l].pc # "idle" =>
            draft[l].project \in Projects /\ proj[draft[l].project] # <<>>
      BY <1>0 DEF AdoptedFirst, DraftRec, IdleDraft
    <3>2. CASE draft[l].pc = "idle"
      BY <2>1, <3>2 DEF DraftFresh
    <3>3. CASE draft[l].pc # "idle"
      <4>1. proj'[draft[l].project] = proj[draft[l].project]
        BY <1>2, <3>1, <3>3
      <4> QED
        BY <1>1, <2>1, <4>1 DEF DraftFresh, IdsOf
    <3> QED
      BY <3>2, <3>3
  <2>2. CASE draft'[l].pc = "idle"
    BY <2>2 DEF DraftFresh
  <2>3. ASSUME NEW p \in Projects, UNCHANGED proj,
               draft'[l] = [pc |-> "observe", project |-> p, own |-> proj[p]]
        PROVE  DraftFresh(l)'
    BY <2>3 DEF DraftFresh
  <2>4. CASE /\ draft[l].pc = "observe" /\ UNCHANGED proj
             /\ draft'[l] = [pc |-> "store", project |-> draft[l].project,
                             snap |-> Observed(draft[l].own)]
    <3>1. PICK p, s : p = draft[l].project /\ s = draft[l].own
      OBVIOUS
    <3>2. s = proj[p] /\ s \in Stacks
      BY <1>0, <1>1, <2>4, <3>1 DEF DraftFresh, DraftRec, IdleDraft
    <3>3. Shaped(s)
      BY <1>0, <2>4, <3>1 DEF Placed, DraftsPlaced
    <3>4. IdsOf(Observed(s)) = s
      BY <1>0, <3>2, <3>3, ObservedPlaced
    <3>5. draft'[l].pc = "store" /\ draft'[l].project = p /\ draft'[l].snap = Observed(s)
      BY <2>4, <3>1
    <3>6. IdsOf(draft'[l].snap) = proj'[p]
      BY <2>4, <3>2, <3>4, <3>5
    <3> QED
      BY <3>5, <3>6 DEF DraftFresh, IdsOf
  <2> QED
    BY <1>0, <2>1, <2>2, <2>3, <2>4, StepDrafts DEF DraftMoves
<1>4. PlanFresh(l)'
  <2>1. CASE plan[l].st # "none"
    <3>1. plan'[l].project = plan[l].project /\ plan'[l].snap = plan[l].snap
      BY <1>0, <2>1, PlansFixed DEF PlanFixed
    <3>2. plan[l].project \in Projects /\ proj[plan[l].project] # <<>>
      BY <1>0, <2>1 DEF AdoptedFirst, PlanRec, NoPlanRec
    <3>3. proj'[plan[l].project] = proj[plan[l].project]
      BY <1>2, <3>2
    <3> QED
      BY <1>1, <2>1, <3>1, <3>3 DEF PlanFresh, IdsOf
  <2>2. CASE plan[l].st = "none"
    <3>1. CASE plan'[l] = plan[l]
      BY <2>2, <3>1 DEF PlanFresh
    <3>2. CASE plan'[l] # plan[l]
      <4>1. /\ draft[l].pc = "store" /\ plan'[l].project = draft[l].project
            /\ plan'[l].snap = draft[l].snap /\ proj' = proj
        BY <1>0, <2>2, <3>2, StepPlan
      <4>2. IdsOf(draft[l].snap) = proj[draft[l].project]
        BY <1>1, <4>1 DEF DraftFresh
      <4> QED
        BY <4>1, <4>2 DEF PlanFresh, IdsOf
    <3> QED
      BY <3>1, <3>2
  <2> QED
    BY <2>1, <2>2
<1> QED
  BY <1>3, <1>4

\* So a single operation is applied to the stack that it was planned for.
LEMMA StepPlannedFresh ==
  ASSUME OneOperation, Orderly, Journalled, PlannedFresh, [Next]_vars
  PROVE  PlannedFresh'
<1>0. /\ TypeInv /\ Exclusion /\ DraftsNew /\ JournalTrue /\ AdoptedFirst
  BY DEF Orderly, Exclusion
<1>1. ASSUME NEW o \in Ops, flow'[o].pc = "validate"
      PROVE  Originals(o)' = proj'[Project(o)']
  <2>1. CASE flow[o].pc = "idle"
    <3>1. PICK l \in Plans : ApplyBegin(o, l)
      BY <1>0, <1>1, <2>1, FlowBegins
    <3>2. Begun(o, l)
      BY <1>0, <3>1, ApplyBegins
    <3>3. Live = {}
      BY <3>2 DEF Begun, Live, OneOperation
    <3>4. plan[l].st # "none" /\ UNCHANGED <<proj, plan>> /\ op'[o].plan = l
      BY <3>2 DEF Begun
    <3>5. IdsOf(plan[l].snap) = proj[plan[l].project]
      BY <3>3, <3>4 DEF PlannedFresh, PlanFresh
    <3> QED
      BY <3>4, <3>5 DEF Originals, Orig, Snap, Project, IdsOf
  <2>2. CASE flow[o].pc # "idle"
    <3>1. ~Crash
      BY <1>1 DEF Crash, IdleFlow
    <3>2. ~ApplyStep(o)
      BY <1>0, <1>1, ApplyLeaves DEF Leaves, IdleFlow, Entries
    <3>3. flow'[o] = flow[o] /\ o \in Live
      BY <1>0, <2>2, <3>1, <3>2, StepOperations, Flowing DEF OperationMoves, Begun
    <3>4. Project(o)' = Project(o) /\ Originals(o)' = Originals(o)
      BY <1>0, <3>3, ReadsFixed
    <3>5. Originals(o) = proj[Project(o)]
      BY <1>1, <3>3 DEF PlannedFresh
    <3>6. proj'[Project(o)] = proj[Project(o)]
      BY <1>1, <2>2, <3>3, <3>5, OwnerStays DEF Working
    <3> QED
      BY <3>4, <3>5, <3>6
  <2> QED
    BY <2>1, <2>2
<1> QED
  BY <1>1, DraftsFresh DEF PlannedFresh

\* Nothing is planned at first.
LEMMA InitPlannedFresh == Init => PlannedFresh
BY DEF Init, PlannedFresh, DraftFresh, PlanFresh, NoPlanRec, IdleDraft, IdleFlow

\* So a single change, among any number of adoptions, whatever fails, and over
\* restarts, leaves every container to at most one project (engine.ts:212-225,
\* inventory.ts).
THEOREM OneChangeOwns ==
  OneRequest /\ OneOperation /\ Journalled /\ Spec => []OwnershipDisjoint
<1>1. PlannedFresh => Fresh
  BY DEF PlannedFresh, Fresh
<1>2. OneOperation /\ Journalled /\ Orderly /\ PlannedFresh /\ [Next]_vars => PlannedFresh'
  BY StepPlannedFresh
<1>3. /\ OneOperation => []OneOperation
      /\ Journalled => []Journalled
  OBVIOUS
<1> QED
  BY <1>1, <1>2, <1>3, InitPlannedFresh, OrderlyKept, OwnershipKept, PTL DEF Spec
=============================================================================
