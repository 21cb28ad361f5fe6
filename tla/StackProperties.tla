-------------------------- MODULE StackProperties --------------------------
(***************************************************************************)
(* What should be true of the managed-stack engine.                        *)
(***************************************************************************)
EXTENDS ManagedStack

CONSTANT NoProject   \* the project of an operation that has not begun

\* Weak fairness of a running apply, cleanup and recovery completion: every
\* await of theirs ends, by an answer or by the 40 s and 90 s deadlines of the
\* Docker adapter.  Nothing else has any: requests, plans and adoptions, time
\* and trouble may or may not come.
Fairness ==
  /\ \A o \in Ops : WF_vars(ApplyStep(o)) /\ WF_vars(CleanupStep(o))
  /\ \A r \in Requests : WF_vars(RecoveryInspect(r) \/ RecoveryConfirm(r))
FairSpec == Spec /\ Fairness

-----------------------------------------------------------------------------
(* Types.                                                                  *)

Loops    == {"stop", "rename", "create", "start", "health", "verify",
             "rename back", "restart", "reverify"}
Discards == {"discard", "remove"}
Points   == {"idle", "validate", "commit", "caught", "disown", "restored",
             "giveUp", "failed"} \cup Loops \cup Discards

OpRec == [st : OpStatus, plan : Plans \cup {NoPlan}, created : Seq(Ids),
          renamed : SUBSET Ids, cleaned : SUBSET Ids,
          cleanup : {"none", "applying", "completed", "interrupted"}]
FlowRec == [pc : Points, k : 0..Size, st : OpStatus, created : Seq(Ids),
            renamed : SUBSET Ids, own : Stacks \cup {<<>>}]
CleanRec == [pc : {"idle", "vet", "check", "delete", "done"}, k : 0..Size,
             todo : SUBSET Slots]
DraftRec == {IdleDraft}
  \cup [pc : {"observe"}, project : Projects, own : Stacks]
  \cup [pc : {"store"}, project : Projects, snap : [Slots -> Snapshots]]
AdoptRec == {IdleAdopt} \cup [pc : {"inspect"}, own : Stacks]
  \cup [pc : {"claim"}, own : Stacks, confs : [Slots -> Confs]]
ReqRec == {IdleReq} \cup [pc : {"inspect", "confirm"}, op : Ops]

\* Every record has the shape of the declared types of the code, and the
\* position of an apply fits the containers it has created so far.
TypeOK ==
  /\ ctr \in [Ids -> Containers]
  /\ proj \in [Projects -> Stacks \cup {<<>>}]
  /\ base \in [Projects -> [Slots -> Confs] \cup {<<>>}]
  /\ plan \in [Plans -> PlanRec \cup {NoPlanRec}]
  /\ op \in [Ops -> OpRec]
  /\ \A v \in reviews : v.op \in Ops /\ v.kind \in {"recovery", "cleanup"}
  /\ locks \subseteq Projects
  /\ flow \in [Ops -> FlowRec]
  /\ clean \in [Ops -> CleanRec]
  /\ draft \in [Plans -> DraftRec]
  /\ adopting \in [Projects -> AdoptRec]
  /\ req \in [Requests -> ReqRec]
  /\ faults \in 0..MaxFaults

\* What makes TypeOK inductive.  The records that a started operation refers
\* to are there, and so is the operation that a running request works on.
LiveOK == \A o \in Live : op[o].plan \in Plans /\ Plan(o).st # "none"
\* How many replacements there are where the apply is, and its position.
Position(f) ==
  LET n == Len(f.created)
  IN /\ n <= Size
     /\ f.pc \in {"validate", "stop", "rename"} => n = 0
     /\ f.pc \in Loops => f.k \in Slots
     /\ f.pc = "create" => n = f.k - 1
     /\ f.pc \in {"start", "health", "verify"} => n = f.k
     /\ f.pc = "commit" => n = Size
     /\ f.pc \in Discards => f.k \in 1..n
FlowOK == \A o \in Ops : flow[o].pc # "idle" =>
            o \in Live /\ flow[o].st # "none" /\ Position(flow[o])
CleanOK == \A o \in Ops : clean[o].pc # "idle" =>
             o \in Live /\ (clean[o].pc \in {"check", "delete"} => clean[o].k \in Slots)
RequestsOK == \A r \in Requests : req[r].pc # "idle" => req[r].op \in Live
TypeInv == TypeOK /\ LiveOK /\ FlowOK /\ CleanOK /\ RequestsOK

-----------------------------------------------------------------------------
(* Who may work on a project.                                              *)

\* A project has at most one unfinished operation: whatever is being applied,
\* waits for the owner, or removes containers keeps every other out, although
\* a request checks this long before its last await (engine.ts:229, 352, 431).
OneUnfinished ==
  \A a, b \in Live : Project(a) = Project(b) /\ Unfinished(a) /\ Unfinished(b)
                    => a = b

Busy(o) == flow[o].pc # "idle" \/ clean[o].pc # "idle"

\* No two requests change the containers of a project at a time, and the one
\* that does holds the lock of the project until it is done (engine.ts:432,
\* 397, 500, 410).
SoleWorker ==
  \A a \in Ops : Busy(a) =>
    /\ Project(a) \in locks
    /\ \A b \in Ops : Busy(b) /\ Project(b) = Project(a) => a = b

\* What a stack may be changed or restored from is never pruned: the plan of
\* an operation stays stored, however old it is (engine.ts:292-301).
ReferencedPlansKept == \A o \in Live : Plan(o).st = "kept"

\* What makes OneUnfinished and SoleWorker inductive.  A plan that is still
\* being prepared is not stored yet, so the project of an operation never
\* changes.
DraftsNew == \A l \in Plans : draft[l].pc # "idle" => plan[l].st = "none"
\* A busy operation holds the lock of its project,
BusyLocked == \A o \in Ops : Busy(o) => o \in Live /\ Project(o) \in locks
\* is the only busy one there, and the only unfinished one there.
BusyAlone ==
  \A a \in Ops, b \in Live :
    Busy(a) /\ Project(a) = Project(b) /\ (Busy(b) \/ Unfinished(b)) => a = b
BusyOnce == \A o \in Ops : flow[o].pc = "idle" \/ clean[o].pc = "idle"
\* What waits for its recovery to be confirmed keeps every other out.
ClaimsStuck ==
  \A r \in Requests : req[r].pc # "idle" => NeedsRecovery(req[r].op)
Exclusion == /\ ReferencedPlansKept /\ DraftsNew /\ BusyLocked /\ BusyAlone
             /\ BusyOnce /\ OneUnfinished /\ ClaimsStuck

\* One recovery completion at a time: two of them for one operation may both
\* pass their checks, and the second then drops a lock it does not hold
\* (engine.ts:351-366).
OneRequest == \A r, s \in Requests : r = s

-----------------------------------------------------------------------------
(* What a change leaves behind.                                            *)

Becomes(o, st) == op[o].st # st /\ op'[o].st = st

\* When the journal says that a change succeeded, the whole stack has been
\* replaced: every service has a replacement of its name, in the namespace of
\* the new VPN, and running if it ran; the project and its reference are the
\* replacements; every original is stopped under its recovery name
\* (engine.ts:447-474).
SucceedsWhole ==
  [][\A o \in Ops : Becomes(o, "succeeded") /\ Interrupts(o) =>
       LET new == proj'[Project(o)]
       IN /\ Members(new) \cap Members(Originals(o)) = {}
          /\ base'[Project(o)] = ConfsOf(new)
          /\ \A k \in Slots :
               /\ ctr[new[k]].name = Snap(o)[k].conf.name
               /\ Exists(new[k]) /\ Running(new[k]) = Wanted(o, k)
               /\ k \in Apps => ctr[new[k]].ns = new[Vpn]
               /\ ConfOf(Orig(o, k)) =
                    [Snap(o)[k].conf EXCEPT !.name = Backup(o, k)]
               /\ ctr[Orig(o, k)].st = "stopped"]_vars

\* When the journal says that a change was rolled back, the originals are as
\* they were when it was planned, nothing it created is left, and the project
\* and its reference are those of the plan (engine.ts:478-489, 355-364).
RollbackRestores ==
  [][\A o \in Ops : Becomes(o, "rolled_back") /\ op[o].renamed # {} =>
       /\ Restored(o)
       /\ \A k \in DOMAIN op[o].created : ~Exists(op[o].created[k])
       /\ proj'[Project(o)] = Originals(o)
       /\ base'[Project(o)] = Plan(o).base]_vars

\* A stack that nothing works on is described by its reference: drift shows
\* what somebody else did, never what the engine itself left behind
\* (engine.ts:442, 471, 484, 496, 360).
ReferenceMatches ==
  \A p \in Projects :
    proj[p] # <<>> /\ Free(p) => base[p] = ConfsOf(proj[p])

\* A stack that nothing works on is complete, so that its next change can be
\* planned: its services are there, the applications share the namespace of
\* its VPN, and nothing else does (engine.ts:183-197, 447-473).
StackIntact ==
  \A p \in Projects : proj[p] # <<>> /\ Free(p) => Intact(proj[p])

\* Successful operations retain stopped originals, under their recovery names
\* and owned by nobody, until the owner has them removed.
OriginalsRetained ==
  \A o \in Live : op[o].st = "succeeded" /\ op[o].cleanup = "none" =>
    \A i \in op[o].renamed : /\ ctr[i].st = "stopped" /\ i \notin Owned
                            /\ o \in ctr[i].name.tags

\* Two projects never own the same container, so that no change of one
\* replaces a service of the other (engine.ts:219-222).
OwnershipDisjoint ==
  \A p, q \in Projects : p # q => Members(proj[p]) \cap Members(proj[q]) = {}

-----------------------------------------------------------------------------
(* What a step may never do.                                               *)

\* An apply stops a VPN only when no application in its namespace is running:
\* an application must not outlive its tunnel.  The emergency stop, which
\* stops everything at once, is the exception (engine.ts:448, 480, 492).
ClientsFirst ==
  [][\A o \in Ops, i \in Ids :
       /\ flow'[o] # flow[o] /\ flow[o].pc # "giveUp"
       /\ Running(i) /\ ctr'[i].st = "stopped"
       => \A j \in Dependents(i) : ~Running(j)]_vars

\* When the journal says that a rollback failed, no application and no
\* replacement is left running without a verified VPN (engine.ts:490-494).
\* This is of at most two failures: a third can make a last stop fail as well,
\* which the code does not look at (engine.ts:491).
FailedMeansStopped ==
  [][\A o \in Ops : Becomes(o, "rollback_failed") =>
       /\ \A k \in Apps : ~Running(Orig(o, k))
       /\ \A k \in DOMAIN op[o].created : ~Running(op[o].created[k])]_vars

\* The removal of retained originals deletes nothing else: no container that
\* a project owns, that runs, or that another one depends on
\* (engine.ts:376-384, 402-404).
CleanupTakesRetained ==
  [][\A o \in Ops, i \in Ids :
       /\ clean[o].pc = "delete" /\ clean'[o] # clean[o]
       /\ Exists(i) /\ ctr'[i].st = "removed"
       => /\ i \in op[o].renamed \ Owned
          /\ o \in ctr[i].name.tags /\ ~Running(i)
          /\ Dependents(i) = {}]_vars

\* Manual recovery hands a project back only when the originals are what and
\* how they were (engine.ts:311-327, 351-366).
ReleaseOnlyRestored ==
  [][\A r \in Requests : req[r].pc = "confirm" /\ req'[r].pc = "idle"
       /\ <<proj', op'>> # <<proj, op>> => Restored(req[r].op)]_vars

\* A transaction that changed no container keeps the reference of the project
\* (engine.ts:495-498).
FailureKeepsReference ==
  [][\A o \in Ops : Becomes(o, "rolled_back") /\ flow[o].pc = "validate"
       => base' = base]_vars

-----------------------------------------------------------------------------
(* What must happen.                                                       *)

\* A change that has begun ends, whatever Docker answers, and a lock in the
\* memory of the helper is released (engine.ts:410, 500).
ChangeEnds ==
  /\ \A o \in Ops : flow[o].pc # "idle" ~> flow[o].pc = "idle"
  /\ \A p \in Projects : p \in locks ~> p \notin locks

-----------------------------------------------------------------------------
(* The journal as ChangeLifecycle promises it.                             *)

PhaseOf(o) ==
  CASE op[o].st = "none" -> "new"
    [] op[o].st = "applying" -> "changing"
    [] op[o].st \in {"interrupted", "rollback_failed"} -> "stuck"
    [] op[o].st = "rolled_back" -> "undone"
    [] op[o].st = "succeeded" ->
         IF op[o].cleanup \in {"applying", "interrupted"} THEN "cleaning"
         ELSE "kept"

Life == INSTANCE ChangeLifecycle WITH
          Changes <- Ops,
          phase <- [o \in Ops |-> PhaseOf(o)],
          of <- [o \in Ops |-> IF o \in Live THEN Project(o) ELSE NoProject]

\* The journal changes only as the abstract life cycle allows: one unfinished
\* change of a project at a time, and no change ends twice.
Lifecycle == Life!LifeSpec
=============================================================================
