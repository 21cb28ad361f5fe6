----------------------------- MODULE StackApply -----------------------------
(***************************************************************************)
(* apply(): one reviewed change of a stack, from its validation to its     *)
(* success, its rollback, or a rollback that failed.                       *)
(***************************************************************************)
EXTENDS StackJournal

-----------------------------------------------------------------------------
(* apply(): validation.                                                    *)

Start(l) == [NoOp EXCEPT !.st = "applying", !.plan = l]

\* The checks, the lock and the first record, in one go.
ApplyBegin(o, l) ==
  /\ op[o].st = "none" /\ flow[o].pc = "idle"
  /\ plan[l].st = "kept" /\ ~plan[l].expired
  /\ \A q \in Live : op[q].plan # l
  /\ Free(plan[l].project)
  /\ \/ /\ locks' = locks \cup {plan[l].project}
        /\ op' = [op EXCEPT ![o] = Start(l)]
        /\ flow' = [flow EXCEPT ![o] = [IdleFlow EXCEPT
                      !.pc = "validate", !.st = "applying",
                      !.own = proj[plan[l].project]]]
        /\ UNCHANGED <<base, faults>>
     \/ \* The first record fails.  The catch block may then write both the
        \* reference and the status; when it fails too, "finally" may write
        \* the record as it was; and when that fails the lock stays.
        /\ Fault("save") /\ UNCHANGED flow
        /\ \/ /\ base' = [base EXCEPT ![plan[l].project] = plan[l].base]
              /\ op' = [op EXCEPT ![o] = [Start(l) EXCEPT !.st = "rolled_back"]]
              /\ UNCHANGED locks
           \/ UNCHANGED <<base, locks>> /\ op' = [op EXCEPT ![o] = Start(l)]
           \/ /\ locks' = locks \cup {plan[l].project}
              /\ \/ UNCHANGED <<base, op>>
                 \/ /\ base' = [base EXCEPT ![plan[l].project] = plan[l].base]
                    /\ op' \in {op, [op EXCEPT ![o] =
                                      [Start(l) EXCEPT !.st = "rolled_back"]]}
  /\ UNCHANGED <<ctr, proj, plan, reviews, clean, draft, adopting, req>>

Plan(o)    == plan[op[o].plan]
Interrupts(o) == Plan(o).cfg # Snap(o)[Vpn].conf.cfg
Valid(o)   == Intact(flow[o].own) /\ Observed(flow[o].own) = Snap(o)

\* The catch block before anything was mutated: the reference of the plan
\* is written back, then the status.
Undone(o) == Journal(o, [flow[o] EXCEPT !.st = "rolled_back"])
\* Mutant of Former: the reference is left as it is.
FormerLeft(o) == base
Former(o) == [base EXCEPT ![Project(o)] = Plan(o).base]
\* Mutant of Abandoned: the lock is kept.
AbandonedLocked(o) == base' = Former(o) /\ op' = Undone(o) /\ UNCHANGED locks
Abandoned(o) == base' = Former(o) /\ op' = Undone(o) /\ Unlock(o)
AbandonBreaks(o) ==
  /\ Fault("save")
  /\ \/ UNCHANGED <<base, op>> /\ Unlock(o)
     \/ UNCHANGED <<base, op>> /\ UNCHANGED locks
     \/ base' = Former(o) /\ op' \in {op, Undone(o)} /\ UNCHANGED locks

ValidationFails(o) ==
  /\ flow[o].pc = "validate"
  /\ End(o)
  /\ \/ /\ Abandoned(o)
        /\ \/ ~Valid(o) /\ UNCHANGED faults
           \/ Fault("fail") \/ Fault("save")
     \/ AbandonBreaks(o)
  /\ UNCHANGED <<ctr, proj, plan, reviews, clean, draft, adopting, req>>

\* Nothing to change: the observed configuration becomes the reference.
Confirming(o) == [base EXCEPT ![Project(o)] = [k \in Slots |-> Snap(o)[k].conf]]
NothingToChange(o) ==
  /\ flow[o].pc = "validate" /\ Valid(o) /\ ~Interrupts(o)
  /\ base' = Confirming(o)
  /\ Conclude(o, [flow[o] EXCEPT !.st = "succeeded"])
  /\ UNCHANGED <<ctr, proj, plan, reviews, clean, draft, adopting, req>>

Prepared(o) ==
  /\ flow[o].pc = "validate" /\ Valid(o) /\ Interrupts(o)
  /\ Goto(o, flow[o], <<"stop", 1>>)
  /\ UNCHANGED <<ctr, disk, locks, clean, draft, adopting, req, faults>>

-----------------------------------------------------------------------------
(* apply(): the change itself.                                             *)

still == <<proj, base, plan, reviews, locks, clean, draft, adopting, req>>

Backup(o, k) == [Snap(o)[k].conf.name EXCEPT !.tags = @ \cup {o}]
\* Mutant of StopSlot: the stack is stopped in its own order.
StopSlotInOrder(k) == k
\* Applications are stopped first, the VPN last.
StopSlot(k)  == IF k < Size THEN k + 1 ELSE Vpn
\* A service that was stopped stays stopped, and so do the applications of
\* a stopped VPN.
Wanted(o, k) == Snap(o)[k].up /\ Snap(o)[Vpn].up
\* Mutant of Then: a loop runs past its end.
ThenPast(loop, k, at) == IF k <= Size THEN <<loop, k + 1>> ELSE at
\* The slot after k of a loop over the stack, or what follows the loop.
Then(loop, k, at) == IF k < Size THEN <<loop, k + 1>> ELSE at

StopOriginal(o) ==
  LET k == flow[o].k
      i == Orig(o, StopSlot(k))
      at == Then("stop", k, <<"rename", 1>>)
  IN /\ flow[o].pc = "stop"
     /\ IF Snap(o)[StopSlot(k)].up
        THEN Await(o, CanStop(i), Stopped({i}), at, Caught)
        ELSE Goto(o, flow[o], at) /\ UNCHANGED <<ctr, faults>>
     /\ UNCHANGED <<op, still>>

RenameOriginal(o) ==
  LET k == flow[o].k
      i == Orig(o, k)
      can == CanRename(i, Backup(o, k))
      after == Renamed(i, Backup(o, k))
      done == [flow[o] EXCEPT !.renamed = @ \cup {i}]
  IN /\ flow[o].pc = "rename"
     /\ \/ /\ can /\ ctr' = after
           /\ Recorded(o, done, Then("rename", k, <<"create", Vpn>>))
        \/ Refused(can, after) /\ Goto(o, flow[o], Caught) /\ UNCHANGED op
     /\ UNCHANGED still

\* What follows once slot k has been recreated; before that, once it has
\* been started or need not be, the namespace of an application is checked.
AfterSlot(k)  == Then("create", k, <<"commit", 0>>)
AfterStart(k) == IF k \in Apps THEN <<"verify", k>> ELSE AfterSlot(k)

\* The VPN is created with the desired settings, an application with its own
\* settings in the namespace of the new VPN.
Replacement(o, k) ==
  LET was == Snap(o)[k].conf
  IN IF k = Vpn THEN Created(was.name, Plan(o).cfg, was.ns)
     ELSE Created(was.name, was.cfg, flow[o].created[Vpn])

CreateReplacement(o) ==
  LET k == flow[o].k
      can == CanCreate(Snap(o)[k].conf.name)
      after == Replacement(o, k)
      done == [flow[o] EXCEPT !.created = Append(@, FreshId)]
      at == IF Wanted(o, k) THEN <<"start", k>> ELSE AfterStart(k)
  IN /\ flow[o].pc = "create"
     /\ \/ can /\ ctr' = after /\ Recorded(o, done, at)
        \/ Refused(can, after) /\ Goto(o, flow[o], Caught) /\ UNCHANGED op
     /\ UNCHANGED still

StartReplacement(o) ==
  LET i == flow[o].created[flow[o].k]
  IN /\ flow[o].pc = "start"
     /\ Await(o, CanStart(i), Started(i), <<"health", flow[o].k>>, Caught)
     /\ UNCHANGED <<op, still>>

AwaitReplacement(o) ==
  LET i == flow[o].created[flow[o].k]
  IN /\ flow[o].pc = "health"
     /\ Await(o, CanBeHealthy(i), ctr, AfterStart(flow[o].k), Caught)
     /\ UNCHANGED <<op, still>>

VerifyNamespace(o) ==
  LET i == flow[o].created[flow[o].k]
      good == Exists(i) /\ ctr[i].ns = flow[o].created[Vpn]
  IN /\ flow[o].pc = "verify"
     /\ Await(o, good, ctr, AfterSlot(flow[o].k), Caught)
     /\ UNCHANGED <<op, still>>

\* Mutant of Replaced: the snapshots of the plan become the reference.
ReplacedByPlan(o) ==
  [base EXCEPT ![Project(o)] = [k \in Slots |-> Snap(o)[k].conf]]
\* Mutant of Rebound: the project keeps the original VPN.
ReboundApps(o) ==
  [proj EXCEPT ![Project(o)] = [flow[o].created EXCEPT ![Vpn] = Orig(o, Vpn)]]
\* The new reference, the new owner record and the status, in this order.
Replaced(o)  == [base EXCEPT ![Project(o)] = ConfsOf(flow[o].created)]
Rebound(o)   == [proj EXCEPT ![Project(o)] = flow[o].created]
AllThere(o)  == \A k \in Slots : Exists(flow[o].created[k])

Commit(o) ==
  /\ flow[o].pc = "commit" /\ AllThere(o)
  /\ base' = Replaced(o) /\ proj' = Rebound(o)
  /\ Conclude(o, [flow[o] EXCEPT !.st = "succeeded"])
  /\ UNCHANGED <<ctr, plan, reviews, clean, draft, adopting, req>>

\* An inspection fails, or one of the three writes does: those before it
\* remain.  The third is tried when the status already says "succeeded".
CommitFails(o) ==
  /\ flow[o].pc = "commit"
  /\ \/ /\ ReadFails(AllThere(o)) /\ Goto(o, flow[o], Caught)
        /\ UNCHANGED <<base, proj>>
     \/ /\ AllThere(o) /\ Fault("save") /\ UNCHANGED ctr
        /\ \/ /\ base' \in {base, Replaced(o)} /\ UNCHANGED proj
              /\ Goto(o, flow[o], Caught)
           \/ /\ base' = Replaced(o) /\ proj' = Rebound(o)
              /\ Goto(o, [flow[o] EXCEPT !.st = "succeeded"], Caught)
  /\ UNCHANGED <<op, plan, reviews, locks, clean, draft, adopting, req>>

-----------------------------------------------------------------------------
(* apply(): the rollback.                                                  *)

\* Mutant of BeginRollback: without replacements the names are forgotten.
BeginRollbackHasty(o) ==
  LET n == Len(flow[o].created)
      at == IF n > 0 THEN <<"discard", n>> ELSE <<"disown", 0>>
  IN /\ flow[o].pc = "caught"
     /\ \/ op' = Journal(o, flow[o]) /\ Goto(o, flow[o], at) /\ UNCHANGED faults
        \/ UNCHANGED op /\ Fault("save") /\ Goto(o, flow[o], GiveUp)
     /\ UNCHANGED <<ctr, still>>

BeginRollback(o) ==
  LET n == Len(flow[o].created)
      at == IF n > 0 THEN <<"discard", n>> ELSE <<"rename back", 1>>
  IN /\ flow[o].pc = "caught"
     /\ \/ op' = Journal(o, flow[o]) /\ Goto(o, flow[o], at) /\ UNCHANGED faults
        \/ UNCHANGED op /\ Fault("save") /\ Goto(o, flow[o], GiveUp)
     /\ UNCHANGED <<ctr, still>>

\* Replacements go in reverse order, each stopped and then removed.
DiscardReplacement(o) ==
  LET k == flow[o].k
      i == flow[o].created[k]
      at == IF k > 1 THEN <<"discard", k - 1>> ELSE <<"rename back", 1>>
  IN /\ \/ /\ flow[o].pc = "discard"
           /\ Await(o, CanStop(i), Stopped({i}), <<"remove", k>>, GiveUp)
        \/ /\ flow[o].pc = "remove"
           /\ Await(o, CanRemove(i), RemovedC(i), at, GiveUp)
     /\ UNCHANGED <<op, still>>

RestoreName(o) ==
  LET k == flow[o].k
      i == Orig(o, k)
      name == Snap(o)[k].conf.name
      at == Then("rename back", k, <<"disown", 0>>)
  IN /\ flow[o].pc = "rename back"
     /\ IF i \in flow[o].renamed
        THEN Await(o, CanRename(i, name), Renamed(i, name), at, GiveUp)
        ELSE Goto(o, flow[o], at) /\ UNCHANGED <<ctr, faults>>
     /\ UNCHANGED <<op, still>>

\* The reference of the plan and the original containers are written back.
RestoreOwnership(o) ==
  /\ flow[o].pc = "disown"
  /\ \/ /\ base' = Former(o)
        /\ proj' = [proj EXCEPT ![Project(o)] = Originals(o)]
        /\ Goto(o, flow[o], <<"restart", 1>>) /\ UNCHANGED faults
     \/ /\ base' \in {base, Former(o)} /\ UNCHANGED proj
        /\ Fault("save") /\ Goto(o, flow[o], GiveUp)
  /\ UNCHANGED <<ctr, plan, op, reviews, locks, clean, draft, adopting, req>>

RestartOriginal(o) ==
  LET k == flow[o].k
      i == Orig(o, k)
      at == Then("restart", k, <<"restored", 0>>)
  IN /\ \/ /\ flow[o].pc = "restart"
           /\ IF Wanted(o, k)
              THEN Await(o, CanStart(i), Started(i), <<"reverify", k>>, GiveUp)
              ELSE Goto(o, flow[o], at) /\ UNCHANGED <<ctr, faults>>
        \/ /\ flow[o].pc = "reverify"
           /\ Await(o, CanBeHealthy(i), ctr, at, GiveUp)
     /\ UNCHANGED <<op, still>>

RolledBack(o) ==
  /\ flow[o].pc = "restored"
  /\ \/ Conclude(o, [flow[o] EXCEPT !.st = "rolled_back"])
     \/ Fault("save") /\ Goto(o, flow[o], GiveUp) /\ UNCHANGED <<op, locks>>
  /\ UNCHANGED <<ctr, proj, base, plan, reviews, clean, draft, adopting, req>>

\* Mutant of Asked: only the replacements are stopped.
AskedNew(o) == {i \in Members(flow[o].created) : Running(i)}
\* Promise.allSettled: every application and every replacement is stopped,
\* and nobody looks whether a stop succeeded.
Asked(o) == {i \in {Orig(o, k) : k \in Apps} \cup Members(flow[o].created) :
               Running(i)}
StopEverything(o) ==
  /\ flow[o].pc = "giveUp"
  /\ \/ ctr' = Stopped(Asked(o)) /\ UNCHANGED faults
     \/ \E kept \in SUBSET Asked(o) \ {{}} :
          ctr' = Stopped(Asked(o) \ kept) /\ Fault("fail")
  /\ Goto(o, flow[o], <<"failed", 0>>)
  /\ UNCHANGED <<op, still>>

RollbackFailed(o) ==
  /\ flow[o].pc = "failed"
  /\ \/ Conclude(o, [flow[o] EXCEPT !.st = "rollback_failed"])
     \/ UNCHANGED <<op, locks>> /\ End(o) /\ Fault("save")
  /\ UNCHANGED <<ctr, proj, base, plan, reviews, clean, draft, adopting, req>>

\* A call that was sent and never answered takes effect.
Unanswered(o) ==
  LET k == flow[o].k
      at(pc) == flow[o].pc = pc
      i == Orig(o, k)
      first == Orig(o, StopSlot(k))
      new == flow[o].created[k]
      was == Snap(o)[k].conf
  IN \/ at("stop") /\ Snap(o)[StopSlot(k)].up /\ CanStop(first) /\ ctr' = Stopped({first})
     \/ at("rename") /\ CanRename(i, Backup(o, k)) /\ ctr' = Renamed(i, Backup(o, k))
     \/ at("create") /\ CanCreate(was.name) /\ ctr' = Replacement(o, k)
     \/ at("start") /\ CanStart(new) /\ ctr' = Started(new)
     \/ at("discard") /\ CanStop(new) /\ ctr' = Stopped({new})
     \/ at("remove") /\ CanRemove(new) /\ ctr' = RemovedC(new)
     \/ /\ at("rename back") /\ i \in flow[o].renamed
        /\ CanRename(i, was.name) /\ ctr' = Renamed(i, was.name)
     \/ at("restart") /\ Wanted(o, k) /\ CanStart(i) /\ ctr' = Started(i)
     \/ at("giveUp") /\ \E S \in SUBSET Asked(o) : ctr' = Stopped(S)

ApplyStep(o) ==
  \/ ValidationFails(o) \/ NothingToChange(o) \/ Prepared(o)
  \/ StopOriginal(o) \/ RenameOriginal(o)
  \/ CreateReplacement(o) \/ StartReplacement(o) \/ AwaitReplacement(o)
  \/ VerifyNamespace(o) \/ Commit(o) \/ CommitFails(o)
  \/ BeginRollback(o) \/ DiscardReplacement(o) \/ RestoreName(o)
  \/ RestoreOwnership(o) \/ RestartOriginal(o) \/ RolledBack(o)
  \/ StopEverything(o) \/ RollbackFailed(o)
=============================================================================
