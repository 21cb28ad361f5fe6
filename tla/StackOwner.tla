----------------------------- MODULE StackOwner -----------------------------
(***************************************************************************)
(* The other requests of the owner: plan a change, adopt a stack, complete *)
(* a manual recovery, and remove the retained originals.                   *)
(***************************************************************************)
EXTENDS StackApply

-----------------------------------------------------------------------------
(* plan() and the pruning of previews.                                     *)

Kept       == {l \in Plans : plan[l].st = "kept"}
Referenced == {op[o].plan : o \in Live}
\* Mutant of PrunedPlans: operations do not protect their plans.
PrunedAll ==
  [l \in Plans |-> IF l \in Kept /\ plan[l].expired
                   THEN [plan[l] EXCEPT !.st = "pruned"] ELSE plan[l]]
PrunedPlans ==
  [l \in Plans |-> IF l \in Kept /\ plan[l].expired /\ l \notin Referenced
                   THEN [plan[l] EXCEPT !.st = "pruned"] ELSE plan[l]]

PlanBegin(l, p) ==
  /\ plan[l].st = "none" /\ draft[l].pc = "idle"
  /\ proj[p] # <<>> /\ Free(p)
  /\ draft' = [draft EXCEPT ![l] = [pc |-> "observe", project |-> p,
                                    own |-> proj[p]]]
  /\ UNCHANGED <<ctr, disk, locks, flow, clean, adopting, req, faults>>

\* The stack is read, expired previews make room, and the cap is checked.
PlanObserve(l) ==
  LET d == draft[l]
      room == Cardinality({m \in Plans : PrunedPlans[m].st = "kept"}) < PlanCap
  IN /\ d.pc = "observe"
     /\ \/ /\ Intact(d.own) /\ plan' = PrunedPlans /\ UNCHANGED faults
           /\ draft' = [draft EXCEPT ![l] =
                IF room THEN [pc |-> "store", project |-> d.project,
                              snap |-> Observed(d.own)]
                        ELSE IdleDraft]
        \/ /\ ReadFails(Intact(d.own)) /\ UNCHANGED plan
           /\ draft' = [draft EXCEPT ![l] = IdleDraft]
     /\ UNCHANGED <<ctr, proj, base, op, reviews, locks, flow, clean, adopting,
                    req>>

\* The ports are compared with those of the host, which may fail.  The
\* reference stored with the plan is the one of this moment.
PlanStore(l, c) ==
  LET d == draft[l]
  IN /\ d.pc = "store"
     /\ \/ /\ plan' = [plan EXCEPT ![l] =
               [st |-> "kept", project |-> d.project, snap |-> d.snap, cfg |-> c,
                base |-> base[d.project], expired |-> FALSE]]
           /\ UNCHANGED faults
        \/ UNCHANGED plan /\ (Fault("fail") \/ Fault("save"))
     /\ draft' = [draft EXCEPT ![l] = IdleDraft]
     /\ UNCHANGED <<ctr, proj, base, op, reviews, locks, flow, clean, adopting,
                    req>>

\* Five minutes pass.
ExpirePlan(l) ==
  /\ l \in Kept /\ ~plan[l].expired
  /\ plan' = [plan EXCEPT ![l].expired = TRUE]
  /\ UNCHANGED <<ctr, proj, base, op, reviews, memory, faults>>
ExpireReview(v) ==
  /\ v \in reviews /\ reviews' = reviews \ {v}
  /\ UNCHANGED <<ctr, proj, base, plan, op, memory, faults>>

Prune ==
  /\ plan' = PrunedPlans
  /\ UNCHANGED <<ctr, proj, base, op, reviews, memory, faults>>

-----------------------------------------------------------------------------
(* adopt().                                                                *)

\* What the owner can pick from the list of candidates: one container for
\* each slot.
Selections == {s \in Stacks : \A k \in Slots : Exists(s[k]) /\ ctr[s[k]].name.slot = k}

AdoptBegin(p, s) ==
  /\ proj[p] = <<>> /\ adopting[p].pc = "idle"
  /\ Members(s) \cap RecoveryIds = {}
  /\ adopting' = [adopting EXCEPT ![p] = [pc |-> "inspect", own |-> s]]
  /\ UNCHANGED <<ctr, disk, locks, flow, clean, draft, req, faults>>

AdoptInspect(p) ==
  LET s == adopting[p].own
      good == /\ \A k \in Slots : Exists(s[k])
              /\ \A k \in Apps : ctr[s[k]].ns = s[Vpn]
  IN /\ adopting[p].pc = "inspect"
     /\ \/ /\ good /\ UNCHANGED <<ctr, faults>>
           /\ adopting' = [adopting EXCEPT ![p] =
                [pc |-> "claim", own |-> s, confs |-> ConfsOf(s)]]
        \/ /\ ReadFails(good)
           /\ adopting' = [adopting EXCEPT ![p] = IdleAdopt]
     /\ UNCHANGED <<disk, locks, flow, clean, draft, req>>

\* The dependents are listed; then, without a further await, ownership is
\* checked and both records are written.  (A reference written without its
\* project belongs to an identity that nobody has seen: to fail is the same.)
Owned == UNION {Members(proj[q]) : q \in Projects}
AdoptClaim(p) ==
  LET s == adopting[p].own
      good == Dependents(s[Vpn]) \subseteq {s[k] : k \in Apps}
      free == Members(s) \cap Owned = {}
  IN /\ adopting[p].pc = "claim"
     /\ adopting' = [adopting EXCEPT ![p] = IdleAdopt]
     /\ \/ /\ good /\ free /\ UNCHANGED <<ctr, faults>>
           /\ base' = [base EXCEPT ![p] = adopting[p].confs]
           /\ proj' = [proj EXCEPT ![p] = s]
        \/ ReadFails(good /\ free) /\ UNCHANGED <<base, proj>>
     /\ UNCHANGED <<plan, op, reviews, locks, flow, clean, draft, req>>

-----------------------------------------------------------------------------
(* Manual recovery.                                                        *)

NeedsRecovery(o) == /\ op[o].st \in {"interrupted", "rollback_failed"}
                    /\ Project(o) \notin locks

\* recoverySnapshots(): the originals are what and how they were, their
\* recorded replacements are gone, and nothing else uses their namespace.
Restored(o) == \A k \in Slots : Exists(Orig(o, k)) /\ Seen(Orig(o, k)) = Snap(o)[k]
Unreplaced(o) ==
  /\ \A k \in DOMAIN op[o].created : ~Exists(op[o].created[k])
  /\ Dependents(Orig(o, Vpn)) \subseteq {Orig(o, k) : k \in Apps}

\* A review only reads, and its token is checked against a later inspection:
\* when it was taken does not matter, so it is one step.
ReviewRecovery(o) ==
  /\ NeedsRecovery(o) /\ Restored(o) /\ Unreplaced(o)
  /\ reviews' = reviews \cup {[kind |-> "recovery", op |-> o,
                               seen |-> Originals(o)]}
  /\ plan' = PrunedPlans
  /\ UNCHANGED <<ctr, proj, base, op, memory, faults>>

RecoveryBegin(r, o) ==
  /\ req[r].pc = "idle" /\ NeedsRecovery(o)
  /\ req' = [req EXCEPT ![r] = [pc |-> "inspect", op |-> o]]
  /\ UNCHANGED <<ctr, disk, locks, flow, clean, draft, adopting, faults>>

RecoveryInspect(r) ==
  LET o == req[r].op
  IN /\ req[r].pc = "inspect"
     /\ \/ /\ Restored(o) /\ UNCHANGED <<ctr, faults>>
           /\ req' = [req EXCEPT ![r].pc = "confirm"]
        \/ ReadFails(Restored(o)) /\ req' = [req EXCEPT ![r] = IdleReq]
     /\ UNCHANGED <<disk, locks, flow, clean, draft, adopting>>

Confirmed(o) == [kind |-> "recovery", op |-> o, seen |-> Originals(o)] \in reviews
\* Mutant of Returned: the ownership record is left as it is.
ReturnedLeft(o) == proj
Returned(o)  == [proj EXCEPT ![Project(o)] = Originals(o)]

\* The lock is taken, three records are written and the lock is dropped
\* without an await in between.
RecoveryConfirm(r) ==
  LET o == req[r].op
      good == Unreplaced(o) /\ Confirmed(o)
  IN /\ req[r].pc = "confirm"
     /\ req' = [req EXCEPT ![r] = IdleReq]
     /\ \/ /\ good /\ Unlock(o) /\ UNCHANGED ctr
           /\ \/ /\ proj' = Returned(o) /\ base' = Former(o)
                 /\ op' = [op EXCEPT ![o].st = "rolled_back"]
                 /\ UNCHANGED faults
              \/ /\ Fault("save") /\ UNCHANGED op
                 /\ \/ proj' \in {proj, Returned(o)} /\ UNCHANGED base
                    \/ proj' = Returned(o) /\ base' = Former(o)
        \/ ReadFails(good) /\ UNCHANGED <<proj, base, op, locks>>
     /\ UNCHANGED <<plan, reviews, flow, clean, draft, adopting>>

-----------------------------------------------------------------------------
(* Removal of the retained originals.                                      *)

\* Mutant of Cleanable: the other operations are not asked.
CleanableAlone(o) == op[o].st = "succeeded"
\* Nothing else is unfinished in the project of a succeeded operation.
Cleanable(o) ==
  /\ op[o].st = "succeeded"
  /\ \A q \in Live \ {o} : ~(Project(q) = Project(o) /\ Unfinished(q))

\* The current stack runs and matches its reference.
Verified(p) == /\ Intact(proj[p]) /\ ConfsOf(proj[p]) = base[p]
               /\ Running(proj[p][Vpn])

\* The slots whose originals are left.
Candidates(o) == {k \in Slots : /\ Orig(o, k) \in op[o].renamed \ op[o].cleaned
                                /\ Exists(Orig(o, k))}
Removable(o, k) ==
  LET i == Orig(o, k)
  IN /\ i \notin Owned /\ ~Running(i)
     /\ ConfOf(i) = [Snap(o)[k].conf EXCEPT !.name = Backup(o, k)]
     /\ Dependents(i) \subseteq op[o].renamed

Deletable(o) == /\ Verified(Project(o))
                /\ \A k \in Candidates(o) : Removable(o, k)
Listed(o)    == [kind |-> "cleanup", op |-> o, seen |-> Candidates(o)]

ReviewCleanup(o) ==
  /\ Cleanable(o) /\ Project(o) \notin locks /\ Deletable(o)
  /\ reviews' = reviews \cup {Listed(o)}
  /\ plan' = PrunedPlans
  /\ UNCHANGED <<ctr, proj, base, op, memory, faults>>

untouched == <<proj, base, plan, reviews, flow, draft, adopting, req>>
CleanGoto(o, todo, at) ==
  clean' = [clean EXCEPT ![o] = [pc |-> at[1], k |-> at[2], todo |-> todo]]
EndClean(o) == clean' = [clean EXCEPT ![o] = IdleClean] /\ Unlock(o)

\* Mutant of CleanupBegin: the lock is taken without a look at it.
CleanupBeginAnyway(o) ==
  /\ Cleanable(o) /\ clean[o].pc = "idle"
  /\ locks' = locks \cup {Project(o)}
  /\ clean' = [clean EXCEPT ![o].pc = "vet"]
  /\ UNCHANGED <<ctr, op, untouched, faults>>

CleanupBegin(o) ==
  /\ Cleanable(o) /\ Project(o) \notin locks /\ clean[o].pc = "idle"
  /\ locks' = locks \cup {Project(o)}
  /\ clean' = [clean EXCEPT ![o].pc = "vet"]
  /\ UNCHANGED <<ctr, op, untouched, faults>>

\* The catch block: an unfinished removal is marked, then the lock released.
CleanupStops(o) ==
  /\ EndClean(o)
  /\ op' = [op EXCEPT ![o].cleanup = IF @ = "applying" THEN "interrupted" ELSE @]

CleanupVet(o) ==
  LET good == Deletable(o) /\ Listed(o) \in reviews
  IN /\ clean[o].pc = "vet"
     /\ \/ /\ good /\ UNCHANGED <<ctr, locks, faults>>
           /\ op' = [op EXCEPT ![o].cleanup = "applying"]
           /\ CleanGoto(o, Candidates(o), <<"check", 1>>)
        \/ ReadFails(good) /\ CleanupStops(o)
        \/ good /\ Fault("save") /\ EndClean(o)
           /\ op' \in {op, [op EXCEPT ![o].cleanup = "interrupted"]}
           /\ UNCHANGED ctr
     /\ UNCHANGED untouched

\* Applications first, the VPN last.
CleanupCheck(o) ==
  LET c == clean[o]
      k == StopSlot(c.k)
      good == /\ Exists(Orig(o, k))
              /\ Seen(Orig(o, k)) =
                   [conf |-> [Snap(o)[k].conf EXCEPT !.name = Backup(o, k)], up |-> FALSE]
  IN /\ c.pc = "check"
     /\ IF k \in c.todo
        THEN \/ /\ good /\ CleanGoto(o, c.todo, <<"delete", c.k>>)
                /\ UNCHANGED <<ctr, op, locks, faults>>
             \/ ReadFails(good) /\ CleanupStops(o)
        ELSE /\ CleanGoto(o, c.todo, Then("check", c.k, <<"done", 0>>))
             /\ UNCHANGED <<ctr, op, locks, faults>>
     /\ UNCHANGED untouched

CleanupDelete(o) ==
  LET c == clean[o]
      i == Orig(o, StopSlot(c.k))
  IN /\ c.pc = "delete"
     /\ \/ /\ CanRemove(i) /\ ctr' = RemovedC(i)
           /\ \/ /\ op' = [op EXCEPT ![o].cleaned = @ \cup {i}]
                 /\ CleanGoto(o, c.todo, Then("check", c.k, <<"done", 0>>))
                 /\ UNCHANGED <<locks, faults>>
              \/ \* The journal write fails: the catch block writes the whole
                 \* record, or fails too.
                 /\ Fault("save") /\ EndClean(o)
                 /\ op' \in {op, [op EXCEPT ![o].cleanup = "interrupted",
                                            ![o].cleaned = @ \cup {i}]}
        \/ Refused(CanRemove(i), RemovedC(i)) /\ CleanupStops(o)
     /\ UNCHANGED untouched

\* When the last write fails the catch block leaves the record as it is: it
\* finds "completed" in its copy.
CleanupDone(o) ==
  /\ clean[o].pc = "done"
  /\ EndClean(o)
  /\ \/ op' = [op EXCEPT ![o].cleanup = "completed"] /\ UNCHANGED faults
     \/ Fault("save") /\ UNCHANGED op
  /\ UNCHANGED <<ctr, untouched>>

CleanupStep(o) == \/ CleanupVet(o) \/ CleanupCheck(o) \/ CleanupDelete(o)
                  \/ CleanupDone(o)
=============================================================================
