---------------------------- MODULE ManagedStack ----------------------------
(***************************************************************************)
(* The managed-stack engine as a whole: the requests of the owner, the     *)
(* running operations, restarts of the helper, and what happens to the     *)
(* containers outside of it.                                               *)
(***************************************************************************)
EXTENDS StackOwner

-----------------------------------------------------------------------------
(* Restart, the owner's repairs, and changes behind the helper's back.     *)

\* The constructor: unfinished work is marked, and nothing is replayed.
Restarted ==
  [o \in Ops |-> [op[o] EXCEPT
     !.st = IF @ = "applying" THEN "interrupted" ELSE @,
     !.cleanup = IF @ = "applying" THEN "interrupted" ELSE @]]

\* Writes that precede the crash in a block that makes several.
Torn ==
  \/ UNCHANGED <<base, proj>>
  \/ \E o \in Ops :
       \/ /\ flow[o].pc = "commit" /\ AllThere(o)
          /\ base' = Replaced(o) /\ proj' \in {proj, Rebound(o)}
       \/ flow[o].pc = "disown" /\ base' = Former(o) /\ UNCHANGED proj
       \/ /\ flow[o].pc = "validate" /\ ~Valid(o)
          /\ base' = Former(o) /\ UNCHANGED proj
       \/ /\ flow[o].pc = "validate" /\ Valid(o) /\ ~Interrupts(o)
          /\ base' = Confirming(o) /\ UNCHANGED proj
  \/ \E r \in Requests :
       /\ req[r].pc = "confirm" /\ Confirmed(req[r].op) /\ Unreplaced(req[r].op)
       /\ proj' = Returned(req[r].op) /\ base' \in {base, Former(req[r].op)}

\* A call of an apply or of a cleanup that was under way still happens.
Stray ==
  \/ UNCHANGED ctr
  \/ \E o \in Ops : Unanswered(o)
  \/ \E o \in Ops : LET i == Orig(o, StopSlot(clean[o].k))
                    IN /\ clean[o].pc = "delete" /\ CanRemove(i)
                       /\ ctr' = RemovedC(i)

Crash ==
  /\ Fault("crash") /\ Stray
  /\ op' = Restarted /\ Torn
  /\ locks' = {}
  /\ flow' = [o \in Ops |-> IdleFlow] /\ clean' = [o \in Ops |-> IdleClean]
  /\ draft' = [l \in Plans |-> IdleDraft]
  /\ adopting' = [p \in Projects |-> IdleAdopt]
  /\ req' = [r \in Requests |-> IdleReq]
  /\ UNCHANGED <<plan, reviews>>

\* What the documentation asks of the owner: whatever took the names of the
\* originals or was created for the operation is removed, and the originals
\* get their names and their run state back.
OwnerRepairs(o) ==
  LET slot(i) == {k \in Slots : Orig(o, k) = i}
      names == {Snap(o)[k].conf.name : k \in Slots}
      repaired(i) ==
        IF slot(i) # {}
        THEN LET k == CHOOSE k \in slot(i) : TRUE
             IN [ctr[i] EXCEPT !.name = Snap(o)[k].conf.name,
                   !.st = IF Snap(o)[k].up THEN "running" ELSE "stopped"]
        ELSE IF Exists(i) /\ (ctr[i].name \in names \/ i \in Members(op[o].created))
        THEN [ctr[i] EXCEPT !.st = "removed"] ELSE ctr[i]
  IN /\ NeedsRecovery(o) /\ \A k \in Slots : Exists(Orig(o, k))
     /\ ctr' = [i \in Ids |-> repaired(i)]
     /\ UNCHANGED <<disk, memory, faults>>

Drift(i) ==
  /\ Exists(i) /\ Fault("drift")
  /\ \/ ctr' = Stopped({i})
     \/ CanStart(i) /\ ctr' = Started(i)
     \/ ctr' = RemovedC(i)
  /\ UNCHANGED <<disk, memory>>

-----------------------------------------------------------------------------
Injective(s) == \A j, k \in Slots : s[j] = s[k] => j = k

\* There is a stack to adopt, and something to configure.
ASSUME HostAssumption == (\E s \in Stacks : Injective(s)) /\ Cfgs # {}

\* One stack, running, or with everything stopped, or with its applications
\* stopped, and a helper that has adopted nothing yet.
InitContainer(s, up) ==
  [i \in Ids |->
    IF \E k \in Slots : s[k] = i
    THEN LET k == CHOOSE k \in Slots : s[k] = i
         IN [st |-> IF k \in up THEN "running" ELSE "stopped",
             name |-> [slot |-> k, tags |-> {}], cfg |-> CHOOSE c \in Cfgs : TRUE,
             ns |-> IF k = Vpn THEN NoId ELSE s[Vpn]]
    ELSE [st |-> "unused", name |-> [slot |-> Vpn, tags |-> {}],
          cfg |-> CHOOSE c \in Cfgs : TRUE, ns |-> NoId]]

Init ==
  /\ \E up \in {{}, {Vpn}, Slots} :
       ctr = InitContainer(CHOOSE s \in Stacks : Injective(s), up)
  /\ proj = [p \in Projects |-> <<>>]
  /\ base = [p \in Projects |-> <<>>]
  /\ plan = [l \in Plans |-> NoPlanRec]
  /\ op = [o \in Ops |-> NoOp]
  /\ reviews = {}
  /\ locks = {}
  /\ flow = [o \in Ops |-> IdleFlow]
  /\ clean = [o \in Ops |-> IdleClean]
  /\ draft = [l \in Plans |-> IdleDraft]
  /\ adopting = [p \in Projects |-> IdleAdopt]
  /\ req = [r \in Requests |-> IdleReq]
  /\ faults = 0

Next ==
  \/ \E o \in Ops, l \in Plans : ApplyBegin(o, l)
  \/ \E o \in Ops : ApplyStep(o)
  \/ \E l \in Plans, p \in Projects : PlanBegin(l, p)
  \/ \E l \in Plans : PlanObserve(l) \/ ExpirePlan(l)
  \/ \E l \in Plans, c \in Cfgs : PlanStore(l, c)
  \/ \E v \in reviews : ExpireReview(v)
  \/ Prune
  \/ \E p \in Projects, s \in Selections : AdoptBegin(p, s)
  \/ \E p \in Projects : AdoptInspect(p) \/ AdoptClaim(p)
  \/ \E o \in Ops : ReviewRecovery(o) \/ ReviewCleanup(o)
  \/ \E r \in Requests, o \in Ops : RecoveryBegin(r, o)
  \/ \E r \in Requests : RecoveryInspect(r) \/ RecoveryConfirm(r)
  \/ \E o \in Ops : CleanupBegin(o) \/ CleanupStep(o)
  \/ Crash
  \/ \E o \in Ops : OwnerRepairs(o)
  \/ \E i \in Ids : Drift(i)

Spec == Init /\ [][Next]_vars
=============================================================================
