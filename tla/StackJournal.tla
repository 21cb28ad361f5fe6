---------------------------- MODULE StackJournal ----------------------------
(***************************************************************************)
(* State of the managed-stack engine (src/server/management/engine.ts),    *)
(* and how it waits for Docker and writes its journal.  An owner adopts a  *)
(* VPN with its applications, plans a change, and applies it as a sequence *)
(* of Docker calls that is journalled, rolled back on failure, and         *)
(* reviewed by the owner after a crash.                                    *)
(*                                                                         *)
(* The helper is one Node process.  Its requests interleave at every await *)
(* and nowhere else, so an action is the code between two awaits, with the *)
(* effect of the awaited Docker call.  A crash may fall anywhere, also     *)
(* between two writes of one such block.  What is on disk survives it      *)
(* (proj, base, plan, op, reviews); what the process holds does not        *)
(* (locks and the flows).                                                  *)
(***************************************************************************)
EXTENDS Docker, Sequences, FiniteSets

CONSTANTS
  Projects,   \* identities an adoption can be given
  Plans,      \* identities of change plans
  NoPlan,     \* the plan of an operation that does not exist yet
  Requests,   \* recovery completions the owner may have in flight at once
  Faults,     \* kinds of trouble that may happen, a subset of FaultKinds
  MaxFaults,  \* bound on how often it happens
  PlanCap     \* plans the helper stores at most (1000 in the code)

\* "fail"  a call has no effect and reports an error
\* "lost"  a call takes effect, but its answer never arrives (40 s timeout)
\* "save"  a write of the journal fails          "crash"  the helper restarts
\* "drift" somebody stops, starts or removes a container behind the helper
FaultKinds == {"fail", "lost", "save", "crash", "drift"}

ASSUME StackAssumption ==
  /\ Faults \subseteq FaultKinds
  /\ MaxFaults \in Nat
  /\ PlanCap \in Nat
  /\ NoPlan \notin Plans

VARIABLES
  proj,      \* proj[p] : the containers project p owns, <<>> before adoption
  base,      \* base[p] : the reference configuration of p, <<>> without one
  plan,      \* plan[l] : the stored change plan l
  op,        \* op[o] : the journal record of operation o
  reviews,   \* review tokens that have not expired
  locks,     \* projects locked in the memory of the process
  flow,      \* flow[o] : the running apply of o, with its copy of the record
  clean,     \* clean[o] : the running cleanup of o
  draft,     \* draft[l] : the running preparation of plan l
  adopting,  \* adopting[p] : the running adoption that will become p
  req,       \* req[r] : the running recovery completion r
  faults     \* how much trouble there has been

disk   == <<proj, base, plan, op, reviews>>
memory == <<locks, flow, clean, draft, adopting, req>>
vars   == <<ctr, disk, memory, faults>>

Stacks == [Slots -> Ids]
Vpn    == 1
Apps   == Slots \ {Vpn}

\* A stored plan; the owner's requested settings are cfg.
PlanRec == [st : {"none", "kept", "pruned"}, project : Projects,
            snap : [Slots -> Snapshots], cfg : Cfgs,
            base : [Slots -> Confs] \cup {<<>>}, expired : BOOLEAN]
NoPlanRec == [st |-> "none", expired |-> FALSE]

OpStatus == {"none", "applying", "succeeded", "rolled_back",
             "rollback_failed", "interrupted"}
NoOp == [st |-> "none", plan |-> NoPlan, created |-> <<>>, renamed |-> {},
         cleanup |-> "none", cleaned |-> {}]

IdleFlow  == [pc |-> "idle", k |-> 0, st |-> "none", created |-> <<>>,
              renamed |-> {}, own |-> <<>>]
IdleClean == [pc |-> "idle", k |-> 0, todo |-> {}]
IdleDraft == [pc |-> "idle"]
IdleAdopt == [pc |-> "idle"]
IdleReq   == [pc |-> "idle"]

Fault(kind) == kind \in Faults /\ faults < MaxFaults /\ faults' = faults + 1

-----------------------------------------------------------------------------
(* What the engine reads from its records.                                 *)

Snap(o)     == plan[op[o].plan].snap
Project(o)  == plan[op[o].plan].project
Orig(o, k)  == Snap(o)[k].conf.id
Originals(o) == [k \in Slots |-> Orig(o, k)]
Live        == {o \in Ops : op[o].st # "none"}

\* The statuses that lock a project in the journal.
Unfinished(o) ==
  \/ op[o].st \in {"applying", "interrupted", "rollback_failed"}
  \/ op[o].cleanup \in {"applying", "interrupted"}

Blocked(p) == \E o \in Live : Project(o) = p /\ Unfinished(o)
\* Mutant of Free: what the journal says is not asked.
FreeUnlocked(p) == p \notin locks
Free(p)    == p \notin locks /\ ~Blocked(p)

\* Mutant of RecoveryIds: unfinished operations are forgotten.
RecoveryIdsSettled ==
  UNION {IF op[o].st = "succeeded" THEN op[o].renamed \ op[o].cleaned ELSE {} :
           o \in Ops}
\* Containers that may not be adopted: see inventory.ts.
RecoveryIds ==
  UNION {IF op[o].st \in {"applying", "interrupted", "rollback_failed"}
         THEN (op[o].renamed
                 \cup {op[o].created[k] : k \in DOMAIN op[o].created})
              \ op[o].cleaned
         ELSE IF op[o].st = "succeeded" THEN op[o].renamed \ op[o].cleaned
         ELSE {} : o \in Ops}

Members(s) == {s[k] : k \in DOMAIN s}

\* snapshots(): every owned container is there, the applications share the
\* namespace of the VPN, and nothing else does.
Intact(s) == /\ \A k \in Slots : Exists(s[k])
             /\ \A k \in Apps : ctr[s[k]].ns = s[Vpn]
             /\ Dependents(s[Vpn]) \subseteq {s[k] : k \in Apps}
Observed(s) == [k \in Slots |-> Seen(s[k])]
ConfsOf(s)  == [k \in Slots |-> ConfOf(s[k])]

-----------------------------------------------------------------------------
(* Waiting for Docker, and writing the journal.                            *)

\* The call reports an error: it was refused, it failed, or it took effect
\* and the answer was lost.
Refused(can, after) ==
  \/ ~can /\ UNCHANGED <<ctr, faults>>
  \/ can /\ ctr' = ctr /\ Fault("fail")
  \/ can /\ ctr' = after /\ Fault("lost")
ReadFails(can) == Refused(can, ctr)

Caught == <<"caught", 0>>   \* the catch block after a mutation
GiveUp == <<"giveUp", 0>>   \* the catch block inside that one

\* at = <<program counter, slot or position in a loop>>
Goto(o, f, at) == flow' = [flow EXCEPT ![o] = [f EXCEPT !.pc = at[1], !.k = at[2]]]

\* Operation o waits for a call: it goes on at "at", or at "bad" on an error.
Await(o, can, after, at, bad) ==
  \/ can /\ ctr' = after /\ Goto(o, flow[o], at) /\ UNCHANGED faults
  \/ Refused(can, after) /\ Goto(o, flow[o], bad)

\* record(): the journal entry becomes the copy f the flow holds.
Journal(o, f) ==
  [op EXCEPT ![o] = [@ EXCEPT !.st = f.st, !.created = f.created,
                              !.renamed = f.renamed]]
Recorded(o, f, at) ==
  \/ op' = Journal(o, f) /\ Goto(o, f, at) /\ UNCHANGED faults
  \/ UNCHANGED op /\ Goto(o, f, Caught) /\ Fault("save")

Unlock(o) == locks' = locks \ {Project(o)}
End(o)    == flow' = [flow EXCEPT ![o] = IdleFlow]

\* The last record of an operation and the "finally" block: the record is
\* written again and the lock released.  When that second write fails the
\* block throws, and the lock stays until the helper restarts.
Conclude(o, f) ==
  /\ op' = Journal(o, f) /\ End(o)
  /\ \/ Unlock(o) /\ UNCHANGED faults
     \/ UNCHANGED locks /\ Fault("save")
=============================================================================
