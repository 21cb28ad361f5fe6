-------------------------- MODULE ChangeLifecycle --------------------------
(***************************************************************************)
(* What the engine promises about its journal, without saying how: a       *)
(* change of a project begins only when no other change of it, and no      *)
(* removal of retained originals, is unfinished; it ends as kept or        *)
(* undone; a change that got stuck is left by the owner's confirmation     *)
(* only, and then it counts as undone.  Nothing ends twice.                *)
(***************************************************************************)
CONSTANTS Changes, Projects, NoProject

VARIABLES
  phase,   \* phase[c] : how far change c has got
  of       \* of[c] : the project c belongs to, once it has begun

Phases == {"new", "changing", "stuck", "kept", "undone", "cleaning"}

LifeTypeOK == /\ phase \in [Changes -> Phases]
              /\ of \in [Changes -> Projects \cup {NoProject}]

Reserving(c) == phase[c] \in {"changing", "stuck", "cleaning"}
Reserved(p)  == \E c \in Changes : of[c] = p /\ Reserving(c)

LifeInit == /\ phase = [c \in Changes |-> "new"]
            /\ of = [c \in Changes |-> NoProject]

Becomes(c, from, to) ==
  phase[c] = from /\ phase' = [phase EXCEPT ![c] = to]

Begin(c, p) == /\ ~Reserved(p) /\ Becomes(c, "new", "changing")
               /\ of' = [of EXCEPT ![c] = p]
Keep(c)     == Becomes(c, "changing", "kept") /\ UNCHANGED of
Undo(c)     == Becomes(c, "changing", "undone") /\ UNCHANGED of
Stick(c)    == Becomes(c, "changing", "stuck") /\ UNCHANGED of
Release(c)  == Becomes(c, "stuck", "undone") /\ UNCHANGED of
Clean(c)    == /\ ~Reserved(of[c]) /\ Becomes(c, "kept", "cleaning")
               /\ UNCHANGED of
Cleaned(c)  == Becomes(c, "cleaning", "kept") /\ UNCHANGED of

\* A restart finds every change in progress, and leaves it stuck.
Restart == /\ phase' = [c \in Changes |-> IF phase[c] = "changing" THEN "stuck"
                                          ELSE phase[c]]
           /\ UNCHANGED of

LifeNext ==
  \/ \E c \in Changes, p \in Projects : Begin(c, p)
  \/ \E c \in Changes : \/ Keep(c) \/ Undo(c) \/ Stick(c) \/ Release(c)
                        \/ Clean(c) \/ Cleaned(c)
  \/ Restart

LifeSpec == LifeInit /\ [][LifeNext]_<<phase, of>>
=============================================================================
