--------------------------- MODULE MCManagedStack ---------------------------
(***************************************************************************)
(* Small instances of ManagedStack for TLC.  Operations, plans and requests *)
(* are interchangeable: no definition chooses among them.                  *)
(***************************************************************************)
EXTENDS StackProperties, TLC

Symmetry == Permutations(Ops) \cup Permutations(Plans)
              \cup Permutations(Requests)
=============================================================================
