----------------------------- MODULE MCAccounts -----------------------------
(***************************************************************************)
(* The accounts and the start of their database for TLC.  The two modules  *)
(* share no variable: in each behaviour one moves and the other rests.     *)
(* Requests, sessions and names are interchangeable.                       *)
(***************************************************************************)
EXTENDS Accounts, Schema

VARIABLE moving \* the module that moves in this behaviour

MCInit ==
  /\ moving \in {"accounts", "schema"} /\ Init /\ SchemaInit
  /\ moving = "accounts" => disk.version = Latest

MCNext ==
  \/ moving = "accounts" /\ Next /\ UNCHANGED <<moving, schemaVars>>
  \/ moving = "schema" /\ SchemaNext /\ UNCHANGED <<moving, vars>>

MCSpec == MCInit /\ [][MCNext]_<<moving, vars, schemaVars>>

Symmetry == Permutations(Requests) \cup Permutations(SessionIds)
            \cup Permutations(Names)
=============================================================================
