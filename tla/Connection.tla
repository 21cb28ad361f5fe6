----------------------------- MODULE Connection -----------------------------
(***************************************************************************)
(* The saved connection to Gluetun's control API and its credential        *)
(* (routes of src/server/routes/api.ts, credentials of                     *)
(* src/server/gluetun/state.ts and db.ts).  A credential is represented by *)
(* what its owner entered it for: a destination and a way to authenticate. *)
(*                                                                         *)
(* A connection test and a control request hold the record that they read  *)
(* at their start across their awaits, but look up the credential when     *)
(* they need it.                                                           *)
(***************************************************************************)
EXTENDS Naturals

CONSTANTS
  Destinations, \* base URLs
  Modes,   \* ways to authenticate, other than "none"
  Calls    \* tests and control requests that may be under way

ASSUME ConnectionAssumption == "none" \notin Modes

VARIABLES
  saved,    \* the saved connection [url, mode], or NoTarget
  stored,   \* its credential in the database, or NoCred
  memory,   \* its credential that is only kept in memory, or NoCred
  call      \* call[t] : what request t is waiting for

connection == <<saved, stored, memory, call>>

Targets == [url : Destinations, mode : Modes \cup {"none"}]
NoTarget   == [url |-> "none"]
NoCred  == [url |-> "none"]
Creds   == [url : Destinations, mode : Modes]
IdleCall == [pc |-> "idle"]

ConnectionInit == /\ saved = NoTarget /\ stored = NoCred /\ memory = NoCred
                  /\ call = [t \in Calls |-> IdleCall]
-----------------------------------------------------------------------------
\* credentialFor(): the one in memory comes first.
CredentialFor == IF memory # NoCred THEN memory ELSE stored

Other(a, b) == IF a = NoCred THEN b ELSE a

\* What the owner enters is complete for the mode, or nothing.
CredentialFromBody(target, given) ==
  IF given /\ target.mode # "none" THEN target ELSE NoCred

\* Mutant of Scoped: a new destination inherits the credential.
ScopedAlways(target) == saved # NoTarget
Scoped(target) == saved = target

\* PUT of a connection: validated first, then saved without an await.  The
\* owner may enter a credential, and may ask to store it.
SaveConnection(target, save, given) ==
  LET new  == CredentialFromBody(target, given)
      mine == IF Scoped(target) THEN CredentialFor ELSE NoCred
  IN /\ save /\ target.mode # "none" /\ new = NoCred
          => Scoped(target) /\ stored # NoCred
     /\ saved' = target
     /\ stored' = IF save /\ target.mode # "none" THEN Other(new, stored)
                  ELSE NoCred
     /\ memory' = IF save \/ target.mode = "none" THEN NoCred
                  ELSE Other(new, mine)
     /\ UNCHANGED call

\* DELETE stored-credential
ForgetCredential == /\ stored' = NoCred /\ memory' = NoCred
                    /\ UNCHANGED <<saved, call>>

Waits(t, r) == call' = [call EXCEPT ![t] = r]
\* request(): the credential, if any, goes with the headers.
Sends(t, pc, target, cred) == Waits(t, [pc |-> pc, to |-> target, cred |-> cred])

\* A test of what is saved, with another credential for it or without.
TestSends(t, given) ==
  /\ call[t] = IdleCall /\ saved # NoTarget
  /\ Sends(t, "testing", saved,
           Other(CredentialFromBody(saved, given), CredentialFor))
  /\ UNCHANGED <<saved, stored, memory>>

\* A test of what the owner has entered: its name is resolved first.
PreviewBegin(t, target, given) ==
  /\ call[t] = IdleCall
  /\ Waits(t, [pc |-> "resolving", to |-> target, was |-> saved,
               given |-> CredentialFromBody(target, given)])
  /\ UNCHANGED <<saved, stored, memory>>

\* Without a credential in the request, that of the saved connection is used
\* if the one read before the await was the same.
PreviewResolved(t) ==
  /\ call[t].pc = "resolving"
  /\ Sends(t, "previewing", call[t].to,
           IF call[t].was = call[t].to THEN Other(call[t].given, CredentialFor)
           ELSE call[t].given)
  /\ UNCHANGED <<saved, stored, memory>>

\* A control request, and the fetch that follows with the same record.
ControlSends(t) == /\ call[t] = IdleCall /\ saved # NoTarget
                   /\ Sends(t, "changing", saved, CredentialFor)
                   /\ UNCHANGED <<saved, stored, memory>>
ControlFetches(t) == /\ call[t].pc = "changing"
                  /\ Sends(t, "fetching", call[t].to, CredentialFor)
                  /\ UNCHANGED <<saved, stored, memory>>
\* An answer, whatever it says, or a timeout.
CallEnds(t) == /\ call[t].pc \in {"resolving", "testing", "previewing", "changing",
                              "fetching"}
               /\ Waits(t, IdleCall)
               /\ UNCHANGED <<saved, stored, memory>>

\* The process starts anew.
Forgotten == /\ memory' = NoCred /\ call' = [t \in Calls |-> IdleCall]
             /\ UNCHANGED <<saved, stored>>

ConnectionNext ==
  \/ \E target \in Targets, save, given \in BOOLEAN : SaveConnection(target, save, given)
  \/ ForgetCredential
  \/ \E t \in Calls : \/ PreviewResolved(t) \/ ControlSends(t)
                      \/ ControlFetches(t) \/ CallEnds(t)
                      \/ \E given \in BOOLEAN :
                           \/ TestSends(t, given)
                           \/ \E target \in Targets : PreviewBegin(t, target, given)

ConnectionSpec == ConnectionInit
                  /\ [][ConnectionNext \/ Forgotten]_connection
-----------------------------------------------------------------------------
\* api.ts: "Credentials are scoped to their destination and authentication
\* mode."  Whatever sequence of edits, with and without a credential, stored
\* or not, what is kept was entered for the connection that is saved.
KeptScoped == \A c \in {stored, memory} : c # NoCred => c = saved
=============================================================================
