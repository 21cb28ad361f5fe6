------------------------------ MODULE Accounts ------------------------------
(***************************************************************************)
(* The administrator, the sessions and the limits on guessing              *)
(* (src/server/routes/api.ts, db.ts, app.ts), and the offline recovery     *)
(* (src/server/recovery/localAdmin.ts).                                    *)
(*                                                                         *)
(* A password is hashed or verified in another thread, so a request that   *)
(* does either is two steps: it holds what it read before (the number of   *)
(* administrators, a hash, a session) across the await.  Everything else   *)
(* that a route does is one step.  Ages stand for timestamps.              *)
(***************************************************************************)
EXTENDS RateLimiter

CONSTANTS
  Requests,     \* requests that may wait for a hash at the same time
  SessionIds,   \* hashes of session tokens
  Names,        \* user names
  Networks,     \* addresses that requests come from
  MaxPw,        \* bound on recoveries
  MaxSetup, MaxNetwork, MaxAccount,    \* attempts the limiters allow
  Idle, Absolute, Recent               \* SESSION_IDLE_MS, ...

ASSUME AccountAssumption ==
  /\ MaxPw \in Nat
  /\ {MaxSetup, MaxNetwork, MaxAccount, Idle, Absolute, Recent} \subseteq Nat

VARIABLES
  admins,     \* users: records [name, pw]; pw numbers the passwords
  session,    \* session[s] : the row of s, or NoRow
  spent,      \* sessions that have ended: their rows were deleted, or they
              \* reached their absolute limit (history)
  limiter,    \* the tables for setup, networks and accounts
  guessed,    \* guessed[k] : ages of the password checks of account k that
              \* were allowed since the last right one (history)
  request,    \* request[q] : what request q waits for
  service,    \* whether the server runs
  recovery    \* the offline tool: the administrator it changes, or Nobody

vars == <<admins, session, spent, limiter, guessed, request, service, recovery>>

NoRow   == [of |-> "none"]
Nobody  == [name |-> "none"]
Waiting == [pc |-> "idle"]
Passwords == 0..MaxPw
AccountKeys == [kind : {"login", "reauth"}, name : Names]

Init == /\ admins = {} /\ session = [s \in SessionIds |-> NoRow] /\ spent = {}
        /\ limiter = [l \in {"setup", "network", "account"} |-> NewLimiter]
        /\ guessed = [k \in AccountKeys |-> <<>>]
        /\ request = [q \in Requests |-> Waiting]
        /\ service = "running" /\ recovery = Nobody
-----------------------------------------------------------------------------
\* getSession(): neither limit is reached.
Alive(s) == /\ session[s] # NoRow
            /\ session[s].age < Absolute /\ session[s].idle < Idle

\* createSession() for administrator u, whose password was checked.
NewSession(s, u) ==
  /\ session[s] = NoRow /\ s \notin spent
  /\ session' = [session EXCEPT ![s] = [of |-> u.name, pw |-> u.pw, age |-> 0,
                                        idle |-> 0, auth |-> 0]]
  /\ UNCHANGED spent

\* DELETE FROM sessions
Ends(gone) == /\ session' = [s \in SessionIds |-> IF s \in gone THEN NoRow
                                                  ELSE session[s]]
              /\ spent' = spent \cup {s \in gone : session[s] # NoRow}

Free(q) == service = "running" /\ request[q] = Waiting
Waits(q, r) == request' = [request EXCEPT ![q] = r]
Answers(q)  == request' = [request EXCEPT ![q] = Waiting]

\* register-first-admin: the password is hashed, unless the limiter refuses,
\* registration is closed, or the setup secret or the input is not accepted.
RegisterBegin(q, net, name, due) ==
  /\ Free(q)
  /\ limiter' = [limiter EXCEPT !.setup = Consumed(@, net, MaxSetup, due)]
  /\ \/ /\ Admits(limiter.setup, net, MaxSetup, due) /\ admins = {}
        /\ Waits(q, [pc |-> "hashing", net |-> net, name |-> name])
     \/ UNCHANGED request
  /\ UNCHANGED <<admins, session, spent, guessed, service, recovery>>

\* Mutant of Unclaimed: the count before the hash decides.
UnclaimedBefore == TRUE
\* createFirstAdmin() counts again in its transaction.
Unclaimed == admins = {}

RegisterDone(q) ==
  /\ request[q].pc = "hashing" /\ Answers(q)
  /\ IF Unclaimed
     THEN LET u == [name |-> request[q].name, pw |-> 0] IN
          /\ admins' = admins \cup {u}
          /\ \E s \in SessionIds : NewSession(s, u)
          /\ limiter' = [limiter EXCEPT !.setup = Cleared(@, request[q].net)]
     ELSE UNCHANGED <<admins, session, spent, limiter>>
  /\ UNCHANGED <<guessed, service, recovery>>

\* The account limiter is asked for key k, and password guess is then verified
\* against the hash of the account, if there is one.
Verifies(q, k, guess, r, due) ==
  /\ IF Admits(limiter.account, k, MaxAccount, due)
     THEN guessed' = [guessed EXCEPT ![k] = Append(@, 0)]
     ELSE UNCHANGED guessed
  /\ IF Admits(limiter.account, k, MaxAccount, due) /\ \E u \in admins : u.name = k.name
     THEN \E u \in {v \in admins : v.name = k.name} :
            Waits(q, [r EXCEPT !.user = u, !.right = (guess = u.pw)])
     ELSE UNCHANGED request

\* login: the limiter of the network comes first, and its refusal costs the
\* account nothing.
LoginBegin(q, net, name, guess, due) ==
  LET k == [kind |-> "login", name |-> name]
      r == [pc |-> "login", net |-> net, key |-> k, user |-> Nobody,
            right |-> FALSE]
  IN /\ Free(q)
     /\ limiter' = [limiter EXCEPT
          !.network = Consumed(@, net, MaxNetwork, due),
          !.account = IF Admits(limiter.network, net, MaxNetwork, due)
                      THEN Consumed(@, k, MaxAccount, due) ELSE @]
     /\ IF Admits(limiter.network, net, MaxNetwork, due)
        THEN Verifies(q, k, guess, r, due) ELSE UNCHANGED <<guessed, request>>
     /\ UNCHANGED <<admins, session, spent, service, recovery>>

LoginDone(q) ==
  /\ request[q].pc = "login" /\ Answers(q)
  /\ IF request[q].right
     THEN /\ \E s \in SessionIds : NewSession(s, request[q].user)
          /\ limiter' = [limiter EXCEPT !.network = Cleared(@, request[q].net),
                                        !.account = Cleared(@, request[q].key)]
          /\ guessed' = [guessed EXCEPT ![request[q].key] = <<>>]
     ELSE UNCHANGED <<session, spent, limiter, guessed>>
  /\ UNCHANGED <<admins, service, recovery>>

\* reauthenticate, with a session that is alive.
ReauthBegin(q, s, guess, due) ==
  LET k == [kind |-> "reauth", name |-> session[s].of]
      r == [pc |-> "reauth", sid |-> s, key |-> k,
            user |-> Nobody, right |-> FALSE]
  IN /\ Free(q) /\ Alive(s)
     /\ limiter' = [limiter EXCEPT !.account = Consumed(@, k, MaxAccount, due)]
     /\ Verifies(q, k, guess, r, due)
     /\ UNCHANGED <<admins, session, spent, service, recovery>>

\* Mutant of Marked: the session that was read before the await is written back.
MarkedBack(s, u) == [session EXCEPT ![s] = [of |-> u.name, pw |-> u.pw, age |-> 0,
                                            idle |-> 0, auth |-> 0]]
\* markSessionReauthenticated(): an UPDATE, without effect if the row is gone.
Marked(s, u) == IF session[s] = NoRow THEN session
                  ELSE [session EXCEPT ![s].auth = 0, ![s].idle = 0]

ReauthDone(q) ==
  /\ request[q].pc = "reauth" /\ Answers(q)
  /\ IF request[q].right
     THEN /\ limiter' = [limiter EXCEPT !.account = Cleared(@, request[q].key)]
          /\ guessed' = [guessed EXCEPT ![request[q].key] = <<>>]
          /\ session' = Marked(request[q].sid, request[q].user)
     ELSE UNCHANGED <<limiter, guessed, session>>
  /\ UNCHANGED <<admins, spent, service, recovery>>

\* A request with a session that has run out deletes its row.
Refused(s) == /\ service = "running" /\ session[s] # NoRow /\ ~Alive(s)
              /\ Ends({s})
              /\ UNCHANGED <<admins, limiter, guessed, request, service, recovery>>

Logout(s) == /\ service = "running" /\ Alive(s) /\ Ends({s})
             /\ UNCHANGED <<admins, limiter, guessed, request, service, recovery>>

\* activity: at most one write a second.
Activity(s) ==
  /\ service = "running" /\ Alive(s) /\ session[s].idle > 0
  /\ session' = [session EXCEPT ![s].idle = 0]
  /\ UNCHANGED <<admins, spent, limiter, guessed, request, service, recovery>>

Recently(s) == session[s].auth < Recent

\* DELETE sessions/others, after a recent check of the password.
RevokeOthers(s) ==
  /\ service = "running" /\ Alive(s) /\ Recently(s)
  /\ Ends({o \in SessionIds \ {s} : session[o].of = session[s].of})
  /\ UNCHANGED <<admins, limiter, guessed, request, service, recovery>>

Expired == {s \in SessionIds : session[s] # NoRow /\ ~Alive(s)}

\* pruneSessions(), every ten minutes.
Prune == /\ service = "running" /\ Expired # {} /\ Ends(Expired)
         /\ UNCHANGED <<admins, limiter, guessed, request, service, recovery>>
-----------------------------------------------------------------------------
\* The process ends, after its requests or in the middle of them.
Stop == /\ service = "running" /\ service' = "stopped"
        /\ request' = [q \in Requests |-> Waiting]
        /\ UNCHANGED <<admins, session, spent, limiter, guessed, recovery>>

\* The owner starts it once the tool has ended; it prunes before it listens.
Start == /\ service = "stopped" /\ recovery = Nobody
         /\ service' = "running" /\ Ends(Expired)
         /\ limiter' = [l \in DOMAIN limiter |-> NewLimiter]
         /\ guessed' = [k \in AccountKeys |-> <<>>]
         /\ UNCHANGED <<admins, request, recovery>>

\* recoverLocalAdmin(): the administrator is looked up, the new password hashed.
RecoverBegin == /\ service = "stopped" /\ recovery = Nobody
                /\ \E u \in admins : u.pw < MaxPw /\ recovery' = u
                /\ UNCHANGED <<admins, session, spent, limiter, guessed, request,
                               service>>

Revoked == {s \in SessionIds : session[s].of = recovery.name}

\* The transaction: the password, the sessions, the event.
RecoverDone ==
  /\ recovery # Nobody /\ recovery' = Nobody
  /\ admins' = (admins \ {recovery})
               \cup {[recovery EXCEPT !.pw = recovery.pw + 1]}
  /\ Ends(Revoked)
  /\ UNCHANGED <<limiter, guessed, request, service>>

\* The tool is cancelled, or its transaction is rolled back.
RecoverFails == /\ recovery # Nobody /\ recovery' = Nobody
                /\ UNCHANGED <<admins, session, spent, limiter, guessed, request,
                               service>>

Min2(a, b) == IF a < b THEN a ELSE b
\* The absolute limit is reached with the next tick.
RunsOut(s) == session[s] # NoRow /\ session[s].age + 1 >= Absolute
Tick == /\ session' = [s \in SessionIds |->
              IF session[s] = NoRow THEN NoRow
              ELSE [session[s] EXCEPT !.age  = Min2(@ + 1, Absolute),
                                      !.idle = Min2(@ + 1, Idle),
                                      !.auth = Min2(@ + 1, Recent)]]
        /\ limiter' = [l \in DOMAIN limiter |-> Aged(limiter[l])]
        /\ guessed' = [k \in AccountKeys |-> Active(Older(guessed[k]))]
        /\ spent' = spent \cup {s \in SessionIds : RunsOut(s)}
        /\ UNCHANGED <<admins, request, service, recovery>>

Next == \/ \E q \in Requests : RegisterDone(q) \/ LoginDone(q) \/ ReauthDone(q)
        \/ \E q \in Requests, due \in BOOLEAN :
             \/ \E n \in Names, net \in Networks : RegisterBegin(q, net, n, due)
             \/ \E n \in Names, net \in Networks, p \in Passwords :
                  LoginBegin(q, net, n, p, due)
             \/ \E s \in SessionIds, p \in Passwords : ReauthBegin(q, s, p, due)
        \/ \E s \in SessionIds : \/ Refused(s) \/ Logout(s) \/ Activity(s)
                                 \/ RevokeOthers(s)
        \/ Prune \/ Stop \/ Start \/ Tick
        \/ RecoverBegin \/ RecoverDone \/ RecoverFails

Spec == Init /\ [][Next]_vars
-----------------------------------------------------------------------------
\* docs/local-admin-recovery.md, "the old account sessions are invalid": every
\* session belongs to the one administrator there is, and was opened with the
\* password that is valid now, although registrations and logins wait for
\* hashes while others are completed and the password is changed offline.
OneOwner ==
  /\ \A u, v \in admins : u = v
  /\ \A s \in SessionIds : session[s] # NoRow =>
       \E u \in admins : u.name = session[s].of /\ u.pw = session[s].pw

\* docs/security.md, "password confirmation ... does not reset the current
\* session's absolute 24-hour limit": a session that was signed out, revoked,
\* refused or pruned, or that reached its absolute limit, never has a valid row
\* again, even when a password confirmation of it was under way.  (Of a session
\* past its idle limit whose row is still there, see IdleNotRenewed.)
EndedStaysEnded ==
  \A s \in spent : session[s] = NoRow \/ session[s].age >= Absolute

\* docs/security.md, "Expired sessions cannot be renewed".  False of the code: a
\* password confirmation that begins before the idle limit and ends after it
\* does renew the session, since markSessionReauthenticated() (db.ts:270) looks
\* at no limit, unlike getSession().
IdleNotRenewed ==
  [][\A s \in SessionIds : session[s] # NoRow /\ ~Alive(s) => ~Alive(s)']_vars

\* security.ts: "Saturation must not evict a blocked key".  Since the last
\* right password, no account was tried more often than allowed within any
\* window, whatever other keys, cleanups and confirmations do to the table.
GuessesBounded == \A k \in AccountKeys : Len(guessed[k]) <= MaxAccount
=============================================================================
