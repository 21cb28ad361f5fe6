---------------------------- MODULE AccountsProofs ----------------------------
(* One owner, and no session comes back, for any number of requests, sessions,*)
(* names and passwords and any limits.  What has to be known besides: a       *)
(* request that waits for a hash holds the administrator as it still is, since*)
(* the tool that changes it runs only while the server, and with it every     *)
(* request, is stopped.  And the database they are kept in has a whole schema,*)
(* for any number of servers that start on it.  The limiter admits no more    *)
(* guesses than allowed, because its table holds exactly those guessed.       *)
EXTENDS Accounts, Schema, WellFoundedInduction, TLAPS

Rows == [of : Names, pw : Nat, age : Nat, idle : Nat, auth : Nat]

Shape ==
  /\ admins \subseteq [name : Names, pw : Nat]
  /\ session \in [SessionIds -> {NoRow} \cup Rows]
  /\ spent \subseteq SessionIds
  /\ DOMAIN request = Requests

\* A request that waits for a password check holds the present administrator.
HoldsPresent == \A q \in Requests :
  /\ request[q].pc = "hashing" => request[q].name \in Names
  /\ request[q].pc \in {"login", "reauth"} => request[q].user \in admins
  /\ request[q].pc = "reauth" => request[q].sid \in SessionIds

Offline ==
  /\ service = "stopped" => \A q \in Requests : request[q] = Waiting
  /\ recovery # Nobody => service = "stopped" /\ recovery \in admins

Owned == Shape /\ HoldsPresent /\ Offline /\ OneOwner /\ EndedStaysEnded

-----------------------------------------------------------------------------
\* A row is told from no row by its fields.
LEMMA NoRowIsNone == NoRow \notin Rows
<1>1. DOMAIN NoRow = {"of"} BY DEF NoRow
<1>2. \A r \in Rows : "pw" \in DOMAIN r BY DEF Rows
<1> QED BY <1>1, <1>2

\* Sessions that end.
LEMMA EndsFacts ==
  ASSUME Shape, EndedStaysEnded, NEW gone, gone \subseteq SessionIds, Ends(gone)
  PROVE  /\ session' \in [SessionIds -> {NoRow} \cup Rows]
         /\ spent' \subseteq SessionIds /\ EndedStaysEnded'
         /\ \A s \in SessionIds : session'[s] = IF s \in gone THEN NoRow ELSE session[s]
BY DEF Shape, Ends, EndedStaysEnded

\* Sessions that end take nothing else with them.
LEMMA EndsOwned ==
  ASSUME Owned, NEW gone, gone \subseteq SessionIds, Ends(gone),
         UNCHANGED <<admins, request, service, recovery>>
  PROVE  Owned'
<1>1. Shape' BY EndsFacts DEF Owned, Shape
<1>2. OneOwner' BY EndsFacts DEF Owned, OneOwner
<1>3. HoldsPresent' /\ Offline' BY DEF Owned, HoldsPresent, Offline
<1> QED BY <1>1, <1>2, <1>3, EndsFacts DEF Owned

\* A session that begins, for an administrator u of those there are.
LEMMA BeginsFacts ==
  ASSUME Shape, EndedStaysEnded, NEW s \in SessionIds, NEW u \in [name : Names, pw : Nat],
         NewSession(s, u)
  PROVE  /\ session' \in [SessionIds -> {NoRow} \cup Rows]
         /\ spent' = spent /\ EndedStaysEnded'
         /\ session'[s].of = u.name /\ session'[s].pw = u.pw
         /\ \A t \in SessionIds \ {s} : session'[t] = session[t]
<1> DEFINE row == [of |-> u.name, pw |-> u.pw, age |-> 0, idle |-> 0, auth |-> 0]
<1>1. row \in Rows BY DEF Rows
<1>2. session' = [session EXCEPT ![s] = row] /\ s \notin spent /\ spent' = spent
  BY DEF NewSession
<1> QED BY <1>1, <1>2 DEF Shape, EndedStaysEnded

-----------------------------------------------------------------------------
\* A registration counts the users again when its hash is there.
LEMMA RegisterDoneHolds ==
  ASSUME Owned, NEW q \in Requests, RegisterDone(q)
  PROVE  Owned'
<1> DEFINE name == request[q].name
<1>0. name \in Names BY DEF RegisterDone, Owned, HoldsPresent
<1>1. request' = [request EXCEPT ![q] = Waiting] /\ DOMAIN request' = Requests
  BY DEF RegisterDone, Answers, Owned, Shape
<1>2. request[q] # Waiting /\ service # "stopped" /\ recovery = Nobody
      /\ service' = service /\ recovery' = recovery
  BY DEF RegisterDone, Waiting, Owned, Offline
<1>3. \A p \in Requests : request'[p] = IF p = q THEN Waiting ELSE request[p]
  BY <1>1 DEF Owned, Shape
<1>4. Offline' BY <1>2 DEF Offline
<1>5. CASE Unclaimed
  <2> DEFINE u == [name |-> name, pw |-> 0]
  <2>1. admins' = {u} /\ admins = {} /\ u \in [name : Names, pw : Nat]
    BY <1>0, <1>5 DEF RegisterDone, Unclaimed
  <2>2. PICK s \in SessionIds : NewSession(s, u)
    BY <1>5 DEF RegisterDone
  <2>3. \A t \in SessionIds : session[t] = NoRow
    BY <2>1 DEF Owned, OneOwner
  <2>4. /\ session' \in [SessionIds -> {NoRow} \cup Rows] /\ spent' = spent
        /\ EndedStaysEnded' /\ session'[s].of = u.name /\ session'[s].pw = u.pw
        /\ \A t \in SessionIds \ {s} : session'[t] = session[t]
    BY <2>1, <2>2, BeginsFacts DEF Owned
  <2>5. Shape' BY <1>1, <2>1, <2>4 DEF Shape, Owned
  <2>6. OneOwner' BY <2>1, <2>3, <2>4 DEF OneOwner
  <2>7. HoldsPresent' BY <1>3, <2>1 DEF HoldsPresent, Owned, Waiting
  <2> QED BY <1>4, <2>4, <2>5, <2>6, <2>7 DEF Owned
<1>6. CASE ~Unclaimed
  <2>1. UNCHANGED <<admins, session, spent>> BY <1>6 DEF RegisterDone
  <2>2. Shape' /\ OneOwner' /\ EndedStaysEnded'
    BY <1>1, <2>1 DEF Owned, Shape, OneOwner, EndedStaysEnded
  <2>3. HoldsPresent' BY <1>3, <2>1 DEF HoldsPresent, Owned, Waiting
  <2> QED BY <1>4, <2>2, <2>3 DEF Owned
<1> QED BY <1>5, <1>6

\* A login: the administrator it holds is the one there is.
LEMMA LoginDoneHolds ==
  ASSUME Owned, NEW q \in Requests, LoginDone(q)
  PROVE  Owned'
<1>1. /\ request' = [request EXCEPT ![q] = Waiting] /\ DOMAIN request' = Requests
      /\ UNCHANGED <<admins, service, recovery>> /\ request[q].pc = "login"
  BY DEF LoginDone, Answers, Owned, Shape
<1>2. \A p \in Requests : request'[p] = IF p = q THEN Waiting ELSE request[p]
  BY <1>1 DEF Owned, Shape
<1>3. Offline' /\ HoldsPresent' BY <1>1, <1>2 DEF Owned, Offline, HoldsPresent, Waiting
<1>4. request[q].user \in admins BY <1>1 DEF Owned, HoldsPresent
<1>5. CASE request[q].right
  <2> DEFINE u == request[q].user
  <2>1. u \in [name : Names, pw : Nat] BY <1>4 DEF Owned, Shape
  <2>2. PICK s \in SessionIds : NewSession(s, u)
    BY <1>5 DEF LoginDone
  <2>3. /\ session' \in [SessionIds -> {NoRow} \cup Rows] /\ spent' = spent
        /\ EndedStaysEnded' /\ session'[s].of = u.name /\ session'[s].pw = u.pw
        /\ \A t \in SessionIds \ {s} : session'[t] = session[t]
    BY <2>1, <2>2, BeginsFacts DEF Owned
  <2>4. Shape' BY <1>1, <2>3 DEF Shape, Owned
  <2>5. OneOwner' BY <1>1, <1>4, <2>3 DEF OneOwner, Owned
  <2> QED BY <1>3, <2>3, <2>4, <2>5 DEF Owned
<1>6. CASE ~request[q].right
  <2>1. UNCHANGED <<session, spent>> BY <1>6 DEF LoginDone
  <2> QED BY <1>1, <1>3, <2>1 DEF Owned, Shape, OneOwner, EndedStaysEnded
<1> QED BY <1>5, <1>6

\* A confirmation of the password: a row that is gone stays gone.
LEMMA ReauthDoneHolds ==
  ASSUME Owned, NEW q \in Requests, ReauthDone(q)
  PROVE  Owned'
<1>0. request[q].sid \in SessionIds BY DEF ReauthDone, Owned, HoldsPresent
<1>1. /\ request' = [request EXCEPT ![q] = Waiting] /\ DOMAIN request' = Requests
      /\ UNCHANGED <<admins, spent, service, recovery>>
  BY DEF ReauthDone, Answers, Owned, Shape
<1>2. \A p \in Requests : request'[p] = IF p = q THEN Waiting ELSE request[p]
  BY <1>1 DEF Owned, Shape
<1>3. Offline' /\ HoldsPresent' BY <1>1, <1>2 DEF Owned, Offline, HoldsPresent, Waiting
<1> DEFINE s == request[q].sid
<1>4. \/ session' = session
      \/ /\ session[s] \in Rows
         /\ session' = [session EXCEPT ![s] = [session[s] EXCEPT !.auth = 0, !.idle = 0]]
  BY DEF ReauthDone, Marked, Owned, Shape
<1>5. CASE session' = session
  BY <1>1, <1>3, <1>5 DEF Owned, Shape, OneOwner, EndedStaysEnded
<1>6. CASE /\ session[s] \in Rows
           /\ session' = [session EXCEPT ![s] = [session[s] EXCEPT !.auth = 0, !.idle = 0]]
  <2> DEFINE row == [session[s] EXCEPT !.auth = 0, !.idle = 0]
  <2>1. /\ row \in Rows /\ row.of = session[s].of /\ row.pw = session[s].pw
        /\ row.age = session[s].age
    BY <1>6 DEF Rows
  <2>2. session[s] # NoRow BY <1>6, NoRowIsNone
  <2>3. \A t \in SessionIds : session'[t] = IF t = s THEN row ELSE session[t]
    BY <1>6 DEF Owned, Shape
  <2>4. Shape' BY <1>1, <1>6, <2>1 DEF Owned, Shape
  <2>5. \A t \in SessionIds : session'[t] # NoRow =>
          session[t] # NoRow /\ session'[t].of = session[t].of /\ session'[t].pw = session[t].pw
    BY <2>1, <2>2, <2>3
  <2>6. OneOwner' BY <1>1, <2>5 DEF Owned, OneOwner
  <2> HIDE DEF row
  <2>7. EndedStaysEnded' BY <1>1, <2>1, <2>2, <2>3 DEF Owned, Shape, EndedStaysEnded
  <2> QED BY <1>3, <2>4, <2>6, <2>7 DEF Owned
<1> QED BY <1>4, <1>5, <1>6

-----------------------------------------------------------------------------
\* A request that starts to wait, or is answered at once.
LEMMA WaitsHolds ==
  ASSUME Owned, NEW q \in Requests, NEW r, service = "running",
         request' = request \/ request' = [request EXCEPT ![q] = r],
         r.pc = "hashing" => r.name \in Names,
         r.pc \in {"login", "reauth"} => r.user \in admins,
         r.pc = "reauth" => r.sid \in SessionIds,
         UNCHANGED <<admins, session, spent, service, recovery>>
  PROVE  Owned'
<1>1. \A p \in Requests : request'[p] = request[p] \/ (p = q /\ request'[p] = r)
  BY DEF Owned, Shape
<1>2. DOMAIN request' = Requests BY DEF Owned, Shape
<1>3. HoldsPresent' BY <1>1 DEF Owned, HoldsPresent
<1>4. Offline' BY DEF Owned, Offline
<1>5. Shape' /\ OneOwner' /\ EndedStaysEnded'
  BY <1>2 DEF Owned, Shape, OneOwner, EndedStaysEnded
<1> QED BY <1>3, <1>4, <1>5 DEF Owned

\* A registration that begins only waits.
LEMMA RegisterBeginHolds ==
  ASSUME Owned, NEW q \in Requests, NEW name \in Names, NEW net, NEW due,
         RegisterBegin(q, net, name, due)
  PROVE  Owned'
<1> DEFINE r == [pc |-> "hashing", net |-> net, name |-> name]
<1>1. request' = request \/ request' = [request EXCEPT ![q] = r]
  BY DEF RegisterBegin, Waits
<1>2. service = "running" /\ UNCHANGED <<admins, session, spent, service, recovery>>
  BY DEF RegisterBegin, Free
<1>3. r.pc = "hashing" /\ r.name = name OBVIOUS
<1> HIDE DEF r
<1> QED BY <1>1, <1>2, <1>3, WaitsHolds

\* A login holds the administrator that it has read.
LEMMA LoginBeginHolds ==
  ASSUME Owned, NEW q \in Requests, NEW net, NEW name, NEW guess, NEW due,
         LoginBegin(q, net, name, guess, due)
  PROVE  Owned'
<1> DEFINE k == [kind |-> "login", name |-> name]
           r == [pc |-> "login", net |-> net, key |-> k, user |-> Nobody, right |-> FALSE]
           R(u) == [r EXCEPT !.user = u, !.right = (guess = u.pw)]
<1>1. service = "running" /\ UNCHANGED <<admins, session, spent, service, recovery>>
  BY DEF LoginBegin, Free
<1>2. Verifies(q, k, guess, r, due) \/ request' = request
  BY DEF LoginBegin
<1>3. request' = request \/ \E u \in admins : request' = [request EXCEPT ![q] = R(u)]
  <2> HIDE DEF k, r
  <2> QED BY <1>2 DEF Verifies, Waits
<1>4. \A u : R(u).pc = "login" /\ R(u).user = u OBVIOUS
<1> HIDE DEF R
<1>5. CASE request' = request
  BY <1>1, <1>5 DEF Owned, Shape, HoldsPresent, Offline, OneOwner, EndedStaysEnded
<1>6. CASE \E u \in admins : request' = [request EXCEPT ![q] = R(u)]
  <2>1. PICK u \in admins : request' = [request EXCEPT ![q] = R(u)] BY <1>6
  <2> QED BY <1>1, <1>4, <2>1, WaitsHolds
<1> QED BY <1>3, <1>5, <1>6

\* So does a confirmation of the password.
LEMMA ReauthBeginHolds ==
  ASSUME Owned, NEW q \in Requests, NEW s \in SessionIds, NEW guess, NEW due,
         ReauthBegin(q, s, guess, due)
  PROVE  Owned'
<1> DEFINE k == [kind |-> "reauth", name |-> session[s].of]
           r == [pc |-> "reauth", sid |-> s, key |-> k, user |-> Nobody, right |-> FALSE]
           R(u) == [r EXCEPT !.user = u, !.right = (guess = u.pw)]
<1>1. service = "running" /\ UNCHANGED <<admins, session, spent, service, recovery>>
  BY DEF ReauthBegin, Free
<1>2. Verifies(q, k, guess, r, due)
  BY DEF ReauthBegin
<1>3. request' = request \/ \E u \in admins : request' = [request EXCEPT ![q] = R(u)]
  <2> HIDE DEF k, r
  <2> QED BY <1>2 DEF Verifies, Waits
<1>4. \A u : R(u).pc = "reauth" /\ R(u).user = u /\ R(u).sid = s OBVIOUS
<1> HIDE DEF R
<1>5. CASE request' = request
  BY <1>1, <1>5 DEF Owned, Shape, HoldsPresent, Offline, OneOwner, EndedStaysEnded
<1>6. CASE \E u \in admins : request' = [request EXCEPT ![q] = R(u)]
  <2>1. PICK u \in admins : request' = [request EXCEPT ![q] = R(u)] BY <1>6
  <2> QED BY <1>1, <1>4, <2>1, WaitsHolds
<1> QED BY <1>3, <1>5, <1>6

-----------------------------------------------------------------------------
\* A request with a session, and the job that prunes them.
LEMMA SessionHolds ==
  ASSUME Owned, NEW s \in SessionIds,
         Refused(s) \/ Logout(s) \/ RevokeOthers(s)
  PROVE  Owned'
<1>1. CASE Refused(s) BY <1>1, EndsOwned DEF Refused
<1>2. CASE Logout(s) BY <1>2, EndsOwned DEF Logout
<1>3. CASE RevokeOthers(s)
  <2> DEFINE gone == {o \in SessionIds \ {s} : session[o].of = session[s].of}
  <2>1. gone \subseteq SessionIds /\ Ends(gone)
        /\ UNCHANGED <<admins, request, service, recovery>>
    BY <1>3 DEF RevokeOthers
  <2> HIDE DEF gone
  <2> QED BY <2>1, EndsOwned
<1> QED BY <1>1, <1>2, <1>3

\* A request of a session changes its age only.
LEMMA ActivityHolds ==
  ASSUME Owned, NEW s \in SessionIds, Activity(s)
  PROVE  Owned'
<1>1. /\ session' = [session EXCEPT ![s].idle = 0] /\ session[s] # NoRow
      /\ UNCHANGED <<admins, spent, request, service, recovery>>
  BY DEF Activity, Alive
<1> DEFINE row == [session[s] EXCEPT !.idle = 0]
<1>2. session[s] \in Rows BY <1>1 DEF Owned, Shape
<1>3. /\ row \in Rows /\ row.of = session[s].of /\ row.pw = session[s].pw
      /\ row.age = session[s].age
  BY <1>2 DEF Rows
<1>4. \A t \in SessionIds : session'[t] = IF t = s THEN row ELSE session[t]
  BY <1>1 DEF Owned, Shape
<1>5. Shape' BY <1>1, <1>3 DEF Owned, Shape
<1> HIDE DEF row
<1>6. \A t \in SessionIds : session'[t] # NoRow =>
        session[t] # NoRow /\ session'[t].of = session[t].of /\ session'[t].pw = session[t].pw
  BY <1>1, <1>3, <1>4
<1>7. OneOwner' BY <1>1, <1>6 DEF Owned, OneOwner
<1>8. EndedStaysEnded' BY <1>1, <1>3, <1>4 DEF Owned, Shape, EndedStaysEnded
<1>9. HoldsPresent' /\ Offline' BY <1>1 DEF Owned, HoldsPresent, Offline
<1> QED BY <1>5, <1>7, <1>8, <1>9 DEF Owned

\* Time changes ages only.
LEMMA TickHolds ==
  ASSUME Owned, Tick
  PROVE  Owned'
<1> DEFINE Old(r) == [r EXCEPT !.age = Min2(@ + 1, Absolute), !.idle = Min2(@ + 1, Idle),
                               !.auth = Min2(@ + 1, Recent)]
<1>1. /\ session' = [s \in SessionIds |-> IF session[s] = NoRow THEN NoRow ELSE Old(session[s])]
      /\ spent' = spent \cup {s \in SessionIds : RunsOut(s)}
      /\ UNCHANGED <<admins, request, service, recovery>>
  BY DEF Tick
<1>11. \A r \in Rows : r.age + 1 >= Absolute => Old(r).age >= Absolute
  BY AccountAssumption DEF Rows, Min2
<1>2. \A r \in Rows : Old(r) \in Rows /\ Old(r).of = r.of /\ Old(r).pw = r.pw
  <2> SUFFICES ASSUME NEW r \in Rows
               PROVE  Old(r) \in Rows /\ Old(r).of = r.of /\ Old(r).pw = r.pw
    OBVIOUS
  <2>1. {Absolute, Idle, Recent} \subseteq Nat BY AccountAssumption
  <2>2. \A n \in Nat, m \in Nat : Min2(n + 1, m) \in Nat BY DEF Min2
  <2>3. r.age \in Nat /\ r.idle \in Nat /\ r.auth \in Nat BY DEF Rows
  <2>4. /\ Min2(r.age + 1, Absolute) \in Nat
        /\ Min2(r.idle + 1, Idle) \in Nat
        /\ Min2(r.auth + 1, Recent) \in Nat
    BY <2>1, <2>2, <2>3
  <2> QED BY <2>4 DEF Rows
<1> HIDE DEF Old
<1>3. \A s \in SessionIds : session[s] = NoRow \/ session[s] \in Rows BY DEF Owned, Shape
<1>4. \A s \in SessionIds :
        session'[s] = IF session[s] = NoRow THEN NoRow ELSE Old(session[s])
  BY <1>1
<1>5. session' \in [SessionIds -> {NoRow} \cup Rows] BY <1>1, <1>2, <1>3
<1>6. Shape' BY <1>1, <1>5 DEF Owned, Shape
<1>7. \A t \in SessionIds : session'[t] # NoRow =>
        session[t] # NoRow /\ session'[t].of = session[t].of /\ session'[t].pw = session[t].pw
  BY <1>2, <1>3, <1>4
<1>8. OneOwner' BY <1>1, <1>7 DEF Owned, OneOwner
<1>9. EndedStaysEnded'
  <2> SUFFICES ASSUME NEW s \in spent', session'[s] # NoRow
               PROVE  session'[s].age >= Absolute
    BY DEF EndedStaysEnded
  <2>1. s \in SessionIds BY <1>1 DEF Owned, Shape
  <2>2. session[s] \in Rows /\ session'[s] = Old(session[s]) BY <1>3, <1>4, <2>1
  <2>3. session[s].age >= Absolute \/ session[s].age + 1 >= Absolute
    BY <1>1, <1>4, <2>1 DEF Owned, EndedStaysEnded, RunsOut
  <2>4. session[s].age + 1 >= Absolute BY <2>2, <2>3, AccountAssumption DEF Rows
  <2> QED BY <1>11, <2>2, <2>4
<1>10. HoldsPresent' /\ Offline' BY <1>1 DEF Owned, HoldsPresent, Offline
<1> QED BY <1>6, <1>8, <1>9, <1>10 DEF Owned

\* The process ends, with all its requests, and starts again.
LEMMA ProcessHolds ==
  ASSUME Owned, Stop \/ Start \/ Prune
  PROVE  Owned'
<1>1. CASE Stop
  <2>1. \A q \in Requests : request'[q] = Waiting BY <1>1 DEF Stop
  <2>2. UNCHANGED <<admins, session, spent, recovery>> /\ service' = "stopped"
        /\ DOMAIN request' = Requests
    BY <1>1 DEF Stop
  <2>3. HoldsPresent' BY <2>1 DEF HoldsPresent, Waiting
  <2>4. Offline' BY <2>1, <2>2 DEF Owned, Offline
  <2> QED BY <2>2, <2>3, <2>4 DEF Owned, Shape, OneOwner, EndedStaysEnded
<1>2. CASE Start
  <2>1. Ends(Expired) /\ Expired \subseteq SessionIds BY <1>2 DEF Start, Expired
  <2>2. service' = "running" /\ recovery = Nobody /\ UNCHANGED <<admins, request, recovery>>
    BY <1>2 DEF Start
  <2>3. Shape' BY <2>1, <2>2, EndsFacts DEF Owned, Shape
  <2>4. OneOwner' BY <2>1, <2>2, EndsFacts DEF Owned, OneOwner
  <2>5. HoldsPresent' /\ Offline' BY <2>2 DEF Owned, HoldsPresent, Offline
  <2> QED BY <2>1, <2>3, <2>4, <2>5, EndsFacts DEF Owned
<1>3. CASE Prune
  <2>1. Expired \subseteq SessionIds BY DEF Expired
  <2> QED BY <1>3, <2>1, EndsOwned DEF Prune
<1> QED BY <1>1, <1>2, <1>3

\* The tool: no session is left when the administrator has another password.
LEMMA RecoveryHolds ==
  ASSUME Owned, RecoverBegin \/ RecoverDone \/ RecoverFails
  PROVE  Owned'
<1>1. CASE RecoverBegin
  <2>1. service = "stopped" /\ recovery' \in admins
        /\ UNCHANGED <<admins, session, spent, request, service>>
    BY <1>1 DEF RecoverBegin
  <2> QED BY <2>1 DEF Owned, Shape, HoldsPresent, Offline, OneOwner, EndedStaysEnded
<1>2. CASE RecoverFails
  <2>1. recovery' = Nobody /\ UNCHANGED <<admins, session, spent, request, service>>
    BY <1>2 DEF RecoverFails
  <2> QED BY <2>1 DEF Owned, Shape, HoldsPresent, Offline, OneOwner, EndedStaysEnded
<1>3. CASE RecoverDone
  <2> DEFINE new == [recovery EXCEPT !.pw = recovery.pw + 1]
  <2>1. /\ recovery \in admins /\ service = "stopped" /\ recovery' = Nobody
        /\ Ends(Revoked) /\ UNCHANGED <<request, service>>
        /\ admins' = (admins \ {recovery}) \cup {new}
    BY <1>3 DEF RecoverDone, Owned, Offline
  <2>2. recovery \in [name : Names, pw : Nat] BY <2>1 DEF Owned, Shape
  <2>3. new \in [name : Names, pw : Nat] BY <2>2
  <2> HIDE DEF new
  <2>4. admins' = {new} BY <2>1 DEF Owned, OneOwner
  <2>5. Revoked \subseteq SessionIds BY DEF Revoked
  <2>6. \A s \in SessionIds : session'[s] = IF s \in Revoked THEN NoRow ELSE session[s]
    BY <2>1, <2>5, EndsFacts DEF Owned
  <2>7. \A s \in SessionIds : session[s] # NoRow => s \in Revoked
    BY <2>1 DEF Owned, OneOwner, Revoked
  <2>8. Shape' BY <2>1, <2>3, <2>4, <2>5, EndsFacts DEF Owned, Shape
  <2>9. OneOwner' BY <2>4, <2>6, <2>7 DEF OneOwner
  <2>10. \A q \in Requests : request'[q] = Waiting BY <2>1 DEF Owned, Offline
  <2>11. HoldsPresent' BY <2>10 DEF HoldsPresent, Waiting
  <2>12. Offline' BY <2>1, <2>10 DEF Offline
  <2>13. EndedStaysEnded' BY <2>1, <2>5, EndsFacts DEF Owned
  <2> QED BY <2>8, <2>9, <2>11, <2>12, <2>13 DEF Owned
<1> QED BY <1>1, <1>2, <1>3

-----------------------------------------------------------------------------
\* At first there is nobody.
LEMMA OwnedInit == Init => Owned
<1> SUFFICES ASSUME Init PROVE Owned OBVIOUS
<1>1. Shape /\ OneOwner /\ EndedStaysEnded
  BY DEF Init, Shape, OneOwner, EndedStaysEnded
<1>2. HoldsPresent BY DEF Init, HoldsPresent, Waiting
<1>3. Offline BY DEF Init, Offline
<1> QED BY <1>1, <1>2, <1>3 DEF Owned

\* Every step of the service, of time and of the tool keeps it.
LEMMA OwnedStep == Owned /\ [Next]_vars => Owned'
<1> SUFFICES ASSUME Owned, [Next]_vars PROVE Owned' OBVIOUS
<1>1. CASE \E q \in Requests : RegisterDone(q) \/ LoginDone(q) \/ ReauthDone(q)
  BY <1>1, RegisterDoneHolds, LoginDoneHolds, ReauthDoneHolds
<1>2. CASE \E q \in Requests, due \in BOOLEAN, n \in Names, net \in Networks :
             RegisterBegin(q, net, n, due)
  BY <1>2, RegisterBeginHolds
<1>3. CASE \E q \in Requests, due \in BOOLEAN, n \in Names, net \in Networks, p \in Passwords :
             LoginBegin(q, net, n, p, due)
  BY <1>3, LoginBeginHolds
<1>4. CASE \E q \in Requests, due \in BOOLEAN, s \in SessionIds, p \in Passwords :
             ReauthBegin(q, s, p, due)
  BY <1>4, ReauthBeginHolds
<1>5. CASE \E s \in SessionIds : Refused(s) \/ Logout(s) \/ RevokeOthers(s)
  BY <1>5, SessionHolds
<1>6. CASE \E s \in SessionIds : Activity(s)
  BY <1>6, ActivityHolds
<1>7. CASE Prune \/ Stop \/ Start BY <1>7, ProcessHolds
<1>8. CASE Tick BY <1>8, TickHolds
<1>9. CASE RecoverBegin \/ RecoverDone \/ RecoverFails BY <1>9, RecoveryHolds
<1>10. CASE UNCHANGED vars
  BY <1>10 DEF vars, Owned, Shape, HoldsPresent, Offline, OneOwner, EndedStaysEnded
<1> QED BY <1>1, <1>2, <1>3, <1>4, <1>5, <1>6, <1>7, <1>8, <1>9, <1>10 DEF Next

\* Whatever requests wait for their hashes while others are completed, there is
\* one administrator, and every session belongs to that administrator and to
\* the password that is valid (registration api.ts 242, login 270, the tool).
THEOREM SessionsOfOwner == Spec => []OneOwner
<1>1. Owned => OneOwner BY DEF Owned
<1> QED BY <1>1, OwnedInit, OwnedStep, PTL DEF Spec

\* A session that was signed out, revoked, refused or pruned, or that reached its
\* absolute limit, never has a valid row again, whatever confirmations of its
\* password were under way (markSessionReauthenticated, db.ts).
THEOREM SessionsEndOnce == Spec => []EndedStaysEnded
<1>1. Owned => EndedStaysEnded BY DEF Owned
<1> QED BY <1>1, OwnedInit, OwnedStep, PTL DEF Spec

-----------------------------------------------------------------------------
(* The schema of the database.                                                *)

\* There are four versions.
LEMMA LatestIs == Latest = 4
BY DEF Latest, Migrations

\* None adds more than eight things.
LEMMA Lengths ==
  \A v \in 1..Latest : /\ Len(Migrations[v]) \in 1..8
                       /\ DOMAIN Migrations[v] = 1..Len(Migrations[v])
<1>1. \A v \in 1..Latest : v = 1 \/ v = 2 \/ v = 3 \/ v = 4
  BY LatestIs
<1>2. Len(Migrations[1]) = 8 /\ DOMAIN Migrations[1] = 1..8
  BY DEF Migrations
<1>3. Len(Migrations[2]) = 3 /\ DOMAIN Migrations[2] = 1..3
  BY DEF Migrations
<1>4. Len(Migrations[3]) = 2 /\ DOMAIN Migrations[3] = 1..2
  BY DEF Migrations
<1>5. Len(Migrations[4]) = 2 /\ DOMAIN Migrations[4] = 1..2
  BY DEF Migrations
<1> QED
  BY <1>1, <1>2, <1>3, <1>4, <1>5

\* Where each of them is added.
Place(x) ==
  CASE x = "users" -> <<1, 1>> [] x = "sessions" -> <<1, 2>>
    [] x = "gluetun_instances" -> <<1, 3>> [] x = "stored_secrets" -> <<1, 4>>
    [] x = "local_port_labels" -> <<1, 5>> [] x = "compose_drafts" -> <<1, 6>>
    [] x = "audit_events" -> <<1, 7>> [] x = "audit_created_idx" -> <<1, 8>>
    [] x = "last_seen_at" -> <<2, 1>> [] x = "reauthenticated_at" -> <<2, 2>>
    [] x = "session times filled" -> <<2, 3>>
    [] x = "request_id" -> <<3, 1>> [] x = "request identities filled" -> <<3, 2>>
    [] x = "traffic_state" -> <<4, 1>> [] x = "traffic_daily" -> <<4, 2>>

\* Each is added once.
LEMMA Once ==
  \A v \in 1..Latest : \A i \in DOMAIN Migrations[v] : Place(Migrations[v][i]) = <<v, i>>
<1>1. /\ Place("users") = <<1, 1>> /\ Place("sessions") = <<1, 2>>
      /\ Place("gluetun_instances") = <<1, 3>> /\ Place("stored_secrets") = <<1, 4>>
      /\ Place("local_port_labels") = <<1, 5>> /\ Place("compose_drafts") = <<1, 6>>
      /\ Place("audit_events") = <<1, 7>> /\ Place("audit_created_idx") = <<1, 8>>
  BY DEF Place
<1>2. /\ Place("last_seen_at") = <<2, 1>> /\ Place("reauthenticated_at") = <<2, 2>>
      /\ Place("session times filled") = <<2, 3>>
      /\ Place("request_id") = <<3, 1>> /\ Place("request identities filled") = <<3, 2>>
      /\ Place("traffic_state") = <<4, 1>> /\ Place("traffic_daily") = <<4, 2>>
  BY DEF Place
<1>3. ASSUME NEW i \in 1..8 PROVE Place(Migrations[1][i]) = <<1, i>>
  <2>1. \/ i = 1 \/ i = 2 \/ i = 3 \/ i = 4 \/ i = 5 \/ i = 6 \/ i = 7 \/ i = 8
    OBVIOUS
  <2> QED
    BY <1>1, <2>1 DEF Migrations
<1>4. ASSUME NEW i \in 1..3 PROVE Place(Migrations[2][i]) = <<2, i>>
  <2>1. i = 1 \/ i = 2 \/ i = 3
    OBVIOUS
  <2>2. /\ Migrations[2][1] = "last_seen_at" /\ Migrations[2][2] = "reauthenticated_at"
        /\ Migrations[2][3] = "session times filled"
    BY DEF Migrations
  <2> QED
    BY <1>2, <2>1, <2>2
<1>5. ASSUME NEW i \in 1..2 PROVE /\ Place(Migrations[3][i]) = <<3, i>>
                                  /\ Place(Migrations[4][i]) = <<4, i>>
  <2>1. i = 1 \/ i = 2
    OBVIOUS
  <2>2. /\ Migrations[3][1] = "request_id" /\ Migrations[3][2] = "request identities filled"
        /\ Migrations[4][1] = "traffic_state" /\ Migrations[4][2] = "traffic_daily"
    BY DEF Migrations
  <2> QED
    BY <1>2, <2>1, <2>2
<1>6. /\ DOMAIN Migrations[1] = 1..8 /\ DOMAIN Migrations[2] = 1..3
      /\ DOMAIN Migrations[3] = 1..2 /\ DOMAIN Migrations[4] = 1..2
  BY DEF Migrations
<1>7. \A v \in 1..Latest : v = 1 \/ v = 2 \/ v = 3 \/ v = 4
  BY LatestIs
<1> QED
  BY <1>3, <1>4, <1>5, <1>6, <1>7

\* A version has what the one before it has, and what it adds.
LEMMA WholeNext ==
  ASSUME NEW v \in 0..Latest - 1
  PROVE  /\ v + 1 \in 1..Latest
         /\ Whole(v + 1) =
              Whole(v) \cup {Migrations[v + 1][i] : i \in DOMAIN Migrations[v + 1]}
<1>1. v \in Nat /\ v + 1 \in 1..Latest /\ 1..v + 1 = (1..v) \cup {v + 1}
  BY LatestIs
<1> QED
  BY <1>1 DEF Whole

\* What is to be added next is not there yet.
LEMMA NotYet ==
  ASSUME NEW v \in 0..Latest - 1, NEW n \in DOMAIN Migrations[v + 1]
  PROVE  Migrations[v + 1][n]
           \notin Whole(v) \cup {Migrations[v + 1][i] : i \in 1..n - 1}
<1>0. /\ v + 1 \in 1..Latest /\ 1..v \subseteq 1..Latest /\ v + 1 \notin 1..v
      /\ DOMAIN Migrations[v + 1] = 1..Len(Migrations[v + 1])
      /\ Len(Migrations[v + 1]) \in Nat
  BY LatestIs, Lengths
<1>1. ASSUME NEW u \in 1..v, NEW i \in DOMAIN Migrations[u]
      PROVE  Migrations[u][i] # Migrations[v + 1][n]
  <2>1. Place(Migrations[u][i]) = <<u, i>> /\ Place(Migrations[v + 1][n]) = <<v + 1, n>>
    BY <1>0, <1>1, Once
  <2>2. u # v + 1
    BY <1>0, <1>1
  <2> QED
    BY <2>1, <2>2
<1>2. ASSUME NEW i \in 1..n - 1
      PROVE  Migrations[v + 1][i] # Migrations[v + 1][n]
  <2>0. i \in DOMAIN Migrations[v + 1] /\ i # n
    BY <1>0, <1>2
  <2>1. /\ Place(Migrations[v + 1][i]) = <<v + 1, i>>
        /\ Place(Migrations[v + 1][n]) = <<v + 1, n>>
    BY <1>0, <2>0, Once
  <2> QED
    BY <2>0, <2>1
<1> QED
  BY <1>1, <1>2 DEF Whole

\* A constructor that adds has read the database behind its lock, and has added
\* the first statements of one version; the others write nothing but the mode.
Pcs == Halted \cup {"opened", "checked", "journal", "migrating", "running"}
Openers == [pc : Pcs, version : 0..Latest, has : SUBSET Whole(Latest), at : Nat]
Disks == [version : 0..Latest + 1, has : SUBSET Whole(Latest), wal : BOOLEAN]
\* What it has added of the version it is at.
Added(o) == {Migrations[o.version + 1][i] : i \in 1..o.at - 1}
SoFar(o) ==
  /\ o.version = Latest => o.at = 1
  /\ o.version < Latest => o.at \in 1..Len(Migrations[o.version + 1]) + 1
  /\ o.has = Whole(o.version) \cup Added(o)
\* It has not read the version, or reads no more.
Outside(p) == opener[p].pc \in Halted \cup {"opened"}
OpenerOK(p) == /\ opener[p].pc # "duplicate"
               /\ opener[p].pc # "migrating" => opener[p].at = 1
               /\ opener[p].pc = "running" => disk.version = Latest
               /\ opener[p].pc = "migrating" => lock = p /\ SoFar(opener[p])
SchemaInv ==
  /\ disk \in Disks /\ opener \in [Processes -> Openers]
  /\ disk.version <= Latest => disk.has = Whole(disk.version)
  /\ disk.version > Latest => ~disk.wal /\ \A p \in Processes : Outside(p)
  /\ \A p \in Processes : OpenerOK(p)

\* Every earlier release left a whole schema.
LEMMA SchemaStart == SchemaInit => SchemaInv
<1> SUFFICES ASSUME SchemaInit PROVE SchemaInv
  OBVIOUS
<1>1. PICK v \in 0..Latest + 1 :
        disk = [version |-> v, has |-> Whole(IF v > Latest THEN Latest ELSE v), wal |-> FALSE]
  BY DEF SchemaInit
<1>2. \A n \in 0..Latest : Whole(n) \subseteq Whole(Latest)
  <2>1. \A n \in 0..Latest : 1..n \subseteq 1..Latest
    BY LatestIs
  <2> QED
    BY <2>1 DEF Whole
<1>3. disk \in Disks
  BY <1>1, <1>2, LatestIs DEF Disks
<1>4. Off \in Openers /\ Off.pc = "off" /\ Off.at = 1
  BY LatestIs DEF Off, Openers, Pcs, Halted
<1>5. opener = [p \in Processes |-> Off]
  BY DEF SchemaInit
<1> QED
  BY <1>1, <1>3, <1>4, <1>5, LatestIs DEF SchemaInv, OpenerOK, Outside, Halted

\* One constructor goes on and leaves the database as it is.
LEMMA OpenerMoves ==
  ASSUME SchemaInv, NEW p \in Processes, NEW o \in Openers,
         opener' = [opener EXCEPT ![p] = o], disk' = disk, o.pc # "duplicate",
         disk.version > Latest => o.pc \in Halted \cup {"opened"},
         o.pc = "running" => opener[p].pc = "running",
         o.pc = "migrating" => lock' = p /\ SoFar(o),
         o.pc # "migrating" => o.at = 1,
         lock' = lock \/ lock \in {p, NoProcess}
  PROVE  SchemaInv'
<1>1. opener' \in [Processes -> Openers] /\ opener'[p] = o
  BY DEF SchemaInv
<1>2. \A q \in Processes \ {p} : opener'[q] = opener[q]
  BY DEF SchemaInv
<1>3. OpenerOK(p)'
  BY <1>1 DEF SchemaInv, OpenerOK
<1>4. \A q \in Processes \ {p} : OpenerOK(q)'
  BY <1>2, SchemaAssumption DEF SchemaInv, OpenerOK
<1>5. disk.version > Latest => \A q \in Processes : Outside(q)'
  BY <1>1, <1>2 DEF SchemaInv, Outside
<1> QED
  BY <1>1, <1>3, <1>4, <1>5 DEF SchemaInv

\* A constructor that gives up or dies leaves what was committed.
LEMMA ClosesHolds ==
  ASSUME SchemaInv, NEW p \in Processes, NEW why \in {"off", "refused", "failed"},
         Closes(p, why), disk' = disk
  PROVE  SchemaInv'
<1>1. [Off EXCEPT !.pc = why] \in Openers /\ [Off EXCEPT !.pc = why].pc = why
      /\ [Off EXCEPT !.pc = why].at = 1
  BY LatestIs DEF Off, Openers, Pcs, Halted
<1> QED
  BY <1>1, OpenerMoves DEF Closes, Unlocked, Halted

\* Every step of every constructor keeps it.
LEMMA SchemaStep == SchemaInv /\ [SchemaNext]_schemaVars => SchemaInv'
<1> SUFFICES ASSUME SchemaInv, [SchemaNext]_schemaVars PROVE SchemaInv'
  OBVIOUS
<1>1. ASSUME UNCHANGED schemaVars PROVE SchemaInv'
  BY <1>1 DEF schemaVars, SchemaInv, OpenerOK, Outside
<1> SUFFICES ASSUME NEW p \in Processes,
                    \/ Open(p) \/ CheckVersion(p) \/ JournalMode(p) \/ Begin(p)
                    \/ Statement(p) \/ Commit(p) \/ Trouble(p) \/ Dies(p)
             PROVE  SchemaInv'
  BY <1>1 DEF SchemaNext
<1> PICK o : o = opener[p]
  OBVIOUS
<1>2. /\ o \in Openers /\ OpenerOK(p)
      /\ disk \in Disks /\ opener \in [Processes -> Openers]
  BY DEF SchemaInv
<1>3. CASE Open(p)
  <2>1. [o EXCEPT !.pc = "opened"] \in Openers /\ [o EXCEPT !.pc = "opened"].pc = "opened"
         /\ [o EXCEPT !.pc = "opened"].at = 1
    BY <1>2, <1>3 DEF Open, OpenerOK, Halted, Openers, Pcs
  <2>2. opener' = [opener EXCEPT ![p] = [o EXCEPT !.pc = "opened"]]
    BY <1>2, <1>3 DEF Open, Goes
  <2> QED
    BY <1>3, <2>1, <2>2, OpenerMoves DEF Open
<1>4. CASE CheckVersion(p)
  <2>1. CASE disk.version > Latest
    BY <1>4, <2>1, ClosesHolds DEF CheckVersion
  <2>2. CASE ~(disk.version > Latest)
    <3> DEFINE n == [o EXCEPT !.pc = "checked", !.version = disk.version]
    <3>0. /\ disk.version \in 0..Latest /\ o.at = 1
          /\ o = [pc |-> o.pc, version |-> o.version, has |-> o.has, at |-> o.at]
      BY <1>2, <1>4, <2>2, LatestIs DEF Disks, CheckVersion, OpenerOK, Openers
    <3>1. n \in Openers /\ n.pc = "checked" /\ n.at = 1
      BY <1>2, <3>0 DEF Openers, Pcs
    <3>2. opener' = [opener EXCEPT ![p] = n] /\ UNCHANGED <<disk, lock>>
      BY <1>2, <1>4, <2>2 DEF CheckVersion
    <3> HIDE DEF n
    <3> QED
      BY <2>2, <3>1, <3>2, OpenerMoves
  <2> QED
    BY <2>1, <2>2
<1>5. CASE JournalMode(p)
  <2> DEFINE n == [o EXCEPT !.pc = "journal"]
  <2>1. n \in Openers /\ n.pc = "journal" /\ n.at = 1
    BY <1>2, <1>5 DEF Openers, Pcs, JournalMode, OpenerOK
  <2>2. opener' = [opener EXCEPT ![p] = n] /\ lock' = lock
    BY <1>2, <1>5 DEF JournalMode, Goes
  <2>3. /\ disk' \in Disks /\ disk'.version = disk.version /\ disk'.has = disk.has
        /\ ~(disk.version > Latest)
    BY <1>2, <1>5 DEF JournalMode, Disks, SchemaInv, Outside, Halted
  <2> HIDE DEF n
  <2>4. opener' \in [Processes -> Openers] /\ \A q \in Processes : OpenerOK(q)'
    BY <1>2, <2>1, <2>2, <2>3 DEF SchemaInv, OpenerOK
  <2> QED
    BY <2>3, <2>4 DEF SchemaInv
<1>6. CASE Begin(p)
  <2> PICK n : n = Begun(p)
    OBVIOUS
  <2>1. ~(disk.version > Latest) /\ disk.version \in 0..Latest
    BY <1>2, <1>6, LatestIs DEF Begin, SchemaInv, Outside, Halted, Disks
  <2>2. /\ n \in Openers /\ n.pc = "migrating" /\ n.at = o.at
        /\ n.has = disk.has /\ n.version = disk.version
    BY <1>2, <2>1 DEF Begun, Openers, Pcs, Disks
  <2>3. n.at = 1
    BY <1>2, <1>6, <2>2 DEF Begin, OpenerOK
  <2>4. SoFar(n)
    <3>1. Added(n) = {}
      BY <2>3 DEF Added
    <3>2. n.version < Latest => 1 \in 1..Len(Migrations[n.version + 1]) + 1
      BY <2>1, <2>2, LatestIs, Lengths
    <3>3. disk.has = Whole(disk.version)
      BY <2>1, LatestIs DEF SchemaInv
    <3> QED
      BY <2>2, <2>3, <3>1, <3>2, <3>3 DEF SoFar
  <2>5. opener' = [opener EXCEPT ![p] = n] /\ lock' = p /\ disk' = disk
    BY <1>6 DEF Begin
  <2>6. lock = NoProcess /\ n.pc # "duplicate" /\ n.pc # "running"
    BY <1>6, <2>2 DEF Begin
  <2>7. disk.version > Latest => n.pc \in Halted \cup {"opened"}
    BY <2>1
  <2> QED
    BY <2>2, <2>3, <2>4, <2>5, <2>6, <2>7, OpenerMoves
<1>7. CASE Statement(p)
  <2> PICK v, a, s : v = o.version /\ a = o.at /\ s = Migrations[v + 1]
    OBVIOUS
  <2>1. /\ o.pc = "migrating" /\ lock = p /\ disk' = disk /\ SoFar(o)
        /\ o = [pc |-> "migrating", version |-> v, has |-> o.has, at |-> a]
        /\ v \in 0..Latest /\ v < Latest /\ a \in Nat /\ o.has \subseteq Whole(Latest)
    BY <1>2, <1>7 DEF Statement, OpenerOK, Openers
  <2>2. ~(disk.version > Latest)
    BY <2>1 DEF SchemaInv, Outside, Halted
  <2>3. v \in 0..Latest - 1 /\ v + 1 \in 1..Latest /\ v # Latest
    BY <2>1, LatestIs
  <2>4. /\ DOMAIN s = 1..Len(s) /\ Len(s) \in 1..8
        /\ Whole(v + 1) = Whole(v) \cup {s[i] : i \in DOMAIN s}
    BY <2>3, Lengths, WholeNext
  <2>5. a \in 1..Len(s) + 1 /\ o.has = Whole(v) \cup {s[i] : i \in 1..a - 1}
    BY <2>1 DEF SoFar, Added
  <2>6. CASE a > Len(s)
    <3> PICK n : n = [pc |-> "migrating", version |-> v + 1, has |-> o.has, at |-> 1]
      OBVIOUS
    <3>1. /\ n \in Openers /\ n.pc = "migrating" /\ n.version = v + 1
          /\ n.at = 1 /\ n.has = o.has
      BY <2>1, <2>3, LatestIs DEF Openers, Pcs
    <3>2. opener' = [opener EXCEPT ![p] = n] /\ lock' = lock
      BY <1>2, <1>7, <2>1, <2>6 DEF Statement
    <3>3. 1..a - 1 = DOMAIN s
      BY <2>4, <2>5, <2>6
    <3>4. n.has = Whole(n.version)
      BY <2>4, <2>5, <3>1, <3>3
    <3>5. Added(n) = {}
      BY <3>1 DEF Added
    <3>6. n.version < Latest => n.at \in 1..Len(Migrations[n.version + 1]) + 1
      BY <2>3, <3>1, LatestIs, Lengths
    <3>7. SoFar(n)
      BY <3>1, <3>4, <3>5, <3>6 DEF SoFar
    <3> QED
      BY <2>1, <2>2, <3>1, <3>2, <3>7, OpenerMoves
  <2>7. CASE ~(a > Len(s))
    <3>1. a \in DOMAIN s
      BY <2>4, <2>5, <2>7
    <3>2. s[a] \notin o.has
      <4>1. Migrations[v + 1][a]
              \notin Whole(v) \cup {Migrations[v + 1][i] : i \in 1..a - 1}
        BY <2>3, <3>1, NotYet
      <4> QED
        BY <2>5, <4>1
    <3>3. s[a] \in Whole(Latest)
      BY <2>3, <3>1 DEF Whole
    <3> PICK n : n = [pc |-> "migrating", version |-> v, has |-> o.has \cup {s[a]}, at |-> a + 1]
      OBVIOUS
    <3>4. /\ n \in Openers /\ n.pc = "migrating" /\ n.version = v
          /\ n.at = a + 1 /\ n.has = o.has \cup {s[a]}
      BY <2>1, <3>3 DEF Openers, Pcs
    <3>5. opener' = [opener EXCEPT ![p] = n] /\ lock' = lock
      BY <1>2, <1>7, <2>1, <2>7, <3>2 DEF Statement
    <3>6. 1..n.at - 1 = (1..a - 1) \cup {a}
      BY <2>5, <3>4
    <3>7. n.has = Whole(v) \cup Added(n)
      BY <2>5, <3>4, <3>6 DEF Added
    <3>8. n.at \in 1..Len(s) + 1
      BY <2>4, <2>5, <2>7, <3>4
    <3>9. SoFar(n)
      BY <2>3, <3>4, <3>7, <3>8 DEF SoFar
    <3> QED
      BY <2>1, <2>2, <3>4, <3>5, <3>9, OpenerMoves
  <2> QED
    BY <2>6, <2>7
<1>8. CASE Commit(p)
  <2> DEFINE n == [o EXCEPT !.pc = "running"]
  <2>1. /\ o.pc = "migrating" /\ o.version = Latest /\ SoFar(o) /\ lock = p
        /\ ~(disk.version > Latest)
    BY <1>2, <1>8 DEF Commit, OpenerOK, SchemaInv, Outside, Halted
  <2>2. n \in Openers /\ n.pc = "running" /\ n.at = 1
    BY <1>2, <2>1 DEF Openers, Pcs, SoFar
  <2>3. opener' = [opener EXCEPT ![p] = n]
    BY <1>2, <1>8 DEF Commit, Goes
  <2> HIDE DEF n
  <2>4. o.has = Whole(Latest)
    BY <2>1 DEF SoFar, Added
  <2>5. disk' \in Disks /\ disk'.version = Latest /\ disk'.has = Whole(Latest)
    <3>1. /\ disk = [version |-> disk.version, has |-> disk.has, wal |-> disk.wal]
          /\ disk.wal \in BOOLEAN
      BY <1>2 DEF Disks
    <3>2. disk' = [version |-> Latest, has |-> Whole(Latest), wal |-> disk.wal]
      BY <1>8, <2>4, <3>1 DEF Commit
    <3> QED
      BY <3>1, <3>2, LatestIs DEF Disks
  <2>6. \A q \in Processes : opener[q].pc = "migrating" => q = p
    BY <2>1 DEF SchemaInv, OpenerOK
  <2>7. \A q \in Processes : OpenerOK(q)'
    BY <1>2, <2>2, <2>3, <2>5, <2>6 DEF SchemaInv, OpenerOK
  <2>8. opener' \in [Processes -> Openers]
    BY <1>2, <2>2, <2>3
  <2> QED
    BY <2>5, <2>7, <2>8, LatestIs DEF SchemaInv
<1>9. CASE Trouble(p)
  BY <1>9, ClosesHolds DEF Trouble
<1>10. CASE Dies(p)
  BY <1>10, ClosesHolds DEF Dies
<1> QED
  BY <1>3, <1>4, <1>5, <1>6, <1>7, <1>8, <1>9, <1>10

\* What is committed is a whole schema of the version it names, and no start
\* finds a table or a column that it is about to add, whatever other servers start
\* and die meanwhile (db.ts:53-181): the version that counts is the one
\* that is read behind the lock.
THEOREM SchemaKept == SchemaSpec => []SchemaWhole
<1>1. SchemaInv => SchemaWhole
  BY DEF SchemaInv, SchemaWhole, OpenerOK
<1> QED
  BY <1>1, SchemaStart, SchemaStep, PTL DEF SchemaSpec

-----------------------------------------------------------------------------
(* The attempts inside a window.                                             *)

\* Induction over the natural numbers, for the elements of a set.
LEMMA AllNumbers ==
  ASSUME NEW S, 0 \in S, \A n \in Nat : n \in S => n + 1 \in S
  PROVE  Nat \subseteq S
<1> DEFINE T == Nat \ S
<1> SUFFICES ASSUME T # {} PROVE FALSE
  OBVIOUS
<1>1. PICK n \in T : \A m \in T : ~(<<m, n>> \in OpToRel(<, Nat))
  <2>1. T \subseteq Nat
    OBVIOUS
  <2> HIDE DEF T
  <2> QED
    BY <2>1, NatLessThanWellFounded, WFMin
<1>2. n \in Nat /\ n # 0
  OBVIOUS
<1>3. n - 1 \in Nat /\ n - 1 < n
  BY <1>2
<1>4. n - 1 \notin T
  BY <1>1, <1>2, <1>3 DEF OpToRel
<1> QED
  BY <1>2, <1>3, <1>4

\* Induction over the sequences of numbers, likewise.
LEMMA AllSequences ==
  ASSUME NEW S, <<>> \in S,
         \A s \in Seq(Nat), x \in Nat : s \in S => Append(s, x) \in S
  PROVE  Seq(Nat) \subseteq S
<1> DEFINE T == {n \in Nat : \A s \in Seq(Nat) : Len(s) = n => s \in S}
<1>1. 0 \in T
  <2>1. \A s \in Seq(Nat) : Len(s) = 0 => s = <<>>
    OBVIOUS
  <2> QED
    BY <2>1
<1>2. ASSUME NEW n \in Nat, n \in T PROVE n + 1 \in T
  <2> SUFFICES ASSUME NEW s \in Seq(Nat), Len(s) = n + 1 PROVE s \in S
    OBVIOUS
  <2> DEFINE t == [i \in 1..n |-> s[i]]
  <2>1. t \in Seq(Nat) /\ Len(t) = n
    BY <1>2
  <2>2. s[n + 1] \in Nat
    BY <1>2
  <2>3. s = Append(t, s[n + 1])
    BY <1>2, <2>1, <2>2
  <2> HIDE DEF t
  <2> QED
    BY <1>2, <2>1, <2>2, <2>3
<1> HIDE DEF T
<1>3. Nat \subseteq T
  BY <1>1, <1>2, AllNumbers
<1> QED
  BY <1>3 DEF T

\* f is a solution of the recursion in Active.
Filters(s, f) ==
  f = [n \in 0..Len(s) |-> IF n = 0 THEN <<>>
                           ELSE IF s[n] < Window THEN Append(f[n - 1], s[n])
                           ELSE f[n - 1]]

\* That recursion has a solution, which gives the value of Active,
LEMMA ActiveSolved ==
  ASSUME NEW s \in Seq(Nat)
  PROVE  \E f : Filters(s, f) /\ Active(s) = f[Len(s)]
<1> DEFINE Solves(f, m) ==
             f = [n \in 0..m |-> IF n = 0 THEN <<>>
                                 ELSE IF s[n] < Window THEN Append(f[n - 1], s[n])
                                 ELSE f[n - 1]]
           T == {m \in Nat : \E f : Solves(f, m)}
<1>1. 0 \in T
  <2>1. Solves([n \in 0..0 |-> <<>>], 0)
    OBVIOUS
  <2> QED
    BY <2>1
<1>2. ASSUME NEW m \in Nat, m \in T PROVE m + 1 \in T
  <2>0. PICK f : Solves(f, m)
    BY <1>2
  <2>1. \A n \in 0..m : f[n] = IF n = 0 THEN <<>>
                               ELSE IF s[n] < Window THEN Append(f[n - 1], s[n])
                               ELSE f[n - 1]
    BY <2>0
  <2> DEFINE g == [n \in 0..(m + 1) |->
                     IF n \in 0..m THEN f[n]
                     ELSE IF s[n] < Window THEN Append(f[m], s[n]) ELSE f[m]]
  <2>2. ASSUME NEW n \in 0..(m + 1)
        PROVE  g[n] = IF n = 0 THEN <<>>
                      ELSE IF s[n] < Window THEN Append(g[n - 1], s[n])
                      ELSE g[n - 1]
    <3>1. CASE n = 0
      BY <2>1, <3>1
    <3>2. CASE n \in 1..m
      BY <2>1, <3>2
    <3>3. CASE n = m + 1
      BY <3>3
    <3> QED
      BY <3>1, <3>2, <3>3
  <2>3. Solves(g, m + 1)
    BY <2>2
  <2> HIDE DEF g, Solves
  <2> QED
    BY <2>3
<1> HIDE DEF T
<1>3. Len(s) \in T
  BY <1>1, <1>2, AllNumbers
<1>4. \E f : Filters(s, f)
  BY <1>3 DEF T, Filters
<1> QED
  BY <1>4 DEF Active, Filters

\* so that it can be found from the front.
LEMMA ActiveAppend ==
  /\ Active(<<>>) = <<>>
  /\ \A s \in Seq(Nat), x \in Nat :
       Active(Append(s, x)) =
         IF x < Window THEN Append(Active(s), x) ELSE Active(s)
<1>1. Active(<<>>) = <<>>
  <2>0. <<>> \in Seq(Nat)
    OBVIOUS
  <2>1. PICK f : Filters(<<>>, f) /\ Active(<<>>) = f[Len(<<>>)]
    BY <2>0, ActiveSolved
  <2> QED
    BY <2>1 DEF Filters
<1>2. ASSUME NEW s \in Seq(Nat), NEW x \in Nat
      PROVE  Active(Append(s, x)) =
               IF x < Window THEN Append(Active(s), x) ELSE Active(s)
  <2> DEFINE t == Append(s, x)
  <2>1. /\ t \in Seq(Nat) /\ Len(t) = Len(s) + 1 /\ t[Len(s) + 1] = x
        /\ \A n \in 1..Len(s) : t[n] = s[n]
    OBVIOUS
  <2> HIDE DEF t
  <2>2. PICK f : Filters(s, f) /\ Active(s) = f[Len(s)]
    BY ActiveSolved
  <2>3. PICK g : Filters(t, g) /\ Active(t) = g[Len(t)]
    BY <2>1, ActiveSolved
  <2>8. \A n \in 0..Len(s) : f[n] = IF n = 0 THEN <<>>
                                     ELSE IF s[n] < Window THEN Append(f[n - 1], s[n])
                                     ELSE f[n - 1]
    BY <2>2 DEF Filters
  <2>9. \A n \in 0..Len(t) : g[n] = IF n = 0 THEN <<>>
                                     ELSE IF t[n] < Window THEN Append(g[n - 1], t[n])
                                     ELSE g[n - 1]
    BY <2>3 DEF Filters
  <2> DEFINE T == {n \in Nat : n <= Len(s) => g[n] = f[n]}
  <2>4. 0 \in T
    BY <2>1, <2>8, <2>9
  <2>5. ASSUME NEW n \in Nat, n \in T PROVE n + 1 \in T
    <3> SUFFICES ASSUME n + 1 <= Len(s) PROVE g[n + 1] = f[n + 1]
      OBVIOUS
    <3> DEFINE k == n + 1
    <3>1. /\ g[n] = f[n] /\ t[k] = s[k]
          /\ k \in 0..Len(s) /\ k \in 0..Len(t) /\ k # 0 /\ k - 1 = n
      BY <2>1, <2>5
    <3> HIDE DEF k
    <3>2. f[k] = IF k = 0 THEN <<>>
                 ELSE IF s[k] < Window THEN Append(f[k - 1], s[k]) ELSE f[k - 1]
      BY <2>8, <3>1, Zenon
    <3>3. g[k] = IF k = 0 THEN <<>>
                 ELSE IF t[k] < Window THEN Append(g[k - 1], t[k]) ELSE g[k - 1]
      BY <2>9, <3>1, Zenon
    <3>4. g[k] = f[k]
      BY <3>1, <3>2, <3>3
    <3> QED
      BY <3>4 DEF k
  <2> HIDE DEF T
  <2>6. Len(s) \in T
    BY <2>4, <2>5, AllNumbers
  <2>7. g[Len(s)] = f[Len(s)]
    BY <2>6 DEF T
  <2>10. Active(t) = IF x < Window THEN Append(Active(s), x) ELSE Active(s)
    <3> DEFINE k == Len(s) + 1
    <3>1. /\ Len(t) = k /\ t[k] = x
          /\ k \in 0..Len(t) /\ k # 0 /\ k - 1 = Len(s)
      BY <2>1
    <3> HIDE DEF k
    <3>2. g[k] = IF k = 0 THEN <<>>
                 ELSE IF t[k] < Window THEN Append(g[k - 1], t[k]) ELSE g[k - 1]
      BY <2>9, <3>1, Zenon
    <3>3. g[k] = IF x < Window THEN Append(g[Len(s)], x) ELSE g[Len(s)]
      BY <3>1, <3>2
    <3> QED
      BY <2>2, <2>3, <2>7, <3>1, <3>3
  <2> QED
    BY <2>10 DEF t
<1> QED
  BY <1>1, <1>2

\* One more attempt.
LEMMA AppendFacts ==
  ASSUME NEW s \in Seq(Nat), NEW x \in Nat, NEW t, t = Append(s, x)
  PROVE  /\ t \in Seq(Nat) /\ Len(t) = Len(s) + 1 /\ t[Len(s) + 1] = x
         /\ \A i \in 1..Len(s) : t[i] = s[i] /\ t[i] \in Nat
         /\ \A i \in 1..Len(t) : i \in 1..Len(s) \/ i = Len(s) + 1
OBVIOUS

\* No attempt of a table is younger than its last one.
LastLeast(s) == \A i \in 1..Len(s) : s[i] >= s[Len(s)]
OneOlder(x) == IF x < Window THEN x + 1 ELSE Window

\* Of one more attempt.
LEMMA OlderAppend ==
  /\ Older(<<>>) = <<>>
  /\ \A s \in Seq(Nat), x \in Nat :
       /\ Older(s) \in Seq(Nat) /\ Len(Older(s)) = Len(s)
       /\ Older(Append(s, x)) = Append(Older(s), OneOlder(x))
<1>1. \A x \in Nat : OneOlder(x) \in Nat
  BY LimiterAssumption DEF OneOlder
<1>2. ASSUME NEW s \in Seq(Nat)
      PROVE  /\ Older(s) \in Seq(Nat) /\ Len(Older(s)) = Len(s)
             /\ \A i \in 1..Len(s) : Older(s)[i] = OneOlder(s[i])
  <2>1. Older(s) = [i \in 1..Len(s) |-> OneOlder(s[i])]
    BY DEF Older, OneOlder
  <2>2. ASSUME NEW i \in 1..Len(s) PROVE OneOlder(s[i]) \in Nat
    <3>1. s[i] \in Nat
      OBVIOUS
    <3> QED
      BY <1>1, <3>1, Zenon
  <2> QED
    BY <2>1, <2>2
<1>3. Older(<<>>) = <<>>
  BY DEF Older
<1>4. ASSUME NEW s \in Seq(Nat), NEW x \in Nat
      PROVE  Older(Append(s, x)) = Append(Older(s), OneOlder(x))
  <2> DEFINE t == Append(s, x)
             u == Append(Older(s), OneOlder(x))
  <2>1. /\ t \in Seq(Nat) /\ Len(t) = Len(s) + 1 /\ t[Len(s) + 1] = x
        /\ \A i \in 1..Len(s) : t[i] = s[i]
        /\ \A i \in 1..Len(t) : i \in 1..Len(s) \/ i = Len(s) + 1
    BY AppendFacts
  <2>0. Older(s) \in Seq(Nat) /\ Len(Older(s)) = Len(s) /\ OneOlder(x) \in Nat
    BY <1>1, <1>2
  <2>2. /\ u \in Seq(Nat) /\ Len(u) = Len(Older(s)) + 1
        /\ u[Len(Older(s)) + 1] = OneOlder(x)
        /\ \A i \in 1..Len(Older(s)) : u[i] = Older(s)[i]
    BY <2>0, AppendFacts
  <2> HIDE DEF t, u
  <2>3. Older(t) \in Seq(Nat) /\ Len(Older(t)) = Len(t)
        /\ \A i \in 1..Len(t) : Older(t)[i] = OneOlder(t[i])
    BY <1>2, <2>1
  <2>4. ASSUME NEW i \in 1..Len(t) PROVE Older(t)[i] = u[i]
    <3>1. CASE i \in 1..Len(s)
      <4>1. t[i] = s[i] /\ Older(t)[i] = OneOlder(t[i])
        BY <2>1, <2>3, <3>1
      <4>2. u[i] = Older(s)[i]
        BY <2>0, <2>2, <3>1
      <4>3. Older(s)[i] = OneOlder(s[i])
        BY <1>2, <3>1
      <4> QED
        BY <4>1, <4>2, <4>3
    <3>2. CASE i = Len(s) + 1
      BY <2>0, <2>1, <2>2, <2>3, <3>2
    <3> QED
      BY <2>1, <3>1, <3>2
  <2>5. Older(t) = u
    BY <2>0, <2>1, <2>2, <2>3, <2>4
  <2> QED
    BY <2>5 DEF t, u
<1> QED
  BY <1>2, <1>3, <1>4

\* What Active leaves.
Leaves(s) ==
  /\ Active(s) \in Seq(Nat) /\ Len(Active(s)) <= Len(s)
  /\ \A i \in 1..Len(Active(s)) : \E j \in 1..Len(s) : Active(s)[i] = s[j]
  /\ Active(Active(s)) = Active(s)
  /\ Active(Older(Active(s))) = Active(Older(s))
  /\ (\A i \in 1..Len(s) : s[i] >= Window) => Active(s) = <<>>
  /\ LastLeast(s) => LastLeast(Active(s))

\* Active leaves that of every table of attempts, by induction on the table.
LEMMA ActiveLeaves == \A s \in Seq(Nat) : Leaves(s)
<1> DEFINE S == {s \in Seq(Nat) : Leaves(s)}
<1>1. <<>> \in S
  <2>1. <<>> \in Seq(Nat) /\ Len(<<>>) = 0 /\ Len(<<>>) <= Len(<<>>)
    OBVIOUS
  <2>2. Active(<<>>) = <<>> /\ Older(<<>>) = <<>>
    BY ActiveAppend, OlderAppend
  <2>3. LastLeast(<<>>)
    BY <2>1 DEF LastLeast
  <2>4. Leaves(<<>>)
    <3>1. \A i \in 1..Len(<<>>) : FALSE
      BY <2>1
    <3> QED
      BY <2>1, <2>2, <2>3, <3>1, Zenon DEF Leaves
  <2> QED
    BY <2>1, <2>4
<1>2. ASSUME NEW s \in Seq(Nat), NEW x \in Nat, s \in S PROVE Append(s, x) \in S
  <2> DEFINE t == Append(s, x)
             a == Active(s)
             old == OneOlder(x)
  <2>1. Leaves(s)
    BY <1>2
  <2>2. a \in Seq(Nat) /\ Len(a) <= Len(s)
        /\ \A i \in 1..Len(a) : \E j \in 1..Len(s) : a[i] = s[j]
    BY <2>1 DEF Leaves
  <2>3. old \in Nat /\ (x >= Window => ~(old < Window))
    BY LimiterAssumption DEF OneOlder
  <2>4. /\ t \in Seq(Nat) /\ Len(t) = Len(s) + 1 /\ t[Len(s) + 1] = x
        /\ \A i \in 1..Len(s) : t[i] = s[i] /\ t[i] \in Nat
    BY AppendFacts
  <2>5. /\ Active(t) = IF x < Window THEN Append(a, x) ELSE a
        /\ Active(Append(a, x)) = IF x < Window THEN Append(Active(a), x) ELSE Active(a)
    BY <2>2, ActiveAppend
  <2>6. /\ Older(t) = Append(Older(s), old)
        /\ Older(Append(a, x)) = Append(Older(a), old)
        /\ Older(s) \in Seq(Nat) /\ Older(a) \in Seq(Nat)
    BY <2>2, OlderAppend
  <2>7. /\ Active(Older(t)) = IF old < Window THEN Append(Active(Older(s)), old)
                              ELSE Active(Older(s))
        /\ Active(Older(Append(a, x))) =
             IF old < Window THEN Append(Active(Older(a)), old) ELSE Active(Older(a))
    BY <2>3, <2>6, ActiveAppend
  <2>8. Active(a) = a /\ Active(Older(a)) = Active(Older(s))
    BY <2>1 DEF Leaves
  <2> HIDE DEF t, a, old
  <2>9. /\ Active(t) \in Seq(Nat) /\ Len(Active(t)) <= Len(t)
        /\ \A i \in 1..Len(Active(t)) : \E j \in 1..Len(t) : Active(t)[i] = t[j]
    <3>1. CASE x < Window
      <4>1. /\ Active(t) \in Seq(Nat) /\ Len(Active(t)) = Len(a) + 1
            /\ Active(t)[Len(a) + 1] = x
            /\ \A i \in 1..Len(a) : Active(t)[i] = a[i]
            /\ \A i \in 1..Len(Active(t)) : i \in 1..Len(a) \/ i = Len(a) + 1
        BY <2>2, <2>5, <3>1, AppendFacts
      <4>2. ASSUME NEW i \in 1..Len(Active(t))
            PROVE  \E j \in 1..Len(t) : Active(t)[i] = t[j]
        <5>1. CASE i \in 1..Len(a)
          <6>1. PICK j \in 1..Len(s) : a[i] = s[j]
            BY <2>2, <5>1
          <6>2. j \in 1..Len(t) /\ Active(t)[i] = t[j]
            BY <2>4, <4>1, <5>1, <6>1
          <6> QED
            BY <6>2
        <5>2. CASE i = Len(a) + 1
          <6>1. Len(s) + 1 \in 1..Len(t)
            BY <2>4
          <6> QED
            BY <2>4, <4>1, <5>2, <6>1
        <5> QED
          BY <4>1, <5>1, <5>2
      <4> QED
        BY <2>2, <2>4, <4>1, <4>2
    <3>2. CASE ~(x < Window)
      <4>1. ASSUME NEW i \in 1..Len(a) PROVE \E j \in 1..Len(t) : a[i] = t[j]
        <5>1. PICK j \in 1..Len(s) : a[i] = s[j]
          BY <2>2
        <5>2. j \in 1..Len(t) /\ a[i] = t[j]
          BY <2>4, <5>1
        <5> QED
          BY <5>2
      <4> QED
        BY <2>2, <2>4, <2>5, <3>2, <4>1
    <3> QED
      BY <3>1, <3>2
  <2>10. Active(Active(t)) = Active(t)
    BY <2>5, <2>8
  <2>11. Active(Older(Active(t))) = Active(Older(t))
    <3>1. CASE x < Window
      BY <2>5, <2>7, <2>8, <3>1
    <3>2. CASE ~(x < Window)
      <4>1. ~(old < Window)
        BY <2>3, <3>2, LimiterAssumption
      <4> QED
        BY <2>5, <2>7, <2>8, <3>2, <4>1
    <3> QED
      BY <3>1, <3>2
  <2>12. (\A i \in 1..Len(t) : t[i] >= Window) => Active(t) = <<>>
    <3> SUFFICES ASSUME \A i \in 1..Len(t) : t[i] >= Window PROVE Active(t) = <<>>
      OBVIOUS
    <3>1. Len(s) + 1 \in 1..Len(t) /\ 1..Len(s) \subseteq 1..Len(t)
      BY <2>4
    <3>2. ~(x < Window) /\ \A i \in 1..Len(s) : s[i] >= Window
      BY <2>4, <3>1, LimiterAssumption
    <3> QED
      BY <2>1, <2>5, <3>2 DEF Leaves, a
  <2>13. LastLeast(t) => LastLeast(Active(t))
    <3> SUFFICES ASSUME LastLeast(t) PROVE LastLeast(Active(t))
      OBVIOUS
    <3>1. \A i \in 1..Len(s) : s[i] >= x /\ s[i] \in Nat
      BY <2>4 DEF LastLeast
    <3>2. CASE x < Window
      <4>1. /\ Active(t) = Append(a, x) /\ Len(Active(t)) = Len(a) + 1
            /\ Active(t)[Len(a) + 1] = x
            /\ \A i \in 1..Len(a) : Active(t)[i] = a[i]
        BY <2>2, <2>5, <3>2, AppendFacts
      <4>2. ASSUME NEW i \in 1..Len(Active(t)) PROVE Active(t)[i] >= x
        <5>1. CASE i \in 1..Len(a)
          <6>1. PICK j \in 1..Len(s) : a[i] = s[j]
            BY <2>2, <5>1
          <6> QED
            BY <3>1, <4>1, <5>1, <6>1
        <5>2. CASE i = Len(a) + 1
          BY <4>1, <5>2
        <5> QED
          BY <2>2, <4>1, <5>1, <5>2
      <4> QED
        BY <4>1, <4>2 DEF LastLeast
    <3>3. CASE ~(x < Window)
      <4>1. \A i \in 1..Len(s) : s[i] >= Window
        BY <3>1, <3>3, LimiterAssumption
      <4>2. (\A i \in 1..Len(s) : s[i] >= Window) => a = <<>>
        BY <2>1 DEF Leaves, a
      <4>3. Active(t) = <<>>
        BY <2>5, <3>3, <4>1, <4>2
      <4> QED
        BY <4>3 DEF LastLeast
    <3> QED
      BY <3>2, <3>3
  <2>14. Leaves(t)
    BY <2>9, <2>10, <2>11, <2>12, <2>13 DEF Leaves
  <2> QED
    BY <2>4, <2>14 DEF t
<1> HIDE DEF S
<1>3. Seq(Nat) \subseteq S
  BY <1>1, <1>2, AllSequences
<1> QED
  BY <1>3 DEF S

-----------------------------------------------------------------------------
(* The limiter of the accounts.                                              *)

\* The attempts of a key are listed oldest first.
Table(l) == \A k \in DOMAIN l : l[k] \in Seq(Nat) /\ LastLeast(l[k])

\* What is within the window of a key, in a table.
LEMMA BeforeFacts ==
  ASSUME NEW l, Table(l), NEW k
  PROVE  /\ Before(l, k) \in Seq(Nat) /\ LastLeast(Before(l, k))
         /\ Active(Before(l, k)) = Before(l, k)
<1>1. CASE k \in DOMAIN l
  <2>1. l[k] \in Seq(Nat) /\ LastLeast(l[k])
    BY <1>1 DEF Table
  <2> QED
    BY <1>1, <2>1, ActiveLeaves DEF Before, Leaves
<1>2. CASE k \notin DOMAIN l
  <2>1. <<>> \in Seq(Nat) /\ LastLeast(<<>>)
    BY DEF LastLeast
  <2> QED
    BY <1>2, <2>1, ActiveAppend DEF Before
<1> QED
  BY <1>1, <1>2

\* A key that is dropped because its last attempt is too old has none that counts.
LEMMA CleanedKeeps ==
  ASSUME NEW l, Table(l), NEW due
  PROVE  /\ Table(Cleaned(l, due))
         /\ \A k : Before(Cleaned(l, due), k) = Before(l, k)
<1> DEFINE keep == {k \in DOMAIN l : Fresh(l[k])}
<1>1. ASSUME NEW k, k \in DOMAIN l, ~Fresh(l[k]) PROVE Before(l, k) = <<>>
  <2>1. l[k] \in Seq(Nat) /\ LastLeast(l[k])
    BY <1>1 DEF Table
  <2>2. CASE Len(l[k]) = 0
    <3>1. l[k] = <<>>
      BY <2>1, <2>2
    <3> QED
      BY <1>1, <3>1, ActiveAppend DEF Before
  <2>3. CASE Len(l[k]) # 0
    <3>1. Len(l[k]) \in 1..Len(l[k])
      BY <2>1, <2>3
    <3>2. l[k][Len(l[k])] \in Nat /\ ~(l[k][Len(l[k])] < Window)
      BY <1>1, <2>1, <3>1 DEF Fresh, Last
    <3>3. \A i \in 1..Len(l[k]) : l[k][i] \in Nat /\ l[k][i] >= l[k][Len(l[k])]
      BY <2>1 DEF LastLeast
    <3>4. \A i \in 1..Len(l[k]) : l[k][i] >= Window
      BY <3>2, <3>3, LimiterAssumption
    <3> QED
      BY <1>1, <2>1, <3>4, ActiveLeaves DEF Leaves, Before
  <2> QED
    BY <2>2, <2>3
<1>2. CASE Cleaned(l, due) = l
  BY <1>2
<1>3. CASE Cleaned(l, due) = Only(l, keep)
  <2>1. /\ DOMAIN Only(l, keep) = keep
        /\ \A k \in keep : Only(l, keep)[k] = l[k]
    BY DEF Only
  <2>2. Table(Only(l, keep))
    BY <2>1 DEF Table
  <2>3. ASSUME NEW k PROVE Before(Only(l, keep), k) = Before(l, k)
    BY <1>1, <2>1 DEF Before
  <2> QED
    BY <1>3, <2>2, <2>3
<1> QED
  BY <1>2, <1>3 DEF Cleaned

\* An attempt counts when it is admitted, and is admitted below the limit.
LEMMA ConsumedCounts ==
  ASSUME NEW l, Table(l), NEW k, NEW max \in Nat, NEW due
  PROVE  /\ Table(Consumed(l, k, max, due))
         /\ \A j : Before(Consumed(l, k, max, due), j) =
                     IF j = k /\ Admits(l, k, max, due)
                     THEN Append(Before(l, k), 0) ELSE Before(l, j)
         /\ Admits(l, k, max, due) => Len(Before(l, k)) < max
<1> DEFINE c == Cleaned(l, due)
           b == Before(c, k)
           more == IF Len(b) < max THEN Append(b, 0) ELSE b
           after == Consumed(l, k, max, due)
<1>1. Table(c) /\ \A j : Before(c, j) = Before(l, j)
  BY CleanedKeeps
<1>2. b \in Seq(Nat) /\ LastLeast(b) /\ Active(b) = b
  BY <1>1, BeforeFacts
<1>3. Admits(l, k, max, due) <=> ~Full(c, k) /\ Len(b) < max
  BY DEF Admits
<1>4. after = IF Full(c, k) THEN c
              ELSE [j \in DOMAIN c \cup {k} |-> IF j # k THEN c[j] ELSE more]
  BY DEF Consumed
<1> HIDE DEF c, b, after
<1>5. /\ Append(b, 0) \in Seq(Nat) /\ LastLeast(Append(b, 0))
      /\ Active(Append(b, 0)) = Append(b, 0)
  <2>1. Active(Append(b, 0)) = Append(b, 0)
    BY <1>2, ActiveAppend, LimiterAssumption
  <2>2. /\ Append(b, 0) \in Seq(Nat) /\ Len(Append(b, 0)) = Len(b) + 1
        /\ Append(b, 0)[Len(b) + 1] = 0
        /\ \A i \in 1..Len(Append(b, 0)) : Append(b, 0)[i] \in Nat
    BY <1>2
  <2> QED
    BY <2>1, <2>2 DEF LastLeast
<1>6. more \in Seq(Nat) /\ LastLeast(more) /\ Active(more) = more
  BY <1>2, <1>5
<1> HIDE DEF more
<1>7. CASE Full(c, k)
  BY <1>1, <1>3, <1>4, <1>7 DEF b, after
<1>8. CASE ~Full(c, k)
  <2>1. DOMAIN after = DOMAIN c \cup {k}
    BY <1>4, <1>8
  <2>2. \A j \in DOMAIN after : after[j] = IF j = k THEN more ELSE c[j]
    BY <1>4, <1>8
  <2>3. Table(after)
    BY <1>1, <1>6, <2>1, <2>2 DEF Table
  <2>4. ASSUME NEW j PROVE Before(after, j) = IF j = k THEN more ELSE Before(c, j)
    BY <1>6, <2>1, <2>2 DEF Before
  <2>5. more = IF Admits(l, k, max, due) THEN Append(Before(l, k), 0) ELSE Before(l, k)
    BY <1>1, <1>3, <1>8 DEF more, b
  <2>6. Admits(l, k, max, due) => Len(Before(l, k)) < max
    BY <1>1, <1>3 DEF b
  <2> QED
    BY <1>1, <2>3, <2>4, <2>5, <2>6 DEF after
<1> QED
  BY <1>7, <1>8

\* A key that is cleared has no attempts, and the others keep theirs.
LEMMA ClearedCounts ==
  ASSUME NEW l, Table(l), NEW k
  PROVE  /\ Table(Cleared(l, k))
         /\ \A j : Before(Cleared(l, k), j) = IF j = k THEN <<>> ELSE Before(l, j)
BY DEF Table, Cleared, Only, Before

\* Time passes for all of them.
LEMMA AgedCounts ==
  ASSUME NEW l, Table(l)
  PROVE  /\ Table(Aged(l))
         /\ \A j : Before(Aged(l), j) = Active(Older(Before(l, j)))
<1>1. DOMAIN Aged(l) = DOMAIN l /\ \A k \in DOMAIN l : Aged(l)[k] = Older(l[k])
  BY DEF Aged
<1>2. ASSUME NEW s \in Seq(Nat), LastLeast(s)
      PROVE  Older(s) \in Seq(Nat) /\ LastLeast(Older(s))
  <2>1. Older(s) \in Seq(Nat) /\ Len(Older(s)) = Len(s)
    BY OlderAppend
  <2>2. \A i \in 1..Len(s) : Older(s)[i] = OneOlder(s[i]) /\ s[i] \in Nat
    BY DEF Older, OneOlder
  <2>3. ASSUME NEW i \in 1..Len(s) PROVE Older(s)[i] >= Older(s)[Len(s)]
    <3>1. Len(s) \in 1..Len(s) /\ s[i] >= s[Len(s)]
      BY <1>2 DEF LastLeast
    <3> QED
      BY <2>2, <3>1, LimiterAssumption DEF OneOlder
  <2> QED
    BY <2>1, <2>3 DEF LastLeast
<1>3. Table(Aged(l))
  BY <1>1, <1>2 DEF Table
<1>4. ASSUME NEW j PROVE Before(Aged(l), j) = Active(Older(Before(l, j)))
  <2>1. CASE j \in DOMAIN l
    <3>1. l[j] \in Seq(Nat)
      BY <2>1 DEF Table
    <3> QED
      BY <1>1, <2>1, <3>1, ActiveLeaves DEF Before, Leaves
  <2>2. CASE j \notin DOMAIN l
    BY <1>1, <2>2, ActiveAppend, OlderAppend DEF Before
  <2> QED
    BY <2>1, <2>2
<1> QED
  BY <1>3, <1>4

\* The table of the accounts has exactly the guesses that were made since the
\* last right one and within the window: so what it admits is below the limit.
Tried ==
  /\ DOMAIN limiter = {"setup", "network", "account"}
  /\ Table(limiter.account)
  /\ guessed = [k \in AccountKeys |-> Before(limiter.account, k)]
  /\ GuessesBounded

\* A guess of key k.
LEMMA GuessTried ==
  ASSUME Tried, NEW k, NEW due, DOMAIN limiter' = DOMAIN limiter,
         limiter'.account = Consumed(limiter.account, k, MaxAccount, due),
         guessed' = IF Admits(limiter.account, k, MaxAccount, due)
                    THEN [guessed EXCEPT ![k] = Append(@, 0)] ELSE guessed
  PROVE  Tried'
<1> DEFINE l == limiter.account
           yes == Admits(l, k, MaxAccount, due)
<1>1. /\ Table(l) /\ guessed = [j \in AccountKeys |-> Before(l, j)]
      /\ \A j \in AccountKeys : Len(guessed[j]) <= MaxAccount
  BY DEF Tried, GuessesBounded
<1>2. MaxAccount \in Nat
  BY AccountAssumption
<1>3. /\ Table(limiter'.account)
      /\ \A j : Before(limiter'.account, j) =
                  IF j = k /\ yes THEN Append(Before(l, k), 0) ELSE Before(l, j)
      /\ yes => Len(Before(l, k)) < MaxAccount
  <2>1. Table(limiter.account)
    BY <1>1
  <2>2. /\ Table(Consumed(limiter.account, k, MaxAccount, due))
        /\ \A j : Before(Consumed(limiter.account, k, MaxAccount, due), j) =
                    IF j = k /\ yes THEN Append(Before(l, k), 0) ELSE Before(l, j)
        /\ yes => Len(Before(l, k)) < MaxAccount
    BY <1>2, <2>1, ConsumedCounts
  <2> QED
    BY <2>2
<1> HIDE DEF l, yes
<1>4. guessed' = [j \in AccountKeys |-> IF j = k /\ yes THEN Append(guessed[j], 0)
                                       ELSE guessed[j]]
  BY <1>1 DEF yes, l
<1>5. \A j \in AccountKeys : guessed[j] = Before(l, j)
  BY <1>1
<1>6. guessed' = [j \in AccountKeys |-> Before(limiter'.account, j)]
  BY <1>3, <1>4, <1>5
<1>7. ASSUME NEW j \in AccountKeys PROVE Len(guessed'[j]) <= MaxAccount
  <2>1. guessed[j] \in Seq(Nat) /\ Len(guessed[j]) <= MaxAccount
    BY <1>1, <1>5, BeforeFacts
  <2>2. CASE j = k /\ yes
    BY <1>2, <1>3, <1>4, <1>5, <2>1, <2>2
  <2>3. CASE ~(j = k /\ yes)
    BY <1>4, <2>1, <2>3
  <2> QED
    BY <2>2, <2>3
<1> QED
  BY <1>3, <1>6, <1>7 DEF Tried, GuessesBounded

\* The right password of key k.
LEMMA RightTried ==
  ASSUME Tried, NEW k, DOMAIN limiter' = DOMAIN limiter,
         limiter'.account = Cleared(limiter.account, k),
         guessed' = [guessed EXCEPT ![k] = <<>>]
  PROVE  Tried'
<1>1. /\ Table(limiter.account)
      /\ guessed = [j \in AccountKeys |-> Before(limiter.account, j)]
      /\ \A j \in AccountKeys : Len(guessed[j]) <= MaxAccount
  BY DEF Tried, GuessesBounded
<1>2. /\ Table(limiter'.account)
      /\ \A j : Before(limiter'.account, j) =
                  IF j = k THEN <<>> ELSE Before(limiter.account, j)
  BY <1>1, ClearedCounts
<1>3. guessed' = [j \in AccountKeys |-> IF j = k THEN <<>> ELSE guessed[j]]
  BY <1>1
<1>4. guessed' = [j \in AccountKeys |-> Before(limiter'.account, j)]
  BY <1>1, <1>2, <1>3
<1>5. MaxAccount \in Nat /\ Len(<<>>) = 0
  BY AccountAssumption
<1>6. \A j \in AccountKeys : Len(guessed'[j]) <= MaxAccount
  BY <1>1, <1>3, <1>5
<1> QED
  BY <1>2, <1>4, <1>6 DEF Tried, GuessesBounded

\* What does not concern the table of the accounts.
LEMMA OthersTried ==
  ASSUME Tried, DOMAIN limiter' = DOMAIN limiter,
         limiter'.account = limiter.account, UNCHANGED guessed
  PROVE  Tried'
BY DEF Tried, GuessesBounded

\* At first, and when the server has started, nobody has tried anything.
LEMMA NobodyTried ==
  /\ Table(NewLimiter) /\ \A k : Before(NewLimiter, k) = <<>>
  /\ Len(<<>>) <= MaxAccount
BY AccountAssumption DEF Table, NewLimiter, Before

\* Time passes.
LEMMA TickTried == ASSUME Tried, Tick PROVE Tried'
<1>1. /\ Table(limiter.account)
      /\ guessed = [j \in AccountKeys |-> Before(limiter.account, j)]
      /\ \A j \in AccountKeys : Len(guessed[j]) <= MaxAccount
      /\ DOMAIN limiter = {"setup", "network", "account"}
  BY DEF Tried, GuessesBounded
<1>2. /\ limiter' = [l \in DOMAIN limiter |-> Aged(limiter[l])]
      /\ guessed' = [k \in AccountKeys |-> Active(Older(guessed[k]))]
  BY DEF Tick
<1>3. limiter'.account = Aged(limiter.account) /\ DOMAIN limiter' = DOMAIN limiter
  BY <1>1, <1>2
<1>4. /\ Table(limiter'.account)
      /\ \A j : Before(limiter'.account, j) = Active(Older(Before(limiter.account, j)))
  BY <1>1, <1>3, AgedCounts
<1>5. guessed' = [j \in AccountKeys |-> Before(limiter'.account, j)]
  BY <1>1, <1>2, <1>4
<1>6. ASSUME NEW j \in AccountKeys PROVE Len(guessed'[j]) <= MaxAccount
  <2>1. guessed[j] \in Seq(Nat) /\ Len(guessed[j]) <= MaxAccount
    BY <1>1, BeforeFacts
  <2>2. Older(guessed[j]) \in Seq(Nat) /\ Len(Older(guessed[j])) = Len(guessed[j])
    BY <2>1, OlderAppend
  <2>3. /\ Active(Older(guessed[j])) \in Seq(Nat)
        /\ Len(Active(Older(guessed[j]))) <= Len(Older(guessed[j]))
    BY <2>2, ActiveLeaves DEF Leaves
  <2> QED
    BY <1>2, <2>1, <2>2, <2>3, AccountAssumption
<1> QED
  BY <1>1, <1>3, <1>4, <1>5, <1>6 DEF Tried, GuessesBounded

\* A request that begins to check a password has asked the limiter.
LEMMA BeginsTried ==
  ASSUME Tried, NEW q, NEW due, NEW guess,
         \/ \E n \in Names, net \in Networks : LoginBegin(q, net, n, guess, due)
         \/ \E s \in SessionIds : ReauthBegin(q, s, guess, due)
  PROVE  Tried'
<1>1. ASSUME NEW n \in Names, NEW net \in Networks, LoginBegin(q, net, n, guess, due)
      PROVE  Tried'
  <2> DEFINE k == [kind |-> "login", name |-> n]
             asks == Admits(limiter.network, net, MaxNetwork, due)
             r == [pc |-> "login", net |-> net, key |-> k, user |-> Nobody,
                   right |-> FALSE]
  <2>1. /\ limiter' = [limiter EXCEPT
             !.network = Consumed(@, net, MaxNetwork, due),
             !.account = IF asks THEN Consumed(@, k, MaxAccount, due) ELSE @]
        /\ IF asks THEN Verifies(q, k, guess, r, due) ELSE UNCHANGED <<guessed, request>>
    BY <1>1 DEF LoginBegin
  <2>2. DOMAIN limiter = {"setup", "network", "account"}
    BY DEF Tried
  <2> HIDE DEF k, asks, r
  <2>3. /\ DOMAIN limiter' = DOMAIN limiter
        /\ limiter'.account = IF asks THEN Consumed(limiter.account, k, MaxAccount, due)
                              ELSE limiter.account
    BY <2>1, <2>2
  <2>4. CASE asks
    <3>1. guessed' = IF Admits(limiter.account, k, MaxAccount, due)
                     THEN [guessed EXCEPT ![k] = Append(@, 0)] ELSE guessed
      BY <2>1, <2>4 DEF Verifies
    <3> QED
      BY <2>3, <2>4, <3>1, GuessTried
  <2>5. CASE ~asks
    BY <2>1, <2>3, <2>5, OthersTried
  <2> QED
    BY <2>4, <2>5
<1>2. ASSUME NEW s \in SessionIds, ReauthBegin(q, s, guess, due) PROVE Tried'
  <2> DEFINE k == [kind |-> "reauth", name |-> session[s].of]
             r == [pc |-> "reauth", sid |-> s, key |-> k, user |-> Nobody,
                   right |-> FALSE]
  <2>1. /\ limiter' = [limiter EXCEPT !.account = Consumed(@, k, MaxAccount, due)]
        /\ Verifies(q, k, guess, r, due)
    BY <1>2 DEF ReauthBegin
  <2>2. DOMAIN limiter = {"setup", "network", "account"}
    BY DEF Tried
  <2> HIDE DEF k, r
  <2>3. /\ DOMAIN limiter' = DOMAIN limiter
        /\ limiter'.account = Consumed(limiter.account, k, MaxAccount, due)
    BY <2>1, <2>2
  <2>4. guessed' = IF Admits(limiter.account, k, MaxAccount, due)
                   THEN [guessed EXCEPT ![k] = Append(@, 0)] ELSE guessed
    BY <2>1 DEF Verifies
  <2> QED
    BY <2>3, <2>4, GuessTried
<1> QED
  BY <1>1, <1>2

\* One whose password was right clears the attempts.
LEMMA DoneTried ==
  ASSUME Tried, NEW q, RegisterDone(q) \/ LoginDone(q) \/ ReauthDone(q)
  PROVE  Tried'
<1>0. DOMAIN limiter = {"setup", "network", "account"}
  BY DEF Tried
<1>1. CASE RegisterDone(q)
  <2>1. UNCHANGED guessed
    BY <1>1 DEF RegisterDone
  <2>2. \/ UNCHANGED limiter
        \/ limiter' = [limiter EXCEPT !.setup = Cleared(@, request[q].net)]
    BY <1>1 DEF RegisterDone
  <2>3. limiter'.account = limiter.account /\ DOMAIN limiter' = DOMAIN limiter
    BY <1>0, <2>2
  <2> QED
    BY <2>1, <2>3, OthersTried
<1>2. CASE LoginDone(q)
  <2>1. CASE request[q].right
    <3>1. /\ limiter' = [limiter EXCEPT !.network = Cleared(@, request[q].net),
                                        !.account = Cleared(@, request[q].key)]
          /\ guessed' = [guessed EXCEPT ![request[q].key] = <<>>]
      BY <1>2, <2>1 DEF LoginDone
    <3>2. /\ limiter'.account = Cleared(limiter.account, request[q].key)
          /\ DOMAIN limiter' = DOMAIN limiter
      BY <1>0, <3>1
    <3> QED
      BY <3>1, <3>2, RightTried
  <2>2. CASE ~request[q].right
    BY <1>2, <2>2, OthersTried DEF LoginDone
  <2> QED
    BY <2>1, <2>2
<1>3. CASE ReauthDone(q)
  <2>1. CASE request[q].right
    <3>1. /\ limiter' = [limiter EXCEPT !.account = Cleared(@, request[q].key)]
          /\ guessed' = [guessed EXCEPT ![request[q].key] = <<>>]
      BY <1>3, <2>1 DEF ReauthDone
    <3>2. /\ limiter'.account = Cleared(limiter.account, request[q].key)
          /\ DOMAIN limiter' = DOMAIN limiter
      BY <1>0, <3>1
    <3> QED
      BY <3>1, <3>2, RightTried
  <2>2. CASE ~request[q].right
    BY <1>3, <2>2, OthersTried DEF ReauthDone
  <2> QED
    BY <2>1, <2>2
<1> QED
  BY <1>1, <1>2, <1>3

\* Every step keeps the table of the accounts and the guesses together.
LEMMA TriedStep == Tried /\ [Next]_vars => Tried'
<1> SUFFICES ASSUME Tried, [Next]_vars PROVE Tried'
  OBVIOUS
<1>0. DOMAIN limiter = {"setup", "network", "account"}
  BY DEF Tried
<1>1. CASE \E q \in Requests : RegisterDone(q) \/ LoginDone(q) \/ ReauthDone(q)
  BY <1>1, DoneTried
<1>2. ASSUME NEW q, NEW due, NEW n, NEW net, RegisterBegin(q, net, n, due)
      PROVE  Tried'
  <2>1. /\ UNCHANGED guessed
        /\ limiter' = [limiter EXCEPT !.setup = Consumed(@, net, MaxSetup, due)]
    BY <1>2 DEF RegisterBegin
  <2>2. limiter'.account = limiter.account /\ DOMAIN limiter' = DOMAIN limiter
    BY <1>0, <2>1
  <2> QED
    BY <2>1, <2>2, OthersTried
<1>3. CASE \E q \in Requests, due \in BOOLEAN, p \in Passwords :
             \/ \E n \in Names, net \in Networks : LoginBegin(q, net, n, p, due)
             \/ \E s \in SessionIds : ReauthBegin(q, s, p, due)
  BY <1>3, BeginsTried
<1>4. CASE Start
  <2>1. /\ limiter' = [l \in DOMAIN limiter |-> NewLimiter]
        /\ guessed' = [k \in AccountKeys |-> <<>>]
    BY <1>4 DEF Start
  <2> QED
    BY <1>0, <2>1, NobodyTried DEF Tried, GuessesBounded
<1>5. CASE Tick
  BY <1>5, TickTried
<1>6. ASSUME UNCHANGED <<limiter, guessed>> PROVE Tried'
  BY <1>6, OthersTried
<1>7. CASE \/ \E s \in SessionIds : \/ Refused(s) \/ Logout(s) \/ Activity(s)
                                    \/ RevokeOthers(s)
           \/ Prune \/ Stop \/ RecoverBegin \/ RecoverDone \/ RecoverFails
           \/ UNCHANGED vars
  <2>1. UNCHANGED <<limiter, guessed>>
    BY <1>7, Zenon DEF Refused, Logout, Activity, RevokeOthers, Prune, Stop, RecoverBegin,
       RecoverDone, RecoverFails, vars
  <2> QED
    BY <1>6, <2>1
<1> QED
  BY <1>1, <1>2, <1>3, <1>4, <1>5, <1>7 DEF Next

\* Nobody can try a password of an account more often than the limit allows in
\* any window, whatever other keys the table holds and loses (security.ts
\* 212-252, api.ts 263-290).
THEOREM GuessesLimited == Spec => []GuessesBounded
<1>1. Init => Tried
  <2> SUFFICES ASSUME Init PROVE Tried
    OBVIOUS
  <2>1. /\ limiter = [l \in {"setup", "network", "account"} |-> NewLimiter]
        /\ guessed = [k \in AccountKeys |-> <<>>]
    BY DEF Init
  <2> QED
    BY <2>1, NobodyTried DEF Tried, GuessesBounded
<1>2. Tried => GuessesBounded
  BY DEF Tried
<1> QED
  BY <1>1, <1>2, TriedStep, PTL DEF Spec
=============================================================================
