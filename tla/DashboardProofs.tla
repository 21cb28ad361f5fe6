-------------------------- MODULE DashboardProofs ---------------------------
(***************************************************************************)
(* What the dashboard shows is of the session the page is in and not older *)
(* than the connection it names, and metadata that were asked for are      *)
(* there or said to be missing, for any parts, addresses, sessions and     *)
(* changes. What has to be known besides: the server has no other session  *)
(* than the one the page is in, and what is under way was sent in that     *)
(* one; at most one refresh is the latest, and it was sent for a           *)
(* connection as new as the one that the page names.                       *)
(***************************************************************************)
EXTENDS Dashboard, TLAPS

Rows      == {NoRow} \cup [rev : Nat, url : Urls]
Requests  == [session : Nat, from : Rows]
Results   == [state : {"pending", "failed", "skipped", "refused"}, rev : {0}]
               \cup [state : {"read"}, rev : Nat]
Refreshes == [latest : BOOLEAN, session : Nat, from : Rows, timer : BOOLEAN,
              got : [Parts -> Results]]
Savings   == [kind : {"save"}, req : Requests, done : Rows, url : Urls]
               \cup [kind : {"forget"}, req : Requests, done : Rows]

PageOK ==
  /\ started \in BOOLEAN /\ user \in Nat /\ instance \in Rows /\ live \in BOOLEAN
  /\ metadata \in [url : Urls \cup {"due", "none"}, session : Nat]
  /\ DOMAIN shown = Parts /\ error \in [Parts -> BOOLEAN]
  /\ shown = [p \in Parts |-> shown[p]]
OthersOK ==
  /\ session \in Nat /\ issued \in Nat /\ row \in Rows
  /\ rendered \in [user : Nat, instance : Rows]
  /\ loads \subseteq [valid : BOOLEAN, req : Requests]
  /\ act # NoAct => act \in [pc : Parts, req : Requests]
  /\ saves \subseteq Savings

\* The sessions of the server, of the page and of its last render.
Sessions ==
  /\ session <= issued /\ user <= issued /\ metadata.session <= issued
  /\ ~started => /\ user = 0 /\ rendered = Nobody /\ instance = NoRow
                 /\ refreshes = {} /\ loads = {} /\ act = NoAct /\ saves = {}
                 /\ metadata = Due
  /\ started /\ session # 0 => user = session
  /\ rendered.user # 0 => user \in {0, rendered.user}

\* What is under way was sent in the server's session, if there is one.
Sent(q) == session # 0 => q.session = session
Underway ==
  /\ \A l \in loads : Sent(l.req) /\ l.req.from.rev <= row.rev
  /\ act # NoAct => Sent(act.req)
  /\ \A s \in saves : Sent(s.req) /\ s.done.rev <= row.rev
  /\ instance.rev <= row.rev /\ rendered.instance.rev <= row.rev

Told(r, p) == /\ r.got[p].state = "read" =>
                   r.session # 0 /\ r.got[p].rev >= r.from.rev
              /\ r.got[p].state = "refused" => session = 0
Refreshing(r) ==
  /\ Sent(r) /\ r.from.rev <= row.rev /\ \A p \in Parts : Told(r, p)
  /\ r.latest => live /\ r.session \in {0, user} /\ instance.rev <= r.from.rev
OneLatest(rs) == \A q, r \in rs : q.latest /\ r.latest => q = r
\* Metadata that were asked for are on their way, or there.
Asked(rs) == \E r \in rs : r.latest /\ \A p \in Metadata : r.got[p].state # "skipped"
There == \A p \in Metadata : shown[p] # NoData \/ error[p]
Answered(rs) == user # 0 /\ metadata.session = user => Asked(rs) \/ There
Good(rs) == /\ rs \subseteq Refreshes /\ OneLatest(rs) /\ Answered(rs)
            /\ \A r \in rs : Refreshing(r)

PageInv == PageOK /\ OthersOK /\ Sessions /\ Underway /\ Good(refreshes)

-----------------------------------------------------------------------------
\* A row has a revision.
LEMMA RowFacts == \A w \in Rows : w.rev \in Nat /\ w.url \in Urls \cup {"none"}
BY DEF Rows, NoRow

\* A page that is loaded knows nothing.
LEMMA PageStart == Init => PageInv
<1> SUFFICES ASSUME Init PROVE PageInv
  OBVIOUS
<1>1. /\ issued = 1 /\ session \in {0, 1}
      /\ row \in {NoRow} \cup [rev : {1}, url : Urls]
      /\ started = FALSE /\ user = 0 /\ rendered = Nobody
      /\ instance = NoRow /\ live = FALSE /\ metadata = Due
      /\ shown = [p \in Parts |-> NoData] /\ error = [p \in Parts |-> FALSE]
      /\ refreshes = {} /\ loads = {} /\ act = NoAct /\ saves = {}
  BY DEF Init
<1>2. NoRow \in Rows /\ NoRow.rev = 0 /\ row \in Rows /\ row.rev \in Nat
  BY <1>1 DEF Rows, NoRow
<1>3. PageOK
  BY <1>1, <1>2 DEF PageOK, Due
<1>4. OthersOK
  BY <1>1, <1>2 DEF OthersOK, Nobody
<1>5. Sessions
  BY <1>1 DEF Sessions, Due, Nobody
<1>6. Underway
  BY <1>1, <1>2 DEF Underway, Nobody
<1>7. Good(refreshes)
  BY <1>1 DEF Good, OneLatest, Answered
<1> QED
  BY <1>3, <1>4, <1>5, <1>6, <1>7 DEF PageInv

\* A refresh that is superseded is not the latest.
LEMMA SupersededFacts ==
  ASSUME NEW rs, rs \subseteq Refreshes
  PROVE  /\ Superseded(rs) \subseteq Refreshes
         /\ \A q \in Superseded(rs) : /\ ~q.latest
              /\ \E r \in rs : /\ q.session = r.session /\ q.from = r.from
                               /\ \A p \in Parts : \/ q.got[p].state = "failed"
                                                   \/ q.got[p] = r.got[p]
<1> SUFFICES ASSUME NEW q \in Superseded(rs)
             PROVE  /\ q \in Refreshes /\ ~q.latest
                    /\ \E r \in rs : /\ q.session = r.session /\ q.from = r.from
                                     /\ \A p \in Parts : \/ q.got[p].state = "failed"
                                                         \/ q.got[p] = r.got[p]
  OBVIOUS
<1>1. PICK r \in rs :
        q = [r EXCEPT !.latest = FALSE, !.got = [p \in Parts |->
               IF p \in Pending(r) THEN Is("failed") ELSE r.got[p]]]
  BY DEF Superseded
<1>2. r \in Refreshes
  OBVIOUS
<1>3. \A p \in Parts : r.got[p] \in Results /\ Is("failed") \in Results
  BY <1>2 DEF Refreshes, Results, Is
<1>4. /\ q.latest = FALSE /\ q.session = r.session /\ q.from = r.from
      /\ q.timer = r.timer
      /\ q.got = [p \in Parts |-> IF p \in Pending(r) THEN Is("failed") ELSE r.got[p]]
      /\ q \in Refreshes
  BY <1>1, <1>2, <1>3 DEF Refreshes
<1>5. \A p \in Parts : q.got[p].state = "failed" \/ q.got[p] = r.got[p]
  BY <1>4 DEF Is
<1> QED
  BY <1>4, <1>5

\* Superseding leaves what the refreshes know, and no latest one.
LEMMA SupersededRefreshing ==
  ASSUME NEW rs, rs \subseteq Refreshes, \A r \in rs : Refreshing(r),
         session' \in {session, 0}, row' = row
  PROVE  \A q \in Superseded(rs) : q \in Refreshes /\ ~q.latest /\ Refreshing(q)'
<1> SUFFICES ASSUME NEW q \in Superseded(rs)
             PROVE  q \in Refreshes /\ ~q.latest /\ Refreshing(q)'
  OBVIOUS
<1>1. /\ q \in Refreshes /\ ~q.latest
      /\ \E r \in rs : /\ q.session = r.session /\ q.from = r.from
                       /\ \A p \in Parts : \/ q.got[p].state = "failed"
                                           \/ q.got[p] = r.got[p]
  BY SupersededFacts
<1>2. PICK r \in rs : /\ q.session = r.session /\ q.from = r.from
                      /\ \A p \in Parts : \/ q.got[p].state = "failed"
                                          \/ q.got[p] = r.got[p]
  BY <1>1
<1>3. Refreshing(r)
  OBVIOUS
<1>4. Sent(q)' /\ q.from.rev <= row'.rev
  BY <1>2, <1>3 DEF Refreshing, Sent
<1>5. \A p \in Parts : Told(q, p)'
  BY <1>2, <1>3 DEF Refreshing, Told
<1> QED
  BY <1>1, <1>4, <1>5 DEF Refreshing

\* The page is cleared when the server has no session for it.
LEMMA ClearHolds ==
  ASSUME PageInv, NEW rs, rs \subseteq Refreshes, \A r \in rs : Refreshing(r),
         NEW ls, ls \subseteq loads, Clear(rs, ls), session' = 0, started,
         UNCHANGED <<issued, row, rendered>>, act' \in {act, NoAct}, saves' \subseteq saves
  PROVE  PageInv'
<1>1. /\ refreshes' = Superseded(rs) /\ live' = FALSE /\ metadata' = Due
      /\ user' = 0 /\ instance' = NoRow /\ started' = started
      /\ loads' = {[l EXCEPT !.valid = FALSE] : l \in ls}
      /\ shown' = [p \in Parts |-> NoData] /\ error' = [p \in Parts |-> FALSE]
  BY DEF Clear, Empty
<1>2. NoRow \in Rows /\ NoRow.rev = 0 /\ row.rev \in Nat
  BY RowFacts DEF Rows, NoRow, PageInv, OthersOK
<1>3. \A m \in loads' : \E l \in loads : m.req = l.req /\ m \in [valid : BOOLEAN, req : Requests]
  BY <1>1 DEF PageInv, OthersOK
<1>4. PageOK'
  BY <1>1, <1>2 DEF PageInv, PageOK, Due
<1>5. OthersOK'
  <2>1. loads' \subseteq [valid : BOOLEAN, req : Requests]
    BY <1>3
  <2> QED
    BY <2>1 DEF PageInv, OthersOK
<1>6. Sessions'
  BY <1>1 DEF PageInv, OthersOK, Sessions, Due
<1>7. Underway'
  BY <1>1, <1>2, <1>3 DEF PageInv, Underway, Sent
<1>8. Good(refreshes)'
  <2>1. \A q \in refreshes' : q \in Refreshes /\ ~q.latest /\ Refreshing(q)'
    BY <1>1, SupersededRefreshing
  <2> QED
    BY <1>1, <2>1 DEF Good, OneLatest, Answered
<1> QED
  BY <1>4, <1>5, <1>6, <1>7, <1>8 DEF PageInv

\* A request that is refused ends the session of the page, if that is not done.
LEMMA ExpireHolds ==
  ASSUME PageInv, NEW rs, Good(rs), NEW ls, ls \subseteq loads, Expire(rs, ls),
         session = 0, started, UNCHANGED <<server, rendered>>,
         act' \in {act, NoAct}, saves' \subseteq saves
  PROVE  PageInv'
<1>0. UNCHANGED <<session, issued, row, rendered>>
  BY DEF server
<1>1. CASE armed
  BY <1>0, <1>1, ClearHolds DEF Expire, Good
<1>2. CASE ~armed
  <2>1. /\ refreshes' = rs /\ loads' = ls
        /\ UNCHANGED <<started, user, instance, live, metadata, shown, error>>
    BY <1>2 DEF Expire
  <2>2. PageOK'
    BY <2>1 DEF PageInv, PageOK
  <2>3. OthersOK'
    BY <1>0, <2>1 DEF PageInv, OthersOK
  <2>4. Sessions'
    BY <1>0, <2>1 DEF PageInv, Sessions
  <2>5. Underway'
    BY <1>0, <2>1 DEF PageInv, Underway, Sent
  <2>6. Good(refreshes)'
    BY <1>0, <2>1 DEF Good, OneLatest, Answered, Asked, There, Refreshing, Told, Sent
  <2> QED
    BY <2>2, <2>3, <2>4, <2>5, <2>6 DEF PageInv
<1> QED
  BY <1>1, <1>2

\* A page that has sent something was started, and what it sent is refused only
\* when there is no session.
LEMMA Refusals ==
  ASSUME PageInv
  PROVE  /\ refreshes # {} \/ loads # {} \/ saves # {} \/ act # NoAct
              \/ rendered.user # 0 => started
         /\ \A q : Sent(q) /\ Refused(q) => session = 0
         /\ started => session \in {0, user}
BY DEF PageInv, Sessions, Sent, Refused, Nobody

\* A refresh that begins is the latest one: it was sent for a connection that is
\* not older than the one the page names, and takes over the metadata that
\* were asked for.
LEMMA RefreshHolds ==
  ASSUME PageInv, started, NEW target \in Rows, target # NoRow,
         NEW force \in BOOLEAN, NEW timer \in BOOLEAN, NEW superseded \in BOOLEAN, NEW key,
         Refresh(target, force, timer, superseded, key),
         UNCHANGED <<server, user>>, instance' \in Rows, instance'.rev <= row.rev,
         \/ superseded = live /\ key = metadata /\ UNCHANGED <<shown, error>>
         \/ key = Due
  PROVE  /\ Good(refreshes)' /\ live' = TRUE /\ metadata'.session <= issued
         /\ metadata' \in [url : Urls \cup {"due", "none"}, session : Nat]
<1> DEFINE include == Includes(target, force, superseded, key)
<1> PICK got : got = [p \in Parts |-> IF p \in Live \/ include THEN Is("pending")
                                      ELSE Is("skipped")]
  OBVIOUS
<1> PICK n : n = [latest |-> TRUE, session |-> session, from |-> row, timer |-> timer,
                  got |-> got]
  OBVIOUS
<1>0. UNCHANGED <<session, issued, row>>
  BY DEF server
<1>1. /\ live' = TRUE /\ refreshes' = Superseded(refreshes) \cup {n}
      /\ metadata' = IF include THEN [url |-> target.url, session |-> session] ELSE key
  BY DEF Refresh
<1>2. /\ session \in Nat /\ row \in Rows /\ issued \in Nat /\ session <= issued
      /\ metadata \in [url : Urls \cup {"due", "none"}, session : Nat]
      /\ metadata.session <= issued /\ refreshes \subseteq Refreshes
      /\ \A r \in refreshes : Refreshing(r)
      /\ row.rev \in Nat
  BY RowFacts DEF PageInv, PageOK, OthersOK, Sessions, Good
<1>3. target.url \in Urls
  BY DEF Rows
<1>4. key = Due => include
  BY <1>3, DashboardAssumption DEF Includes, Due
<1>5. metadata' \in [url : Urls \cup {"due", "none"}, session : Nat]
      /\ metadata'.session <= issued
  <2>1. CASE include
    BY <1>1, <1>2, <1>3, <2>1
  <2>2. CASE ~include
    BY <1>1, <1>2, <1>4, <2>2
  <2> QED
    BY <2>1, <2>2
<1>6. /\ \A p \in Parts : got[p] \in Results /\ got[p].state \in {"pending", "skipped"}
      /\ include => \A p \in Parts : got[p].state = "pending"
  BY DEF Results, Is
<1>7. /\ n.latest = TRUE /\ n.session = session /\ n.from = row /\ n.got = got
      /\ n \in Refreshes
  BY <1>2, <1>6 DEF Refreshes
<1>8. Refreshing(n)'
  <2>1. Sent(n)' /\ n.from.rev <= row'.rev /\ \A p \in Parts : Told(n, p)'
    BY <1>0, <1>2, <1>6, <1>7 DEF Sent, Told
  <2>2. n.session \in {0, user'} /\ instance'.rev <= n.from.rev
    BY <1>7, Refusals
  <2> QED
    BY <1>1, <2>1, <2>2 DEF Refreshing
<1>9. \A q \in Superseded(refreshes) : q \in Refreshes /\ ~q.latest /\ Refreshing(q)'
  BY <1>0, <1>2, SupersededRefreshing
<1>10. OneLatest(refreshes')
  BY <1>1, <1>9 DEF OneLatest
<1>11. Answered(refreshes)'
  <2>1. CASE include
    <3>1. n \in refreshes' /\ \A p \in Metadata : n.got[p].state # "skipped"
      BY <1>1, <1>6, <1>7, <2>1 DEF Parts
    <3> QED
      BY <1>7, <3>1 DEF Answered, Asked
  <2>2. CASE ~include
    <3>1. key = metadata /\ ~live /\ UNCHANGED <<shown, error>> /\ metadata' = metadata
      BY <1>1, <1>4, <2>2 DEF Includes
    <3>2. ~Asked(refreshes)
      BY <1>2, <3>1 DEF Asked, Refreshing
    <3> QED
      BY <3>1, <3>2 DEF PageInv, Good, Answered, There
  <2> QED
    BY <2>1, <2>2
<1> QED
  BY <1>1, <1>5, <1>7, <1>8, <1>9, <1>10, <1>11 DEF Good

\* A request of a refresh settles.
LEMMA SettledGood ==
  ASSUME PageInv, NEW r \in refreshes, NEW p \in Pending(r), NEW value \in Results,
         value.state # "skipped",
         value.state = "read" => r.session # 0 /\ value.rev >= r.from.rev,
         value.state = "refused" => session = 0
  PROVE  Good(Settled(r, p, value))
<1>1. /\ refreshes \subseteq Refreshes /\ OneLatest(refreshes) /\ Answered(refreshes)
      /\ \A q \in refreshes : Refreshing(q)
      /\ r \in Refreshes /\ p \in Parts
  BY DEF PageInv, Good, Pending
<1> PICK e : e = [r EXCEPT !.got[p] = value]
  OBVIOUS
<1>2. /\ e.latest = r.latest /\ e.session = r.session /\ e.from = r.from
      /\ e.got = [r.got EXCEPT ![p] = value] /\ e \in Refreshes
  BY <1>1 DEF Refreshes
<1>3. Settled(r, p, value) = (refreshes \ {r}) \cup {e}
  BY DEF Settled
<1>4. r.got \in [Parts -> Results]
  BY <1>1 DEF Refreshes
<1>5. e.got[p] = value /\ \A q \in Parts \ {p} : e.got[q] = r.got[q]
  BY <1>1, <1>2, <1>4
<1>6. Refreshing(e)
  BY <1>1, <1>2, <1>5 DEF Refreshing, Told, Sent
<1>7. OneLatest(Settled(r, p, value))
  BY <1>1, <1>2, <1>3 DEF OneLatest
<1>8. Asked(refreshes) => Asked(Settled(r, p, value))
  <2> SUFFICES ASSUME NEW a \in refreshes, a.latest,
                      \A m \in Metadata : a.got[m].state # "skipped"
               PROVE  Asked(Settled(r, p, value))
    BY DEF Asked
  <2>1. CASE a = r
    <3>1. e.latest /\ \A m \in Metadata : e.got[m].state # "skipped"
      BY <1>2, <1>5, <2>1 DEF Parts
    <3> QED
      BY <1>3, <3>1 DEF Asked
  <2>2. CASE a # r
    BY <1>3, <2>2 DEF Asked
  <2> QED
    BY <2>1, <2>2
<1> QED
  BY <1>1, <1>2, <1>3, <1>6, <1>7, <1>8 DEF Good, Answered

\* What changes neither the page nor what the server or the render knows.
LEMMA PageStays ==
  ASSUME PageInv, UNCHANGED <<server, page, rendered>>, OthersOK', Underway',
         started \/ (loads' = {} /\ act' = NoAct /\ saves' = {})
  PROVE  PageInv'
<1>1. PageOK' /\ Good(refreshes)'
  BY DEF server, page, PageInv, PageOK, Good, OneLatest, Answered, Asked, There,
     Refreshing, Told, Sent
<1>2. Sessions'
  BY DEF server, page, PageInv, Sessions
<1> QED
  BY <1>1, <1>2 DEF PageInv

-----------------------------------------------------------------------------
(* The steps.                                                              *)

\* A session begins when nothing of the former one is under way.
LEMMA EstablishHolds == ASSUME PageInv, Bootstrap \/ SignIn PROVE PageInv'
<1>0. /\ session \in Nat /\ issued \in Nat /\ session <= issued
      /\ metadata.session \in Nat /\ metadata.session <= issued
  BY DEF PageInv, OthersOK, PageOK, Sessions
<1>1. CASE Bootstrap
  <2>1. /\ UNCHANGED <<session, issued, row, rendered, act, saves, instance, live,
                       metadata, shown, error, refreshes>>
        /\ ~started /\ started' = TRUE
        /\ IF session # 0 THEN Establish(session) ELSE UNCHANGED <<user, loads>>
    BY <1>1 DEF Bootstrap, server
  <2>2. /\ user = 0 /\ rendered = Nobody /\ instance = NoRow /\ refreshes = {}
        /\ loads = {} /\ act = NoAct /\ saves = {} /\ metadata = Due
    BY <2>1 DEF PageInv, Sessions
  <2>3. loads' = {} /\ user' \in Nat /\ user' = session
    BY <1>0, <2>1, <2>2 DEF Establish, Outdated
  <2>4. PageOK' /\ OthersOK'
    BY <2>1, <2>2, <2>3 DEF PageInv, PageOK, OthersOK
  <2>5. Sessions'
    BY <1>0, <2>1, <2>2, <2>3 DEF Sessions, Nobody, Due
  <2>6. Underway'
    BY <2>1, <2>2, <2>3 DEF PageInv, Underway
  <2>7. Good(refreshes)'
    BY <2>1, <2>2, <2>3 DEF Good, OneLatest, Answered, Due
  <2> QED
    BY <2>4, <2>5, <2>6, <2>7 DEF PageInv
<1>2. CASE SignIn
  <2>1. /\ UNCHANGED <<row, rendered, act, saves, instance, live, started,
                       metadata, shown, error, refreshes>>
        /\ started /\ rendered.user = 0 /\ refreshes = {} /\ loads = {}
        /\ act = NoAct /\ saves = {}
        /\ session' = issued + 1 /\ issued' = issued + 1 /\ Establish(issued + 1)
    BY <1>2 DEF SignIn
  <2>2. loads' = {} /\ user' = issued + 1
    BY <2>1 DEF Establish, Outdated
  <2>3. PageOK' /\ OthersOK'
    BY <1>0, <2>1, <2>2 DEF PageInv, PageOK, OthersOK
  <2>4. Sessions'
    BY <1>0, <2>1, <2>2 DEF Sessions
  <2>5. Underway'
    BY <2>1, <2>2 DEF PageInv, Underway
  <2>6. Good(refreshes)'
    BY <1>0, <2>1, <2>2 DEF Good, OneLatest, Answered
  <2> QED
    BY <2>3, <2>4, <2>5, <2>6 DEF PageInv
<1> QED
  BY <1>1, <1>2

\* A session ends at the server, or is ended.
LEMMA SessionHolds == ASSUME PageInv, SessionEnds \/ SignOut \/ Noticed PROVE PageInv'
<1>0. Good(refreshes)
  BY DEF PageInv
<1>1. CASE SessionEnds
  <2>1. /\ session' = 0 /\ session # 0
        /\ UNCHANGED <<issued, row, rendered, loads, act, saves, started, user, instance,
                       live, metadata, shown, error, refreshes>>
    BY <1>1 DEF SessionEnds, page
  <2>2. PageOK' /\ OthersOK'
    BY <2>1 DEF PageInv, PageOK, OthersOK
  <2>3. Sessions'
    BY <2>1, <2>2 DEF PageInv, OthersOK, Sessions
  <2>4. Underway'
    BY <2>1 DEF PageInv, Underway, Sent
  <2>5. Good(refreshes)'
    BY <2>1 DEF PageInv, Good, OneLatest, Answered, Asked, There, Refreshing, Told, Sent
  <2> QED
    BY <2>2, <2>3, <2>4, <2>5 DEF PageInv
<1>2. CASE SignOut
  BY <1>0, <1>2, ClearHolds, Refusals DEF SignOut, Good
<1>3. CASE Noticed
  <2>1. session = 0 /\ started
    BY <1>3, Refusals DEF Noticed, PageInv, Sessions
  <2> QED
    BY <1>0, <1>3, <2>1, ExpireHolds DEF Noticed
<1> QED
  BY <1>1, <1>2, <1>3

\* A render, and the loading of the connection that follows it.
LEMMA RenderHolds == ASSUME PageInv, Render PROVE PageInv'
<1>1. /\ UNCHANGED <<session, issued, row, started, user, instance, live, metadata,
                     shown, error, refreshes, act, saves>>
      /\ rendered' = [user |-> user, instance |-> instance]
      /\ rendered # [user |-> user, instance |-> instance]
      /\ loads' = loads \/ loads' = loads \cup {[valid |-> TRUE, req |-> Request]}
  BY DEF Render, server, page
<1>2. started
  BY <1>1 DEF PageInv, Sessions, Nobody
<1>3. /\ Request \in Requests /\ Request.session = session /\ Request.from = row
      /\ row.rev \in Nat
  BY RowFacts DEF Request, Requests, PageInv, OthersOK
<1>4. PageOK'
  BY <1>1 DEF PageInv, PageOK
<1>5. OthersOK'
  <2>1. [valid |-> TRUE, req |-> Request] \in [valid : BOOLEAN, req : Requests]
    BY <1>3
  <2>2. loads' \subseteq [valid : BOOLEAN, req : Requests]
    BY <1>1, <2>1 DEF PageInv, OthersOK
  <2> QED
    BY <1>1, <2>2 DEF PageInv, PageOK, OthersOK
<1>6. Sessions'
  BY <1>1, <1>2 DEF PageInv, Sessions
<1>7. Underway'
  <2> PICK q : q = Request
    OBVIOUS
  <2>1. \A m \in loads' : m \in loads \/ m.req = q
    BY <1>1
  <2> QED
    BY <1>1, <1>3, <2>1 DEF PageInv, Underway, Sent
<1>8. Good(refreshes)'
  BY <1>1 DEF PageInv, Good, OneLatest, Answered, Asked, There, Refreshing, Told, Sent
<1> QED
  BY <1>4, <1>5, <1>6, <1>7, <1>8 DEF PageInv

\* The connection arrives, and a refresh begins.
LEMMA LoadHolds == ASSUME PageInv, NEW l \in loads, LoadArrives(l) PROVE PageInv'
<1>0. /\ UNCHANGED <<session, issued, row, rendered, act, saves>>
      /\ started /\ Good(refreshes) /\ UNCHANGED server
  BY Refusals DEF LoadArrives, server, PageInv
<1>1. /\ l \in [valid : BOOLEAN, req : Requests] /\ Sent(l.req)
      /\ l.req.from.rev <= row.rev /\ l.req.from \in Rows /\ row \in Rows
  BY DEF PageInv, OthersOK, Underway, Requests
<1>2. CASE Refused(l.req) /\ Expire(refreshes, loads \ {l})
  BY <1>0, <1>1, <1>2, ExpireHolds, Refusals DEF LoadArrives
<1>3. CASE loads' = loads \ {l} /\ UNCHANGED <<page, armed>>
  BY <1>0, <1>3, PageStays DEF PageInv, OthersOK, Underway, Sent, page
<1>4. ASSUME NEW found \in Read(l.req), instance' = found, loads' = loads \ {l},
             IF found = NoRow THEN UNCHANGED <<live, metadata, loading, refreshes>>
             ELSE Refresh(found, FALSE, FALSE, live, metadata),
             UNCHANGED <<started, user, shown, error, armed>>
      PROVE  PageInv'
  <2>1. found \in Rows /\ found.rev <= row.rev
    BY <1>1, RowFacts DEF Read
  <2>2. OthersOK' /\ Underway'
    BY <1>0, <1>4, <2>1 DEF PageInv, OthersOK, Underway, Sent
  <2>3. CASE found = NoRow
    <3>1. UNCHANGED <<live, metadata, refreshes>> /\ found.rev = 0
      BY <1>4, <2>3 DEF NoRow
    <3>2. PageOK' /\ Sessions'
      BY <1>0, <1>4, <2>1, <3>1 DEF PageInv, PageOK, Sessions
    <3>3. \A r \in refreshes : r.from.rev \in Nat
      BY RowFacts DEF PageInv, Good, Refreshes
    <3>4. Good(refreshes)'
      BY <1>0, <1>4, <3>1, <3>3 DEF Good, OneLatest, Answered, Asked, There, Refreshing,
         Told, Sent
    <3> QED
      BY <2>2, <3>2, <3>4 DEF PageInv
  <2>4. CASE found # NoRow
    <3>1. live \in BOOLEAN
      BY DEF PageInv, PageOK
    <3>2. /\ Good(refreshes)' /\ live' = TRUE /\ metadata'.session <= issued
          /\ metadata' \in [url : Urls \cup {"due", "none"}, session : Nat]
      BY <1>0, <1>4, <2>1, <2>4, <3>1, RefreshHolds
    <3>3. PageOK' /\ Sessions'
      BY <1>0, <1>4, <2>1, <3>2 DEF PageInv, PageOK, Sessions
    <3> QED
      BY <2>2, <3>2, <3>3 DEF PageInv
  <2> QED
    BY <2>3, <2>4
<1> QED
  BY <1>2, <1>3, <1>4 DEF LoadArrives

\* The timer or the owner asks for a refresh.
LEMMA VisitHolds == ASSUME PageInv, NEW force \in BOOLEAN, Visit(force) PROVE PageInv'
<1>1. /\ UNCHANGED <<session, issued, row, rendered, loads, act, saves, started, user,
                     instance, shown, error>>
      /\ started /\ UNCHANGED server /\ rendered.instance # NoRow
      /\ Refresh(rendered.instance, force, ~force, live, metadata)
  BY Refusals DEF Visit, server
<1>2. /\ rendered.instance \in Rows /\ instance \in Rows /\ instance.rev <= row.rev
      /\ live \in BOOLEAN
  BY DEF PageInv, PageOK, OthersOK, Underway
<1>3. /\ Good(refreshes)' /\ live' = TRUE /\ metadata'.session <= issued
      /\ metadata' \in [url : Urls \cup {"due", "none"}, session : Nat]
  BY <1>1, <1>2, RefreshHolds
<1>4. PageOK' /\ OthersOK'
  BY <1>1, <1>3 DEF PageInv, PageOK, OthersOK
<1>5. Sessions'
  BY <1>1, <1>3 DEF PageInv, Sessions
<1>6. Underway'
  BY <1>1 DEF PageInv, Underway, Sent
<1> QED
  BY <1>3, <1>4, <1>5, <1>6 DEF PageInv

\* What was asked for is old.
LEMMA AgeHolds == ASSUME PageInv, Age PROVE PageInv'
<1>1. /\ UNCHANGED <<session, issued, row, rendered, loads, act, saves, started, user,
                     instance, live, shown, error, refreshes>>
      /\ metadata' = Due
  BY DEF Age, server
<1>2. PageOK' /\ OthersOK' /\ Underway'
  BY <1>1 DEF PageInv, PageOK, OthersOK, Underway, Sent, Due
<1>3. Sessions'
  BY <1>1 DEF PageInv, OthersOK, Sessions, Due
<1>4. Good(refreshes)'
  BY <1>1 DEF PageInv, Good, OneLatest, Answered, Refreshing, Told, Sent, Due
<1> QED
  BY <1>2, <1>3, <1>4 DEF PageInv

\* One request of a refresh is answered, fails, or is refused.
LEMMA AnswerHolds == ASSUME PageInv, NEW r \in refreshes, NEW p \in Parts, Answer(r, p)
                     PROVE  PageInv'
<1>0. /\ UNCHANGED <<session, issued, row, rendered, act, saves>> /\ UNCHANGED server
      /\ started /\ p \in Pending(r) /\ Refreshing(r) /\ r \in Refreshes
  BY Refusals DEF Answer, server, PageInv, Good
<1>1. /\ r.from \in Rows /\ row \in Rows /\ r.from.rev \in Nat /\ row.rev \in Nat
      /\ r.from.rev <= row.rev
  BY <1>0, RowFacts DEF Refreshes, PageInv, OthersOK, Refreshing
<1>2. ASSUME NEW value \in {Is("failed")} \cup
               {[state |-> "read", rev |-> found.rev] : found \in Read(r)},
             refreshes' = Settled(r, p, value),
             UNCHANGED <<armed, loads, started, user, instance, live, metadata,
                         loading, shown, error>>
      PROVE  PageInv'
  <2>1. /\ value \in Results /\ value.state \in {"failed", "read"}
        /\ value.state = "read" => r.session # 0 /\ value.rev >= r.from.rev
    <3>1. CASE value = Is("failed")
      BY <3>1 DEF Is, Results
    <3>2. ASSUME NEW found \in Read(r), value = [state |-> "read", rev |-> found.rev]
          PROVE  /\ value \in Results /\ value.state = "read"
                 /\ r.session # 0 /\ value.rev >= r.from.rev
      <4>1. r.session # 0 /\ found.rev \in Nat /\ found.rev >= r.from.rev
        BY <1>1, <3>2 DEF Read
      <4> QED
        BY <3>2, <4>1 DEF Results
    <3> QED
      BY <1>2, <3>1, <3>2
  <2>2. Good(refreshes')
    BY <1>0, <1>2, <2>1, SettledGood
  <2>3. Good(refreshes)'
    BY <1>0, <1>2, <2>2 DEF Good, OneLatest, Answered, Asked, There, Refreshing, Told, Sent
  <2>4. PageOK' /\ OthersOK' /\ Sessions' /\ Underway'
    BY <1>0, <1>2 DEF PageInv, PageOK, OthersOK, Sessions, Underway, Sent
  <2> QED
    BY <2>3, <2>4 DEF PageInv
<1>3. CASE Refused(r) /\ Expire(Settled(r, p, Is("refused")), loads)
  <2>1. session = 0
    BY <1>0, <1>3, Refusals DEF Refreshing
  <2>2. Is("refused") \in Results /\ Is("refused").state = "refused"
    BY DEF Is, Results
  <2>3. Good(Settled(r, p, Is("refused")))
    BY <1>0, <2>1, <2>2, SettledGood
  <2> QED
    BY <1>0, <1>3, <2>1, <2>3, ExpireHolds
<1> QED
  BY <1>2, <1>3 DEF Answer

\* The last refresh is shown, or ends the session of the page.
LEMMA ContinueHolds == ASSUME PageInv, NEW r \in refreshes, Continue(r) PROVE PageInv'
<1>1. /\ UNCHANGED <<session, issued, row, rendered, loads, act, saves, started,
                     instance, metadata>>
      /\ Pending(r) = {} /\ refreshes' = refreshes \ {r}
      /\ live' = (live /\ ~r.latest)
  BY DEF Continue, server
<1>2. /\ started /\ refreshes \subseteq Refreshes /\ OneLatest(refreshes)
      /\ Answered(refreshes) /\ r \in Refreshes /\ Refreshing(r)
      /\ \A q \in refreshes : Refreshing(q)
  BY Refusals DEF PageInv, Good
<1>3. live' \in BOOLEAN
  BY <1>1 DEF PageInv, PageOK
<1>4. CASE ~r.latest
  <2>1. UNCHANGED <<user, shown, error>> /\ live' = live
    BY <1>1, <1>4 DEF Continue, PageInv, PageOK
  <2>2. PageOK' /\ OthersOK' /\ Sessions' /\ Underway'
    BY <1>1, <2>1 DEF PageInv, PageOK, OthersOK, Sessions, Underway, Sent
  <2>3. Good(refreshes)'
    BY <1>1, <1>2, <1>4, <2>1 DEF Good, OneLatest, Answered, Asked, There, Refreshing,
       Told, Sent
  <2> QED
    BY <2>2, <2>3 DEF PageInv
<1>5. CASE r.latest /\ \E p \in Parts : r.got[p] = Is("refused")
  <2>1. session = 0
    BY <1>2, <1>5 DEF Refreshing, Told, Is
  <2>2. user' = 0 /\ UNCHANGED <<shown, error>>
    BY <1>5 DEF Continue
  <2>3. PageOK' /\ OthersOK' /\ Sessions' /\ Underway'
    BY <1>1, <1>2, <1>3, <2>1, <2>2
    DEF PageInv, PageOK, OthersOK, Sessions, Underway, Sent
  <2>4. \A q \in refreshes' : q \in Refreshes /\ ~q.latest /\ Refreshing(q)
    BY <1>1, <1>2, <1>5 DEF OneLatest
  <2>5. Good(refreshes)'
    BY <1>1, <2>2, <2>4 DEF Good, OneLatest, Answered, Refreshing, Told, Sent
  <2> QED
    BY <2>3, <2>5 DEF PageInv
<1>6. CASE r.latest /\ ~\E p \in Parts : r.got[p] = Is("refused")
  <2>1. /\ user' = user
        /\ shown' = [p \in Parts |->
                IF r.got[p].state # "read" THEN shown[p]
                ELSE [rev |-> r.got[p].rev, session |-> r.session, by |-> "refresh"]]
        /\ error' = [p \in Parts |-> CASE r.got[p].state = "read" -> FALSE
                                       [] r.got[p].state = "failed" -> TRUE
                                       [] OTHER -> error[p]]
    BY <1>6 DEF Continue
  <2>2. \A p \in Parts : r.got[p].state \in {"read", "failed", "skipped"}
    BY <1>1, <1>2, <1>6 DEF Refreshes, Results, Pending, Is
  <2>3. \A v, s : [rev |-> v, session |-> s, by |-> "refresh"] # NoData
    <3>1. \A v, s : "by" \in DOMAIN [rev |-> v, session |-> s, by |-> "refresh"]
      OBVIOUS
    <3>2. "by" \notin DOMAIN NoData
      BY DEF NoData
    <3> QED
      BY <3>1, <3>2
  <2>4. There \/ (\A p \in Metadata : r.got[p].state # "skipped") => There'
    BY <2>1, <2>2, <2>3 DEF There, Parts
  <2>5. \A q \in refreshes' : q \in Refreshes /\ ~q.latest /\ Refreshing(q)
    BY <1>1, <1>2, <1>6 DEF OneLatest
  <2>6. Asked(refreshes) => \A p \in Metadata : r.got[p].state # "skipped"
    BY <1>2, <1>6 DEF Asked, OneLatest
  <2>7. Good(refreshes)'
    BY <1>1, <1>2, <2>1, <2>4, <2>5, <2>6 DEF Good, OneLatest, Answered, Refreshing, Told, Sent
  <2>8. error' \in [Parts -> BOOLEAN]
    BY <2>1 DEF PageInv, PageOK
  <2>9. PageOK' /\ OthersOK' /\ Sessions' /\ Underway'
    BY <1>1, <1>3, <2>1, <2>8 DEF PageInv, PageOK, OthersOK, Sessions, Underway, Sent
  <2> QED
    BY <2>7, <2>9 DEF PageInv
<1> QED
  BY <1>4, <1>5, <1>6

\* What the page sends besides is sent in the server's session.
LEMMA SendHolds ==
  ASSUME PageInv, SaveBegin \/ ForgetBegin \/ \E part \in Parts : Act(part)
  PROVE  PageInv'
<1>0. /\ UNCHANGED <<session, issued, row, rendered, loads, instance>>
      /\ UNCHANGED <<server, page, rendered>> /\ started
  BY Refusals DEF SaveBegin, ForgetBegin, Act, server, page
<1>1. PICK q : q = Request
  OBVIOUS
<1>2. /\ q \in Requests /\ q.session = session /\ row.rev \in Nat
      /\ rendered.instance \in Rows /\ rendered.instance.rev <= row.rev
  BY <1>1, RowFacts DEF Request, Requests, PageInv, OthersOK, Underway
<1>3. CASE SaveBegin
  <2>1. PICK url \in Urls :
          saves' = saves \cup {[kind |-> "save", req |-> q, done |-> NoRow, url |-> url]}
    BY <1>1, <1>3 DEF SaveBegin
  <2>2. PICK n : n = [kind |-> "save", req |-> q, done |-> NoRow, url |-> url]
    OBVIOUS
  <2>3. n \in Savings /\ n.req = q /\ n.done.rev = 0
    BY <1>2, <2>2 DEF Savings, Rows, NoRow
  <2>4. saves' = saves \cup {n} /\ act' = act
    BY <1>3, <2>1, <2>2 DEF SaveBegin
  <2>5. OthersOK' /\ Underway'
    BY <1>0, <1>2, <2>3, <2>4 DEF PageInv, OthersOK, Underway, Sent
  <2> QED
    BY <1>0, <2>5, PageStays
<1>4. CASE ForgetBegin
  <2>1. PICK n : n = [kind |-> "forget", req |-> q, done |-> rendered.instance]
    OBVIOUS
  <2>2. n \in Savings /\ n.req = q /\ n.done = rendered.instance
    BY <1>2, <2>1 DEF Savings
  <2>3. saves' = saves \cup {n} /\ act' = act
    BY <1>1, <1>4, <2>1 DEF ForgetBegin
  <2>4. OthersOK' /\ Underway'
    BY <1>0, <1>2, <2>2, <2>3 DEF PageInv, OthersOK, Underway, Sent
  <2> QED
    BY <1>0, <2>4, PageStays
<1>5. ASSUME NEW part \in Parts, Act(part) PROVE PageInv'
  <2>1. act' = [pc |-> part, req |-> q] /\ saves' = saves
    BY <1>1, <1>5 DEF Act
  <2>2. act' \in [pc : Parts, req : Requests] /\ act'.req = q
    BY <1>2, <2>1
  <2>3. OthersOK' /\ Underway'
    BY <1>0, <1>2, <2>1, <2>2 DEF PageInv, OthersOK, Underway, Sent
  <2> QED
    BY <1>0, <2>3, PageStays
<1> QED
  BY <1>3, <1>4, <1>5

\* A control request is answered, or the ports are.
LEMMA ActHolds == ASSUME PageInv, ActArrives PROVE PageInv'
<1>0. /\ UNCHANGED <<session, issued, row, rendered, saves>> /\ UNCHANGED server
      /\ act # NoAct /\ act' = NoAct /\ started /\ Sent(act.req) /\ Good(refreshes)
      /\ act.pc \in Parts
  BY Refusals DEF ActArrives, server, PageInv, OthersOK, Underway
<1>1. CASE Refused(act.req) /\ Expire(refreshes, loads)
  BY <1>0, <1>1, ExpireHolds, Refusals
<1>2. CASE UNCHANGED <<page, armed, loads>>
  BY <1>0, <1>2, PageStays DEF PageInv, OthersOK, Underway, Sent, page
<1>3. ASSUME NEW found \in Read(act.req),
             shown' = [shown EXCEPT ![act.pc] =
               [rev |-> found.rev, session |-> act.req.session, by |-> "act"]],
             UNCHANGED <<armed, loads, started, user, instance, live, metadata,
                         loading, error, refreshes>>
      PROVE  PageInv'
  <2>1. [rev |-> found.rev, session |-> act.req.session, by |-> "act"] # NoData
    <3>1. "by" \in DOMAIN [rev |-> found.rev, session |-> act.req.session, by |-> "act"]
      OBVIOUS
    <3>2. "by" \notin DOMAIN NoData
      BY DEF NoData
    <3> QED
      BY <3>1, <3>2
  <2>2. PageOK'
    BY <1>3 DEF PageInv, PageOK
  <2>3. There => There'
    BY <1>0, <1>3, <2>1 DEF There, PageInv, PageOK, Parts
  <2>4. Good(refreshes)'
    BY <1>0, <1>3, <2>3 DEF Good, OneLatest, Answered, Asked, Refreshing, Told, Sent
  <2>5. OthersOK' /\ Sessions' /\ Underway'
    BY <1>0, <1>3 DEF PageInv, OthersOK, Sessions, Underway, Sent
  <2> QED
    BY <2>2, <2>4, <2>5 DEF PageInv
<1> QED
  BY <1>1, <1>2, <1>3 DEF ActArrives

\* The server saves a connection under a new revision.
LEMMA CommitHolds == ASSUME PageInv, NEW s \in saves, SaveCommits(s) PROVE PageInv'
<1>1. /\ UNCHANGED <<session, issued, rendered, loads, act, started, user, instance,
                     live, metadata, shown, error, refreshes>>
      /\ s.kind = "save" /\ row' = [rev |-> row.rev + 1, url |-> s.url]
      /\ saves' = (saves \ {s}) \cup {[s EXCEPT !.done = row']}
  BY DEF SaveCommits, page
<1>2. /\ s \in [kind : {"save"}, req : Requests, done : Rows, url : Urls]
      /\ Sent(s.req)
  BY <1>1 DEF PageInv, OthersOK, Savings, Underway
<1>3. row.rev \in Nat /\ row' \in Rows /\ row'.rev = row.rev + 1
  BY <1>1, <1>2, RowFacts DEF PageInv, OthersOK, Rows
<1>4. PICK n : n = [s EXCEPT !.done = row']
  OBVIOUS
<1>5. n \in Savings /\ n.req = s.req /\ n.done = row'
  BY <1>2, <1>3, <1>4 DEF Savings
<1>6. PageOK' /\ OthersOK'
  BY <1>1, <1>3, <1>4, <1>5 DEF PageInv, PageOK, OthersOK
<1>7. Sessions'
  BY <1>1 DEF PageInv, Sessions
<1>8. /\ \A l \in loads : l.req.from.rev \in Nat
      /\ \A w \in saves : w.done.rev \in Nat
      /\ instance.rev \in Nat /\ rendered.instance.rev \in Nat
      /\ \A r \in refreshes : r.from.rev \in Nat
  BY RowFacts DEF PageInv, PageOK, OthersOK, Requests, Savings, Good, Refreshes
<1>9. \A v \in Nat : v <= row.rev => v <= row'.rev
  BY <1>3
<1>10. Underway'
  BY <1>1, <1>2, <1>3, <1>4, <1>5, <1>8, <1>9 DEF PageInv, Underway, Sent
<1>11. Good(refreshes)'
  BY <1>1, <1>8, <1>9 DEF PageInv, Good, OneLatest, Answered, Asked, There, Refreshing,
     Told, Sent
<1> QED
  BY <1>6, <1>7, <1>10, <1>11 DEF PageInv

\* A connection that was saved is the one of the page, and nothing that was
\* shown of another stays.
LEMMA SaveHolds == ASSUME PageInv, NEW s \in saves, SaveArrives(s) PROVE PageInv'
<1>0. /\ UNCHANGED <<session, issued, row, rendered, act>> /\ UNCHANGED server
      /\ saves' = saves \ {s} /\ started /\ Sent(s.req) /\ Good(refreshes)
      /\ s.done \in Rows /\ s.done.rev <= row.rev
  BY Refusals DEF SaveArrives, server, PageInv, OthersOK, Underway, Savings
<1>1. CASE Refused(s.req) /\ Expire(refreshes, loads)
  BY <1>0, <1>1, ExpireHolds, Refusals
<1>2. CASE UNCHANGED <<page, armed, loads>>
  BY <1>0, <1>2, PageStays DEF PageInv, OthersOK, Underway, Sent, page
<1>3. ASSUME s.done # NoRow, loads' = Outdated, instance' = s.done, Empty,
             Refresh(s.done, FALSE, FALSE, FALSE, Due), UNCHANGED <<started, user>>
      PROVE  PageInv'
  <2>1. /\ Good(refreshes)' /\ live' = TRUE /\ metadata'.session <= issued
        /\ metadata' \in [url : Urls \cup {"due", "none"}, session : Nat]
    BY <1>0, <1>3, RefreshHolds
  <2>2. \A m \in loads' : \E l \in loads : m.req = l.req /\ m \in [valid : BOOLEAN, req : Requests]
    BY <1>3 DEF Outdated, PageInv, OthersOK
  <2>3. PageOK'
    BY <1>0, <1>3, <2>1 DEF Empty, PageInv, PageOK
  <2>4. OthersOK'
    <3>1. loads' \subseteq [valid : BOOLEAN, req : Requests]
      BY <2>2
    <3> QED
      BY <1>0, <3>1 DEF PageInv, OthersOK
  <2>5. Sessions'
    BY <1>0, <1>3, <2>1 DEF PageInv, Sessions
  <2>6. Underway'
    BY <1>0, <1>3, <2>2 DEF PageInv, Underway, Sent
  <2> QED
    BY <2>1, <2>3, <2>4, <2>5, <2>6 DEF PageInv
<1> QED
  BY <1>1, <1>2, <1>3 DEF SaveArrives

\* Every step of the browser and of the server keeps it.
LEMMA PageStep == PageInv /\ [Next]_vars => PageInv'
<1> SUFFICES ASSUME PageInv, [Next]_vars PROVE PageInv'
  OBVIOUS
<1>1. CASE UNCHANGED vars
  <2>1. /\ UNCHANGED <<server, page, rendered, session, issued, row, loads, act, saves,
                       instance, started>>
    BY <1>1 DEF vars, server, page
  <2>2. OthersOK' /\ Underway'
    BY <2>1 DEF PageInv, OthersOK, Underway, Sent
  <2> QED
    BY <2>1, <2>2, PageStays DEF PageInv, Sessions
<1>2. CASE Tick \/ Ask
  BY <1>2, VisitHolds DEF Tick, Ask
<1>3. CASE Arrivals
  BY <1>3, LoadHolds, ContinueHolds, AnswerHolds, ActHolds, SaveHolds DEF Arrivals
<1> QED
  BY <1>1, <1>2, <1>3, EstablishHolds, SessionHolds, RenderHolds, AgeHolds, SendHolds,
     CommitHolds DEF Next

\* Metadata that the page asked for in its session are there, or said to be
\* missing, once nothing is under way: the refresh that supersedes one takes
\* over its request (App.tsx, includeMetadata).
THEOREM MetadataArrive == Spec => []MetadataAsked
<1>1. PageInv => MetadataAsked
  <2> SUFFICES ASSUME PageInv, ~live, user # 0, metadata.session = user
               PROVE  There
    BY DEF MetadataAsked, There
  <2>1. Good(refreshes)
    BY DEF PageInv
  <2> QED
    BY <2>1 DEF Good, Answered, Asked, Refreshing
<1> QED
  BY <1>1, PageStart, PageStep, PTL DEF Spec

\* What a refresh shows is of the session the page is in, and not older than
\* the connection the page names (App.tsx, refreshOverview()).
THEOREM RefreshedInSession == Spec => RefreshedCurrent
<1> DEFINE Body == \A p \in Parts :
      LET new == shown'[p]
      IN (new # shown[p] /\ new # NoData) => (new.by = "refresh"
           => new.session = user' /\ new.rev >= instance'.rev)
<1>1. PageInv /\ [Next]_vars => [Body]_vars
  <2> SUFFICES ASSUME PageInv, Next, NEW p \in Parts, NEW new, new = shown'[p],
                      new # shown[p], new # NoData, new.by = "refresh"
               PROVE  new.session = user' /\ new.rev >= instance'.rev
    OBVIOUS
  <2>1. CASE Empty
    BY <2>1 DEF Empty
  <2>2. CASE shown' = shown
    BY <2>2
  <2>3. CASE ActArrives
    <3>1. CASE \E rs, ls : Expire(rs, ls)
      BY <2>1, <2>2, <3>1 DEF Expire, Clear
    <3>2. CASE UNCHANGED page
      BY <2>2, <3>2 DEF page
    <3>3. ASSUME NEW found, act # NoAct,
                 shown' = [shown EXCEPT ![act.pc] =
                   [rev |-> found.rev, session |-> act.req.session, by |-> "act"]]
          PROVE  FALSE
      <4>1. act.pc \in Parts /\ DOMAIN shown = Parts /\ shown = [q \in Parts |-> shown[q]]
        BY <3>3 DEF PageInv, OthersOK, PageOK
      <4>2. CASE p = act.pc
        <5>1. new.by = "act"
          BY <3>3, <4>1, <4>2
        <5> QED
          BY <5>1
      <4>3. CASE p # act.pc
        BY <3>3, <4>1, <4>3
      <4> QED
        BY <4>2, <4>3
    <3> QED
      BY <2>3, <3>1, <3>2, <3>3 DEF ActArrives
  <2>4. ASSUME NEW r \in refreshes, Continue(r), shown' # shown
        PROVE  new.session = user' /\ new.rev >= instance'.rev
    <3>1. /\ r.latest /\ Pending(r) = {} /\ UNCHANGED <<user, instance>>
          /\ shown' = [q \in Parts |->
                IF r.got[q].state # "read" THEN shown[q]
                ELSE [rev |-> r.got[q].rev, session |-> r.session, by |-> "refresh"]]
      BY <2>4 DEF Continue
    <3>2. /\ r.got[p].state = "read" /\ new.rev = r.got[p].rev
          /\ new.session = r.session
      BY <3>1
    <3>3. Refreshing(r) /\ r \in Refreshes
      BY DEF PageInv, Good
    <3>4. /\ r.session # 0 /\ r.got[p].rev >= r.from.rev
          /\ r.session \in {0, user} /\ instance.rev <= r.from.rev
      BY <3>1, <3>2, <3>3 DEF Refreshing, Told
    <3>5. r.got[p].rev \in Nat /\ r.from.rev \in Nat /\ instance.rev \in Nat
      BY <3>3, RowFacts DEF Refreshes, Results, PageInv, PageOK
    <3> QED
      BY <3>1, <3>2, <3>4, <3>5
  <2>5. CASE Bootstrap \/ SignIn \/ SessionEnds \/ Render \/ Tick \/ Ask \/ Age
             \/ (\E part \in Parts : Act(part)) \/ SaveBegin \/ ForgetBegin
             \/ (\E s \in saves : SaveCommits(s))
    BY <2>2, <2>5 DEF Bootstrap, SignIn, SessionEnds, Render, Tick, Ask, Visit, Age, Act,
       SaveBegin, ForgetBegin, SaveCommits, page
  <2>6. CASE SignOut \/ Noticed
    BY <2>1, <2>2, <2>6 DEF SignOut, Noticed, Expire, Clear
  <2>7. ASSUME NEW l \in loads, LoadArrives(l)
        PROVE  shown' = shown \/ Empty
    BY <2>7 DEF LoadArrives, Expire, Clear, page
  <2>8. ASSUME NEW r \in refreshes, NEW q \in Parts, Answer(r, q)
        PROVE  shown' = shown \/ Empty
    BY <2>8 DEF Answer, Expire, Clear
  <2>9. ASSUME NEW s \in saves, SaveArrives(s)
        PROVE  shown' = shown \/ Empty
    BY <2>9 DEF SaveArrives, Expire, Clear, page
  <2> QED
    BY <2>1, <2>2, <2>3, <2>4, <2>5, <2>6, <2>7, <2>8, <2>9 DEF Next, Arrivals
<1> HIDE DEF Body
<1>2. Spec => [][Body]_vars
  BY <1>1, PageStart, PageStep, PTL DEF Spec
<1> QED
  BY <1>2 DEF Body, RefreshedCurrent
=============================================================================
