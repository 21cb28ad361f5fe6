----------------------------- MODULE Dashboard ------------------------------
(***************************************************************************)
(* The dashboard of the browser: what it shows of the connection, and the  *)
(* requests that it has under way (src/client/App.tsx, lib/api.ts,         *)
(* lib/useSessionActivity.ts and the saving of a connection in             *)
(* components/SettingsSheet.tsx).                                          *)
(*                                                                         *)
(* The data that a request brings is represented by the revision of the    *)
(* connection that the server read it for, and by the session it was read  *)
(* in.  Sessions and revisions are numbered; 0 is none of them.            *)
(*                                                                         *)
(* Code that runs between two tasks of the browser is not interrupted: the *)
(* continuation of a refresh whose four requests have settled comes before *)
(* anything else.  Rendering, and the effects that depend on it, comes     *)
(* later and may find other tasks before it.                               *)
(*                                                                         *)
(* The page numbers its refreshes (overviewSequence) and the periods of    *)
(* its data (dataGeneration) only to see whether the number has changed    *)
(* since: what is under way holds `latest' or `valid' instead, which every *)
(* increment takes away.                                                   *)
(***************************************************************************)
EXTENDS Naturals, FiniteSets

CONSTANTS
  Live,         \* what every refresh asks for: the overview, the traffic
  Metadata,     \* what it asks for less often: the ports, the containers
  Urls,         \* base URLs a connection may have
  MaxChanges,   \* bound of the refreshes and changes the owner asks for
  MaxSession    \* bound of the sign-ins

Parts == Live \cup Metadata

\* What stands for no address is none.
ASSUME DashboardAssumption == {"due", "none"} \cap Urls = {}

VARIABLES
  session,     \* the server's session of this browser, and the last one issued
  issued,
  row,         \* the server's connection [rev, url]
  started,     \* the page has its bootstrap answer
  user,        \* the session the page is in
  rendered,    \* the user and the instance of the last render
  armed,       \* api.ts has a handler for the end of the session
  instance,    \* the connection the page knows
  live,        \* overviewAbort holds a controller that has not been aborted
  metadata,    \* the base URL metadata were asked for in the last 30 s, and
               \* the session of that request, or Due
  loading, shown, error,
  refreshes,   \* refreshes whose continuation has not run
  loads,       \* requests for the connection
  act,         \* a control request, or the re-reading of the ports
  saves,       \* requests of the settings that change the connection
  changes      \* how many refreshes and changes the owner has asked for

server == <<session, issued, row>>
page   == <<started, user, instance, live, metadata,
            loading, shown, error, refreshes>>
vars   == <<server, page, rendered, armed, loads, act, saves, changes>>

Due    == [url |-> "due", session |-> 0]
NoRow  == [rev |-> 0, url |-> "none"]
NoData == [rev |-> 0]
NoAct  == [pc |-> "none"]
Nobody == [user |-> 0, instance |-> NoRow]

Init == /\ issued = 1 /\ session \in {0, 1}
        /\ row \in {NoRow} \cup [rev : {1}, url : Urls]
        /\ started = FALSE /\ user = 0 /\ rendered = Nobody /\ armed = FALSE
        /\ instance = NoRow /\ live = FALSE
        /\ metadata = Due /\ loading = TRUE
        /\ shown = [p \in Parts |-> NoData] /\ error = [p \in Parts |-> FALSE]
        /\ refreshes = {} /\ loads = {} /\ act = NoAct /\ saves = {}
        /\ changes = 0
-----------------------------------------------------------------------------
\* How a request of a refresh stands.
Is(state)  == [state |-> state, rev |-> 0]
Pending(r) == {p \in Parts : r.got[p] = Is("pending")}

\* Continuations come first.
Quiet == \A r \in refreshes : Pending(r) # {}

\* Mutant of Superseded: it is not told apart from the latest refresh.
SupersededStill(rs) == {[r EXCEPT !.got = [p \in Parts |->
  IF p \in Pending(r) THEN Is("failed") ELSE r.got[p]]] : r \in rs}

\* overviewSequence.current++; overviewAbort.current?.abort(): what is
\* outstanding is rejected.
Superseded(rs) == {[r EXCEPT !.latest = FALSE, !.got = [p \in Parts |->
  IF p \in Pending(r) THEN Is("failed") ELSE r.got[p]]] : r \in rs}

\* dataGeneration.current++
Outdated == {[l EXCEPT !.valid = FALSE] : l \in loads}

\* Mutant of Includes: a refresh that supersedes one does not take over its
\* request for metadata.
IncludesOwn(target, force, superseded, key) == force \/ key.url # target.url
Includes(target, force, superseded, key) ==
  force \/ superseded \/ key.url # target.url

\* refreshOverview(target), called with these values of the page's references.
Refresh(target, force, timer, superseded, key) ==
  LET include == Includes(target, force, superseded, key)
  IN /\ live' = TRUE /\ loading' = TRUE
     /\ metadata' = IF include THEN [url |-> target.url, session |-> session]
                    ELSE key
     /\ refreshes' = Superseded(refreshes) \cup
          {[latest |-> TRUE, session |-> session, from |-> row, timer |-> timer,
            got |-> [p \in Parts |-> IF p \in Live \/ include THEN Is("pending")
                                     ELSE Is("skipped")]]}

Empty == /\ shown' = [p \in Parts |-> NoData]
         /\ error' = [p \in Parts |-> FALSE]

\* The server refuses request r for want of its session.
Refused(r) == r.session = 0 \/ r.session # session

\* clearSession(), with these refreshes and loads under way.
Clear(rs, ls) == /\ refreshes' = Superseded(rs)
                 /\ loads' = {[l EXCEPT !.valid = FALSE] : l \in ls}
                 /\ live' = FALSE /\ metadata' = Due /\ loading' = FALSE
                 /\ user' = 0 /\ instance' = NoRow /\ Empty /\ UNCHANGED started

\* A request has been refused: the handler for the end of the session runs once.
Expire(rs, ls) ==
  /\ armed' = FALSE
  /\ IF armed THEN Clear(rs, ls)
     ELSE /\ refreshes' = rs /\ loads' = ls
          /\ UNCHANGED <<started, user, instance, live, metadata, loading, shown,
                         error>>

\* What the server may have read to answer r: it had a session when it was sent.
Read(r) == IF r.session = 0 THEN {} ELSE {r.from, row}

\* A request outside the refreshes.
Request == [session |-> session, from |-> row]

Asks == changes < MaxChanges /\ changes' = changes + 1
-----------------------------------------------------------------------------
\* establishSession()
Establish(s) == user' = s /\ loads' = Outdated

Bootstrap ==
  /\ ~started /\ started' = TRUE /\ loading' = FALSE
  /\ IF session # 0 THEN Establish(session) ELSE UNCHANGED <<user, loads>>
  /\ UNCHANGED <<server, rendered, armed, act, saves, changes, instance, live,
                 metadata, shown, error, refreshes>>

\* The owner signs in again when the requests of the former session have ended.
SignIn ==
  /\ started /\ rendered.user = 0 /\ user = 0 /\ issued < MaxSession
  /\ refreshes = {} /\ loads = {} /\ act = NoAct /\ saves = {}
  /\ session' = issued + 1 /\ issued' = issued + 1 /\ Establish(issued + 1)
  /\ UNCHANGED <<row, rendered, armed, act, saves, changes, started, instance, live,
                 metadata, loading, shown, error, refreshes>>

\* The session ends at the server: it expires, or another browser revokes it.
SessionEnds ==
  /\ session # 0 /\ session' = 0
  /\ UNCHANGED <<issued, row, page, rendered, armed, loads, act, saves, changes>>

\* signOut(), answered.
SignOut == /\ Quiet /\ rendered.user # 0 /\ session' = 0 /\ Clear(refreshes, loads)
           /\ UNCHANGED <<issued, row, rendered, armed, act, saves, changes>>

\* Any other request finds that the session has ended: the reports of the
\* owner's activity, the diagnostics of the settings.
Noticed == /\ Quiet /\ rendered.user # 0 /\ session # rendered.user
           /\ Expire(refreshes, loads)
           /\ UNCHANGED <<server, rendered, act, saves, changes>>

\* A render, and its effects: those of the user arm the handler and load the
\* connection.
Render ==
  /\ Quiet /\ rendered # [user |-> user, instance |-> instance]
  /\ rendered' = [user |-> user, instance |-> instance]
  /\ IF user = rendered.user THEN UNCHANGED <<armed, loads>>
     ELSE /\ armed' = (user # 0)
          /\ loads' = IF user = 0 THEN loads
                      ELSE loads \cup {[valid |-> TRUE, req |-> Request]}
  /\ UNCHANGED <<server, page, act, saves, changes>>
-----------------------------------------------------------------------------
\* loadInstance(), and the refresh that follows it.
LoadArrives(l) ==
  /\ Quiet /\ UNCHANGED <<server, rendered, act, saves, changes>>
  /\ \/ Refused(l.req) /\ Expire(refreshes, loads \ {l})
     \/ /\ loads' = loads \ {l} /\ UNCHANGED <<page, armed>>   \* failed, or of the past
     \/ /\ l.valid /\ loads' = loads \ {l}
        /\ \E found \in Read(l.req) :
             /\ instance' = found
             /\ IF found = NoRow
                THEN UNCHANGED <<live, metadata, loading, refreshes>>
                ELSE Refresh(found, FALSE, FALSE, live, metadata)
        /\ UNCHANGED <<started, user, shown, error, armed>>

\* The timer of the rendered connection, which waits for its own refresh, and
\* the owner's request to refresh.
Visit(force) == /\ Quiet /\ rendered.user # 0 /\ rendered.instance # NoRow
                /\ Refresh(rendered.instance, force, ~force, live, metadata)
                /\ UNCHANGED <<server, rendered, armed, loads, act, saves, started,
                               user, instance, shown, error>>
Tick == (\A r \in refreshes : ~r.timer) /\ Visit(FALSE) /\ UNCHANGED changes
Ask  == Visit(TRUE) /\ Asks

\* Thirty seconds have passed since metadata were asked for.
Age == /\ metadata # Due /\ metadata' = Due
       /\ UNCHANGED <<server, rendered, armed, loads, act, saves, changes, started,
                      user, instance, live, loading, shown, error, refreshes>>

\* One request of a refresh settles.  Each ends within 45 seconds.
Settled(r, p, value) == (refreshes \ {r}) \cup {[r EXCEPT !.got[p] = value]}

Answer(r, p) ==
  /\ Quiet /\ p \in Pending(r)
  /\ UNCHANGED <<server, rendered, act, saves, changes>>
  /\ \/ /\ \E value \in {Is("failed")} \cup
                  {[state |-> "read", rev |-> found.rev] : found \in Read(r)} :
             refreshes' = Settled(r, p, value)
        /\ UNCHANGED <<armed, loads, started, user, instance, live, metadata,
                       loading, shown, error>>
     \/ Refused(r) /\ Expire(Settled(r, p, Is("refused")), loads)

\* Mutant of Loading: only a refresh without a failure ends it.
LoadingFailed(r) == r.latest => \E p \in Parts : r.got[p] = Is("failed")
\* The continuation of r leaves `loading' as it is.
Loading(r) == ~r.latest

\* The continuation of refreshOverview().
Continue(r) ==
  /\ Pending(r) = {} /\ refreshes' = refreshes \ {r}
  /\ UNCHANGED <<server, rendered, armed, loads, act, saves, changes, started,
                 instance, metadata>>
  /\ loading' = (loading /\ Loading(r)) /\ live' = (live /\ ~r.latest)
  /\ IF ~r.latest THEN UNCHANGED <<user, shown, error>>
     ELSE IF \E p \in Parts : r.got[p] = Is("refused")
     THEN user' = 0 /\ UNCHANGED <<shown, error>>
     ELSE /\ shown' = [p \in Parts |->
                IF r.got[p].state # "read" THEN shown[p]
                ELSE [rev |-> r.got[p].rev, session |-> r.session, by |-> "refresh"]]
          /\ error' = [p \in Parts |-> CASE r.got[p].state = "read" -> FALSE
                                         [] r.got[p].state = "failed" -> TRUE
                                         [] OTHER -> error[p]]
          /\ UNCHANGED user
-----------------------------------------------------------------------------
\* handleControl(), whose answer has an overview, and the ports that savePort()
\* reads once it has saved a note.
Act(part) == /\ Quiet /\ act = NoAct /\ rendered.user # 0
             /\ rendered.instance # NoRow /\ Asks
             /\ act' = [pc |-> part, req |-> Request]
             /\ UNCHANGED <<server, page, rendered, armed, loads, saves>>

ActArrives ==
  /\ Quiet /\ act # NoAct /\ act' = NoAct
  /\ UNCHANGED <<server, rendered, saves, changes>>
  /\ \/ Refused(act.req) /\ Expire(refreshes, loads)
     \/ UNCHANGED <<page, armed, loads>>
     \/ /\ \E found \in Read(act.req) :
             shown' = [shown EXCEPT ![act.pc] =
               [rev |-> found.rev, session |-> act.req.session, by |-> "act"]]
        /\ UNCHANGED <<armed, loads, started, user, instance, live, metadata,
                       loading, error, refreshes>>

\* saveConnection() sends a connection, clearCredential() the connection of
\* its render.
SaveBegin ==
  /\ Quiet /\ rendered.user # 0 /\ (\A s \in saves : s.kind # "save") /\ Asks
  /\ \E url \in Urls :
       saves' = saves \cup {[kind |-> "save", req |-> Request, done |-> NoRow,
                             url |-> url]}
  /\ UNCHANGED <<server, page, rendered, armed, loads, act>>

ForgetBegin ==
  /\ Quiet /\ rendered.user # 0 /\ rendered.instance # NoRow
  /\ (\A s \in saves : s.kind # "forget") /\ Asks
  /\ saves' = saves \cup {[kind |-> "forget", req |-> Request,
                           done |-> rendered.instance]}
  /\ UNCHANGED <<server, page, rendered, armed, loads, act>>

\* The server saves: a new revision.
SaveCommits(s) ==
  /\ s.kind = "save" /\ s.done = NoRow /\ ~Refused(s.req)
  /\ row' = [rev |-> row.rev + 1, url |-> s.url]
  /\ saves' = (saves \ {s}) \cup {[s EXCEPT !.done = row']}
  /\ UNCHANGED <<session, issued, page, rendered, armed, loads, act, changes>>

\* onInstance(next): the answer may outlive the view that asked for it.
SaveArrives(s) ==
  /\ Quiet /\ saves' = saves \ {s} /\ UNCHANGED <<server, rendered, act, changes>>
  /\ \/ Refused(s.req) /\ Expire(refreshes, loads)
     \/ UNCHANGED <<page, armed, loads>>
     \/ /\ s.done # NoRow /\ s.req.session # 0
        /\ loads' = Outdated /\ instance' = s.done /\ Empty
        /\ Refresh(s.done, FALSE, FALSE, FALSE, Due)
        /\ UNCHANGED <<armed, started, user>>
-----------------------------------------------------------------------------
Arrivals == \/ \E l \in loads : LoadArrives(l)
            \/ \E r \in refreshes : Continue(r) \/ \E p \in Parts : Answer(r, p)
            \/ ActArrives
            \/ \E s \in saves : SaveArrives(s)

Next == \/ Bootstrap \/ SignIn \/ SessionEnds \/ SignOut \/ Noticed \/ Render
        \/ Arrivals \/ Tick \/ Ask \/ Age
        \/ \E part \in Parts \cap {"overview", "ports"} : Act(part)
        \/ SaveBegin \/ ForgetBegin
        \/ \E s \in saves : SaveCommits(s)

\* Every request ends, by the deadline of 45 seconds if nothing else ends it,
\* and its continuation runs.
Spec == Init /\ [][Next]_vars /\ WF_vars(Bootstrap) /\ WF_vars(Arrivals)
-----------------------------------------------------------------------------
\* App.tsx, refreshOverview(): what a refresh puts on the page was read in the
\* session the page is in, and never for a connection older than the one the
\* page names by then, however the refreshes, the changes of the connection and
\* the ends of the session were ordered.
RefreshedCurrent == [][\A p \in Parts :
  LET new == shown'[p]
  IN (new # shown[p] /\ new # NoData) => (new.by = "refresh"
       => new.session = user' /\ new.rev >= instance'.rev)]_vars

\* App.tsx, includeMetadata: metadata are asked for at most every 30 seconds,
\* but a page at rest that asked for them in its session and will not ask again
\* yet has them, or says that they could not be had: no refresh that was
\* superseded took them with it.
MetadataAsked ==
  (~live /\ Quiet /\ user # 0 /\ instance # NoRow /\ loads = {}
   /\ metadata = [url |-> instance.url, session |-> user])
  => \A p \in Metadata : shown[p] # NoData \/ error[p]

\* The page does not load forever: every refresh ends, or another takes over
\* that does.
LoadingEnds == loading ~> ~loading
=============================================================================
