------------------------------- MODULE Catalog -------------------------------
(* The server catalog of one provider: the file a refresh downloads, and the  *)
(* suggestions the page of the Assistant asks for while filters are chosen.   *)
(* Spelling is left out (values are compared regardless of case), and so is   *)
(* the limit on the number of suggestions, which only drops some of them.     *)
EXTENDS Naturals

CONSTANTS
    Fields,        \* the filters of the provider, broad ones before narrow ones
    Narrows,       \* field -> the fields a change of it clears
    Servers,       \* revision -> the servers: records field -> set of values
    Tabs,          \* the pages that refresh the catalog: the page modelled is one
    Page,
    NoValue,
    MaxRefreshes   \* bound: refreshes begun

ASSUME CatalogAssumption ==
    /\ 0 \in DOMAIN Servers /\ Page \in Tabs /\ MaxRefreshes \in Nat
    /\ \A r \in DOMAIN Servers : \A s \in Servers[r], f \in Fields : NoValue \notin s[f]

VARIABLES
    file,      \* the cached file: its write, its servers, what can be read of it
    parsed,    \* the catalog last parsed, with the write it was read from
    main,      \* the revision the official repository is at
    refresh,   \* tab -> the download under way
    refreshes, \* downloads begun so far
    filters,   \* field -> the values completed, and the one being typed
    options,   \* field -> the suggestions shown
    asking     \* the requests for suggestions under way

catalogVars == <<file, parsed, main, refresh, refreshes, filters, options, asking>>
served == <<file, parsed, main, refresh, refreshes>>
page == <<filters, options, asking>>

Revisions == DOMAIN Servers
NoMemory == [write |-> 0, servers |-> {}, related |-> FALSE]
NoRefresh == [pc |-> "idle", rev |-> 0]
NoFilter == [done |-> {}, last |-> NoValue]
NoAnswer == [values |-> {}, write |-> 0, state |-> "asked"]
NoOptions == [values |-> {}, write |-> 0]
Failed == [NoAnswer EXCEPT !.state = "failed"]
Quiet == [state |-> "idle", got |-> [f \in Fields |-> NoAnswer]]
Delayed == [Quiet EXCEPT !.state = "delayed"]

\* A cache of an earlier release has no relations; a damaged one is not read.
CatalogInit ==
    /\ \E sort \in {"none", "damaged", "legacy", "whole"} :
          file = [write |-> 1, servers |-> Servers[0], related |-> sort = "whole",
                  readable |-> sort \in {"legacy", "whole"}]
    /\ parsed = NoMemory /\ main = 0 /\ refresh = [t \in Tabs |-> NoRefresh] /\ refreshes = 0
    /\ filters = [f \in Fields |-> NoFilter] /\ options = [f \in Fields |-> NoOptions]
    /\ asking = Delayed

-----------------------------------------------------------------------------
(* Reading the catalog. *)
Chosen(selection, f) == selection[f].done \cup ({selection[f].last} \ {NoValue})
ChoicesOf(servers, f) == UNION {s[f] : s \in servers}

MatchesAll(s, selection) ==
    \A f \in Fields : Chosen(selection, f) = {} \/ Chosen(selection, f) \cap s[f] # {}

\* What was read is kept until the file is another one.
LoadCached ==
    IF ~file.readable THEN NoMemory
    ELSE IF parsed.write = file.write THEN parsed
    ELSE [write |-> file.write, servers |-> file.servers, related |-> file.related]
Bundled == [write |-> 0, servers |-> Servers[0], related |-> TRUE]
GetProvider == IF LoadCached = NoMemory THEN Bundled ELSE LoadCached

\* The suggestions for a field: what servers that fit the other filters have,
\* as far as it goes with what is being typed.
Query(f, selection) ==
    LET others == [selection EXCEPT ![f] = NoFilter]
        catalog == GetProvider
        fitting == IF catalog.related
                   THEN {s \in catalog.servers : MatchesAll(s, others)}
                   ELSE catalog.servers
    IN  {v \in ChoicesOf(fitting, f) : selection[f].last \in {NoValue, v}}

Validate(f, v) == v \in ChoicesOf(GetProvider.servers, f)
ValidateSelection(selection) ==
    \/ \A f \in Fields : Chosen(selection, f) = {}
    \/ GetProvider.related
       /\ \E s \in GetProvider.servers : MatchesAll(s, selection)

-----------------------------------------------------------------------------
(* Refreshing it. *)
RefreshBegin(t) ==
    /\ refresh[t].pc = "idle" /\ refreshes < MaxRefreshes
    /\ refreshes' = refreshes + 1
    /\ refresh' = [refresh EXCEPT ![t].pc = "revision"]
    /\ UNCHANGED <<file, parsed, main, page>>

RefreshRevision(t) ==
    /\ refresh[t].pc = "revision"
    /\ refresh' = [refresh EXCEPT ![t] = [pc |-> "servers", rev |-> main]]
    /\ UNCHANGED <<file, parsed, main, refreshes, page>>

RefreshWrites(t) ==
    /\ refresh[t].pc = "servers" /\ refresh' = [refresh EXCEPT ![t].pc = "written"]
    /\ file' = [write |-> file.write + 1, servers |-> Servers[refresh[t].rev],
                related |-> TRUE, readable |-> TRUE]
    /\ UNCHANGED <<parsed, main, refreshes, page>>

\* The page that asked for the refresh asks for suggestions again.
RefreshAnswered(t) ==
    /\ refresh[t].pc = "written" /\ refresh' = [refresh EXCEPT ![t] = NoRefresh]
    /\ asking' = IF t = Page THEN Delayed ELSE asking
    /\ UNCHANGED <<file, parsed, main, refreshes, filters, options>>

\* Whatever fails before the new file is in place leaves the former one; after
\* that, the page does not learn of it.
RefreshFails(t) ==
    /\ refresh[t].pc # "idle" /\ refresh' = [refresh EXCEPT ![t] = NoRefresh]
    /\ UNCHANGED <<file, parsed, main, refreshes, page>>

Released ==
    /\ main + 1 \in Revisions /\ main' = main + 1
    /\ UNCHANGED <<file, parsed, refresh, refreshes, page>>

\* A restart of the server cuts off every request.
ServerRestarts ==
    /\ parsed' = NoMemory /\ refresh' = [t \in Tabs |-> NoRefresh]
    /\ asking' = [asking EXCEPT !.got = [f \in Fields |->
                     IF asking.state = "asked" /\ @[f].state = "asked" THEN Failed ELSE @[f]]]
    /\ UNCHANGED <<file, main, refreshes, filters, options>>

-----------------------------------------------------------------------------
(* Choosing filters on the page. *)

\* Mutant of UpdateFilter: requests under way go on, and their answers count.
UpdateFilterLeft(f, filter) ==
    /\ filters' = [g \in Fields |-> IF g = f THEN filter
                                    ELSE IF g \in Narrows[f] THEN NoFilter ELSE filters[g]]
    /\ asking' = (IF asking.state = "asked" THEN asking ELSE Delayed) /\ UNCHANGED <<options, served>>

\* A broader choice clears the narrower ones; suggestions are asked for anew.
UpdateFilter(f, filter) ==
    /\ filters' = [g \in Fields |-> IF g = f THEN filter
                                    ELSE IF g \in Narrows[f] THEN NoFilter ELSE filters[g]]
    /\ asking' = Delayed /\ UNCHANGED <<options, served>>

Pick == \E f \in Fields : \E v \in options[f].values \ Chosen(filters, f) :
            UpdateFilter(f, [filters[f] EXCEPT !.last = v])
Another == \E f \in Fields : filters[f].last # NoValue
              /\ UpdateFilter(f, [done |-> Chosen(filters, f), last |-> NoValue])
Clear == \E f \in Fields : filters[f] # NoFilter /\ UpdateFilter(f, NoFilter)

\* One request for each field, a moment after the last change.
Ask ==
    /\ asking.state = "delayed" /\ asking' = [Quiet EXCEPT !.state = "asked"]
    /\ UNCHANGED <<filters, options, served>>

Serve(f) ==
    /\ asking.state = "asked" /\ asking.got[f].state = "asked"
    /\ parsed' = LoadCached
    /\ asking' = [asking EXCEPT !.got[f] = [values |-> Query(f, filters), state |-> "got",
                                            write |-> GetProvider.write]]
    /\ UNCHANGED <<file, main, refresh, refreshes, filters, options>>

ServeFails(f) ==
    /\ asking.state = "asked" /\ asking.got[f].state = "asked"
    /\ asking' = [asking EXCEPT !.got[f] = Failed]
    /\ UNCHANGED <<served, filters, options>>

Settle ==
    /\ asking.state = "asked" /\ \A f \in Fields : asking.got[f].state # "asked"
    /\ options' = [f \in Fields |-> [values |-> asking.got[f].values, write |-> asking.got[f].write]]
    /\ asking' = Quiet /\ UNCHANGED <<served, filters>>

CatalogNext ==
    \/ \E t \in Tabs : RefreshBegin(t) \/ RefreshRevision(t) \/ RefreshWrites(t)
                      \/ RefreshAnswered(t) \/ RefreshFails(t)
    \/ Released \/ ServerRestarts \/ Pick \/ Another \/ Clear \/ Ask \/ Settle
    \/ \E f \in Fields : Serve(f) \/ ServeFails(f)

CatalogSpec == CatalogInit /\ [][CatalogNext]_catalogVars

-----------------------------------------------------------------------------
(* Properties. *)

\* OfferedAccepted: while no other suggestions are on their way, each one that is shown is
\* accepted by the generator together with the filters beside it, unless the
\* catalog was replaced since, or has no relations to check it by.
OfferedAccepted ==
    asking.state = "idle" /\ GetProvider.related =>
        \A f \in Fields : options[f].write = GetProvider.write =>
            \A v \in options[f].values :
                /\ Validate(f, v)
                /\ ValidateSelection([filters EXCEPT ![f].last = v])
=============================================================================
