# A TLA+ model of Tuniku

Tuniku is a web application beside one or several Gluetun VPN containers. It
watches them, generates Compose configuration, and, through a separate *manager*
process with access to the Docker socket, changes a VPN together with the
applications in its network namespace. This directory models its three processes:

* the manager, where a mistake costs most: its requests interleave at every
  await, each change is some dozens of Docker calls that may fail or go
  unanswered, and the process may die between any two of them;
* the web server: the caches of what it reads from Docker and Gluetun, the saved
  connection and its credentials, the accounting of traffic, accounts and sessions,
  the generator of Compose files, the catalog of VPN servers, the start of its database;
* the page in the browser, which keeps what it was told while its owner edits,
  refreshes, signs out and confirms.

Paths below are relative to the repository; `engine.ts` is
`src/server/management/engine.ts` there, `docker.ts` its Docker adapter, `api.ts`
is `src/server/routes/api.ts` unless it is said to be the client's.

## The system

| Component | State | Operations | Modelled |
|---|---|---|---|
| Managed-stack engine (`management/engine.ts`) | on disk: projects, references ("baseline"), plans, operations, review tokens; in memory: locks, the running requests | adopt, plan, prune, apply with its rollback, review and complete a recovery, review and run a cleanup, restart | yes |
| Docker adapter (`management/docker.ts`) | none of its own; the containers of the host | create, rename, start, stop, remove, inspect, dependents, waitHealthy | yes |
| Recovery inventory (`management/inventory.ts`) | none | which containers may not be adopted; the candidate list | partly |
| Manager HTTP service (`management/server.ts`, `client.ts`) | none | one route per request of the engine | partly |
| Docker observation cache (`docker/observationCache.ts`) | entries with expiry, pending and active loads | get, invalidate, close | yes |
| Gluetun polling state (`gluetun/state.ts`, with routes of `api.ts`) | status, generations, refreshes in flight | refresh, poll, invalidate, stop; edit, control, test | yes |
| Saved connection and credentials (`api.ts`, `gluetun/state.ts`, `db.ts`) | the connection, a credential stored or kept in memory | save, forget, test, preview, control | yes |
| Traffic accounting (`db.ts`, `gluetun/state.ts`, `traffic/daily.ts`, the observer's counters) | last sample and identity, daily sums | poll in three steps, record, share out, edit | yes |
| Sessions and administrator recovery (`api.ts`, `db.ts`, `recovery/localAdmin.ts`) | users, sessions | register, login, confirm a password, sign out, revoke, prune, recover | yes |
| Request rate limiter (`security.ts`) | attempts per key, a bounded table | consume, clear | yes |
| Database schema (`db.ts`) | version, tables, journal mode | open, check, migrate | yes |
| Compose generator and provider schemas (`compose/generator.ts` and others) | none | validate, generate, redact | partly |
| Server catalog (`compose/serverCatalog.ts`) | one cached file | read, refresh, suggest, validate a selection | yes |
| Drafts, audit and retention (`db.ts`) | tables | drafts: save redacted, list, open, delete | partly |
| Docker observer and proxy (`docker/observer.ts`, `observerProxy.ts`) | none | read-only requests | partly |
| Web client (`src/client`) | session, connection, requests under way; form, result, drafts; stacks and confirmations | see below | partly |
| Build, CI, end-to-end harness | | | no |

How they interact. The web server talks to the manager over HTTP
(`management/client.ts` to `management/server.ts`); the manager calls the engine,
the engine calls Docker through the adapter and writes its journal with
synchronous, atomic file replacements. The web server reads containers through
the observer and its cache, and Gluetun's own API through the polling state;
the timer of the polling state also reads the counters of the VPN container through the observer
and attributes them to the saved connection. The page asks the web
server; it refreshes with four requests at once and holds what it began across edits.

What is hard. One Node process runs every request, so the code between two
awaits is atomic, and nothing else is: a request checks the locks and the journal
once and relies on it many awaits later. A Docker call has three outcomes
(performed, refused, and performed without an answer), a write can fail, and a
restart loses locks and running requests but neither the journal nor a call that
was already sent. The browser is the same: a continuation runs to its end, and
anything may have happened since the request was sent.

What makes the engine right:

* one unfinished operation of a project at a time, one worker at a time;
* an apply ends; a success replaced the whole stack, a rollback restored it
  whole, and otherwise nothing is left running without its VPN;
* applications never outlive the tunnel they use;
* originals stay available until the owner has them removed, and a cleanup
  removes nothing else;
* a restart finds whatever was under way; a lock is only released to a stack in
  a known state; the reference of a stack describes it.

What makes the web server right:

* no more reads of Docker run than the bound, however often the cache is emptied
  under them; requests for one connection share a read, and each is answered;
* nothing read before a change is kept or shown after it; a poll never
  overwrites the state of a connection edited since; a shut-down waits for what could still write;
* a credential stays with the destination and the mode it was entered for;
* no byte of traffic is counted twice or attributed to another connection, whatever
  is restarted or replaced during a poll, and the days add up to what was counted;
* one administrator is registered first; every session belongs to that administrator and to the
  password that is valid; a session that was ended or reached its absolute limit does not come back; guesses are bounded
  for each account, also when the limiter's table is full;
* what is committed of a migration is a whole schema;
* a proposal refers to nothing that is not there, a draft holds no credential.

What makes the page right: what it shows belongs to the form, the connection and the
session beside it; plaintext secrets leave it in time; what is confirmed is what is shown;
what a refresh cut off is asked for again, and loading ends.

`PROJECT.json` lists the hazards at their lines, and the properties that catch
each.

## Modules

| Module | What it is |
|---|---|
| `Docker` | the table of containers, and for each call of the adapter when the daemon performs it and what it does |
| `StackJournal` | the state of the engine; its reading of records; how it waits for a call and writes its journal |
| `StackApply` | `apply()`: validation, change, commit, rollback, failed rollback |
| `StackOwner` | planning, pruning, adoption, manual recovery, cleanup |
| `ManagedStack` | restart, the owner's repairs, interference, `Init`, `Next`, `Spec` |
| `ChangeLifecycle` | the abstract journal: what the engine promises about an operation without saying how |
| `StackProperties` | fairness, type invariant, properties, inductive strengthenings, the refinement mapping |
| `MCManagedStack` | the instances for TLC |
| `StackProofs` | proofs that `TypeInv` and `Exclusion` are inductive, and of the refinement: `TypesHold`, `PlansKept`, `UnfinishedAlone`, `WorkersExclude`, `LifecycleKept` |
| `StackOutcomes` | proofs of what a change does while it is under way: `PlacesKept`, `CleanupSafe`, `SuccessWhole`, `ClientsStopFirst`, `FailuresStop` |
| `StackSettled` | proofs of what a change leaves behind: `StacksIntact`, `OriginalsKept`, `RollbackWholly`, `ReferencesMatch`, `OneChangeKeeps`, `OneChangeRestores`; of several projects: `OwnershipKept`, `OneChangeOwns` |
| `ObservationCache` | the cache of Docker metadata, with its properties; instances in `ObservationCache.cfg` |
| `ObservationProofs` | proof that `CacheInv` is inductive: `BoundKept`, `StaleNever`, `ReadsCoalesce`, `QuietWhenClosed` |
| `GluetunState` | polled status and stored capabilities against edits, control requests, connection tests and the shut-down |
| `Connection` | the saved connection and its credential |
| `Traffic` | the traffic poll, its records, the world it reads |
| `ServiceProofs` | proofs about these three: `NothingFromBefore`, `PollsStayCurrent`, `OneAtATime`, `QuietAfterStop`; `CredentialsScoped`; `TrafficAttributed`, `TotalsAreTrue` |
| `MCService` | `GluetunState`, `Connection` and `Traffic` for TLC |
| `RateLimiter` | the table of the sliding-window limiter, as operators |
| `Accounts` | registration, login, sessions, the limits, the offline recovery |
| `Schema` | the constructor of the database |
| `AccountsProofs` | proofs about both: `SessionsOfOwner`, `SessionsEndOnce`, `GuessesLimited`; `SchemaKept` |
| `MCAccounts` | `Accounts` and `Schema` for TLC |
| `Compose` | the generator: what it accepts, writes, masks, and says of it |
| `Assistant` | the form, generations, results and drafts of the Assistant's page |
| `MCAssistant` | an instance of it |
| `Catalog` | the file of servers, its refresh, the suggestions for the filters |
| `StackPanel` | the panel of the managed stacks, and what of the helper it sees |
| `PagesProofs` | proofs about these pages: `OutputOfForm`, `CredentialsLeave`, `DraftsHoldNone`, `ProposalsSound`; `SuggestionsAccepted`; `PanelConfirmsWhatItShows` |
| `MCPages` | `Assistant`, `Catalog` and `StackPanel` for TLC |
| `Dashboard` | the page's session, refreshes, timers, connection and control requests |
| `DashboardProofs` | proofs that `PageInv` is inductive: `MetadataArrive`, `RefreshedInSession` |

The modules of the manager extend each other in the order `Docker`, `StackJournal`,
`StackApply`, `StackOwner`, `ManagedStack`, `StackProperties`; `ChangeLifecycle` stands alone and is
instantiated. `Accounts` extends `RateLimiter`, `Assistant` extends `Compose`; the others stand alone
with their proofs. No module declares a `RECURSIVE` operator,
so all of them can be proved about.

### The manager

The containers of a stack are numbered by *slot*: slot 1 is the VPN
(`snapshots[0]`), the others are the applications (`snapshots.slice(1)`). A
project is a function from slots to container identities (`vpnId`, `clientIds`).
A container has a run state, a name, one configuration value standing for all an
owner can change (environment and ports), and a network namespace: none, or that
of another container. A name is a slot and the set of operations that retained
the container under it (`-tuniku-backup-<operation>`); image, mounts, labels and
health are left out, as the code only copies or compares them.

`proj`, `base`, `plan`, `op` and `reviews` are the files of `ManagedStore`.
`locks` is `engine.locks`. `flow[o]` is the running `apply()` of operation `o`:
its program counter, loop position, its own copy of the record (status, created,
renamed) and the project it loaded, because the code mutates the copy first and
writes it afterwards, and a failed write leaves the two different. `clean`,
`draft`, `adopting` and `req` are the running cleanup, plan, adoption and
recovery completion, with what they read before their last await.

An action is the code between two awaits together with the effect of the awaited
call. `Await` gives each mutating call its outcomes: performed and answered;
refused by the daemon; not performed and failed; performed and the answer lost.
The last three take the path to the error handler. `Recorded` does the same for
`record()`. A record that only changes the text of the current step is not
modelled on its own: a failure to write it is a failure before the call that
follows. Reads of a whole stack (`snapshots`, `recoverySnapshots`,
`cleanupCandidates`) are one step each; the engine compares what they return
with a fingerprint and does not use their parts before the last one is in.
Recovery is the exception: the inspections (`RecoveryInspect`) and the listing of
dependents (`RecoveryConfirm`) are separate steps. A review only reads, and its
token is compared with later inspections, so it is one step.

`Crash` is a restart at any moment: a call under way may still happen (`Stray`),
the writes of a block that makes several may have been done in part (`Torn`), the
constructor marks unfinished work, and memory is lost. `OwnerRepairs` is the manual
repair of `docs/managed-stacks.md` (107). `Drift` is anybody else who stops,
starts or removes a container.

Left out: health is a call that may fail; a port conflict is a planning call that
may fail; the 1000 reviews cap; a stack that differs in size between projects; the
read-only requests (diagnostics, settings, export, storage status); an adoption
whose reference was written and whose project was not (the identity is fresh and
nobody ever learns it). A restart while the rest of a block's writes is still to
come is `Torn`; a write that fails in an error handler is in the alternatives of
`AbandonBreaks`, `Conclude` and the failing branch of `ApplyBegin`.

### The caches of the web server

`ObservationCache`. `entry` and `order` are the `Map` with its insertion order,
`load` the promises of `active` (also those that the table has forgotten), `caller` the requests that
await them, `awaits` what `close()` collected. `get()` has no await before its
promise, so `GetCached` and `GetLoads` are its two outcomes: an answer or a refusal
at once, or a read begun. The end of a read settles promise, entry and waiting requests in
one run of microtasks, which is one action (`LoadEnds`). Time is `Expire`: an entry may lose its freshness at any
moment. `old` marks what was begun before the last invalidation; it is a history variable,
and no guard reads it. What an observation contains is left out.

`GluetunState`. Connections are numbered by edits, so that a status, a
capability record or a request can be of an older connection than the saved one. `gen`,
`cached`, `pending` are the maps of `GluetunStateService` for the one instance the
program has, `caps` is `capability_cache_json`. `Poll` stands for the timer
and for all routes that read the connection and refresh in one go. Control requests and connection
tests (`task`) hold the connection they read at their start, as in the code. `by` says who began a
fetch and is history. Credentials are the module `Connection`, the traffic timer is `Traffic`; the contents of a status are left out. That the
server closes only when its requests are done is Fastify's part (`Stop`).

### The connection, its credential and its traffic

`Connection`. A credential is represented by what its owner entered it for: a base URL and
a way to authenticate. `stored` and `memory` are the row of `stored_secrets` and the map of the
service. A request outside (`call`) holds the record it read at its start, and looks the credential up when it
sends, as in the code; a preview first resolves a name (`PreviewResolved`). `Forgotten` is a restart.

`Traffic`. The poll is cut at its awaits of the observer: the container is listed, inspected and associated
(`PollInspects`), its counters are read by another request (`PollCounts`: listing, counters and time in one step), the sample is recorded
(`PollRecords`); between them containers restart, are replaced or change their address, the connection is edited, and the clock
may be set back (`World`). `Same` is the comparison of container ids across the two requests, `Late` the refusal of a
sample that is not newer, `Part` the share of a day with its rounding. One direction of the traffic stands for
both, `moved` and `owed` are history. Two containers that match at once are an error, as in the code.

### Accounts and the database

`RateLimiter` has the limiter's table as a function from keys to ages of attempts; ages stand for
timestamps, so that `Tick` makes them grow and the window forgets them. `Accounts` uses it for the three
limiters. A password is hashed in another thread, so a request that hashes or verifies is two
steps (`RegisterBegin` and `RegisterDone`, and so on), and holds across them what the code holds: the count
of users is taken again, the user's row and the verdict on its hash are not. `spent` and
`guessed` are history: the sessions that were ended or reached their absolute limit, and the guesses allowed since the last right one.
A session past its idle limit is in neither: its row stays, and a confirmation of the password under way renews it (see *Other disagreements*).
The offline tool (`RecoverBegin`, `RecoverDone`, `RecoverFails`) runs while the server is stopped, which its documentation
requires (`docs/local-admin-recovery.md`); whoever runs it beside a running server is outside the model.

`Schema`. Several servers of this release open one database, of any earlier release, of this one, or of a newer one. The version
is read outside the transaction and again inside it; each statement is a step of `Statement`; death and
failure at any step undo what is not committed. That a newer server migrates while this one runs is left out.

### The generator and the catalog

`Compose` has the generator as operators on one input: the fields that are accepted for a task and provider
(`ProviderAccepted`, `AuthAccepted`, `NamesAccepted`, `PortAccepted`), the document it writes (`Generated`), what is masked
(`Redacted`), what a draft keeps (`Draft`). A text field is filled, blank, or `wrong` when its value fails
the format check; ports and filters have their values. The wording of warnings, the patterns of names, the providers' lists of
free options, the storage checks and the review of migrations are left out.

`Catalog`. A refresh asks for the revision, downloads, and replaces the file, and the page that began it learns of it
afterwards; each may fail, and the repository may publish in between. The cached file may be missing, damaged or of a release without
relations. The page asks for suggestions a moment after the last change of a filter, one request for each
field, and gives up what is under way when a filter changes.

### The page

`Assistant`. Every change of the form runs the effect that drops the result before anything else can
happen, so it is one action (`Changed`). A generation and the opening of a draft are requests that last across
edits. `Submit` also performs the request at the server, which nothing on the page changes; its answer may be lost.
Time is `Tick`; both expiries, of the inputs and of the result, are due before the next tick (`Expire`).

`StackPanel`. A button is one request and then the status (`run`); meanwhile the form, the stack and the ticks may
change, within what the page enables. What is chosen beside the form (`extra`) is a set: a reload clears the removals and keeps the port
action, as in the code. Of the helper only the latest operation of each project is
kept, and a rollback that failed counts as interrupted; the whole engine is `ManagedStack`. A status poll is atomic: overtaken
answers are left out. The export of a Compose file, the candidates and the storage report are left out.

`Dashboard`. Revisions of the connection and sessions are numbered; what a request brings is represented by the
revision and the session it was read for. Instead of the page's sequence numbers, what is under way
is `latest` or `valid` until an increment takes that away. The continuation of a refresh runs before anything else
(`Quiet`); rendering comes later. Traffic and Docker's data are treated like the overview and the ports.
One browser tab; a second one acts through `SessionEnds`.

`MCService`, `MCAccounts` and `MCPages` put modules that share no variable into one instance: in each
behaviour one of them moves (`moving`) and the others rest at a start that is fixed. What one part needs of another (the saved
connection in `Traffic`, the observed settings in `StackPanel`) is among its own inputs.

## Runs

`MaxFaults` bounds how often something goes wrong, `Faults` says what can. All
runs of the manager turn off the deadlock check: when every plan and operation has been used,
or the faults are spent and the project waits for its owner, the system may stop. The others turn it off
because a bound on edits, refreshes or the clock may be reached, or the server stopped.

| Run | Instance | Checks |
|---|---|---|
| `faults` (`MCFaults`) | 1 operation, VPN and 1 application, 4 containers, every kind of trouble, 3 times | `TypeOK`, `ReferencedPlansKept`, `CleanupTakesRetained` |
| `change` (`MCChange`) | 1 operation, VPN and 2 applications, 6 containers, failures, lost answers and restarts, twice; `FairSpec` | `OriginalsRetained`, `StackIntact`, `SucceedsWhole`, `ClientsFirst`, `FailedMeansStopped`, `ChangeEnds` |
| `restore` (`MCRestore`) | the same with clean failures and restarts, twice | `ReferenceMatches`, `RollbackRestores` |
| `pair` (`MCPair`) | 2 operations and 2 plans, VPN and 1 application, 6 containers, a failure or a restart | `OneUnfinished`, `SoleWorker`, `Lifecycle` |
| `adoption` (`MCAdoption`) | 2 identities to adopt under, one operation, one fault | `OwnershipDisjoint` |
| `stale_plan` (`MCStalePlan`) | 2 operations, no trouble | finds `FailureKeepsReference` violated |
| `cache` (`ObservationCache`) | 3 connections, 3 requests, 3 reads, capacity 2; `FairSpec`; 55,668 states | `LoadsBounded`, `NeverStale`, `Coalesced`, `ClosedQuiet`, `WaitersServed` |
| `service` (`MCService`) | status: 3 reads, 2 requests, 3 edits, 4 invalidations; connection: 2 addresses, 2 modes, 1 request; traffic: 2 containers, 2 addresses, 3 units of time in days of 1, 2 bytes, one restart or clock set back; 1,686,050 states | `SinceInvalidation`, `PollsCurrent`, `OneValidFetch`, `StoppedQuiet`, `KeptScoped`, `TrafficOfSaved`, `TotalsTrue` |
| `accounts` (`MCAccounts`) | accounts: 2 requests, 2 sessions, 2 names, 1 network, 1 recovery, 1 guess in a window of 2, a table of 1 key, sessions of 2 idle and 3 in all; schema: 2 servers; 262,805 states | `OneOwner`, `EndedStaysEnded`, `GuessesBounded`, `SchemaWhole` |
| `assistant` (`MCPages`) | form: 5 tasks, 2 providers, 2 typed fields, 3 edits, 1 draft; catalog: 2 filters, 2 revisions, 1 refresh; panel: 2 stacks, 2 plans, 1 operation, a removal of a setting as the edit; 1,701,526 states | `ShownForForm`, `SecretsExpire`, `DraftsRedacted`, `ProposalsWellFormed`, `OfferedAccepted`, `ConfirmedAsShown` |
| `dashboard` (`Dashboard`) | 2 requests in a refresh, 1 address, 2 changes by the owner, 2 sessions; fair; 713 thousand states | `MetadataAsked`, `RefreshedCurrent`, `LoadingEnds` |
| `draft_reopens` (`MCDraftReopen`) | the form with 2 edits | finds `DraftsReopen` violated |

Why these bounds are enough to be interesting. Two operations with the cleanup of
each is the least with which exclusion can fail. A VPN and two applications is
the least with which one application can be restored and another not, and a
change can stop between them. A stack of `n` services needs `n` further
containers for each change. Two faults reach a failure inside a rollback, three a
failed write there as well; `PlanCap` does not bind in these runs, where pruning
happens by expiry. `FailedMeansStopped` is about two faults: the one that makes a change roll back and the one that
makes the rollback fail. A third can make the last stop itself fail, which the code does not look at (engine.ts:491), and its
message tells the owner to verify the stop. TLC covers every instance completely. The proofs below do away with
the bounds for what they cover.

In the cache, one request and one connection more than the capacity is what it takes to
refuse a read, to evict, and to exceed the bound if it counted the wrong set; a third read lets
two older ones be cut off while a new one runs. In `GluetunState` two edits around
one request and one fetch are the shortest interesting case; the third read and
the fourth invalidation let an old fetch end between two newer ones. In `Traffic` an interval spans up to four days of which
three are kept, so that a difference of two bytes is shared out unevenly, crosses the cutoff, and counts a
reset; a second container takes the place of the first during a poll. In `Accounts` two requests are what it takes for a
registration or a login to overtake another; a table of one key is full with the first name. In `Assistant` three
edits leave a task, fill a field there and return to another while a generation or a draft is on its way. In `Dashboard` two changes
are a refresh or an edit and the save that overtakes it; two sessions, the one whose late answers the other must not see.

Fairness. The manager's `FairSpec` gives weak fairness to the steps of a running apply, cleanup
and recovery completion, and to nothing else: each of their awaits is a Docker call that
ends by an answer or by the adapter's 40 s timeout (docker.ts:22), or a health check
with a 90 s deadline (docker.ts:82-94). Nothing makes an owner send a request, time
pass, or trouble come. The `ENABLED` condition of an await always holds: what is not
performed is refused. `FairSpec` is checked without failed writes, as a failed last
write in `finally` keeps the lock until the restart (engine.ts:500). The cache's `FairSpec` gives
weak fairness to the end of each read, as every request of the observer is given up
after five seconds (docker/observer.ts:88, 146), and to the return of `close()`; nothing makes a browser ask.
The dashboard's `Spec` gives weak fairness to the answers of its requests, which `src/client/lib/api.ts` (32) ends after 45 seconds at
the latest, with their continuations, and to the first request of the page, which ends by the same deadline;
nothing makes the owner click, the timer fire, or the page render.

`Lifecycle` is the refinement. `ChangeLifecycle` has one phase per change, `Begin`
requires that nothing else of the project is unfinished, and so does the start of
a cleanup; a stuck change is left only by the owner's confirmation. `PhaseOf` maps
the journal to it, and TLC checks `Life!LifeSpec` as a property.

### What the failing runs show

Each is a statement of the documentation that the code does not keep; `PROJECT.json` quotes it.

1. `stale_plan`: plan A and plan B are prepared; A is applied with success; B is
   applied, its fingerprint differs, and the handler writes the reference *stored in
   B* back. The new stack is then shown as drifted, and its cleanup is refused.
2. `draft_reopens`: the redaction of a draft goes by the names of fields and replaces the number in
   `wireguardEndpointPort`, which the schema refuses when the draft is opened. A draft of a
   custom WireGuard provider can therefore be saved and listed, and never opened.

### Other disagreements

These are in no run of their own. For the first five there is a configuration.

* `MCRenewed.cfg` (`IdleNotRenewed` fails): a confirmation of the password begins within the idle limit of its session and is
  verified after it; `markSessionReauthenticated()` updates the row without a look at either limit (db.ts:270-274), and the session,
  which `getSession()` refused a moment ago, is valid again. `docs/security.md` (244) says "Expired sessions cannot be
  renewed". The absolute limit stands, as no update touches `expires_at`: that much is `EndedStaysEnded`.

* `MCAdoptRace.cfg` (`OriginalsRetained` fails): an adoption passes the check for recovery resources; meanwhile
  another adoption of the same stack and a change of it complete; the first
  adoption then finds the originals owned by nobody and claims them. Its last
  check compares with owned containers only.
* `MCLostRename.cfg` (`RollbackRestores` fails): Docker renames an original, the answer is lost, `renamedIds` does
  not name it. The rollback leaves the recovery name and reports that the originals
  were restored.
* `MCRecoveryRace.cfg` (`ReleaseOnlyRestored` fails): two completions of one recovery both pass their inspections; the
  first releases the project and a new change begins; the second hands the
  project back to the originals and drops a lock it does not hold.
* `GluetunStale.cfg` (`ShownCurrent` fails): a control request reads the connection; an edit is saved and
  invalidates; the control request is answered, invalidates again and fetches the status with
  the connection it read (api.ts:548). It is shown, and its capabilities are stored, for the edited one, until the next
  poll. A connection test does the same to the capabilities (api.ts:456).
* When the write of the success record fails, the rollback is recorded with the status "succeeded" (engine.ts:474 and 480),
  and a restart in it finds nothing to mark.
* The answer to a control request of an older connection is put on the page (App.tsx:203), and so are the ports that are read
  again after a note was saved (219); `RefreshedCurrent` is therefore about refreshes. A connection
  whose saving is answered after a sign-out is put back on the page. `clearCredential` hands back the
  connection of its render.
* An answer 401 of an earlier session that arrives after a new sign-in clears the new session's page
  (the client's api.ts:41); `SignIn` waits for those requests.
* The drafts panel asks for a confirmation by what it saw when **Open** was clicked: inputs edited while the draft is
  fetched are replaced without a question (AssistantView.tsx:312).
* "Any location" survives a change of provider (AssistantView.tsx:217), and the custom provider refuses it (generator.ts:201).
* Values of the catalog with a comma ("Palestine, State of") are offered, and then split and refused. A catalog cached by
  an early release is offered although a selection from it is refused; `OfferedAccepted` leaves both out.
* Two refreshes of the catalog at once may leave the older revision.
* In the panel, the answer to the request for settings is dropped when the inputs were edited meanwhile, and a plan cannot be
  prepared until the stack is chosen again or its settings are reloaded.

`ReferenceMatches` and `RollbackRestores` are therefore checked where answers are not
lost (`restore`), `OriginalsRetained` with one adoption, and exclusion with one recovery completion
at a time (`OneRequest`). `GluetunState.cfg` is the module of that name by itself.

## Proofs

All constants are arbitrary, under the assumptions that the modules name. Of the manager these are `DockerAssumption`,
`StackAssumption` and `HostAssumption`: at least one service, no confusion of identities with the "no"
values, a host with enough containers for one stack. `Ids` and `Ops` need not
be finite, and no fault is bounded but by `MaxFaults`, which is any number.

### The manager

The later theorems need more of the world than the earlier ones. Each hypothesis is a condition on the constants, except `Fresh`, `Current` and `EmergencyStops`, which are
conditions on behaviours:

| Hypothesis | Says | Without it |
|---|---|---|
| `OneRequest` | one recovery is confirmed at a time | two completions release a lock twice (`MCRecoveryRace.cfg`) |
| `OneProject` | one stack is managed | another project can adopt what a change has just retained (`MCAdoptRace.cfg`) |
| `Journalled` | no write of the journal fails | a rollback is recorded as a success (engine.ts:474, 480) |
| `Undisturbed` | nobody touches the containers behind the helper's back | anything can be gone |
| `Answered` | no answer of Docker is lost | an original keeps its recovery name (`MCLostRename.cfg`) |
| `[]Fresh` | if the helper can restart: what is validated is what the project owns since it was planned | a restart in the validation of a stale plan leaves an unfinished operation whose originals may be gone (engine.ts:437) |
| `[]Current` | what is validated was planned with the present reference, and saw what that describes | a plan that has gone stale writes its old reference back (`MCStalePlan.cfg`) |
| `OneOperation` | one change is applied, instead of the two before | as for these |
| `EmergencyStops` | the calls of the emergency stop take effect | nobody looks whether they did (engine.ts:491) |

`Fresh` and `Current` speak of every moment at which an operation is validated, `EmergencyStops` of every step of an emergency stop. `OneIsCurrent` and
`PlannedFresh` show that a single operation has them, whatever is adopted and planned before it, so `OneChangeKeeps`, `OneChangeRestores` and
`OneChangeOwns` need neither. Calls that fail are in all of the theorems; answers that are lost are in all but
`RollbackWholly`, `ReferencesMatch` and `OneChangeRestores`; restarts at any step are in all.

`TypesHold == Spec => []TypeOK` (`StackProofs`), without a hypothesis. `TypeOK` is not inductive: an apply
uses `created[k]`, and a record of an operation is read through the plan it
refers to. `TypeInv` adds `LiveOK` (the plan of an operation exists), `FlowOK` with
`Position` (how many replacements there are at each program counter, and where the
loop is), `CleanOK` and `RequestsOK`. There is one lemma per action or group of
similar actions, and a few on what `Await`, `Recorded` and `Conclude` leave.

`PlansKept`, `UnfinishedAlone`, `WorkersExclude` (`StackProofs`), each
`OneRequest /\ Spec => []...`. The invariant is `Exclusion`: the plan of an
operation is kept and not being drafted, so its project never changes; a
busy operation holds the lock, and is the only busy and the only unfinished one of its
project; no operation is applied and cleaned at once; what waits for its recovery
to be confirmed is still stuck and unlocked (`ClaimsStuck`). The last part is
where `OneRequest` is needed: with two completions, the second finds an operation
that the first has ended. `PlansKept` does not depend on it in
substance, but is proved from the same invariant.

`LifecycleKept` (`StackProofs`): the engine implements `ChangeLifecycle`, of which the journal is an image under `PhaseOf`. The
initial state maps to the initial state, and every step to one of the abstract steps or to none. `JournalTrue` says
that a running apply has nothing in hand that its record does not say, but its position, and that only a success is cleaned up. `Begin` of the abstract
journal asks that nothing else of the project be unfinished, which `Exclusion` provides. If the journal cannot be
written, the abstract order is lost: hence `Journalled`.

`PlacesKept` (`StackOutcomes`). `Placed` says that a container keeps its slot, its configuration and its network namespace from its
creation, that an application is never a VPN, and that whatever a project, a plan, a draft, an adoption or an operation names is a
stack of that shape, or the first part of one. So what is created is apart from what is replaced. The other theorems read a position of a loop as a statement about containers
by means of it.

`CleanupSafe` (`StackOutcomes`): the removal deletes retained originals and nothing else. `Retains` adds that
names of containers are unique, that a project is adopted before anything is planned for it, and that what is recorded as removed is gone; `CleanupVetted` says that what a cleanup has looked at (not running, no dependents) is still so when it deletes, although it
waits for Docker in between: only a worker of the same project could change it, and `Exclusion` leaves none.

`SuccessWhole`, `ClientsStopFirst` (`StackOutcomes`). `AllForward` is the forward half of `apply()`, `AllDiscarded` (and, for `RollbackWholly`, `AllBack`) the other: for each program
counter and loop position, which originals are stopped, which are renamed, which replacements exist, under what name and in
which namespace, and which of them run. A lost answer is in them: what was asked may have happened at the position at which the call is made.

`FailuresStop` (`StackOutcomes`). `Silenced` says that the record of a running apply names no replacement that the apply has not in hand
(its writes may fail, so the two differ), and that between the emergency stop and the last record nothing of the change runs: only a
worker of the project could start it. The run bounds the number of faults where the theorem asks that the emergency stop takes effect.

`StacksIntact`, `OriginalsKept`, `RollbackWholly` (`StackSettled`). `Held` says that the stack a project owns is complete unless one of its operations is being applied, is
interrupted or could not be rolled back, and that such an operation still has its originals standing. That a later operation leaves the retained originals of
an earlier one alone rests on `Placed`, on the names (a retained name is that of one operation) and on what a plan names, which is what the project owns.
`RollbackWholly` follows the rollback slot by slot to the state that the snapshots of the plan describe; `NoneStranded` says that what runs is served by its VPN, so that what ran can be started again.

`ReferencesMatch` (`StackSettled`). `Matching` says that the reference of a project that nothing works on is what its containers are,
that the same holds of a project whose operation is being validated, that what an operation at work would write back is what its plan saw
(`WorkDescribed`), and that an adoption that is about to claim holds the configurations as they are. A lost answer to a rename would
leave a container with a name that its reference does not show, hence `Answered`. `OneIsCurrent`: before the only operation begins no
container changes, so what is drafted and planned stays of the present reference (`AllCurrent`).

`OwnershipKept` (`StackSettled`), for any number of projects. `Ownership` counts to a project what it owns and the originals and replacements of its
operation at work (`Has`, `Apart`). An adoption inspects several awaits before it claims; `Foreign` says that of what it names another project may
only own what its last check then finds (engine.ts:220). That a rollback or a recovery hands back nothing that another project has taken meanwhile
follows from `SetAside`: the originals of an operation that is stuck are its project's, or renamed and on its record, so no adoption takes them. `Fresh` cannot
be left out: an adoption under way claims the originals that a success has released, a restart cuts off the validation of a stale plan of the first project, and the
confirmation of its recovery gives these originals back to that project as well. TLC finds this behaviour. The containers may be touched by others, and answers be lost.

### The web server and the pages

`BoundKept`, `StaleNever`, `ReadsCoalesce`, `QuietWhenClosed` (`ObservationProofs`), under `CacheAssumption`. `CacheInv` says that
an entry that waits for a read waits for one that runs, is of its connection and was
not cut off (`Waits`), and that a read that was not cut off still has its entry
(`Kept`): what is evicted waits for nothing, and a new read takes over an entry without one. The bound is a count of
all reads under way, and only `GetLoads` adds one, below the capacity. The order of the table is
not needed for these four.

`NothingFromBefore`, `PollsStayCurrent`, `OneAtATime`, `QuietAfterStop` (`ServiceProofs`), under `StateAssumption`. `StateInv` says
that the read which is shared is the only one that may still write (`Sole`), as every
invalidation outdates all others, and that a poll's read of the present generation is of the
saved connection (`FetchCurrent`), as every edit invalidates. After stop() no read is shared, so none writes.

`CredentialsScoped` (`ServiceProofs`), without assumptions. `KeptScoped` is inductive as it stands: the credential an
edit carries over is that of the connection before, and is carried over only if the connection stays the same.

`TrafficAttributed` (`ServiceProofs`). `Attributed` says that a poll counts in the container its address leads to, and that the last sample and what a poll is about to record were taken under the address they are
attributed to, as long as no container was restarted meanwhile; and that a record is later than the last sample unless the clock was set back, so that the sample shown is that of the saved connection.

`TotalsAreTrue` (`ServiceProofs`), under `TrafficAssumption`. `Accounted` orders the observations of a container: an earlier one, the last sample or what a poll holds, saw no
more received and no more lost (`Earlier`), so a difference counts what was received in between or, after a restart, part of it. A sample adds to each day a
difference of the rounded share at its two ends; the sum telescopes to the whole difference (by induction over the days), less what is before the cutoff.

`SessionsOfOwner`, `SessionsEndOnce` (`AccountsProofs`), under `AccountAssumption`. The invariant `Owned` adds the shape of the
tables; that a request which waits for its password check holds the administrator that there is (`HoldsPresent`); and that no
request waits while the server is stopped, which is the only time the tool runs (`Offline`). That is why a
login cannot create a session for a password that is no longer valid. A registration counts the users again, so that
the second of two finds one; a confirmation of a password updates a row, so that a row that is gone stays gone, and leaves its age as it is.

`GuessesLimited` (`AccountsProofs`). `Tried` says that the attempts in the limiter's table are, for each account, the guesses since the last right password and within the
window, whichever other keys are evicted or refused; what the table admits is then below the limit. That ageing and filtering commute, and that a filtered list is no longer,
is by induction over the length of the list.

`SchemaKept` (`AccountsProofs`): however many servers open the database, and wherever each of them dies, what is committed is a whole schema. `SchemaInv` says that
what the constructor behind the lock has in hand is a whole schema and the first statements of one further version, and that
the others write nothing but the journal mode.

`OutputOfForm`, `CredentialsLeave`, `DraftsHoldNone` (`PagesProofs`), under `BoundsAssumption` and `StacksAssumption`. The
argument starts with the generator: credentials that can be read are in its output only if they were asked for, and then it says so
(`GeneratedMasks`), and what a draft keeps holds none (`DraftMasks`). `AssistantInv` adds that an answer that is still of use is for the form there
is (`FreshForForm`), and that every output shown or on its way announces its credentials, since the expiry goes by the announcement.

`ProposalsSound` (`PagesProofs`): what the generator builds from an input it accepts passes its own checks of a document (`BuiltValid`): an application
waits for the VPN beside it or for nothing, as it is never that VPN itself, which is what the names are checked for.

`SuggestionsAccepted` (`PagesProofs`), under `CatalogAssumption`. What is kept in memory is always what the file has (`ReadsPresent`), so an answer and the check of a
later input read the same catalog unless the file was replaced, which gives it another number; and an answer
counts only if no filter changed since it was asked for. The assumption that no server has an empty value is what `extractChoices` and `extractRows` see to (serverCatalog.ts:54, 70).

`PanelConfirmsWhatItShows` (`PagesProofs`), without assumptions. `ConfirmedAsShown` is inductive but for the
form being a record: what sets a plan, a tick or an inspection compares it with the page of that moment, and what changes the page takes them away.

`MetadataArrive`, `RefreshedInSession` (`DashboardProofs`), under `DashboardAssumption`, which keeps the two marks that stand for "no address" apart from addresses. `PageInv` says that the server has no session
but that of the page, and that what is under way was sent in it; that at most one refresh is the latest; and that it was sent for a connection at least as new as the
one on the page. That the metadata are asked for follows from where the request can be: due, under way, answered or given up.

### Induction over data

The library states induction with an operator as a parameter, which these provers cannot instantiate. Where a sum or a list is
computed recursively (`TotalsAreTrue`, `GuessesLimited`) the proofs argue with sets instead: of the numbers for which the
claim fails one would be the least (`WFMin` for the order of `Nat`), and it is not. The function that a recursive definition
describes is shown to exist in the same way.

### Only model-checked

* `ChangeEnds`, `WaitersServed`, `LoadingEnds`: liveness (fairness and `ENABLED` are out of the prover's reach).
* Every safety property of the passing runs is a theorem. Where the theorem has hypotheses about behaviours, the run does without: it applies one operation, and
  has two faults for `FailedMeansStopped`.
* `TypeOK` of `GluetunState` is part of the invariant proved there. `TypeOK` and `RoomFound` of `ObservationCache` hold on the instance
  of the run `cache`, which leaves them out.

## Not modelled

* The build, the end-to-end harness and the scripts that compare the bundled catalog and the provider schemas with upstream:
  they run outside the system.
* The audit log and its retention: single statements whose rows nothing else reads.
* Labels of ports, list filters, dialogs, themes, translations and the export of a Compose file: state of a single view.
* The read-only requests of the manager and of the observer: input to the modelled parts.
* The parsing of Gluetun's and Docker's answers, of pasted Compose and of WireGuard files: abstracted to their outcome.
* Headers, cookies, origins and bodies that are refused before a route runs.

## Plan

Done: the manager; the caches with their proofs; connection, traffic and accounts; schema; generator, catalog and the page.
What is left, in this order.

1. Proofs: `SuccessWhole` and `ClientsStopFirst` for several projects, by means of `Ownership`. `OriginalsKept` is false of
   several (`MCAdoptRace.cfg`).
2. A composition of `StackPanel` with the engine, where a plan expires and a lock is held by another request, in
   place of the reduced helper.
3. Liveness of a manual recovery under a fair owner, where the repair is possible. A
   restart while a stale plan is validated leaves an interrupted operation whose
   originals may already have been removed by a cleanup: this lock cannot be
   released through the confirmation flow, and the model of the owner's repair has to be
   settled before it is stated as a property.
4. The storage checks and the review of migrations of the generator.
