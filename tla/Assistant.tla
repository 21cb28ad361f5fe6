----------------------------- MODULE Assistant -----------------------------
(* The Compose Assistant of the web client, and the drafts the server keeps   *)
(* for it. The form changes while a generation or a draft is on its way; the  *)
(* credentials in the form and in the result expire. Setting the form runs    *)
(* the effect that drops the result before anything else can happen.          *)
EXTENDS Compose, TLC

CONSTANTS
    Tasks, Providers,   \* the tasks and the providers the user picks from
    Typed,              \* the text fields the user fills in
    Stacks,             \* the documents the user may paste
    Choices,            \* filter -> the sets of values the user may choose
    MaxEdits,           \* bound: changes of the form
    MaxDrafts,          \* retentionPolicy.draftCount
    Expiry              \* fifteen minutes, in ticks

ASSUME StacksAssumption ==
    \A stack \in Stacks : \A s \in Of(stack) : "env" \in DOMAIN stack.services[s]
ASSUME TasksAssumption == "new_gluetun_setup" \in Tasks
ASSUME BoundsAssumption == MaxEdits \in Nat /\ MaxDrafts \in Nat /\ Expiry \in Nat \ {0}

VARIABLES
    form,      \* the form, an input of the generator without consent
    touched,   \* whether the form was ever set
    source,    \* whether a WireGuard configuration to import was typed
    include,   \* the consent to have credentials in the next output
    idle,      \* ticks since the form, the source or the consent changed
    result,    \* the output shown, the form it was made from, and its age
    request,   \* the generation under way
    drafts,    \* the drafts of the server
    opening,   \* the draft being fetched, and whether its click saw edits
    pending,   \* the draft whose opening waits for a confirmation
    edits      \* changes of the form so far

vars == <<form, touched, source, include, idle, result, request, drafts, opening, pending, edits>>
client == <<form, touched, source, include, idle, result, request, edits>>
panel == <<drafts, opening, pending>>

Blank == [task |-> "new_gluetun_setup", include |-> FALSE, envFile |-> FALSE, provider |-> "",
          vpn |-> "wireguard", any |-> FALSE, filters |-> [f \in Filters |-> {}],
          filled |-> {"wireguardEndpointPort", "customOpenvpnConfigPath"}, wrong |-> {},
          auth |-> "api_key", service |-> "", container |-> "", app |-> "app",
          scope |-> "same_project", pasted |-> NoDocument,
          port |-> [NoPort EXCEPT !.first = 8080, !.last = 8080, !.target = 8080]]
NoResult == [form |-> Blank, made |-> FALSE, age |-> 0,
             out |-> [document |-> NoDocument, legible |-> {}, contains |-> FALSE,
                      redacted |-> FALSE, formed |-> TRUE, valid |-> TRUE]]
NoRequest == [state |-> "none", form |-> Blank, fresh |-> FALSE, save |-> FALSE,
              out |-> NoResult.out]
NoDraft == [settings |-> Blank, hidden |-> {}, legible |-> {}]
NoOpening == [draft |-> NoDraft, dirty |-> FALSE, active |-> FALSE]

Init ==
    /\ form = Blank /\ touched = FALSE /\ source = FALSE /\ include = FALSE /\ idle = 0
    /\ result = NoResult /\ request = NoRequest /\ edits = 0
    /\ drafts = {} /\ opening = NoOpening /\ pending = NoDraft

Dirty == touched \/ source
Sensitive(f) == f.filled \cap Accounts # {} \/ f.pasted # NoDocument
Held == Sensitive(form) \/ source \/ include
Profiled == form.provider # ""

-----------------------------------------------------------------------------
(* Changes of the form. *)

\* Mutant of Changed: a generation under way stays acceptable.
ChangedQuietly(f) ==
    /\ pending = NoDraft
    /\ edits < MaxEdits /\ edits' = edits + 1
    /\ form' = f /\ touched' = TRUE /\ include' = FALSE /\ idle' = 0
    /\ result' = NoResult /\ UNCHANGED <<request, panel>>

\* The form is set anew: the result goes, an answer on its way is of no use.
Replaced(f) ==
    /\ form' = f /\ touched' = TRUE /\ include' = FALSE /\ idle' = 0
    /\ result' = NoResult /\ request' = [request EXCEPT !.fresh = FALSE]
Changed(f) ==
    /\ pending = NoDraft
    /\ edits < MaxEdits /\ edits' = edits + 1
    /\ Replaced(f) /\ UNCHANGED panel

NoFilters == [f \in Filters |-> {}]
WithTask(f, task) ==
    [f EXCEPT !.task = task,
              !.vpn = CASE task = "configure_openvpn" -> "openvpn"
                        [] task = "configure_wireguard" -> "wireguard"
                        [] OTHER -> @]

Update ==
    /\ \/ \E x \in Typed :
             \/ x \in form.filled /\ Changed([form EXCEPT !.filled = @ \ {x}])
             \/ x \notin form.filled /\ Changed([form EXCEPT !.filled = @ \cup {x}])
       \/ \E a \in {"none", "api_key", "basic"} : Changed([form EXCEPT !.auth = a])
       \/ form.task = "route_app_manually"
          /\ Changed([form EXCEPT !.scope = "separate_project", !.container = "vpn"])
       \/ \E s \in Stacks : form.task # "new_gluetun_setup" /\ Changed([form EXCEPT !.pasted = s])
    /\ UNCHANGED source

Narrower(f) ==
    CASE f = "countries" -> {"regions", "cities", "names", "hostnames"}
      [] f = "regions" -> {"cities", "names", "hostnames"}
      [] f = "cities" -> {"names", "hostnames"}
      [] f = "names" -> {"hostnames"}
      [] OTHER -> {}
\* A broader choice clears the narrower ones; a place ends "any location".
ChangeServerFilter ==
    \E f \in DOMAIN Choices : \E values \in Choices[f] :
        /\ Profiled /\ f \in Profile(form.provider).filters
        /\ ~(form.any /\ f \in Located)
        /\ form.filters[f] # values
        /\ Changed([form EXCEPT !.any = @ /\ f \notin Located,
                                !.filters = [g \in Filters |->
                                    IF g = f THEN values
                                    ELSE IF g \in Narrower(f) THEN {} ELSE @[g]]])
        /\ UNCHANGED source
ChooseAnyLocation ==
    /\ Profiled /\ Profile(form.provider).filters # {}
    /\ Changed([form EXCEPT !.any = TRUE,
                            !.filters = [f \in Filters |-> IF f \in Located THEN {} ELSE @[f]]])
    /\ UNCHANGED source

SelectTask ==
    \E t \in Tasks : Changed(WithTask(form, t)) /\ UNCHANGED source
\* The output of a setup becomes the stack the next step works on.
SelectWorkflowStep ==
    \/ /\ form.task # "route_app_manually"
       /\ Changed([WithTask(form, "route_app_manually") EXCEPT !.pasted =
                      IF result.made /\ result.out.valid /\ form.task = "new_gluetun_setup"
                         /\ @ = NoDocument
                      THEN result.out.document ELSE @])
       /\ UNCHANGED source
    \/ /\ result.made /\ form.task = "new_gluetun_setup"
       /\ Changed([WithTask(form, "publish_app_port") EXCEPT !.pasted = result.out.document])
       /\ UNCHANGED source
SelectProvider ==
    \E p \in Providers :
        /\ Changed([form EXCEPT !.provider = p, !.filters = NoFilters,
                       !.vpn = IF @ \in Profile(p).protocols THEN @
                               ELSE CHOOSE v \in Profile(p).protocols : TRUE,
                       !.filled = @ \ ((Wireguard \cup Openvpn)
                                       \ {"wireguardEndpointPort", "customOpenvpnConfigPath"})])
        /\ UNCHANGED source
SelectVpnType ==
    \E v \in {"wireguard", "openvpn"} :
        /\ Profiled /\ v \in Profile(form.provider).protocols
        /\ Changed([form EXCEPT !.vpn = v, !.filters = NoFilters])
        /\ UNCHANGED source
UsePortSuggestion ==
    Changed([form EXCEPT !.task = "publish_app_port"]) /\ UNCHANGED source

\* The source is typed beside the form and is no part of it.
TypeSource ==
    /\ pending = NoDraft /\ idle' = 0
    /\ source' \in BOOLEAN /\ (source \/ source')
    /\ UNCHANGED <<form, touched, include, result, request, edits, panel>>
ApplyWireguardImport ==
    /\ source /\ source' = FALSE
    /\ \E psk \in SUBSET {"wireguardPresharedKey"} :
          Changed([form EXCEPT !.provider = "custom", !.vpn = "wireguard", !.filters = NoFilters,
                      !.task = IF @ = "new_gluetun_setup" THEN @ ELSE "configure_wireguard",
                      !.filled = (@ \ ((Openvpn \ {"customOpenvpnConfigPath"})
                                       \cup {"wireguardPresharedKey"}))
                                 \cup (Wireguard \ {"wireguardPresharedKey"}) \cup psk])
\* What a managed stack runs with is loaded, but for its credentials: when the
\* answer arrives, also while a draft waits for its confirmation.
LoadSettings ==
    /\ edits < MaxEdits /\ edits' = edits + 1 /\ source' = FALSE /\ UNCHANGED panel
    /\ \E p \in Providers :
          Replaced([Blank EXCEPT !.task = form.task, !.provider = p,
                       !.vpn = CHOOSE v \in Profile(p).protocols : TRUE,
                       !.filled = @ \cup {"wireguardAddresses"}])

-----------------------------------------------------------------------------
(* Credentials. *)
ToggleConsent ==
    /\ pending = NoDraft
    /\ include' = ~include /\ result' = NoResult /\ idle' = 0
    /\ UNCHANGED <<form, touched, source, request, edits, panel>>

ClearedForm == [form EXCEPT !.filled = @ \ Accounts, !.pasted = NoDocument]
ClearSensitive == Replaced(ClearedForm) /\ source' = FALSE /\ UNCHANGED <<edits, panel>>
ClearByHand == pending = NoDraft /\ ClearSensitive

FormDue == Held /\ idle >= Expiry

\* Mutant of ResultDue: the output expires with the form it was made from.
ResultDueNever == FALSE

ResultDue == result.made /\ result.out.contains /\ ~result.out.redacted /\ result.age >= Expiry

Expire == (FormDue \/ ResultDue) /\ ClearSensitive
Tick ==
    /\ ~FormDue /\ ~ResultDue
    /\ Held \/ result.out.legible # {}
    /\ idle' = IF Held THEN idle + 1 ELSE 0
    /\ result' = IF result.out.legible # {} /\ result.age <= Expiry
                 THEN [result EXCEPT !.age = @ + 1] ELSE result
    /\ UNCHANGED <<form, touched, source, include, request, edits, panel>>

-----------------------------------------------------------------------------
(* Generation. *)
Input(f, consent) ==
    [f EXCEPT !.include = consent,
              !.port = IF f.task \in PortTasks THEN @ ELSE NoPort,
              !.filled = IF f.provider = "custom" /\ f.vpn = "wireguard" THEN @
                         ELSE @ \ {"wireguardEndpointPort"}]

\* Sending consumes the consent, whatever becomes of it. The server generates,
\* looks at the ports of the observed container, and saves a draft: nothing the
\* client does meanwhile changes that. It may refuse, and its answer be lost.
Submit ==
    LET in == Input(form, include)
        Sent(state, save, out) ==
            request' = [NoRequest EXCEPT !.state = state, !.form = form, !.fresh = TRUE,
                                         !.save = save, !.out = out]
    IN  /\ pending = NoDraft /\ request.state = "none"
        /\ \/ Sent("failed", FALSE, NoResult.out) /\ UNCHANGED drafts
           \/ \E save \in BOOLEAN :
                 /\ Accepted(Scoped(in))
                 /\ save => Cardinality(drafts) < MaxDrafts
                 /\ drafts' = IF save THEN drafts \cup {Draft(in)} ELSE drafts
                 /\ \/ Sent("answered", save, Generated(in))
                    \/ Sent("failed", FALSE, NoResult.out)
        /\ include' = FALSE
        /\ idle' = IF include THEN 0 ELSE idle
        /\ UNCHANGED <<form, touched, source, result, edits, opening, pending>>

\* A draft that was saved reloads the list, which gives up opening another.
Answer ==
    /\ request.state \in {"answered", "failed"}
    /\ request' = NoRequest
    /\ result' = IF request.state = "answered" /\ request.fresh
                 THEN [form |-> request.form, made |-> TRUE, age |-> 0, out |-> request.out]
                 ELSE result
    /\ opening' = IF request.state = "answered" /\ request.save THEN NoOpening ELSE opening
    /\ UNCHANGED <<form, touched, source, include, idle, edits, drafts, pending>>

-----------------------------------------------------------------------------
(* Saved drafts. *)
OpenBegin ==
    /\ pending = NoDraft /\ ~opening.active
    /\ \E d \in drafts, titled \in BOOLEAN :   \* a title typed counts as an edit
          opening' = [draft |-> d, dirty |-> Dirty \/ titled, active |-> TRUE]
    /\ UNCHANGED <<client, drafts, pending>>

Restored(d) ==
    [d.settings EXCEPT !.pasted = NoDocument, !.include = FALSE,
                       !.filled = @ \cup {"wireguardEndpointPort"},
                       !.port = IF @ = NoPort THEN Blank.port ELSE @]
\* Confirmation is asked for when the click found edited inputs.
OpenArrives ==
    /\ opening.active /\ opening' = NoOpening
    /\ \/ UNCHANGED <<client, drafts, pending>>        \* it failed, or is gone
       \/ /\ Readable(opening.draft) /\ opening.dirty
          /\ pending' = opening.draft /\ UNCHANGED <<client, drafts>>
       \/ /\ Readable(opening.draft) /\ ~opening.dirty
          /\ Replaced(Restored(opening.draft)) /\ source' = FALSE
          /\ UNCHANGED <<edits, drafts, pending>>
ConfirmDraft ==
    /\ pending # NoDraft /\ pending' = NoDraft
    /\ \/ UNCHANGED client
       \/ Replaced(Restored(pending)) /\ source' = FALSE /\ UNCHANGED edits
    /\ UNCHANGED <<drafts, opening>>
DeleteDraft ==
    /\ pending = NoDraft /\ ~opening.active
    /\ \E d \in drafts : drafts' = drafts \ {d}
    /\ UNCHANGED <<client, opening, pending>>

Next ==
    \/ Update \/ ChangeServerFilter \/ ChooseAnyLocation \/ SelectTask \/ SelectWorkflowStep
    \/ SelectProvider \/ SelectVpnType \/ UsePortSuggestion \/ TypeSource
    \/ ApplyWireguardImport \/ LoadSettings \/ ToggleConsent \/ ClearByHand \/ Expire \/ Tick
    \/ Submit \/ Answer \/ OpenBegin \/ OpenArrives \/ ConfirmDraft \/ DeleteDraft

Spec == Init /\ [][Next]_vars

-----------------------------------------------------------------------------
(* Properties. *)

\* The output shown was generated from the inputs shown beside it, whatever
\* happened to the form while the server was at work.
ShownForForm == result.made => result.form = form

\* Credentials are gone fifteen minutes after the last change of the inputs
\* that hold them, and from the output fifteen minutes after it was made, also
\* while other inputs are still being edited.
SecretsExpire ==
    /\ Held => idle <= Expiry
    /\ result.out.legible # {} => result.age <= Expiry

\* No draft holds a credential, not even one the form kept from another task.
DraftsRedacted == \A d \in drafts : d.legible = {}

\* A proposal passes the structural checks made of a document that is pasted.
ProposalsWellFormed ==
    result.made /\ result.form.task \notin ReviewTasks => result.out.formed

\* What the documentation says of a saved draft: it can be opened again.
DraftsReopen == \A d \in drafts : Readable(d)
=============================================================================
