---------------------------- MODULE PagesProofs -----------------------------
(***************************************************************************)
(* What the pages guarantee, for any tasks, providers, fields, documents,  *)
(* filters, servers, stacks, forms and limits. Of the Assistant: what is   *)
(* shown belongs to the form, credentials leave the page in time, and no   *)
(* draft holds one. What the generator writes has to be known: credentials *)
(* that can be read are in its output only if they were asked for, and     *)
(* then it says so. Of the panel: what is confirmed is what is shown.      *)
(* Whatever sets a plan, a tick or an inspection compares it with the page *)
(* of that moment, and whatever changes the page takes them away. Of the   *)
(* filters: an answer is kept only for the filters it was asked for, so    *)
(* that what is suggested beside them is accepted with them.               *)
(***************************************************************************)
EXTENDS Assistant, Catalog, StackPanel, TLAPS

Shaped(document) == \A s \in Of(document) : "env" \in DOMAIN document.services[s]

\* Of a form, only these fields matter to what is proved.
Needed == {"include", "filled", "pasted", "task", "port", "scope", "container", "app", "service"}
FormOK(f) == Needed \subseteq DOMAIN f /\ Shaped(f.pasted)
OutOK(out) == /\ Shaped(out.document)
              /\ out.legible # {} => out.contains /\ ~out.redacted

-----------------------------------------------------------------------------
(* The generator. *)
LEMMA AccountsHidden == Accounts \subseteq Hidden
BY DEF Accounts, Hidden

\* No document holds no credentials.
LEMMA NothingShaped == Shaped(NoDocument) /\ Legible(NoDocument) = {}
<1>1. Of(NoDocument) = {} BY DEF NoDocument, Document, Of
<1> QED BY <1>1 DEF Shaped, Legible

\* A redacted document holds none that can be read.
LEMMA RedactedFacts ==
  ASSUME NEW document, Shaped(document)
  PROVE  Shaped(Redacted(document)) /\ Legible(Redacted(document)) \cap Accounts = {}
<1> DEFINE R == Redacted(document)
<1>1. R.services = [s \in Of(document) |->
        [document.services[s] EXCEPT !.env = @ \ Hidden,
                                     !.masked = @ \cup (document.services[s].env \cap Hidden)]]
  BY DEF Redacted, Document
<1>2. Of(R) = Of(document) BY <1>1 DEF Of
<1>3. \A s \in Of(document) : /\ "env" \in DOMAIN R.services[s]
                              /\ R.services[s].env = document.services[s].env \ Hidden
  BY <1>1 DEF Shaped
<1> HIDE DEF R
<1>4. Shaped(R) BY <1>2, <1>3 DEF Shaped
<1>5. \A s \in Of(R) : R.services[s].env \cap Accounts = {}
  BY <1>2, <1>3, AccountsHidden
<1>6. Legible(R) \cap Accounts = {} BY <1>5 DEF Legible
<1> QED BY <1>4, <1>6 DEF R

\* What the builder writes has the shape of an output.
LEMMA BuiltFacts ==
  ASSUME NEW in, NEW vpn
  PROVE  Shaped(Built(in, vpn)) /\ Legible(Built(in, vpn)) \subseteq Shown(in)
<1>1. "env" \in DOMAIN VpnService(in) /\ VpnService(in).env \subseteq Shown(in)
  BY DEF VpnService, Service
<1>2. "env" \in DOMAIN AppService(in, vpn) /\ AppService(in, vpn).env = {}
  BY DEF AppService, Service
<1>3. PICK names : Built(in, vpn).services =
        [s \in names |-> IF s = vpn THEN VpnService(in) ELSE AppService(in, vpn)]
  BY DEF Built, Document
<1>4. \A s \in Of(Built(in, vpn)) : /\ "env" \in DOMAIN Built(in, vpn).services[s]
                                    /\ Built(in, vpn).services[s].env \subseteq Shown(in)
  BY <1>1, <1>2, <1>3 DEF Of
<1> QED BY <1>4 DEF Shaped, Legible

\* Credentials are written out only if that was asked for.
LEMMA ShownFacts ==
  ASSUME NEW in
  PROVE  /\ Shown(in) \cap Accounts # {} => in.include /\ in.filled \cap Accounts # {}
         /\ ~in.include => Shown(in) \cap Accounts = {}
<1>1. Written(in) \subseteq in.filled BY DEF Written
<1> QED BY <1>1 DEF Shown

\* What is not asked for is masked; what is asked for is announced.
LEMMA GeneratedMasks ==
  ASSUME NEW asked, Shaped(Scoped(asked).pasted)
  PROVE  /\ OutOK(Generated(asked))
         /\ ~Scoped(asked).include => Generated(asked).legible = {}
<1> DEFINE in  == Scoped(asked)
           vpn == CHOOSE t \in Target(in) : TRUE
           reviewed == in.task \in ReviewTasks
           doc == IF ~reviewed THEN Built(in, vpn)
                  ELSE IF Inspected(in) THEN Redacted(in.pasted) ELSE NoDocument
           G == Generated(asked)
<1>1. /\ G.document = doc
      /\ G.legible = (Legible(doc) \cup (IF reviewed THEN {} ELSE Shown(in))) \cap Accounts
      /\ G.contains = Contains(in)
      /\ G.redacted = (Contains(in) /\ (reviewed \/ ~in.include))
  BY DEF Generated
<1> HIDE DEF in, vpn, G
<1>2. Shaped(in.pasted) BY DEF in
<1>3. CASE reviewed
  <2>1. doc = Redacted(in.pasted) \/ doc = NoDocument BY <1>3
  <2>2. Shaped(doc) /\ Legible(doc) \cap Accounts = {}
    BY <1>2, <2>1, RedactedFacts, NothingShaped
  <2>3. G.legible = {} BY <1>1, <1>3, <2>2
  <2> QED BY <1>1, <2>2, <2>3 DEF OutOK, G, in
<1>4. CASE ~reviewed
  <2>1. doc = Built(in, vpn) BY <1>4
  <2>2. Shaped(doc) /\ Legible(doc) \subseteq Shown(in) BY <2>1, BuiltFacts
  <2>3. G.legible = Shown(in) \cap Accounts BY <1>1, <1>4, <2>2
  <2>4. G.legible # {} => in.include /\ in.filled \cap Accounts # {} BY <2>3, ShownFacts
  <2>5. G.legible # {} => G.contains BY <1>1, <2>4 DEF Contains
  <2>6. G.legible # {} => ~G.redacted BY <1>1, <1>4, <2>4
  <2> QED BY <1>1, <2>2, <2>4, <2>5, <2>6 DEF OutOK, G, in
<1> QED BY <1>3, <1>4

\* What a task leaves out is neither the question nor the pasted document.
LEMMA ScopedFacts ==
  ASSUME NEW in, Needed \subseteq DOMAIN in
  PROVE  Scoped(in).include = in.include /\ Scoped(in).pasted = in.pasted
BY DEF Scoped, Needed

\* What the generator is given is a form again.
LEMMA InputFacts ==
  ASSUME NEW f, NEW consent, FormOK(f)
  PROVE  FormOK(Input(f, consent))
BY DEF Input, FormOK, Needed

\* What is generated announces the credentials it holds.
LEMMA GeneratedOK ==
  ASSUME NEW f, NEW consent, FormOK(f)
  PROVE  OutOK(Generated(Input(f, consent)))
<1>1. FormOK(Input(f, consent)) BY InputFacts
<1>2. Shaped(Scoped(Input(f, consent)).pasted) BY <1>1, ScopedFacts DEF FormOK
<1> QED BY <1>2, GeneratedMasks

\* What a draft keeps holds no credential.
LEMMA DraftMasks ==
  ASSUME NEW in, FormOK(in)
  PROVE  Needed \subseteq DOMAIN Draft(in).settings /\ Draft(in).legible = {}
<1> DEFINE R == RedactedInput(in)
           hid == [in EXCEPT !.include = FALSE]
<1>1. /\ Needed \subseteq DOMAIN R /\ R.filled = in.filled \ Hidden
      /\ R.pasted = Redacted(in.pasted) \/ R.pasted = NoDocument
  BY DEF RedactedInput, FormOK, Needed
<1>2. FormOK(hid) /\ hid.include = FALSE BY DEF FormOK, Needed
<1>3. Draft(in).settings = R
      /\ Draft(in).legible = (R.filled \cup Legible(R.pasted) \cup Generated(hid).legible) \cap Accounts
  BY DEF Draft
<1> HIDE DEF R, hid
<1>4. Legible(R.pasted) \cap Accounts = {}
  BY <1>1, RedactedFacts, NothingShaped DEF FormOK
<1>5. Shaped(Scoped(hid).pasted) /\ Scoped(hid).include = FALSE
  BY <1>2, ScopedFacts DEF FormOK
<1>6. Generated(hid).legible = {} BY <1>5, GeneratedMasks
<1>7. R.filled \cap Accounts = {} BY <1>1, AccountsHidden
<1> QED BY <1>1, <1>3, <1>4, <1>6, <1>7

-----------------------------------------------------------------------------
(* The page. *)
Formed ==
  /\ FormOK(form) /\ idle \in Nat
  /\ DOMAIN result = {"form", "made", "age", "out"} /\ result.age \in Nat
  /\ OutOK(result.out) /\ (result.out.legible # {} => result.made)
  /\ DOMAIN request = {"state", "form", "fresh", "save", "out"} /\ OutOK(request.out)

\* An answer that is still of use is for the form there is.
FreshForForm == request.fresh => request.form = form

Kept == \A d \in drafts \cup {opening.draft, pending} :
          Needed \subseteq DOMAIN d.settings /\ d.legible = {}

AssistantInv == /\ Formed /\ FreshForForm /\ Kept
                /\ ShownForForm /\ SecretsExpire

\* No output announces nothing.
LEMMA EmptyOK ==
  /\ OutOK(NoResult.out) /\ NoResult.out.legible = {} /\ NoResult.made = FALSE
  /\ NoResult.age = 0 /\ DOMAIN NoResult = {"form", "made", "age", "out"}
  /\ NoRequest.fresh = FALSE /\ NoRequest.out = NoResult.out
  /\ DOMAIN NoRequest = {"state", "form", "fresh", "save", "out"}
BY NothingShaped DEF OutOK, NoResult, NoRequest

\* The blank form is a form.
LEMMA BlankOK == FormOK(Blank) /\ Needed \subseteq DOMAIN Blank
BY NothingShaped DEF FormOK, Blank, Needed

\* The form is set anew, by an edit, an expiry or a draft.
LEMMA ReplacedHolds ==
  ASSUME AssistantInv, NEW f, FormOK(f), Replaced(f)
  PROVE  Formed' /\ FreshForForm' /\ ShownForForm' /\ SecretsExpire'
<1>1. form' = f /\ idle' = 0 /\ result' = NoResult /\ request' = [request EXCEPT !.fresh = FALSE]
  BY DEF Replaced
<1>2. DOMAIN request' = DOMAIN request /\ request'.fresh = FALSE /\ request'.out = request.out
  BY <1>1 DEF AssistantInv, Formed
<1>3. Formed' BY <1>1, <1>2, EmptyOK DEF AssistantInv, Formed
<1>4. FreshForForm' /\ ShownForForm' BY <1>1, <1>2, EmptyOK DEF FreshForForm, ShownForForm
<1>5. SecretsExpire' BY <1>1, EmptyOK, BoundsAssumption DEF SecretsExpire
<1> QED BY <1>3, <1>4, <1>5

\* A change of the form outdates every answer.
LEMMA ChangedHolds ==
  ASSUME AssistantInv, NEW f, FormOK(f), Changed(f)
  PROVE  AssistantInv'
<1>1. Replaced(f) /\ UNCHANGED <<drafts, opening, pending>> BY DEF Changed, panel
<1>2. Kept' BY <1>1 DEF AssistantInv, Kept
<1> QED BY <1>1, <1>2, ReplacedHolds DEF AssistantInv

\* So does a field that is edited,
LEMMA UpdateHolds == ASSUME AssistantInv, Update PROVE AssistantInv'
<1>0. FormOK(form) BY DEF AssistantInv, Formed
<1>1. CASE \E x \in Typed : \/ Changed([form EXCEPT !.filled = @ \ {x}])
                            \/ Changed([form EXCEPT !.filled = @ \cup {x}])
  <2>1. \A x : FormOK([form EXCEPT !.filled = form.filled \ {x}])
              /\ FormOK([form EXCEPT !.filled = form.filled \cup {x}])
    BY <1>0 DEF FormOK, Needed
  <2> QED BY <1>1, <2>1, ChangedHolds
<1>2. CASE \E a : Changed([form EXCEPT !.auth = a])
  <2>1. \A a : FormOK([form EXCEPT !.auth = a]) BY <1>0 DEF FormOK, Needed
  <2> QED BY <1>2, <2>1, ChangedHolds
<1>3. CASE Changed([form EXCEPT !.scope = "separate_project", !.container = "vpn"])
  <2>1. FormOK([form EXCEPT !.scope = "separate_project", !.container = "vpn"])
    BY <1>0 DEF FormOK, Needed
  <2> QED BY <1>3, <2>1, ChangedHolds
<1>4. CASE \E s \in Stacks : Changed([form EXCEPT !.pasted = s])
  <2>1. \A s \in Stacks : FormOK([form EXCEPT !.pasted = s])
    BY <1>0, StacksAssumption DEF FormOK, Needed, Shaped
  <2> QED BY <1>4, <2>1, ChangedHolds
<1> QED BY <1>1, <1>2, <1>3, <1>4 DEF Update

\* a filter that is changed,
LEMMA FilterHolds == ASSUME AssistantInv, ChangeServerFilter \/ ChooseAnyLocation PROVE AssistantInv'
<1>0. FormOK(form) BY DEF AssistantInv, Formed
<1>1. \A a, b : FormOK([form EXCEPT !.any = a, !.filters = b]) BY <1>0 DEF FormOK, Needed
<1>2. \E a, b : Changed([form EXCEPT !.any = a, !.filters = b])
  BY DEF ChangeServerFilter, ChooseAnyLocation
<1> QED BY <1>1, <1>2, ChangedHolds

\* A form of another task is a form,
LEMMA WithTaskOK ==
  ASSUME NEW f, NEW task, FormOK(f)
  PROVE  FormOK(WithTask(f, task)) /\ WithTask(f, task).pasted = f.pasted
BY DEF WithTask, FormOK, Needed

\* so is the one a provider is chosen in,
LEMMA SelectHolds ==
  ASSUME AssistantInv, SelectTask \/ SelectWorkflowStep \/ SelectProvider \/ SelectVpnType
                       \/ UsePortSuggestion
  PROVE  AssistantInv'
<1>0. FormOK(form) /\ Shaped(result.out.document) BY DEF AssistantInv, Formed, OutOK
<1>1. CASE SelectTask BY <1>0, <1>1, WithTaskOK, ChangedHolds DEF SelectTask
<1>2. CASE SelectWorkflowStep
  <2>1. PICK task, document :
          /\ document \in {form.pasted, result.out.document}
          /\ Changed([WithTask(form, task) EXCEPT !.pasted = document])
    <3>1. CASE Changed([WithTask(form, "publish_app_port") EXCEPT !.pasted = result.out.document])
      BY <3>1
    <3>2. CASE Changed([WithTask(form, "route_app_manually") EXCEPT !.pasted =
                 IF result.made /\ result.out.valid /\ form.task = "new_gluetun_setup"
                    /\ @ = NoDocument
                 THEN result.out.document ELSE @])
      BY <1>0, <3>2, WithTaskOK
    <3> QED BY <1>2, <3>1, <3>2 DEF SelectWorkflowStep
  <2>2. FormOK(WithTask(form, task)) BY <1>0, WithTaskOK
  <2>3. Shaped(document) BY <1>0, <2>1 DEF FormOK
  <2>4. FormOK([WithTask(form, task) EXCEPT !.pasted = document])
    BY <2>2, <2>3 DEF FormOK, Needed
  <2> QED BY <2>1, <2>4, ChangedHolds
<1>3. CASE SelectProvider
  <2>1. \A p, v, b, e : FormOK([form EXCEPT !.provider = p, !.filters = b, !.vpn = v, !.filled = e])
    BY <1>0 DEF FormOK, Needed
  <2>2. \E p, v, b, e : Changed([form EXCEPT !.provider = p, !.filters = b, !.vpn = v, !.filled = e])
    BY <1>3 DEF SelectProvider
  <2> QED BY <2>1, <2>2, ChangedHolds
<1>4. CASE SelectVpnType
  <2>1. \A v, b : FormOK([form EXCEPT !.vpn = v, !.filters = b]) BY <1>0 DEF FormOK, Needed
  <2> QED BY <1>4, <2>1, ChangedHolds DEF SelectVpnType
<1>5. CASE UsePortSuggestion
  <2>1. FormOK([form EXCEPT !.task = "publish_app_port"]) BY <1>0 DEF FormOK, Needed
  <2> QED BY <1>5, <2>1, ChangedHolds DEF UsePortSuggestion
<1> QED BY <1>1, <1>2, <1>3, <1>4, <1>5

\* and the one that is imported or loaded.
LEMMA LoadHolds == ASSUME AssistantInv, ApplyWireguardImport \/ LoadSettings PROVE AssistantInv'
<1>0. FormOK(form) BY DEF AssistantInv, Formed
<1>1. CASE ApplyWireguardImport
  <2>1. \A p, v, b, k, e :
          FormOK([form EXCEPT !.provider = p, !.vpn = v, !.filters = b, !.task = k, !.filled = e])
    BY <1>0 DEF FormOK, Needed
  <2>2. \E p, v, b, k, e :
          Changed([form EXCEPT !.provider = p, !.vpn = v, !.filters = b, !.task = k, !.filled = e])
    BY <1>1 DEF ApplyWireguardImport
  <2> QED BY <2>1, <2>2, ChangedHolds
<1>2. CASE LoadSettings
  <2>1. \A k, p, v, e : FormOK([Blank EXCEPT !.task = k, !.provider = p, !.vpn = v, !.filled = e])
    BY BlankOK DEF FormOK, Needed
  <2>2. \E k, p, v, e : Replaced([Blank EXCEPT !.task = k, !.provider = p, !.vpn = v, !.filled = e])
    BY <1>2 DEF LoadSettings
  <2>3. Kept' BY <1>2 DEF LoadSettings, panel, AssistantInv, Kept
  <2> QED BY <2>1, <2>2, <2>3, ReplacedHolds DEF AssistantInv
<1> QED BY <1>1, <1>2

-----------------------------------------------------------------------------
\* What changes beside the form.
LEMMA BesideHolds == ASSUME AssistantInv, TypeSource \/ ToggleConsent PROVE AssistantInv'
<1>1. /\ UNCHANGED <<form, request, drafts, opening, pending>> /\ idle' = 0
      /\ result' \in {result, NoResult}
  BY DEF TypeSource, ToggleConsent, panel
<1>2. Formed' BY <1>1, EmptyOK DEF AssistantInv, Formed
<1>3. FreshForForm' /\ ShownForForm' /\ Kept'
  BY <1>1, EmptyOK DEF AssistantInv, FreshForForm, ShownForForm, Kept
<1>4. SecretsExpire' BY <1>1, EmptyOK, BoundsAssumption DEF AssistantInv, SecretsExpire
<1> QED BY <1>2, <1>3, <1>4 DEF AssistantInv

\* What is cleared holds nothing.
LEMMA ClearHolds == ASSUME AssistantInv, ClearByHand \/ Expire PROVE AssistantInv'
<1>1. Replaced(ClearedForm) /\ UNCHANGED <<drafts, opening, pending>>
  BY DEF ClearByHand, Expire, ClearSensitive, panel
<1>2. FormOK(ClearedForm)
  BY NothingShaped DEF AssistantInv, Formed, FormOK, ClearedForm, Needed
<1>3. Kept' BY <1>1 DEF AssistantInv, Kept
<1> QED BY <1>1, <1>2, <1>3, ReplacedHolds DEF AssistantInv

\* Time brings the expiry nearer, and nothing else.
LEMMA TickHolds == ASSUME AssistantInv, Tick PROVE AssistantInv'
<1>1. /\ ~FormDue /\ ~ResultDue
      /\ UNCHANGED <<form, touched, source, include, request, drafts, opening, pending>>
      /\ idle' = IF Held THEN idle + 1 ELSE 0
      /\ result' = IF result.out.legible # {} /\ result.age <= Expiry
                   THEN [result EXCEPT !.age = @ + 1] ELSE result
  BY DEF Tick, panel
<1>2. Expiry \in Nat /\ idle \in Nat /\ result.age \in Nat
  BY BoundsAssumption DEF AssistantInv, Formed
<1>3. /\ DOMAIN result' = DOMAIN result /\ result'.out = result.out
      /\ result'.made = result.made /\ result'.form = result.form
      /\ result'.age = IF result.out.legible # {} /\ result.age <= Expiry
                       THEN result.age + 1 ELSE result.age
  BY <1>1 DEF AssistantInv, Formed
<1>4. result.out.legible # {} => result.age < Expiry
  BY <1>1, <1>2 DEF AssistantInv, Formed, OutOK, ResultDue
<1>5. Held' = Held BY <1>1 DEF Held
<1>6. Held => idle < Expiry BY <1>1, <1>2 DEF FormDue
<1>7. SecretsExpire' BY <1>1, <1>2, <1>3, <1>4, <1>5, <1>6 DEF SecretsExpire
<1>8. Formed' BY <1>1, <1>2, <1>3 DEF AssistantInv, Formed
<1>9. FreshForForm' /\ ShownForForm' /\ Kept'
  BY <1>1, <1>3 DEF AssistantInv, FreshForForm, ShownForForm, Kept
<1> QED BY <1>7, <1>8, <1>9 DEF AssistantInv

-----------------------------------------------------------------------------
\* A generation, and its answer.
LEMMA SubmitHolds == ASSUME AssistantInv, Submit PROVE AssistantInv'
<1> DEFINE in == Input(form, include)
<1>1. /\ UNCHANGED <<form, touched, source, result, opening, pending>> /\ include' = FALSE
      /\ idle' = IF include THEN 0 ELSE idle
  BY DEF Submit
<1>2. \E state, save : \E out \in {NoResult.out, Generated(in)} :
        request' = [NoRequest EXCEPT !.state = state, !.form = form, !.fresh = TRUE,
                                     !.save = save, !.out = out]
  BY DEF Submit
<1>3. drafts' = drafts \/ drafts' = drafts \cup {Draft(in)} BY DEF Submit
<1>4. FormOK(form) /\ FormOK(in) BY InputFacts DEF AssistantInv, Formed
<1>5. OutOK(Generated(in)) /\ OutOK(NoResult.out) BY <1>4, GeneratedOK, EmptyOK
<1> HIDE DEF in
<1>6. DOMAIN request' = DOMAIN NoRequest /\ request'.form = form /\ OutOK(request'.out)
  BY <1>2, <1>5, EmptyOK
<1>7. Formed' BY <1>1, <1>6, EmptyOK DEF AssistantInv, Formed
<1>8. FreshForForm' /\ ShownForForm' BY <1>1, <1>6 DEF AssistantInv, FreshForForm, ShownForForm
<1>9. Kept' BY <1>1, <1>3, <1>4, DraftMasks DEF AssistantInv, Kept
<1>10. Held' => Held BY <1>1 DEF Held
<1>11. SecretsExpire' BY <1>1, <1>10, BoundsAssumption DEF AssistantInv, SecretsExpire
<1> QED BY <1>7, <1>8, <1>9, <1>11 DEF AssistantInv

\* No draft holds nothing.
LEMMA NoDraftOK == /\ Needed \subseteq DOMAIN NoDraft.settings /\ NoDraft.legible = {}
                   /\ NoOpening.draft = NoDraft
BY BlankOK DEF NoDraft, NoOpening

\* An answer is shown if the form is the one it was asked for.
LEMMA AnswerHolds == ASSUME AssistantInv, Answer PROVE AssistantInv'
<1>1. /\ UNCHANGED <<form, touched, source, include, idle, drafts, pending>> /\ request' = NoRequest
      /\ opening' \in {opening, NoOpening}
      /\ result' = IF request.state = "answered" /\ request.fresh
                   THEN [form |-> request.form, made |-> TRUE, age |-> 0, out |-> request.out]
                   ELSE result
  BY DEF Answer
<1>2. Held' = Held BY <1>1 DEF Held
<1>3. Formed' BY <1>1, EmptyOK DEF AssistantInv, Formed
<1>4. FreshForForm' /\ ShownForForm' BY <1>1, EmptyOK DEF AssistantInv, FreshForForm, ShownForForm
<1>5. Kept' BY <1>1, NoDraftOK DEF AssistantInv, Kept
<1>6. SecretsExpire' BY <1>1, <1>2, BoundsAssumption DEF AssistantInv, SecretsExpire
<1> QED BY <1>3, <1>4, <1>5, <1>6 DEF AssistantInv

-----------------------------------------------------------------------------
\* Drafts.
LEMMA ClientRests ==
  ASSUME AssistantInv, UNCHANGED client
  PROVE  Formed' /\ FreshForForm' /\ ShownForForm' /\ SecretsExpire'
BY DEF client, AssistantInv, Formed, FreshForForm, ShownForForm, SecretsExpire, Held

\* A draft that is restored is a form.
LEMMA RestoredOK ==
  ASSUME NEW d, Needed \subseteq DOMAIN d.settings
  PROVE  FormOK(Restored(d))
BY NothingShaped DEF FormOK, Restored, Needed

\* Saving, opening and deleting a draft keep the page.
LEMMA DraftsHold ==
  ASSUME AssistantInv, OpenBegin \/ DeleteDraft \/ OpenArrives \/ ConfirmDraft
  PROVE  AssistantInv'
<1>1. CASE OpenBegin
  <2>1. PICK d \in drafts, titled \in BOOLEAN :
          opening' = [draft |-> d, dirty |-> Dirty \/ titled, active |-> TRUE]
    BY <1>1 DEF OpenBegin
  <2>2. UNCHANGED <<client, drafts, pending>> BY <1>1 DEF OpenBegin
  <2>3. Kept' BY <2>1, <2>2 DEF AssistantInv, Kept
  <2> QED BY <2>2, <2>3, ClientRests DEF AssistantInv
<1>2. CASE DeleteDraft
  <2>1. drafts' \subseteq drafts /\ UNCHANGED <<client, opening, pending>> BY <1>2 DEF DeleteDraft
  <2>2. Kept' BY <2>1 DEF AssistantInv, Kept
  <2> QED BY <2>1, <2>2, ClientRests DEF AssistantInv
<1>3. CASE OpenArrives
  <2>1. opening' = NoOpening /\ drafts' = drafts /\ pending' \in {pending, opening.draft}
    BY <1>3 DEF OpenArrives
  <2>2. Kept' BY <2>1, NoDraftOK DEF AssistantInv, Kept
  <2>3. UNCHANGED client \/ Replaced(Restored(opening.draft)) BY <1>3 DEF OpenArrives
  <2>4. FormOK(Restored(opening.draft)) BY RestoredOK DEF AssistantInv, Kept
  <2> QED BY <2>2, <2>3, <2>4, ClientRests, ReplacedHolds DEF AssistantInv
<1>4. CASE ConfirmDraft
  <2>1. pending' = NoDraft /\ UNCHANGED <<drafts, opening>> BY <1>4 DEF ConfirmDraft
  <2>2. Kept' BY <2>1, NoDraftOK DEF AssistantInv, Kept
  <2>3. UNCHANGED client \/ Replaced(Restored(pending)) BY <1>4 DEF ConfirmDraft
  <2>4. FormOK(Restored(pending)) BY RestoredOK DEF AssistantInv, Kept
  <2> QED BY <2>2, <2>3, <2>4, ClientRests, ReplacedHolds DEF AssistantInv
<1> QED BY <1>1, <1>2, <1>3, <1>4

-----------------------------------------------------------------------------
\* The page holds nothing at first.
LEMMA AssistantStart == Init => AssistantInv
<1> SUFFICES ASSUME Init PROVE AssistantInv OBVIOUS
<1>1. /\ form = Blank /\ idle = 0 /\ result = NoResult /\ request = NoRequest
      /\ drafts = {} /\ opening = NoOpening /\ pending = NoDraft
  BY DEF Init
<1>2. Formed /\ FreshForForm /\ ShownForForm
  BY <1>1, EmptyOK, BlankOK DEF Formed, FreshForForm, ShownForForm
<1>3. Kept BY <1>1, NoDraftOK DEF Kept
<1>4. SecretsExpire BY <1>1, EmptyOK, BoundsAssumption DEF SecretsExpire
<1> QED BY <1>2, <1>3, <1>4 DEF AssistantInv

\* Every step keeps it.
LEMMA AssistantStep == AssistantInv /\ [Next]_vars => AssistantInv'
<1> SUFFICES ASSUME AssistantInv, [Next]_vars PROVE AssistantInv' OBVIOUS
<1>1. CASE UNCHANGED vars
  <2>1. UNCHANGED client /\ Kept' BY <1>1 DEF vars, client, AssistantInv, Kept
  <2> QED BY <2>1, ClientRests DEF AssistantInv
<1>2. CASE Next
  BY <1>2, UpdateHolds, FilterHolds, SelectHolds, LoadHolds, BesideHolds, ClearHolds, TickHolds,
     SubmitHolds, AnswerHolds, DraftsHold DEF Next
<1> QED BY <1>1, <1>2

\* The output beside the form is of that form, whatever was edited, opened or
\* cleared while it was made (AssistantView.tsx 273).
THEOREM OutputOfForm == Spec => []ShownForForm
<1>1. AssistantInv => ShownForForm BY DEF AssistantInv
<1> QED BY <1>1, AssistantStart, AssistantStep, PTL DEF Spec

\* Credentials leave the form and the output when their time is over: the
\* output says of every credential in it that it is there (AssistantView.tsx 183).
THEOREM CredentialsLeave == Spec => []SecretsExpire
<1>1. AssistantInv => SecretsExpire BY DEF AssistantInv
<1> QED BY <1>1, AssistantStart, AssistantStep, PTL DEF Spec

\* No draft holds a credential in its settings, its document or its preview,
\* of whatever task the field is (generator.ts 759).
THEOREM DraftsHoldNone == Spec => []DraftsRedacted
<1>1. AssistantInv => DraftsRedacted BY DEF AssistantInv, Kept, DraftsRedacted
<1> QED BY <1>1, AssistantStart, AssistantStep, PTL DEF Spec

-----------------------------------------------------------------------------
(* Proposals. *)

\* A service the builder writes has no port that is none, waits for none but
\* the one beside it, and uses networks and volumes the document declares.
LEMMA BuiltValid ==
  ASSUME NEW in, NEW vpn, PortAccepted(in),
         in.task = "route_app_manually" => App(in) # vpn,
         in.scope = "separate_project" => in.task = "route_app_manually"
  PROVE  Valid(Built(in, vpn), in.task # "new_gluetun_setup")
<1>1. PICK app : app = IF in.task = "route_app_manually" THEN {App(in)} ELSE {}
  OBVIOUS
<1>2. PICK kept : kept = IF in.scope = "separate_project" THEN {} ELSE {vpn}
  OBVIOUS
<1>3. PICK nets, vols :
        /\ nets = IF in.task = "new_gluetun_setup" THEN {"tuniku"} ELSE {}
        /\ vols = IF in.task = "new_gluetun_setup" THEN {"gluetun_data"} ELSE {}
  OBVIOUS
<1>4. PICK d : d = Built(in, vpn)
  OBVIOUS
<1>5. d = [services |-> [s \in kept \cup app |->
                           IF s = vpn THEN VpnService(in) ELSE AppService(in, vpn)],
           networks |-> nets, volumes |-> vols]
  BY <1>1, <1>2, <1>3, <1>4 DEF Built, Document
<1>6. Of(d) = kept \cup app /\ Of(d) # {}
  BY <1>1, <1>2, <1>5 DEF Of
<1>7. ASSUME vpn \in Of(d)
      PROVE  ValidService(vpn, d, in.task # "new_gluetun_setup")
  <2>1. PICK s : s = d.services[vpn]
    OBVIOUS
  <2>2. s = VpnService(in)
    BY <1>5, <1>6, <1>7, <2>1
  <2>3. /\ s.namespace = None /\ s.deps = {}
        /\ s.networks = IF in.task = "new_gluetun_setup" THEN {"tuniku"} ELSE {}
        /\ s.volumes = IF in.task = "new_gluetun_setup" THEN {"gluetun_data"} ELSE {}
        /\ s.ports = IF in.port.first = 0 THEN {} ELSE {in.port}
    BY <2>2 DEF VpnService, Service
  <2>4. \A p \in s.ports : ValidPort(p)
    <3>1. NoPort.first = 0
      BY DEF NoPort
    <3> QED
      BY <2>3, <3>1 DEF PortAccepted
  <2>5. d.networks = nets /\ d.volumes = vols
    BY <1>5
  <2>6. s.namespace.kind = "none"
    <3>1. None.kind = "none"
      BY DEF None
    <3> QED
      BY <2>3, <3>1, Zenon
  <2>7. /\ s.deps \subseteq Of(d) /\ s.networks \subseteq d.networks \cup {"default"}
        /\ s.volumes \subseteq d.volumes /\ vpn \notin s.deps
    BY <1>3, <2>3, <2>5
  <2>8. s.namespace.kind # "service"
    BY <2>6
  <2> QED
    BY <2>1, <2>4, <2>6, <2>7, <2>8, Zenon DEF ValidService
<1>8. ASSUME NEW x \in Of(d), x # vpn
      PROVE  ValidService(x, d, in.task # "new_gluetun_setup")
  <2>1. in.task = "route_app_manually"
    BY <1>1, <1>2, <1>6, <1>8
  <2>2. PICK s : s = d.services[x]
    OBVIOUS
  <2>3. s = AppService(in, vpn)
    BY <1>5, <1>6, <1>8, <2>2
  <2>4. /\ s.networks = {} /\ s.ports = {} /\ s.deps = IF in.scope = "separate_project" THEN {} ELSE {vpn}
        /\ s.namespace = IF in.scope = "separate_project"
                         THEN [kind |-> "container", name |-> in.container]
                         ELSE [kind |-> "service", name |-> vpn]
    BY <2>3 DEF AppService, Service
  <2>5. s.namespace.kind = "service" => s.namespace.name \in Of(d)
    BY <1>2, <1>6, <2>4
  <2>6. x \notin s.deps
    BY <1>8, <2>4
  <2> QED
    BY <2>1, <2>2, <2>4, <2>5, <2>6 DEF ValidService
<1> QED
  BY <1>4, <1>6, <1>7, <1>8 DEF Valid

\* What the generator proposes passes the checks made of what is pasted.
LEMMA ProposalFormed ==
  ASSUME NEW f, NEW consent, FormOK(f), f.task \notin ReviewTasks,
         Accepted(Scoped(Input(f, consent)))
  PROVE  Generated(Input(f, consent)).formed
<1>1. PICK asked : asked = Input(f, consent)
  OBVIOUS
<1>2. PICK in : in = Scoped(asked)
  OBVIOUS
<1>3. asked.task = f.task /\ Needed \subseteq DOMAIN asked
  BY <1>1 DEF Input, FormOK, Needed
<1>4. /\ in.task = f.task
      /\ in.scope = "separate_project" => in.task = "route_app_manually"
  BY <1>2, <1>3 DEF Scoped, Needed
<1>5. PICK vpn : vpn = CHOOSE t \in Target(in) : TRUE
  OBVIOUS
<1>6. /\ vpn \in Target(in) /\ PortAccepted(in)
      /\ in.task = "route_app_manually" => App(in) \notin Target(in)
  BY <1>1, <1>2, <1>5 DEF Accepted, NamesAccepted
<1>7. Valid(Built(in, vpn), in.task # "new_gluetun_setup")
  BY <1>4, <1>6, BuiltValid
<1>8. Generated(asked).formed
        = Valid(IF in.task \in ReviewTasks THEN in.pasted ELSE Built(in, vpn),
                in.task \notin ReviewTasks /\ in.task # "new_gluetun_setup")
  BY <1>2, <1>4, <1>5 DEF Generated
<1> QED
  BY <1>1, <1>4, <1>7, <1>8

\* What is shown, and what is on its way.
GoodFor(f, out) == f.task \notin ReviewTasks => out.formed
ProposalsGood ==
  /\ request.state = "answered" => GoodFor(request.form, request.out)
  /\ result.made => GoodFor(result.form, result.out)

\* What is neither sent nor answered only goes.
LEMMA ProposalsKept ==
  ASSUME AssistantInv, ProposalsGood,
         \/ result' = NoResult
         \/ /\ result'.made = result.made /\ result'.form = result.form
            /\ result'.out = result.out,
         \/ request' = NoRequest
         \/ /\ request'.state = request.state /\ request'.form = request.form
            /\ request'.out = request.out
  PROVE  ProposalsGood'
BY DEF ProposalsGood, GoodFor, NoRequest, NoResult

\* Every step keeps that proposals are good.
LEMMA ProposalsStep ==
  ASSUME AssistantInv, ProposalsGood, [Next]_vars
  PROVE  ProposalsGood'
<1>1. DOMAIN request = DOMAIN NoRequest /\ DOMAIN result = DOMAIN NoResult
  BY EmptyOK DEF AssistantInv, Formed
<1>2. ASSUME NEW f, Replaced(f) PROVE ProposalsGood'
  <2>1. /\ request'.state = request.state /\ request'.form = request.form
        /\ request'.out = request.out /\ result' = NoResult
    BY <1>2 DEF Replaced
  <2> QED
    BY <2>1, ProposalsKept
<1>3. ASSUME UNCHANGED <<request, result>> PROVE ProposalsGood'
  BY <1>3, ProposalsKept
<1>4. ASSUME NEW f, Changed(f) PROVE ProposalsGood'
  BY <1>2, <1>4 DEF Changed
<1>5. ASSUME \/ Update \/ ChangeServerFilter \/ ChooseAnyLocation \/ SelectTask
             \/ SelectWorkflowStep \/ SelectProvider \/ SelectVpnType \/ UsePortSuggestion
             \/ ApplyWireguardImport \/ LoadSettings
      PROVE  ProposalsGood'
  BY <1>2, <1>4, <1>5, Zenon
  DEF Update, ChangeServerFilter, ChooseAnyLocation, SelectTask, SelectWorkflowStep, SelectProvider,
      SelectVpnType, UsePortSuggestion, ApplyWireguardImport, LoadSettings
<1>6. CASE TypeSource
  BY <1>3, <1>6 DEF TypeSource
<1>7. CASE ToggleConsent
  BY <1>7, ProposalsKept DEF ToggleConsent
<1>8. CASE ClearByHand \/ Expire
  BY <1>2, <1>8 DEF ClearByHand, Expire, ClearSensitive
<1>9. CASE Tick
  <2>1. result'.made = result.made /\ result'.form = result.form /\ result'.out = result.out
    BY <1>9 DEF Tick
  <2> QED
    BY <1>9, <2>1, ProposalsKept DEF Tick
<1>10. CASE Submit
  <2>1. UNCHANGED result
    BY <1>10 DEF Submit
  <2>2. PICK in : in = Input(form, include)
    OBVIOUS
  <2>3. \E state, save, out :
          /\ request' = [NoRequest EXCEPT !.state = state, !.form = form, !.fresh = TRUE,
                                          !.save = save, !.out = out]
          /\ state = "answered" => out = Generated(in) /\ Accepted(Scoped(in))
    <3>1. CASE \E save : request' = [NoRequest EXCEPT !.state = "failed", !.form = form,
                       !.fresh = TRUE, !.save = save, !.out = NoResult.out]
      <4>1. "failed" # "answered"
        OBVIOUS
      <4> QED
        BY <3>1, <4>1, Zenon
    <3>2. CASE /\ Accepted(Scoped(in))
               /\ \E save : request' = [NoRequest EXCEPT !.state = "answered", !.form = form,
                               !.fresh = TRUE, !.save = save, !.out = Generated(in)]
      BY <3>2
    <3> QED
      BY <1>10, <2>2, <3>1, <3>2 DEF Submit
  <2>4. /\ request'.form = form
        /\ request'.state = "answered" => request'.out = Generated(in) /\ Accepted(Scoped(in))
    BY <2>3, EmptyOK
  <2>5. request'.state = "answered" => GoodFor(request'.form, request'.out)
    BY <2>2, <2>4, ProposalFormed DEF GoodFor, AssistantInv, Formed
  <2> QED
    BY <2>1, <2>5 DEF ProposalsGood
<1>11. CASE Answer
  <2>1. /\ request' = NoRequest
        /\ \/ result' = result
           \/ /\ request.state = "answered"
              /\ result' = [form |-> request.form, made |-> TRUE, age |-> 0, out |-> request.out]
    BY <1>11 DEF Answer
  <2> QED
    BY <2>1 DEF ProposalsGood, GoodFor, NoRequest
<1>12. CASE OpenBegin \/ DeleteDraft
  BY <1>3, <1>12 DEF OpenBegin, DeleteDraft, client
<1>13. CASE OpenArrives
  BY <1>2, <1>3, <1>13, Zenon DEF OpenArrives, client
<1>14. CASE ConfirmDraft
  BY <1>2, <1>3, <1>14, Zenon DEF ConfirmDraft, client
<1>15. CASE UNCHANGED vars
  BY <1>3, <1>15 DEF vars
<1> QED
  BY <1>5, <1>6, <1>7, <1>8, <1>9, <1>10, <1>11, <1>12, <1>13, <1>14, <1>15 DEF Next

\* Whatever is asked for, what the generator answers would be accepted if it was
\* pasted as the stack of the next step: it names no service, network or volume
\* that it does not declare, and no port that is none (generator.ts:323-409, 597-619).
THEOREM ProposalsSound == Spec => []ProposalsWellFormed
<1>1. Init => ProposalsGood
  BY EmptyOK DEF Init, ProposalsGood, NoRequest
<1>2. ProposalsGood => ProposalsWellFormed
  BY DEF ProposalsGood, GoodFor, ProposalsWellFormed
<1>3. AssistantInv /\ ProposalsGood /\ [Next]_vars => ProposalsGood'
  BY ProposalsStep
<1> QED
  BY <1>1, <1>2, <1>3, AssistantStart, AssistantStep, PTL DEF Spec

-----------------------------------------------------------------------------
(* The panel of the managed stacks. *)

\* The form is a record, whatever it was set to.
FormShaped == entered = [input |-> entered.input, extra |-> entered.extra, loaded |-> entered.loaded]

\* The parts of ConfirmedAsShown.
PlanShown == plan # NoPlan => plan.of = Current /\ ticked \in {NoPlan, plan}
ReviewShown == reviewTicked \in {NoReview, review}
SettingsShown == settings.ready => entered.loaded = project
InspectionShown == diagnostics \in {NoProject, project}

PanelInv == FormShaped /\ ConfirmedAsShown

\* What is confirmed has four parts.
LEMMA Parts ==
  ConfirmedAsShown <=> PlanShown /\ ReviewShown /\ SettingsShown /\ InspectionShown
BY DEF ConfirmedAsShown, PlanShown, ReviewShown, SettingsShown, InspectionShown

\* A form that keeps its stack: the plan stays only if it is of the new form.
LEMMA FormHolds ==
  ASSUME PlanShown, NEW f, FormBecomes(f), project' = project
  PROVE  PlanShown' /\ entered' = f
<1>1. entered' = f BY DEF FormBecomes
<1>2. CASE Selection(project, f) = Current
  <2>1. Current' = Current /\ plan' = plan /\ ticked' = ticked
    BY <1>1, <1>2 DEF FormBecomes, Current
  <2> QED BY <1>1, <2>1 DEF PlanShown
<1>3. CASE Selection(project, f) # Current
  BY <1>1, <1>3 DEF FormBecomes, PlanShown
<1> QED BY <1>1, <1>2, <1>3

\* Another stack.
LEMMA ProjectHolds ==
  ASSUME FormShaped, NEW p, NEW i, ProjectBecomes(p, i)
  PROVE  PanelInv'
<1>1. entered' = [entered EXCEPT !.input = i, !.extra = {}] /\ plan' = NoPlan
      /\ reviewTicked' = NoReview /\ diagnostics' = NoProject
  BY DEF ProjectBecomes
<1>2. FormShaped' BY <1>1 DEF FormShaped
<1>3. settings'.ready = FALSE
  <2>1. CASE p = NoProject BY <2>1 DEF ProjectBecomes, NotAsked
  <2>2. CASE p # NoProject BY <2>2 DEF ProjectBecomes
  <2> QED BY <2>1, <2>2
<1>4. PlanShown' /\ ReviewShown' /\ SettingsShown' /\ InspectionShown'
  BY <1>1, <1>3 DEF PlanShown, ReviewShown, SettingsShown, InspectionShown
<1> QED BY <1>2, <1>4 DEF PanelInv, ConfirmedAsShown, PlanShown, ReviewShown, SettingsShown,
                          InspectionShown

\* What leaves the page as it is.
LEMMA PageRests ==
  ASSUME PanelInv, UNCHANGED <<project, entered, settings, confirming, diagnostics>>
  PROVE  PanelInv'
BY DEF PanelInv, FormShaped, ConfirmedAsShown, Current, confirming

\* Another project is another page.
LEMMA ChooseHolds == ASSUME PanelInv, ChooseProject PROVE PanelInv'
BY ProjectHolds DEF ChooseProject, PanelInv

\* An edit takes the plan and the ticks away.
LEMMA EditHolds == ASSUME PanelInv, Edit PROVE PanelInv'
<1>1. PICK i \in Inputs, extra \in Extras :
        FormBecomes([entered EXCEPT !.input = i, !.extra = extra])
  BY DEF Edit
<1>2. UNCHANGED <<project, settings, review, reviewTicked, diagnostics>>
  BY DEF Edit, watching
<1>3. PlanShown' /\ entered' = [entered EXCEPT !.input = i, !.extra = extra]
  BY <1>1, <1>2, FormHolds, Parts DEF PanelInv
<1>4. FormShaped' /\ entered'.loaded = entered.loaded BY <1>3 DEF PanelInv, FormShaped
<1>5. ReviewShown' /\ SettingsShown' /\ InspectionShown'
  BY <1>2, <1>4, Parts DEF PanelInv, ReviewShown, SettingsShown, InspectionShown
<1> QED BY <1>3, <1>4, <1>5 DEF PanelInv, ConfirmedAsShown, PlanShown, ReviewShown, SettingsShown,
                                InspectionShown

\* The settings of the stack are put into the form.
LEMMA LoadedHolds ==
  ASSUME PanelInv, NEW f, f = [input |-> f.input, extra |-> f.extra, loaded |-> project],
         FormBecomes(f), UNCHANGED <<project, review, reviewTicked, diagnostics>>
  PROVE  PanelInv'
<1>1. PlanShown' /\ entered' = f BY FormHolds, Parts DEF PanelInv
<1>2. FormShaped' /\ SettingsShown' BY <1>1 DEF FormShaped, SettingsShown
<1>3. ReviewShown' /\ InspectionShown' BY Parts DEF PanelInv, ReviewShown, InspectionShown
<1> QED BY <1>1, <1>2, <1>3 DEF PanelInv, ConfirmedAsShown, PlanShown, ReviewShown, SettingsShown,
                                InspectionShown

\* Settings that arrive fill the form of their stack.
LEMMA SettingsHold == ASSUME PanelInv, SettingsAnswered \/ SettingsFail PROVE PanelInv'
<1>1. CASE SettingsAnswered /\ settings.of = Current
  <2> DEFINE f == [entered EXCEPT !.input = Observed[project], !.loaded = project]
  <2>1. FormBecomes(f) /\ UNCHANGED <<project, review, reviewTicked, diagnostics>>
    BY <1>1 DEF SettingsAnswered, watching
  <2>2. f = [input |-> f.input, extra |-> f.extra, loaded |-> project]
    <3>1. f = [entered EXCEPT !.input = Observed[project], !.loaded = project] OBVIOUS
    <3> HIDE DEF f
    <3> QED BY <3>1 DEF PanelInv, FormShaped
  <2> HIDE DEF f
  <2> QED BY <2>1, <2>2, LoadedHolds
<1>2. CASE (SettingsAnswered /\ settings.of # Current) \/ SettingsFail
  <2>1. settings' = [NotAsked EXCEPT !.ready = settings.ready]
        /\ UNCHANGED <<project, entered, confirming, diagnostics>>
    BY <1>2 DEF SettingsAnswered, SettingsFail, watching, confirming
  <2>2. settings'.ready = settings.ready BY <2>1 DEF NotAsked
  <2> QED BY <2>1, <2>2 DEF PanelInv, FormShaped, ConfirmedAsShown, Current, confirming
<1> QED BY <1>1, <1>2

\* A tick is set for what is shown.
LEMMA TicksHold ==
  ASSUME PanelInv, TickPlan \/ TickReview \/ CancelReview \/ PlanExpires
  PROVE  PanelInv'
<1>1. UNCHANGED <<project, entered, settings, diagnostics>> /\ Current' = Current
  BY DEF TickPlan, TickReview, CancelReview, PlanExpires, watching, Current
<1>2. CASE TickPlan BY <1>1, <1>2 DEF TickPlan, PanelInv, FormShaped, ConfirmedAsShown
<1>3. CASE TickReview BY <1>1, <1>3 DEF TickReview, PanelInv, FormShaped, ConfirmedAsShown
<1>4. CASE CancelReview BY <1>1, <1>4 DEF CancelReview, PanelInv, FormShaped, ConfirmedAsShown
<1>5. CASE PlanExpires BY <1>1, <1>5 DEF PlanExpires, PanelInv, FormShaped, ConfirmedAsShown
<1> QED BY <1>2, <1>3, <1>4, <1>5

\* The answer to a button, by what was asked.
LEMMA AnsweredHolds == ASSUME PanelInv, Answered PROVE PanelInv'
<1>1. CASE run.work = "plan"
  <2>1. PlanArrives(run.arg) /\ UNCHANGED <<project, entered, settings, review, reviewTicked, diagnostics>>
    BY <1>1 DEF Answered
  <2>2. Current' = Current BY <2>1 DEF Current
  <2> QED BY <2>1, <2>2 DEF PlanArrives, PanelInv, FormShaped, ConfirmedAsShown
<1>2. CASE run.work = "apply"
  <2>1. plan' = NoPlan /\ UNCHANGED <<project, entered, settings, review, reviewTicked, diagnostics>>
    BY <1>2 DEF Answered
  <2> QED BY <2>1 DEF PanelInv, FormShaped, ConfirmedAsShown
<1>3. CASE run.work \in {"review", "confirm"}
  <2>1. reviewTicked' = NoReview /\ UNCHANGED <<project, entered, settings, plan, ticked, diagnostics>>
    BY <1>3 DEF Answered
  <2>2. Current' = Current BY <2>1 DEF Current
  <2> QED BY <2>1, <2>2 DEF PanelInv, FormShaped, ConfirmedAsShown
<1>4. CASE run.work = "inspect"
  <2>1. diagnostics' \in {project, diagnostics}
        /\ UNCHANGED <<project, entered, settings, plan, ticked, review, reviewTicked>>
    BY <1>4 DEF Answered
  <2>2. Current' = Current BY <2>1 DEF Current
  <2> QED BY <2>1, <2>2 DEF PanelInv, FormShaped, ConfirmedAsShown
<1>5. CASE run.work = "reload" /\ run.arg = Current
  <2> DEFINE f == [input |-> Observed[project], extra |-> entered.extra \ {"removals"},
                   loaded |-> project]
  <2>1. FormBecomes(f) /\ UNCHANGED <<project, review, reviewTicked, diagnostics>>
    BY <1>5 DEF Answered
  <2>2. f = [input |-> f.input, extra |-> f.extra, loaded |-> project] OBVIOUS
  <2> HIDE DEF f
  <2> QED BY <2>1, <2>2, LoadedHolds
<1>6. CASE run.work = "adopt"
  <2>1. PICK i \in Inputs : ProjectBecomes(run.arg, i) BY <1>6 DEF Answered
  <2> QED BY <2>1, ProjectHolds DEF PanelInv
<1>7. CASE /\ run.work \notin {"plan", "apply", "review", "confirm", "inspect", "adopt"}
           /\ ~(run.work = "reload" /\ run.arg = Current)
  <2>1. UNCHANGED <<project, entered, settings, plan, ticked, review, reviewTicked, diagnostics>>
    BY <1>7 DEF Answered
  <2> QED BY <2>1, PageRests DEF confirming
<1> QED BY <1>1, <1>2, <1>3, <1>4, <1>5, <1>6, <1>7

\* What only the helper, the status or the buttons do.
LEMMA OthersHold ==
  ASSUME PanelInv, Press \/ Performs \/ Fails \/ Elsewhere
  PROVE  PanelInv'
<1>1. UNCHANGED <<project, entered, settings, confirming, diagnostics>>
  BY DEF Press, Performs, Fails, Elsewhere, watching
<1> QED BY <1>1, PageRests

\* What is polled is shown, or takes a tick away.
LEMMA WatchHolds == ASSUME PanelInv, Watch \/ Inspects PROVE PanelInv'
<1>1. diagnostics' \in {NoProject, project, diagnostics}
  <2>1. CASE Inspects BY <2>1 DEF Inspects
  <2>2. CASE StatusAnswered BY <2>2 DEF StatusAnswered, StatusBecomes
  <2>3. CASE Poll BY <2>3 DEF Poll, StatusBecomes
  <2> QED BY <2>1, <2>2, <2>3 DEF Watch
<1>2. UNCHANGED <<project, entered, settings, confirming>> BY DEF Watch, Inspects
<1>3. Current' = Current BY <1>2 DEF Current
<1> QED BY <1>1, <1>2, <1>3 DEF PanelInv, FormShaped, ConfirmedAsShown, confirming

-----------------------------------------------------------------------------
\* At first nothing is ticked.
LEMMA PanelStart == PanelInit => PanelInv
<1> SUFFICES ASSUME PanelInit PROVE PanelInv OBVIOUS
<1>1. FormShaped BY DEF PanelInit, FormShaped
<1>2. ConfirmedAsShown BY DEF PanelInit, ConfirmedAsShown, NotAsked
<1> QED BY <1>1, <1>2 DEF PanelInv

\* Every step of the panel keeps it.
LEMMA PanelStep == PanelInv /\ [PanelNext]_panelVars => PanelInv'
<1> SUFFICES ASSUME PanelInv, [PanelNext]_panelVars PROVE PanelInv' OBVIOUS
<1>1. CASE UNCHANGED panelVars BY <1>1, PageRests DEF panelVars, confirming
<1>2. CASE PanelNext
  BY <1>2, ChooseHolds, EditHolds, SettingsHold, TicksHold, AnsweredHolds, OthersHold, WatchHolds
  DEF PanelNext
<1> QED BY <1>1, <1>2

\* Whatever is edited, chosen, answered or lost in whatever order: the plan,
\* the ticks and the inspection on the page belong to what is beside them
\* (ManagedStackPanel.tsx 105).
THEOREM PanelConfirmsWhatItShows == PanelSpec => []ConfirmedAsShown
<1>1. PanelInv => ConfirmedAsShown BY DEF PanelInv
<1> QED BY <1>1, PanelStart, PanelStep, PTL DEF PanelSpec

-----------------------------------------------------------------------------
(* The suggestions for the filters. *)

\* What can be read of the catalog: the file, or the one that came with it.
Present ==
  IF file.readable
  THEN [write |-> file.write, servers |-> file.servers, related |-> file.related]
  ELSE Bundled

GoesWith(f, v) ==
  Validate(f, v) /\ ValidateSelection([filters EXCEPT ![f].last = v])
\* An answer goes with the filters there are if it was read from the present
\* catalog, and that one can check them.
Holds(f, answer) ==
  /\ answer.write \in Nat /\ answer.write <= file.write
  /\ Present.related /\ answer.write = Present.write =>
       \A v \in answer.values : GoesWith(f, v)

FilesTyped ==
  /\ file \in [write : Nat \ {0}, servers : {Servers[r] : r \in Revisions},
               related : BOOLEAN, readable : BOOLEAN]
  /\ main \in Revisions
RefreshTyped ==
  /\ refresh = [t \in Tabs |-> refresh[t]]
  /\ \A t \in Tabs : /\ refresh[t].rev \in Revisions
                     /\ refresh[t] = [pc |-> refresh[t].pc, rev |-> refresh[t].rev]
MemoryTrue ==
  /\ parsed.write \in Nat /\ parsed.write <= file.write
  /\ parsed.write = file.write => parsed = Present /\ file.readable
FiltersTyped ==
  /\ filters = [f \in Fields |-> filters[f]]
  /\ \A f \in Fields : filters[f] = [done |-> filters[f].done, last |-> filters[f].last]
AnswersTyped ==
  /\ asking.got = [f \in Fields |-> asking.got[f]]
  /\ asking = [state |-> asking.state, got |-> asking.got]
CatalogTypes == FilesTyped /\ RefreshTyped /\ MemoryTrue /\ FiltersTyped /\ AnswersTyped

CatalogInv ==
  /\ CatalogTypes
  /\ asking.state = "asked" => \A f \in Fields : Holds(f, asking.got[f])
  /\ asking.state = "idle" => \A f \in Fields : Holds(f, options[f])

\* The cache in memory is never another than the file: the server answers
\* from what the file has.
LEMMA ReadsPresent == CatalogTypes => /\ GetProvider = Present
                                      /\ file.readable => LoadCached = Present
                                      /\ ~file.readable => LoadCached = NoMemory
<1> SUFFICES ASSUME CatalogTypes
             PROVE  /\ GetProvider = Present
                    /\ file.readable => LoadCached = Present
                    /\ ~file.readable => LoadCached = NoMemory
  OBVIOUS
<1>1. file.write \in Nat /\ file.write # 0
  BY DEF CatalogTypes, FilesTyped
<1>2. ASSUME file.readable PROVE LoadCached = Present /\ Present # NoMemory
  <2>1. Present.write # NoMemory.write
    BY <1>1, <1>2 DEF Present, NoMemory
  <2>2. LoadCached = Present
    BY <1>2 DEF LoadCached, Present, CatalogTypes, MemoryTrue
  <2> QED
    BY <2>1, <2>2
<1>3. ASSUME ~file.readable PROVE LoadCached = NoMemory /\ Present = Bundled
  BY <1>3 DEF LoadCached, Present
<1> QED
  BY <1>2, <1>3 DEF GetProvider

\* No server has an empty value, and the catalog that came with it is whole.
LEMMA ServersFilled ==
  CatalogTypes => \A s \in Present.servers, f \in Fields : NoValue \notin s[f]
<1> SUFFICES ASSUME CatalogTypes
             PROVE  \A s \in Present.servers, f \in Fields : NoValue \notin s[f]
  OBVIOUS
<1>1. \E r \in Revisions : Present.servers = Servers[r]
  <2>1. CASE file.readable
    BY <2>1 DEF Present, CatalogTypes, FilesTyped
  <2>2. CASE ~file.readable
    BY <2>2, CatalogAssumption DEF Present, Bundled, Revisions
  <2> QED
    BY <2>1, <2>2
<1> QED
  BY <1>1, CatalogAssumption DEF Revisions

\* What a server that fits the other filters has is accepted with them.
LEMMA QueryAccepted ==
  ASSUME CatalogTypes, Present.related, NEW f \in Fields
  PROVE  \A v \in Query(f, filters) : GoesWith(f, v)
<1> DEFINE others == [filters EXCEPT ![f] = NoFilter]
           fitting == {s \in Present.servers : MatchesAll(s, others)}
<1>1. GetProvider = Present
  BY ReadsPresent
<1>2. SUFFICES ASSUME NEW v \in ChoicesOf(fitting, f)
               PROVE  GoesWith(f, v)
  BY <1>1 DEF Query
<1>3. PICK s \in Present.servers : MatchesAll(s, others) /\ v \in s[f]
  BY <1>2 DEF ChoicesOf
<1>4. Validate(f, v)
  BY <1>1, <1>3 DEF Validate, ChoicesOf
<1>5. PICK with : with = [filters EXCEPT ![f].last = v]
  OBVIOUS
<1>6. v # NoValue
  BY <1>3, ServersFilled
<1>7. /\ with[f].last = v
      /\ \A g \in Fields \ {f} : with[g] = filters[g] /\ others[g] = filters[g]
  BY <1>5 DEF CatalogTypes, FiltersTyped
<1>8. MatchesAll(s, with)
  <2> SUFFICES ASSUME NEW g \in Fields
               PROVE  Chosen(with, g) = {} \/ Chosen(with, g) \cap s[g] # {}
    BY DEF MatchesAll
  <2>1. CASE g = f
    BY <2>1, <1>3, <1>6, <1>7 DEF Chosen
  <2>2. CASE g # f
    <3>1. Chosen(with, g) = Chosen(others, g)
      BY <2>2, <1>7 DEF Chosen
    <3> QED
      BY <3>1, <1>3 DEF MatchesAll
  <2> QED
    BY <2>1, <2>2
<1> QED
  BY <1>1, <1>3, <1>4, <1>5, <1>8 DEF GoesWith, ValidateSelection

\* At the start nothing is suggested, and nothing has been read.
LEMMA CatalogStart == CatalogInit => CatalogInv
<1> SUFFICES ASSUME CatalogInit PROVE CatalogInv
  OBVIOUS
<1>1. /\ filters = [f \in Fields |-> NoFilter] /\ asking = Delayed /\ parsed = NoMemory
      /\ main = 0 /\ refresh = [t \in Tabs |-> NoRefresh]
  BY DEF CatalogInit
<1>2. /\ file \in [write : Nat \ {0}, servers : {Servers[r] : r \in Revisions},
                   related : BOOLEAN, readable : BOOLEAN]
      /\ file.write = 1
  BY CatalogAssumption DEF CatalogInit, Revisions
<1>3. asking.state = "delayed" /\ asking.got = [f \in Fields |-> NoAnswer]
      /\ asking = [state |-> "delayed", got |-> [f \in Fields |-> NoAnswer]]
  BY <1>1 DEF Delayed, Quiet
<1>4. main \in Revisions /\ RefreshTyped
  BY <1>1, CatalogAssumption DEF NoRefresh, Revisions, RefreshTyped
<1>5. parsed.write = 0
  BY <1>1 DEF NoMemory
<1>6. MemoryTrue
  BY <1>2, <1>5 DEF MemoryTrue
<1>7. FiltersTyped
  BY <1>1 DEF NoFilter, FiltersTyped
<1>8. AnswersTyped
  BY <1>3 DEF AnswersTyped
<1>9. CatalogTypes
  BY <1>2, <1>4, <1>6, <1>7, <1>8 DEF CatalogTypes, FilesTyped
<1> QED
  BY <1>3, <1>9 DEF CatalogInv

\* What stays the same keeps what was answered.
LEMMA HoldsKept ==
  ASSUME UNCHANGED <<file, filters>>, CatalogTypes, CatalogTypes', NEW f \in Fields, NEW answer,
         Holds(f, answer)
  PROVE  Holds(f, answer)'
<1>1. Present' = Present
  BY DEF Present, Bundled
<1>2. GetProvider' = Present /\ GetProvider = Present
  <2>1. (CatalogTypes => GetProvider = Present)'
    BY ReadsPresent, PTL
  <2> QED
    BY <1>1, <2>1, ReadsPresent
<1>3. ASSUME NEW v PROVE GoesWith(f, v) => GoesWith(f, v)'
  <2>1. Validate(f, v) => Validate(f, v)'
    BY <1>2 DEF Validate, ChoicesOf
  <2>2. PICK with : with = [filters EXCEPT ![f].last = v]
    OBVIOUS
  <2>3. ValidateSelection(with) => ValidateSelection(with)'
    BY <1>2 DEF ValidateSelection, MatchesAll, Chosen
  <2> QED
    BY <2>1, <2>2, <2>3 DEF GoesWith
<1> QED
  BY <1>1, <1>3 DEF Holds

\* Nothing that was answered goes with a file that was written since.
LEMMA HoldsNoMore ==
  ASSUME CatalogTypes, file'.write = file.write + 1,
         file'.readable, NEW f \in Fields, NEW answer, Holds(f, answer)
  PROVE  Holds(f, answer)'
<1>1. file.write \in Nat
  BY DEF CatalogTypes, FilesTyped
<1>2. Present'.write = file.write + 1
  BY DEF Present
<1> QED
  BY <1>1, <1>2 DEF Holds

\* An answer that was not given says nothing.
LEMMA NoAnswerHolds ==
  ASSUME CatalogTypes, NEW f \in Fields PROVE Holds(f, NoAnswer) /\ Holds(f, Failed)
<1>1. file.write \in Nat
  BY DEF CatalogTypes, FilesTyped
<1> QED
  BY <1>1 DEF Holds, NoAnswer, Failed

\* How each step leaves the types.
LEMMA CatalogTypesKept == CatalogTypes /\ [CatalogNext]_catalogVars => CatalogTypes'
<1> SUFFICES ASSUME CatalogTypes, [CatalogNext]_catalogVars PROVE CatalogTypes'
  OBVIOUS
<1>0. /\ FilesTyped /\ MemoryTrue /\ FiltersTyped /\ AnswersTyped
      /\ RefreshTyped
  BY DEF CatalogTypes
<1>1. /\ UNCHANGED <<file, main>> => FilesTyped'
      /\ UNCHANGED refresh => RefreshTyped'
      /\ UNCHANGED filters => FiltersTyped'
      /\ UNCHANGED asking => AnswersTyped'
  BY <1>0, Zenon DEF FilesTyped, RefreshTyped, FiltersTyped, AnswersTyped
<1>2. UNCHANGED <<file, parsed>> => MemoryTrue'
  BY <1>0 DEF MemoryTrue, Present, Bundled
<1>3. ASSUME UNCHANGED catalogVars PROVE CatalogTypes'
  BY <1>1, <1>2, <1>3 DEF catalogVars, CatalogTypes
<1>4. ASSUME NEW t \in Tabs, RefreshBegin(t) \/ RefreshRevision(t) \/ RefreshFails(t)
      PROVE  CatalogTypes'
  <2>1. UNCHANGED <<file, parsed, main, filters, asking>>
    BY <1>4 DEF RefreshBegin, RefreshRevision, RefreshFails, page
  <2>2. RefreshTyped'
    BY <1>0, <1>4, CatalogAssumption
    DEF RefreshBegin, RefreshRevision, RefreshFails, FilesTyped, RefreshTyped, NoRefresh, Revisions
  <2> QED
    BY <1>0, <1>1, <1>2, <2>1, <2>2 DEF CatalogTypes, FilesTyped
<1>5. ASSUME NEW t \in Tabs, RefreshWrites(t) PROVE CatalogTypes'
  <2>1. refresh[t].rev \in Revisions /\ file.write \in Nat
    BY <1>0 DEF FilesTyped, RefreshTyped
  <2>2. /\ file' \in [write : Nat \ {0}, servers : {Servers[r] : r \in Revisions},
                      related : BOOLEAN, readable : BOOLEAN]
        /\ file'.write = file.write + 1
    BY <1>5, <2>1 DEF RefreshWrites
  <2>3. RefreshTyped'
    BY <1>0, <1>5, CatalogAssumption DEF RefreshWrites, RefreshTyped, NoRefresh, Revisions
  <2>4. AnswersTyped'
    BY <1>0, <1>1, <1>5 DEF RefreshWrites, page
  <2>5. MemoryTrue'
    BY <1>0, <1>5, <2>1, <2>2 DEF RefreshWrites, MemoryTrue
  <2>6. UNCHANGED <<main, filters>>
    BY <1>5 DEF RefreshWrites, page
  <2> QED
    BY <1>0, <1>1, <2>2, <2>3, <2>4, <2>5, <2>6 DEF CatalogTypes, FilesTyped
<1>16. ASSUME NEW t \in Tabs, RefreshAnswered(t) PROVE CatalogTypes'
  <2>1. UNCHANGED <<file, parsed, main, filters>>
    BY <1>16 DEF RefreshAnswered
  <2>2. RefreshTyped'
    BY <1>0, <1>16, CatalogAssumption DEF RefreshAnswered, RefreshTyped, NoRefresh, Revisions
  <2>3. AnswersTyped'
    BY <1>0, <1>16 DEF RefreshAnswered, Delayed, Quiet, AnswersTyped
  <2> QED
    BY <1>0, <1>1, <1>2, <2>1, <2>2, <2>3 DEF CatalogTypes, FilesTyped
<1>6. CASE Released
  BY <1>0, <1>1, <1>2, <1>6 DEF Released, page, CatalogTypes, FilesTyped
<1>7. CASE ServerRestarts
  <2>1. RefreshTyped'
    BY <1>7, CatalogAssumption DEF ServerRestarts, RefreshTyped, NoRefresh, Revisions
  <2>2. MemoryTrue'
    BY <1>0, <1>7 DEF ServerRestarts, NoMemory, MemoryTrue, FilesTyped
  <2>3. AnswersTyped'
    BY <1>0, <1>7 DEF ServerRestarts, AnswersTyped
  <2>4. UNCHANGED <<file, main, filters>>
    BY <1>7 DEF ServerRestarts
  <2> QED
    BY <1>0, <1>1, <2>1, <2>2, <2>3, <2>4 DEF CatalogTypes, FilesTyped
<1>8. ASSUME NEW f \in Fields, NEW filter, UpdateFilter(f, filter),
             filter = [done |-> filter.done, last |-> filter.last]
      PROVE  CatalogTypes'
  <2>1. AnswersTyped'
    BY <1>8 DEF UpdateFilter, Delayed, Quiet, AnswersTyped
  <2>2. \A g \in Fields : filters'[g] = filter \/ filters'[g] = NoFilter \/ filters'[g] = filters[g]
    BY <1>8 DEF UpdateFilter
  <2>3. FiltersTyped'
    <3>1. filters' = [g \in Fields |-> filters'[g]]
      BY <1>8 DEF UpdateFilter
    <3> QED
      BY <1>0, <1>8, <2>2, <3>1 DEF FiltersTyped, NoFilter
  <2>4. UNCHANGED served
    BY <1>8 DEF UpdateFilter
  <2> QED
    BY <1>1, <1>2, <2>1, <2>3, <2>4 DEF CatalogTypes, served
<1>9. CASE Pick
  <2>0. PICK f \in Fields : \E v : UpdateFilter(f, [filters[f] EXCEPT !.last = v])
    BY <1>9, Zenon DEF Pick
  <2>1. PICK v : UpdateFilter(f, [filters[f] EXCEPT !.last = v])
    BY <2>0
  <2>2. PICK filter : filter = [filters[f] EXCEPT !.last = v]
    OBVIOUS
  <2>3. filter = [done |-> filter.done, last |-> filter.last]
    <3>1. filters[f] = [done |-> filters[f].done, last |-> filters[f].last]
      BY <1>0 DEF FiltersTyped
    <3> QED
      BY <2>2, <3>1
  <2> QED
    BY <1>8, <2>1, <2>2, <2>3
<1>10. CASE Another
  <2>1. PICK f \in Fields : UpdateFilter(f, [done |-> Chosen(filters, f), last |-> NoValue])
    BY <1>10, Zenon DEF Another
  <2> QED
    BY <1>8, <2>1
<1>11. CASE Clear
  BY <1>8, <1>11 DEF Clear, NoFilter
<1>12. CASE Ask
  <2>1. AnswersTyped'
    BY <1>12 DEF Ask, Quiet, AnswersTyped
  <2> QED
    BY <1>1, <1>2, <1>12, <2>1 DEF Ask, served, CatalogTypes
<1>13. CASE Settle
  <2>1. AnswersTyped'
    BY <1>13 DEF Settle, Quiet, AnswersTyped
  <2> QED
    BY <1>1, <1>2, <1>13, <2>1 DEF Settle, served, CatalogTypes
<1>14. ASSUME NEW f \in Fields, Serve(f) PROVE CatalogTypes'
  <2>1. parsed' = LoadCached /\ UNCHANGED <<file, main, refresh, filters>>
    BY <1>14 DEF Serve
  <2>2. Present' = Present
    BY <2>1 DEF Present, Bundled
  <2>3. file.write \in Nat /\ file.write # 0
    BY <1>0 DEF FilesTyped
  <2>4. MemoryTrue'
    <3>1. CASE file.readable
      <4>1. parsed' = Present /\ Present.write = file.write
        BY <2>1, <3>1, ReadsPresent DEF Present
      <4> QED
        BY <2>1, <2>2, <2>3, <3>1, <4>1 DEF MemoryTrue
    <3>2. CASE ~file.readable
      <4>1. parsed'.write = 0
        BY <2>1, <3>2, ReadsPresent DEF NoMemory
      <4> QED
        BY <2>1, <2>3, <4>1 DEF MemoryTrue
    <3> QED
      BY <3>1, <3>2
  <2>5. AnswersTyped'
    BY <1>0, <1>14 DEF Serve, AnswersTyped
  <2> QED
    BY <1>1, <2>1, <2>4, <2>5 DEF CatalogTypes
<1>15. ASSUME NEW f \in Fields, ServeFails(f) PROVE CatalogTypes'
  <2>1. AnswersTyped'
    BY <1>0, <1>15 DEF ServeFails, AnswersTyped
  <2> QED
    BY <1>1, <1>2, <1>15, <2>1 DEF ServeFails, served, CatalogTypes
<1> QED
  BY <1>3, <1>4, <1>5, <1>6, <1>7, <1>9, <1>10, <1>11, <1>12, <1>13, <1>14, <1>15, <1>16
  DEF CatalogNext

\* An answer is kept for the filters it was asked for, and shown beside them.
LEMMA CatalogStep == CatalogInv /\ [CatalogNext]_catalogVars => CatalogInv'
<1> SUFFICES ASSUME CatalogInv, [CatalogNext]_catalogVars PROVE CatalogInv'
  OBVIOUS
<1>1. CatalogTypes /\ CatalogTypes'
  BY CatalogTypesKept DEF CatalogInv
<1>2. ASSUME UNCHANGED <<file, filters, options, asking>> PROVE CatalogInv'
  BY <1>1, <1>2, HoldsKept DEF CatalogInv
<1>3. ASSUME asking'.state = "delayed" PROVE CatalogInv'
  BY <1>1, <1>3 DEF CatalogInv
<1>4. ASSUME NEW t \in Tabs, RefreshWrites(t) PROVE CatalogInv'
  <2>1. /\ UNCHANGED <<asking, options>> /\ file'.readable /\ file'.write = file.write + 1
    BY <1>4 DEF RefreshWrites, page
  <2> QED
    BY <1>1, <2>1, HoldsNoMore DEF CatalogInv
<1>14. ASSUME NEW t \in Tabs, RefreshAnswered(t) PROVE CatalogInv'
  <2>1. CASE t = Page
    BY <1>3, <1>14, <2>1 DEF RefreshAnswered, Delayed, Quiet
  <2>2. CASE t # Page
    BY <1>2, <1>14, <2>2 DEF RefreshAnswered
  <2> QED
    BY <2>1, <2>2
<1>5. CASE ServerRestarts
  <2>1. UNCHANGED <<file, filters, options>> /\ asking'.state = asking.state
    BY <1>1, <1>5 DEF ServerRestarts, CatalogTypes, AnswersTyped
  <2>2. \A f \in Fields : asking'.got[f] \in {asking.got[f], Failed}
    BY <1>1, <1>5 DEF ServerRestarts, CatalogTypes, AnswersTyped
  <2>3. asking.state = "asked" => \A f \in Fields : Holds(f, asking'.got[f])
    BY <1>1, <2>2, NoAnswerHolds DEF CatalogInv
  <2> QED
    BY <1>1, <2>1, <2>3, HoldsKept DEF CatalogInv
<1>6. CASE Ask
  <2>1. /\ UNCHANGED <<file, filters>> /\ asking'.state = "asked"
        /\ \A f \in Fields : asking'.got[f] = NoAnswer
    BY <1>6 DEF Ask, Quiet, served
  <2> QED
    BY <1>1, <2>1, NoAnswerHolds, HoldsKept DEF CatalogInv
<1>7. CASE Settle
  <2>1. /\ UNCHANGED <<file, filters>> /\ asking.state = "asked" /\ asking'.state = "idle"
        /\ \A f \in Fields : options'[f] = [values |-> asking.got[f].values,
                                            write |-> asking.got[f].write]
    BY <1>7 DEF Settle, Quiet, served
  <2>2. \A f \in Fields : Holds(f, asking.got[f]) /\ Holds(f, options'[f])
    <3> SUFFICES ASSUME NEW f \in Fields PROVE Holds(f, asking.got[f]) /\ Holds(f, options'[f])
      OBVIOUS
    <3>1. Holds(f, asking.got[f])
      BY <2>1 DEF CatalogInv
    <3>2. options'[f] = [values |-> asking.got[f].values, write |-> asking.got[f].write]
      BY <2>1
    <3>3. PICK values, write : values = asking.got[f].values /\ write = asking.got[f].write
      OBVIOUS
    <3>4. PICK new : new = [values |-> values, write |-> write] /\ new = options'[f]
      BY <3>2, <3>3
    <3>5. new.values = asking.got[f].values /\ new.write = asking.got[f].write
      BY <3>3, <3>4
    <3>6. Holds(f, new)
      BY <3>1, <3>5 DEF Holds
    <3> QED
      BY <3>1, <3>4, <3>6
  <2> QED
    BY <1>1, <2>1, <2>2, HoldsKept DEF CatalogInv
<1>8. ASSUME NEW f \in Fields, Serve(f) PROVE CatalogInv'
  <2>1. PICK new : new = [values |-> Query(f, filters), state |-> "got",
                          write |-> GetProvider.write]
    OBVIOUS
  <2>2. /\ UNCHANGED <<file, filters, options>> /\ asking.state = "asked"
        /\ asking'.state = "asked"
        /\ \A g \in Fields : asking'.got[g] = IF g = f THEN new ELSE asking.got[g]
    BY <1>1, <1>8, <2>1 DEF Serve, CatalogTypes, AnswersTyped
  <2>3. Holds(f, new)
    <3>1. new.write = Present.write /\ new.values = Query(f, filters)
      BY <1>1, <2>1, ReadsPresent
    <3>2. Present.write \in Nat /\ Present.write <= file.write
      BY <1>1 DEF Present, Bundled, CatalogTypes, FilesTyped
    <3> QED
      BY <1>1, <3>1, <3>2, QueryAccepted DEF Holds
  <2> QED
    BY <1>1, <2>2, <2>3, HoldsKept DEF CatalogInv
<1>9. ASSUME NEW f \in Fields, ServeFails(f) PROVE CatalogInv'
  <2>1. /\ UNCHANGED <<file, filters, options>> /\ asking.state = "asked"
        /\ asking'.state = "asked"
        /\ \A g \in Fields : asking'.got[g] \in {asking.got[g], Failed}
    BY <1>1, <1>9 DEF ServeFails, served, CatalogTypes, AnswersTyped
  <2>2. \A g \in Fields : Holds(g, asking'.got[g])
    BY <1>1, <2>1, NoAnswerHolds DEF CatalogInv
  <2> QED
    BY <1>1, <2>1, <2>2, HoldsKept DEF CatalogInv
<1>10. ASSUME NEW f, NEW filter, UpdateFilter(f, filter) PROVE CatalogInv'
  BY <1>3, <1>10 DEF UpdateFilter, Delayed, Quiet
<1>11. ASSUME Pick \/ Another \/ Clear PROVE CatalogInv'
  BY <1>10, <1>11 DEF Pick, Another, Clear
<1>12. ASSUME NEW t \in Tabs, RefreshBegin(t) \/ RefreshRevision(t) \/ RefreshFails(t)
       PROVE  CatalogInv'
  BY <1>2, <1>12 DEF RefreshBegin, RefreshRevision, RefreshFails, page
<1>13. ASSUME Released \/ UNCHANGED catalogVars PROVE CatalogInv'
  BY <1>2, <1>13 DEF Released, catalogVars, page
<1> QED
  BY <1>4, <1>5, <1>6, <1>7, <1>8, <1>9, <1>11, <1>12, <1>13, <1>14 DEF CatalogNext

\* Whatever is suggested beside the filters is accepted by the generator
\* together with them (serverCatalog.ts:156-196, AssistantView.tsx:140-160), for
\* any filters, servers and pages that refresh the catalog.
THEOREM SuggestionsAccepted == CatalogSpec => []OfferedAccepted
<1>1. CatalogInv => OfferedAccepted
  BY ReadsPresent DEF CatalogInv, Holds, GoesWith, OfferedAccepted
<1> QED
  BY <1>1, CatalogStart, CatalogStep, PTL DEF CatalogSpec
=============================================================================
