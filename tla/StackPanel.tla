------------------------------ MODULE StackPanel ------------------------------
(* The panel of the managed stacks (client/components/ManagedStackPanel.tsx): *)
(* what is chosen, edited, planned, reviewed and confirmed on the page while  *)
(* its requests are carried to the helper (routes/api.ts, management/         *)
(* client.ts, server.ts), each with an answer that may be lost.  Of the       *)
(* helper only the latest operation of each project is kept; the export of a  *)
(* Compose file, the candidates and the storage report are left out.          *)
EXTENDS Naturals

CONSTANTS
    Projects,   \* managed stacks, adopted or not yet
    NoProject,
    Inputs,     \* forms of the page that a plan can be asked for
    Extras,     \* what is chosen beside the form: sets of "removals" (keys that a
                \* change removes) and "port" (a port action with its binding)
    Observed,   \* project -> the form with its observed settings
    MaxPlans,   \* bound: plans the helper makes
    MaxOps      \* bound: operations begun

ASSUME PanelAssumption ==
    /\ {} \in Extras /\ \A e \in Extras : e \ {"removals"} \in Extras
    /\ NoProject \notin Projects /\ Observed \in [Projects -> Inputs]
    /\ MaxPlans \in Nat /\ MaxOps \in Nat

VARIABLES
    helper,      \* adopted projects, their latest operations, plans made and used
    project,     \* the stack chosen
    entered,     \* the form: input, the extras chosen, the stack whose settings it got
    settings,    \* the request for settings under way, and whether they were loaded
    plan, ticked, \* the plan shown; the plan its box was ticked for, if it is
    review, reviewTicked, \* the same for a recovery or a cleanup
    diagnostics, \* the inspection shown: its project
    shown,       \* the latest status shown
    run          \* the button pressed: its request, then the status

panelVars == <<helper, project, entered, settings, plan, ticked, review, reviewTicked,
               diagnostics, shown, run>>
confirming == <<plan, ticked, review, reviewTicked>>
watching == <<diagnostics, shown>>

NoPlan == [id |-> 0, project |-> NoProject]
NoReview == [op |-> 0, project |-> NoProject]
NotAsked == [asked |-> FALSE, ready |-> FALSE]
Rest == [pc |-> "idle"]
Unfinished == {"applying", "interrupted"}

PanelInit ==
    /\ \E adopted \in SUBSET Projects :
          helper = [adopted |-> adopted, plans |-> 0, used |-> {}, begun |-> 0,
                    ops |-> [p \in Projects |-> [id |-> 0, status |-> "none"]]]
    /\ project = NoProject /\ entered = [input |-> CHOOSE i \in Inputs : TRUE, extra |-> {},
                                      loaded |-> NoProject]
    /\ settings = NotAsked /\ plan = NoPlan /\ ticked = NoPlan
    /\ review = NoReview /\ reviewTicked = NoReview /\ diagnostics = NoProject
    /\ shown = [known |-> FALSE] /\ run = Rest

Selection(p, f) == [project |-> p, input |-> f.input, extra |-> f.extra]
Current == Selection(project, entered)
Applying(status) == status.known /\ \E p \in Projects : status.ops[p].status = "applying"
Status == [known |-> TRUE, ops |-> helper.ops, adopted |-> helper.adopted]
Free == run.pc = "idle" /\ ~Applying(shown)

-----------------------------------------------------------------------------
(* What a change of the page resets. *)

\* An edit discards the plan and its tick, a form that stays the same does not.
FormBecomes(f) ==
    /\ entered' = f
    /\ IF Selection(project, f) = Current THEN UNCHANGED <<plan, ticked>>
       ELSE plan' = NoPlan /\ ticked' = NoPlan

\* Another stack: everything is reset and its settings are asked for.  The
\* request remembers the selection that was on the page before the reset.
ProjectBecomes(p, i) ==
    /\ project' = p /\ entered' = [entered EXCEPT !.input = i, !.extra = {}]
    /\ settings' = IF p = NoProject THEN NotAsked
                   ELSE [asked |-> TRUE, ready |-> FALSE,
                         of |-> Selection(p, [entered EXCEPT !.input = i])]
    /\ plan' = NoPlan /\ ticked' = NoPlan /\ review' = NoReview /\ reviewTicked' = NoReview
    /\ diagnostics' = NoProject

ChooseProject ==
    /\ Free /\ shown.known
    /\ \E p \in (shown.adopted \cup {NoProject}) \ {project}, i \in Inputs : ProjectBecomes(p, i)
    /\ UNCHANGED <<helper, shown, run>>

Edit ==
    /\ \E i \in Inputs, extra \in Extras :
          /\ project = NoProject => extra = {}
          /\ FormBecomes([entered EXCEPT !.input = i, !.extra = extra])
    /\ entered' # entered
    /\ UNCHANGED <<helper, project, settings, review, reviewTicked, watching, run>>

SettingsAnswered ==
    /\ settings.asked
    /\ IF settings.of = Current
       THEN /\ FormBecomes([entered EXCEPT !.input = Observed[project], !.loaded = project])
            /\ settings' = [NotAsked EXCEPT !.ready = TRUE]
       ELSE settings' = [NotAsked EXCEPT !.ready = settings.ready] /\ UNCHANGED <<entered, plan, ticked>>
    /\ UNCHANGED <<helper, project, review, reviewTicked, watching, run>>

SettingsFail ==
    /\ settings.asked /\ settings' = [NotAsked EXCEPT !.ready = settings.ready]
    /\ UNCHANGED <<helper, project, entered, confirming, watching, run>>

-----------------------------------------------------------------------------
(* Confirmations. *)
TickPlan ==
    /\ plan # NoPlan /\ ticked' = IF ticked = NoPlan THEN plan ELSE NoPlan
    /\ UNCHANGED <<helper, project, entered, settings, plan, review, reviewTicked, watching, run>>

TickReview ==
    /\ review # NoReview
    /\ reviewTicked' = IF reviewTicked = NoReview THEN review ELSE NoReview
    /\ UNCHANGED <<helper, project, entered, settings, plan, ticked, review, watching, run>>

CancelReview ==
    /\ review # NoReview /\ review' = NoReview /\ reviewTicked' = NoReview
    /\ UNCHANGED <<helper, project, entered, settings, plan, ticked, watching, run>>

\* The plan is taken off the page when its time is over; its box stays ticked.
PlanExpires ==
    /\ plan # NoPlan /\ plan' = NoPlan
    /\ UNCHANGED <<helper, project, entered, settings, ticked, review, reviewTicked, watching, run>>

-----------------------------------------------------------------------------
(* A button: one request, then the status; the others wait. *)
Send(work, arg) == run' = [pc |-> "sent", work |-> work, arg |-> arg]

\* The buttons of the stack that is chosen.
Prepare ==
    /\ Free /\ project # NoProject
    /\ \/ Send("inspect", project) \/ Send("reload", Current)
       \/ /\ settings.ready /\ shown.ops[project].status # "interrupted"
          /\ Send("plan", Current)

Adopt == Free /\ shown.known /\ \E p \in Projects \ shown.adopted : Send("adopt", p)

Confirm ==
    \/ Free /\ plan # NoPlan /\ ticked # NoPlan /\ Send("apply", plan)
    \/ review # NoReview /\ reviewTicked # NoReview /\ Send("confirm", review)

\* The buttons beside the operations.
Review ==
    /\ shown.known
    /\ \E p \in Projects :
          /\ project \in {NoProject, p}
          /\ \/ shown.ops[p].status = "interrupted"
             \/ shown.ops[p].status = "succeeded" /\ ~Applying(shown)
          /\ Send("review", [op |-> shown.ops[p].id, project |-> p])

Press ==
    /\ run.pc = "idle"
    /\ Send("refresh", NoProject) \/ Prepare \/ Adopt \/ Confirm \/ Review
    /\ UNCHANGED <<helper, project, entered, settings, confirming, watching>>

Done(answer) == run' = [run EXCEPT !.pc = "done", !.arg = answer]
\* The helper with a new operation of p, if p has none that is unfinished.
CanStart(p) == helper.ops[p].status \notin Unfinished /\ helper.begun < MaxOps
Started(p) ==
    [helper EXCEPT !.begun = @ + 1,
                   !.ops[p] = [id |-> helper.begun + 1, status |-> "applying"]]

\* The helper does what is asked, unless it refuses; apply and recovery look at
\* the operations again, since the page may be out of date.
Performs ==
    /\ run.pc = "sent"
    /\ \/ run.work \in {"refresh", "inspect", "reload"} /\ Done(run.arg) /\ UNCHANGED helper
       \/ /\ run.work = "plan" /\ helper.plans < MaxPlans
          /\ helper.ops[run.arg.project].status \notin Unfinished
          /\ helper' = [helper EXCEPT !.plans = @ + 1]
          /\ Done([id |-> helper.plans + 1, project |-> run.arg.project, of |-> run.arg])
       \/ /\ run.work = "apply" /\ run.arg.id \notin helper.used
          /\ CanStart(run.arg.project)
          /\ helper' = [Started(run.arg.project) EXCEPT !.used = @ \cup {run.arg.id}]
          /\ Done(run.arg)
       \/ /\ run.work \in {"review", "confirm"}
          /\ helper.ops[run.arg.project].id = run.arg.op
          /\ helper.ops[run.arg.project].status \in {"interrupted", "succeeded"}
          /\ helper' = IF run.work = "confirm" /\ helper.ops[run.arg.project].status = "interrupted"
                       THEN [helper EXCEPT !.ops[run.arg.project].status = "rolled_back"]
                       ELSE helper
          /\ Done(run.arg)
       \/ /\ run.work = "adopt" /\ run.arg \notin helper.adopted
          /\ helper' = [helper EXCEPT !.adopted = @ \cup {run.arg}] /\ Done(run.arg)
    /\ UNCHANGED <<project, entered, settings, confirming, watching>>

\* Mutant of PlanArrives: the box is left as it is.
PlanArrivesTicked(p) ==
    /\ IF p.of = Current THEN plan' = p ELSE UNCHANGED plan
    /\ UNCHANGED ticked

\* The plan is shown only for the selection it was made for, and unconfirmed.
PlanArrives(p) ==
    IF p.of = Current THEN plan' = p /\ ticked' = NoPlan ELSE UNCHANGED <<plan, ticked>>

Answered ==
    /\ run.pc = "done" /\ run' = [pc |-> "status"]
    /\ CASE run.work = "plan" ->
              PlanArrives(run.arg)
              /\ UNCHANGED <<project, entered, settings, review, reviewTicked, diagnostics>>
         [] run.work = "apply" ->
              plan' = NoPlan /\ ticked' = NoPlan
              /\ UNCHANGED <<project, entered, settings, review, reviewTicked, diagnostics>>
         [] run.work = "review" ->
              review' = run.arg /\ reviewTicked' = NoReview
              /\ UNCHANGED <<project, entered, settings, plan, ticked, diagnostics>>
         [] run.work = "confirm" ->
              review' = NoReview /\ reviewTicked' = NoReview
              /\ UNCHANGED <<project, entered, settings, plan, ticked, diagnostics>>
         [] run.work = "inspect" ->
              diagnostics' = (IF run.arg = project THEN project ELSE diagnostics)
              /\ UNCHANGED <<project, entered, settings, plan, ticked, review, reviewTicked>>
         [] run.work = "reload" /\ run.arg = Current ->
              FormBecomes([input |-> Observed[project], extra |-> entered.extra \ {"removals"},
                           loaded |-> project])
              /\ settings' = [settings EXCEPT !.ready = TRUE]
              /\ UNCHANGED <<project, review, reviewTicked, diagnostics>>
         [] run.work = "adopt" -> \E i \in Inputs : ProjectBecomes(run.arg, i)
         [] OTHER -> UNCHANGED <<project, entered, settings, plan, ticked, review, reviewTicked,
                                 diagnostics>>
    /\ UNCHANGED <<helper, shown>>

\* A refusal, a limit, a timeout, an answer that is lost: an error is shown.
Fails ==
    /\ run.pc \in {"sent", "done", "status"} /\ run' = Rest
    /\ UNCHANGED <<helper, project, entered, settings, confirming, watching>>

-----------------------------------------------------------------------------
(* The status. *)

\* A change that succeeded is inspected: the former inspection goes.
StatusBecomes(status) ==
    /\ shown' = status
    /\ diagnostics' = IF /\ project # NoProject /\ status.ops[project].status = "succeeded"
                         /\ shown.known => status.ops[project] # shown.ops[project]
                      THEN NoProject ELSE diagnostics

StatusAnswered == run.pc = "status" /\ StatusBecomes(Status) /\ run' = Rest

\* Fetched when the panel opens, and again and again while a change is applied;
\* an answer that a later one overtakes is left out.
Poll == (~shown.known \/ Applying(shown)) /\ StatusBecomes(Status) /\ UNCHANGED run

Watch ==
    /\ StatusAnswered \/ Poll
    /\ UNCHANGED <<helper, project, entered, settings, confirming>>

\* The inspection that follows a success.
Inspects ==
    /\ project # NoProject /\ shown.known /\ shown.ops[project].status = "succeeded"
    /\ diagnostics' = project
    /\ UNCHANGED <<helper, project, entered, settings, confirming, shown, run>>

\* An operation ends, or begins from another page.
Elsewhere ==
    /\ \E p \in helper.adopted :
          \/ /\ helper.ops[p].status = "applying"
             /\ \E end \in {"succeeded", "rolled_back", "interrupted"} :
                   helper' = [helper EXCEPT !.ops[p].status = end]
          \/ CanStart(p) /\ helper' = Started(p)
    /\ UNCHANGED <<project, entered, settings, confirming, watching, run>>

PanelNext ==
    \/ ChooseProject \/ Edit \/ SettingsAnswered \/ SettingsFail
    \/ TickPlan \/ TickReview \/ CancelReview \/ PlanExpires
    \/ Press \/ Performs \/ Answered \/ Fails
    \/ Watch \/ Inspects \/ Elsewhere

PanelSpec == PanelInit /\ [][PanelNext]_panelVars

-----------------------------------------------------------------------------
(* Properties. *)

\* ConfirmedAsShown: a plan is on the page only beside the stack and the inputs
\* it was made for; a box that is ticked was ticked for exactly what is on the
\* page now; a plan is asked for only after the settings of this stack, and of
\* no other, were loaded into the form; an inspection is of this stack.
ConfirmedAsShown ==
    /\ plan # NoPlan => plan.of = Current /\ ticked \in {NoPlan, plan}
    /\ reviewTicked \in {NoReview, review}
    /\ settings.ready => entered.loaded = project
    /\ diagnostics \in {NoProject, project}
=============================================================================
