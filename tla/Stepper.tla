------------------------------- MODULE Stepper -------------------------------
(***************************************************************************)
(* A workflow behind a form of several steps, a modal or a button:         *)
(* plugins/scaffolder-frontend-workflow, hooks/useStepper.ts with the      *)
(* components that embed it (Workflow, Form, ModalWorkflow, WorkflowButton, *)
(* the FormActions of its tests and packages/app's OnboardingActions).     *)
(*                                                                         *)
(* Of useRunWorkflow, which RunWorkflow.tla models, only taskStatus is     *)
(* seen here: execute sets it to pending, the task ends it.                *)
(***************************************************************************)
EXTENDS AsyncValidation

CONSTANTS
    Steps,          \* the steps of the template: a sequence of sequences of fields
    ValuesOf,       \* field -> the values a user may give it
    InitialState,   \* the initialState passed to Workflow
    Interfaces,     \* the components that embed the workflow
    MaxSubmissions, \* bound: submissions that are validated at once
    MaxExecutions   \* bound: calls of execute

ASSUME InterfacesAssumption == Interfaces \subseteq {"onboarding", "form", "modal", "button"}
\* Each field belongs to a step.
ASSUME StepsAssumption ==
    /\ Steps \in Seq(Seq(Fields))
    /\ Fields = UNION {FieldsOf(Steps[k]) : k \in DOMAIN Steps}
ASSUME BoundsAssumption == MaxSubmissions \in Nat \ {0} /\ MaxExecutions \in Nat \ {0}

VARIABLES
    interface,      \* which component embeds the workflow
    open,           \* the form is mounted
    activeStep,     \* counted from 0, as in the source
    formData,       \* what the form shows (Form's own state)
    formState,      \* what the stepper keeps
    isValidating,
    errors,         \* the fields that are shown with an error
    submissions,    \* the calls of handleForward that await their validation
    taskStatus,
    executions,     \* how often execute was called
    executed,       \* the last call of it
    sent,           \* history: what was submitted, laid over the initial state
    carried,        \* history: fields edited while their step was validated
    rejected        \* history: a validation was rejected as a whole

stepperVars == <<activeStep, formState, isValidating, errors, submissions, sent, carried, rejected>>
workflowVars == <<taskStatus, executions, executed>>
vars == <<interface, open, formData, stepperVars, workflowVars>>

Slots == 1 .. MaxSubmissions

NoSubmission == [formData |-> InitialState, todo |-> <<>>, found |-> {}, free |-> TRUE]

InFlight == {s \in Slots : ~submissions[s].free}

Reviewing == activeStep >= Len(Steps)

currentStep == Steps[activeStep + 1]

\* Faulty: the spread the other way round.
KeepsCurrent(current, data) ==
    [f \in Fields |-> IF current[f] = Absent THEN data[f] ELSE current[f]]

\* { ...current, ...data }: the form starts from the state of the stepper and
\* only adds keys, so that no key of current is missing in data.
Merge(current, data) == data

\* What there is to know of a call of execute: the values of the fields that were
\* not edited behind a validation, and whether the call has what was submitted.
Execution(values, form, edited) ==
    [values |-> [f \in Fields \ edited |-> values[f]], latest |-> values = form]

\* The form is mounted for the first time, or again.
Mounted(state) ==
    /\ activeStep' = 0
    /\ formState' = state /\ formData' = state /\ sent' = state
    /\ isValidating' = FALSE /\ errors' = {}
    /\ submissions' = [s \in Slots |-> NoSubmission]
    /\ carried' = {} /\ rejected' = FALSE

Init ==
    /\ interface \in Interfaces
    /\ open = (interface # "button")
    /\ activeStep = 0
    /\ formState = InitialState /\ formData = InitialState /\ sent = InitialState
    /\ isValidating = FALSE /\ errors = {}
    /\ submissions = [s \in Slots |-> NoSubmission]
    /\ carried = {} /\ rejected = FALSE
    /\ taskStatus = "idle" /\ executions = 0
    /\ executed = Execution(InitialState, InitialState, Fields)

-----------------------------------------------------------------------------
(* The form.                                                               *)

\* handleChange: a value of a field of the step that is shown; the properties of
\* an object come and go with it.
handleChange(f, value) ==
    /\ open /\ ~Reviewing
    /\ f \in FieldsOf(currentStep) /\ value \in ValuesOf[f] /\ value # formData[f]
    /\ \A g \in Fields : f \in ToSet(Schema[g].properties) => formData[g] # Absent
    /\ formData' = [g \in Fields |-> IF g = f THEN value
                                     ELSE IF value = Absent /\ g \in ToSet(Schema[f].properties)
                                          THEN Absent ELSE formData[g]]
    /\ carried' = carried \cup (IF InFlight # {} THEN FieldsOf(<<f>>) ELSE {})
    /\ UNCHANGED <<interface, open, activeStep, formState, isValidating, errors, submissions,
                   sent, rejected, workflowVars>>

\* The buttons next to the form, or on the review, that can be pressed.
OnboardingActions ==
    [Back |-> activeStep >= 1 /\ ~isValidating,
     Next |-> ~Reviewing /\ ~isValidating,
     Create |-> Reviewing /\ ~isValidating]

FormActions ==
    [Back |-> activeStep >= 1 /\ ~isValidating,
     Next |-> ~Reviewing /\ ~isValidating,
     Create |-> activeStep = Len(Steps) /\ taskStatus = "idle"]

HasActions == interface \in {"onboarding", "form"}

Actions == IF interface = "onboarding" THEN OnboardingActions ELSE FormActions

\* The button that packages/app puts into the modal is never disabled.
CanSubmit == IF HasActions THEN Actions.Next ELSE ~Reviewing

\* onSubmit and handleForward, up to its await.
handleForward(s) ==
    /\ open /\ CanSubmit
    /\ submissions[s].free /\ \A r \in 1 .. s - 1 : ~submissions[r].free
    /\ submissions' = [submissions EXCEPT ![s] =
            [formData |-> formData, todo |-> validate(formData, currentStep), found |-> {}, free |-> FALSE]]
    /\ isValidating' = TRUE /\ errors' = {}
    /\ sent' = formData
    /\ carried' = carried \ FieldsOf(currentStep)
    /\ UNCHANGED <<interface, open, activeStep, formData, formState, rejected, workflowVars>>

\* A validator answers, and the next one is called.
ValidatorAnswers(s) ==
    LET check == Head(submissions[s].todo)
    IN  /\ s \in InFlight /\ submissions[s].todo # <<>> /\ check # Throw
        /\ submissions' = [submissions EXCEPT
                ![s].todo = Tail(@),
                ![s].found = @ \cup ErrorsOf(check, submissions[s].formData)]
        /\ UNCHANGED <<interface, open, activeStep, formData, formState, isValidating, errors,
                       sent, carried, rejected, workflowVars>>

\* validate throws: nothing after the await of handleForward happens.
ValidationThrows(s) ==
    /\ s \in InFlight /\ submissions[s].todo # <<>> /\ Head(submissions[s].todo) = Throw
    /\ submissions' = [submissions EXCEPT ![s] = NoSubmission]
    /\ rejected' = TRUE
    /\ UNCHANGED <<interface, open, activeStep, formData, formState, isValidating, errors,
                   sent, carried, workflowVars>>

-----------------------------------------------------------------------------
(* The workflow.                                                           *)

execute(values) ==
    /\ executions < MaxExecutions
    /\ taskStatus' = "pending"
    /\ executions' = executions + 1
    /\ executed' = Execution(values, sent, carried)

\* Faulty: the effect runs whatever became of the task.
ReviewRunsAlways(step, state) ==
    IF interface = "modal" /\ step >= Len(Steps) THEN execute(state)
    ELSE UNCHANGED workflowVars

\* The effect of DefaultReviewComponent, with the stepper of the render that it
\* belongs to.
DefaultReview(step, state) ==
    IF interface = "modal" /\ step >= Len(Steps) /\ taskStatus = "idle"
    THEN execute(state)
    ELSE UNCHANGED workflowVars

\* Faulty: only a form without errors is unlocked.
StaysLocked(s) ==
    /\ s \in InFlight /\ submissions[s].todo = <<>>
    /\ isValidating' = (submissions[s].found # {})
    /\ errors' = submissions[s].found
    /\ activeStep' = IF submissions[s].found = {} THEN activeStep + 1 ELSE activeStep
    /\ DefaultReview(activeStep', formState)
    /\ formState' = Merge(formState, submissions[s].formData)
    /\ submissions' = [submissions EXCEPT ![s] = NoSubmission]
    /\ UNCHANGED <<interface, open, formData, sent, carried, rejected>>

\* handleForward after its await.  packages/app renders with ReactDOM.render, so
\* each of the setters renders at once: setFormState first runs the effects of
\* the render of setActiveStep, which still has the formState of before.
Settle(s) ==
    /\ s \in InFlight /\ submissions[s].todo = <<>>
    /\ isValidating' = FALSE
    /\ errors' = submissions[s].found
    /\ activeStep' = IF submissions[s].found = {} THEN activeStep + 1 ELSE activeStep
    /\ DefaultReview(activeStep', formState)
    /\ formState' = Merge(formState, submissions[s].formData)
    /\ submissions' = [submissions EXCEPT ![s] = NoSubmission]
    /\ UNCHANGED <<interface, open, formData, sent, carried, rejected>>

\* Back is offered next to the form and on the review of it.  From the review it
\* mounts the form anew.
handleBack ==
    /\ open /\ HasActions /\ Actions.Back
    /\ activeStep' = activeStep - 1
    /\ formData' = IF Reviewing THEN formState ELSE formData
    /\ UNCHANGED <<interface, open, formState, isValidating, errors, submissions,
                   sent, carried, rejected, workflowVars>>

\* The Create button of the review.
Create ==
    /\ open /\ HasActions /\ Actions.Create
    /\ execute(formState)
    /\ UNCHANGED <<interface, open, formData, stepperVars>>

\* The component that WorkflowButton shows.
component == IF interface = "button" THEN taskStatus ELSE "none"

\* The click on the one that it shows first.
clickHandler ==
    /\ component = "idle"
    /\ execute(InitialState)
    /\ UNCHANGED <<interface, open, formData, stepperVars>>

\* onCloseHandler, and the link that opens the modal again: Workflow and its
\* stepper go with the modal, useRunWorkflow stays.
CloseModal ==
    /\ interface = "modal" /\ open
    /\ open' = FALSE
    /\ Mounted(InitialState)
    /\ UNCHANGED <<interface, workflowVars>>

OpenModal ==
    /\ interface = "modal" /\ ~open
    /\ open' = TRUE
    /\ UNCHANGED <<interface, formData, stepperVars, workflowVars>>

\* The effect of useRunWorkflow, when the task ends.
TaskEnds ==
    /\ taskStatus = "pending"
    /\ taskStatus' \in {"error", "success"}
    /\ UNCHANGED <<interface, open, formData, stepperVars, executions, executed>>

Next ==
    \/ \E f \in Fields : \E value \in ValuesOf[f] : handleChange(f, value)
    \/ \E s \in Slots : handleForward(s)
    \/ \E s \in Slots : ValidatorAnswers(s)
    \/ \E s \in Slots : ValidationThrows(s)
    \/ \E s \in Slots : Settle(s)
    \/ handleBack
    \/ Create
    \/ clickHandler
    \/ CloseModal
    \/ OpenModal
    \/ TaskEnds

Spec == Init /\ [][Next]_vars

\* A validator's promise settles, and the code behind an await runs.
Fairness == \A s \in Slots : WF_vars(ValidatorAnswers(s)) /\ WF_vars(ValidationThrows(s)) /\ WF_vars(Settle(s))

LiveSpec == Spec /\ Fairness

-----------------------------------------------------------------------------
(* Properties.                                                             *)

\* What the schema asks of a field: its own validator, or those of its items.
Declared(f) ==
    LET items == Schema[f].items
        names == IF Schema[f].uiField # NoField THEN {Schema[f].uiField}
                 ELSE IF items.uiField # NoField THEN {items.uiField}
                 ELSE ToSet(items.properties)
    IN  names \cap validators

IsThere(f, values) == \A g \in Fields : f \in ToSet(Schema[g].properties) => values[g] # Absent

\* Whatever way a user took through the steps, back and forth, with failed
\* validations and edits in between: what the Create button executes has passed
\* every validator that the schema declares, except for the fields that were
\* edited while the step they belong to was being validated.
ExecutedIsValid ==
    HasActions =>
        \A f \in DOMAIN executed.values :
            IsThere(f, executed.values) =>
                \A validator \in Declared(f) : executed.values[f] \notin Rejects[validator]

\* What the Create button executes is what the user submitted last, step by step.
ExecutedIsSubmitted == HasActions => executed.latest

\* A workflow in a modal, behind a button or behind FormActions is started once as
\* long as it is on the page, however often the component renders, is closed and
\* opened again.
StartedOnce == interface # "onboarding" => executions <= 1

\* A form that is being validated can be submitted again in the end, unless
\* validate threw.
FormUnlocks == isValidating ~> (~isValidating \/ rejected)

\* Workflow.tsx says of the component that is shown after the last step that the
\* form is complete and ready for submission: what DefaultReviewComponent
\* executes is what was submitted.
ReviewHasTheForm == interface = "modal" => executed.latest
=============================================================================
