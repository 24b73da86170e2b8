---------------------------- MODULE StepperProofs ----------------------------
(* Theorems about Stepper, for any template, any values and any number of   *)
(* submissions that are validated at once.                                  *)
EXTENDS Stepper, SequenceFacts

USE InterfacesAssumption, BoundsAssumption

-----------------------------------------------------------------------------
(* How often a workflow is started.                                        *)

\* A workflow that was started is not idle again.
StartInv ==
    /\ interface \in Interfaces
    /\ executions \in Nat
    /\ taskStatus = "idle" => executions = 0
    /\ interface # "onboarding" => executions <= 1

\* Whoever calls execute, unless it is the button of packages/app, has seen
\* that the task is idle.
LEMMA ExecuteStarts ==
  ASSUME StartInv, NEW values, execute(values), interface' = interface,
         interface = "onboarding" \/ taskStatus = "idle"
  PROVE  StartInv'
<1>1. executions' = executions + 1 /\ taskStatus' = "pending" /\ executions \in Nat
  BY DEF execute, StartInv
<1> QED
  BY <1>1 DEF StartInv

LEMMA InitStart == Init => StartInv
  BY DEF Init, StartInv

LEMMA NextStart == StartInv /\ [Next]_vars => StartInv'
<1> SUFFICES ASSUME StartInv, [Next]_vars PROVE StartInv'
  OBVIOUS
<1>1. ASSUME UNCHANGED <<interface, executions, taskStatus>> PROVE StartInv'
  BY <1>1 DEF StartInv
<1>2. ASSUME NEW f \in Fields, NEW value \in ValuesOf[f], handleChange(f, value) PROVE StartInv'
  BY <1>1, <1>2 DEF handleChange, workflowVars
<1>3. ASSUME NEW s \in Slots, handleForward(s) \/ ValidatorAnswers(s) \/ ValidationThrows(s)
      PROVE  StartInv'
  BY <1>1, <1>3 DEF handleForward, ValidatorAnswers, ValidationThrows, workflowVars
<1>4. ASSUME NEW s \in Slots, Settle(s) PROVE StartInv'
  <2>1. interface' = interface /\ DefaultReview(activeStep', formState)
    BY <1>4 DEF Settle
  <2> QED
    BY <1>1, <2>1, ExecuteStarts DEF DefaultReview, workflowVars
<1>5. ASSUME Create PROVE StartInv'
  <2>1. interface' = interface /\ execute(formState)
    BY <1>5 DEF Create
  <2>2. interface = "onboarding" \/ taskStatus = "idle"
    BY <1>5 DEF Create, HasActions, Actions, FormActions
  <2> QED
    BY <2>1, <2>2, ExecuteStarts
<1>6. ASSUME clickHandler PROVE StartInv'
  <2>1. interface' = interface /\ execute(InitialState) /\ taskStatus = "idle"
    BY <1>6 DEF clickHandler, component
  <2> QED
    BY <2>1, ExecuteStarts
<1>7. ASSUME handleBack \/ CloseModal \/ OpenModal \/ UNCHANGED vars PROVE StartInv'
  BY <1>1, <1>7 DEF handleBack, CloseModal, OpenModal, vars, workflowVars
<1>8. ASSUME TaskEnds PROVE StartInv'
  BY <1>8 DEF TaskEnds, StartInv
<1> QED
  BY <1>2, <1>3, <1>4, <1>5, <1>6, <1>7, <1>8 DEF Next

\* A workflow in a modal, behind a button or behind FormActions is started once
\* as long as it is on the page, however it is rendered, closed and opened.
THEOREM StartsOnce == Spec => []StartedOnce
<1>1. StartInv => StartedOnce
  BY DEF StartInv, StartedOnce
<1> QED
  BY InitStart, NextStart, <1>1, PTL DEF Spec

-----------------------------------------------------------------------------
(* What is executed is what was submitted.                                 *)

IsSubmission(r) ==
    /\ DOMAIN r = {"formData", "todo", "found", "free"}
    /\ r.free \in BOOLEAN

\* Behind the buttons a step is validated once at a time, of what was sent, and
\* the review is shown only when nothing is validated.
OneAtATime ==
    /\ \A s, r \in InFlight : s = r
    /\ \A s \in InFlight : isValidating /\ submissions[s].formData = sent
    /\ isValidating => ~Reviewing

SubmitInv ==
    /\ isValidating \in BOOLEAN
    /\ DOMAIN submissions = Slots
    /\ submissions = [s \in Slots |-> submissions[s]]
    /\ \A s \in Slots : IsSubmission(submissions[s])
    /\ HasActions =>
        /\ OneAtATime
        /\ ~isValidating => formState = sent
        /\ executed.latest

LEMMA InitSubmit == Init => SubmitInv
<1> SUFFICES ASSUME Init PROVE SubmitInv
  OBVIOUS
<1>1. /\ \A s \in Slots : submissions[s] = NoSubmission
      /\ DOMAIN submissions = Slots
      /\ submissions = [s \in Slots |-> submissions[s]]
  BY DEF Init
<1>2. IsSubmission(NoSubmission) /\ NoSubmission.free
  BY DEF NoSubmission, IsSubmission
<1>3. executed.latest
  BY DEF Init, Execution
<1> QED
  BY <1>1, <1>2, <1>3 DEF Init, SubmitInv, OneAtATime, InFlight

\* A submission that ends leaves the others as they are.
LEMMA SubmissionEnds ==
  ASSUME SubmitInv, NEW s \in Slots, submissions' = [submissions EXCEPT ![s] = NoSubmission]
  PROVE  /\ DOMAIN submissions' = Slots
         /\ submissions' = [r \in Slots |-> submissions'[r]]
         /\ \A r \in Slots : IsSubmission(submissions'[r])
         /\ InFlight' = InFlight \ {s}
         /\ \A r \in InFlight' : submissions'[r] = submissions[r]
<1>1. /\ \A r \in Slots \ {s} : submissions'[r] = submissions[r]
      /\ submissions'[s] = NoSubmission
      /\ DOMAIN submissions' = Slots
      /\ submissions' = [r \in Slots |-> submissions'[r]]
  BY DEF SubmitInv
<1>2. IsSubmission(NoSubmission) /\ NoSubmission.free
  BY DEF NoSubmission, IsSubmission
<1>3. \A r \in Slots : IsSubmission(submissions'[r])
  BY <1>1, <1>2 DEF SubmitInv
<1>4. InFlight' = InFlight \ {s}
  BY <1>1, <1>2 DEF InFlight
<1> QED
  BY <1>1, <1>3, <1>4

LEMMA ForwardSubmit ==
  ASSUME SubmitInv, NEW s \in Slots, handleForward(s)
  PROVE  SubmitInv'
<1> DEFINE new == [formData |-> formData, todo |-> validate(formData, currentStep),
                   found |-> {}, free |-> FALSE]
<1>1. /\ submissions' = [submissions EXCEPT ![s] = new]
      /\ isValidating' = TRUE /\ sent' = formData
      /\ UNCHANGED <<interface, activeStep, executed>>
      /\ CanSubmit /\ submissions[s].free
  BY DEF handleForward, workflowVars
<1>2. IsSubmission(new) /\ ~new.free /\ new.formData = formData
  BY DEF IsSubmission
<1> HIDE DEF new
<1>3. /\ \A r \in Slots \ {s} : submissions'[r] = submissions[r]
      /\ submissions'[s] = new
      /\ DOMAIN submissions' = Slots
      /\ submissions' = [r \in Slots |-> submissions'[r]]
  BY <1>1 DEF SubmitInv
<1>4. \A r \in Slots : IsSubmission(submissions'[r])
  BY <1>2, <1>3 DEF SubmitInv
<1>5. ASSUME HasActions PROVE OneAtATime'
  <2>1. ~Reviewing /\ ~isValidating
    BY <1>1, <1>5 DEF CanSubmit, Actions, OnboardingActions, FormActions
  <2>2. InFlight = {}
    BY <1>5, <2>1 DEF SubmitInv, OneAtATime
  <2>3. InFlight' = {s}
    BY <1>2, <1>3, <2>2 DEF InFlight
  <2>4. ~Reviewing'
    BY <1>1, <2>1 DEF Reviewing
  <2> QED
    BY <1>1, <1>2, <1>3, <2>3, <2>4 DEF OneAtATime
<1> QED
  BY <1>1, <1>3, <1>4, <1>5 DEF SubmitInv, HasActions

LEMMA AnswerSubmit ==
  ASSUME SubmitInv, NEW s \in Slots, ValidatorAnswers(s)
  PROVE  SubmitInv'
<1>1. PICK todo, found :
        submissions' = [submissions EXCEPT ![s].todo = todo, ![s].found = found]
  BY DEF ValidatorAnswers
<1>2. UNCHANGED <<interface, activeStep, isValidating, sent, formState, executed>>
  BY DEF ValidatorAnswers, workflowVars
<1>3. /\ \A r \in Slots \ {s} : submissions'[r] = submissions[r]
      /\ submissions'[s] = [submissions[s] EXCEPT !.todo = todo, !.found = found]
      /\ DOMAIN submissions' = Slots
      /\ submissions' = [r \in Slots |-> submissions'[r]]
  BY <1>1 DEF SubmitInv
<1>4. /\ IsSubmission(submissions'[s])
      /\ submissions'[s].free = submissions[s].free
      /\ submissions'[s].formData = submissions[s].formData
  BY <1>3 DEF SubmitInv, IsSubmission
<1>5. \A r \in Slots : /\ IsSubmission(submissions'[r])
                       /\ submissions'[r].free = submissions[r].free
                       /\ submissions'[r].formData = submissions[r].formData
  BY <1>3, <1>4 DEF SubmitInv
<1>6. InFlight' = InFlight
  BY <1>5 DEF InFlight
<1>7. OneAtATime => OneAtATime'
  BY <1>2, <1>5, <1>6 DEF OneAtATime, InFlight, Reviewing
<1> QED
  BY <1>2, <1>3, <1>5, <1>7 DEF SubmitInv, HasActions

LEMMA NextSubmit == SubmitInv /\ [Next]_vars => SubmitInv'
<1> SUFFICES ASSUME SubmitInv, [Next]_vars PROVE SubmitInv'
  OBVIOUS
<1>1. ASSUME UNCHANGED <<interface, activeStep, isValidating, submissions, sent, formState, executed>>
      PROVE  SubmitInv'
  BY <1>1 DEF SubmitInv, HasActions, OneAtATime, InFlight, Reviewing
<1>2. ASSUME NEW f \in Fields, NEW value \in ValuesOf[f], handleChange(f, value) PROVE SubmitInv'
  BY <1>1, <1>2 DEF handleChange, workflowVars
<1>3. ASSUME NEW s \in Slots, ValidationThrows(s) PROVE SubmitInv'
  <2>1. /\ submissions' = [submissions EXCEPT ![s] = NoSubmission]
        /\ UNCHANGED <<interface, activeStep, isValidating, sent, formState, executed>>
    BY <1>3 DEF ValidationThrows, workflowVars
  <2>2. OneAtATime => OneAtATime'
    BY <2>1, SubmissionEnds DEF OneAtATime, Reviewing
  <2> QED
    BY <2>1, <2>2, SubmissionEnds DEF SubmitInv, HasActions
<1>4. ASSUME NEW s \in Slots, Settle(s) PROVE SubmitInv'
  <2>1. /\ submissions' = [submissions EXCEPT ![s] = NoSubmission]
        /\ isValidating' = FALSE /\ UNCHANGED <<interface, sent>>
        /\ s \in InFlight /\ formState' = submissions[s].formData
        /\ DefaultReview(activeStep', formState)
    BY <1>4 DEF Settle, Merge
  <2>2. ASSUME HasActions
        PROVE  OneAtATime' /\ formState' = sent' /\ executed' = executed
    <3>1. InFlight' = {} /\ formState' = sent
      BY <2>1, <2>2, SubmissionEnds DEF SubmitInv, OneAtATime
    <3>2. executed' = executed
      BY <2>1, <2>2 DEF DefaultReview, HasActions, workflowVars
    <3> QED
      BY <2>1, <3>1, <3>2 DEF OneAtATime
  <2> QED
    BY <2>1, <2>2, SubmissionEnds DEF SubmitInv, HasActions
<1>5. ASSUME handleBack PROVE SubmitInv'
  <2>1. /\ UNCHANGED <<interface, isValidating, submissions, sent, formState, executed>>
        /\ HasActions /\ ~isValidating
    BY <1>5 DEF handleBack, workflowVars, HasActions, Actions, OnboardingActions, FormActions
  <2>2. OneAtATime'
    BY <2>1 DEF SubmitInv, OneAtATime, InFlight
  <2> QED
    BY <2>1, <2>2 DEF SubmitInv, HasActions
<1>6. ASSUME Create PROVE SubmitInv'
  <2>1. /\ UNCHANGED <<interface, activeStep, isValidating, submissions, sent, formState>>
        /\ executed' = Execution(formState, sent, carried)
        /\ HasActions /\ Actions.Create
    BY <1>6 DEF Create, stepperVars, execute
  <2>2. ~isValidating
    <3>1. CASE interface = "onboarding"
      BY <2>1, <3>1 DEF Actions, OnboardingActions
    <3>2. CASE interface # "onboarding"
      <4>1. activeStep = Len(Steps)
        BY <2>1, <3>2 DEF Actions, FormActions
      <4> QED
        BY <2>1, <4>1 DEF SubmitInv, OneAtATime, Reviewing
    <3> QED
      BY <3>1, <3>2
  <2>3. executed'.latest
    BY <2>1, <2>2 DEF SubmitInv, Execution
  <2>4. OneAtATime'
    BY <2>1 DEF SubmitInv, OneAtATime, InFlight, Reviewing
  <2> QED
    BY <2>1, <2>3, <2>4 DEF SubmitInv, HasActions
<1>7. ASSUME clickHandler PROVE SubmitInv'
  <2>1. /\ UNCHANGED <<interface, isValidating, submissions>>
        /\ interface = "button"
    BY <1>7 DEF clickHandler, component, stepperVars
  <2> QED
    BY <2>1 DEF SubmitInv, HasActions
<1>8. ASSUME CloseModal PROVE SubmitInv'
  <2>1. /\ interface' = "modal" /\ isValidating' = FALSE
        /\ submissions' = [r \in Slots |-> NoSubmission]
    BY <1>8 DEF CloseModal, Mounted
  <2>2. IsSubmission(NoSubmission)
    BY DEF NoSubmission, IsSubmission
  <2> QED
    BY <2>1, <2>2 DEF SubmitInv, HasActions
<1>9. ASSUME OpenModal \/ TaskEnds \/ UNCHANGED vars PROVE SubmitInv'
  BY <1>1, <1>9 DEF OpenModal, TaskEnds, vars, stepperVars, workflowVars
<1> QED
  BY <1>2, <1>3, <1>4, <1>5, <1>6, <1>7, <1>8, <1>9, ForwardSubmit, AnswerSubmit DEF Next

\* What the Create button executes is what the user submitted last, back and
\* forth and whatever was edited while a step was validated.
THEOREM ExecutesWhatWasSubmitted == Spec => []ExecutedIsSubmitted
<1>1. SubmitInv => ExecutedIsSubmitted
  BY DEF SubmitInv, ExecutedIsSubmitted
<1> QED
  BY InitSubmit, NextSubmit, <1>1, PTL DEF Spec

-----------------------------------------------------------------------------
(* What validate calls.                                                    *)

USE SchemaAssumption, StepsAssumption

CheckSet == [field: Fields \cup {NoField}, validator: validators \cup {NoField}]

\* The function that validate defines by recursion, and the body of it.
BodyOf(data, of, f) ==
    IF Schema[f].type = "object"
    THEN IF data[f] = Absent
         THEN <<Throw>>
         ELSE FlattenSeq([i \in DOMAIN Schema[f].properties |-> of[Schema[f].properties[i]]])
              \o validateForm(f, <<Schema[f].uiField>>)
    ELSE IF Schema[f].uiField # NoField
    THEN validateForm(f, <<Schema[f].uiField>>)
    ELSE doValidate(f)

ChecksOf(data) == CHOOSE of : of = [f \in Fields |-> BodyOf(data, of, f)]

\* For a schema that nests once, two rounds suffice.
LEMMA RecursionEnds ==
  ASSUME NEW data
  PROVE  ChecksOf(data) = [f \in Fields |-> BodyOf(data, ChecksOf(data), f)]
<1> DEFINE leaves == [f \in Fields |-> BodyOf(data, <<>>, f)]
           all    == [f \in Fields |-> BodyOf(data, leaves, f)]
<1>1. ASSUME NEW f \in Fields, Schema[f].properties = <<>>, NEW g, NEW h
      PROVE  BodyOf(data, g, f) = BodyOf(data, h, f)
  <2>1. [i \in DOMAIN <<>> |-> g[<<>>[i]]] = [i \in DOMAIN <<>> |-> h[<<>>[i]]]
    OBVIOUS
  <2> QED
    BY <1>1, <2>1 DEF BodyOf
<1>2. ASSUME NEW f \in Fields, Schema[f].properties = <<>>
      PROVE  all[f] = leaves[f]
  BY <1>1, <1>2
<1>3. ASSUME NEW f \in Fields PROVE BodyOf(data, leaves, f) = BodyOf(data, all, f)
  <2> DEFINE p == Schema[f].properties
  <2>1. \A i \in DOMAIN p : p[i] \in Fields /\ Schema[p[i]].properties = <<>>
    BY LenProperties
  <2>2. \A i \in DOMAIN p : leaves[p[i]] = all[p[i]]
    BY <1>2, <2>1
  <2> HIDE DEF leaves, all
  <2>3. [i \in DOMAIN p |-> leaves[p[i]]] = [i \in DOMAIN p |-> all[p[i]]]
    BY <2>2
  <2> QED
    BY <2>3 DEF BodyOf
<1>4. all = [f \in Fields |-> BodyOf(data, all, f)]
  BY <1>3
<1> HIDE DEF all
<1> QED
  BY <1>4 DEF ChecksOf

LEMMA ValidateIs ==
  ASSUME NEW data, NEW step
  PROVE  validate(data, step) = FlattenSeq([i \in DOMAIN step |-> ChecksOf(data)[step[i]]])
  BY DEF validate, ChecksOf, BodyOf

LEMMA FormChecks ==
  ASSUME NEW f \in Fields, NEW N, NEW names \in Seq(N)
  PROVE  /\ validateForm(f, names) \in Seq(CheckSet)
         /\ \A v \in ToSet(names) \cap validators : Check(f, v) \in ToSet(validateForm(f, names))
<1> DEFINE one == [i \in DOMAIN names |->
                    IF names[i] \in validators THEN <<Check(f, names[i])>> ELSE <<>>]
<1>1. DOMAIN names = 1..Len(names) /\ Len(names) \in Nat
  BY LenProperties
<1>2. \A i \in DOMAIN names : names[i] \in validators => Check(f, names[i]) \in CheckSet
  BY DEF Check, CheckSet
<1>3. one \in [1..Len(names) -> Seq(CheckSet)]
  BY <1>1, <1>2
<1>4. one \in Seq(Seq(CheckSet)) /\ DOMAIN one = DOMAIN names
  BY <1>1, <1>3, FunctionIsSeq
<1>5. ASSUME NEW v \in ToSet(names) \cap validators
      PROVE  Check(f, v) \in UNION {ToSet(one[i]) : i \in DOMAIN one}
  <2>1. PICK i \in DOMAIN names : names[i] = v
    BY DEF ToSet
  <2>2. one[i] = <<Check(f, v)>>
    BY <2>1
  <2>3. Check(f, v) \in ToSet(one[i])
    <3>1. DOMAIN <<Check(f, v)>> = {1} /\ <<Check(f, v)>>[1] = Check(f, v)
      OBVIOUS
    <3> QED
      BY <2>2, <3>1 DEF ToSet
  <2> QED
    BY <1>4, <2>1, <2>3
<1> HIDE DEF one
<1>6. /\ FlattenSeq(one) \in Seq(CheckSet)
      /\ ToSet(FlattenSeq(one)) = UNION {ToSet(one[i]) : i \in DOMAIN one}
  BY <1>4, FlattenType, FlattenElements
<1>7. validateForm(f, names) = FlattenSeq(one)
  BY DEF validateForm, one
<1> QED
  BY <1>5, <1>6, <1>7

LEMMA SingleName ==
  ASSUME NEW name
  PROVE  <<name>> \in Seq({name}) /\ ToSet(<<name>>) = {name}
<1>1. DOMAIN <<name>> = {1} /\ <<name>>[1] = name
  OBVIOUS
<1> QED
  BY <1>1 DEF ToSet

\* The checks of a field that is no object.
LEMMA PlainChecks ==
  ASSUME NEW data, NEW of, NEW f \in Fields, Schema[f].type # "object"
  PROVE  /\ BodyOf(data, of, f) \in Seq(CheckSet)
         /\ \A v \in Declared(f) : Check(f, v) \in ToSet(BodyOf(data, of, f))
<1> DEFINE items == Schema[f].items
<1>1. CASE Schema[f].uiField # NoField
  <2>1. BodyOf(data, of, f) = validateForm(f, <<Schema[f].uiField>>)
    BY <1>1 DEF BodyOf
  <2>2. Declared(f) = {Schema[f].uiField} \cap validators
    BY <1>1 DEF Declared
  <2>3. /\ <<Schema[f].uiField>> \in Seq({Schema[f].uiField})
        /\ ToSet(<<Schema[f].uiField>>) = {Schema[f].uiField}
    BY SingleName
  <2>4. /\ validateForm(f, <<Schema[f].uiField>>) \in Seq(CheckSet)
        /\ \A v \in ToSet(<<Schema[f].uiField>>) \cap validators :
                Check(f, v) \in ToSet(validateForm(f, <<Schema[f].uiField>>))
    BY <2>3, FormChecks
  <2> QED
    BY <2>1, <2>2, <2>3, <2>4
<1>2. CASE Schema[f].uiField = NoField /\ items.uiField # NoField
  <2>1. BodyOf(data, of, f) = validateForm(f, <<items.uiField>>)
    BY <1>2 DEF BodyOf, doValidate
  <2>2. Declared(f) = {items.uiField} \cap validators
    BY <1>2 DEF Declared
  <2>3. <<items.uiField>> \in Seq({items.uiField}) /\ ToSet(<<items.uiField>>) = {items.uiField}
    BY SingleName
  <2>4. /\ validateForm(f, <<items.uiField>>) \in Seq(CheckSet)
        /\ \A v \in ToSet(<<items.uiField>>) \cap validators :
                Check(f, v) \in ToSet(validateForm(f, <<items.uiField>>))
    BY <2>3, FormChecks
  <2> QED
    BY <2>1, <2>2, <2>3, <2>4
<1>3. CASE Schema[f].uiField = NoField /\ items.uiField = NoField
  <2>0. items.properties \in Seq(STRING)
    OBVIOUS
  <2>1. Declared(f) = ToSet(items.properties) \cap validators
    BY <1>3 DEF Declared
  <2>2. CASE items.type = "object"
    <3>1. BodyOf(data, of, f) = validateForm(f, items.properties)
      BY <1>3, <2>2 DEF BodyOf, doValidate
    <3> QED
      BY <2>0, <2>1, <3>1, FormChecks
  <2>3. CASE items.type # "object"
    <3>1. BodyOf(data, of, f) = <<>>
      BY <1>3, <2>3 DEF BodyOf, doValidate
    <3>2. items.properties = <<>>
      BY <2>3
    <3>3. ToSet(<<>>) = {}
      BY DEF ToSet
    <3> QED
      BY <2>1, <3>1, <3>2, <3>3
  <2> QED
    BY <2>2, <2>3
<1> QED
  BY <1>1, <1>2, <1>3

\* A field, and what it holds, is checked by what is declared for it, unless
\* the walk ends with an object that is not there.
Checked(checks, f) ==
    \A v \in Declared(f) : Check(f, v) \in ToSet(checks) \/ Throw \in ToSet(checks)

\* The checks of an object, given those of its properties.
LEMMA ObjectChecks ==
  ASSUME NEW data, NEW of, NEW f \in Fields, Schema[f].type = "object",
         \A i \in DOMAIN Schema[f].properties : of[Schema[f].properties[i]] \in Seq(CheckSet)
  PROVE  /\ BodyOf(data, of, f) \in Seq(CheckSet)
         /\ Checked(BodyOf(data, of, f), f)
         /\ \A g \in ToSet(Schema[f].properties) :
                Checked(of[g], g) => Checked(BodyOf(data, of, f), g)
<1> DEFINE p == Schema[f].properties
           of_p == [i \in DOMAIN p |-> of[p[i]]]
           own == validateForm(f, <<Schema[f].uiField>>)
           body == BodyOf(data, of, f)
<1>1. CASE data[f] = Absent
  <2>1. body = <<Throw>>
    BY <1>1 DEF BodyOf
  <2>2. Throw \in CheckSet
    BY DEF Throw, Check, CheckSet
  <2>3. Throw \in ToSet(<<Throw>>) /\ <<Throw>> \in Seq(CheckSet)
    BY <2>2, SingleName
  <2> QED
    BY <2>1, <2>3 DEF Checked
<1>2. CASE data[f] # Absent
  <2>1. body = FlattenSeq(of_p) \o own
    BY <1>2 DEF BodyOf
  <2>2. Schema[f].uiField \in validators => Check(f, Schema[f].uiField) \in ToSet(own)
    BY SingleName, FormChecks
  <2>3. p \in Seq(Fields) /\ DOMAIN p = 1..Len(p) /\ Len(p) \in Nat
    BY LenProperties
  <2>4. of_p \in [1..Len(p) -> Seq(CheckSet)]
    BY <2>3
  <2>5. of_p \in Seq(Seq(CheckSet)) /\ DOMAIN of_p = DOMAIN p
    BY <2>3, <2>4, FunctionIsSeq
  <2>6. /\ FlattenSeq(of_p) \in Seq(CheckSet)
        /\ ToSet(FlattenSeq(of_p)) = UNION {ToSet(of_p[i]) : i \in DOMAIN of_p}
    <3> HIDE DEF of_p
    <3> QED
      BY <2>5, FlattenType, FlattenElements
  <2>7. own \in Seq(CheckSet)
    BY SingleName, FormChecks
  <2>8. body \in Seq(CheckSet) /\ ToSet(body) = ToSet(FlattenSeq(of_p)) \cup ToSet(own)
    <3> HIDE DEF of_p, own
    <3> QED
      BY <2>1, <2>6, <2>7, ConcatElements, ConcatProperties
  <2>9. Checked(body, f)
    <3>1. Declared(f) \subseteq {Schema[f].uiField} \cap validators
      <4>1. Schema[f].items.uiField = NoField /\ ToSet(Schema[f].items.properties) = {}
        <5>1. ToSet(<<>>) = {}
          BY DEF ToSet
        <5> QED
          BY <5>1
      <4> QED
        BY <4>1 DEF Declared
    <3> QED
      BY <2>2, <2>8, <3>1 DEF Checked
  <2>10. ASSUME NEW g \in ToSet(p), Checked(of[g], g) PROVE Checked(body, g)
    <3>1. PICK i \in DOMAIN p : p[i] = g
      BY DEF ToSet
    <3>2. of_p[i] = of[g]
      BY <3>1
    <3>3. ToSet(of[g]) \subseteq ToSet(body)
      BY <2>5, <2>6, <2>8, <3>1, <3>2
    <3> QED
      BY <2>10, <3>3 DEF Checked
  <2> QED
    BY <2>8, <2>9, <2>10
<1> QED
  BY <1>1, <1>2

LEMMA FieldChecks ==
  ASSUME NEW data, NEW f \in Fields
  PROVE  /\ ChecksOf(data)[f] \in Seq(CheckSet)
         /\ \A g \in FieldsOf(<<f>>) : Checked(ChecksOf(data)[f], g)
<1> DEFINE C == ChecksOf(data)
<1>1. \A g \in Fields : C[g] = BodyOf(data, C, g)
  BY RecursionEnds
<1> HIDE DEF C
<1>2. ASSUME NEW g \in Fields, Schema[g].properties = <<>>
      PROVE  C[g] \in Seq(CheckSet) /\ Checked(C[g], g)
  <2>1. CASE Schema[g].type # "object"
    <3>1. /\ BodyOf(data, C, g) \in Seq(CheckSet)
          /\ \A v \in Declared(g) : Check(g, v) \in ToSet(BodyOf(data, C, g))
      BY <2>1, PlainChecks
    <3> QED
      BY <1>1, <3>1 DEF Checked
  <2>2. CASE Schema[g].type = "object"
    <3>1. \A i \in DOMAIN Schema[g].properties : C[Schema[g].properties[i]] \in Seq(CheckSet)
      BY <1>2
    <3>2. BodyOf(data, C, g) \in Seq(CheckSet) /\ Checked(BodyOf(data, C, g), g)
      BY <2>2, <3>1, ObjectChecks
    <3> QED
      BY <1>1, <3>2
  <2> QED
    BY <2>1, <2>2
<1>3. \A g \in FieldsOf(<<f>>) : g = f \/ g \in ToSet(Schema[f].properties)
  <2>1. ToSet(<<f>>) = {f}
    BY SingleName
  <2> QED
    BY <2>1 DEF FieldsOf
<1>4. CASE Schema[f].properties = <<>>
  <2>1. ToSet(<<>>) = {}
    BY DEF ToSet
  <2> QED
    BY <1>2, <1>3, <1>4, <2>1 DEF C
<1>5. CASE Schema[f].properties # <<>>
  <2> DEFINE p == Schema[f].properties
  <2>1. Schema[f].type = "object" /\ p \in Seq(Fields)
    BY <1>5
  <2>2. \A i \in DOMAIN p : p[i] \in Fields /\ Schema[p[i]].properties = <<>>
    BY <2>1, LenProperties
  <2>3. \A i \in DOMAIN p : C[p[i]] \in Seq(CheckSet) /\ Checked(C[p[i]], p[i])
    BY <1>2, <2>2
  <2>4. \A g \in ToSet(p) : Checked(C[g], g)
    BY <2>3 DEF ToSet
  <2>5. /\ BodyOf(data, C, f) \in Seq(CheckSet)
        /\ Checked(BodyOf(data, C, f), f)
        /\ \A g \in ToSet(p) : Checked(C[g], g) => Checked(BodyOf(data, C, f), g)
    BY <2>1, <2>3, ObjectChecks
  <2> QED
    BY <1>1, <1>3, <2>4, <2>5 DEF C
<1> QED
  BY <1>4, <1>5

\* What validate calls for a step: sequences of checks, and among them those
\* that are declared for each of the fields of the step.
LEMMA StepChecks ==
  ASSUME NEW data, NEW step \in Seq(Fields)
  PROVE  /\ validate(data, step) \in Seq(CheckSet)
         /\ \A f \in FieldsOf(step) : Checked(validate(data, step), f)
<1> DEFINE parts == [i \in DOMAIN step |-> ChecksOf(data)[step[i]]]
<1>1. /\ DOMAIN step = 1..Len(step) /\ Len(step) \in Nat
      /\ \A i \in DOMAIN step : step[i] \in Fields
  BY LenProperties
<1>2. parts \in [1..Len(step) -> Seq(CheckSet)]
  BY <1>1, FieldChecks
<1>3. parts \in Seq(Seq(CheckSet)) /\ DOMAIN parts = DOMAIN step
  BY <1>1, <1>2, FunctionIsSeq
<1>4. /\ FlattenSeq(parts) \in Seq(CheckSet)
      /\ ToSet(FlattenSeq(parts)) = UNION {ToSet(parts[i]) : i \in DOMAIN parts}
  <2> HIDE DEF parts
  <2> QED
    BY <1>3, FlattenType, FlattenElements
<1>5. validate(data, step) = FlattenSeq(parts)
  BY ValidateIs
<1>6. ASSUME NEW f \in FieldsOf(step) PROVE Checked(validate(data, step), f)
  <2>1. PICK i \in DOMAIN step : f = step[i] \/ f \in ToSet(Schema[step[i]].properties)
    BY DEF FieldsOf, ToSet
  <2>2. f \in FieldsOf(<<step[i]>>)
    <3>1. ToSet(<<step[i]>>) = {step[i]}
      BY SingleName
    <3> QED
      BY <2>1, <3>1 DEF FieldsOf
  <2>3. Checked(parts[i], f)
    BY <1>1, <2>2, FieldChecks
  <2>4. ToSet(parts[i]) \subseteq ToSet(validate(data, step))
    BY <1>3, <1>4, <1>5
  <2> QED
    BY <2>3, <2>4 DEF Checked
<1> QED
  BY <1>4, <1>5, <1>6

-----------------------------------------------------------------------------
(* What is executed is valid.                                              *)

Valid(f, values) == \A v \in Declared(f) : values[f] \notin Rejects[v]

\* The fields that no step from the shown one on asks for.
Done == {f \in Fields : \A k \in (activeStep + 1)..Len(Steps) : f \notin FieldsOf(Steps[k])}

\* A check of a submission is still to come, or its errors were found.
TakenUp(submission, check) ==
    \/ check \in ToSet(submission.todo)
    \/ check # Throw /\ ErrorsOf(check, submission.formData) \subseteq submission.found

\* A submission has the form, except for what was edited behind it, and was
\* given the checks of the step that is shown.
Underway(submission) ==
    /\ submission.todo \in Seq(CheckSet)
    /\ \A f \in Fields \ carried : submission.formData[f] = formData[f]
    /\ \A check \in ToSet(validate(submission.formData, currentStep)) : TakenUp(submission, check)

ValidInv ==
    HasActions =>
        /\ activeStep \in 0..Len(Steps)
        /\ \A f \in Done \ carried : Valid(f, formData)
        /\ Reviewing => \A f \in Fields \ carried : Valid(f, formState)
        /\ \A s \in InFlight : Underway(submissions[s])
        /\ \A f \in DOMAIN executed.values : Valid(f, executed.values)

\* The step that is shown is one of the template's.
LEMMA ShownStep ==
  ASSUME activeStep \in 0..Len(Steps), ~Reviewing
  PROVE  /\ activeStep + 1 \in DOMAIN Steps /\ currentStep \in Seq(Fields)
         /\ activeStep + 1 \in 0..Len(Steps)
         /\ \A f \in Fields : f \in Done => f \notin FieldsOf(currentStep)
<1>1. /\ Len(Steps) \in Nat /\ DOMAIN Steps = 1..Len(Steps)
      /\ \A k \in DOMAIN Steps : Steps[k] \in Seq(Fields)
  BY LenProperties
<1>2. activeStep + 1 \in 1..Len(Steps) /\ activeStep + 1 \in (activeStep + 1)..Len(Steps)
  BY <1>1 DEF Reviewing
<1>3. \A f \in Done : f \notin FieldsOf(Steps[activeStep + 1])
  BY <1>2 DEF Done
<1> QED
  BY <1>1, <1>2, <1>3 DEF currentStep

\* A submission whose validation found nothing is valid in the fields of its step.
LEMMA FoundNothing ==
  ASSUME NEW submission, NEW step \in Seq(Fields), submission.todo = <<>>,
         submission.found = {},
         \A check \in ToSet(validate(submission.formData, step)) : TakenUp(submission, check)
  PROVE  \A f \in FieldsOf(step) : Valid(f, submission.formData)
<1> SUFFICES ASSUME NEW f \in FieldsOf(step), NEW v \in Declared(f)
             PROVE  submission.formData[f] \notin Rejects[v]
  BY DEF Valid
<1> DEFINE checks == validate(submission.formData, step)
<1>1. ToSet(submission.todo) = {}
  BY DEF ToSet
<1>2. \A check \in ToSet(checks) :
        check # Throw /\ ErrorsOf(check, submission.formData) = {}
  BY <1>1 DEF TakenUp
<1>3. Check(f, v) \in ToSet(checks)
  BY <1>2, StepChecks DEF Checked
<1>4. ErrorsOf(Check(f, v), submission.formData) = {}
  BY <1>2, <1>3
<1> QED
  BY <1>4 DEF ErrorsOf, Check

\* Nothing that the invariant is about changes.
LEMMA ValidKept ==
  ASSUME ValidInv, UNCHANGED <<interface, activeStep, formData, formState, submissions,
                               carried, executed>>
  PROVE  ValidInv'
<1>1. /\ HasActions' = HasActions /\ Done' = Done /\ Reviewing' = Reviewing
      /\ InFlight' = InFlight /\ currentStep' = currentStep
  BY DEF HasActions, Done, Reviewing, InFlight, currentStep
<1>2. ASSUME NEW s \in InFlight, Underway(submissions[s]) PROVE Underway(submissions[s])'
  BY <1>1, <1>2 DEF Underway, TakenUp
<1>3. CASE ~HasActions
  BY <1>1, <1>3 DEF ValidInv
<1>4. CASE HasActions
  BY <1>1, <1>2, <1>4 DEF ValidInv
<1> QED
  BY <1>3, <1>4

LEMMA InitValid == Init => ValidInv
<1> SUFFICES ASSUME Init, HasActions PROVE ValidInv
  BY DEF ValidInv
<1>1. Len(Steps) \in Nat /\ DOMAIN Steps = 1..Len(Steps)
  BY LenProperties
<1>2. activeStep = 0 /\ activeStep \in 0..Len(Steps)
  BY <1>1 DEF Init
<1>3. Done = {}
  BY <1>1, <1>2 DEF Done
<1>4. Reviewing => Fields = {}
  BY <1>1, <1>2 DEF Reviewing
<1>5. InFlight = {}
  BY DEF Init, InFlight, NoSubmission
<1>6. DOMAIN executed.values = {}
  BY DEF Init, Execution
<1> QED
  BY <1>2, <1>3, <1>4, <1>5, <1>6 DEF ValidInv

\* A user edits a field of the step that is shown, or what it holds.
LEMMA ChangeValid ==
  ASSUME SubmitInv, ValidInv, NEW f \in Fields, NEW value \in ValuesOf[f], handleChange(f, value)
  PROVE  ValidInv'
<1> SUFFICES ASSUME HasActions PROVE ValidInv'
  BY DEF handleChange, ValidInv, HasActions
<1> DEFINE held == ToSet(Schema[f].properties)
<1>1. /\ ~Reviewing /\ f \in FieldsOf(currentStep)
      /\ UNCHANGED <<interface, activeStep, formState, submissions, executed>>
      /\ \A g \in Fields : g # f /\ g \notin held => formData'[g] = formData[g]
      /\ carried' = carried \cup (IF InFlight # {} THEN FieldsOf(<<f>>) ELSE {})
  BY DEF handleChange, workflowVars
<1>2. held \subseteq FieldsOf(currentStep)
  <2>1. ASSUME f \notin ToSet(currentStep) PROVE held = {}
    <3>1. currentStep \in Seq(Fields)
      BY <1>1, ShownStep DEF ValidInv
    <3>2. PICK g \in ToSet(currentStep) : f \in ToSet(Schema[g].properties)
      BY <1>1, <2>1 DEF FieldsOf
    <3>3. g \in Fields
      BY <3>1, <3>2, ElementsOfSeq
    <3>4. Schema[f].properties = <<>>
      <4>1. PICK i \in DOMAIN Schema[g].properties : Schema[g].properties[i] = f
        BY <3>2 DEF ToSet
      <4> QED
        BY <3>3, <4>1
    <3> QED
      BY <3>4 DEF ToSet
  <2> QED
    BY <2>1 DEF FieldsOf
<1>3. f \in FieldsOf(<<f>>) /\ held \subseteq FieldsOf(<<f>>)
  BY SingleName DEF FieldsOf
<1>4. Done' = Done /\ currentStep' = currentStep /\ InFlight' = InFlight /\ ~Reviewing'
  BY <1>1 DEF Done, currentStep, InFlight, Reviewing
<1>5. \A g \in Done : formData'[g] = formData[g]
  BY <1>1, <1>2, ShownStep DEF ValidInv, Done
<1>6. \A g \in Done' \ carried' : Valid(g, formData')
  BY <1>1, <1>4, <1>5 DEF ValidInv, Valid
<1>7. ASSUME NEW s \in InFlight PROVE Underway(submissions[s])'
  <2>1. \A g \in Fields \ carried' : g \notin carried /\ formData'[g] = formData[g]
    BY <1>1, <1>3, <1>7
  <2>2. Underway(submissions[s])
    BY <1>7 DEF ValidInv
  <2> QED
    BY <1>1, <1>4, <2>1, <2>2 DEF Underway, TakenUp
<1> QED
  BY <1>1, <1>4, <1>6, <1>7 DEF ValidInv

LEMMA ForwardValid ==
  ASSUME SubmitInv, ValidInv, NEW s \in Slots, handleForward(s)
  PROVE  ValidInv'
<1> SUFFICES ASSUME HasActions PROVE ValidInv'
  BY DEF handleForward, ValidInv, HasActions
<1> DEFINE new == [formData |-> formData, todo |-> validate(formData, currentStep),
                   found |-> {}, free |-> FALSE]
<1>1. /\ submissions' = [submissions EXCEPT ![s] = new]
      /\ carried' = carried \ FieldsOf(currentStep)
      /\ UNCHANGED <<interface, activeStep, formData, formState, executed>>
      /\ ~Reviewing /\ ~isValidating
  BY DEF handleForward, workflowVars, CanSubmit, Actions, OnboardingActions, FormActions
<1>2. InFlight = {}
  BY <1>1 DEF SubmitInv, OneAtATime
<1>3. InFlight' = {s} /\ submissions'[s] = new
  BY <1>1, <1>2 DEF SubmitInv, InFlight
<1>4. currentStep \in Seq(Fields) /\ \A f \in Fields : f \in Done => f \notin FieldsOf(currentStep)
  BY <1>1, ShownStep DEF ValidInv
<1>5. Done' = Done /\ currentStep' = currentStep /\ ~Reviewing'
  BY <1>1 DEF Done, currentStep, Reviewing
<1>6. \A f \in Done' \ carried' : Valid(f, formData)
  BY <1>1, <1>4, <1>5 DEF ValidInv, Done
<1>7. Underway(submissions[s])'
  <2>1. validate(formData, currentStep) \in Seq(CheckSet)
    BY <1>4, StepChecks
  <2>2. new.formData = formData /\ new.todo = validate(formData, currentStep)
    OBVIOUS
  <2> HIDE DEF new
  <2> QED
    BY <1>1, <1>3, <1>5, <2>1, <2>2 DEF Underway, TakenUp
<1>8. \A r \in InFlight' : Underway(submissions[r])'
  BY <1>3, <1>7
<1>9. \A f \in DOMAIN executed'.values : Valid(f, executed'.values)
  BY <1>1 DEF ValidInv
<1> QED
  BY <1>1, <1>5, <1>6, <1>8, <1>9 DEF ValidInv

LEMMA AnswerValid ==
  ASSUME SubmitInv, ValidInv, NEW s \in Slots, ValidatorAnswers(s)
  PROVE  ValidInv'
<1> SUFFICES ASSUME HasActions PROVE ValidInv'
  BY DEF ValidatorAnswers, ValidInv, HasActions
<1> DEFINE old == submissions[s]
           new == submissions'[s]
           check == Head(old.todo)
<1>1. /\ submissions' = [submissions EXCEPT ![s].todo = Tail(old.todo),
                                           ![s].found = old.found \cup ErrorsOf(check, old.formData)]
      /\ old.todo # <<>> /\ check # Throw /\ s \in InFlight
      /\ UNCHANGED <<interface, activeStep, formData, formState, carried, executed>>
  BY DEF ValidatorAnswers, workflowVars
<1>2. /\ \A r \in Slots \ {s} : submissions'[r] = submissions[r]
      /\ new = [old EXCEPT !.todo = Tail(old.todo),
                           !.found = old.found \cup ErrorsOf(check, old.formData)]
  BY <1>1 DEF SubmitInv
<1>3. /\ new.todo = Tail(old.todo) /\ new.formData = old.formData /\ new.free = old.free
      /\ new.found = old.found \cup ErrorsOf(check, old.formData)
  BY <1>2 DEF SubmitInv, IsSubmission
<1>4. InFlight' = InFlight
  BY <1>2, <1>3 DEF InFlight
<1>5. Done' = Done /\ currentStep' = currentStep /\ Reviewing' = Reviewing
  BY <1>1 DEF Done, currentStep, Reviewing
<1>6. Underway(old)
  BY <1>1 DEF ValidInv
<1> HIDE DEF old, new
<1>7. /\ old.todo \in Seq(CheckSet) /\ Tail(old.todo) \in Seq(CheckSet)
      /\ ToSet(old.todo) = {check} \cup ToSet(Tail(old.todo))
  BY <1>1, <1>6, TailElements DEF Underway
<1>8. \A c : TakenUp(old, c) => TakenUp(new, c)
  BY <1>1, <1>3, <1>7 DEF TakenUp
<1>9. /\ new.todo \in Seq(CheckSet)
      /\ \A f \in Fields \ carried : new.formData[f] = formData[f]
      /\ \A c \in ToSet(validate(new.formData, currentStep)) : TakenUp(new, c)
  BY <1>3, <1>6, <1>7, <1>8 DEF Underway
<1>10. \A r \in InFlight : Underway(submissions[r])'
  <2> SUFFICES ASSUME NEW r \in InFlight PROVE Underway(submissions[r])'
    OBVIOUS
  <2>1. CASE r = s
    BY <1>1, <1>5, <1>9, <2>1 DEF Underway, TakenUp, new
  <2>2. CASE r # s
    <3>1. submissions'[r] = submissions[r] /\ Underway(submissions[r])
      BY <1>2, <2>2 DEF InFlight, ValidInv
    <3> QED
      BY <1>1, <1>5, <3>1 DEF Underway, TakenUp
  <2> QED
    BY <2>1, <2>2
<1> QED
  BY <1>1, <1>4, <1>5, <1>10 DEF ValidInv

\* A validation that is rejected as a whole leaves the form as it is.
LEMMA ThrowValid ==
  ASSUME SubmitInv, ValidInv, NEW s \in Slots, ValidationThrows(s)
  PROVE  ValidInv'
<1> SUFFICES ASSUME HasActions PROVE ValidInv'
  BY DEF ValidationThrows, ValidInv, HasActions
<1>1. /\ submissions' = [submissions EXCEPT ![s] = NoSubmission]
      /\ UNCHANGED <<interface, activeStep, formData, formState, carried, executed>>
  BY DEF ValidationThrows, workflowVars
<1>2. InFlight' \subseteq InFlight /\ \A r \in InFlight' : submissions'[r] = submissions[r]
  BY <1>1, SubmissionEnds
<1>3. Done' = Done /\ currentStep' = currentStep /\ Reviewing' = Reviewing
  BY <1>1 DEF Done, currentStep, Reviewing
<1>4. ASSUME NEW r \in InFlight' PROVE Underway(submissions[r])'
  <2>1. Underway(submissions[r]) /\ submissions'[r] = submissions[r]
    BY <1>2, <1>4 DEF ValidInv
  <2> QED
    BY <1>1, <1>3, <2>1 DEF Underway, TakenUp
<1> QED
  BY <1>1, <1>3, <1>4 DEF ValidInv

\* The step whose validation found nothing is done; the review shows what was
\* submitted.
LEMMA SettleValid ==
  ASSUME SubmitInv, ValidInv, NEW s \in Slots, Settle(s)
  PROVE  ValidInv'
<1> SUFFICES ASSUME HasActions PROVE ValidInv'
  BY DEF Settle, ValidInv, HasActions
<1> DEFINE old == submissions[s]
<1>1. /\ s \in InFlight /\ old.todo = <<>>
      /\ submissions' = [submissions EXCEPT ![s] = NoSubmission]
      /\ formState' = old.formData
      /\ activeStep' = IF old.found = {} THEN activeStep + 1 ELSE activeStep
      /\ UNCHANGED <<interface, formData, carried>>
  BY DEF Settle, Merge
<1>2. executed' = executed
  BY DEF Settle, DefaultReview, HasActions, workflowVars
<1>3. InFlight' = {}
  <2>1. OneAtATime
    BY DEF SubmitInv
  <2>2. InFlight' = InFlight \ {s}
    BY <1>1, SubmissionEnds
  <2> QED
    BY <1>1, <2>1, <2>2 DEF OneAtATime
<1>4. ~Reviewing /\ Underway(old) /\ activeStep \in 0..Len(Steps)
  BY <1>1 DEF SubmitInv, OneAtATime, ValidInv
<1> HIDE DEF old
<1>5. /\ currentStep \in Seq(Fields) /\ activeStep + 1 \in 0..Len(Steps)
  BY <1>4, ShownStep
<1>6. CASE old.found = {}
  <2>1. \A f \in FieldsOf(currentStep) : Valid(f, old.formData)
    BY <1>1, <1>4, <1>5, <1>6, FoundNothing DEF Underway
  <2>2. \A f \in Fields \ carried : old.formData[f] = formData[f]
    BY <1>4 DEF Underway
  <2>3. \A f \in Done' : f \in Done \/ f \in FieldsOf(currentStep)
    <3>1. Len(Steps) \in Nat
      BY LenProperties
    <3>2. \A k \in (activeStep + 1)..Len(Steps) : k = activeStep + 1 \/ k \in (activeStep' + 1)..Len(Steps)
      BY <1>1, <1>4, <1>6, <3>1
    <3> QED
      BY <3>2 DEF Done, currentStep
  <2>4. \A f \in Done' \ carried : Valid(f, formData)
    BY <2>1, <2>2, <2>3 DEF ValidInv, Valid, Done
  <2>5. ASSUME Reviewing', NEW f \in Fields \ carried PROVE Valid(f, old.formData)
    <3>1. f \in Done'
      <4>1. Len(Steps) \in Nat /\ activeStep' >= Len(Steps) /\ activeStep' \in Nat
        BY <1>1, <1>5, <1>6, <2>5, LenProperties DEF Reviewing
      <4>2. (activeStep' + 1)..Len(Steps) = {}
        BY <4>1
      <4> QED
        BY <4>2 DEF Done
    <3> QED
      BY <2>2, <2>4, <3>1 DEF Valid
  <2> QED
    BY <1>1, <1>2, <1>3, <1>5, <1>6, <2>4, <2>5 DEF ValidInv
<1>7. CASE old.found # {}
  <2>1. activeStep' = activeStep
    BY <1>1, <1>7
  <2>2. Done' = Done /\ ~Reviewing'
    BY <1>4, <2>1 DEF Done, Reviewing
  <2> QED
    BY <1>1, <1>2, <1>3, <2>1, <2>2 DEF ValidInv
<1> QED
  BY <1>6, <1>7

\* Back shows what was submitted, or leaves the form as it is.
LEMMA BackValid ==
  ASSUME SubmitInv, ValidInv, handleBack
  PROVE  ValidInv'
<1>1. /\ HasActions /\ activeStep >= 1 /\ ~isValidating
      /\ activeStep' = activeStep - 1
      /\ formData' = IF Reviewing THEN formState ELSE formData
      /\ UNCHANGED <<interface, formState, submissions, carried, executed>>
  BY DEF handleBack, workflowVars, Actions, OnboardingActions, FormActions
<1>2. InFlight' = {}
  BY <1>1 DEF SubmitInv, OneAtATime, InFlight
<1>3. /\ Len(Steps) \in Nat /\ activeStep \in 0..Len(Steps)
      /\ activeStep' \in 0..Len(Steps) /\ ~Reviewing'
  BY <1>1, LenProperties DEF ValidInv, Reviewing
<1>4. Done' \subseteq Done
  <2>1. (activeStep + 1)..Len(Steps) \subseteq (activeStep' + 1)..Len(Steps)
    BY <1>1, <1>3
  <2> QED
    BY <2>1 DEF Done
<1>5. \A f \in Done' \ carried' : Valid(f, formData')
  BY <1>1, <1>4 DEF ValidInv, Done
<1> QED
  BY <1>1, <1>2, <1>3, <1>5 DEF ValidInv

\* Create executes what the review shows.
LEMMA CreateValid ==
  ASSUME SubmitInv, ValidInv, Create
  PROVE  ValidInv'
<1>1. /\ HasActions /\ Actions.Create
      /\ executed' = Execution(formState, sent, carried)
      /\ UNCHANGED <<interface, activeStep, formData, formState, submissions, carried>>
  BY DEF Create, execute, stepperVars
<1>2. activeStep \in 0..Len(Steps) /\ Len(Steps) \in Nat
  BY <1>1, LenProperties DEF ValidInv
<1>3. Reviewing
  <2>1. CASE interface = "onboarding"
    BY <1>1, <2>1 DEF Actions, OnboardingActions
  <2>2. CASE interface # "onboarding"
    <3>1. activeStep = Len(Steps)
      BY <1>1, <2>2 DEF Actions, FormActions
    <3> QED
      BY <1>2, <3>1 DEF Reviewing
  <2> QED
    BY <2>1, <2>2
<1>4. executed'.values = [f \in Fields \ carried |-> formState[f]]
  BY <1>1 DEF Execution
<1>5. \A f \in DOMAIN executed'.values : Valid(f, executed'.values)
  BY <1>1, <1>3, <1>4 DEF ValidInv, Valid
<1>6. Done' = Done /\ Reviewing' = Reviewing /\ InFlight' = InFlight /\ currentStep' = currentStep
  BY <1>1 DEF Done, Reviewing, InFlight, currentStep
<1>7. ASSUME NEW r \in InFlight PROVE Underway(submissions[r])'
  <2>1. Underway(submissions[r])
    BY <1>1, <1>7 DEF ValidInv
  <2> QED
    BY <1>1, <1>6, <2>1 DEF Underway, TakenUp
<1> QED
  BY <1>1, <1>5, <1>6, <1>7 DEF ValidInv

LEMMA NextValid == SubmitInv /\ ValidInv /\ [Next]_vars => ValidInv'
<1> SUFFICES ASSUME SubmitInv, ValidInv, [Next]_vars PROVE ValidInv'
  OBVIOUS
<1>1. ASSUME NEW f \in Fields, NEW value \in ValuesOf[f], handleChange(f, value) PROVE ValidInv'
  BY <1>1, ChangeValid
<1>2. ASSUME NEW s \in Slots,
             handleForward(s) \/ ValidatorAnswers(s) \/ ValidationThrows(s) \/ Settle(s)
      PROVE  ValidInv'
  BY <1>2, ForwardValid, AnswerValid, ThrowValid, SettleValid
<1>3. ASSUME handleBack \/ Create PROVE ValidInv'
  BY <1>3, BackValid, CreateValid
<1>4. ASSUME clickHandler \/ CloseModal PROVE ValidInv'
  BY <1>4 DEF clickHandler, component, CloseModal, ValidInv, HasActions
<1>5. ASSUME OpenModal \/ TaskEnds \/ UNCHANGED vars PROVE ValidInv'
  BY <1>5, ValidKept DEF OpenModal, TaskEnds, vars, stepperVars, workflowVars
<1> QED
  BY <1>1, <1>2, <1>3, <1>4, <1>5 DEF Next

\* Whatever way a user took through the steps, back and forth, with failed
\* validations and edits in between: what the Create button executes has passed
\* every validator that the schema declares, except for the fields that were
\* edited while the step they belong to was being validated.
THEOREM ExecutesWhatIsValid == Spec => []ExecutedIsValid
<1>1. ValidInv => ExecutedIsValid
  BY DEF ValidInv, ExecutedIsValid, Valid
<1>2. SubmitInv /\ ValidInv /\ [Next]_vars => (SubmitInv /\ ValidInv)'
  BY NextSubmit, NextValid
<1>3. Init => SubmitInv /\ ValidInv
  BY InitSubmit, InitValid
<1> QED
  BY <1>1, <1>2, <1>3, PTL DEF Spec


-----------------------------------------------------------------------------
(* A form that is validated is unlocked.                                   *)

\* What a submission waits for: the answer of a validator, or nothing, and then
\* the code behind the await can run, with all that it calls.
WillMove(s) ==
    /\ s \in InFlight
    /\ \/ submissions[s].todo # <<>>
       \/ interface = "modal" /\ taskStatus = "idle" => executions < MaxExecutions

\* A form is locked only on behalf of a submission, unless validate threw.
LockIsOwed == isValidating => rejected \/ \E s \in Slots : WillMove(s)

\* What a step may do to a submission: it leaves it as it is, takes one of the
\* validators that are still to be called, or unlocks the form.
ValidationsEnd ==
    [][\A s \in InFlight :
          \/ submissions'[s] = submissions[s]
          \/ s \in InFlight' /\ Len(submissions'[s].todo) < Len(submissions[s].todo)
          \/ ~isValidating' \/ rejected']_vars

\* Whatever embeds the workflow, its step is counted and the submissions have
\* a number of validators to call.
LockInv ==
    /\ activeStep \in Nat
    /\ \A s \in InFlight : submissions[s].todo \in Seq(CheckSet)
    /\ isValidating => rejected \/ InFlight # {}

LEMMA InitLock == Init => LockInv
<1> SUFFICES ASSUME Init PROVE LockInv
  OBVIOUS
<1>1. InFlight = {}
  BY DEF Init, InFlight, NoSubmission
<1> QED
  BY <1>1 DEF Init, LockInv

\* A submission is given the checks of a step of the template.
LEMMA ForwardLock ==
  ASSUME SubmitInv, LockInv, NEW s \in Slots, handleForward(s)
  PROVE  /\ LockInv'
         /\ \A r \in InFlight : r \in InFlight' /\ submissions'[r] = submissions[r]
<1> DEFINE new == [formData |-> formData, todo |-> validate(formData, currentStep),
                   found |-> {}, free |-> FALSE]
<1>1. /\ submissions' = [submissions EXCEPT ![s] = new]
      /\ submissions[s].free /\ CanSubmit /\ activeStep' = activeStep
  BY DEF handleForward
<1>2. ~Reviewing
  BY <1>1 DEF CanSubmit, Actions, OnboardingActions, FormActions
<1>3. activeStep \in 0..Len(Steps)
  BY <1>2, LenProperties DEF LockInv, Reviewing
<1>4. validate(formData, currentStep) \in Seq(CheckSet)
  BY <1>2, <1>3, ShownStep, StepChecks
<1>5. new.todo \in Seq(CheckSet) /\ ~new.free
  BY <1>4
<1> HIDE DEF new
<1>6. /\ submissions'[s] = new
      /\ \A r \in Slots \ {s} : submissions'[r] = submissions[r]
  BY <1>1 DEF SubmitInv
<1>7. InFlight' = InFlight \cup {s} /\ s \notin InFlight
  BY <1>1, <1>5, <1>6 DEF InFlight
<1>8. \A r \in InFlight : submissions'[r] = submissions[r]
  BY <1>6, <1>7 DEF InFlight
<1> QED
  BY <1>1, <1>5, <1>6, <1>7, <1>8 DEF LockInv

\* An answer takes one validator off the list.
LEMMA AnswerLock ==
  ASSUME SubmitInv, LockInv, NEW s \in Slots, ValidatorAnswers(s)
  PROVE  /\ LockInv' /\ InFlight' = InFlight
         /\ Len(submissions'[s].todo) < Len(submissions[s].todo)
         /\ \A r \in InFlight \ {s} : submissions'[r] = submissions[r]
<1>1. PICK found :
        submissions' = [submissions EXCEPT ![s].todo = Tail(submissions[s].todo), ![s].found = found]
  BY DEF ValidatorAnswers
<1>2. /\ s \in InFlight /\ submissions[s].todo # <<>>
      /\ UNCHANGED <<activeStep, isValidating, rejected>>
  BY DEF ValidatorAnswers
<1>3. /\ \A r \in Slots \ {s} : submissions'[r] = submissions[r]
      /\ submissions'[s] = [submissions[s] EXCEPT !.todo = Tail(submissions[s].todo), !.found = found]
  BY <1>1 DEF SubmitInv
<1>4. /\ submissions'[s].todo = Tail(submissions[s].todo)
      /\ submissions'[s].free = submissions[s].free
  BY <1>3 DEF SubmitInv, IsSubmission
<1>5. InFlight' = InFlight
  BY <1>3, <1>4 DEF InFlight
<1>6. PICK todo \in Seq(CheckSet) : submissions[s].todo = todo
  BY <1>2 DEF LockInv
<1>7. Tail(todo) \in Seq(CheckSet) /\ Len(Tail(todo)) < Len(todo)
  <2>1. todo # <<>>
    BY <1>2, <1>6
  <2>2. Tail(todo) \in Seq(CheckSet) /\ Len(Tail(todo)) = Len(todo) - 1 /\ Len(todo) \in Nat
    BY <2>1, HeadTailProperties, LenProperties
  <2> QED
    BY <2>2
<1>8. \A r \in InFlight : submissions'[r].todo \in Seq(CheckSet)
  BY <1>3, <1>4, <1>6, <1>7 DEF LockInv, InFlight
<1>9. \A r \in InFlight \ {s} : submissions'[r] = submissions[r]
  BY <1>3 DEF InFlight
<1> QED
  BY <1>2, <1>4, <1>5, <1>6, <1>7, <1>8, <1>9 DEF LockInv

\* A validation that is over, one way or the other, leaves the other ones.
LEMMA EndLock ==
  ASSUME SubmitInv, LockInv, NEW s \in Slots, ValidationThrows(s) \/ Settle(s)
  PROVE  LockInv' /\ (~isValidating' \/ rejected')
<1>1. /\ submissions' = [submissions EXCEPT ![s] = NoSubmission]
      /\ activeStep' \in {activeStep, activeStep + 1}
      /\ ~isValidating' \/ rejected'
  BY DEF ValidationThrows, Settle
<1>2. InFlight' \subseteq InFlight /\ \A r \in InFlight' : submissions'[r] = submissions[r]
  BY <1>1, SubmissionEnds
<1>3. activeStep' \in Nat
  BY <1>1 DEF LockInv
<1>4. \A r \in InFlight' : submissions'[r].todo \in Seq(CheckSet)
  BY <1>2 DEF LockInv
<1> QED
  BY <1>1, <1>3, <1>4 DEF LockInv

\* The steps that start or end no validation.
OtherStep ==
    \/ \E f \in Fields : \E value \in ValuesOf[f] : handleChange(f, value)
    \/ handleBack \/ Create \/ clickHandler \/ CloseModal \/ OpenModal \/ TaskEnds
    \/ UNCHANGED vars

LEMMA OtherLock ==
  ASSUME LockInv, OtherStep
  PROVE  LockInv' /\ (submissions' = submissions \/ ~isValidating')
<1>1. ASSUME UNCHANGED <<isValidating, submissions, rejected>>, activeStep' \in Nat
      PROVE  LockInv'
  BY <1>1 DEF LockInv, InFlight
<1>2. CASE handleBack
  <2>1. /\ UNCHANGED <<isValidating, submissions, rejected>>
        /\ activeStep' = activeStep - 1 /\ activeStep >= 1
    BY <1>2 DEF handleBack, Actions, OnboardingActions, FormActions
  <2>2. activeStep' \in Nat
    BY <2>1 DEF LockInv
  <2> QED
    BY <1>1, <2>1, <2>2
<1>3. CASE CloseModal
  <2>1. /\ isValidating' = FALSE /\ activeStep' = 0
        /\ submissions' = [r \in Slots |-> NoSubmission]
    BY <1>3 DEF CloseModal, Mounted
  <2>2. InFlight' = {}
    BY <2>1 DEF InFlight, NoSubmission
  <2> QED
    BY <2>1, <2>2 DEF LockInv
<1>4. ASSUME OtherStep, ~handleBack, ~CloseModal
      PROVE  UNCHANGED <<activeStep, isValidating, submissions, rejected>>
  BY <1>4 DEF OtherStep, handleChange, Create, clickHandler, OpenModal, TaskEnds, vars, stepperVars
<1>5. CASE ~handleBack /\ ~CloseModal
  BY <1>1, <1>4, <1>5 DEF LockInv
<1> QED
  BY <1>2, <1>3, <1>5 DEF handleBack, CloseModal, Mounted

LEMMA StepOrOther ==
  ASSUME [Next]_vars
  PROVE  \/ OtherStep
         \/ \E s \in Slots : \/ handleForward(s) \/ ValidatorAnswers(s)
                             \/ ValidationThrows(s) \/ Settle(s)
  BY DEF Next, OtherStep

LEMMA NextLock == SubmitInv /\ LockInv /\ [Next]_vars => LockInv'
  BY StepOrOther, OtherLock, ForwardLock, AnswerLock, EndLock

\* A locked form has a submission that waits for a validator, or for nothing: no
\* call of execute is in its way, because an idle workflow was never started.
THEOREM LocksAreOwed == Spec => []LockIsOwed
<1>1. ASSUME StartInv, LockInv PROVE LockIsOwed
  <2>1. taskStatus = "idle" => executions < MaxExecutions
    BY <1>1 DEF StartInv
  <2>2. InFlight \subseteq Slots
    BY DEF InFlight
  <2> QED
    BY <1>1, <2>1, <2>2 DEF LockInv, LockIsOwed, WillMove
<1>2. Init => StartInv /\ SubmitInv /\ LockInv
  BY InitStart, InitSubmit, InitLock
<1>3. StartInv /\ SubmitInv /\ LockInv /\ [Next]_vars => (StartInv /\ SubmitInv /\ LockInv)'
  BY NextStart, NextSubmit, NextLock
<1> QED
  BY <1>1, <1>2, <1>3, PTL DEF Spec

\* A validation has a number of validators to call that only falls, whatever the
\* user edits or submits meanwhile, and none is given more: it ends in a form
\* that is unlocked or in a rejection.
THEOREM ValidationsCountDown == Spec => ValidationsEnd
<1>1. ASSUME SubmitInv, LockInv, [Next]_vars
      PROVE  [\A s \in InFlight :
                \/ submissions'[s] = submissions[s]
                \/ s \in InFlight' /\ Len(submissions'[s].todo) < Len(submissions[s].todo)
                \/ ~isValidating' \/ rejected']_vars
  BY <1>1, StepOrOther, OtherLock, ForwardLock, AnswerLock, EndLock
<1>2. Init => SubmitInv /\ LockInv
  BY InitSubmit, InitLock
<1>3. SubmitInv /\ LockInv /\ [Next]_vars => (SubmitInv /\ LockInv)'
  BY NextSubmit, NextLock
<1> QED
  BY <1>1, <1>2, <1>3, PTL DEF Spec, ValidationsEnd
=============================================================================
