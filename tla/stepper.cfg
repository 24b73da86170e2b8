SPECIFICATION LiveSpec
CHECK_DEADLOCK FALSE
CONSTANTS
    Absent = Absent
    NoField = NoField
    Schema <- TwoStepsSchema
    Rejects <- TwoStepsRejects
    Steps <- TwoSteps
    ValuesOf <- TwoStepsValues
    InitialState <- TwoStepsInitial
    Interfaces = {"onboarding", "form", "modal", "button"}
    MaxSubmissions = 2
    MaxExecutions = 2
INVARIANTS
    ExecutedIsValid
    ExecutedIsSubmitted
    StartedOnce
PROPERTIES
    FormUnlocks
