SPECIFICATION Spec
CONSTANTS
    NoType = "none"
    RawKey = "raw"
    None = "none"
    Schemas <- MCSchemas
INVARIANT InputsAreDeclared
INVARIANT AnsweredAsDeclared
CHECK_DEADLOCK FALSE
