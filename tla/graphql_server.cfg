SPECIFICATION Spec
CHECK_DEADLOCK FALSE
CONSTANTS
    None = None
    Missing = Missing
    Undefined = Undefined
    Uids <- ThreeUids
    Values <- ThreeValues
    Folded <- InLowerCase
    RelationTypes = {"walked", "other"}
    Sizes = {1, 2}
    Starts <- SomeStarts
    Batches <- SomeBatches
    MaxChanges = 1
    Features <- SomeFeatures
    Installations <- SomeInstallations
INVARIANTS
    ServesWhatWasRegistered
    WalkSkipsNothing
    KnowsTheWayBack
    LoadsByKey
