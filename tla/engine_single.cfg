SPECIFICATION LiveSpec
CONSTANTS
    Replicas = {r1}
    NoReplica = NoReplica
    Ids = {i1, i2, i3, i4}
    NoId = NoId
    Entities = {e1, e2, e3}
    e1 = e1
    e2 = e2
    e3 = e3
    Listings <- ThreeListings
    MaxFaults = 2
INVARIANTS
    TypeOK
    StatusTellsNextAction
    FaultCostsOnePage
    RestedCatalogIsSource
PROPERTIES
    KeepsCycling
    CatalogConverges
