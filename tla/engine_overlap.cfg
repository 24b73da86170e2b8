SPECIFICATION Spec
CONSTANTS
    Replicas = {r1, r2}
    NoReplica = NoReplica
    Ids = {i1, i2}
    NoId = NoId
    Entities = {e1, e2, e3}
    e1 = e1
    e2 = e2
    e3 = e3
    Listings <- TwoListings
    MaxFaults = 0
SYMMETRY ReplicaSymmetry
INVARIANTS
    OneOpenRecord
    NoPageSkipped
    RestsAfterLastPage
PROPERTIES
    IsACycle
