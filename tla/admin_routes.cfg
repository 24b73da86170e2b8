SPECIFICATION AdminLiveSpec
CONSTANTS
    Replicas = {r1}
    NoReplica = NoReplica
    Ids = {i1, i2, i3, i4, i5}
    NoId = NoId
    Entities = {e1, e2, e3}
    e1 = e1
    e2 = e2
    e3 = e3
    Listings <- ConstantListing
    MaxFaults = 0
    Routes <- AllRoutes
    MaxRequests = 1
    MaxRestarts = 1
PROPERTIES
    KeepsCyclingUnlessStopped
    ConvergesUnlessStopped
