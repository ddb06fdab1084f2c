\* Placement, runner events and release on one Node with a slot reserved for tasks.
SPECIFICATION Spec
CONSTANTS
    n1 = n1
    n2 = n2
    lite = lite
    heavy = heavy
    img = img
    d1 = d1
    d2 = d2
    res = res
    NoNode = NoNode
    NoReservation = NoReservation
    Nodes = {n1}
    Pools <- MCPools
    ImageNames <- MCImages
    Digests <- MCDigests
    Reservations <- MCReservations
    Labels <- MCLabels
    Requests = {i1, i2, i3}
    PlanIds = {p1}
    MessageIds = {m1}
    Submissions <- CapacitySubmissions
    Enrollments <- CapacityEnrollments
    Drainable = {n1}
    Observations <- CapacityObservations
    ReportStates <- Releases
    EventBatches <- SomeEvents
    MaxDesired = 0
    MaxRevision = 3
SYMMETRY Permutation
INVARIANTS
    TypeOK
    NodeWithinBudget
    ReservationDeliverable
PROPERTIES
    PlacementFitsDisk
    ReleaseIsFinal
CHECK_DEADLOCK FALSE
