\* Configuration changes racing placement and release.
SPECIFICATION Spec
CONSTANTS
    n1 = n1
    n2 = n2
    lite = lite
    heavy = heavy
    img = img
    d1 = d1
    d2 = d2
    res = res
    NoNode = NoNode
    NoReservation = NoReservation
    Nodes = {n1}
    Pools <- MCPools
    ImageNames <- MCImages
    Digests <- MCDigests
    Reservations <- MCReservations
    Labels <- MCLabels
    Requests = {i1, i2}
    PlanIds = {p1, p2}
    MessageIds = {}
    Submissions <- ChangeSubmissions
    Enrollments <- CapacityEnrollments
    Drainable = {}
    Observations <- ChangeObservations
    ReportStates <- ChangeReports
    EventBatches <- NoEvents
    MaxDesired = 0
    MaxRevision = 4
SYMMETRY Permutation
INVARIANTS
    NodeWithinBudget
    PoolWithinLimit
    ReservationsAgree
PROPERTIES
    NothingForgotten
CHECK_DEADLOCK FALSE
