\* A VM that has stopped is recovered by hand before the Controller knows.
SPECIFICATION LifecycleSpec
CONSTANTS
    n1 = n1
    lite = lite
    img = img
    d1 = d1
    NoNode = NoNode
    NoReservation = NoReservation
    Nodes = {n1}
    Pools = {lite}
    ImageNames = {img}
    Digests = {d1}
    Reservations = {}
    Labels = {}
    Requests = {1, 2}
    PlanIds = {}
    MessageIds = {m1}
    Submissions = {}
    Enrollments = {}
    Drainable = {}
    Observations = {}
    ReportStates = {"Running"}
    EventBatches <- OneEvent
    MaxDesired = 0
    MaxRevision = 1
    worker = n1
    Installed <- OneNode
    Health <- Healthy
    PoolOf <- OnePool
    CommandLimit = 1
    FlightLimit = 2
    NoVM = NoVM
    LateStarts = FALSE
    Recoverable = {1}
    Unasked = TRUE
    FaultLimit = 0
INVARIANTS
    DeletionsExpected
