\* Two VMs, requests and replies lost, crashes and failing steps.
SPECIFICATION FairSpec
CONSTANTS
    n1 = n1
    lite = lite
    img = img
    d1 = d1
    NoNode = NoNode
    NoReservation = NoReservation
    Nodes = {n1}
    Pools = {lite}
    ImageNames = {img}
    Digests = {d1}
    Reservations = {}
    Labels = {}
    Requests = {1, 2}
    PlanIds = {}
    MessageIds = {m1}
    Submissions = {}
    Enrollments = {}
    Drainable = {}
    Observations = {}
    ReportStates = {"Running"}
    EventBatches <- OneEvent
    MaxDesired = 0
    MaxRevision = 1
    worker = n1
    Installed <- OneNode
    Health <- Healthy
    PoolOf <- OnePool
    CommandLimit = 1
    FlightLimit = 2
    NoVM = NoVM
    LateStarts = FALSE
    Recoverable = {1}
    Unasked = FALSE
    FaultLimit = 2
INVARIANTS
    LifecycleTypeOK
    HostWithinLedger
    DeletionsExpected
PROPERTIES
    LeaseKept
    AllReleased
