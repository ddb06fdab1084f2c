\* One job, two runners, one fault.
SPECIFICATION DemandSpec
CONSTANTS
    n1 = n1
    lite = lite
    img = img
    d1 = d1
    NoNode = NoNode
    NoReservation = NoReservation
    Nodes = {n1}
    Pools = {lite}
    ImageNames = {img}
    Digests = {d1}
    Reservations = {}
    Labels = {}
    Requests = {1, 2}
    PlanIds = {}
    MessageIds <- Received
    Submissions = {}
    Enrollments = {}
    Drainable = {}
    Observations = {}
    ReportStates = {"Running"}
    EventBatches <- NoEvents
    MaxDesired = 0
    MaxRevision = 1
    worker = n1
    served = lite
    Installed <- OnePool
    Health <- Healthy
    Jobs = {j1}
    NoJob = NoJob
    FaultLimit = 1
PROPERTIES
    ReplacementIsFresh
