\* One job, one runner, one fault.
SPECIFICATION FairDemand
CONSTANTS
    n1 = n1
    lite = lite
    img = img
    d1 = d1
    NoNode = NoNode
    NoReservation = NoReservation
    Nodes = {n1}
    Pools = {lite}
    ImageNames = {img}
    Digests = {d1}
    Reservations = {}
    Labels = {}
    Requests = {1}
    PlanIds = {}
    MessageIds <- Received
    Submissions = {}
    Enrollments = {}
    Drainable = {}
    Observations = {}
    ReportStates = {"Running"}
    EventBatches <- NoEvents
    MaxDesired = 0
    MaxRevision = 1
    worker = n1
    served = lite
    Installed <- OnePool
    Health <- Healthy
    Jobs = {j1}
    NoJob = NoJob
    FaultLimit = 1
PROPERTIES
    FenceEnds
