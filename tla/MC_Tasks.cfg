\* Two tasks of one client in one Pool, one fault.
SPECIFICATION FairTasks
CONSTANTS
    n1 = n1
    quick = quick
    img = img
    d1 = d1
    c1 = c1
    NoNode = NoNode
    NoReservation = NoReservation
    Nodes = {n1}
    Pools = {quick}
    ImageNames = {img}
    Digests = {d1}
    Reservations = {}
    Labels = {}
    Requests = {1, 2}
    PlanIds = {}
    MessageIds = {}
    Submissions = {}
    Enrollments = {}
    Drainable = {}
    Observations = {}
    ReportStates = {"Running"}
    EventBatches <- NoBatches
    MaxDesired = 0
    MaxRevision = 1
    Clients = {c1}
    Submitter <- OneClient
    TaskPool <- OnePoolOnly
    ClientLimit = 2
    worker = n1
    Installed <- AgentPools
    Health <- Well
    FaultLimit = 1
INVARIANTS
    TasksTypeOK
    SecretKept
    ResultIsTrue
    RevokedNeverRuns
PROPERTIES
    FirstInFirstOut
    OutcomeIsFinal
    TasksSettle
