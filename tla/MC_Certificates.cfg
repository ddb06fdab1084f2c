\* Four certificates, two faults.
SPECIFICATION CertSpec
CONSTANTS
    m1 = m1
    m2 = m2
    p1 = p1
    p2 = p2
    q1 = q1
    Machines = {m1, m2}
    Processes = {p1, p2, q1}
    Nobody = Nobody
    MachineOf <- TwoOnOne
    Invites = {i1, i2}
    MaxCerts = 4
    FaultLimit = 2
INVARIANTS
    CertTypeOK
    OneMachine
    KeepsAccess
CHECK_DEADLOCK FALSE
