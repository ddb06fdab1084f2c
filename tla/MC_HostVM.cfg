\* Commands in any order, crashes between any two steps; starts take effect or fail at once.
SPECIFICATION HostSpec
CONSTANTS
    VMs = {v1, v2, v3}
    Charge <- UnitCharge
    Ceiling <- TwoUnits
    NoVM = NoVM
    LateStarts = FALSE
SYMMETRY Permutation
INVARIANTS
    HostTypeOK
    DeletedIsGone
    RunningIsRecorded
    CeilingKept
