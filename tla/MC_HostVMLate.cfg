\* The same with two VMs whose starts may take effect long after they were reported failed.
SPECIFICATION HostSpec
CONSTANTS
    VMs = {v1, v2}
    Charge <- UnitCharge
    Ceiling <- TwoUnits
    NoVM = NoVM
    LateStarts = TRUE
SYMMETRY Permutation
INVARIANTS
    BootsOnce
PROPERTIES
    StoppedForGood
