\* One image, one VM, three faults.
SPECIFICATION FairCache
CONSTANTS
    d1 = d1
    vm1 = vm1
    Digests = {d1}
    VMs = {vm1}
    Inodes = {i1, i2, i3, i4}
    NoFile = NoFile
    Catalog <- OneImage
    ImageOf <- OneImageOf
    Size = 2
    Limit = 4
    FaultLimit = 3
INVARIANTS
    CacheTypeOK
    BackingIsCached
PROPERTIES
    PublishedIsRight
    LiveImageServed
    ImagesArrive
CHECK_DEADLOCK FALSE
