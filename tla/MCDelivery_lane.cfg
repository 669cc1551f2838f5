CONSTANTS
    a = a
    b = b
    p1 = p1
    Root = {a}
    Peers = {p1}
    MaxRev = 3
    MaxRestores = 1
    RootsOf <- OneRoot
    Capable = {FALSE, TRUE}
    MaxLate = 1
    Starts = {"empty", "migrated"}
SPECIFICATION Spec
INVARIANTS
    RecordsReadable
    PendingIsOnDisk
    PendingRootsPinned
    SettledPinsAreExact
    AckedIsHeld
    IdleMeansDelivered
    DirtyLaneWillRun
PROPERTIES
    NoChangeIsDropped
    Refinement
