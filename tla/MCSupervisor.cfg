CONSTANTS
    Service = {s1}
    Peer = {p1}
    Addresses = 2
    Dead = {}
    MaxGen = 3
    MaxEdits = 2
    MaxFaults = 1
SPECIFICATION FairSpec
INVARIANTS
    RetiredOwnsNothing
PROPERTIES
    VerbsFinish
    SwapKeepsKicks
CHECK_DEADLOCK FALSE
