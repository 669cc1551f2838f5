CONSTANTS
    a = a
    b = b
    p1 = p1
    Root = {a, b}
    Peers = {p1}
    MaxRev = 3
    MaxRestores = 0
    RootsOf <- TwoRoots
    Capable = {TRUE}
    MaxLate = 0
    Starts = {"empty", "migrated"}
SPECIFICATION FairSpec
PROPERTIES
    PeersCatchUp
    LanesSettle
