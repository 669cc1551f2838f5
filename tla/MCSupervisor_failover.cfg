CONSTANTS
    Service = {s1}
    Peer = {p1}
    Addresses = 2
    Dead = {1}
    MaxGen = 3
    MaxEdits = 2
    MaxFaults = 0
SPECIFICATION FairSpec
PROPERTIES
    SwapKeepsKicks
CHECK_DEADLOCK FALSE
