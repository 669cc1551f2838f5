CONSTANTS
    h1 = h1
    h2 = h2
    f1 = f1
    a1 = a1
    a2 = a2
    Host = {h1, h2}
    Phone = {f1}
    Ask = {a1, a2}
    Requests <- Asked
    Peers <- Others
    MaxDials = 2
    MaxLegs = 3
    MaxFaults = 1
SPECIFICATION FairSpec
INVARIANTS
    ApprovalIsHuman
    DenialStands
PROPERTIES
    AsksAreDecided
CHECK_DEADLOCK FALSE
