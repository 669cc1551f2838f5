CONSTANTS
    Hosts = {h1, h2}
    Item = {i1}
    Value = {0, 1}
    Zero = 0
    MaxOps = 3
    MaxNow = 1
    Skew = 1
    MaxLag = 1
    Horizon = 0
SPECIFICATION FairSpec
INVARIANTS
    LastWriteWins
    ItemsAreCurrent
PROPERTIES
    NeverRegresses
    Converged
