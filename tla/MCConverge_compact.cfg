CONSTANTS
    Hosts = {h1, h2}
    Item = {i1}
    Value = {0}
    Zero = 0
    MaxOps = 2
    MaxNow = 6
    Skew = 1
    MaxLag = 2
    Horizon = 4
SPECIFICATION Spec
SYMMETRY HostSymmetry
PROPERTIES
    RemovedStaysRemoved
