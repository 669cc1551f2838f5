CONSTANTS
    e1 = e1
    e2 = e2
    Evals = {e1}
    MaxFp = 2
    MaxDefer = 1
    MaxStrays = 1
SPECIFICATION Spec
PROPERTIES
    StashServesItsOwn
CHECK_DEADLOCK FALSE
