CONSTANTS
    snd = snd
    p1 = p1
    p2 = p2
    Host = {snd, p1, p2}
    Self = snd
    Lane = {p1, p2}
    Part = {1}
    MaxEvents = 1
    MaxLate = 1
SPECIFICATION Spec
SYMMETRY Symmetry
INVARIANTS
    HeldBatchStays
CHECK_DEADLOCK FALSE
