CONSTANTS
    snd = snd
    p1 = p1
    p2 = p2
    Host = {snd, p1}
    Self = snd
    Lane = {p1}
    Part = {1}
    MaxEvents = 2
    MaxLate = 1
SPECIFICATION FairSpec
INVARIANTS
    LocalPauseWakes
PROPERTIES
    TakenUnrestricted
    SentUnrestricted
    TransfersFinish
CHECK_DEADLOCK FALSE
