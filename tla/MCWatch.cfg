CONSTANTS
    e1 = e1
    e2 = e2
    Evals = {e1, e2}
    MaxFp = 2
    MaxDefer = 1
    MaxStrays = 1
SPECIFICATION FairSpec
INVARIANTS
    ChangeIsUnderway
    OneRetryPerOutage
PROPERTIES
    ChangesReachPeers
    BreakerRecovers
    EchoDies
CHECK_DEADLOCK FALSE
