CONSTANTS
    p1 = p1
    p2 = p2
    Producers <- MC_Producers
    MaxSends = 1
    BufSize = 1
SPECIFICATION Spec
INVARIANT DrainedWhenCloseReturns
CHECK_DEADLOCK FALSE
