SPECIFICATION PoolsFairSpec
CONSTANTS
    r1 = r1
    r2 = r2
    Relay <- MCRelay
    Up <- MCUp
    Pushes <- MCRelay
    Latency <- MCLatency
    BootBases <- MCBootBases
    BootSignals <- MCBootSignals
    Validators <- MCRelay
    Lists <- MCLists
CHECK_DEADLOCK FALSE
PROPERTY PushComesBack
