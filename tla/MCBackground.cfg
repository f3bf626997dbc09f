SPECIFICATION FairSpec
CONSTANTS
    Period = 2
    Cutoff = 3
    MaxWire = 2
    Device <- MCDevice
    Near <- MCNear
    Origin = 1
    Target = 5
    MaxHops = 2
    Relay = {"r1", "r2", "r3"}
    Up = {"r1", "r2"}
    Pushes = {"r2"}
    Latency <- MCLatency
    BootBases = {"r1"}
    BootSignals <- MCBootSignals
    Validators = {"r2"}
    Lists <- MCLists
    Msg = {"m1", "m2"}
CHECK_DEADLOCK FALSE
INVARIANTS
    TypeOK
    OneRefreshPerExpiry
PROPERTIES
    OptOutShows
    FloodEnds
    ReachesTarget
    PoolKnowsChain
    PushComesBack
    LeavesUnlessEarlyMode
