SPECIFICATION CallsSpec
CONSTANTS
    None = None
    d1 = d1
    d2 = d2
    i1 = i1
    i2 = i2
    t1 = t1
    t2 = t2
    Party <- MCParty
    CallId <- MCCallId
    Thread <- MCThread
    MaxSignals = 2
INVARIANTS
    MediaHasACall
    ConnectedWasAnswered
    ActiveIsShared
SYMMETRY MCSymmetry
