SPECIFICATION RecvSpec
CONSTANTS
    text = text
    receipt = receipt
    garbled = garbled
    r1 = r1
    r2 = r2
    daemon = daemon
    caller = caller
    None = None
    Receiver = caller
    Envelope <- MCMsg
    Shown <- MCShown
    Opaque <- MCOpaque
    Base <- MCRelay
    Poller <- MCWithDaemon
    Worker <- MCWithDaemon
    SeenCap = 3
    SeenPrune = 1
    WsCap = 1
    MaxCopies = 2
    MaxUnread = 2
CHECK_DEADLOCK FALSE
INVARIANTS
    AckedIsShown
