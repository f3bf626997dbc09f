SPECIFICATION InboxFairSpec
CONSTANTS
    text = text
    text2 = text2
    receipt = receipt
    garbled = garbled
    r1 = r1
    daemon = daemon
    None = None
    Envelope <- MCMsg
    Shown <- MCText
    Opaque <- MCGarbled
    Base <- MCOneRelay
    Poller <- MCOneTask
    Worker <- MCOneTask
    SeenCap = 3
    SeenPrune = 1
    WsCap = 1
    MaxCopies = 1
    MaxUnread = 1
PROPERTY
    ImplementsDelivery
