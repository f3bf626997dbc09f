SPECIFICATION InboxSpec
CONSTANTS
    text = text
    text2 = text2
    receipt = receipt
    garbled = garbled
    r1 = r1
    daemon = daemon
    None = None
    Envelope <- MCTwo
    Shown <- MCTwo
    Opaque <- MCNone
    Base <- MCOneRelay
    Poller <- MCOneTask
    Worker <- MCOneTask
    SeenCap = 1
    SeenPrune = 1
    WsCap = 1
    MaxCopies = 1
    MaxUnread = 1
PROPERTY
    RemembersLatest
