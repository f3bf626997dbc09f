SPECIFICATION OutboxFairSpec
CONSTANTS
    m1 = m1
    m2 = m2
    m3 = m3
    alice = alice
    r1 = r1
    r2 = r2
    daemon = daemon
    caller = caller
    None = None
    Msg <- MCMsg
    Recipient <- MCRecipient
    To <- MCTo
    Relay <- MCRelay
    Task <- MCTask
    MaxStored = 2
INVARIANTS
    OutboxTypeOK
    NothingLost
    NoRetryAfterConfirm
    KeepsOrder
    WithinCapacity
PROPERTY
    ImplementsStoreAndForward
