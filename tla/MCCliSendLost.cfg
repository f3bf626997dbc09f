SPECIFICATION SendSpec
CONSTANTS
    mine = mine
    receipt = receipt
    alice = alice
    bob = bob
    r1 = r1
    r2 = r2
    daemon = daemon
    caller = caller
    None = None
    Mine = mine
    Caller = caller
    Msg <- MCBusy
    Recipient <- MCRecipient
    To <- MCBusyTo
    Relay <- MCRelay
    Task <- MCTask
    MaxStored = 1
CHECK_DEADLOCK FALSE
INVARIANTS
    SentMeansStored

