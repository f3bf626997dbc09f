SPECIFICATION Spec
CONSTANTS
    None = None
    n1 = n1
    n2 = n2
    t1 = t1
    t2 = t2
    Party = {"d1", "d2"}
    CallId = {"i1"}
    Thread = {t1, t2}
    MaxSignals = 2
    Us = "us"
    Other = {"a", "b"}
    MaxEpoch = 2
    MaxInvited = 2
    Bot = {"b1", "b2"}
    Command = {"x", "y"}
    MaxQueued = 2
    MaxPair = 8
    MaxSent = 3
    MaxWire = 2
    Owner = "us"
    Rival = {"v"}
    Name = {n1, n2}
    AppThread = {t1, t2}
    Call = {"c1", "c2"}
    Mnemonic = {"i", "j"}
    Mail = {"m1", "m2", "m3"}
    Addressee <- MCAddressee
    Msg = {"mine", "receipt"}
    Recipient = {"alice", "bob"}
    To <- MCTo
    Relay = {"r1", "r2"}
    Task = {"daemon", "caller"}
    MaxStored = 1
    Mine = "mine"
    Caller = "caller"
    Envelope = {"text"}
    Shown = {"text"}
    Opaque = {}
    Base = {"r1", "r2"}
    Poller = {"daemon", "caller"}
    Worker = {"daemon", "caller"}
    SeenCap = 3
    SeenPrune = 1
    WsCap = 1
    MaxCopies = 2
    MaxUnread = 1
    Receiver = "caller"
    Proc = {"p", "q"}
    Identity = {"i", "j"}
    Ttl = 1
    MaxTime = 3
    Editor = {"p", "q"}
    Record = {"g", "h"}
    Self = "us"
    Friend = {}
    Run = {"c1", "c2"}
    Node = {"n1", "n2"}
    Bundle <- MCBundle
    Text = {"m1", "m2"}
    Peer = {"p", "q"}
    Sender <- MCSender
SYMMETRY MCSymmetry
CHECK_DEADLOCK FALSE
INVARIANTS
    TypeOK
    KeyIsTheMembers
    RoutedArrives
    DecryptsUnlessGap
    ToldIsOwned
    LossNeedsFailedInit
    FalseReportNeedsTraffic
    FalseAlarmNeedsTraffic
    HeldUntilExit
    HandledOnce
    LockedStaysLocked
    ToldIsKept
    OnePaymentPerRun
    PaysAfterTheMined
    ShownUnlessAway
PROPERTY OverwriteNeedsOverlap
