SPECIFICATION FairSpec
CONSTANTS
    text = text
    file = file
    alice = alice
    bob = bob
    wa = wa
    wb = wb
    wb2 = wb2
    Idle = Idle
    Client <- MCClient
    Item <- MCItem
    File <- MCFile
    Pieces <- MCPieces
    Author <- MCAuthor
    Reader <- MCReader
    Worker <- MCWorker
    Owner <- MCOwner
    Opener <- MCOpener
    MaxStored = 3
CHECK_DEADLOCK FALSE
INVARIANTS
    TypeOK
    StatusIsTrue
    ShownWhole
    AllArrivedIsShown
PROPERTIES
    NeverRegresses
    SentIsShown
