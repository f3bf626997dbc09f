SPECIFICATION ShellFairSpec
CONSTANTS
    m1 = m1
    m2 = m2
    p = p
    q = q
    None = None
    Text <- MCMsg
    Peer <- MCPeer
    Sender <- MCSender
CHECK_DEADLOCK FALSE
PROPERTY QuitExits
