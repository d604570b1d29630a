\* An egress frame whose socket closed before the lambda ran: the lookup misses twice.
CONSTANTS
    app = app
    other = other
    Procs <- MCProcs
    NoProc = NoProc
    ProcName <- MCProcName
    AppName <- MCAppName
    Ports = {1}
    RPort = 53
    DefaultIP <- MCDefaultIP
    RebindIP <- MCRebindIP
    RemoteIP <- MCRemoteIP
    SocketIPs <- MCSocketIPs
    DefaultMAC = DefaultMAC
    RebindMAC = RebindMAC
    RebindGwMAC = RebindGwMAC
    DefaultGwMAC = DefaultGwMAC
    MaxFrames = 1
    MaxBinds = 1
    PeerFrames = {}
SPECIFICATION Spec
INVARIANT NoNullDeref
CHECK_DEADLOCK FALSE
