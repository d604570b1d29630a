\* Liveness of the reply path under a fair filter-1 worker, two frames in flight.
CONSTANTS
    app = app
    other = other
    Procs <- MCProcs
    NoProc = NoProc
    ProcName <- MCProcName
    AppName <- MCAppName
    Ports = {1}
    RPort = 53
    DefaultIP <- MCDefaultIP
    RebindIP <- MCRebindIP
    RemoteIP <- MCRemoteIP
    SocketIPs <- MCSocketIPs
    DefaultMAC = DefaultMAC
    RebindMAC = RebindMAC
    RebindGwMAC = RebindGwMAC
    DefaultGwMAC = DefaultGwMAC
    MaxFrames = 2
    MaxBinds = 1
    PeerFrames = {}
SPECIFICATION FairSpec
PROPERTY ReboundReplyDelivered
CHECK_DEADLOCK FALSE
