\* The peer opens a flow to a socket of the matched application.
CONSTANTS
    app = app
    other = other
    Procs <- MCProcs
    NoProc = NoProc
    ProcName <- MCProcName
    AppName <- MCAppName
    Ports = {1}
    RPort = 53
    DefaultIP <- MCDefaultIP
    RebindIP <- MCRebindIP
    RemoteIP <- MCRemoteIP
    SocketIPs <- MCSocketIPs
    DefaultMAC = DefaultMAC
    RebindMAC = RebindMAC
    RebindGwMAC = RebindGwMAC
    DefaultGwMAC = DefaultGwMAC
    MaxFrames = 2
    MaxBinds = 1
    PeerFrames = {"request"}
SPECIFICATION Spec
INVARIANT AnswersKeepAddress
CHECK_DEADLOCK FALSE
