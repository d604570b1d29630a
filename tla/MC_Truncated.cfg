\* A host on the rebind link sends a frame whose ip_hl runs past its end.
CONSTANTS
    app = app
    other = other
    Procs <- MCProcs
    NoProc = NoProc
    ProcName <- MCProcName
    AppName <- MCAppName
    Ports = {1}
    RPort = 53
    DefaultIP <- MCDefaultIP
    RebindIP <- MCRebindIP
    RemoteIP <- MCRemoteIP
    SocketIPs <- MCSocketIPs
    DefaultMAC = DefaultMAC
    RebindMAC = RebindMAC
    RebindGwMAC = RebindGwMAC
    DefaultGwMAC = DefaultGwMAC
    MaxFrames = 1
    MaxBinds = 1
    PeerFrames = {"truncated"}
SPECIFICATION Spec
INVARIANT TruncatedNeverRouted
CHECK_DEADLOCK FALSE
