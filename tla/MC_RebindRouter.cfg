\* Steady-state checks of the packet path and its refinement of
\* EgressVerdicts.  No endpoint is reused (MaxBinds = 1); reuse is endpoint_reuse.
CONSTANTS
    app = app
    other = other
    Procs <- MCProcs
    NoProc = NoProc
    ProcName <- MCProcName
    AppName <- MCAppName
    Ports = {1}
    RPort = 53
    DefaultIP <- MCDefaultIP
    RebindIP <- MCRebindIP
    RemoteIP <- MCRemoteIP
    SocketIPs <- MCSocketIPs
    DefaultMAC = DefaultMAC
    RebindMAC = RebindMAC
    RebindGwMAC = RebindGwMAC
    DefaultGwMAC = DefaultGwMAC
    MaxFrames = 2
    MaxBinds = 1
    PeerFrames = {"request"}
SPECIFICATION Spec
INVARIANT TypeOK
INVARIANT ChecksumsValid
INVARIANT RewritesAreInverse
PROPERTY EgressRefinesVerdicts
CHECK_DEADLOCK FALSE
