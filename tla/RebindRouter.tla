---------------------------- MODULE RebindRouter ----------------------------
(***************************************************************************)
(* The packet path of src/examples/cpp/rebind/rebind.cpp: the two filter   *)
(* lambdas installed by the rebind_router constructor (egress on the       *)
(* default adapter, ingress on the rebind adapter), the process attribution *)
(* they call (resolve_process_for_tcp/udp over the process_lookup snapshot) *)
(* and the start()/stop() lifecycle that turns the two filters on and off. *)
(*                                                                         *)
(* Around them the model has an environment: the OS connection table that  *)
(* processes bind and close sockets in, the host stack that sends frames   *)
(* from those sockets, and one remote peer that answers every frame it     *)
(* receives and may send frames of its own (requests, truncated frames).   *)
(* Ghost fields in every frame (owner, from, rt, asked) remember which     *)
(* socket sent a request, whether the egress filter rebound it and where a *)
(* peer's request went, so that properties can relate a reply to its       *)
(* request.                                                                *)
(***************************************************************************)
EXTENDS Integers, Sequences, FiniteSets, Checksum, WString

CONSTANTS
    Procs,          \* processes that may own sockets
    NoProc,         \* empty lookup result (a null shared_ptr)
    ProcName,       \* image name of each process, a sequence of characters
    AppName,        \* app_name_, the name typed at the prompt
    Ports,          \* local ports of host sockets
    RPort,          \* port of the remote peer
    DefaultIP,      \* default_src_ip_address_
    RebindIP,       \* rebind_src_ip_address_
    RemoteIP,       \* the remote peer
    SocketIPs,      \* local addresses host sockets bind to
    DefaultMAC,     \* default_src_hw_address_
    RebindMAC,      \* rebind_src_hw_address_
    RebindGwMAC,    \* rebind_gw_hw_address_
    DefaultGwMAC,   \* gateway of the default adapter, used by the host stack
    MaxFrames,      \* bound on frames the host sends
    MaxBinds,       \* bound on sockets bound to one local endpoint over time
    PeerFrames      \* unsolicited frames the peer sends: "truncated", "request"

TCP == 6
UDP == 17
ICMP == 1

ASSUME /\ NoProc \notin Procs
       /\ ProcName \in [Procs -> Seq(STRING)] /\ AppName \in Seq(STRING)
       /\ {DefaultIP, RebindIP, RemoteIP} \subseteq Nat
       /\ SocketIPs \subseteq {DefaultIP, RebindIP} /\ DefaultIP \in SocketIPs
       /\ RPort \notin Ports
       /\ MaxFrames \in Nat /\ MaxBinds \in Nat \ {0} /\ PeerFrames \subseteq {"truncated", "request"}

(***************************************************************************)
(* Frames.  An Ethernet frame is abstracted to the header fields the       *)
(* lambdas read or write.  eth is "ip" for ETH_P_IP and "arp" otherwise;   *)
(* the payload is identified by id, so two frames never collide.  trunc   *)
(* marks a frame whose ip_hl puts the transport header past its end;      *)
(* asked is the address a peer-initiated request was sent to, carried into *)
(* the host's answer (0 for every other frame).                            *)
(***************************************************************************)
Keys == [p : {TCP, UDP}, ip : SocketIPs, port : Ports]
NoKey == [p |-> 0, ip |-> 0, port |-> 0]
Frame == [id : Nat, eth : {"ip", "arp"}, p : {TCP, UDP, ICMP, 0},
          src : Nat, dst : Nat, sport : Nat, dport : Nat,
          smac : {DefaultMAC, RebindMAC, RebindGwMAC, DefaultGwMAC},
          dmac : {DefaultMAC, RebindMAC, RebindGwMAC, DefaultGwMAC},
          ipsum : Nat, l4sum : Nat,
          owner : Procs \cup {NoProc}, from : Keys \cup {NoKey}, rt : BOOLEAN,
          trunc : BOOLEAN, asked : Nat]

IsIPv4(f) == f.eth = "ip"
IsReply(f) == f.src = RemoteIP

\* The endpoint a frame is demultiplexed to by the host stack.
DeliveredKey(f) == [p |-> f.p, ip |-> f.dst, port |-> f.dport]

\* The words each checksum covers; TTL and protocol share one word.
IPWords(f) == <<128 * 256 + f.p>> \o AddrWords(f.src) \o AddrWords(f.dst)
L4Words(f) == AddrWords(f.src) \o AddrWords(f.dst) \o <<f.p, f.sport, f.dport, f.id>>

ValidChecksums(f) ==
    IsIPv4(f) =>
        /\ Verifies(IPWords(f), f.ipsum)
        /\ f.p \in {TCP, UDP} => Verifies(L4Words(f), f.l4sum)

\* CNdisApi::RecalculateIPChecksum (library code, modelled from the spec).
RecalculateIPChecksum(f) == [f EXCEPT !.ipsum = InetChecksum(IPWords(f))]

\* CNdisApi::RecalculateUDPChecksum / RecalculateTCPChecksum: each one only
\* rewrites the checksum of a segment of its own protocol.
RecalculateChecksum(f, proto) ==
    IF f.p = proto THEN [f EXCEPT !.l4sum = InetChecksum(L4Words(f))] ELSE f

\* The host stack and the remote peer send frames with valid checksums.
Sealed(f) == RecalculateIPChecksum(RecalculateChecksum(f, f.p))

AdapterMAC(ip) == IF ip = RebindIP THEN RebindMAC ELSE DefaultMAC
GatewayMAC(ip) == IF ip = RebindIP THEN RebindGwMAC ELSE DefaultGwMAC

VARIABLES
    phase,      \* where main()/start()/stop() are; decides which filter runs
    table,      \* the OS connection table: owner of each local endpoint
    binds,      \* how many sockets each endpoint has had (bound)
    snap,       \* the process_lookup helper's cached copy of the table
    outQ,       \* frames captured on the default adapter, outbound
    inQ,        \* frames captured on the rebind adapter, inbound
    wire,       \* frames the remote peer has received and not yet answered
    rcvd,       \* frames indicated to the host stack, with the path taken
    capture,    \* frames written to capture.pcap
    sent,       \* frames sent by the host so far (bound)
    decided     \* egress verdicts: frame, true sender, whether it was routed

vars == <<phase, table, binds, snap, outQ, inQ, wire, rcvd, capture, sent, decided>>

Phases == {"configured", "starting", "running", "closing", "stopping",
           "exited", "crashed"}

\* Filter 0 (default adapter) runs from start_filter(handle, 0) until
\* stop_filter(0); filter 1 (rebind adapter) likewise with index 1.
DefaultFiltered == phase \in {"starting", "running", "closing"}
RebindFiltered == phase \in {"running", "stopping"}

TypeOK ==
    /\ phase \in Phases
    /\ table \in [Keys -> Procs \cup {NoProc}]
    /\ snap \in [Keys -> Procs \cup {NoProc}]
    /\ binds \in [Keys -> 0..MaxBinds]
    /\ outQ \subseteq Frame /\ inQ \subseteq Frame /\ wire \subseteq Frame
    /\ capture \subseteq Frame
    /\ rcvd \subseteq [frame : Frame, via : {"default", "rebind", "ingress"}]
    /\ sent \in 0..MaxFrames
    /\ decided \subseteq [id : Nat, owner : Procs \cup {NoProc}, route : BOOLEAN]

Init ==
    /\ phase = "configured"
    /\ table = [k \in Keys |-> NoProc]
    /\ binds = [k \in Keys |-> 0]
    /\ snap = table
    /\ outQ = {} /\ inQ = {} /\ wire = {} /\ rcvd = {} /\ capture = {}
    /\ sent = 0
    /\ decided = {}

-----------------------------------------------------------------------------
(***************************************************************************)
(* Process attribution.                                                    *)
(***************************************************************************)

\* process->name.find(app_name_) != npos
Matches(p) == IsSubstring(AppName, ProcName[p])

\* Mutant: the UDP branch calling the TCP resolver (copy-paste of the
\* branch above it).
KeyOfTcpTable(f) == [p |-> TCP, ip |-> f.src, port |-> f.sport]

\* The lookup key: the local endpoint (UDP) or the session (TCP, whose
\* remote end is always the one peer here).
KeyOf(f) == [p |-> f.p, ip |-> f.src, port |-> f.sport]

\* Mutant: a refresh that keeps only the refreshed protocol's entries.
ActualizeDiscarding(s, proto) == [k \in {j \in Keys : j.p = proto} |-> table[k]]

\* actualize(tcp, udp): re-read the OS table for one protocol only.
Actualize(s, proto) == [k \in Keys |-> IF k.p = proto THEN table[k] ELSE s[k]]

\* resolve_process_for_tcp/udp: look up the snapshot; on a miss refresh the
\* table of the frame's protocol and look up once more.  Returns the
\* snapshot as it is afterwards.
ResolveProcess(f) ==
    IF snap[KeyOf(f)] # NoProc THEN snap ELSE Actualize(snap, f.p)

ResolvedOwner(f) == ResolveProcess(f)[KeyOf(f)]

-----------------------------------------------------------------------------
(***************************************************************************)
(* The egress lambda (filter 0, outbound on the default adapter).          *)
(***************************************************************************)

\* Frames the lambda passes without attribution: not IPv4, not from
\* default_src_ip_address_, or neither UDP nor TCP.
Attributed(f) == IsIPv4(f) /\ f.src = DefaultIP /\ f.p \in {UDP, TCP}

\* Mutant: checksums recomputed before the addresses are changed.
EgressRewriteChecksumFirst(f) ==
    LET g == RecalculateIPChecksum(RecalculateChecksum(f, f.p))
    IN  [g EXCEPT !.src = RebindIP, !.smac = RebindMAC, !.dmac = RebindGwMAC,
                  !.rt = TRUE]

\* Change source IP and MAC, set the rebind gateway's MAC, then recompute
\* the transport checksum (UDP or TCP by branch) and the IP checksum.
EgressRewrite(f) ==
    LET g == [f EXCEPT !.src = RebindIP, !.smac = RebindMAC,
                       !.dmac = RebindGwMAC, !.rt = TRUE]
    IN  RecalculateIPChecksum(RecalculateChecksum(g, f.p))

EgressPass(f) ==
    /\ ~Attributed(f)
    /\ outQ' = outQ \ {f}
    /\ wire' = wire \cup {f}
    /\ decided' = decided \cup {[id |-> f.id, owner |-> f.owner, route |-> FALSE]}
    /\ UNCHANGED <<phase, table, binds, snap, inQ, rcvd, capture, sent>>

\* The owner matches: rewrite, log to capture.pcap, route to the rebind adapter.
EgressRoute(f) ==
    /\ Attributed(f)
    /\ ResolvedOwner(f) # NoProc
    /\ Matches(ResolvedOwner(f))
    /\ snap' = ResolveProcess(f)
    /\ outQ' = outQ \ {f}
    /\ wire' = wire \cup {EgressRewrite(f)}
    /\ capture' = capture \cup {EgressRewrite(f)}
    /\ decided' = decided \cup {[id |-> f.id, owner |-> f.owner, route |-> TRUE]}
    /\ UNCHANGED <<phase, table, binds, inQ, rcvd, sent>>

\* The owner does not match: the frame passes unchanged.
EgressNoMatch(f) ==
    /\ Attributed(f)
    /\ ResolvedOwner(f) # NoProc
    /\ ~Matches(ResolvedOwner(f))
    /\ snap' = ResolveProcess(f)
    /\ outQ' = outQ \ {f}
    /\ wire' = wire \cup {f}
    /\ decided' = decided \cup {[id |-> f.id, owner |-> f.owner, route |-> FALSE]}
    /\ UNCHANGED <<phase, table, binds, inQ, rcvd, capture, sent>>

\* The lookup still misses after the refresh and process->name dereferences
\* a null shared_ptr: the process dies, the driver drops what it queued.
EgressNullDeref(f) ==
    /\ Attributed(f)
    /\ ResolvedOwner(f) = NoProc
    /\ phase' = "crashed"
    /\ snap' = ResolveProcess(f)
    /\ outQ' = {} /\ inQ' = {}
    /\ UNCHANGED <<table, binds, wire, rcvd, capture, sent, decided>>

-----------------------------------------------------------------------------
(***************************************************************************)
(* The ingress lambda (filter 1, inbound on the rebind adapter).           *)
(***************************************************************************)

\* Mutant: only the UDP branch of the protocol test.
TranslatedUdpOnly(f) == IsIPv4(f) /\ f.dst = RebindIP /\ f.p = UDP

Translated(f) == IsIPv4(f) /\ f.dst = RebindIP /\ f.p \in {UDP, TCP}

\* Mutant: the destination set to rebind_src_ip_address_, the member the
\* egress lambda writes, instead of default_src_ip_address_.
IngressRewriteWrongAddress(f) ==
    LET g == [f EXCEPT !.dst = RebindIP, !.dmac = DefaultMAC]
    IN  RecalculateIPChecksum(RecalculateChecksum(g, f.p))

\* Change destination IP and MAC, recompute checksums.
IngressRewrite(f) ==
    LET g == [f EXCEPT !.dst = DefaultIP, !.dmac = DefaultMAC]
    IN  RecalculateIPChecksum(RecalculateChecksum(g, f.p))

\* Rewrite, log, and route: the frame is indicated up on the default adapter.
IngressRoute(f) ==
    /\ Translated(f)
    /\ inQ' = inQ \ {f}
    /\ rcvd' = rcvd \cup {[frame |-> IngressRewrite(f), via |-> "ingress"]}
    /\ capture' = capture \cup {IngressRewrite(f)}
    /\ UNCHANGED <<phase, table, binds, snap, outQ, wire, sent, decided>>

IngressPass(f) ==
    /\ ~Translated(f)
    /\ inQ' = inQ \ {f}
    /\ rcvd' = rcvd \cup {[frame |-> f, via |-> "rebind"]}
    /\ UNCHANGED <<phase, table, binds, snap, outQ, wire, capture, sent, decided>>

-----------------------------------------------------------------------------
(***************************************************************************)
(* start() and stop().  start() turns on filter 0 and then filter 1 and    *)
(* returns false at the first failure, after which main() returns and the  *)
(* destructor calls stop(): stop_filter(0), then stop_filter(1).  A        *)
(* stopped filter's queue is flushed by the driver.                        *)
(***************************************************************************)

StartDefault ==
    /\ phase = "configured"
    /\ phase' = "starting"
    /\ UNCHANGED <<table, binds, snap, outQ, inQ, wire, rcvd, capture, sent, decided>>

\* start_filter(default, 0) fails: nothing was started.
StartDefaultFails ==
    /\ phase = "configured"
    /\ phase' = "exited"
    /\ UNCHANGED <<table, binds, snap, outQ, inQ, wire, rcvd, capture, sent, decided>>

StartRebind ==
    /\ phase = "starting"
    /\ phase' = "running"
    /\ UNCHANGED <<table, binds, snap, outQ, inQ, wire, rcvd, capture, sent, decided>>

\* start_filter(rebind, 1) fails: filter 0 runs until the destructor stops it.
StartRebindFails ==
    /\ phase = "starting"
    /\ phase' = "closing"
    /\ UNCHANGED <<table, binds, snap, outQ, inQ, wire, rcvd, capture, sent, decided>>

\* stop_filter(0), after a key press (running) or a failed start (closing).
StopDefault ==
    /\ phase \in {"running", "closing"}
    /\ phase' = IF phase = "running" THEN "stopping" ELSE "exited"
    /\ outQ' = {}
    /\ UNCHANGED <<table, binds, snap, inQ, wire, rcvd, capture, sent, decided>>

StopRebind ==
    /\ phase = "stopping"
    /\ phase' = "exited"
    /\ inQ' = {}
    /\ UNCHANGED <<table, binds, snap, outQ, wire, rcvd, capture, sent, decided>>

-----------------------------------------------------------------------------
(***************************************************************************)
(* Environment: sockets, the host stack and the remote peer.               *)
(***************************************************************************)

Bind(k, p) ==
    /\ table[k] = NoProc
    /\ binds[k] < MaxBinds
    /\ table' = [table EXCEPT ![k] = p]
    /\ binds' = [binds EXCEPT ![k] = @ + 1]
    /\ UNCHANGED <<phase, snap, outQ, inQ, wire, rcvd, capture, sent, decided>>

Close(k) ==
    /\ table[k] # NoProc
    /\ table' = [table EXCEPT ![k] = NoProc]
    /\ UNCHANGED <<phase, binds, snap, outQ, inQ, wire, rcvd, capture, sent, decided>>

\* A frame leaving through the adapter that owns its source address: the
\* default adapter's outbound traffic goes to filter 0 while it runs.
Emit(f) ==
    /\ sent' = sent + 1
    /\ IF f.src = DefaultIP /\ DefaultFiltered
          THEN outQ' = outQ \cup {f} /\ UNCHANGED wire
          ELSE wire' = wire \cup {f} /\ UNCHANGED outQ

\* A socket's process sends a TCP segment or UDP datagram to the peer.
HostSend(k) ==
    /\ sent < MaxFrames
    /\ table[k] # NoProc
    /\ Emit(Sealed([id |-> sent, eth |-> "ip", p |-> k.p, src |-> k.ip,
                    dst |-> RemoteIP, sport |-> k.port, dport |-> RPort,
                    smac |-> AdapterMAC(k.ip), dmac |-> GatewayMAC(k.ip),
                    ipsum |-> 0, l4sum |-> 0, owner |-> table[k],
                    from |-> k, rt |-> FALSE, trunc |-> FALSE,
                    asked |-> 0]))
    /\ UNCHANGED <<phase, table, binds, snap, inQ, rcvd, capture, decided>>

\* The host sends an ICMP echo or an ARP frame that no socket owns.  Only
\* frames from DefaultIP reach filter 0, and filter 1 sees only replies,
\* so one ARP sender covers every path a non-IPv4 frame takes.
HostSendOther(ip, eth) ==
    /\ sent < MaxFrames
    /\ Emit(Sealed([id |-> sent, eth |-> eth,
                    p |-> IF eth = "ip" THEN ICMP ELSE 0, src |-> ip,
                    dst |-> RemoteIP, sport |-> 0, dport |-> 0,
                    smac |-> AdapterMAC(ip), dmac |-> GatewayMAC(ip),
                    ipsum |-> 0, l4sum |-> 0, owner |-> NoProc,
                    from |-> NoKey, rt |-> FALSE, trunc |-> FALSE,
                    asked |-> 0]))
    /\ UNCHANGED <<phase, table, binds, snap, inQ, rcvd, capture, decided>>

\* A frame from the peer arrives on the adapter that owns its destination
\* address, where filter 1 captures it while it runs.
Arrive(r) ==
    IF r.dst = RebindIP /\ RebindFiltered
       THEN inQ' = inQ \cup {r} /\ UNCHANGED rcvd
       ELSE /\ rcvd' = rcvd \cup {[frame |-> r,
                       via |-> IF r.dst = RebindIP THEN "rebind" ELSE "default"]}
            /\ UNCHANGED inQ

\* The peer answers a frame it received, once.
RemoteReply(f) ==
    /\ wire' = wire \ {f}
    /\ Arrive(Sealed([f EXCEPT !.src = RemoteIP, !.dst = f.src,
                               !.sport = f.dport, !.dport = f.sport,
                               !.smac = GatewayMAC(f.src), !.dmac = f.smac]))
    /\ UNCHANGED <<phase, table, binds, snap, outQ, capture, sent, decided>>

\* A frame the peer sends on its own to a host endpoint: a TCP or UDP
\* request, or a frame whose ip_hl claims a header longer than the frame.
RemoteSend(k, kind) ==
    /\ kind \in PeerFrames
    /\ sent < MaxFrames
    /\ sent' = sent + 1
    /\ Arrive(Sealed([id |-> sent, eth |-> "ip", p |-> k.p, src |-> RemoteIP,
                      dst |-> k.ip, sport |-> RPort, dport |-> k.port,
                      smac |-> GatewayMAC(k.ip), dmac |-> AdapterMAC(k.ip),
                      ipsum |-> 0, l4sum |-> 0, owner |-> NoProc,
                      from |-> NoKey, rt |-> FALSE, trunc |-> kind = "truncated",
                      asked |-> IF kind = "request" THEN k.ip ELSE 0]))
    /\ UNCHANGED <<phase, table, binds, snap, outQ, wire, capture, decided>>

\* The socket a peer request was delivered to answers it.
HostAnswer(r) ==
    LET q == r.frame
        k == DeliveredKey(q)
    IN  /\ sent < MaxFrames
        /\ q.asked # 0 /\ ~q.trunc
        /\ k \in Keys /\ table[k] # NoProc
        /\ Emit(Sealed([id |-> sent, eth |-> "ip", p |-> k.p, src |-> k.ip,
                        dst |-> RemoteIP, sport |-> k.port, dport |-> RPort,
                        smac |-> AdapterMAC(k.ip), dmac |-> GatewayMAC(k.ip),
                        ipsum |-> 0, l4sum |-> 0, owner |-> table[k],
                        from |-> k, rt |-> FALSE, trunc |-> FALSE,
                        asked |-> q.asked]))
        /\ UNCHANGED <<phase, table, binds, snap, inQ, rcvd, capture, decided>>

-----------------------------------------------------------------------------
Next ==
    \/ \E f \in outQ : EgressPass(f)
    \/ \E f \in outQ : EgressRoute(f)
    \/ \E f \in outQ : EgressNoMatch(f)
    \/ \E f \in outQ : EgressNullDeref(f)
    \/ \E f \in inQ : IngressRoute(f)
    \/ \E f \in inQ : IngressPass(f)
    \/ StartDefault \/ StartDefaultFails \/ StartRebind \/ StartRebindFails
    \/ StopDefault \/ StopRebind
    \/ \E k \in Keys, p \in Procs : Bind(k, p)
    \/ \E k \in Keys : Close(k)
    \/ \E k \in Keys : HostSend(k)
    \/ \E ip \in SocketIPs : HostSendOther(ip, "ip")
    \/ HostSendOther(DefaultIP, "arp")
    \/ \E f \in wire : RemoteReply(f)
    \/ \E k \in Keys, kind \in {"truncated", "request"} : RemoteSend(k, kind)
    \/ \E r \in rcvd : HostAnswer(r)

Spec == Init /\ [][Next]_vars

\* dual_packet_filter runs one worker per started filter, which takes every
\* packet the driver queues and calls the lambda on it, so the ingress
\* worker's step is weakly fair.  The step is named by its effect: one frame
\* leaves filter 1's queue and the phase is unchanged.  In Spec's behaviours
\* these are exactly the IngressRoute and IngressPass steps (RemoteReply
\* adds to inQ, StopRebind and EgressNullDeref change the phase), and one of
\* the two is enabled whenever inQ is not empty.  Sockets, the host, the
\* peer and the user get no fairness.
IngressWorker == \E f \in inQ : inQ' = inQ \ {f} /\ UNCHANGED phase

FairSpec == Spec /\ WF_inQ(IngressWorker)

(***************************************************************************)
(* Properties.                                                             *)
(***************************************************************************)


\* Every frame the router puts on either link or hands to the host stack
\* carries valid IP and TCP/UDP checksums: both lambdas recompute them
\* after, never before, they change addresses.
ChecksumsValid ==
    /\ \A f \in wire \cup capture : ValidChecksums(f)
    /\ \A r \in rcvd : ValidChecksums(r.frame)

\* The two rewrites are inverse: a reply that the ingress lambda translated,
\* to a request that the egress lambda rebound, reaches exactly the socket
\* that sent the request (same protocol, address and port).
RewritesAreInverse ==
    \A r \in rcvd : r.via = "ingress" /\ r.frame.rt =>
                        DeliveredKey(r.frame) = r.frame.from

\* Attribution is right: the egress lambda routes a frame exactly when the
\* process that sent it has app_name_ in its image name, whether the owner
\* came from the snapshot or from the refreshed table.
AttributionSound ==
    \A d \in decided : d.owner # NoProc => (d.route <=> Matches(d.owner))

\* spec 4.1: an owner that is still unresolved after the refresh means
\* "not the target application" and the frame passes; the process never
\* dereferences an empty lookup result.
NoNullDeref == phase # "crashed"

\* spec 4.2 step 4: whatever the ingress lambda translates is, by
\* construction, a reply to traffic the egress lambda rebound.
IngressRoutesOnlyRebound ==
    \A r \in rcvd : r.via = "ingress" => r.frame.rt

\* While filter 0 rebinds new flows, no reply to a rebound flow reaches the
\* host stack untranslated (start() turns filter 0 on before filter 1).
ReboundRepliesTranslated ==
    [][DefaultFiltered =>
        \A r \in rcvd' \ rcvd : IsReply(r.frame) /\ r.frame.rt => r.via = "ingress"]_vars

\* spec 4.2 step 5 and 8: a frame whose IPv4 header length runs past the
\* buffer is dropped by the entry point, never routed; the ingress lambda
\* neither rewrites nor logs one.
TruncatedNeverRouted ==
    /\ \A r \in rcvd : r.frame.trunc => r.via # "ingress"
    /\ \A f \in capture : ~f.trunc

\* spec 1: egress and ingress rewrites are kept symmetric so that the TCP
\* and UDP state on both ends stays consistent.  A flow the peer opened to
\* a host address is answered from that same address, whichever process
\* owns the socket: the egress lambda must not rebind it.
AnswersKeepAddress ==
    \A f \in wire : f.asked # 0 => f.src = f.asked

\* A reply to a rebound request, once filter 1 has captured it, eventually
\* reaches the very socket that sent the request, unless filter 1 is
\* stopped first: the ingress lambda translates every such reply, for UDP
\* and for TCP, and never leaves one queued.
ReboundReplyDelivered ==
    \A i \in 0..(MaxFrames - 1) :
        (\E r \in inQ : r.id = i /\ r.rt)
            ~> \/ \E r \in rcvd : r.frame.id = i /\ DeliveredKey(r.frame) = r.frame.from
               \/ ~RebindFiltered

-----------------------------------------------------------------------------
(***************************************************************************)
(* Refinement: the egress path implements EgressVerdicts.  A queued frame  *)
(* is seen as its id, its true sender, and whether the lambda attributes   *)
(* it at all; the verdict log is the ghost variable decided.               *)
(***************************************************************************)

Entry(f) == [id |-> f.id, owner |-> f.owner, eligible |-> Attributed(f)]

EgressAbs == INSTANCE EgressVerdicts WITH
    Entries <- [id : 0..MaxFrames, owner : Procs \cup {NoProc}, eligible : BOOLEAN],
    Wanted <- LAMBDA e : e.eligible /\ Matches(e.owner),
    queue <- {Entry(f) : f \in outQ},
    log <- decided

\* The egress lambda, seen through the mapping, gives every captured frame
\* exactly one verdict, never decides a frame it did not capture, and
\* routes exactly the frames whose sending process matches app_name_ --
\* whatever the snapshot, the refresh and the socket table did meanwhile.
EgressRefinesVerdicts == EgressAbs!Spec
=============================================================================
