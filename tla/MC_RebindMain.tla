---------------------------- MODULE MC_RebindMain ----------------------------
(***************************************************************************)
(* Three adapters for RebindMain: two Ethernet adapters, each with an      *)
(* IPv6 and an IPv4 address in different orders and an IPv4 gateway, and  *)
(* a PPP adapter whose NDIS interface is an NDISWAN one.                   *)
(***************************************************************************)
EXTENDS RebindMain, TLC

CONSTANTS a1, a2, a3

MCAdapters == {a1, a2, a3}

Inet(x) == [fam |-> "inet", addr |-> x]
Inet6(x) == [fam |-> "inet6", addr |-> x]
Gw(f, h) == [fam |-> f, hw |-> h]

MCAdapterInfo ==
    (a1 :> [type |-> "ethernet", name |-> <<"{", "1", "}">>,
            unicast |-> <<Inet6("fe80::1"), Inet("10.0.0.5")>>,
            gateways |-> <<Gw("inet", "gw1")>>])
 @@ (a2 :> [type |-> "ethernet", name |-> <<"{", "2", "}">>,
            unicast |-> <<Inet("10.0.0.9"), Inet6("fe80::2")>>,
            gateways |-> <<Gw("inet", "gw2"), Gw("inet6", "gw2v6")>>])
 @@ (a3 :> [type |-> "ppp", name |-> <<"{", "3", "}">>,
            unicast |-> <<Inet("10.0.0.13")>>,
            gateways |-> <<Gw("inet", "gw3")>>])

\* The same, except that both Ethernet adapters got 192.168.1.10 from
\* two different routers.
MCAdapterInfoSameIP ==
    [MCAdapterInfo EXCEPT ![a1].unicast = <<Inet("192.168.1.10")>>,
                          ![a2].unicast = <<Inet("192.168.1.10")>>]

\* A name typed at the prompt, or an empty line.
MCNames == {<<"v", "p", "n">>, <<>>}

MCNdisList ==
    << [internal |-> <<"\\", "{", "1", "}">>, ras |-> {}, wan |-> "none", hw |-> "mac1"],
       [internal |-> <<"\\", "{", "2", "}">>, ras |-> {}, wan |-> "none", hw |-> "mac2"],
       [internal |-> <<"W", "A", "N">>, ras |-> {"10.0.0.13"}, wan |-> "wan", hw |-> "macw"] >>
=============================================================================
