----------------------------- MODULE RebindMain -----------------------------
(***************************************************************************)
(* main() of src/examples/cpp/rebind/rebind.cpp and the configuration it   *)
(* drives: the choice of the default and the rebind adapter, the prompt    *)
(* for the rebind adapter's index, set_ndis_interfaces_by_adapter_info()   *)
(* with get_ndis_interface_by_adapter_info(), and start().  Its output is  *)
(* the binding that RebindRouter takes as constants.                       *)
(*                                                                         *)
(* The environment (the routable adapters, the best one, what the user     *)
(* types, whether the driver is loaded and whether start_filter succeeds) *)
(* is chosen nondeterministically when main() asks for it.                 *)
(***************************************************************************)
EXTENDS Integers, SequencesExt, WString

CONSTANTS
    Adapters,       \* iphelper::network_adapter_info values
    NoAdapter,      \* get_best_interface found no route
    AdapterInfo,    \* type, name, unicast and gateway lists of each adapter
    NdisList,       \* filter_->get_interface_list(), in order
    ZeroMAC,        \* net::mac_address{}, the members' initial value
    Inputs,         \* what std::cin >> idx may leave in idx (0 on bad input)
    Names,          \* what std::getline may leave in app_name_w
    SizeWidth       \* bits of size_t

ASSUME /\ NoAdapter \notin Adapters
       /\ Inputs \subseteq Nat
       /\ Names \subseteq Seq(STRING)
       /\ SizeWidth \in Nat \ {0}

Unset == "0.0.0.0"      \* net::ip_address_v4{}
Invalid == 0            \* INVALID_HANDLE_VALUE; handles are 1..Len(NdisList)

VARIABLES
    pc,         \* the statement of main() about to run
    routable,   \* routable_adapters
    best,       \* default_adapter
    idx,        \* idx
    chosen,     \* routable_adapters[idx - 1], once read
    binding     \* the rebind_router members set by configuration

vars == <<pc, routable, best, idx, chosen, binding>>

\* Every address an ip_address_v4 member can hold.
IPv4Addresses ==
    {Unset} \cup UNION {{e.addr : e \in {u \in Range(AdapterInfo[a].unicast) :
                                           u.fam = "inet"}} : a \in Adapters}

Binding == [defaultHandle : 0..Len(NdisList), rebindHandle : 0..Len(NdisList),
            defaultHw : STRING \cup {ZeroMAC}, rebindHw : STRING \cup {ZeroMAC},
            gwHw : STRING \cup {ZeroMAC},
            defaultIP : IPv4Addresses, rebindIP : IPv4Addresses,
            appName : Names \cup {<<>>}]

TypeOK ==
    /\ pc \in {"driver", "probe", "erase", "select", "configure", "start",
               "running", "exit", "ub"}
    /\ routable \in Seq(Adapters)
    /\ best \in Adapters \cup {NoAdapter}
    /\ idx \in Nat
    /\ chosen \in Adapters \cup {NoAdapter}
    /\ binding \in Binding

Init ==
    /\ pc = "driver"
    /\ routable = <<>>
    /\ best = NoAdapter
    /\ idx = 0
    /\ chosen = NoAdapter
    /\ binding = [defaultHandle |-> Invalid, rebindHandle |-> Invalid,
                  defaultHw |-> ZeroMAC, rebindHw |-> ZeroMAC, gwHw |-> ZeroMAC,
                  defaultIP |-> Unset, rebindIP |-> Unset, appName |-> <<>>]

-----------------------------------------------------------------------------
(***************************************************************************)
(* Configuration helpers.                                                  *)
(***************************************************************************)

\* The addresses of an adapter's unicast list (has_address).
Addresses(a) == {u.addr : u \in Range(AdapterInfo[a].unicast)}

\* get_ndis_interface_by_adapter_info: the first NDIS interface whose
\* internal name contains the adapter name, or for a PPP adapter the first
\* one with a RAS link on one of its addresses; 0 when there is none.
GetNdisInterface(a) ==
    IF AdapterInfo[a].type # "ppp"
    THEN SelectInSeq(NdisList, LAMBDA n : IsSubstring(AdapterInfo[a].name, n.internal))
    ELSE SelectInSeq(NdisList, LAMBDA n : n.ras \cap Addresses(a) # {})

\* Mutant: the loop without its ss_family test.
LastAny(list, field, old) ==
    IF list = <<>> THEN old ELSE list[Len(list)][field]

\* The loops over a list that keep the last AF_INET entry's field, leaving
\* the member as it was when there is none.
LastInet(list, field, old) ==
    LET i == SelectLastInSeq(list, LAMBDA e : e.fam = "inet")
    IN  IF i = 0 THEN old ELSE list[i][field]

\* set_ndis_interfaces_by_adapter_info returns true: both adapters have an
\* NDIS interface and the rebind one is not NDISWAN.
NdisInterfacesFound(d, r) ==
    /\ GetNdisInterface(d) # 0
    /\ GetNdisInterface(r) # 0
    /\ NdisList[GetNdisInterface(r)].wan = "none"

\* The members set_ndis_interfaces_by_adapter_info assigns when it does.
SetNdisInterfaces(d, r, b) ==
    LET nd == GetNdisInterface(d)
        nr == GetNdisInterface(r)
    IN  [defaultHandle |-> nd, rebindHandle |-> nr,
         defaultHw |-> NdisList[nd].hw, rebindHw |-> NdisList[nr].hw,
         gwHw |-> LastInet(AdapterInfo[r].gateways, "hw", b.gwHw),
         rebindIP |-> LastInet(AdapterInfo[r].unicast, "addr", b.rebindIP),
         defaultIP |-> LastInet(AdapterInfo[d].unicast, "addr", b.defaultIP),
         appName |-> b.appName]

\* set_application_name(name): app_name_ = name.
SetApplicationName(b, name) == [b EXCEPT !.appName = name]

-----------------------------------------------------------------------------
(***************************************************************************)
(* The statements of main().                                               *)
(***************************************************************************)

\* is_driver_loaded(): return 1 when WinpkFilter is not loaded.
CheckDriver ==
    /\ pc = "driver"
    /\ pc' \in {"probe", "exit"}
    /\ UNCHANGED <<routable, best, idx, chosen, binding>>

\* get_routable_interfaces / get_best_interface for 1.1.1.1: stop when
\* there is no best interface or only one routable one.
Probe ==
    /\ pc = "probe"
    /\ \E r \in {s \in SeqOf(Adapters, Cardinality(Adapters)) : IsInjective(s)},
          b \in Adapters \cup {NoAdapter} :
          /\ b # NoAdapter => b \in Range(r)
          /\ routable' = r
          /\ best' = b
          /\ pc' = IF b = NoAdapter \/ Len(r) = 1 THEN "exit" ELSE "erase"
    /\ UNCHANGED <<idx, chosen, binding>>

\* Remove the default adapter from the alternatives (erase/remove_if).
EraseDefault ==
    /\ pc = "erase"
    /\ routable' = Remove(routable, best)
    /\ pc' = "select"
    /\ UNCHANGED <<best, idx, chosen, binding>>

\* The name read at the prompt goes to set_application_name, unchecked;
\* then the index: typed when there is more than one alternative, 1
\* otherwise; an index above the list's size ends main().
Select ==
    /\ pc = "select"
    /\ \E name \in Names, i \in IF Len(routable) > 1 THEN Inputs ELSE {1} :
          /\ binding' = SetApplicationName(binding, name)
          /\ idx' = i
          /\ pc' = IF i > Len(routable) THEN "exit" ELSE "configure"
    /\ UNCHANGED <<routable, best, chosen>>

\* The 0-based position routable_adapters[idx - 1] reads, in size_t.
Position(i) == (i - 1) % (2 ^ SizeWidth)

\* set_ndis_interfaces_by_adapter_info(default, routable_adapters[idx - 1]).
\* A position past the end is undefined behaviour: main() stops there.
Configure ==
    /\ pc = "configure"
    /\ \/ /\ Position(idx) >= Len(routable)
          /\ pc' = "ub"
          /\ UNCHANGED <<chosen, binding>>
       \/ /\ Position(idx) < Len(routable)
          /\ LET r == routable[Position(idx) + 1]
             IN  /\ chosen' = r
                 /\ IF NdisInterfacesFound(best, r)
                       THEN pc' = "start" /\ binding' = SetNdisInterfaces(best, r, binding)
                       ELSE pc' = "exit" /\ UNCHANGED binding
    /\ UNCHANGED <<routable, best, idx>>

\* start(): start_filter on the default adapter, then on the rebind one;
\* either may fail, and then main() returns.
Start ==
    /\ pc = "start"
    /\ pc' \in {"running", "exit"}
    /\ UNCHANGED <<routable, best, idx, chosen, binding>>

\* _getch() returns; main() returns and the destructor calls stop().
KeyPressed ==
    /\ pc = "running"
    /\ pc' = "exit"
    /\ UNCHANGED <<routable, best, idx, chosen, binding>>

Next ==
    \/ CheckDriver \/ Probe \/ EraseDefault \/ Select \/ Configure
    \/ Start \/ KeyPressed

Spec == Init /\ [][Next]_vars

-----------------------------------------------------------------------------
(***************************************************************************)
(* Properties.                                                             *)
(***************************************************************************)

IPv4Of(a) == {u.addr : u \in {e \in Range(AdapterInfo[a].unicast) : e.fam = "inet"}}
IPv4GatewayHws(a) ==
    {g.hw : g \in {e \in Range(AdapterInfo[a].gateways) : e.fam = "inet"}}

\* When filtering starts, the binding describes the two adapters the user
\* meant: two different NDIS interfaces, the rebind one not NDISWAN, each
\* address an IPv4 address of its own adapter, and the gateway MAC that of
\* an IPv4 gateway of the rebind adapter.
BindingFromSelection ==
    pc \in {"start", "running"} =>
        /\ binding.defaultHandle # binding.rebindHandle
        /\ NdisList[binding.rebindHandle].wan = "none"
        /\ binding.defaultIP \in IPv4Of(best)
        /\ binding.rebindIP \in IPv4Of(chosen)
        /\ binding.gwHw \in IPv4GatewayHws(chosen)

\* The index read at the prompt selects an element of the list: main()
\* never indexes routable_adapters outside its bounds.
SelectionInBounds ==
    pc = "configure" => Position(idx) < Len(routable)

\* spec 3: a binding whose default and rebind addresses are equal is
\* rejected at configuration time; filtering never starts with one.
BindingAddressesDistinct ==
    pc \in {"start", "running"} => binding.defaultIP # binding.rebindIP

=============================================================================
