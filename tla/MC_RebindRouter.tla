--------------------------- MODULE MC_RebindRouter ---------------------------
(***************************************************************************)
(* Model values for RebindRouter.  The addresses are those of the worked   *)
(* scenario in spec.md section 8: default 10.0.0.5, rebind 10.0.0.9, and   *)
(* the peer 1.1.1.1 that main() probes for reachability.                   *)
(***************************************************************************)
EXTENDS RebindRouter, TLC

CONSTANTS app, other

MCProcs == {app, other}
\* "myvpn" contains the typed name "vpn"; "ssh" does not.
MCProcName == (app :> <<"m", "y", "v", "p", "n">>) @@ (other :> <<"s", "s", "h">>)
MCAppName == <<"v", "p", "n">>
MCDefaultIP == 167772165   \* 10.0.0.5
MCRebindIP == 167772169    \* 10.0.0.9
MCRemoteIP == 16843009     \* 1.1.1.1
MCSocketIPs == {MCDefaultIP, MCRebindIP}
=============================================================================
