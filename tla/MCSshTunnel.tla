---------------------------- MODULE MCSshTunnel ----------------------------
(***************************************************************************)
(* The tunnels for TLC: the first connection goes through the first        *)
(* tunnel, the second through either; the other routes are the same with   *)
(* the tunnels renamed (which TLC may not be told as a symmetry where      *)
(* liveness is checked).                                                   *)
(***************************************************************************)
EXTENDS SshTunnel

CONSTANTS c1, t1

MCRoutes == {r \in [Conns -> Tunnels] : r[c1] = t1}
=============================================================================
