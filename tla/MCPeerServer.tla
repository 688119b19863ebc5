---------------------------- MODULE MCPeerServer ----------------------------
(***************************************************************************)
(* Two clients of one address, which may have one connection at a time:    *)
(* the second follows the first, whose packets, entry of requestMapperTo   *)
(* and replies may still be around, or is rejected.  One client and one    *)
(* connection of the pool bring data and requests, so that both rings fill *)
(* up from either side before and after the threads behind them return.    *)
(***************************************************************************)
EXTENDS PeerServer

CONSTANTS ip1, c1, c2, p1, d1, d2

MCIpOf == [c \in Clients |-> ip1]
MCAskers == [d \in Dejavus |-> IF d = d1 THEN {c1} ELSE {p1}]
=============================================================================
