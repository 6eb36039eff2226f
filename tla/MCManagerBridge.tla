--------------------------- MODULE MCManagerBridge ---------------------------
(* ManagerBridge for TLC: two clients, so that reports of one can displace   *)
(* those of the other.                                                       *)
EXTENDS ManagerBridge, TLC

CONSTANTS c1, c2

ClientPerms == Permutations({c1, c2})
==============================================================================
