-------------------------- MODULE MCPendingFailures --------------------------
(* Bounded instances of PendingFailures: two owners, one of them flooded.   *)
EXTENDS PendingFailures

CONSTANTS s1, s2, f1, f2, f3, f4

Flood == [f \in {f1, f2, f3, f4} |-> IF f = f4 THEN s2 ELSE s1]
=============================================================================
