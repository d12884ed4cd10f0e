----------------------------- MODULE MCLimiter -----------------------------
(* Instances of Limiter for TLC.                                           *)
EXTENDS Limiter

CONSTANTS p1, p2, ip1, n1, n2, n3, a1, a2

\* Two addresses of one host, and one account spelled in two ways.
MCPeerIP == [p \in {p1, p2} |-> ip1]
MCCanon == [n \in {n1, n2, n3} |-> IF n = n3 THEN a2 ELSE a1]
=============================================================================
