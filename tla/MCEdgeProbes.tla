---------------------------- MODULE MCEdgeProbes ----------------------------
EXTENDS EdgeProbes

CONSTANTS s1, s2, b1, b2

(* The proxy asks for one service less once it has another address.        *)
TwoAndOne == [b \in {b1, b2} |-> IF b = b1 THEN <<s1, s2>> ELSE <<s1>>]
=============================================================================
