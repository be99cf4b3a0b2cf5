-------------------------- MODULE MCTransportSync --------------------------
(* Instances of TransportSync for TLC. *)
EXTENDS TransportSync

CONSTANTS a, b, p1, p2, m1, m2

Tree(x, y) == [f \in Files |-> IF f = a THEN x ELSE y]

\* a changes, b is removed.
const_Trees == <<Tree(1, 1), Tree(2, 1), Tree(2, None)>>
=============================================================================
