---------------------------- MODULE MCTurnQueue -----------------------------
(* Instances of TurnQueue for TLC. *)
EXTENDS TurnQueue

CONSTANTS s1, r1, p1, p2
=============================================================================
