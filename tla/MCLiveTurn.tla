----------------------------- MODULE MCLiveTurn -----------------------------
(* Instances of LiveTurn for TLC: two followers share the turn's wakeup. *)
EXTENDS LiveTurn

CONSTANTS f1, f2, s1
=============================================================================
