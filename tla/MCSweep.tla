------------------------------- MODULE MCSweep -------------------------------
(* Instances of Sweep for TLC. *)
EXTENDS Sweep

CONSTANTS p1, p2, e1

\* Two presses of the button, for one cell; the edit is of that cell too.
OneCell == [x \in Forces \cup Edits |-> 1]
=============================================================================
