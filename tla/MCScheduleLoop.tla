--------------------------- MODULE MCScheduleLoop ---------------------------
(***************************************************************************)
(* Instances of ScheduleLoop for TLC: three tasks in a chain, a fork, a    *)
(* join and with a cycle; a loop and the one that replaces it.             *)
(***************************************************************************)
EXTENDS ScheduleLoop

CONSTANTS l1, l2

MCPlans ==
  {<<{}, {1}, {2}>>, <<{}, {1}, {1}>>, <<{}, {}, {1, 2}>>, <<{}, {3}, {2}>>}
=============================================================================
