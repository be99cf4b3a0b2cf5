----------------------------- MODULE MCRunTasks -----------------------------
(***************************************************************************)
(* Instances of RunTasks for TLC.  Four rows in a chain, listed forwards   *)
(* and backwards, in a diamond and with a cycle, and one row of the other  *)
(* scheduler; or two rows of one and one of the other, for two requests.   *)
(***************************************************************************)
EXTENDS RunTasks

CONSTANTS r1, r2

MCPlans ==
  {<<{}, {1}, {2}, {3}, {}>>, <<{2}, {3}, {4}, {}, {}>>, <<{}, {1}, {1}, {2, 3}, {}>>,
   <<{}, {3}, {2}, {1, 2}, {}>>}

MCPlansOfTwo == {<<{}, {1}, {}>>}
=============================================================================
