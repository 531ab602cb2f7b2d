--------------------------- MODULE MCDrawdownGuard ---------------------------
(***************************************************************************)
(* TLC instances of DrawdownGuard.  Five equities and a 20% budget put a   *)
(* breach, the exact threshold (80 of 100), a new high and an equity just  *)
(* inside the budget in reach of each other.                               *)
(***************************************************************************)
EXTENDS DrawdownGuard, TLC

MCEquity == {79, 80, 99, 100, 120}

TaskSymmetry == Permutations(Tasks)
=============================================================================
