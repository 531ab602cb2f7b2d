---------------------------- MODULE MCAsqsCycle ----------------------------
(***************************************************************************)
(* TLC instances of AsqsCycle.  The points are the strategy's own.  The    *)
(* ticks are at breakeven only, at TP1 and trailing, and above; orders of  *)
(* 0.04 lot, which a partial fill makes anything below: 0.04 can be halved *)
(* twice, 0.03 (rounded up to 0.02) and 0.02 once, 0.01 never.             *)
(***************************************************************************)
EXTENDS AsqsCycle, TLC

MCLots == {4}
MCTicks == {150, 200, 250}
MCNoStops == {}

\* For two tasks at once: one lot step (so no TP1 falls due), two ticks, one stop.
MCFewLots == {1}
MCFewTicks == {150, 250}
MCFewStops == {120}

TicketSymmetry == Permutations(Tickets)
TaskAndTicketSymmetry == Permutations(Tickets) \union Permutations(Tasks)
=============================================================================
