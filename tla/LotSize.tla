------------------------------ MODULE LotSize ------------------------------
(***************************************************************************)
(* Position sizing of the live strategies: size_position and               *)
(* round_to_lot_step (resources), capped by size_order (the app's sizer).  *)
(*                                                                         *)
(* Lots are counted in a unit finer than the lot step; the risk budget and *)
(* the risk of one unit over one tick of stop are integers.  The exchange  *)
(* rate and the contract size are in that risk.                            *)
(***************************************************************************)
EXTENDS Integers, FiniteSets, FiniteSetsExt

CONSTANTS VolumeMin, VolumeMax, VolumeStep,  \* the instrument's terms
          StopFloor,                         \* atr_floor_ticks * tick_size
          Budgets, Stops, Caps               \* inputs: risk budgets, stop distances, max_lot

VARIABLES asked,  \* the inputs of the call
          sized   \* the lots it returned, empty before it did
vars == <<asked, sized>>

\* effective_stop, and the money one unit of lots risks over it.
EffectiveStop(stop) == Max({stop, StopFloor})
Risk(lots, stop) == lots * EffectiveStop(stop)

\* Lifting to the minimum instead of refusing.
LiftToMinimum(lots) == Max({VolumeMin, Min({(lots \div VolumeStep) * VolumeStep, VolumeMax})})

\* Down to a step, none below the minimum, at most the maximum.
RoundToLotStep(lots) ==
  LET stepped == (lots \div VolumeStep) * VolumeStep
  IN  IF stepped < VolumeMin THEN 0 ELSE Min({stepped, VolumeMax})

\* size_position: a non-positive budget or stop is refused with no lots.
SizePosition(budget, stop) ==
  IF budget <= 0 \/ stop <= 0 THEN 0 ELSE RoundToLotStep(budget \div EffectiveStop(stop))

\* size_order: the ceiling is applied to what was sized, and rounded as lots are.
SizeOrder(budget, stop, cap) ==
  LET lots == SizePosition(budget, stop) IN IF lots > cap THEN RoundToLotStep(cap) ELSE lots

Init == asked = [budget |-> 0, stop |-> 0, cap |-> 1] /\ sized = <<>>
Size == \E budget \in Budgets, stop \in Stops, cap \in Caps :
          /\ asked' = [budget |-> budget, stop |-> stop, cap |-> cap]
          /\ sized' = <<SizeOrder(budget, stop, cap)>>
Next == sized = <<>> /\ Size
Spec == Init /\ [][Next]_vars

\* The order is the largest tradable one that the budget pays for at the stop
\* it is placed with and that the ceiling allows, and none when there is none:
\* never the minimum lot over the budget (size_position with size_order).
LotsWithinBudget ==
  LET fits == {n \in VolumeMin..VolumeMax : /\ n % VolumeStep = 0 /\ n <= asked.cap
                                            /\ Risk(n, asked.stop) <= asked.budget}
  IN  sized # <<>> => sized[1] = IF asked.stop <= 0 \/ fits = {} THEN 0 ELSE Max(fits)
=============================================================================
