----------------------------- MODULE HighWater -----------------------------
(***************************************************************************)
(* What the drawdown guard promises, without files or tasks.  There is one *)
(* peak.  An evaluation at an equity that is not a breach of the peak is   *)
(* admitted, and the peak is then at least that equity; an evaluation at a *)
(* breach changes nothing.                                                 *)
(***************************************************************************)
EXTENDS Integers

CONSTANTS Equity,          \* account equities, positive whole currency units
          MaxDrawdownPct,  \* the halt distance from the peak, in percent
          None             \* no peak recorded yet

VARIABLES peak,            \* the recorded peak, or None
          admitted         \* equities whose evaluation may now place an order

(***************************************************************************)
(* DrawdownGuard.trigger_threshold and is_tripped: strictly below the      *)
(* threshold trips, the threshold itself does not, and no peak never does. *)
(***************************************************************************)
Tripped(p, e) == p # None /\ e * 100 < p * (100 - MaxDrawdownPct)

\* DrawdownGuard.update: raise on a new high, otherwise leave alone.
Raised(p, e) == IF p = None \/ e > p THEN e ELSE p

Init == /\ peak \in Equity \union {None}
        /\ admitted = {}

Admit == \E e \in Equity :
           /\ admitted = {}
           /\ ~Tripped(peak, e)
           /\ peak' = Raised(peak, e)
           /\ admitted' = {e}

\* A peak may be recorded by an evaluation that is cut short before its entry.
Record == \E e \in Equity :
            /\ admitted = {}
            /\ ~Tripped(peak, e)
            /\ peak' = Raised(peak, e)
            /\ UNCHANGED admitted

Release == /\ admitted # {}
           /\ admitted' = {}
           /\ UNCHANGED peak

Next == Admit \/ Record \/ Release

Spec == Init /\ [][Next]_<<peak, admitted>>
=============================================================================
