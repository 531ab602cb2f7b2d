------------------------------ MODULE Momentum -----------------------------
(***************************************************************************)
(* The h1_momentum pass: fetch bars, close what has been held long enough, *)
(* look again for an open position, then decide about one entry.  One pass *)
(* runs at a time (a queued one expires, a running one has a time limit);  *)
(* every remote call may fail, or execute without saying so, and the       *)
(* broker's stop may close a position between any two.                     *)
(***************************************************************************)
EXTENDS Integers, FiniteSets

CONSTANTS HoldBars,   \* HOLD_BARS
          Tickets,    \* bound: the positions there can be
          MaxBars     \* bound: the number of bars

VARIABLES
  step,      \* where the pass is
  bar,       \* the forming bar
  fetched,   \* the forming bar of the pass's series
  todo,      \* listed positions the pass has not looked at
  open,      \* open positions
  entered,   \* the bar in which each was opened
  used,      \* tickets the broker has issued
  listFails  \* observer: positions that a failed listing hid

series == <<bar, fetched>>
book == <<open, entered, used>>
vars == <<step, series, todo, book, listFails>>

Init == /\ step = "idle" /\ bar = 0 /\ fetched = 0 /\ todo = {}
        /\ open = {} /\ entered = [k \in Tickets |-> 0] /\ used = {}
        /\ listFails = {}

----------------------------------------------------------------------------
\* evaluate(): the candles come first, without them there is no pass.
Fetch == /\ step = "idle"
         /\ step' = "exits" /\ fetched' = bar
         /\ UNCHANGED <<bar, todo, book, listFails>>

\* _open_positions(): an exception is an empty list.
Listing(result) ==
  \/ result = open /\ UNCHANGED listFails
  \/ result = {} /\ listFails' = listFails \cup open

ListForExits ==
  /\ step = "exits" /\ step' = "manage"
  /\ \E result \in {open, {}} : Listing(result) /\ todo' = result
  /\ UNCHANGED <<series, book>>

\* Bars that opened after the position, without the forming one.
BarsHeld(k) == fetched - entered[k] - 1

HeldEnough(k) == BarsHeld(k) >= HoldBars

Holds(k) == /\ step = "manage" /\ k \in todo /\ ~HeldEnough(k)
            /\ todo' = todo \ {k}
            /\ UNCHANGED <<step, series, book, listFails>>

\* A close that fails is logged; the next pass tries again.
Exits(k) == /\ step = "manage" /\ k \in todo /\ HeldEnough(k)
            /\ todo' = todo \ {k}
            /\ open' \in {open, open \ {k}}
            /\ UNCHANGED <<step, series, entered, used, listFails>>

\* Trusting the listing the pass already has.
SkipsRelisting ==
  /\ step = "manage" /\ todo = {} /\ step' = "signal"
  /\ UNCHANGED <<series, todo, book, listFails>>

ListForEntry ==
  /\ step = "manage" /\ todo = {}
  /\ \E result \in {open, {}} :
       Listing(result) /\ step' = IF result = {} THEN "signal" ELSE "idle"
  /\ UNCHANGED <<series, todo, book>>

\* No signal, no account, no tick, or the sizer declines.
NoEntry == /\ step = "signal" /\ step' = "idle"
           /\ UNCHANGED <<series, todo, book, listFails>>

Enters(k) == /\ step = "signal" /\ step' = "idle"
             /\ k \in Tickets \ used
             /\ open' = open \cup {k} /\ used' = used \cup {k}
             /\ entered' = [entered EXCEPT ![k] = bar]
             /\ UNCHANGED <<series, todo, listFails>>

Pass == \/ Fetch \/ ListForExits \/ ListForEntry \/ NoEntry
        \/ \E k \in Tickets : Holds(k) \/ Exits(k) \/ Enters(k)

----------------------------------------------------------------------------
NewBar == /\ bar < MaxBars /\ bar' = bar + 1
          /\ UNCHANGED <<step, fetched, todo, book, listFails>>

\* The catastrophic stop, or an operator.
Stopped(k) == /\ k \in open /\ open' = open \ {k}
              /\ UNCHANGED <<step, series, todo, entered, used, listFails>>

\* The task is killed, or its time limit is over.
Killed == /\ step # "idle" /\ step' = "idle" /\ todo' = {}
          /\ UNCHANGED <<series, book, listFails>>

Next == Pass \/ NewBar \/ (\E k \in Tickets : Stopped(k)) \/ Killed

----------------------------------------------------------------------------
(***************************************************************************)
(* "No re-entry while open" (h1_momentum/strategy.py:18): a second         *)
(* position is opened only past one that a failed listing hid.             *)
(***************************************************************************)
ReentryNeedsFailedListing ==
  \A j, k \in open : j # k => j \in listFails \/ k \in listFails
============================================================================
