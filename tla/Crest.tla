------------------------------- MODULE Crest -------------------------------
(***************************************************************************)
(* The crest_n_keel evaluation: guard and filters, the check for an open   *)
(* position, the spread, the order.  Its task has no expiry and no time    *)
(* limit, so two can run at once; calls fail, or answer an error of the    *)
(* terminal with an empty list; an order that its task gave up is executed *)
(* later or never; positions close.  What the filters look at is left to   *)
(* chance: an evaluation goes on or ends at each of them.                  *)
(***************************************************************************)
EXTENDS Naturals, FiniteSets

CONSTANTS Tasks,    \* run_crest_n_keel tasks
          Tickets,  \* bound: the positions there can be
          MaxLate   \* bound: orders that wait at the bridge without a client

VARIABLES
  at,      \* where each task is
  held,    \* open positions
  issued,  \* tickets the broker has issued
  late,    \* how many orders the bridge has whose clients gave up
  raced,   \* observer: tasks that were between check and order when another
           \* task was, or when the bridge executed a late order
  unseen   \* observer: tasks whose listing did not name an open position

broker == <<held, issued>>
observers == <<raced, unseen>>
vars == <<at, broker, late, observers>>

Go(t, from, to) == at[t] = from /\ at' = [at EXCEPT ![t] = to]

Between == {t \in Tasks : at[t] \in {"spread", "order"}}

Init == /\ at = [t \in Tasks |-> "idle"]
        /\ held = {} /\ issued = {} /\ late = 0 /\ raced = {} /\ unseen = {}

----------------------------------------------------------------------------
Begin(t) == /\ Go(t, "idle", "filters")
            /\ raced' = raced \ {t} /\ unseen' = unseen \ {t}
            /\ UNCHANGED <<broker, late>>

\* No account, a tripped guard, no candles, outside the session, past the
\* Friday cutoff, no signal, or a quiet regime: no entry.
Filtered(t) == Go(t, "filters", "idle") /\ UNCHANGED <<broker, late, observers>>

PassesFilters(t) == Go(t, "filters", "check") /\ UNCHANGED <<broker, late, observers>>

\* What a listing can be: the positions; nothing, though there are some, for
\* the bridge takes an error of the terminal for an empty list; an exception.
Listings == {"empty", "failed"} \cup (IF held = {} THEN {} ELSE {"positions"})

BlocksIfListed(listing) == listing = "positions"

Blocks(listing) == listing \in {"positions", "failed"}

HasOpenPosition(t) ==
  \E listing \in Listings :
    /\ Go(t, "check", IF Blocks(listing) THEN "idle" ELSE "spread")
    /\ unseen' = IF listing = "empty" /\ held # {} THEN unseen \cup {t} ELSE unseen
    /\ raced' = IF Blocks(listing) \/ Between = {} THEN raced ELSE raced \cup Between \cup {t}
    /\ UNCHANGED <<broker, late>>

\* No tick or a wide spread.
SpreadBlocks(t) == Go(t, "spread", "idle") /\ UNCHANGED <<broker, late, observers>>

\* Within the limit, or a tick that cannot be read: "allow trade if check fails".
PassesSpread(t) == Go(t, "spread", "order") /\ UNCHANGED <<broker, late, observers>>

\* The sizer declines, or the order is refused or fails.
NoOrder(t) == Go(t, "order", "idle") /\ UNCHANGED <<broker, late, observers>>

Opens == \E k \in Tickets \ issued : held' = held \cup {k} /\ issued' = issued \cup {k}

\* The order executes, answered or not.
Order(t) == /\ Go(t, "order", "idle")
            /\ Opens
            /\ UNCHANGED <<late, observers>>

\* The client gives up after 30 s; the bridge still has the order.
OrderGivenUp(t) == /\ Go(t, "order", "idle")
                   /\ late < MaxLate /\ late' = late + 1
                   /\ UNCHANGED <<broker, observers>>

Evaluate(t) == \/ Begin(t) \/ Filtered(t) \/ PassesFilters(t) \/ HasOpenPosition(t)
               \/ SpreadBlocks(t) \/ PassesSpread(t) \/ NoOrder(t) \/ Order(t)
               \/ OrderGivenUp(t)

\* The bridge gets to an order nobody waits for: it executes, or comes to nothing.
LateOrder == /\ late > 0 /\ late' = late - 1
             /\ \/ Opens /\ raced' = raced \cup Between
                \/ UNCHANGED <<broker, raced>>
             /\ UNCHANGED <<at, unseen>>

Closes(k) == k \in held /\ held' = held \ {k} /\ UNCHANGED <<at, issued, late, observers>>

Next == (\E t \in Tasks : Evaluate(t)) \/ LateOrder \/ (\E k \in Tickets : Closes(k))

----------------------------------------------------------------------------
(***************************************************************************)
(* "Position dedup by magic number" (crest_n_keel/strategy.py:54): beside  *)
(* an open position another is opened only by an order that its task had   *)
(* given up, or by a task that was misled: another task or a late order    *)
(* came between its check and its order, or its listing was empty because  *)
(* the bridge did not report an error.  A check that fails never opens one.*)
(***************************************************************************)
DuplicateNeedsBlindness ==
  [][issued' # issued /\ held # {} =>
       \/ late' < late
       \/ \E t \in raced \cup unseen : at[t] = "order" /\ at'[t] = "idle"]_vars
============================================================================
