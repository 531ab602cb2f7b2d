----------------------------- MODULE TradeSync -----------------------------
(***************************************************************************)
(* How Trade rows reach their final state: the hourly sync task, which     *)
(* asks the bridge for the position, the historical order and the deals of *)
(* each row that is not synched, one call after the other; and the REST    *)
(* close of the trades view, which closes over the bridge and then records *)
(* the exit.  The rows are those of orders the strategies have recorded.   *)
(* A price is a small integer and the entry price is 0, so the profit of   *)
(* a deal is its volume times its price.                                   *)
(***************************************************************************)
EXTENDS Bridge, Sequences, SequencesExt

CONSTANTS Syncs,       \* sync tasks that can run at once
          Requests,    \* REST close requests that can run at once
          Pending,     \* tickets whose order is a limit or stop order
          Prices,      \* prices a position can be closed at
          Commission,  \* what the entry deal costs
          MaxFaults    \* bound: failing bridge calls of sync tasks

ASSUME SyncAssumption == /\ Pending \subseteq Tickets /\ Prices \subseteq Int
                         /\ {Commission, MaxFaults} \subseteq Nat
                         /\ None \notin Tickets \union Int

VARIABLES
  order,   \* broker: "placed", "filled" or "dead" (canceled, rejected, expired)
  deals,   \* broker: the deals of each position
  row,     \* Trade rows
  pc, todo, cur, got,     \* sync task: where it is, rows to do, its row, what it was told
  rpc, rcur, rprice,      \* REST request: where it is, its row, the price of its close
  faults,  \* bridge calls of sync tasks that failed
  unsure,  \* observer: was the sync task's position not closed when it was said to be?
  misread  \* observer: rows made final by a task that was unsure

brokerState == <<book, issued, order, deals>>
syncState == <<pc, todo, cur, got, unsure>>
restState == <<rpc, rcur, rprice>>
vars == <<brokerState, row, syncState, restState, faults, misread>>

Row == [synched : BOOLEAN, status : {"PENDING", "FILLED", "DEAD"}, pnl : Int,
        exitTime : BOOLEAN, exitPrice : Int \union {None}]

InDeal == [entry |-> "in", lots |-> 0, price |-> 0]
OutDeal(v, p) == [entry |-> "out", lots |-> v, price |-> p]

Net(d) == IF d.entry = "in" THEN 0 - Commission ELSE d.lots * d.price

\* The sum of profit, commission, swap and fee over the deals.
TotalOfLast(ds) == Net(Last(ds))

Total(ds) == FoldLeft(LAMBDA sum, d : sum + Net(d), 0, ds)

Goto(s, label) == pc' = [pc EXCEPT ![s] = label]

\* The task is done with its row and goes on to the next one.
Leave(s) == /\ Goto(s, "next") /\ cur' = [cur EXCEPT ![s] = None]
            /\ got' = [got EXCEPT ![s] = <<>>] /\ unsure' = [unsure EXCEPT ![s] = FALSE]
            /\ UNCHANGED todo

FirstCallOrder == "order"

FirstCall == "position"

Init == /\ \E filled \in [Tickets -> Lots] :
             book = [t \in Tickets |-> IF t \in Pending THEN None
                                       ELSE [lots |-> filled[t], stop |-> 0]]
        /\ issued = Tickets
        /\ order = [t \in Tickets |-> IF t \in Pending THEN "placed" ELSE "filled"]
        /\ deals = [t \in Tickets |-> IF t \in Pending THEN <<>> ELSE <<InDeal>>]
        /\ row = [t \in Tickets |-> [synched |-> FALSE, status |-> "PENDING", pnl |-> 0,
                                     exitTime |-> FALSE, exitPrice |-> None]]
        /\ pc = [s \in Syncs |-> "idle"] /\ todo = [s \in Syncs |-> {}]
        /\ cur = [s \in Syncs |-> None] /\ got = [s \in Syncs |-> <<>>]
        /\ rpc = [r \in Requests |-> "idle"] /\ rcur = [r \in Requests |-> None]
        /\ rprice = [r \in Requests |-> None]
        /\ unsure = [s \in Syncs |-> FALSE]
        /\ faults = 0 /\ misread = {}

----------------------------------------------------------------------------
\* The broker.
OrderFills(t) == /\ order[t] = "placed"
                 /\ order' = [order EXCEPT ![t] = "filled"]
                 /\ deals' = [deals EXCEPT ![t] = <<InDeal>>]
                 /\ \E v \in Lots : Added(t, v, 0)
                 /\ UNCHANGED <<row, syncState, restState, faults, misread>>

OrderDies(t) == /\ order[t] = "placed"
                /\ order' = [order EXCEPT ![t] = "dead"]
                /\ UNCHANGED <<book, issued, deals, row, syncState, restState, faults, misread>>

\* A stop, a target, the terminal, a partial close by the strategy, or a close that
\* executes after its client gave up.
Reduce(t) == /\ t \in Open
             /\ \E v \in 1..book[t].lots, p \in Prices :
                  /\ Reduced(t, v)
                  /\ deals' = [deals EXCEPT ![t] = Append(@, OutDeal(v, p))]
             /\ UNCHANGED <<issued, order, row, syncState, restState, faults, misread>>

----------------------------------------------------------------------------
\* The sync task.
UnsynchedNoExit == {t \in Tickets : ~row[t].synched /\ ~row[t].exitTime}

Unsynched == {t \in Tickets : ~row[t].synched}

\* An empty pass when nothing is unsynched.
Start(s) == /\ pc[s] = "idle"
            /\ Goto(s, "next") /\ todo' = [todo EXCEPT ![s] = Unsynched]
            /\ UNCHANGED <<brokerState, row, cur, got, unsure, restState, faults, misread>>

Take(s) == /\ pc[s] = "next"
           /\ IF todo[s] = {} THEN Goto(s, "idle") /\ UNCHANGED <<todo, cur>>
              ELSE \E t \in todo[s] : /\ Goto(s, FirstCall)
                                      /\ todo' = [todo EXCEPT ![s] = @ \ {t}]
                                      /\ cur' = [cur EXCEPT ![s] = t]
           /\ UNCHANGED <<brokerState, row, got, unsure, restState, faults, misread>>

\* The call raises, or the bridge says that there is no such order or deal:
\* the row is counted as failed, and the task goes on.
CallFails(s) == /\ pc[s] \in {"position", "order", "deals"}
                /\ faults < MaxFaults /\ faults' = faults + 1
                /\ Leave(s)
                /\ UNCHANGED <<brokerState, row, restState, misread>>

PositionOpen(s) == /\ pc[s] = "position" /\ cur[s] \in Open
                   /\ \E p \in Prices : got' = [got EXCEPT ![s] = <<OutDeal(book[cur[s]].lots, p)>>]
                   /\ Goto(s, "running")
                   /\ UNCHANGED <<brokerState, row, todo, cur, unsure, restState, faults, misread>>

\* None is "not found (closed)": so is a placed order, and, when positions_get
\* fails inside the bridge, an open position.
PositionGone(s) == /\ pc[s] = "position"
                   /\ cur[s] \notin Open \/ SilentList
                   /\ Goto(s, "order")
                   /\ unsure' = [unsure EXCEPT ![s] = cur[s] \in Open \/ order[cur[s]] = "placed"]
                   /\ UNCHANGED <<brokerState, row, todo, cur, got, restState, faults, misread>>

SaveRunning(s) == /\ pc[s] = "running"
                  /\ row' = [row EXCEPT ![cur[s]].pnl = Total(got[s])]
                  /\ Leave(s)
                  /\ UNCHANGED <<brokerState, restState, faults, misread>>

\* get_order looks in the history only: a placed order is "not found".
OrderMissing(s) == /\ pc[s] = "order" /\ order[cur[s]] = "placed"
                   /\ Leave(s)
                   /\ UNCHANGED <<brokerState, row, restState, faults, misread>>

OrderFilled(s) == /\ pc[s] = "order" /\ order[cur[s]] = "filled"
                  /\ Goto(s, "deals")
                  /\ UNCHANGED <<brokerState, row, todo, cur, got, unsure, restState, faults, misread>>

OrderDead(s) == /\ pc[s] = "order" /\ order[cur[s]] = "dead"
                /\ row' = [row EXCEPT ![cur[s]].status = "DEAD", ![cur[s]].pnl = 0,
                                      ![cur[s]].synched = TRUE]
                /\ Leave(s)
                /\ UNCHANGED <<brokerState, restState, faults, misread>>

GetDeals(s) == /\ pc[s] = "deals"
               /\ got' = [got EXCEPT ![s] = deals[cur[s]]]
               /\ Goto(s, "final")
               /\ UNCHANGED <<brokerState, row, todo, cur, unsure, restState, faults, misread>>

\* The price of the last exit deal; 0.0 (and no time) when there is none.
ExitPrice(outs) == IF outs = <<>> THEN 0 ELSE Last(outs).price

SaveFinal(s) ==
  LET outs == SelectSeq(got[s], LAMBDA d : d.entry = "out")
  IN  /\ pc[s] = "final"
      /\ row' = [row EXCEPT ![cur[s]] =
                   [synched |-> TRUE, status |-> "FILLED", pnl |-> Total(got[s]),
                    exitTime |-> outs # <<>>,
                    exitPrice |-> ExitPrice(outs)]]
      /\ misread' = IF unsure[s] THEN misread \union {cur[s]} ELSE misread \ {cur[s]}
      /\ Leave(s)
      /\ UNCHANGED <<brokerState, restState, faults>>

----------------------------------------------------------------------------
\* TradeViewSet.close.
Ask(r, t) == /\ rpc[r] = "idle" /\ ~row[t].exitTime
             /\ rpc' = [rpc EXCEPT ![r] = "send"] /\ rcur' = [rcur EXCEPT ![r] = t]
             /\ UNCHANGED <<brokerState, row, syncState, rprice, faults, misread>>

SavesAnswer(answer) == answer = "done"

Close(r, v, p, answer) ==
  LET t == rcur[r]
  IN  /\ rpc[r] = "send"
      /\ ClosePosition(t, v, answer)
      /\ deals' = IF book'[t] = book[t] THEN deals
                  ELSE LET left == IF book'[t] = None THEN 0 ELSE book'[t].lots
                       IN  [deals EXCEPT ![t] = Append(@, OutDeal(book[t].lots - left, p))]
      /\ rpc' = [rpc EXCEPT ![r] = IF SavesAnswer(answer) THEN "save" ELSE "idle"]
      /\ rprice' = [rprice EXCEPT ![r] = IF SavesAnswer(answer) THEN p ELSE None]
      /\ rcur' = [rcur EXCEPT ![r] = IF SavesAnswer(answer) THEN t ELSE None]
      /\ UNCHANGED <<order, row, syncState, faults, misread>>

SaveExit(r) == /\ rpc[r] = "save"
               /\ row' = [row EXCEPT ![rcur[r]].exitTime = TRUE, ![rcur[r]].exitPrice = rprice[r]]
               /\ rpc' = [rpc EXCEPT ![r] = "idle"]
               /\ rcur' = [rcur EXCEPT ![r] = None] /\ rprice' = [rprice EXCEPT ![r] = None]
               /\ UNCHANGED <<brokerState, syncState, faults, misread>>

SyncStep(s) == \/ Start(s) \/ Take(s) \/ CallFails(s) \/ PositionOpen(s) \/ PositionGone(s)
               \/ SaveRunning(s) \/ OrderMissing(s) \/ OrderFilled(s) \/ OrderDead(s)
               \/ GetDeals(s) \/ SaveFinal(s)

RestStep(r) == \/ \E t \in Tickets : Ask(r, t)
               \/ \E v \in Lots, p \in Prices, answer \in Answers : Close(r, v, p, answer)
               \/ SaveExit(r)

Next == \/ \E t \in Tickets : OrderFills(t) \/ OrderDies(t) \/ Reduce(t)
        \/ \E s \in Syncs : SyncStep(s)
        \/ \E r \in Requests : RestStep(r)

\* Celery beat starts a sync every hour and a worker runs it.
Spec == Init /\ [][Next]_vars /\ \A s \in Syncs : WF_vars(SyncStep(s))

----------------------------------------------------------------------------
TypeOK ==
  /\ BookTypeOK
  /\ order \in [Tickets -> {"placed", "filled", "dead"}]
  /\ row \in [Tickets -> Row]
  /\ \A t \in Tickets : row[t].status = "FILLED" => row[t].exitPrice # None
  /\ todo \in [Syncs -> SUBSET Tickets] /\ cur \in [Syncs -> Tickets \union {None}]
  /\ pc \in [Syncs -> {"idle", "next", "position", "running", "order", "deals", "final"}]
  /\ rpc \in [Requests -> {"idle", "send", "save"}]
  /\ rcur \in [Requests -> Tickets \union {None}]
  /\ rprice \in [Requests -> Prices \union {None}]
  /\ unsure \in [Syncs -> BOOLEAN]
  /\ faults \in 0..MaxFaults /\ misread \subseteq Tickets

(***************************************************************************)
(* "OPEN, Updated PnL" against "CLOSED" (quant/tasks.py:58, 161): a row is *)
(* made final while its position is open only when the sync task was told  *)
(* that it is gone although it was open, or while its order was placed.    *)
(***************************************************************************)
FinalNeedsUnsure == \A t \in Open : row[t].synched => t \in misread

(***************************************************************************)
(* The final P&L of a row is that of all its deals, entry commission and   *)
(* every partial close included, however they fall between the calls of    *)
(* the sync task (quant/tasks.py:109).                                     *)
(***************************************************************************)
FinalPnlIsTotal == \A t \in Tickets \ misread :
  row[t].synched /\ row[t].status = "FILLED"
    => row[t].pnl = MapThenSumSet(LAMBDA i : Net(deals[t][i]), DOMAIN deals[t])

Settled(t) == order[t] = "dead" \/ (order[t] = "filled" /\ t \notin Open)

(***************************************************************************)
(* "Sync unsynched trades" (quant/tasks.py:28): a row whose position has   *)
(* closed or whose order has died is made final eventually, failing calls  *)
(* and exits recorded over REST notwithstanding.                           *)
(***************************************************************************)
SettledGetsFinal == \A t \in Tickets : Settled(t) ~> row[t].synched

(***************************************************************************)
(* "or None if not found (closed)" (adapters/mt5_api.py:223): the sync     *)
(* takes a position the bridge does not find for closed, and the row it    *)
(* then makes final is never looked at again.                              *)
(***************************************************************************)
FinalMeansClosed == \A t \in Tickets : row[t].synched => t \notin Open
============================================================================
