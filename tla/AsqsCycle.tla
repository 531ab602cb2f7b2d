----------------------------- MODULE AsqsCycle ------------------------------
(***************************************************************************)
(* The ASQ SafeScalping evaluation cycle: every task first manages the     *)
(* open positions (one TP1 partial close per ticket, then breakeven, then  *)
(* the trailing stop), then decides about one new entry behind the daily   *)
(* cap and the open-position check.  Each remote call and each file write  *)
(* is a step of its own; the broker, an operator, another task of the same *)
(* strategy or a kill can come between any two.                            *)
(***************************************************************************)
EXTENDS Bridge

CONSTANTS Tasks,           \* run_asqs tasks
          Ticks,           \* profits, in points, a tick can show a position at
          StopPoints, Tp1Trigger, BeTrigger, BeOffset, TrailTrigger, TrailDistance,
          MaxDailyTrades,
          Overlap,         \* may two tasks run at once?
          Kills,           \* can a task be killed, or its tracker file not be written?
          OperatorStops,   \* stops an operator may set over REST
          LateCalls,       \* calls the bridge may execute after the client gave up
          MaxLate,         \* bound: such requests in a behaviour
          MaxFaults,       \* bound: unrecorded TP1 closes per ticket
          MaxUnrecorded    \* bound: orders without a Trade row per day

ASSUME TickAssumption == Ticks \subseteq Int /\ OperatorStops \subseteq Int
ASSUME PointsAssumption ==
  /\ {StopPoints, Tp1Trigger, BeTrigger, BeOffset, TrailTrigger, TrailDistance} \subseteq Nat
  /\ BeOffset <= TrailTrigger - TrailDistance
ASSUME BoundAssumption ==
  /\ {MaxDailyTrades, MaxLate, MaxFaults, MaxUnrecorded} \subseteq Nat
  /\ {Overlap, Kills} \subseteq BOOLEAN
  /\ LateCalls \subseteq {"send", "close", "modify"}

VARIABLES
  trackerFile,  \* tickets in the partial-close file
  pc,           \* where each task is
  marks,        \* _closed_tickets of each task's tracker
  todo,         \* listed positions the task has not managed yet
  active,       \* active_tickets of each task
  cur,          \* the listed position the task is managing
  profit,       \* profit_points of that position
  moved,        \* observer: tickets whose stop others moved since the task listed them
  rows,         \* Trade rows whose entry_time is today
  closes,       \* observer: TP1 closes that executed, per ticket
  faults,       \* observer: TP1 closes that executed and left no mark, per ticket
  opened,       \* observer: positions opened today
  unrecorded,   \* observer: those without a Trade row
  late,         \* bridge: requests of clients that gave up, still to be executed
  tardy,        \* observer: tickets opened by such a request
  gaveUp        \* observer: such requests so far

broker    == <<book, issued>>
scan      == <<todo, active, cur, profit, moved>>
closing   == <<closes, faults>>
entries   == <<rows, opened, unrecorded>>
waiting   == <<late, gaveUp, tardy>>
vars == <<broker, trackerFile, pc, marks, scan, closing, entries, waiting>>

Listed == [ticket : Tickets, lots : Nat \ {0}, stop : Int]

Goto(t, label) == pc' = [pc EXCEPT ![t] = label]

(***************************************************************************)
(* round(volume * 0.50 / 0.01) * 0.01 with Python's rounding of halves to  *)
(* even, then at least one lot step.                                       *)
(***************************************************************************)
HalfEven(v) == IF v % 4 = 3 THEN v \div 2 + 1 ELSE v \div 2

CloseLots(v) == IF HalfEven(v) = 0 THEN 1 ELSE HalfEven(v)

\* TP1 is due: triggered, not marked, and the close would leave something open.
Tp1DueUnmarked(c, p, marked) == p >= Tp1Trigger /\ CloseLots(c.lots) < c.lots

Tp1DueWhole(c, p, marked) == p >= Tp1Trigger /\ c.ticket \notin marked

Tp1Due(c, p, marked) == /\ p >= Tp1Trigger
                        /\ c.ticket \notin marked
                        /\ CloseLots(c.lots) < c.lots

\* The stop after the breakeven and after the trailing block, given the one before.
BeDueAlways(stop, p) == p >= BeTrigger

BeDue(stop, p) == p >= BeTrigger /\ BeOffset > stop

TrailDueAlways(stop, p) == p >= TrailTrigger

TrailDue(stop, p) == p >= TrailTrigger /\ p - TrailDistance > stop

\* The two bounds of the model: how many failures it looks at.
Bounded == /\ \A k \in Tickets : faults'[k] <= MaxFaults
           /\ unrecorded' <= MaxUnrecorded

\* A tracker set is saved, or the OSError of _save is logged and swallowed.
Save(tickets) == trackerFile' = tickets \/ (Kills /\ UNCHANGED trackerFile)

(***************************************************************************)
(* The client raises after 30 seconds; the request, which waits for one of *)
(* the bridge's four threads or for the terminal, is not withdrawn.  Its   *)
(* value is the volume, or the stop of a modify.                           *)
(***************************************************************************)
GivesUp(call, ticket, value, answer) ==
  /\ call \in LateCalls /\ answer = "error" /\ gaveUp < MaxLate
  /\ gaveUp' = gaveUp + 1
  /\ late' = late \union {[call |-> call, ticket |-> ticket, value |-> value]}
  /\ UNCHANGED broker

\* The calls of the task: answered, or given up and left with the bridge.
Sends(v, answer) == \/ SendOrder(v, -StopPoints, answer) /\ UNCHANGED <<late, gaveUp>>
                    \/ GivesUp("send", None, v, answer)

Closes(k, v, answer) == \/ ClosePosition(k, v, answer) /\ UNCHANGED <<late, gaveUp>>
                        \/ GivesUp("close", k, v, answer)

Modifies(k, s, answer) == \/ ModifyPosition(k, s, answer) /\ UNCHANGED <<late, gaveUp>>
                          \/ GivesUp("modify", k, s, answer)

\* Tasks that have the position listed do not see its stop move.
Unseen(tasks) ==
  LET changed == {k \in Open \intersect Open' : book'[k].stop # book[k].stop}
  IN  moved' = [u \in Tasks |-> IF u \in tasks THEN moved[u] \union (changed \intersect active[u])
                                                ELSE moved[u]]
-----------------------------------------------------------------------------
Init == /\ book = [k \in Tickets |-> None]
        /\ issued = {}
        /\ trackerFile = {}
        /\ pc = [t \in Tasks |-> "idle"]
        /\ marks = [t \in Tasks |-> {}]
        /\ todo = [t \in Tasks |-> {}]
        /\ active = [t \in Tasks |-> {}]
        /\ cur = [t \in Tasks |-> None]
        /\ profit = [t \in Tasks |-> 0]
        /\ moved = [t \in Tasks |-> {}]
        /\ closes = [k \in Tickets |-> 0]
        /\ faults = [k \in Tickets |-> 0]
        /\ rows = 0 /\ opened = 0 /\ unrecorded = 0
        /\ late = {} /\ tardy = {} /\ gaveUp = 0

\* The strategy object is built: its tracker loads the file.
Start(t) == /\ pc[t] = "idle"
            /\ Overlap \/ \A u \in Tasks : pc[u] = "idle"
            /\ Goto(t, "list")
            /\ marks' = [marks EXCEPT ![t] = trackerFile]
            /\ UNCHANGED <<broker, trackerFile, scan, closing, entries, waiting>>

\* manage_positions lists the positions; none, or an exception: nothing to manage.
List(t) == /\ pc[t] = "list"
           /\ \E listed \in Listings \union {{}} :
                IF listed = {}
                THEN Goto(t, "account") /\ UNCHANGED <<todo, active>>
                ELSE /\ Goto(t, "pick")
                     /\ todo' = [todo EXCEPT ![t] = listed]
                     /\ active' = [active EXCEPT ![t] = {c.ticket : c \in listed}]
           /\ UNCHANGED <<broker, trackerFile, marks, cur, profit, moved>>
           /\ UNCHANGED <<closing, entries, waiting>>

\* The loop over the listed positions; no tick or an exception: the next one.
Pick(t) == /\ pc[t] = "pick"
           /\ \E c \in todo[t] :
                /\ todo' = [todo EXCEPT ![t] = @ \ {c}]
                /\ \/ UNCHANGED <<pc, cur, profit>>
                   \/ /\ cur' = [cur EXCEPT ![t] = c]
                      /\ \E p \in Ticks : profit' = [profit EXCEPT ![t] = p]
                      /\ Goto(t, "tp1")
           /\ UNCHANGED <<broker, trackerFile, marks, active, moved, closing, entries, waiting>>

(***************************************************************************)
(* TP1: half the listed volume is closed.  The response is not looked at,  *)
(* so a refused close goes on to be marked; an exception does not.         *)
(***************************************************************************)
TakeProfit(t) ==
  /\ pc[t] = "tp1"
  /\ IF Tp1Due(cur[t], profit[t], marks[t])
     THEN \E answer \in Answers :
            /\ Closes(cur[t].ticket, CloseLots(cur[t].lots), answer)
            /\ Goto(t, IF answer = "error" THEN "be" ELSE "mark")
            /\ closes' = [closes EXCEPT ![cur[t].ticket] = @ + (IF book' = book THEN 0 ELSE 1)]
            /\ faults' = [faults EXCEPT ![cur[t].ticket] =
                             @ + (IF book' # book /\ answer = "error" THEN 1 ELSE 0)]
     ELSE Goto(t, "be") /\ UNCHANGED <<broker, closing, late, gaveUp>>
  /\ UNCHANGED <<trackerFile, marks, scan, entries, tardy>>
  /\ Bounded

\* mark_closed: in memory, then in the file.
Mark(t) == /\ pc[t] = "mark"
           /\ marks' = [marks EXCEPT ![t] = @ \union {cur[t].ticket}]
           /\ Save(marks'[t])
           /\ faults' = [faults EXCEPT ![cur[t].ticket] =
                            @ + (IF cur[t].ticket \in trackerFile' THEN 0 ELSE 1)]
           /\ Goto(t, "be")
           /\ UNCHANGED <<broker, scan, closes, entries, waiting>>
           /\ Bounded

\* Breakeven; current_sl follows any response, an exception leaves it.
Breakeven(t) ==
  /\ pc[t] = "be"
  /\ Goto(t, "trail")
  /\ IF BeDue(cur[t].stop, profit[t])
     THEN \E answer \in Answers :
            /\ Modifies(cur[t].ticket, BeOffset, answer)
            /\ cur' = [cur EXCEPT ![t].stop = IF answer = "error" THEN @ ELSE BeOffset]
     ELSE UNCHANGED <<broker, cur, late, gaveUp>>
  /\ Unseen(Tasks \ {t})
  /\ UNCHANGED <<trackerFile, marks, todo, active, profit, closing, entries, tardy>>

\* Trailing stop; whatever the answer, the loop goes on.
Trail(t) ==
  /\ pc[t] = "trail"
  /\ Goto(t, "pick")
  /\ IF TrailDue(cur[t].stop, profit[t])
     THEN \E answer \in Answers :
            Modifies(cur[t].ticket, profit[t] - TrailDistance, answer)
     ELSE UNCHANGED <<broker, late, gaveUp>>
  /\ Unseen(Tasks \ {t})
  /\ cur' = [cur EXCEPT ![t] = None]
  /\ profit' = [profit EXCEPT ![t] = 0]
  /\ UNCHANGED <<trackerFile, marks, todo, active, closing, entries, tardy>>

\* The marks that survive a purge, for the tickets that were listed.
KeptNone(marked, listed) == {}

Kept(marked, listed) == marked \intersect listed

\* purge_stale: marks of tickets that were not listed are dropped.
Purge(t) == /\ pc[t] = "pick" /\ todo[t] = {}
            /\ marks' = [marks EXCEPT ![t] = Kept(@, active[t])]
            /\ IF marks' = marks THEN UNCHANGED trackerFile ELSE Save(marks'[t])
            /\ active' = [active EXCEPT ![t] = {}]
            /\ moved' = [moved EXCEPT ![t] = {}]
            /\ Goto(t, "account")
            /\ UNCHANGED <<broker, todo, cur, profit, closing, entries, waiting>>
-----------------------------------------------------------------------------
\* The task is over: its strategy object and all it cached are gone.
Done(t) == /\ Goto(t, "idle")
           /\ marks' = [marks EXCEPT ![t] = {}]
           /\ todo' = [todo EXCEPT ![t] = {}]
           /\ active' = [active EXCEPT ![t] = {}]
           /\ cur' = [cur EXCEPT ![t] = None]
           /\ profit' = [profit EXCEPT ![t] = 0]
           /\ moved' = [moved EXCEPT ![t] = {}]

(***************************************************************************)
(* Account, drawdown guard, session, Friday, candles, signal, H1, spread   *)
(* and size: each may end the evaluation, none of them changes anything    *)
(* here (the guard's peak is DrawdownGuard's).                             *)
(***************************************************************************)
Declines(t) == /\ pc[t] \in {"account", "dedup", "send"}
               /\ Done(t)
               /\ UNCHANGED <<broker, trackerFile, closing, entries, waiting>>

\* _check_daily_cap counts today's Trade rows of the strategy.
UnderCapOrAt == rows <= MaxDailyTrades

UnderCap == rows < MaxDailyTrades

CapCheck(t) == /\ pc[t] = "account"
               /\ IF UnderCap
                  THEN Goto(t, "dedup") /\ UNCHANGED <<marks, scan>>
                  ELSE Done(t)
               /\ UNCHANGED <<broker, trackerFile, closing, entries, waiting>>

\* _has_open_position: an open position or an exception ends the evaluation.
BlocksNever(listed) == FALSE

Blocks(listed) == listed # {}

Dedup(t) == /\ pc[t] = "dedup"
            /\ \E listed \in Listings :
                 IF Blocks(listed)
                 THEN Done(t)
                 ELSE Goto(t, "send") /\ UNCHANGED <<marks, scan>>
            /\ UNCHANGED <<broker, trackerFile, closing, entries, waiting>>

\* _place_order: only an order answered "done" is recorded.
Send(t) ==
  /\ pc[t] = "send"
  /\ \E v \in Lots, answer \in Answers :
       /\ Sends(v, answer)
       /\ opened' = opened + (IF issued' = issued THEN 0 ELSE 1)
       /\ unrecorded' = unrecorded + (IF issued' # issued /\ answer # "done" THEN 1 ELSE 0)
       /\ IF answer = "done"
          THEN Goto(t, "record") /\ UNCHANGED <<marks, scan>>
          ELSE Done(t)
  /\ UNCHANGED <<trackerFile, closing, rows, tardy>>
  /\ Bounded

\* create_trade: one Trade row, or a database error that is logged and swallowed.
Record(t) == /\ pc[t] = "record"
             /\ \/ rows' = rows + 1 /\ UNCHANGED unrecorded
                \/ unrecorded' = unrecorded + 1 /\ UNCHANGED rows
             /\ Done(t)
             /\ UNCHANGED <<broker, trackerFile, closing, opened, waiting>>
             /\ Bounded

\* The hard time limit or a worker restart, between any two steps.
Kill(t) == /\ Kills /\ pc[t] # "idle"
           /\ faults' = IF pc[t] = "mark"
                        THEN [faults EXCEPT ![cur[t].ticket] = @ + 1] ELSE faults
           /\ unrecorded' = unrecorded + (IF pc[t] = "record" THEN 1 ELSE 0)
           /\ Done(t)
           /\ UNCHANGED <<broker, trackerFile, closes, rows, opened, waiting>>
           /\ Bounded
-----------------------------------------------------------------------------
\* Stop, target or an operator's close in the terminal.
PositionCloses == /\ \E k \in Tickets : BrokerCloses(k)
                  /\ UNCHANGED <<trackerFile, pc, marks, scan, closing, entries, waiting>>

\* An operator moves a stop over the platform's REST interface.
OperatorModifies ==
  /\ \E k \in Tickets, s \in OperatorStops : ModifyPosition(k, s, "done")
  /\ Unseen(Tasks)
  /\ UNCHANGED <<trackerFile, pc, marks, todo, active, cur, profit, closing, entries, waiting>>

(***************************************************************************)
(* The bridge gets to a request whose client gave up: it executes, is      *)
(* refused, or is lost with the bridge.  Nobody learns of its outcome.     *)
(***************************************************************************)
LateExecutes ==
  \E q \in late, answer \in Answers :
    /\ late' = late \ {q}
    /\ \/ q.call = "send" /\ SendOrder(q.value, -StopPoints, answer) /\ UNCHANGED closing
       \/ q.call = "modify" /\ ModifyPosition(q.ticket, q.value, answer) /\ UNCHANGED closing
       \/ /\ q.call = "close" /\ ClosePosition(q.ticket, q.value, answer)
          /\ LET executed == IF book' = book THEN 0 ELSE 1
             IN  /\ closes' = [closes EXCEPT ![q.ticket] = @ + executed]
                 /\ faults' = [faults EXCEPT ![q.ticket] = @ + executed]
    /\ tardy' = tardy \union (issued' \ issued)
    /\ Unseen(Tasks)
    /\ UNCHANGED <<trackerFile, pc, marks, todo, active, cur, profit, entries, gaveUp>>
    /\ Bounded

(***************************************************************************)
(* Local midnight (Africa/Nairobi, 21:00 UTC) is outside the 8-17 UTC      *)
(* session, so no task is past its session filter then.                    *)
(***************************************************************************)
NewDay == /\ opened > 0
          /\ \A t \in Tasks : pc[t] \notin {"dedup", "send", "record"}
          /\ rows' = 0 /\ opened' = 0 /\ unrecorded' = 0
          /\ UNCHANGED <<broker, trackerFile, pc, marks, scan, closing, waiting>>

Step(t) == \/ Start(t) \/ List(t) \/ Pick(t) \/ TakeProfit(t) \/ Mark(t) \/ Breakeven(t)
           \/ Trail(t) \/ Purge(t) \/ Declines(t) \/ CapCheck(t) \/ Dedup(t) \/ Send(t)
           \/ Record(t) \/ Kill(t)

Next == \/ \E t \in Tasks : Step(t)
        \/ PositionCloses \/ OperatorModifies \/ LateExecutes \/ NewDay

Spec == Init /\ [][Next]_vars
-----------------------------------------------------------------------------
TypeOK ==
  /\ BookTypeOK /\ trackerFile \subseteq Tickets
  /\ pc \in [Tasks -> {"idle", "list", "pick", "tp1", "mark", "be", "trail",
                       "account", "dedup", "send", "record"}]
  /\ marks \in [Tasks -> SUBSET Tickets] /\ active \in [Tasks -> SUBSET Tickets]
  /\ todo \in [Tasks -> SUBSET Listed] /\ cur \in [Tasks -> Listed \union {None}]
  /\ profit \in [Tasks -> Ticks \union {0}] /\ moved \in [Tasks -> SUBSET Tickets]
  /\ closes \in [Tickets -> Nat] /\ faults \in [Tickets -> 0 .. MaxFaults]
  /\ rows \in Nat /\ opened \in Nat /\ unrecorded \in 0 .. MaxUnrecorded
  /\ tardy \subseteq issued /\ gaveUp \in 0 .. MaxLate

(***************************************************************************)
(* Never two positions under the strategy's magic number, whatever replies *)
(* were lost and wherever tasks were killed, next to those of orders that  *)
(* executed after their client had given up.  (_has_open_position;         *)
(* docstring: "single position".)                                          *)
(***************************************************************************)
OnePosition == Cardinality(Open \ tardy) <= 1

(***************************************************************************)
(* A position's TP1 close executes a second time only if an earlier one    *)
(* executed and left no mark: its reply was lost, its task was killed      *)
(* before mark_closed, or the tracker file could not be written.           *)
(***************************************************************************)
Tp1RepeatNeedsFault == \A k \in Tickets : closes[k] <= 1 + faults[k]

(***************************************************************************)
(* TP1 is a partial close, even repeated: it takes a position out of the   *)
(* book only when the volume it listed is out of date, because a close of  *)
(* an earlier task executed in between.                                    *)
(***************************************************************************)
Tp1LeavesPosition ==
  [][\A t \in Tasks : (pc[t] = "tp1" /\ pc'[t] # "tp1") =>
       \A k \in Open \ Open' : k = cur[t].ticket /\ book[k].lots < cur[t].lots]_vars

(***************************************************************************)
(* "Only move SL if it improves the position" (strategy.py), as far as a   *)
(* task can see: whatever became of its own modifies, refused or executed  *)
(* without an answer, breakeven and trailing lower the stop of a position  *)
(* only when something else moved it since the task listed the position:   *)
(* an operator, another task, or a modify that executed late.              *)
(***************************************************************************)
LoosenedOnlyUnseen ==
  [][\A t \in Tasks : (pc[t] \in {"be", "trail"} /\ pc'[t] # pc[t]) =>
       \A k \in (Open \intersect Open') \ moved[t] : book'[k].stop >= book[k].stop]_vars

(***************************************************************************)
(* Tasks that overlap open at most one position each, late orders aside: a *)
(* task that finds the account empty adds one, and none is added past an   *)
(* open position.                                                          *)
(***************************************************************************)
OnePerTask == Cardinality(Open \ tardy) <= Cardinality(Tasks)

(***************************************************************************)
(* The day's positions, late orders aside, exceed the cap at most by those *)
(* that have no Trade row, because the cap counts rows.                    *)
(* (_check_daily_cap, _place_order.)                                       *)
(***************************************************************************)
CapCountsRows == opened <= MaxDailyTrades + unrecorded

(***************************************************************************)
(* While a position is open its TP1 mark is not lost from the file: a      *)
(* purge drops tickets that are closed, never one that is open.            *)
(***************************************************************************)
MarkOutlivesPosition ==
  [][\A k \in trackerFile \intersect Open : k \in trackerFile']_vars

(***************************************************************************)
(* A tracked ticket has had its TP1 close.  (_PartialCloseTracker: "Tracks *)
(* which position tickets have already received their TP1 partial close".) *)
(***************************************************************************)
MarkMeansClosed == \A k \in trackerFile : closes[k] >= 1
=============================================================================
