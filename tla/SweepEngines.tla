---------------------------- MODULE SweepEngines ---------------------------
(***************************************************************************)
(* The sweep engines and the strategies they accelerate, replayed side by  *)
(* side over the same bars.                                                *)
(*                                                                         *)
(* Each strategy exists twice: as a backtesting.py Strategy, run bar by    *)
(* bar (the harness: engines/strategies/*.py), and as an event loop that   *)
(* jumps from trade to trade (the engine: post/sweeps/*_engine.py).  Both  *)
(* must produce the same trades: "If the two ever disagree, the harness is *)
(* right" (zlch_engine.py:13).                                             *)
(*                                                                         *)
(* A step is one bar.  The engine's inner loop, which scans a trade's bars *)
(* for its exit, does its work for that bar; its outer loop, which jumps   *)
(* to the next entry candidate at or after the exit, acts on the bar if it *)
(* is one.  What an indicator says of a bar is an input both sides share:  *)
(* the entry it asks for, the chandelier's direction, whether a new day    *)
(* begins.  Prices of a short position are negated, so one text serves     *)
(* both directions; sizes are hundredths of an ounce and cash is in the    *)
(* same unit.  Commission, swap and the last bar, where backtesting.py     *)
(* finalises open trades, are left out.                                    *)
(***************************************************************************)
EXTENDS Integers

CONSTANTS Prices,               \* the prices a bar is made of
          Cash,                 \* initial cash
          Spread,               \* paid on the entry fill
          Stop, Target,         \* distances from the signal bar's close
          BeTrigger, BeOffset,  \* break-even
          TrailTrigger, TrailStep, Point,
          TakePct,              \* tp1_close_pct
          MaxDayTrades,
          HaltPct,              \* drawdown that halts
          RiskPct,
          MinSize, MaxSize,     \* XAUUSD_MIN_LOT, XAUUSD_MAX_LOT
          TimeStop,             \* bars
          MaxBars, MaxDate      \* bounds: bars replayed, days they span

\* Trades risk something and a halt is not total; the rest can be any integers.
Constants == /\ Prices \subseteq Int
             /\ Cash \in Nat \ {0} /\ Stop \in Nat \ {0}
             /\ Spread \in Int /\ Target \in Int
             /\ BeTrigger \in Int /\ BeOffset \in Int
             /\ TrailTrigger \in Int /\ TrailStep \in Int /\ Point \in Int
             /\ TakePct \in Int /\ RiskPct \in Int
             /\ MaxDayTrades \in Nat \ {0} /\ HaltPct \in 0..99
             /\ MinSize \in Int /\ MaxSize \in Int /\ TimeStop \in Nat

ASSUME EngineAssumption == Constants

VARIABLES strategy,   \* whose two implementations are replayed
          bars,       \* bars replayed so far
          last,       \* the last bar's chandelier direction and its date
          harness,    \* the account of the run under backtesting.py
          engine,     \* the account of the sweep engine's simulate()
          excused     \* a case the engine does not claim to reproduce came up

vars == <<strategy, bars, last, harness, engine, excused>>

Strategies == {"asqs", "zlch", "ebb", "pullback", "momentum"}
Bracketed == {"asqs", "ebb", "pullback"}
HaltsFirst == {"zlch", "pullback", "momentum"}

Larger(x, y) == IF x >= y THEN x ELSE y
Smaller(x, y) == IF x <= y THEN x ELSE y

Flat == [dir |-> 0, entry |-> 0, stop |-> 0, target |-> 0, size |-> 0, age |-> 0]
NoOrder == [dir |-> 0, stop |-> 0, target |-> 0, size |-> 0]
Holds(a) == a.pos.dir # 0

\* A bar as a position of direction d sees it: prices rise in its favour.
Seen(b, d) == IF d = -1 THEN [o |-> -b.o, h |-> -b.l, l |-> -b.h, c |-> -b.c] ELSE b

Gain(pos, price) == (price - pos.entry) * pos.size
Leave(a, price) == [a EXCEPT !.cash = @ + Gain(a.pos, price), !.pos = Flat, !.leaving = FALSE]
Grown(a) == IF Holds(a) THEN [a EXCEPT !.pos.age = @ + 1] ELSE a

\* An order anchored at the signal bar's close; it becomes a position at the next open.
OrderAt(b, size) == LET c == Seen(b, b.ask).c
                    IN  [dir |-> b.ask, stop |-> c - Stop, target |-> c + Target, size |-> size]
Filling(o, b) == [dir |-> o.dir, entry |-> Seen(b, o.dir).o + Spread, stop |-> o.stop,
                  target |-> o.target, size |-> o.size, age |-> 0]
Opened(a, b) == IF a.order.dir = 0 THEN a
                ELSE [a EXCEPT !.pos = Filling(a.order, b), !.order = NoOrder]

\* Risk over stop distance, whole ounces once it reaches one.
Risked(equity) == (equity * RiskPct) \div (100 * Stop)
Whole(size) == IF size >= 100 THEN (size \div 100) * 100 ELSE size
Clipped(equity) == Larger(MinSize, Smaller(MaxSize, (Risked(equity) \div 100) * 100))

-----------------------------------------------------------------------------
(* The harness: backtesting.py's broker, then the strategy's next().       *)

\* Closing orders fill at the open before anything else, then entries, then a
\* stop, then a target; a price gapped through fills at the open.
BrokerOpens(a, b) == LET out == IF a.leaving /\ Holds(a) THEN Leave(a, Seen(b, a.pos.dir).o) ELSE a
                     IN  Opened(out, b)
BrokerStops(a, b) ==
  LET s == Seen(b, a.pos.dir)
  IN  IF ~Holds(a) THEN a
      ELSE IF s.l <= a.pos.stop THEN Leave(a, Smaller(s.o, a.pos.stop))
      ELSE IF strategy \in Bracketed /\ s.h >= a.pos.target THEN Leave(a, Larger(s.o, a.pos.target))
      ELSE a

Equity(a, b) == a.cash + IF Holds(a) THEN Gain(a.pos, Seen(b, a.pos.dir).c) ELSE 0
Peaked(a, b) == [a EXCEPT !.peak = Larger(@, Equity(a, b))]

\* ASQSafeScalping.next: manage the stop, mark the peak, halt, day cap, one position.
ManageBreakeven(a, b) ==
  LET to == a.pos.entry + BeOffset
  IN  IF Holds(a) /\ Seen(b, a.pos.dir).c >= a.pos.entry + BeTrigger /\ a.pos.stop < to
      THEN [a EXCEPT !.pos.stop = to] ELSE a
ManageTrailing(a, b) ==
  LET c == Seen(b, a.pos.dir).c
  IN  IF Holds(a) /\ c >= a.pos.entry + TrailTrigger /\ c - TrailStep > a.pos.stop + Point
      THEN [a EXCEPT !.pos.stop = c - TrailStep] ELSE a

\* _enter_long and _enter_short: two orders, of which the second cancels the
\* first (exclusive_orders=True); one order when a leg would be empty.
HarnessLeg(size) == LET first == Whole((size * TakePct) \div 100)
                        rest == Whole(size - (size * TakePct) \div 100)
                    IN  IF first > 0 /\ rest > 0 THEN rest ELSE size

Today(a, b) == [a EXCEPT !.date = b.date, !.count = IF a.date = b.date THEN a.count ELSE 0]
AsqsNext(before, b) ==
  LET a == Peaked(ManageTrailing(ManageBreakeven(before, b), b), b)
      eq == Equity(a, b)
      today == Today(a, b)
      size == Whole(Risked(eq))
  IN  IF (a.peak - eq) * 100 >= HaltPct * a.peak THEN a
      ELSE IF today.count >= MaxDayTrades \/ Holds(a) \/ b.ask = 0 \/ size <= 0 THEN today
      ELSE [today EXCEPT !.order = OrderAt(b, HarnessLeg(size)), !.count = @ + 1]

\* The drawdown halt of ZeroLagChandelier, HMAStoch1H and CrestNKeelMomentum
\* returns before the open position is managed.
Halted(a, b) == Equity(a, b) * 100 < a.peak * (100 - HaltPct)

ZlchManage(a, b) == [a EXCEPT !.leaving = b.dir = -a.pos.dir]
EbbManage(a) == [a EXCEPT !.leaving = a.pos.age >= TimeStop]
RaiseChandelier(a, b) == LET to == Seen(b, a.pos.dir).h - TrailStep
                         IN  IF to > a.pos.stop THEN [a EXCEPT !.pos.stop = to] ELSE a
Manage(a, b) == IF strategy = "zlch" THEN ZlchManage(a, b)
                ELSE IF strategy = "ebb" THEN EbbManage(a)
                ELSE IF strategy = "momentum" THEN RaiseChandelier(a, b) ELSE a

PlainNext(before, b) ==
  LET a == IF strategy = "ebb" THEN before ELSE Peaked(before, b)
  IN  IF strategy \in HaltsFirst /\ Halted(a, b) THEN a
      ELSE IF Holds(a) THEN Manage(a, b)
      ELSE IF b.ask = 0 THEN a
      ELSE [a EXCEPT !.order = OrderAt(b, Clipped(Equity(a, b)))]

HarnessBar(a, b) ==
  LET filled == BrokerStops(BrokerOpens(Grown(a), b), b)
  IN  IF strategy = "asqs" THEN AsqsNext(filled, b) ELSE PlainNext(filled, b)

-----------------------------------------------------------------------------
(* The engine: simulate() of the strategy's module.                        *)

\* The order of the two checks, taken the other way round.
ScanTargetFirst(a, b) ==
  LET s == Seen(b, a.pos.dir)
      target == strategy \in Bracketed /\ s.h >= a.pos.target
  IN  IF ~Holds(a) THEN a
      ELSE IF a.leaving THEN Leave(a, s.o)
      ELSE IF target THEN Leave(a, Larger(s.o, a.pos.target))
      ELSE IF s.l <= a.pos.stop THEN Leave(a, Smaller(s.o, a.pos.stop))
      ELSE a

\* The exit of the bars a trade is scanned over: an exit decided at the
\* previous bar takes the open, then the stop, which wins a tie, then the target.
ScanExit(a, b) ==
  LET s == Seen(b, a.pos.dir)
      target == strategy \in Bracketed /\ s.h >= a.pos.target
  IN  IF ~Holds(a) THEN a
      ELSE IF a.leaving THEN Leave(a, s.o)
      ELSE IF s.l <= a.pos.stop THEN Leave(a, Smaller(s.o, a.pos.stop))
      ELSE IF target THEN Leave(a, Larger(s.o, a.pos.target))
      ELSE a

\* asqs_engine: the mark-to-market peak, then break-even, then the trail; a
\* trade is counted when it is over.
AsqsScan(opened, a, b) ==
  LET p == a.pos
      c == Seen(b, p.dir).c
      even == IF c >= p.entry + BeTrigger THEN Larger(p.stop, p.entry + BeOffset) ELSE p.stop
      trail == IF c >= p.entry + TrailTrigger /\ c - TrailStep > even + Point THEN c - TrailStep ELSE even
  IN  IF Holds(a) THEN [a EXCEPT !.peak = Larger(@, a.cash + Gain(p, c)), !.pos.stop = trail]
      ELSE IF Holds(opened) THEN [a EXCEPT !.peak = Larger(@, a.cash), !.count = @ + 1]
      ELSE a

EngineLeg(size) == LET s1 == (size * TakePct) \div 100
                       s2 == size - s1
                       whole(s) == IF s >= 100 THEN (s \div 100) * 100 ELSE s
                   IN  IF whole(s1) > 0 /\ whole(s2) > 0 THEN whole(s2) ELSE size

AsqsCandidate(a, b) ==
  LET today == IF a.date # b.date THEN [a EXCEPT !.date = b.date, !.count = 0] ELSE a
      size == Whole(Risked(a.cash))
      taken == /\ today.count < MaxDayTrades
               /\ (a.peak - a.cash) * 100 < HaltPct * a.peak
               /\ size > 0
  IN  IF taken THEN [today EXCEPT !.order = OrderAt(b, EngineLeg(size))] ELSE today

\* The other engines: what the scan notes at a bar the trade survives.
ChandelierFlips(a, b) == [a EXCEPT !.leaving = b.dir = -a.pos.dir]
TimeStopFires(a) == [a EXCEPT !.leaving = a.pos.age = TimeStop]
TrailAtClose(a, b) == [a EXCEPT !.pos.stop = Larger(@, Seen(b, a.pos.dir).h - TrailStep)]
PlainScan(a, b) == IF ~Holds(a) THEN a
                   ELSE IF strategy = "zlch" THEN ChandelierFlips(a, b)
                   ELSE IF strategy = "ebb" THEN TimeStopFires(a)
                   ELSE IF strategy = "momentum" THEN TrailAtClose(a, b) ELSE a

\* Peak and halt of these engines are of realised cash, read at a candidate.
PlainCandidate(a, b) ==
  LET top == IF strategy = "ebb" THEN a ELSE [a EXCEPT !.peak = Larger(@, a.cash)]
      halted == strategy \in HaltsFirst
                /\ (a.cash * 100 < top.peak * (100 - HaltPct) \/ a.cash <= 0)
  IN  IF halted THEN top ELSE [top EXCEPT !.order = OrderAt(b, Clipped(a.cash))]

EngineBar(was, b) ==
  LET opened == Opened(Grown(was), b)
      out == ScanExit(opened, b)
      a == IF strategy = "asqs" THEN AsqsScan(opened, out, b) ELSE PlainScan(out, b)
  IN  IF Holds(a) \/ b.ask = 0 THEN a
      ELSE IF strategy = "asqs" THEN AsqsCandidate(a, b) ELSE PlainCandidate(a, b)

-----------------------------------------------------------------------------
Account == [cash |-> Cash, peak |-> Cash, pos |-> Flat, order |-> NoOrder, leaving |-> FALSE,
            date |-> 0, count |-> 0]

Init == /\ strategy \in Strategies
        /\ bars = 0 /\ last = [dir |-> 1, date |-> 0]
        /\ harness = Account /\ engine = Account
        /\ excused = FALSE

\* A bar and what the indicators say of it.  The chandelier's entry is a flip
\* of its direction, filtered by the H4 bias; only ASQS counts days.
BarsAfter ==
  {b \in [o : Prices, h : Prices, l : Prices, c : Prices, dir : {-1, 1}, ask : {-1, 0, 1},
          date : {last.date, last.date + 1}] :
     /\ b.l <= b.o /\ b.l <= b.c /\ b.o <= b.h /\ b.c <= b.h
     /\ strategy = "zlch" => b.ask = 0 \/ (b.ask = b.dir /\ b.dir # last.dir)
     /\ strategy # "zlch" => b.dir = 1
     /\ strategy = "momentum" => b.ask # -1
     /\ (strategy # "asqs" \/ last.date = MaxDate) => b.date = last.date}

\* Two cases the engine does not reproduce: a size below one ounce, which
\* backtesting.py takes for a share of the equity, and a halted harness.
Excuses(b) == \/ strategy = "asqs" /\ harness'.order.dir # 0 /\ harness'.order.size < 100
              \/ /\ strategy \in HaltsFirst
                 /\ Halted(harness', b)

Bar == /\ bars < MaxBars /\ ~excused
       /\ \E b \in BarsAfter :
            /\ harness' = HarnessBar(harness, b)
            /\ engine' = EngineBar(engine, b)
            /\ last' = [dir |-> b.dir, date |-> b.date]
            /\ excused' = Excuses(b)
       /\ bars' = bars + 1
       /\ UNCHANGED strategy

Next == Bar
Spec == Init /\ [][Next]_vars

\* After every bar both hold the same position, with the same stop, and have
\* realised the same cash; the next open fills the same order on both sides.
\* Each sweep engine's claim to reproduce its strategy, for as long as no size
\* is a fraction and the harness was not halted by its drawdown.
EnginesAgree ==
  ~excused => /\ harness.pos = engine.pos
              /\ harness.order = engine.order
              /\ harness.leaving = engine.leaving
              /\ harness.cash = engine.cash
=============================================================================
