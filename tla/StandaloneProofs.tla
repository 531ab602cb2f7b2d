-------------------------- MODULE StandaloneProofs -------------------------
(***************************************************************************)
(* Proofs about the parts of Standalone, one section each: the sweep       *)
(* engines agree with their strategies, h1_momentum and crest_n_keel hold  *)
(* one position unless misled, lots stay within the budget, folds are      *)
(* sound, and a copied signal is ordered once per task.                    *)
(***************************************************************************)
EXTENDS Standalone, FiniteSetTheorems, WellFoundedInduction, TLAPS

-----------------------------------------------------------------------------
(* The sweep engines, for any prices, distances, sizes and limits and over a *)
(* series of any length.                                                     *)

BarType == [o : Int, h : Int, l : Int, c : Int, dir : {-1, 1}, ask : {-1, 0, 1}, date : Int]
Positions == [dir : {-1, 0, 1}, entry : Int, stop : Int, target : Int, size : Int, age : Int]
Orders == [dir : {-1, 0, 1}, stop : Int, target : Int, size : Int]
Accounts == [cash : Int, peak : Int, pos : Positions, order : Orders, leaving : BOOLEAN,
             date : Int, count : Int]

\* An order waits only while nothing is held; an exit is due only on a position.
Proper(a) == (a.order.dir # 0 => ~Holds(a)) /\ (a.leaving => Holds(a))

\* What the two sides must share, and what a fill leaves alone.
Same(h, e) == h.pos = e.pos /\ h.order = e.order /\ h.leaving = e.leaving /\ h.cash = e.cash
Books(a, r) == r.peak = a.peak /\ r.date = a.date /\ r.count = a.count

LEMMA GainType ==
  ASSUME NEW p \in Positions, NEW x \in Int
  PROVE  Gain(p, x) \in Int
  BY DEF Gain, Positions

LEMMA SeenType ==
  ASSUME NEW b \in BarType, NEW d \in {-1, 0, 1}
  PROVE  /\ Seen(b, d).o \in Int /\ Seen(b, d).h \in Int
         /\ Seen(b, d).l \in Int /\ Seen(b, d).c \in Int
  BY DEF Seen, BarType

LEMMA LargerType ==
  ASSUME NEW x \in Int, NEW y \in Int
  PROVE  Larger(x, y) \in Int /\ Smaller(x, y) \in Int
  BY DEF Larger, Smaller

\* Leaving depends on the shared fields only.
LEMMA LeaveSame ==
  ASSUME NEW a \in Accounts, NEW x \in Int
  PROVE  /\ Leave(a, x) \in Accounts /\ ~Holds(Leave(a, x)) /\ ~Leave(a, x).leaving
         /\ Leave(a, x).order = a.order /\ Books(a, Leave(a, x))
         /\ Leave(a, x).cash = a.cash + Gain(a.pos, x) /\ Leave(a, x).pos = Flat
<1>1. a.pos \in Positions /\ Gain(a.pos, x) \in Int
  BY GainType DEF Accounts
<1>2. Flat \in Positions
  BY DEF Flat, Positions
<1> DEFINE r == Leave(a, x)
<1>3. r = [a EXCEPT !.cash = a.cash + Gain(a.pos, x), !.pos = Flat, !.leaving = FALSE]
  BY DEF Leave
<1>4. a.cash + Gain(a.pos, x) \in Int
  BY <1>1 DEF Accounts
<1>5. r \in Accounts /\ r.order = a.order /\ Books(a, r) /\ r.leaving = FALSE
      /\ r.cash = a.cash + Gain(a.pos, x) /\ r.pos = Flat
  BY <1>2, <1>3, <1>4 DEF Accounts, Books
<1> QED
  BY <1>5 DEF Holds, Flat

LEMMA GrownSame ==
  ASSUME NEW a \in Accounts
  PROVE  /\ Grown(a) \in Accounts /\ Books(a, Grown(a)) /\ (Holds(Grown(a)) <=> Holds(a))
         /\ Grown(a).order = a.order /\ Grown(a).leaving = a.leaving /\ Grown(a).cash = a.cash
         /\ Grown(a).pos = (IF Holds(a) THEN [a.pos EXCEPT !.age = @ + 1] ELSE a.pos)
  BY DEF Accounts, Positions, Grown, Books, Holds

LEMMA OpenedSame ==
  ASSUME NEW a \in Accounts, NEW b \in BarType, Constants
  PROVE  /\ Opened(a, b) \in Accounts /\ Books(a, Opened(a, b))
         /\ Opened(a, b).order.dir = 0
         /\ Opened(a, b).leaving = a.leaving /\ Opened(a, b).cash = a.cash
         /\ a.order.dir = 0 => Opened(a, b) = a
         /\ a.order.dir # 0 => /\ Opened(a, b).order = NoOrder
                               /\ Opened(a, b).pos = Filling(a.order, b)
                               /\ Holds(Opened(a, b))
<1>1. a.order \in Orders /\ Seen(b, a.order.dir).o \in Int
  BY SeenType DEF Accounts, Orders, BarType
<1>2. Filling(a.order, b) \in Positions /\ Filling(a.order, b).dir = a.order.dir
  BY <1>1 DEF Orders, Positions, Filling, Constants
<1>3. NoOrder \in Orders /\ NoOrder.dir = 0
  BY DEF Orders, NoOrder
<1>4. CASE a.order.dir = 0
  BY <1>4 DEF Opened, Books
<1>5. CASE a.order.dir # 0
  BY <1>5, <1>2, <1>3 DEF Opened, Books, Accounts, Holds
<1> QED
  BY <1>4, <1>5

\* The broker and the engine's scan make the same of the account they are given.
LEMMA FillsAlike ==
  ASSUME NEW a \in Accounts, NEW b \in BarType, Constants, Proper(a)
  PROVE  BrokerStops(BrokerOpens(Grown(a), b), b) = ScanExit(Opened(Grown(a), b), b)
<1> DEFINE g == Grown(a)
<1>1. g \in Accounts /\ g.order = a.order /\ g.leaving = a.leaving /\ (Holds(g) <=> Holds(a))
  BY GrownSame
<1>2. /\ Opened(g, b) \in Accounts /\ Opened(g, b).leaving = g.leaving
      /\ g.order.dir = 0 => Opened(g, b) = g
  BY <1>1, OpenedSame
<1>3. CASE a.leaving
  <2>1. Holds(g) /\ g.order.dir = 0 /\ g.leaving
    BY <1>1, <1>3 DEF Proper
  <2> DEFINE x == Seen(b, g.pos.dir).o
  <2>2. x \in Int
    BY <1>1, SeenType DEF Accounts, Positions
  <2>3. Leave(g, x) \in Accounts /\ ~Holds(Leave(g, x)) /\ Leave(g, x).order = g.order
    BY <1>1, <2>2, LeaveSame
  <2>4. Opened(Leave(g, x), b) = Leave(g, x)
    BY <2>1, <2>3 DEF Opened
  <2>5. BrokerOpens(g, b) = Leave(g, x)
    BY <2>1, <2>4 DEF BrokerOpens
  <2>6. BrokerStops(Leave(g, x), b) = Leave(g, x)
    BY <2>3 DEF BrokerStops
  <2>7. ScanExit(g, b) = Leave(g, x)
    BY <2>1 DEF ScanExit
  <2> HIDE DEF g, x
  <2> QED
    BY <2>1, <2>5, <2>6, <2>7, <1>2 DEF g
<1>4. CASE ~a.leaving
  <2>1. BrokerOpens(g, b) = Opened(g, b)
    BY <1>1, <1>4 DEF BrokerOpens
  <2> DEFINE y == Opened(g, b)
  <2>2. ~y.leaving
    BY <1>1, <1>2, <1>4
  <2> HIDE DEF g, y
  <2>3. BrokerStops(y, b) = ScanExit(y, b)
    BY <2>2 DEF BrokerStops, ScanExit
  <2> QED
    BY <2>1, <2>3 DEF g, y
<1> QED
  BY <1>3, <1>4 DEF Accounts

\* A bar's fills: what the scan returns, of the shared fields only.
Filled(a, b) == ScanExit(Opened(Grown(a), b), b)

LEMMA ScanSame ==
  ASSUME NEW a \in Accounts, NEW b \in BarType
  PROVE  /\ ScanExit(a, b) \in Accounts /\ Books(a, ScanExit(a, b))
         /\ ScanExit(a, b).order = a.order
         /\ ScanExit(a, b) = a \/ (Holds(a) /\ ~Holds(ScanExit(a, b)) /\ ~ScanExit(a, b).leaving)
         /\ a.leaving /\ Holds(a) => ~ScanExit(a, b).leaving
<1> DEFINE s == Seen(b, a.pos.dir)
<1>1. a.pos \in Positions /\ s.o \in Int
  BY SeenType DEF Accounts, Positions
<1>2. Smaller(s.o, a.pos.stop) \in Int /\ Larger(s.o, a.pos.target) \in Int
  BY <1>1, LargerType DEF Positions
<1>3. \/ ScanExit(a, b) = a /\ ~(a.leaving /\ Holds(a))
      \/ \E x \in Int : Holds(a) /\ ScanExit(a, b) = Leave(a, x)
  BY <1>1, <1>2 DEF ScanExit
<1>4. CASE ScanExit(a, b) = a /\ ~(a.leaving /\ Holds(a))
  BY <1>4 DEF Books
<1>5. CASE \E x \in Int : Holds(a) /\ ScanExit(a, b) = Leave(a, x)
  BY <1>5, LeaveSame
<1> QED
  BY <1>3, <1>4, <1>5

LEMMA FilledSame ==
  ASSUME NEW h \in Accounts, NEW e \in Accounts, NEW b \in BarType, Constants,
         Same(h, e), Proper(h)
  PROVE  /\ Filled(h, b) \in Accounts /\ Filled(e, b) \in Accounts
         /\ Same(Filled(h, b), Filled(e, b))
         /\ Books(h, Filled(h, b)) /\ Books(e, Filled(e, b))
         /\ Filled(h, b).order.dir = 0 /\ ~Filled(h, b).leaving
         /\ Holds(Filled(h, b)) => Holds(Opened(Grown(e), b))
         /\ Holds(Opened(Grown(e), b)) <=> Holds(e) \/ e.order.dir # 0
<1> DEFINE gh == Grown(h)  ge == Grown(e)
<1>1. /\ gh \in Accounts /\ ge \in Accounts /\ Same(gh, ge) /\ Books(h, gh) /\ Books(e, ge)
      /\ Holds(ge) <=> Holds(e)
      /\ ge.order = e.order /\ ge.leaving = e.leaving /\ gh.leaving = h.leaving
  <2>1. /\ gh \in Accounts /\ Books(h, gh) /\ gh.order = h.order /\ gh.leaving = h.leaving
        /\ gh.cash = h.cash /\ gh.pos = (IF Holds(h) THEN [h.pos EXCEPT !.age = @ + 1] ELSE h.pos)
    BY GrownSame
  <2>2. /\ ge \in Accounts /\ Books(e, ge) /\ ge.order = e.order /\ ge.leaving = e.leaving
        /\ ge.cash = e.cash /\ ge.pos = (IF Holds(e) THEN [e.pos EXCEPT !.age = @ + 1] ELSE e.pos)
        /\ Holds(ge) <=> Holds(e)
    BY GrownSame
  <2> HIDE DEF gh, ge
  <2>3. h.pos = e.pos /\ h.order = e.order /\ h.leaving = e.leaving /\ h.cash = e.cash
    BY DEF Same
  <2>4. gh.pos = ge.pos
    BY <2>1, <2>2, <2>3 DEF Holds
  <2>5. Same(gh, ge)
    BY <2>1, <2>2, <2>3, <2>4 DEF Same
  <2> QED
    BY <2>1, <2>2, <2>5
<1> HIDE DEF gh, ge
<1> DEFINE oh == Opened(gh, b)  oe == Opened(ge, b)
<1>2. /\ oh \in Accounts /\ oe \in Accounts /\ Books(gh, oh) /\ Books(ge, oe)
      /\ oh.order.dir = 0 /\ oe.order.dir = 0
      /\ oh.leaving = gh.leaving /\ oe.leaving = ge.leaving
  BY <1>1, OpenedSame
<1>3. Same(oh, oe)
  <2>1. CASE gh.order.dir = 0
    BY <1>1, <2>1, OpenedSame DEF Same
  <2>2. CASE gh.order.dir # 0
    <3>1. gh.order = ge.order /\ gh.leaving = ge.leaving /\ gh.cash = ge.cash
      BY <1>1 DEF Same
    <3>2. oh.order = NoOrder /\ oe.order = NoOrder /\ oh.cash = gh.cash /\ oe.cash = ge.cash
      BY <1>1, <2>2, <3>1, OpenedSame
    <3>3. oh.pos = Filling(gh.order, b)
      BY <1>1, <2>2, OpenedSame
    <3>4. oe.pos = Filling(ge.order, b)
      BY <1>1, <2>2, <3>1, OpenedSame
    <3> QED
      BY <1>2, <3>1, <3>2, <3>3, <3>4 DEF Same
  <2> QED
    BY <2>1, <2>2
<1>4. Holds(oe) <=> Holds(e) \/ e.order.dir # 0
  BY <1>1, OpenedSame
<1> HIDE DEF oh, oe
<1> DEFINE sh == ScanExit(oh, b)  se == ScanExit(oe, b)
<1>5. /\ sh \in Accounts /\ se \in Accounts /\ Books(oh, sh) /\ Books(oe, se)
      /\ sh.order.dir = 0
      /\ sh = oh \/ (Holds(oh) /\ ~Holds(sh) /\ ~sh.leaving)
      /\ oh.leaving /\ Holds(oh) => ~sh.leaving
  BY <1>2, ScanSame
<1>6. Same(sh, se)
  <2> DEFINE s == Seen(b, oh.pos.dir)
  <2>1. /\ oh.pos \in Positions /\ s.o \in Int
    BY <1>2, SeenType DEF Accounts, Positions
  <2>2. Smaller(s.o, oh.pos.stop) \in Int /\ Larger(s.o, oh.pos.target) \in Int
    BY <2>1, LargerType DEF Positions
  <2>3. oh.pos = oe.pos /\ oh.leaving = oe.leaving
    BY <1>3 DEF Same
  <2>4. \A x \in Int : Same(Leave(oh, x), Leave(oe, x))
    <3> TAKE x \in Int
    <3>1. /\ Leave(oh, x).pos = Flat /\ Leave(oh, x).order = oh.order /\ ~Leave(oh, x).leaving
          /\ Leave(oh, x).cash = oh.cash + Gain(oh.pos, x) /\ Leave(oh, x) \in Accounts
      BY <1>2, LeaveSame
    <3>2. /\ Leave(oe, x).pos = Flat /\ Leave(oe, x).order = oe.order /\ ~Leave(oe, x).leaving
          /\ Leave(oe, x).cash = oe.cash + Gain(oe.pos, x) /\ Leave(oe, x) \in Accounts
      BY <1>2, LeaveSame
    <3>3. oh.order = oe.order /\ oh.cash = oe.cash /\ oh.pos = oe.pos
      BY <1>3 DEF Same
    <3>4. Leave(oh, x).leaving = Leave(oe, x).leaving
      BY <3>1, <3>2 DEF Accounts
    <3> QED
      BY <3>1, <3>2, <3>3, <3>4 DEF Same
  <2>5. \/ sh = oh /\ se = oe
        \/ \E x \in Int : sh = Leave(oh, x) /\ se = Leave(oe, x)
    BY <2>1, <2>2, <2>3 DEF ScanExit, Holds
  <2> QED
    BY <2>4, <2>5, <1>3
<1>7. ~sh.leaving
  <2>1. oh.leaving => Holds(oh)
    BY <1>1, <1>2, <1>3, <1>4 DEF Proper, Same, Holds
  <2> QED
    BY <1>2, <1>5, <2>1 DEF Accounts
<1> QED
  BY <1>1, <1>2, <1>3, <1>4, <1>5, <1>6, <1>7 DEF gh, ge, oh, oe, Filled, Books, Same, Holds

-----------------------------------------------------------------------------
(* The strategies other than ASQS.                                          *)

LEMMA OrderType ==
  ASSUME NEW b \in BarType, NEW n \in Int, Constants
  PROVE  OrderAt(b, n) \in Orders /\ OrderAt(b, n).dir = b.ask
<1>1. Seen(b, b.ask).c \in Int /\ b.ask \in {-1, 0, 1}
  BY SeenType DEF BarType
<1> QED
  BY <1>1 DEF OrderAt, Orders, Constants

LEMMA SizeType ==
  ASSUME NEW x \in Int, Constants
  PROVE  Risked(x) \in Int /\ Whole(Risked(x)) \in Int /\ Clipped(x) \in Int
<1>1. 100 * Stop \in Nat \ {0} /\ x * RiskPct \in Int
  BY DEF Constants
<1>2. Risked(x) \in Int
  BY <1>1 DEF Risked
<1>3. (Risked(x) \div 100) * 100 \in Int
  BY <1>2
<1>4. Whole(Risked(x)) \in Int
  BY <1>2, <1>3 DEF Whole
<1>5. Clipped(x) \in Int
  BY <1>3 DEF Clipped, Larger, Smaller, Constants
<1> QED
  BY <1>2, <1>4, <1>5

LEMMA EquityType ==
  ASSUME NEW a \in Accounts, NEW b \in BarType
  PROVE  /\ Equity(a, b) \in Int
         /\ ~Holds(a) => Equity(a, b) = a.cash
         /\ Holds(a) => Equity(a, b) = a.cash + Gain(a.pos, Seen(b, a.pos.dir).c)
<1>1. a.pos \in Positions /\ Seen(b, a.pos.dir).c \in Int /\ a.cash \in Int
  BY SeenType DEF Accounts, Positions
<1>2. Gain(a.pos, Seen(b, a.pos.dir).c) \in Int
  BY <1>1, GainType
<1> QED
  BY <1>1, <1>2 DEF Equity

\* Marking the peak changes nothing else.
LEMMA PeakedSame ==
  ASSUME NEW a \in Accounts, NEW b \in BarType
  PROVE  /\ Peaked(a, b) \in Accounts /\ Same(a, Peaked(a, b))
         /\ Peaked(a, b).peak = Larger(a.peak, Equity(a, b))
         /\ Peaked(a, b).date = a.date /\ Peaked(a, b).count = a.count
<1>1. Larger(a.peak, Equity(a, b)) \in Int
  BY EquityType, LargerType DEF Accounts
<1> QED
  BY <1>1 DEF Peaked, Accounts, Same

LEMMA SameEquity ==
  ASSUME NEW h \in Accounts, NEW e \in Accounts, NEW b \in BarType, Same(h, e)
  PROVE  Equity(h, b) = Equity(e, b) /\ (Holds(h) <=> Holds(e))
  BY DEF Equity, Same, Holds

\* Changing the stop or the exit due changes no equity.
LEMMA Kept ==
  ASSUME NEW p \in Positions
  PROVE  [p EXCEPT !.stop = p.stop] = p
  BY DEF Positions

\* The position's management and the engine's scan agree on what they share.
LEMMA ManagedAlike ==
  ASSUME NEW h \in Accounts, NEW e \in Accounts, NEW b \in BarType, Constants, Same(h, e),
         strategy \in Strategies \ {"asqs"}, Holds(h), ~h.leaving,
         strategy = "ebb" => h.pos.age <= TimeStop
  PROVE  /\ Manage(h, b) \in Accounts /\ PlainScan(e, b) \in Accounts
         /\ Same(Manage(h, b), PlainScan(e, b))
         /\ Books(h, Manage(h, b)) /\ Books(e, PlainScan(e, b))
         /\ Holds(Manage(h, b)) /\ Manage(h, b).order = h.order
         /\ Equity(Manage(h, b), b) = Equity(h, b)
         /\ strategy = "ebb" /\ ~Manage(h, b).leaving => Manage(h, b).pos.age < TimeStop
<1>1. Holds(e) /\ h.pos = e.pos /\ h.pos \in Positions /\ ~e.leaving
  BY DEF Same, Holds, Accounts
<1>2. CASE strategy = "zlch"
  BY <1>1, <1>2 DEF Manage, PlainScan, ZlchManage, ChandelierFlips, Same, Books, Holds, Accounts, Equity
<1>3. CASE strategy = "ebb"
  <2>1. (h.pos.age >= TimeStop) = (e.pos.age = TimeStop)
    BY <1>1, <1>3 DEF Positions, Constants
  <2>2. h.pos.age < TimeStop \/ h.pos.age >= TimeStop
    BY <1>1 DEF Positions, Constants
  <2> QED
    BY <1>1, <1>3, <2>1, <2>2 DEF Manage, PlainScan, EbbManage, TimeStopFires, Same, Books, Holds,
       Accounts, Equity
<1>4. CASE strategy = "momentum"
  <2> DEFINE to == Seen(b, h.pos.dir).h - TrailStep
             p == [h.pos EXCEPT !.stop = Larger(h.pos.stop, to)]
  <2>1. to \in Int /\ h.pos.stop \in Int
    BY <1>1, SeenType DEF Positions, Constants
  <2>2. p \in Positions /\ p.dir = h.pos.dir /\ p.entry = h.pos.entry /\ p.size = h.pos.size
    BY <1>1, <2>1, LargerType DEF Positions
  <2>3. PlainScan(e, b) = [e EXCEPT !.pos = p]
    BY <1>1, <1>4 DEF PlainScan, TrailAtClose
  <2>4. Manage(h, b) = [h EXCEPT !.pos = p]
    <3>1. CASE to > h.pos.stop
      BY <2>1, <3>1, <1>4 DEF Manage, RaiseChandelier, Larger
    <3>2. CASE ~(to > h.pos.stop)
      <4>1. Larger(h.pos.stop, to) = h.pos.stop
        BY <2>1, <3>2 DEF Larger
      <4>2. p = h.pos
        BY <4>1, <1>1, Kept
      <4>3. [h EXCEPT !.pos = h.pos] = h
        BY DEF Accounts
      <4> QED
        BY <3>2, <4>2, <4>3, <1>4 DEF Manage, RaiseChandelier
    <3> QED
      BY <3>1, <3>2
  <2> HIDE DEF p
  <2>5. Gain(p, Seen(b, p.dir).c) = Gain(h.pos, Seen(b, h.pos.dir).c)
    BY <2>2 DEF Gain
  <2> QED
    BY <1>1, <1>4, <2>2, <2>3, <2>4, <2>5 DEF Same, Books, Holds, Accounts, Equity
<1>5. CASE strategy = "pullback"
  BY <1>1, <1>5 DEF Manage, PlainScan, Books, Strategies
<1> QED
  BY <1>2, <1>3, <1>4, <1>5 DEF Strategies

\* No position outlives its time stop by a bar.
LEMMA FilledAge ==
  ASSUME NEW a \in Accounts, NEW b \in BarType, Constants, Proper(a),
         Holds(a) /\ ~a.leaving => a.pos.age < TimeStop, Holds(Filled(a, b))
  PROVE  Filled(a, b).pos.age <= TimeStop
<1> DEFINE g == Grown(a)  o == Opened(g, b)
<1>1. /\ g \in Accounts /\ g.order = a.order /\ g.leaving = a.leaving /\ (Holds(g) <=> Holds(a))
      /\ g.pos = (IF Holds(a) THEN [a.pos EXCEPT !.age = @ + 1] ELSE a.pos)
  BY GrownSame
<1>2. /\ o \in Accounts /\ o.leaving = g.leaving
      /\ g.order.dir = 0 => o = g
      /\ g.order.dir # 0 => o.pos = Filling(g.order, b) /\ Holds(o)
  BY <1>1, OpenedSame
<1>3. /\ Filled(a, b) = o /\ Holds(o) /\ ~o.leaving
  BY <1>2, ScanSame DEF Filled
<1>4. CASE g.order.dir = 0
  <2>1. Holds(a) /\ ~a.leaving /\ g.pos = [a.pos EXCEPT !.age = @ + 1]
    BY <1>1, <1>2, <1>3, <1>4
  <2>2. g.pos.age = a.pos.age + 1 /\ a.pos.age \in Int
    BY <2>1 DEF Accounts, Positions
  <2>3. Filled(a, b).pos.age = a.pos.age + 1
    BY <1>2, <1>3, <1>4, <2>2
  <2>4. a.pos.age < TimeStop /\ TimeStop \in Int
    BY <2>1 DEF Constants
  <2> HIDE DEF g, o
  <2> QED
    BY <2>2, <2>3, <2>4
<1>5. CASE g.order.dir # 0
  <2>1. o.pos.age = 0
    BY <1>2, <1>5 DEF Filling
  <2> QED
    BY <1>3, <2>1 DEF Constants
<1> QED
  BY <1>4, <1>5

LEMMA Monotone ==
  ASSUME NEW x \in Int, NEW y \in Int, NEW k \in Nat, x <= y
  PROVE  x * k <= y * k
  OBVIOUS

LEMMA MonotonePositive ==
  ASSUME NEW x \in Int, NEW k \in Nat \ {0}, x > 0
  PROVE  x * k > 0
  OBVIOUS

\* What the strategies without a day cap keep between bars.
PlainInv(h, e) ==
  /\ strategy \in HaltsFirst => e.peak <= h.peak /\ h.peak > 0
  /\ strategy = "ebb" /\ Holds(h) /\ ~h.leaving => h.pos.age < TimeStop

LEMMA PlainBar ==
  ASSUME NEW h \in Accounts, NEW e \in Accounts, NEW b \in BarType, Constants,
         Same(h, e), Proper(h), strategy \in Strategies \ {"asqs"}, PlainInv(h, e),
         strategy \in HaltsFirst => ~Halted(HarnessBar(h, b), b)
  PROVE  /\ HarnessBar(h, b) \in Accounts /\ EngineBar(e, b) \in Accounts
         /\ Same(HarnessBar(h, b), EngineBar(e, b)) /\ Proper(HarnessBar(h, b))
         /\ PlainInv(HarnessBar(h, b), EngineBar(e, b))
<1> DEFINE fh == Filled(h, b)  fe == Filled(e, b)
<1>1. /\ fh \in Accounts /\ fe \in Accounts /\ Same(fh, fe) /\ Books(h, fh) /\ Books(e, fe)
      /\ fh.order.dir = 0 /\ ~fh.leaving
  BY FilledSame
<1>2. strategy = "ebb" /\ Holds(fh) => fh.pos.age <= TimeStop
  BY FilledAge DEF PlainInv
<1>3. HarnessBar(h, b) = PlainNext(fh, b)
  BY FillsAlike DEF HarnessBar, Filled
<1>4. EngineBar(e, b) = IF Holds(PlainScan(fe, b)) \/ b.ask = 0 THEN PlainScan(fe, b)
                        ELSE PlainCandidate(PlainScan(fe, b), b)
  BY DEF EngineBar, Filled
<1> HIDE DEF fh, fe
<1> DEFINE a == IF strategy = "ebb" THEN fh ELSE Peaked(fh, b)
<1>5. /\ a \in Accounts /\ Same(fh, a) /\ (Holds(a) <=> Holds(fh)) /\ Equity(a, b) = Equity(fh, b)
      /\ strategy \in HaltsFirst => a.peak = Larger(h.peak, Equity(a, b))
  <2>1. CASE strategy = "ebb"
    BY <1>1, <2>1 DEF Same, HaltsFirst
  <2>2. CASE strategy # "ebb"
    BY <1>1, <2>2, PeakedSame, SameEquity DEF Books
  <2> QED
    BY <2>1, <2>2
<1>6. HarnessBar(h, b) = IF strategy \in HaltsFirst /\ Halted(a, b) THEN a
                         ELSE IF Holds(a) THEN Manage(a, b)
                         ELSE IF b.ask = 0 THEN a
                         ELSE [a EXCEPT !.order = OrderAt(b, Clipped(Equity(a, b)))]
  BY <1>3 DEF PlainNext
<1> HIDE DEF a
<1>7. ~(strategy \in HaltsFirst /\ Halted(a, b))
  BY <1>6
<1>8. Same(a, fe) /\ ~a.leaving /\ a.order.dir = 0
  BY <1>1, <1>5 DEF Same
<1>9. strategy \in HaltsFirst => e.peak <= a.peak /\ a.peak > 0
  BY <1>1, <1>5, EquityType DEF PlainInv, Larger, Accounts
<1>10. CASE Holds(a)
  <2>1. strategy = "ebb" => a.pos.age <= TimeStop
    BY <1>2, <1>5, <1>10 DEF Same
  <2> DEFINE m == Manage(a, b)  q == PlainScan(fe, b)
  <2>2. /\ m \in Accounts /\ q \in Accounts /\ Same(m, q) /\ Books(a, m) /\ Books(fe, q)
        /\ Holds(m) /\ m.order = a.order
        /\ strategy = "ebb" /\ ~m.leaving => m.pos.age < TimeStop
    BY <1>1, <1>5, <1>8, <1>10, <2>1, ManagedAlike
  <2>3. HarnessBar(h, b) = m
    BY <1>6, <1>7, <1>10
  <2>4. EngineBar(e, b) = q
    BY <1>4, <2>2 DEF Same, Holds
  <2> HIDE DEF m, q
  <2> QED
    BY <2>2, <2>3, <2>4, <1>1, <1>8, <1>9 DEF Proper, PlainInv, Books
<1>11. CASE ~Holds(a)
  <2>1. ~Holds(fe) /\ PlainScan(fe, b) = fe
    BY <1>8, <1>11 DEF Same, Holds, PlainScan
  <2>2. Equity(a, b) = fe.cash /\ fe.cash \in Int /\ fe.peak = e.peak /\ a.peak \in Int /\ e.peak \in Int
    BY <1>1, <1>5, <1>8, <1>11, EquityType DEF Same, Books, Accounts
  <2>3. CASE b.ask = 0
    <3>1. HarnessBar(h, b) = a /\ EngineBar(e, b) = fe
      BY <1>4, <1>6, <1>7, <1>11, <2>1, <2>3
    <3> QED
      BY <3>1, <1>1, <1>5, <1>8, <1>9, <1>11, <2>2 DEF Proper, PlainInv
  <2>4. CASE b.ask # 0
    <3> DEFINE top == IF strategy = "ebb" THEN fe ELSE [fe EXCEPT !.peak = Larger(fe.peak, fe.cash)]
               order == OrderAt(b, Clipped(fe.cash))
               halted == strategy \in HaltsFirst
                         /\ (fe.cash * 100 < top.peak * (100 - HaltPct) \/ fe.cash <= 0)
    <3>1. /\ top \in Accounts /\ Same(fe, top)
          /\ strategy \in HaltsFirst => top.peak = Larger(e.peak, fe.cash)
      BY <1>1, <2>2, LargerType DEF Accounts, Same, HaltsFirst
    <3>2. order \in Orders /\ order.dir = b.ask
      BY <2>2, OrderType, SizeType
    <3>3. HarnessBar(h, b) = [a EXCEPT !.order = order]
      BY <1>6, <1>7, <1>11, <2>2, <2>4
    <3>4. EngineBar(e, b) = IF halted THEN top ELSE [top EXCEPT !.order = order]
      BY <1>4, <2>1, <2>4 DEF PlainCandidate
    <3> HIDE DEF order, top
    <3>5. strategy \in HaltsFirst => top.peak <= a.peak
      <4>1. SUFFICES ASSUME strategy \in HaltsFirst PROVE top.peak <= a.peak
        OBVIOUS
      <4>2. a.peak = Larger(h.peak, fe.cash) /\ top.peak = Larger(e.peak, fe.cash)
        BY <1>5, <2>2, <3>1, <4>1
      <4>3. h.peak \in Int /\ e.peak <= h.peak
        BY <4>1 DEF Accounts, PlainInv
      <4> QED
        BY <2>2, <4>2, <4>3 DEF Larger
    <3>6. ~halted
      <4>1. SUFFICES ASSUME strategy \in HaltsFirst
                     PROVE  ~(fe.cash * 100 < top.peak * (100 - HaltPct)) /\ ~(fe.cash <= 0)
        OBVIOUS
      <4>2. ~(fe.cash * 100 < a.peak * (100 - HaltPct))
        BY <1>7, <2>2, <4>1 DEF Halted
      <4>3. 100 - HaltPct \in Nat \ {0} /\ top.peak \in Int
        BY <3>1 DEF Constants, Accounts
      <4>4. top.peak * (100 - HaltPct) <= a.peak * (100 - HaltPct)
        BY <3>5, <4>1, <4>3, <2>2, Monotone
      <4>5. a.peak * (100 - HaltPct) > 0
        BY <1>9, <4>1, <4>3, <2>2, MonotonePositive
      <4>6. a.peak * (100 - HaltPct) \in Int /\ top.peak * (100 - HaltPct) \in Int
        BY <4>3, <2>2
      <4> DEFINE x == a.peak * (100 - HaltPct)  y == top.peak * (100 - HaltPct)
      <4>7. x \in Int /\ y \in Int /\ y <= x /\ x > 0 /\ ~(fe.cash * 100 < x)
        BY <4>2, <4>4, <4>5, <4>6
      <4> HIDE DEF x, y
      <4>8. ~(fe.cash * 100 < y) /\ ~(fe.cash <= 0)
        BY <4>7, <2>2
      <4> QED
        BY <4>8 DEF y
    <3>7. EngineBar(e, b) = [top EXCEPT !.order = order]
      BY <3>4, <3>6
    <3> HIDE DEF halted
    <3>8. /\ HarnessBar(h, b) \in Accounts /\ EngineBar(e, b) \in Accounts
          /\ Same(HarnessBar(h, b), EngineBar(e, b))
          /\ ~Holds(HarnessBar(h, b)) /\ ~HarnessBar(h, b).leaving
          /\ HarnessBar(h, b).peak = a.peak /\ EngineBar(e, b).peak = top.peak
      BY <1>5, <1>8, <1>11, <3>1, <3>2, <3>3, <3>7 DEF Accounts, Same, Holds
    <3> QED
      BY <3>5, <3>8, <1>9 DEF Proper, PlainInv
  <2> QED
    BY <2>3, <2>4
<1> QED
  BY <1>10, <1>11

-----------------------------------------------------------------------------
(* ASQS.                                                                    *)

Busy(a) == Holds(a) \/ a.order.dir # 0

\* The entries counted for a date.
Counted(a, date) == IF a.date = date THEN a.count ELSE 0

\* What ASQS keeps between bars: the engine counts a trade when it is over, the
\* strategy when it is ordered, and the strategy's day may lag after a halt.
AsqsInv(h, e, date) ==
  /\ h.peak = e.peak /\ ~h.leaving
  /\ ~Busy(e) => e.cash <= e.peak
  /\ h.date <= date /\ e.date <= date
  /\ Counted(h, date) = Counted(e, date) + (IF Busy(e) /\ e.date = date THEN 1 ELSE 0)

LEMMA LaterDate ==
  ASSUME NEW h \in Accounts, NEW e \in Accounts, NEW d \in Int, NEW later \in Int, d <= later,
         AsqsInv(h, e, d)
  PROVE  AsqsInv(h, e, later)
<1>1. CASE later = d
  BY <1>1
<1>2. CASE later > d
  <2>1. h.date < later /\ e.date < later /\ h.date \in Int /\ e.date \in Int
    BY <1>2 DEF AsqsInv, Accounts
  <2>2. h.date # later /\ e.date # later
    BY <2>1
  <2> QED
    BY <2>1, <2>2 DEF AsqsInv, Counted
<1> QED
  BY <1>1, <1>2

\* Break-even and trailing, one after the other, set the stop the engine computes.
Trail(p, c) ==
  LET even == IF c >= p.entry + BeTrigger THEN Larger(p.stop, p.entry + BeOffset) ELSE p.stop
  IN  IF c >= p.entry + TrailTrigger /\ c - TrailStep > even + Point THEN c - TrailStep ELSE even

LEMMA StopsAlike ==
  ASSUME NEW a \in Accounts, NEW b \in BarType, Constants, Holds(a)
  PROVE  /\ ManageTrailing(ManageBreakeven(a, b), b) = [a EXCEPT !.pos.stop = Trail(a.pos, Seen(b, a.pos.dir).c)]
         /\ Trail(a.pos, Seen(b, a.pos.dir).c) \in Int
<1> DEFINE c == Seen(b, a.pos.dir).c
           to == a.pos.entry + BeOffset
           even == IF c >= a.pos.entry + BeTrigger THEN Larger(a.pos.stop, to) ELSE a.pos.stop
           m == [a EXCEPT !.pos.stop = even]
<1>1. /\ a.pos \in Positions /\ c \in Int /\ a.pos.entry \in Int /\ a.pos.stop \in Int
      /\ to \in Int /\ BeTrigger \in Int /\ TrailTrigger \in Int /\ TrailStep \in Int /\ Point \in Int
  BY SeenType DEF Accounts, Positions, Constants
<1>2. even \in Int
  BY <1>1, LargerType
<1>3. [a EXCEPT !.pos.stop = a.pos.stop] = a
  <2>1. [a EXCEPT !.pos = a.pos] = a
    BY DEF Accounts
  <2> QED
    BY <1>1, <2>1, Kept
<1>4. ManageBreakeven(a, b) = m
  <2>1. CASE c >= a.pos.entry + BeTrigger /\ a.pos.stop < to
    <3>1. even = to
      BY <1>1, <2>1 DEF Larger
    <3> QED
      BY <2>1, <3>1 DEF ManageBreakeven
  <2>2. CASE ~(c >= a.pos.entry + BeTrigger /\ a.pos.stop < to)
    <3>1. even = a.pos.stop
      BY <1>1, <2>2 DEF Larger
    <3> QED
      BY <1>3, <2>2, <3>1 DEF ManageBreakeven
  <2> QED
    BY <2>1, <2>2
<1>5. /\ m.pos = [a.pos EXCEPT !.stop = even] /\ m.pos.stop = even
      /\ m.pos.dir = a.pos.dir /\ m.pos.entry = a.pos.entry
      /\ \A x : [m EXCEPT !.pos.stop = x] = [a EXCEPT !.pos.stop = x]
  BY <1>1 DEF Accounts, Positions
<1> HIDE DEF m, even
<1>6. Holds(m) /\ Seen(b, m.pos.dir).c = c
  BY <1>5 DEF Holds
<1>7. Trail(a.pos, c) = IF c >= a.pos.entry + TrailTrigger /\ c - TrailStep > even + Point
                        THEN c - TrailStep ELSE even
  BY DEF Trail, even
<1>8. ManageTrailing(m, b) = IF c >= a.pos.entry + TrailTrigger /\ c - TrailStep > even + Point
                             THEN [a EXCEPT !.pos.stop = c - TrailStep] ELSE m
  BY <1>5, <1>6 DEF ManageTrailing
<1>9. m = [a EXCEPT !.pos.stop = even]
  BY DEF m
<1> QED
  BY <1>1, <1>2, <1>4, <1>7, <1>8, <1>9

\* A day taken up at a bar counts what it counted.
LEMMA TodayCounts ==
  ASSUME NEW a \in Accounts, NEW b \in BarType
  PROVE  /\ Today(a, b) \in Accounts /\ Same(a, Today(a, b)) /\ Today(a, b).peak = a.peak
         /\ Today(a, b).date = b.date /\ Today(a, b).count = Counted(a, b.date)
         /\ Counted(Today(a, b), b.date) = Counted(a, b.date)
<1> DEFINE n == Counted(a, b.date)
<1>1. n \in Int /\ b.date \in Int
  BY DEF Accounts, Counted, BarType
<1>2. Today(a, b) = [a EXCEPT !.date = b.date, !.count = n]
  BY DEF Today, Counted
<1> HIDE DEF n
<1> DEFINE t == [a EXCEPT !.date = b.date, !.count = n]
<1>3. /\ t \in Accounts /\ t.peak = a.peak /\ t.date = b.date /\ t.count = n
      /\ t.pos = a.pos /\ t.order = a.order /\ t.leaving = a.leaving /\ t.cash = a.cash
  BY <1>1 DEF Accounts
<1> HIDE DEF t
<1>4. Counted(t, b.date) = n
  BY <1>3 DEF Counted
<1> QED
  BY <1>2, <1>3, <1>4 DEF Same, n, t

LEMMA DayCounts ==
  ASSUME NEW e \in Accounts, NEW b \in BarType,
         NEW day, day = IF e.date # b.date THEN [e EXCEPT !.date = b.date, !.count = 0] ELSE e
  PROVE  day = Today(e, b)
<1>1. CASE e.date # b.date
  BY <1>1 DEF Today
<1>2. CASE e.date = b.date
  <2>1. [e EXCEPT !.date = e.date, !.count = e.count] = e
    BY DEF Accounts
  <2> QED
    BY <1>2, <2>1 DEF Today
<1> QED
  BY <1>1, <1>2

LEMMA LegsAlike ==
  ASSUME NEW n \in Int, Constants
  PROVE  HarnessLeg(n) = EngineLeg(n) /\ HarnessLeg(n) \in Int
<1>1. (n * TakePct) \div 100 \in Int
  <2>1. n * TakePct \in Int
    BY DEF Constants
  <2> QED
    BY <2>1
<1> DEFINE s == (n * TakePct) \div 100
<1>2. s \in Int /\ n - s \in Int
  BY <1>1
<1> HIDE DEF s
<1>3. Whole(n - s) \in Int
  BY <1>2 DEF Whole
<1> QED
  BY <1>3 DEF HarnessLeg, EngineLeg, Whole, s

\* While the position is held: same stop, same peak, and only the day may move.
LEMMA AsqsHeldBar ==
  ASSUME NEW h \in Accounts, NEW e \in Accounts, NEW b \in BarType, Constants,
         Same(h, e), h.peak = e.peak, Holds(h), h.order.dir = 0, ~h.leaving,
         NEW opened
  PROVE  LET next == AsqsNext(h, b)  scan == AsqsScan(opened, e, b)
         IN  /\ next \in Accounts /\ scan \in Accounts /\ Same(next, scan) /\ next.peak = scan.peak
             /\ Holds(next) /\ Holds(scan) /\ next.order.dir = 0 /\ ~next.leaving
             /\ scan.date = e.date /\ scan.count = e.count
             /\ next.date \in {h.date, b.date} /\ Counted(next, b.date) = Counted(h, b.date)
<1> DEFINE c == Seen(b, h.pos.dir).c
           t == Trail(h.pos, c)
           p == [h.pos EXCEPT !.stop = t]
           m == [h EXCEPT !.pos = p]
           scan == AsqsScan(opened, e, b)
<1>1. t \in Int /\ ManageTrailing(ManageBreakeven(h, b), b) = m
  BY StopsAlike
<1>2. /\ h.pos \in Positions /\ c \in Int /\ e.pos = h.pos /\ e.cash = h.cash
      /\ e.order = h.order /\ e.leaving = h.leaving
  BY SeenType DEF Accounts, Positions, Same
<1>3. Gain(h.pos, c) \in Int /\ h.cash + Gain(h.pos, c) \in Int
  BY <1>2, GainType DEF Accounts
<1>4. p \in Positions /\ p.dir = h.pos.dir /\ p.entry = h.pos.entry /\ p.size = h.pos.size
  BY <1>1, <1>2 DEF Positions
<1>5. scan = [e EXCEPT !.peak = Larger(e.peak, h.cash + Gain(h.pos, c)), !.pos = p]
  BY <1>2 DEF AsqsScan, Trail, Holds
<1> HIDE DEF p, t
<1>6. m \in Accounts /\ Holds(m) /\ m.cash = h.cash /\ m.pos = p /\ m.peak = h.peak
      /\ m.order = h.order /\ m.leaving = h.leaving /\ m.date = h.date /\ m.count = h.count
  BY <1>4 DEF Accounts, Holds
<1> HIDE DEF m
<1> DEFINE a == Peaked(m, b)
<1>7. Equity(m, b) = h.cash + Gain(h.pos, c)
  BY <1>4, <1>6, EquityType DEF Gain
<1>8. /\ a \in Accounts /\ Same(m, a) /\ a.peak = Larger(h.peak, h.cash + Gain(h.pos, c))
      /\ a.date = h.date /\ a.count = h.count
  BY <1>6, <1>7, PeakedSame
<1>9. Holds(a) /\ Counted(a, b.date) = Counted(h, b.date)
  BY <1>6, <1>8 DEF Same, Holds, Counted
<1>10. /\ scan \in Accounts /\ scan.peak = a.peak /\ scan.pos = p /\ scan.cash = h.cash
       /\ scan.order = h.order /\ scan.leaving = h.leaving
       /\ scan.date = e.date /\ scan.count = e.count
  BY <1>2, <1>3, <1>4, <1>5, <1>8, LargerType DEF Accounts
<1>11. Same(a, scan)
  BY <1>6, <1>8, <1>10 DEF Same
<1> HIDE DEF a, scan
<1> DEFINE today == Today(a, b)
<1>12. AsqsNext(h, b) = a \/ AsqsNext(h, b) = today
  BY <1>1, <1>9 DEF AsqsNext, a, Holds
<1>13. /\ today \in Accounts /\ Same(a, today) /\ today.peak = a.peak /\ today.date = b.date
       /\ Counted(today, b.date) = Counted(a, b.date)
  BY <1>8, TodayCounts
<1> HIDE DEF today
<1>14. CASE AsqsNext(h, b) = a
  BY <1>14, <1>6, <1>8, <1>9, <1>10, <1>11 DEF Same, Holds, scan
<1>15. CASE AsqsNext(h, b) = today
  BY <1>15, <1>6, <1>8, <1>9, <1>10, <1>11, <1>13 DEF Same, Holds, scan
<1> QED
  BY <1>12, <1>14, <1>15

\* Flat: both take the entry or both refuse it.
LEMMA AsqsFlatBar ==
  ASSUME NEW h \in Accounts, NEW e \in Accounts, NEW b \in BarType, Constants,
         Same(h, e), e.peak = Larger(h.peak, h.cash), ~Holds(h), h.order.dir = 0, ~h.leaving,
         h.date <= b.date, e.date <= b.date, Counted(h, b.date) = Counted(e, b.date)
  PROVE  LET next == AsqsNext(h, b)
             last2 == IF b.ask = 0 THEN e ELSE AsqsCandidate(e, b)
         IN  /\ next \in Accounts /\ last2 \in Accounts /\ Same(next, last2) /\ ~Holds(next)
             /\ AsqsInv(next, last2, b.date)
<1> DEFINE a == Peaked(h, b)
           n == Whole(Risked(h.cash))
<1>1. ManageTrailing(ManageBreakeven(h, b), b) = h
  BY DEF ManageTrailing, ManageBreakeven
<1>2. /\ a \in Accounts /\ Same(h, a) /\ a.peak = e.peak /\ a.date = h.date /\ a.count = h.count
      /\ Equity(h, b) = h.cash
  BY PeakedSame, EquityType
<1>3. ~Holds(a) /\ Equity(a, b) = h.cash /\ e.cash = h.cash /\ h.cash \in Int /\ b.date \in Int
  BY <1>2, SameEquity DEF Same, Holds, Accounts, BarType
<1>4. n \in Int /\ HarnessLeg(n) = EngineLeg(n) /\ HarnessLeg(n) \in Int
  BY <1>3, SizeType, LegsAlike
<1> DEFINE order == OrderAt(b, HarnessLeg(n))
           halted == (a.peak - h.cash) * 100 >= HaltPct * a.peak
<1>5. order \in Orders /\ order.dir = b.ask
  BY <1>4, OrderType
<1>6. ~halted <=> (e.peak - e.cash) * 100 < HaltPct * e.peak
  <2>1. e.peak \in Int /\ e.cash \in Int /\ HaltPct \in Int
    BY DEF Accounts, Constants
  <2> QED
    BY <1>2, <1>3, <2>1
<1> DEFINE today == Today(a, b)
<1>7. AsqsNext(h, b) =
        IF halted THEN a
        ELSE IF today.count >= MaxDayTrades \/ b.ask = 0 \/ n <= 0 THEN today
        ELSE [today EXCEPT !.order = order, !.count = @ + 1]
  BY <1>1, <1>3 DEF AsqsNext, Holds
<1> DEFINE day == IF e.date # b.date THEN [e EXCEPT !.date = b.date, !.count = 0] ELSE e
           taken == day.count < MaxDayTrades /\ ~halted /\ n > 0
<1>8. AsqsCandidate(e, b) = IF taken THEN [day EXCEPT !.order = order] ELSE day
  BY <1>3, <1>4, <1>6 DEF AsqsCandidate
<1> HIDE DEF order, halted
<1>9. /\ today \in Accounts /\ Same(a, today) /\ today.peak = a.peak /\ today.date = b.date
      /\ today.count = Counted(e, b.date) /\ Counted(today, b.date) = Counted(e, b.date)
  BY <1>2, <1>3, TodayCounts DEF Counted
<1>10. /\ day \in Accounts /\ Same(e, day) /\ day.peak = e.peak /\ day.date = b.date
       /\ day.count = Counted(e, b.date) /\ Counted(day, b.date) = Counted(e, b.date)
  <2>1. day = Today(e, b)
    BY DayCounts
  <2>2. /\ Today(e, b) \in Accounts /\ Same(e, Today(e, b)) /\ Today(e, b).peak = e.peak
        /\ Today(e, b).date = b.date /\ Today(e, b).count = Counted(e, b.date)
        /\ Counted(Today(e, b), b.date) = Counted(e, b.date)
    BY TodayCounts
  <2> HIDE DEF day
  <2> QED
    BY <2>1, <2>2
<1> HIDE DEF a, today, day
<1>11. /\ Same(a, e) /\ Same(today, e) /\ Same(today, day) /\ Same(a, day)
  BY <1>2, <1>9, <1>10 DEF Same
<1>12. /\ ~Busy(e) /\ ~Busy(day) /\ e.cash <= e.peak /\ day.cash <= day.peak /\ day.cash = e.cash
  <2>1. e.cash <= e.peak
    BY <1>3 DEF Larger, Accounts
  <2> QED
    BY <2>1, <1>10 DEF Busy, Same, Holds
<1>13. \A x \in {a, today}, y \in {e, day} : AsqsInv(x, y, b.date) /\ Same(x, y)
  <2> TAKE x \in {a, today}, y \in {e, day}
  <2>1. /\ x.peak = e.peak /\ ~x.leaving /\ x.date <= b.date /\ Counted(x, b.date) = Counted(e, b.date)
    BY <1>2, <1>3, <1>9 DEF Counted, Same
  <2>2. /\ y.peak = e.peak /\ y.date <= b.date /\ Counted(y, b.date) = Counted(e, b.date)
        /\ ~Busy(y) /\ y.cash <= y.peak
    BY <1>3, <1>10, <1>12
  <2>3. Counted(e, b.date) \in Int
    BY DEF Counted, Accounts
  <2> QED
    BY <1>11, <2>1, <2>2, <2>3 DEF AsqsInv
<1>14. \A x \in {a, today} : x \in Accounts /\ ~Holds(x)
  BY <1>2, <1>9, <1>3 DEF Same, Holds
<1>15. CASE halted \/ today.count >= MaxDayTrades \/ b.ask = 0 \/ n <= 0
  <2>1. AsqsNext(h, b) \in {a, today}
    BY <1>7, <1>15
  <2>2. b.ask # 0 => AsqsCandidate(e, b) = day
    BY <1>4, <1>8, <1>9, <1>10, <1>15 DEF Constants, Accounts
  <2> QED
    BY <2>1, <2>2, <1>10, <1>13, <1>14
<1>16. CASE ~(halted \/ today.count >= MaxDayTrades \/ b.ask = 0 \/ n <= 0)
  <2> DEFINE x == [today EXCEPT !.order = order, !.count = @ + 1]
             y == [day EXCEPT !.order = order]
  <2>1. AsqsNext(h, b) = x
    BY <1>7, <1>16
  <2>2. b.ask # 0 /\ AsqsCandidate(e, b) = y
    BY <1>4, <1>8, <1>9, <1>10, <1>16 DEF Constants, Accounts
  <2>3. /\ x \in Accounts /\ y \in Accounts /\ Same(x, y) /\ x.peak = y.peak
        /\ x.date = b.date /\ y.date = b.date /\ x.count = y.count + 1
        /\ x.order.dir # 0 /\ y.order.dir # 0 /\ x.leaving = today.leaving /\ x.pos = today.pos
    <3>1. /\ today \in Accounts /\ day \in Accounts /\ Same(today, day) /\ today.peak = day.peak
          /\ today.date = b.date /\ day.date = b.date /\ today.count = day.count
      BY <1>2, <1>9, <1>10, <1>11
    <3>2. /\ x \in Accounts /\ x.peak = today.peak /\ x.date = today.date /\ x.count = today.count + 1
          /\ x.order = order /\ x.leaving = today.leaving /\ x.pos = today.pos /\ x.cash = today.cash
      <4>1. today.count + 1 \in Int
        BY <3>1 DEF Accounts
      <4> DEFINE n1 == today.count + 1
      <4>2. n1 \in Int /\ x = [today EXCEPT !.order = order, !.count = n1]
        BY <4>1
      <4>3. x.count = n1
        BY <3>1, <4>2 DEF Accounts
      <4> HIDE DEF x, n1
      <4>4. x.count = n1 /\ x \in Accounts /\ x.peak = today.peak /\ x.date = today.date
            /\ x.order = order /\ x.leaving = today.leaving /\ x.pos = today.pos
            /\ x.cash = today.cash
        BY <1>5, <3>1, <4>2, <4>3 DEF Accounts
      <4> QED
        BY <4>4 DEF n1
    <3>3. /\ y \in Accounts /\ y.peak = day.peak /\ y.date = day.date /\ y.count = day.count
          /\ y.order = order /\ y.leaving = day.leaving /\ y.pos = day.pos /\ y.cash = day.cash
      BY <1>5, <3>1 DEF Accounts
    <3>4. order.dir # 0
      BY <1>5, <1>16
    <3> HIDE DEF x, y
    <3> QED
      BY <3>1, <3>2, <3>3, <3>4 DEF Same
  <2> HIDE DEF x, y
  <2>4. ~x.leaving /\ ~Holds(x) /\ Busy(y)
    BY <2>3, <1>2, <1>9, <1>14 DEF Same, Holds, Busy
  <2> QED
    BY <2>1, <2>2, <2>3, <2>4, <1>3 DEF AsqsInv, Counted, Accounts
<1> QED
  BY <1>15, <1>16

LEMMA AsqsBar ==
  ASSUME NEW h \in Accounts, NEW e \in Accounts, NEW b \in BarType, NEW d \in Int, Constants,
         Same(h, e), Proper(h), strategy = "asqs", AsqsInv(h, e, d), d <= b.date
  PROVE  /\ HarnessBar(h, b) \in Accounts /\ EngineBar(e, b) \in Accounts
         /\ Same(HarnessBar(h, b), EngineBar(e, b)) /\ Proper(HarnessBar(h, b))
         /\ AsqsInv(HarnessBar(h, b), EngineBar(e, b), b.date)
<1> DEFINE fh == Filled(h, b)  fe == Filled(e, b)  opened == Opened(Grown(e), b)
           scan == AsqsScan(opened, fe, b)
<1>1. /\ fh \in Accounts /\ fe \in Accounts /\ Same(fh, fe) /\ Books(h, fh) /\ Books(e, fe)
      /\ fh.order.dir = 0 /\ ~fh.leaving
      /\ Holds(fh) => Holds(opened)
      /\ Holds(opened) <=> Busy(e)
  BY FilledSame DEF Busy
<1>2. HarnessBar(h, b) = AsqsNext(fh, b)
  BY FillsAlike DEF HarnessBar, Filled
<1>3. EngineBar(e, b) = IF Holds(scan) \/ b.ask = 0 THEN scan ELSE AsqsCandidate(scan, b)
  BY DEF EngineBar, Filled
<1>4. AsqsInv(h, e, b.date) /\ b.date \in Int
  BY LaterDate DEF BarType
<1>5. ~Busy(e) => fe.cash = e.cash
  <2>1. SUFFICES ASSUME ~Busy(e) PROVE fe.cash = e.cash
    OBVIOUS
  <2>2. ~Holds(opened)
    BY <1>1, <2>1
  <2>3. fe = opened
    BY <2>2 DEF ScanExit, Filled
  <2>4. Grown(e) \in Accounts /\ Grown(e).cash = e.cash
    BY GrownSame
  <2>5. opened.cash = e.cash
    BY <2>4, OpenedSame
  <2> QED
    BY <2>3, <2>5
<1>6. /\ fh.peak = h.peak /\ fh.date = h.date /\ fh.count = h.count
      /\ fe.peak = e.peak /\ fe.date = e.date /\ fe.count = e.count
      /\ h.peak = e.peak /\ fh.cash = fe.cash
      /\ h.date <= b.date /\ e.date <= b.date
      /\ Counted(fh, b.date) = Counted(h, b.date) /\ Counted(fe, b.date) = Counted(e, b.date)
  BY <1>1, <1>4 DEF Books, AsqsInv, Same, Counted
<1> HIDE DEF fh, fe, opened
<1>7. CASE Holds(fh)
  <2> DEFINE next == AsqsNext(fh, b)
  <2>1. /\ next \in Accounts /\ scan \in Accounts /\ Same(next, scan) /\ next.peak = scan.peak
        /\ Holds(next) /\ Holds(scan) /\ next.order.dir = 0 /\ ~next.leaving
        /\ scan.date = fe.date /\ scan.count = fe.count
        /\ next.date \in {fh.date, b.date} /\ Counted(next, b.date) = Counted(fh, b.date)
    BY <1>1, <1>6, <1>7, AsqsHeldBar
  <2> HIDE DEF next, scan
  <2>2. Busy(e) /\ Busy(scan)
    BY <1>1, <1>7, <2>1 DEF Busy
  <2>3. Counted(scan, b.date) = Counted(e, b.date)
    BY <1>6, <2>1 DEF Counted
  <2>4. Counted(next, b.date) = Counted(scan, b.date) + (IF Busy(scan) /\ scan.date = b.date THEN 1 ELSE 0)
    BY <1>4, <1>6, <2>1, <2>2, <2>3 DEF AsqsInv
  <2>5. next.date <= b.date /\ scan.date <= b.date
    BY <1>4, <1>6, <2>1
  <2>6. AsqsInv(next, scan, b.date)
    BY <2>1, <2>2, <2>4, <2>5 DEF AsqsInv
  <2> QED
    BY <1>2, <1>3, <2>1, <2>6 DEF Proper, next
<1>8. CASE ~Holds(fh)
  <2>1. ~Holds(fe)
    BY <1>1, <1>8 DEF Same, Holds
  <2>2. /\ scan \in Accounts /\ Same(fh, scan) /\ scan.peak = Larger(fh.peak, fh.cash)
        /\ scan.date <= b.date /\ Counted(fh, b.date) = Counted(scan, b.date)
        /\ ~Holds(scan)
    <3>1. CASE Holds(opened)
      <4> DEFINE n == fe.count + 1  top == Larger(fe.peak, fe.cash)
      <4>1. scan = [fe EXCEPT !.peak = top, !.count = n]
        BY <2>1, <3>1 DEF AsqsScan
      <4>2. n \in Int /\ top \in Int
        <5>1. fe.count \in Int /\ fe.peak \in Int /\ fe.cash \in Int
          BY <1>1 DEF Accounts
        <5>2. top \in Int
          BY <5>1, LargerType
        <5> QED
          BY <5>1, <5>2
      <4> HIDE DEF n, top, scan
      <4>3. /\ scan \in Accounts /\ scan.peak = top /\ scan.count = n /\ scan.date = fe.date
            /\ scan.pos = fe.pos /\ scan.order = fe.order /\ scan.leaving = fe.leaving
            /\ scan.cash = fe.cash
        BY <1>1, <4>1, <4>2 DEF Accounts
      <4>4. Same(fh, scan) /\ ~Holds(scan)
        BY <1>1, <2>1, <4>3 DEF Same, Holds
      <4>5. Counted(h, b.date) = Counted(e, b.date) + (IF e.date = b.date THEN 1 ELSE 0)
        BY <1>1, <1>4, <3>1 DEF AsqsInv
      <4>6. Counted(scan, b.date) = Counted(h, b.date)
        BY <1>6, <4>3, <4>5 DEF Counted, n
      <4> QED
        BY <1>6, <4>3, <4>4, <4>6 DEF top
    <3>2. CASE ~Holds(opened)
      <4>1. scan = fe
        BY <2>1, <3>2 DEF AsqsScan
      <4>2. ~Busy(e) /\ fe.cash = e.cash /\ e.cash <= e.peak
        BY <1>1, <1>4, <1>5, <3>2 DEF AsqsInv
      <4>3. e.cash \in Int /\ e.peak \in Int
        BY DEF Accounts
      <4>4. Larger(fh.peak, fh.cash) = fe.peak
        BY <1>6, <4>2, <4>3 DEF Larger
      <4>5. Counted(h, b.date) = Counted(e, b.date)
        <5>1. Counted(e, b.date) \in Int
          BY DEF Counted, Accounts
        <5> QED
          BY <1>4, <4>2, <5>1 DEF AsqsInv
      <4> HIDE DEF scan
      <4> QED
        BY <1>1, <1>6, <2>1, <4>1, <4>4, <4>5
    <3> QED
      BY <3>1, <3>2
  <2> HIDE DEF scan
  <2> DEFINE next == AsqsNext(fh, b)
             done == IF b.ask = 0 THEN scan ELSE AsqsCandidate(scan, b)
  <2>3. /\ next \in Accounts /\ done \in Accounts /\ Same(next, done) /\ ~Holds(next)
        /\ AsqsInv(next, done, b.date)
    BY <1>1, <1>6, <1>8, <2>2, AsqsFlatBar
  <2>4. HarnessBar(h, b) = next /\ EngineBar(e, b) = done
    BY <1>2, <1>3, <2>2
  <2> HIDE DEF next, done
  <2>5. Proper(next)
    BY <2>3 DEF Proper, AsqsInv
  <2> QED
    BY <2>3, <2>4, <2>5
<1> QED
  BY <1>7, <1>8

-----------------------------------------------------------------------------
(* What both sides keep between bars: the same position, order and cash, and *)
(* for the peaks and the day's count the relation their strategy preserves.  *)
IInv ==
  /\ strategy \in Strategies
  /\ ~excused => /\ last.date \in Int /\ harness \in Accounts /\ engine \in Accounts
                 /\ Same(harness, engine) /\ Proper(harness)
                 /\ strategy = "asqs" => AsqsInv(harness, engine, last.date)
                 /\ strategy # "asqs" => PlainInv(harness, engine)

LEMMA InitIInv ==
  ASSUME Constants, Init
  PROVE  IInv
<1>1. Flat \in Positions /\ NoOrder \in Orders /\ Cash \in Int /\ Cash > 0
  BY DEF Flat, Positions, NoOrder, Orders, Constants
<1> DEFINE a == Account
<1>2. /\ a \in Accounts /\ a.peak = Cash /\ a.cash = Cash /\ a.order.dir = 0 /\ ~a.leaving
      /\ a.date = 0 /\ a.count = 0 /\ ~Holds(a)
  BY <1>1 DEF Account, Accounts, Holds, Flat, NoOrder
<1>3. harness = a /\ engine = a /\ last.date = 0 /\ strategy \in Strategies
  BY DEF Init
<1> HIDE DEF a
<1>4. AsqsInv(a, a, 0)
  BY <1>1, <1>2 DEF AsqsInv, Counted, Busy
<1>5. PlainInv(a, a)
  BY <1>1, <1>2 DEF PlainInv
<1> QED
  BY <1>2, <1>3, <1>4, <1>5 DEF IInv, Same, Proper

LEMMA NextIInv ==
  ASSUME Constants, IInv, [Next]_vars
  PROVE  IInv'
<1>1. CASE Bar
  <2>1. PICK b \in BarsAfter : /\ harness' = HarnessBar(harness, b)
                               /\ engine' = EngineBar(engine, b)
                               /\ last' = [dir |-> b.dir, date |-> b.date]
                               /\ excused' = Excuses(b)
    BY <1>1 DEF Bar
  <2>2. /\ last.date \in Int /\ harness \in Accounts /\ engine \in Accounts
        /\ Same(harness, engine) /\ Proper(harness) /\ strategy' = strategy
        /\ strategy = "asqs" => AsqsInv(harness, engine, last.date)
        /\ strategy # "asqs" => PlainInv(harness, engine)
    BY <1>1 DEF Bar, IInv
  <2>3. b \in BarType /\ last.date <= b.date /\ last'.date = b.date /\ b.date \in Int
    <3>1. /\ b.o \in Int /\ b.h \in Int /\ b.l \in Int /\ b.c \in Int /\ b.dir \in {-1, 1}
          /\ b.ask \in {-1, 0, 1} /\ b.date \in {last.date, last.date + 1}
          /\ b = [o |-> b.o, h |-> b.h, l |-> b.l, c |-> b.c, dir |-> b.dir, ask |-> b.ask,
                  date |-> b.date]
      BY <2>1 DEF BarsAfter, Constants
    <3>2. b.date \in Int /\ last.date <= b.date
      BY <2>2, <3>1
    <3>3. b \in BarType
      BY <3>1, <3>2 DEF BarType
    <3>4. last'.date = b.date
      BY <2>1
    <3> QED
      BY <3>2, <3>3, <3>4
  <2>4. CASE strategy = "asqs"
    <3>1. /\ harness' \in Accounts /\ engine' \in Accounts
          /\ Same(harness', engine') /\ Proper(harness') /\ AsqsInv(harness', engine', b.date)
      BY <2>1, <2>2, <2>3, <2>4, AsqsBar
    <3> QED
      BY <2>2, <2>3, <2>4, <3>1 DEF IInv, AsqsInv, Counted, Busy, Same, Proper, Holds
  <2>5. CASE strategy # "asqs"
    <3>1. SUFFICES ASSUME ~excused' PROVE IInv'
      BY <2>2 DEF IInv
    <3>2. strategy \in HaltsFirst => ~Halted(HarnessBar(harness, b), b)
      BY <2>1, <3>1 DEF Excuses
    <3>3. /\ harness' \in Accounts /\ engine' \in Accounts
          /\ Same(harness', engine') /\ Proper(harness') /\ PlainInv(harness', engine')
      BY <2>1, <2>2, <2>3, <2>5, <3>2, PlainBar DEF IInv
    <3> QED
      BY <2>2, <2>3, <2>5, <3>3 DEF IInv, PlainInv, Same, Proper, Holds
  <2> QED
    BY <2>4, <2>5
<1>2. CASE UNCHANGED vars
  BY <1>2 DEF vars, IInv, AsqsInv, PlainInv, Same, Proper, Holds, Counted, Busy
<1> QED
  BY <1>1, <1>2 DEF Next

\* For every price series, and every choice of distances, sizes, day cap, halt
\* and time stop, each sweep engine holds the position of its strategy, with the
\* same stop and the same cash, after every bar up to a halt or a fractional size.
THEOREM EnginesAlwaysAgree == Spec => []EnginesAgree
<1>1. Init => IInv
  BY InitIInv, EngineAssumption
<1>2. IInv /\ [Next]_vars => IInv'
  BY NextIInv, EngineAssumption
<1>3. IInv => EnginesAgree
  BY DEF IInv, EnginesAgree, Same
<1> QED
  BY <1>1, <1>2, <1>3, PTL DEF Spec

-----------------------------------------------------------------------------
(* h1_momentum: once the second listing has let the pass on, whatever is     *)
(* open was hidden by a failed one.                                          *)

MomentumInv ==
  /\ step = "signal" => open \subseteq listFails
  /\ ReentryNeedsFailedListing

LEMMA MomentumStep ==
  ASSUME MomentumInv, M!Next
  PROVE  MomentumInv'
<1> USE DEF MomentumInv, ReentryNeedsFailedListing, M!ReentryNeedsFailedListing, M!series, M!book
<1>1. CASE M!Fetch
  BY <1>1 DEF M!Fetch
<1>2. CASE M!ListForExits
  BY <1>2 DEF M!ListForExits, M!Listing
<1>3. CASE M!ListForEntry
  BY <1>3 DEF M!ListForEntry, M!Listing
<1>4. CASE M!NoEntry
  BY <1>4 DEF M!NoEntry
<1>5. ASSUME NEW k \in Tickets, M!Holds(k) \/ M!Exits(k)
      PROVE  MomentumInv'
  BY <1>5 DEF M!Holds, M!Exits
<1>6. ASSUME NEW k \in Tickets, M!Enters(k)
      PROVE  MomentumInv'
  BY <1>6 DEF M!Enters
<1>7. CASE M!NewBar
  BY <1>7 DEF M!NewBar
<1>8. ASSUME NEW k \in Tickets, M!Stopped(k)
      PROVE  MomentumInv'
  BY <1>8 DEF M!Stopped
<1>9. CASE M!Killed
  BY <1>9 DEF M!Killed
<1> QED
  BY <1>1, <1>2, <1>3, <1>4, <1>5, <1>6, <1>7, <1>8, <1>9 DEF M!Next, M!Pass

\* h1_momentum holds a second position only past one that a failed listing hid,
\* whatever the broker, the clock and a killed task do between two calls.
THEOREM ReentryAlwaysNeedsFailure == AllSpec => []ReentryNeedsFailedListing
<1>1. AllInit => MomentumInv
  BY DEF AllInit, M!Init, MomentumInv, ReentryNeedsFailedListing, M!ReentryNeedsFailedListing
<1>2. MomentumInv /\ [AllNext]_allVars => MomentumInv'
  <2> SUFFICES ASSUME MomentumInv, [AllNext]_allVars PROVE MomentumInv'
    OBVIOUS
  <2>1. CASE H1Momentum
    BY <2>1, MomentumStep DEF H1Momentum
  <2>2. CASE UNCHANGED momentumVars
    BY <2>2 DEF momentumVars, MomentumInv, ReentryNeedsFailedListing, M!ReentryNeedsFailedListing
  <2> QED
    BY <2>1, <2>2 DEF AllNext, allVars, Engines, CopiedSignals, CrestNKeel, Folds, Lots
<1>3. MomentumInv => ReentryNeedsFailedListing
  BY DEF MomentumInv
<1> QED
  BY <1>1, <1>2, <1>3, PTL DEF AllSpec

-----------------------------------------------------------------------------
(* crest_n_keel: two tasks between check and order both know of a race, and  *)
(* one that is there with a position open was raced, by a task or by a late  *)
(* order, or shown nothing.                                                  *)

CrestInv ==
  /\ late \in Nat
  /\ at \in [Tasks -> {"idle", "filters", "check", "spread", "order"}]
  /\ \A t, u \in C!Between : t # u => t \in raced /\ u \in raced
  /\ held # {} => C!Between \subseteq raced \cup unseen

LEMMA CrestStep ==
  ASSUME CrestInv, C!Next
  PROVE  CrestInv'
<1> USE LateAssumption DEF CrestInv, C!Between, C!Go, C!broker, C!observers
<1>1. ASSUME NEW t \in Tasks, C!Begin(t)
      PROVE  CrestInv'
  BY <1>1 DEF C!Begin
<1>2. ASSUME NEW t \in Tasks, C!Filtered(t) \/ C!PassesFilters(t)
      PROVE  CrestInv'
  BY <1>2 DEF C!Filtered, C!PassesFilters
<1>3. ASSUME NEW t \in Tasks, C!HasOpenPosition(t)
      PROVE  CrestInv'
  <2>1. PICK l \in C!Listings :
          /\ C!Go(t, "check", IF C!Blocks(l) THEN "idle" ELSE "spread")
          /\ unseen' = IF l = "empty" /\ held # {} THEN unseen \cup {t} ELSE unseen
          /\ raced' = IF C!Blocks(l) \/ C!Between = {} THEN raced ELSE raced \cup C!Between \cup {t}
          /\ UNCHANGED <<held, issued, late>>
    BY <1>3 DEF C!HasOpenPosition
  <2>2. CASE C!Blocks(l)
    <3>1. l \in {"positions", "failed"}
      BY <2>2 DEF C!Blocks
    <3> QED
      BY <2>1, <2>2, <3>1
  <2>3. CASE ~C!Blocks(l)
    <3>1. l = "empty"
      BY <2>1, <2>3 DEF C!Blocks, C!Listings
    <3>2. C!Between' = C!Between \cup {t}
      BY <2>1, <2>3
    <3> QED
      BY <2>1, <2>3, <3>1, <3>2
  <2> QED
    BY <2>2, <2>3
<1>4. ASSUME NEW t \in Tasks, C!SpreadBlocks(t) \/ C!PassesSpread(t) \/ C!NoOrder(t)
      PROVE  CrestInv'
  BY <1>4 DEF C!SpreadBlocks, C!PassesSpread, C!NoOrder
<1>5. ASSUME NEW t \in Tasks, C!Order(t)
      PROVE  CrestInv'
  BY <1>5 DEF C!Order, C!Opens
<1>6. ASSUME NEW t \in Tasks, C!OrderGivenUp(t)
      PROVE  CrestInv'
  BY <1>6 DEF C!OrderGivenUp
<1>7. CASE C!LateOrder
  BY <1>7 DEF C!LateOrder, C!Opens
<1>8. ASSUME NEW k \in Tickets, C!Closes(k)
      PROVE  CrestInv'
  BY <1>8 DEF C!Closes
<1> QED
  BY <1>1, <1>2, <1>3, <1>4, <1>5, <1>6, <1>7, <1>8 DEF C!Next, C!Evaluate

\* crest_n_keel opens a second position only as an order its client had given up,
\* or when another task or such an order came between its check and its order, or
\* the bridge answered an error with no positions.
THEOREM DuplicateAlwaysBlind == AllSpec => DuplicateNeedsBlindness
<1>1. AllInit => CrestInv
  BY DEF AllInit, C!Init, CrestInv, C!Between
<1>2. CrestInv /\ [AllNext]_allVars => CrestInv'
  <2> SUFFICES ASSUME CrestInv, [AllNext]_allVars PROVE CrestInv'
    OBVIOUS
  <2>1. CASE CrestNKeel
    BY <2>1, CrestStep DEF CrestNKeel
  <2>2. CASE UNCHANGED crestVars
    BY <2>2 DEF crestVars, CrestInv, C!Between
  <2> QED
    BY <2>1, <2>2 DEF AllNext, allVars, Engines, CopiedSignals, H1Momentum, Folds, Lots
<1>3. ASSUME CrestInv, [AllNext]_allVars, issued' # issued, held # {}
      PROVE  \/ late' < late
             \/ \E t \in raced \cup unseen : at[t] = "order" /\ at'[t] = "idle"
  <2>1. C!Next
    BY <1>3 DEF AllNext, allVars, crestVars, Engines, CopiedSignals, H1Momentum, CrestNKeel,
                Folds, Lots
  <2>2. ASSUME NEW t \in Tasks, C!Order(t)
        PROVE  t \in raced \cup unseen /\ at[t] = "order" /\ at'[t] = "idle"
    BY <1>3, <2>2 DEF C!Order, C!Go, C!Between, CrestInv
  <2>3. CASE C!LateOrder
    BY <1>3, <2>3 DEF C!LateOrder, CrestInv
  <2>4. C!LateOrder \/ \E t \in Tasks : C!Order(t)
    BY <1>3, <2>1 DEF C!Next, C!Evaluate, C!Begin, C!Filtered, C!PassesFilters, C!HasOpenPosition,
       C!SpreadBlocks, C!PassesSpread, C!NoOrder, C!OrderGivenUp, C!Closes, C!broker
  <2> QED
    BY <2>2, <2>3, <2>4
<1>4. CrestInv /\ [AllNext]_allVars =>
        [issued' # issued /\ held # {} =>
           \/ late' < late
           \/ \E t \in raced \cup unseen : at[t] = "order" /\ at'[t] = "idle"]_C!vars
  BY <1>3
<1> QED
  BY <1>1, <1>2, <1>4, PTL DEF AllSpec, DuplicateNeedsBlindness, C!DuplicateNeedsBlindness

-----------------------------------------------------------------------------
(* Sizing: rounding down to a step finds the largest tradable size, and the  *)
(* quotient of budget and stop is the largest size the budget pays for.      *)

LEMMA LargestIsMax ==
  ASSUME NEW T \in SUBSET Int, NEW m \in T, \A y \in T : y <= m
  PROVE  L!Max(T) = m
<1>1. \A x \in T : (\A y \in T : x >= y) => x = m
  OBVIOUS
<1>2. \A y \in T : m >= y
  OBVIOUS
<1> QED
  BY <1>1, <1>2 DEF L!Max

LEMMA SmallestIsMin ==
  ASSUME NEW T \in SUBSET Int, NEW m \in T, \A y \in T : m <= y
  PROVE  L!Min(T) = m
<1>1. \A x \in T : (\A y \in T : x <= y) => x = m
  OBVIOUS
<1> QED
  BY <1>1 DEF L!Min

LEMMA QuotientBounds ==
  ASSUME NEW b \in Int, NEW e \in Nat \ {0}
  PROVE  b \div e \in Int /\ (b \div e) * e <= b /\ b < (b \div e) * e + e
  OBVIOUS

LEMMA ProductMonotone ==
  ASSUME NEW x \in Int, NEW y \in Int, NEW e \in Nat, x <= y
  PROVE  x * e <= y * e
  OBVIOUS

\* A size costs at most b exactly when it is at most the quotient.
LEMMA PaidFor ==
  ASSUME NEW b \in Int, NEW e \in Nat \ {0}, NEW n \in Int
  PROVE  n * e <= b <=> n <= b \div e
<1> DEFINE q == b \div e
<1>1. q \in Int /\ q * e <= b /\ b < q * e + e
  BY QuotientBounds
<1> HIDE DEF q
<1>2. CASE n <= q
  BY <1>1, <1>2, ProductMonotone, n * e <= q * e
<1>3. CASE n >= q + 1
  <2>1. (q + 1) * e <= n * e
    BY <1>1, <1>3, ProductMonotone
  <2>2. (q + 1) * e = q * e + e
    BY <1>1
  <2> QED
    BY <1>1, <1>3, <2>1, <2>2
<1> QED
  BY <1>1, <1>2, <1>3 DEF q

LEMMA MultipleOfStep ==
  ASSUME NEW q \in Int, NEW e \in Nat \ {0}
  PROVE  (q * e) % e = 0
<1>1. (q * e) % e \in 0..(e - 1) /\ q * e = e * ((q * e) \div e) + ((q * e) % e)
  OBVIOUS
<1> DEFINE p == (q * e) \div e
           r == (q * e) % e
<1>2. p \in Int /\ r \in Int /\ 0 <= r /\ r < e /\ q * e = p * e + r
  BY <1>1
<1> HIDE DEF p, r
<1>3. ~(q >= p + 1)
  <2>1. SUFFICES ASSUME q >= p + 1 PROVE FALSE
    OBVIOUS
  <2>2. (p + 1) * e <= q * e
    BY <1>2, <2>1, ProductMonotone
  <2>3. (p + 1) * e = p * e + e
    BY <1>2
  <2> QED
    BY <1>2, <2>2, <2>3
<1>4. ~(q <= p - 1)
  <2>1. SUFFICES ASSUME q <= p - 1 PROVE FALSE
    OBVIOUS
  <2>2. q * e <= (p - 1) * e
    BY <1>2, <2>1, ProductMonotone
  <2>3. (p - 1) * e = p * e - e
    BY <1>2
  <2> QED
    BY <1>2, <2>2, <2>3
<1>5. q = p
  BY <1>2, <1>3, <1>4
<1>6. r = 0
  BY <1>2, <1>5
<1> QED
  BY <1>6 DEF r

LEMMA MultipleIsProduct ==
  ASSUME NEW n \in Int, NEW e \in Nat \ {0}, n % e = 0
  PROVE  n \div e \in Int /\ n = (n \div e) * e
  OBVIOUS

\* The tradable sizes up to some number of lots.
Tradable(lots) == {n \in VolumeMin..VolumeMax : n % VolumeStep = 0 /\ n <= lots}

LEMMA LotConstants ==
  /\ VolumeStep \in Nat \ {0} /\ VolumeMin \in Nat /\ VolumeMax \in Nat
  /\ VolumeMin <= VolumeMax /\ VolumeMax % VolumeStep = 0 /\ StopFloor \in Nat
  BY LotAssumption

\* round_to_lot_step: the largest tradable size up to lots, none when there is none.
LEMMA RoundingIsLargest ==
  ASSUME NEW lots \in Int
  PROVE  /\ Tradable(lots) = {} => L!RoundToLotStep(lots) = 0
         /\ Tradable(lots) # {} => /\ L!RoundToLotStep(lots) \in Tradable(lots)
                                   /\ \A n \in Tradable(lots) : n <= L!RoundToLotStep(lots)
<1> DEFINE k == lots \div VolumeStep
           stepped == k * VolumeStep
           r == L!RoundToLotStep(lots)
<1>1. k \in Int /\ stepped \in Int /\ stepped <= lots /\ stepped % VolumeStep = 0
  <2>1. k \in Int /\ stepped <= lots
    BY LotConstants, QuotientBounds
  <2>2. stepped \in Int
    BY <2>1, LotConstants
  <2> HIDE DEF k
  <2>3. stepped % VolumeStep = 0
    BY <2>1, LotConstants, MultipleOfStep
  <2> QED
    BY <2>1, <2>2, <2>3
<1>2. \A n \in Tradable(lots) : n <= stepped /\ n \in Int /\ VolumeMin <= n /\ n <= VolumeMax
  <2> SUFFICES ASSUME NEW n \in Tradable(lots) PROVE n <= stepped /\ n \in Int /\ VolumeMin <= n /\ n <= VolumeMax
    OBVIOUS
  <2>1. n \in Int /\ VolumeMin <= n /\ n <= VolumeMax /\ n % VolumeStep = 0 /\ n <= lots
    BY LotConstants DEF Tradable
  <2> DEFINE m == n \div VolumeStep
  <2>2. m \in Int /\ n = m * VolumeStep
    BY <2>1, LotConstants, MultipleIsProduct
  <2> HIDE DEF m
  <2>3. m <= k
    BY <2>1, <2>2, LotConstants, PaidFor
  <2>4. m * VolumeStep <= k * VolumeStep
    BY <1>1, <2>2, <2>3, LotConstants, ProductMonotone
  <2> QED
    BY <2>1, <2>2, <2>4
<1>3. r = IF stepped < VolumeMin THEN 0 ELSE IF stepped <= VolumeMax THEN stepped ELSE VolumeMax
  <2>1. r = IF stepped < VolumeMin THEN 0 ELSE L!Min({stepped, VolumeMax})
    BY DEF L!RoundToLotStep
  <2>2. L!Min({stepped, VolumeMax}) = IF stepped <= VolumeMax THEN stepped ELSE VolumeMax
    <3> HIDE DEF stepped
    <3> DEFINE T == {stepped, VolumeMax}
    <3>1. CASE stepped <= VolumeMax
      <4>1. T \in SUBSET Int /\ stepped \in T /\ \A y \in T : stepped <= y
        BY <1>1, <3>1, LotConstants
      <4> HIDE DEF T
      <4>2. L!Min(T) = stepped
        BY <4>1, SmallestIsMin
      <4> QED
        BY <3>1, <4>2 DEF T
    <3>2. CASE ~(stepped <= VolumeMax)
      <4>1. T \in SUBSET Int /\ VolumeMax \in T /\ \A y \in T : VolumeMax <= y
        BY <1>1, <3>2, LotConstants
      <4> HIDE DEF T
      <4>2. L!Min(T) = VolumeMax
        BY <4>1, SmallestIsMin
      <4> QED
        BY <3>2, <4>2 DEF T
    <3> QED
      BY <3>1, <3>2
  <2> QED
    BY <2>1, <2>2
<1> HIDE DEF k, stepped, r
<1>4. CASE stepped < VolumeMin
  <2>1. Tradable(lots) = {} /\ r = 0
    BY <1>1, <1>2, <1>3, <1>4, LotConstants
  <2> QED
    BY <2>1 DEF r
<1>5. CASE ~(stepped < VolumeMin)
  <2>1. r \in Tradable(lots)
    BY <1>1, <1>3, <1>5, LotConstants DEF Tradable
  <2>2. \A n \in Tradable(lots) : n <= r
    BY <1>2, <1>3, <1>5
  <2> QED
    BY <2>1, <2>2 DEF r
<1> QED
  BY <1>4, <1>5

LEMMA StopType ==
  ASSUME NEW stop \in Int, stop > 0
  PROVE  L!EffectiveStop(stop) \in Nat \ {0}
<1> DEFINE T == {stop, StopFloor}
<1>1. T \in SUBSET Int /\ stop \in T /\ StopFloor \in T
  BY LotConstants
<1>2. PICK m \in T : m >= stop /\ \A y \in T : y <= m
  BY <1>1, LotConstants
<1> HIDE DEF T
<1>3. L!Max(T) = m
  BY <1>1, <1>2, LargestIsMax
<1>4. m \in Int /\ m >= stop
  BY <1>1, <1>2
<1> QED
  BY <1>3, <1>4 DEF L!EffectiveStop, T

\* The sizes the budget pays for under the ceiling.
Affordable(budget, stop, cap) ==
  {n \in VolumeMin..VolumeMax : n % VolumeStep = 0 /\ n <= cap /\ L!Risk(n, stop) <= budget}

\* size_order: the largest affordable size, none when there is none.
LEMMA SizingIsLargest ==
  ASSUME NEW budget \in Int, NEW stop \in Int, NEW cap \in Nat, stop > 0
  PROVE  LET fits == Affordable(budget, stop, cap)
             lots == L!SizeOrder(budget, stop, cap)
         IN  /\ fits = {} => lots = 0
             /\ fits # {} => lots \in fits /\ \A n \in fits : n <= lots
<1> DEFINE e == L!EffectiveStop(stop)
           q == budget \div e
           fits == Affordable(budget, stop, cap)
           lots == L!SizePosition(budget, stop)
           sold == L!SizeOrder(budget, stop, cap)
<1>1. e \in Nat \ {0}
  BY StopType
<1>2. q \in Int
  BY <1>1, QuotientBounds
<1>3. sold = IF lots > cap THEN L!RoundToLotStep(cap) ELSE lots
  BY DEF L!SizeOrder
<1>4. lots = IF budget <= 0 THEN 0 ELSE L!RoundToLotStep(q)
  BY DEF L!SizePosition
<1>5. \A n : n \in fits <=> n \in Tradable(q) /\ n <= cap
  <2> HIDE DEF e, q
  <2>1. \A n \in Int : L!Risk(n, stop) <= budget <=> n <= q
    BY <1>1, PaidFor DEF L!Risk, e, q
  <2>2. \A n \in VolumeMin..VolumeMax : n \in Int
    BY LotConstants
  <2> QED
    BY <2>1, <2>2 DEF Affordable, Tradable
<1>6. \A n \in Tradable(q) : n \in Nat /\ n <= q /\ n \in VolumeMin..VolumeMax /\ n % VolumeStep = 0
  BY LotConstants DEF Tradable
<1> HIDE DEF e, q, fits, lots, sold
<1>7. CASE budget <= 0
  <2>1. lots = 0 /\ sold = 0
    BY <1>3, <1>4, <1>7
  <2>2. \A n \in fits : n = 0
    <3> SUFFICES ASSUME NEW n \in fits PROVE n = 0
      OBVIOUS
    <3>1. n \in Nat /\ n <= q
      BY <1>5, <1>6
    <3>2. n * e <= budget
      BY <1>1, <3>1, PaidFor DEF q
    <3>3. CASE n >= 1
      <4>1. 1 * e <= n * e
        BY <1>1, <3>1, <3>3, ProductMonotone
      <4> QED
        BY <1>1, <1>7, <3>1, <3>2, <4>1
    <3> QED
      BY <1>1, <1>7, <3>1, <3>2, <3>3
  <2> QED
    BY <2>1, <2>2 DEF fits, sold
<1>8. CASE budget > 0
  <2>1. lots = L!RoundToLotStep(q)
    BY <1>4, <1>8
  <2>2. Tradable(q) = {} => lots = 0
    BY <1>2, <2>1, RoundingIsLargest
  <2>3. Tradable(q) # {} => lots \in Tradable(q) /\ \A n \in Tradable(q) : n <= lots
    BY <1>2, <2>1, RoundingIsLargest
  <2>4. CASE lots > cap
    <3>1. lots \in Tradable(q) /\ cap < q
      BY <1>2, <1>6, <2>2, <2>3, <2>4
    <3>2. fits = Tradable(cap)
      <4>1. \A n \in Tradable(cap) : n <= cap /\ n \in VolumeMin..VolumeMax /\ n % VolumeStep = 0 /\ n \in Int
        BY LotConstants DEF Tradable
      <4>2. \A n \in Tradable(cap) : n \in Tradable(q)
        BY <1>2, <3>1, <4>1 DEF Tradable
      <4>3. \A n \in Tradable(q) : n <= cap => n \in Tradable(cap)
        BY <1>6 DEF Tradable
      <4> QED
        BY <1>5, <4>1, <4>2, <4>3
    <3>3. sold = L!RoundToLotStep(cap)
      BY <1>3, <2>4
    <3> QED
      BY <3>2, <3>3, RoundingIsLargest DEF fits, sold
  <2>5. CASE ~(lots > cap)
    <3>1. sold = lots
      BY <1>3, <2>5
    <3>2. lots # 0 => lots \in fits
      BY <1>5, <1>6, <2>2, <2>3, <2>5
    <3>3. fits # {} => lots \in fits /\ \A n \in fits : n <= lots
      BY <1>5, <1>6, <2>3, <2>5
    <3> QED
      BY <3>1, <3>2, <3>3 DEF fits, sold
  <2> QED
    BY <2>4, <2>5
<1> QED
  BY <1>7, <1>8

LotInv == sized # <<>> =>
  /\ asked.budget \in Int /\ asked.stop \in Int /\ asked.cap \in Nat
  /\ sized = <<L!SizeOrder(asked.budget, asked.stop, asked.cap)>>

LEMMA LotInvImplies ==
  ASSUME LotInv
  PROVE  LotsWithinBudget
<1> DEFINE fits == {n \in VolumeMin..VolumeMax : n % VolumeStep = 0 /\ n <= asked.cap
                                                 /\ L!Risk(n, asked.stop) <= asked.budget}
           lots == L!SizeOrder(asked.budget, asked.stop, asked.cap)
<1>1. SUFFICES ASSUME sized # <<>>
               PROVE  sized[1] = IF asked.stop <= 0 \/ fits = {} THEN 0 ELSE L!Max(fits)
  BY DEF LotsWithinBudget, L!LotsWithinBudget
<1>2. /\ asked.budget \in Int /\ asked.stop \in Int /\ asked.cap \in Nat
      /\ sized[1] = lots
  BY <1>1 DEF LotInv
<1>3. CASE asked.stop <= 0
  <2>1. L!SizePosition(asked.budget, asked.stop) = 0
    BY <1>3 DEF L!SizePosition
  <2>2. lots = 0
    BY <1>2, <2>1 DEF L!SizeOrder
  <2> QED
    BY <1>2, <1>3, <2>2
<1>4. CASE asked.stop > 0
  <2>1. fits = Affordable(asked.budget, asked.stop, asked.cap)
    BY DEF Affordable
  <2>2. /\ fits = {} => lots = 0
        /\ fits # {} => lots \in fits /\ \A n \in fits : n <= lots
    BY <1>2, <1>4, <2>1, SizingIsLargest
  <2>3. fits \in SUBSET Int
    BY LotConstants
  <2> HIDE DEF fits, lots
  <2>4. fits # {} => L!Max(fits) = lots
    BY <2>2, <2>3, LargestIsMax
  <2> QED
    BY <1>2, <1>4, <2>2, <2>4
<1> QED
  BY <1>2, <1>3, <1>4

\* The order of a live strategy is the largest tradable one that its budget pays
\* for and its ceiling allows, for any instrument terms, budget, stop and ceiling.
THEOREM LotsAlwaysWithinBudget == AllSpec => []LotsWithinBudget
<1>1. AllInit => LotInv
  BY DEF AllInit, L!Init, LotInv
<1>2. LotInv /\ [AllNext]_allVars => LotInv'
  <2> SUFFICES ASSUME LotInv, [AllNext]_allVars PROVE LotInv'
    OBVIOUS
  <2>1. CASE Lots
    <3>1. PICK budget \in Budgets, stop \in Stops, cap \in Caps :
            /\ asked' = [budget |-> budget, stop |-> stop, cap |-> cap]
            /\ sized' = <<L!SizeOrder(budget, stop, cap)>>
      BY <2>1 DEF Lots, L!Next, L!Size
    <3>2. asked'.budget = budget /\ asked'.stop = stop /\ asked'.cap = cap
      BY <3>1
    <3> QED
      BY <3>1, <3>2, LotAssumption DEF LotInv
  <2>2. CASE UNCHANGED lotVars
    BY <2>2 DEF lotVars, LotInv
  <2> QED
    BY <2>1, <2>2 DEF AllNext, allVars, Engines, CopiedSignals, H1Momentum, CrestNKeel, Folds
<1>3. LotInv => LotsWithinBudget
  BY LotInvImplies
<1> QED
  BY <1>1, <1>2, <1>3, PTL DEF AllSpec

-----------------------------------------------------------------------------
(* Walk-forward: every fold tests right after it trains, the next window     *)
(* starts a step after the last, and the tests made so far leave no gap.     *)

WindowType == [from : Int, to : Int]
FoldType == [is : {"skipped", "excluded", "yielded"}, train : WindowType, test : WindowType]

\* What the loop knew of a fold when it made it.
GoodFold(f) ==
  /\ f.test.from = f.train.to + sizes.purge /\ f.test.to = f.test.from + sizes.test
  /\ f.is = "skipped" => W!Slice(f.train) = {} \/ W!Slice(f.test) = {}
  /\ f.is = "yielded" => /\ W!Slice(f.train) # {} /\ W!Slice(f.test) # {}
                         /\ \A i \in DOMAIN excludes : /\ ~W!Overlap(f.train, excludes[i])
                                                       /\ ~W!Overlap(f.test, excludes[i])

Covered == folds # <<>> /\ sizes.step <= sizes.test =>
  \A t \in series : folds[1].test.from <= t /\ t <= folds[Len(folds)].test.to =>
    \E k \in DOMAIN folds : t \in W!Slice(folds[k].test)

FoldTypes ==
  /\ series \subseteq Int /\ sizes \in W!Sizes /\ foldAt \in Int
  /\ \A i \in DOMAIN excludes : excludes[i].from \in Int /\ excludes[i].to \in Int
  /\ folds \in Seq(FoldType)

FoldInv ==
  /\ FoldTypes
  /\ \A k \in DOMAIN folds : GoodFold(folds[k])
  /\ folds # <<>> => W!TestWindow.from = folds[Len(folds)].test.from + sizes.step
  /\ Covered

LEMMA SizesType ==
  ASSUME sizes \in W!Sizes
  PROVE  /\ sizes.train \in Int /\ sizes.test \in Int /\ sizes.step \in Int /\ sizes.purge \in Int
         /\ sizes.test > 0 /\ sizes.step > 0 /\ sizes.purge >= 0 /\ sizes.anchored \in BOOLEAN
  BY FoldAssumption DEF W!Sizes

LEMMA WindowsType ==
  ASSUME FoldTypes
  PROVE  /\ W!TrainWindow \in WindowType /\ W!TestWindow \in WindowType
         /\ W!TestWindow.from = W!TrainWindow.to + sizes.purge
         /\ W!TestWindow.to = W!TestWindow.from + sizes.test
         /\ W!TestWindow.from = foldAt + (IF sizes.anchored THEN 0 ELSE sizes.train) + sizes.purge
<1>1. /\ sizes.train \in Int /\ sizes.test \in Int /\ sizes.purge \in Int /\ foldAt \in Int
      /\ sizes.anchored \in BOOLEAN
  BY SizesType DEF FoldTypes
<1>2. /\ W!TrainWindow \in WindowType
      /\ W!TrainWindow.to = foldAt + (IF sizes.anchored THEN 0 ELSE sizes.train)
  BY <1>1 DEF W!TrainWindow, WindowType
<1>3. /\ W!TestWindow = [from |-> W!TrainWindow.to + sizes.purge,
                         to |-> W!TrainWindow.to + sizes.purge + sizes.test]
      /\ W!TrainWindow.to \in Int
  BY <1>2 DEF W!TestWindow, WindowType
<1> QED
  BY <1>1, <1>2, <1>3 DEF WindowType

LEMMA FoldStep ==
  ASSUME FoldInv, W!Fold
  PROVE  FoldInv'
<1> DEFINE n == Len(folds)
           f == [is |-> W!Outcome, train |-> W!TrainWindow, test |-> W!TestWindow]
<1>1. /\ folds' = Append(folds, f) /\ foldAt' = foldAt + sizes.step
      /\ UNCHANGED <<series, sizes, excludes>>
  BY DEF W!Fold
<1>2. FoldTypes /\ f \in FoldType /\ n \in Nat
  BY WindowsType DEF FoldInv, FoldTypes, FoldType, W!Outcome
<1>3. GoodFold(f)
  <2>1. /\ W!TestWindow.from = W!TrainWindow.to + sizes.purge
        /\ W!TestWindow.to = W!TestWindow.from + sizes.test
    BY <1>2, WindowsType
  <2>2. /\ W!Outcome = "skipped" => W!Slice(W!TrainWindow) = {} \/ W!Slice(W!TestWindow) = {}
        /\ W!Outcome = "yielded" => /\ W!Slice(W!TrainWindow) # {} /\ W!Slice(W!TestWindow) # {}
                                    /\ ~W!TouchesAny(W!TrainWindow, W!TestWindow)
    BY DEF W!Outcome
  <2>3. f.is = W!Outcome /\ f.train = W!TrainWindow /\ f.test = W!TestWindow
    OBVIOUS
  <2> HIDE DEF f
  <2> QED
    BY <2>1, <2>2, <2>3 DEF GoodFold, W!TouchesAny
<1>4. /\ folds' \in Seq(FoldType) /\ Len(folds') = n + 1 /\ folds'[n + 1] = f
      /\ \A k \in 1..n : folds'[k] = folds[k]
      /\ DOMAIN folds' = 1..(n + 1) /\ DOMAIN folds = 1..n
      /\ folds # <<>> <=> n >= 1
  BY <1>1, <1>2 DEF FoldTypes
<1>5. f.test = W!TestWindow
  OBVIOUS
<1> HIDE DEF n, f
<1>6. FoldTypes'
  <2>1. foldAt' \in Int
    BY <1>1, <1>2, SizesType DEF FoldTypes
  <2> QED
    BY <1>1, <1>2, <1>4, <2>1 DEF FoldTypes, W!Sizes
<1>7. \A w : W!Slice(w)' = W!Slice(w)
  BY <1>1 DEF W!Slice
<1>8. \A k \in DOMAIN folds' : GoodFold(folds[k])'
  <2> SUFFICES ASSUME NEW k \in 1..(n + 1) PROVE GoodFold(folds[k])'
    BY <1>4
  <2>1. GoodFold(folds'[k])
    <3>1. CASE k = n + 1
      BY <1>3, <1>4, <3>1
    <3>2. CASE k \in 1..n
      BY <1>4, <3>2 DEF FoldInv
    <3> QED
      BY <1>2, <3>1, <3>2
  <2> QED
    BY <1>1, <2>1 DEF GoodFold, W!Slice, W!Overlap
<1>9. W!TestWindow'.from = folds'[Len(folds')].test.from + sizes'.step
  <2> DEFINE lead == (IF sizes.anchored THEN 0 ELSE sizes.train) + sizes.purge
  <2>1. foldAt \in Int /\ sizes.step \in Int /\ lead \in Int
    BY <1>2, SizesType DEF FoldTypes
  <2>2. f.test.from = foldAt + lead
    <3>1. W!TestWindow.from = foldAt + (IF sizes.anchored THEN 0 ELSE sizes.train) + sizes.purge
      BY <1>2, WindowsType
    <3>2. sizes.train \in Int /\ sizes.purge \in Int
      BY <1>2, SizesType DEF FoldTypes
    <3> QED
      BY <1>5, <2>1, <3>1, <3>2
  <2>3. W!TestWindow'.from = foldAt' + lead
    <3>1. W!TestWindow'.from = (IF sizes'.anchored THEN foldAt' ELSE foldAt' + sizes'.train) + sizes'.purge
      BY DEF W!TestWindow, W!TrainWindow
    <3>2. sizes.train \in Int /\ sizes.purge \in Int /\ foldAt' \in Int /\ sizes' = sizes
      BY <1>1, <1>2, <1>6, SizesType DEF FoldTypes
    <3> QED
      BY <3>1, <3>2
  <2> HIDE DEF lead
  <2>4. folds'[Len(folds')] = f
    BY <1>4
  <2> QED
    BY <1>1, <2>1, <2>2, <2>3, <2>4
<1>10. Covered'
  <2> SUFFICES ASSUME sizes.step <= sizes.test, NEW t \in series,
                      folds'[1].test.from <= t, t <= folds'[n + 1].test.to
               PROVE  \E k \in 1..(n + 1) : t \in W!Slice(folds'[k].test)
    BY <1>1, <1>4, <1>7 DEF Covered
  <2>1. t \in Int /\ f.test.from \in Int /\ f.test.to \in Int /\ f.test.to = f.test.from + sizes.test
    BY <1>2, <1>3 DEF FoldTypes, FoldType, WindowType, GoodFold
  <2>2. CASE f.test.from <= t
    <3>1. t \in W!Slice(f.test)
      BY <1>4, <2>2 DEF W!Slice
    <3> QED
      BY <1>2, <1>4, <3>1
  <2>3. CASE ~(f.test.from <= t)
    <3>1. n >= 1
      BY <1>2, <1>4, <2>3
    <3>2. /\ f.test.from = folds[n].test.from + sizes.step
          /\ folds[n].test.to = folds[n].test.from + sizes.test
      BY <1>4, <1>5, <3>1 DEF FoldInv, GoodFold, n
    <3>3. folds[n].test.from \in Int /\ sizes.step \in Int /\ sizes.test \in Int
      <4>1. folds[n] \in FoldType
        BY <1>2, <1>4, <3>1 DEF FoldTypes
      <4>2. sizes.step \in Int /\ sizes.test \in Int
        BY <1>2, SizesType DEF FoldTypes
      <4> QED
        BY <4>1, <4>2 DEF FoldType, WindowType
    <3>4. t <= folds[n].test.to
      BY <2>1, <2>3, <3>2, <3>3
    <3>5. folds[1].test.from <= t
      BY <1>2, <1>4, <3>1
    <3>6. PICK k \in 1..n : t \in W!Slice(folds[k].test)
      BY <1>4, <3>1, <3>4, <3>5 DEF FoldInv, Covered, n
    <3>7. k \in 1..(n + 1) /\ folds'[k] = folds[k]
      BY <1>2, <1>4
    <3> QED
      BY <3>6, <3>7
  <2> QED
    BY <2>2, <2>3
<1> QED
  BY <1>6, <1>8, <1>9, <1>10 DEF FoldInv

LEMMA FoldInvImplies ==
  ASSUME FoldInv
  PROVE  FoldsSound
<1>1. \A k \in DOMAIN folds : /\ folds[k] \in FoldType /\ GoodFold(folds[k])
  BY DEF FoldInv, FoldTypes
<1>2. sizes.purge \in Int /\ sizes.purge >= 0
  BY SizesType DEF FoldInv, FoldTypes
<1>3. ASSUME NEW k \in DOMAIN folds, folds[k].is = "yielded"
      PROVE  LET train == W!Slice(folds[k].train)
                 test == W!Slice(folds[k].test)
             IN  /\ train # {} /\ test # {}
                 /\ \A i \in DOMAIN excludes :
                      \A t \in train \cup test : t < excludes[i].from \/ t > excludes[i].to
                 /\ \A t \in train, u \in test :
                      t <= u /\ (t = u => sizes.purge = 0 /\ t = folds[k].train.to)
  <2> DEFINE f == folds[k]
  <2>1. /\ f.train.from \in Int /\ f.train.to \in Int /\ f.test.from \in Int /\ f.test.to \in Int
        /\ f.test.from = f.train.to + sizes.purge
        /\ W!Slice(f.train) # {} /\ W!Slice(f.test) # {}
        /\ \A i \in DOMAIN excludes : /\ ~W!Overlap(f.train, excludes[i])
                                      /\ ~W!Overlap(f.test, excludes[i])
    BY <1>1, <1>3 DEF GoodFold, FoldType, WindowType
  <2> HIDE DEF f
  <2>2. /\ \A t \in W!Slice(f.train) : t \in Int /\ f.train.from <= t /\ t <= f.train.to
        /\ \A t \in W!Slice(f.test) : t \in Int /\ f.test.from <= t /\ t <= f.test.to
    BY DEF W!Slice, FoldInv, FoldTypes
  <2>3. ASSUME NEW i \in DOMAIN excludes, NEW t \in W!Slice(f.train) \cup W!Slice(f.test)
        PROVE  t < excludes[i].from \/ t > excludes[i].to
    <3>1. excludes[i].from \in Int /\ excludes[i].to \in Int
      BY DEF FoldInv, FoldTypes
    <3> QED
      BY <2>1, <2>2, <3>1 DEF W!Overlap
  <2>4. \A t \in W!Slice(f.train), u \in W!Slice(f.test) :
          t <= u /\ (t = u => sizes.purge = 0 /\ t = f.train.to)
    BY <1>2, <2>1, <2>2
  <2> QED
    BY <2>1, <2>3, <2>4 DEF f
<1>4. ASSUME folds # <<>>, sizes.step <= sizes.test, NEW t \in series,
             folds[1].test.from <= t, t <= W!Last(folds).test.to
      PROVE  \E k \in DOMAIN folds : /\ t \in W!Slice(folds[k].test)
                                     /\ folds[k].is = "skipped" => W!Slice(folds[k].train) = {}
  <2>1. PICK k \in DOMAIN folds : t \in W!Slice(folds[k].test)
    BY <1>4 DEF FoldInv, Covered, W!Last
  <2> QED
    BY <1>1, <2>1 DEF GoodFold
<1> QED
  BY <1>3, <1>4 DEF FoldsSound, W!FoldsSound

\* For any series, window sizes and exclusions: no study trains on a bar after
\* its test, sees an excluded bar, or loses a bar between the first test and the last.
THEOREM FoldsAlwaysSound == AllSpec => []FoldsSound
<1>1. AllInit => FoldInv
  <2> SUFFICES ASSUME AllInit PROVE FoldInv
    OBVIOUS
  <2>1. /\ series \subseteq Int /\ folds = <<>> /\ sizes \in W!Sizes
        /\ foldAt = IF sizes.anchored THEN sizes.train ELSE 0
        /\ excludes \in {<<>>} \cup {<<r>> : r \in W!Ranges}
    BY FoldAssumption DEF AllInit, W!Init
  <2>2. foldAt \in Int
    BY <2>1, SizesType
  <2>3. \A i \in DOMAIN excludes : excludes[i].from \in Int /\ excludes[i].to \in Int
    <3>1. \A r \in W!Ranges : r.from \in Int /\ r.to \in Int
      BY FoldAssumption DEF W!Ranges
    <3> QED
      BY <2>1, <3>1
  <2> QED
    BY <2>1, <2>2, <2>3 DEF FoldInv, FoldTypes, Covered
<1>2. FoldInv /\ [AllNext]_allVars => FoldInv'
  <2> SUFFICES ASSUME FoldInv, [AllNext]_allVars PROVE FoldInv'
    OBVIOUS
  <2>1. CASE W!Fold
    BY <2>1, FoldStep
  <2>2. CASE UNCHANGED <<series, sizes, excludes, foldAt, folds>>
    BY <2>2 DEF FoldInv, FoldTypes, GoodFold, Covered, W!Slice, W!Overlap, W!TestWindow, W!TrainWindow, W!Sizes
  <2> QED
    BY <2>1, <2>2 DEF AllNext, allVars, foldVars, Engines, CopiedSignals, H1Momentum, CrestNKeel, Folds, Lots, W!Next, W!Break
<1>3. FoldInv => FoldsSound
  BY FoldInvImplies
<1> QED
  BY <1>1, <1>2, <1>3, PTL DEF AllSpec

-----------------------------------------------------------------------------
(* Copied signals: a task has passed a take-profit for good once it has      *)
(* ordered it; a task that will raise has passed none, so a retry repeats    *)
(* nothing.  The orders of a take-profit are at most the tasks that passed.  *)

Settled == {"done", "failed", "lost"}
Waiting == [state : {"queued", "started"} \cup Settled, signal : Signals, tries : Nat]
Ordering == [state : {"ordering", "recording"}, signal : Signals, tries : Nat,
             left : SUBSET UseTps, tick : S!Ticks]
TaskType == {S!Unused} \cup Waiting \cup Ordering

Least(T) == CHOOSE k \in T : \A j \in T : k <= j
Raising(r) == content[r.signal].entry /\ r.tick = "noPrices"

Passed(r, i) ==
  \/ r.state \in Settled
  \/ r.state = "ordering" /\ i \notin r.left /\ ~Raising(r)
  \/ r.state = "recording" /\ (i \notin r.left \/ i = Least(r.left))

Passers(s, i) ==
  {d \in TaskIds : task[d].state # "unused" /\ task[d].signal = s /\ Passed(task[d], i)}

SignalInv ==
  /\ content \in [Signals -> S!Contents]
  /\ task \in [TaskIds -> TaskType]
  /\ orders \in [Signals -> [UseTps -> Nat]]
  /\ \A d \in TaskIds : task[d].state = "recording" => ~Raising(task[d])
  /\ \A s \in Signals, i \in UseTps : orders[s][i] <= Cardinality(Passers(s, i))

LEMMA LeastIsMember ==
  ASSUME NEW T \in SUBSET Nat, T # {}
  PROVE  Least(T) \in T
<1>1. PICK x \in T : \A y \in T : ~(<<y, x>> \in OpToRel(<, Nat))
  BY NatLessThanWellFounded, WFMin
<1>2. \A y \in T : x <= y
  <2> SUFFICES ASSUME NEW y \in T PROVE x <= y
    OBVIOUS
  <2>1. /\ x \in Nat /\ y \in Nat
        /\ ~(<<y, x>> \in {p \in Nat \X Nat : p[1] < p[2]})
    BY <1>1 DEF OpToRel
  <2>2. ~(y < x)
    BY <2>1
  <2> QED
    BY <2>1, <2>2
<1> QED
  BY <1>2 DEF Least

LEMMA TaskFields ==
  ASSUME NEW r \in TaskType, r.state # "unused"
  PROVE  /\ r.signal \in Signals /\ r.tries \in Nat
         /\ r.state \in {"queued", "started"} \cup Settled \cup {"ordering", "recording"}
         /\ r.state \in {"ordering", "recording"} => r \in Ordering
         /\ r.state \in {"queued", "started"} \cup Settled => r \in Waiting
  BY DEF TaskType, Waiting, Ordering, Settled, S!Unused

LEMMA CountsAlike == \A T : S!Cardinality(T) = Cardinality(T)
  BY DEF S!Cardinality, Cardinality

LEMMA PassersFinite ==
  ASSUME NEW s, NEW i
  PROVE  IsFiniteSet(Passers(s, i)) /\ Cardinality(Passers(s, i)) \in Nat
<1>1. IsFiniteSet(TaskIds)
  BY SignalAssumption
<1>2. Passers(s, i) \subseteq TaskIds
  BY DEF Passers
<1> QED
  BY <1>1, <1>2, FS_Subset, FS_CardinalityType

\* One task moves on and keeps what it passed; no order is placed.
LEMMA TaskMoves ==
  ASSUME SignalInv, NEW d \in TaskIds, NEW r \in TaskType, task[d].state # "unused",
         r.state # "unused", r.signal = task[d].signal, r.state = "recording" => ~Raising(r),
         \A i \in UseTps : Passed(task[d], i) => Passed(r, i),
         task' = [task EXCEPT ![d] = r], content' = content, orders' = orders
  PROVE  SignalInv'
<1>1. /\ task' \in [TaskIds -> TaskType] /\ task'[d] = r
      /\ \A e \in TaskIds : e # d => task'[e] = task[e]
  BY DEF SignalInv
<1>2. ASSUME NEW e \in TaskIds, task'[e].state = "recording"
      PROVE  ~(content'[task'[e].signal].entry /\ task'[e].tick = "noPrices")
  BY <1>1, <1>2 DEF SignalInv, Raising
<1>3. ASSUME NEW s \in Signals, NEW i \in UseTps
      PROVE  orders'[s][i] <= Cardinality(Passers(s, i)')
  <2>1. Passers(s, i) \subseteq Passers(s, i)'
    BY <1>1 DEF Passers, Passed, Raising
  <2>2. IsFiniteSet(Passers(s, i)')
    <3>1. Passers(s, i)' \subseteq TaskIds
      BY DEF Passers
    <3> QED
      BY <3>1, SignalAssumption, FS_Subset
  <2>3. Cardinality(Passers(s, i)) <= Cardinality(Passers(s, i)')
    BY <2>1, <2>2, FS_Subset
  <2>4. Cardinality(Passers(s, i)) \in Nat /\ Cardinality(Passers(s, i)') \in Nat
    BY <2>2, PassersFinite, FS_CardinalityType
  <2>5. orders[s][i] \in Nat /\ orders[s][i] <= Cardinality(Passers(s, i))
    BY DEF SignalInv
  <2> QED
    BY <2>3, <2>4, <2>5
<1> QED
  BY <1>1, <1>2, <1>3 DEF SignalInv, Raising

\* One task orders a take-profit it had not passed, and has passed it then.
LEMMA TaskOrders ==
  ASSUME SignalInv, NEW d \in TaskIds, NEW r \in TaskType, NEW i0 \in UseTps,
         task[d].state # "unused", r.state # "unused", r.signal = task[d].signal,
         r.state = "recording" => ~Raising(r),
         \A i \in UseTps : Passed(task[d], i) => Passed(r, i),
         ~Passed(task[d], i0), Passed(r, i0),
         task' = [task EXCEPT ![d] = r], content' = content,
         orders' = [orders EXCEPT ![task[d].signal][i0] = @ + 1]
  PROVE  SignalInv'
<1> DEFINE s0 == task[d].signal
<1>1. /\ task' \in [TaskIds -> TaskType] /\ task'[d] = r
      /\ \A e \in TaskIds : e # d => task'[e] = task[e]
  BY DEF SignalInv
<1>2. ASSUME NEW e \in TaskIds, task'[e].state = "recording"
      PROVE  ~(content'[task'[e].signal].entry /\ task'[e].tick = "noPrices")
  BY <1>1, <1>2 DEF SignalInv, Raising
<1>3. /\ orders' \in [Signals -> [UseTps -> Nat]]
      /\ \A s \in Signals, i \in UseTps :
           orders'[s][i] = IF s = s0 /\ i = i0 THEN orders[s][i] + 1 ELSE orders[s][i]
  <2>1. s0 \in Signals
    BY TaskFields DEF SignalInv
  <2>2. orders \in [Signals -> [UseTps -> Nat]]
    BY DEF SignalInv
  <2> HIDE DEF s0
  <2>3. orders' = [orders EXCEPT ![s0][i0] = @ + 1]
    BY DEF s0
  <2> QED
    BY <2>1, <2>2, <2>3
<1>4. ASSUME NEW s \in Signals, NEW i \in UseTps
      PROVE  orders'[s][i] <= Cardinality(Passers(s, i)')
  <2>1. Passers(s, i) \subseteq Passers(s, i)'
    BY <1>1 DEF Passers, Passed, Raising
  <2>2. IsFiniteSet(Passers(s, i)')
    <3>1. Passers(s, i)' \subseteq TaskIds
      BY DEF Passers
    <3> QED
      BY <3>1, SignalAssumption, FS_Subset
  <2>3. Cardinality(Passers(s, i)) <= Cardinality(Passers(s, i)')
    BY <2>1, <2>2, FS_Subset
  <2>4. Cardinality(Passers(s, i)) \in Nat /\ Cardinality(Passers(s, i)') \in Nat
    BY <2>2, PassersFinite, FS_CardinalityType
  <2>5. orders[s][i] \in Nat /\ orders[s][i] <= Cardinality(Passers(s, i))
    BY DEF SignalInv
  <2>6. CASE s = s0 /\ i = i0
    <3>1. d \notin Passers(s, i) /\ d \in Passers(s, i)'
      BY <1>1, <2>6 DEF Passers, Passed, Raising
    <3>2. Passers(s, i) \cup {d} \subseteq Passers(s, i)'
      BY <2>1, <3>1
    <3>3. Cardinality(Passers(s, i) \cup {d}) = Cardinality(Passers(s, i)) + 1
      BY <3>1, PassersFinite, FS_AddElement, Zenon
    <3>4. Cardinality(Passers(s, i) \cup {d}) <= Cardinality(Passers(s, i)')
      BY <2>2, <3>2, FS_Subset
    <3> QED
      BY <1>3, <2>4, <2>5, <2>6, <3>3, <3>4
  <2>7. CASE ~(s = s0 /\ i = i0)
    BY <1>3, <2>3, <2>4, <2>5, <2>7
  <2> QED
    BY <2>6, <2>7
<1> QED
  BY <1>1, <1>2, <1>3, <1>4 DEF SignalInv, Raising

LEMMA TakeAndParse ==
  ASSUME SignalInv, NEW d \in TaskIds, S!Take(d) \/ S!Parse(d)
  PROVE  SignalInv'
<1> DEFINE q == task[d]
<1>1. q \in TaskType /\ (q.state \in {"queued", "started"} => q \in Waiting)
  BY TaskFields DEF SignalInv
<1>2. CASE S!Take(d)
  <2> DEFINE r == [q EXCEPT !.state = "started"]
  <2>1. q.state = "queued" /\ task' = [task EXCEPT ![d] = r]
    BY <1>2 DEF S!Take
  <2>2. r \in Waiting /\ r.state = "started" /\ r.signal = q.signal
    BY <1>1, <2>1 DEF Waiting
  <2>3. \A i \in UseTps : ~Passed(q, i)
    BY <2>1 DEF Passed, Settled
  <2>4. r \in TaskType
    BY <2>2 DEF TaskType
  <2> HIDE DEF r
  <2> QED
    BY <1>2, <2>1, <2>2, <2>3, <2>4, TaskMoves DEF S!Take
<1>3. ASSUME S!Parse(d), NEW r \in TaskType, task' = [task EXCEPT ![d] = r],
             r.signal = q.signal, r.state \notin {"unused", "recording"}
      PROVE  SignalInv'
  <2>1. q.state = "started"
    BY <1>3 DEF S!Parse
  <2>2. \A i \in UseTps : ~Passed(q, i)
    BY <2>1 DEF Passed, Settled
  <2> QED
    BY <1>3, <2>1, <2>2, TaskMoves DEF S!Parse
<1>4. CASE S!Parse(d)
  <2>1. q.state = "started" /\ q \in Waiting /\ q.signal \in Signals /\ q.tries \in Nat
    BY <1>1, <1>4 DEF S!Parse, Waiting
  <2>2. CASE task' = [task EXCEPT ![d] = S!Over(d, "done")]
    <3>1. S!Over(d, "done") \in Waiting /\ S!Over(d, "done").signal = q.signal /\ S!Over(d, "done").state = "done"
      BY <2>1 DEF S!Over, Waiting, Settled
    <3> QED
      BY <1>3, <1>4, <2>2, <3>1 DEF TaskType
  <2>3. ASSUME NEW t \in S!Ticks,
               task' = [task EXCEPT ![d] =
                          [state |-> "ordering", signal |-> q.signal, tries |-> q.tries,
                           left |-> S!Targets(content[q.signal].named), tick |-> t]]
        PROVE  SignalInv'
    <3> DEFINE left == S!Targets(content[q.signal].named)
               r == [state |-> "ordering", signal |-> q.signal, tries |-> q.tries,
                     left |-> left, tick |-> t]
    <3>1. left \in SUBSET UseTps
      BY <2>1 DEF S!Targets, SignalInv, S!Contents
    <3> HIDE DEF left
    <3>2. r \in Ordering /\ r.signal = q.signal /\ r.state = "ordering"
      BY <2>1, <3>1 DEF Ordering
    <3>3. task' = [task EXCEPT ![d] = r]
      BY <2>3 DEF left
    <3> HIDE DEF r
    <3> QED
      BY <1>3, <1>4, <3>2, <3>3 DEF TaskType
  <2>4. CASE task' = [task EXCEPT ![d] = S!Retry(d)]
    <3>1. /\ S!Retry(d) \in Waiting /\ S!Retry(d).signal = q.signal
          /\ S!Retry(d).state \in {"queued", "failed"}
      BY <2>1 DEF S!Retry, S!Queued, S!Over, Waiting, Settled
    <3> QED
      BY <1>3, <1>4, <2>4, <3>1 DEF TaskType
  <2> QED
    BY <1>4, <2>2, <2>3, <2>4 DEF S!Parse
<1> QED
  BY <1>2, <1>4

LEMMA OrderingStep ==
  ASSUME SignalInv, NEW d \in TaskIds,
         S!Finished(d) \/ S!RaisesBeforeOrder(d) \/ S!PlaceOrder(d) \/ S!Record(d) \/ S!Kill(d)
  PROVE  SignalInv'
<1> DEFINE q == task[d]
<1>1. q \in TaskType /\ (q.state # "unused" => q.signal \in Signals /\ q.tries \in Nat)
      /\ (q.state \in {"ordering", "recording"} => q \in Ordering)
  BY TaskFields DEF SignalInv
<1>2. CASE S!Finished(d) \/ S!Kill(d)
  <2> DEFINE r == IF S!Finished(d) THEN S!Over(d, "done") ELSE S!Over(d, "lost")
  <2>1. q.state # "unused" /\ task' = [task EXCEPT ![d] = r]
        /\ UNCHANGED <<content, orders>>
    BY <1>2 DEF S!Finished, S!Kill, S!KillLoses, S!RunningTasks, S!InState
  <2>2. r \in Waiting /\ r.state \in Settled /\ r.signal = q.signal
    BY <1>1, <2>1 DEF S!Over, Waiting, Settled
  <2> HIDE DEF r
  <2>3. r \in TaskType /\ r.state \notin {"unused", "recording"} /\ \A i \in UseTps : Passed(r, i)
    BY <2>2 DEF TaskType, Passed, Settled
  <2> QED
    BY <2>1, <2>2, <2>3, TaskMoves
<1>3. CASE S!RaisesBeforeOrder(d)
  <2>1. q.state = "ordering" /\ Raising(q) /\ task' = [task EXCEPT ![d] = S!Retry(d)]
        /\ UNCHANGED <<content, orders>>
    BY <1>3 DEF S!RaisesBeforeOrder, S!Raises, Raising
  <2>2. /\ S!Retry(d) \in TaskType /\ S!Retry(d).signal = q.signal
        /\ S!Retry(d).state \in {"queued", "failed"}
    BY <1>1, <2>1 DEF S!Retry, S!Queued, S!Over, TaskType, Waiting, Settled
  <2>3. \A i \in UseTps : ~Passed(q, i)
    BY <2>1 DEF Passed, Settled
  <2> QED
    BY <2>1, <2>2, <2>3, TaskMoves
<1>4. ASSUME q.state \in {"ordering", "recording"}, NEW i0, NEW how \in {"ordering", "recording"}
      PROVE  LET r == [q EXCEPT !.left = @ \ {i0}, !.state = how]
                 rec == [q EXCEPT !.state = how]
             IN  /\ r \in TaskType /\ r.signal = q.signal /\ r.tick = q.tick /\ r.state = how
                 /\ r.left = q.left \ {i0} /\ (Raising(r) <=> Raising(q))
                 /\ rec \in TaskType /\ rec.signal = q.signal /\ rec.tick = q.tick
                 /\ rec.state = how /\ rec.left = q.left /\ (Raising(rec) <=> Raising(q))
  <2>1. q \in Ordering
    BY <1>1, <1>4
  <2> QED
    BY <2>1, <1>4 DEF Ordering, Raising, TaskType
<1>5. CASE S!PlaceOrder(d)
  <2> DEFINE i0 == Least(q.left)
             r == [q EXCEPT !.left = @ \ {i0}, !.state = "ordering"]
             rec == [q EXCEPT !.state = "recording"]
             ordered == [orders EXCEPT ![q.signal][i0] = @ + 1]
  <2>1. q.state = "ordering" /\ q.left # {} /\ ~Raising(q) /\ content' = content
    BY <1>5 DEF S!PlaceOrder, S!Raises, Raising
  <2>2. q.left \in SUBSET UseTps /\ i0 \in q.left /\ i0 \in UseTps
    <3>1. q.left \in SUBSET UseTps
      BY <1>1, <2>1 DEF Ordering
    <3>2. q.left \in SUBSET Nat
      BY <3>1, SignalAssumption
    <3> QED
      BY <2>1, <3>1, <3>2, LeastIsMember
  <2>3. r = [q EXCEPT !.left = @ \ {i0}]
    BY <1>1, <2>1 DEF Ordering
  <2>4. \/ task' = [task EXCEPT ![d].left = @ \ {i0}] /\ UNCHANGED orders
        \/ task' = [task EXCEPT ![d].left = @ \ {i0}] /\ orders' = ordered
        \/ task' = [task EXCEPT ![d].state = "recording"] /\ orders' = ordered
    BY <1>5 DEF S!PlaceOrder, Least
  <2>5. /\ [task EXCEPT ![d].left = @ \ {i0}] = [task EXCEPT ![d] = r]
        /\ [task EXCEPT ![d].state = "recording"] = [task EXCEPT ![d] = rec]
    BY <2>3
  <2>6. /\ r \in TaskType /\ r.signal = q.signal /\ r.state = "ordering"
        /\ r.left = q.left \ {i0} /\ (Raising(r) <=> Raising(q))
        /\ rec \in TaskType /\ rec.signal = q.signal /\ rec.state = "recording"
        /\ rec.left = q.left /\ (Raising(rec) <=> Raising(q))
    BY <1>4, <2>1
  <2> HIDE DEF i0, r, rec
  <2>7. /\ \A i \in UseTps : Passed(q, i) => Passed(r, i) /\ Passed(rec, i)
        /\ ~Passed(q, i0) /\ Passed(r, i0) /\ Passed(rec, i0)
    BY <2>1, <2>2, <2>6 DEF Passed, Settled, i0
  <2>8. CASE task' = [task EXCEPT ![d].left = @ \ {i0}] /\ UNCHANGED orders
    <3>1. task' = [task EXCEPT ![d] = r]
      BY <2>5, <2>8
    <3> QED
      BY <2>1, <2>6, <2>7, <2>8, <3>1, TaskMoves
  <2>9. CASE task' = [task EXCEPT ![d].left = @ \ {i0}] /\ orders' = ordered
    <3>1. task' = [task EXCEPT ![d] = r]
      BY <2>5, <2>9
    <3> QED
      BY <2>1, <2>2, <2>6, <2>7, <2>9, <3>1, TaskOrders
  <2>10. CASE task' = [task EXCEPT ![d].state = "recording"] /\ orders' = ordered
    <3>1. task' = [task EXCEPT ![d] = rec]
      BY <2>5, <2>10
    <3> QED
      BY <2>1, <2>2, <2>6, <2>7, <2>10, <3>1, TaskOrders
  <2> QED
    BY <2>4, <2>8, <2>9, <2>10
<1>6. CASE S!Record(d)
  <2> DEFINE i0 == Least(q.left)
             r == [q EXCEPT !.left = @ \ {i0}, !.state = "ordering"]
  <2>1. /\ q.state = "recording" /\ ~Raising(q) /\ UNCHANGED <<content, orders>>
        /\ task' = [task EXCEPT ![d].left = @ \ {i0}, ![d].state = "ordering"]
    BY <1>6 DEF S!Record, Least, SignalInv
  <2>2. task' = [task EXCEPT ![d] = r]
    BY <2>1 DEF SignalInv
  <2>3. /\ r \in TaskType /\ r.signal = q.signal /\ r.state = "ordering"
        /\ r.left = q.left \ {i0} /\ (Raising(r) <=> Raising(q))
    BY <1>4, <2>1
  <2> HIDE DEF r
  <2>4. \A i \in UseTps : Passed(q, i) => Passed(r, i)
    BY <2>1, <2>3 DEF Passed, Settled
  <2> QED
    BY <2>1, <2>2, <2>3, <2>4, TaskMoves
<1> QED
  BY <1>2, <1>3, <1>5, <1>6

\* A message becomes a task per listener that could queue one.
LEMMA PostStep ==
  ASSUME SignalInv, NEW s0 \in Signals, S!Post(s0)
  PROVE  SignalInv'
<1>1. PICK new \in SUBSET S!InState({"unused"}) :
        task' = [d \in TaskIds |-> IF d \in new THEN S!Queued(s0, 0) ELSE task[d]]
  BY DEF S!Post
<1>2. UNCHANGED <<content, orders>>
  BY DEF S!Post
<1>3. \A d \in new : d \in TaskIds /\ task[d].state = "unused"
  BY DEF S!InState
<1>4. S!Queued(s0, 0) \in TaskType /\ S!Queued(s0, 0).state = "queued"
  BY DEF S!Queued, TaskType, Waiting
<1>5. task' \in [TaskIds -> TaskType]
  BY <1>1, <1>4 DEF SignalInv
<1>6. \A d \in TaskIds : /\ d \in new => task'[d].state = "queued" /\ task[d].state = "unused"
                         /\ d \notin new => task'[d] = task[d]
  BY <1>1, <1>3, <1>4
<1>7. \A s \in Signals, i \in UseTps : Passers(s, i)' = Passers(s, i)
  BY <1>2, <1>6 DEF Passers, Passed, Raising, Settled
<1> QED
  BY <1>2, <1>5, <1>6, <1>7 DEF SignalInv, Raising

\* Every take-profit of a copied signal gets at most one order per task made of
\* the signal, however many listeners, retries, kills and lost answers there are.
THEOREM OnceAlwaysPerTask == AllSpec => []OrdersPerTask
<1>1. AllInit => SignalInv
  <2> SUFFICES ASSUME AllInit PROVE SignalInv
    OBVIOUS
  <2>1. /\ content \in [Signals -> S!Contents]
        /\ task = [d \in TaskIds |-> S!Unused]
        /\ orders = [s \in Signals |-> [i \in UseTps |-> 0]]
    BY DEF AllInit, S!Init
  <2>2. task \in [TaskIds -> TaskType] /\ \A d \in TaskIds : task[d].state = "unused"
    BY <2>1 DEF TaskType, S!Unused
  <2>3. \A s \in Signals, i \in UseTps : orders[s][i] = 0 /\ Cardinality(Passers(s, i)) \in Nat
    BY <2>1, PassersFinite
  <2> QED
    BY <2>1, <2>2, <2>3 DEF SignalInv
<1>2. SignalInv /\ [AllNext]_allVars => SignalInv'
  <2> SUFFICES ASSUME SignalInv, [AllNext]_allVars PROVE SignalInv'
    OBVIOUS
  <2>1. CASE CopiedSignals
    <3>1. CASE S!StartListener \/ S!ListenerEnds
      BY <3>1 DEF S!StartListener, S!ListenerEnds, SignalInv, Passers, Passed, Raising
    <3> QED
      BY <2>1, <3>1, PostStep, TakeAndParse, OrderingStep DEF CopiedSignals, S!Next, S!Work
  <2>2. CASE UNCHANGED signalVars
    BY <2>2 DEF signalVars, SignalInv, Passers, Passed, Raising
  <2> QED
    BY <2>1, <2>2 DEF AllNext, allVars, Engines, H1Momentum, CrestNKeel, Folds, Lots
<1>3. SignalInv => OrdersPerTask
  <2> SUFFICES ASSUME SignalInv, NEW s \in Signals, NEW i \in UseTps
               PROVE  orders[s][i] <= Cardinality(S!TasksOf(s))
    BY CountsAlike DEF OrdersPerTask, S!OrdersPerTask
  <2>1. IsFiniteSet(S!TasksOf(s)) /\ Passers(s, i) \subseteq S!TasksOf(s)
    <3>1. S!TasksOf(s) \subseteq TaskIds
      BY DEF S!TasksOf
    <3>2. Passers(s, i) \subseteq S!TasksOf(s)
      BY DEF Passers, S!TasksOf
    <3> QED
      BY <3>1, <3>2, SignalAssumption, FS_Subset
  <2>2. Cardinality(Passers(s, i)) <= Cardinality(S!TasksOf(s))
    BY <2>1, FS_Subset
  <2>3. Cardinality(S!TasksOf(s)) \in Nat /\ Cardinality(Passers(s, i)) \in Nat
    BY <2>1, PassersFinite, FS_CardinalityType
  <2> QED
    BY <2>2, <2>3 DEF SignalInv
<1> QED
  BY <1>1, <1>2, <1>3, PTL DEF AllSpec
=============================================================================
