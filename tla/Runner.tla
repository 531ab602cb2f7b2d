------------------------------- MODULE Runner -------------------------------
(***************************************************************************)
(* The bar loop run() with the flood_tide strategy.  Features are computed *)
(* once on the whole series (prepare) and read at the last closed bar; the *)
(* loop manages the open position, then looks for an entry, then writes    *)
(* the row of the bar.  Three runs go bar by bar next to each other: on    *)
(* the full series, on a prefix of it whose last bar is still forming      *)
(* (another close, high and low), and on the full series with entries      *)
(* disabled.  Prices are integers.  The span of the higher-timeframe EMA   *)
(* is one, where the EMA is the close.                                     *)
(***************************************************************************)
EXTENDS Integers, Sequences, FiniteSetsExt, Functions

CONSTANTS AllSeries,   \* series of bars with increasing times
          EntryLen, ExitLen, StopLen, ErLen, \* bars
          Multiple,    \* time units per higher-timeframe bar
          ErTenths,    \* er_threshold in tenths
          Cooldown,    \* reentry_cooldown_bars
          Unfinished,  \* [high, low, close] of a bar that is still forming
          Seeds,       \* stops of a position that is open at the start
          None

BarType == [time : Nat, open : Nat, high : Nat, low : Nat, close : Nat]

ASSUME RunnerAssumption ==
  /\ \A s \in AllSeries :
       /\ s \in Seq(BarType)
       /\ \A j, k \in DOMAIN s : j < k => s[j].time < s[k].time
  /\ Unfinished \subseteq [high : Nat, low : Nat, close : Nat]
  /\ {EntryLen, ExitLen, StopLen, ErLen, Multiple} \subseteq Nat \ {0}
  /\ {ErTenths, Cooldown} \subseteq Nat /\ Seeds \subseteq Int /\ None \notin Int

Runs == {"full", "forming", "retired"}

VARIABLES series,    \* the bars of each run
          i,         \* the bar at hand
          position,  \* the stop of the open position, or None
          lastEntry, \* _last_entry_index
          rows       \* the rows written: [held, stop, entered, exited]

vars == <<series, i, position, lastEntry, rows>>

----------------------------------------------------------------------------
\* Features of bar k of series s; the first, rolling(n).min().shift(1), looks at
\* the n bars before bar k.
LowestLow(s, k, n) == Min({s[j].low : j \in (k - n)..(k - 1)})

Breakout(s, k) == \A j \in (k - EntryLen)..(k - 1) : s[k].close > s[j].high

\* The higher-timeframe bar of bar j is known when bar k opens.
PeriodStart(b) == b.time - (b.time % Multiple)

PeriodEnd(b) == PeriodStart(b) + Multiple

AvailableFromStart(s, j, k) == PeriodStart(s[j]) <= s[k].time

Available(s, j, k) == PeriodEnd(s[j]) <= s[k].time

\* The close is above that of the last higher-timeframe bar available.
AboveTrend(s, k) ==
  \E j \in DOMAIN s : /\ Available(s, j, k) /\ s[k].close > s[j].close
                      /\ \A l \in DOMAIN s : Available(s, l, k) => l <= j

Distance(a, b) == IF a < b THEN b - a ELSE a - b

PathLength(s, k) ==
  SumFunction([j \in (k - ErLen + 1)..k |-> Distance(s[j].close, s[j - 1].close)])

Efficient(s, k) ==
  /\ PathLength(s, k) > 0
  /\ 10 * Distance(s[k].close, s[k - ErLen].close) > ErTenths * PathLength(s, k)

Candidate(s, k) == Breakout(s, k) /\ AboveTrend(s, k) /\ Efficient(s, k)

\* warmup_bars
Warmup == Max({EntryLen, ExitLen, StopLen, ErLen, Multiple}) + 1

----------------------------------------------------------------------------
\* The last bar the strategy can read when bar k forms.
LastClosed(k) == k - 1

\* manage_position: close on a breach, or raise the stop to the exit low.
ManagedFreely(s, k, stop) ==
  IF stop = None \/ s[LastClosed(k)].close <= stop THEN None
  ELSE LowestLow(s, LastClosed(k), ExitLen)

ManagedFirst(s, k, stop) ==
  LET trail == LowestLow(s, LastClosed(k), ExitLen)
  IN  IF stop = None THEN None ELSE IF trail > stop THEN trail
      ELSE IF s[LastClosed(k)].close <= stop THEN None ELSE stop

Managed(s, k, stop) ==
  LET trail == LowestLow(s, LastClosed(k), ExitLen)
  IN  IF stop = None \/ s[LastClosed(k)].close <= stop THEN None
      ELSE IF trail > stop THEN trail ELSE stop

\* evaluate_entry
Cooled(k, last) == last = None \/ k - last >= Cooldown

CooledDown(k, last) == last = None \/ k - last > Cooldown

StopDistance(s, k) ==
  s[LastClosed(k)].close - LowestLow(s, LastClosed(k), StopLen)

Wanted(s, k, last) ==
  Candidate(s, LastClosed(k)) /\ CooledDown(k, last) /\ StopDistance(s, k) > 0

EntriesEnabled(r) == r # "retired"

\* One pass of the loop: what is open after bar k of run r.
Enters(r, k) ==
  /\ Managed(series[r], k, position[r]) = None /\ EntriesEnabled(r)
  /\ Wanted(series[r], k, lastEntry[r])

OpenAfterUnmanaged(r, k) ==
  IF ~EntriesEnabled(r) THEN position[r]
  ELSE IF Enters(r, k) THEN series[r][k].open - StopDistance(series[r], k)
  ELSE Managed(series[r], k, position[r])

OpenAfter(r, k) == IF Enters(r, k) THEN series[r][k].open - StopDistance(series[r], k)
                   ELSE Managed(series[r], k, position[r])

Row(r, k) == [held |-> OpenAfter(r, k) # None, stop |-> OpenAfter(r, k),
              entered |-> Enters(r, k),
              exited |-> position[r] # None /\ Managed(series[r], k, position[r]) = None]

Blank == [held |-> FALSE, stop |-> None, entered |-> FALSE, exited |-> FALSE]

----------------------------------------------------------------------------
\* The prefix of a series in which bar `last' is still forming.
Forming(s, last, u) ==
  [k \in 1..last |-> IF k < last THEN s[k]
                     ELSE [s[k] EXCEPT !.high = u.high, !.low = u.low, !.close = u.close]]

Init == /\ \E s \in AllSeries :
             \E last \in DOMAIN s, u \in Unfinished :
               series = [r \in Runs |-> IF r = "forming" THEN Forming(s, last, u) ELSE s]
        /\ i = 1
        /\ \E seed \in Seeds \union {None} : position = [r \in Runs |-> seed]
        /\ lastEntry = [r \in Runs |-> None]
        /\ rows = [r \in Runs |-> <<>>]

Running(r) == i <= Len(series[r])

\* Bars of the warm-up are passed over.
Skip == /\ i <= Warmup
        /\ rows' = [r \in Runs |-> IF Running(r) THEN Append(rows[r], Blank) ELSE rows[r]]
        /\ UNCHANGED <<position, lastEntry>>

Work == /\ i > Warmup
        /\ position' = [r \in Runs |-> IF Running(r) THEN OpenAfter(r, i) ELSE position[r]]
        /\ lastEntry' = [r \in Runs |-> IF Running(r) /\ Enters(r, i) THEN i ELSE lastEntry[r]]
        /\ rows' = [r \in Runs |-> IF Running(r) THEN Append(rows[r], Row(r, i)) ELSE rows[r]]

Next == /\ i <= Len(series["full"]) /\ i' = i + 1
        /\ Skip \/ Work
        /\ UNCHANGED series

Spec == Init /\ [][Next]_vars

----------------------------------------------------------------------------
TypeOK ==
  /\ i \in Nat \ {0}
  /\ position \in [Runs -> Int \union {None}]
  /\ lastEntry \in [Runs -> Nat \union {None}]
  /\ rows \in [Runs -> Seq([held : BOOLEAN, stop : Int \union {None},
                            entered : BOOLEAN, exited : BOOLEAN])]
  /\ \A r \in Runs : Len(rows[r]) <= Len(series[r])
  /\ \A r \in Runs : \A k \in DOMAIN rows[r] : rows[r][k].held <=> rows[r][k].stop # None

(***************************************************************************)
(* "Truncating the tail of bars and re-running reproduces the surviving    *)
(* prefix exactly" and "signal generation never reads the bar still        *)
(* forming" (base.py:217, test_lookahead.py:123): every row of the run on  *)
(* a prefix whose last bar closes differently is the row of the full run.  *)
(***************************************************************************)
NoLookAhead == \A k \in DOMAIN rows["forming"] : rows["forming"][k] = rows["full"][k]

(***************************************************************************)
(* "management of an open position continues regardless" (base.py:223):    *)
(* with entries disabled a run never enters, and a position that was open  *)
(* gets the stops and the exit that it gets with entries enabled.          *)
(***************************************************************************)
RetiredIsManagedAlike ==
  \A k \in DOMAIN rows["retired"] :
    /\ ~rows["retired"][k].entered
    /\ (\A j \in 1..k : ~rows["full"][j].entered)
         => rows["retired"][k] = rows["full"][k]

(***************************************************************************)
(* "An exit fires when a closed bar's close breaches the working stop, and *)
(* is filled at the next open" (flood_tide.py:39): a position that a row   *)
(* shows is gone in the next row exactly when the bar closed at or below   *)
(* the stop in that row.                                                   *)
(***************************************************************************)
BreachExits == \A r \in Runs : \A k \in DOMAIN rows[r] :
  k > 1 /\ rows[r][k - 1].held
    => (rows[r][k].exited <=> series[r][k - 1].close <= rows[r][k - 1].stop)

(***************************************************************************)
(* "A stop that can move down is not a stop" (flood_tide.py:244): as long  *)
(* as a position is held, its stop does not fall, and no new entry         *)
(* replaces it.                                                            *)
(***************************************************************************)
StopRatchets == \A r \in Runs : \A k \in DOMAIN rows[r] :
  k > 1 /\ rows[r][k - 1].held /\ ~rows[r][k].exited
    => rows[r][k].held /\ ~rows[r][k].entered /\ rows[r][k].stop >= rows[r][k - 1].stop

(***************************************************************************)
(* Two entries are more than the cooldown apart, whatever exits lie        *)
(* between them (flood_tide.py:218).                                       *)
(***************************************************************************)
EntriesApart == \A r \in Runs : \A j, k \in DOMAIN rows[r] :
  j < k /\ rows[r][j].entered /\ rows[r][k].entered => k - j > Cooldown
============================================================================
