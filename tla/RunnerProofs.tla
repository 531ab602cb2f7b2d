---------------------------- MODULE RunnerProofs ----------------------------
(***************************************************************************)
(* Proofs about Runner, for any series of bars, windows, thresholds and    *)
(* seeded stops: a run never looks ahead, exits and stops follow the       *)
(* closed bars, entries are a cooldown apart, and disabling entries leaves *)
(* management alone.                                                       *)
(***************************************************************************)
EXTENDS Runner, WellFoundedInduction, TLAPS

RowType == [held : BOOLEAN, stop : Int \union {None}, entered : BOOLEAN, exited : BOOLEAN]

LEMMA Constants ==
  /\ EntryLen \in Nat \ {0} /\ ExitLen \in Nat \ {0} /\ StopLen \in Nat \ {0}
  /\ ErLen \in Nat \ {0} /\ Multiple \in Nat \ {0}
  /\ ErTenths \in Nat /\ Cooldown \in Nat /\ Seeds \subseteq Int /\ None \notin Int
BY RunnerAssumption

\* rolling(n).min() finds one of the values it looks at.
LEMMA MinNat ==
  ASSUME NEW S \in SUBSET Nat, S # {}
  PROVE  Min(S) \in S
<1>1. PICK x \in S : \A y \in S : ~(<<y, x>> \in OpToRel(<, Nat))
  BY NatLessThanWellFounded, WFMin
<1>2. \A y \in S : x <= y
  <2> SUFFICES ASSUME NEW y \in S PROVE x <= y
    OBVIOUS
  <2>1. /\ x \in Nat /\ y \in Nat
        /\ ~(<<y, x>> \in {ss \in Nat \X Nat : ss[1] < ss[2]})
    BY <1>1 DEF OpToRel
  <2>2. ~(y < x)
    BY <2>1
  <2> QED
    BY <2>1, <2>2
<1> QED
  BY <1>2 DEF Min

\* The low channel is a price once its window is full.
LEMMA LowIsNat ==
  ASSUME NEW s \in Seq(BarType), NEW n \in Nat \ {0}, NEW k \in DOMAIN s, k > n
  PROVE  LowestLow(s, k, n) \in Nat
<1> DEFINE S == {s[j].low : j \in (k - n)..(k - 1)}
<1>1. \A j \in (k - n)..(k - 1) : j \in DOMAIN s
  BY SMT
<1>2. \A j \in DOMAIN s : s[j].low \in Nat
  <2> SUFFICES ASSUME NEW j \in DOMAIN s PROVE s[j].low \in Nat
    OBVIOUS
  <2>1. s[j] \in BarType
    BY SMT
  <2> QED
    BY <2>1 DEF BarType
<1>3. s[k - 1].low \in S
  BY SMT
<1>4. S \in SUBSET Nat
  BY <1>1, <1>2
<1> HIDE DEF S
<1>5. Min(S) \in Nat
  BY <1>3, <1>4, MinNat
<1> QED
  BY <1>5 DEF LowestLow, S

\* After the warm-up every window is full.
LEMMA WarmupCovers ==
  /\ Warmup \in Nat
  /\ \A n \in {EntryLen, ExitLen, StopLen, ErLen, Multiple} : Warmup >= n + 1
<1> DEFINE S == {EntryLen, ExitLen, StopLen, ErLen, Multiple}
<1>1. \A a, b, c, d, e \in Nat :
        \E x \in {a, b, c, d, e} : x >= a /\ x >= b /\ x >= c /\ x >= d /\ x >= e
  BY SMT
<1>2. \E x \in S : \A y \in S : x >= y
  BY <1>1, Constants
<1>3. Max(S) \in S /\ \A y \in S : Max(S) >= y
  BY <1>2 DEF Max
<1>4. S \subseteq Nat
  BY Constants
<1>5. Warmup = Max(S) + 1
  BY DEF Warmup
<1> HIDE DEF S
<1>6. Max(S) \in Nat /\ \A n \in S : n \in Nat /\ Max(S) >= n
  BY <1>3, <1>4
<1>7. Warmup \in Nat /\ \A n \in S : Warmup >= n + 1
  BY <1>5, <1>6, SMT
<1> QED
  BY <1>7 DEF S
\* g is a beginning of f whose last bar may still be forming.
Beginning(f, g) ==
  /\ f \in Seq(BarType) /\ g \in Seq(BarType)
  /\ \A j, k \in DOMAIN f : j < k => f[j].time < f[k].time
  /\ Len(g) <= Len(f)
  /\ \A j \in DOMAIN g : /\ g[j].time = f[j].time /\ g[j].open = f[j].open
                         /\ j < Len(g) => g[j] = f[j]

LEMMA SameLow ==
  ASSUME NEW f, NEW g, Beginning(f, g), NEW n \in Nat \ {0}, NEW k \in DOMAIN g, k > n
  PROVE  LowestLow(g, k, n) = LowestLow(f, k, n)
<1>1. \A j \in (k - n)..(k - 1) : g[j] = f[j]
  BY SMT DEF Beginning
<1>2. {g[j].low : j \in (k - n)..(k - 1)} = {f[j].low : j \in (k - n)..(k - 1)}
  BY <1>1
<1> QED
  BY <1>2 DEF LowestLow

\* A higher-timeframe close that is available belongs to an earlier bar.
LEMMA AvailableIsPast ==
  ASSUME NEW s \in Seq(BarType), \A j, k \in DOMAIN s : j < k => s[j].time < s[k].time,
         NEW j \in DOMAIN s, NEW k \in DOMAIN s, Available(s, j, k)
  PROVE  j < k
<1>1. s[j] \in BarType /\ s[k] \in BarType
  BY SMT
<1>2. s[j].time \in Nat /\ s[k].time \in Nat
  BY <1>1 DEF BarType
<1>3. \A t \in Nat : t % Multiple \in Nat /\ t % Multiple < Multiple
  BY Constants, SMT
<1>4. s[j].time - (s[j].time % Multiple) + Multiple <= s[k].time
  BY DEF Available, PeriodEnd, PeriodStart
<1>5. \A t, u, m, M \in Nat : m < M /\ t - m + M <= u => t < u
  BY SMT
<1>6. s[j].time < s[k].time
  BY <1>2, <1>3, <1>4, <1>5, Constants
<1> QED
  BY <1>2, <1>6, SMT

LEMMA SameTrend ==
  ASSUME NEW f, NEW g, Beginning(f, g), NEW k \in DOMAIN g, k < Len(g)
  PROVE  AboveTrend(g, k) <=> AboveTrend(f, k)
<1>1. /\ DOMAIN g \subseteq DOMAIN f
      /\ \A j, l \in DOMAIN g : j < l => g[j].time < g[l].time
  BY SMTT(30) DEF Beginning
<1>2. \A j \in DOMAIN g : Available(g, j, k) <=> Available(f, j, k)
  BY DEF Beginning, Available, PeriodEnd, PeriodStart
<1>3. \A j \in DOMAIN f : Available(f, j, k) => j \in DOMAIN g /\ j < k
  <2> SUFFICES ASSUME NEW j \in DOMAIN f, Available(f, j, k)
               PROVE  j \in DOMAIN g /\ j < k
    OBVIOUS
  <2>1. j < k
    BY <1>1, AvailableIsPast DEF Beginning
  <2> QED
    BY <2>1, SMT DEF Beginning
<1>4. g[k] = f[k] /\ \A j \in DOMAIN g : j < k => g[j] = f[j]
  BY SMT DEF Beginning
<1> QED
  BY <1>1, <1>2, <1>3, <1>4, Zenon DEF AboveTrend

LEMMA SameEfficiency ==
  ASSUME NEW f, NEW g, Beginning(f, g), NEW k \in DOMAIN g, k < Len(g), k > ErLen
  PROVE  Efficient(g, k) <=> Efficient(f, k)
<1>1. \A j \in (k - ErLen)..k : g[j] = f[j]
  BY Constants, SMT DEF Beginning
<1>2. /\ g[k] = f[k] /\ g[k - ErLen] = f[k - ErLen]
      /\ \A j \in (k - ErLen + 1)..k : g[j] = f[j] /\ g[j - 1] = f[j - 1]
  BY <1>1, Constants, SMTT(30)
<1>3. PathLength(g, k) = PathLength(f, k)
  BY <1>2 DEF PathLength
<1> QED
  BY <1>2, <1>3 DEF Efficient

LEMMA SameCandidate ==
  ASSUME NEW f, NEW g, Beginning(f, g), NEW k \in DOMAIN g, k < Len(g), k > ErLen, k > EntryLen
  PROVE  Candidate(g, k) <=> Candidate(f, k)
<1>1. g[k] = f[k] /\ \A j \in (k - EntryLen)..(k - 1) : g[j] = f[j]
  BY Constants, SMT DEF Beginning
<1>2. Breakout(g, k) <=> Breakout(f, k)
  BY <1>1 DEF Breakout
<1> QED
  BY <1>2, SameTrend, SameEfficiency DEF Candidate

----------------------------------------------------------------------------
\* One pass of the loop over bar k.
LEMMA ManagedFacts ==
  ASSUME NEW s \in Seq(BarType), NEW k \in DOMAIN s, k > Warmup,
         NEW stop \in Int \union {None}
  PROVE  /\ Managed(s, k, stop) \in Int \union {None}
         /\ stop # None => (Managed(s, k, stop) = None <=> s[LastClosed(k)].close <= stop)
         /\ stop # None /\ Managed(s, k, stop) # None => Managed(s, k, stop) >= stop
         /\ stop = None => Managed(s, k, stop) = None
<1>1. LastClosed(k) \in DOMAIN s /\ LastClosed(k) > ExitLen
  BY WarmupCovers, Constants, SMT DEF LastClosed
<1>2. LowestLow(s, LastClosed(k), ExitLen) \in Nat
  BY <1>1, LowIsNat, Constants
<1>3. PICK trail \in Nat : trail = LowestLow(s, LastClosed(k), ExitLen)
  BY <1>2
<1>4. Managed(s, k, stop) = IF stop = None \/ s[LastClosed(k)].close <= stop THEN None
                            ELSE IF trail > stop THEN trail ELSE stop
  BY <1>3 DEF Managed
<1>5. None \notin Int
  BY Constants
<1> QED
  BY <1>4, <1>5, SMT

LEMMA DistanceIsInt ==
  ASSUME NEW s \in Seq(BarType), NEW k \in DOMAIN s, k > Warmup
  PROVE  StopDistance(s, k) \in Int /\ s[k].open \in Nat
<1>1. LastClosed(k) \in DOMAIN s /\ LastClosed(k) > StopLen
  BY WarmupCovers, Constants, SMT DEF LastClosed
<1>2. LowestLow(s, LastClosed(k), StopLen) \in Nat
  BY <1>1, LowIsNat, Constants
<1>3. s[LastClosed(k)] \in BarType /\ s[k] \in BarType
  BY <1>1, SMT
<1>4. s[LastClosed(k)].close \in Nat /\ s[k].open \in Nat
  BY <1>3 DEF BarType
<1> QED
  BY <1>2, <1>4 DEF StopDistance

LEMMA RowFacts ==
  ASSUME NEW r \in Runs, series[r] \in Seq(BarType), NEW k \in DOMAIN series[r], k > Warmup,
         position[r] \in Int \union {None}
  PROVE  /\ OpenAfter(r, k) \in Int \union {None}
         /\ Row(r, k) \in RowType
         /\ Row(r, k).held <=> Row(r, k).stop # None
         /\ Row(r, k).stop = OpenAfter(r, k)
         /\ Row(r, k).entered <=> Enters(r, k)
         /\ Enters(r, k) => CooledDown(k, lastEntry[r]) /\ r # "retired"
         /\ position[r] # None =>
              /\ Row(r, k).exited <=> series[r][k - 1].close <= position[r]
              /\ ~Row(r, k).exited =>
                   /\ Row(r, k).held /\ ~Row(r, k).entered
                   /\ Row(r, k).stop >= position[r]
<1> DEFINE mng == Managed(series[r], k, position[r])
           e == Enters(r, k)
           o == OpenAfter(r, k)
           x == position[r] # None /\ mng = None
<1>1. /\ mng \in Int \union {None}
      /\ position[r] # None => (mng = None <=> series[r][k - 1].close <= position[r])
      /\ position[r] # None /\ mng # None => mng >= position[r]
  BY ManagedFacts DEF LastClosed
<1>2. series[r][k].open - StopDistance(series[r], k) \in Int
  BY DistanceIsInt
<1>3. e \in BOOLEAN /\ x \in BOOLEAN /\ (e => mng = None)
  BY DEF Enters
<1>4. o = IF e THEN series[r][k].open - StopDistance(series[r], k) ELSE mng
  BY DEF OpenAfter
<1>5. o \in Int \union {None} /\ (~e => o = mng)
  BY <1>1, <1>2, <1>4
<1>6. Row(r, k) = [held |-> o # None, stop |-> o, entered |-> e, exited |-> x]
  BY DEF Row
<1>7. e => CooledDown(k, lastEntry[r]) /\ r # "retired"
  BY DEF Enters, Wanted, EntriesEnabled
<1> HIDE DEF mng, e, o
<1>8. /\ Row(r, k) \in RowType
      /\ Row(r, k).held <=> Row(r, k).stop # None
      /\ Row(r, k).stop = o /\ (Row(r, k).entered <=> e) /\ (Row(r, k).exited <=> x)
      /\ Row(r, k).held <=> o # None
  <2> HIDE DEF x
  <2> DEFINE h == o # None
  <2>1. h \in BOOLEAN
    OBVIOUS
  <2>2. Row(r, k) = [held |-> h, stop |-> o, entered |-> e, exited |-> x]
    BY <1>6
  <2>3. h <=> o # None
    OBVIOUS
  <2> HIDE DEF h
  <2>4. Row(r, k) \in RowType
    BY <2>1, <2>2, <1>3, <1>5 DEF RowType
  <2>5. Row(r, k).held = h /\ Row(r, k).stop = o /\ Row(r, k).entered = e /\ Row(r, k).exited = x
    BY <2>2
  <2> QED
    BY <2>3, <2>4, <2>5, <1>3, Zenon
<1>9. position[r] # None /\ ~x => mng # None /\ ~e /\ o = mng
  BY <1>3, <1>5
<1>10. position[r] # None =>
              /\ Row(r, k).exited <=> series[r][k - 1].close <= position[r]
              /\ ~Row(r, k).exited =>
                   /\ Row(r, k).held /\ ~Row(r, k).entered
                   /\ Row(r, k).stop >= position[r]
  BY <1>1, <1>8, <1>9
<1> QED
  BY <1>5, <1>7, <1>8, <1>10 DEF o, e

----------------------------------------------------------------------------
\* Three runs over one series, one of them over a beginning of it.
SeriesOK ==
  /\ \A r \in Runs : series[r] \in Seq(BarType)
  /\ series["retired"] = series["full"] /\ Beginning(series["full"], series["forming"])

\* What the loop of run r knows after i - 1 bars, and what its rows say.
RunOK(r) ==
  /\ position[r] \in Int \union {None} /\ lastEntry[r] \in Nat \union {None}
  /\ rows[r] \in Seq(RowType)
  /\ Len(rows[r]) = IF i <= Len(series[r]) THEN i - 1 ELSE Len(series[r])
  /\ \A k \in DOMAIN rows[r] :
       /\ rows[r][k].held <=> rows[r][k].stop # None
       /\ k <= Warmup => ~rows[r][k].held
       /\ k = i - 1 /\ rows[r][k].held => position[r] = rows[r][k].stop
       /\ rows[r][k].entered => lastEntry[r] \in Nat /\ k <= lastEntry[r]
  /\ lastEntry[r] # None => lastEntry[r] < i

\* Of a row and the one before it, and of any two rows with entries.
PairsOK(r) ==
  /\ \A k \in DOMAIN rows[r] :
       k > 1 /\ rows[r][k - 1].held =>
         /\ rows[r][k].exited <=> series[r][k - 1].close <= rows[r][k - 1].stop
         /\ ~rows[r][k].exited => /\ rows[r][k].held /\ ~rows[r][k].entered
                                  /\ rows[r][k].stop >= rows[r][k - 1].stop
  /\ \A j, k \in DOMAIN rows[r] :
       j < k /\ rows[r][j].entered /\ rows[r][k].entered => k - j > Cooldown

\* Up to the end of the forming series two loops know the same, and a loop
\* without entries the same as long as none was made.
LoopsAgree ==
  /\ i <= Len(series["forming"]) + 1 =>
       position["forming"] = position["full"] /\ lastEntry["forming"] = lastEntry["full"]
  /\ (\A j \in DOMAIN rows["full"] : ~rows["full"][j].entered) =>
       position["retired"] = position["full"]

\* One position, one last entry and one list of rows for each run.
Shapes ==
  /\ position = [r \in Runs |-> position[r]] /\ lastEntry = [r \in Runs |-> lastEntry[r]]
  /\ rows = [r \in Runs |-> rows[r]]

IInv ==
  /\ i \in Nat \ {0} /\ SeriesOK /\ Shapes
  /\ \A r \in Runs : RunOK(r) /\ PairsOK(r)
  /\ LoopsAgree /\ NoLookAhead /\ RetiredIsManagedAlike

\* What appending row x in bar i means for run r.
Written(r, x) ==
  /\ x \in RowType /\ (x.held <=> x.stop # None)
  /\ position'[r] \in Int \union {None} /\ (x.held => position'[r] = x.stop)
  /\ lastEntry'[r] = IF x.entered THEN i ELSE lastEntry[r]
  /\ x.entered => CooledDown(i, lastEntry[r]) /\ r # "retired"
  /\ i <= Warmup => ~x.held
  /\ i > Warmup /\ position[r] # None =>
       /\ x.exited <=> series[r][i - 1].close <= position[r]
       /\ ~x.exited => x.held /\ ~x.entered /\ x.stop >= position[r]

LEMMA StepWrites ==
  ASSUME IInv, Next, NEW r \in Runs, Running(r)
  PROVE  \E x : rows'[r] = Append(rows[r], x) /\ Written(r, x)
<1>1. /\ i \in DOMAIN series[r] /\ series[r] \in Seq(BarType)
      /\ position[r] \in Int \union {None} /\ rows[r] \in Seq(RowType)
  BY SMT DEF IInv, SeriesOK, RunOK, Running
<1>2. CASE Skip
  <2>1. /\ rows'[r] = Append(rows[r], Blank) /\ i <= Warmup
        /\ position'[r] = position[r] /\ lastEntry'[r] = lastEntry[r]
    BY <1>2 DEF Skip
  <2>2. /\ Blank \in RowType /\ Blank.held = FALSE /\ Blank.entered = FALSE /\ Blank.stop = None
    BY DEF Blank, RowType
  <2>3. ~(i > Warmup)
    BY <2>1, WarmupCovers DEF IInv
  <2>4. Written(r, Blank)
    BY <1>1, <2>1, <2>2, <2>3 DEF Written
  <2> QED
    BY <2>1, <2>4
<1>3. CASE Work
  <2>1. /\ rows'[r] = Append(rows[r], Row(r, i)) /\ i > Warmup
        /\ position'[r] = OpenAfter(r, i)
        /\ lastEntry'[r] = IF Enters(r, i) THEN i ELSE lastEntry[r]
    BY <1>3 DEF Work
  <2>2. ~(i <= Warmup)
    BY <2>1, WarmupCovers DEF IInv
  <2>3. Written(r, Row(r, i))
    BY <1>1, <2>1, <2>2, RowFacts DEF Written
  <2> QED
    BY <2>1, <2>3
<1> QED
  BY <1>2, <1>3 DEF Next

LEMMA StepIdles ==
  ASSUME Next, NEW r \in Runs, ~Running(r)
  PROVE  /\ rows'[r] = rows[r] /\ position'[r] = position[r] /\ lastEntry'[r] = lastEntry[r]
BY DEF Next, Skip, Work

LEMMA Unmoved == Next => series' = series /\ i' = i + 1 /\ i <= Len(series["full"])
BY DEF Next

\* Appending keeps the rows there are.
LEMMA Appended ==
  ASSUME NEW s \in Seq(RowType), NEW x \in RowType
  PROVE  /\ Append(s, x) \in Seq(RowType) /\ Len(Append(s, x)) = Len(s) + 1
         /\ DOMAIN Append(s, x) = 1..(Len(s) + 1) /\ DOMAIN s = 1..Len(s)
         /\ \A k \in 1..Len(s) : Append(s, x)[k] = s[k]
         /\ Append(s, x)[Len(s) + 1] = x
OBVIOUS

LEMMA LastAppended ==
  ASSUME NEW s \in Seq(RowType), NEW x \in RowType, NEW n \in Nat \ {0}, Len(s) = n - 1
  PROVE  Append(s, x)[n] = x
BY Appended

LEMMA RunNext ==
  ASSUME IInv, Next, NEW r \in Runs
  PROVE  RunOK(r)' /\ PairsOK(r)'
<1>1. /\ series'[r] = series[r] /\ Len(series[r]) \in Nat
      /\ i' = i + 1 /\ i \in Nat \ {0} /\ Warmup \in Nat /\ Cooldown \in Nat
  BY Unmoved, WarmupCovers, Constants, SMT DEF IInv, SeriesOK
<1>2. RunOK(r) /\ PairsOK(r)
  BY DEF IInv
<1>3. CASE ~Running(r)
  <2>1. /\ rows'[r] = rows[r] /\ position'[r] = position[r] /\ lastEntry'[r] = lastEntry[r]
        /\ ~(i <= Len(series[r]))
    BY <1>3, StepIdles DEF Running
  <2>2. PairsOK(r)'
    BY <1>1, <1>2, <2>1 DEF PairsOK
  <2>3. /\ Len(rows[r]) = Len(series[r]) /\ rows[r] \in Seq(RowType)
        /\ \A k \in DOMAIN rows[r] : k # i /\ k # i'
    BY <1>1, <1>2, <2>1, SMT DEF RunOK
  <2>4. RunOK(r)'
    BY <1>1, <1>2, <2>1, <2>3, SMT DEF RunOK
  <2> QED
    BY <2>2, <2>4
<1>4. CASE Running(r)
  <2>1. PICK x : rows'[r] = Append(rows[r], x) /\ Written(r, x)
    BY <1>4, StepWrites
  <2>2. /\ rows[r] \in Seq(RowType) /\ x \in RowType /\ Len(rows[r]) = i - 1
        /\ i <= Len(series[r])
    BY <1>2, <1>4, <2>1 DEF RunOK, Running, Written
  <2>3. /\ rows'[r] \in Seq(RowType) /\ Len(rows'[r]) = i
        /\ DOMAIN rows'[r] = 1..i /\ DOMAIN rows[r] = 1..(i - 1)
        /\ \A k \in 1..(i - 1) : rows'[r][k] = rows[r][k]
        /\ rows'[r][i] = x
    BY <1>1, <2>1, <2>2, Appended, SMT
  <2>4. \A k \in 1..i : k = i \/ k \in 1..(i - 1)
    BY <1>1, SMT
  <2>5. RunOK(r)'
    BY <1>1, <1>2, <2>1, <2>2, <2>3, <2>4, SMT DEF RunOK, Written
  <2>6. ASSUME NEW k \in DOMAIN rows'[r], k > 1, rows'[r][k - 1].held
        PROVE  /\ rows'[r][k].exited <=> series[r][k - 1].close <= rows'[r][k - 1].stop
               /\ ~rows'[r][k].exited => /\ rows'[r][k].held /\ ~rows'[r][k].entered
                                         /\ rows'[r][k].stop >= rows'[r][k - 1].stop
    <3>1. CASE k \in 1..(i - 1)
      <4>1. k - 1 \in 1..(i - 1)
        BY <1>1, <2>6, <3>1, SMT
      <4> QED
        BY <1>2, <2>3, <2>6, <3>1, <4>1 DEF PairsOK
    <3>2. CASE k = i
      <4>1. k - 1 \in 1..(i - 1) /\ k - 1 = i - 1
        BY <1>1, <2>6, <3>2, SMT
      <4>2. /\ rows[r][i - 1].held /\ rows[r][i - 1].stop # None /\ ~(i - 1 <= Warmup)
            /\ position[r] = rows[r][i - 1].stop
        BY <1>2, <2>3, <2>6, <4>1 DEF RunOK
      <4>3. i > Warmup
        BY <1>1, <4>2, SMT
      <4> QED
        BY <2>1, <2>3, <3>2, <4>1, <4>2, <4>3 DEF Written
    <3> QED
      BY <2>3, <2>4, <3>1, <3>2
  <2>7. ASSUME NEW j \in DOMAIN rows'[r], NEW k \in DOMAIN rows'[r],
               j < k, rows'[r][j].entered, rows'[r][k].entered
        PROVE  k - j > Cooldown
    <3>1. j \in 1..(i - 1)
      BY <1>1, <2>3, <2>7, SMT
    <3>2. CASE k \in 1..(i - 1)
      BY <1>2, <2>3, <2>7, <3>1, <3>2 DEF PairsOK
    <3>3. CASE k = i
      <4>1. lastEntry[r] \in Nat /\ j <= lastEntry[r]
        BY <1>2, <2>3, <2>7, <3>1 DEF RunOK
      <4>2. CooledDown(i, lastEntry[r])
        BY <2>1, <2>3, <2>7, <3>3 DEF Written
      <4>3. None \notin Nat
        BY Constants
      <4> QED
        BY <1>1, <3>1, <3>3, <4>1, <4>2, <4>3, SMT DEF CooledDown
    <3> QED
      BY <2>3, <2>4, <3>2, <3>3
  <2>8. PairsOK(r)'
    BY <1>1, <2>6, <2>7 DEF PairsOK
  <2> QED
    BY <2>5, <2>8
<1> QED
  BY <1>3, <1>4

\* One bar of the forming run is one bar of the full run.
LEMMA SamePass ==
  ASSUME SeriesOK, NEW k \in DOMAIN series["forming"], k > Warmup,
         position["forming"] = position["full"], lastEntry["forming"] = lastEntry["full"]
  PROVE  /\ Row("forming", k) = Row("full", k)
         /\ OpenAfter("forming", k) = OpenAfter("full", k)
         /\ Enters("forming", k) <=> Enters("full", k)
<1> DEFINE f == series["full"]
           g == series["forming"]
           c == LastClosed(k)
<1>1. Beginning(f, g)
  BY DEF SeriesOK
<1>2. g \in Seq(BarType)
  BY <1>1 DEF Beginning
<1>3. /\ c \in DOMAIN g /\ c < Len(g)
      /\ c > EntryLen /\ c > ExitLen /\ c > StopLen /\ c > ErLen
  BY <1>2, WarmupCovers, Constants, SMT DEF LastClosed
<1>4. g[c] = f[c] /\ g[k].open = f[k].open
  BY <1>1, <1>3 DEF Beginning
<1>5. /\ LowestLow(g, c, ExitLen) = LowestLow(f, c, ExitLen)
      /\ LowestLow(g, c, StopLen) = LowestLow(f, c, StopLen)
  BY <1>1, <1>3, SameLow, Constants
<1>6. Candidate(g, c) <=> Candidate(f, c)
  BY <1>1, <1>3, SameCandidate
<1>7. Managed(g, k, position["forming"]) = Managed(f, k, position["full"])
  BY <1>4, <1>5 DEF Managed
<1>8. StopDistance(g, k) = StopDistance(f, k)
  BY <1>4, <1>5 DEF StopDistance
<1>9. Wanted(g, k, lastEntry["forming"]) <=> Wanted(f, k, lastEntry["full"])
  BY <1>6, <1>8 DEF Wanted
<1>10. Enters("forming", k) <=> Enters("full", k)
  BY <1>7, <1>9 DEF Enters, EntriesEnabled
<1>11. OpenAfter("forming", k) = OpenAfter("full", k)
  BY <1>4, <1>7, <1>8, <1>10 DEF OpenAfter
<1>12. Enters("forming", k) \in BOOLEAN /\ Enters("full", k) \in BOOLEAN
  BY DEF Enters
<1>13. Enters("forming", k) = Enters("full", k)
  BY <1>10, <1>12
<1>14. Row("forming", k) = Row("full", k)
  BY <1>7, <1>11, <1>13 DEF Row
<1> QED
  BY <1>10, <1>11, <1>14

LEMMA FormingNext ==
  ASSUME IInv, Next
  PROVE  /\ NoLookAhead'
         /\ i' <= Len(series'["forming"]) + 1 =>
              /\ position'["forming"] = position'["full"]
              /\ lastEntry'["forming"] = lastEntry'["full"]
<1>1. /\ series["forming"] \in Seq(BarType) /\ series["full"] \in Seq(BarType)
      /\ Len(series["forming"]) <= Len(series["full"])
      /\ i \in Nat \ {0} /\ i' = i + 1 /\ series' = series /\ i <= Len(series["full"])
      /\ Warmup \in Nat
  BY Unmoved, WarmupCovers DEF IInv, SeriesOK, Beginning
<1>2. RunOK("forming") /\ RunOK("full") /\ Running("full") /\ NoLookAhead
  BY <1>1 DEF IInv, Runs, Running
<1>3. /\ rows["forming"] \in Seq(RowType) /\ rows["full"] \in Seq(RowType)
      /\ Len(rows["full"]) = i - 1
      /\ Len(rows["forming"]) = IF i <= Len(series["forming"]) THEN i - 1
                                ELSE Len(series["forming"])
  BY <1>1, <1>2 DEF RunOK
<1>4. PICK x : rows'["full"] = Append(rows["full"], x) /\ x \in RowType
  BY <1>2, StepWrites DEF Written, Runs
<1>5. /\ DOMAIN rows["full"] = 1..(i - 1) /\ rows'["full"][i] = x
      /\ \A k \in 1..(i - 1) : rows'["full"][k] = rows["full"][k]
  BY <1>1, <1>3, <1>4, Appended, SMT
<1>6. CASE ~Running("forming")
  <2>1. rows'["forming"] = rows["forming"] /\ ~(i <= Len(series["forming"]))
    BY <1>6, StepIdles DEF Running, Runs
  <2>2. \A k \in DOMAIN rows["forming"] : k \in 1..(i - 1)
    BY <1>1, <1>3, <2>1, SMT
  <2>3. NoLookAhead'
    BY <1>2, <1>5, <2>1, <2>2 DEF NoLookAhead
  <2>4. ~(i' <= Len(series'["forming"]) + 1)
    BY <1>1, <2>1, SMT
  <2> QED
    BY <2>3, <2>4
<1>7. CASE Running("forming")
  <2>1. /\ i \in DOMAIN series["forming"] /\ i <= Len(series["forming"]) + 1
        /\ Len(rows["forming"]) = i - 1
    BY <1>1, <1>3, <1>7, SMT DEF Running
  <2>2. position["forming"] = position["full"] /\ lastEntry["forming"] = lastEntry["full"]
    BY <2>1 DEF IInv, LoopsAgree
  <2>3. PICK y : rows'["forming"] = Append(rows["forming"], y) /\ y \in RowType
    BY <1>7, StepWrites DEF Written, Runs
  <2>4. /\ DOMAIN rows'["forming"] = 1..i /\ DOMAIN rows["forming"] = 1..(i - 1)
        /\ rows'["forming"][i] = y
        /\ \A k \in 1..(i - 1) : rows'["forming"][k] = rows["forming"][k]
    BY <1>1, <1>3, <2>1, <2>3, Appended, SMT
  <2>5. /\ rows'["forming"][i] = rows'["full"][i]
        /\ position'["forming"] = position'["full"]
        /\ lastEntry'["forming"] = lastEntry'["full"]
    <3>1. CASE Skip
      <4>1. /\ rows'["forming"] = Append(rows["forming"], Blank)
            /\ rows'["full"] = Append(rows["full"], Blank)
            /\ UNCHANGED <<position, lastEntry>>
        BY <1>2, <1>7, <3>1 DEF Skip, Runs
      <4>2. Blank \in RowType
        BY DEF Blank, RowType
      <4>3. rows'["forming"][i] = Blank
        BY <1>1, <1>3, <2>1, <4>1, <4>2, LastAppended
      <4>4. rows'["full"][i] = Blank
        BY <1>1, <1>3, <4>1, <4>2, LastAppended
      <4> QED
        BY <2>2, <4>1, <4>3, <4>4
    <3>2. CASE Work
      <4>1. /\ rows'["forming"] = Append(rows["forming"], Row("forming", i))
            /\ rows'["full"] = Append(rows["full"], Row("full", i))
            /\ position'["forming"] = OpenAfter("forming", i)
            /\ position'["full"] = OpenAfter("full", i)
            /\ lastEntry'["forming"] = IF Enters("forming", i) THEN i ELSE lastEntry["forming"]
            /\ lastEntry'["full"] = IF Enters("full", i) THEN i ELSE lastEntry["full"]
            /\ i > Warmup
        BY <1>2, <1>7, <3>2 DEF Work, Runs
      <4>2. /\ Row("forming", i) = Row("full", i)
            /\ OpenAfter("forming", i) = OpenAfter("full", i)
            /\ Enters("forming", i) <=> Enters("full", i)
        BY <2>1, <2>2, <4>1, SamePass DEF IInv
      <4>3. i \in DOMAIN series["full"]
        BY <1>1, SMT
      <4>4. Row("full", i) \in RowType
        BY <1>1, <1>2, <4>1, <4>3, RowFacts DEF RunOK, Runs
      <4>5. rows'["full"][i] = Row("full", i)
        BY <1>1, <1>3, <4>1, <4>4, LastAppended
      <4>6. rows'["forming"][i] = Row("forming", i)
        BY <1>1, <1>3, <2>1, <4>1, <4>2, <4>4, LastAppended
      <4> QED
        <5>1. rows'["forming"][i] = rows'["full"][i]
          BY <4>2, <4>5, <4>6
        <5>2. position'["forming"] = position'["full"]
          BY <4>1, <4>2
        <5>3. lastEntry'["forming"] = lastEntry'["full"]
          BY <2>2, <4>1, <4>2
        <5> QED
          BY <5>1, <5>2, <5>3
    <3> QED
      BY <3>1, <3>2 DEF Next
  <2>6. \A k \in 1..i : k = i \/ k \in 1..(i - 1)
    BY <1>1, SMT
  <2>7. NoLookAhead'
    BY <1>2, <1>5, <2>4, <2>5, <2>6 DEF NoLookAhead
  <2> QED
    BY <2>5, <2>7
<1> QED
  BY <1>6, <1>7

LEMMA RetiredNext ==
  ASSUME IInv, Next
  PROVE  /\ RetiredIsManagedAlike'
         /\ (\A j \in DOMAIN rows'["full"] : ~rows'["full"][j].entered) =>
              position'["retired"] = position'["full"]
<1>1. /\ series["full"] \in Seq(BarType) /\ series["retired"] = series["full"]
      /\ i \in Nat \ {0} /\ i' = i + 1 /\ i <= Len(series["full"])
  BY Unmoved DEF IInv, SeriesOK, Beginning
<1>2. RunOK("retired") /\ RunOK("full") /\ Running("full") /\ Running("retired")
  BY <1>1 DEF IInv, Runs, Running
<1>3. /\ rows["retired"] \in Seq(RowType) /\ rows["full"] \in Seq(RowType)
      /\ Len(rows["full"]) = i - 1 /\ Len(rows["retired"]) = i - 1
  BY <1>1, <1>2 DEF RunOK
<1>4. PICK x : rows'["full"] = Append(rows["full"], x) /\ x \in RowType
  BY <1>2, StepWrites DEF Written, Runs
<1>5. PICK y : rows'["retired"] = Append(rows["retired"], y) /\ y \in RowType /\ ~y.entered
  BY <1>2, StepWrites DEF Written, Runs
<1>6. /\ DOMAIN rows["full"] = 1..(i - 1) /\ DOMAIN rows'["full"] = 1..i
      /\ DOMAIN rows["retired"] = 1..(i - 1) /\ DOMAIN rows'["retired"] = 1..i
      /\ rows'["full"][i] = x /\ rows'["retired"][i] = y
      /\ \A k \in 1..(i - 1) : rows'["full"][k] = rows["full"][k]
                               /\ rows'["retired"][k] = rows["retired"][k]
  BY <1>1, <1>3, <1>4, <1>5, Appended, SMT
<1>7. ASSUME \A j \in 1..i : ~rows'["full"][j].entered
      PROVE  x = y /\ position'["retired"] = position'["full"]
  <2>1. ~x.entered /\ \A j \in DOMAIN rows["full"] : ~rows["full"][j].entered
    <3>1. i \in 1..i /\ 1..(i - 1) \subseteq 1..i
      BY <1>1, SMT
    <3> QED
      BY <1>6, <1>7, <3>1
  <2>2. position["retired"] = position["full"]
    BY <2>1 DEF IInv, LoopsAgree
  <2>3. CASE Skip
    <3>1. /\ rows'["full"] = Append(rows["full"], Blank)
          /\ rows'["retired"] = Append(rows["retired"], Blank)
          /\ UNCHANGED position
      BY <1>2, <2>3 DEF Skip, Runs
    <3>2. Blank \in RowType
      BY DEF Blank, RowType
    <3>3. rows'["full"][i] = Blank /\ rows'["retired"][i] = Blank
      BY <1>1, <1>3, <3>1, <3>2, Appended, SMT
    <3> QED
      BY <1>6, <2>2, <3>1, <3>3
  <2>4. CASE Work
    <3>1. /\ rows'["full"] = Append(rows["full"], Row("full", i))
          /\ rows'["retired"] = Append(rows["retired"], Row("retired", i))
          /\ position'["full"] = OpenAfter("full", i)
          /\ position'["retired"] = OpenAfter("retired", i)
          /\ i > Warmup
      BY <1>2, <2>4 DEF Work, Runs
    <3>2. i \in DOMAIN series["full"]
      BY <1>1, SMT
    <3>3. /\ Row("full", i) \in RowType /\ Row("retired", i) \in RowType
          /\ Row("full", i).entered <=> Enters("full", i)
      BY <1>1, <1>2, <3>1, <3>2, RowFacts DEF RunOK, Runs
    <3>4. rows'["full"][i] = Row("full", i) /\ rows'["retired"][i] = Row("retired", i)
      BY <1>1, <1>3, <3>1, <3>3, Appended, SMT
    <3>5. Enters("full", i) = FALSE /\ Enters("retired", i) = FALSE
      BY <1>6, <2>1, <3>3, <3>4 DEF Enters, EntriesEnabled
    <3>6. OpenAfter("retired", i) = OpenAfter("full", i)
      BY <1>1, <2>2, <3>5 DEF OpenAfter
    <3>7. Row("retired", i) = Row("full", i)
      BY <1>1, <2>2, <3>5, <3>6 DEF Row
    <3> QED
      BY <1>6, <3>1, <3>4, <3>6, <3>7
  <2> QED
    BY <2>3, <2>4 DEF Next
<1>8. RetiredIsManagedAlike'
  <2> SUFFICES ASSUME NEW k \in 1..i
               PROVE  /\ ~rows'["retired"][k].entered
                      /\ (\A j \in 1..k : ~rows'["full"][j].entered)
                           => rows'["retired"][k] = rows'["full"][k]
    BY <1>6 DEF RetiredIsManagedAlike
  <2>1. CASE k = i
    BY <1>5, <1>6, <1>7, <2>1
  <2>2. CASE k \in 1..(i - 1)
    <3>1. 1..k \subseteq 1..(i - 1)
      BY <1>1, <2>2, SMT
    <3>2. RetiredIsManagedAlike
      BY DEF IInv
    <3> QED
      BY <1>6, <2>2, <3>1, <3>2 DEF RetiredIsManagedAlike
  <2> QED
    BY <1>1, <2>1, <2>2, SMT
<1> QED
  BY <1>6, <1>7, <1>8

LEMMA NextOK == IInv /\ [Next]_vars => IInv'
<1> SUFFICES ASSUME IInv, [Next]_vars PROVE IInv'
  OBVIOUS
<1>1. CASE Next
  <2>1. i' \in Nat \ {0} /\ series' = series
    BY <1>1, Unmoved DEF IInv
  <2>2. SeriesOK'
    BY <2>1 DEF IInv, SeriesOK
  <2>3. \A r \in Runs : RunOK(r)' /\ PairsOK(r)'
    BY <1>1, RunNext
  <2>4. LoopsAgree'
    BY <1>1, FormingNext, RetiredNext DEF LoopsAgree
  <2>5. Shapes'
    BY <1>1 DEF IInv, Shapes, Next, Skip, Work
  <2> QED
    BY <1>1, <2>1, <2>2, <2>3, <2>4, <2>5, FormingNext, RetiredNext DEF IInv
<1>2. CASE UNCHANGED vars
  <2>1. /\ series' = series /\ i' = i /\ position' = position
        /\ lastEntry' = lastEntry /\ rows' = rows
    BY <1>2 DEF vars
  <2>2. SeriesOK'
    BY <2>1 DEF IInv, SeriesOK
  <2>3. \A r \in Runs : RunOK(r)' /\ PairsOK(r)'
    <3> SUFFICES ASSUME NEW r \in Runs PROVE RunOK(r)' /\ PairsOK(r)'
      OBVIOUS
    <3>1. RunOK(r) /\ PairsOK(r)
      BY DEF IInv
    <3>2. RunOK(r)'
      BY <2>1, <3>1 DEF RunOK
    <3>3. PairsOK(r)'
      BY <2>1, <3>1 DEF PairsOK
    <3> QED
      BY <3>2, <3>3
  <2>4. LoopsAgree'
    BY <2>1 DEF IInv, LoopsAgree
  <2>5. Shapes'
    BY <2>1 DEF IInv, Shapes
  <2>6. NoLookAhead'
    BY <2>1 DEF IInv, NoLookAhead
  <2>7. RetiredIsManagedAlike'
    BY <2>1 DEF IInv, RetiredIsManagedAlike
  <2>8. i' \in Nat \ {0}
    BY <2>1 DEF IInv
  <2> QED
    BY <2>2, <2>3, <2>4, <2>5, <2>6, <2>7, <2>8 DEF IInv
<1> QED
  BY <1>1, <1>2

LEMMA InitOK == Init => IInv
<1> SUFFICES ASSUME Init PROVE IInv
  OBVIOUS
<1>0. PICK s \in AllSeries :
        \E last \in DOMAIN s, u \in Unfinished :
          series = [r \in Runs |-> IF r = "forming" THEN Forming(s, last, u) ELSE s]
  BY DEF Init
<1>1. PICK last \in DOMAIN s, u \in Unfinished :
        series = [r \in Runs |-> IF r = "forming" THEN Forming(s, last, u) ELSE s]
  BY <1>0
<1>2. /\ s \in Seq(BarType) /\ \A j, k \in DOMAIN s : j < k => s[j].time < s[k].time
      /\ u \in [high : Nat, low : Nat, close : Nat]
  BY RunnerAssumption
<1>3. last \in Nat /\ last <= Len(s) /\ \A k \in 1..last : k \in DOMAIN s /\ s[k] \in BarType
  BY <1>2, SMT
<1>4. \A k \in 1..last : [s[k] EXCEPT !.high = u.high, !.low = u.low, !.close = u.close] \in BarType
  BY <1>2, <1>3 DEF BarType
<1>5. Forming(s, last, u) \in [1..last -> BarType]
  BY <1>3, <1>4, Zenon DEF Forming
<1>6. /\ Forming(s, last, u) \in Seq(BarType)
      /\ Len(Forming(s, last, u)) = last /\ DOMAIN Forming(s, last, u) = 1..last
  BY <1>3, <1>5
<1>7. \A k \in 1..last : /\ Forming(s, last, u)[k].time = s[k].time
                         /\ Forming(s, last, u)[k].open = s[k].open
                         /\ k < last => Forming(s, last, u)[k] = s[k]
  BY <1>3 DEF Forming, BarType
<1>8. Beginning(s, Forming(s, last, u))
  BY <1>2, <1>3, <1>6, <1>7 DEF Beginning
<1>9. SeriesOK
  BY <1>1, <1>2, <1>6, <1>8 DEF SeriesOK, Runs
<1>10. PICK seed \in Seeds \union {None} : position = [r \in Runs |-> seed]
  BY DEF Init
<1>11. i = 1 /\ lastEntry = [r \in Runs |-> None] /\ rows = [r \in Runs |-> <<>>]
  BY DEF Init
<1>12. ASSUME NEW r \in Runs PROVE RunOK(r) /\ PairsOK(r)
  <2>1. /\ position[r] \in Int \union {None} /\ lastEntry[r] = None /\ rows[r] = <<>>
    BY <1>10, <1>11, Constants
  <2>2. rows[r] \in Seq(RowType) /\ Len(rows[r]) = 0 /\ DOMAIN rows[r] = {}
    BY <2>1, SMT
  <2>3. Len(series[r]) \in Nat
    BY <1>9, SMT DEF SeriesOK
  <2>4. RunOK(r)
    BY <1>11, <2>1, <2>2, <2>3, SMT DEF RunOK
  <2>5. PairsOK(r)
    BY <2>2 DEF PairsOK
  <2> QED
    BY <2>4, <2>5
<1>13. LoopsAgree
  BY <1>10, <1>11 DEF LoopsAgree, Runs
<1>14. NoLookAhead /\ RetiredIsManagedAlike
  <2>1. DOMAIN rows["forming"] = {} /\ DOMAIN rows["retired"] = {}
    BY <1>11, SMT DEF Runs
  <2> QED
    BY <2>1 DEF NoLookAhead, RetiredIsManagedAlike
<1>15. Shapes
  BY <1>10, <1>11 DEF Shapes
<1> QED
  BY <1>9, <1>11, <1>12, <1>13, <1>14, <1>15 DEF IInv

----------------------------------------------------------------------------
(***************************************************************************)
(* The loop keeps its invariant (base.py:285): what each run knows, what   *)
(* its rows say, and in what the three runs agree.                         *)
(***************************************************************************)
THEOREM Invariance == Spec => []IInv
<1>1. Init => IInv
  BY InitOK
<1>2. IInv /\ [Next]_vars => IInv'
  BY NextOK
<1> QED
  BY <1>1, <1>2, PTL DEF Spec

(***************************************************************************)
(* For any series, windows and seeds: the rows of a run over a beginning   *)
(* of the series, its last bar still forming, are the rows of the full run *)
(* (base.py:217).                                                          *)
(***************************************************************************)
THEOREM NeverLooksAhead == Spec => []NoLookAhead
<1>1. IInv => NoLookAhead
  BY DEF IInv
<1> QED
  BY <1>1, Invariance, PTL

(***************************************************************************)
(* A run without entries manages a seeded position as the full run does    *)
(* (base.py:223).                                                          *)
(***************************************************************************)
THEOREM RetiredManagesAlike == Spec => []RetiredIsManagedAlike
<1>1. IInv => RetiredIsManagedAlike
  BY DEF IInv
<1> QED
  BY <1>1, Invariance, PTL

(***************************************************************************)
(* A position that a row shows is gone in the next row exactly when the    *)
(* bar closed at or below its stop (flood_tide.py:39).                     *)
(***************************************************************************)
THEOREM ExitsAreBreaches == Spec => []BreachExits
<1>1. IInv => BreachExits
  BY DEF IInv, PairsOK, BreachExits
<1> QED
  BY <1>1, Invariance, PTL

(***************************************************************************)
(* While a position is held its stop does not fall and no entry replaces   *)
(* it (flood_tide.py:244).                                                 *)
(***************************************************************************)
THEOREM StopsNeverFall == Spec => []StopRatchets
<1>1. IInv => StopRatchets
  BY DEF IInv, PairsOK, StopRatchets
<1> QED
  BY <1>1, Invariance, PTL

(***************************************************************************)
(* Two entries are more than the cooldown apart (flood_tide.py:218).       *)
(***************************************************************************)
THEOREM EntriesKeepApart == Spec => []EntriesApart
<1>1. IInv => EntriesApart
  BY DEF IInv, PairsOK, EntriesApart
<1> QED
  BY <1>1, Invariance, PTL

(***************************************************************************)
(* Rows, positions and indices keep their types, and a row shows a stop    *)
(* exactly while it shows a position (base.py:241).                        *)
(***************************************************************************)
THEOREM TypeCorrect == Spec => []TypeOK
<1>1. ASSUME IInv PROVE TypeOK
  <2>1. \A r \in Runs : /\ position[r] \in Int \union {None}
                        /\ lastEntry[r] \in Nat \union {None}
                        /\ rows[r] \in Seq(RowType)
                        /\ \A k \in DOMAIN rows[r] : rows[r][k].held <=> rows[r][k].stop # None
    BY <1>1 DEF IInv, RunOK
  <2>2. \A r \in Runs : Len(rows[r]) <= Len(series[r])
    <3> SUFFICES ASSUME NEW r \in Runs PROVE Len(rows[r]) <= Len(series[r])
      OBVIOUS
    <3>1. RunOK(r) /\ i \in Nat \ {0} /\ Len(series[r]) \in Nat
      BY <1>1, SMT DEF IInv, SeriesOK
    <3> QED
      BY <3>1, SMT DEF RunOK
  <2>3. /\ position \in [Runs -> Int \union {None}] /\ lastEntry \in [Runs -> Nat \union {None}]
        /\ rows \in [Runs -> Seq(RowType)]
    BY <1>1, <2>1 DEF IInv, Shapes
  <2> QED
    BY <1>1, <2>1, <2>2, <2>3 DEF IInv, TypeOK, RowType
<1> QED
  BY <1>1, Invariance, PTL
=============================================================================
