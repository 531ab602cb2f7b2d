-------------------------- MODULE CollectorProofs --------------------------
(***************************************************************************)
(* Proofs about the collector's schedule.                                  *)
(***************************************************************************)
EXTENDS Collector, SequenceTheorems, TLAPS

\* What the assumption says of the constants.
LEMMA Constants ==
  /\ Latency \in Nat /\ MaxNow \in Nat /\ Interval \in Nat \ {0}
  /\ NapLength \in Nat \ {0} /\ MaxDead \in Nat \ {0}
  /\ \A tf \in Timeframes : Period[tf] \in Nat \ {0}
BY CollectorAssumption

\* The next boundary is a boundary, and after the instant asked about.
LEMMA NextBoundaryIsNext ==
  ASSUME NEW t \in Nat, NEW p \in Nat \ {0}
  PROVE  /\ NextBoundary(t, p) \in Int /\ NextBoundary(t, p) > t
         /\ \E k \in Int : NextBoundary(t, p) = k * p + Latency
<1> DEFINE x == t - Latency  q == x \div p
<1>1. x \in Int BY Constants
<1>2. q \in Int BY <1>1
<1>3. x = q * p + (x % p) /\ x % p \in 0..(p - 1) BY <1>1
<1>4. (q + 1) * p = q * p + p BY <1>2
<1>5. NextBoundary(t, p) = (q + 1) * p + Latency BY DEF NextBoundary
<1> HIDE DEF x, q
<1>6. q * p \in Int /\ (q + 1) * p \in Int BY <1>2
<1>7. (q + 1) * p > x BY <1>1, <1>2, <1>3, <1>4, <1>6
<1>8. (q + 1) * p + Latency > t BY <1>7, <1>1, <1>6, Constants DEF x
<1> QED BY <1>2, <1>5, <1>6, <1>8, Constants

\* The last d of the remembered outcomes were dead, and the one before not.
Streak(s, d) == /\ d <= Len(s)
                /\ \A k \in 1..Len(s) : k > Len(s) - d => s[k] = FALSE
                /\ d < Len(s) => s[Len(s) - d] = TRUE

SchedulesOK ==
  \A tf \in Timeframes :
    /\ \E k \in Int : pending[tf] = k * Period[tf] + Latency
    /\ lastBar[tf] < pending[tf] /\ woke <= pending[tf]
    /\ tf \in fired => pending[tf] <= began

TimesOK == /\ now <= MaxNow /\ woke <= now /\ began <= now /\ lastPeriodic <= now
           /\ \A tf \in Timeframes : lastBar[tf] <= now

SpacingOK == pc \in {"serve", "bars", "look"} => nextPeriodic >= lastPeriodic + Interval

DeadOK == /\ Len(recent) <= MaxDead /\ Streak(recent, dead)
          /\ pc = "aborted" <=> dead = MaxDead

IInv == TypeOK /\ SchedulesOK /\ TimesOK /\ SpacingOK /\ DeadOK

----------------------------------------------------------------------------
LEMMA NextBoundariesOK ==
  ASSUME NEW t \in Nat
  PROVE  /\ NextBoundaries(t) \in [Timeframes -> Int]
         /\ \A tf \in Timeframes :
              /\ NextBoundaries(t)[tf] = NextBoundary(t, Period[tf])
              /\ NextBoundaries(t)[tf] \in Int /\ NextBoundaries(t)[tf] > t
              /\ \E k \in Int : NextBoundaries(t)[tf] = k * Period[tf] + Latency
<1>1. \A tf \in Timeframes :
        /\ NextBoundary(t, Period[tf]) \in Int /\ NextBoundary(t, Period[tf]) > t
        /\ \E k \in Int : NextBoundary(t, Period[tf]) = k * Period[tf] + Latency
  BY Constants, NextBoundaryIsNext
<1> QED BY <1>1 DEF NextBoundaries

\* One more outcome, and the oldest forgotten.
Remembered(s, a) ==
  IF Len(Append(s, a)) > MaxDead THEN Tail(Append(s, a)) ELSE Append(s, a)

LEMMA StreakGrows ==
  ASSUME NEW s \in Seq(BOOLEAN), NEW d \in Nat, NEW a \in BOOLEAN, Streak(s, d)
  PROVE  Streak(Append(s, a), IF a THEN 0 ELSE d + 1)
<1> DEFINE all == Append(s, a)
<1>1. /\ all \in Seq(BOOLEAN) /\ Len(all) = Len(s) + 1 /\ all[Len(s) + 1] = a
      /\ \A k \in 1..Len(s) : all[k] = s[k]
  OBVIOUS
<1>2. CASE a = TRUE BY <1>2, <1>1 DEF Streak
<1>3. CASE a = FALSE BY <1>3, <1>1 DEF Streak
<1> QED BY <1>2, <1>3

LEMMA StreakForgets ==
  ASSUME NEW s \in Seq(BOOLEAN), NEW d \in Nat, Streak(s, d), d < Len(s)
  PROVE  Tail(s) \in Seq(BOOLEAN) /\ Len(Tail(s)) = Len(s) - 1 /\ Streak(Tail(s), d)
<1> DEFINE u == Tail(s)
<1>1. Len(s) \in Nat /\ s # <<>> OBVIOUS
<1>2. /\ u \in Seq(BOOLEAN) /\ Len(u) = Len(s) - 1
      /\ \A k \in 1..Len(u) : u[k] = s[k + 1]
  BY <1>1, HeadTailProperties
<1> HIDE DEF u
<1>3. ASSUME NEW k \in 1..Len(u), k > Len(u) - d PROVE u[k] = FALSE
  <2>1. k + 1 \in 1..Len(s) /\ k + 1 > Len(s) - d BY <1>1, <1>2, <1>3
  <2> QED BY <2>1, <1>2 DEF Streak
<1>4. ASSUME d < Len(u) PROVE u[Len(u) - d] = TRUE
  <2>1. Len(u) - d \in 1..Len(u) /\ (Len(u) - d) + 1 = Len(s) - d BY <1>1, <1>2, <1>4
  <2> QED BY <2>1, <1>2 DEF Streak
<1>5. d <= Len(u) BY <1>1, <1>2
<1>6. Streak(u, d) BY <1>3, <1>4, <1>5 DEF Streak
<1> QED BY <1>2, <1>6 DEF u

LEMMA StreakGoesOn ==
  ASSUME NEW s \in Seq(BOOLEAN), NEW d \in Nat, NEW a \in BOOLEAN,
         Len(s) <= MaxDead, Streak(s, d), d < MaxDead
  PROVE  /\ Remembered(s, a) \in Seq(BOOLEAN) /\ Len(Remembered(s, a)) <= MaxDead
         /\ Streak(Remembered(s, a), IF a THEN 0 ELSE d + 1)
<1> DEFINE all == Append(s, a)  e == IF a THEN 0 ELSE d + 1
<1>1. all \in Seq(BOOLEAN) /\ Len(all) = Len(s) + 1 /\ Len(s) \in Nat OBVIOUS
<1>2. Streak(all, e) BY StreakGrows
<1>3. MaxDead \in Nat \ {0} BY Constants
<1>4. e \in Nat /\ e <= MaxDead
  <2>1. CASE a = TRUE BY <2>1, <1>3
  <2>2. CASE a = FALSE BY <2>2, <1>3
  <2> QED BY <2>1, <2>2
<1>5. Remembered(s, a) = IF Len(all) > MaxDead THEN Tail(all) ELSE all BY DEF Remembered
<1> HIDE DEF all, e
<1>6. CASE Len(all) > MaxDead
  <2>1. e < Len(all) BY <1>1, <1>3, <1>4, <1>6
  <2>2. Tail(all) \in Seq(BOOLEAN) /\ Len(Tail(all)) = Len(all) - 1 /\ Streak(Tail(all), e)
    BY <1>1, <1>2, <1>4, <2>1, StreakForgets
  <2>3. Len(all) - 1 <= MaxDead BY <1>1, <1>3
  <2> QED BY <1>5, <1>6, <2>2, <2>3 DEF e
<1>7. CASE ~(Len(all) > MaxDead)
  <2>1. Len(all) <= MaxDead BY <1>1, <1>3, <1>7
  <2> QED BY <1>1, <1>2, <1>5, <1>7, <2>1 DEF e
<1> QED BY <1>6, <1>7

LEMMA InitOK == Init => IInv
<1> SUFFICES ASSUME Init PROVE IInv OBVIOUS
<1>1. /\ pending = NextBoundaries(0) /\ now = 0 /\ fired = {} /\ nextPeriodic = 0
      /\ pc = "periodic" /\ dead = 0 /\ stop = FALSE /\ once \in BOOLEAN
      /\ woke = 0 /\ began = 0 /\ lastPeriodic = Never /\ recent = <<>>
      /\ lastBar = [tf \in Timeframes |-> Never]
  BY DEF Init
<1>2. /\ pending \in [Timeframes -> Int]
      /\ \A tf \in Timeframes :
           /\ pending[tf] \in Int /\ pending[tf] > 0
           /\ \E k \in Int : pending[tf] = k * Period[tf] + Latency
  BY <1>1, NextBoundariesOK
<1>3. TypeOK
  <2>1. lastBar \in [Timeframes -> Nat \cup {Never}] BY <1>1
  <2>2. recent \in Seq(BOOLEAN) BY <1>1
  <2> QED BY <1>1, <1>2, <2>1, <2>2 DEF TypeOK
<1>4. SchedulesOK
  <2> SUFFICES ASSUME NEW tf \in Timeframes
               PROVE  /\ \E k \in Int : pending[tf] = k * Period[tf] + Latency
                      /\ lastBar[tf] < pending[tf] /\ woke <= pending[tf]
                      /\ tf \in fired => pending[tf] <= began
    BY DEF SchedulesOK
  <2>1. \E k \in Int : pending[tf] = k * Period[tf] + Latency BY <1>2
  <2>2. pending[tf] \in Int /\ pending[tf] > 0 BY <1>2
  <2>3. lastBar[tf] = -1 BY <1>1 DEF Never
  <2> QED BY <1>1, <2>1, <2>2, <2>3
<1>5. TimesOK
  <2>1. \A tf \in Timeframes : lastBar[tf] = -1 BY <1>1 DEF Never
  <2> QED BY <1>1, <2>1, Constants DEF TimesOK, Never
<1>6. SpacingOK BY <1>1 DEF SpacingOK
<1>7. DeadOK
  <2>1. Len(recent) = 0 BY <1>1
  <2> QED BY <1>1, <2>1, Constants DEF DeadOK, Streak
<1> QED BY <1>3, <1>4, <1>5, <1>6, <1>7 DEF IInv

\* The part of the step of PeriodicRound that is about the outcomes.
LEMMA RoundIsRemembered ==
  ASSUME IInv, PeriodicRound
  PROVE  recent' \in Seq(BOOLEAN) /\ dead' \in Nat /\ DeadOK'
<1>1. PICK answered \in BOOLEAN :
        /\ dead' = DeadRounds(answered) /\ Remember(answered)
        /\ pc' = IF dead' >= MaxDead THEN "aborted" ELSE IF once THEN "ended" ELSE "serve"
  BY DEF PeriodicRound
<1>2. /\ recent \in Seq(BOOLEAN) /\ dead \in Nat /\ Len(recent) <= MaxDead
      /\ Streak(recent, dead) /\ dead < MaxDead
  <2>1. pc = "periodic" /\ pc # "aborted" BY DEF PeriodicRound
  <2>2. dead # MaxDead /\ dead <= Len(recent) BY <2>1 DEF IInv, DeadOK, Streak
  <2> QED BY <2>2, Constants DEF IInv, DeadOK, TypeOK
<1>3. dead' = IF answered THEN 0 ELSE dead + 1 BY <1>1 DEF DeadRounds
<1>4. recent' = Remembered(recent, answered) BY <1>1 DEF Remember, Remembered
<1>5. recent' \in Seq(BOOLEAN) /\ Len(recent') <= MaxDead /\ Streak(recent', dead')
  BY <1>2, <1>3, <1>4, StreakGoesOn
<1>6. dead' \in Nat /\ dead' <= MaxDead BY <1>2, <1>3, Constants
<1>7. pc' = "aborted" <=> dead' = MaxDead BY <1>1, <1>6, Constants
<1> QED BY <1>5, <1>6, <1>7 DEF DeadOK, Streak

LEMMA NextOK == IInv /\ [Next]_vars => IInv'
<1> SUFFICES ASSUME IInv, [Next]_vars PROVE IInv' OBVIOUS
<1> USE DEF schedule, observers
<1>1. CASE PeriodicRound
  <2>1. recent' \in Seq(BOOLEAN) /\ dead' \in Nat /\ DeadOK' BY <1>1, RoundIsRemembered
  <2>2. pc' \in {"aborted", "ended", "serve"} BY <1>1 DEF PeriodicRound
  <2>3. nextPeriodic' \in Nat /\ SpacingOK'
    BY <1>1, Constants DEF PeriodicRound, IInv, TypeOK, TimesOK, SpacingOK
  <2>4. TypeOK' BY <1>1, <2>1, <2>2, <2>3 DEF PeriodicRound, IInv, TypeOK
  <2>5. SchedulesOK' BY <1>1 DEF PeriodicRound, IInv, SchedulesOK
  <2>6. TimesOK' BY <1>1 DEF PeriodicRound, IInv, TimesOK
  <2> QED BY <2>1, <2>3, <2>4, <2>5, <2>6 DEF IInv
<1>2. CASE Serve
  <2>1. fired' \subseteq Timeframes /\ pc' \in {"ended", "look", "bars"}
    BY <1>2 DEF Serve, Due, IInv, TypeOK
  <2>2. \A tf \in fired' : pending[tf] <= now
    BY <1>2 DEF Serve, Due, IInv, TypeOK, SchedulesOK, TimesOK
  <2>3. TypeOK' BY <1>2, <2>1 DEF Serve, IInv, TypeOK
  <2>4. SchedulesOK' BY <1>2, <2>2 DEF Serve, IInv, TypeOK, SchedulesOK
  <2>5. TimesOK' BY <1>2 DEF Serve, IInv, TypeOK, TimesOK
  <2>6. SpacingOK' BY <1>2 DEF Serve, IInv, SpacingOK
  <2>7. DeadOK' BY <1>2, <2>1 DEF Serve, IInv, DeadOK
  <2> QED BY <2>3, <2>4, <2>5, <2>6, <2>7 DEF IInv
<1>3. ASSUME NEW tf \in Timeframes, BarRound(tf) PROVE IInv'
  <2>1. PICK b \in Int : /\ b = NextBoundary(now, Period[tf]) /\ b > now
                         /\ \E k \in Int : b = k * Period[tf] + Latency
    BY Constants, NextBoundaryIsNext DEF IInv, TypeOK
  <2>2. pending' = [pending EXCEPT ![tf] = b] /\ lastBar' = [lastBar EXCEPT ![tf] = now]
    BY <1>3, <2>1 DEF BarRound, FromTheClock
  <2>3. pc' \in {"look", "bars"} BY <1>3 DEF BarRound
  <2>4. TypeOK' BY <1>3, <2>2, <2>3 DEF BarRound, IInv, TypeOK
  <2>5. SchedulesOK'
    <3> SUFFICES ASSUME NEW t \in Timeframes
                 PROVE  /\ \E k \in Int : pending'[t] = k * Period[t] + Latency
                        /\ lastBar'[t] < pending'[t] /\ woke' <= pending'[t]
                        /\ t \in fired' => pending'[t] <= began'
      BY DEF SchedulesOK
    <3>1. CASE t = tf
      BY <3>1, <1>3, <2>1, <2>2 DEF BarRound, IInv, TypeOK, TimesOK
    <3>2. CASE t # tf
      BY <3>2, <1>3, <2>2 DEF BarRound, IInv, TypeOK, SchedulesOK, TimesOK
    <3> QED BY <3>1, <3>2
  <2>6. TimesOK' BY <1>3, <2>2 DEF BarRound, IInv, TypeOK, TimesOK
  <2>7. SpacingOK' BY <1>3 DEF BarRound, IInv, SpacingOK
  <2>8. DeadOK' BY <1>3, <2>3 DEF BarRound, IInv, DeadOK
  <2> QED BY <2>4, <2>5, <2>6, <2>7, <2>8 DEF IInv
<1>4. CASE LeaveWait
  <2>1. pc' \in {"ended", "periodic"} BY <1>4 DEF LeaveWait
  <2>2. TypeOK' BY <1>4, <2>1 DEF LeaveWait, IInv, TypeOK
  <2>3. SchedulesOK' BY <1>4 DEF LeaveWait, IInv, TypeOK, SchedulesOK, TimesOK
  <2>4. TimesOK' /\ SpacingOK' BY <1>4, <2>1 DEF LeaveWait, IInv, TypeOK, TimesOK, SpacingOK
  <2>5. DeadOK' BY <1>4, <2>1 DEF LeaveWait, IInv, DeadOK
  <2> QED BY <2>2, <2>3, <2>4, <2>5 DEF IInv
<1>5. CASE Nap
  <2>1. PICK t \in now..MaxNow : NapsUntil(t) /\ now' = t /\ woke' = t BY <1>5 DEF Nap
  <2>2. t \in Nat /\ t > now /\ \A tf \in Timeframes : t <= pending[tf]
    BY <2>1, Constants DEF NapsUntil, IInv, TypeOK
  <2>3. TypeOK' BY <1>5, <2>1, <2>2 DEF Nap, IInv, TypeOK
  <2>4. SchedulesOK' BY <1>5, <2>1, <2>2 DEF Nap, IInv, SchedulesOK
  <2>5. TimesOK' BY <1>5, <2>1, <2>2, Constants DEF Nap, IInv, TypeOK, TimesOK, Never
  <2>6. SpacingOK' BY <1>5 DEF Nap, IInv, SpacingOK
  <2>7. DeadOK' BY <1>5 DEF Nap, IInv, DeadOK
  <2> QED BY <2>3, <2>4, <2>5, <2>6, <2>7 DEF IInv
<1>6. CASE NoNap
  <2>1. TypeOK' BY <1>6 DEF NoNap, IInv, TypeOK
  <2>2. SchedulesOK' /\ TimesOK' BY <1>6 DEF NoNap, IInv, SchedulesOK, TimesOK
  <2>3. SpacingOK' /\ DeadOK' BY <1>6 DEF NoNap, IInv, SpacingOK, DeadOK
  <2> QED BY <2>1, <2>2, <2>3 DEF IInv
<1>7. CASE Elapse
  <2>1. TypeOK' BY <1>7 DEF Elapse, IInv, TypeOK
  <2>2. SchedulesOK' BY <1>7 DEF Elapse, IInv, SchedulesOK
  <2>3. TimesOK' BY <1>7, Constants DEF Elapse, IInv, TypeOK, TimesOK, Never
  <2>4. SpacingOK' /\ DeadOK' BY <1>7 DEF Elapse, IInv, SpacingOK, DeadOK
  <2> QED BY <2>1, <2>2, <2>3, <2>4 DEF IInv
<1>8. CASE Signal
  <2>1. TypeOK' BY <1>8 DEF Signal, IInv, TypeOK
  <2>2. SchedulesOK' /\ TimesOK' BY <1>8 DEF Signal, IInv, SchedulesOK, TimesOK
  <2>3. SpacingOK' /\ DeadOK' BY <1>8 DEF Signal, IInv, SpacingOK, DeadOK
  <2> QED BY <2>1, <2>2, <2>3 DEF IInv
<1>9. CASE Restart
  <2>1. /\ pending' = NextBoundaries(now) /\ now' = now /\ lastBar' = lastBar
        /\ fired' = {} /\ nextPeriodic' = now /\ pc' = "periodic" /\ dead' = 0
        /\ stop' = FALSE /\ once' \in BOOLEAN /\ woke' = now /\ began' = now
        /\ lastPeriodic' = Never /\ recent' = <<>>
    BY <1>9 DEF Restart, Start
  <2>2. now \in Nat BY DEF IInv, TypeOK
  <2>3. /\ pending' \in [Timeframes -> Int]
        /\ \A tf \in Timeframes :
             /\ pending'[tf] \in Int /\ pending'[tf] > now
             /\ \E k \in Int : pending'[tf] = k * Period[tf] + Latency
    BY <2>1, <2>2, NextBoundariesOK
  <2>4. recent' \in Seq(BOOLEAN) BY <2>1
  <2>5. TypeOK' BY <2>1, <2>2, <2>3, <2>4 DEF IInv, TypeOK
  <2>6. TimesOK' BY <2>1, <2>2 DEF IInv, TypeOK, TimesOK, Never
  <2>7. \A tf \in Timeframes : lastBar[tf] <= now /\ (lastBar[tf] \in Nat \cup {Never})
    BY DEF IInv, TypeOK, TimesOK
  <2>8. SchedulesOK'
    <3> SUFFICES ASSUME NEW t \in Timeframes
                 PROVE  /\ \E k \in Int : pending'[t] = k * Period[t] + Latency
                        /\ lastBar'[t] < pending'[t] /\ woke' <= pending'[t]
                        /\ t \in fired' => pending'[t] <= began'
      BY DEF SchedulesOK
    <3>1. \E k \in Int : pending'[t] = k * Period[t] + Latency BY <2>3
    <3>2. lastBar'[t] < pending'[t] /\ woke' <= pending'[t]
      BY <2>1, <2>2, <2>3, <2>7 DEF Never
    <3> QED BY <3>1, <3>2, <2>1
  <2>9. SpacingOK' BY <2>1 DEF SpacingOK
  <2>10. DeadOK' BY <2>1, Constants DEF DeadOK, Streak
  <2> QED BY <2>5, <2>6, <2>8, <2>9, <2>10 DEF IInv
<1>10. CASE UNCHANGED vars
  <2>1. TypeOK' BY <1>10 DEF vars, IInv, TypeOK
  <2>2. SchedulesOK' /\ TimesOK' BY <1>10 DEF vars, IInv, SchedulesOK, TimesOK
  <2>3. SpacingOK' /\ DeadOK' BY <1>10 DEF vars, IInv, SpacingOK, DeadOK
  <2> QED BY <2>1, <2>2, <2>3 DEF IInv
<1> QED
  BY <1>1, <1>2, <1>3, <1>4, <1>5, <1>6, <1>7, <1>8, <1>9, <1>10 DEF Next, Step

----------------------------------------------------------------------------
(***************************************************************************)
(* The types hold for every choice of timeframes, interval and bounds.     *)
(***************************************************************************)
THEOREM TypeCorrect == Spec => []TypeOK
<1>1. IInv => TypeOK BY DEF IInv
<1> QED BY <1>1, InitOK, NextOK, PTL DEF Spec

(***************************************************************************)
(* No boundary passes while the collector sleeps, whatever the timeframes, *)
(* the latency and the length of a nap.                                    *)
(***************************************************************************)
THEOREM NeverAsleepAtABoundary == Spec => []NoBoundaryAsleep
<1>1. IInv => NoBoundaryAsleep
  <2> SUFFICES ASSUME IInv, NEW tf \in Timeframes PROVE pending[tf] >= woke
    BY DEF NoBoundaryAsleep
  <2> QED BY DEF IInv, TypeOK, SchedulesOK
<1> QED BY <1>1, InitOK, NextOK, PTL DEF Spec

(***************************************************************************)
(* The collector aborts exactly when no symbol answered in MaxDead         *)
(* periodic rounds in a row, for any MaxDead.                              *)
(***************************************************************************)
THEOREM AbortIsEarned == Spec => []AbortsWhenDead
<1>1. IInv => AbortsWhenDead
  <2> SUFFICES ASSUME IInv PROVE AbortsWhenDead OBVIOUS
  <2>1. /\ Len(recent) \in Nat /\ Len(recent) <= MaxDead /\ MaxDead \in Nat \ {0}
        /\ dead \in Nat /\ Streak(recent, dead) /\ (pc = "aborted" <=> dead = MaxDead)
    BY Constants DEF IInv, TypeOK, DeadOK
  <2>2. ASSUME dead = MaxDead PROVE Len(recent) = MaxDead /\ \A k \in 1..MaxDead : ~recent[k]
    BY <2>1, <2>2 DEF Streak
  <2>3. ASSUME Len(recent) = MaxDead, \A k \in 1..MaxDead : ~recent[k] PROVE dead = MaxDead
    <3>1. CASE dead < Len(recent)
      <4>1. recent[Len(recent) - dead] = TRUE BY <2>1, <3>1 DEF Streak
      <4>2. Len(recent) - dead \in 1..MaxDead BY <2>1, <2>3, <3>1
      <4> QED BY <2>3, <4>1, <4>2
    <3>2. CASE ~(dead < Len(recent)) BY <2>1, <2>3, <3>2 DEF Streak
    <3> QED BY <3>1, <3>2
  <2> QED BY <2>1, <2>2, <2>3 DEF AbortsWhenDead
<1> QED BY <1>1, InitOK, NextOK, PTL DEF Spec

(***************************************************************************)
(* Two periodic rounds of a process begin an interval apart, for every     *)
(* interval and set of timeframes, however long requests take.             *)
(***************************************************************************)
THEOREM PeriodicApart == Spec => PeriodicRoundsApart
<1>1. IInv /\ [Next]_vars
      => [pc = "look" /\ pc' = "periodic" /\ lastPeriodic' # Never
          => now >= lastPeriodic + Interval]_vars
  <2> SUFFICES ASSUME IInv, [Next]_vars, pc = "look", pc' = "periodic", lastPeriodic' # Never
               PROVE  now >= lastPeriodic + Interval
    OBVIOUS
  <2>1. nextPeriodic \in Nat /\ now \in Nat /\ lastPeriodic \in Int /\ Interval \in Nat
    BY Constants DEF IInv, TypeOK, Never
  <2>2. nextPeriodic >= lastPeriodic + Interval BY DEF IInv, SpacingOK
  <2>3. LeaveWait
    <3>1. ~PeriodicRound BY DEF PeriodicRound
    <3>2. ~Serve BY DEF Serve
    <3>3. \A tf \in Timeframes : ~BarRound(tf) BY DEF BarRound
    <3>4. ~Nap /\ ~NoNap BY DEF Nap, NoNap
    <3>5. ~Elapse /\ ~Signal BY DEF Elapse, Signal
    <3>6. ~Restart BY DEF Restart, Start
    <3>7. pc' # pc OBVIOUS
    <3> QED BY <3>1, <3>2, <3>3, <3>4, <3>5, <3>6, <3>7 DEF Next, Step, vars
  <2>4. nextPeriodic <= now BY <2>3 DEF LeaveWait, PeriodicIsDue
  <2> QED BY <2>1, <2>2, <2>4
<1> QED BY <1>1, InitOK, NextOK, PTL DEF Spec, PeriodicRoundsApart

(***************************************************************************)
(* Every round of a timeframe has a boundary of its own, for every length  *)
(* of bars and every latency, across stalls and restarts.                  *)
(***************************************************************************)
THEOREM RoundsHaveBoundaries == Spec => OneRoundPerBoundary
<1>1. IInv => \A tf \in fired : \E k \in (-Latency)..MaxNow :
                 /\ lastBar[tf] < k * Period[tf] + Latency
                 /\ k * Period[tf] + Latency <= began
  <2> SUFFICES ASSUME IInv, NEW tf \in fired
               PROVE  \E k \in (-Latency)..MaxNow :
                        /\ lastBar[tf] < k * Period[tf] + Latency
                        /\ k * Period[tf] + Latency <= began
    OBVIOUS
  <2>1. tf \in Timeframes BY DEF IInv, TypeOK
  <2>2. PICK k \in Int : pending[tf] = k * Period[tf] + Latency
    BY <2>1 DEF IInv, SchedulesOK
  <2>3. lastBar[tf] < pending[tf] /\ pending[tf] <= began BY <2>1 DEF IInv, SchedulesOK
  <2>4. /\ began \in Nat /\ now \in Nat /\ began <= now /\ now <= MaxNow
        /\ lastBar[tf] \in Int /\ lastBar[tf] >= -1
    BY <2>1 DEF IInv, TypeOK, TimesOK, Never
  <2>5. Period[tf] \in Nat \ {0} /\ Latency \in Nat /\ MaxNow \in Nat BY <2>1, Constants
  <2> DEFINE p == Period[tf]  b == k * p
  <2>6. b \in Int /\ b >= -Latency /\ b <= MaxNow
    BY <2>2, <2>3, <2>4, <2>5
  <2>7. k >= 0 => k <= b BY <2>5
  <2>8. k < 0 => b <= k BY <2>5
  <2>9. k \in (-Latency)..MaxNow
    <3> HIDE DEF b
    <3> QED BY <2>5, <2>6, <2>7, <2>8
  <2> QED BY <2>2, <2>3, <2>9
<1>2. IInv /\ [Next]_vars
      => [\A tf \in Timeframes :
            pc = "bars" /\ tf \in fired /\ fired' = fired \ {tf} /\ pc' # "periodic"
            => \E k \in (-Latency)..MaxNow :
                 LET boundary == k * Period[tf] + Latency
                 IN  lastBar[tf] < boundary /\ boundary <= began]_vars
  BY <1>1
<1> QED BY <1>2, InitOK, NextOK, PTL DEF Spec, OneRoundPerBoundary
============================================================================
