----------------------------- MODULE Collector -----------------------------
(***************************************************************************)
(* The forward spread collector: one thread that samples every symbol in   *)
(* a periodic round and, between those, in a round just after each bar     *)
(* boundary.  Requests take time, the process is stopped by a signal, is   *)
(* killed and started again, and its source may die.  Time is counted in   *)
(* units of which a nap is NapLength.                                      *)
(***************************************************************************)
EXTENDS Integers, Sequences

CONSTANTS Timeframes,     \* --bar-timeframes
          Period,         \* TIMEFRAME_SECONDS
          Latency,        \* --bar-latency-ms
          Interval,       \* --interval
          NapLength,      \* the longest time.sleep
          MaxDead,        \* --max-consecutive-failures
          MaxNow          \* bound: the time at which the behaviour stops

ASSUME CollectorAssumption ==
  /\ Period \in [Timeframes -> Nat \ {0}]
  /\ {Latency, MaxNow} \subseteq Nat
  /\ {Interval, NapLength, MaxDead} \subseteq Nat \ {0}

VARIABLES
  pc,            \* where main() is
  now,           \* now_utc()
  pending,       \* the next sampling instant of each timeframe
  fired,         \* the due timeframes the pass has still to sample
  nextPeriodic,
  dead,          \* consecutive_dead_rounds
  stop,          \* _stop
  once,          \* --once
  woke,          \* observer: when the process started, or its last nap ended
  began,         \* observer: when the round that is being sampled began
  lastPeriodic,  \* observer: when this process began its last periodic round
  lastBar,       \* observer: when the last round of each timeframe ended
  recent         \* observer: did a symbol answer in the last periodic rounds?

schedule == <<pending, fired, nextPeriodic>>
observers == <<woke, began, lastPeriodic, lastBar, recent>>
vars == <<pc, now, schedule, dead, stop, once, observers>>

Never == -1

Running == pc \in {"periodic", "serve", "bars", "look"}

----------------------------------------------------------------------------
NextBoundary(t, p) == ((t - Latency) \div p + 1) * p + Latency

NextBoundaries(t) == [tf \in Timeframes |-> NextBoundary(t, Period[tf])]

\* From the start of main() to the first round.
Start(t, state) ==
  /\ pending' = NextBoundaries(t) /\ fired' = {} /\ nextPeriodic' = t
  /\ pc' = state /\ dead' = 0 /\ stop' = FALSE /\ once' \in BOOLEAN
  /\ woke' = t /\ began' = t /\ lastPeriodic' = Never /\ recent' = <<>>

Init ==
  /\ now = 0
  /\ pending = NextBoundaries(now) /\ fired = {} /\ nextPeriodic = now
  /\ pc = "periodic" /\ dead = 0 /\ stop = FALSE /\ once \in BOOLEAN
  /\ woke = now /\ began = now /\ lastPeriodic = Never /\ recent = <<>>
  /\ lastBar = [tf \in Timeframes |-> Never]

----------------------------------------------------------------------------
\* The last MaxDead outcomes.
Remember(answered) ==
  LET all == Append(recent, answered)
  IN  recent' = IF Len(all) > MaxDead THEN Tail(all) ELSE all

DeadNeverResets(answered) == IF answered THEN dead ELSE dead + 1

DeadRounds(answered) == IF answered THEN 0 ELSE dead + 1

\* A periodic round is written, and counted against the bound on dead ones.
PeriodicRound ==
  /\ pc = "periodic"
  /\ \E answered \in BOOLEAN :
       /\ dead' = DeadRounds(answered)
       /\ Remember(answered)
       /\ pc' = IF dead' >= MaxDead THEN "aborted" ELSE IF once THEN "ended" ELSE "serve"
  /\ nextPeriodic' = IF pc' = "serve" THEN now + Interval ELSE nextPeriodic
  /\ lastPeriodic' = began
  /\ UNCHANGED <<now, pending, fired, stop, once, woke, began, lastBar>>

OnTheDot == {tf \in Timeframes : pending[tf] = now}

Due == {tf \in Timeframes : pending[tf] <= now}

\* The head of the wait loop.
Serve ==
  /\ pc = "serve"
  /\ IF stop THEN pc' = "ended" /\ UNCHANGED fired
     ELSE fired' = Due /\ pc' = IF Due = {} THEN "look" ELSE "bars"
  /\ began' = now
  /\ UNCHANGED <<now, pending, nextPeriodic, dead, stop, once, woke, lastPeriodic, lastBar, recent>>

FromTheBoundary(tf) == pending[tf] + Period[tf]

FromTheClock(tf) == NextBoundary(now, Period[tf])

\* A round of a due timeframe is written; `fired' is a list, its order of no
\* consequence.
BarRound(tf) ==
  /\ pc = "bars" /\ tf \in fired
  /\ pending' = [pending EXCEPT ![tf] = FromTheClock(tf)]
  /\ fired' = fired \ {tf}
  /\ pc' = IF fired' = {} THEN "look" ELSE "bars"
  /\ began' = now /\ lastBar' = [lastBar EXCEPT ![tf] = now]
  /\ UNCHANGED <<now, nextPeriodic, dead, stop, once, woke, lastPeriodic, recent>>

NearestIsPast == nextPeriodic <= now \/ \E tf \in Timeframes : pending[tf] <= now

PeriodicIsDue == nextPeriodic <= now

\* time.sleep(min(1.0, wait)), for the nearest target.
NapsToPeriodic(t) == /\ t > now /\ t <= now + NapLength /\ t <= nextPeriodic
                     /\ t = now + NapLength \/ t = nextPeriodic

NapsUntil(t) ==
  /\ t > now /\ t <= now + NapLength
  /\ t <= nextPeriodic /\ \A tf \in Timeframes : t <= pending[tf]
  /\ \/ t = now + NapLength \/ t = nextPeriodic
     \/ \E tf \in Timeframes : t = pending[tf]

\* The end of the pass: leave the wait loop, sleep, or go round again at once
\* because a boundary has come meanwhile.
LeaveWait ==
  /\ pc = "look" /\ PeriodicIsDue
  /\ pc' = IF stop THEN "ended" ELSE "periodic"
  /\ began' = now
  /\ UNCHANGED <<now, schedule, dead, stop, once, woke, lastPeriodic, lastBar, recent>>

Nap ==
  /\ pc = "look" /\ ~PeriodicIsDue
  /\ \E t \in now..MaxNow : NapsUntil(t) /\ now' = t /\ woke' = t
  /\ pc' = "serve"
  /\ UNCHANGED <<schedule, dead, stop, once, began, lastPeriodic, lastBar, recent>>

NoNap ==
  /\ pc = "look" /\ ~PeriodicIsDue
  /\ \E tf \in Timeframes : pending[tf] <= now
  /\ pc' = "serve"
  /\ UNCHANGED <<now, schedule, dead, stop, once, observers>>

Step == \/ PeriodicRound \/ Serve \/ (\E tf \in Timeframes : BarRound(tf))
        \/ LeaveWait \/ Nap \/ NoNap

----------------------------------------------------------------------------
\* A request takes long, or the process does not get the processor.
Elapse == /\ now < MaxNow /\ now' = now + 1
          /\ UNCHANGED <<pc, schedule, dead, stop, once, observers>>

\* SIGINT or SIGTERM.
Signal == /\ Running /\ ~stop /\ stop' = TRUE
          /\ UNCHANGED <<pc, now, schedule, dead, once, observers>>

\* Killed or ended, and started again on the same file.
Restart == Start(now, "periodic") /\ UNCHANGED <<now, lastBar>>

Next == Step \/ Elapse \/ Signal \/ Restart

Spec == Init /\ [][Next]_vars /\ WF_vars(Step)

----------------------------------------------------------------------------
(***************************************************************************)
(* "The loop never slept, and the periodic schedule ran at request rate"   *)
(* (d3a_spread_forward.py:407): two periodic rounds of one process begin   *)
(* at least an interval apart, however late rounds and boundaries are.     *)
(***************************************************************************)
PeriodicRoundsApart ==
  [][pc = "look" /\ pc' = "periodic" /\ lastPeriodic' # Never => now >= lastPeriodic + Interval]_vars

(***************************************************************************)
(* "A stall skips ahead rather than replaying a burst" (line 421): a round *)
(* of a timeframe begins after a boundary of its own, one that had not     *)
(* come when the round before it ended, also across a restart.             *)
(***************************************************************************)
OneRoundPerBoundary ==
  [][\A tf \in Timeframes :
       pc = "bars" /\ tf \in fired /\ fired' = fired \ {tf} /\ pc' # "periodic"
       => \E k \in (-Latency)..MaxNow :
            LET boundary == k * Period[tf] + Latency
            IN  lastBar[tf] < boundary /\ boundary <= began]_vars

(***************************************************************************)
(* Sleeping "would put the boundary sample late by up to a full interval"  *)
(* (line 397): no boundary passes while the process sleeps, so a round     *)
(* after a boundary is late only by what requests took.                    *)
(***************************************************************************)
NoBoundaryAsleep == \A tf \in Timeframes : Running => pending[tf] >= woke

(***************************************************************************)
(* "A collector whose source has gone away must stop and say so" (line     *)
(* 373) and "a transient hole must not accumulate toward the abort         *)
(* threshold" (test_collector_abort.py): it aborts when no symbol answered *)
(* in as many periodic rounds in a row as allowed, then and only then.     *)
(***************************************************************************)
AbortsWhenDead ==
  pc = "aborted" <=> Len(recent) = MaxDead /\ \A k \in 1..MaxDead : ~recent[k]

(***************************************************************************)
(* "Nothing then advanced pending[tf]" (line 405): a boundary that has     *)
(* come is sampled, or the process ends or starts anew: the series of a    *)
(* timeframe does not silently stop.                                       *)
(***************************************************************************)
BoundaryIsSampled ==
  \A tf \in Timeframes : Running /\ pending[tf] <= now ~> ~Running \/ pending[tf] > now

TypeOK ==
  /\ pc \in {"periodic", "serve", "bars", "look", "ended", "aborted"}
  /\ now \in Nat /\ pending \in [Timeframes -> Int] /\ fired \subseteq Timeframes
  /\ nextPeriodic \in Nat /\ dead \in Nat /\ stop \in BOOLEAN /\ once \in BOOLEAN
  /\ woke \in Nat /\ began \in Nat /\ lastPeriodic \in Nat \cup {Never}
  /\ lastBar \in [Timeframes -> Nat \cup {Never}] /\ recent \in Seq(BOOLEAN)
============================================================================
