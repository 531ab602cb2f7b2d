---------------------------- MODULE WalkForward ----------------------------
(***************************************************************************)
(* The walk-forward splitter (research/validation/walk_forward.py):        *)
(* rolling and expanding folds over a series with gaps, dropped when they  *)
(* touch an excluded range, and the report of what was dropped.            *)
(*                                                                         *)
(* Time is counted in units; a series is the set of times that have a bar. *)
(* A step of zero, with which the generator never ends, is not an input.   *)
(***************************************************************************)
EXTENDS Integers, Sequences, FiniteSets, FiniteSetsExt, SequencesExt

CONSTANTS Horizon,   \* times a series may span: 0..Horizon
          MaxSize    \* largest train, test and step size

VARIABLES series,    \* the times with a bar
          sizes,     \* train, test, step and purge, and whether train is anchored
          excludes,  \* the excluded ranges, as given
          at,        \* cur_train_start (rolling) or cur_train_end (expanding)
          folds,     \* what was made of each window pair so far
          ended

vars == <<series, sizes, excludes, at, folds, ended>>

Ranges == {r \in [from : 0..Horizon, to : 0..Horizon] : r.from <= r.to}
Sizes == [train : 1..MaxSize, test : 1..MaxSize, step : 1..MaxSize, purge : 0..1, anchored : BOOLEAN]

Init == /\ series \in {s \in SUBSET (0..Horizon) : 0 \in s}
        /\ sizes \in Sizes
        /\ excludes \in {<<>>} \cup {<<r>> : r \in Ranges}
        /\ at = IF sizes.anchored THEN sizes.train ELSE 0
        /\ folds = <<>> /\ ended = FALSE

\* The windows of the fold the loop is at; both are closed intervals.
TrainWindow == [from |-> IF sizes.anchored THEN 0 ELSE at,
                to |-> IF sizes.anchored THEN at ELSE at + sizes.train]
TestWindow == LET start == TrainWindow.to + sizes.purge
              IN  [from |-> start, to |-> start + sizes.test]

Slice(w) == {t \in series : w.from <= t /\ t <= w.to}
\* Ranges that share an end taken for disjoint.
OverlapUnlessTouching(a, b) == ~(a.to <= b.from \/ a.from >= b.to)

Overlap(a, b) == ~(a.to < b.from \/ a.from > b.to)

TouchesAny(train, test) == \E i \in DOMAIN excludes : Overlap(train, excludes[i]) \/ Overlap(test, excludes[i])

Outcome == IF Slice(TrainWindow) = {} \/ Slice(TestWindow) = {} THEN "skipped"
           ELSE IF TouchesAny(TrainWindow, TestWindow) THEN "excluded" ELSE "yielded"

Fold == /\ ~ended /\ TestWindow.to <= Max(series)
        /\ folds' = Append(folds, [is |-> Outcome, train |-> TrainWindow, test |-> TestWindow])
        /\ at' = at + sizes.step
        /\ UNCHANGED <<series, sizes, excludes, ended>>
Break == /\ ~ended /\ TestWindow.to > Max(series)
         /\ ended' = TRUE
         /\ UNCHANGED <<series, sizes, excludes, at, folds>>

Next == Fold \/ Break
Spec == Init /\ [][Next]_vars

\* No fold handed to a study holds a bar of an excluded range, and no training
\* bar comes after a test bar: they share at most the boundary bar, and only
\* without a purge.  At the end no bar between the first test and the last is
\* lost: it was tested, or its fold is in the report, or that fold had nothing
\* to train on (such a fold is in no report).
FoldsSound ==
  /\ \A k \in DOMAIN folds : folds[k].is = "yielded" =>
       LET train == Slice(folds[k].train)
           test == Slice(folds[k].test)
       IN  /\ train # {} /\ test # {}
           /\ \A i \in DOMAIN excludes : \A t \in train \cup test : t < excludes[i].from \/ t > excludes[i].to
           /\ \A t \in train, u \in test : t <= u /\ (t = u => sizes.purge = 0 /\ t = folds[k].train.to)
  /\ ended /\ folds # <<>> /\ sizes.step <= sizes.test =>
       \A t \in series : folds[1].test.from <= t /\ t <= Last(folds).test.to =>
         \E k \in DOMAIN folds : /\ t \in Slice(folds[k].test)
                                 /\ folds[k].is = "skipped" => Slice(folds[k].train) = {}
=============================================================================
