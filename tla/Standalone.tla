----------------------------- MODULE Standalone ----------------------------
(***************************************************************************)
(* The parts that share no state with any other: copied signals,           *)
(* h1_momentum and crest_n_keel, which meet the rest only at the bridge,   *)
(* and of the research side the sweep engines, the walk-forward splitter   *)
(* and the sizer.  A behaviour is of one of them, chosen first.            *)
(***************************************************************************)
EXTENDS SweepEngines, Sequences, FiniteSets

CONSTANTS Signals, UseTps, TaskIds, Workers, MaxListeners, MaxRetries,  \* SignalCopy
          HoldBars, H1Bars, Tickets,                                    \* Momentum
          Tasks, MaxLate,                                               \* Crest
          Horizon, MaxWindow,                                           \* WalkForward
          VolumeMin, VolumeMax, VolumeStep, StopFloor,                  \* LotSize
          Budgets, Stops, Caps

\* Take-profits are numbered; there are finitely many tasks.
ASSUME SignalAssumption == UseTps \subseteq Nat /\ IsFiniteSet(TaskIds)

ASSUME LateAssumption == MaxLate \in Nat

ASSUME FoldAssumption == Horizon \in Nat /\ MaxWindow \in Nat

\* The instrument's terms: a positive step (registry.py raises otherwise), and
\* a largest lot that is tradable.
ASSUME LotAssumption ==
  /\ VolumeStep \in Nat \ {0} /\ VolumeMin \in Nat /\ VolumeMax \in Nat
  /\ VolumeMin <= VolumeMax /\ VolumeMax % VolumeStep = 0
  /\ StopFloor \in Nat /\ Budgets \subseteq Int /\ Stops \subseteq Int /\ Caps \subseteq Nat

VARIABLES which,
          content, posted, listeners, task, orders, rows,
          step, bar, fetched, todo, open, entered, used, listFails,
          at, held, issued, late, raced, unseen,
          series, sizes, excludes, foldAt, folds, ended,
          asked, sized

S == INSTANCE SignalCopy
M == INSTANCE Momentum WITH MaxBars <- H1Bars
C == INSTANCE Crest
W == INSTANCE WalkForward WITH MaxSize <- MaxWindow, at <- foldAt
L == INSTANCE LotSize

engineVars == <<strategy, bars, last, harness, engine, excused>>
signalVars == <<content, posted, listeners, task, orders, rows>>
momentumVars == <<step, bar, fetched, todo, open, entered, used, listFails>>
crestVars == <<at, held, issued, late, raced, unseen>>
foldVars == <<series, sizes, excludes, foldAt, folds, ended>>
lotVars == <<asked, sized>>
allVars == <<which, engineVars, signalVars, momentumVars, crestVars, foldVars, lotVars>>

\* The parts that do not run keep one initial state.
AllInit ==
  /\ which \in {"engines", "signals", "momentum", "crest", "folds", "lots"}
  /\ Init /\ (which # "engines" => strategy = "asqs")
  /\ S!Init /\ (which # "signals" => \A s \in Signals :
                                       content[s] = [valid |-> FALSE, entry |-> FALSE, named |-> {}])
  /\ M!Init /\ C!Init /\ L!Init
  /\ W!Init /\ (which # "folds" => series = {0} /\ excludes = <<>> /\ ~sizes.anchored
                                   /\ sizes.train + sizes.test + sizes.step + sizes.purge = 3)

Engines == which = "engines" /\ Next
           /\ UNCHANGED <<which, signalVars, momentumVars, crestVars, foldVars, lotVars>>
CopiedSignals == which = "signals" /\ S!Next
                 /\ UNCHANGED <<which, engineVars, momentumVars, crestVars, foldVars, lotVars>>
H1Momentum == which = "momentum" /\ M!Next
              /\ UNCHANGED <<which, engineVars, signalVars, crestVars, foldVars, lotVars>>
CrestNKeel == which = "crest" /\ C!Next
              /\ UNCHANGED <<which, engineVars, signalVars, momentumVars, foldVars, lotVars>>
Folds == which = "folds" /\ W!Next
         /\ UNCHANGED <<which, engineVars, signalVars, momentumVars, crestVars, lotVars>>
Lots == which = "lots" /\ L!Next
        /\ UNCHANGED <<which, engineVars, signalVars, momentumVars, crestVars, foldVars>>
AllNext == Engines \/ CopiedSignals \/ H1Momentum \/ CrestNKeel \/ Folds \/ Lots

Worked(d) == which = "signals" /\ S!Work(d)
             /\ UNCHANGED <<which, engineVars, momentumVars, crestVars, foldVars, lotVars>>
AllSpec == AllInit /\ [][AllNext]_allVars /\ \A d \in TaskIds : SF_allVars(Worked(d))

-----------------------------------------------------------------------------
\* Copied signals: a take-profit gets one order per task that was made of it.
OrdersPerTask == S!OrdersPerTask
\* Copied signals: a task that is queued is done, failed or lost in the end.
TasksEnd == S!TasksEnd
\* h1_momentum: two positions only where a failed listing hid the first.
ReentryNeedsFailedListing == M!ReentryNeedsFailedListing
\* crest_n_keel: two positions only past an overlapping task, a late order or a
\* silent error.
DuplicateNeedsBlindness == C!DuplicateNeedsBlindness
\* Walk-forward: train before test, nothing excluded in either, nothing lost.
FoldsSound == W!FoldsSound
\* Sizing: the largest tradable order the budget and the ceiling allow, or none.
LotsWithinBudget == L!LotsWithinBudget
============================================================================
