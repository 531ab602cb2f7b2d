# Verification of quant_harness

TLA+ models of the parts of `quant_harness` that hold state, talk to a broker or
write files other parts read, with TLC instances and TLAPS proofs.
`PROJECT.json` lists components, runs, the source lines of every definition, hazards,
findings and theorems. This file says how they fit together.

Path prefixes used below: `P` = `src/packages/qh-platform/backend/trading/app`,
`M` = `src/packages/qh-platform/backend/mt5-api/app`, `R` = `src/packages/qh-research/research`,
`RS` = `src/packages/qh-resources/resources`, `S` = `src/packages/qh-strategies/strategies`.

## Inventory

| Part | State | Operations | Who it talks to | What is hard | What makes it correct |
|---|---|---|---|---|---|
| asqs strategy (`P/quant/strategies/asqs`) | partial-close file, peak file, Trade rows | every 5 min: manage positions, guard, cap, dedup, order, record | bridge (HTTP), database, files | calls that execute unanswered, kills, overlapping tasks, stale listings | one position, one TP1 per position, no stop lowered knowingly, the daily cap |
| crest_n_keel (`P/quant/strategies/crest_n_keel`) | peak file, Trade rows | evaluate: guard, filters, dedup, spread, order | bridge, database | no expiry and no time limit; check, then order; errors listed as no positions | one position; a check that fails blocks |
| h1_momentum (`P/quant/strategies/h1_momentum`) | none of its own | hourly: close what was held long enough, then enter | bridge, database | a failed listing counts as no position, twice in a pass | no re-entry while open |
| drawdown guard and peak store | cached peak, peak file | read, is_tripped, update | strategies | shared `.tmp` name, cached peak, lost volume | the file is the high-water mark; no entry in breach |
| sizer (`RS/risk/sizer.py`, registry rounding, `P/quant/strategies/sizer.py`) | none | stop, lots | strategies | rounding down to the lot step, minimum lot | risk within budget, refusal below the minimum |
| order records (`P/adapters/utils/create.py`, broker adapter) | Trade, mutation rows | create | strategies, sync | an order without a row | every filled order has a row |
| trade sync (`P/quant/tasks.py`) | Trade.synched, exit fields | poll position, order, deals | bridge, database | three reads at three times, REST writes meanwhile | final rows are closed, complete, and come about |
| trades REST (`P/trades/views.py`) | Trade rows | modify, close | bridge, database | concurrent with sync and strategies | a recorded exit happened |
| forexero (Telegram listener and executor) | Trade rows | listen, parse, order, retry | Telegram, Celery, bridge | several listeners, retries from the start, kills between orders | one order per take-profit and task |
| MT5 bridge (`M/main.py`) | connection flag | list, send, modify, close, history | terminal | what a client is told and what happened differ | answers match the account |
| supervisor (`M/scripts/10-supervise.sh`, `02-common.sh`) | failures, backoff | check, repair, give up | bridge process, terminals | repairs race clients and crashes | the API gets linked again; repairs do no harm |
| canary, beat schedule | none | compare, alert | Celery, bridge | late or duplicate beats | one alert per miss |
| research log (`R/log.py`) | append-only JSONL with a hash chain | register, update, append, migrate, verify | research scripts | two writers, schema switches, trial counts | verify() finds what went wrong; what it accepts is sound |
| strategy runner (`S/base.py`, `flood_tide.py`) | open position, last entry | bar loop | simulated or live broker | look-ahead, order of exit and entry | decisions from closed bars only |
| backtest strategies (`R/engines/strategies`) and sweep engines (`R/post/sweeps`) | position, stop, peak, day count, cash | bar by bar, or trade by trade | backtesting.py | two implementations of each strategy that visit different bars | the same trades |
| simulated broker (`RS/execution`) | none | fill | runner | fill on the next bar only | no fill before its decision |
| calendar mask (`RS/data/mask.py`) | none | masked rolling | indicators | window across a gap | no value from a masked bar |
| walk-forward windows (`R/validation/walk_forward.py`) | report of dropped folds | rolling, expanding | research studies | the boundary bar, gaps, excluded ranges | train before test, nothing excluded in a fold |
| spread collector (`src/phase0/collectors/d3a_spread_forward.py`) | next instants, dead rounds | periodic rounds, boundary rounds, naps | bridge | slow requests, boundaries inside rounds, restarts, a dead source | no round lost, none doubled, no flood |

How they meet: Celery beat starts the strategy tasks and the sync; three workers run
them, so two tasks can overlap. Strategies and the sync reach the broker only through
`MT5APIClient` (HTTP, 30 s timeout) and the bridge, and share the Trade table and the
files of the state volume. The supervisor and the bridge share the container and its
terminals. Research scripts share one log file. The runner is called by backtests.

The collector runs alone, for weeks. A sweep uses the engines for speed and trusts them
only because they make the trades of the strategies under backtesting.py.

### Not modelled

- Studies, metrics, dataset builders, reports, the user interface, migrations and
  installation scripts: batch computations over floats, or presentation, with no state
  that another actor shares. They are most of the repository's lines.
- The canary and the beat schedule: a check that reads and alerts, and a table of
  periods, which the other modules take as assumptions.
- The calendar mask: its content is the calendar, its arithmetic a rolling window of
  pandas. The simulated broker: one price formula, which no code but its tests calls.
- The one-shot collectors: they read once and write one artifact.
- Of modelled parts: the seven signal conditions of asqs and the filters of
  crest_n_keel and h1_momentum (a free choice to go on or stop), how a Telegram message
  is parsed, the account sync, the trade mutations, the exit reason, the bridge's market
  data and connection calls; in the sweep engines commission, swap, the last bar of the
  data (backtesting.py finalises open trades there) and the asqs engine's `ea` mode.

## Modules

| Module | Models | Uses |
|---|---|---|
| `HighWater` | what the drawdown guard promises: one peak, one admission at a time | |
| `DrawdownGuard` | guard, store and its file system steps, per task | `HighWater` as refinement target |
| `Bridge` | the account behind the MT5 bridge and each trading call's outcome | |
| `AsqsCycle` | the asqs evaluation cycle | extends `Bridge` |
| `TradeSync` | the hourly sync and the REST close | extends `Bridge` |
| `ResearchLog` | the hash-chained log and its racing writers | |
| `Supervise` | supervisor loop, repairs, terminals, server, connecting clients | |
| `Runner` | `run()` with flood_tide, three runs in lockstep | |
| `Collector` | the spread collector's loop against a clock | |
| `SignalCopy` | forexero: listeners, tasks, orders, rows | |
| `Momentum` | the h1_momentum pass | |
| `Crest` | crest_n_keel evaluations, two at once | |
| `SweepEngines` | five strategies, each as backtesting.py Strategy and as sweep engine | |
| `WalkForward` | the walk-forward splitter and its report | |
| `LotSize` | sizing, rounding and the ceiling | |
| `Standalone` | the six before as one specification: a behaviour is of one of them | extends `SweepEngines`, instantiates the others |
| `MC...` | constants and symmetry for TLC | extends the module |
| `...Proofs` | inductive invariants and theorems | extends the module and TLAPS |

In every module an action is one call that other processes can see: a remote call, a
file system call, a database save. Between two actions anything else may happen. The
labels in `pc` are the places between them.

### Drawdown guard

`peakFile` and `tmpFile` are the two names in the state directory; their contents are
an equity, nothing (`None`) or text that does not parse (`Torn`). Every task has its
own guard (`cached`) and, while it writes, an open file. Opening truncates the shared
temporary file (`Truncate`), closing puts the text in the file that was opened (under
whatever name it has by then, `Renamed`), `os.replace` renames. A kill, an `OSError`
or a missing account ends a task anywhere (`Abort`). `Overlap` lets two tasks of a
strategy run together, which the deployment allows: three workers, a beat every five
minutes that expires after 240 s, a time limit of 120 s. `StateLoss` removes the file.
Equities are whole units; the code compares floats, and the models show the exact
threshold, one unit below it and a new high.

### Broker bridge and asqs cycle

`Bridge` holds the open positions (`book`) and the tickets ever used (`issued`). A
call is answered `done`, `refused` (a response whose `success` is false) or `error`
(an exception). A partial fill is `refused` to the client and still trades. With
`LostReplies` an `error` may have executed. With `SilentList` a failing
`positions_get` is answered as if nothing were open.

Stops and ticks are in points of profit, so that buy and sell are the same formula. A
stop of zero (no stop) does not occur for the strategy's own orders.

`AsqsCycle` gives each task a label: `list`, `pick`, `tp1`, `mark`, `be`, `trail` for
position management, `account`, `dedup`, `send`, `record` for the entry. `account` and
`send` also stand for the filters that can only end the evaluation (`Declines`). The
drawdown guard is one of them here and has its own module. `faults`, `closes`,
`opened`, `unrecorded`, `tardy` and `moved` only observe.

The client gives a call up after 30 s (`MT5APIClient`, `GivesUp`); the request still
waits for one of the bridge's four threads or for the terminal, and `late` holds it.
`LateExecutes` runs it at any later time, whatever the next cycles have decided by
then, or loses it. An order executed that way is in `tardy`: nobody knows of it until a
listing shows it, so `OnePosition` and `OnePerTask` count without it and no cap sees
it. A late close is a TP1 close without a mark. It can also make TP1 close a whole
position: the volume was listed before the late close took its part, and half of the
old volume is all of the rest. `Tp1LeavesPosition` says that nothing else does.

A late modify moves a stop behind the back of the task that manages the position now.
Task 1 lists the stop at 20 and its trail to 150 times out; task 2 lists 20; the late
trail sets 150; task 2 trails to 100. An operator or an overlapping task does the same.
The breakeven and trailing blocks compare with the stop that was listed, or with the
breakeven stop they were answered for, never with the account's, so what they can keep
is `LoosenedOnlyUnseen`: they lower a stop only if something else moved it since the
listing (`moved`, kept by `Unseen`). What a task did itself, answered or not, is no
excuse: after a breakeven that executed without an answer the trailing stop is still no
lower, because the smallest one is not below the breakeven stop.

### Trade sync and REST close

The broker's side is `order` (placed, filled, dead) and `deals` per ticket, next to
the account of `Bridge`. `row` is the Trade row: final (`synched`), status, P&L, exit.
A sync task goes `idle`, `next`, `position`, then `running` (open: save the running
P&L) or `order`, `deals`, `final`. A REST close goes `idle`, `send`, `save`. Failing
calls (`CallFails`) skip the row until the next pass. `misread` and `unsure` observe
when a task was told that a position is gone which is not, or asked while the order
was still pending. One environment is synced; the loop over environments repeats it.

Fairness: `WF` of each sync task, because beat starts it hourly and a worker runs it.
Nothing is assumed of broker or clients; failing calls are bounded by `MaxFaults`,
that is, they do not fail for ever.

Nothing in the repository keeps two syncs apart: beat starts one per hour, three
workers take tasks, and a sync has no lock and no time limit. The instance has one task,
which is what happens as long as a sync takes less than an hour. With two, `FinalPnlIsTotal`
fails: one task asks for the running P&L of an open position, the position closes, the
other task makes its row final, and the first then saves the running P&L over the final
one (`P/quant/tasks.py:55`), where it stays. `FinalNeedsUnsure` holds for any number of tasks.

### Research log

`log` is the list of complete lines, `torn` whether the file ends in part of one.
Every call reads the whole file (`Read`: `seen`), decides on what it read, and appends
one line whose `seq` and `prev_hash` come from what it read. `append_record`, which
writes the migration markers, reads a second time (`ReadAgain`). A writer may die in
the middle of its line (`Tear`); a later writer that read before appends to the torn
line. `Edit` changes, removes or moves one line by hand. The hash is an injective
tuple. `Forms` are the registrations that the schema checks tell apart. `said`,
`stale`, `edited` observe.

### Supervisor

`pc` walks through the script: `sleep` and check; `probe`, `connect`, `confirm` (the
cheap repair); `reap`, `ensure`, `stop`, `start`, `await`, `relink`, `reconfirm` (the
full one); `backoff`; `gaveUp`. `server`, `link`, `live` and `hung` are the processes.
While `broken` holds, servers and terminals fail at any time and launched terminals
may hang; `Mend` ends it, `Break` begins it again. Assumed: when nothing is broken, a
terminal that is launched answers, a server that starts comes up within the three
minutes the script waits, and a call to a linked server succeeds. Clients ask for a
connection whenever they like (`ClientConnects`), during a repair too.

`api_connect` is one `wget --timeout=60` (`02-common.sh:60`). It names no `--tries`, so a
post that is not answered in time is sent again, twenty times in all, and each makes the
bridge call `mt5.initialize()`. `Connect` is the post that is answered or refused;
`Repeat` one that is not answered in time, which was executed or waits (`pending`) for
one of the server's threads; `LateInitialize` executes a waiting one at any later time,
after the script has gone on. Assumed: only while `broken` holds does an answer take
longer than a minute. A failed repair can thus leave the terminal it started and one for
each try of its last connect, twenty-one in all, which is what
`FailedRepairsDoNotAddUp` allows. It says that the next repair does not add to them. It
does not say that the container survives one: 17 hung terminals exhausted its memory
(`02-common.sh:92-93`).

Fairness: `WF` of the script, which is a shell loop without a lock, and of a starting
server. Clients and waiting posts owe nothing.

What the model shows and the script does not promise: the cheap repair that succeeds
never reaps, so hung terminals are only removed by a full repair (`MaxHung` bounds
them); with ten allowed failures nine repairs are made, because the tenth check gives
up before it repairs; afterwards clients still connect.

### Strategy runner

`Runner` runs the loop on a series of bars (`full`), on a beginning of it whose last
bar still has another high, low and close (`forming`), and with entries disabled
(`retired`), bar by bar side by side. Features are operators on the series: the
Donchian levels, the higher-timeframe close with the time it becomes available, the
efficiency ratio. `Managed` is manage_position, `Wanted` evaluate_entry, `Row` the
row written for the bar. Prices are integers (the code compares floats). The span of
the higher-timeframe EMA is one, where the EMA is the last available close; only which
closes are available matters here, and a longer span averages the same ones. Missing
values do not arise after the warm-up. No strategy asks `run()` for a partial close.

### Spread collector

`now` is the clock; every action of the loop can be followed by any amount of time
(`Elapse`), which is what requests take. `pc` is at a periodic round, at the head of
the wait loop (`serve`), in the list of due timeframes (`bars`), or where the loop
decides to leave, nap or go round again (`look`). `pending` and `nextPeriodic` are the
program's; `woke`, `began`, `lastPeriodic`, `lastBar` and `recent` observe. A signal
sets `stop`, a restart begins again with empty hands and the same file. A nap lasts
`NapLength` at most, as `time.sleep(min(1.0, wait))` does. Fairness: `WF` of the
process's own step; the clock owes nothing, a dead source nothing either.

### Copied signals, h1_momentum, crest_n_keel

`SignalCopy`: a message makes at most one task per running listener (`Post`), a listener
is a task itself and occupies one of three workers. Celery acknowledges a task when a
worker takes it (nothing in `settings.py` says otherwise), so a killed task is lost. A
task that raises is queued again from the start. All it can raise comes before its first
order: the comparison of the entry price with a tick that has no prices. Fairness: `SF`
of each task's own work, because a worker that listeners or other tasks hold is free
again and again; listeners are assumed to leave one worker, since with three of them no
task ever runs.

`Momentum`: one pass at a time, with the two listings it makes as separate calls and
a failed listing as an empty one. An order that executes after its client gave up is
left out there: passes are an hour apart, the client waits 30 s. `Crest`: two tasks; a
listing is the positions, nothing, or an exception; the bridge answers an error of the
terminal with nothing. A task whose order times out ends (`OrderGivenUp`), and the
bridge may execute the order (`LateOrder`) after the next task, which was waiting in the
queue, has truly listed nothing. `raced` holds tasks that another task or a late order
came between; `DuplicateNeedsBlindness` names the late order as a way of its own.

### Sweep engines and strategies

A step is a bar. `harness` is the account of the strategy's `next()` under
backtesting.py, which sees every bar; `engine` is the account of `simulate()`, whose
inner loop does its work for that bar when a trade is open and whose outer loop acts on
it when the trade is over and the bar is an entry candidate. A bar and what indicators
say of it are inputs that both share, so look-ahead and indicator arithmetic are not in
question here. Prices of shorts are negated; sizes are hundredths of an ounce. The
behaviour ends (`excused`) when a strategy halts on drawdown, whose peak includes the
open position while the engine's is of realised cash, or when asqs orders a fraction
of an ounce, which backtesting.py takes for a share of the equity; the engines say of
neither that they reproduce it.

### Walk-forward windows and sizing

A series is a set of times, windows are closed intervals, and each turn of the generator
is recorded with what became of it. A size is one call: its inputs and its result.

## Runs

| Run | Expect | Shows |
|---|---|---|
| `guard_serial` | pass | with tasks one at a time, killed anywhere, the file is the high-water mark, no entry in breach, refinement of `HighWater` |
| `guard_overlap_heals` | pass | whatever overlap, kills and loss left, the next lone update repairs the file |
| `asqs_serial` | pass | with a call that executes after the task gave it up: one position next to a late order, repeats of TP1 only after a fault, whole positions closed only on an outdated volume, stops lowered only if moved unseen, cap exceeded only by unrecorded orders, marks outlive positions |
| `asqs_overlap_bounded` | pass | two tasks and an operator: one position per task at most, stops lowered only if the other task or the operator moved them since the listing |
| `log_writers` | pass | verify() accepts exactly the files nothing went wrong with; what it accepts registers once and respects the schemas; state and trial count follow the events |
| `sync_faults` | pass | final rows are closed and complete unless the bridge misled the task; settled rows get final |
| `supervise` | pass | failed repairs do not add up their terminals, though connects are posted again and executed late; giving up is earned; a clean repair works; the API gets linked |
| `runner` | pass | no look-ahead, management without entries, exits, stops, cooldown |
| `collector` | pass | periodic rounds keep their distance, every boundary is sampled once and not overslept, across stalls and restarts; the abort is earned |
| `standalone` | pass | engines and strategies make the same trades; one order per task and take-profit, tasks end; one position in h1_momentum and crest_n_keel unless they were misled or overlapped or an order executed late; folds are sound; lots are within the budget |
| `asqs_tp1_refused` | violation | a refused TP1 close is marked as done |
| `sync_final_open` | violation | a failed positions_get makes the row of an open position final |

Known divergences without a run of their own:
- A position can take its TP1 close twice: the close is sent (`asqs/strategy.py:564`)
  and then marked, and a lost reply, a kill or a failed write of the tracker between
  them leaves no mark, against "one-time" (`asqs/strategy.py:508`). `asqs_serial`
  checks that it needs such a fault.
- Two overlapping asqs tasks both find no position and both open one, against "single
  position" (`asqs/strategy.py:16`). `asqs_overlap_bounded` checks that there is at
  most one per task.
- A stop can be lowered, against "Only move SL if it improves the position"
  (`asqs/strategy.py:583`): by a modify that executes after its client gave up, and by
  a task that listed the position before an operator, another task or such a modify
  raised its stop. Both asqs runs check that it needs that.
- One repair whose connects are not answered in time can launch more terminals (21) than
  exhausted the container's memory (17), although `reap_extra_terminals` is there so
  that failed connects do not accumulate (`02-common.sh:87-94`).
- Two overlapping tasks lower the recorded peak, and can leave it torn: `update`
  compares with the cached peak (`drawdown_guard.py:109`) and all writers share one
  temporary name, against "Idempotent" and "Atomic" in the docstrings.
- An update back to `0_hypothesis` is ignored by `_merge` (`log.py:951`), against
  "overwrite only the fields they explicitly set; everything else carries forward".
- A record event whose id is a hypothesis id would reset the verdict and stage carried
  for it (`log.py:635`); callers namespace their ids. Two migrations racing can each
  write the marker.
- After the supervisor gave up, the healthcheck of the container only asks whether the
  server answers (`services/docker-compose.yml:34`), against "keeps reporting
  unhealthy" (`10-supervise.sh:93`).
- The docstring of `_htf_ema` says `allow_exact_matches=False`; the code uses `True`
  on a stamp already advanced by one period. `NoLookAhead` shows that to be right.
- A position seeded into `run()` is neither managed nor reported during the warm-up.
- The drawdown halt "blocks NEW entries" (`zlch.py:26`), but `next()` returns before it
  manages the open position, so a halted strategy does not close either; its peak
  includes open profit, the engine's does not. HMA and momentum strategies alike.
- `asqs_engine.py` notes that its halt is not absorbing; flat below the peak it is.
- An asqs size below one ounce is ounces in the engine and a share of the equity in
  backtesting.py.
- `ebb_engine.py` skips entries that would fill on the last bar and leaves at the open of
  the last bar. The strategy's docstring has the target at a midline that "MOVES bar to
  bar"; both fix it at the signal.
- `attach_h1_mtf` (`asq_safe_scalping.py:501`) resamples with left labels and fills
  forward, so an M5 bar sees the close of the hour it lies in, against "last closed
  bar".
- The sizer of `research/engines` lifts a size to the minimum lot; the live one, which
  it says it mirrors, refuses. A ceiling below the minimum lot gives no lots with
  reason OK.
- Without a purge the last training bar is also the first test bar; a fold without a
  bar on one side is in no report; a step of zero never ends.
- "Hold exactly 12 H1 bars": `bars_held` counts neither the entry bar nor the forming
  one, so a position is closed in the thirteenth hour after its entry.
- The collector determines the server's offset once, when it starts, against "so a DST
  change corrects itself" (`d3a_spread_forward.py:154`); boundary rounds that are
  answered do not reset the count of dead rounds, though its message speaks of
  consecutive rounds.

### Bounds

Two tasks or writers: every race here is between two. Guard: five equities put a breach,
the threshold, just inside and a new high next to each other. Asqs: orders of four lot
steps, which partial fills make anything below, are halved twice, once or never; ticks
at breakeven, at TP1 and above. `asqs_serial` has two tickets, which let a position be
followed by another, stand next to a late order's or pass the cap of one, and one late
order, close or modify (`MaxLate`); one unpaid TP1 close and one unrecorded order per
day (`MaxFaults`, `MaxUnrecorded`) break each promise once and show it bounded.
`asqs_tp1_refused` has three tickets and a cap of two and no faults. The two-task run
uses one volume that TP1 leaves alone, two ticks, one operator stop and no late calls to
stay small; both its properties are proved with any number of late calls.

Log: three lines (`MaxEntries`) hold both markers and a registration, or a registration
with two racing updates; one hypothesis, one edit. A torn line ends every later call, so
`log_writers` does not check deadlock. Sync: one sync task and one REST request, one
filled position that can close in two parts and one pending order, one price, one
failing call. Supervisor: five failures instead of ten and a ceiling of five units
instead of twenty (600 s), so that doubling, the ceiling and giving up all occur; two
breaks, three tries of a connect instead of twenty (the bound is stated for any number),
two posts waiting at once, two terminals launched by others between reaps, and up to
seven hung ones, one more than the bound of six that these give. It stops when it gives
up, hence no deadlock check. Runner: every series of six bars of five shapes, windows of
one and two bars, one gap in time, cooldown two: long enough for an entry, an exit and
an entry again. It ends with the bars.

Collector: periods two and four, latency one, interval three, naps of two, nine units
of time: boundaries of both timeframes alone and together, in a nap, in a round and
several in one stall, three periodic rounds, and two dead rounds to the abort. After
the last unit the clock stands and the process can be started again, so the run has
no deadlock.

Standalone: five bars with prices 0 to 4, which hold an entry, a trail or a time stop,
an exit and another entry on the exit bar, a second day, a halt (8 %) and a size of one
or two ounces; one signal with two take-profits, two tasks and two listeners on three
workers; three positions, two bars to hold, one late order; series in 0..5 with any
gaps, one excluded range, sizes up to two; budgets to 50 and stops to 5 around a minimum
of 4, a step of 2 and a maximum of 20. Tickets, bars and tasks run out and calls end, so
deadlock is not checked.

## Proofs

Each proof module states an inductive invariant `IInv`, proves `Init => IInv` and
`IInv /\ [Next]_vars => IInv'` action by action, and derives the theorems.

- `DrawdownGuardProofs`: for any tasks, equities and percentage, when tasks do not
  overlap and the volume keeps its file, `PeakIsHighWater`, `EntryWithinBudget`,
  `PeakNeverFalls` and the refinement of `HighWater`. The invariant adds that at most
  one task runs, that its cache equals the mark until it updates, and that a pending
  write is a new high within budget sitting in the temporary file; without the last
  part a rename could not be shown to raise the peak. `SoloUpdateRepairs` needs none of
  these assumptions: whatever overlaps, kills and losses came before, a task that nothing
  overlapped wrote its own text into the file it then renames.
- `AsqsCycleProofs`: for any tickets, volumes, ticks and distances, any number of lost
  replies, partial fills, kills, late orders, closes and modifies, and any operator.
  When tasks do not overlap and listings do not fail silently (`Serial`): `OnePosition`,
  `Tp1LeavesPosition`, `MarkOutlivesPosition` and `Tp1RepeatNeedsFault`. The invariant
  is in parts. `AccountOK` is the account's one position next to those of late orders.
  `TaskOK` relates what a task listed to the account: each ticket once, and nothing but
  late orders open when an order is sent. `MarksOK` says that the marks in memory include
  the file's marks of open positions, and that a task's listing includes the open
  tickets it has marked, so neither a purge nor a mark drops one. `ClosesOK` says that
  the closes of an open ticket exceed its faults only if it is marked or about to be.
  `CapCountsRows` needs only that tasks do not overlap (`EntriesOK`: the one position
  without a row or a mention is the one a task is about to record). `OnePerTask` needs
  only finitely many tasks and no silently failing listing: positions plus tasks about
  to send never exceed the tasks (`EntrantsOK`), because a task gets there only past an
  empty account.
  `LoosenedOnlyUnseen` needs no such assumption. Its invariant (`StopsOK`) says of every
  task and every open ticket that it listed and that nothing else moved: the listed stop
  is the account's until the breakeven call, and after it the account's is at most the
  task's value or the breakeven stop, whichever is higher. The second bound is for a
  breakeven that executed without an answer; `BeOffset <= TrailTrigger - TrailDistance`
  (20 <= 100) then makes a trailing stop an improvement all the same.
- `TradeSyncProofs`: for any number of overlapping syncs and REST requests, a row is
  final while its position is open only if the task was misled. The invariant says that
  a task past the position call and not misled is looking at a closed or dead ticket
  (`SureIsClosed`), that open positions belong to filled orders (`OpenIsFilled`) and
  that final rows have left the pending state (`FinalNotPlaced`). With one sync task
  (`OneSync`, see above for what two do), `FinalPnlIsTotal`: the rows a task has to do
  are not final (`TodoOpen`), what it was told of a closed position is all its deals
  (`GotAll`), and no deal is added to a row that is final (`TotalKept`). That the loop
  over the deals adds up to their sum in any order is `TotalIsSum`.
- `ResearchLogProofs`: for any writers, forms and length, `VerifyIsExact` and
  `VerifiedIsSound`. The invariant: what a writer has seen is a prefix of the log
  until a line is edited, every line follows from a prefix
  (`LinesFollow`), and an unbroken chain means nobody wrote from a stale prefix.
  `StateAsSaid` is proved when updates do not set the initial stage again
  (`Start \notin Stages`; `_merge` ignores such an update, see the divergences):
  in a file without stale lines, the last line of a hypothesis has its verdict and the
  last one past the initial stage its stage (`SaidOK`). `TrialFloor` holds for any
  writers and edits, because every line that counts as a trial adds at least one
  (`Countable`, an invariant of the lines) and a sum of naturals is at least the number
  of its members that add something (`TallyFloor`).
- `SuperviseProofs`: for any limits, `FailedRepairsDoNotAddUp`, `GiveUpIsEarned`,
  `CleanRepairSucceeds`. `CountsAgree` ties the script's counter to the failed repairs,
  `TerminalsFew` counts the terminals from the reap on, and with them the posts that
  still wait, against the tries made, `CleanProgress` says what a
  repair begun when nothing is broken has achieved at each label.
- `RunnerProofs`: for any series of bars with increasing times, windows, thresholds,
  seeds and cooldown, `NoLookAhead`, `RetiredIsManagedAlike`, `BreachExits`,
  `StopRatchets`, `EntriesApart` and `TypeOK`. The features of a bar are the same in
  the full and the forming series because a higher-timeframe close that is available
  belongs to an earlier bar (`AvailableIsPast`) and every window is full after the
  warm-up (`WarmupCovers`); then the two loops know the same until the end of the
  shorter series (`LoopsAgree`).
- `CollectorProofs`: for any timeframes, periods, latency, interval, nap and request
  times, `PeriodicRoundsApart`, `OneRoundPerBoundary`, `NoBoundaryAsleep`,
  `AbortsWhenDead` and `TypeOK`. The invariant: every pending instant is a boundary of
  its timeframe, after the last round and not before the process woke (`SchedulesOK`),
  and the counter is the length of the streak of dead rounds at the end of the
  remembered ones (`Streak`), so forgetting older rounds loses nothing.
- `StandaloneProofs`, a part for each of the six components.
  - Engines: for any prices, distances, sizes, percentages, limits and number of bars,
    `EnginesAgree`. Stop, target and cash alone are not inductive: the halt needs the
    peaks and the day cap the counts, and the two sides update them at different bars.
    For asqs the invariant says that the peaks are equal, that a flat engine's cash is
    within its peak, and that for any date the engine's count lags by the open trade of
    that date; for the strategies that test the halt first, that the strategy's peak is
    at least the engine's, so that a strategy not halted has an engine not halted. Fills
    are one expression of the shared fields (lemmas on each half of a bar), so what
    agrees before a bar agrees after it.
  - Copied signals, `OrdersPerTask`: the orders of a take-profit are never more than the
    tasks of its signal that are past it (`SignalInv`); a task that raises is not past
    any. This assumes finitely many tasks.
  - h1_momentum, `ReentryNeedsFailedListing`: once the second listing has let a pass go
    on, whatever is open was hidden by a listing that failed (`MomentumInv`).
  - crest_n_keel, `DuplicateNeedsBlindness`, for any number of tasks: two tasks between
    check and order are both `raced`, and one that is there while a position is open is
    `raced` or `unseen`, whether another task or a late order opened it (`CrestInv`).
  - Walk-forward, `FoldsSound`: every fold made so far is good by itself, the next test
    begins a step after the last one, and the tests cover the bars between the first and
    the last (`FoldInv`).
  - Sizer, `LotsWithinBudget`: rounding down finds the largest multiple of the step
    below the three bounds. It assumes a positive step and a largest lot that is a
    multiple of it.

Sums. The folds of the community modules choose a function on the subsets of a finite
set that takes one member away at a time. `TallyExists` and `SumsExist` show that there
is one, by the size of the subset with the least-number principle, and `MinimalSubset`
stands for induction where a fact about all subsets is needed. The two modules that need
sums keep their own lemmas, since neither extends the other.

Every safety property of the runs is proved, those of the two expected violations aside.
Only model-checked are the liveness properties (`SettledGetsFinal`, `MendedGetsLinked`,
`BoundaryIsSampled`, `TasksEnd`), which are outside the prover, as is what a recursive
operator computes. A theorem is about the model: the bounds in a module's guards
(`MaxFaults`, `MaxEntries` and the like) are constants it holds for any value of.

## What could come next

- The exit a row should keep when a REST close and the sync both write one: the
  repository does not say.
- What `FinalPnlIsTotal` becomes when two syncs overlap: which rows a late running P&L
  can reach, and for how long.
