----------------------------- MODULE SignalCopy ----------------------------
(***************************************************************************)
(* Copied signals: a listener turns every message of a channel into a      *)
(* task, a worker runs the task and places one order per take-profit, each *)
(* with its Trade row.  Listeners are tasks themselves and hold a worker.  *)
(* A task that raises is queued again, a worker is killed with the task it *)
(* runs, calls fail, and answers to orders that executed get lost.         *)
(***************************************************************************)
EXTENDS Naturals, FiniteSets

CONSTANTS Signals,
          UseTps,         \* use_tps
          TaskIds,        \* bound: the tasks there can be
          Workers,        \* how many tasks the workers run at once
          MaxListeners,   \* bound: listeners at once, fewer than workers
          MaxRetries      \* of a Celery task that says nothing about it

VARIABLES
  content,    \* what a message says, as far as it decides anything
  posted,
  listeners,  \* how many listener tasks run
  task,       \* the execution tasks
  orders,     \* orders at the broker, per signal and take-profit
  rows        \* Trade rows, per signal and take-profit

vars == <<content, posted, listeners, task, orders, rows>>

\* valid: symbol and direction parse; entry: has a price; named: its TP keys.
Contents == [valid : BOOLEAN, entry : BOOLEAN, named : SUBSET UseTps]

\* A tick that is missing its prices is not a missing tick.
Ticks == {"prices", "noPrices", "none"}

Unused == [state |-> "unused"]

Queued(s, n) == [state |-> "queued", signal |-> s, tries |-> n]

Over(d, how) == [state |-> how, signal |-> task[d].signal, tries |-> task[d].tries]

InState(states) == {d \in TaskIds : task[d].state \in states}

RunningTasks == InState({"started", "ordering", "recording"})

FreeWorker == Cardinality(RunningTasks) + listeners < Workers

Init == /\ content \in [Signals -> Contents]
        /\ posted = {} /\ listeners = 0
        /\ task = [d \in TaskIds |-> Unused]
        /\ orders = [s \in Signals |-> [i \in UseTps |-> 0]]
        /\ rows = orders

----------------------------------------------------------------------------
StartListener == /\ listeners < MaxListeners /\ FreeWorker
                 /\ listeners' = listeners + 1
                 /\ UNCHANGED <<content, posted, task, orders, rows>>

\* The client is disconnected, or the worker killed; nothing starts it again.
ListenerEnds == /\ listeners > 0 /\ listeners' = listeners - 1
                /\ UNCHANGED <<content, posted, task, orders, rows>>

\* Every listener hears the message; a task that cannot be queued is logged.
Post(s) ==
  /\ s \notin posted /\ posted' = posted \cup {s}
  /\ \E new \in SUBSET InState({"unused"}) :
       /\ Cardinality(new) <= listeners
       /\ task' = [d \in TaskIds |-> IF d \in new THEN Queued(s, 0) ELSE task[d]]
  /\ UNCHANGED <<content, listeners, orders, rows>>

\* A worker takes the task from the queue; from here on the broker forgets it.
Take(d) == /\ task[d].state = "queued" /\ FreeWorker
           /\ task' = [task EXCEPT ![d].state = "started"]
           /\ UNCHANGED <<content, posted, listeners, orders, rows>>

\* The specific take-profits that are asked for, or one order for the first.
Targets(named) == IF named # {} THEN named
                  ELSE {i \in UseTps : \A j \in UseTps : i <= j}

RetryForever(d) == Queued(task[d].signal, task[d].tries)

\* self.retry of a task that raised.
Retry(d) == IF task[d].tries < MaxRetries
            THEN Queued(task[d].signal, task[d].tries + 1) ELSE Over(d, "failed")

\* The strategy object, parsing, the tick and the volume.
Parse(d) ==
  /\ task[d].state = "started"
  /\ LET says == content[task[d].signal]
     IN  \/ ~says.valid /\ task' = [task EXCEPT ![d] = Over(d, "done")]
         \/ \E t \in Ticks :
              /\ says.valid /\ (~says.entry => t = "none")
              /\ task' = [task EXCEPT ![d] =
                   [state |-> "ordering", signal |-> task[d].signal, tries |-> task[d].tries,
                    left |-> Targets(says.named), tick |-> t]]
         \/ task' = [task EXCEPT ![d] = Retry(d)]
  /\ UNCHANGED <<content, posted, listeners, orders, rows>>

\* The order type compares the entry with the prices of the tick.
Raises(d) == content[task[d].signal].entry /\ task[d].tick = "noPrices"

Finished(d) ==
  /\ task[d].state = "ordering" /\ task[d].left = {}
  /\ task' = [task EXCEPT ![d] = Over(d, "done")]
  /\ UNCHANGED <<content, posted, listeners, orders, rows>>

RaisesBeforeOrder(d) ==
  /\ task[d].state = "ordering" /\ task[d].left # {} /\ Raises(d)
  /\ task' = [task EXCEPT ![d] = Retry(d)]
  /\ UNCHANGED <<content, posted, listeners, orders, rows>>

\* The next order: not executed, executed and said so, or executed and an
\* exception or a failure is what the task sees.
PlaceOrder(d) ==
  LET s == task[d].signal
      i == CHOOSE k \in task[d].left : \A j \in task[d].left : k <= j
      passed == [task EXCEPT ![d].left = @ \ {i}]
  IN  /\ task[d].state = "ordering" /\ task[d].left # {} /\ ~Raises(d)
      /\ \/ task' = passed /\ UNCHANGED orders
         \/ task' = passed /\ orders' = [orders EXCEPT ![s][i] = @ + 1]
         \/ /\ task' = [task EXCEPT ![d].state = "recording"]
            /\ orders' = [orders EXCEPT ![s][i] = @ + 1]
      /\ UNCHANGED <<content, posted, listeners, rows>>

\* create_trade_record; what it raises is logged.
Record(d) ==
  LET s == task[d].signal
      i == CHOOSE k \in task[d].left : \A j \in task[d].left : k <= j
  IN  /\ task[d].state = "recording"
      /\ task' = [task EXCEPT ![d].left = @ \ {i}, ![d].state = "ordering"]
      /\ rows' \in {rows, [rows EXCEPT ![s][i] = @ + 1]}
      /\ UNCHANGED <<content, posted, listeners, orders>>

KillRequeues(d) == task' = [task EXCEPT ![d] = Queued(task[d].signal, task[d].tries)]

\* The task was acknowledged when it was taken, so it is gone.
KillLoses(d) == task' = [task EXCEPT ![d] = Over(d, "lost")]

Kill(d) == /\ d \in RunningTasks /\ KillLoses(d)
           /\ UNCHANGED <<content, posted, listeners, orders, rows>>

Work(d) == \/ Take(d) \/ Parse(d) \/ Finished(d) \/ RaisesBeforeOrder(d)
           \/ PlaceOrder(d) \/ Record(d)

Next == \/ StartListener \/ ListenerEnds
        \/ \E s \in Signals : Post(s)
        \/ \E d \in TaskIds : Work(d) \/ Kill(d)

Spec == Init /\ [][Next]_vars /\ \A d \in TaskIds : SF_vars(Work(d))

----------------------------------------------------------------------------
TasksOf(s) == {d \in TaskIds : task[d].state # "unused" /\ task[d].signal = s}

(***************************************************************************)
(* "For each signal, opens up to max_positions (TP1..TPn) positions"       *)
(* (forexero/strategy.py:43): a take-profit of a signal gets one order per *)
(* task that listeners made of it, however often those are retried or      *)
(* killed: a task that raises has not placed an order yet.                 *)
(***************************************************************************)
OrdersPerTask ==
  \A s \in Signals : \A i \in UseTps : orders[s][i] <= Cardinality(TasksOf(s))

(***************************************************************************)
(* A task that is queued comes to an end: done, failed after its retries,  *)
(* or killed; listeners do not take the last worker.                       *)
(***************************************************************************)
TasksEnd ==
  \A d \in TaskIds :
    task[d].state = "queued" ~> task[d].state \in {"done", "failed", "lost"}
============================================================================
