--------------------------- MODULE DrawdownGuard ---------------------------
(***************************************************************************)
(* The persistent drawdown guard as the live strategies use it: one        *)
(* DrawdownGuard object per evaluation task, all tasks of a strategy over  *)
(* one peak file written by JsonPeakStore.  A task reads the file when it  *)
(* builds its strategy object, compares the account's equity with the peak *)
(* it cached then, and on a new high writes the file in three file system  *)
(* steps: open the one shared ".tmp" name (truncating it), write and close *)
(* it, rename it over the peak file.  A task can be killed between any two *)
(* steps (Celery's time limit, a worker restart, an OSError).              *)
(***************************************************************************)
EXTENDS Integers

CONSTANTS Tasks,           \* evaluation tasks (Celery messages being run)
          Equity,          \* equities the account can be seen at
          MaxDrawdownPct,  \* max_drawdown_pct, in percent
          Overlap,         \* may two tasks of the strategy run at once?
          StateLoss,       \* may the peak file disappear (hazard R12)?
          None,            \* no file, no peak
          Torn             \* a file that exists and does not parse

ASSUME EquityAssumption  == Equity \subseteq Nat \ {0}
ASSUME PercentAssumption == MaxDrawdownPct \in 1..99
ASSUME SwitchAssumption  == Overlap \in BOOLEAN /\ StateLoss \in BOOLEAN
ASSUME MarkAssumption    == None \notin Equity /\ Torn \notin Equity /\ None # Torn

VARIABLES
  peakFile,  \* content of the peak file
  tmpFile,   \* content of the ".tmp" beside it
  pc,        \* where each task is
  cached,    \* _cached_peak of each task's guard
  equity,    \* the equity each task read from the account
  fd,        \* which name each task's open file has: "tmp", "peak", "gone", "none"
  high,      \* observer: the highest equity whose update ever completed
  alone      \* observer: has no other task run since this one started?

files == <<peakFile, tmpFile>>
vars  == <<peakFile, tmpFile, pc, cached, equity, fd, high, alone>>

Content == Equity \union {None, Torn}
Peak    == Equity \union {None}

G == INSTANCE HighWater WITH peak <- peakFile,
                             admitted <- {equity[t] : t \in {u \in Tasks : pc[u] = "entry"}}

\* JsonPeakStore.read: a missing and an unreadable file both give None.
Read(content) == IF content \in Equity THEN content ELSE None

Idle(t) == /\ pc' = [pc EXCEPT ![t] = "idle"]
           /\ fd' = [fd EXCEPT ![t] = "none"]

\* is_tripped: strictly below peak * (1 - max_drawdown_pct); never without a peak.
IsTrippedAtPct(p, e) == p # None /\ e * 100 < p * MaxDrawdownPct

IsTripped(p, e) == p # None /\ e * 100 < p * (100 - MaxDrawdownPct)

\* update: the condition under which it raises the peak and writes the store.
NewHighAlways(p, e) == TRUE

NewHigh(p, e) == p # None => e > p

\* open(tmp, "w"): the temporary file exists and is empty, the peak file is as it was.
TruncateInPlace == tmpFile' = Torn /\ peakFile' = Torn

TruncateNothing == /\ tmpFile' = IF tmpFile = None THEN Torn ELSE tmpFile
                   /\ UNCHANGED peakFile

Truncate == tmpFile' = Torn /\ UNCHANGED peakFile
-----------------------------------------------------------------------------
Init == /\ peakFile \in Peak
        /\ tmpFile = None
        /\ pc = [t \in Tasks |-> "idle"]
        /\ cached = [t \in Tasks |-> None]
        /\ equity = [t \in Tasks |-> None]
        /\ fd = [t \in Tasks |-> "none"]
        /\ high = peakFile
        /\ alone = [t \in Tasks |-> FALSE]

(***************************************************************************)
(* The strategy's constructor builds the guard, which reads the store once *)
(* (__post_init__).  Without Overlap a task starts only when none runs.    *)
(***************************************************************************)
Construct(t) == /\ pc[t] = "idle"
                /\ Overlap \/ \A u \in Tasks : pc[u] = "idle"
                /\ pc' = [pc EXCEPT ![t] = "built"]
                /\ cached' = [cached EXCEPT ![t] = Read(peakFile)]
                /\ equity' = [equity EXCEPT ![t] = None]
                /\ alone' = [u \in Tasks |-> u = t /\ \A v \in Tasks : pc[v] = "idle"]
                /\ UNCHANGED <<files, fd, high>>

\* evaluate: the account is tripped, the task logs the halt and returns.
Halt(t) == /\ pc[t] = "built"
           /\ \E e \in Equity : IsTripped(cached[t], e)
           /\ Idle(t)
           /\ UNCHANGED <<files, cached, equity, high, alone>>

\* evaluate: not tripped and no new high, so update() does nothing.
Pass(t) == /\ pc[t] = "built"
           /\ \E e \in Equity :
                /\ ~IsTripped(cached[t], e) /\ ~NewHigh(cached[t], e)
                /\ equity' = [equity EXCEPT ![t] = e]
           /\ pc' = [pc EXCEPT ![t] = "entry"]
           /\ UNCHANGED <<files, cached, fd, high, alone>>

\* update() on a new high: cache it, then open the temporary file for writing.
Open(t) == /\ pc[t] = "built"
           /\ \E e \in Equity :
                /\ ~IsTripped(cached[t], e) /\ NewHigh(cached[t], e)
                /\ cached' = [cached EXCEPT ![t] = e]
                /\ equity' = [equity EXCEPT ![t] = e]
           /\ Truncate
           /\ fd' = [fd EXCEPT ![t] = "tmp"]
           /\ pc' = [pc EXCEPT ![t] = "writing"]
           /\ UNCHANGED <<high, alone>>

(***************************************************************************)
(* The text reaches the file when it is closed.  It lands in the file the  *)
(* task opened, under whatever name that file has by then; over another    *)
(* task's text of a different length it leaves a tail that does not parse. *)
(***************************************************************************)
Overlay(old, e) == IF old \in Equity \ {e} THEN {e, Torn} ELSE {e}

Flush(t) == /\ pc[t] = "writing"
            /\ \/ /\ fd[t] = "tmp"
                  /\ tmpFile' \in Overlay(tmpFile, equity[t])
                  /\ UNCHANGED peakFile
               \/ /\ fd[t] = "peak"
                  /\ peakFile' \in Overlay(peakFile, equity[t])
                  /\ UNCHANGED tmpFile
               \/ /\ fd[t] = "gone"
                  /\ UNCHANGED files
            /\ fd' = [fd EXCEPT ![t] = "none"]
            /\ pc' = [pc EXCEPT ![t] = "written"]
            /\ UNCHANGED <<cached, equity, high, alone>>

\* An open file keeps its inode: what was ".tmp" is the peak file, what was that is gone.
Renamed(name) == IF name = "tmp" THEN "peak" ELSE IF name = "peak" THEN "gone" ELSE name

\* os.replace: the ".tmp" file becomes the peak file, for its writers too.
Replace(t) == /\ pc[t] = "written"
              /\ tmpFile # None
              /\ peakFile' = tmpFile
              /\ tmpFile' = None
              /\ fd' = [u \in Tasks |-> Renamed(fd[u])]
              /\ pc' = [pc EXCEPT ![t] = "entry"]
              /\ high' = G!Raised(high, equity[t])
              /\ UNCHANGED <<cached, equity, alone>>

\* os.replace finds no ".tmp" (another task renamed it): the task fails.
ReplaceFails(t) == /\ pc[t] = "written"
                   /\ tmpFile = None
                   /\ Idle(t)
                   /\ UNCHANGED <<files, cached, equity, high, alone>>

\* The rest of evaluate, with or without an order; then the task is over.
Finish(t) == /\ pc[t] = "entry"
             /\ Idle(t)
             /\ UNCHANGED <<files, cached, equity, high, alone>>

\* No account info, an exception or a kill: the task is over where it stands.
Abort(t) == /\ pc[t] # "idle"
            /\ Idle(t)
            /\ UNCHANGED <<files, cached, equity, high, alone>>

\* The state volume is renamed or not migrated: the next task finds no file.
LoseState == /\ StateLoss
             /\ peakFile' = None
             /\ fd' = [u \in Tasks |-> IF fd[u] = "peak" THEN "gone" ELSE fd[u]]
             /\ UNCHANGED <<tmpFile, pc, cached, equity, high, alone>>

Next == \/ \E t \in Tasks :
             \/ Construct(t) \/ Halt(t) \/ Pass(t) \/ Open(t) \/ Flush(t)
             \/ Replace(t) \/ ReplaceFails(t) \/ Finish(t) \/ Abort(t)
        \/ LoseState

Spec == Init /\ [][Next]_vars
-----------------------------------------------------------------------------
TypeOK == /\ peakFile \in Content /\ tmpFile \in Content
          /\ pc \in [Tasks -> {"idle", "built", "writing", "written", "entry"}]
          /\ cached \in [Tasks -> Peak] /\ equity \in [Tasks -> Peak]
          /\ fd \in [Tasks -> {"tmp", "peak", "gone", "none"}]
          /\ high \in Peak /\ alone \in [Tasks -> BOOLEAN]

(***************************************************************************)
(* The peak file always holds exactly the highest equity whose update()    *)
(* completed: no kill between truncation and rename loses or tears it, and *)
(* no lower equity replaces it.  (JsonPeakStore.write, update.)            *)
(***************************************************************************)
PeakIsHighWater == peakFile = high

(***************************************************************************)
(* A task past the guard holds an equity within the drawdown budget of the *)
(* highest equity ever recorded, not only of the peak it cached when it    *)
(* was built.  (is_tripped before update, in evaluate.)                    *)
(***************************************************************************)
EntryWithinBudget == \A t \in Tasks : pc[t] = "entry" => ~G!Tripped(high, equity[t])

(***************************************************************************)
(* A recorded peak is never lowered and never forgotten.  (update: "Raise  *)
(* peak if new high.  Idempotent if equity <= current peak.")              *)
(***************************************************************************)
PeakNeverFalls ==
  [][(peakFile \in Equity) => (peakFile' \in Equity /\ peakFile' >= peakFile)]_peakFile

(***************************************************************************)
(* Whatever overlapping, killed or misplaced tasks left behind (a torn or  *)
(* missing peak file, a half written ".tmp"), an update by a task that     *)
(* nothing overlapped leaves exactly its equity in the peak file.          *)
(***************************************************************************)
SoloUpdateRepairs ==
  [][\A t \in Tasks :
       (alone[t] /\ pc[t] = "written" /\ pc'[t] = "entry") => peakFile' = equity[t]]_vars

(***************************************************************************)
(* The guard with its file, its cache and its kills implements the one     *)
(* atomic peak of HighWater.                                               *)
(***************************************************************************)
ImplementsHighWater == G!Spec
=============================================================================
