------------------------ MODULE DrawdownGuardProofs ------------------------
(***************************************************************************)
(* Proofs about DrawdownGuard for any number of tasks, any equities, any   *)
(* percentage, and a kill between any two steps: for tasks that do not     *)
(* overlap and a state volume that keeps its file, and at the end for      *)
(* overlapping tasks and a volume that can be lost.                        *)
(***************************************************************************)
EXTENDS DrawdownGuard, TLAPS

\* At most one task is running, so nobody else holds an open file.
OneRuns == \A t, u \in Tasks : pc[t] # "idle" /\ pc[u] # "idle" => t = u

\* Every running task's cache and pending write agree with the high-water mark.
InFlight ==
  \A t \in Tasks :
    /\ pc[t] = "built" => cached[t] = high
    /\ pc[t] \in {"writing", "written"} =>
         equity[t] \in Equity /\ ~IsTripped(high, equity[t]) /\ NewHigh(high, equity[t])
    /\ pc[t] = "writing" => fd[t] = "tmp" /\ tmpFile = Torn
    /\ pc[t] = "written" => tmpFile = equity[t]
    /\ pc[t] = "entry" => equity[t] \in Equity /\ ~IsTripped(high, equity[t])
    /\ pc[t] # "writing" => fd[t] = "none"

IInv == TypeOK /\ OneRuns /\ InFlight /\ PeakIsHighWater

\* An equity is never a breach of a peak of the same height.
LEMMA NotTrippedByItself ==
  ASSUME NEW e \in Equity
  PROVE  ~IsTripped(e, e)
<1>1. e \in Nat /\ e > 0
  BY EquityAssumption
<1>2. MaxDrawdownPct \in 1..99
  BY PercentAssumption
<1>3. e * MaxDrawdownPct > 0
  BY <1>1, <1>2
<1>4. e * (100 - MaxDrawdownPct) = e * 100 - e * MaxDrawdownPct
  BY <1>1, <1>2
<1>5. ~(e * 100 < e * (100 - MaxDrawdownPct))
  BY <1>1, <1>2, <1>3, <1>4
<1> QED
  BY <1>5 DEF IsTripped

\* A new high raises the mark to itself; Raised is update()'s effect on it.
LEMMA RaisedIsNewHigh ==
  ASSUME NEW p \in Peak, NEW e \in Equity
  PROVE  /\ G!Raised(p, e) \in Equity
         /\ NewHigh(p, e) => G!Raised(p, e) = e
         /\ p # None => G!Raised(p, e) >= p
  BY EquityAssumption, MarkAssumption DEF G!Raised, NewHigh, Peak

LEMMA InitInductive == Init => IInv
  BY DEF Init, IInv, TypeOK, OneRuns, InFlight, PeakIsHighWater, Content, Peak

LEMMA StepInductive ==
  ASSUME ~Overlap, ~StateLoss, IInv, [Next]_vars
  PROVE  IInv'
<1> USE DEF IInv, TypeOK, OneRuns, PeakIsHighWater, Content, Peak, files
<1>1. ASSUME NEW t \in Tasks, Construct(t)
      PROVE  IInv'
  BY <1>1 DEF Construct, Read, InFlight
<1>2. ASSUME NEW t \in Tasks, Halt(t) \/ Finish(t) \/ Abort(t) \/ ReplaceFails(t)
      PROVE  IInv'
  BY <1>2 DEF Halt, Finish, Abort, ReplaceFails, Idle, InFlight
<1>3. ASSUME NEW t \in Tasks, Pass(t)
      PROVE  IInv'
  BY <1>3 DEF Pass, InFlight
<1>4. ASSUME NEW t \in Tasks, Open(t)
      PROVE  IInv'
  BY <1>4 DEF Open, Truncate, InFlight
<1>5. ASSUME NEW t \in Tasks, Flush(t)
      PROVE  IInv'
  BY <1>5, MarkAssumption DEF Flush, Overlay, InFlight
<1>6. ASSUME NEW t \in Tasks, Replace(t)
      PROVE  IInv'
  <2>1. equity[t] \in Equity /\ tmpFile = equity[t]
    BY <1>6 DEF Replace, InFlight
  <2>2. high' = equity[t] /\ peakFile' = equity[t]
    BY <1>6, <2>1, RaisedIsNewHigh DEF Replace, InFlight
  <2>3. ~IsTripped(equity[t], equity[t])
    BY <2>1, NotTrippedByItself
  <2>4. \A u \in Tasks : fd[u] = "none" /\ (pc[u] # "idle" => u = t)
    BY <1>6 DEF Replace, InFlight
  <2>5. TypeOK' /\ OneRuns' /\ PeakIsHighWater'
    BY <1>6, <2>1, <2>2, <2>4 DEF Replace, Renamed
  <2>6. InFlight'
    BY <1>6, <2>1, <2>2, <2>3, <2>4 DEF Replace, Renamed, InFlight
  <2> QED
    BY <2>5, <2>6
<1>7. CASE UNCHANGED vars
  BY <1>7 DEF vars, InFlight
<1> QED
  BY <1>1, <1>2, <1>3, <1>4, <1>5, <1>6, <1>7 DEF Next, LoseState

LEMMA Inductive == ~Overlap /\ ~StateLoss => (Spec => []IInv)
<1> SUFFICES ASSUME ~Overlap, ~StateLoss
             PROVE  Spec => []IInv
  OBVIOUS
<1>1. IInv /\ [Next]_vars => IInv'
  BY StepInductive
<1> QED
  BY <1>1, InitInductive, PTL DEF Spec

(***************************************************************************)
(* For every set of equities and tasks and every percentage: when tasks do *)
(* not overlap and the state volume keeps its file, the peak file is the   *)
(* highest equity ever recorded, wherever tasks are killed.                *)
(***************************************************************************)
THEOREM SerialPeakIsHighWater ==
  ~Overlap /\ ~StateLoss => (Spec => []PeakIsHighWater)
<1>1. IInv => PeakIsHighWater
  BY DEF IInv
<1> QED
  BY <1>1, Inductive, PTL

(***************************************************************************)
(* Under the same assumptions every task past the guard is within the      *)
(* drawdown budget of the highest equity ever recorded.                    *)
(***************************************************************************)
THEOREM SerialEntryWithinBudget ==
  ~Overlap /\ ~StateLoss => (Spec => []EntryWithinBudget)
<1>1. IInv => EntryWithinBudget
  BY DEF IInv, InFlight, EntryWithinBudget, IsTripped, G!Tripped
<1> QED
  BY <1>1, Inductive, PTL

(***************************************************************************)
(* Under the same assumptions a recorded peak is never lowered and never   *)
(* forgotten by any step.                                                  *)
(***************************************************************************)
THEOREM SerialPeakNeverFalls ==
  ~Overlap /\ ~StateLoss => (Spec => PeakNeverFalls)
<1> SUFFICES ASSUME ~Overlap, ~StateLoss
             PROVE  Spec => PeakNeverFalls
  OBVIOUS
<1>1. ASSUME IInv, [Next]_vars
      PROVE  [(peakFile \in Equity) =>
                (peakFile' \in Equity /\ peakFile' >= peakFile)]_peakFile
  <2>1. ASSUME NEW t \in Tasks, Replace(t), peakFile \in Equity
        PROVE  peakFile' \in Equity /\ peakFile' >= peakFile
    <3>1. equity[t] \in Equity /\ peakFile' = equity[t] /\ NewHigh(peakFile, equity[t])
      BY <1>1, <2>1 DEF IInv, InFlight, PeakIsHighWater, Replace
    <3>2. peakFile \in Nat /\ equity[t] \in Nat /\ peakFile # None
      BY <2>1, <3>1, EquityAssumption, MarkAssumption
    <3>3. equity[t] > peakFile
      BY <3>1, <3>2 DEF NewHigh
    <3> QED
      BY <3>1, <3>2, <3>3
  <2>2. ASSUME NEW t \in Tasks, Flush(t)
        PROVE  UNCHANGED peakFile
    BY <1>1, <2>2 DEF IInv, InFlight, Flush
  <2>3. (\E t \in Tasks : Replace(t) \/ Flush(t)) \/ UNCHANGED peakFile
    BY <1>1 DEF Next, vars, files, Construct, Halt, Pass, Open, Truncate, ReplaceFails,
                Finish, Abort, LoseState
  <2> QED
    BY <2>1, <2>2, <2>3
<1> QED
  BY <1>1, Inductive, PTL DEF Spec, PeakNeverFalls

\* The equities HighWater sees admitted: those of the tasks past the guard.
Admitted == {equity[t] : t \in {u \in Tasks : pc[u] = "entry"}}

(***************************************************************************)
(* Under the same assumptions the guard with its cache, its file and its   *)
(* kills implements the atomic peak of HighWater.                          *)
(***************************************************************************)
THEOREM SerialImplementsHighWater ==
  ~Overlap /\ ~StateLoss => (Spec => ImplementsHighWater)
<1> SUFFICES ASSUME ~Overlap, ~StateLoss
             PROVE  Spec => ImplementsHighWater
  OBVIOUS
<1>1. Init => G!Init
  BY DEF Init, G!Init, Peak
<1>2. ASSUME IInv, [Next]_vars
      PROVE  [G!Next]_<<peakFile, Admitted>>
  <2> USE DEF IInv, TypeOK, OneRuns, PeakIsHighWater, Content, Peak, files, Admitted
  <2>1. ASSUME NEW t \in Tasks,
               Construct(t) \/ Halt(t) \/ Open(t) \/ Flush(t) \/ ReplaceFails(t)
        PROVE  UNCHANGED <<peakFile, Admitted>>
    BY <1>2, <2>1 DEF InFlight, Construct, Halt, Open, Truncate, Flush, ReplaceFails, Idle
  <2>2. ASSUME NEW t \in Tasks, Pass(t)
        PROVE  G!Admit
    <3>1. PICK e \in Equity : /\ ~IsTripped(cached[t], e) /\ ~NewHigh(cached[t], e)
                              /\ equity' = [equity EXCEPT ![t] = e]
      BY <2>2 DEF Pass
    <3>2. pc[t] = "built" /\ pc' = [pc EXCEPT ![t] = "entry"] /\ peakFile' = peakFile
      BY <2>2 DEF Pass
    <3>3. cached[t] = peakFile /\ \A u \in Tasks : u # t => pc[u] = "idle"
      BY <1>2, <3>2 DEF InFlight
    <3>4. Admitted = {} /\ Admitted' = {e}
      BY <1>2, <3>1, <3>2, <3>3
    <3>5. ~G!Tripped(peakFile, e) /\ G!Raised(peakFile, e) = peakFile
      BY <3>1, <3>3 DEF IsTripped, NewHigh, G!Tripped, G!Raised
    <3> QED
      BY <3>2, <3>4, <3>5 DEF G!Admit
  <2>3. ASSUME NEW t \in Tasks, Replace(t)
        PROVE  G!Admit
    <3>1. /\ equity[t] \in Equity /\ tmpFile = equity[t]
          /\ ~IsTripped(peakFile, equity[t]) /\ NewHigh(peakFile, equity[t])
      BY <1>2, <2>3 DEF Replace, InFlight
    <3>2. /\ pc[t] = "written" /\ pc' = [pc EXCEPT ![t] = "entry"]
          /\ peakFile' = equity[t] /\ equity' = equity
      BY <2>3, <3>1 DEF Replace
    <3>3. Admitted = {} /\ Admitted' = {equity[t]}
      BY <1>2, <3>2
    <3>4. ~G!Tripped(peakFile, equity[t]) /\ G!Raised(peakFile, equity[t]) = equity[t]
      BY <3>1, <1>2 DEF IsTripped, NewHigh, G!Tripped, G!Raised
    <3> QED
      BY <3>1, <3>2, <3>3, <3>4 DEF G!Admit
  <2>4. ASSUME NEW t \in Tasks, Finish(t) \/ Abort(t)
        PROVE  G!Release \/ UNCHANGED <<peakFile, Admitted>>
    <3>1. pc' = [pc EXCEPT ![t] = "idle"] /\ UNCHANGED <<peakFile, equity>> /\ pc[t] # "idle"
      BY <2>4 DEF Finish, Abort, Idle
    <3>2. \A u \in Tasks : u # t => pc[u] = "idle"
      BY <1>2, <3>1
    <3>3. Admitted' = {}
      BY <1>2, <3>1, <3>2
    <3> QED
      BY <3>1, <3>3 DEF G!Release
  <2>5. CASE UNCHANGED vars
    BY <2>5 DEF vars
  <2> QED
    BY <1>2, <2>1, <2>2, <2>3, <2>4, <2>5 DEF Next, LoseState, G!Next
<1> QED
  BY <1>1, <1>2, Inductive, PTL DEF Spec, ImplementsHighWater, G!Spec, Admitted
-----------------------------------------------------------------------------
\* What a task that no other has overlapped can rely on, whatever was left behind.
Undisturbed ==
  /\ pc \in [Tasks -> {"idle", "built", "writing", "written", "entry"}]
  /\ fd \in [Tasks -> {"tmp", "peak", "gone", "none"}]
  /\ equity \in [Tasks -> Peak] /\ alone \in [Tasks -> BOOLEAN]
  /\ \A t \in Tasks : alone[t] =>
       /\ \A u \in Tasks : u # t => pc[u] = "idle"
       /\ pc[t] = "writing" => fd[t] = "tmp" /\ tmpFile = Torn
       /\ pc[t] = "written" => tmpFile = equity[t]

LEMMA StepUndisturbed ==
  ASSUME Undisturbed, [Next]_vars
  PROVE  Undisturbed'
<1> USE DEF Undisturbed, Peak, files
<1>1. ASSUME NEW t \in Tasks, Construct(t)
      PROVE  Undisturbed'
  <2>1. alone' \in [Tasks -> BOOLEAN]
    BY <1>1 DEF Construct
  <2>2. \A u \in Tasks : alone'[u] => u = t /\ \A v \in Tasks : pc[v] = "idle"
    BY <1>1 DEF Construct
  <2>3. pc'[t] = "built" /\ \A u \in Tasks : u # t => pc'[u] = pc[u]
    BY <1>1 DEF Construct
  <2> QED
    BY <1>1, <2>1, <2>2, <2>3 DEF Construct
<1>2. ASSUME NEW t \in Tasks, Halt(t) \/ Finish(t) \/ Abort(t) \/ ReplaceFails(t)
      PROVE  Undisturbed'
  BY <1>2 DEF Halt, Finish, Abort, ReplaceFails, Idle
<1>3. ASSUME NEW t \in Tasks, Pass(t)
      PROVE  Undisturbed'
  BY <1>3 DEF Pass
<1>4. ASSUME NEW t \in Tasks, Open(t)
      PROVE  Undisturbed'
  BY <1>4 DEF Open, Truncate
<1>5. ASSUME NEW t \in Tasks, Flush(t)
      PROVE  Undisturbed'
  <2>1. pc[t] = "writing" /\ pc' = [pc EXCEPT ![t] = "written"]
        /\ fd' = [fd EXCEPT ![t] = "none"] /\ UNCHANGED <<equity, alone>>
    BY <1>5 DEF Flush
  <2>2. alone[t] => tmpFile' = equity[t]
    BY <1>5, <2>1, MarkAssumption DEF Flush, Overlay
  <2>3. \A u \in Tasks : u # t => ~alone[u]
    BY <2>1
  <2> QED
    BY <2>1, <2>2, <2>3
<1>6. ASSUME NEW t \in Tasks, Replace(t)
      PROVE  Undisturbed'
  <2>1. pc[t] = "written" /\ pc' = [pc EXCEPT ![t] = "entry"] /\ UNCHANGED <<equity, alone>>
        /\ fd' \in [Tasks -> {"tmp", "peak", "gone", "none"}]
    BY <1>6 DEF Replace, Renamed
  <2>2. \A u \in Tasks : u # t => ~alone[u]
    BY <2>1
  <2> QED
    BY <2>1, <2>2
<1>7. CASE LoseState
  <2>1. fd' \in [Tasks -> {"tmp", "peak", "gone", "none"}]
        /\ \A u \in Tasks : fd[u] = "tmp" => fd'[u] = "tmp"
    BY <1>7 DEF LoseState
  <2> QED
    BY <1>7, <2>1 DEF LoseState
<1>8. CASE UNCHANGED vars
  BY <1>8 DEF vars
<1> QED
  BY <1>1, <1>2, <1>3, <1>4, <1>5, <1>6, <1>7, <1>8 DEF Next

(***************************************************************************)
(* With tasks that overlap, kills anywhere and a state volume that can be  *)
(* lost: an update by a task that no other overlapped leaves exactly its   *)
(* equity in the peak file, whatever it found there and in the ".tmp".     *)
(***************************************************************************)
THEOREM SoloUpdateAlwaysRepairs == Spec => SoloUpdateRepairs
<1>1. Init => Undisturbed
  BY DEF Init, Undisturbed, Peak
<1>2. Undisturbed /\ [Next]_vars => Undisturbed'
  BY StepUndisturbed
<1>3. ASSUME Undisturbed, [Next]_vars
      PROVE  [\A t \in Tasks : (alone[t] /\ pc[t] = "written" /\ pc'[t] = "entry")
                                 => peakFile' = equity[t]]_vars
  <2> SUFFICES ASSUME NEW t \in Tasks, alone[t], pc[t] = "written", pc'[t] = "entry"
               PROVE  peakFile' = equity[t]
    OBVIOUS
  <2>1. tmpFile = equity[t]
    BY <1>3 DEF Undisturbed
  <2>2. Replace(t)
    <3>1. \A u \in Tasks : u # t => pc[u] = "idle"
      BY <1>3 DEF Undisturbed
    <3>2. pc \in [Tasks -> {"idle", "built", "writing", "written", "entry"}]
      BY <1>3 DEF Undisturbed
    <3>3. ~UNCHANGED vars /\ ~LoseState
      BY DEF vars, LoseState
    <3>4. PICK u \in Tasks : \/ Construct(u) \/ Halt(u) \/ Pass(u) \/ Open(u) \/ Flush(u)
                             \/ Replace(u) \/ ReplaceFails(u) \/ Finish(u) \/ Abort(u)
      BY <1>3, <3>3 DEF Next
    <3>5. u = t
      BY <3>1, <3>2, <3>4 DEF Construct, Halt, Pass, Open, Flush, Replace, ReplaceFails,
                              Finish, Abort, Idle
    <3> QED
      BY <3>2, <3>4, <3>5 DEF Construct, Halt, Pass, Open, Flush, ReplaceFails, Finish, Abort, Idle
  <2> QED
    BY <2>1, <2>2 DEF Replace
<1> QED
  BY <1>1, <1>2, <1>3, PTL DEF Spec, SoloUpdateRepairs
=============================================================================
