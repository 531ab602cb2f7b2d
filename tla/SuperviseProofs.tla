-------------------------- MODULE SuperviseProofs --------------------------
(***************************************************************************)
(* Proofs about Supervise, for any number of allowed failures, tries and   *)
(* breaks, any waits, and posts executed at any later time: repairs that   *)
(* fail do not add up terminals, the supervisor gives up only after as     *)
(* many failed repairs as it allows, and a repair begun when nothing is    *)
(* broken succeeds.                                                        *)
(***************************************************************************)
EXTENDS Supervise, TLAPS

Repairing == pc \in {"probe", "connect", "confirm", "reap", "ensure", "stop", "start",
                     "await", "relink", "reconfirm"}

\* consecutive_failures counts the check that the repair answers.
CountsAgree ==
  /\ pc \in {"sleep", "backoff"} => failures = failed /\ failures < MaxFailures
  /\ Repairing => failures = failed + 1 /\ failures < MaxFailures
  /\ pc = "gaveUp" => failures = MaxFailures /\ failed = MaxFailures - 1

\* After the reap at most one terminal is left, or the repair starts one.  The
\* restarted server has no post waiting, so what it launches afterwards for the
\* repair is one terminal at most for every post that was or will be executed.
TerminalsFew ==
  /\ pc \in {"ensure", "stop", "start", "await"} => Terminals <= 1 + strays
  /\ pc \in {"start", "await"} => pending = 0
  /\ pc = "relink" => Terminals + pending <= 1 + tries + strays
  /\ pc \in {"reconfirm", "backoff"} => Terminals + pending <= 1 + Tries + strays

CleanProgress ==
  clean => /\ ~broken
           /\ pc = "start" => server = "none"
           /\ pc = "await" => server \in {"starting", "up"}
           /\ pc = "relink" => server = "up"
           /\ pc = "reconfirm" => Healthy
           /\ pc # "backoff"

IInv == TypeOK /\ CountsAgree /\ TerminalsFew /\ CleanProgress

USE SuperviseAssumption

LEMMA InitOK == Init => IInv
<1> SUFFICES ASSUME Init PROVE IInv
  OBVIOUS
<1> USE DEF Init, Healthy, Responding, Terminals
<1>1. TypeOK
  <2>1. broken \in BOOLEAN /\ clean \in BOOLEAN
    OBVIOUS
  <2>2. /\ backoff \in BackoffStart..BackoffMax /\ failures \in 0..MaxFailures
        /\ tries \in 0..Tries - 1 /\ pending \in 0..MaxPending /\ tries = 0 /\ pending = 0
    BY SMT
  <2>3. breaks \in 0..MaxBreaks /\ strays \in 0..MaxStrays /\ failed \in 0..MaxFailures
    BY SMT
  <2>4. /\ live \in {0, 1} /\ hung \in Nat /\ server \in {"none", "starting", "up", "stuck"}
        /\ link => Healthy /\ live = 1
    BY SMT
  <2> QED
    BY <2>1, <2>2, <2>3, <2>4 DEF TypeOK
<1>2. CountsAgree /\ TerminalsFew /\ CleanProgress
  BY SMT DEF CountsAgree, Repairing, TerminalsFew, CleanProgress
<1> QED
  BY <1>1, <1>2 DEF IInv

LEMMA NextOK == IInv /\ [Next]_vars => IInv'
<1> SUFFICES ASSUME IInv, [Next]_vars PROVE IInv'
  OBVIOUS
<1> USE DEF IInv, TypeOK, CountsAgree, Repairing, TerminalsFew, CleanProgress,
            Healthy, Responding, Terminals
<1>1. CASE CheckOk
  BY <1>1, SMT DEF CheckOk, Good, script, processes, world
<1>2. CASE CheckFails
  BY <1>2, SMT DEF CheckFails, script, processes, world
<1>3. CASE Probe
  BY <1>3, SMT DEF Probe, script, processes, world, observers
<1>4. CASE Connect("connect", "confirm", "reap")
  BY <1>4, SMT DEF Connect, Initialize, Launch, script, processes, world
<1>5. CASE Confirm("confirm", "reap")
  BY <1>5, SMT DEF Confirm, Good, script, processes, world
<1>6. CASE Reap
  BY <1>6, SMT DEF Reap, ReapNeeded, world
<1>7. CASE Ensure
  BY <1>7, SMT DEF Ensure, Launch, world, observers
<1>8. CASE StopServer
  BY <1>8, SMT DEF StopServer, world, observers
<1>9. CASE StartServer
  BY <1>9, SMT DEF StartServer, world, observers
<1>10. CASE AwaitOk
  BY <1>10, SMT DEF AwaitOk, script, processes, world, observers
<1>11. CASE AwaitTimesOut
  BY <1>11, SMT DEF AwaitTimesOut, script, processes, world
<1>12. CASE Connect("relink", "reconfirm", "backoff")
  BY <1>12, SMT DEF Connect, Initialize, Launch, script, processes, world
<1>13. CASE Confirm("reconfirm", "backoff")
  BY <1>13, SMT DEF Confirm, Good, script, processes, world
<1>14. CASE BackOff
  BY <1>14, SMT DEF BackOff, script, processes, world, observers
<1>15. CASE ClientConnects
  BY <1>15, SMT DEF ClientConnects, Initialize, Launch, script, world
<1>16. CASE Repeat("connect", "reap")
  BY <1>16, SMT DEF Repeat, Initialize, Launch, world
<1>17. CASE Repeat("relink", "backoff")
  BY <1>17, SMT DEF Repeat, Initialize, Launch, world
<1>18. CASE LateInitialize
  BY <1>18, SMT DEF LateInitialize, Initialize, Launch, script, world
<1>19. CASE ServerReady
  BY <1>19, SMT DEF ServerReady, script, world, observers
<1>20. CASE ServerFails
  BY <1>20, SMT DEF ServerFails, script, world, observers
<1>21. CASE TerminalFails
  BY <1>21, SMT DEF TerminalFails, script, world, observers
<1>22. CASE Break
  <2>1. TypeOK'
    <3>1. broken' \in BOOLEAN /\ clean' \in BOOLEAN
      BY <1>22, Zenon DEF Break, observers
    <3>2. breaks' \in 0..MaxBreaks
      BY <1>22, SMT DEF Break, observers
    <3> QED
      BY <1>22, <3>1, <3>2, SMT DEF Break, script, processes
  <2>2. CountsAgree' /\ TerminalsFew'
    BY <1>22, SMT DEF Break, script, processes, observers
  <2>3. CleanProgress'
    BY <1>22 DEF Break, script, processes, observers
  <2> QED
    BY <2>1, <2>2, <2>3
<1>23. CASE Mend
  <2>1. TypeOK'
    <3>1. broken' \in BOOLEAN /\ clean' \in BOOLEAN
      BY <1>23, Zenon DEF Mend, observers
    <3>2. breaks' \in 0..MaxBreaks
      BY <1>23, SMT DEF Mend, observers
    <3> QED
      BY <1>23, <3>1, <3>2, SMT DEF Mend, script, processes, observers
  <2>2. CountsAgree' /\ TerminalsFew'
    BY <1>23, SMT DEF Mend, script, processes, observers
  <2>3. CleanProgress'
    BY <1>23 DEF Mend, script, processes, observers
  <2> QED
    BY <2>1, <2>2, <2>3
<1>24. CASE UNCHANGED vars
  BY <1>24, SMT DEF vars, script, processes, world, observers
<1> QED
  BY <1>1, <1>2, <1>3, <1>4, <1>5, <1>6, <1>7, <1>8, <1>9, <1>10, <1>11, <1>12, <1>13,
     <1>14, <1>15, <1>16, <1>17, <1>18, <1>19, <1>20, <1>21, <1>22, <1>23, <1>24
     DEF Next, SuperviseStep

LEMMA Invariance == Spec => []IInv
  BY InitOK, NextOK, PTL DEF Spec

(***************************************************************************)
(* However often repairs fail and however often wget posts again, a failed *)
(* repair leaves the terminal it started, one for every try of its last    *)
(* connect, and the strays since its reap (reap_extra_terminals).          *)
(***************************************************************************)
THEOREM RepairsDoNotAddUp == Spec => []FailedRepairsDoNotAddUp
<1>1. IInv => FailedRepairsDoNotAddUp
  BY SMT DEF IInv, TypeOK, TerminalsFew, Terminals, FailedRepairsDoNotAddUp
<1> QED
  BY <1>1, Invariance, PTL

(***************************************************************************)
(* The loop gives up only after MaxFailures - 1 failed repairs in a row.   *)
(***************************************************************************)
THEOREM GiveUpEarned == Spec => []GiveUpIsEarned
<1>1. IInv => GiveUpIsEarned
  BY DEF IInv, CountsAgree, GiveUpIsEarned
<1> QED
  BY <1>1, Invariance, PTL

(***************************************************************************)
(* recover() begun when nothing is broken any more does not fail.          *)
(***************************************************************************)
THEOREM CleanRepairWorks == Spec => []CleanRepairSucceeds
<1>1. IInv => CleanRepairSucceeds
  BY DEF IInv, CleanProgress, CleanRepairSucceeds
<1> QED
  BY <1>1, Invariance, PTL
============================================================================
