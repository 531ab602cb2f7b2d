-------------------------- MODULE TradeSyncProofs --------------------------
(***************************************************************************)
(* Proofs about TradeSync for any tickets, volumes and prices, any number  *)
(* of overlapping sync tasks and REST requests, failing calls, lost        *)
(* replies, and a bridge that may take an open position for a closed one.  *)
(* The last theorem, on the final P&L, is about one sync task at a time.   *)
(***************************************************************************)
EXTENDS TradeSync, FiniteSetTheorems, WellFoundedInduction, TLAPS

\* A deal that reduces a position opens none.
LEMMA ReducedBook ==
  ASSUME BookTypeOK, NEW k \in Open, NEW v \in Nat \ {0}, v <= book[k].lots, Reduced(k, v)
  PROVE  book' \in [Tickets -> Position \union {None}] /\ Open' \subseteq Open
<1>1. k \in Tickets /\ book[k] \in Position
  BY DEF Open, BookTypeOK
<1>2. Rest(book[k], v) \in Position \union {None}
  BY <1>1 DEF Rest, Position
<1>3. PICK q \in Position \union {None} : book' = [book EXCEPT ![k] = q]
  BY <1>2 DEF Reduced
<1>4. book' \in [Tickets -> Position \union {None}] /\ \A l \in Tickets \ {k} : book'[l] = book[l]
  BY <1>3 DEF BookTypeOK
<1> QED
  BY <1>1, <1>4 DEF Open

\* Neither does close_position, whatever it answers.
LEMMA ClosedBook ==
  ASSUME BookTypeOK, NEW k \in Tickets, NEW v \in Nat \ {0}, NEW answer \in Answers,
         ClosePosition(k, v, answer)
  PROVE  BookTypeOK' /\ Open' \subseteq Open
<1>1. UNCHANGED book \/ (k \in Open /\ \E n \in 1 .. v : n <= book[k].lots /\ Reduced(k, n))
  <2>1. k \in Open => book[k].lots \in Nat
    BY DEF Open, BookTypeOK, Position
  <2> QED
    BY <2>1 DEF ClosePosition
<1>2. CASE UNCHANGED book
  BY <1>2 DEF ClosePosition, BookTypeOK, Open
<1>3. CASE k \in Open /\ \E n \in 1 .. v : n <= book[k].lots /\ Reduced(k, n)
  <2>1. PICK n \in 1 .. v : n <= book[k].lots /\ Reduced(k, n)
    BY <1>3
  <2>2. n \in Nat \ {0}
    OBVIOUS
  <2> QED
    BY <1>3, <2>1, <2>2, ReducedBook DEF ClosePosition, BookTypeOK
<1> QED
  BY <1>1, <1>2, <1>3

Asking == {"order", "deals", "final"}

AtRow == {"position", "running"} \union Asking

Columns == {"synched", "status", "pnl", "exitTime", "exitPrice"}

\* The part of the type invariant the proof needs; of a row, only what is not data.
Typed == /\ BookTypeOK
         /\ order \in [Tickets -> {"placed", "filled", "dead"}]
         /\ DOMAIN row = Tickets
         /\ \A t \in Tickets : Columns \subseteq DOMAIN row[t]
         /\ pc \in [Syncs -> {"idle", "next"} \union AtRow]
         /\ todo \in [Syncs -> SUBSET Tickets]
         /\ cur \in [Syncs -> Tickets \union {None}]
         /\ unsure \in [Syncs -> BOOLEAN]
         /\ rpc \in [Requests -> {"idle", "send", "save"}]
         /\ rcur \in [Requests -> Tickets \union {None}]
         /\ \A s \in Syncs : pc[s] \in AtRow => cur[s] \in Tickets
         /\ \A r \in Requests : rpc[r] # "idle" => rcur[r] \in Tickets

\* Only a filled order has an open position.
OpenIsFilled == \A t \in Open : order[t] = "filled"

\* A task that is not unsure is past the last moment its position could be open.
SureIsClosed == \A s \in Syncs : pc[s] \in Asking /\ ~unsure[s] =>
                                   cur[s] \notin Open /\ order[cur[s]] # "placed"

\* No row is final before its order has left the placed state.
FinalNotPlaced == /\ \A t \in Tickets : row[t].synched => order[t] # "placed"
                  /\ \A s \in Syncs : pc[s] \in {"deals", "final"} => order[cur[s]] = "filled"

IInv == Typed /\ OpenIsFilled /\ SureIsClosed /\ FinalNotPlaced /\ FinalNeedsUnsure

LEMMA InitInductive == Init => IInv
<1> SUFFICES ASSUME Init
             PROVE  IInv
  OBVIOUS
<1>1. BookTypeOK
  <2>1. \A v \in Lots : [lots |-> v, stop |-> 0] \in Position
    BY LotsAssumption DEF Position
  <2> QED
    BY <2>1 DEF Init, BookTypeOK
<1>2. Typed
  BY <1>1 DEF Init, Typed, Columns, AtRow, Asking
<1>3. OpenIsFilled
  BY DEF Init, OpenIsFilled, Open
<1>4. SureIsClosed /\ FinalNotPlaced /\ FinalNeedsUnsure
  BY DEF Init, SureIsClosed, FinalNotPlaced, FinalNeedsUnsure, Asking, Open
<1> QED
  BY <1>2, <1>3, <1>4 DEF IInv

\* The steps of the broker and of REST that open nothing.
LEMMA OpensNothing ==
  ASSUME IInv, BookTypeOK', Open' \subseteq Open,
         UNCHANGED <<order, row, syncState, misread, rpc, rcur>>
  PROVE  IInv'
<1>1. Typed'
  BY DEF IInv, Typed, syncState, Columns
<1>2. (OpenIsFilled /\ SureIsClosed /\ FinalNotPlaced /\ FinalNeedsUnsure)'
  BY DEF IInv, Typed, OpenIsFilled, SureIsClosed, FinalNotPlaced, FinalNeedsUnsure, syncState, Asking
<1> QED
  BY <1>1, <1>2 DEF IInv

\* A task that leaves its row without making it final.
LEMMA LeavesRow ==
  ASSUME IInv, NEW s \in Syncs, Leave(s), UNCHANGED <<brokerState, misread, rpc, rcur>>,
         DOMAIN row' = Tickets,
         \A t \in Tickets : Columns \subseteq DOMAIN row'[t],
         \A t \in Tickets : row'[t].synched =>
            row[t].synched \/ (order[t] # "placed" /\ t \notin Open)
  PROVE  IInv'
<1>1. Typed'
  BY DEF IInv, Typed, Leave, Goto, brokerState, BookTypeOK, AtRow, Asking
<1>2. OpenIsFilled'
  BY DEF IInv, OpenIsFilled, Open, brokerState
<1>3. SureIsClosed'
  BY DEF IInv, Typed, SureIsClosed, Leave, Goto, brokerState, Asking, Open
<1>4. (FinalNotPlaced /\ FinalNeedsUnsure)'
  BY DEF IInv, Typed, FinalNotPlaced, FinalNeedsUnsure, Leave, Goto, brokerState, Open
<1> QED
  BY <1>1, <1>2, <1>3, <1>4 DEF IInv

\* A task that goes on with its row, or picks one: nothing but its own state changes.
LEMMA GoesOn ==
  ASSUME IInv, NEW s \in Syncs, UNCHANGED <<brokerState, row, misread, rpc, rcur>>,
         NEW label \in AtRow \union {"idle", "next"}, Goto(s, label),
         todo' \in [Syncs -> SUBSET Tickets], cur' \in [Syncs -> Tickets \union {None}],
         unsure' \in [Syncs -> BOOLEAN],
         \A u \in Syncs \ {s} : cur'[u] = cur[u] /\ unsure'[u] = unsure[u],
         label \in AtRow => cur'[s] \in Tickets,
         label \in Asking /\ ~unsure'[s] => cur'[s] \notin Open /\ order[cur'[s]] # "placed",
         label \in {"deals", "final"} => order[cur'[s]] = "filled"
  PROVE  IInv'
<1>1. Typed'
  BY DEF IInv, Typed, Goto, brokerState, BookTypeOK, AtRow, Asking
<1>2. (OpenIsFilled /\ FinalNeedsUnsure)'
  BY DEF IInv, OpenIsFilled, FinalNeedsUnsure, Open, brokerState
<1>3. SureIsClosed'
  BY DEF IInv, Typed, SureIsClosed, Goto, brokerState, Asking, Open
<1>4. FinalNotPlaced'
  BY DEF IInv, Typed, FinalNotPlaced, Goto, brokerState
<1> QED
  BY <1>1, <1>2, <1>3, <1>4 DEF IInv

LEMMA BrokerInductive ==
  ASSUME IInv, NEW t \in Tickets, OrderFills(t) \/ OrderDies(t) \/ Reduce(t)
  PROVE  IInv'
<1>1. CASE OrderFills(t)
  <2>1. PICK v \in Lots : Added(t, v, 0)
    BY <1>1 DEF OrderFills
  <2>2. [lots |-> v, stop |-> 0] \in Position
    BY LotsAssumption DEF Position
  <2>3. BookTypeOK' /\ Open' \subseteq Open \union {t}
    BY <2>1, <2>2 DEF IInv, Typed, BookTypeOK, Open, Added
  <2>4. Typed'
    BY <1>1, <2>3 DEF OrderFills, IInv, Typed, syncState, restState, Columns
  <2>5. (OpenIsFilled /\ SureIsClosed)'
    BY <1>1, <2>3 DEF OrderFills, IInv, Typed, OpenIsFilled, SureIsClosed, syncState, AtRow, Asking
  <2>6. (FinalNotPlaced /\ FinalNeedsUnsure)'
    BY <1>1, <2>3 DEF OrderFills, IInv, Typed, FinalNotPlaced, FinalNeedsUnsure, syncState, AtRow, Asking
  <2> QED
    BY <2>4, <2>5, <2>6 DEF IInv
<1>2. CASE OrderDies(t)
  <2>1. Typed'
    BY <1>2 DEF OrderDies, IInv, Typed, BookTypeOK, syncState, restState, Columns
  <2>2. (OpenIsFilled /\ SureIsClosed)'
    BY <1>2 DEF OrderDies, IInv, Typed, OpenIsFilled, SureIsClosed, syncState, AtRow, Asking, Open
  <2>3. (FinalNotPlaced /\ FinalNeedsUnsure)'
    BY <1>2 DEF OrderDies, IInv, Typed, FinalNotPlaced, FinalNeedsUnsure, syncState, AtRow, Asking, Open
  <2> QED
    BY <2>1, <2>2, <2>3 DEF IInv
<1>3. CASE Reduce(t)
  <2>1. PICK v \in 1 .. book[t].lots : Reduced(t, v)
    BY <1>3 DEF Reduce
  <2>2. t \in Open /\ book[t].lots \in Nat
    BY <1>3 DEF Reduce, IInv, Typed, BookTypeOK, Open, Position
  <2>3. BookTypeOK' /\ Open' \subseteq Open
    BY <1>3, <2>1, <2>2, ReducedBook DEF Reduce, IInv, Typed, BookTypeOK
  <2> QED
    BY <1>3, <2>3, OpensNothing DEF Reduce, restState
<1> QED
  BY <1>1, <1>2, <1>3

LEMMA SyncInductive ==
  ASSUME IInv, NEW s \in Syncs, SyncStep(s)
  PROVE  IInv'
<1> USE DEF IInv, Typed, brokerState, restState, AtRow, Asking
<1>1. CASE Start(s)
  <2>1. todo' \in [Syncs -> SUBSET Tickets]
    BY <1>1 DEF Start, Unsynched
  <2> QED
    BY <1>1, <2>1, GoesOn DEF Start
<1>2. CASE Take(s)
  <2>1. CASE todo[s] = {}
    BY <1>2, <2>1, GoesOn DEF Take
  <2>2. CASE todo[s] # {}
    <3>1. PICK t \in todo[s] : /\ Goto(s, "position")
                               /\ todo' = [todo EXCEPT ![s] = @ \ {t}]
                               /\ cur' = [cur EXCEPT ![s] = t]
      BY <1>2, <2>2 DEF Take, FirstCall
    <3>2. t \in Tickets
      OBVIOUS
    <3> QED
      BY <1>2, <3>1, <3>2, GoesOn DEF Take
  <2> QED
    BY <2>1, <2>2
<1>3. CASE CallFails(s) \/ OrderMissing(s)
  BY <1>3, LeavesRow DEF CallFails, OrderMissing
<1>4. CASE PositionOpen(s)
  BY <1>4, GoesOn DEF PositionOpen
<1>5. CASE PositionGone(s)
  <2>1. unsure' \in [Syncs -> BOOLEAN]
    BY <1>5 DEF PositionGone
  <2> QED
    BY <1>5, <2>1, GoesOn DEF PositionGone
<1>6. CASE SaveRunning(s)
  BY <1>6, LeavesRow DEF SaveRunning, Columns
<1>7. CASE OrderFilled(s)
  BY <1>7, GoesOn DEF OrderFilled, SureIsClosed
<1>8. CASE OrderDead(s)
  <2>1. cur[s] \in Tickets /\ cur[s] \notin Open
    BY <1>8 DEF OrderDead, OpenIsFilled
  <2> QED
    BY <1>8, <2>1, LeavesRow DEF OrderDead, Columns
<1>9. CASE GetDeals(s)
  BY <1>9, GoesOn DEF GetDeals, SureIsClosed, FinalNotPlaced
<1>10. CASE SaveFinal(s)
  <2> DEFINE outs == SelectSeq(got[s], LAMBDA d : d.entry = "out")
             final == [synched |-> TRUE, status |-> "FILLED", pnl |-> Total(got[s]),
                       exitTime |-> outs # <<>>, exitPrice |-> ExitPrice(outs)]
  <2>0. row' = [row EXCEPT ![cur[s]] = final]
    BY <1>10 DEF SaveFinal
  <2>1. Columns \subseteq DOMAIN final
    BY DEF Columns
  <2> HIDE DEF outs, final
  <2>2. cur[s] \in Tickets /\ order[cur[s]] = "filled"
    BY <1>10 DEF SaveFinal, FinalNotPlaced
  <2>3. Typed'
    BY <1>10, <2>0, <2>1, <2>2 DEF SaveFinal, Leave, Goto, BookTypeOK
  <2>4. (OpenIsFilled /\ SureIsClosed)'
    BY <1>10 DEF SaveFinal, Leave, Goto, OpenIsFilled, SureIsClosed, Open
  <2>5. FinalNotPlaced'
    BY <1>10, <2>0, <2>1, <2>2 DEF SaveFinal, Leave, Goto, FinalNotPlaced
  <2>6. FinalNeedsUnsure'
    BY <1>10, <2>0, <2>1, <2>2 DEF SaveFinal, FinalNeedsUnsure, SureIsClosed, Open
  <2> QED
    BY <2>3, <2>4, <2>5, <2>6
<1> QED
  BY <1>1, <1>2, <1>3, <1>4, <1>5, <1>6, <1>7, <1>8, <1>9, <1>10 DEF SyncStep

LEMMA RestInductive ==
  ASSUME IInv, NEW r \in Requests, RestStep(r)
  PROVE  IInv'
<1> USE DEF IInv, Typed, brokerState, syncState, Columns
<1>1. ASSUME NEW t \in Tickets, Ask(r, t)
      PROVE  IInv'
  <2>1. Typed'
    BY <1>1 DEF Ask, BookTypeOK
  <2>2. (OpenIsFilled /\ SureIsClosed /\ FinalNotPlaced /\ FinalNeedsUnsure)'
    BY <1>1 DEF Ask, OpenIsFilled, SureIsClosed, FinalNotPlaced, FinalNeedsUnsure, Open
  <2> QED
    BY <2>1, <2>2
<1>2. ASSUME NEW v \in Lots, NEW p \in Prices, NEW answer \in Answers, Close(r, v, p, answer)
      PROVE  IInv'
  <2>1. rcur[r] \in Tickets /\ v \in Nat \ {0} /\ ClosePosition(rcur[r], v, answer)
    BY <1>2, LotsAssumption DEF Close
  <2>2. BookTypeOK' /\ Open' \subseteq Open
    BY <2>1, ClosedBook
  <2>3. Typed'
    BY <1>2, <2>2 DEF Close
  <2>4. (OpenIsFilled /\ SureIsClosed /\ FinalNotPlaced /\ FinalNeedsUnsure)'
    BY <1>2, <2>2 DEF Close, OpenIsFilled, SureIsClosed, FinalNotPlaced, FinalNeedsUnsure, Asking
  <2> QED
    BY <2>3, <2>4
<1>3. CASE SaveExit(r)
  <2>1. rcur[r] \in Tickets
    BY <1>3 DEF SaveExit
  <2>2. \A t \in Tickets : row'[t].synched = row[t].synched
    BY <1>3, <2>1 DEF SaveExit
  <2>3. Typed'
    BY <1>3, <2>1 DEF SaveExit, BookTypeOK
  <2>4. (OpenIsFilled /\ SureIsClosed /\ FinalNotPlaced /\ FinalNeedsUnsure)'
    BY <1>3, <2>2 DEF SaveExit, OpenIsFilled, SureIsClosed, FinalNotPlaced, FinalNeedsUnsure, Open
  <2> QED
    BY <2>3, <2>4
<1> QED
  BY <1>1, <1>2, <1>3 DEF RestStep

LEMMA Inductive == Spec => []IInv
<1>1. ASSUME IInv, UNCHANGED vars
      PROVE  IInv'
  BY <1>1 DEF vars, brokerState, syncState, restState, IInv, Typed, BookTypeOK, Open,
              OpenIsFilled, SureIsClosed, FinalNotPlaced, FinalNeedsUnsure
<1>2. IInv /\ [Next]_vars => IInv'
  BY <1>1, BrokerInductive, SyncInductive, RestInductive DEF Next
<1> QED
  BY <1>2, InitInductive, PTL DEF Spec

(***************************************************************************)
(* For any number of overlapping sync tasks and REST closes, failing calls *)
(* and lost replies: a row is final while its position is open only when   *)
(* get_position answered "not found" for an open position or a placed      *)
(* order.  (_sync_trades_for_environment.)                                 *)
(***************************************************************************)
THEOREM FinalRowIsClosed == Spec => []FinalNeedsUnsure
<1>1. IInv => FinalNeedsUnsure
  BY DEF IInv
<1> QED
  BY <1>1, Inductive, PTL

-----------------------------------------------------------------------------
(* Sums over a finite set, the way the folds of the community modules make   *)
(* them: a function on the subsets that takes away one member at a time, the *)
(* one that pick names.  Which one it is makes no difference to the sum.     *)

Picker(pick, D) == \A t \in SUBSET D : t # {} => pick[t] \in t

Sums(F, D, v, pick) ==
  \A t \in SUBSET D :
    /\ t = {} => F[t] = 0
    /\ t # {} => \/ F[t] = F[t \ {pick[t]}] + v[pick[t]]
                \/ F[t] = v[pick[t]] + F[t \ {pick[t]}]

\* The function the folds take, which adds the picked member last.
SumOf(F, D, v, pick) ==
  F = [t \in SUBSET D |-> IF t = {} THEN 0 ELSE F[t \ {pick[t]}] + v[pick[t]]]

\* Any member can be the last one to be added.
AnyLast(F, D, v) == \A t \in SUBSET D : F[t] \in Int /\ \A x \in t : F[t] = F[t \ {x}] + v[x]

LEMMA NatLeast ==
  ASSUME NEW T \in SUBSET Nat, T # {}
  PROVE  \E x \in T : \A y \in T : x <= y
<1>1. PICK x \in T : \A y \in T : ~(<<y, x>> \in OpToRel(<, Nat))
  BY NatLessThanWellFounded, WFMin
<1> SUFFICES ASSUME NEW y \in T PROVE x <= y
  OBVIOUS
<1>2. /\ x \in Nat /\ y \in Nat
      /\ ~(<<y, x>> \in {p \in Nat \X Nat : p[1] < p[2]})
  BY <1>1 DEF OpToRel
<1>3. ~(y < x)
  BY <1>2
<1> QED
  BY <1>2, <1>3

\* Such a function exists: it is built up by the size of the subsets.
LEMMA SumsExist ==
  ASSUME NEW D, IsFiniteSet(D), NEW v, NEW pick, Picker(pick, D)
  PROVE  \E F : SumOf(F, D, v, pick)
<1> DEFINE Small(n) == {t \in SUBSET D : Cardinality(t) <= n}
           Upto(n) == \E F : F = [t \in Small(n) |->
                                    IF t = {} THEN 0 ELSE F[t \ {pick[t]}] + v[pick[t]]]
           bad == {n \in Nat : ~Upto(n)}
<1>1. \A t \in SUBSET D : IsFiniteSet(t) /\ Cardinality(t) \in Nat
  BY FS_Subset, FS_CardinalityType
<1>2. Upto(0)
  <2>1. \A t \in Small(0) : t = {}
    BY <1>1, FS_EmptySet
  <2> DEFINE F == [t \in Small(0) |-> 0]
  <2>2. F = [t \in Small(0) |-> IF t = {} THEN 0 ELSE F[t \ {pick[t]}] + v[pick[t]]]
    BY <2>1
  <2> HIDE DEF F, Small
  <2> QED
    BY <2>2
<1>3. ASSUME NEW n \in Nat, n # 0, Upto(n - 1)
      PROVE  Upto(n)
  <2> DEFINE Sum(t, G) == IF t = {} THEN 0 ELSE G[t \ {pick[t]}] + v[pick[t]]
  <2>1. PICK F : F = [t \in Small(n - 1) |-> Sum(t, F)]
    BY <1>3
  <2> DEFINE G == [t \in Small(n) |-> Sum(t, F)]
  <2>2. \A t \in Small(n) : t # {} => t \ {pick[t]} \in Small(n - 1)
    <3> SUFFICES ASSUME NEW t \in Small(n), t # {} PROVE t \ {pick[t]} \in Small(n - 1)
      OBVIOUS
    <3>1. pick[t] \in t /\ IsFiniteSet(t) /\ Cardinality(t) \in Nat /\ Cardinality(t) <= n
      BY <1>1 DEF Picker
    <3>2. Cardinality(t \ {pick[t]}) = Cardinality(t) - 1
      BY <3>1, FS_RemoveElement, Zenon
    <3> QED
      BY <1>3, <3>1, <3>2
  <2>3. Small(n - 1) \subseteq Small(n)
    BY <1>1, <1>3
  <2> HIDE DEF Small
  <2>4. \A t \in Small(n - 1) : G[t] = F[t]
    BY <2>1, <2>3
  <2> HIDE DEF G
  <2>5. \A t \in Small(n) : Sum(t, F) = Sum(t, G)
    BY <2>2, <2>4
  <2>6. G = [t \in Small(n) |-> Sum(t, G)]
    BY <2>5 DEF G
  <2> QED
    BY <2>6
<1>4. bad = {}
  <2>1. SUFFICES ASSUME bad # {} PROVE FALSE
    OBVIOUS
  <2> HIDE DEF Upto
  <2>2. PICK n \in bad : \A m \in bad : n <= m
    BY <2>1, NatLeast
  <2>3. n # 0
    BY <1>2, <2>2
  <2>4. n - 1 \in Nat /\ n - 1 \notin bad
    BY <2>2, <2>3
  <2> QED
    BY <1>3, <2>2, <2>3, <2>4
<1>5. Upto(Cardinality(D))
  <2>1. Cardinality(D) \in Nat
    BY FS_CardinalityType
  <2> HIDE DEF Upto
  <2> QED
    BY <1>4, <2>1
<1>6. Small(Cardinality(D)) = SUBSET D
  BY FS_Subset
<1> HIDE DEF Small
<1> QED
  BY <1>5, <1>6 DEF SumOf

Minimal(t, bad) == t \in bad /\ \A u \in bad : ~(u \subseteq t /\ u # t)

\* What holds of a set whenever it holds of all its proper subsets holds of all.
LEMMA MinimalSubset ==
  ASSUME NEW D, IsFiniteSet(D), NEW bad \in SUBSET (SUBSET D), bad # {}
  PROVE  \E t : Minimal(t, bad)
<1>1. IsWellFoundedOn(StrictSubsetOrdering(D), SUBSET D)
  BY FS_StrictSubsetOrderingWellFounded, FS_FiniteSubsetsOfFinite
<1>2. PICK t \in bad : \A u \in bad : ~(<<u, t>> \in StrictSubsetOrdering(D))
  BY <1>1, WFMin
<1> QED
  BY <1>2 DEF StrictSubsetOrdering, Minimal

LEMMA SumsRemove ==
  ASSUME NEW D, IsFiniteSet(D), NEW v \in [D -> Int], NEW pick, Picker(pick, D),
         NEW F, Sums(F, D, v, pick)
  PROVE  AnyLast(F, D, v)
<1> DEFINE Fine(t) == F[t] \in Int /\ \A x \in t : F[t] = F[t \ {x}] + v[x]
           bad == {t \in SUBSET D : ~Fine(t)}
<1>1. bad \in SUBSET (SUBSET D) /\ \A t \in SUBSET D : t \in bad <=> ~Fine(t)
  OBVIOUS
<1> HIDE DEF bad
<1>2. bad = {}
  <2>1. SUFFICES ASSUME bad # {} PROVE FALSE
    OBVIOUS
  <2>2. PICK t \in bad : \A u \in bad : ~(u \subseteq t /\ u # t)
    BY <1>1, <2>1, MinimalSubset DEF Minimal
  <2>3. t \in SUBSET D /\ ~Fine(t)
    BY <1>1, <2>2
  <2> HIDE DEF Fine
  <2>4. \A u \in SUBSET t : u # t => Fine(u)
    BY <1>1, <2>2, <2>3
  <2>5. t # {}
    <3>1. t = {} => F[t] = 0
      BY <2>3, Zenon DEF Sums
    <3>2. F[t] = 0 => F[t] \in Int
      OBVIOUS
    <3> QED
      BY <2>3, <3>1, <3>2, Zenon DEF Fine
  <2>6. PICK y \in t : F[t] = F[t \ {y}] + v[y] \/ F[t] = v[y] + F[t \ {y}]
    BY <2>3, <2>5 DEF Sums, Picker
  <2>7. \A x \in t : v[x] \in Int
    BY <2>3
  <2>8. ASSUME NEW x \in t
        PROVE  Fine(t \ {x}) /\ F[t \ {x}] \in Int
    BY <2>4 DEF Fine
  <2>9. F[t] \in Int /\ F[t] = F[t \ {y}] + v[y]
    <3>1. PICK a, b : a = F[t \ {y}] /\ b = v[y]
      OBVIOUS
    <3>2. a \in Int /\ b \in Int
      BY <2>7, <2>8, <3>1, Zenon
    <3>3. F[t] = a + b \/ F[t] = b + a
      BY <2>6, <3>1, Zenon
    <3>4. F[t] \in Int /\ F[t] = a + b
      BY <3>2, <3>3
    <3> QED
      BY <3>1, <3>4, Zenon
  <2>10. ASSUME NEW x \in t, x # y
         PROVE  F[t] = F[t \ {x}] + v[x]
    <3> DEFINE rest == (t \ {x}) \ {y}
    <3>1. rest = (t \ {y}) \ {x} /\ rest \in SUBSET t /\ rest # t
      OBVIOUS
    <3>2. F[t \ {y}] = F[(t \ {y}) \ {x}] + v[x]
      BY <2>8, <2>10 DEF Fine
    <3>3. F[t \ {x}] = F[rest] + v[y]
      BY <2>8, <2>10 DEF Fine
    <3>4. F[rest] \in Int
      BY <2>4, <3>1 DEF Fine
    <3>5. F[t \ {y}] = F[rest] + v[x]
      BY <3>1, <3>2, Zenon
    <3> HIDE DEF rest
    <3> QED
      BY <2>7, <2>9, <3>3, <3>4, <3>5
  <2> QED
    BY <2>3, <2>9, <2>10, Zenon DEF Fine
<1> QED
  BY <1>1, <1>2 DEF AnyLast

\* The order of adding makes no difference.
LEMMA SumsAgree ==
  ASSUME NEW D, IsFiniteSet(D), NEW v \in [D -> Int],
         NEW p, Picker(p, D), NEW F, Sums(F, D, v, p),
         NEW q, Picker(q, D), NEW G, Sums(G, D, v, q)
  PROVE  F[D] = G[D]
<1>0. AnyLast(F, D, v) /\ AnyLast(G, D, v)
  BY SumsRemove
<1> DEFINE bad == {t \in SUBSET D : F[t] # G[t]}
<1>1. bad \in SUBSET (SUBSET D) /\ \A t \in SUBSET D : t \in bad <=> F[t] # G[t]
  OBVIOUS
<1> HIDE DEF bad
<1>2. bad = {}
  <2>1. SUFFICES ASSUME bad # {} PROVE FALSE
    OBVIOUS
  <2>2. PICK t \in bad : \A u \in bad : ~(u \subseteq t /\ u # t)
    BY <1>1, <2>1, MinimalSubset DEF Minimal
  <2>3. t \in SUBSET D /\ F[t] # G[t]
    BY <1>1, <2>2
  <2>4. t # {}
    <3>1. t = {} => F[t] = 0 /\ G[t] = 0
      BY <2>3, Zenon DEF Sums
    <3> QED
      BY <2>3, <3>1, Zenon
  <2>5. PICK x \in t : TRUE
    BY <2>4
  <2>6. F[t] = F[t \ {x}] + v[x]
    BY <1>0, <2>3, Zenon DEF AnyLast
  <2>7. G[t] = G[t \ {x}] + v[x]
    BY <1>0, <2>3, Zenon DEF AnyLast
  <2>8. F[t \ {x}] = G[t \ {x}]
    BY <1>1, <2>2, <2>3
  <2> QED
    BY <2>3, <2>6, <2>7, <2>8, Zenon
<1>3. D \in SUBSET D
  OBVIOUS
<1> QED
  BY <1>1, <1>2, <1>3

-----------------------------------------------------------------------------
(* The P&L of a row: the loop over the deals against their sum.              *)

Deal == [entry : {"in", "out"}, lots : Int, price : Int]

LEMMA HasMax ==
  ASSUME NEW D \in SUBSET Nat, IsFiniteSet(D), D # {}
  PROVE  Max(D) \in D
<1> DEFINE bad == {u \in SUBSET D : u # {} /\ ~\E x \in u : \A y \in u : x >= y}
<1>1. bad \in SUBSET (SUBSET D)
  OBVIOUS
<1>0. \A u \in SUBSET D : u \in bad <=> u # {} /\ ~\E x \in u : \A y \in u : x >= y
  OBVIOUS
<1> HIDE DEF bad
<1>2. bad = {}
  <2>1. SUFFICES ASSUME bad # {} PROVE FALSE
    OBVIOUS
  <2>2. PICK u \in bad : \A w \in bad : ~(w \subseteq u /\ w # u)
    <3>1. PICK u : Minimal(u, bad)
      BY <1>1, <2>1, MinimalSubset
    <3> QED
      BY <3>1, Zenon DEF Minimal
  <2>3. PICK z \in u : u \in SUBSET D /\ z \in Nat /\ ~\E x \in u : \A y \in u : x >= y
    BY <1>0, <1>1
  <2> DEFINE w == u \ {z}
  <2>4. w \notin bad /\ w \in SUBSET D
    BY <1>1, <2>2, <2>3
  <2>5. CASE w = {}
    BY <2>3, <2>5
  <2>6. CASE w # {}
    <3>1. PICK x \in w : \A y \in w : x >= y
      BY <1>0, <2>4, <2>6
    <3>2. x \in u /\ x \in Nat /\ \A y \in u : y \in Nat /\ (y = z \/ y \in w)
      BY <2>3
    <3> HIDE DEF w
    <3>3. CASE x >= z
      <4>1. \A y \in u : x >= y
        BY <3>1, <3>2, <3>3
      <4> QED
        BY <2>3, <3>2, <4>1
    <3>4. CASE z >= x
      <4>1. \A y \in u : z >= y
        BY <2>3, <3>1, <3>2, <3>4
      <4> QED
        BY <2>3, <4>1
    <3> QED
      BY <2>3, <3>2, <3>3, <3>4
  <2> QED
    BY <2>5, <2>6
<1>3. \E x \in D : \A y \in D : x >= y
  BY <1>0, <1>2
<1> QED
  BY <1>3 DEF Max

\* The order in which the deals come makes no difference to the total.
LEMMA TotalIsSum ==
  ASSUME NEW ds \in Seq(Deal)
  PROVE  Total(ds) = MapThenSumSet(LAMBDA i : Net(ds[i]), DOMAIN ds)
<1> DEFINE D == DOMAIN ds
           v == [i \in D |-> Net(ds[i])]
           last == [t \in SUBSET D |-> Max(t)]
           some == [t \in SUBSET D |-> CHOOSE i \in t : TRUE]
           Left(F) == F = [t \in SUBSET D |-> IF t = {} THEN 0
                             ELSE F[t \ {Max(t)}] + Net(ds[Max(t)])]
           Chosen(F) == F = [t \in SUBSET D |-> IF t = {} THEN 0
                               ELSE Net(ds[CHOOSE i \in t : TRUE]) + F[t \ {CHOOSE i \in t : TRUE}]]
           left == CHOOSE F : Left(F)
           any == CHOOSE F : Chosen(F)
<1>1. Total(ds) = left[D]
  BY DEF Total, FoldLeft, MapThenFoldSet
<1>2. MapThenSumSet(LAMBDA i : Net(ds[i]), DOMAIN ds) = any[D]
  BY DEF MapThenSumSet, MapThenFoldSet
<1>3. IsFiniteSet(D) /\ D \subseteq Nat
  <2>1. D = 1 .. Len(ds) /\ Len(ds) \in Nat
    OBVIOUS
  <2> QED
    BY <2>1, FS_Interval
<1>4. v \in [D -> Int]
  <2>1. \A d \in Deal : Net(d) \in Int
    BY SyncAssumption DEF Deal, Net
  <2> QED
    BY <2>1
<1>5. Picker(last, D)
  <2> SUFFICES ASSUME NEW t \in SUBSET D, t # {} PROVE Max(t) \in t
    BY DEF Picker
  <2> QED
    BY <1>3, FS_Subset, HasMax
<1>6. Picker(some, D)
  BY DEF Picker
<1>7. \A t \in SUBSET D : t # {} => /\ last[t] = Max(t) /\ Max(t) \in D
                                    /\ some[t] = (CHOOSE i \in t : TRUE) /\ some[t] \in D
  BY <1>5, <1>6 DEF Picker
<1>8. \A F : Left(F) <=> SumOf(F, D, v, last)
  BY <1>7 DEF SumOf
<1>9. \A F : Chosen(F) <=> F = [t \in SUBSET D |-> IF t = {} THEN 0
                                              ELSE v[some[t]] + F[t \ {some[t]}]]
  BY <1>7
<1> HIDE DEF Left, Chosen, v, last, some, D
<1>10. \A F : Left(F) => Sums(F, D, v, last)
  BY <1>8 DEF SumOf, Sums
<1>11. \A F : Chosen(F) => Sums(F, D, v, some)
  BY <1>9 DEF Sums
<1>12. Left(left)
  <2>1. \E F : Left(F)
    <3>1. \E F : SumOf(F, D, v, last)
      BY <1>3, <1>5, SumsExist
    <3> QED
      BY <1>8, <3>1
  <2> QED
    BY <2>1
<1>13. Chosen(any)
  <2>1. PICK F : SumOf(F, D, v, some)
    BY <1>3, <1>6, SumsExist
  <2>2. Sums(F, D, v, some)
    BY <2>1 DEF SumOf, Sums
  <2>3. \A t \in SUBSET D : F[t] \in Int
    BY <1>3, <1>4, <1>6, <2>2, SumsRemove DEF AnyLast
  <2>4. \A t \in SUBSET D : t # {} => F[t \ {some[t]}] + v[some[t]] = v[some[t]] + F[t \ {some[t]}]
    BY <1>4, <1>7, <2>3
  <2>5. Chosen(F)
    BY <1>9, <2>1, <2>4 DEF SumOf
  <2> QED
    BY <2>5
<1>14. Sums(left, D, v, last) /\ Sums(any, D, v, some)
  BY <1>10, <1>11, <1>12, <1>13
<1> HIDE DEF left, any
<1>15. left[D] = any[D]
  BY <1>3, <1>4, <1>5, <1>6, <1>14, SumsAgree
<1> QED
  BY <1>1, <1>2, <1>15

-----------------------------------------------------------------------------
(* The final P&L, with one sync task at a time: between the calls of a task  *)
(* no other task writes its row.                                             *)

DealsTyped == deals \in [Tickets -> Seq(Deal)]

\* A task has rows to do, or is at one, only while they are not final.
TodoOpen == \A s \in Syncs : /\ \A t \in todo[s] : ~row[t].synched
                             /\ pc[s] \in AtRow => ~row[cur[s]].synched /\ cur[s] \notin todo[s]

\* What a task was told of a closed position is all there is to tell.
GotAll == /\ DOMAIN got = Syncs
          /\ \A s \in Syncs : pc[s] = "final" /\ ~unsure[s] => got[s] = deals[cur[s]]

TotalKept == \A t \in Tickets \ misread :
               row[t].synched /\ row[t].status = "FILLED" => row[t].pnl = Total(deals[t])

PnlInv == DealsTyped /\ TodoOpen /\ GotAll /\ TotalKept

OneSync == \A s, u \in Syncs : s = u

LEMMA InitPnl == Init => PnlInv
<1> SUFFICES ASSUME Init
             PROVE  PnlInv
  OBVIOUS
<1>1. InDeal \in Deal
  BY DEF InDeal, Deal
<1>2. <<>> \in Seq(Deal) /\ <<InDeal>> \in Seq(Deal)
  BY <1>1
<1>3. DealsTyped
  BY <1>2 DEF Init, DealsTyped
<1> QED
  BY <1>3 DEF Init, PnlInv, TodoOpen, GotAll, TotalKept, AtRow, Asking

\* A step that adds a deal to one position at most, one that a row cannot be final with.
LEMMA DealAdded ==
  ASSUME IInv, PnlInv, NEW t \in Tickets, NEW ds \in Seq(Deal),
         deals' = [deals EXCEPT ![t] = ds],
         row[t].synched => t \in misread,
         \A s \in Syncs : pc[s] = "final" /\ ~unsure[s] => cur[s] # t,
         \A k \in Tickets : /\ row'[k].synched = row[k].synched
                            /\ row'[k].status = row[k].status /\ row'[k].pnl = row[k].pnl,
         UNCHANGED <<syncState, misread>>
  PROVE  PnlInv'
<1>1. \A k \in Tickets \ {t} : deals'[k] = deals[k]
  BY DEF PnlInv, DealsTyped
<1>2. DealsTyped'
  BY DEF PnlInv, DealsTyped
<1>3. TodoOpen'
  BY DEF IInv, Typed, PnlInv, TodoOpen, syncState
<1>4. GotAll'
  BY <1>1 DEF IInv, Typed, PnlInv, GotAll, syncState, AtRow, Asking
<1>5. TotalKept'
  <2> SUFFICES ASSUME NEW k \in Tickets, k \notin misread', row'[k].synched,
                      row'[k].status = "FILLED"
               PROVE  row'[k].pnl = Total(deals'[k])
    BY DEF TotalKept
  <2>1. k # t /\ row'[k].pnl = row[k].pnl /\ deals'[k] = deals[k]
    BY <1>1
  <2>2. row[k].pnl = Total(deals[k])
    BY DEF PnlInv, TotalKept
  <2> QED
    BY <2>1, <2>2, Zenon
<1> QED
  BY <1>2, <1>3, <1>4, <1>5 DEF PnlInv

LEMMA BrokerPnl ==
  ASSUME IInv, PnlInv, NEW t \in Tickets, OrderFills(t) \/ OrderDies(t) \/ Reduce(t)
  PROVE  PnlInv'
<1>1. CASE OrderFills(t)
  <2>1. <<InDeal>> \in Seq(Deal)
    BY DEF InDeal, Deal
  <2>2. ~row[t].synched /\ \A s \in Syncs : pc[s] = "final" => cur[s] # t
    BY <1>1 DEF OrderFills, IInv, FinalNotPlaced
  <2>3. deals' = [deals EXCEPT ![t] = <<InDeal>>] /\ UNCHANGED <<row, syncState, misread>>
    BY <1>1 DEF OrderFills
  <2> QED
    BY <2>1, <2>2, <2>3, DealAdded
<1>2. CASE OrderDies(t)
  <2>1. UNCHANGED <<deals, row, syncState, misread>>
    BY <1>2 DEF OrderDies
  <2> QED
    BY <2>1 DEF PnlInv, DealsTyped, TodoOpen, GotAll, TotalKept, syncState
<1>3. CASE Reduce(t)
  <2>1. PICK v \in 1 .. book[t].lots, p \in Prices :
               deals' = [deals EXCEPT ![t] = Append(@, OutDeal(v, p))]
    BY <1>3 DEF Reduce
  <2>2. book[t].lots \in Nat
    BY <1>3 DEF Reduce, IInv, Typed, BookTypeOK, Open, Position
  <2>3. OutDeal(v, p) \in Deal
    BY <2>2, SyncAssumption DEF OutDeal, Deal
  <2>4. Append(deals[t], OutDeal(v, p)) \in Seq(Deal)
    BY <2>3 DEF PnlInv, DealsTyped
  <2>5. deals' = [deals EXCEPT ![t] = Append(deals[t], OutDeal(v, p))]
    BY <2>1
  <2>6. t \in Open /\ UNCHANGED <<row, syncState, misread>>
    BY <1>3 DEF Reduce
  <2>7. row[t].synched => t \in misread
    BY <2>6 DEF IInv, FinalNeedsUnsure
  <2>8. \A s \in Syncs : pc[s] = "final" /\ ~unsure[s] => cur[s] # t
    BY <2>6 DEF IInv, SureIsClosed, Asking
  <2> QED
    BY <2>4, <2>5, <2>6, <2>7, <2>8, DealAdded
<1> QED
  BY <1>1, <1>2, <1>3

LEMMA RestPnl ==
  ASSUME IInv, PnlInv, NEW r \in Requests, RestStep(r)
  PROVE  PnlInv'
<1>1. ASSUME NEW t \in Tickets, Ask(r, t)
      PROVE  PnlInv'
  BY <1>1 DEF Ask, brokerState, PnlInv, DealsTyped, TodoOpen, GotAll, TotalKept, syncState
<1>2. ASSUME NEW v \in Lots, NEW p \in Prices, NEW answer \in Answers, Close(r, v, p, answer)
      PROVE  PnlInv'
  <2> DEFINE t == rcur[r]
             left == IF book'[t] = None THEN 0 ELSE book'[t].lots
             ds == Append(deals[t], OutDeal(book[t].lots - left, p))
  <2>1. t \in Tickets /\ v \in Nat \ {0} /\ ClosePosition(t, v, answer)
    BY <1>2, LotsAssumption DEF Close, IInv, Typed
  <2>2. BookTypeOK' /\ Open' \subseteq Open
    BY <2>1, ClosedBook DEF IInv, Typed
  <2>3. UNCHANGED <<row, syncState, misread>>
    BY <1>2 DEF Close
  <2>4. CASE book'[t] = book[t]
    <3>1. UNCHANGED deals
      BY <1>2, <2>4 DEF Close
    <3> QED
      BY <2>3, <3>1 DEF PnlInv, DealsTyped, TodoOpen, GotAll, TotalKept, syncState
  <2>5. CASE book'[t] # book[t]
    <3>1. t \in Open
      BY <2>1, <2>5 DEF ClosePosition
    <3>2. book[t].lots \in Int /\ left \in Int
      BY <2>1, <2>2, <3>1 DEF BookTypeOK, IInv, Typed, Open, Position
    <3>3. deals' = [deals EXCEPT ![t] = ds]
      BY <1>2, <2>5 DEF Close
    <3> HIDE DEF left
    <3>4. OutDeal(book[t].lots - left, p) \in Deal
      BY <3>2, SyncAssumption DEF OutDeal, Deal
    <3>5. ds \in Seq(Deal)
      BY <2>1, <3>4 DEF PnlInv, DealsTyped
    <3>6. row[t].synched => t \in misread
      BY <3>1 DEF IInv, FinalNeedsUnsure
    <3>7. \A s \in Syncs : pc[s] = "final" /\ ~unsure[s] => cur[s] # t
      BY <3>1 DEF IInv, SureIsClosed, Asking
    <3> HIDE DEF ds, t
    <3> QED
      BY <2>1, <2>3, <3>3, <3>5, <3>6, <3>7, DealAdded
  <2> QED
    BY <2>4, <2>5
<1>3. CASE SaveExit(r)
  <2>1. rcur[r] \in Tickets
    BY <1>3 DEF SaveExit, IInv, Typed
  <2>2. \A t \in Tickets : /\ row'[t].synched = row[t].synched
                           /\ row'[t].status = row[t].status /\ row'[t].pnl = row[t].pnl
    BY <1>3, <2>1 DEF SaveExit, IInv, Typed, Columns
  <2>3. UNCHANGED <<deals, syncState, misread>>
    BY <1>3 DEF SaveExit, brokerState
  <2>4. TotalKept'
    BY <2>2, <2>3 DEF PnlInv, TotalKept
  <2>5. TodoOpen'
    BY <2>2, <2>3 DEF PnlInv, TodoOpen, IInv, Typed, syncState
  <2> QED
    BY <2>3, <2>4, <2>5 DEF PnlInv, DealsTyped, GotAll, syncState
<1> QED
  BY <1>1, <1>2, <1>3 DEF RestStep

\* A task that leaves its row, which alone can have changed.
LEMMA LeavesPnl ==
  ASSUME IInv, PnlInv, OneSync, NEW s \in Syncs, pc[s] \in AtRow, Leave(s),
         UNCHANGED deals,
         \A t \in Tickets \ {cur[s]} : row'[t] = row[t] /\ (t \in misread' <=> t \in misread),
         cur[s] \notin misread' /\ row'[cur[s]].synched /\ row'[cur[s]].status = "FILLED"
            => row'[cur[s]].pnl = Total(deals[cur[s]])
  PROVE  PnlInv'
<1>1. \A u \in Syncs : u = s
  BY DEF OneSync
<1>2. pc'[s] = "next" /\ todo' = todo /\ DOMAIN got' = Syncs
  BY DEF IInv, Typed, PnlInv, GotAll, Leave, Goto
<1>3. cur[s] \notin todo[s] /\ todo[s] \subseteq Tickets
  BY DEF IInv, Typed, PnlInv, TodoOpen
<1>4. TodoOpen'
  <2> SUFFICES /\ \A t \in todo'[s] : ~row'[t].synched
               /\ pc'[s] \notin AtRow
    BY <1>1 DEF TodoOpen
  <2> QED
    BY <1>2, <1>3 DEF PnlInv, TodoOpen, AtRow, Asking
<1>5. GotAll'
  BY <1>1, <1>2 DEF GotAll
<1>6. TotalKept'
  <2> SUFFICES ASSUME NEW t \in Tickets, t \notin misread', row'[t].synched,
                      row'[t].status = "FILLED"
               PROVE  row'[t].pnl = Total(deals'[t])
    BY DEF TotalKept
  <2>1. CASE t = cur[s]
    BY <2>1
  <2>2. CASE t # cur[s]
    BY <2>2 DEF PnlInv, TotalKept
  <2> QED
    BY <2>1, <2>2
<1> QED
  BY <1>4, <1>5, <1>6 DEF PnlInv, DealsTyped

LEMMA SyncPnl ==
  ASSUME IInv, PnlInv, OneSync, NEW s \in Syncs, SyncStep(s)
  PROVE  PnlInv'
<1> USE DEF brokerState, AtRow, Asking
<1>0. /\ \A u \in Syncs : u = s
      /\ pc[s] \in AtRow => cur[s] \in Tickets
      /\ pc \in [Syncs -> {"idle", "next"} \union AtRow] /\ DOMAIN got = Syncs
      /\ todo \in [Syncs -> SUBSET Tickets] /\ cur \in [Syncs -> Tickets \union {None}]
  BY DEF OneSync, IInv, Typed, PnlInv, GotAll
<1>1. CASE Start(s)
  <2>1. /\ UNCHANGED <<deals, row, got, misread>>
        /\ pc'[s] = "next" /\ todo'[s] = Unsynched
    BY <1>0, <1>1 DEF Start, Goto
  <2>2. TodoOpen'
    BY <1>0, <2>1 DEF TodoOpen, Unsynched
  <2>3. GotAll'
    BY <1>0, <2>1 DEF GotAll
  <2> QED
    BY <2>1, <2>2, <2>3 DEF PnlInv, DealsTyped, TotalKept
<1>2. CASE Take(s)
  <2>1. UNCHANGED <<deals, row, got, misread>>
    BY <1>2 DEF Take
  <2>2. pc'[s] # "final" /\ TodoOpen'
    <3>1. CASE todo[s] = {}
      <4>1. pc'[s] = "idle" /\ todo' = todo
        BY <1>0, <1>2, <3>1 DEF Take, Goto
      <4> QED
        BY <1>0, <2>1, <4>1 DEF PnlInv, TodoOpen
    <3>2. CASE todo[s] # {}
      <4>1. PICK t \in todo[s] : /\ pc'[s] = "position" /\ cur'[s] = t
                                 /\ todo'[s] = todo[s] \ {t}
        BY <1>0, <1>2, <3>2 DEF Take, Goto, FirstCall
      <4>2. \A k \in todo[s] : ~row[k].synched
        BY DEF PnlInv, TodoOpen
      <4> QED
        BY <1>0, <2>1, <4>1, <4>2 DEF TodoOpen
    <3> QED
      BY <3>1, <3>2
  <2>3. GotAll'
    BY <1>0, <2>1, <2>2 DEF GotAll
  <2> QED
    BY <2>1, <2>2, <2>3 DEF PnlInv, DealsTyped, TotalKept
<1>3. CASE CallFails(s) \/ OrderMissing(s)
  <2>1. pc[s] \in AtRow /\ Leave(s) /\ UNCHANGED <<deals, row, misread>>
    BY <1>3 DEF CallFails, OrderMissing
  <2>2. cur[s] \in Tickets /\ ~row[cur[s]].synched
    BY <1>0, <2>1 DEF PnlInv, TodoOpen
  <2> QED
    BY <2>1, <2>2, LeavesPnl
<1>4. CASE PositionOpen(s) \/ PositionGone(s) \/ OrderFilled(s)
  <2>1. /\ UNCHANGED <<deals, row, todo, cur, misread>>
        /\ pc[s] \in AtRow /\ pc'[s] \in {"running", "order", "deals"} /\ DOMAIN got' = Syncs
    BY <1>0, <1>4 DEF PositionOpen, PositionGone, OrderFilled, Goto
  <2>2. TodoOpen'
    BY <1>0, <2>1 DEF PnlInv, TodoOpen
  <2>3. GotAll'
    BY <1>0, <2>1 DEF GotAll
  <2> QED
    BY <2>1, <2>2, <2>3 DEF PnlInv, DealsTyped, TotalKept
<1>5. CASE GetDeals(s)
  <2>1. /\ UNCHANGED <<deals, row, todo, cur, misread>>
        /\ pc[s] \in AtRow /\ pc'[s] = "final"
        /\ DOMAIN got' = Syncs /\ got'[s] = deals[cur[s]]
    BY <1>0, <1>5 DEF GetDeals, Goto
  <2>2. TodoOpen'
    BY <1>0, <2>1 DEF PnlInv, TodoOpen
  <2>3. GotAll'
    BY <1>0, <2>1 DEF GotAll
  <2> QED
    BY <2>1, <2>2, <2>3 DEF PnlInv, DealsTyped, TotalKept
<1>6. CASE SaveRunning(s)
  <2>1. pc[s] \in AtRow /\ Leave(s) /\ UNCHANGED <<deals, misread>>
    BY <1>6 DEF SaveRunning
  <2>2. cur[s] \in Tickets /\ ~row[cur[s]].synched
    BY <1>0, <2>1 DEF PnlInv, TodoOpen
  <2>3. /\ \A t \in Tickets \ {cur[s]} : row'[t] = row[t]
        /\ ~row'[cur[s]].synched
    BY <1>6, <2>2 DEF SaveRunning, IInv, Typed, Columns
  <2> QED
    BY <2>1, <2>3, LeavesPnl
<1>7. CASE OrderDead(s)
  <2>1. pc[s] \in AtRow /\ Leave(s) /\ UNCHANGED <<deals, misread>>
    BY <1>7 DEF OrderDead
  <2>2. /\ \A t \in Tickets \ {cur[s]} : row'[t] = row[t]
        /\ row'[cur[s]].status = "DEAD"
    BY <1>0, <1>7, <2>1 DEF OrderDead, IInv, Typed, Columns
  <2> QED
    BY <2>1, <2>2, LeavesPnl
<1>8. CASE SaveFinal(s)
  <2> DEFINE outs == SelectSeq(got[s], LAMBDA d : d.entry = "out")
             final == [synched |-> TRUE, status |-> "FILLED", pnl |-> Total(got[s]),
                       exitTime |-> outs # <<>>, exitPrice |-> ExitPrice(outs)]
  <2>1. /\ row' = [row EXCEPT ![cur[s]] = final] /\ pc[s] = "final"
        /\ misread' = IF unsure[s] THEN misread \union {cur[s]} ELSE misread \ {cur[s]}
        /\ Leave(s) /\ UNCHANGED deals
    BY <1>8 DEF SaveFinal
  <2>2. final.pnl = Total(got[s])
    OBVIOUS
  <2> HIDE DEF outs, final
  <2>3. cur[s] \in Tickets
    BY <1>0, <2>1
  <2>4. row'[cur[s]] = final /\ \A t \in Tickets \ {cur[s]} : row'[t] = row[t]
    BY <2>1, <2>3 DEF IInv, Typed
  <2>5. cur[s] \notin misread' => got[s] = deals[cur[s]]
    BY <2>1 DEF PnlInv, GotAll
  <2>6. cur[s] \notin misread' => row'[cur[s]].pnl = Total(deals[cur[s]])
    BY <2>2, <2>4, <2>5, Zenon
  <2>7. \A t \in Tickets \ {cur[s]} : t \in misread' <=> t \in misread
    BY <2>1
  <2>8. pc[s] \in AtRow
    BY <2>1
  <2> QED
    BY <2>1, <2>4, <2>6, <2>7, <2>8, LeavesPnl
<1> QED
  BY <1>1, <1>2, <1>3, <1>4, <1>5, <1>6, <1>7, <1>8 DEF SyncStep

(***************************************************************************)
(* With one sync task at a time, as an hourly schedule that is never late  *)
(* runs them, and any number of REST closes, partial closes, failing calls *)
(* and lost replies: the P&L of a row made final by a task that was told   *)
(* the truth is the sum over all deals of its position.  Two tasks at once *)
(* break it: one saves the running P&L it asked for before the other made  *)
(* the row final.  (_sync_trades_for_environment.)                         *)
(***************************************************************************)
THEOREM FinalPnlAlwaysTotal == OneSync => (Spec => []FinalPnlIsTotal)
<1> SUFFICES ASSUME OneSync
             PROVE  Spec => []FinalPnlIsTotal
  OBVIOUS
<1>1. IInv /\ PnlInv /\ [Next]_vars => PnlInv'
  <2> SUFFICES ASSUME IInv, PnlInv, [Next]_vars
               PROVE  PnlInv'
    OBVIOUS
  <2>1. CASE UNCHANGED vars
    BY <2>1 DEF vars, brokerState, syncState, PnlInv, DealsTyped, TodoOpen, GotAll, TotalKept
  <2> QED
    BY <2>1, BrokerPnl, SyncPnl, RestPnl DEF Next
<1>2. PnlInv => FinalPnlIsTotal
  <2> SUFFICES ASSUME PnlInv, NEW t \in Tickets \ misread, row[t].synched,
                      row[t].status = "FILLED"
               PROVE  row[t].pnl = MapThenSumSet(LAMBDA i : Net(deals[t][i]), DOMAIN deals[t])
    BY DEF FinalPnlIsTotal
  <2>1. deals[t] \in Seq(Deal) /\ row[t].pnl = Total(deals[t])
    BY DEF PnlInv, DealsTyped, TotalKept
  <2> QED
    BY <2>1, TotalIsSum
<1> QED
  BY <1>1, <1>2, InitPnl, Inductive, PTL DEF Spec
=============================================================================
