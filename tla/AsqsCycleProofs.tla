-------------------------- MODULE AsqsCycleProofs --------------------------
(***************************************************************************)
(* Proofs about AsqsCycle for any number of tasks and tickets, any ticks   *)
(* and volumes; lost replies, refusals, partial fills and kills anywhere;  *)
(* an operator who moves stops; orders, closes and modifies that execute   *)
(* after their client has given up, any number of them, at any later time. *)
(* Most are about tasks that do not overlap, with positions_get never      *)
(* failing silently (Serial); the last three assume less.                  *)
(***************************************************************************)
EXTENDS AsqsCycle, FiniteSetTheorems, TLAPS

-----------------------------------------------------------------------------
(* The bridge's calls: what each can do to the book. *)

\* What EXCEPT does to a function, pointwise.
LEMMA ExceptOne ==
  ASSUME NEW S, NEW R, NEW f \in [S -> R], NEW k \in S, NEW q \in R
  PROVE  /\ [f EXCEPT ![k] = q] \in [S -> R]
         /\ [f EXCEPT ![k] = q][k] = q
         /\ \A l \in S \ {k} : [f EXCEPT ![k] = q][l] = f[l]
  OBVIOUS

\* A step of the broker's closing or of close_position opens nothing and moves no stop.
LEMMA ReducedBook ==
  ASSUME BookTypeOK, NEW k \in Open, NEW v \in Nat \ {0}, v <= book[k].lots,
         Reduced(k, v) \/ (book' = [book EXCEPT ![k] = None])
  PROVE  /\ book' \in [Tickets -> Position \union {None}]
         /\ Open' \subseteq Open
         /\ \A l \in Open' : book'[l].stop = book[l].stop
<1>1. k \in Tickets /\ book[k] \in Position
  BY DEF Open, BookTypeOK
<1>2. Rest(book[k], v) \in Position \union {None}
  BY <1>1 DEF Rest, Position
<1>3. Rest(book[k], v) # None => Rest(book[k], v).stop = book[k].stop
  BY <1>1 DEF Rest, Position
<1>4. PICK q \in Position \union {None} :
        /\ book' = [book EXCEPT ![k] = q]
        /\ q # None => q.stop = book[k].stop
  BY <1>2, <1>3 DEF Reduced
<1>5. /\ book' \in [Tickets -> Position \union {None}]
      /\ book'[k] = q /\ \A l \in Tickets \ {k} : book'[l] = book[l]
  BY <1>1, <1>4, ExceptOne DEF BookTypeOK
<1>6. Open' \subseteq Open
  BY <1>1, <1>5 DEF Open
<1>7. \A l \in Open' : book'[l].stop = book[l].stop
  BY <1>4, <1>5 DEF Open
<1> QED
  BY <1>5, <1>6, <1>7

\* close_position opens nothing and moves no stop, whatever it answers.
LEMMA ClosedBook ==
  ASSUME BookTypeOK, NEW k \in Tickets, NEW v \in Nat \ {0}, NEW answer \in Answers,
         ClosePosition(k, v, answer)
  PROVE  BookTypeOK' /\ Open' \subseteq Open /\ \A l \in Open' : book'[l].stop = book[l].stop
<1>1. CASE UNCHANGED book
  BY <1>1 DEF ClosePosition, BookTypeOK, Open
<1>2. CASE k \in Open /\ \E n \in 1 .. v : n <= book[k].lots /\ Reduced(k, n)
  <2>1. PICK n \in 1 .. v : n <= book[k].lots /\ Reduced(k, n)
    BY <1>2
  <2>2. n \in Nat \ {0}
    OBVIOUS
  <2> QED
    BY <1>2, <2>1, <2>2, ReducedBook DEF ClosePosition, BookTypeOK
<1>3. UNCHANGED book \/ (k \in Open /\ \E n \in 1 .. v : n <= book[k].lots /\ Reduced(k, n))
  <2>1. k \in Open => book[k].lots \in Nat
    BY DEF Open, BookTypeOK, Position
  <2> QED
    BY <2>1 DEF ClosePosition
<1> QED
  BY <1>1, <1>2, <1>3

\* modify_position opens and closes nothing and moves at most the one stop, to s.
LEMMA ModifiedBook ==
  ASSUME BookTypeOK, NEW k \in Tickets, NEW s \in Int, NEW answer \in Answers,
         ModifyPosition(k, s, answer)
  PROVE  /\ BookTypeOK' /\ Open' = Open
         /\ \A l \in Open \ {k} : book'[l] = book[l]
         /\ book' = book \/ (k \in Open /\ book'[k].stop = s)
         /\ answer = "done" => (k \in Open /\ book'[k].stop = s)
<1>1. CASE UNCHANGED book /\ answer # "done"
  BY <1>1 DEF ModifyPosition, BookTypeOK, Open
<1>2. CASE k \in Open /\ book' = [book EXCEPT ![k].stop = s]
  <2>1. book[k] \in Position
    BY <1>2 DEF BookTypeOK, Open
  <2> DEFINE q == [book[k] EXCEPT !.stop = s]
  <2>2. q \in Position /\ q.stop = s /\ q # None
    BY <2>1, NoneAssumption DEF Position
  <2>3. book' = [book EXCEPT ![k] = q]
    BY <1>2
  <2> HIDE DEF q
  <2>4. /\ book' \in [Tickets -> Position \union {None}]
        /\ book'[k] = q /\ \A l \in Tickets \ {k} : book'[l] = book[l]
    BY <2>2, <2>3, ExceptOne DEF BookTypeOK
  <2>5. Open' = Open
    BY <1>2, <2>2, <2>4 DEF Open
  <2> QED
    BY <1>2, <2>2, <2>4, <2>5 DEF ModifyPosition, BookTypeOK, Open
<1> QED
  BY <1>1, <1>2 DEF ModifyPosition

\* An order changes nothing, or opens one position under a ticket of its own.
LEMMA SentBook ==
  ASSUME BookTypeOK, NEW v \in Lots, NEW s \in Int, NEW answer \in Answers,
         SendOrder(v, s, answer)
  PROVE  /\ BookTypeOK'
         /\ \/ UNCHANGED <<book, issued>>
            \/ \E k \in Tickets \ issued :
                 /\ issued' = issued \union {k} /\ Open' = Open \union {k}
                 /\ \A l \in Tickets \ {k} : book'[l] = book[l]
<1>1. CASE UNCHANGED <<book, issued>>
  BY <1>1 DEF BookTypeOK
<1>2. ASSUME NEW k \in Tickets \ issued, NEW n \in 1 .. v, Added(k, n, s)
      PROVE  /\ BookTypeOK' /\ issued' = issued \union {k} /\ Open' = Open \union {k}
             /\ \A l \in Tickets \ {k} : book'[l] = book[l]
  <2> DEFINE q == [lots |-> n, stop |-> s]
  <2>1. q \in Position /\ q # None
    BY LotsAssumption, NoneAssumption DEF Position
  <2>2. book' = [book EXCEPT ![k] = q] /\ issued' = issued \union {k}
    BY <1>2 DEF Added
  <2> HIDE DEF q
  <2>3. /\ book' \in [Tickets -> Position \union {None}]
        /\ book'[k] = q /\ \A l \in Tickets \ {k} : book'[l] = book[l]
    BY <2>1, <2>2, ExceptOne DEF BookTypeOK
  <2> QED
    BY <2>1, <2>2, <2>3 DEF BookTypeOK, Open
<1>3. v \in 1 .. v /\ 1 .. v - 1 \subseteq 1 .. v
  BY LotsAssumption
<1> QED
  BY <1>1, <1>2, <1>3 DEF SendOrder

-----------------------------------------------------------------------------
Serial == ~Overlap /\ ~SilentList

Managing == {"tp1", "mark", "be", "trail"}

Labels == {"idle", "list", "pick", "account", "dedup", "send", "record"} \union Managing

\* The account: one position at most, next to those of late orders.
OpenIn(b) == {k \in Tickets : b[k] # None}

AccountOK(b, names, lates) ==
  /\ b \in [Tickets -> Position \union {None}] /\ names \subseteq Tickets
  /\ OpenIn(b) \subseteq names
  /\ \A k, l \in OpenIn(b) \ lates : k = l

\* A task has each listed position once: to be managed (in T), or being managed (c).
Distinct(label, T, c, names) ==
  /\ label \notin Managing \union {"pick"} => T = {}
  /\ \A p, q \in T : p.ticket = q.ticket => p = q
  /\ \A p \in T : p.ticket \in names
  /\ label \in Managing => /\ c \in Listed /\ c.ticket \in names
                           /\ \A p \in T : p.ticket # c.ticket

\* Nothing but positions of late orders is open when an order is sent.
SendsAlone(label, b, lates) == label = "send" => OpenIn(b) \subseteq lates

TaskOK(label, T, c, b, names, lates) ==
  Distinct(label, T, c, names) /\ SendsAlone(label, b, lates)

\* The part of the type invariant the proofs need.
Typed == /\ pc \in [Tasks -> Labels]
         /\ todo \in [Tasks -> SUBSET Listed]
         /\ cur \in [Tasks -> Listed \union {None}]
         /\ profit \in [Tasks -> Int]

OneRuns == \A t, u \in Tasks : pc[t] # "idle" /\ pc[u] # "idle" => t = u

\* What the bridge may still execute.
Waiting == \A q \in late :
             /\ q.call = "send" => q.value \in Lots
             /\ q.call = "close" => q.ticket \in Tickets /\ q.value \in Nat \ {0}
             /\ q.call = "modify" => q.ticket \in Tickets /\ q.value \in Int

\* What holds of tasks that overlap, too.
Known == /\ BookTypeOK /\ Typed /\ Waiting
         /\ \A t \in Tasks : pc[t] \in Managing => cur[t] \in Listed

IInv == /\ AccountOK(book, issued, tardy) /\ Typed /\ OneRuns /\ Waiting
        /\ \A t \in Tasks : TaskOK(pc[t], todo[t], cur[t], book, issued, tardy)

LEMMA InitInductive == Init => IInv
  BY DEF Init, IInv, AccountOK, OpenIn, Typed, OneRuns, Waiting, TaskOK, Distinct,
         SendsAlone, Labels, Managing

LEMMA InductiveKnown == IInv => Known
  BY DEF IInv, AccountOK, BookTypeOK, TaskOK, Distinct, Known

LEMMA CloseLotsPositive ==
  ASSUME NEW v \in Nat \ {0}
  PROVE  CloseLots(v) \in Nat \ {0}
  BY SMTT(30) DEF CloseLots, HalfEven

\* A modify of a task, answered or given up, moves at most the one stop, to s.
LEMMA ModifyCall ==
  ASSUME BookTypeOK, Waiting, NEW k \in Tickets, NEW s \in Int, NEW answer \in Answers,
         Modifies(k, s, answer)
  PROVE  /\ BookTypeOK' /\ Waiting' /\ Open' = Open /\ UNCHANGED issued
         /\ \A l \in Open \ {k} : book'[l] = book[l]
         /\ book' = book \/ (k \in Open /\ book'[k].stop = s)
<1>1. CASE ModifyPosition(k, s, answer) /\ UNCHANGED <<late, gaveUp>>
  BY <1>1, ModifiedBook DEF ModifyPosition, Waiting, Answers
<1>2. CASE GivesUp("modify", k, s, answer)
  BY <1>2 DEF GivesUp, Waiting, BookTypeOK, Open, broker
<1> QED
  BY <1>1, <1>2 DEF Modifies

\* What a task knows survives whatever opens positions under new tickets and closes some.
LEMMA TaskKept ==
  ASSUME NEW label, NEW T, NEW c, NEW b, NEW names, NEW lates, NEW b2, NEW names2, NEW lates2,
         TaskOK(label, T, c, b, names, lates),
         names \subseteq names2, lates \subseteq lates2,
         OpenIn(b2) \subseteq OpenIn(b) \union lates2
  PROVE  TaskOK(label, T, c, b2, names2, lates2)
<1>1. Distinct(label, T, c, names2)
  BY DEF TaskOK, Distinct
<1>2. SendsAlone(label, b2, lates2)
  BY DEF TaskOK, SendsAlone
<1> QED
  BY <1>1, <1>2 DEF TaskOK

\* Tasks do not overlap, so a step of one has to keep only what it knows itself.
LEMMA Moves ==
  ASSUME IInv, NEW t \in Tasks, pc[t] # "idle" \/ \A u \in Tasks : pc[u] = "idle",
         NEW label \in Labels, pc' = [pc EXCEPT ![t] = label],
         NEW T \in SUBSET Listed, todo' = [todo EXCEPT ![t] = T],
         NEW c \in Listed \union {None}, cur' = [cur EXCEPT ![t] = c],
         profit' \in [Tasks -> Int],
         AccountOK(book', issued', tardy'), Waiting',
         TaskOK(label, T, c, book', issued', tardy')
  PROVE  IInv'
<1>1. \A u \in Tasks \ {t} : pc[u] = "idle"
  BY DEF IInv, OneRuns
<1>2. /\ pc'[t] = label /\ todo'[t] = T /\ cur'[t] = c
      /\ \A u \in Tasks \ {t} : pc'[u] = "idle" /\ todo'[u] = todo[u]
  BY <1>1 DEF IInv, Typed
<1>3. Typed'
  BY DEF IInv, Typed
<1>4. OneRuns'
  BY <1>2 DEF OneRuns
<1>5. ASSUME NEW u \in Tasks \ {t}
      PROVE  TaskOK(pc'[u], todo'[u], cur'[u], book', issued', tardy')
  <2>1. pc'[u] = "idle" /\ todo'[u] = {}
    BY <1>1, <1>2 DEF IInv, TaskOK, Distinct, Managing
  <2> QED
    BY <2>1 DEF TaskOK, Distinct, SendsAlone, Managing
<1> QED
  BY <1>2, <1>3, <1>4, <1>5 DEF IInv

\* The end of a task, and every other move to a label with nothing listed.
LEMMA Rests ==
  ASSUME IInv, NEW t \in Tasks, pc[t] # "idle" \/ \A u \in Tasks : pc[u] = "idle",
         NEW label \in {"idle", "list", "account", "dedup", "record"},
         pc' = [pc EXCEPT ![t] = label],
         todo' = [todo EXCEPT ![t] = {}],
         NEW c \in Listed \union {None}, cur' = [cur EXCEPT ![t] = c],
         profit' \in [Tasks -> Int],
         AccountOK(book', issued', tardy'), Waiting'
  PROVE  IInv'
<1>1. TaskOK(label, {}, c, book', issued', tardy')
  BY DEF TaskOK, Distinct, SendsAlone, Managing
<1>2. label \in Labels /\ {} \in SUBSET Listed
  BY DEF Labels
<1> QED
  BY <1>1, <1>2, Moves

\* Fewer positions are no more than one.
LEMMA FewerOpen ==
  ASSUME NEW b, NEW names, NEW lates, AccountOK(b, names, lates),
         NEW b2 \in [Tickets -> Position \union {None}], OpenIn(b2) \subseteq OpenIn(b)
  PROVE  AccountOK(b2, names, lates)
  BY DEF AccountOK

\* A step that opens nothing, of nobody or of a task that ends there.
LEMMA Reduces ==
  ASSUME IInv, UNCHANGED <<issued, tardy>>, Waiting', BookTypeOK', Open' \subseteq Open
  PROVE  /\ AccountOK(book', issued', tardy')
         /\ \A t \in Tasks : TaskOK(pc[t], todo[t], cur[t], book', issued', tardy')
<1>1. Open = OpenIn(book) /\ Open' = OpenIn(book')
  BY DEF Open, OpenIn
<1>2. AccountOK(book', issued', tardy')
  BY <1>1, FewerOpen DEF IInv, BookTypeOK
<1>3. ASSUME NEW t \in Tasks
      PROVE  TaskOK(pc[t], todo[t], cur[t], book', issued', tardy')
  BY <1>1, TaskKept DEF IInv
<1> QED
  BY <1>2, <1>3

LEMMA StepInductive ==
  ASSUME Serial, IInv, [Next]_vars
  PROVE  IInv'
<1> USE DEF Serial, Goto, broker, scan, closing, entries, waiting
<1>a. /\ AccountOK(book, issued, tardy) /\ Typed /\ Waiting
      /\ \A t \in Tasks : TaskOK(pc[t], todo[t], cur[t], book, issued, tardy)
  BY DEF IInv
<1>b. BookTypeOK /\ Open = OpenIn(book) /\ Open' = OpenIn(book')
  BY <1>a DEF AccountOK, BookTypeOK, Open, OpenIn
<1>c. \A t \in Tasks : /\ pc[t] \in Labels /\ todo[t] \in SUBSET Listed
                       /\ cur[t] \in Listed \union {None} /\ profit[t] \in Int
                       /\ cur = [cur EXCEPT ![t] = cur[t]]
                       /\ todo = [todo EXCEPT ![t] = todo[t]]
  BY <1>a DEF Typed
<1>d. ASSUME UNCHANGED <<book, issued, late, tardy>>
      PROVE  AccountOK(book', issued', tardy') /\ Waiting'
  BY <1>a, <1>d DEF Waiting
<1>e. \A t \in Tasks : pc[t] \notin Managing \union {"pick"} => todo[t] = {}
  BY <1>a DEF TaskOK, Distinct
<1>1. ASSUME NEW t \in Tasks, Start(t)
      PROVE  IInv'
  <2>1. /\ \A u \in Tasks : pc[u] = "idle"
        /\ pc' = [pc EXCEPT ![t] = "list"]
        /\ UNCHANGED <<book, issued, late, tardy, todo, cur, profit>>
    BY <1>1 DEF Start
  <2>2. todo' = [todo EXCEPT ![t] = {}] /\ cur' = [cur EXCEPT ![t] = cur[t]]
    BY <1>c, <1>e, <2>1 DEF Managing
  <2>3. profit' \in [Tasks -> Int]
    BY <1>a, <2>1 DEF Typed
  <2> QED
    BY <1>c, <1>d, <2>1, <2>2, <2>3, Rests
<1>2. ASSUME NEW t \in Tasks, List(t)
      PROVE  IInv'
  <2>1. PICK listed \in {{Snapshot(k) : k \in Open}, {}} :
          IF listed = {}
          THEN Goto(t, "account") /\ UNCHANGED <<todo, active>>
          ELSE Goto(t, "pick") /\ todo' = [todo EXCEPT ![t] = listed]
    BY <1>2 DEF List, Listings
  <2>2. /\ pc[t] = "list" /\ UNCHANGED <<book, issued, late, tardy, cur, profit>>
        /\ cur' = [cur EXCEPT ![t] = cur[t]] /\ profit' \in [Tasks -> Int]
    BY <1>2, <1>a, <1>c DEF List, Typed
  <2>3. CASE listed = {}
    <3>1. pc' = [pc EXCEPT ![t] = "account"] /\ todo' = [todo EXCEPT ![t] = {}]
      BY <1>c, <1>e, <2>1, <2>2, <2>3 DEF Managing
    <3> QED
      BY <1>c, <1>d, <2>2, <3>1, Rests
  <2>4. CASE listed # {}
    <3>1. \A k \in Open : Snapshot(k) \in Listed /\ Snapshot(k).ticket = k
      BY <1>b DEF Snapshot, Listed, Open, BookTypeOK, Position
    <3>2. /\ listed \in SUBSET Listed
          /\ \A p, q \in listed : p.ticket = q.ticket => p = q
          /\ \A p \in listed : p.ticket \in Open
      BY <2>1, <3>1
    <3>3. Open \subseteq issued
      BY <1>a, <1>b DEF AccountOK
    <3>4. TaskOK("pick", listed, cur[t], book', issued', tardy')
      BY <1>b, <2>2, <3>2, <3>3 DEF TaskOK, Distinct, SendsAlone, Managing
    <3>5. pc' = [pc EXCEPT ![t] = "pick"] /\ todo' = [todo EXCEPT ![t] = listed]
      BY <2>1, <2>4
    <3>6. "pick" \in Labels
      BY DEF Labels
    <3> QED
      BY <1>c, <1>d, <2>2, <3>2, <3>4, <3>5, <3>6, Moves
  <2> QED
    BY <2>3, <2>4
<1>3. ASSUME NEW t \in Tasks, Pick(t)
      PROVE  IInv'
  <2>1. PICK p \in todo[t] :
          /\ todo' = [todo EXCEPT ![t] = todo[t] \ {p}]
          /\ \/ UNCHANGED <<pc, cur, profit>>
             \/ /\ cur' = [cur EXCEPT ![t] = p]
                /\ \E q \in Ticks : profit' = [profit EXCEPT ![t] = q]
                /\ pc' = [pc EXCEPT ![t] = "tp1"]
    BY <1>3 DEF Pick
  <2>2. pc[t] = "pick" /\ UNCHANGED <<book, issued, late, tardy>>
    BY <1>3 DEF Pick
  <2>3. profit' \in [Tasks -> Int]
    BY <1>a, <2>1, TickAssumption DEF Typed
  <2>4. TaskOK("pick", todo[t], cur[t], book', issued', tardy')
    BY <1>a, <2>2
  <2>5. p \in Listed /\ todo[t] \ {p} \in SUBSET Listed /\ "pick" \in Labels /\ "tp1" \in Labels
    BY <1>c, <2>1 DEF Labels, Managing
  <2>6. CASE UNCHANGED <<pc, cur, profit>>
    <3>1. TaskOK("pick", todo[t] \ {p}, cur[t], book', issued', tardy')
      BY <2>4 DEF TaskOK, Distinct, SendsAlone, Managing
    <3>2. pc' = [pc EXCEPT ![t] = "pick"] /\ cur' = [cur EXCEPT ![t] = cur[t]]
      BY <1>a, <1>c, <2>2, <2>6 DEF Typed
    <3> QED
      BY <1>c, <1>d, <2>1, <2>2, <2>3, <2>5, <3>1, <3>2, Moves
  <2>7. CASE cur' = [cur EXCEPT ![t] = p] /\ pc' = [pc EXCEPT ![t] = "tp1"]
    <3>1. Distinct("tp1", todo[t] \ {p}, p, issued')
      BY <2>4, <2>5 DEF TaskOK, Distinct, Managing
    <3>2. SendsAlone("tp1", book', tardy')
      BY DEF SendsAlone
    <3>3. TaskOK("tp1", todo[t] \ {p}, p, book', issued', tardy')
      BY <3>1, <3>2 DEF TaskOK
    <3> QED
      BY <1>d, <2>1, <2>2, <2>3, <2>5, <2>7, <3>3, Moves
  <2> QED
    BY <2>1, <2>6, <2>7
<1>4. ASSUME NEW t \in Tasks, TakeProfit(t)
      PROVE  IInv'
  <2>1. /\ pc[t] = "tp1" /\ UNCHANGED <<todo, cur, profit, tardy>>
        /\ \E label \in {"be", "mark"} : pc' = [pc EXCEPT ![t] = label]
    BY <1>4 DEF TakeProfit
  <2>2. PICK label \in {"be", "mark"} : pc' = [pc EXCEPT ![t] = label]
    BY <2>1
  <2>3. /\ cur[t] \in Listed /\ cur[t].ticket \in Tickets
        /\ CloseLots(cur[t].lots) \in Nat \ {0}
    BY <1>a, <2>1, CloseLotsPositive DEF TaskOK, Distinct, Managing, Listed
  <2> DEFINE Shrinks == BookTypeOK' /\ issued' = issued /\ Open' \subseteq Open
  <2>4. Shrinks /\ Waiting'
    <3>1. CASE UNCHANGED <<book, issued, late>>
      BY <1>a, <1>b, <3>1 DEF BookTypeOK, Waiting
    <3>2. ASSUME NEW answer \in Answers, UNCHANGED late,
                 ClosePosition(cur[t].ticket, CloseLots(cur[t].lots), answer)
          PROVE  Shrinks /\ Waiting'
      BY <1>a, <1>b, <2>3, <3>2, ClosedBook DEF ClosePosition, Waiting
    <3>3. ASSUME NEW answer \in Answers,
                 GivesUp("close", cur[t].ticket, CloseLots(cur[t].lots), answer)
          PROVE  Shrinks /\ Waiting'
      BY <1>a, <1>b, <2>3, <3>3 DEF GivesUp, Waiting, BookTypeOK
    <3> QED
      BY <1>4, <3>1, <3>2, <3>3 DEF TakeProfit, Closes
  <2>5. /\ AccountOK(book', issued', tardy')
        /\ TaskOK("tp1", todo[t], cur[t], book', issued', tardy')
    BY <2>1, <2>4, Reduces
  <2>6. TaskOK(label, todo[t], cur[t], book', issued', tardy')
    BY <2>5 DEF TaskOK, Distinct, SendsAlone, Managing
  <2>7. /\ todo' = [todo EXCEPT ![t] = todo[t]] /\ cur' = [cur EXCEPT ![t] = cur[t]]
        /\ profit' \in [Tasks -> Int] /\ label \in Labels
    BY <1>a, <1>c, <2>1 DEF Typed, Labels, Managing
  <2> QED
    BY <1>c, <2>1, <2>2, <2>4, <2>5, <2>6, <2>7, Moves
<1>5. ASSUME NEW t \in Tasks, Mark(t)
      PROVE  IInv'
  <2>1. /\ pc[t] = "mark" /\ pc' = [pc EXCEPT ![t] = "be"]
        /\ UNCHANGED <<book, issued, late, tardy, todo, cur, profit>>
    BY <1>5 DEF Mark
  <2>2. TaskOK("be", todo[t], cur[t], book', issued', tardy')
    <3>1. TaskOK("mark", todo[t], cur[t], book', issued', tardy')
      BY <1>a, <2>1
    <3> QED
      BY <3>1 DEF TaskOK, Distinct, SendsAlone, Managing
  <2>3. /\ todo' = [todo EXCEPT ![t] = todo[t]] /\ cur' = [cur EXCEPT ![t] = cur[t]]
        /\ profit' \in [Tasks -> Int] /\ "be" \in Labels
    BY <1>a, <1>c, <2>1 DEF Typed, Labels, Managing
  <2> QED
    BY <1>c, <1>d, <2>1, <2>2, <2>3, Moves
<1>6. ASSUME NEW t \in Tasks, Breakeven(t) \/ Trail(t)
      PROVE  IInv'
  <2>1. /\ pc[t] \in {"be", "trail"} /\ UNCHANGED <<todo, tardy>>
        /\ \E label \in {"trail", "pick"} : pc' = [pc EXCEPT ![t] = label]
    BY <1>6 DEF Breakeven, Trail
  <2>2. /\ cur[t] \in Listed /\ cur[t].ticket \in Tickets
        /\ profit[t] - TrailDistance \in Int /\ BeOffset \in Int
        /\ Distinct(pc[t], todo[t], cur[t], issued)
    BY <1>a, <1>c, <2>1, PointsAssumption DEF TaskOK, Distinct, Managing, Listed
  <2>3. BookTypeOK' /\ Open' = Open /\ issued' = issued /\ Waiting'
    <3>1. CASE UNCHANGED <<book, issued, late>>
      BY <1>a, <1>b, <3>1 DEF BookTypeOK, Open, Waiting
    <3>2. CASE \E s \in Int, answer \in Answers : Modifies(cur[t].ticket, s, answer)
      BY <1>a, <1>b, <2>2, <3>2, ModifyCall
    <3> QED
      BY <1>6, <2>2, <3>1, <3>2 DEF Breakeven, Trail
  <2>4. AccountOK(book', issued', tardy')
    BY <1>a, <1>b, <2>1, <2>3, FewerOpen DEF BookTypeOK
  <2>5. PICK label \in {"trail", "pick"}, c \in Listed \union {None} :
          /\ pc' = [pc EXCEPT ![t] = label] /\ cur' = [cur EXCEPT ![t] = c]
          /\ label = "trail" => c \in Listed /\ c.ticket = cur[t].ticket
    <3>1. CASE Breakeven(t) /\ cur' = cur
      BY <1>c, <2>2, <3>1 DEF Breakeven
    <3>2. ASSUME NEW stop \in Int, Breakeven(t), cur' = [cur EXCEPT ![t].stop = stop]
          PROVE  /\ [cur[t] EXCEPT !.stop = stop] \in Listed
                 /\ [cur[t] EXCEPT !.stop = stop].ticket = cur[t].ticket
                 /\ cur' = [cur EXCEPT ![t] = [cur[t] EXCEPT !.stop = stop]]
                 /\ pc' = [pc EXCEPT ![t] = "trail"]
      BY <2>2, <3>2 DEF Listed, Breakeven
    <3>3. CASE Breakeven(t) /\ cur' # cur
      <4>1. PICK stop \in {cur[t].stop, BeOffset} : cur' = [cur EXCEPT ![t].stop = stop]
        BY <3>3 DEF Breakeven
      <4>2. stop \in Int
        BY <2>2, <4>1 DEF Listed
      <4> QED
        BY <3>2, <3>3, <4>1, <4>2
    <3>4. CASE Trail(t)
      BY <3>4 DEF Trail
    <3> QED
      BY <1>6, <3>1, <3>3, <3>4
  <2>6. Distinct(label, todo[t], c, issued')
    BY <2>1, <2>2, <2>3, <2>5 DEF Distinct, Managing
  <2>7. TaskOK(label, todo[t], c, book', issued', tardy')
    BY <2>5, <2>6 DEF TaskOK, SendsAlone
  <2>8. /\ todo' = [todo EXCEPT ![t] = todo[t]] /\ profit' \in [Tasks -> Int]
        /\ label \in Labels
    <3>1. profit' \in [Tasks -> Int]
      BY <1>6, <1>a DEF Breakeven, Trail, Typed
    <3> QED
      BY <1>c, <2>1, <2>5, <3>1 DEF Labels, Managing
  <2> QED
    BY <1>c, <2>1, <2>3, <2>4, <2>5, <2>7, <2>8, Moves
<1>8. ASSUME NEW t \in Tasks, Purge(t)
      PROVE  IInv'
  <2>1. /\ pc[t] = "pick" /\ pc' = [pc EXCEPT ![t] = "account"]
        /\ todo[t] = {} /\ UNCHANGED <<book, issued, late, tardy, todo, cur, profit>>
    BY <1>8 DEF Purge
  <2>2. /\ todo' = [todo EXCEPT ![t] = {}] /\ cur' = [cur EXCEPT ![t] = cur[t]]
        /\ profit' \in [Tasks -> Int]
    BY <1>a, <1>c, <2>1 DEF Typed
  <2> QED
    BY <1>c, <1>d, <2>1, <2>2, Rests
<1>f. ASSUME NEW t \in Tasks, Done(t), pc[t] # "idle",
             AccountOK(book', issued', tardy'), Waiting'
      PROVE  IInv'
  <2>1. profit' \in [Tasks -> Int]
    BY <1>a, <1>f DEF Done, Typed
  <2> QED
    BY <1>f, <2>1, Rests DEF Done
<1>9. ASSUME NEW t \in Tasks, Declines(t) \/ Record(t) \/ Kill(t)
      PROVE  IInv'
  <2>1. Done(t) /\ pc[t] # "idle" /\ UNCHANGED <<book, issued, late, tardy>>
    BY <1>9 DEF Declines, Record, Kill
  <2> QED
    BY <1>d, <1>f, <2>1
<1>10. ASSUME NEW t \in Tasks, CapCheck(t)
       PROVE  IInv'
  <2>1. pc[t] = "account" /\ UNCHANGED <<book, issued, late, tardy>>
    BY <1>10 DEF CapCheck
  <2>2. CASE Done(t)
    BY <1>d, <1>f, <2>1, <2>2
  <2>3. CASE pc' = [pc EXCEPT ![t] = "dedup"] /\ UNCHANGED <<todo, cur, profit>>
    <3>1. /\ todo' = [todo EXCEPT ![t] = {}] /\ cur' = [cur EXCEPT ![t] = cur[t]]
          /\ profit' \in [Tasks -> Int]
      BY <1>a, <1>c, <1>e, <2>1, <2>3 DEF Typed, Managing
    <3> QED
      BY <1>c, <1>d, <2>1, <2>3, <3>1, Rests
  <2> QED
    BY <1>10, <2>2, <2>3 DEF CapCheck
<1>11. ASSUME NEW t \in Tasks, Dedup(t)
       PROVE  IInv'
  <2>1. pc[t] = "dedup" /\ UNCHANGED <<book, issued, late, tardy>>
    BY <1>11 DEF Dedup
  <2>2. CASE Done(t)
    BY <1>d, <1>f, <2>1, <2>2
  <2>3. CASE pc' = [pc EXCEPT ![t] = "send"] /\ UNCHANGED <<todo, cur, profit>> /\ Open = {}
    <3>1. /\ todo' = [todo EXCEPT ![t] = {}] /\ cur' = [cur EXCEPT ![t] = cur[t]]
          /\ profit' \in [Tasks -> Int] /\ "send" \in Labels
      BY <1>a, <1>c, <1>e, <2>1, <2>3 DEF Typed, Managing, Labels
    <3>2. TaskOK("send", {}, cur[t], book', issued', tardy')
      BY <1>b, <2>1, <2>3 DEF TaskOK, Distinct, SendsAlone, Managing
    <3> QED
      BY <1>c, <1>d, <2>1, <2>3, <3>1, <3>2, Moves
  <2>4. Listings = {{Snapshot(k) : k \in Open}}
    BY DEF Listings
  <2>5. Done(t) \/ (Goto(t, "send") /\ UNCHANGED scan /\ Open = {})
    BY <1>11, <2>4 DEF Dedup, Blocks
  <2> QED
    BY <2>2, <2>3, <2>5
<1>12. ASSUME NEW t \in Tasks, Send(t)
       PROVE  IInv'
  <2>1. pc[t] = "send" /\ Open \subseteq tardy /\ tardy' = tardy
    BY <1>12, <1>a, <1>b DEF Send, TaskOK, SendsAlone
  <2>2. AccountOK(book', issued', tardy') /\ Waiting'
    <3>1. PICK v \in Lots, answer \in Answers : Sends(v, answer)
      BY <1>12 DEF Send
    <3>2. CASE GivesUp("send", None, v, answer)
      BY <1>a, <2>1, <3>2 DEF GivesUp, Waiting
    <3>3. CASE SendOrder(v, -StopPoints, answer) /\ UNCHANGED late
      <4>1. -StopPoints \in Int
        BY PointsAssumption
      <4>2. /\ BookTypeOK'
            /\ \/ UNCHANGED <<book, issued>>
               \/ \E k \in Tickets \ issued :
                    issued' = issued \union {k} /\ Open' = Open \union {k}
        BY <1>b, <3>3, <4>1, SentBook
      <4>3. AccountOK(book', issued', tardy')
        BY <1>a, <1>b, <2>1, <4>2 DEF AccountOK, BookTypeOK
      <4> QED
        BY <1>a, <3>3, <4>3 DEF Waiting
    <3> QED
      BY <3>1, <3>2, <3>3 DEF Sends
  <2>3. CASE Done(t)
    BY <1>f, <2>1, <2>2, <2>3
  <2>4. CASE pc' = [pc EXCEPT ![t] = "record"] /\ UNCHANGED <<todo, cur, profit>>
    <3>1. /\ todo' = [todo EXCEPT ![t] = {}] /\ cur' = [cur EXCEPT ![t] = cur[t]]
          /\ profit' \in [Tasks -> Int]
      BY <1>a, <1>c, <1>e, <2>1, <2>4 DEF Typed, Managing
    <3> QED
      BY <1>c, <2>1, <2>2, <2>4, <3>1, Rests
  <2> QED
    BY <1>12, <2>3, <2>4 DEF Send
<1>g. ASSUME UNCHANGED <<pc, todo, cur, profit>>, AccountOK(book', issued', tardy'), Waiting',
             \A t \in Tasks : TaskOK(pc[t], todo[t], cur[t], book', issued', tardy')
      PROVE  IInv'
  BY <1>a, <1>g DEF IInv, Typed, OneRuns
<1>13. CASE PositionCloses
  <2>1. PICK k \in Tickets : BrokerCloses(k)
    BY <1>13 DEF PositionCloses
  <2>2. k \in Open /\ book[k].lots \in Nat \ {0} /\ book[k].lots <= book[k].lots
    BY <1>b, <2>1 DEF BrokerCloses, Open, BookTypeOK, Position
  <2>3. BookTypeOK' /\ Open' \subseteq Open
    BY <1>b, <2>1, <2>2, ReducedBook DEF BrokerCloses, BookTypeOK
  <2>4. UNCHANGED <<issued, late, tardy, pc, todo, cur, profit>> /\ Waiting'
    BY <1>a, <1>13, <2>1 DEF PositionCloses, BrokerCloses, Waiting
  <2> QED
    BY <1>g, <2>3, <2>4, Reduces
<1>14. CASE LateExecutes
  <2>1. PICK q \in late, answer \in Answers :
          /\ late' = late \ {q} /\ tardy' = tardy \union (issued' \ issued)
          /\ \/ q.call = "send" /\ SendOrder(q.value, -StopPoints, answer)
             \/ q.call = "modify" /\ ModifyPosition(q.ticket, q.value, answer)
             \/ q.call = "close" /\ ClosePosition(q.ticket, q.value, answer)
    BY <1>14 DEF LateExecutes
  <2>2. UNCHANGED <<pc, todo, cur, profit>> /\ Waiting'
    BY <1>a, <1>14, <2>1 DEF LateExecutes, Waiting
  <2>3. CASE q.call = "close" /\ ClosePosition(q.ticket, q.value, answer)
    <3>1. BookTypeOK' /\ Open' \subseteq Open
      BY <1>a, <1>b, <2>3, ClosedBook DEF Waiting
    <3>2. UNCHANGED <<issued, tardy>>
      BY <2>1, <2>3 DEF ClosePosition
    <3> QED
      BY <1>g, <2>2, <3>1, <3>2, Reduces
  <2>5. CASE q.call = "modify" /\ ModifyPosition(q.ticket, q.value, answer)
    <3>1. BookTypeOK' /\ Open' \subseteq Open
      BY <1>a, <1>b, <2>5, ModifiedBook DEF Waiting
    <3>2. UNCHANGED <<issued, tardy>>
      BY <2>1, <2>5 DEF ModifyPosition
    <3> QED
      BY <1>g, <2>2, <3>1, <3>2, Reduces
  <2>4. CASE q.call = "send" /\ SendOrder(q.value, -StopPoints, answer)
    <3>1. q.value \in Lots /\ -StopPoints \in Int
      <4>1. q.value \in Lots
        BY <1>a, <2>1, <2>4 DEF Waiting
      <4>2. -StopPoints \in Int
        BY PointsAssumption
      <4> QED
        BY <4>1, <4>2
    <3>2. /\ BookTypeOK'
          /\ \/ UNCHANGED <<book, issued>>
             \/ \E k \in Tickets \ issued :
                  /\ issued' = issued \union {k} /\ Open' = Open \union {k}
                  /\ \A l \in Tickets \ {k} : book'[l] = book[l]
      BY <1>b, <2>4, <3>1, SentBook
    <3>3. CASE UNCHANGED <<book, issued>>
      <4>1. tardy' = tardy
        BY <2>1, <3>3
      <4> QED
        BY <1>a, <1>g, <2>2, <3>3, <4>1
    <3>4. ASSUME NEW k \in Tickets \ issued,
                 issued' = issued \union {k}, Open' = Open \union {k},
                 \A l \in Tickets \ {k} : book'[l] = book[l]
          PROVE  IInv'
      <4>1. tardy' = tardy \union {k}
        BY <2>1, <3>4
      <4>2. AccountOK(book', issued', tardy')
        BY <1>a, <1>b, <3>2, <3>4, <4>1 DEF AccountOK, BookTypeOK
      <4>3. ASSUME NEW t \in Tasks
            PROVE  TaskOK(pc[t], todo[t], cur[t], book', issued', tardy')
        BY <1>a, <1>b, <3>4, <4>1, TaskKept
      <4> QED
        BY <1>g, <2>2, <4>2, <4>3
    <3> QED
      BY <3>2, <3>3, <3>4
  <2> QED
    BY <2>1, <2>3, <2>4, <2>5
<1>15. CASE NewDay \/ UNCHANGED vars
  <2>1. UNCHANGED <<book, issued, late, tardy, pc, todo, cur, profit>>
    BY <1>15 DEF NewDay, vars
  <2> QED
    BY <1>a, <1>d, <1>g, <2>1
<1>16. CASE OperatorModifies
  <2>1. PICK k \in Tickets, s \in OperatorStops : ModifyPosition(k, s, "done")
    BY <1>16 DEF OperatorModifies
  <2>2. s \in Int /\ "done" \in Answers
    BY TickAssumption DEF Answers
  <2>3. BookTypeOK' /\ Open' \subseteq Open
    BY <1>b, <2>1, <2>2, ModifiedBook
  <2>4. UNCHANGED <<issued, late, tardy, pc, todo, cur, profit>> /\ Waiting'
    BY <1>a, <1>16, <2>1 DEF OperatorModifies, ModifyPosition, Waiting
  <2> QED
    BY <1>g, <2>3, <2>4, Reduces
<1> QED
  BY <1>1, <1>2, <1>3, <1>4, <1>5, <1>6, <1>8, <1>9, <1>10, <1>11, <1>12, <1>13,
     <1>14, <1>15, <1>16 DEF Next, Step

LEMMA Inductive == Serial => (Spec => []IInv)
<1> SUFFICES ASSUME Serial
             PROVE  Spec => []IInv
  OBVIOUS
<1>1. IInv /\ [Next]_vars => IInv'
  BY StepInductive
<1> QED
  BY <1>1, InitInductive, PTL DEF Spec

(***************************************************************************)
(* Tasks that do not overlap, over a bridge whose listing does not fail    *)
(* silently, never hold two positions under the magic number, those of     *)
(* late orders aside: for any number of tickets, any volumes, lost         *)
(* replies, partial fills and kills.                                       *)
(***************************************************************************)
THEOREM SerialOnePosition == Serial => (Spec => []OnePosition)
<1>1. IInv => OnePosition
  <2> SUFFICES ASSUME IInv
               PROVE  Cardinality(Open \ tardy) <= 1
    BY DEF OnePosition
  <2>1. CASE Open \ tardy = {}
    BY <2>1, FS_EmptySet
  <2>2. ASSUME NEW k, Open \ tardy = {k}
        PROVE  Cardinality(Open \ tardy) <= 1
    <3>1. Cardinality({k}) = 1
      BY FS_Singleton
    <3> QED
      BY <2>2, <3>1
  <2>3. Open = OpenIn(book)
    BY DEF Open, OpenIn
  <2> QED
    BY <2>1, <2>2, <2>3 DEF IInv, AccountOK
<1> QED
  BY <1>1, Inductive, PTL

-----------------------------------------------------------------------------
(* What every step does to the account, in terms of tickets. *)

\* A ticket that is closed stays closed; a new position has a new ticket.
Ages == /\ issued \subseteq issued'
        /\ \A k \in issued : k \in Open' => k \in Open
        /\ Open' \subseteq Open \union issued'

LEMMA StepAges ==
  ASSUME Known, [Next]_vars
  PROVE  Ages
<1> USE DEF broker
<1>1. BookTypeOK
  BY DEF Known
<1>2. ASSUME UNCHANGED broker
      PROVE  Ages
  BY <1>2 DEF Ages, Open
<1>3. ASSUME NEW k \in Tickets, NEW v \in Nat \ {0}, NEW answer \in Answers,
             ClosePosition(k, v, answer)
      PROVE  Ages
  BY <1>1, <1>3, ClosedBook DEF ClosePosition, Ages
<1>4. ASSUME NEW v \in Lots, NEW answer \in Answers, SendOrder(v, -StopPoints, answer)
      PROVE  Ages
  <2>1. -StopPoints \in Int
    BY PointsAssumption
  <2> QED
    BY <1>1, <1>2, <1>4, <2>1, SentBook DEF Ages
<1>5. ASSUME NEW k \in Tickets, NEW s \in Int, NEW answer \in Answers,
             ModifyPosition(k, s, answer)
      PROVE  Ages
  BY <1>1, <1>5, ModifiedBook DEF ModifyPosition, Ages
<1>6. ASSUME NEW t \in Tasks, pc[t] \in Managing
      PROVE  /\ cur[t].ticket \in Tickets /\ CloseLots(cur[t].lots) \in Nat \ {0}
             /\ BeOffset \in Int /\ profit[t] - TrailDistance \in Int
  BY <1>6, PointsAssumption, CloseLotsPositive DEF Known, Typed, Listed
<1>7. ASSUME NEW t \in Tasks, TakeProfit(t)
      PROVE  Ages
  BY <1>2, <1>3, <1>6, <1>7 DEF TakeProfit, Closes, GivesUp, Managing
<1>8. ASSUME NEW t \in Tasks, Breakeven(t) \/ Trail(t)
      PROVE  Ages
  BY <1>2, <1>5, <1>6, <1>8 DEF Breakeven, Trail, Modifies, GivesUp, Managing
<1>9. ASSUME NEW t \in Tasks, Send(t)
      PROVE  Ages
  BY <1>2, <1>4, <1>9 DEF Send, Sends, GivesUp
<1>10. CASE LateExecutes
  <2>1. PICK q \in late, answer \in Answers :
          \/ q.call = "send" /\ SendOrder(q.value, -StopPoints, answer)
          \/ q.call = "modify" /\ ModifyPosition(q.ticket, q.value, answer)
          \/ q.call = "close" /\ ClosePosition(q.ticket, q.value, answer)
    BY <1>10 DEF LateExecutes
  <2> QED
    BY <1>3, <1>4, <1>5, <2>1 DEF Known, Waiting
<1>11. CASE PositionCloses
  BY <1>11 DEF PositionCloses, BrokerCloses, Ages, Open
<1>12. CASE OperatorModifies
  BY <1>5, <1>12, TickAssumption DEF OperatorModifies, Answers
<1> QED
  <2>1. CASE \E t \in Tasks : Step(t)
    BY <1>2, <1>7, <1>8, <1>9, <2>1 DEF Step, Start, List, Pick, Mark, Purge, Declines, CapCheck,
       Dedup, Record, Kill
  <2> QED
    BY <1>2, <1>10, <1>11, <1>12, <2>1 DEF Next, NewDay, vars
-----------------------------------------------------------------------------
(* The partial-close tracker: what is in the file, in memory and listed. *)

\* A running task knows the file's open tickets, and has listed those it knows.
MarkOK(t) ==
  /\ marks[t] \subseteq issued
  /\ pc[t] # "idle" => trackerFile \intersect Open \subseteq marks[t]
  /\ pc[t] \in Managing \union {"pick"} =>
       /\ marks[t] \intersect Open \subseteq active[t]
       /\ \A p \in todo[t] : p.ticket \in active[t]
  /\ pc[t] \in Managing => cur[t].ticket \in active[t]

MarksOK == /\ marks \in [Tasks -> SUBSET Tickets] /\ active \in [Tasks -> SUBSET Tickets]
           /\ trackerFile \subseteq issued
           /\ \A t \in Tasks : MarkOK(t)

LEMMA InitMarks == Init => MarksOK
  BY DEF Init, MarksOK, MarkOK, Managing

\* As for the rest of the state, a step of one task has to keep only its own part.
LEMMA MarksMove ==
  ASSUME Serial, IInv, [Next]_vars, MarksOK, NEW t \in Tasks,
         pc[t] # "idle" \/ \A u \in Tasks : pc[u] = "idle",
         \A u \in Tasks \ {t} : pc'[u] = pc[u] /\ marks'[u] = marks[u],
         marks' \in [Tasks -> SUBSET Tickets], active' \in [Tasks -> SUBSET Tickets],
         trackerFile' \subseteq issued', MarkOK(t)'
  PROVE  MarksOK'
<1>1. Ages
  BY StepAges, InductiveKnown
<1>2. \A u \in Tasks \ {t} : pc'[u] = "idle" /\ marks'[u] \subseteq issued'
  BY <1>1 DEF IInv, OneRuns, MarksOK, MarkOK, Ages
<1>3. \A u \in Tasks \ {t} : MarkOK(u)'
  BY <1>2 DEF MarkOK, Managing
<1> QED
  BY <1>3 DEF MarksOK

LEMMA StepMarks ==
  ASSUME Serial, IInv, [Next]_vars, MarksOK
  PROVE  MarksOK'
<1> USE DEF Goto, broker, scan, closing, entries, waiting
<1>1. /\ Ages /\ Typed /\ \A t \in Tasks : MarkOK(t)
      /\ marks \in [Tasks -> SUBSET Tickets] /\ active \in [Tasks -> SUBSET Tickets]
      /\ trackerFile \subseteq issued /\ issued \subseteq issued'
  BY StepAges, InductiveKnown DEF IInv, MarksOK, Ages
<1>2. ASSUME UNCHANGED <<trackerFile, marks, active, pc, todo, cur>>
      PROVE  MarksOK'
  BY <1>1, <1>2 DEF MarksOK, MarkOK, Ages
<1>3. ASSUME NEW t \in Tasks, Start(t)
      PROVE  MarksOK'
  <2>1. /\ \A u \in Tasks : pc[u] = "idle"
        /\ pc' = [pc EXCEPT ![t] = "list"] /\ marks' = [marks EXCEPT ![t] = trackerFile]
        /\ UNCHANGED <<book, issued, trackerFile, active>>
    BY <1>3 DEF Start, Serial
  <2>2. trackerFile \in SUBSET Tickets
    BY <1>1 DEF IInv, AccountOK
  <2>3. pc'[t] = "list" /\ marks'[t] = trackerFile
    BY <1>1, <2>1 DEF Typed
  <2>4. MarkOK(t)'
    BY <1>1, <2>1, <2>3 DEF MarkOK, Managing
  <2> QED
    BY <1>1, <2>1, <2>2, <2>4, MarksMove DEF Typed
<1>4. ASSUME NEW t \in Tasks, List(t)
      PROVE  MarksOK'
  <2>1. PICK listed \in {{Snapshot(k) : k \in Open}, {}} :
          IF listed = {}
          THEN Goto(t, "account") /\ UNCHANGED <<todo, active>>
          ELSE /\ Goto(t, "pick") /\ todo' = [todo EXCEPT ![t] = listed]
               /\ active' = [active EXCEPT ![t] = {p.ticket : p \in listed}]
    BY <1>4 DEF List, Listings, Serial
  <2>2. pc[t] = "list" /\ UNCHANGED <<book, issued, trackerFile, marks>>
    BY <1>4 DEF List
  <2>3. trackerFile \intersect Open' \subseteq marks'[t] /\ marks'[t] \subseteq issued'
    BY <1>1, <2>2 DEF MarkOK, Open
  <2>4. CASE listed = {}
    <3>1. pc'[t] = "account"
      BY <1>1, <2>1, <2>4 DEF Typed
    <3>2. MarkOK(t)'
      BY <2>2, <2>3, <3>1 DEF MarkOK, Managing
    <3> QED
      BY <1>1, <2>1, <2>2, <2>4, <3>2, MarksMove DEF Typed
  <2>5. CASE listed # {}
    <3>1. listed = {Snapshot(k) : k \in Open}
      BY <2>1, <2>5
    <3>2. {p.ticket : p \in listed} = Open
      <4>1. \A k \in Open : Snapshot(k).ticket = k
        BY DEF Snapshot
      <4> QED
        BY <3>1, <4>1
    <3>3. pc'[t] = "pick" /\ todo'[t] = listed /\ active' = [active EXCEPT ![t] = Open]
      BY <1>1, <2>1, <2>5, <3>2 DEF Typed
    <3>4. active'[t] = Open /\ Open' = Open /\ Open \in SUBSET Tickets
      BY <1>1, <2>2, <3>3 DEF Open
    <3>5. \A p \in listed : p.ticket \in Open
      BY <3>2
    <3>6. MarkOK(t)'
      BY <2>2, <2>3, <3>3, <3>4, <3>5 DEF MarkOK, Managing
    <3> QED
      BY <1>1, <2>1, <2>2, <2>5, <3>3, <3>4, <3>6, MarksMove DEF Typed
  <2> QED
    BY <2>4, <2>5
<1>5. ASSUME NEW t \in Tasks, Pick(t)
      PROVE  MarksOK'
  <2>1. /\ pc[t] = "pick" /\ UNCHANGED <<book, issued, trackerFile, marks, active>>
        /\ \A u \in Tasks \ {t} : pc'[u] = pc[u]
    BY <1>1, <1>5 DEF Pick, Typed
  <2>2. \E p \in todo[t] : /\ todo'[t] = todo[t] \ {p}
                           /\ (pc'[t] = "pick") \/ (pc'[t] = "tp1" /\ cur'[t] = p)
    BY <1>1, <1>5 DEF Pick, Typed
  <2>3. MarkOK(t)'
    BY <1>1, <2>1, <2>2 DEF MarkOK, Managing, Open
  <2> QED
    BY <1>1, <2>1, <2>3, MarksMove
<1>6. ASSUME NEW t \in Tasks, TakeProfit(t) \/ Breakeven(t) \/ Trail(t)
      PROVE  MarksOK'
  <2>1. /\ pc[t] \in Managing /\ UNCHANGED <<trackerFile, marks, active, todo>>
        /\ \A u \in Tasks \ {t} : pc'[u] = pc[u]
    BY <1>1, <1>6 DEF TakeProfit, Breakeven, Trail, Typed, Managing
  <2>2. pc'[t] = "pick" \/ (pc'[t] \in Managing /\ cur'[t].ticket = cur[t].ticket)
    <3>1. CASE TakeProfit(t)
      BY <1>1, <3>1 DEF TakeProfit, Typed, Managing
    <3>2. CASE Breakeven(t)
      <4>1. pc[t] = "be" /\ pc'[t] = "trail"
        BY <1>1, <3>2 DEF Breakeven, Typed
      <4>2. cur[t] \in Listed
        BY <2>1 DEF IInv, TaskOK, Distinct
      <4>3. CASE cur' = cur
        BY <4>1, <4>3 DEF Managing
      <4>4. ASSUME NEW s, cur' = [cur EXCEPT ![t].stop = s]
            PROVE  cur'[t].ticket = cur[t].ticket
        BY <1>1, <4>2, <4>4 DEF Typed, Listed
      <4> QED
        BY <3>2, <4>1, <4>3, <4>4 DEF Breakeven, Managing
    <3>3. CASE Trail(t)
      BY <1>1, <3>3 DEF Trail, Typed
    <3> QED
      BY <1>6, <3>1, <3>2, <3>3
  <2>3. MarkOK(t)'
    BY <1>1, <2>1, <2>2 DEF MarkOK, Managing, Ages
  <2> QED
    BY <1>1, <2>1, <2>3, MarksMove DEF Managing
<1>7. ASSUME NEW t \in Tasks, Mark(t)
      PROVE  MarksOK'
  <2> DEFINE m == marks[t] \union {cur[t].ticket}
  <2>1. /\ pc[t] = "mark" /\ UNCHANGED <<book, issued, active, todo, cur>>
        /\ pc' = [pc EXCEPT ![t] = "be"] /\ marks' = [marks EXCEPT ![t] = m]
    BY <1>7 DEF Mark
  <2>2. m \in SUBSET Tickets /\ m \subseteq issued
    <3>1. cur[t].ticket \in issued /\ issued \subseteq Tickets
      BY <2>1 DEF IInv, AccountOK, TaskOK, Distinct, Managing
    <3> QED
      BY <1>1, <3>1 DEF MarkOK
  <2>3. marks'[t] = m /\ pc'[t] = "be"
    BY <1>1, <2>1 DEF Typed
  <2>4. trackerFile' = m \/ trackerFile' = trackerFile
    BY <1>7, <2>3 DEF Mark, Save
  <2> HIDE DEF m
  <2>5. trackerFile' \intersect Open' \subseteq m
    BY <1>1, <2>1, <2>4 DEF MarkOK, Open, m
  <2>6. m \intersect Open \subseteq active[t] /\ Open' = Open
    BY <1>1, <2>1 DEF MarkOK, Managing, Open, m
  <2>7. MarkOK(t)'
    BY <1>1, <2>1, <2>2, <2>3, <2>5, <2>6 DEF MarkOK, Managing
  <2> QED
    BY <1>1, <2>1, <2>2, <2>4, <2>7, MarksMove DEF Typed
<1>8. ASSUME NEW t \in Tasks, Purge(t)
      PROVE  MarksOK'
  <2> DEFINE m == marks[t] \intersect active[t]
  <2>1. /\ pc[t] = "pick" /\ UNCHANGED <<book, issued, todo, cur>>
        /\ pc' = [pc EXCEPT ![t] = "account"] /\ marks' = [marks EXCEPT ![t] = m]
        /\ active' = [active EXCEPT ![t] = {}]
    BY <1>8 DEF Purge, Kept
  <2>2. m \in SUBSET Tickets /\ m \subseteq issued
    BY <1>1 DEF MarkOK
  <2>3. marks'[t] = m /\ pc'[t] = "account"
    BY <1>1, <2>1 DEF Typed
  <2>4. trackerFile' = m \/ trackerFile' = trackerFile
    BY <1>8, <2>3 DEF Purge, Save
  <2>5. trackerFile \intersect Open \subseteq m /\ Open' = Open
    BY <1>1, <2>1 DEF MarkOK, Open
  <2> HIDE DEF m
  <2>6. MarkOK(t)'
    BY <1>1, <2>1, <2>2, <2>3, <2>4, <2>5 DEF MarkOK, Managing
  <2> QED
    BY <1>1, <2>1, <2>2, <2>4, <2>6, MarksMove DEF Typed
<1>9. ASSUME NEW t \in Tasks, Done(t), pc[t] # "idle", UNCHANGED trackerFile
      PROVE  MarksOK'
  <2>1. pc'[t] = "idle" /\ marks'[t] = {} /\ \A u \in Tasks \ {t} : pc'[u] = pc[u]
    BY <1>1, <1>9 DEF Done, Typed
  <2>2. /\ marks' \in [Tasks -> SUBSET Tickets] /\ active' \in [Tasks -> SUBSET Tickets]
        /\ \A u \in Tasks \ {t} : marks'[u] = marks[u]
    BY <1>1, <1>9 DEF Done
  <2>3. MarkOK(t)'
    BY <2>1 DEF MarkOK, Managing
  <2> QED
    BY <1>1, <1>9, <2>1, <2>2, <2>3, MarksMove
<1>10. ASSUME NEW t \in Tasks, pc[t] \in {"account", "dedup", "send"},
              \E label \in {"dedup", "send", "record"} : pc' = [pc EXCEPT ![t] = label],
              UNCHANGED <<trackerFile, marks, active>>
       PROVE  MarksOK'
  <2>1. /\ pc'[t] \in {"dedup", "send", "record"}
        /\ \A u \in Tasks \ {t} : pc'[u] = pc[u]
    BY <1>1, <1>10 DEF Typed
  <2>2. MarkOK(t)'
    BY <1>1, <1>10, <2>1 DEF MarkOK, Managing, Ages
  <2> QED
    BY <1>1, <1>10, <2>1, <2>2, MarksMove
<1>11. ASSUME NEW t \in Tasks,
              Declines(t) \/ CapCheck(t) \/ Dedup(t) \/ Send(t) \/ Record(t) \/ Kill(t)
       PROVE  MarksOK'
  BY <1>9, <1>10, <1>11 DEF Declines, CapCheck, Dedup, Send, Record, Kill
<1> QED
  <2>1. CASE \E t \in Tasks : Step(t)
    BY <1>3, <1>4, <1>5, <1>6, <1>7, <1>8, <1>11, <2>1 DEF Step
  <2> QED
    BY <1>2, <2>1 DEF Next, PositionCloses, OperatorModifies, LateExecutes, NewDay, vars, Serial

(***************************************************************************)
(* Under the same assumptions the mark of an open position is never lost   *)
(* from the tracker file: what a purge or a mark writes includes it,       *)
(* whatever kills, failed writes and late orders came before.              *)
(***************************************************************************)
THEOREM SerialMarkOutlives == Serial => (Spec => MarkOutlivesPosition)
<1> SUFFICES ASSUME Serial
             PROVE  Spec => MarkOutlivesPosition
  OBVIOUS
<1> DEFINE Keeps == \A k \in trackerFile \intersect Open : k \in trackerFile'
<1>1. ASSUME IInv, MarksOK, [Next]_vars
      PROVE  Keeps
  <2>1. ASSUME NEW t \in Tasks, Mark(t) \/ Purge(t)
        PROVE  Keeps
    <3>1. /\ pc[t] \in {"mark", "pick"} /\ marks[t] \subseteq Tickets
          /\ trackerFile \intersect Open \subseteq marks[t]
          /\ marks[t] \intersect Open \subseteq active[t]
      BY <1>1, <2>1 DEF Mark, Purge, MarksOK, MarkOK, Managing
    <3>2. trackerFile \intersect Open \subseteq marks'[t]
      BY <1>1, <2>1, <3>1 DEF Mark, Purge, Kept, MarksOK
    <3> QED
      BY <2>1, <3>2 DEF Mark, Purge, Save
  <2>2. (\E t \in Tasks : Mark(t) \/ Purge(t)) \/ UNCHANGED trackerFile
    BY <1>1 DEF Next, Step, Start, List, Pick, TakeProfit, Breakeven, Trail, Declines, CapCheck,
       Dedup, Send, Record, Kill, PositionCloses, OperatorModifies, LateExecutes, NewDay, vars
  <2> QED
    BY <2>1, <2>2
<1>2. IInv /\ MarksOK /\ [Next]_vars => [Keeps]_vars
  BY <1>1
<1>3. MarksOK /\ IInv /\ [Next]_vars => MarksOK'
  BY StepMarks
<1> QED
  BY <1>2, <1>3, InitMarks, Inductive, PTL DEF Spec, MarkOutlivesPosition

(***************************************************************************)
(* TP1 takes a position out of the book only when its listed volume is out *)
(* of date: what is closed is less than what was listed.                   *)
(***************************************************************************)
THEOREM SerialTp1Leaves == Serial => (Spec => Tp1LeavesPosition)
<1> SUFFICES ASSUME Serial
             PROVE  Spec => Tp1LeavesPosition
  OBVIOUS
<1> DEFINE Leaves(t) == (pc[t] = "tp1" /\ pc'[t] # "tp1") =>
                          \A k \in Open \ Open' : k = cur[t].ticket /\ book[k].lots < cur[t].lots
<1>1. ASSUME IInv, [Next]_vars, NEW t \in Tasks
      PROVE  Leaves(t)
  <2> SUFFICES ASSUME pc[t] = "tp1", pc'[t] # "tp1", NEW k \in Open \ Open'
               PROVE  k = cur[t].ticket /\ book[k].lots < cur[t].lots
    OBVIOUS
  <2>1. /\ cur[t] \in Listed /\ cur[t].ticket \in Tickets /\ cur[t].lots \in Nat \ {0}
        /\ CloseLots(cur[t].lots) \in Nat \ {0}
        /\ book \in [Tickets -> Position \union {None}]
        /\ k \in Tickets /\ book[k] \in Position /\ book[k].lots \in Nat \ {0}
    BY <1>1, CloseLotsPositive DEF IInv, AccountOK, TaskOK, Distinct, Managing, Listed, Open,
       Position
  <2>2. PICK u \in Tasks : Step(u)
    BY <1>1 DEF Next, PositionCloses, OperatorModifies, LateExecutes, NewDay, vars
  <2>3. u = t
    BY <1>1, <2>2 DEF IInv, Typed, Labels, Managing, Step, Goto, Done, Start, List, Pick,
       TakeProfit, Mark, Breakeven, Trail, Purge, Declines, CapCheck, Dedup, Send, Record, Kill
  <2>4. book' # book
    BY DEF Open
  <2>5. TakeProfit(t)
    BY <2>2, <2>3, <2>4 DEF Step, broker, Start, List, Pick, Mark, Breakeven, Trail, Purge,
       Declines, CapCheck, Dedup, Send, Record, Kill
  <2> DEFINE v == CloseLots(cur[t].lots)
  <2>6. /\ v < cur[t].lots
        /\ \E answer \in Answers : ClosePosition(cur[t].ticket, v, answer)
    BY <2>4, <2>5 DEF TakeProfit, Tp1Due, Closes, GivesUp, broker
  <2>7. v \in Nat \ {0}
    BY <2>1
  <2> HIDE DEF v
  <2>8. PICK n \in 1 .. v : Reduced(cur[t].ticket, n)
    BY <2>4, <2>6, <2>7 DEF ClosePosition
  <2>9. k = cur[t].ticket
    BY <2>1, <2>8 DEF Reduced, Open
  <2>10. Rest(book[k], n) = None
    BY <2>1, <2>8, <2>9 DEF Reduced, Open
  <2>11. [lots |-> book[k].lots - n, stop |-> book[k].stop] = None => n >= book[k].lots
    <3>1. ASSUME n < book[k].lots
          PROVE  [lots |-> book[k].lots - n, stop |-> book[k].stop] \in Position
      <4>1. book[k].lots - n \in Nat \ {0} /\ book[k].stop \in Int
        BY <2>1, <2>7, <3>1 DEF Position
      <4> QED
        BY <4>1 DEF Position
    <3> QED
      BY <2>1, <2>7, <3>1, NoneAssumption DEF Position
  <2>12. n >= book[k].lots
    BY <2>1, <2>7, <2>10, <2>11 DEF Rest
  <2> QED
    BY <2>1, <2>6, <2>7, <2>9, <2>12
<1>2. IInv /\ [Next]_vars => [\A t \in Tasks : Leaves(t)]_vars
  BY <1>1
<1> QED
  BY <1>2, Inductive, PTL DEF Spec, Tp1LeavesPosition
-----------------------------------------------------------------------------
(* The TP1 closes of a ticket. *)

Marking(k) == \E t \in Tasks : pc[t] = "mark" /\ cur[t].ticket = k

\* A close without a fault is marked, or about to be, as long as its ticket is open.
ClosesOK ==
  /\ closes \in [Tickets -> Nat] /\ faults \in [Tickets -> Nat]
  /\ \A k \in Tickets : closes[k] <= 1 + faults[k]
  /\ \A k \in Open : closes[k] <= faults[k] \/ k \in trackerFile \/ Marking(k)
  /\ \A k \in Tickets \ issued : closes[k] = 0

LEMMA InitCloses == Init => ClosesOK
  BY DEF Init, ClosesOK, Open

LEMMA StepCloses ==
  ASSUME Serial, IInv, [Next]_vars, MarksOK, ClosesOK
  PROVE  ClosesOK'
<1> USE DEF Goto, broker, scan, entries, waiting
<1>1. /\ Ages /\ Typed /\ OneRuns /\ issued \subseteq Tickets /\ Open \subseteq issued
      /\ \A k \in Open' : k \in Open \/ k \in Tickets \ issued
  BY StepAges, InductiveKnown DEF IInv, AccountOK, Ages, Open, OpenIn
<1>2. ASSUME UNCHANGED closing,
             \A k \in Open \intersect Open' :
               k \in trackerFile \/ Marking(k) => k \in trackerFile' \/ Marking(k)'
      PROVE  ClosesOK'
  <2>1. /\ closes' = closes /\ faults' = faults /\ issued \subseteq issued'
        /\ \A k \in Tickets \ issued : closes[k] <= faults[k]
    BY <1>1, <1>2 DEF closing, ClosesOK, Ages
  <2> QED
    BY <1>1, <1>2, <2>1 DEF ClosesOK
\* A close that executed unmarked, or a mark that was not written: one fault more.
<1>3. ASSUME NEW k \in Tickets, k \in issued,
             NEW n \in {0, 1}, closes' = [closes EXCEPT ![k] = @ + n],
             NEW m \in {0, 1}, faults' = [faults EXCEPT ![k] = @ + m],
             closes[k] + n <= 1 + faults[k] + m,
             k \in Open' => \/ closes[k] + n <= faults[k] + m
                            \/ k \in trackerFile' \/ Marking(k)',
             \A l \in (Open \intersect Open') \ {k} :
               l \in trackerFile \/ Marking(l) => l \in trackerFile' \/ Marking(l)'
      PROVE  ClosesOK'
  <2>1. /\ closes' \in [Tickets -> Nat] /\ faults' \in [Tickets -> Nat]
        /\ closes'[k] = closes[k] + n /\ faults'[k] = faults[k] + m
        /\ \A l \in Tickets \ {k} : closes'[l] = closes[l] /\ faults'[l] = faults[l]
    BY <1>3 DEF ClosesOK
  <2>2. \A l \in Tickets : closes'[l] <= 1 + faults'[l]
    BY <1>3, <2>1 DEF ClosesOK
  <2>3. \A l \in Tickets \ issued : closes[l] <= faults[l]
    BY DEF ClosesOK
  <2>4. \A l \in Open' : closes'[l] <= faults'[l] \/ l \in trackerFile' \/ Marking(l)'
    <3> TAKE l \in Open'
    <3>1. CASE l = k
      BY <1>3, <2>1, <3>1
    <3>2. CASE l # k
      BY <1>1, <1>3, <2>1, <2>3, <3>2 DEF ClosesOK
    <3> QED
      BY <3>1, <3>2
  <2>5. \A l \in Tickets \ issued' : closes'[l] = 0
    BY <1>1, <1>3, <2>1 DEF ClosesOK, Ages
  <2> QED
    BY <2>1, <2>2, <2>4, <2>5 DEF ClosesOK
<1>4. ASSUME NEW t \in Tasks, pc[t] \in Managing
      PROVE  /\ cur[t].ticket \in Tickets /\ cur[t].ticket \in issued
             /\ \A u \in Tasks \ {t} : pc[u] = "idle"
             /\ trackerFile \intersect Open \subseteq marks[t]
  BY <1>1, <1>4 DEF IInv, TaskOK, Distinct, OneRuns, MarksOK, MarkOK, Managing
<1>5. ASSUME NEW t \in Tasks, TakeProfit(t)
      PROVE  ClosesOK'
  <2> SUFFICES ASSUME NEW k \in Tickets, k = cur[t].ticket
               PROVE  ClosesOK'
    BY <1>4, <1>5 DEF TakeProfit, Managing
  <2> DEFINE n == IF book' = book THEN 0 ELSE 1
  <2>1. pc[t] = "tp1" /\ UNCHANGED <<trackerFile, cur>> /\ pc[t] \in Managing
    BY <1>5 DEF TakeProfit, Managing
  <2>2. \A l \in Tickets : ~Marking(l)
    BY <1>4, <2>1 DEF Marking
  <2>3. CASE UNCHANGED closing
    BY <1>2, <2>1, <2>2, <2>3 DEF Open
  <2>4. ASSUME NEW answer \in Answers, Tp1Due(cur[t], profit[t], marks[t]),
               Closes(k, CloseLots(cur[t].lots), answer),
               pc' = [pc EXCEPT ![t] = IF answer = "error" THEN "be" ELSE "mark"],
               closes' = [closes EXCEPT ![k] = @ + n],
               faults' = [faults EXCEPT ![k] =
                            @ + (IF book' # book /\ answer = "error" THEN 1 ELSE 0)]
        PROVE  ClosesOK'
    <3> DEFINE m == IF book' # book /\ answer = "error" THEN 1 ELSE 0
    <3>1. k \in Tickets /\ k \in issued
      BY <1>4, <2>1
    <3>2. k \notin marks[t] /\ trackerFile \intersect Open \subseteq marks[t]
      BY <1>4, <2>1, <2>4 DEF Tp1Due
    <3>3. k \in Open => closes[k] <= faults[k]
      BY <2>2, <3>1, <3>2 DEF ClosesOK
    <3>4. book' # book => k \in Open
      BY <2>4 DEF Closes, ClosePosition, GivesUp
    <3>5. closes[k] \in Nat /\ faults[k] \in Nat /\ closes[k] <= 1 + faults[k]
      BY <3>1 DEF ClosesOK
    <3>6. answer # "error" => Marking(k)'
      <4>1. answer # "error" => pc'[t] = "mark" /\ cur'[t].ticket = k
        BY <1>1, <2>1, <2>4 DEF Typed
      <4> QED
        BY <2>1, <4>1 DEF Marking
    <3>7. k \in Open' => k \in Open
      BY <1>1, <3>1 DEF Ages
    <3>8. n \in {0, 1} /\ m \in {0, 1} /\ closes[k] + n <= 1 + faults[k] + m
      BY <3>3, <3>4, <3>5
    <3>9. k \in Open' => closes[k] + n <= faults[k] + m \/ Marking(k)'
      BY <3>3, <3>5, <3>6, <3>7
    <3>10. \A l \in Open : l \in trackerFile \/ Marking(l) => l \in trackerFile'
      BY <2>1, <2>2 DEF Open
    <3>11. /\ closes' = [closes EXCEPT ![k] = @ + n]
           /\ faults' = [faults EXCEPT ![k] = @ + m]
      BY <2>4
    <3>12. \A l \in (Open \intersect Open') \ {k} :
             l \in trackerFile \/ Marking(l) => l \in trackerFile' \/ Marking(l)'
      BY <3>10
    <3>13. k \in Open' => \/ closes[k] + n <= faults[k] + m
                         \/ k \in trackerFile' \/ Marking(k)'
      BY <3>9
    <3>14. closes[k] + n <= 1 + faults[k] + m
      BY <3>8
    <3>15. CASE book' = book
      <4>1. n = 0 /\ m = 0
        BY <3>15
      <4>2. /\ closes' = [closes EXCEPT ![k] = @ + 0] /\ faults' = [faults EXCEPT ![k] = @ + 0]
            /\ closes[k] + 0 <= 1 + faults[k] + 0
            /\ k \in Open' => \/ closes[k] + 0 <= faults[k] + 0
                              \/ k \in trackerFile' \/ Marking(k)'
        BY <3>11, <3>13, <3>14, <4>1
      <4> HIDE DEF n, m
      <4> QED
        BY <1>3, <3>1, <3>12, <4>2
    <3>16. CASE book' # book /\ answer = "error"
      <4>1. n = 1 /\ m = 1
        BY <3>16
      <4>2. /\ closes' = [closes EXCEPT ![k] = @ + 1] /\ faults' = [faults EXCEPT ![k] = @ + 1]
            /\ closes[k] + 1 <= 1 + faults[k] + 1
            /\ k \in Open' => \/ closes[k] + 1 <= faults[k] + 1
                              \/ k \in trackerFile' \/ Marking(k)'
        BY <3>11, <3>13, <3>14, <4>1
      <4> HIDE DEF n, m
      <4> QED
        BY <1>3, <3>1, <3>12, <4>2
    <3>17. CASE book' # book /\ answer # "error"
      <4>1. n = 1 /\ m = 0
        BY <3>17
      <4>2. /\ closes' = [closes EXCEPT ![k] = @ + 1] /\ faults' = [faults EXCEPT ![k] = @ + 0]
            /\ closes[k] + 1 <= 1 + faults[k] + 0
            /\ k \in Open' => \/ closes[k] + 1 <= faults[k] + 0
                              \/ k \in trackerFile' \/ Marking(k)'
        BY <3>11, <3>13, <3>14, <4>1
      <4> HIDE DEF n, m
      <4> QED
        BY <1>3, <3>1, <3>12, <4>2
    <3> QED
      BY <3>15, <3>16, <3>17
  <2> QED
    BY <1>5, <2>3, <2>4 DEF TakeProfit
<1>6. ASSUME NEW t \in Tasks, Mark(t)
      PROVE  ClosesOK'
  <2> DEFINE k == cur[t].ticket
             m == IF k \in trackerFile' THEN 0 ELSE 1
  <2>1. /\ pc[t] = "mark" /\ pc[t] \in Managing /\ UNCHANGED <<book, issued, closes>>
        /\ marks' = [marks EXCEPT ![t] = marks[t] \union {k}]
        /\ faults' = [faults EXCEPT ![k] = @ + m]
        /\ trackerFile' = marks'[t] \/ trackerFile' = trackerFile
    BY <1>6 DEF Mark, Managing, Save
  <2>2. /\ k \in Tickets /\ k \in issued /\ \A l \in Tickets : Marking(l) => l = k
        /\ trackerFile \intersect Open \subseteq trackerFile'
    BY <1>4, <2>1 DEF Marking, MarksOK
  <2>3. closes[k] \in Nat /\ faults[k] \in Nat /\ closes[k] <= 1 + faults[k]
    BY <2>2 DEF ClosesOK
  <2>4. closes' = [closes EXCEPT ![k] = @ + 0]
    BY <2>1, <2>2 DEF ClosesOK
  <2>5. m \in {0, 1} /\ closes[k] + 0 <= 1 + faults[k] + m
    BY <2>3
  <2>6. closes[k] + 0 <= faults[k] + m \/ k \in trackerFile'
    BY <2>3
  <2>7. \A l \in (Open \intersect Open') \ {k} :
          l \in trackerFile \/ Marking(l) => l \in trackerFile'
    BY <2>2 DEF Open
  <2> HIDE DEF m, k
  <2> QED
    BY <1>3, <2>1, <2>2, <2>4, <2>5, <2>6, <2>7
<1>7. ASSUME NEW t \in Tasks, Kill(t)
      PROVE  ClosesOK'
  <2>1. UNCHANGED <<book, trackerFile, closes>>
    BY <1>7 DEF Kill
  <2>2. CASE pc[t] = "mark"
    <3> DEFINE k == cur[t].ticket
    <3>1. k \in Tickets /\ k \in issued /\ \A l \in Tickets : Marking(l) => l = k
      BY <1>4, <2>2 DEF Marking, Managing
    <3>2. closes[k] \in Nat /\ faults[k] \in Nat /\ closes[k] <= 1 + faults[k]
      BY <3>1 DEF ClosesOK
    <3>3. /\ closes' = [closes EXCEPT ![k] = @ + 0]
          /\ faults' = [faults EXCEPT ![k] = @ + 1]
      BY <1>7, <2>1, <2>2, <3>1 DEF Kill, ClosesOK
    <3>4. \A l \in (Open \intersect Open') \ {k} :
            l \in trackerFile \/ Marking(l) => l \in trackerFile'
      BY <2>1, <3>1 DEF Open
    <3> HIDE DEF k
    <3>5. closes[k] + 0 <= 1 + faults[k] + 1 /\ closes[k] + 0 <= faults[k] + 1
      BY <3>2
    <3> QED
      BY <1>3, <3>1, <3>3, <3>4, <3>5
  <2>3. CASE pc[t] # "mark"
    <3>1. \A u \in Tasks \ {t} : pc[u] = "idle"
      BY <1>1, <1>7 DEF Kill, OneRuns
    <3>2. UNCHANGED closing /\ \A l \in Tickets : ~Marking(l)
      BY <1>7, <2>3, <3>1 DEF Kill, closing, Marking
    <3> QED
      BY <1>2, <2>1, <3>2 DEF Open
  <2> QED
    BY <2>2, <2>3
<1>8. CASE LateExecutes
  <2>1. PICK q \in late, answer \in Answers :
          \/ q.call \in {"send", "modify"} /\ UNCHANGED closing
          \/ /\ q.call = "close" /\ ClosePosition(q.ticket, q.value, answer)
             /\ LET executed == IF book' = book THEN 0 ELSE 1
                IN  /\ closes' = [closes EXCEPT ![q.ticket] = @ + executed]
                    /\ faults' = [faults EXCEPT ![q.ticket] = @ + executed]
    BY <1>8 DEF LateExecutes
  <2>2. UNCHANGED <<trackerFile, pc, cur>>
    BY <1>8 DEF LateExecutes
  <2>3. \A l \in Tickets : l \in trackerFile \/ Marking(l) => l \in trackerFile' \/ Marking(l)'
    BY <2>2 DEF Marking
  <2>4. CASE UNCHANGED closing
    BY <1>2, <2>3, <2>4 DEF Open
  <2>5. CASE /\ q.call = "close" /\ book' # book /\ ClosePosition(q.ticket, q.value, answer)
             /\ closes' = [closes EXCEPT ![q.ticket] = @ + 1]
             /\ faults' = [faults EXCEPT ![q.ticket] = @ + 1]
    <3> DEFINE k == q.ticket
    <3>1. k \in Open /\ k \in Tickets /\ k \in issued
      BY <1>1, <2>5 DEF ClosePosition, Open
    <3>2. /\ closes[k] \in Nat /\ faults[k] \in Nat /\ closes[k] <= 1 + faults[k]
          /\ closes[k] <= faults[k] \/ k \in trackerFile \/ Marking(k)
      BY <3>1 DEF ClosesOK
    <3> HIDE DEF k
    <3>3. /\ closes[k] + 1 <= 1 + faults[k] + 1
          /\ closes[k] + 1 <= faults[k] + 1 \/ k \in trackerFile' \/ Marking(k)'
      BY <2>3, <3>1, <3>2
    <3> QED
      BY <1>3, <2>3, <2>5, <3>1, <3>3 DEF k, Open
  <2>6. CASE /\ q.call = "close" /\ book' = book
             /\ closes' = [closes EXCEPT ![q.ticket] = @ + 0]
             /\ faults' = [faults EXCEPT ![q.ticket] = @ + 0]
    <3>1. q.ticket \in Tickets
      BY <2>6 DEF IInv, Waiting
    <3>2. UNCHANGED closing
      BY <2>6, <3>1 DEF ClosesOK, closing
    <3> QED
      BY <2>4, <3>2
  <2> QED
    BY <2>1, <2>4, <2>5, <2>6
<1>9. ASSUME NEW t \in Tasks, Purge(t)
      PROVE  ClosesOK'
  <2>1. /\ pc[t] = "pick" /\ UNCHANGED <<book, closing>>
        /\ marks' = [marks EXCEPT ![t] = marks[t] \intersect active[t]]
        /\ trackerFile' = marks'[t] \/ trackerFile' = trackerFile
    BY <1>9 DEF Purge, Kept, Save
  <2>2. /\ trackerFile \intersect Open \subseteq marks[t]
        /\ marks[t] \intersect Open \subseteq active[t]
        /\ marks'[t] = marks[t] \intersect active[t]
    BY <2>1 DEF MarksOK, MarkOK
  <2>3. \A l \in Tickets : ~Marking(l)
    BY <1>1, <2>1 DEF OneRuns, Marking
  <2> QED
    BY <1>2, <2>1, <2>2, <2>3 DEF Open
<1>10. ASSUME UNCHANGED <<trackerFile, closing>>,
              \A u \in Tasks : pc[u] = "mark" => pc'[u] = "mark" /\ cur'[u] = cur[u]
       PROVE  ClosesOK'
  BY <1>2, <1>10 DEF Marking
<1>11. ASSUME NEW t \in Tasks,
              \/ Start(t) \/ List(t) \/ Pick(t) \/ Breakeven(t) \/ Trail(t) \/ Declines(t)
              \/ CapCheck(t) \/ Dedup(t) \/ Send(t) \/ Record(t)
       PROVE  ClosesOK'
  <2>1. UNCHANGED <<trackerFile, closing>> /\ pc[t] # "mark"
    BY <1>11 DEF Start, List, Pick, Breakeven, Trail, Declines, CapCheck, Dedup, Send, Record
  <2>2. \A u \in Tasks : pc[u] = "mark" => pc'[u] = "mark"
    BY <1>1, <1>11 DEF Typed, Start, List, Pick, Breakeven, Trail, Declines, CapCheck, Dedup,
       Send, Record, Done
  <2>3. \A u \in Tasks \ {t} : cur'[u] = cur[u]
    BY <1>1, <1>11 DEF Typed, Start, List, Pick, Breakeven, Trail, Declines, CapCheck, Dedup,
       Send, Record, Done
  <2> QED
    BY <1>10, <2>1, <2>2, <2>3
<1> QED
  <2>1. CASE \E t \in Tasks : Step(t)
    BY <1>5, <1>6, <1>7, <1>9, <1>11, <2>1 DEF Step
  <2> QED
    BY <1>8, <1>10, <2>1 DEF Next, PositionCloses, OperatorModifies, NewDay, vars, Serial

(***************************************************************************)
(* Under the same assumptions a ticket's TP1 closes exceed one by no more  *)
(* than the closes that executed and left no mark, for any number of       *)
(* kills, lost replies, failed writes and late closes.                     *)
(***************************************************************************)
THEOREM SerialTp1Repeat == Serial => (Spec => []Tp1RepeatNeedsFault)
<1> SUFFICES ASSUME Serial
             PROVE  Spec => []Tp1RepeatNeedsFault
  OBVIOUS
<1>1. ClosesOK => Tp1RepeatNeedsFault
  BY DEF ClosesOK, Tp1RepeatNeedsFault
<1>2. MarksOK /\ IInv /\ [Next]_vars => MarksOK'
  BY StepMarks
<1>3. ClosesOK /\ MarksOK /\ IInv /\ [Next]_vars => ClosesOK'
  BY StepCloses
<1> QED
  BY <1>1, <1>2, <1>3, InitMarks, InitCloses, Inductive, PTL DEF Spec
-----------------------------------------------------------------------------
(* The day's entries. *)

Recording == \E t \in Tasks : pc[t] = "record"

\* Only a position whose task is about to record it has neither a row nor a mention.
EntriesOK ==
  /\ pc \in [Tasks -> Labels] /\ OneRuns
  /\ {rows, opened, unrecorded} \subseteq Nat /\ rows <= MaxDailyTrades
  /\ \A t \in Tasks : pc[t] \in {"dedup", "send", "record"} => rows < MaxDailyTrades
  /\ opened <= rows + unrecorded + 1
  /\ opened <= rows + unrecorded \/ Recording

LEMMA StepEntries ==
  ASSUME ~Overlap, EntriesOK, [Next]_vars
  PROVE  EntriesOK'
<1> USE BoundAssumption DEF Goto
<1>1. /\ pc \in [Tasks -> Labels] /\ OneRuns
      /\ rows \in Nat /\ opened \in Nat /\ unrecorded \in Nat /\ MaxDailyTrades \in Nat
      /\ rows <= MaxDailyTrades /\ opened <= rows + unrecorded + 1
  BY DEF EntriesOK
\* What a step of task t does to the program counters.
<1>2. ASSUME NEW t \in Tasks, NEW label \in Labels, pc' = [pc EXCEPT ![t] = label],
             pc[t] # "idle" \/ \A u \in Tasks : pc[u] = "idle"
      PROVE  /\ pc' \in [Tasks -> Labels] /\ OneRuns' /\ pc'[t] = label
             /\ \A u \in Tasks \ {t} : pc[u] = "idle" /\ pc'[u] = "idle"
             /\ Recording => pc[t] = "record"
  <2>1. \A u \in Tasks \ {t} : pc[u] = "idle"
    BY <1>1, <1>2 DEF OneRuns
  <2>2. pc' \in [Tasks -> Labels] /\ pc'[t] = label /\ \A u \in Tasks \ {t} : pc'[u] = "idle"
    BY <1>1, <1>2, <2>1
  <2> QED
    BY <2>1, <2>2 DEF OneRuns, Recording
<1>3. ASSUME UNCHANGED <<entries, pc>>
      PROVE  EntriesOK'
  BY <1>3 DEF entries, EntriesOK, OneRuns, Recording
\* A step that ends nowhere near an order, of a task that was not recording.
<1>4. ASSUME NEW t \in Tasks, UNCHANGED entries,
             pc[t] # "idle" \/ \A u \in Tasks : pc[u] = "idle", pc[t] # "record",
             NEW label \in Labels, pc' = [pc EXCEPT ![t] = label],
             label \in {"dedup", "send", "record"} => rows < MaxDailyTrades
      PROVE  EntriesOK'
  <2>1. /\ pc' \in [Tasks -> Labels] /\ OneRuns' /\ pc'[t] = label
        /\ \A u \in Tasks \ {t} : pc'[u] = "idle" /\ ~Recording
    BY <1>2, <1>4
  <2>2. /\ rows' = rows /\ opened' = opened /\ unrecorded' = unrecorded
        /\ opened <= rows + unrecorded
    BY <1>2, <1>4 DEF entries, EntriesOK
  <2>3. \A u \in Tasks : pc'[u] \in {"dedup", "send", "record"} => rows' < MaxDailyTrades
    BY <1>4, <2>1, <2>2
  <2> QED
    BY <1>1, <2>1, <2>2, <2>3 DEF EntriesOK
<1>5. ASSUME NEW t \in Tasks, Start(t)
      PROVE  EntriesOK'
  BY <1>4, <1>5 DEF Start, Labels
<1>6. ASSUME NEW t \in Tasks,
             \/ List(t) \/ Pick(t) \/ TakeProfit(t) \/ Mark(t) \/ Breakeven(t) \/ Trail(t)
             \/ Purge(t)
      PROVE  EntriesOK'
  <2>1. /\ pc[t] \in Managing \union {"list", "pick"} /\ UNCHANGED entries
        /\ pc' = pc \/ \E label \in Managing \union {"pick", "account"} :
                         pc' = [pc EXCEPT ![t] = label]
    BY <1>6 DEF List, Pick, TakeProfit, Mark, Breakeven, Trail, Purge, Managing
  <2> QED
    BY <1>3, <1>4, <2>1 DEF Labels, Managing
<1>7. ASSUME NEW t \in Tasks, Declines(t) \/ CapCheck(t) \/ Dedup(t)
      PROVE  EntriesOK'
  <2>1. /\ pc[t] \in {"account", "dedup", "send"} /\ UNCHANGED entries
        /\ \/ pc' = [pc EXCEPT ![t] = "idle"]
           \/ rows < MaxDailyTrades /\ pc' = [pc EXCEPT ![t] = "dedup"]
           \/ pc[t] = "dedup" /\ pc' = [pc EXCEPT ![t] = "send"]
    BY <1>7 DEF Declines, CapCheck, UnderCap, Dedup, Done
  <2>2. pc[t] = "dedup" => rows < MaxDailyTrades
    BY DEF EntriesOK
  <2> QED
    BY <1>4, <2>1, <2>2 DEF Labels
<1>8. ASSUME NEW t \in Tasks, Send(t)
      PROVE  EntriesOK'
  <2>1. pc[t] = "send" /\ rows < MaxDailyTrades /\ rows' = rows
    BY <1>8 DEF Send, EntriesOK
  <2>2. PICK answer \in Answers :
          /\ opened' = opened + (IF issued' = issued THEN 0 ELSE 1)
          /\ unrecorded' = unrecorded + (IF issued' # issued /\ answer # "done" THEN 1 ELSE 0)
          /\ pc' = [pc EXCEPT ![t] = IF answer = "done" THEN "record" ELSE "idle"]
    BY <1>8 DEF Send, Done
  <2> DEFINE label == IF answer = "done" THEN "record" ELSE "idle"
  <2>3. label \in Labels
    BY DEF Labels
  <2>4. /\ pc' \in [Tasks -> Labels] /\ OneRuns' /\ pc'[t] = label
        /\ \A u \in Tasks \ {t} : pc'[u] = "idle" /\ ~Recording
    BY <1>2, <2>1, <2>2, <2>3
  <2>5. opened <= rows + unrecorded
    BY <2>1, <2>4, <1>2, <2>2, <2>3 DEF EntriesOK
  <2>6. /\ opened' \in Nat /\ unrecorded' \in Nat /\ opened' <= rows' + unrecorded' + 1
        /\ opened' <= rows' + unrecorded' \/ answer = "done"
    BY <1>1, <2>1, <2>2, <2>5
  <2>7. answer = "done" => Recording'
    BY <2>4 DEF Recording
  <2> QED
    BY <1>1, <2>1, <2>4, <2>6, <2>7 DEF EntriesOK
\* The end of a task: what it was to record has a row, or is unrecorded.
<1>9. ASSUME NEW t \in Tasks, pc[t] # "idle", pc' = [pc EXCEPT ![t] = "idle"],
             rows' \in Nat, unrecorded' \in Nat, opened' = opened,
             rows' <= MaxDailyTrades,
             rows' + unrecorded' = rows + unrecorded + (IF pc[t] = "record" THEN 1 ELSE 0)
      PROVE  EntriesOK'
  <2>1. "idle" \in Labels
    BY DEF Labels
  <2>2. /\ pc' \in [Tasks -> Labels] /\ OneRuns' /\ pc'[t] = "idle"
        /\ \A u \in Tasks \ {t} : pc'[u] = "idle"
        /\ Recording => pc[t] = "record"
    BY <1>2, <1>9, <2>1
  <2>3. opened' <= rows' + unrecorded'
    <3>1. CASE pc[t] = "record"
      BY <1>1, <1>9, <3>1
    <3>2. CASE pc[t] # "record"
      BY <1>1, <1>9, <2>2, <3>2 DEF EntriesOK
    <3> QED
      BY <3>1, <3>2
  <2>4. rows' \in Nat /\ opened' \in Nat /\ unrecorded' \in Nat /\ rows' <= MaxDailyTrades
    BY <1>1, <1>9
  <2>5. \A u \in Tasks : pc'[u] \notin {"dedup", "send", "record"}
    BY <2>2
  <2>6. opened' <= rows' + unrecorded' + 1
    <3>1. \A a, b, c \in Nat : a <= b + c => a <= b + c + 1
      OBVIOUS
    <3> QED
      BY <2>3, <2>4, <3>1
  <2> QED
    BY <2>2, <2>3, <2>4, <2>5, <2>6 DEF EntriesOK
<1>10. ASSUME NEW t \in Tasks, Record(t)
       PROVE  EntriesOK'
  <2>1. pc[t] = "record" /\ rows < MaxDailyTrades
    BY <1>10 DEF Record, EntriesOK
  <2>2. /\ pc' = [pc EXCEPT ![t] = "idle"] /\ opened' = opened
        /\ \/ rows' = rows + 1 /\ unrecorded' = unrecorded
           \/ unrecorded' = unrecorded + 1 /\ rows' = rows
    BY <1>10 DEF Record, Done
  <2>3. /\ rows' \in Nat /\ unrecorded' \in Nat /\ rows' <= MaxDailyTrades
        /\ rows' + unrecorded' = rows + unrecorded + 1
    BY <1>1, <2>1, <2>2
  <2>4. pc[t] # "idle" /\ (IF pc[t] = "record" THEN 1 ELSE 0) = 1
    BY <2>1
  <2> QED
    BY <1>9, <2>2, <2>3, <2>4
<1>11. ASSUME NEW t \in Tasks, Kill(t)
       PROVE  EntriesOK'
  <2> DEFINE n == IF pc[t] = "record" THEN 1 ELSE 0
  <2>1. /\ pc[t] # "idle" /\ pc' = [pc EXCEPT ![t] = "idle"]
        /\ opened' = opened /\ rows' = rows /\ unrecorded' = unrecorded + n
    BY <1>11 DEF Kill, Done
  <2>2. n \in {0, 1}
    OBVIOUS
  <2> HIDE DEF n
  <2>3. /\ rows' \in Nat /\ unrecorded' \in Nat /\ rows' <= MaxDailyTrades
        /\ rows' + unrecorded' = rows + unrecorded + n
    BY <1>1, <2>1, <2>2
  <2> QED
    BY <1>9, <2>1, <2>3 DEF n
<1>12. CASE NewDay
  BY <1>1, <1>12 DEF NewDay, EntriesOK, OneRuns, Recording
<1>13. CASE PositionCloses \/ OperatorModifies \/ LateExecutes \/ UNCHANGED vars
  BY <1>3, <1>13 DEF PositionCloses, OperatorModifies, LateExecutes, vars
<1> QED
  BY <1>5, <1>6, <1>7, <1>8, <1>10, <1>11, <1>12, <1>13 DEF Next, Step

(***************************************************************************)
(* When tasks do not overlap, the day's positions exceed the cap by no     *)
(* more than those without a Trade row, whatever the listings say, for any *)
(* cap and any number of lost replies, database errors and kills.          *)
(***************************************************************************)
THEOREM CapExceededUnrecorded == ~Overlap => (Spec => []CapCountsRows)
<1> SUFFICES ASSUME ~Overlap
             PROVE  Spec => []CapCountsRows
  OBVIOUS
<1>1. Init => EntriesOK
  BY BoundAssumption DEF Init, EntriesOK, OneRuns, Labels
<1>2. EntriesOK /\ [Next]_vars => EntriesOK'
  BY StepEntries
<1>3. EntriesOK => CapCountsRows
  <2> SUFFICES ASSUME EntriesOK
               PROVE  opened <= MaxDailyTrades + unrecorded
    BY DEF CapCountsRows
  <2>1. Recording => rows < MaxDailyTrades
    BY DEF Recording, EntriesOK
  <2> QED
    BY <2>1, BoundAssumption DEF EntriesOK
<1> QED
  BY <1>1, <1>2, <1>3, PTL DEF Spec
-----------------------------------------------------------------------------
(* Tasks that overlap: the positions held, and the tasks about to add one. *)

Held == Open \ tardy

Sending == {t \in Tasks : pc[t] = "send"}

EntrantsOK ==
  /\ book = [k \in Tickets |-> book[k]] /\ pc \in [Tasks -> Labels]
  /\ IsFiniteSet(Held) /\ Cardinality(Held) + Cardinality(Sending) <= Cardinality(Tasks)

\* A call that sends no order leaves no ticket open that was not.
LEMMA NothingOpened ==
  ASSUME book = [k \in Tickets |-> book[k]], NEW k, NEW v, NEW s, NEW answer,
         \/ ClosePosition(k, v, answer) \/ ModifyPosition(k, s, answer) \/ BrokerCloses(k)
         \/ UNCHANGED <<book, issued>>
  PROVE  book' = [l \in Tickets |-> book'[l]] /\ Open' \subseteq Open /\ issued' = issued
<1>1. /\ issued' = issued
      /\ book' = book \/ (k \in Open /\ \E q : book' = [book EXCEPT ![k] = q])
  BY DEF ClosePosition, ModifyPosition, BrokerCloses, Reduced
<1>2. CASE book' = book
  BY <1>1, <1>2 DEF Open
<1>3. ASSUME k \in Open, NEW q, book' = [book EXCEPT ![k] = q]
      PROVE  book' = [l \in Tickets |-> book'[l]] /\ Open' \subseteq Open
  <2>1. book' = [l \in Tickets |-> IF l = k THEN q ELSE book[l]]
    BY <1>3
  <2> QED
    BY <1>3, <2>1 DEF Open
<1> QED
  BY <1>1, <1>2, <1>3

\* An order opens at most one ticket, and it is a new one.
LEMMA OneOpened ==
  ASSUME book = [k \in Tickets |-> book[k]], NEW v, NEW s, NEW answer, SendOrder(v, s, answer)
  PROVE  /\ book' = [l \in Tickets |-> book'[l]]
         /\ \/ Open' = Open /\ issued' = issued
            \/ \E k \in issued' \ issued : Open' \subseteq Open \union {k}
<1>1. CASE UNCHANGED <<book, issued>>
  BY <1>1 DEF Open
<1>2. ASSUME NEW k \in Tickets \ issued, NEW n, Added(k, n, s)
      PROVE  /\ book' = [l \in Tickets |-> book'[l]]
             /\ k \in issued' \ issued /\ Open' \subseteq Open \union {k}
  <2>1. book' = [l \in Tickets |-> IF l = k THEN [lots |-> n, stop |-> s] ELSE book[l]]
    BY <1>2 DEF Added
  <2> QED
    BY <1>2, <2>1 DEF Added, Open
<1> QED
  BY <1>1, <1>2 DEF SendOrder

LEMMA Shrinks ==
  ASSUME IsFiniteSet(Tasks), EntrantsOK,
         book' = [k \in Tickets |-> book'[k]], pc' \in [Tasks -> Labels],
         Held' \subseteq Held, Sending' \subseteq Sending
  PROVE  EntrantsOK'
<1>1. IsFiniteSet(Sending) /\ IsFiniteSet(Held)
  BY FS_Subset DEF Sending, EntrantsOK
<1>2. IsFiniteSet(Held') /\ Cardinality(Held') <= Cardinality(Held)
  BY <1>1, FS_Subset
<1>3. IsFiniteSet(Sending') /\ Cardinality(Sending') <= Cardinality(Sending)
  BY <1>1, FS_Subset
<1>4. /\ Cardinality(Held) \in Nat /\ Cardinality(Sending) \in Nat /\ Cardinality(Tasks) \in Nat
      /\ Cardinality(Held') \in Nat /\ Cardinality(Sending') \in Nat
  BY <1>1, <1>2, <1>3, FS_CardinalityType
<1> QED
  BY <1>2, <1>3, <1>4 DEF EntrantsOK

LEMMA StepEntrants ==
  ASSUME IsFiniteSet(Tasks), ~SilentList, EntrantsOK, [Next]_vars
  PROVE  EntrantsOK'
<1> USE DEF Goto, broker
<1>1. book = [k \in Tickets |-> book[k]] /\ pc \in [Tasks -> Labels]
  BY DEF EntrantsOK
<1>2. ASSUME NEW t \in Tasks, NEW label \in Labels \ {"send"},
             pc' = pc \/ pc' = [pc EXCEPT ![t] = label],
             UNCHANGED tardy, NEW k, NEW v, NEW s, NEW answer,
             \/ ClosePosition(k, v, answer) \/ ModifyPosition(k, s, answer)
             \/ UNCHANGED <<book, issued>>
      PROVE  EntrantsOK'
  <2>1. pc' \in [Tasks -> Labels] /\ Sending' \subseteq Sending
    BY <1>1, <1>2 DEF Sending
  <2>2. book' = [l \in Tickets |-> book'[l]] /\ Held' \subseteq Held
    BY <1>1, <1>2, NothingOpened DEF Held
  <2> QED
    BY <2>1, <2>2, Shrinks
<1>3. ASSUME NEW t \in Tasks,
             \/ Start(t) \/ List(t) \/ Pick(t) \/ Mark(t) \/ Purge(t) \/ Declines(t)
             \/ CapCheck(t) \/ Record(t) \/ Kill(t)
      PROVE  EntrantsOK'
  <2>1. /\ UNCHANGED <<book, issued, tardy>>
        /\ pc' = pc \/ \E label \in Labels \ {"send"} : pc' = [pc EXCEPT ![t] = label]
    BY <1>3 DEF Start, List, Pick, Mark, Purge, Declines, CapCheck, Record, Kill, Done,
       waiting, Labels, Managing
  <2>2. "idle" \in Labels \ {"send"}
    BY DEF Labels
  <2> QED
    BY <1>2, <2>1, <2>2
<1>4. ASSUME NEW t \in Tasks, TakeProfit(t) \/ Breakeven(t) \/ Trail(t)
      PROVE  EntrantsOK'
  <2>1. \E label \in Labels \ {"send"} : pc' = [pc EXCEPT ![t] = label]
    BY <1>4 DEF TakeProfit, Breakeven, Trail, Labels, Managing
  <2>2. /\ UNCHANGED tardy
        /\ \E k, v, s, answer : \/ ClosePosition(k, v, answer) \/ ModifyPosition(k, s, answer)
                                \/ UNCHANGED <<book, issued>>
    BY <1>4 DEF TakeProfit, Breakeven, Trail, Closes, Modifies, GivesUp, waiting
  <2> QED
    BY <1>2, <2>1, <2>2
<1>5. ASSUME NEW t \in Tasks, Dedup(t)
      PROVE  EntrantsOK'
  <2>1. UNCHANGED <<book, issued, tardy>>
    BY <1>5 DEF Dedup, waiting
  <2>2. CASE pc' = [pc EXCEPT ![t] = "idle"]
    <3>1. "idle" \in Labels \ {"send"}
      BY DEF Labels
    <3> QED
      BY <1>2, <2>1, <2>2, <3>1
  <2>3. CASE pc' = [pc EXCEPT ![t] = "send"] /\ {} \in Listings
    <3>1. Open = {} /\ Open' = Open
      BY <2>1, <2>3 DEF Listings, Open
    <3>2. IsFiniteSet(Held') /\ Cardinality(Held') = 0
      BY <3>1, FS_EmptySet DEF Held
    <3>3. pc' \in [Tasks -> Labels] /\ Sending' \subseteq Tasks
      BY <1>1, <2>3 DEF Sending, Labels
    <3>4. /\ Cardinality(Sending') <= Cardinality(Tasks)
          /\ Cardinality(Sending') \in Nat /\ Cardinality(Tasks) \in Nat
      BY <3>3, FS_Subset, FS_CardinalityType
    <3> QED
      BY <1>1, <2>1, <3>2, <3>3, <3>4 DEF EntrantsOK
  <2> QED
    BY <1>5, <2>2, <2>3 DEF Dedup, Blocks, Done
<1>6. ASSUME NEW t \in Tasks, Send(t)
      PROVE  EntrantsOK'
  <2>1. /\ pc[t] = "send" /\ UNCHANGED tardy
        /\ \E label \in {"record", "idle"} : pc' = [pc EXCEPT ![t] = label]
        /\ \E v, s, answer : SendOrder(v, s, answer) \/ UNCHANGED <<book, issued>>
    BY <1>6 DEF Send, Done, Sends, GivesUp
  <2>2. pc' \in [Tasks -> Labels] /\ Sending' = Sending \ {t} /\ t \in Sending
    BY <1>1, <2>1 DEF Sending, Labels
  <2>3. /\ book' = [l \in Tickets |-> book'[l]]
        /\ \E k : Held' \subseteq Held \union {k}
    BY <1>1, <2>1, OneOpened DEF Held, Open
  <2>4. PICK k : Held' \subseteq Held \union {k}
    BY <2>3
  <2>5. IsFiniteSet(Sending) /\ IsFiniteSet(Held)
    BY FS_Subset DEF Sending, EntrantsOK
  <2>6. IsFiniteSet(Sending') /\ Cardinality(Sending') = Cardinality(Sending) - 1
    BY <2>2, <2>5, FS_RemoveElement
  <2>7. /\ IsFiniteSet(Held \union {k})
        /\ Cardinality(Held \union {k}) <= Cardinality(Held) + 1
    <3>1. Cardinality(Held) \in Nat
      BY <2>5, FS_CardinalityType
    <3>2. /\ IsFiniteSet(Held \union {k})
          /\ \/ Cardinality(Held \union {k}) = Cardinality(Held)
             \/ Cardinality(Held \union {k}) = Cardinality(Held) + 1
      BY <2>5, FS_AddElement, Zenon
    <3> QED
      BY <3>1, <3>2
  <2>8. IsFiniteSet(Held') /\ Cardinality(Held') <= Cardinality(Held \union {k})
    BY <2>4, <2>7, FS_Subset
  <2>9. /\ Cardinality(Held) \in Nat /\ Cardinality(Sending) \in Nat
        /\ Cardinality(Held \union {k}) \in Nat /\ Cardinality(Tasks) \in Nat
        /\ Cardinality(Held') \in Nat /\ Cardinality(Sending') \in Nat
    BY <2>5, <2>6, <2>7, <2>8, FS_CardinalityType
  <2>10. Cardinality(Held') + Cardinality(Sending') <= Cardinality(Tasks)
    BY <2>6, <2>7, <2>8, <2>9 DEF EntrantsOK
  <2> QED
    BY <2>2, <2>3, <2>8, <2>10 DEF EntrantsOK
<1>7. CASE LateExecutes
  <2>1. /\ UNCHANGED pc /\ tardy' = tardy \union (issued' \ issued)
        /\ \E k, v, s, answer : \/ SendOrder(v, s, answer) \/ ClosePosition(k, v, answer)
                                \/ ModifyPosition(k, s, answer)
    BY <1>7 DEF LateExecutes
  <2>2. book' = [l \in Tickets |-> book'[l]] /\ Held' \subseteq Held
    BY <1>1, <2>1, OneOpened, NothingOpened DEF Held
  <2>3. pc' \in [Tasks -> Labels] /\ Sending' \subseteq Sending
    BY <1>1, <2>1 DEF Sending
  <2> QED
    BY <2>2, <2>3, Shrinks
<1>8. CASE PositionCloses \/ OperatorModifies \/ NewDay \/ UNCHANGED vars
  <2>1. /\ UNCHANGED <<pc, tardy>>
        /\ \E k, v, s, answer : \/ BrokerCloses(k) \/ ModifyPosition(k, s, answer)
                                \/ UNCHANGED <<book, issued>>
    BY <1>8 DEF PositionCloses, OperatorModifies, NewDay, waiting, vars
  <2>2. book' = [l \in Tickets |-> book'[l]] /\ Held' \subseteq Held
    BY <1>1, <2>1, NothingOpened DEF Held
  <2>3. pc' \in [Tasks -> Labels] /\ Sending' \subseteq Sending
    BY <1>1, <2>1 DEF Sending
  <2> QED
    BY <2>2, <2>3, Shrinks
<1> QED
  BY <1>3, <1>4, <1>5, <1>6, <1>7, <1>8 DEF Next, Step

(***************************************************************************)
(* Any finite number of tasks, overlapping as they like, with an operator, *)
(* lost replies and kills, holds at most one position per task when the    *)
(* listing does not fail silently; late orders aside.                      *)
(***************************************************************************)
THEOREM OverlapBounded == IsFiniteSet(Tasks) /\ ~SilentList => (Spec => []OnePerTask)
<1> SUFFICES ASSUME IsFiniteSet(Tasks), ~SilentList
             PROVE  Spec => []OnePerTask
  OBVIOUS
<1>1. Init => EntrantsOK
  <2> SUFFICES ASSUME Init
               PROVE  EntrantsOK
    OBVIOUS
  <2>1. /\ book = [k \in Tickets |-> book[k]] /\ pc \in [Tasks -> Labels]
        /\ Held = {} /\ Sending = {}
    BY DEF Init, Held, Open, Sending, Labels
  <2>2. Cardinality(Tasks) \in Nat
    BY FS_CardinalityType
  <2> QED
    BY <2>1, <2>2, FS_EmptySet DEF EntrantsOK
<1>2. EntrantsOK /\ [Next]_vars => EntrantsOK'
  BY StepEntrants
<1>3. EntrantsOK => OnePerTask
  <2> SUFFICES ASSUME EntrantsOK
               PROVE  Cardinality(Held) <= Cardinality(Tasks)
    BY DEF OnePerTask, Held
  <2>1. IsFiniteSet(Sending) /\ IsFiniteSet(Held)
    BY FS_Subset DEF Sending, EntrantsOK
  <2>2. /\ Cardinality(Held) \in Nat /\ Cardinality(Sending) \in Nat
        /\ Cardinality(Tasks) \in Nat
    BY <2>1, FS_CardinalityType
  <2> QED
    BY <2>2 DEF EntrantsOK
<1> QED
  BY <1>1, <1>2, <1>3, PTL DEF Spec
-----------------------------------------------------------------------------
(* Tasks that overlap, an operator, silent listings, late calls: what a task *)
(* can still rely on of the stops it listed.                               *)

\* A step of one task, as far as it is one of its own state.
LEMMA KnownMoves ==
  ASSUME Known, NEW t \in Tasks, NEW label \in Labels, pc' = [pc EXCEPT ![t] = label],
         todo' \in [Tasks -> SUBSET Listed],
         NEW c \in Listed \union {None}, cur' = [cur EXCEPT ![t] = c],
         label \in Managing => c \in Listed,
         profit' \in [Tasks -> Int], BookTypeOK', Waiting'
  PROVE  Known'
<1>1. /\ pc' \in [Tasks -> Labels] /\ cur' \in [Tasks -> Listed \union {None}]
      /\ pc'[t] = label /\ cur'[t] = c
      /\ \A u \in Tasks \ {t} : pc'[u] = pc[u] /\ cur'[u] = cur[u]
  BY DEF Known, Typed
<1>2. Typed'
  BY <1>1 DEF Typed
<1>3. \A u \in Tasks : pc'[u] \in Managing => cur'[u] \in Listed
  BY <1>1 DEF Known
<1> QED
  BY <1>2, <1>3 DEF Known

LEMMA StepKnown ==
  ASSUME Known, [Next]_vars
  PROVE  Known'
<1> USE DEF Goto, broker, scan, closing, entries, waiting
<1>a. /\ BookTypeOK /\ Typed /\ Waiting
      /\ \A t \in Tasks : pc[t] \in Managing => cur[t] \in Listed
  BY DEF Known
<1>b. \A t \in Tasks : /\ pc[t] \in Labels /\ todo[t] \in SUBSET Listed
                       /\ cur[t] \in Listed \union {None} /\ profit[t] \in Int
                       /\ cur = [cur EXCEPT ![t] = cur[t]]
  BY <1>a DEF Typed
<1>c. ASSUME UNCHANGED <<book, issued, late>>
      PROVE  BookTypeOK' /\ Waiting'
  BY <1>a, <1>c DEF BookTypeOK, Waiting
<1>d. ASSUME NEW t \in Tasks, Done(t)
      PROVE  /\ pc' = [pc EXCEPT ![t] = "idle"] /\ todo' \in [Tasks -> SUBSET Listed]
             /\ cur' = [cur EXCEPT ![t] = None] /\ profit' \in [Tasks -> Int]
  <2>1. /\ pc' = [pc EXCEPT ![t] = "idle"] /\ todo' = [todo EXCEPT ![t] = {}]
        /\ cur' = [cur EXCEPT ![t] = None] /\ profit' = [profit EXCEPT ![t] = 0]
    BY <1>d DEF Done
  <2> QED
    BY <1>a, <2>1 DEF Typed
<1>e. {"idle", "list", "pick", "account", "dedup", "send", "record"} \subseteq Labels
      /\ Managing \subseteq Labels
      /\ \A label \in {"idle", "list", "pick", "account", "dedup", "send", "record"} :
           label \notin Managing
  BY DEF Labels, Managing
\* Steps that touch neither the account, nor what the bridge still has, nor a position.
<1>1. ASSUME NEW t \in Tasks,
             Start(t) \/ List(t) \/ Mark(t) \/ Purge(t) \/ Declines(t) \/ CapCheck(t)
               \/ Dedup(t) \/ Record(t) \/ Kill(t)
      PROVE  Known'
  <2>1. UNCHANGED <<book, issued, late>>
    BY <1>1 DEF Start, List, Mark, Purge, Declines, CapCheck, Dedup, Record, Kill
  <2>2. CASE Start(t) \/ Mark(t) \/ Purge(t)
    <3>1. /\ \E label \in {"list", "be", "account"} :
                pc' = [pc EXCEPT ![t] = label] /\ (label = "be" => pc[t] = "mark")
          /\ UNCHANGED <<todo, cur, profit>>
      BY <2>2 DEF Start, Mark, Purge
    <3>2. PICK label \in {"list", "be", "account"} :
                pc' = [pc EXCEPT ![t] = label] /\ (label = "be" => pc[t] = "mark")
      BY <3>1
    <3>3. label \in Labels /\ (label \in Managing => cur[t] \in Listed)
      BY <1>a, <3>2 DEF Labels, Managing
    <3>4. todo' \in [Tasks -> SUBSET Listed] /\ profit' \in [Tasks -> Int]
          /\ cur' = [cur EXCEPT ![t] = cur[t]] /\ cur[t] \in Listed \union {None}
      BY <1>a, <1>b, <3>1 DEF Typed
    <3> QED
      BY <1>c, <2>1, <3>2, <3>3, <3>4, KnownMoves
  <2>3. CASE List(t)
    <3>1. PICK listed \in Listings \union {{}} :
            IF listed = {}
            THEN Goto(t, "account") /\ UNCHANGED <<todo, active>>
            ELSE Goto(t, "pick") /\ todo' = [todo EXCEPT ![t] = listed]
      BY <2>3 DEF List
    <3>2. \A k \in Open : Snapshot(k) \in Listed
      BY <1>a DEF Snapshot, Listed, Open, BookTypeOK, Position
    <3>3. listed \in SUBSET Listed
      BY <3>2 DEF Listings
    <3>4. todo' \in [Tasks -> SUBSET Listed]
      BY <1>a, <3>1, <3>3 DEF Typed
    <3>5. \E label \in {"account", "pick"} : pc' = [pc EXCEPT ![t] = label]
      BY <3>1
    <3>6. cur' = [cur EXCEPT ![t] = cur[t]] /\ profit' \in [Tasks -> Int]
      BY <1>a, <1>b, <2>3 DEF List, Typed
    <3> QED
      BY <1>b, <1>c, <1>e, <2>1, <3>4, <3>5, <3>6, KnownMoves
  <2>4. CASE Declines(t) \/ Record(t) \/ Kill(t)
    <3>1. Done(t)
      BY <2>4 DEF Declines, Record, Kill
    <3> QED
      BY <1>c, <1>d, <1>e, <2>1, <3>1, KnownMoves
  <2>5. CASE CapCheck(t) \/ Dedup(t)
    <3>1. CASE Done(t)
      BY <1>c, <1>d, <1>e, <2>1, <3>1, KnownMoves
    <3>2. ASSUME NEW label \in {"dedup", "send"}, pc' = [pc EXCEPT ![t] = label],
                 UNCHANGED scan
          PROVE  Known'
      <4>1. todo' \in [Tasks -> SUBSET Listed] /\ profit' \in [Tasks -> Int]
            /\ cur' = [cur EXCEPT ![t] = cur[t]]
        BY <1>a, <1>b, <3>2 DEF Typed
      <4> QED
        BY <1>b, <1>c, <1>e, <2>1, <3>2, <4>1, KnownMoves
    <3> QED
      BY <2>5, <3>1, <3>2 DEF CapCheck, Dedup
  <2> QED
    BY <1>1, <2>2, <2>3, <2>4, <2>5
<1>2. ASSUME NEW t \in Tasks, Pick(t)
      PROVE  Known'
  <2>1. PICK c \in todo[t] :
          /\ todo' = [todo EXCEPT ![t] = @ \ {c}]
          /\ \/ UNCHANGED <<pc, cur, profit>>
             \/ /\ cur' = [cur EXCEPT ![t] = c]
                /\ \E p \in Ticks : profit' = [profit EXCEPT ![t] = p]
                /\ pc' = [pc EXCEPT ![t] = "tp1"]
    BY <1>2 DEF Pick
  <2>2. c \in Listed /\ todo' \in [Tasks -> SUBSET Listed] /\ UNCHANGED <<book, issued, late>>
    BY <1>2, <1>a, <1>b, <2>1 DEF Pick, Typed
  <2>3. CASE UNCHANGED <<pc, cur, profit>>
    BY <1>a, <1>c, <2>2, <2>3 DEF Known, Typed
  <2>4. CASE ~UNCHANGED <<pc, cur, profit>>
    <3>1. profit' \in [Tasks -> Int]
      BY <1>a, <2>1, <2>4, TickAssumption DEF Typed
    <3> QED
      BY <1>c, <2>1, <2>2, <2>4, <3>1, KnownMoves DEF Labels, Managing
  <2> QED
    BY <2>3, <2>4
<1>3. ASSUME NEW t \in Tasks, TakeProfit(t)
      PROVE  Known'
  <2>1. pc[t] = "tp1" /\ UNCHANGED <<todo, cur, profit>>
        /\ \E label \in {"be", "mark"} : pc' = [pc EXCEPT ![t] = label]
    BY <1>3 DEF TakeProfit
  <2>2. /\ cur[t] \in Listed /\ cur[t].ticket \in Tickets
        /\ CloseLots(cur[t].lots) \in Nat \ {0}
    BY <1>a, <2>1, CloseLotsPositive DEF Managing, Listed
  <2>3. BookTypeOK' /\ Waiting'
    <3>1. ASSUME NEW answer \in Answers, UNCHANGED late,
                 ClosePosition(cur[t].ticket, CloseLots(cur[t].lots), answer)
          PROVE  BookTypeOK' /\ Waiting'
      BY <1>a, <2>2, <3>1, ClosedBook DEF Waiting
    <3>2. ASSUME NEW answer \in Answers,
                 GivesUp("close", cur[t].ticket, CloseLots(cur[t].lots), answer)
          PROVE  BookTypeOK' /\ Waiting'
      BY <1>a, <2>2, <3>2 DEF GivesUp, Waiting, BookTypeOK
    <3> QED
      BY <1>3, <1>c, <3>1, <3>2 DEF TakeProfit, Closes
  <2>4. todo' \in [Tasks -> SUBSET Listed] /\ profit' \in [Tasks -> Int]
        /\ cur' = [cur EXCEPT ![t] = cur[t]] /\ {"be", "mark"} \subseteq Labels
    BY <1>a, <1>b, <2>1 DEF Typed, Labels, Managing
  <2> QED
    BY <2>1, <2>2, <2>3, <2>4, KnownMoves
<1>4. ASSUME NEW t \in Tasks, Breakeven(t)
      PROVE  Known'
  <2>1. /\ pc[t] = "be" /\ pc' = [pc EXCEPT ![t] = "trail"] /\ UNCHANGED <<todo, profit>>
        /\ cur[t] \in Listed
    BY <1>4, <1>a DEF Breakeven, Managing
  <2>2. todo' \in [Tasks -> SUBSET Listed] /\ profit' \in [Tasks -> Int] /\ "trail" \in Labels
    BY <1>a, <2>1 DEF Typed, Labels, Managing
  <2>3. CASE UNCHANGED <<broker, cur, late>>
    BY <1>b, <1>c, <2>1, <2>2, <2>3, KnownMoves
  <2>4. ASSUME NEW answer \in Answers, Modifies(cur[t].ticket, BeOffset, answer),
               cur' = [cur EXCEPT ![t].stop = IF answer = "error" THEN @ ELSE BeOffset]
        PROVE  Known'
    <3> DEFINE stop == IF answer = "error" THEN cur[t].stop ELSE BeOffset
               c == [cur[t] EXCEPT !.stop = stop]
    <3>1. c \in Listed /\ cur' = [cur EXCEPT ![t] = c]
      BY <2>1, <2>4, PointsAssumption DEF Listed
    <3> HIDE DEF c
    <3>2. BookTypeOK' /\ Waiting'
      BY <1>a, <2>1, <2>4, ModifyCall, PointsAssumption DEF Listed
    <3> QED
      BY <2>1, <2>2, <3>1, <3>2, KnownMoves
  <2> QED
    BY <1>4, <2>3, <2>4 DEF Breakeven
<1>5. ASSUME NEW t \in Tasks, Trail(t)
      PROVE  Known'
  <2>1. /\ pc[t] = "trail" /\ pc' = [pc EXCEPT ![t] = "pick"] /\ UNCHANGED todo
        /\ cur' = [cur EXCEPT ![t] = None] /\ profit' = [profit EXCEPT ![t] = 0]
        /\ cur[t] \in Listed
    BY <1>5, <1>a DEF Trail, Managing
  <2>2. todo' \in [Tasks -> SUBSET Listed] /\ profit' \in [Tasks -> Int]
    BY <1>a, <2>1 DEF Typed
  <2>3. BookTypeOK' /\ Waiting'
    <3>1. profit[t] - TrailDistance \in Int /\ cur[t].ticket \in Tickets
      BY <1>b, <2>1, PointsAssumption DEF Listed
    <3> QED
      BY <1>5, <1>a, <1>c, <2>1, <3>1, ModifyCall DEF Trail
  <2> QED
    BY <1>e, <2>1, <2>2, <2>3, KnownMoves
<1>6. ASSUME NEW t \in Tasks, Send(t)
      PROVE  Known'
  <2>1. PICK v \in Lots, answer \in Answers :
          /\ Sends(v, answer)
          /\ IF answer = "done" THEN Goto(t, "record") /\ UNCHANGED <<marks, scan>> ELSE Done(t)
    BY <1>6 DEF Send
  <2>2. BookTypeOK' /\ Waiting'
    <3>1. CASE SendOrder(v, -StopPoints, answer) /\ UNCHANGED late
      <4>1. -StopPoints \in Int
        BY PointsAssumption
      <4>2. BookTypeOK'
        BY <1>a, <3>1, <4>1, SentBook
      <4> QED
        BY <1>a, <3>1, <4>2 DEF Waiting
    <3>2. CASE GivesUp("send", None, v, answer)
      BY <1>a, <3>2 DEF GivesUp, Waiting, BookTypeOK
    <3> QED
      BY <2>1, <3>1, <3>2 DEF Sends
  <2>3. CASE Done(t)
    BY <1>d, <1>e, <2>2, <2>3, KnownMoves
  <2>4. CASE pc' = [pc EXCEPT ![t] = "record"] /\ UNCHANGED scan
    <3>1. todo' \in [Tasks -> SUBSET Listed] /\ profit' \in [Tasks -> Int]
          /\ cur' = [cur EXCEPT ![t] = cur[t]]
      BY <1>a, <1>b, <2>4 DEF Typed
    <3> QED
      BY <1>b, <1>e, <2>2, <2>4, <3>1, KnownMoves
  <2> QED
    BY <2>1, <2>3, <2>4
<1>7. CASE PositionCloses \/ OperatorModifies \/ LateExecutes
  <2>1. UNCHANGED <<pc, todo, cur, profit>>
    BY <1>7 DEF PositionCloses, OperatorModifies, LateExecutes
  <2>2. BookTypeOK' /\ Waiting'
    <3>1. CASE PositionCloses
      <4>1. PICK k \in Tickets : BrokerCloses(k)
        BY <3>1 DEF PositionCloses
      <4> QED
        BY <3>1, <4>1, <1>a DEF PositionCloses, BrokerCloses, BookTypeOK, Waiting
    <3>2. CASE OperatorModifies
      <4>1. PICK k \in Tickets, s \in OperatorStops : ModifyPosition(k, s, "done")
        BY <3>2 DEF OperatorModifies
      <4> QED
        BY <3>2, <4>1, <1>a, TickAssumption, ModifiedBook DEF OperatorModifies, Answers, Waiting
    <3>3. CASE LateExecutes
      <4>1. PICK q \in late, answer \in Answers :
              /\ late' = late \ {q}
              /\ \/ q.call = "send" /\ SendOrder(q.value, -StopPoints, answer)
                 \/ q.call = "modify" /\ ModifyPosition(q.ticket, q.value, answer)
                 \/ q.call = "close" /\ ClosePosition(q.ticket, q.value, answer)
        BY <3>3 DEF LateExecutes
      <4>2. Waiting'
        BY <1>a, <4>1 DEF Waiting
      <4>3. CASE q.call = "send" /\ SendOrder(q.value, -StopPoints, answer)
        <5>1. q.value \in Lots /\ -StopPoints \in Int
          BY <1>a, <4>3, PointsAssumption DEF Waiting
        <5> QED
          BY <1>a, <4>2, <4>3, <5>1, SentBook
      <4>4. CASE q.call = "modify" /\ ModifyPosition(q.ticket, q.value, answer)
        BY <1>a, <4>2, <4>4, ModifiedBook DEF Waiting
      <4>5. CASE q.call = "close" /\ ClosePosition(q.ticket, q.value, answer)
        BY <1>a, <4>2, <4>5, ClosedBook DEF Waiting
      <4> QED
        BY <4>1, <4>3, <4>4, <4>5
    <3> QED
      BY <1>7, <3>1, <3>2, <3>3
  <2> QED
    BY <1>a, <2>1, <2>2 DEF Known, Typed
<1>8. CASE NewDay \/ UNCHANGED vars
  BY <1>8, <1>a, <1>c DEF NewDay, vars, Known, Typed
<1> QED
  BY <1>1, <1>2, <1>3, <1>4, <1>5, <1>6, <1>7, <1>8 DEF Next, Step

\* What a task knows of the stops of the positions it listed (T) or manages (c),
\* those apart that others moved since.
StopKnown(label, T, c, b, others) ==
  /\ \A p \in T : p.ticket \in OpenIn(b) \ others => b[p.ticket].stop = p.stop
  /\ label \in {"tp1", "mark", "be"} /\ c.ticket \in OpenIn(b) \ others =>
       b[c.ticket].stop = c.stop
  /\ label = "trail" /\ c.ticket \in OpenIn(b) \ others =>
       b[c.ticket].stop <= c.stop \/ b[c.ticket].stop <= BeOffset

SeenOK(t) == /\ active[t] \subseteq issued
             /\ Distinct(pc[t], todo[t], cur[t], active[t])
             /\ StopKnown(pc[t], todo[t], cur[t], book, moved[t])

SeenType == /\ active \in [Tasks -> SUBSET Tickets] /\ moved \in [Tasks -> SUBSET Tickets]
            /\ Open \subseteq issued

StopsOK == SeenType /\ \A t \in Tasks : SeenOK(t)

\* A step moves no stop.
Steady == \A k \in Open \intersect Open' : book'[k].stop = book[k].stop

LEMMA InitStops == Init => Known /\ StopsOK
  BY DEF Init, Known, BookTypeOK, Typed, Waiting, Labels, Managing, StopsOK, SeenType, SeenOK,
     Distinct, StopKnown, Open

\* What a task knows survives a step that is not its own, if it notes what it moves.
LEMMA StopsKept ==
  ASSUME StopsOK, Ages, NEW u \in Tasks,
         pc'[u] = pc[u], todo'[u] = todo[u], cur'[u] = cur[u], active'[u] = active[u],
         moved[u] \subseteq moved'[u],
         \A k \in Open \intersect Open' \intersect active[u] :
           book'[k].stop = book[k].stop \/ k \in moved'[u]
  PROVE  SeenOK(u)'
<1>1. SeenOK(u) /\ Open = OpenIn(book) /\ Open' = OpenIn(book')
  BY DEF StopsOK, Open, OpenIn
<1>2. \A k \in active[u] : k \in OpenIn(book') \ moved'[u] =>
        k \in OpenIn(book) \ moved[u] /\ book'[k].stop = book[k].stop
  BY <1>1 DEF SeenOK, Ages
<1>3. \A p \in todo[u] : p.ticket \in active[u]
  BY <1>1 DEF SeenOK, Distinct
<1>4. pc[u] \in Managing => cur[u].ticket \in active[u]
  BY <1>1 DEF SeenOK, Distinct
<1>5. StopKnown(pc'[u], todo'[u], cur'[u], book', moved'[u])
  BY <1>1, <1>2, <1>3, <1>4 DEF SeenOK, StopKnown, Managing
<1>6. active'[u] \subseteq issued' /\ Distinct(pc'[u], todo'[u], cur'[u], active'[u])
  BY <1>1 DEF SeenOK, Ages
<1> QED
  BY <1>5, <1>6 DEF SeenOK

\* Only breakeven and trailing move stops.
LEMMA OthersSteady ==
  ASSUME Known, Open \subseteq issued, NEW t \in Tasks, Step(t), ~Breakeven(t), ~Trail(t)
  PROVE  Steady
<1>1. CASE UNCHANGED book
  BY <1>1 DEF Steady
<1>2. CASE TakeProfit(t)
  <2>1. cur[t].ticket \in Tickets /\ CloseLots(cur[t].lots) \in Nat \ {0} /\ BookTypeOK
    BY <1>2, CloseLotsPositive DEF TakeProfit, Known, Managing, Listed
  <2>2. ASSUME NEW answer \in Answers,
               ClosePosition(cur[t].ticket, CloseLots(cur[t].lots), answer)
        PROVE  Steady
    BY <2>1, <2>2, ClosedBook DEF Steady
  <2> QED
    BY <1>1, <1>2, <2>2 DEF TakeProfit, Closes, GivesUp, broker
<1>3. CASE Send(t)
  <2>1. ASSUME NEW v \in Lots, NEW answer \in Answers, SendOrder(v, -StopPoints, answer)
        PROVE  Steady
    <3>1. BookTypeOK /\ -StopPoints \in Int
      BY PointsAssumption DEF Known
    <3>2. \/ UNCHANGED <<book, issued>>
          \/ \E k \in Tickets \ issued : \A l \in Tickets \ {k} : book'[l] = book[l]
      BY <2>1, <3>1, SentBook
    <3> QED
      BY <3>2 DEF Steady, Open
  <2> QED
    BY <1>1, <1>3, <2>1 DEF Send, Sends, GivesUp, broker
<1> QED
  BY <1>1, <1>2, <1>3 DEF Step, Start, List, Pick, Mark, Purge, Declines, CapCheck, Dedup,
     Record, Kill, broker

\* A step of a task leaves what another has listed.
LEMMA StepLocal ==
  ASSUME Known, StopsOK, NEW t \in Tasks, Step(t)
  PROVE  /\ \A u \in Tasks \ {t} : /\ pc'[u] = pc[u] /\ todo'[u] = todo[u]
                                   /\ cur'[u] = cur[u] /\ active'[u] = active[u]
         /\ active' \in [Tasks -> SUBSET Tickets]
<1> USE DEF Goto, scan
<1>1. /\ Typed /\ active \in [Tasks -> SUBSET Tickets] /\ Open \subseteq Tickets
  BY DEF Known, StopsOK, SeenType, Open
<1>2. CASE List(t)
  <2>1. PICK listed \in Listings \union {{}} :
          /\ UNCHANGED active \/ active' = [active EXCEPT ![t] = {c.ticket : c \in listed}]
          /\ UNCHANGED todo \/ todo' = [todo EXCEPT ![t] = listed]
          /\ \E label : pc' = [pc EXCEPT ![t] = label]
          /\ UNCHANGED cur
    BY <1>2 DEF List
  <2>2. {c.ticket : c \in listed} \subseteq Tickets
    BY <1>1 DEF Listings, Snapshot
  <2> QED
    BY <1>1, <2>1, <2>2 DEF Typed
<1>3. CASE Done(t)
  BY <1>1, <1>3 DEF Done, Typed
<1>4. CASE /\ UNCHANGED pc \/ \E label : pc' = [pc EXCEPT ![t] = label]
           /\ UNCHANGED todo \/ \E T : todo' = [todo EXCEPT ![t] = T]
           /\ UNCHANGED cur \/ (\E c : cur' = [cur EXCEPT ![t] = c])
                \/ \E s : cur' = [cur EXCEPT ![t].stop = s]
           /\ UNCHANGED active \/ active' = [active EXCEPT ![t] = {}]
  BY <1>1, <1>4 DEF Typed
<1> QED
  BY <1>2, <1>3, <1>4 DEF Step, Start, Pick, TakeProfit, Mark, Breakeven, Trail, Purge, Declines,
     CapCheck, Dedup, Send, Record, Kill

\* What the task itself knows after a step of its own.
LEMMA StepOwn ==
  ASSUME Known, Known', StopsOK, Ages, NEW t \in Tasks, Step(t)
  PROVE  SeenOK(t)'
<1> USE DEF Goto, broker, scan
<1>1. /\ Typed /\ Typed' /\ SeenType /\ SeenOK(t) /\ BookTypeOK /\ Waiting
      /\ Open = OpenIn(book) /\ Open' = OpenIn(book') /\ issued \subseteq issued'
  BY DEF Known, StopsOK, Ages, Open, OpenIn
<1>2. /\ active[t] \subseteq issued
      /\ Distinct(pc[t], todo[t], cur[t], active[t])
      /\ StopKnown(pc[t], todo[t], cur[t], book, moved[t])
  BY <1>1 DEF SeenOK
\* Nothing listed, nothing managed.
<1>3. ASSUME pc'[t] \notin Managing \union {"pick"}, todo'[t] = {},
             active'[t] \subseteq issued'
      PROVE  SeenOK(t)'
  BY <1>3 DEF SeenOK, Distinct, StopKnown, Managing
<1>4. ASSUME pc[t] \notin Managing \union {"pick"}, pc'[t] \notin Managing \union {"pick"},
             UNCHANGED <<todo, active>>
      PROVE  SeenOK(t)'
  BY <1>1, <1>2, <1>3, <1>4 DEF Distinct
<1>5. CASE Done(t)
  BY <1>1, <1>3, <1>5 DEF Done, Typed, SeenType, Managing
<1>6. CASE Start(t)
  BY <1>1, <1>4, <1>6 DEF Start, Typed, Managing
<1>7. ASSUME pc[t] \in {"account", "dedup", "send"}, UNCHANGED scan,
             \E label \in {"dedup", "send", "record"} : pc' = [pc EXCEPT ![t] = label]
      PROVE  SeenOK(t)'
  BY <1>1, <1>4, <1>7 DEF Typed, Managing
<1>8. CASE List(t)
  <2>1. PICK listed \in Listings \union {{}} :
          IF listed = {}
          THEN Goto(t, "account") /\ UNCHANGED <<todo, active>>
          ELSE /\ Goto(t, "pick") /\ todo' = [todo EXCEPT ![t] = listed]
               /\ active' = [active EXCEPT ![t] = {c.ticket : c \in listed}]
    BY <1>8 DEF List
  <2>2. pc[t] = "list" /\ UNCHANGED <<book, issued, moved>>
    BY <1>8 DEF List
  <2>3. CASE listed = {}
    BY <1>1, <1>4, <2>1, <2>2, <2>3 DEF Typed, Managing
  <2>4. CASE listed # {}
    <3>1. listed = {Snapshot(k) : k \in Open}
      BY <2>4 DEF Listings
    <3>2. \A k \in Open : Snapshot(k).ticket = k /\ Snapshot(k).stop = book[k].stop
      BY DEF Snapshot
    <3>3. /\ \A p \in listed : p.ticket \in Open /\ book[p.ticket].stop = p.stop
          /\ \A p, q \in listed : p.ticket = q.ticket => p = q
          /\ {c.ticket : c \in listed} = Open
      BY <3>1, <3>2
    <3>4. pc'[t] = "pick" /\ todo'[t] = listed /\ active'[t] = {c.ticket : c \in listed}
      BY <1>1, <2>1, <2>4 DEF Typed, SeenType
    <3>5. active'[t] \subseteq issued' /\ Distinct("pick", listed, cur'[t], active'[t])
      BY <1>1, <2>2, <3>3, <3>4 DEF Distinct, SeenType, Managing
    <3>6. StopKnown("pick", listed, cur'[t], book', moved'[t])
      BY <2>2, <3>3 DEF StopKnown
    <3> QED
      BY <3>4, <3>5, <3>6 DEF SeenOK
  <2> QED
    BY <2>3, <2>4
<1>9. CASE Pick(t)
  <2>1. PICK p \in todo[t] :
          /\ todo' = [todo EXCEPT ![t] = todo[t] \ {p}]
          /\ \/ UNCHANGED <<pc, cur>>
             \/ cur' = [cur EXCEPT ![t] = p] /\ pc' = [pc EXCEPT ![t] = "tp1"]
    BY <1>9 DEF Pick
  <2>2. pc[t] = "pick" /\ UNCHANGED <<book, issued, active, moved>>
    BY <1>9 DEF Pick
  <2>3. /\ todo'[t] = todo[t] \ {p} /\ p \in Listed
        /\ (pc'[t] = "pick" \/ (pc'[t] = "tp1" /\ cur'[t] = p))
    BY <1>1, <2>1, <2>2 DEF Typed
  <2>4. Distinct(pc'[t], todo'[t], cur'[t], active'[t])
    BY <1>2, <2>1, <2>2, <2>3 DEF Distinct, Managing
  <2>5. StopKnown(pc'[t], todo'[t], cur'[t], book', moved'[t])
    BY <1>2, <2>1, <2>2, <2>3 DEF StopKnown
  <2> QED
    BY <1>2, <2>2, <2>4, <2>5 DEF SeenOK
\* On with the same position, whose stop the step does not move.
<1>10. ASSUME pc[t] \in {"tp1", "mark"}, pc'[t] \in {"mark", "be"}, Steady,
              UNCHANGED <<todo, cur, active, moved>>
       PROVE  SeenOK(t)'
  <2>1. \A k \in active[t] : k \in OpenIn(book') => /\ k \in OpenIn(book)
                                                    /\ book'[k].stop = book[k].stop
    BY <1>1, <1>2, <1>10 DEF Steady, Ages
  <2>2. Distinct(pc'[t], todo'[t], cur'[t], active'[t])
    BY <1>2, <1>10 DEF Distinct, Managing
  <2>3. cur[t].ticket \in active[t] /\ \A p \in todo[t] : p.ticket \in active[t]
    BY <1>2, <1>10 DEF Distinct, Managing
  <2>4. StopKnown(pc'[t], todo'[t], cur'[t], book', moved'[t])
    BY <1>2, <1>10, <2>1, <2>3 DEF StopKnown
  <2> QED
    BY <1>1, <1>2, <1>10, <2>2, <2>4 DEF SeenOK
<1>11. CASE TakeProfit(t) \/ Mark(t)
  <2>1. /\ pc[t] \in {"tp1", "mark"} /\ pc'[t] \in {"mark", "be"}
        /\ UNCHANGED <<todo, cur, active, moved>>
    BY <1>1, <1>11 DEF TakeProfit, Mark, Typed
  <2>2. ~Breakeven(t) /\ ~Trail(t)
    BY <2>1 DEF Breakeven, Trail
  <2> QED
    BY <1>1, <1>10, <2>1, <2>2, OthersSteady DEF SeenType
<1>12. CASE Breakeven(t)
  <2>1. /\ pc[t] = "be" /\ pc'[t] = "trail" /\ UNCHANGED <<todo, active>>
        /\ cur[t] \in Listed /\ BeOffset \in Int /\ moved'[t] = moved[t]
    BY <1>1, <1>12, PointsAssumption DEF Breakeven, Typed, Known, Managing, Unseen
  <2>2. /\ cur[t].ticket \in Tickets /\ cur[t].ticket \in active[t] /\ cur[t].stop \in Int
        /\ \A p \in todo[t] : p.ticket # cur[t].ticket
    BY <1>2, <2>1 DEF Distinct, Managing, Listed
  <2>3. /\ \A k \in OpenIn(book) : book[k].stop \in Int
        /\ cur[t].ticket \in OpenIn(book) \ moved[t] => book[cur[t].ticket].stop = cur[t].stop
    BY <1>1, <1>2, <2>1 DEF OpenIn, BookTypeOK, Position, StopKnown
  <2>4. CASE UNCHANGED <<book, cur>>
    <3>1. Distinct("trail", todo[t], cur[t], active[t])
      BY <1>2, <2>1 DEF Distinct, Managing
    <3>2. StopKnown("trail", todo[t], cur[t], book, moved[t])
      BY <1>2, <2>1, <2>2, <2>3 DEF StopKnown
    <3> QED
      BY <1>1, <1>2, <2>1, <2>4, <3>1, <3>2 DEF SeenOK
  <2>5. ASSUME NEW answer \in Answers, BeDue(cur[t].stop, profit[t]),
               Modifies(cur[t].ticket, BeOffset, answer),
               cur' = [cur EXCEPT ![t].stop = IF answer = "error" THEN cur[t].stop ELSE BeOffset]
        PROVE  SeenOK(t)'
    <3>1. /\ Open' = Open
          /\ \A l \in Open \ {cur[t].ticket} : book'[l] = book[l]
          /\ book' = book \/ (cur[t].ticket \in Open /\ book'[cur[t].ticket].stop = BeOffset)
      BY <1>1, <2>1, <2>2, <2>5, ModifyCall
    <3>2. /\ cur'[t] \in Listed /\ cur'[t].ticket = cur[t].ticket
          /\ cur'[t].stop \in {cur[t].stop, BeOffset}
      BY <1>1, <2>1, <2>5 DEF Typed, Listed
    <3>3. Distinct("trail", todo[t], cur'[t], active[t])
      BY <1>2, <2>1, <3>2 DEF Distinct, Managing
    <3>4. \A p \in todo[t] : p.ticket \in OpenIn(book') \ moved[t] => book'[p.ticket].stop = p.stop
      BY <1>1, <1>2, <2>2, <3>1 DEF StopKnown
    <3>5. cur[t].ticket \in OpenIn(book') \ moved[t] =>
            book'[cur[t].ticket].stop \in {cur[t].stop, BeOffset}
      BY <1>1, <2>3, <3>1
    <3>6. BeOffset > cur[t].stop
      BY <2>5 DEF BeDue
    <3>7. StopKnown("trail", todo[t], cur'[t], book', moved[t])
      BY <2>1, <2>2, <3>2, <3>4, <3>5, <3>6 DEF StopKnown
    <3> QED
      BY <1>1, <1>2, <2>1, <3>3, <3>7 DEF SeenOK
  <2> QED
    BY <1>12, <2>4, <2>5 DEF Breakeven
<1>13. CASE Trail(t)
  <2>1. /\ pc[t] = "trail" /\ pc'[t] = "pick" /\ UNCHANGED <<todo, active>>
        /\ cur[t] \in Listed /\ profit[t] - TrailDistance \in Int /\ moved'[t] = moved[t]
    BY <1>1, <1>13, PointsAssumption DEF Trail, Typed, Known, Managing, Unseen
  <2>2. cur[t].ticket \in Tickets /\ \A p \in todo[t] : p.ticket # cur[t].ticket
    BY <1>2, <2>1 DEF Distinct, Managing, Listed
  <2>3. Open' = Open /\ \A l \in Open \ {cur[t].ticket} : book'[l] = book[l]
    <3>1. CASE UNCHANGED book
      BY <3>1 DEF Open
    <3>2. CASE \E answer \in Answers :
                 Modifies(cur[t].ticket, profit[t] - TrailDistance, answer)
      BY <1>1, <2>1, <2>2, <3>2, ModifyCall
    <3> QED
      BY <1>13, <3>1, <3>2 DEF Trail
  <2>4. Distinct("pick", todo[t], cur'[t], active[t])
    BY <1>2, <2>1 DEF Distinct, Managing
  <2>5. StopKnown("pick", todo[t], cur'[t], book', moved[t])
    BY <1>1, <1>2, <2>2, <2>3 DEF StopKnown
  <2> QED
    BY <1>1, <1>2, <2>1, <2>4, <2>5 DEF SeenOK
<1>14. CASE Purge(t)
  <2>1. pc'[t] = "account" /\ todo'[t] = {} /\ active'[t] = {}
    BY <1>1, <1>14 DEF Purge, Typed, SeenType
  <2> QED
    BY <1>3, <2>1 DEF Managing
<1> QED
  BY <1>5, <1>6, <1>7, <1>8, <1>9, <1>11, <1>12, <1>13, <1>14
     DEF Step, Declines, CapCheck, Dedup, Send, Record, Kill

LEMMA StepStops ==
  ASSUME Known, Known', StopsOK, [Next]_vars
  PROVE  StopsOK'
<1> USE DEF Goto, broker, scan, closing, entries, waiting
<1>1. /\ Typed /\ Typed' /\ Ages /\ SeenType /\ \A t \in Tasks : SeenOK(t)
      /\ Open = OpenIn(book) /\ Open' = OpenIn(book')
  BY StepAges DEF Known, StopsOK, Open, OpenIn
<1>2. /\ Open' \subseteq issued'
      /\ \A t \in Tasks : /\ active[t] \subseteq Tickets
                          /\ pc[t] \notin Managing \union {"pick"} => todo[t] = {}
  BY <1>1 DEF SeenType, SeenOK, Distinct, Ages
\* What an operator, a late call or another task moves is noted.
<1>3. ASSUME NEW tasks, Unseen(tasks)
      PROVE  /\ moved' \in [Tasks -> SUBSET Tickets]
             /\ \A u \in Tasks : moved[u] \subseteq moved'[u]
             /\ \A u \in Tasks \ tasks : moved'[u] = moved[u]
             /\ \A u \in Tasks \intersect tasks :
                  \A k \in Open \intersect Open' \intersect active[u] :
                    book'[k].stop = book[k].stop \/ k \in moved'[u]
  BY <1>1, <1>2, <1>3 DEF Unseen, SeenType
\* A step of nobody.
<1>4. ASSUME UNCHANGED <<pc, todo, cur, active>>, Unseen(Tasks) \/ (UNCHANGED moved /\ Steady)
      PROVE  StopsOK'
  <2>1. moved' \in [Tasks -> SUBSET Tickets]
    BY <1>1, <1>3, <1>4 DEF SeenType
  <2>2. ASSUME NEW u \in Tasks
        PROVE  SeenOK(u)'
    <3>1. /\ moved[u] \subseteq moved'[u]
          /\ \A k \in Open \intersect Open' \intersect active[u] :
               book'[k].stop = book[k].stop \/ k \in moved'[u]
      BY <1>3, <1>4 DEF Steady
    <3> QED
      BY <1>1, <1>4, <3>1, StopsKept
  <2> QED
    BY <1>1, <1>2, <1>4, <2>1, <2>2 DEF StopsOK, SeenType
<1>5. CASE PositionCloses
  <2>1. Steady
    BY <1>5 DEF PositionCloses, BrokerCloses, Known, BookTypeOK, Steady, Open
  <2> QED
    BY <1>4, <1>5, <2>1 DEF PositionCloses
<1>6. CASE OperatorModifies \/ LateExecutes
  BY <1>4, <1>6 DEF OperatorModifies, LateExecutes
<1>7. CASE NewDay \/ UNCHANGED vars
  BY <1>4, <1>7 DEF NewDay, vars, Steady
<1>8. ASSUME NEW t \in Tasks, Step(t)
      PROVE  StopsOK'
  <2>1. /\ \A u \in Tasks \ {t} : /\ pc'[u] = pc[u] /\ todo'[u] = todo[u]
                                  /\ cur'[u] = cur[u] /\ active'[u] = active[u]
        /\ active' \in [Tasks -> SUBSET Tickets]
    BY <1>8, StepLocal
  <2>2. /\ moved' \in [Tasks -> SUBSET Tickets]
        /\ \A u \in Tasks \ {t} :
             /\ moved[u] \subseteq moved'[u]
             /\ \A k \in Open \intersect Open' \intersect active[u] :
                  book'[k].stop = book[k].stop \/ k \in moved'[u]
    <3>1. CASE Breakeven(t) \/ Trail(t)
      BY <1>3, <3>1 DEF Breakeven, Trail
    <3>2. CASE ~(Breakeven(t) \/ Trail(t))
      <4>1. Steady
        BY <1>1, <1>8, <3>2, OthersSteady DEF SeenType
      <4>2. moved' = moved \/ moved' = [moved EXCEPT ![t] = {}]
        BY <1>8, <3>2 DEF Step, Start, List, Pick, TakeProfit, Mark, Purge, Declines, CapCheck,
           Dedup, Send, Record, Kill, Done
      <4> QED
        BY <1>1, <4>1, <4>2 DEF Steady, SeenType
    <3> QED
      BY <3>1, <3>2
  <2>3. ASSUME NEW u \in Tasks \ {t}
        PROVE  SeenOK(u)'
    BY <1>1, <2>1, <2>2, StopsKept
  <2>4. SeenOK(t)'
    BY <1>1, <1>2, <1>8, StepOwn
  <2> QED
    BY <1>1, <1>2, <2>1, <2>2, <2>3, <2>4 DEF StopsOK, SeenType
<1> QED
  BY <1>5, <1>6, <1>7, <1>8 DEF Next

(***************************************************************************)
(* With any number of overlapping tasks, an operator who moves stops,      *)
(* silent listings, calls that execute late and kills: breakeven and       *)
(* trailing lower a stop only when something else moved it since the task  *)
(* listed the position, for any distances that put the lowest trailing     *)
(* stop at or above the breakeven stop.                                    *)
(***************************************************************************)
THEOREM LoosenedUnseen == Spec => LoosenedOnlyUnseen
<1> DEFINE Tightens(t) == (pc[t] \in {"be", "trail"} /\ pc'[t] # pc[t]) =>
                         \A k \in (Open \intersect Open') \ moved[t] : book'[k].stop >= book[k].stop
<1>1. ASSUME Known, StopsOK, [Next]_vars, NEW t \in Tasks
      PROVE  Tightens(t)
  <2> SUFFICES ASSUME pc[t] \in {"be", "trail"}, pc'[t] # pc[t],
                      NEW k \in (Open \intersect Open') \ moved[t]
               PROVE  book'[k].stop >= book[k].stop
    OBVIOUS
  <2>1. /\ cur[t] \in Listed /\ cur[t].ticket \in Tickets /\ cur[t].stop \in Int
        /\ profit[t] \in Int /\ BookTypeOK /\ Waiting /\ BeOffset \in Int
        /\ StopKnown(pc[t], todo[t], cur[t], book, moved[t]) /\ Open = OpenIn(book)
    BY <1>1, PointsAssumption DEF Known, Typed, Managing, Listed, StopsOK, SeenOK, Open, OpenIn
  <2>2. book[k].stop \in Int
    BY <2>1 DEF Open, BookTypeOK, Position
  <2>3. ASSUME NEW s \in Int, NEW answer \in Answers, Modifies(cur[t].ticket, s, answer),
               k = cur[t].ticket => book[k].stop <= s
        PROVE  book'[k].stop >= book[k].stop
    <3>1. /\ k # cur[t].ticket => book'[k] = book[k]
          /\ book' = book \/ book'[cur[t].ticket].stop = s
      BY <2>1, <2>3, ModifyCall
    <3> QED
      BY <2>2, <2>3, <3>1
  <2>4. CASE Breakeven(t)
    <3>1. pc[t] = "be" /\ (k = cur[t].ticket => book[k].stop = cur[t].stop)
      BY <2>1, <2>4 DEF Breakeven, StopKnown
    <3> QED
      BY <2>1, <2>2, <2>3, <2>4, <3>1 DEF Breakeven, BeDue, broker
  <2>5. CASE Trail(t)
    <3> DEFINE s == profit[t] - TrailDistance
    <3>1. /\ pc[t] = "trail" /\ s \in Int
          /\ k = cur[t].ticket => book[k].stop <= cur[t].stop \/ book[k].stop <= BeOffset
      BY <2>1, <2>5, PointsAssumption DEF Trail, StopKnown
    <3>2. CASE TrailDue(cur[t].stop, profit[t])
      <4>1. PICK answer \in Answers : Modifies(cur[t].ticket, s, answer)
        BY <2>5, <3>2 DEF Trail
      <4>2. s > cur[t].stop /\ s >= BeOffset
        BY <2>1, <3>2, PointsAssumption DEF TrailDue
      <4> QED
        BY <2>1, <2>2, <2>3, <3>1, <4>1, <4>2
    <3>3. CASE ~TrailDue(cur[t].stop, profit[t])
      BY <2>2, <2>5, <3>3 DEF Trail, broker
    <3> QED
      BY <3>2, <3>3
  <2>6. Breakeven(t) \/ Trail(t) \/ UNCHANGED book
    <3>1. PICK u \in Tasks : Step(u)
      BY <1>1 DEF Next, PositionCloses, OperatorModifies, LateExecutes, NewDay, vars
    <3>2. u = t
      BY <1>1, <3>1, StepLocal
    <3> QED
      BY <3>1, <3>2 DEF Step, Start, List, Pick, TakeProfit, Mark, Purge, Declines, CapCheck,
                 Dedup, Send, Record, Kill, broker
  <2> QED
    BY <2>2, <2>4, <2>5, <2>6
<1>2. Known /\ StopsOK /\ [Next]_vars => [\A t \in Tasks : Tightens(t)]_vars
  BY <1>1
<1>3. Known /\ [Next]_vars => Known'
  BY StepKnown
<1>4. Known /\ Known' /\ StopsOK /\ [Next]_vars => StopsOK'
  BY StepStops
<1> QED
  BY <1>2, <1>3, <1>4, InitStops, PTL DEF Spec, LoosenedOnlyUnseen
=============================================================================
