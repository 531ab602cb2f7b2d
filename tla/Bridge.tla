------------------------------- MODULE Bridge -------------------------------
(***************************************************************************)
(* The MT5 bridge's trading calls as its HTTP clients see them: the open   *)
(* positions of one account under one magic number and symbol, and for     *)
(* each call what the account does and what the client is told.            *)
(*                                                                         *)
(* The client is told "done" (success is true), "refused" (a response      *)
(* whose success is false) or "error" (an exception: connection, timeout,  *)
(* 404, 500).  The bridge reports success for retcode 10009 only, so a     *)
(* partly filled order (10010) is "refused" although it traded.  An        *)
(* "error" may be a response that was lost after the order executed.       *)
(*                                                                         *)
(* A stop is given by the profit, in points, at which it closes the        *)
(* position: the buy and the sell formulas of the code are the same there. *)
(***************************************************************************)
EXTENDS Integers, FiniteSets

CONSTANTS Tickets,      \* position tickets the account can issue
          Lots,         \* order volumes, in 0.01 lot
          LostReplies,  \* can a response be lost after the order executed?
          SilentList,   \* can positions_get fail inside a live bridge?
          None

ASSUME LotsAssumption == Lots \subseteq Nat \ {0}
ASSUME ReplyAssumption == LostReplies \in BOOLEAN /\ SilentList \in BOOLEAN
ASSUME NoneAssumption == None \notin [lots : Nat \ {0}, stop : Int]

VARIABLES book,   \* book[t]: the open position with ticket t, or None
          issued  \* tickets ever issued; MT5 never issues one twice

Position == [lots : Nat \ {0}, stop : Int]

Answers == {"done", "refused", "error"}

Open == {t \in Tickets : book[t] # None}

BookTypeOK == /\ book \in [Tickets -> Position \union {None}]
              /\ issued \subseteq Tickets

\* The order executed and its response did not arrive (the client's 30 s timeout).
Lost(answer) == LostReplies /\ answer = "error"

\* What a listed position says at the time it was listed.
Snapshot(t) == [ticket |-> t, lots |-> book[t].lots, stop |-> book[t].stop]

(***************************************************************************)
(* get_open_positions: every open position; when positions_get fails the   *)
(* bridge answers with the empty list, not with an error.                  *)
(***************************************************************************)
Listings == {{Snapshot(t) : t \in Open}} \union (IF SilentList THEN {{}} ELSE {})

Added(t, v, s) == /\ book' = [book EXCEPT ![t] = [lots |-> v, stop |-> s]]
                  /\ issued' = issued \union {t}

\* send_order, a market order: filled, refused, refused but partly filled, or lost.
SendOrder(v, s, answer) ==
  \/ /\ answer \in {"refused", "error"}
     /\ UNCHANGED <<book, issued>>
  \/ \E t \in Tickets \ issued :
       \/ answer = "done" /\ Added(t, v, s)
       \/ answer = "refused" /\ \E part \in 1 .. v - 1 : Added(t, part, s)
       \/ Lost(answer) /\ Added(t, v, s)

\* modify_position: an unknown ticket is a 404, so an "error".
ModifyPosition(t, s, answer) ==
  /\ UNCHANGED issued
  /\ \/ answer = "error" /\ UNCHANGED book
     \/ t \in Open /\ answer = "refused" /\ UNCHANGED book
     \/ /\ t \in Open
        /\ answer = "done" \/ Lost(answer)
        /\ book' = [book EXCEPT ![t].stop = s]

Rest(p, v) == IF v = p.lots THEN None ELSE [lots |-> p.lots - v, stop |-> p.stop]

Reduced(t, v) == book' = [book EXCEPT ![t] = Rest(book[t], v)]

\* close_position: a volume above the position's is refused, part of it may fill.
ClosePosition(t, v, answer) ==
  /\ UNCHANGED issued
  /\ \/ answer = "error" /\ UNCHANGED book
     \/ t \in Open /\ answer = "refused" /\ UNCHANGED book
     \/ /\ t \in Open /\ v <= book[t].lots
        /\ \/ answer = "done" /\ Reduced(t, v)
           \/ answer = "refused" /\ \E part \in 1 .. v - 1 : Reduced(t, part)
           \/ Lost(answer) /\ Reduced(t, v)

\* The broker's own stop or target, or an operator closing it in the terminal.
BrokerCloses(t) == /\ t \in Open
                   /\ book' = [book EXCEPT ![t] = None]
                   /\ UNCHANGED issued
=============================================================================
