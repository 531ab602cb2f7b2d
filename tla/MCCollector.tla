---------------------------- MODULE MCCollector ----------------------------
(***************************************************************************)
(* TLC instance of Collector: two timeframes of different length, and a    *)
(* latency, so that boundaries of both come at once, alone, in a nap and   *)
(* in a round.                                                             *)
(***************************************************************************)
EXTENDS Collector

MCTimeframes == {"M15", "H1"}
MCPeriod == [tf \in MCTimeframes |-> IF tf = "M15" THEN 2 ELSE 4]
============================================================================
