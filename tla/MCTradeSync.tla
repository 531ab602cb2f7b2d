---------------------------- MODULE MCTradeSync ----------------------------
(***************************************************************************)
(* TLC instances of TradeSync: one position of up to two lots that can be  *)
(* closed in two parts and one limit order.                                *)
(***************************************************************************)
EXTENDS TradeSync

MCLots == {1, 2}
MCPrices == {2}
============================================================================
