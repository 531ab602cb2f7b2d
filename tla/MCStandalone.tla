---------------------------- MODULE MCStandalone ---------------------------
(***************************************************************************)
(* TLC instance of Standalone: the inputs of the sizer that are ranges.    *)
(***************************************************************************)
EXTENDS Standalone

MCBudgets == -1..50
MCStops == 0..5
MCCaps == 1..22
============================================================================
