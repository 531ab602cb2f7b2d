---------------------------- MODULE MCSupervise ----------------------------
(***************************************************************************)
(* TLC instance of Supervise: it gives up at the fifth failed check, and   *)
(* the fourth wait is at the ceiling.                                      *)
(***************************************************************************)
EXTENDS Supervise

MCMaxFailures == 5
============================================================================
