----------------------------- MODULE MCPrSleepQ -----------------------------
(***************************************************************************)
(* Instances of PrSleepQ for TLC.                                          *)
(***************************************************************************)
EXTENDS PrSleepQ, TLC

CONSTANTS s1, s2, s3
=============================================================================
