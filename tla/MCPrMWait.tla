------------------------------ MODULE MCPrMWait ------------------------------
(***************************************************************************)
(* Instances of PrMWait for TLC.                                           *)
(***************************************************************************)
EXTENDS PrMWait, TLC

CONSTANTS w1, w2, w3, m, ioCv, newCv, manageCv, d1, d2

LockOf == [c \in CVars |-> Ml]
=============================================================================
