--------------------------- MODULE MCPrInnerLocks ---------------------------
(***************************************************************************)
(* Instances of PrInnerLocks for TLC.                                      *)
(***************************************************************************)
EXTENDS PrInnerLocks, TLC

CONSTANTS t1, t2, n1

EqualPriorities == [t \in Threads |-> 1]
=============================================================================
