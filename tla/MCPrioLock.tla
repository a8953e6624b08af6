---------------------------- MODULE MCPrioLock ----------------------------
(* Three threads at two levels, two of them sharing the less urgent one.   *)
EXTENDS PrioLock, TLC

CONSTANTS t1, t2, t3

MCThreads == {t1, t2, t3}
MCOrig == (t1 :> 0) @@ (t2 :> 1) @@ (t3 :> 1)
===========================================================================
