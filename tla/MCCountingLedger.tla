-------------------------- MODULE MCCountingLedger --------------------------
(* The counting filter under the documented discipline, on a small instance. *)
EXTENDS CountingLedger, FilterInstance

MCWidthMax == [w \in {2, 8} |-> MCCounterMax[w]]
=============================================================================
