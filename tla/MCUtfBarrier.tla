---------------------------- MODULE MCUtfBarrier ----------------------------
(* Instances of UtfBarrierSM for TLC.                                      *)
EXTENDS UtfBarrierSM, TLC

CONSTANTS n1, n2

FiveAndOne == n1 :> 5 @@ n2 :> 1
TwoAlone == n1 :> 2
ReduceBarrierReduce == <<"reduce", "barrier", "reduce">>
TwoBarriers == <<"barrier", "barrier">>
=============================================================================
