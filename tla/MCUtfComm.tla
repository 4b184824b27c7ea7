------------------------------ MODULE MCUtfComm ------------------------------
(* An instance of UtfComm for TLC: four ranks, so that a barrier of all    *)
(* goes over the gates, seen from rank 0.                                  *)
EXTENDS UtfComm, TLC

FourRanks == <<0, 1, 2, 3>>
SomeLists == {<<>>, <<2, 0>>}

(* no definition tells handles apart                                       *)
Handles == Permutations(Comms) \cup Permutations(Groups)
=============================================================================
