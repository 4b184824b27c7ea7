----------------------------- MODULE MCUtfEager -----------------------------
(* Instances of UtfEager for TLC: who sends to whom.                       *)
EXTENDS UtfEagerInv

PairDests   == [p \in Rank |-> IF p = 0 THEN {1} ELSE {}]
FanOutDests == [p \in Rank |-> IF p = 0 THEN Rank \ {0} ELSE {}]

(* rank 0 is asked by two, of which the last asks both of the others       *)
CrowdDests  == [p \in Rank |-> {q \in Rank : q < p}]

=============================================================================
