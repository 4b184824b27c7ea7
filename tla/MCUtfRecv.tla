------------------------------ MODULE MCUtfRecv ------------------------------
(* Instances of UtfRecv for TLC.                                           *)
EXTENDS UtfRecv

OnePkt  == [rndz |-> FALSE, size |-> 1]
TwoPkts == [rndz |-> FALSE, size |-> 2]
TwoGets == [rndz |-> TRUE, size |-> 2]
ThreeGets == [rndz |-> TRUE, size |-> 3]

(* the last part of ThreeGets does not fit into a buffer of two            *)
LongKinds  == {TwoPkts, ThreeGets}
AllKinds   == {OnePkt, TwoPkts, TwoGets}

ExactArgs == Srcs \X Tags \X {2}
WildArgs  == ExactArgs \cup {<<ANY, ANY, 2>>}

(* bound of RecvMatch: two messages of source 1, one of source 2           *)
ThreeSent == Len(sent[2]) <= 1
=============================================================================
