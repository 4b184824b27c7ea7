----------------------------- MODULE MCUtfGates -----------------------------
(* Jobs of six processes for UtfGates.                                     *)
EXTENDS UtfGates

SixProcs == 0 .. 5
WorldSet == <<0, 1, 2, 3, 4, 5>>

(* nodes along X, node[r + 1] the one of rank r                            *)
Place(node) ==
  [r \in SixProcs |-> [xyz |-> <<node[r + 1], 0, 0>>,
                       xyzabc |-> <<0, 0, node[r + 1], 0, 0, 0>>]]

JobOf(node, tofu, ppn, groups, tnis, starts, relays) ==
  [vname |-> Place(node), tofu |-> tofu, ppn |-> ppn, hb |-> 4, groups |-> groups,
   tnis |-> tnis, starts |-> starts, relays |-> relays]

OnePerNode == <<0, 1, 2, 3, 4, 5>>
TwoPerNode == <<0, 0, 1, 1, 2, 2>>
ThreeAndOne == <<0, 0, 0, 1, 2, 3>>

(* a line of nodes and enough gates                                        *)
Line == JobOf(OnePerNode, TRUE, 1, <<WorldSet>>, 1, 1, 3)

(* gates for the outer processes of MPI_COMM_WORLD only                    *)
NoneForWorld == JobOf(OnePerNode, TRUE, 1, <<WorldSet, <<4, 3, 2, 1, 0>>>>, 1, 1, 1)

(* gates for MPI_COMM_WORLD, and for one other group on most nodes         *)
FewForSecond == JobOf(OnePerNode, TRUE, 1, <<WorldSet, <<4, 3, 2, 1, 0>>>>, 1, 2, 4)

(* a group that takes gates another one has released                       *)
Again == JobOf(OnePerNode, TRUE, 1, <<WorldSet, <<0, 1, 2, 3>>, <<2, 3, 4, 5>>>>, 1, 2, 5)

(* gates within nodes, on two TNIs                                         *)
Couples == JobOf(TwoPerNode, TRUE, 2, <<WorldSet, <<5, 4, 3, 2, 1, 0>>>>, 2, 2, 8)

(* shared memory within a node; another process becomes its manager        *)
Shared == JobOf(ThreeAndOne, FALSE, 3, <<WorldSet, <<1, 0, 3, 4, 5>>>>, 2, 1, 4)

AllJobs == {Line, NoneForWorld, FewForSecond, Again, Couples, Shared}
=============================================================================
