---------------------------- MODULE MCUtfNetwork ----------------------------
(* Groups for UtfNetwork: boxes of nodes and boxes without their last      *)
(* node, on axes of every length up to seven, one to three processes on a  *)
(* node with ranks by node or round the nodes, barrier gates or shared     *)
(* memory within a node.                                                   *)
EXTENDS UtfNetwork

Sizes == {<<7, 1, 1>>, <<6, 1, 1>>, <<5, 1, 1>>, <<1, 4, 1>>, <<3, 2, 1>>, <<2, 2, 2>>,
          <<1, 3, 3>>, <<3, 3, 1>>, <<5, 2, 1>>, <<2, 1, 5>>, <<2, 3, 2>>}

(* the nodes are numbered along X, then Y, then Z                          *)
Coordinates(size, n) ==
  <<n % size[1], (n \div size[1]) % size[2], n \div (size[1] * size[2])>>

(* the physical order of the nodes runs along X from the other end         *)
Physical(size, n) ==
  LET c == Coordinates(size, n) IN <<c[3], c[2], size[1] - 1 - c[1], 0, 0, 0>>

GroupOf(size, nodes, procs, cyclic, tofu) ==
  LET NodeOf(r) == IF cyclic THEN r % nodes ELSE r \div procs
      ranks == 0 .. nodes * procs - 1
  IN  [rs |-> [k \in 1 .. nodes * procs |-> k - 1],
       vname |-> [r \in ranks |-> [xyz |-> Coordinates(size, NodeOf(r)),
                                    xyzabc |-> Physical(size, NodeOf(r))]],
       tofu |-> tofu, ppn |-> procs, hb |-> 4]

Volume(size) == size[1] * size[2] * size[3]

MCGroups ==
  {G \in {GroupOf(s, Volume(s) - gap, p, FALSE, p = 1) :
             s \in Sizes, gap \in {0, 1}, p \in {1, 2}}
         \cup {GroupOf(s, Volume(s) - gap, p, cyclic, TRUE) :
                 s \in {<<5, 1, 1>>, <<1, 4, 1>>, <<3, 2, 1>>}, gap \in {0, 1},
                 p \in {2, 3}, cyclic \in BOOLEAN} :
     Usable(G)}
=============================================================================
