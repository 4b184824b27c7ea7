----------------------------- MODULE UtfNetwork -----------------------------
(***************************************************************************)
(* One barrier over the network that the members of a group compute, each  *)
(* on its own: everybody has called utf_barrier except one late member,    *)
(* which then calls too.  A gate passes its signal on when the signals of  *)
(* all its sources have come; the barrier ends for a member when those of  *)
(* its end gate have.                                                      *)
(***************************************************************************)
EXTENDS UtfButterfly

CONSTANT Groups  \* the groups, as records of UtfButterfly

ASSUME GroupsUsable == \A G \in Groups : Usable(G)

VARIABLES
  group,  \* the group
  net,    \* the network its members have computed
  late    \* the members that have not called utf_barrier yet

vars == <<group, net, late>>

Gates == UNION {{<<i, g>> : g \in DOMAIN net[i].gates} : i \in DOMAIN net}

StartGates == {v \in Gates : v[2] = 0}

(* where the signals of a gate come from                                   *)
Sources(v) ==
  (LET g == net[v[1]].gates[v[2]].src_lcl
   IN  IF g = NULL THEN {} ELSE {<<v[1], g>>})
  \cup (LET w == src_rmt_vbg(net, v[1], v[2])
        IN  IF w = <<>> THEN {} ELSE {w})

Destinations(v) ==
  (LET g == net[v[1]].gates[v[2]].dst_lcl
   IN  IF g = NULL THEN {} ELSE {<<v[1], g>>})
  \cup (LET w == dst_rmt_vbg(net, v[1], v[2])
        IN  IF w = <<>> THEN {} ELSE {w})

(* the gates that have sent their signals                                  *)
Sent ==
  LET sources == [v \in Gates |-> Sources(v)]
      More(S) == S \cup {v \in Gates \ StartGates : sources[v] \subseteq S}
      Closure[S \in SUBSET Gates] == IF More(S) = S THEN S ELSE Closure[More(S)]
  IN  Closure[{v \in StartGates : v[1] \notin late}]

(* the members that find the barrier completed                             *)
Completed ==
  LET sent == Sent IN {i \in DOMAIN net : Sources(<<i, 0>>) \subseteq sent}

-----------------------------------------------------------------------------
Init ==
  /\ group \in Groups
  /\ net = Network(group)
  /\ late \in {{i} : i \in DOMAIN net}

utf_barrier(i) ==
  /\ i \in late
  /\ late' = late \ {i}
  /\ UNCHANGED <<group, net>>

Next == \E i \in DOMAIN net : utf_barrier(i)

Spec == Init /\ [][Next]_vars

-----------------------------------------------------------------------------
(* The two ends of every connection agree, though each member derives its  *)
(* own: a gate is a destination of exactly the gates it has as sources.    *)
(* The gates of a member are its start gate and the relay gates that       *)
(* make_butterfly_network counts in halves from the zones of its axes: the *)
(* optimized sequence leaves no gate without use and drops none.           *)
Connected ==
  /\ \A v, w \in Gates : w \in Destinations(v) <=> v \in Sources(w)
  /\ \A i \in DOMAIN net :
       net[i].relays = 2 * (Cardinality(DOMAIN net[i].gates) - 1)

(* A barrier completes for nobody before the last member has come, and for *)
(* everybody then.                                                         *)
BarrierExact == Completed = IF late = {} THEN DOMAIN net ELSE {}
=============================================================================
