---------------------------- MODULE UtfButterfly ----------------------------
(***************************************************************************)
(* The butterfly network of barrier gates that utf_bg_alloc computes for a *)
(* group, every member on its own, from the coordinates of all members     *)
(* (make_axes_and_intra_node_infos, make_butterfly_network, set_local_vbg, *)
(* make_bginfo).  A group is a record                                      *)
(*    rs     the rankset, a sequence of ranks in MPI_COMM_WORLD            *)
(*    vname  per rank its logical and its physical coordinates             *)
(*    tofu   whether gates are used within a node too (UTF_BG_TOFU)        *)
(*    ppn    the largest number of processes of the job on a node          *)
(*    hb     UTF_BG_MAX_INTRA_NODE_PROCS_FOR_HB                            *)
(* Members are named by their index in the rankset, from 0 on; gates of a  *)
(* member by their number, from 0 on, 0 being its start and end gate.      *)
(***************************************************************************)
EXTENDS Integers, Sequences, FiniteSets, Functions

Members(G) == 0 .. Len(G.rs) - 1

RankOf(G, i) == G.rs[i + 1]

(* the physical coordinates, in the order z y x b c a, are the node's ID   *)
Nodeid(G, i) == G.vname[RankOf(G, i)].xyzabc

Log3d(G, i) == G.vname[RankOf(G, i)].xyz

Nodeids(G) == {Nodeid(G, i) : i \in Members(G)}

OnNode(G, n) == {i \in Members(G) : Nodeid(G, i) = n}

(* the k-th element, from 0 on, of a set of numbers                        *)
Nth(S, k) == CHOOSE x \in S : Cardinality({y \in S : y < x}) = k

(* sort_nodeinfo_by_phy_6d_addr                                            *)
PhysLess(u, v) ==
  \E k \in 1 .. 6 : u[k] < v[k] /\ \A j \in 1 .. k - 1 : u[j] = v[j]

-----------------------------------------------------------------------------
(* the number of members of the same node before i in the rankset          *)
IntraIndex(G, i) ==
  Cardinality({j \in OnNode(G, Nodeid(G, i)) : j < i})

IsManager(G, i) == IntraIndex(G, i) = 0

TargetIndex(G, i) == IF G.ppn >= 2 THEN IntraIndex(G, i) ELSE 0

(* the member of node n that i exchanges signals with                      *)
PeerOn(G, i, n) ==
  LET procs == OnNode(G, n)
      t == TargetIndex(G, i)
  IN  Nth(procs, IF t < Cardinality(procs) THEN t ELSE 0)

(* why no gates can be used by the group                                   *)
Errcase(G) ==
  LET sizes == {Cardinality(OnNode(G, n)) : n \in Nodeids(G)}
  IN  (IF G.tofu /\ Cardinality(sizes) > 1 THEN {"UNMATCH_PROC"} ELSE {})
      \cup (IF ~ G.tofu /\ Cardinality(Nodeids(G)) < 4 THEN {"TOO_FEW_NODE"}
            ELSE {})
      \cup (IF G.tofu /\ \E s \in sizes : s > G.hb THEN {"TOO_MANY_PROC"} ELSE {})

-----------------------------------------------------------------------------
(* The axes: 0 within the node, 1 to 3 along X, Y and Z.                   *)
IN_NODE == 0
Axes == 1 .. 3

Others(a) == Axes \ {a}

(* COMPARE_LOGADDR                                                         *)
OnAxis(G, i, j, a) ==
  /\ Log3d(G, i)[a] # Log3d(G, j)[a]
  /\ \A b \in Others(a) : Log3d(G, i)[b] = Log3d(G, j)[b]

Extent(G, a) ==
  LET coords == {Log3d(G, i)[a] : i \in Members(G)}
      top == CHOOSE c \in coords : \A d \in coords : d <= c
      bottom == CHOOSE c \in coords : \A d \in coords : c <= d
  IN  top - bottom + 1

(* the nodes fill a box                                                    *)
Hexa(G) == Cardinality(Nodeids(G)) = Extent(G, 1) * Extent(G, 2) * Extent(G, 3)

(* who is on an axis of member i: i and the peers on the nodes along it,   *)
(* all nodes along X if they do not fill a box                             *)
AxisMembers(G, i, a) ==
  IF a = IN_NODE THEN OnNode(G, Nodeid(G, i))
  ELSE LET far == {j \in Members(G) : /\ Nodeid(G, j) # Nodeid(G, i)
                                      /\ j = PeerOn(G, i, Nodeid(G, j))}
       IN  IF Hexa(G) THEN {i} \cup {j \in far : OnAxis(G, i, j, a)}
           ELSE IF a = 1 THEN {i} \cup far
           ELSE {}

(* the position of member j among the members of an axis: rank order       *)
(* within the node, order of the physical coordinates between nodes        *)
AxisIndex(G, S, a, j) ==
  Cardinality({k \in S : IF a = IN_NODE THEN k < j
                         ELSE PhysLess(Nodeid(G, k), Nodeid(G, j))})

AxisAt(G, S, a, x) == CHOOSE j \in S : AxisIndex(G, S, a, j) = x

-----------------------------------------------------------------------------
(* Signals along one axis of a given size, by position (make_sequence).    *)
(* NOOP and UNNECESSARY stand for no peer.                                 *)
NOOP == -1
UNNECESSARY == -3

NoPeer(x) == x < 0

(* number_gates_of_poweroftwo                                              *)
Log2(size) == CHOOSE g \in 0 .. size : 2 ^ g <= size /\ size < 2 ^ (g + 1)

PowerOfTwo(size) == 2 ^ Log2(size) = size

On(size) == (size - 2 ^ Log2(size)) \div 2

Off(size) == On(size) + 2 ^ Log2(size)

NumberGates(size) == Log2(size) + IF PowerOfTwo(size) THEN 0 ELSE 2

(* get_my_zone                                                             *)
Zone(size, x) ==
  IF x < On(size) \/ Off(size) <= x THEN "EAR"
  ELSE IF On(size) * 2 <= x /\ x < size - (size - Off(size)) * 2 THEN "FACE"
  ELSE "CHEEK"

(* mutant: the same bit in every step                                      *)
PairFixed(size, x, k) ==
  LET d == x - On(size)
      bit == 2 ^ (Log2(size) - 1)
  IN  On(size) + IF d < bit THEN d + bit ELSE d - bit

(* GET_PAIR_OF_POWEROFTWO                                                  *)
Pair(size, x, k) ==
  LET d == x - On(size)
      bit == 2 ^ (Log2(size) - k)
  IN  On(size) + IF (d \div bit) % 2 = 0 THEN d + bit ELSE d - bit

(* mutant: the right side is taken to be as wide as the left one           *)
BesideSame(size, x) ==
  IF x < On(size) \/ (On(size) * 2 <= x /\ x < Off(size)) THEN x + On(size) ELSE x - On(size)

(* the position an ear hands its part to, and a cheek takes one over from  *)
Beside(size, x) ==
  LET right == size - Off(size)
  IN  CASE x < On(size) -> x + On(size)
        [] x < On(size) * 2 -> x - On(size)
        [] x < Off(size) -> x + right
        [] OTHER -> x - right

Pairs(size, x) == [k \in 1 .. Log2(size) |-> Pair(size, x, k)]

Nobody(n) == [k \in 1 .. n |-> NOOP]

sendtable(size, x) ==
  IF PowerOfTwo(size) THEN Pairs(size, x)
  ELSE CASE Zone(size, x) = "EAR" -> <<Beside(size, x)>> \o Nobody(Log2(size) + 1)
         [] Zone(size, x) = "CHEEK" -> <<NOOP>> \o Pairs(size, x) \o <<Beside(size, x)>>
         [] OTHER -> <<NOOP>> \o Pairs(size, x) \o <<NOOP>>

recvtable(size, x) ==
  IF PowerOfTwo(size) THEN Pairs(size, x)
  ELSE CASE Zone(size, x) = "EAR" -> Nobody(Log2(size) + 1) \o <<Beside(size, x)>>
         [] Zone(size, x) = "CHEEK" -> <<Beside(size, x)>> \o Pairs(size, x) \o <<NOOP>>
         [] OTHER -> <<NOOP>> \o Pairs(size, x) \o <<NOOP>>

-----------------------------------------------------------------------------
(* The sequence of a member: rows of whom it receives from before it sends *)
(* (initialize_sequence), along every axis on which it is not alone.       *)
AxisRows(G, i, a) ==
  LET S == AxisMembers(G, i, a)
      size == Cardinality(S)
      x == AxisIndex(G, S, a, i)
      gates == NumberGates(size)
      Info(y) == CASE ~ NoPeer(y) -> AxisAt(G, S, a, y)
                   [] Zone(size, x) = "EAR" -> UNNECESSARY
                   [] OTHER -> NOOP
  IN  IF size <= 1 THEN <<>>
      ELSE [k \in 1 .. gates + 1 |->
             [recv |-> IF k = 1 THEN NOOP ELSE Info(recvtable(size, x)[k - 1]),
              send |-> IF k = gates + 1 THEN NOOP ELSE Info(sendtable(size, x)[k])]]

AllRows(G, i) ==
  (IF G.tofu THEN AxisRows(G, i, IN_NODE) ELSE <<>>)
  \o AxisRows(G, i, 1) \o AxisRows(G, i, 2) \o AxisRows(G, i, 3)

Idle(row) == NoPeer(row.recv) /\ NoPeer(row.send)

(* optimized_sequence, step 1: the rows that are linked                    *)
LinkedRows(rows) ==
  LET n == Len(rows)
      first == IF Idle(rows[1]) /\ NoPeer(rows[2].recv) THEN 2 ELSE 1
      kept == SelectSeq([k \in 1 .. n - 1 |-> k],
                        LAMBDA k : k = first \/ (k > first /\ ~ Idle(rows[k])))
      curr == rows[kept[Len(kept)]]
  IN  IF Idle(rows[n]) /\ NoPeer(curr.send) THEN kept ELSE Append(kept, n)

(* step 2: a row that only receives takes the send of the next row over    *)
Absorbs(rows, linked, k) ==
  /\ k \in 1 .. Len(linked) - 1
  /\ ~ NoPeer(rows[linked[k]].recv) /\ NoPeer(rows[linked[k]].send)
  /\ NoPeer(rows[linked[k + 1]].recv) /\ ~ NoPeer(rows[linked[k + 1]].send)

optimized_sequence(rows) ==
  LET linked == LinkedRows(rows)
      into(r) == {k \in DOMAIN linked : linked[k] = r /\ Absorbs(rows, linked, k)}
      left == SelectSeq([k \in DOMAIN linked |-> k],
                        LAMBDA k : ~ Absorbs(rows, linked, k - 1))
  IN  [rows |-> [r \in DOMAIN rows |->
                  IF into(r) = {} THEN rows[r]
                  ELSE [rows[r] EXCEPT !.send =
                          rows[linked[(CHOOSE k \in into(r) : TRUE) + 1]].send]],
       list |-> [m \in DOMAIN left |-> linked[left[m]]]]

-----------------------------------------------------------------------------
(* Gates counted before there is a sequence (make_butterfly_network), in   *)
(* halves: a relay gate takes in on one side and sends on the other.       *)

(* the axes with other members, in their order                             *)
BusyAxes(G, i) ==
  SelectSeq(IF G.tofu THEN <<IN_NODE, 1, 2, 3>> ELSE <<1, 2, 3>>,
            LAMBDA a : Cardinality(AxisMembers(G, i, a)) > 1)

MyZone(G, i, a) ==
  LET S == AxisMembers(G, i, a) IN Zone(Cardinality(S), AxisIndex(G, S, a, i))

(* number_relay_gates of the k-th of the axes: the first and the last of   *)
(* them do not relay, unless a cheek waits there for its ear               *)
number_relay_gates(G, i, axes, k) ==
  LET log  == Log2(Cardinality(AxisMembers(G, i, axes[k])))
      ends == Cardinality({1, Len(axes)} \cap {k}) + (IF Len(axes) = 1 THEN 1 ELSE 0)
  IN  CASE MyZone(G, i, axes[k]) = "EAR" -> 2 - ends
        [] MyZone(G, i, axes[k]) = "FACE" -> 2 * log - ends
        [] OTHER -> 2 * (log + 1)

(* a cheek and another zone in turn need a half more between their axes    *)
BetweenAxes(G, i, axes, k) ==
  IF k > 1 /\ (MyZone(G, i, axes[k - 1]) = "CHEEK") # (MyZone(G, i, axes[k]) = "CHEEK")
  THEN 1 ELSE 0

(* the relay gates of a member, in halves                                  *)
number_relay_gates_allaxis(G, i) ==
  LET axes == BusyAxes(G, i)
  IN  FoldFunction(+, 0, [k \in DOMAIN axes |->
        number_relay_gates(G, i, axes, k) + BetweenAxes(G, i, axes, k)])

-----------------------------------------------------------------------------
(* The gates of a member: one per row but the last, which shares gate 0    *)
(* with the first (allocate_vbg).                                          *)
NULL == -1

GateOfRow(seq, k) == IF k = Len(seq.list) THEN 0 ELSE k - 1

Row(seq, k) == seq.rows[seq.list[k]]

(* SET_DST_LOCAL, SET_SRC_LOCAL: an ear does not connect its two ends      *)
dst_lcl(seq, k) ==
  IF Row(seq, k).send # NOOP /\ seq.rows[seq.list[k + 1] - 1].send = UNNECESSARY
  THEN NULL ELSE GateOfRow(seq, k + 1)

src_lcl(seq, k) ==
  IF Row(seq, k).recv # NOOP /\ seq.rows[seq.list[k] - 1].recv = UNNECESSARY
  THEN NULL ELSE GateOfRow(seq, k - 1)

(* the gates a member allocates                                            *)
number_vbgs(seq) == Len(seq.list) - 1

(* the settings that the member knows by itself: the local gates and the   *)
(* index of the remote members                                             *)
LocalSettings(seq) ==
  LET n == Len(seq.list)
      rmt(x) == IF NoPeer(x) THEN NULL ELSE x
  IN  [g \in 0 .. number_vbgs(seq) - 1 |->
        LET into == IF g = 0 THEN n ELSE g + 1
        IN  [src_lcl |-> src_lcl(seq, into), src_rmt |-> rmt(Row(seq, into).recv),
             dst_lcl |-> dst_lcl(seq, g + 1), dst_rmt |-> rmt(Row(seq, g + 1).send)]]

(* what the member tells the others: for each it sends to, the gate it     *)
(* sends from and the gate it receives on (make_bginfo)                    *)
bginfo(seq) ==
  LET n == Len(seq.list)
      Senders(s) == {k \in 1 .. n : Row(seq, k).send = s}
      Receivers(s) == {k \in 1 .. n : Row(seq, k).recv = s}
      Top(S) == CHOOSE k \in S : \A j \in S : j <= k
  IN  [s \in {Row(seq, k).send : k \in 1 .. n} \ {NOOP, UNNECESSARY} |->
        [src |-> GateOfRow(seq, Top(Senders(s))),
         dst |-> IF Receivers(s) = {} THEN NULL
                 ELSE GateOfRow(seq, Nth(Receivers(s), 0))]]

(* utf_bg_alloc up to the allocation of gates                              *)
Sequence(G, i) == optimized_sequence(AllRows(G, i))

-----------------------------------------------------------------------------
(* the members that have gates: with UTF_BG_SM one of each node            *)
GateUsers(G) == {i \in Members(G) : G.tofu \/ IsManager(G, i)}

(* the early returns of utf_bg_alloc that depend on the group's shape      *)
Usable(G) ==
  /\ Len(G.rs) >= 4
  /\ ~ (G.tofu /\ G.hb < G.ppn)
  /\ Errcase(G) = {}

(* what utf_bg_alloc leaves in utf_bg_detail_info and bginfo, by member    *)
Network(G) ==
  [i \in GateUsers(G) |->
     LET seq == Sequence(G, i)
     IN  [gates |-> LocalSettings(seq), info |-> bginfo(seq),
          relays |-> number_relay_gates_allaxis(G, i)]]

(* the remote gates utf_bg_init takes from the others' bginfo: member and  *)
(* number of the gate, or none; a gate the other did not name is no gate   *)
Named(net, j, i, which) ==
  IF i \in DOMAIN net[j].info THEN net[j].info[i][which] ELSE NULL

src_rmt_vbg(net, i, g) ==
  LET j == net[i].gates[g].src_rmt
  IN  IF j = NULL THEN <<>> ELSE <<j, Named(net, j, i, "src")>>

dst_rmt_vbg(net, i, g) ==
  LET j == net[i].gates[g].dst_rmt
  IN  IF j = NULL THEN <<>> ELSE <<j, Named(net, j, i, "dst")>>
=============================================================================
