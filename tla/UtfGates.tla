------------------------------ MODULE UtfGates ------------------------------
(***************************************************************************)
(* The life of barrier networks: the processes of a job build one for each *)
(* of a list of groups, the first of which is MPI_COMM_WORLD, run barriers *)
(* over it and release it.  Each process calls utf_bg_alloc, exchanges     *)
(* bginfo with the other members (PMPI_Alltoall), calls utf_bg_init, runs  *)
(* utf_barrier and utf_poll_barrier, and calls utf_bg_free, that of        *)
(* MPI_COMM_WORLD at the end.  Gates belong to the TNIs of a node and are  *)
(* few; processes of a node share the header of a shared memory region.    *)
(***************************************************************************)
EXTENDS UtfButterfly

CONSTANTS
  Procs,   \* the processes of the job, by rank from 0 on
  Jobs,    \* records: vname, tofu, ppn and hb as in UtfButterfly; groups, the
           \* ranksets in the order of creation; tnis, starts and relays, the
           \* number of TNIs of a node and of the gates of each
  Rounds,  \* bound: barriers run over a group
  Synced   \* whether the members wait for each other after utf_bg_init, as
           \* in MPI_Init (PMPI_Barrier), or not, as in MPI_Init_thread

ASSUME GatesAssumption ==
  /\ Rounds \in Nat \ {0}
  /\ Synced \in BOOLEAN
  /\ \A j \in Jobs : {j.groups[1][k] : k \in DOMAIN j.groups[1]} = Procs

VARIABLES
  job,          \* the job
  plan,         \* what the members of its groups compute for them
  pc,           \* what a process does next
  at,           \* the group it does it with
  first_call,   \* utf_bg_first_call
  first_alloc_is_failed,
  next_tni_id,  \* utf_bg_next_tni_id
  detail,       \* per process and group: its gates, by number, and whether
                \* the network can be used
  mmap_buf,     \* per process and group: the buffer in shared memory
  bginfo_sent,  \* per process and group: whether it is disabled, or for each
                \* peer the TNI and the two gates
  header,       \* per node, in shared memory: next_tni_id, manager_info
  bgs,          \* the gates that are allocated
  vbg,          \* the gates that are set: settings and signals received
  entered,      \* per group and process: calls of utf_barrier
  left,         \* and completions
  astray        \* whether a signal went to a gate that does not expect it

vars == <<job, plan, pc, at, first_call, first_alloc_is_failed, next_tni_id, detail,
          mmap_buf, bginfo_sent, header, bgs, vbg, entered, left, astray>>

building == <<first_call, first_alloc_is_failed, next_tni_id, detail, mmap_buf,
              bginfo_sent, header, bgs>>

-----------------------------------------------------------------------------
(* The groups of the job and what each member computes for them.           *)
GroupOf(j, k) ==
  [rs |-> j.groups[k], vname |-> j.vname, tofu |-> j.tofu, ppn |-> j.ppn, hb |-> j.hb]

PlanOf(G) ==
  LET index == [p \in {RankOf(G, i) : i \in Members(G)} |->
                  CHOOSE i \in Members(G) : RankOf(G, i) = p]
  IN  [usable  |-> Usable(G),
       index   |-> index,
       intra   |-> [p \in DOMAIN index |-> IntraIndex(G, index[p])],
       network |-> IF Usable(G) THEN Network(G) ELSE <<>>]

Groups == DOMAIN job.groups
World == 1

GroupProcs(k) == DOMAIN plan[k].index
Node(p) == job.vname[p].xyzabc
Nodes == {Node(p) : p \in Procs}
Mates(k, p) == {q \in GroupProcs(k) : Node(q) = Node(p)}
Manager(k, p) == CHOOSE q \in Mates(k, p) : plan[k].intra[q] = 0
IsMgr(k, p) == Manager(k, p) = p

(* whether p has gates of group k                                          *)
HasGates(k, p) == job.tofu \/ IsMgr(k, p)

(* p's gate settings and bginfo, members named by rank                     *)
Own(k, p) == plan[k].network[plan[k].index[p]]
Rank(k, i) == job.groups[k][i + 1]

(* the group p turns to after group k, 0 if there is none                  *)
NextGroup(k, p) ==
  LET later == {l \in Groups : l > k /\ p \in GroupProcs(l)}
  IN  IF later = {} THEN 0 ELSE CHOOSE l \in later : \A m \in later : l <= m

-----------------------------------------------------------------------------
(* utofu_alloc_vbg: the gates of TNI t of a node, the start gates first    *)
StartBgs == 0 .. job.starts - 1
RelayBgs == job.starts .. job.starts + job.relays - 1

FreeBgs(n, t, S) == {b \in S : <<n, t, b>> \notin bgs}

HasRoom(n, t, num) ==
  /\ FreeBgs(n, t, StartBgs) # {}
  /\ Cardinality(FreeBgs(n, t, RelayBgs)) >= num - 1

Taken(n, t, num) ==
  [g \in 0 .. num - 1 |->
     <<n, t, IF g = 0 THEN Nth(FreeBgs(n, t, StartBgs), 0)
             ELSE Nth(FreeBgs(n, t, RelayBgs), g - 1)>>]

NoInfo == [disabled |-> FALSE, peers |-> <<>>]
NoGates == <<>>

(* utf_bg_detail_info_t before utf_bg_alloc has filled it in               *)
NewDetail == [ids |-> NoGates, state |-> "none"]

(* utf_bg_mmap_header_info_t of a node whose shared memory is new          *)
NewHeader(n) ==
  [next_tni_id |-> 0, manager_info |-> [p \in {q \in Procs : Node(q) = n} |-> <<0, 0>>]]

NoBuffer == <<>>

(* the TNI to begin with, before the index in the node is added            *)
start_tni(p) == IF first_call[p] THEN 0 ELSE header[Node(p)].next_tni_id

(* allocate_vbg_core: t is the first TNI with room, from TNI s on          *)
FirstWithRoom(n, s, t, num) ==
  /\ HasRoom(n, t, num)
  /\ \A u \in 0 .. job.tnis - 1 :
       (u - s) % job.tnis < (t - s) % job.tnis => ~ HasRoom(n, u, num)

(* SET_DISABLE_ALL                                                         *)
Disable(k, p) == bginfo_sent' = [bginfo_sent EXCEPT ![p][k].disabled = TRUE]

(* MPI_COMM_WORLD got no gates: no other group is tried                    *)
NeverAgain(p) == ~ first_call[p] /\ first_alloc_is_failed[p]

(* SETINFO_CASE_SUCCESS                                                    *)
SetInfo(p) == first_call' = [first_call EXCEPT ![p] = FALSE]

(* the returns of utf_bg_alloc before gates are allocated                  *)
AllocWithoutGates(k, p) ==
  /\ \/ /\ NeverAgain(p) \/ ~ plan[k].usable
        /\ Disable(k, p)
     \/ /\ ~ NeverAgain(p)
        /\ plan[k].usable /\ ~ HasGates(k, p)
        /\ UNCHANGED bginfo_sent
  /\ UNCHANGED <<next_tni_id, detail, header, bgs>>

(* what make_bginfo tells each peer, by rank                               *)
EnabledInfo(k, p, t, ids) ==
  LET info == Own(k, p).info
  IN  [q \in {Rank(k, i) : i \in DOMAIN info} |->
         [tni |-> t, src |-> ids[info[plan[k].index[q]].src][3],
          dst |-> ids[info[plan[k].index[q]].dst][3]]]

(* mutant: the manager notes the gate for itself only                      *)
TakeGatesOwn(k, p, t, ids) ==
  /\ bgs' = bgs \cup {ids[g] : g \in DOMAIN ids}
  /\ detail' = [detail EXCEPT ![p][k].ids = ids]
  /\ bginfo_sent' = [bginfo_sent EXCEPT ![p][k].peers = EnabledInfo(k, p, t, ids)]
  /\ header' = [header EXCEPT ![Node(p)].manager_info[p] = <<t, ids[0][3]>>]

(* allocate_vbg: p goes on with the gates ids of TNI t ...                 *)
TakeGates(k, p, t, ids) ==
  /\ bgs' = bgs \cup {ids[g] : g \in DOMAIN ids}
  /\ detail' = [detail EXCEPT ![p][k].ids = ids]
  /\ bginfo_sent' = [bginfo_sent EXCEPT ![p][k].peers = EnabledInfo(k, p, t, ids)]
  /\ header' = IF ~ IsMgr(k, p) THEN header
               ELSE [header EXCEPT ![Node(p)].manager_info =
                       [q \in DOMAIN @ |-> IF q \in Mates(k, p) THEN <<t, ids[0][3]>>
                                           ELSE @[q]]]

(* ... or, if the TNIs are full, without gates, but with success           *)
GoWithout(k, p) ==
  /\ Disable(k, p)
  /\ UNCHANGED <<detail, header, bgs>>

(* The first TNI that has enough gates is taken.                           *)
AllocGates(k, p) ==
  LET n == Node(p)
      num == Cardinality(DOMAIN Own(k, p).gates)
      first == (start_tni(p) + plan[k].intra[p]) % job.tnis
      step == IF job.tofu THEN Cardinality(Mates(k, p)) ELSE 1
      Tnis == 0 .. job.tnis - 1
  IN  /\ ~ NeverAgain(p)
      /\ plan[k].usable /\ HasGates(k, p)
      /\ next_tni_id' = [next_tni_id EXCEPT ![p] = (start_tni(p) + step) % job.tnis]
      /\ \/ \E t \in Tnis : /\ FirstWithRoom(n, first, t, num)
                            /\ \E ids \in {Taken(n, t, num)} : TakeGates(k, p, t, ids)
         \/ (\A t \in Tnis : ~ HasRoom(n, t, num)) /\ GoWithout(k, p)

utf_bg_alloc(p) ==
  LET k == at[p]
  IN  /\ pc[p] = "alloc"
      /\ AllocWithoutGates(k, p) \/ AllocGates(k, p)
      /\ SetInfo(p)
      /\ pc' = [pc EXCEPT ![p] = "init"]
      /\ UNCHANGED <<job, plan, at, first_alloc_is_failed, mmap_buf, vbg, entered, left, astray>>

-----------------------------------------------------------------------------
(* utf_bg_init, once PMPI_Alltoall has brought everybody's bginfo.         *)
Exchanged(k) ==
  \A q \in GroupProcs(k) : at[q] = 0 \/ at[q] > k \/ (at[q] = k /\ pc[q] # "alloc")

(* the gate a member names in its bginfo for p, if it does                 *)
RemoteGate(k, p, i, which) ==
  IF i = NULL THEN <<>>
  ELSE LET q == Rank(k, i)
           peers == bginfo_sent[q][k].peers
       IN  <<Node(q)>> \o IF p \in DOMAIN peers THEN <<peers[p].tni, peers[p][which]>>
                          ELSE <<NULL, NULL>>

LocalGate(ids, g) == IF g = NULL THEN <<>> ELSE ids[g]

(* the settings given to utofu_set_vbg; no signal has come yet             *)
Settings(k, p) ==
  LET ids == detail[p][k].ids
      own == Own(k, p).gates
  IN  [v \in {ids[g] : g \in DOMAIN ids} |->
         LET s == own[CHOOSE g \in DOMAIN ids : ids[g] = v]
         IN  [src_lcl |-> LocalGate(ids, s.src_lcl), dst_lcl |-> LocalGate(ids, s.dst_lcl),
              src_rmt |-> RemoteGate(k, p, s.src_rmt, "src"),
              dst_rmt |-> RemoteGate(k, p, s.dst_rmt, "dst"),
              lcl |-> 0, rmt |-> 0]]

Merge(f, g) == [v \in DOMAIN f \cup DOMAIN g |-> IF v \in DOMAIN g THEN g[v] ELSE f[v]]

(* some member has no gates                                                *)
Refused(k, p) == \E q \in GroupProcs(k) : bginfo_sent[q][k].disabled

(* label init_end: how p stands with the group from now on                 *)
InitEnd(k, p, state) == detail' = [detail EXCEPT ![p][k].state = state]

(* mutant: the gates p has got are forgotten                               *)
InitBusyForgets(k, p) ==
  /\ Refused(k, p)
  /\ first_alloc_is_failed' = [first_alloc_is_failed EXCEPT ![p] = @ \/ k = World]
  /\ detail' = [detail EXCEPT ![p][k] = [ids |-> NoGates, state |-> "busy"]]
  /\ pc' = [pc EXCEPT ![p] = "free"]
  /\ UNCHANGED <<vbg, header, mmap_buf>>

(* UTF_ERR_RESOURCE_BUSY; the caller releases the group                    *)
InitBusy(k, p) ==
  /\ Refused(k, p)
  /\ first_alloc_is_failed' = [first_alloc_is_failed EXCEPT ![p] = @ \/ k = World]
  /\ InitEnd(k, p, "busy")
  /\ pc' = [pc EXCEPT ![p] = "free"]
  /\ UNCHANGED <<vbg, header, mmap_buf>>

(* the network is set up                                                   *)
InitReady(k, p) ==
  LET n == Node(p)
  IN  /\ ~ Refused(k, p)
      /\ vbg' = IF HasGates(k, p) THEN Merge(vbg, Settings(k, p)) ELSE vbg
      /\ header' = IF IsMgr(k, p) THEN [header EXCEPT ![n].next_tni_id = next_tni_id[p]]
                   ELSE header
      /\ mmap_buf' = IF ~ job.tofu /\ Cardinality(Mates(k, p)) >= 2
                     THEN [mmap_buf EXCEPT ![p][k] = header[n].manager_info[p]]
                     ELSE mmap_buf
      /\ InitEnd(k, p, "ready")
      /\ pc' = [pc EXCEPT ![p] = "sync"]
      /\ UNCHANGED first_alloc_is_failed

utf_bg_init(p) ==
  LET k == at[p]
  IN  /\ pc[p] = "init" /\ Exchanged(k)
      /\ InitBusy(k, p) \/ InitReady(k, p)
      /\ UNCHANGED <<job, plan, at, first_call, next_tni_id, bginfo_sent, bgs, entered, left, astray>>

(* mutant: nobody waits                                                    *)
SyncNone(p) ==
  /\ pc[p] = "sync"
  /\ pc' = [pc EXCEPT ![p] = "run"]
  /\ UNCHANGED <<job, plan, at, building, vbg, entered, left, astray>>

(* the caller's barrier, by other means, after utf_bg_init                 *)
Sync(p) ==
  /\ pc[p] = "sync"
  /\ Synced => \A q \in GroupProcs(at[p]) : detail[q][at[p]].state # "none"
  /\ pc' = [pc EXCEPT ![p] = "run"]
  /\ UNCHANGED <<job, plan, at, building, vbg, entered, left, astray>>

-----------------------------------------------------------------------------
(* The interconnect: a gate that fires sends a signal to its local and to  *)
(* its remote destination.                                                 *)
Signal(vs, v) ==
  [w \in DOMAIN vs |->
     [vs[w] EXCEPT !.lcl = @ + (IF vs[v].dst_lcl = w THEN 1 ELSE 0),
                   !.rmt = @ + (IF vs[v].dst_rmt = w THEN 1 ELSE 0)]]

Astray(vs, v) ==
  LET w == vs[v].dst_rmt
  IN  w # <<>> /\ (w \notin DOMAIN vs \/ vs[w].src_rmt # v)

(* the signals of all sources of gate v have come                          *)
Complete(v) ==
  /\ vbg[v].src_lcl # <<>> => vbg[v].lcl > 0
  /\ vbg[v].src_rmt # <<>> => vbg[v].rmt > 0

Consume(vs, v) ==
  [vs EXCEPT ![v].lcl = IF vs[v].src_lcl = <<>> THEN @ ELSE @ - 1,
             ![v].rmt = IF vs[v].src_rmt = <<>> THEN @ ELSE @ - 1]

Emit(vs, v) ==
  /\ vbg' = Signal(vs, v)
  /\ astray' = (astray \/ Astray(vs, v))

(* a relay gate passes the signals on                                      *)
Fire(v) ==
  /\ v[3] \notin StartBgs /\ Complete(v)
  /\ Emit(Consume(vbg, v), v)
  /\ UNCHANGED <<job, plan, pc, at, building, entered, left>>

-----------------------------------------------------------------------------
(* UTF_BG_ALGORITHM: the processes of a node synchronise in shared memory  *)
Soft(k, p) == ~ job.tofu /\ Cardinality(Mates(k, p)) > 1

StartGate(k, p) == detail[p][k].ids[0]

utf_barrier(p) ==
  LET k == at[p]
  IN  /\ pc[p] = "run" /\ entered[k][p] < Rounds
      /\ entered' = [entered EXCEPT ![k][p] = @ + 1]
      /\ pc' = [pc EXCEPT ![p] = IF Soft(k, p) /\ IsMgr(k, p) THEN "post" ELSE "poll"]
      /\ IF Soft(k, p) THEN UNCHANGED <<vbg, astray>> ELSE Emit(vbg, StartGate(k, p))
      /\ UNCHANGED <<job, plan, at, building, left>>

(* mutant: the manager does not wait for its workers                       *)
PostEarly(p) ==
  LET k == at[p]
  IN  /\ pc[p] = "post"
      /\ Emit(vbg, StartGate(k, p))
      /\ pc' = [pc EXCEPT ![p] = "poll"]
      /\ UNCHANGED <<job, plan, at, building, entered, left>>

(* the manager of a node starts the gates when its workers have called     *)
Post(p) ==
  LET k == at[p]
  IN  /\ pc[p] = "post"
      /\ \A q \in Mates(k, p) : entered[k][q] >= entered[k][p]
      /\ Emit(vbg, StartGate(k, p))
      /\ pc' = [pc EXCEPT ![p] = "poll"]
      /\ UNCHANGED <<job, plan, at, building, entered, left>>

(* mutant: a worker waits for the manager's next barrier                   *)
utf_poll_barrierNext(p) ==
  LET k == at[p]
  IN  /\ pc[p] = "poll"
      /\ IF Soft(k, p) /\ ~ IsMgr(k, p)
         THEN left[k][Manager(k, p)] > entered[k][p] /\ UNCHANGED vbg
         ELSE Complete(StartGate(k, p)) /\ vbg' = Consume(vbg, StartGate(k, p))
      /\ left' = [left EXCEPT ![k][p] = @ + 1]
      /\ pc' = [pc EXCEPT ![p] = IF entered[k][p] < Rounds THEN "run" ELSE "free"]
      /\ UNCHANGED <<job, plan, at, building, entered, astray>>

(* completion: of the gates, or in shared memory of the manager            *)
utf_poll_barrier(p) ==
  LET k == at[p]
  IN  /\ pc[p] = "poll"
      /\ IF Soft(k, p) /\ ~ IsMgr(k, p)
         THEN left[k][Manager(k, p)] >= entered[k][p] /\ UNCHANGED vbg
         ELSE Complete(StartGate(k, p)) /\ vbg' = Consume(vbg, StartGate(k, p))
      /\ left' = [left EXCEPT ![k][p] = @ + 1]
      /\ pc' = [pc EXCEPT ![p] = IF entered[k][p] < Rounds THEN "run" ELSE "free"]
      /\ UNCHANGED <<job, plan, at, building, entered, astray>>

-----------------------------------------------------------------------------
(* utf_bg_free; that of MPI_COMM_WORLD waits for the other groups.         *)
Freed(k, p) ==
  LET ids == {detail[p][k].ids[g] : g \in DOMAIN detail[p][k].ids}
  IN  /\ bgs' = bgs \ ids
      /\ vbg' = [v \in DOMAIN vbg \ ids |-> vbg[v]]
      /\ detail' = [detail EXCEPT ![p][k] = [ids |-> NoGates, state |-> "freed"]]

utf_bg_free(p) ==
  LET k == at[p]
      next == NextGroup(k, p)
      keep == k = World /\ next # 0
  IN  /\ pc[p] = "free"
      /\ IF keep THEN UNCHANGED <<bgs, vbg, detail>> ELSE Freed(k, p)
      /\ at' = [at EXCEPT ![p] = next]
      /\ pc' = [pc EXCEPT ![p] = IF next # 0 THEN "alloc"
                                 ELSE IF k = World THEN "done" ELSE "finalize"]
      /\ UNCHANGED <<job, plan, first_call, first_alloc_is_failed, next_tni_id, mmap_buf,
                     bginfo_sent, header, entered, left, astray>>

MPI_Finalize(p) ==
  /\ pc[p] = "finalize"
  /\ Freed(World, p)
  /\ pc' = [pc EXCEPT ![p] = "done"]
  /\ UNCHANGED <<job, plan, at, first_call, first_alloc_is_failed, next_tni_id, mmap_buf,
                 bginfo_sent, header, entered, left, astray>>

Done == \A p \in Procs : pc[p] = "done"

-----------------------------------------------------------------------------
Init ==
  /\ job \in Jobs
  /\ plan = [k \in Groups |-> PlanOf(GroupOf(job, k))]
  /\ pc = [p \in Procs |-> "alloc"]
  /\ at = [p \in Procs |-> World]
  /\ first_call = [p \in Procs |-> TRUE]
  /\ first_alloc_is_failed = [p \in Procs |-> FALSE]
  /\ next_tni_id = [p \in Procs |-> 0]
  /\ detail = [p \in Procs |-> [k \in Groups |-> NewDetail]]
  /\ mmap_buf = [p \in Procs |-> [k \in Groups |-> NoBuffer]]
  /\ bginfo_sent = [p \in Procs |-> [k \in Groups |-> NoInfo]]
  /\ header = [n \in Nodes |-> NewHeader(n)]
  /\ bgs = {}
  /\ vbg = <<>>
  /\ entered = [k \in Groups |-> [p \in Procs |-> 0]]
  /\ left = [k \in Groups |-> [p \in Procs |-> 0]]
  /\ astray = FALSE

Proc(p) ==
  \/ utf_bg_alloc(p) \/ utf_bg_init(p) \/ Sync(p)
  \/ utf_barrier(p) \/ Post(p) \/ utf_poll_barrier(p)
  \/ utf_bg_free(p) \/ MPI_Finalize(p)

Next == (\E p \in Procs : Proc(p)) \/ (\E v \in DOMAIN vbg : Fire(v))

(* processes go on, and so does the interconnect                           *)
Fairness ==
  /\ \A p \in Procs : WF_vars(Proc(p))
  /\ WF_vars(\E v \in DOMAIN vbg : Fire(v))

Spec == Init /\ [][Next]_vars /\ Fairness

-----------------------------------------------------------------------------
(* Type invariant: gates, TNIs and counters are within the node's limits,  *)
(* and only allocated gates are set (utf_bg_alloc, utf_bg_init).           *)
TypeOK ==
  /\ job \in Jobs
  /\ pc \in [Procs -> {"alloc", "init", "sync", "run", "post", "poll", "free",
                       "finalize", "done"}]
  /\ at \in [Procs -> Groups \cup {0}]
  /\ next_tni_id \in [Procs -> 0 .. job.tnis - 1]
  /\ bgs \subseteq Nodes \X (0 .. job.tnis - 1) \X (StartBgs \cup RelayBgs)
  /\ DOMAIN vbg \subseteq bgs
  /\ \A v \in DOMAIN vbg : vbg[v].lcl \in 0 .. Rounds /\ vbg[v].rmt \in 0 .. Rounds

Ids(k, p) == {detail[p][k].ids[g] : g \in DOMAIN detail[p][k].ids}

(* the members of a group agree whether its network can be used            *)
AgreeBusy ==
  \A k \in Groups : \A p, q \in GroupProcs(k) :
    ~ (detail[p][k].state = "ready" /\ detail[q][k].state = "busy")

(* Every allocated gate belongs to one process and one group, also when a  *)
(* group could not be built because some members found no gates or when    *)
(* gates of a released group are taken again; nothing is left at the end.  *)
(* Each member looks for gates on its own, and some may find none: they    *)
(* all agree whether the group has its network.                            *)
GatesOwned ==
  /\ TypeOK /\ AgreeBusy
  /\ bgs = UNION {Ids(k, p) : k \in Groups, p \in Procs}
  /\ \A p, q \in Procs, k, l \in Groups :
       <<k, p>> # <<l, q>> => Ids(k, p) \cap Ids(l, q) = {}
  /\ Done => bgs = {}

(* A signal always reaches the gate that waits for it: one that is set, in *)
(* use by the same group, with the sender as its source.                   *)
NoSignalAstray == ~ astray

(* With UTF_BG_SM the processes of a node meet in the buffer of the gate   *)
(* their manager has for the group.                                        *)
SameBuffer ==
  \A k \in Groups : \A p \in GroupProcs(k) :
    detail[p][k].state = "ready" /\ Soft(k, p) /\ detail[Manager(k, p)][k].ids # NoGates =>
      LET v == StartGate(k, Manager(k, p)) IN mmap_buf[p][k] = <<v[2], v[3]>>

Barriers ==
  INSTANCE UtfCollective WITH
    Ops <- [r \in 1 .. Rounds |-> "barrier"],
    entered <- entered[World], left <- left[World],
    result <- [p \in Procs |-> <<>>]

(* The barrier over MPI_COMM_WORLD keeps the promise of utf_barrier.       *)
BarrierCorrect == Barriers!Spec

(* Every process gets through all its groups, whether or not there are     *)
(* gates for them.                                                         *)
AllDone == <>Done
=============================================================================
