---------------------------- MODULE UtfBarrierSM ----------------------------
(***************************************************************************)
(* Collectives over barrier gates with several processes in a node, the    *)
(* "soft barrier" (utf_bg_barrier_sm.c, UTF_BG_INIT_SM_COMMON).  The       *)
(* processes of a node gather along a binomial tree in shared memory, each *)
(* slot of which has a sequence word and a data buffer; the process with   *)
(* index 0, the manager of the node, then performs the collective of the   *)
(* interconnect and publishes the outcome in slot 0.  A node with one      *)
(* process uses the interconnect directly (UTF_BG_ALGORITHM).              *)
(*                                                                         *)
(* A step is one access to shared memory or one call of the interconnect,  *)
(* in the order utf_bg_wmb and utf_bg_rmb enforce.  A poll that returns    *)
(* UTF_ERR_NOT_COMPLETED changes nothing but saves the loop variables,     *)
(* which are variables here.  Data is the bag of contributions it sums up. *)
(***************************************************************************)
EXTENDS Naturals, Sequences, FiniteSets, Bags

CONSTANTS
  Nodes,     \* the nodes of the group
  Size,      \* number of processes in each node
  Ops,       \* the collectives all of them call, in order
  Gates,     \* start gates of a node: each has slots in shared memory
  PerGroup   \* how many of them before the group is freed for another one

ASSUME BarrierAssumption ==
  /\ IsFiniteSet(Nodes) /\ Nodes # {}
  /\ Size \in [Nodes -> Nat \ {0}]
  /\ Ops \in Seq({"barrier", "reduce"})
  /\ Gates # {} /\ PerGroup \in Nat \ {0}

(* process <<n, x>> has intra_index x in node n                            *)
Index(n) == 0 .. Size[n] - 1
Procs == UNION {{<<n, x>> : x \in Index(n)} : n \in Nodes}
Manager(p) == p[2] = 0
Node(p) == p[1]

VARIABLES
  mseq,      \* UTF_BG_MMAP_SEQ: sequence words of each node, gate and slot
  mbuf,      \* UTF_BG_MMAP_BUF: data of each node, gate and slot
  gate,      \* the gate each node's manager was given: locates mmap_buf
  curr_seq,  \* intra_node_info->curr_seq of each process
  pc,        \* where in the collective a process is
  loop,      \* sm_loop_counter and sm_loop_rank
  idata,     \* utf_bg_poll_idata
  odata,     \* utf_bg_poll_odata
  posted,    \* what each manager gave to the interconnect's collectives
  calls,     \* number of collectives each process has called
  groups     \* number of groups allocated so far

vars == <<mseq, mbuf, gate, curr_seq, pc, loop, idata, odata, posted, calls,
          groups>>

(* A manager has left the collective when it has its result.               *)
Coll == INSTANCE UtfCollective WITH
  entered <- calls,
  left <- [p \in Procs |-> IF pc[p] \in {"idle", "notify"} THEN calls[p]
                           ELSE calls[p] - 1],
  result <- odata

Init ==
  /\ mseq = [n \in Nodes |-> [g \in Gates |-> [x \in Index(n) |-> 0]]]
  /\ mbuf = [n \in Nodes |-> [g \in Gates |-> [x \in Index(n) |-> EmptyBag]]]
  /\ gate \in [Nodes -> Gates]
  /\ curr_seq = [p \in Procs |-> 0]
  /\ pc = [p \in Procs |-> "idle"]
  /\ loop = [p \in Procs |-> [i |-> 1, rank |-> 0]]
  /\ idata = [p \in Procs |-> EmptyBag]
  /\ odata = [p \in Procs |-> EmptyBag]
  /\ posted = [n \in Nodes |-> <<>>]
  /\ calls = [p \in Procs |-> 0]
  /\ groups = 1

-----------------------------------------------------------------------------
Op(p) == Ops[calls[p]]
Goto(p, l) == pc' = [pc EXCEPT ![p] = l]
SeqWord(p, x) == mseq[Node(p)][gate[Node(p)]][x]
Buffer(p, x) == mbuf[Node(p)][gate[Node(p)]][x]
SetSeqWord(p, x) ==
  mseq' = [mseq EXCEPT ![Node(p)][gate[Node(p)]][x] = curr_seq[p]]
SetBuffer(p, x, d) ==
  mbuf' = [mbuf EXCEPT ![Node(p)][gate[Node(p)]][x] = d]

(* utf_barrier, utf_reduce: data is set up; the hard barrier starts the    *)
(* interconnect's collective at once                                       *)
Start(p) ==
  LET d == Coll!Contribution(p, calls[p] + 1)
  IN  /\ pc[p] = "idle" /\ calls[p] < Len(Ops) /\ calls[p] < groups * PerGroup
      /\ calls' = [calls EXCEPT ![p] = @ + 1]
      /\ idata' = [idata EXCEPT ![p] = d]
      /\ IF Size[Node(p)] = 1
         THEN /\ posted' = [posted EXCEPT ![Node(p)] = Append(@, d)]
              /\ Goto(p, "poll")
              /\ UNCHANGED <<curr_seq, loop>>
         ELSE /\ curr_seq' = [curr_seq EXCEPT ![p] = @ + 1]
              /\ loop' = [loop EXCEPT ![p] = [i |-> 1, rank |-> p[2]]]
              /\ Goto(p, "gather")
              /\ UNCHANGED posted
      /\ UNCHANGED <<mseq, mbuf, gate, odata, groups>>

-----------------------------------------------------------------------------
(* The loop of utf_poll_barrier_sm and utf_poll_reduce_*_sm.               *)

Gathering(p) == pc[p] = "gather" /\ loop[p].i < Size[Node(p)]

(* mutant: an even rank without a pair goes on as if it had one            *)
StoresOdd(p) == loop[p].rank % 2 = 1

(* odd rank, or even rank without a pair                                   *)
Stores(p) ==
  \/ loop[p].rank % 2 = 1
  \/ (loop[p].rank + 1) * loop[p].i >= Size[Node(p)]

MySlot(p) == loop[p].rank * loop[p].i
PairSlot(p) == (loop[p].rank + 1) * loop[p].i

(* the data goes to the slot ...                                           *)
Store(p) ==
  /\ Gathering(p) /\ Stores(p)
  /\ IF Op(p) = "reduce" THEN SetBuffer(p, MySlot(p), idata[p])
     ELSE UNCHANGED mbuf
  /\ Goto(p, "signal")
  /\ UNCHANGED <<mseq, gate, curr_seq, loop, idata, odata, posted, calls, groups>>

(* ... then the sequence word says so, and the loop ends                   *)
Signal(p) ==
  /\ pc[p] = "signal"
  /\ SetSeqWord(p, MySlot(p))
  /\ Goto(p, "start")
  /\ UNCHANGED <<mbuf, gate, curr_seq, loop, idata, odata, posted, calls, groups>>

(* mutant: any sequence word but the initial one will do                   *)
PairReadySome(p) == SeqWord(p, PairSlot(p)) # 0

PairReady(p) == SeqWord(p, PairSlot(p)) = curr_seq[p]

(* the pair has stored its data                                            *)
Look(p) ==
  /\ Gathering(p) /\ ~ Stores(p) /\ PairReady(p)
  /\ Goto(p, "combine")
  /\ UNCHANGED <<mseq, mbuf, gate, curr_seq, loop, idata, odata, posted, calls,
                 groups>>

Combine(p) ==
  /\ pc[p] = "combine"
  /\ idata' = IF Op(p) = "reduce"
              THEN [idata EXCEPT ![p] = @ (+) Buffer(p, PairSlot(p))]
              ELSE idata
  /\ loop' = [loop EXCEPT ![p] = [i |-> 2 * @.i, rank |-> @.rank \div 2]]
  /\ Goto(p, "gather")
  /\ UNCHANGED <<mseq, mbuf, gate, curr_seq, odata, posted, calls, groups>>

(* i reaches num_proc                                                      *)
LoopEnd(p) ==
  /\ pc[p] = "gather" /\ ~ Gathering(p)
  /\ Goto(p, "start")
  /\ UNCHANGED <<mseq, mbuf, gate, curr_seq, loop, idata, odata, posted, calls,
                 groups>>

(* the manager starts the interconnect's collective; sm_flg_comm_start     *)
CommStart(p) ==
  /\ pc[p] = "start"
  /\ posted' = IF Manager(p)
               THEN [posted EXCEPT ![Node(p)] = Append(@, idata[p])]
               ELSE posted
  /\ Goto(p, "poll")
  /\ UNCHANGED <<mseq, mbuf, gate, curr_seq, loop, idata, odata, calls, groups>>

-----------------------------------------------------------------------------
(* The interconnect: the k-th collective of the gates completes when every *)
(* manager has started it (utofu_poll_barrier, utofu_poll_reduce_uint64).  *)
Complete(k) == \A n \in Nodes : Len(posted[n]) >= k
Outcome(k) == BagUnion({posted[n][k] : n \in Nodes})

(* the manager sees it completed; with several processes it publishes the  *)
(* data ...                                                                *)
PollManager(p) ==
  LET k == Len(posted[Node(p)])
      d == IF Op(p) = "reduce" THEN Outcome(k) ELSE odata[p]
  IN  /\ pc[p] = "poll" /\ Manager(p)
      /\ Complete(k)
      /\ odata' = [odata EXCEPT ![p] = d]
      /\ IF Size[Node(p)] = 1
         THEN Goto(p, "idle") /\ UNCHANGED mbuf
         ELSE /\ Goto(p, "notify")
              /\ IF Op(p) = "reduce" THEN SetBuffer(p, 0, d) ELSE UNCHANGED mbuf
      /\ UNCHANGED <<mseq, gate, curr_seq, loop, idata, posted, calls, groups>>

(* mutant: the workers are not told                                        *)
NotifyForgets(p) ==
  /\ pc[p] = "notify"
  /\ Goto(p, "idle")
  /\ UNCHANGED <<mseq, mbuf, gate, curr_seq, loop, idata, odata, posted, calls,
                 groups>>

(* ... and then the sequence word of slot 0                                *)
Notify(p) ==
  /\ pc[p] = "notify"
  /\ SetSeqWord(p, 0)
  /\ Goto(p, "idle")
  /\ UNCHANGED <<mbuf, gate, curr_seq, loop, idata, odata, posted, calls, groups>>

Published(p) == SeqWord(p, 0) = curr_seq[p]

(* a worker sees slot 0 published                                          *)
PollWorker(p) ==
  /\ pc[p] = "poll" /\ ~ Manager(p) /\ Published(p)
  /\ Goto(p, "fetch")
  /\ UNCHANGED <<mseq, mbuf, gate, curr_seq, loop, idata, odata, posted, calls,
                 groups>>

Fetch(p) ==
  /\ pc[p] = "fetch"
  /\ odata' = IF Op(p) = "reduce" THEN [odata EXCEPT ![p] = Buffer(p, 0)]
              ELSE odata
  /\ Goto(p, "idle")
  /\ UNCHANGED <<mseq, mbuf, gate, curr_seq, loop, idata, posted, calls, groups>>

-----------------------------------------------------------------------------
(* The group is freed by all its processes and another one is allocated    *)
(* (utf_bg_free, utf_bg_alloc, exchange of the gates, utf_bg_init).        *)
(* curr_seq starts at 0 again; what the slots of the new gates hold stays. *)
(* The groups are later ones than that of MPI_COMM_WORLD, which stays and  *)
(* whose utf_bg_free unmaps the shared memory.                             *)
Regroup ==
  /\ groups * PerGroup < Len(Ops)
  /\ \A p \in Procs : pc[p] = "idle" /\ calls[p] = groups * PerGroup
  /\ groups' = groups + 1
  /\ gate' \in [Nodes -> Gates]
  /\ curr_seq' = [p \in Procs |-> 0]
  /\ posted' = [n \in Nodes |-> <<>>]
  /\ UNCHANGED <<mseq, mbuf, pc, loop, idata, odata, calls>>

-----------------------------------------------------------------------------
(* one call of the poll function gets a process ahead by such a step       *)
Poll(p) ==
  \/ Store(p) \/ Signal(p) \/ Look(p) \/ Combine(p) \/ LoopEnd(p)
  \/ CommStart(p) \/ PollManager(p) \/ Notify(p) \/ PollWorker(p) \/ Fetch(p)

Finished == \A p \in Procs : pc[p] = "idle" /\ calls[p] = Len(Ops)

(* the processes have called all their collectives                         *)
End == Finished /\ UNCHANGED vars

Next == (\E p \in Procs : Start(p) \/ Poll(p)) \/ Regroup \/ End

Spec == Init /\ [][Next]_vars

(* mpi_bg_poll_barrier and mpi_bg_poll_reduce call the poll function until *)
(* it has completed                                                        *)
FairSpec == Spec /\ \A p \in Procs : WF_vars(Poll(p))

-----------------------------------------------------------------------------
(* Slots, sequence words and the processes' variables keep their types;    *)
(* the tree never leads outside a node's slots (UTF_BG_MMAP_SEQ).          *)
TypeOK ==
  /\ \A n \in Nodes, g \in Gates :
       /\ mseq[n][g] \in [Index(n) -> 0 .. Len(Ops)]
       /\ DOMAIN mbuf[n][g] = Index(n)
       /\ \A x \in Index(n) : IsABag(mbuf[n][g][x])
  /\ gate \in [Nodes -> Gates]
  /\ curr_seq \in [Procs -> 0 .. Len(Ops)]
  /\ pc \in [Procs -> {"idle", "gather", "signal", "combine", "start", "poll",
                       "notify", "fetch"}]
  /\ \A p \in Procs :
       /\ Gathering(p) => (IF Stores(p) THEN MySlot(p) ELSE PairSlot(p)) \in Index(Node(p))
       /\ IsABag(idata[p]) /\ IsABag(odata[p])
  /\ calls \in [Procs -> 0 .. Len(Ops)]
  /\ groups \in 1 .. Len(Ops)

(* Nobody leaves a collective before everybody has entered it, and a       *)
(* reduction gives every process each contribution to this collective once *)
(* (utf_poll_barrier_sm, utf_poll_reduce_uint64_sm).                       *)
Collective == Coll!Spec

(* "The worker processes waits for the leader's communication to           *)
(* complete": a worker that has seen slot 0 published is in a collective   *)
(* that its manager has seen completed.                                    *)
WorkerWaits ==
  \A p \in Procs :
    pc[p] = "fetch" =>
      LET m == <<Node(p), 0>>
      IN  calls[m] >= calls[p]
            /\ (calls[m] = calls[p] => pc[m] = "idle")

(* A process whose partners all enter a collective leaves it.              *)
EveryoneLeaves ==
  \A k \in 1 .. Len(Ops) :
    (\A p \in Procs : calls[p] >= k)
      ~> (\A p \in Procs : calls[p] > k \/ pc[p] = "idle")
=============================================================================
