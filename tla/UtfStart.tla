------------------------------ MODULE UtfStart ------------------------------
(***************************************************************************)
(* The start and the end of a job: utf_init with the map of processes, the *)
(* shared memory of a node (utf_shm_init_internal, for the library's table *)
(* of queues and for the user), the registration of memory, utf_fence and  *)
(* utf_finalize.  Jobs run on the same nodes one after the other; one that *)
(* is killed leaves the shared memory segments it has not yet removed.     *)
(***************************************************************************)
EXTENDS UtfFence, Sequences

CONSTANTS
  Places,    \* the ways the processes may lie on nodes: functions to nodes
  Programs,  \* per job the calls of its processes, the same for all of them:
             \* resolve, init, shm_init, fence, store, shm_finalize, finalize
  CqPages,   \* the size of the table of queues
  UsrPages,  \* the sizes users ask for
  Words,     \* what programs store into the first word of their memory; {}
             \* if they leave it alone, as the header of the gates' does
  MaxJobs    \* bound: jobs run

ASSUME StartAssumption ==
  /\ CqPages \in Nat \ {0} /\ UsrPages \subseteq Nat \ {0}
  /\ MaxJobs \in Nat \ {0} /\ Words \subseteq Nat
  /\ DOMAIN Programs = 1 .. MaxJobs

(* The table of queues has entries for 48 processes of a node.             *)
ASSUME PlacesAssumption ==
  \A pl \in Places : \A p \in Procs : Cardinality({q \in Procs : pl[q] = pl[p]}) <= 48

CallNames == {"resolve", "init", "shm_init", "fence", "store", "shm_finalize", "finalize"}

(* calls of c in s before the i-th                                         *)
Before(s, i, c) == Cardinality({j \in 1 .. i - 1 : s[j] = c})

(* A program may ask for shared memory after utf_init, store into it until *)
(* it gives it back, and calls utf_finalize not more often than utf_init.  *)
ASSUME ProgramsAssumption ==
  \A n \in 1 .. MaxJobs : LET s == Programs[n] IN
    /\ s \in Seq(CallNames)
    /\ \A i \in 1 .. Len(s) :
         /\ s[i] = "shm_init" => \E j \in 1 .. i - 1 : s[j] = "init"
         /\ s[i] = "store" => /\ \E j \in 1 .. i - 1 : s[j] = "shm_init"
                              /\ \A j \in 1 .. i - 1 : s[j] # "shm_finalize"
         /\ s[i] = "finalize" => Before(s, i, "finalize") < Before(s, i, "init")

VARIABLES
  job,      \* the number of the job that runs
  place,    \* its processes' nodes
  sz,       \* the size its user asks for
  ip,       \* per process: the call it is at
  pc,       \* and where in it
  utf_initialized,
  shm_usd,
  peers,    \* per process: notfirst of utf_get_peers, and vcqhs, the TNIs of
            \* the queues it has, the one on which others reach it first
  stags,    \* per process: the memory that others can reach
  shmid,    \* per process and kind: the segment attached, NoSeg if none
  seg,      \* the segments of all nodes
  kvs       \* what was put into PMIx: the leaders and kinds

vars == <<job, place, sz, ip, pc, utf_initialized, shm_usd, peers, stags, shmid, seg,
          kvs, file, ntimes, bufp, fpc>>

Nodes == UNION {{pl[p] : p \in Procs} : pl \in Places}
Kinds == {"utf", "usr"}
NoSeg == 0
NoWord == -1
Program == Programs[job]

-----------------------------------------------------------------------------
(* The process map.                                                        *)

(* The queues of a TNI that utf_tni_select uses                            *)
CqList(ppn) ==
  CASE ppn <= 24 -> <<0, 2, 5, 8>>
    [] ppn \in 25 .. 30 -> <<0, 2, 5, 8, 10>>
    [] ppn \in 31 .. 36 -> <<0, 2, 5, 8, 9, 10>>
    [] ppn \in 37 .. 42 -> <<0, 2, 5, 6, 8, 9, 10>>
    [] OTHER -> <<0, 2, 4, 5, 6, 8, 9, 10>>

(* utf_tni_select: TNI and queue of the process with index nrnk in its node *)
utf_tni_select(ppn, nrnk) ==
  CASE ppn = 1 -> [tni |-> 0, cq |-> 0]
    [] ppn = 2 -> [tni |-> nrnk, cq |-> nrnk * 6]
    [] ppn = 3 -> [tni |-> nrnk, cq |-> nrnk * 4]
    [] ppn = 4 -> [tni |-> nrnk, cq |-> CqList(4)[nrnk + 1]]
    [] ppn \in 5 .. 8 -> [tni |-> (nrnk % 2) * 3, cq |-> CqList(8)[nrnk \div 2 + 1]]
    [] ppn \in 9 .. 12 -> [tni |-> (nrnk % 3) * 2, cq |-> CqList(12)[nrnk \div 3 + 1]]
    [] OTHER -> [tni |-> nrnk % 6, cq |-> CqList(ppn)[nrnk \div 6 + 1]]

(* utf_peers_init: the ranks of p's node in order; the first one leads     *)
nd_ranks(p) == {q \in Procs : place[q] = place[p]}
mynrnk(p) == Cardinality({q \in nd_ranks(p) : q < p})
myppn(p) == Cardinality(nd_ranks(p))
lrank(p) == CHOOSE q \in nd_ranks(p) : \A r \in nd_ranks(p) : q <= r
IsLeader(p) == lrank(p) = p

(* jtofu_query_max_proc_per_node                                           *)
MaxPpn == CHOOSE n \in {myppn(p) : p \in Procs} : \A p \in Procs : myppn(p) <= n

(* the queue on which the others reach p, as each process computes it      *)
tniq(p) == utf_tni_select(MaxPpn, mynrnk(p))

(* utf_vname_vcqid: the address of p's queue                               *)
vcqid(p) == <<place[p], tniq(p)>>

(* utofu_get_onesided_tnis                                                 *)
OnesidedTnis == <<0, 1, 2, 3, 4, 5>>

(* utf_info.tniids: a queue on every TNI, the primary one first and then   *)
(* the others in order                                                     *)
tniids(p) ==
  LET prim == tniq(p).tni
      t == OnesidedTnis
  IN  [i \in 1 .. Len(t) |-> IF i = 1 THEN prim ELSE IF t[i - 1] < prim THEN t[i - 1] ELSE t[i]]

-----------------------------------------------------------------------------
(* Segments of shared memory, an operating system's.  Every key is ftok's  *)
(* -1, the file not being there, so a node has one segment with a key at a *)
(* time; it loses the key by IPC_RMID and goes when nobody is attached.    *)
Attached(i) == {p \in Procs : \E k \in Kinds : shmid[p][k] = i}
Keyed(n) == {i \in DOMAIN seg : seg[i].node = n /\ seg[i].key}
FreshId == CHOOSE i \in 1 .. Cardinality(DOMAIN seg) + 1 : i \notin DOMAIN seg

(* head is the first word, with which utf_shm_init_internal counts; word   *)
(* is what a program has stored into it last, NoWord before                *)
NewSeg(n, k, size) ==
  [node |-> n, key |-> TRUE, size |-> size, kind |-> k, by |-> job,
   head |-> 0, word |-> NoWord, entries |-> <<>>, stores |-> {}]

Without(s, i) == [j \in DOMAIN s \ {i} |-> s[j]]
With(s, i, r) == [j \in DOMAIN s \cup {i} |-> IF j = i THEN r ELSE s[j]]

(* shmdt, or the end of p                                                  *)
Detached(s, i, p) ==
  IF i \in DOMAIN s /\ ~ s[i].key /\ Attached(i) \subseteq {p} THEN Without(s, i) ELSE s

-----------------------------------------------------------------------------
Call(p) == Program[ip[p]]
At(p, c) == pc[p] = "call" /\ ip[p] <= Len(Program) /\ Call(p) = c

Goto(p, l) == pc' = [pc EXCEPT ![p] = l] /\ UNCHANGED ip

Return(p) ==
  /\ ip' = [ip EXCEPT ![p] = @ + 1]
  /\ pc' = [pc EXCEPT ![p] = IF ip[p] = Len(Program) THEN "end" ELSE "call"]

Tags == {"EGRMGT", "RBUF", "SBUF", "SNDCTR", "RNDV", "RMACQ", "RCVCTR"}

(* what shm_init_internal works on                                         *)
Kind(p) == IF Call(p) \in {"init", "resolve"} THEN "utf" ELSE "usr"
Size(p) == IF Kind(p) = "utf" THEN CqPages ELSE sz
ShmEntry(p) == IF IsLeader(p) THEN "create" ELSE "attach"

job_place == <<job, place, sz>>

(* utf_peers_init creates the queues and sets up shared memory for the     *)
(* table of queues                                                         *)
utf_peers_init(p) ==
  /\ peers' = [peers EXCEPT ![p] = [notfirst |-> 1, vcqhs |-> tniids(p)]]
  /\ Goto(p, ShmEntry(p))

(* utf_jtofuinit: PMIx may fail, and utf_get_peers then stores through the *)
(* null pointer that utf_init and PMIx_Resolve_nodes pass as fi_addr       *)
PeersFail(p) ==
  /\ peers' = [peers EXCEPT ![p].notfirst = -1]
  /\ Goto(p, "aborted")

(* utf_get_peers: only the first call initializes                          *)
utf_get_peers(p, next) ==
  \/ peers[p].notfirst = 1 /\ next /\ UNCHANGED peers
  \/ peers[p].notfirst = 0 /\ utf_peers_init(p)
  \/ peers[p].notfirst = 0 /\ PeersFail(p)

(* utf_init: only the first call does something                            *)
utf_init(p) ==
  /\ At(p, "init")
  /\ utf_initialized' = [utf_initialized EXCEPT ![p] = @ + 1]
  /\ IF utf_initialized[p] > 0
     THEN Return(p) /\ UNCHANGED peers
     ELSE utf_get_peers(p, Goto(p, "mem"))
  /\ UNCHANGED <<job_place, shm_usd, stags, shmid, seg, kvs, fenceVars>>

(* the process manager's library asks for the nodes, before utf_init       *)
PMIx_Resolve_nodes(p) ==
  /\ At(p, "resolve")
  /\ utf_get_peers(p, Return(p))
  /\ UNCHANGED <<job_place, utf_initialized, shm_usd, stags, shmid, seg, kvs, fenceVars>>

(* utf_shm_init_internal of a leader: shmget with IPC_CREAT and shmat.  A  *)
(* segment that has the key is taken if it is large enough                 *)
Create(p) ==
  /\ pc[p] = "create"
  /\ \/ /\ Keyed(place[p]) = {}
        /\ seg' = With(seg, FreshId, NewSeg(place[p], Kind(p), Size(p)))
        /\ shmid' = [shmid EXCEPT ![p][Kind(p)] = FreshId]
        /\ Goto(p, "publish")
     \/ \E i \in Keyed(place[p]) :
          /\ seg[i].size >= Size(p)
          /\ shmid' = [shmid EXCEPT ![p][Kind(p)] = i]
          /\ Goto(p, "publish")
          /\ UNCHANGED seg
     \/ \E i \in Keyed(place[p]) :
          /\ seg[i].size < Size(p)
          /\ Goto(p, "aborted")
          /\ UNCHANGED <<seg, shmid>>
  /\ UNCHANGED <<job_place, utf_initialized, shm_usd, stags, peers, kvs, fenceVars>>

(* mutant: the leader counts itself like the others                        *)
PublishAdds(p) ==
  /\ pc[p] = "publish"
  /\ seg' = [seg EXCEPT ![shmid[p][Kind(p)]].head = @ + 1]
  /\ kvs' = kvs \cup {<<p, Kind(p)>>}
  /\ Goto(p, "gather")
  /\ UNCHANGED <<job_place, utf_initialized, shm_usd, stags, peers, shmid, fenceVars>>

(* the head is set to 1, the leader's count, and the path put into PMIx    *)
Publish(p) ==
  /\ pc[p] = "publish"
  /\ seg' = [seg EXCEPT ![shmid[p][Kind(p)]].head = 1]
  /\ kvs' = kvs \cup {<<p, Kind(p)>>}
  /\ Goto(p, "gather")
  /\ UNCHANGED <<job_place, utf_initialized, shm_usd, stags, peers, shmid, fenceVars>>

(* mutant: one less                                                        *)
GatheredEarly(p) == seg[shmid[p][Kind(p)]].head >= myppn(p) - 1

Gathered(p) == seg[shmid[p][Kind(p)]].head = myppn(p)

(* the leader has found all of the node counted ...                        *)
Gather(p) ==
  /\ pc[p] = "gather"
  /\ Gathered(p)
  /\ Goto(p, "remove")
  /\ UNCHANGED <<job_place, utf_initialized, shm_usd, stags, peers, shmid, seg, kvs, fenceVars>>

(* where a call of utf_shm_init_internal returns to                        *)
ShmReturn(p) == IF Kind(p) = "utf" THEN Goto(p, "table") ELSE Return(p)

(* mutant: the segment keeps its key                                       *)
RemoveKept(p) ==
  /\ pc[p] = "remove"
  /\ seg' = [seg EXCEPT ![shmid[p][Kind(p)]].head = 0]
  /\ ShmReturn(p)
  /\ UNCHANGED <<job_place, utf_initialized, shm_usd, stags, peers, shmid, kvs, fenceVars>>

(* ... and clears the head and removes the key.  The two are one step: of  *)
(* what may come between them, an attachment may as well come before both  *)
(* and a store or a count after both, as nobody reads the head there.      *)
Remove(p) ==
  /\ pc[p] = "remove"
  /\ seg' = [seg EXCEPT ![shmid[p][Kind(p)]].head = 0, ![shmid[p][Kind(p)]].key = FALSE]
  /\ ShmReturn(p)
  /\ UNCHANGED <<job_place, utf_initialized, shm_usd, stags, peers, shmid, kvs, fenceVars>>

(* PMIx_Get of the other processes, until the leader's value is there      *)
Found(p) == <<lrank(p), Kind(p)>> \in kvs

(* shmget without IPC_CREAT, and shmat                                     *)
Attach(p) ==
  /\ pc[p] = "attach"
  /\ Found(p)
  /\ LET mine == {i \in Keyed(place[p]) : seg[i].size >= Size(p)}
     IN  IF mine = {}
         THEN Goto(p, "aborted") /\ UNCHANGED shmid
         ELSE /\ \E i \in mine : shmid' = [shmid EXCEPT ![p][Kind(p)] = i]
              /\ Goto(p, "count")
  /\ UNCHANGED <<job_place, utf_initialized, shm_usd, stags, peers, seg, kvs, fenceVars>>

(* the head is incremented; the process does not wait for the leader       *)
Count(p) ==
  /\ pc[p] = "count"
  /\ seg' = [seg EXCEPT ![shmid[p][Kind(p)]].head = @ + 1]
  /\ ShmReturn(p)
  /\ UNCHANGED <<job_place, utf_initialized, shm_usd, stags, peers, shmid, kvs, fenceVars>>

(* node[mynrnk] of the table: whose it is and the TNIs of its queues       *)
tinfo(p) == [by |-> job, idx |-> peers[p].vcqhs]

(* utf_cqselect_init: p's entry of the table, whose first word, the one    *)
(* that counted the processes, is a field nobody sets                      *)
Table(p) ==
  /\ pc[p] = "table"
  /\ seg' = [seg EXCEPT ![shmid[p]["utf"]].entries = With(@, mynrnk(p), tinfo(p))]
  /\ IF Call(p) = "init" THEN Goto(p, "mem") ELSE Return(p)
  /\ UNCHANGED <<job_place, utf_initialized, shm_usd, stags, peers, shmid, kvs, fenceVars>>

(* mutant: utf_init returns without the fence                              *)
utf_mem_initNoFence(p) ==
  /\ pc[p] = "mem"
  /\ stags' = [stags EXCEPT ![p] = Tags]
  /\ Return(p)
  /\ UNCHANGED fenceVars
  /\ UNCHANGED <<job_place, utf_initialized, shm_usd, peers, shmid, seg, kvs>>

(* utf_mem_init, and utf_init goes on with the fence                       *)
utf_mem_init(p) ==
  /\ pc[p] = "mem"
  /\ stags' = [stags EXCEPT ![p] = Tags]
  /\ Goto(p, "fence")
  /\ FenceEnter(p)
  /\ UNCHANGED <<job_place, utf_initialized, shm_usd, peers, shmid, seg, kvs>>

(* utf_fence, called by the program                                        *)
utf_fence(p) ==
  /\ At(p, "fence")
  /\ Goto(p, "fence")
  /\ FenceEnter(p)
  /\ UNCHANGED <<job_place, utf_initialized, shm_usd, stags, peers, shmid, seg, kvs>>

FenceRead(p) ==
  /\ UpdateRead(p)
  /\ UNCHANGED <<job_place, ip, pc, utf_initialized, shm_usd, stags, peers, shmid, seg, kvs>>

(* the steps with which a fence may be over, and what its caller does then *)
FenceReturn(p) ==
  /\ UpdateWrite(p) \/ Peek(p)
  /\ IF fpc'[p] # "out"
     THEN UNCHANGED <<ip, pc>>
     ELSE IF Call(p) = "finalize" THEN Goto(p, "teardown") ELSE Return(p)
  /\ UNCHANGED <<job_place, utf_initialized, shm_usd, stags, peers, shmid, seg, kvs>>

(* utf_shm_init: once in the life of a process                             *)
utf_shm_init(p) ==
  /\ At(p, "shm_init")
  /\ shm_usd' = [shm_usd EXCEPT ![p] = TRUE]
  /\ IF shm_usd[p] THEN Return(p) ELSE Goto(p, ShmEntry(p))
  /\ UNCHANGED <<job_place, utf_initialized, stags, peers, shmid, seg, kvs, fenceVars>>

(* the program stores into the user's segment; utf_shm_init has handed out *)
(* all of it, the first word, too                                          *)
Store(p) ==
  /\ At(p, "store")
  /\ LET i == shmid[p]["usr"]
     IN  \/ seg' = [seg EXCEPT ![i].stores = @ \cup {job}]
         \/ \E w \in Words :
              seg' = [seg EXCEPT ![i].stores = @ \cup {job}, ![i].head = w, ![i].word = w]
  /\ Return(p)
  /\ UNCHANGED <<job_place, utf_initialized, shm_usd, stags, peers, shmid, kvs, fenceVars>>

utf_shm_finalize(p) ==
  /\ At(p, "shm_finalize")
  /\ seg' = Detached(seg, shmid[p]["usr"], p)
  /\ shmid' = [shmid EXCEPT ![p]["usr"] = NoSeg]
  /\ Return(p)
  /\ UNCHANGED <<job_place, utf_initialized, shm_usd, stags, peers, kvs, fenceVars>>

(* utf_finalize: the last call waits for the others                        *)
utf_finalize(p) ==
  /\ At(p, "finalize")
  /\ utf_initialized' = [utf_initialized EXCEPT ![p] = @ - 1]
  /\ IF utf_initialized[p] > 1
     THEN Return(p) /\ UNCHANGED fenceVars
     ELSE Goto(p, "fence") /\ FenceEnter(p)
  /\ UNCHANGED <<job_place, shm_usd, stags, peers, shmid, seg, kvs>>

(* utf_mem_finalize, utf_procmap_finalize: the queues are freed            *)
Teardown(p) ==
  /\ pc[p] = "teardown"
  /\ stags' = [stags EXCEPT ![p] = @ \ {"EGRMGT", "RBUF", "SBUF", "SNDCTR"}]
  /\ peers' = [peers EXCEPT ![p].vcqhs = <<>>]
  /\ seg' = Detached(seg, shmid[p]["utf"], p)
  /\ shmid' = [shmid EXCEPT ![p]["utf"] = NoSeg]
  /\ Return(p)
  /\ UNCHANGED <<job_place, utf_initialized, shm_usd, kvs, fenceVars>>

Step(p) ==
  \/ utf_init(p) \/ PMIx_Resolve_nodes(p) \/ Create(p) \/ Publish(p) \/ Gather(p) \/ Remove(p)
  \/ Attach(p) \/ Count(p) \/ Table(p) \/ utf_mem_init(p)
  \/ utf_fence(p) \/ FenceRead(p) \/ FenceReturn(p)
  \/ utf_shm_init(p) \/ Store(p) \/ utf_shm_finalize(p)
  \/ utf_finalize(p) \/ Teardown(p)

-----------------------------------------------------------------------------
PerProc(x) == [p \in Procs |-> x]
Unattached == [k \in Kinds |-> NoSeg]
NoPeers == [notfirst |-> 0, vcqhs |-> <<>>]

Init ==
  /\ job = 1
  /\ place \in Places /\ sz \in UsrPages
  /\ ip = PerProc(1) /\ pc = PerProc("call")
  /\ utf_initialized = PerProc(0) /\ shm_usd = PerProc(FALSE)
  /\ peers = PerProc(NoPeers) /\ stags = PerProc({}) /\ shmid = PerProc(Unattached)
  /\ seg = <<>> /\ kvs = {}
  /\ FenceInit

(* the job is over or killed, its processes are gone, the fence's files    *)
(* removed as dfile2.c demands, and another job starts on the nodes        *)
NextJob ==
  /\ job < MaxJobs
  /\ job' = job + 1
  /\ place' \in Places /\ sz' \in UsrPages
  /\ ip' = PerProc(1) /\ pc' = PerProc("call")
  /\ utf_initialized' = PerProc(0) /\ shm_usd' = PerProc(FALSE)
  /\ peers' = PerProc(NoPeers) /\ stags' = PerProc({}) /\ shmid' = PerProc(Unattached)
  /\ seg' = [i \in {j \in DOMAIN seg : seg[j].key} |-> seg[i]]
  /\ kvs' = {}
  /\ FenceReset

Next == NextJob \/ \E p \in Procs : Step(p)

Spec == Init /\ [][Next]_vars /\ \A p \in Procs : WF_vars(Step(p))

-----------------------------------------------------------------------------
Labels == {"call", "create", "publish", "gather", "remove", "attach", "count", "table",
           "mem", "fence", "teardown", "aborted", "end"}

(* Type invariant: indices, counters and handles are what the code declares *)
(* them to be; a process is inside PMIx_Fence exactly when its caller is.  *)
TypeOK ==
  /\ FenceType
  /\ job \in 1 .. MaxJobs /\ place \in Places /\ sz \in UsrPages
  /\ ip \in [Procs -> 1 .. Len(Program) + 1] /\ pc \in [Procs -> Labels]
  /\ utf_initialized \in [Procs -> 0 .. Len(Program)]
  /\ shm_usd \in [Procs -> BOOLEAN]
  /\ peers \in [Procs -> [notfirst : {-1, 0, 1}, vcqhs : Seq(0 .. 5)]]
  /\ stags \in [Procs -> SUBSET Tags]
  /\ \A p \in Procs : \A k \in Kinds : shmid[p][k] \in {NoSeg} \cup DOMAIN seg
  /\ \A p \in Procs : InFence(p) <=> pc[p] = "fence"
  /\ \A n \in Nodes : Cardinality(Keyed(n)) <= 1

(* p may communicate: utf_init has returned and utf_finalize, the last one,*)
(* was not called                                                          *)
InUse(p) == utf_initialized[p] > 0 /\ (Call(p) = "init" => pc[p] = "call")

(* What utf_init and utf_finalize promise to each other through the fences *)
(* at the end of one and the start of the other: a process that may send   *)
(* finds the memory of every process of the job registered, one queue on   *)
(* every TNI, the first on the TNI it computed for that process itself,    *)
(* and the table of queues of its node filled in by the node's processes   *)
(* of this job.                                                            *)
PeersReady ==
  \A p \in Procs : InUse(p) =>
    /\ \A q \in Procs :
         /\ stags[q] = Tags
         /\ peers[q].vcqhs[1] = tniq(q).tni
         /\ Len(peers[q].vcqhs) = Len(OnesidedTnis)
         /\ \A r \in Procs : q # r => vcqid(q) # vcqid(r)
    /\ \A q \in nd_ranks(p) :
         LET tab == seg[shmid[p]["utf"]].entries
         IN  mynrnk(q) \in DOMAIN tab /\ tab[mynrnk(q)] = tinfo(q)

(* utf_shm_init_internal gives the processes of a node one segment of each *)
(* kind and the two kinds different ones, although all keys are equal; the *)
(* user's, of which the library sets only the first word, holds what       *)
(* processes of this job stored and nothing an earlier job, killed         *)
(* anywhere, has left behind.  The counting of processes in the first word *)
(* is over when a program stores there: the word stays what it stored.     *)
SameSegment ==
  /\ TypeOK
  /\ \A p, q \in Procs : \A k, l \in Kinds :
       shmid[p][k] # NoSeg /\ shmid[q][l] # NoSeg =>
         (shmid[p][k] = shmid[q][l] <=> (place[p] = place[q] /\ k = l))
  /\ \A p \in Procs : shmid[p]["usr"] # NoSeg =>
       LET s == seg[shmid[p]["usr"]]
       IN  /\ s.stores \subseteq {job} /\ s.entries = <<>>
           /\ s.word # NoWord => s.head = s.word

(* What the leader of a node does before it removes the key, "wait for     *)
(* other processes' progress" (utf_procmap.c:417): they are all attached.  *)
LeaderWaits ==
  \A p \in Procs : pc[p] = "remove" /\ Kind(p) = "usr" =>
    \A q \in nd_ranks(p) : shm_usd[q] /\ pc[q] \notin {"attach", "count"}

(* Unless PMIx fails, a process dies only if it is a leader whose shmget   *)
(* finds the user's segment of a job killed inside utf_shm_init, smaller   *)
(* than the table of queues.                                               *)
NoAbort ==
  \A p \in Procs : pc[p] = "aborted" /\ peers[p].notfirst # -1 =>
    \E i \in Keyed(place[p]) :
      seg[i].by < job /\ seg[i].kind = "usr" /\ seg[i].size < CqPages

(* Two processes of a node, of any number up to the 48 the table of queues *)
(* has, are never given the same queue of the same TNI by utf_tni_select,  *)
(* and the numbers are those of the interconnect.                          *)
QueuesDistinct ==
  \A ppn \in 1 .. 48 :
    /\ \A a \in 0 .. ppn - 1 :
         utf_tni_select(ppn, a).tni \in 0 .. 5 /\ utf_tni_select(ppn, a).cq \in 0 .. 10
    /\ \A a \in 0 .. ppn - 1 : \A b \in 0 .. a - 1 :
         utf_tni_select(ppn, a) # utf_tni_select(ppn, b)

(* A process has left no more fences than any other has entered, whatever  *)
(* the number of fences over the two files and four markers of fbarrier.   *)
FenceExact == \A p, q \in Procs : ntimes[p] <= Entered(q)

(* a process has died, of PMIx or of what a killed job has left            *)
Aborted == \E p \in Procs : pc[p] = "aborted"

(* A job that is not killed comes to its end: nobody waits for ever in the *)
(* handshake of shared memory or in a fence, unless somebody died.         *)
AllEnd == job = MaxJobs ~> (Aborted \/ \A p \in Procs : pc[p] = "end")
=============================================================================
