------------------------------ MODULE UtfRecvInv ------------------------------
(***************************************************************************)
(* The inductive invariants behind the theorems of UtfRecvProofs.  TLC     *)
(* checks them on small instances before they are proved.                  *)
(***************************************************************************)
EXTENDS UtfRecv

-----------------------------------------------------------------------------
(* For the types: what TypeOK leaves open.                                 *)

RecvTypes == {"RECV_EXPECTED", "RECV_UNEXPECTED"}
RndzPos == 0 .. MSGREQ_SEND_SZ - 1

Pkt == [src : Srcs, tag : Tags, msg : Nat, part : Nat, size : Nat,
        rndz : BOOLEAN, rndzpos : RndzPos]
CallRecord ==
  [src : Srcs \cup {ANY}, tag : Tags \cup {ANY}, size : Nat, req : MsgReq,
   open : BOOLEAN, msg : Seq(Int), late : BOOLEAN]

TypeLists ==
  /\ req \in [MsgReq -> ReqRecord]
  /\ freelst \in Seq(MsgReq)
  /\ explst \in Seq(Lst) /\ uexplst \in Seq(Lst)
  /\ urp \in [Srcs -> [state : {"R_NONE", "R_BODY"}, req : MsgReq \cup {NoReq}]]
  /\ proglst \in Seq(MsgReq)
  /\ recvs \in Seq(CallRecord)
  /\ sends \in Seq([req : MsgReq, open : BOOLEAN])
  /\ engine \subseteq MsgReq
  /\ fault \in BOOLEAN

TypeRndz ==
  /\ \A i \in MsgReq : req[i].rndzpos \in RndzPos
  /\ ring \in [Srcs -> Seq(Pkt)]
  /\ sent \in [Srcs -> Seq([tag : Tags, kind : Kinds])]
  /\ lclget \in [Srcs -> Nat]
  /\ rndzfree \in [Srcs -> Seq(RndzPos)]
  /\ rgetdone \in [Srcs -> SUBSET RndzPos]

(* a ring has a request while it is in the middle of a message             *)
RingsHold == \A s \in Srcs : urp[s].req # NoReq <=> urp[s].state = "R_BODY"

-----------------------------------------------------------------------------
(* For the pool: who refers to a request, and in which state it is then.   *)

(* the requests in a list, and those of the calls not yet waited for       *)
Held(lst) == {lst[i].reqidx : i \in DOMAIN lst}
Opened(calls) == {calls[c].req : c \in {x \in DOMAIN calls : calls[x].open}}

Free       == ToSet(freelst)
Expected   == Held(explst)
Unexpected == Held(uexplst)
Filling    == {urp[s].req : s \in {x \in Srcs : urp[x].req # NoReq}}
Getting    == ToSet(proglst)
OpenRecvs  == Opened(recvs)
OpenSends  == Opened(sends)

(* nobody refers to a request twice in the same way                        *)
DistinctList(lst) == \A a, b \in DOMAIN lst : lst[a].reqidx = lst[b].reqidx => a = b
DistinctOpen(calls) ==
  \A a, b \in DOMAIN calls :
    calls[a].open /\ calls[b].open /\ calls[a].req = calls[b].req => a = b
DistinctRings ==
  \A s, t \in Srcs : urp[s].req # NoReq /\ urp[s].req = urp[t].req => s = t

Distinct ==
  /\ IsInjective(freelst) /\ IsInjective(proglst)
  /\ DistinctList(explst) /\ DistinctList(uexplst)
  /\ DistinctOpen(recvs) /\ DistinctOpen(sends) /\ DistinctRings

(* The ways to refer to a request exclude each other but for these: a ring *)
(* fills a queued message or a receive, a get fills a receive, and the     *)
(* application and the engine share a send.                                *)
Role(i) ==
  LET q == req[i]
  IN  /\ i \in Free => i \notin InUse
      /\ i \notin Free => q.type \in RecvTypes \cup SendTypes
      /\ i \in Expected =>
           /\ q.state = "PRG_NORMAL" /\ q.type \in RecvTypes
           /\ i \notin Unexpected \cup Filling
      /\ i \in Unexpected =>
           /\ q.state \in {"NONE", "DONE", "WAIT_RNDZ"} /\ q.type \in RecvTypes
           /\ q.rndz <=> q.state = "WAIT_RNDZ"
           /\ i \notin OpenRecvs
      /\ i \in Filling => q.state \in {"NONE", "PRG_NORMAL"} /\ q.type \in RecvTypes
      /\ i \in Getting => q.state = "DO_RNDZ" /\ q.type \in RecvTypes
      /\ i \in OpenRecvs => q.type \in RecvTypes
      /\ i \in engine => q.state = "PRG_NORMAL" /\ q.type \in SendTypes
      /\ i \in OpenSends => q.type \in SendTypes /\ ~ q.reclaim

Roles == \A i \in MsgReq : Role(i)

(* the requests off the free list, by type                                 *)
Off(types) == {i \in MsgReq \ Free : req[i].type \in types}

Counts ==
  /\ rreq_count = Cardinality(Off(RecvTypes)) /\ rreq_count <= MSGREQ_RECV_SZ + 1
  /\ sreq_count = Cardinality(Off(SendTypes)) /\ sreq_count <= MSGREQ_SEND_SZ + 1
  /\ rreq_count + sreq_count = MSGREQ_SIZE - Len(freelst)

(* Every request is free or has one life: a posted receive, a queued       *)
(* message, a message being filled or got, or a send the engine works on   *)
(* (utf_recv, utf_recvengine, utf_rget_progress, utf_sendengine).  It      *)
(* makes PoolSound inductive.                                              *)
PoolInv ==
  TypeLists /\ TypeRndz /\ RingsHold /\ Distinct /\ Roles /\ Counts

-----------------------------------------------------------------------------
(* For the data: what has come of a message, and where it is.              *)

(* the first k parts of message n of source s                              *)
Parts(s, n, k) == [c \in 1 .. k |-> <<s, n, c>>]

GetRecord == [req : MsgReq, msg : Nat, part : Nat]
TypeData ==
  /\ Len(ubuf) = Len(recvs) /\ ubuf \in Seq(Payloads)
  /\ gets \in [Srcs -> Seq(GetRecord)]

(* a receive has room for any eager message                                *)
EagerFits(size) == size > 0 /\ \A k \in Kinds : ~ k.rndz => k.size <= size
Rooms == \A r \in DOMAIN recvs : EagerFits(recvs[r].size)

(* request i has the header of a message that was sent                     *)
Carries(i) ==
  LET q == req[i]
  IN  /\ q.src \in Srcs /\ q.msg \in DOMAIN sent[q.src]
      /\ q.size = sent[q.src][q.msg].kind.size /\ q.rndz = sent[q.src][q.msg].kind.rndz

(* request i is that of a receive which waits for it                       *)
Serves(i) ==
  LET u == req[i].usr
  IN  u \in DOMAIN recvs /\ recvs[u].open /\ ~ recvs[u].late /\ recvs[u].req = i

(* the packets of a source's messages follow each other                    *)
LastPart(p) == p.rndz \/ p.part = p.size
Follows(p, o) == IF LastPart(p) THEN o.part = 1 ELSE o.msg = p.msg /\ o.part = p.part + 1
PktOf(s, p) ==
  /\ p.src = s /\ p.msg \in DOMAIN sent[s] /\ p.part \in 1 .. p.size
  /\ p.size = sent[s][p.msg].kind.size /\ p.rndz = sent[s][p.msg].kind.rndz
NextIs(s, msg, part) == ring[s] # <<>> /\ ring[s][1].msg = msg /\ ring[s][1].part = part
StreamOf(s) ==
  /\ \A j \in DOMAIN ring[s] : PktOf(s, ring[s][j])
  /\ \A j \in DOMAIN ring[s] : j + 1 \in DOMAIN ring[s] => Follows(ring[s][j], ring[s][j + 1])
  /\ ring[s] # <<>> => LastPart(ring[s][Len(ring[s])])
  /\ IF urp[s].req = NoReq THEN ring[s] # <<>> => ring[s][1].part = 1
     ELSE NextIs(s, req[urp[s].req].msg, req[urp[s].req].rsize + 1)
Stream == \A s \in Srcs : StreamOf(s)

(* a message some of whose packets have come                               *)
FilledOf(i) ==
  LET q == req[i]
  IN  /\ Carries(i) /\ ~ q.rndz /\ q.rsize \in 1 .. q.size - 1
      /\ q.usr = 0 => q.buf = Parts(q.src, q.msg, q.rsize)
      /\ q.usr # 0 => /\ Serves(i) /\ recvs[q.usr].msg = <<q.src, q.msg>>
                      /\ ubuf[q.usr] = Parts(q.src, q.msg, q.rsize)
Fill == /\ \A i \in Filling : FilledOf(i)
        /\ \A s \in Srcs : \A i \in MsgReq : urp[s].req = i => req[i].src = s

(* a message that is queued                                                *)
QueuedOf(i) ==
  LET q == req[i]
  IN  /\ Carries(i) /\ q.usr = 0
      /\ q.state = "DONE" => q.buf = Parts(q.src, q.msg, q.size)
Queued == \A i \in Unexpected : QueuedOf(i)

(* a receive that is posted                                                *)
PostedOf(i) ==
  LET q == req[i]
  IN  /\ Serves(i) /\ q.rsize = 0 /\ q.usrreqsz = recvs[q.usr].size
      /\ ubuf[q.usr] = <<>>
Posted == \A i \in Expected : PostedOf(i)

(* a message that is got: the get of its last part is in flight, or not    *)
InFlight(i) == \E s \in Srcs : \E j \in DOMAIN gets[s] : gets[s][j].req = i
GotOf(i) ==
  LET q == req[i]
      size == recvs[q.usr].size
  IN  /\ Carries(i) /\ Serves(i) /\ recvs[q.usr].msg = <<q.src, q.msg>>
      /\ q.rcvexpsz = (IF size < q.size THEN size ELSE q.size) /\ q.rsize \in 1 .. q.rcvexpsz
      /\ ubuf[q.usr] = Parts(q.src, q.msg, IF InFlight(i) THEN q.rsize - 1 ELSE q.rsize)
Got == \A i \in Getting : GotOf(i)

(* The gets of a source are in the order of utf_rget_proglst; those that   *)
(* have completed come first and are as many as the notices.               *)
Landed(s) == {i \in Getting : req[i].src = s /\ ~ InFlight(i)}
Ordered(lst, ops, done) ==
  /\ \A a, b \in DOMAIN lst : \A j, l \in DOMAIN ops :
       lst[a] = ops[j].req /\ lst[b] = ops[l].req /\ j < l => a < b
  /\ \A a, b \in DOMAIN lst : \A l \in DOMAIN ops :
       lst[a] \in done /\ lst[b] = ops[l].req => a < b
(* each asks for the part its request is at, and for no other request's     *)
AllAsked(s, ops) ==
  \A j \in DOMAIN ops : \A i \in {ops[j].req} :
    i \in Getting /\ req[i].src = s /\ ops[j].msg = req[i].msg /\ ops[j].part = req[i].rsize
OnceEach(ops) == \A j, l \in DOMAIN ops : ops[j].req = ops[l].req => j = l
GetsOf(s) ==
  /\ AllAsked(s, gets[s]) /\ OnceEach(gets[s])
  /\ Ordered(proglst, gets[s], Landed(s))
  /\ lclget[s] = Cardinality(Landed(s))
Gets == \A s \in Srcs : GetsOf(s)

(* a receive is served, or has got its message                             *)
Fits(size, m) == IF size < m THEN size ELSE m
HasAll(r) ==
  LET c == recvs[r]
      s == c.msg[1]
      n == c.msg[2]
  IN  /\ c.msg = <<s, n>> /\ s \in Srcs /\ n \in DOMAIN sent[s]
      /\ ubuf[r] = Parts(s, n, Fits(c.size, sent[s][n].kind.size))
DoneOf(r) ==
  LET c == recvs[r]
  IN  ~ c.late =>
        \/ c.open /\ req[c.req].usr = r /\ req[c.req].state \in {"PRG_NORMAL", "DO_RNDZ"}
        \/ (c.open => req[c.req].state = "DONE") /\ HasAll(r)
DoneRecvs == \A r \in DOMAIN recvs : DoneOf(r)

(* Every part of a message that has come is in the buffer of the request   *)
(* or the receive that the message is with, in its place, and the parts to *)
(* come are the next ones in the ring or asked for (eager_copy_and_check,  *)
(* rget_start, rget_continue).  It makes Delivered inductive.              *)
DataInv ==
  TypeData /\ Rooms /\ Stream /\ Fill /\ Queued /\ Posted /\ Got /\ Gets /\ DoneRecvs

-----------------------------------------------------------------------------
(* For the rendezvous: who holds a position of utf_rndz_pool.              *)

(* the requests of messages that are got or wait for a receive             *)
Transfers == Getting \cup {i \in Unexpected : req[i].rndz}

(* the packet or request q of source s has the position of its message,    *)
(* and the source has not been told of it                                  *)
Holds(s, q) ==
  [mypos |-> q.rndzpos, msg |-> q.msg] \in rndzprog[s] /\ q.rndzpos \notin rgetdone[s]

(* a position is free or that of one message                               *)
PositionsOf(s) ==
  /\ \A m \in rndzprog[s] : m.msg \in DOMAIN sent[s]
  /\ \A m, k \in rndzprog[s] : m.mypos = k.mypos \/ m.msg = k.msg => m = k
  /\ IsInjective(rndzfree[s])
  /\ \A m \in rndzprog[s] : m.mypos \notin ToSet(rndzfree[s])
  /\ rgetdone[s] \subseteq {m.mypos : m \in rndzprog[s]}
Positions ==
  /\ rndzprog \in [Srcs -> SUBSET [mypos : RndzPos, msg : Nat]]
  /\ released \in [Srcs -> SUBSET Nat]
  /\ \A s \in Srcs : PositionsOf(s)

(* and held by one packet or request                                       *)
OnWayOf(s) ==
  \A x \in DOMAIN ring[s] : ring[s][x].rndz =>
    /\ Holds(s, ring[s][x])
    /\ \A y \in DOMAIN ring[s] :
         ring[s][y].rndz /\ ring[s][y].rndzpos = ring[s][x].rndzpos => y = x
    /\ \A i \in Transfers : req[i].src = s => req[i].rndzpos # ring[s][x].rndzpos
OnWay == \A s \in Srcs : OnWayOf(s)
Placed ==
  \A i \in Transfers :
    /\ Holds(req[i].src, req[i])
    /\ \A j \in Transfers :
         req[j].src = req[i].src /\ req[j].rndzpos = req[i].rndzpos => j = i

(* receive r has its message; message n of source s is with one that has   *)
Here(r) ==
  /\ ~ recvs[r].late /\ HasAll(r)
  /\ recvs[r].open => req[recvs[r].req].state = "DONE"
GotWhole(s, n) == \E r \in DOMAIN recvs : recvs[r].msg = <<s, n>> /\ Here(r)
ToldOf(s) ==
  /\ \A m \in rndzprog[s] : m.mypos \in rgetdone[s] => GotWhole(s, m.msg)
  /\ \A n \in released[s] :
       n \in DOMAIN sent[s] /\ GotWhole(s, n) /\ \A m \in rndzprog[s] : m.msg # n
Told == \A s \in Srcs : ToldOf(s)

(* A position of utf_rndz_pool is with one message from utf_rndzprog_alloc *)
(* to utf_rndz_done, and the sender is told of it when the message is all  *)
(* there.  It makes RndzReleased inductive.                                *)
RndzInv == Positions /\ OnWay /\ Placed /\ Told

-----------------------------------------------------------------------------
(* For the messages: where each of them is.                                *)

(* message n of source s is in the ring, with a receive, or queued         *)
InRing(s, n) ==
  \E x \in DOMAIN ring[s] : ring[s][x].msg = n /\ ring[s][x].part = 1
WithRecv(s, n) == \E r \in DOMAIN recvs : recvs[r].msg = <<s, n>>
IsQueued(s, n) == \E i \in Unexpected : req[i].src = s /\ req[i].msg = n
Somewhere(s, n) == InRing(s, n) \/ WithRecv(s, n) \/ IsQueued(s, n)

(* It is with the first packet of a message that the engine takes it over, *)
(* and then it is with the request or the receive.  It makes NothingLost   *)
(* inductive.                                                              *)
LostInv ==
  /\ ~ fault
  /\ \A s \in Srcs : \A n \in DOMAIN sent[s] : Somewhere(s, n)
  /\ \A i \in Expected : recvs[req[i].usr].msg = <<>>

-----------------------------------------------------------------------------
(* For the order: which message a receive gets.                            *)

Has(r) == recvs[r].msg # <<>>
Like(x, r) == recvs[x].src = recvs[r].src /\ recvs[x].tag = recvs[r].tag

(* a message is with one receive, that of an exact one fits                *)
Once == \A x, r \in DOMAIN recvs : Has(r) /\ recvs[x].msg = recvs[r].msg => x = r
Matched ==
  \A r \in DOMAIN recvs : Has(r) =>
    \E s \in Srcs : \E n \in DOMAIN sent[s] :
      /\ recvs[r].msg = <<s, n>>
      /\ Exact(recvs[r]) => recvs[r].src = s /\ recvs[r].tag = sent[s][n].tag

(* receives that are alike are served in their order, in that of the       *)
(* messages, and no message is skipped that would fit                      *)
InLine(r) ==
  \A x \in 1 .. r - 1 : Like(x, r) => Has(x) /\ recvs[x].msg[2] < recvs[r].msg[2]
NoneSkipped(r) ==
  \A m \in DOMAIN sent[recvs[r].src] :
    m < recvs[r].msg[2] /\ sent[recvs[r].src][m].tag = recvs[r].tag
      => WithRecv(recvs[r].src, m)
InTurn ==
  \A r \in DOMAIN recvs : Exact(recvs[r]) /\ Has(r) => InLine(r) /\ NoneSkipped(r)

(* the queue and the ring have a source's messages in their order, the     *)
(* posted receives are in that of the calls                                *)
QSrc(j)  == req[uexplst[j].reqidx].src
QMsg(j)  == req[uexplst[j].reqidx].msg
PCall(j) == req[explst[j].reqidx].usr
QueueLine ==
  /\ \A j \in DOMAIN uexplst :
       uexplst[j].src = QSrc(j) /\ uexplst[j].tag = sent[QSrc(j)][QMsg(j)].tag
  /\ \A j, k \in DOMAIN uexplst : j < k /\ QSrc(j) = QSrc(k) => QMsg(j) < QMsg(k)
PostLine ==
  /\ \A j \in DOMAIN explst :
       explst[j].src = recvs[PCall(j)].src /\ explst[j].tag = recvs[PCall(j)].tag
  /\ \A j, k \in DOMAIN explst : j < k => PCall(j) < PCall(k)
  /\ \A r \in DOMAIN recvs : ~ Has(r) => \E j \in DOMAIN explst : PCall(j) = r
First(s, x) == x \in DOMAIN ring[s] /\ ring[s][x].part = 1
RingLine ==
  \A s \in Srcs :
    /\ \A x \in DOMAIN ring[s] : ring[s][x].tag = sent[s][ring[s][x].msg].tag
    /\ \A x, y \in DOMAIN ring[s] :
         First(s, x) /\ First(s, y) /\ x < y => ring[s][x].msg < ring[s][y].msg
    /\ \A x \in DOMAIN ring[s] : First(s, x) =>
         \A n \in DOMAIN sent[s] :
           WithRecv(s, n) \/ IsQueued(s, n) => n < ring[s][x].msg
Apart == \A s \in Srcs : \A n \in DOMAIN sent[s] : ~ (WithRecv(s, n) /\ IsQueued(s, n))

(* A source's messages pass the ring, the queue and the receives without   *)
(* overtaking each other.  It makes InOrder inductive.                     *)
OrderInv == Once /\ Matched /\ InTurn /\ QueueLine /\ PostLine /\ RingLine /\ Apart

=============================================================================
