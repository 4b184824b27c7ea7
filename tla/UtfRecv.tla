------------------------------- MODULE UtfRecv -------------------------------
(***************************************************************************)
(* The receiving side of one rank (utf_recv, utf_recvengine, utf_wait),    *)
(* its pool of requests, which the rank's own sends share, and the         *)
(* rendezvous transfer with the ranks that send to it.                     *)
(*                                                                         *)
(* A source's packets come in order and exactly once, which is what        *)
(* UtfEager establishes of the receive rings: ring[s] is what utf_progress *)
(* has still to hand to utf_recvengine.  The rank is single-threaded, an   *)
(* action is one call of utf_recv, utf_wait or utf_send, or the handling   *)
(* of one packet or notice inside utf_progress.                            *)
(*                                                                         *)
(* A payload is <<source, number of the message, number of the part>>; a   *)
(* part is one packet of an eager message or one remote get of at most     *)
(* TOFU_RMA_MAXSZ bytes.  A user's buffer holds any eager message; what a  *)
(* rendezvous brings beyond its size is cut off.                           *)
(***************************************************************************)
EXTENDS Integers, SequencesExt

CONSTANTS
  Srcs,           \* the ranks that send to this one
  Tags,           \* the tags they use
  Kinds,          \* the messages they send: [rndz, size in parts]
  RecvArgs,       \* the <<src, tag, size>> utf_recv is called with, size in parts
  SendTypes,      \* the requests its own sends use
  MSGREQ_SEND_SZ, \* limit of send requests, and size of utf_rndz_pool
  MSGREQ_RECV_SZ, \* limit of receive requests
  MaxMsg,         \* bound: messages per source
  MaxRecv,        \* bound: calls of utf_recv
  MaxSend         \* bound: calls of utf_send

ANY == -1
MSGREQ_SIZE == MSGREQ_SEND_SZ + MSGREQ_RECV_SZ
MsgReq == 0 .. MSGREQ_SIZE - 1
NoReq == -1

ASSUME RecvAssumption ==
  /\ Srcs \subseteq Nat /\ Tags \subseteq Nat
  /\ Kinds \subseteq [rndz : BOOLEAN, size : Nat \ {0}]
  /\ RecvArgs \subseteq (Srcs \cup {ANY}) \X (Tags \cup {ANY}) \X (Nat \ {0})
  /\ \A a \in RecvArgs, k \in Kinds : ~ k.rndz => k.size <= a[3]
  /\ SendTypes \subseteq {"SND_BUFFERED_EAGER", "SND_INPLACE_EAGER"}
  /\ MSGREQ_SEND_SZ \in Nat \ {0} /\ MSGREQ_RECV_SZ \in Nat \ {0}
  /\ MaxMsg \in Nat /\ MaxRecv \in Nat /\ MaxSend \in Nat

VARIABLES
  req,        \* utf_msgrq[]
  freelst,    \* utf_msgreq_freelst
  rreq_count, sreq_count,
  explst,     \* utf_explst: posted receives
  uexplst,    \* utf_uexplst: messages nobody has asked for
  urp,        \* utf_rcntr[]: state and request of each source's ring
  ring,       \* packets of each source, not yet handled
  proglst,    \* utf_rget_proglst
  gets,       \* remote gets in flight, per source
  lclget,     \* number of MRQ_TYPE_LCL_GET notices, per source
  rndzfree,   \* utf_rndz_freelst of each source
  rndzprog,   \* utf_rndz_proglst of each source
  rgetdone,   \* positions in the MRQ_TYPE_RMT_ARMW notices of each source
  sent,       \* the messages each source posted
  released,   \* the rendezvous messages whose send request is done
  recvs,      \* the successful calls of utf_recv
  ubuf,       \* their buffers
  sends,      \* the rank's own send requests
  engine,     \* send requests the send engine still refers to
  fault       \* a rank has run into abort() or a failing assertion

poolVars == <<req, freelst, rreq_count, sreq_count>>
lstVars  == <<explst, uexplst>>
rgetVars == <<proglst, gets, lclget>>
srcVars  == <<rndzfree, rndzprog, rgetdone, sent, released>>
userVars == <<recvs, ubuf, sends, engine>>
vars == <<poolVars, lstVars, urp, ring, rgetVars, srcVars, userVars, fault>>

-----------------------------------------------------------------------------
FreeReq ==
  [state |-> "NONE", type |-> "NONE", src |-> ANY, tag |-> ANY, size |-> 0,
   rndz |-> FALSE, rsize |-> 0, rndzpos |-> 0, msg |-> 0, usr |-> 0,
   usrreqsz |-> 0, rcvexpsz |-> 0, buf |-> <<>>, reclaim |-> FALSE]

Init ==
  /\ req = [i \in MsgReq |-> FreeReq]
  /\ freelst = [i \in 1 .. MSGREQ_SIZE |-> i - 1]
  /\ rreq_count = 0 /\ sreq_count = 0
  /\ explst = <<>> /\ uexplst = <<>>
  /\ urp = [s \in Srcs |-> [state |-> "R_NONE", req |-> NoReq]]
  /\ ring = [s \in Srcs |-> <<>>]
  /\ proglst = <<>>
  /\ gets = [s \in Srcs |-> <<>>]
  /\ lclget = [s \in Srcs |-> 0]
  /\ rndzfree = [s \in Srcs |-> [i \in 1 .. MSGREQ_SEND_SZ |-> i - 1]]
  /\ rndzprog = [s \in Srcs |-> {}]
  /\ rgetdone = [s \in Srcs |-> {}]
  /\ sent = [s \in Srcs |-> <<>>]
  /\ released = [s \in Srcs |-> {}]
  /\ recvs = <<>> /\ ubuf = <<>>
  /\ sends = <<>> /\ engine = {}
  /\ fault = FALSE

-----------------------------------------------------------------------------
(* The pool.  utf_sendreq_alloc and utf_recvreq_alloc refuse when the      *)
(* count is above the limit and abort when the pool is empty.              *)

SendReqRefused == sreq_count > MSGREQ_SEND_SZ

(* mutant: the limit is that of the sends                                  *)
RecvReqRefusedSend == rreq_count > MSGREQ_SEND_SZ

RecvReqRefused == rreq_count > MSGREQ_RECV_SZ
PoolEmpty == freelst = <<>>

(* The lists (utf_list.h): an entry goes to the end or to the front, the   *)
(* first one or one in the middle is taken.                                *)
utfslist_append(lst, ent) == Append(lst, ent)
utfslist_insert(lst, ent) == <<ent>> \o lst
utfslist_remove(lst) == Tail(lst)
utfslist_remove2(lst, at) == RemoveAt(lst, at)

Fault ==
  /\ fault' = TRUE
  /\ UNCHANGED <<poolVars, lstVars, urp, ring, rgetVars, srcVars, userVars>>

-----------------------------------------------------------------------------
(* Matching.                                                               *)

(* The test of utf_uexplst_match: a receive meets a queued message.        *)
(* With a given source and any tag the code compares the source with the   *)
(* message's tag.                                                          *)
UexpMatches(src, tag, m) ==
  \/ src = ANY /\ tag = ANY
  \/ src = ANY /\ tag # ANY /\ tag = m.tag
  \/ src # ANY /\ tag = ANY /\ src = m.tag
  \/ src # ANY /\ tag # ANY /\ src = m.src /\ tag = m.tag

(* mutant: the source is compared with the tag here as well                *)
ExpMatchesTag(e, src, tag) == e.src = tag /\ e.tag = tag

(* The test of utf_explst_match: a message meets a posted receive.  A      *)
(* receive from any source takes a message of any tag, unless it asked for *)
(* any tag.                                                                *)
ExpMatches(e, src, tag) ==
  \/ e.src = ANY /\ e.tag # ANY
  \/ e.src = ANY /\ e.tag = tag
  \/ e.tag = ANY /\ e.src = src
  \/ e.src = src /\ e.tag = tag

(* mutant: the newest entry is taken                                       *)
utf_uexplst_matchLast(src, tag) ==
  SelectLastInSeq(uexplst, LAMBDA m : UexpMatches(src, tag, m))

(* the position of the first entry that matches, 0 if there is none        *)
utf_uexplst_match(src, tag) ==
  SelectInSeq(uexplst, LAMBDA m : UexpMatches(src, tag, m))

utf_explst_match(src, tag) ==
  SelectInSeq(explst, LAMBDA e : ExpMatches(e, src, tag))

(* utf_msglst_append                                                       *)
Listed(q, i) == [src |-> q.src, tag |-> q.tag, reqidx |-> i]

(* The engine's side of the lists.  The packets here are those of utf_send *)
(* (flgs 0), not the fabric provider's.                                    *)
utfgen_explst_match(pkt) == utf_explst_match(pkt.src, pkt.tag)
utfgen_uexplst_enqueue(q, i) == uexplst' = utfslist_append(uexplst, Listed(q, i))

-----------------------------------------------------------------------------
(* Buffers and gets.                                                       *)

Payload(pkt) == <<pkt.src, pkt.msg, pkt.part>>

(* mutant: the message is not done with its last packet                    *)
FilledLate(q, pkt) ==
  [q EXCEPT !.rsize = @ + 1,
            !.buf = IF q.usr = 0 THEN Append(@, Payload(pkt)) ELSE @,
            !.state = IF q.rsize = q.size THEN "DONE" ELSE @]

(* the request after packet pkt: req->hdr.size == req->rsize is its end    *)
Filled(q, pkt) ==
  [q EXCEPT !.rsize = @ + 1,
            !.buf = IF q.usr = 0 THEN Append(@, Payload(pkt)) ELSE @,
            !.state = IF q.rsize + 1 = q.size THEN "DONE" ELSE @]

(* eager_copy_and_check, and label done: packet pkt goes to request i,     *)
(* which is q so far                                                       *)
EagerCopy(s, i, q, pkt) ==
  LET f == Filled(q, pkt)
  IN  /\ req' = [req EXCEPT ![i] = f]
      /\ ubuf' = IF q.usr = 0 THEN ubuf
                 ELSE [ubuf EXCEPT ![q.usr] = Append(@, Payload(pkt))]
      /\ urp' = [urp EXCEPT ![s] =
                   IF f.state = "DONE" THEN [state |-> "R_NONE", req |-> NoReq]
                   ELSE [state |-> "R_BODY", req |-> i]]

GetOp(i, q, part) == [req |-> i, msg |-> q.msg, part |-> part]

(* what rget_start makes of the request: the smaller of the two sizes is   *)
(* transferred                                                             *)
Wanted(q) ==
  [q EXCEPT !.state = "DO_RNDZ", !.rsize = 1,
            !.rcvexpsz = IF q.usrreqsz < q.size THEN q.usrreqsz ELSE q.size]

(* rget_start: the first get is issued, the request joins utf_rget_proglst *)
RgetStart(i, q) ==
  /\ req' = [req EXCEPT ![i] = Wanted(q)]
  /\ gets' = [gets EXCEPT ![q.src] = Append(@, GetOp(i, q, 1))]
  /\ proglst' = utfslist_append(proglst, i)
  /\ UNCHANGED lclget

-----------------------------------------------------------------------------
(* The sources.  What utf_send and the send engine of source s do with a   *)
(* message: its packets are put into the ring; a rendezvous takes a        *)
(* position of utf_rndz_pool for the time of the transfer.                 *)

Packets(s, n, tag, kind, pos) ==
  [c \in 1 .. (IF kind.rndz THEN 1 ELSE kind.size) |->
     [src |-> s, tag |-> tag, msg |-> n, part |-> c, size |-> kind.size,
      rndz |-> kind.rndz, rndzpos |-> pos]]

(* the position utf_rndzprog_alloc takes from utf_rndz_freelst; it asserts *)
(* that there is one                                                       *)
utf_rndzprog_alloc(s) == Head(rndzfree[s])

Post(s, tag, kind) ==
  LET n   == Len(sent[s]) + 1
      none == kind.rndz /\ rndzfree[s] = <<>>
      pos == IF kind.rndz /\ ~ none THEN utf_rndzprog_alloc(s) ELSE 0
  IN  /\ ~ fault /\ n <= MaxMsg
      /\ ~ (Cardinality(rndzprog[s]) > MSGREQ_SEND_SZ)
      /\ IF none
         THEN Fault
         ELSE /\ sent' = [sent EXCEPT ![s] =
                            Append(@, [tag |-> tag, kind |-> kind])]
              /\ ring' = [ring EXCEPT ![s] = @ \o Packets(s, n, tag, kind, pos)]
              /\ IF kind.rndz
                 THEN /\ rndzfree' = [rndzfree EXCEPT ![s] = utfslist_remove(@)]
                      /\ rndzprog' = [rndzprog EXCEPT ![s] =
                                        @ \cup {[mypos |-> pos, msg |-> n]}]
                 ELSE UNCHANGED <<rndzfree, rndzprog>>
              /\ UNCHANGED <<poolVars, lstVars, urp, rgetVars, rgetdone,
                             released, userVars, fault>>

find_rndzprog(s, pos) == {m \in rndzprog[s] : m.mypos = pos}

(* utf_rndz_done: the receiver has got the whole message of position pos,  *)
(* which must be one of a transfer in progress                             *)
RndzDone(s, pos) ==
  /\ ~ fault /\ pos \in rgetdone[s]
  /\ rgetdone' = [rgetdone EXCEPT ![s] = @ \ {pos}]
  /\ IF find_rndzprog(s, pos) = {}
     THEN /\ fault' = TRUE
          /\ UNCHANGED <<rndzprog, released, rndzfree>>
     ELSE /\ \E m \in find_rndzprog(s, pos) :
               /\ rndzprog' = [rndzprog EXCEPT ![s] = @ \ {m}]
               /\ released' = [released EXCEPT ![s] = @ \cup {m.msg}]
          /\ rndzfree' = [rndzfree EXCEPT ![s] = utfslist_insert(@, pos)]
          /\ UNCHANGED fault
  /\ UNCHANGED <<poolVars, lstVars, urp, ring, rgetVars, sent, userVars>>

-----------------------------------------------------------------------------
(* utf_recv                                                                *)

Call(src, tag, size, i, msg) ==
  [src |-> src, tag |-> tag, size |-> size, req |-> i, open |-> TRUE,
   msg |-> msg, late |-> FALSE]

(* an unexpected message matches                                           *)
RecvUnexpected(src, tag, size) ==
  LET at == utf_uexplst_match(src, tag)
      i  == uexplst[at].reqidx
      q  == req[i]
      r  == Len(recvs) + 1
      call == Call(src, tag, size, i, <<q.src, q.msg>>)
  IN  /\ ~ fault /\ r <= MaxRecv /\ at # 0
      /\ uexplst' = utfslist_remove2(uexplst, at)
      /\ \/ /\ q.rndz
            /\ RgetStart(i, [q EXCEPT !.usr = r, !.usrreqsz = size])
            /\ recvs' = Append(recvs, call)
            /\ ubuf' = Append(ubuf, <<>>)
         \/ /\ ~ q.rndz /\ q.state = "DONE"
            /\ ubuf' = Append(ubuf, q.buf)
            /\ req' = [req EXCEPT ![i].buf = <<>>]
            /\ recvs' = Append(recvs, call)
            /\ UNCHANGED rgetVars
         \/ /\ ~ q.rndz /\ q.state # "DONE"
            /\ req' = [req EXCEPT ![i].type = "RECV_EXPECTED"]
            /\ recvs' = Append(recvs, [call EXCEPT !.late = TRUE])
            /\ ubuf' = Append(ubuf, <<>>)
            /\ UNCHANGED rgetVars
      /\ UNCHANGED <<freelst, rreq_count, sreq_count, explst, urp, ring, srcVars,
                     sends, engine, fault>>

(* no message matches: the receive is posted, unless it is refused with    *)
(* UTF_ERR_NOMORE_REQBUF                                                   *)
RecvPosted(src, tag, size) ==
  LET i == Head(freelst)
      r == Len(recvs) + 1
      q == [req[i] EXCEPT !.state = "PRG_NORMAL", !.type = "RECV_EXPECTED",
              !.src = src, !.tag = tag, !.rsize = 0, !.usrreqsz = size,
              !.usr = r]
  IN  /\ ~ fault /\ r <= MaxRecv
      /\ utf_uexplst_match(src, tag) = 0
      /\ ~ RecvReqRefused
      /\ IF PoolEmpty THEN Fault
         ELSE /\ freelst' = utfslist_remove(freelst)
              /\ rreq_count' = rreq_count + 1
              /\ req' = [req EXCEPT ![i] = q]
              /\ explst' = utfslist_append(explst, Listed(q, i))
              /\ recvs' = Append(recvs, Call(src, tag, size, i, <<>>))
              /\ ubuf' = Append(ubuf, <<>>)
              /\ UNCHANGED <<sreq_count, uexplst, urp, ring, rgetVars, srcVars,
                             sends, engine, fault>>

-----------------------------------------------------------------------------
(* utf_recvengine on the next packet of source s; utf_progress goes on to  *)
(* the next slot whatever it answers.                                      *)

Header(q, pkt) ==
  [q EXCEPT !.src = pkt.src, !.tag = pkt.tag, !.size = pkt.size,
            !.rndz = pkt.rndz, !.rndzpos = pkt.rndzpos, !.msg = pkt.msg]

(* R_NONE, and a posted receive matches                                    *)
PktExpected(s) ==
  LET pkt == Head(ring[s])
      at  == utfgen_explst_match(pkt)
      i   == explst[at].reqidx
      q   == Header(req[i], pkt)
  IN  /\ ~ fault /\ ring[s] # <<>> /\ urp[s].state = "R_NONE" /\ at # 0
      /\ ring' = [ring EXCEPT ![s] = Tail(@)]
      /\ explst' = utfslist_remove2(explst, at)
      /\ recvs' = [recvs EXCEPT ![q.usr].msg = <<pkt.src, pkt.msg>>]
      /\ \/ /\ pkt.rndz
            /\ RgetStart(i, q)
            /\ UNCHANGED <<urp, ubuf>>
         \/ /\ ~ pkt.rndz
            /\ EagerCopy(s, i, q, pkt)
            /\ UNCHANGED rgetVars
      /\ UNCHANGED <<freelst, rreq_count, sreq_count, uexplst, srcVars, sends,
                     engine, fault>>

(* R_NONE, and none does: the message is queued under a request of its     *)
(* own.  Without a request the engine answers 1, and the packet is gone.   *)
PktUnexpected(s) ==
  LET pkt == Head(ring[s])
      i   == Head(freelst)
      q   == [Header(req[i], pkt) EXCEPT !.type = "RECV_UNEXPECTED",
                !.rsize = 0, !.usr = 0, !.buf = <<>>,
                !.state = IF pkt.rndz THEN "WAIT_RNDZ" ELSE "NONE"]
  IN  /\ ~ fault /\ ring[s] # <<>> /\ urp[s].state = "R_NONE"
      /\ utfgen_explst_match(pkt) = 0
      /\ IF RecvReqRefused
         THEN /\ ring' = [ring EXCEPT ![s] = Tail(@)]
              /\ UNCHANGED <<poolVars, uexplst, urp, ubuf, fault>>
         ELSE IF PoolEmpty
         THEN /\ fault' = TRUE
              /\ UNCHANGED <<poolVars, uexplst, ring, urp, ubuf>>
         ELSE /\ ring' = [ring EXCEPT ![s] = Tail(@)]
              /\ freelst' = utfslist_remove(freelst)
              /\ rreq_count' = rreq_count + 1
              /\ utfgen_uexplst_enqueue(q, i)
              /\ IF pkt.rndz
                 THEN /\ req' = [req EXCEPT ![i] = q]
                      /\ UNCHANGED <<urp, ubuf>>
                 ELSE EagerCopy(s, i, q, pkt)
              /\ UNCHANGED <<sreq_count, fault>>
      /\ UNCHANGED <<explst, rgetVars, srcVars, recvs, sends, engine>>

(* R_BODY                                                                  *)
PktBody(s) ==
  LET pkt == Head(ring[s])
      i   == urp[s].req
  IN  /\ ~ fault /\ ring[s] # <<>> /\ urp[s].state = "R_BODY"
      /\ ring' = [ring EXCEPT ![s] = Tail(@)]
      /\ EagerCopy(s, i, req[i], pkt)
      /\ UNCHANGED <<freelst, rreq_count, sreq_count, lstVars, rgetVars, srcVars,
                     recvs, sends, engine, fault>>

-----------------------------------------------------------------------------
(* Rendezvous: gets and their completion.                                  *)

(* a get reads the sender's buffer and writes the receiver's; gets from    *)
(* one rank complete in order (UTOFU_ONESIDED_FLAG_STRONG_ORDER)           *)
NetGet(s) ==
  LET g == Head(gets[s])
  IN  /\ ~ fault /\ gets[s] # <<>>
      /\ gets' = [gets EXCEPT ![s] = Tail(@)]
      /\ lclget' = [lclget EXCEPT ![s] = @ + 1]
      /\ ubuf' = [ubuf EXCEPT ![req[g.req].usr] = Append(@, <<s, g.msg, g.part>>)]
      /\ UNCHANGED <<poolVars, lstVars, urp, ring, proglst, srcVars, recvs, sends,
                     engine, fault>>

(* mutant: find_rget_msgreq finds the newest request of the source         *)
RgetOfLast(s) == SelectLastInSeq(proglst, LAMBDA i : req[i].src = s)

(* find_rget_msgreq: the first request whose sender has the notice's vcqid *)
RgetOf(s) == SelectInSeq(proglst, LAMBDA i : req[i].src = s)

(* mutant: the sender is told after the first get                          *)
RgetMoreNever(q) == FALSE

RgetMore(q) == q.rsize # q.rcvexpsz

(* rget_continue: the next part is asked for, and the request joins the    *)
(* others again, which are rest                                            *)
rget_continue(s, i, rest) ==
  /\ gets' = [gets EXCEPT ![s] = Append(@, GetOp(i, req[i], req[i].rsize + 1))]
  /\ req' = [req EXCEPT ![i].rsize = @ + 1]
  /\ proglst' = utfslist_append(rest, i)
  /\ UNCHANGED rgetdone

(* utf_rget_progress on the request at a position of utf_rget_proglst: it  *)
(* goes on, or the sender is told and the request is done                  *)
utf_rget_progress(s, at) ==
  LET i    == proglst[at]
      rest == utfslist_remove2(proglst, at)
  IN  \/ RgetMore(req[i]) /\ rget_continue(s, i, rest)
      \/ /\ ~ RgetMore(req[i])
         /\ proglst' = rest
         /\ rgetdone' = [rgetdone EXCEPT ![s] = @ \cup {req[i].rndzpos}]
         /\ req' = [req EXCEPT ![i].state = "DONE"]
         /\ UNCHANGED gets

(* MRQ_TYPE_LCL_GET                                                        *)
MrqLclGet(s) ==
  LET at == RgetOf(s)
  IN  /\ ~ fault /\ lclget[s] > 0
      /\ lclget' = [lclget EXCEPT ![s] = @ - 1]
      /\ fault' = (at = 0)
      /\ IF at = 0 THEN UNCHANGED <<req, gets, proglst, rgetdone>>
         ELSE utf_rget_progress(s, at)
      /\ UNCHANGED <<freelst, rreq_count, sreq_count, lstVars, urp, ring, rndzfree,
                     rndzprog, sent, released, userVars>>

-----------------------------------------------------------------------------
(* utf_wait and utf_waitcmpl on a receive.  The application waits once for *)
(* each request.                                                           *)

Freed(i) ==
  /\ req' = [req EXCEPT ![i].state = "NONE"]
  /\ freelst' = utfslist_insert(freelst, i)

WaitRecv(r) ==
  LET i == recvs[r].req
  IN  /\ ~ fault /\ recvs[r].open
      /\ req[i].state = "DONE"
      /\ Freed(i)
      /\ rreq_count' = rreq_count - 1
      /\ recvs' = [recvs EXCEPT ![r].open = FALSE]
      /\ UNCHANGED <<sreq_count, lstVars, urp, ring, rgetVars, srcVars, ubuf, sends,
                     engine, fault>>

(* utf_waitcmpl takes a request in state REQ_NONE to be done already       *)
WaitCmplRecv(r) ==
  /\ ~ fault /\ recvs[r].open
  /\ req[recvs[r].req].state = "NONE"
  /\ recvs' = [recvs EXCEPT ![r].open = FALSE]
  /\ UNCHANGED <<poolVars, lstVars, urp, ring, rgetVars, srcVars, ubuf, sends, engine,
                 fault>>

-----------------------------------------------------------------------------
(* The rank's own sends, as far as they use the pool.                      *)

Send(type) ==
  LET i == Head(freelst)
  IN  /\ ~ fault /\ Len(sends) < MaxSend /\ ~ SendReqRefused
      /\ IF PoolEmpty THEN Fault
         ELSE /\ freelst' = utfslist_remove(freelst)
              /\ sreq_count' = sreq_count + 1
              /\ req' = [req EXCEPT ![i] =
                           [@ EXCEPT !.state = "PRG_NORMAL", !.type = type,
                                     !.reclaim = FALSE]]
              /\ sends' = Append(sends, [req |-> i, open |-> TRUE])
              /\ engine' = engine \cup {i}
              /\ UNCHANGED <<rreq_count, lstVars, urp, ring, rgetVars, srcVars, recvs,
                             ubuf, fault>>

(* S_DONE_EGR in utf_sendengine                                            *)
EngineDone(i) ==
  /\ ~ fault /\ i \in engine
  /\ engine' = engine \ {i}
  /\ \/ /\ req[i].reclaim
        /\ req' = [req EXCEPT ![i] = [@ EXCEPT !.state = "NONE", !.reclaim = FALSE]]
        /\ freelst' = utfslist_insert(freelst, i)
        /\ sreq_count' = sreq_count - 1
     \/ /\ ~ req[i].reclaim
        /\ req' = [req EXCEPT ![i].state = "DONE"]
        /\ UNCHANGED <<freelst, sreq_count>>
  /\ UNCHANGED <<rreq_count, lstVars, urp, ring, rgetVars, srcVars, recvs, ubuf, sends,
                 fault>>

(* mutant: the request is freed though the engine still refers to it       *)
WaitSendFrees(k) ==
  LET i == sends[k].req
  IN  /\ ~ fault /\ sends[k].open
      /\ req[i].type = "SND_BUFFERED_EAGER" \/ req[i].state = "DONE"
      /\ Freed(i)
      /\ sreq_count' = sreq_count - 1
      /\ sends' = [sends EXCEPT ![k].open = FALSE]
      /\ UNCHANGED <<rreq_count, lstVars, urp, ring, rgetVars, srcVars, recvs, ubuf,
                     engine, fault>>

(* utf_wait on a send: a buffered one in progress is left to the engine,   *)
(* which will free it                                                      *)
WaitSend(k) ==
  LET i == sends[k].req
  IN  /\ ~ fault /\ sends[k].open
      /\ \/ /\ req[i].state = "DONE"
            /\ Freed(i)
            /\ sreq_count' = sreq_count - 1
         \/ /\ req[i].type = "SND_BUFFERED_EAGER" /\ req[i].state # "DONE"
            /\ req' = [req EXCEPT ![i].reclaim = TRUE]
            /\ UNCHANGED <<freelst, sreq_count>>
      /\ sends' = [sends EXCEPT ![k].open = FALSE]
      /\ UNCHANGED <<rreq_count, lstVars, urp, ring, rgetVars, srcVars, recvs, ubuf,
                     engine, fault>>

-----------------------------------------------------------------------------
Recv(src, tag, size) ==
  RecvUnexpected(src, tag, size) \/ RecvPosted(src, tag, size)

Progress(s) ==
  \/ PktExpected(s) \/ PktUnexpected(s) \/ PktBody(s)
  \/ MrqLclGet(s)

Next ==
  \/ \E s \in Srcs :
       \/ \E tag \in Tags, kind \in Kinds : Post(s, tag, kind)
       \/ \E pos \in rgetdone[s] : RndzDone(s, pos)
       \/ Progress(s)
       \/ NetGet(s)
  \/ \E a \in RecvArgs : Recv(a[1], a[2], a[3])
  \/ \E r \in DOMAIN recvs : WaitRecv(r) \/ WaitCmplRecv(r)
  \/ \E type \in SendTypes : Send(type)
  \/ \E k \in DOMAIN sends : WaitSend(k)
  \/ \E i \in engine : EngineDone(i)

Spec == Init /\ [][Next]_vars

(* Every rank keeps calling utf_progress and the interconnect completes    *)
(* the gets.                                                               *)
Fairness ==
  \A s \in Srcs :
    /\ WF_vars(Progress(s)) /\ WF_vars(NetGet(s))
    /\ WF_vars(\E pos \in rgetdone[s] : RndzDone(s, pos))

FairSpec == Spec /\ Fairness

-----------------------------------------------------------------------------
(* Properties.                                                             *)

Payloads == Seq(Srcs \X Nat \X Nat)
ReqRecord ==
  [state : {"NONE", "PRG_NORMAL", "DONE", "WAIT_RNDZ", "DO_RNDZ"},
   type : {"NONE", "RECV_EXPECTED", "RECV_UNEXPECTED"} \cup SendTypes,
   src : Srcs \cup {ANY}, tag : Tags \cup {ANY}, size : Nat, rndz : BOOLEAN,
   rsize : Nat, rndzpos : Nat, msg : Nat, usr : Nat, usrreqsz : Nat,
   rcvexpsz : Nat, buf : Payloads, reclaim : BOOLEAN]
Lst == [src : Srcs \cup {ANY}, tag : Tags \cup {ANY}, reqidx : MsgReq]

(* Requests, lists and rings keep their types; the lists hold indices of   *)
(* utf_msgrq[] (utf_recv, utf_recvengine).                                 *)
TypeOK ==
  /\ req \in [MsgReq -> ReqRecord]
  /\ freelst \in Seq(MsgReq)
  /\ rreq_count \in 0 .. MSGREQ_RECV_SZ + 1
  /\ sreq_count \in 0 .. MSGREQ_SEND_SZ + 1
  /\ explst \in Seq(Lst) /\ uexplst \in Seq(Lst)
  /\ urp \in [Srcs -> [state : {"R_NONE", "R_BODY"}, req : MsgReq \cup {NoReq}]]
  /\ proglst \in Seq(MsgReq)
  /\ lclget \in [Srcs -> Nat]
  /\ \A s \in Srcs : rgetdone[s] \subseteq 0 .. MSGREQ_SEND_SZ - 1
  /\ fault \in BOOLEAN

(* the requests somebody still refers to                                   *)
InUse ==
  {explst[i].reqidx : i \in DOMAIN explst}
    \cup {uexplst[i].reqidx : i \in DOMAIN uexplst}
    \cup {urp[s].req : s \in {x \in Srcs : urp[x].req # NoReq}}
    \cup ToSet(proglst) \cup engine
    \cup {recvs[r].req : r \in {x \in DOMAIN recvs : recvs[x].open}}
    \cup {sends[k].req : k \in {x \in DOMAIN sends : sends[x].open}}

(* A request is on the free list at most once and only while neither a     *)
(* list, a ring, the send engine, a get nor the application refers to it;  *)
(* the two counters count what is off the list (utf_recvreq_free,          *)
(* utf_sendreq_free, the reclaim flag of utf_wait).                        *)
PoolSound ==
  /\ TypeOK
  /\ IsInjective(freelst)
  /\ ToSet(freelst) \cap InUse = {}
  /\ rreq_count + sreq_count = MSGREQ_SIZE - Len(freelst)

Exact(c) == c.src # ANY /\ c.tag # ANY

(* A posted receive and a queued message that fit never wait for each      *)
(* other: each side looks at the other's list before it queues (utf_recv,  *)
(* utf_recvengine).                                                        *)
NoMissedMatch ==
  \A i \in DOMAIN explst, j \in DOMAIN uexplst :
    Exact(explst[i]) =>
      <<explst[i].src, explst[i].tag>> # <<uexplst[j].src, uexplst[j].tag>>

(* Receives for one source and tag get that source's messages with that    *)
(* tag in the order in which they were sent, whether they were expected or *)
(* not; none is taken twice, and none is skipped that a receive with a     *)
(* wildcard has not taken.                                                 *)
InOrder ==
  \A r \in DOMAIN recvs :
    LET c    == recvs[r]
        n    == c.msg[2]
        like == {x \in 1 .. r : recvs[x].src = c.src /\ recvs[x].tag = c.tag}
        wild == {m \in 1 .. n : \E x \in DOMAIN recvs :
                                  ~ Exact(recvs[x]) /\ recvs[x].msg = <<c.src, m>>}
        mine == {m \in 1 .. n : sent[c.src][m].tag = c.tag} \ wild
    IN  Exact(c) /\ c.msg # <<>> =>
          /\ c.msg[1] = c.src
          /\ sent[c.src][n].tag = c.tag
          /\ Cardinality(mine) = Cardinality(like)

(* as much of message n of source s as fits into the buffer of a receive   *)
Whole(s, n, size) ==
  [c \in 1 .. Min({size, sent[s][n].kind.size}) |-> <<s, n, c>>]

(* the application sees receive r completed                                *)
Completed(r) == recvs[r].open => req[recvs[r].req].state = "DONE"

(* When the application sees a receive completed its buffer holds the      *)
(* whole message, eager or by remote gets, up to the buffer's size, and    *)
(* nothing else; no get writes past a buffer that is too small.  Receives  *)
(* that took over a message of which only some packets had come are left   *)
(* out: utf_recv leaves their data in the library's buffer                 *)
(* (eager_copy_and_check, utf_rget_progress).                              *)
Delivered ==
  \A r \in DOMAIN recvs :
    Completed(r) /\ ~ recvs[r].late =>
      /\ recvs[r].msg # <<>>
      /\ ubuf[r] = Whole(recvs[r].msg[1], recvs[r].msg[2], recvs[r].size)

(* A sender's rendezvous request completes, and its buffer may be reused,  *)
(* only after every get of the message has read it (utf_rget_progress,     *)
(* utf_rndz_done).                                                         *)
RndzReleased ==
  \A s \in Srcs : \A n \in released[s] :
    /\ \A i \in DOMAIN gets[s] : gets[s][i].msg # n
    /\ \E r \in DOMAIN recvs : /\ recvs[r].msg = <<s, n>>
                               /\ ubuf[r] = Whole(s, n, recvs[r].size)

(* Every message a source posted is taken over by the rank: it is with a   *)
(* receive or queued as unexpected, or its packets are still in the ring;  *)
(* and the rank does not end in abort() for want of a request or in the    *)
(* assertions of utf_rndzprog_alloc, utf_rndz_done and utf_rget_progress.  *)
NothingLost ==
  /\ ~ fault
  /\ \A s \in Srcs : \A n \in DOMAIN sent[s] :
       \/ \E i \in DOMAIN ring[s] : ring[s][i].msg = n
       \/ \E r \in DOMAIN recvs : recvs[r].msg = <<s, n>>
       \/ \E j \in DOMAIN uexplst :
            req[uexplst[j].reqidx].src = s /\ req[uexplst[j].reqidx].msg = n

(* the n-th receive for a source and tag, when n messages were sent        *)
Served(r) ==
  LET c == recvs[r]
  IN  /\ Exact(c)
      /\ Cardinality({x \in 1 .. r : recvs[x].src = c.src /\ recvs[x].tag = c.tag})
           <= Cardinality({m \in DOMAIN sent[c.src] : sent[c.src][m].tag = c.tag})

(* A receive for which enough messages were sent completes, and so does    *)
(* the send of a rendezvous that was received.                             *)
RecvCompletes ==
  /\ \A r \in 1 .. MaxRecv :
       (r \in DOMAIN recvs /\ Served(r)) ~> (r \in DOMAIN recvs /\ Completed(r))
  /\ \A s \in Srcs, n \in 1 .. MaxMsg :
       (\E r \in DOMAIN recvs : recvs[r].msg = <<s, n>> /\ sent[s][n].kind.rndz)
         ~> (n \in released[s])

=============================================================================
