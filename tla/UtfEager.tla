------------------------------ MODULE UtfEager ------------------------------
(***************************************************************************)
(* The eager protocol of UTF: send controls, eager receive rings and the   *)
(* notices that drive them (utf_msg.c, utf_engine.c, utf_progress.c).      *)
(*                                                                         *)
(* Every rank is one single-threaded process.  It runs inside the library  *)
(* only while the application calls utf_send or utf_progress (utf_test and *)
(* utf_wait loop over utf_progress), so a rank has a program counter and   *)
(* one step handles one TCQ entry, one ring packet or one MRQ notice;      *)
(* remote writes land between any two steps.                               *)
(*                                                                         *)
(* Abstractions.  A message is the sequence of its packets' payloads, a    *)
(* payload is <<number of the message, number of the packet>>.  Puts of    *)
(* one rank to another arrive in order (UTOFU_ONESIDED_FLAG_STRONG_ORDER); *)
(* operations of different kinds are left unordered.  A packet is one      *)
(* 256-byte cache line and lands atomically.  A queued notice may stay     *)
(* invisible to a poll for a while.                                        *)
(***************************************************************************)
EXTENDS Integers, Sequences, FiniteSets

CONSTANTS
  NPROCS,              \* number of ranks
  Dests,               \* Dests[p]: the ranks p sends to
  Types,               \* the message types the application uses
  InplacePkts,         \* packets of an in-place eager message
  COM_RBUF_SIZE,       \* packets in one receive ring
  COM_SCNTR_MINF_SZ,   \* message slots in one send control
  SND_CNTRL_MAX,       \* send controls of a rank
  RCV_CNTRL_INIT,      \* index of the first receive ring handed out
  ToqBusy,             \* may utofu answer UTOFU_ERR_BUSY?
  MaxMsg               \* bound: messages posted per source and destination

Rank    == 0 .. NPROCS - 1
SndCntr == 0 .. SND_CNTRL_MAX - 1
Minf    == 0 .. COM_SCNTR_MINF_SZ - 1
Ring    == 0 .. RCV_CNTRL_INIT
Slot    == 0 .. COM_RBUF_SIZE - 1
None    == -1

MsgType == {"PIGBACK", "BUFFERED", "INPLACE", "RENDEZOUS"}

ASSUME ConstAssumption ==
  /\ NPROCS \in Nat \ {0}
  /\ Dests \in [Rank -> SUBSET Rank]
  /\ Types \subseteq MsgType
  /\ InplacePkts \in Nat /\ InplacePkts > 1
  /\ COM_RBUF_SIZE \in Nat \ {0}
  /\ COM_SCNTR_MINF_SZ \in Nat \ {0}
  /\ SND_CNTRL_MAX \in Nat \ {0}
  /\ RCV_CNTRL_INIT \in Nat
  /\ ToqBusy \in BOOLEAN
  /\ MaxMsg \in Nat

VARIABLES
  pc,        \* where the rank is: "user" or inside the library
  pend,      \* the message utf_send is posting
  cur,       \* utf_sendengine_prep: the control it runs next
  scanj,     \* utf_progress: the ring being peeked
  arvd,      \* utf_progress: a packet arrived in this call
  scntr,     \* utf_scntr[]
  rank2scntridx,
  egrmgt,    \* utf_egrmgt[]: what the rank knows of its peers' rings
  tcq_count, \* utf_tcq_count
  tcq,       \* controls whose piggyback completion is in the TCQ
  lclput,    \* controls with an MRQ_TYPE_LCL_PUT notice
  lclarmw,   \* <<control, old counter>> with an MRQ_TYPE_LCL_ARMW notice
  rcvrst,    \* number of RECVRST notices (MRQ_TYPE_RMT_ARMW) per control
  wire,      \* wire[p][q]: puts of p to q in flight
  addreq,    \* addreq[p]: <<control, rank>> fetch-and-add in flight
  cntr,      \* utf_egr_rbuf.head.cntr
  rbuf,      \* utf_egr_rbuf.rbuf
  rcntr,     \* utf_rcntr[]
  posted,    \* posted[p][q]: the messages utf_send accepted
  retired,   \* retired[p][q]: how many of them left the send control
  inbox      \* inbox[q][p]: the messages utf_recvengine completed

appVars  == <<pend, posted>>
procVars == <<pc, cur, scanj, arvd>>
sndVars  == <<scntr, rank2scntridx, egrmgt, retired>>
tcqVars  == <<tcq_count, tcq>>
mrqVars  == <<lclput, lclarmw, rcvrst>>
netVars  == <<wire, addreq, cntr>>
rcvVars  == <<rbuf, rcntr, inbox>>
vars == <<appVars, procVars, sndVars, tcqVars, mrqVars, netVars, rcvVars>>

-----------------------------------------------------------------------------
(* Messages, packets and controls.                                         *)

NPkt(type) == IF type = "INPLACE" THEN InplacePkts ELSE 1

Message(n, type) == [c \in 1 .. NPkt(type) |-> <<n, c>>]

NoEntry == [cntrtype |-> "NONE", seq |-> 0]

(* The packet minfo_setup prepares.  It clears the header word (hall = 0)  *)
(* and then sets size, pyldsz and rndz: the sidx bits stay 0, whatever     *)
(* control the message is posted on.                                       *)
HdrSidx(k) == 0

Packet(p, k, e, c) ==
  [src |-> p, sidx |-> HdrSidx(k), size |-> NPkt(e.cntrtype),
   pyld |-> <<e.seq, c>>]

NoPkt == [src |-> None, sidx |-> None, size |-> 0, pyld |-> <<0, 0>>]

(* hdr.marker == MSG_MARKER                                                *)
Arrived(pkt) == pkt.size # 0

FreeCntr ==
  [state |-> "FREE", ostate |-> "FREE", dst |-> None, recvidx |-> 0,
   micur |-> 0, mient |-> 0, usize |-> 0, mi |-> [i \in Minf |-> NoEntry]]

NoRing == [recvidx |-> 0, state |-> "R_NONE", svcqid |-> None,
           size |-> 0, asm |-> <<>>]

-----------------------------------------------------------------------------
Init ==
  /\ pc = [p \in Rank |-> "user"]
  /\ pend = [p \in Rank |-> [dst |-> None, type |-> "NONE"]]
  /\ cur = [p \in Rank |-> None]
  /\ scanj = [p \in Rank |-> 0]
  /\ arvd = [p \in Rank |-> FALSE]
  /\ scntr = [p \in Rank |-> [k \in SndCntr |-> FreeCntr]]
  /\ rank2scntridx = [p \in Rank |-> [q \in Rank |-> None]]
  /\ egrmgt = [p \in Rank |->
                [q \in Rank |-> [examed |-> FALSE, sndok |-> FALSE, index |-> 0]]]
  /\ tcq_count = [p \in Rank |-> 0]
  /\ tcq = [p \in Rank |-> {}]
  /\ lclput = [p \in Rank |-> {}]
  /\ lclarmw = [p \in Rank |-> {}]
  /\ rcvrst = [p \in Rank |-> [k \in SndCntr |-> 0]]
  /\ wire = [p \in Rank |-> [q \in Rank |-> <<>>]]
  /\ addreq = [p \in Rank |-> {}]
  /\ cntr = [p \in Rank |-> RCV_CNTRL_INIT]
  /\ rbuf = [p \in Rank |-> [r \in Ring |-> [i \in Slot |-> NoPkt]]]
  /\ rcntr = [p \in Rank |-> [r \in Ring |-> NoRing]]
  /\ posted = [p \in Rank |-> [q \in Rank |-> <<>>]]
  /\ retired = [p \in Rank |-> [q \in Rank |-> 0]]
  /\ inbox = [p \in Rank |-> [q \in Rank |-> <<>>]]

-----------------------------------------------------------------------------
(* utf_sendengine.  Its state machine is a function on the control; the    *)
(* action adds what the control's step does to the outside.                *)

Sending(u) == u.state \in {"HAS_ROOM", "DO_EGR"}

(* mutant: the ring is taken to have one slot more                         *)
HasSlotOffByOne(u) == u.recvidx <= COM_RBUF_SIZE

(* calc_recvstadd: the next ring slot, unless the ring is used up          *)
HasSlot(u) == u.recvidx # COM_RBUF_SIZE

(* mutant: an idle control starts at the ring's first slot again           *)
NextEntryRewinds(u) ==
  LET idx == (u.micur + 1) % COM_SCNTR_MINF_SZ
      v   == [u EXCEPT !.mi[u.micur] = NoEntry]
  IN  IF idx = u.mient
      THEN [v EXCEPT !.micur = 0, !.mient = 0, !.state = "NONE", !.recvidx = 0]
      ELSE [v EXCEPT !.micur = idx, !.state = "HAS_ROOM"]

(* mutant: only mient is set back when the last slot is released           *)
NextEntryKeepsMicur(u) ==
  LET idx == (u.micur + 1) % COM_SCNTR_MINF_SZ
      v   == [u EXCEPT !.mi[u.micur] = NoEntry]
  IN  IF idx = u.mient
      THEN [v EXCEPT !.mient = 0, !.state = "NONE"]
      ELSE [v EXCEPT !.micur = idx, !.state = "HAS_ROOM"]

(* label next_entry: the current slot is released, the next one is taken   *)
NextEntry(u) ==
  LET idx == (u.micur + 1) % COM_SCNTR_MINF_SZ
      v   == [u EXCEPT !.mi[u.micur] = NoEntry]
  IN  IF idx = u.mient
      THEN [v EXCEPT !.micur = 0, !.mient = 0, !.state = "NONE"]
      ELSE [v EXCEPT !.micur = idx, !.state = "HAS_ROOM"]

Retires(u) == u.state \in {"DONE_EGR", "REQ_RDVR"}

(* cases S_HAS_ROOM and S_DO_EGR: one more packet goes out, or the control *)
(* waits for the receiver to empty the ring                                *)
Transmit(u) ==
  LET type == u.mi[u.micur].cntrtype
      sent == IF u.state = "HAS_ROOM" THEN 1 ELSE u.usize + 1
  IN  IF ~ HasSlot(u)
      THEN [u EXCEPT !.ostate = u.state, !.state = "WAIT_BUFREADY"]
      ELSE [u EXCEPT !.recvidx = @ + 1, !.usize = sent,
              !.state = IF type = "RENDEZOUS" THEN "REQ_RDVR"
                        ELSE IF sent = NPkt(type) THEN "DONE_EGR"
                        ELSE "DO_EGR"]

(* the control as the engine reaches s_has_room or S_DO_EGR                *)
Prepared(u) == IF Retires(u) THEN NextEntry(u) ELSE u

(* abort() in S_WAIT_BUFREADY and the assertion on the next slot           *)
EngineFault(u) ==
  LET v == Prepared(u)
  IN  \/ u.state = "WAIT_BUFREADY"
      \/ Sending(v) /\ v.mi[v.micur].cntrtype = "NONE"

EngineResult(u) ==
  LET v == Prepared(u)
  IN  IF Sending(v) /\ ~ EngineFault(u) THEN Transmit(v) ELSE v

Puts(u) ==
  LET v == Prepared(u) IN Sending(v) /\ HasSlot(v) /\ ~ EngineFault(u)

PutType(u) == LET v == Prepared(u) IN v.mi[v.micur].cntrtype

PutOp(p, k, u, ridx) ==
  LET v == Prepared(u)
      w == EngineResult(u)
  IN  [ridx |-> ridx, slot |-> v.recvidx,
       edata |-> k, type |-> PutType(u),
       pkt |-> Packet(p, k, v.mi[v.micur], w.usize)]

(* UTOFU_MSGCALL: when utofu answers BUSY the macro polls the TCQ, and a   *)
(* completion it finds there becomes the call's result                     *)
BusyResult(p, issues, others) ==
  {None} \cup (IF ToqBusy /\ issues THEN others ELSE {})

(* mutant: a completion is accounted twice                                 *)
TcqCountTwice(n, done, pig) == n - (IF done THEN 2 ELSE 0) + (IF pig THEN 1 ELSE 0)

(* utf_tcq_count goes up in remote_piggysend, down in utf_sendengine_prep  *)
TcqCount(n, done, pig) == n - (IF done THEN 1 ELSE 0) + (IF pig THEN 1 ELSE 0)

(* One run of the engine on control k of p, entered as u, with ring ridx   *)
(* at the destination.  b is the completion the transmit call may have     *)
(* swallowed; done is TRUE when the caller accounts a TCQ completion of k. *)
SendEngine(p, k, u, ridx, b, done) ==
  LET mine == IF done THEN {k} ELSE {}
      pig  == Puts(u) /\ PutType(u) = "PIGBACK"
  IN  /\ b \in BusyResult(p, Puts(u), tcq[p] \ {k})
      /\ scntr' = [scntr EXCEPT ![p][k] = EngineResult(u)]
      /\ wire' = IF Puts(u)
                 THEN [wire EXCEPT ![p][u.dst] = Append(@, PutOp(p, k, u, ridx))]
                 ELSE wire
      /\ tcq' = [tcq EXCEPT ![p] =
                   (@ \ (mine \cup {b})) \cup (IF pig THEN {k} ELSE {})]
      /\ tcq_count' = [tcq_count EXCEPT ![p] = TcqCount(@, done, pig)]
      /\ retired' = IF Retires(u)
                    THEN [retired EXCEPT ![p][u.dst] = @ + 1] ELSE retired

Continue(p, u, next) ==
  pc' = [pc EXCEPT ![p] = IF EngineFault(u) THEN "abort" ELSE next]

-----------------------------------------------------------------------------
(* The application calls utf_send or utf_progress.                         *)

(* utf_send up to its call of utf_tcqprogress                              *)
SendCall(p, d, type) ==
  /\ pc[p] = "user"
  /\ Len(posted[p][d]) < MaxMsg
  /\ pend' = [pend EXCEPT ![p] = [dst |-> d, type |-> type]]
  /\ pc' = [pc EXCEPT ![p] = IF tcq_count[p] # 0 THEN "sendtcq" ELSE "alloc"]
  /\ UNCHANGED <<posted, cur, scanj, arvd, sndVars, tcqVars, mrqVars, netVars,
                 rcvVars>>

(* utf_scntr_freelst                                                       *)
FreeControls(p) == {k \in SndCntr : scntr[p][k].state = "FREE"}

(* utf_scntr_alloc: the destination's control, else the first free one     *)
(* (the list is filled in index order and never refilled), else            *)
(* UTF_ERR_NOMORE_SNDCNTR                                                  *)
SendAlloc(p) ==
  LET d == pend[p].dst
  IN  /\ pc[p] = "alloc"
      /\ \/ /\ rank2scntridx[p][d] # None
            /\ pc' = [pc EXCEPT ![p] = "send"]
            /\ UNCHANGED <<pend, rank2scntridx, scntr>>
         \/ /\ rank2scntridx[p][d] = None
            /\ \E k \in FreeControls(p) :
                 /\ \A j \in FreeControls(p) : k <= j
                 /\ rank2scntridx' = [rank2scntridx EXCEPT ![p][d] = k]
                 /\ scntr' = [scntr EXCEPT ![p][k] =
                        [@ EXCEPT !.state = "NONE", !.dst = d, !.mient = 0]]
            /\ pc' = [pc EXCEPT ![p] = "send"]
            /\ UNCHANGED pend
         \/ /\ rank2scntridx[p][d] = None /\ FreeControls(p) = {}
            /\ pend' = [pend EXCEPT ![p] = [dst |-> None, type |-> "NONE"]]
            /\ pc' = [pc EXCEPT ![p] = "user"]
            /\ UNCHANGED <<rank2scntridx, scntr>>
      /\ UNCHANGED <<posted, cur, scanj, arvd, egrmgt, retired, tcqVars,
                     mrqVars, netVars, rcvVars>>

(* label retry: the slot is still in use, utf_progress is called           *)
SendRetry(p) ==
  LET u == scntr[p][rank2scntridx[p][pend[p].dst]]
  IN  /\ pc[p] = "send"
      /\ u.mi[u.mient].cntrtype # "NONE"
      /\ pc' = [pc EXCEPT ![p] = "tcq"]
      /\ UNCHANGED <<appVars, cur, scanj, arvd, sndVars, tcqVars, mrqVars,
                     netVars, rcvVars>>

(* minfo_setup on the slot at mient                                        *)
Filled(p, u) ==
  LET d == pend[p].dst
  IN  [u EXCEPT !.mi[u.mient] = [cntrtype |-> pend[p].type,
                                 seq |-> Len(posted[p][d]) + 1],
                !.mient = (@ + 1) % COM_SCNTR_MINF_SZ]

(* utf_send from the free slot to its return, utf_send_start included      *)
SendPost(p) ==
  LET d == pend[p].dst
      k == rank2scntridx[p][d]
      u == scntr[p][k]
      f == Filled(p, u)
      g == [f EXCEPT !.state = "HAS_ROOM"]
      start == u.state = "NONE"
  IN  /\ pc[p] = "send"
      /\ u.mi[u.mient].cntrtype = "NONE"
      /\ posted' = [posted EXCEPT ![p][d] =
                      Append(@, Message(Len(@) + 1, pend[p].type))]
      /\ pend' = [pend EXCEPT ![p] = [dst |-> None, type |-> "NONE"]]
      /\ \/ (* the control is busy: the engine will come to the slot *)
            /\ ~ start
            /\ scntr' = [scntr EXCEPT ![p][k] = f]
            /\ pc' = [pc EXCEPT ![p] = "user"]
            /\ UNCHANGED <<cur, egrmgt, retired, tcqVars, wire, addreq>>
         \/ (* sndok: the engine starts with EVT_START *)
            /\ start /\ egrmgt[p][d].sndok
            /\ UNCHANGED <<egrmgt, addreq>>
            /\ \E b \in {None} \cup tcq[p] :
                 /\ SendEngine(p, k, g, egrmgt[p][d].index, b, FALSE)
                 /\ cur' = [cur EXCEPT ![p] = b]
                 /\ Continue(p, g, IF b = None THEN "user" ELSE "prep")
         \/ (* not examined: a room is requested at the destination; what *)
            (* the transmit call returns is dropped                       *)
            /\ start /\ ~ egrmgt[p][d].sndok /\ ~ egrmgt[p][d].examed
            /\ addreq' = [addreq EXCEPT ![p] = @ \cup {<<k, d>>}]
            /\ egrmgt' = [egrmgt EXCEPT ![p][d].examed = TRUE]
            /\ scntr' = [scntr EXCEPT ![p][k] = [f EXCEPT !.state = "REQ_ROOM"]]
            /\ \E b \in BusyResult(p, TRUE, tcq[p]) :
                 tcq' = [tcq EXCEPT ![p] = @ \ {b}]
            /\ pc' = [pc EXCEPT ![p] = "user"]
            /\ UNCHANGED <<cur, retired, tcq_count, wire>>
      /\ UNCHANGED <<scanj, arvd, rank2scntridx, mrqVars, cntr, rcvVars>>

(* the application calls utf_progress, directly or in utf_test, utf_wait   *)
ProgressCall(p) ==
  /\ pc[p] = "user"
  /\ pc' = [pc EXCEPT ![p] = "tcq"]
  /\ UNCHANGED <<appVars, cur, scanj, arvd, sndVars, tcqVars, mrqVars, netVars,
                 rcvVars>>

-----------------------------------------------------------------------------
(* utf_tcqprogress and utf_sendengine_prep.                                *)

(* one turn of the loop in utf_sendengine_prep: on the control the last    *)
(* transmit call handed back, else on one polled from the TCQ              *)
TcqStep(p, k) ==
  LET u == scntr[p][k]
  IN  /\ \/ pc[p] \in {"sendtcq", "tcq", "prep"} /\ cur[p] = k
         \/ /\ pc[p] \in {"sendtcq", "tcq"} /\ cur[p] = None
            /\ tcq_count[p] # 0 /\ k \in tcq[p]
      /\ \E b \in {None} \cup tcq[p] :
           /\ SendEngine(p, k, u, egrmgt[p][u.dst].index, b, TRUE)
           /\ cur' = [cur EXCEPT ![p] = b]
      /\ Continue(p, u, IF tcq_count'[p] < 0 THEN "abort" ELSE pc[p])
      /\ UNCHANGED <<appVars, scanj, arvd, rank2scntridx, egrmgt, mrqVars,
                     addreq, cntr, rcvVars>>

(* The TCQ is (seen) empty or nothing is outstanding.  utf_progress goes   *)
(* on to peek its rings, from the newest one handed out, and aborts when   *)
(* the counter says that there are no more ("No more Eager Receiver        *)
(* Buffer").                                                               *)
TcqEnd(p) ==
  /\ pc[p] \in {"sendtcq", "tcq", "prep"} /\ cur[p] = None
  /\ \/ /\ pc[p] = "prep"
        /\ pc' = [pc EXCEPT ![p] = "user"]
        /\ UNCHANGED <<scanj, arvd>>
     \/ /\ pc[p] = "sendtcq"
        /\ pc' = [pc EXCEPT ![p] = "alloc"]
        /\ UNCHANGED <<scanj, arvd>>
     \/ /\ pc[p] = "tcq"
        /\ pc' = [pc EXCEPT ![p] = IF cntr[p] < 0 THEN "abort" ELSE "scan"]
        /\ scanj' = [scanj EXCEPT ![p] = IF cntr[p] < 0 THEN @ ELSE cntr[p] + 1]
        /\ arvd' = [arvd EXCEPT ![p] = FALSE]
  /\ UNCHANGED <<appVars, cur, sndVars, tcqVars, mrqVars, netVars, rcvVars>>

-----------------------------------------------------------------------------
(* utf_progress: peeking the rings.                                        *)

(* utf_progress returns to the application or to utf_send's retry loop     *)
Return(p) ==
  pc' = [pc EXCEPT ![p] = IF pend[p].dst = None THEN "user" ELSE "send"]

(* utf_recvengine on an eager packet: R_NONE takes the message size from   *)
(* the header, R_BODY appends, hdr.size == rsize completes the message     *)
Engulf(urp, pkt) ==
  LET size == IF urp.state = "R_NONE" THEN pkt.size ELSE urp.size
      asm  == Append(urp.asm, pkt.pyld)
  IN  IF Len(asm) = size
      THEN [urp EXCEPT !.state = "R_NONE", !.size = 0, !.asm = <<>>]
      ELSE [urp EXCEPT !.state = "R_BODY", !.size = size, !.asm = asm]

(* mutant: hdr.size >= rsize                                               *)
CompletesAny(urp, pkt) ==
  Len(urp.asm) + 1 <= IF urp.state = "R_NONE" THEN pkt.size ELSE urp.size

(* whether pkt is the message's last packet                                *)
Completes(urp, pkt) ==
  Len(urp.asm) + 1 = IF urp.state = "R_NONE" THEN pkt.size ELSE urp.size

(* A packet is at the ring's recvidx: it is handed to utf_recvengine and   *)
(* its header is wiped.  After the last slot the ring starts over and the  *)
(* sender's control hdr.sidx is told so (RMT_ARMW with edata sidx); the    *)
(* transmit call's result is dropped.                                      *)
ScanPkt(p) ==
  LET j    == scanj[p]
      urp  == rcntr[p][j]
      pkt  == rbuf[p][j][urp.recvidx]
      full == urp.recvidx + 1 = COM_RBUF_SIZE
      to   == IF urp.svcqid = None THEN pkt.src ELSE urp.svcqid
      urp2 == Engulf(urp, pkt)
  IN  /\ pc[p] = "scan" /\ j <= RCV_CNTRL_INIT
      /\ Arrived(pkt)
      /\ arvd' = [arvd EXCEPT ![p] = TRUE]
      /\ rbuf' = [rbuf EXCEPT ![p][j][urp.recvidx] = NoPkt]
      /\ inbox' = IF Completes(urp, pkt)
                  THEN [inbox EXCEPT ![p][pkt.src] =
                          Append(@, Append(urp.asm, pkt.pyld))]
                  ELSE inbox
      /\ IF full
         THEN /\ rcntr' = [rcntr EXCEPT ![p][j] =
                             [urp2 EXCEPT !.recvidx = 0, !.svcqid = to]]
              /\ scanj' = [scanj EXCEPT ![p] = @ + 1]
              /\ rcvrst' = [rcvrst EXCEPT ![to][pkt.sidx] = @ + 1]
              /\ \E b \in BusyResult(p, TRUE, tcq[p]) :
                   tcq' = [tcq EXCEPT ![p] = @ \ {b}]
         ELSE /\ rcntr' = [rcntr EXCEPT ![p][j] =
                             [urp2 EXCEPT !.recvidx = @ + 1]]
              /\ UNCHANGED <<scanj, rcvrst, tcq>>
      /\ UNCHANGED <<appVars, pc, cur, sndVars, tcq_count, lclput, lclarmw,
                     netVars>>

(* no packet at the ring's recvidx: on to the next ring                    *)
ScanNone(p) ==
  LET j == scanj[p]
  IN  /\ pc[p] = "scan" /\ j <= RCV_CNTRL_INIT
      /\ ~ Arrived(rbuf[p][j][rcntr[p][j].recvidx])
      /\ scanj' = [scanj EXCEPT ![p] = j + 1]
      /\ UNCHANGED <<appVars, pc, cur, arvd, sndVars, tcqVars, mrqVars, netVars,
                     rcvVars>>

(* mutant: utf_mrqprogress is called if something arrived                  *)
ScanEndSwapped(p) ==
  /\ pc[p] = "scan" /\ scanj[p] > RCV_CNTRL_INIT
  /\ IF arvd[p] THEN pc' = [pc EXCEPT ![p] = "mrq"] ELSE Return(p)
  /\ UNCHANGED <<appVars, cur, scanj, arvd, sndVars, tcqVars, mrqVars, netVars,
                 rcvVars>>

(* every ring was peeked: utf_mrqprogress is called if nothing arrived     *)
ScanEnd(p) ==
  /\ pc[p] = "scan" /\ scanj[p] > RCV_CNTRL_INIT
  /\ IF arvd[p] THEN Return(p) ELSE pc' = [pc EXCEPT ![p] = "mrq"]
  /\ UNCHANGED <<appVars, cur, scanj, arvd, sndVars, tcqVars, mrqVars, netVars,
                 rcvVars>>

-----------------------------------------------------------------------------
(* utf_mrqprogress: at most one notice per call.  The engine's return      *)
(* value, a completion swallowed by the transmit call, is not looked at.   *)

MrqReturns(p, u) ==
  Continue(p, u, IF pend[p].dst = None THEN "user" ELSE "send")

(* MRQ_TYPE_LCL_PUT: the control's put has completed                       *)
MrqLclPut(p, k) ==
  LET u == scntr[p][k]
  IN  /\ pc[p] = "mrq" /\ k \in lclput[p]
      /\ lclput' = [lclput EXCEPT ![p] = @ \ {k}]
      /\ \E b \in {None} \cup tcq[p] :
           SendEngine(p, k, u, egrmgt[p][u.dst].index, b, FALSE)
      /\ MrqReturns(p, u)
      /\ UNCHANGED <<appVars, cur, scanj, arvd, rank2scntridx, egrmgt, lclarmw,
                     rcvrst, addreq, cntr, rcvVars>>

(* MRQ_TYPE_LCL_ARMW: the answer to the request for a room; a negative     *)
(* counter aborts ("No room in remote rank")                               *)
MrqLclArmw(p, k, val) ==
  LET u == scntr[p][k]
      g == [u EXCEPT !.state = "HAS_ROOM", !.recvidx = 0]
  IN  /\ pc[p] = "mrq" /\ <<k, val>> \in lclarmw[p]
      /\ lclarmw' = [lclarmw EXCEPT ![p] = @ \ {<<k, val>>}]
      /\ IF u.state = "REQ_ROOM" /\ val >= 0
         THEN /\ egrmgt' = [egrmgt EXCEPT ![p][u.dst] =
                              [@ EXCEPT !.sndok = TRUE, !.index = val]]
              /\ \E b \in {None} \cup tcq[p] :
                   SendEngine(p, k, g, val, b, FALSE)
              /\ MrqReturns(p, g)
         ELSE /\ pc' = [pc EXCEPT ![p] = "abort"]
              /\ UNCHANGED <<egrmgt, scntr, retired, wire, tcqVars>>
      /\ UNCHANGED <<appVars, cur, scanj, arvd, rank2scntridx, lclput, rcvrst,
                     addreq, cntr, rcvVars>>

(* mutant: a control that waits for the reset is not started again         *)
MrqRecvResetNoWakeup(p, k) ==
  /\ pc[p] = "mrq" /\ rcvrst[p][k] > 0
  /\ rcvrst' = [rcvrst EXCEPT ![p][k] = @ - 1]
  /\ scntr' = [scntr EXCEPT ![p][k].recvidx = 0]
  /\ Return(p)
  /\ UNCHANGED <<appVars, cur, scanj, arvd, rank2scntridx, egrmgt, retired,
                 tcqVars, lclput, lclarmw, netVars, rcvVars>>

(* MRQ_TYPE_RMT_ARMW with EVT_RMT_RECVRST: the ring is empty again, and a  *)
(* control waiting for that goes on                                        *)
MrqRecvReset(p, k) ==
  LET u == [scntr[p][k] EXCEPT !.recvidx = 0]
      g == [u EXCEPT !.state = u.ostate]
  IN  /\ pc[p] = "mrq" /\ rcvrst[p][k] > 0
      /\ rcvrst' = [rcvrst EXCEPT ![p][k] = @ - 1]
      /\ UNCHANGED egrmgt
      /\ IF u.state = "WAIT_BUFREADY"
         THEN /\ \E b \in {None} \cup tcq[p] :
                   SendEngine(p, k, g, egrmgt[p][u.dst].index, b, FALSE)
              /\ MrqReturns(p, g)
         ELSE /\ scntr' = [scntr EXCEPT ![p][k] = u]
              /\ Return(p)
              /\ UNCHANGED <<retired, wire, tcqVars>>
      /\ UNCHANGED <<appVars, cur, scanj, arvd, rank2scntridx, lclput, lclarmw,
                     addreq, cntr, rcvVars>>

(* UTOFU_ERR_NOT_FOUND: no notice is visible                               *)
MrqNone(p) ==
  /\ pc[p] = "mrq"
  /\ Return(p)
  /\ UNCHANGED <<appVars, cur, scanj, arvd, sndVars, tcqVars, mrqVars, netVars,
                 rcvVars>>

-----------------------------------------------------------------------------
(* The interconnect: remote memory is written, notices are raised.         *)

(* mutant: a piggyback put raises a notice as well as a TCQ completion     *)
NetPutNotices(p, q) ==
  LET op == Head(wire[p][q])
  IN  /\ wire[p][q] # <<>>
      /\ wire' = [wire EXCEPT ![p][q] = Tail(@)]
      /\ rbuf' = [rbuf EXCEPT ![q][op.ridx][op.slot] = op.pkt]
      /\ lclput' = [lclput EXCEPT ![p] = @ \cup {op.edata}]
      /\ UNCHANGED <<appVars, procVars, sndVars, tcqVars, lclarmw, rcvrst,
                     addreq, cntr, rcntr, inbox>>

(* a put lands; unless it was a piggyback its origin gets MRQ_TYPE_LCL_PUT *)
NetPut(p, q) ==
  LET op == Head(wire[p][q])
  IN  /\ wire[p][q] # <<>>
      /\ wire' = [wire EXCEPT ![p][q] = Tail(@)]
      /\ rbuf' = [rbuf EXCEPT ![q][op.ridx][op.slot] = op.pkt]
      /\ lclput' = IF op.type = "PIGBACK" THEN lclput
                   ELSE [lclput EXCEPT ![p] = @ \cup {op.edata}]
      /\ UNCHANGED <<appVars, procVars, sndVars, tcqVars, lclarmw, rcvrst,
                     addreq, cntr, rcntr, inbox>>

(* mutant: the counter is read, not decremented                            *)
NetAddReads(p, k, q) ==
  /\ <<k, q>> \in addreq[p]
  /\ addreq' = [addreq EXCEPT ![p] = @ \ {<<k, q>>}]
  /\ lclarmw' = [lclarmw EXCEPT ![p] = @ \cup {<<k, cntr[q]>>}]
  /\ UNCHANGED <<appVars, procVars, sndVars, tcqVars, lclput, rcvrst, wire,
                 cntr, rcvVars>>

(* the fetch-and-add of -1 on head.cntr: its old value goes back           *)
NetAdd(p, k, q) ==
  /\ <<k, q>> \in addreq[p]
  /\ addreq' = [addreq EXCEPT ![p] = @ \ {<<k, q>>}]
  /\ cntr' = [cntr EXCEPT ![q] = @ - 1]
  /\ lclarmw' = [lclarmw EXCEPT ![p] = @ \cup {<<k, cntr[q]>>}]
  /\ UNCHANGED <<appVars, procVars, sndVars, tcqVars, lclput, rcvrst, wire,
                 rcvVars>>

-----------------------------------------------------------------------------
MrqNotice(p) ==
  \E k \in SndCntr :
    \/ MrqLclPut(p, k)
    \/ \E val \in {v[2] : v \in lclarmw[p]} : MrqLclArmw(p, k, val)
    \/ MrqRecvReset(p, k)

(* what a rank does on its own once it is inside the library               *)
Library(p) ==
  \/ SendAlloc(p) \/ SendRetry(p) \/ SendPost(p)
  \/ \E k \in SndCntr : TcqStep(p, k)
  \/ TcqEnd(p)
  \/ ScanPkt(p) \/ ScanNone(p) \/ ScanEnd(p)
  \/ MrqNotice(p) \/ MrqNone(p)

Net ==
  \/ \E p, q \in Rank : NetPut(p, q)
  \/ \E p, q \in Rank, k \in SndCntr : NetAdd(p, k, q)

Next ==
  \/ \E p \in Rank : \E d \in Dests[p], type \in Types : SendCall(p, d, type)
  \/ \E p \in Rank : ProgressCall(p) \/ Library(p)
  \/ Net

Spec == Init /\ [][Next]_vars

(* The fairness a polling library needs: every rank keeps calling          *)
(* utf_progress and finishes the calls it makes, the interconnect keeps    *)
(* completing what was issued, and of the completions and notices that are *)
(* queued some poll, repeated for ever, finds one.                         *)
Fairness ==
  /\ \A p \in Rank :
       /\ WF_vars(ProgressCall(p))
       /\ WF_vars(Library(p))
       /\ SF_vars(\E k \in SndCntr : TcqStep(p, k))
       /\ SF_vars(MrqNotice(p))
  /\ WF_vars(Net)

FairSpec == Spec /\ Fairness

-----------------------------------------------------------------------------
(* Properties.                                                             *)

SState == {"FREE", "NONE", "REQ_ROOM", "HAS_ROOM", "DO_EGR", "DONE_EGR",
           "REQ_RDVR", "WAIT_BUFREADY"}
PC == {"user", "sendtcq", "alloc", "send", "prep", "tcq", "scan", "mrq",
       "abort"}
Entry == [cntrtype : MsgType \cup {"NONE"}, seq : Nat]
Control ==
  [state : SState, ostate : SState, dst : Rank \cup {None},
   recvidx : 0 .. COM_RBUF_SIZE, micur : Minf, mient : Minf, usize : Nat,
   mi : [Minf -> Entry]]
Pkt == [src : Rank, sidx : SndCntr, size : Nat \ {0}, pyld : Nat \X Nat]
Op == [ridx : Ring, slot : Slot, edata : SndCntr, type : MsgType, pkt : Pkt]
Count == {i \in Int : i <= RCV_CNTRL_INIT}
Urp == [recvidx : Slot, state : {"R_NONE", "R_BODY"},
        svcqid : Rank \cup {None}, size : Nat, asm : Seq(Nat \X Nat)]

TypeApp ==
  /\ pend \in [Rank -> [dst : Rank \cup {None}, type : MsgType \cup {"NONE"}]]
  /\ posted \in [Rank -> [Rank -> Seq(Seq(Nat \X Nat))]]
TypeProc ==
  /\ pc \in [Rank -> PC]
  /\ cur \in [Rank -> SndCntr \cup {None}]
  /\ scanj \in [Rank -> Nat]
  /\ arvd \in [Rank -> BOOLEAN]
TypeSnd ==
  /\ scntr \in [Rank -> [SndCntr -> Control]]
  /\ rank2scntridx \in [Rank -> [Rank -> SndCntr \cup {None}]]
  /\ egrmgt \in [Rank -> [Rank ->
        [examed : BOOLEAN, sndok : BOOLEAN, index : Ring]]]
  /\ retired \in [Rank -> [Rank -> Nat]]
TypeTcq ==
  /\ tcq_count \in [Rank -> Int]
  /\ tcq \in [Rank -> SUBSET SndCntr]
TypeMrq ==
  /\ lclput \in [Rank -> SUBSET SndCntr]
  /\ lclarmw \in [Rank -> SUBSET (SndCntr \X Count)]
  /\ rcvrst \in [Rank -> [SndCntr -> Nat]]
TypeNet ==
  /\ wire \in [Rank -> [Rank -> Seq(Op)]]
  /\ addreq \in [Rank -> SUBSET (SndCntr \X Rank)]
  /\ cntr \in [Rank -> Count]
TypeRcv ==
  /\ rbuf \in [Rank -> [Ring -> [Slot -> Pkt \cup {NoPkt}]]]
  /\ rcntr \in [Rank -> [Ring -> Urp]]
  /\ inbox \in [Rank -> [Rank -> Seq(Seq(Nat \X Nat))]]

(* The state of ranks, controls, rings and queues keeps its type: indices  *)
(* stay inside utf_scntr[], msginfo[], rbuf[] and the ring                 *)
(* (utf_sendengine, utf_progress).                                         *)
TypeOK ==
  TypeApp /\ TypeProc /\ TypeSnd /\ TypeTcq /\ TypeMrq /\ TypeNet /\ TypeRcv

(* A put never lands on a packet the receiver has not consumed, and no two *)
(* puts in flight go to one slot: the sender stops at COM_RBUF_SIZE until  *)
(* the ring was emptied and the reset notice came back (calc_recvstadd     *)
(* against IS_COMRBUF_FULL in utf_progress).                               *)
RingSafe ==
  \A p, q \in Rank : \A i \in DOMAIN wire[p][q] :
    LET op == wire[p][q][i]
    IN  /\ ~ Arrived(rbuf[q][op.ridx][op.slot])
        /\ \A p2 \in Rank : \A j \in DOMAIN wire[p2][q] :
             (p2 # p \/ j # i) =>
                <<wire[p2][q][j].ridx, wire[p2][q][j].slot>> # <<op.ridx, op.slot>>

(* No two ranks are given the same receive ring, and a ring that was given *)
(* is among the ones its owner peeks: the fetch-and-add on head.cntr in    *)
(* utf_send_start against the loop bounds of utf_progress.                 *)
RoomExclusive ==
  \A p, q \in Rank : egrmgt[p][q].sndok =>
    /\ egrmgt[p][q].index > cntr[q]
    /\ \A p2 \in Rank \ {p} : egrmgt[p2][q].sndok =>
         egrmgt[p2][q].index # egrmgt[p][q].index

(* The ring-reset notice comes to the control whose ring was used up:      *)
(* "edata represents the sender's index of sender engine" (utf_mrqprogress,*)
(* case MRQ_TYPE_RMT_ARMW).                                                *)
ResetAddressed ==
  \A p \in Rank, k \in SndCntr :
    rcvrst[p][k] > 0 => scntr[p][k].recvidx = COM_RBUF_SIZE

(* the events that will run the engine on a control of p: which control,   *)
(* where the event is, and what tells it from others there                 *)
Events(p) ==
  {<<k, "tcq", 0, 0>> : k \in tcq[p]}
  \cup {<<k, "cur", 0, 0>> : k \in {cur[p]} \ {None}}
  \cup {<<k, "put", 0, 0>> : k \in lclput[p]}
  \cup {<<a[1], "armw", 0, a[2]>> : a \in lclarmw[p]}
  \cup {<<a[1], "add", a[2], 0>> : a \in addreq[p]}
  \cup UNION {{<<wire[p][q][i].edata, "wire", q, i>> :
                 i \in {j \in DOMAIN wire[p][q] : wire[p][q][j].type # "PIGBACK"}} :
               q \in Rank}

(* A control waiting for a completion has exactly one outstanding, and one *)
(* that waits for nothing has none: the engine does not look at which      *)
(* event it runs for, so a second one would advance it early and a missing *)
(* one would stop it (utf_sendengine, utf_mrqprogress).  utf_tcq_count is  *)
(* the number of those the TCQ still owes: it is polled only if not 0.  A  *)
(* rank that has aborted waits for nothing.                                *)
OneEvent ==
  \A p \in Rank : pc[p] # "abort" =>
    /\ \A k \in SndCntr :
         Cardinality({e \in Events(p) : e[1] = k}) =
           IF scntr[p][k].state \in {"REQ_ROOM", "DO_EGR", "DONE_EGR", "REQ_RDVR"}
           THEN 1 ELSE 0
    /\ tcq_count[p] = Cardinality(tcq[p] \cup ({cur[p]} \ {None}))

(* the slots of control u that hold a message, in posting order            *)
Window(u) ==
  IF u.state \in {"FREE", "NONE"} THEN {}
  ELSE LET n == (u.mient - u.micur + COM_SCNTR_MINF_SZ - 1) % COM_SCNTR_MINF_SZ
       IN  {(u.micur + i) % COM_SCNTR_MINF_SZ : i \in 0 .. n}

(* The messages in a control are the slots from micur up to mient, they    *)
(* are the posted messages that have not retired yet, and micur is the     *)
(* oldest of them, also when the slots wrap around and when micur and      *)
(* mient are set back to 0 (utf_send, label next_entry).                   *)
MinfWindow ==
  \A p \in Rank, k \in SndCntr :
    LET u == scntr[p][k]
    IN  /\ \A i \in Minf : u.mi[i].cntrtype # "NONE" <=> i \in Window(u)
        /\ u.state # "FREE" =>
             {u.mi[i].seq : i \in Window(u)} =
                retired[p][u.dst] + 1 .. Len(posted[p][u.dst])
        /\ Window(u) # {} => u.mi[u.micur].seq = retired[p][u.dst] + 1

(* No rank runs into abort() or a failing assertion: "protocol error in    *)
(* S_WAIT_BUFREADY", "No room in remote rank", "No more Eager Receiver     *)
(* Buffer" and the assertions on cntrtype and utf_tcq_count.               *)
NoAbort == \A p \in Rank : pc[p] # "abort"

(* Every message utf_send accepted leaves the send control in the end:     *)
(* utf_wait on it returns.                                                 *)
EventuallyRetired ==
  \A p \in Rank : \A q \in Dests[p], n \in 1 .. MaxMsg :
    (Len(posted[p][q]) >= n) ~> (retired[p][q] >= n)

Messages == {Message(n, t) : n \in 1 .. MaxMsg, t \in Types}

Channel == INSTANCE UtfChannel WITH
  Node <- Rank, Msg <- Messages, Pair <- {pq \in Rank \X Rank : pq[2] \in Dests[pq[1]]}

(* The rings, controls and notices implement one reliable FIFO channel of  *)
(* whole messages per pair of ranks.                                       *)
FifoSafe == Channel!ChanSafety

(* ... and, with fairness, every message is delivered and every send       *)
(* retires.                                                                *)
FifoLive == Channel!ChanSpec

=============================================================================
