----------------------------- MODULE UtfEagerInv -----------------------------
(***************************************************************************)
(* The inductive invariants behind the theorems of UtfEagerProofs.  TLC    *)
(* checks them on small instances before they are proved.                  *)
(***************************************************************************)
EXTENDS UtfEager

-----------------------------------------------------------------------------
(* For the types: what a control and a call keep beside them.              *)

ControlOK(u) ==
  /\ u.state # "FREE" => u.dst \in Rank
  /\ u.state = "WAIT_BUFREADY" => u.ostate \in {"HAS_ROOM", "DO_EGR"}

CallOK(p) ==
  /\ pc[p] \in {"user", "prep"} => pend[p].dst = None
  /\ pc[p] \in {"sendtcq", "alloc", "send"} => pend[p].dst \in Rank
  /\ pc[p] \in {"send", "tcq", "scan", "mrq"} /\ pend[p].dst \in Rank
       => rank2scntridx[p][pend[p].dst] \in SndCntr

TypeInv ==
  /\ TypeOK
  /\ \A p \in Rank : CallOK(p) /\ \A k \in SndCntr : ControlOK(scntr[p][k])

-----------------------------------------------------------------------------
(* For the rooms: whose control a request and its answer belong to, and    *)
(* which rings have been given out.                                        *)

ControlInv ==
  /\ \A p, q \in Rank : rank2scntridx[p][q] # None =>
       /\ scntr[p][rank2scntridx[p][q]].state # "FREE"
       /\ scntr[p][rank2scntridx[p][q]].dst = q
  /\ \A p \in Rank : \A a \in addreq[p] :
       scntr[p][a[1]].state # "FREE" /\ scntr[p][a[1]].dst = a[2]
  /\ \A p \in Rank : \A a \in lclarmw[p] : scntr[p][a[1]].state # "FREE"

(* the rings of rank q that rank p was given, known to it or on the way    *)
Granted(p, q) ==
  {egrmgt[p][q].index : x \in {y \in {0} : egrmgt[p][q].sndok}}
    \cup {a[2] : a \in {x \in lclarmw[p] : scntr[p][x[1]].dst = q}}

RoomInv ==
  \A p, q \in Rank : \A v \in Granted(p, q) :
    /\ v > cntr[q]
    /\ \A p2 \in Rank \ {p} : v \notin Granted(p2, q)

-----------------------------------------------------------------------------
(* For the rings, when a rank uses no control but its first: the packets   *)
(* are between the sender's recvidx and the receiver's.                    *)

OneDest == \A p \in Rank : \A d1, d2 \in Dests[p] : d1 = d2

(* Reset notices go to control 0 (HdrSidx), so that is where the rings     *)
(* work: one control per rank, or one destination and no need of a second. *)
Solo == SND_CNTRL_MAX = 1 \/ OneDest

Owner(p, q) == egrmgt[p][q].sndok

OneControl ==
  /\ \A p \in Rank : pend[p].dst \in Dests[p] \cup {None}
  /\ \A p \in Rank, k \in SndCntr : scntr[p][k].state # "FREE" =>
       /\ k = 0
       /\ scntr[p][k].dst \in Dests[p]
       /\ rank2scntridx[p][scntr[p][k].dst] = 0
  /\ \A p, q \in Rank : Owner(p, q) =>
       scntr[p][0].state \notin {"FREE", "REQ_ROOM"} /\ scntr[p][0].dst = q
  /\ \A p \in Rank : (\A q \in Rank : ~ Owner(p, q)) =>
       /\ scntr[p][0].state \in {"FREE", "NONE", "REQ_ROOM"}
       /\ scntr[p][0].recvidx = 0
       /\ rcvrst[p][0] = 0

(* p has put s packets into ring v since the last reset; ops are the ones  *)
(* still in flight                                                         *)
InFlight(p, v, s, ops) ==
  /\ Len(ops) <= s
  /\ \A i \in 1 .. Len(ops) :
       /\ ops[i].ridx = v
       /\ ops[i].slot = s - Len(ops) + i - 1
       /\ ops[i].pkt.src = p
       /\ ops[i].pkt.sidx = 0

(* n packets of p have landed since then; the receiver is at recvidx, or   *)
(* it has consumed them all and the reset notice is on its way (c = 1)     *)
Landed(p, n, urp, ring, c) ==
  /\ urp.svcqid \in {None, p}
  /\ \A i \in Slot : Arrived(ring[i]) => ring[i].src = p /\ ring[i].sidx = 0
  /\ \/ /\ c = 0 /\ urp.recvidx <= n
        /\ \A i \in Slot : Arrived(ring[i]) <=> (urp.recvidx <= i /\ i < n)
     \/ /\ c = 1 /\ n = COM_RBUF_SIZE /\ urp.recvidx = 0
        /\ \A i \in Slot : ~ Arrived(ring[i])

Pristine(urp, ring) ==
  /\ urp.recvidx = 0 /\ urp.svcqid = None
  /\ \A i \in Slot : ~ Arrived(ring[i])

(* the ring of q that p was given                                          *)
OwnedRing(p, q) ==
  LET v == egrmgt[p][q].index
      s == scntr[p][0].recvidx
  IN  /\ InFlight(p, v, s, wire[p][q])
      /\ Landed(p, s - Len(wire[p][q]), rcntr[q][v], rbuf[q][v], rcvrst[p][0])

Rings ==
  /\ \A p, q \in Rank : IF Owner(p, q) THEN OwnedRing(p, q) ELSE wire[p][q] = <<>>
  /\ \A q \in Rank, v \in Ring :
       (\A p \in Rank : ~ (Owner(p, q) /\ egrmgt[p][q].index = v))
          => Pristine(rcntr[q][v], rbuf[q][v])

(* Where the packets of every ring are, between the sender's count of the  *)
(* slots it used and the receiver's recvidx, across ring resets: the       *)
(* invariant that makes RingSafe inductive when every rank has one         *)
(* destination (calc_recvstadd, utf_progress, utf_mrqprogress).            *)
RingInv == RingSafe /\ ControlInv /\ RoomInv /\ OneControl /\ Rings

-----------------------------------------------------------------------------
(* For the windows: the slots of a control from micur on, and the posted   *)
(* messages in them.                                                       *)

(* the slot i places after c                                               *)
Ahead(c, i) ==
  IF c + i < COM_SCNTR_MINF_SZ THEN c + i ELSE c + i - COM_SCNTR_MINF_SZ

(* Control u holds the messages of msgs from r + 1 on, in posting order.   *)
Holds(u, r, msgs) ==
  LET n == Len(msgs) - r
  IN  /\ n \in 0 .. COM_SCNTR_MINF_SZ
      /\ n = 0 <=> u.state = "NONE"
      /\ u.mient = Ahead(u.micur, n)
      /\ \A i \in Minf :
           LET e == u.mi[Ahead(u.micur, i)]
           IN  IF i < n
               THEN /\ e.cntrtype # "NONE" /\ e.seq = r + 1 + i
                    /\ msgs[r + 1 + i] = Message(r + 1 + i, e.cntrtype)
               ELSE e.cntrtype = "NONE"

(* a destination has one control                                           *)
ControlsHold ==
  \A p \in Rank, k \in SndCntr :
    LET u == scntr[p][k]
    IN  IF u.state = "FREE" THEN u = FreeCntr
        ELSE /\ rank2scntridx[p][u.dst] = k
             /\ Holds(u, retired[p][u.dst], posted[p][u.dst])

(* from the first message on                                               *)
NothingPosted ==
  \A p, q \in Rank : rank2scntridx[p][q] = None =>
    posted[p][q] = <<>> /\ retired[p][q] = 0

(* the call being served is one the application may make                   *)
CallsAdmitted ==
  \A p \in Rank : pend[p].dst # None =>
    /\ pend[p].dst \in Dests[p] /\ pend[p].type \in Types
    /\ Len(posted[p][pend[p].dst]) < MaxMsg

WindowInv == ControlsHold /\ NothingPosted /\ CallsAdmitted

-----------------------------------------------------------------------------
(* For the channel: the payloads from the one the receiver expects to the  *)
(* one the sender puts next follow each other.                             *)

(* in the middle of a message: usize of its packets are out                *)
Halfway(u) ==
  u.state = "DO_EGR" \/ (u.state = "WAIT_BUFREADY" /\ u.ostate = "DO_EGR")

Counted(u, r, msgs) == Halfway(u) => u.usize \in 1 .. Len(msgs[r + 1]) - 1

(* the payload of the next packet, when r messages have retired            *)
NextPyld(u, r) ==
  IF Retires(u) THEN <<r + 2, 1>>
  ELSE IF Halfway(u) THEN <<r + 1, u.usize + 1>> ELSE <<r + 1, 1>>

(* the payload after x                                                     *)
After(x, msgs) ==
  IF x[2] < Len(msgs[x[1]]) THEN <<x[1], x[2] + 1>> ELSE <<x[1] + 1, 1>>

(* pkt is a packet of a posted message                                     *)
OfPosted(pkt, msgs) ==
  /\ pkt.pyld[1] \in DOMAIN msgs
  /\ pkt.pyld[2] \in DOMAIN msgs[pkt.pyld[1]]
  /\ pkt.size = Len(msgs[pkt.pyld[1]])

(* the packets in slots f to t - 1 follow each other from payload x to the *)
(* one before y                                                            *)
Follow(line, f, t, x, y, msgs) ==
  /\ \A i \in f .. t - 1 :
       /\ OfPosted(line[i], msgs)
       /\ i = f => line[i].pyld = x
       /\ After(line[i].pyld, msgs) = IF i = t - 1 THEN y ELSE line[i + 1].pyld
  /\ f = t => x = y

(* the receiver's side of message n + 1, of which asm has come             *)
Assembling(urp, n, msgs) ==
  IF urp.state = "R_NONE" THEN urp.asm = <<>>
  ELSE /\ n + 1 \in DOMAIN msgs
       /\ urp.size = Len(msgs[n + 1])
       /\ Len(urp.asm) \in 1 .. urp.size - 1
       /\ \A c \in DOMAIN urp.asm : urp.asm[c] = <<n + 1, c>>

(* the receiver reads this slot next, counted from the sender's last reset *)
ReadTo(urp, c) == IF c = 1 THEN COM_RBUF_SIZE ELSE urp.recvidx

(* the packets in slots f to t - 1, landed or on their way                 *)
Line(ops, ring, f, t) ==
  LET n == t - Len(ops)
  IN  [i \in f .. t - 1 |-> IF i < n THEN ring[i] ELSE ops[i - n + 1].pkt]

(* Between control u and receiver urp, when r messages have retired and n  *)
(* have been received.                                                     *)
Passing(u, r, ops, ring, c, urp, n, msgs) ==
  LET f == ReadTo(urp, c)
      t == u.recvidx
  IN  /\ Assembling(urp, n, msgs)
      /\ Counted(u, r, msgs)
      /\ Follow(Line(ops, ring, f, t), f, t, <<n + 1, Len(urp.asm) + 1>>,
                NextPyld(u, r), msgs)

Stream(p, q) ==
  LET v == egrmgt[p][q].index
  IN  Passing(scntr[p][0], retired[p][q], wire[p][q], rbuf[q][v], rcvrst[p][0],
              rcntr[q][v], Len(inbox[q][p]), posted[p][q])

(* a payload tells which packet of which message it is                     *)
Numbers(msgs) ==
  \A n \in DOMAIN msgs : \A c \in DOMAIN msgs[n] : msgs[n][c] = <<n, c>>

StreamInv ==
  /\ \A p, q \in Rank : Numbers(posted[p][q])
  /\ \A p, q \in Rank : IF Owner(p, q) THEN Stream(p, q)
                        ELSE inbox[q][p] = <<>> /\ retired[p][q] = 0
  /\ \A q \in Rank, v \in Ring :
       (\A p \in Rank : ~ (Owner(p, q) /\ egrmgt[p][q].index = v))
          => rcntr[q][v].state = "R_NONE" /\ rcntr[q][v].asm = <<>>

(* What is on the way from utf_send to the completed receive: the posted   *)
(* messages are in their control's slots in order, the packets in the ring *)
(* follow each other, and the receiver has the beginning of the next       *)
(* message (minfo_setup, label next_entry, utf_recvengine).  It makes      *)
(* MinfWindow and FifoSafe inductive.                                      *)
PipeInv == RingInv /\ WindowInv /\ StreamInv

-----------------------------------------------------------------------------
(* For the completions: each control's event, and where it may be found    *)
(* when the control is in which state.                                     *)

Asked == {"REQ_ROOM"}
Issued == {"DO_EGR", "DONE_EGR", "REQ_RDVR"}
WaitsIn(place) == IF place \in {"armw", "add"} THEN Asked ELSE Issued

(* of a rank's events evs and its controls us                              *)
OneEach(evs) == \A e, f \in evs : e[1] = f[1] => e = f
InPlace(evs, us) == \A e \in evs : us[e[1]].state \in WaitsIn(e[2])
NoneMissing(evs, us) ==
  \A k \in SndCntr : us[k].state \in Asked \cup Issued => \E e \in evs : e[1] = k

(* what a rank is still to take from the TCQ, or has just taken            *)
Owed(p) == tcq[p] \cup ({cur[p]} \ {None})

(* With ToqBusy completions get lost, and then utf_tcq_count never comes   *)
(* down again.                                                             *)
Accounted(p) ==
  /\ cur[p] # None => pc[p] \in {"sendtcq", "tcq", "prep", "abort"}
  /\ OneEach(Events(p))
  /\ InPlace(Events(p), scntr[p])
  /\ pc[p] # "abort" => tcq_count[p] >= Cardinality(Owed(p))
  /\ ~ ToqBusy /\ pc[p] # "abort" =>
       NoneMissing(Events(p), scntr[p]) /\ tcq_count[p] = Cardinality(Owed(p))

EventInv == \A p \in Rank : Accounted(p)

-----------------------------------------------------------------------------
(* For the counters of rings: every sender asks a receiver once.           *)

Senders(q) == {p \in Rank : q \in Dests[p]}

(* a request of p is on its way to q                                       *)
Asking(p, q) == \E a \in addreq[p] : a[2] = q

(* the ranks whose fetch-and-add on the counter of q has been done         *)
Served(q) == {p \in Rank : egrmgt[p][q].examed /\ ~ Asking(p, q)}

AskInv ==
  /\ \A p, q \in Rank : egrmgt[p][q].examed => q \in Dests[p]
  /\ \A p, q \in Rank : Asking(p, q) => egrmgt[p][q].examed
  /\ \A q \in Rank : cntr[q] = RCV_CNTRL_INIT - Cardinality(Served(q))

(* There is a ring for every sender, and one more: utf_progress aborts when *)
(* the counter goes below 0, that is, when the last ring is given.         *)
EnoughRings == \A q \in Rank : Cardinality(Senders(q)) <= RCV_CNTRL_INIT

=============================================================================
