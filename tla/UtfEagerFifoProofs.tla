-------------------------- MODULE UtfEagerFifoProofs --------------------------
(***************************************************************************)
(* The eager protocol is a FIFO channel: the packets from utf_send to the  *)
(* completed receive follow each other (StreamInv), so that every step of  *)
(* the protocol is a step of UtfChannel or leaves the channel alone.       *)
(***************************************************************************)
EXTENDS UtfEagerWindowProofs, SequenceTheorems

-----------------------------------------------------------------------------
(* Runs of packets.                                                        *)

(* A run depends on nothing but its slots.                                 *)
LEMMA FollowKept ==
  ASSUME NEW f \in Int, NEW t \in Int, NEW x, NEW y, NEW msgs,
         NEW line, Follow(line, f, t, x, y, msgs),
         NEW l2, \A i \in f .. t - 1 : l2[i] = line[i]
  PROVE  Follow(l2, f, t, x, y, msgs)
BY DEF Follow, OfPosted

(* The next packet is put at its end.                                      *)
LEMMA FollowPut ==
  ASSUME NEW f \in Int, NEW t \in Int, f <= t, NEW x, NEW y, NEW msgs,
         NEW line, Follow(line, f, t, x, y, msgs),
         NEW l2, \A i \in f .. t - 1 : l2[i] = line[i],
         OfPosted(l2[t], msgs), l2[t].pyld = y
  PROVE  Follow(l2, f, t + 1, x, After(y, msgs), msgs)
<1>1. ASSUME NEW i \in f .. (t + 1) - 1
      PROVE  /\ OfPosted(l2[i], msgs)
             /\ i = f => l2[i].pyld = x
             /\ After(l2[i].pyld, msgs) =
                  IF i = (t + 1) - 1 THEN After(y, msgs) ELSE l2[i + 1].pyld
  <2>1. CASE i = t
    BY <2>1 DEF Follow
  <2>2. CASE i = t - 1
    <3>1. i \in f .. t - 1 /\ i # t /\ i + 1 = t /\ (t + 1) - 1 = t
      BY <2>2, <1>1
    <3>2. OfPosted(line[i], msgs) /\ (i = f => line[i].pyld = x)
          /\ After(line[i].pyld, msgs) = y
      BY <3>1, <2>2 DEF Follow
    <3> QED BY <3>1, <3>2
  <2>3. CASE i < t - 1
    <3>1. i \in f .. t - 1 /\ i # t /\ i + 1 \in f .. t - 1 /\ i # t - 1 /\ (t + 1) - 1 = t
      BY <2>3, <1>1
    <3>2. OfPosted(line[i], msgs) /\ (i = f => line[i].pyld = x)
          /\ After(line[i].pyld, msgs) = line[i + 1].pyld
      BY <3>1 DEF Follow
    <3> QED BY <3>1, <3>2
  <2> QED BY <1>1, <2>1, <2>2, <2>3
<1>2. f # t + 1
  OBVIOUS
<1> QED BY <1>1, <1>2 DEF Follow

(* The first packet is read.                                               *)
LEMMA FollowRead ==
  ASSUME NEW f \in Int, NEW g \in Int, g = f + 1, NEW t \in Int, f < t, NEW x, NEW y, NEW msgs,
         NEW line, Follow(line, f, t, x, y, msgs),
         NEW l2, \A i \in g .. t - 1 : l2[i] = line[i]
  PROVE  /\ OfPosted(line[f], msgs) /\ line[f].pyld = x
         /\ Follow(l2, g, t, After(x, msgs), y, msgs)
<1>1. OfPosted(line[f], msgs) /\ line[f].pyld = x
  BY DEF Follow
<1>2. After(x, msgs) = IF f = t - 1 THEN y ELSE line[g].pyld
  BY <1>1 DEF Follow
<1>3. ASSUME NEW i \in g .. t - 1
      PROVE  /\ OfPosted(l2[i], msgs)
             /\ i = g => l2[i].pyld = After(x, msgs)
             /\ After(l2[i].pyld, msgs) = IF i = t - 1 THEN y ELSE l2[i + 1].pyld
  <2>1. i \in f .. t - 1 /\ f # t - 1
    BY <1>3
  <2>2. OfPosted(line[i], msgs)
        /\ After(line[i].pyld, msgs) = IF i = t - 1 THEN y ELSE line[i + 1].pyld
    BY <2>1 DEF Follow
  <2>3. i # t - 1 => i + 1 \in g .. t - 1
    BY <1>3
  <2> QED BY <1>2, <1>3, <2>1, <2>2, <2>3
<1>4. g = t => After(x, msgs) = y
  BY <1>2
<1> QED BY <1>1, <1>3, <1>4 DEF Follow

(* A message more behind it makes no difference.                           *)
LEMMA FollowPosted ==
  ASSUME NEW f \in Int, NEW t \in Int, NEW x, NEW y, NEW line,
         NEW msgs \in Seq(Seq(Nat \X Nat)), NEW m,
         Follow(line, f, t, x, y, msgs)
  PROVE  Follow(line, f, t, x, y, Append(msgs, m))
<1> DEFINE more == Append(msgs, m)
<1>1. \A i \in DOMAIN msgs : i \in DOMAIN more /\ more[i] = msgs[i]
  OBVIOUS
<1> HIDE DEF more
<1>2. \A i \in f .. t - 1 : OfPosted(line[i], msgs) => OfPosted(line[i], more)
  BY <1>1 DEF OfPosted
<1>3. \A i \in f .. t - 1 : OfPosted(line[i], msgs) =>
        After(line[i].pyld, more) = After(line[i].pyld, msgs)
  BY <1>1 DEF OfPosted, After
<1>4. Follow(line, f, t, x, y, more)
  BY <1>2, <1>3 DEF Follow
<1> QED BY <1>4 DEF more

-----------------------------------------------------------------------------
(* The sender's end: what the engine puts is the next payload.             *)

LEMMA MessageLen ==
  ASSUME NEW n, NEW t
  PROVE  Len(Message(n, t)) = NPkt(t)
<1>1. NPkt(t) \in Nat
  BY NPktType
<1> QED BY <1>1 DEF Message

(* The message that is sent: the oldest one of its control.                *)
LEMMA SendsOldest ==
  ASSUME NEW v \in Control, NEW r \in Nat, NEW msgs \in Seq(Seq(Nat \X Nat)),
         Holds(v, r, msgs), Sending(v)
  PROVE  LET e == v.mi[v.micur]
         IN  /\ e.cntrtype # "NONE" /\ e.seq = r + 1
             /\ r + 1 \in DOMAIN msgs
             /\ Len(msgs[r + 1]) = NPkt(e.cntrtype)
             /\ DOMAIN msgs[r + 1] = 1 .. NPkt(e.cntrtype)
<1> DEFINE n == Len(msgs) - r
<1>1. 0 \in Minf /\ v.micur \in Minf
  BY ConstAssumption DEF Minf, Control
<1>2. n \in Nat /\ n # 0
  BY ConstAssumption DEF Holds, Sending
<1>3. Ahead(v.micur, 0) = v.micur
  BY <1>1, AheadFacts
<1>4. /\ EntryOf(v, 0).cntrtype # "NONE" /\ EntryOf(v, 0).seq = r + 1 + 0
      /\ msgs[r + 1 + 0] = Message(r + 1 + 0, EntryOf(v, 0).cntrtype)
  BY <1>1, <1>2, HoldsFacts
<1>5. EntryOf(v, 0) = v.mi[v.micur]
  BY <1>3 DEF EntryOf
<1>6. r + 1 + 0 = r + 1 /\ r + 1 \in 1 .. Len(msgs)
  BY <1>2
<1>7. msgs[r + 1] = Message(r + 1, v.mi[v.micur].cntrtype)
  BY <1>4, <1>5, <1>6
<1>8. NPkt(v.mi[v.micur].cntrtype) \in Nat
  BY NPktType
<1> QED BY <1>4, <1>5, <1>6, <1>7, <1>8, MessageLen DEF Message

(* cases S_HAS_ROOM and S_DO_EGR of the engine                             *)
LEMMA TransmitNext ==
  ASSUME NEW v \in Control, ControlOK(v), NEW r \in Nat,
         NEW msgs \in Seq(Seq(Nat \X Nat)),
         Holds(v, r, msgs), Sending(v), Counted(v, r, msgs)
  PROVE  LET w == Transmit(v)
             x == <<v.mi[v.micur].seq, w.usize>>
         IN  /\ Counted(w, r, msgs)
             /\ ~ HasSlot(v) => NextPyld(w, r) = NextPyld(v, r)
             /\ HasSlot(v) =>
                  /\ x = NextPyld(v, r)
                  /\ x[2] \in DOMAIN msgs[r + 1]
                  /\ NextPyld(w, r) = After(x, msgs)
<1> DEFINE w == Transmit(v)
           e == v.mi[v.micur]
           type == e.cntrtype
           sent == IF v.state = "HAS_ROOM" THEN 1 ELSE v.usize + 1
           len == Len(msgs[r + 1])
<1>1. /\ e.seq = r + 1 /\ r + 1 \in DOMAIN msgs
      /\ len = NPkt(type) /\ DOMAIN msgs[r + 1] = 1 .. len
  BY SendsOldest
<1>2. len \in Nat \ {0}
  BY <1>1, NPktType
<1>3. v.state \in {"HAS_ROOM", "DO_EGR"} /\ ~ Retires(v)
  BY DEF Sending, Retires
<1>4. v.state = "DO_EGR" => v.usize \in 1 .. len - 1
  BY DEF Counted, Halfway
<1>5. sent \in 1 .. len
  BY <1>2, <1>3, <1>4
<1>6. NextPyld(v, r) = <<r + 1, sent>>
  BY <1>3 DEF NextPyld, Halfway
<1>7. CASE ~ HasSlot(v)
  <2>1. w = [v EXCEPT !.ostate = v.state, !.state = "WAIT_BUFREADY"]
    BY <1>7 DEF Transmit
  <2>2. w.state = "WAIT_BUFREADY" /\ w.ostate = v.state /\ w.usize = v.usize
    BY <2>1 DEF Control
  <2> HIDE DEF w
  <2>3. Counted(w, r, msgs)
    BY <2>2, <1>4 DEF Counted, Halfway
  <2>4. NextPyld(w, r) = <<r + 1, sent>>
    BY <2>2, <1>3 DEF NextPyld, Halfway, Retires
  <2> QED BY <1>6, <1>7, <2>3, <2>4 DEF w
<1>8. CASE HasSlot(v)
  <2>1. w = [v EXCEPT !.recvidx = @ + 1, !.usize = sent,
                !.state = IF type = "RENDEZOUS" THEN "REQ_RDVR"
                          ELSE IF sent = NPkt(type) THEN "DONE_EGR"
                          ELSE "DO_EGR"]
    BY <1>8 DEF Transmit
  <2>2. /\ w.usize = sent
        /\ w.state = IF type = "RENDEZOUS" THEN "REQ_RDVR"
                     ELSE IF sent = len THEN "DONE_EGR" ELSE "DO_EGR"
    BY <2>1, <1>1 DEF Control
  <2>3. type = "RENDEZOUS" => len = 1
    BY <1>1 DEF NPkt
  <2> HIDE DEF w, sent, len
  <2>4. type = "RENDEZOUS" => sent = len
    BY <2>3, <1>5
  <2>5. Retires(w) <=> sent = len
    BY <2>2, <2>4 DEF Retires
  <2>6. sent # len => Halfway(w) /\ sent \in 1 .. len - 1
    BY <2>2, <2>4, <1>2, <1>5 DEF Halfway
  <2>7. Halfway(w) => sent # len
    BY <2>2 DEF Halfway
  <2>8. Counted(w, r, msgs)
    BY <2>2, <2>6, <2>7 DEF Counted, len
  <2>9. NextPyld(w, r) = IF sent = len THEN <<r + 2, 1>> ELSE <<r + 1, sent + 1>>
    BY <2>2, <2>5, <2>6 DEF NextPyld
  <2>10. After(<<r + 1, sent>>, msgs) =
           IF sent < len THEN <<r + 1, sent + 1>> ELSE <<r + 2, 1>>
    BY DEF After, len
  <2>11. sent < len <=> sent # len
    BY <1>2, <1>5
  <2>12. <<e.seq, w.usize>> = <<r + 1, sent>>
    BY <1>1, <2>2
  <2> QED BY <1>1, <1>5, <1>6, <1>8, <2>8, <2>9, <2>10, <2>11, <2>12 DEF w
<1> QED BY <1>7, <1>8

(* A run of the engine: nothing moves, or the next packet goes out.        *)
LEMMA EngineNext ==
  ASSUME NEW u \in Control, ControlOK(u), u.state # "FREE", NEW r \in Nat,
         NEW msgs \in Seq(Seq(Nat \X Nat)), Holds(u, r, msgs),
         Counted(u, r, msgs), NEW p, NEW ridx
  PROVE  LET w == EngineResult(u)
             r2 == IF Retires(u) THEN r + 1 ELSE r
             pkt == PutOp(p, 0, u, ridx).pkt
         IN  /\ Counted(w, r2, msgs)
             /\ ~ Puts(u) => NextPyld(w, r2) = NextPyld(u, r)
             /\ Puts(u) => /\ OfPosted(pkt, msgs)
                           /\ pkt.pyld = NextPyld(u, r)
                           /\ NextPyld(w, r2) = After(NextPyld(u, r), msgs)
<1> DEFINE v == Prepared(u)
           w == EngineResult(u)
           r2 == IF Retires(u) THEN r + 1 ELSE r
           pkt == PutOp(p, 0, u, ridx).pkt
<1>1. v \in Control /\ ControlOK(v) /\ v.state # "FREE"
  BY PreparedType
<1>2. Holds(v, r2, msgs) /\ r2 \in Nat
  BY EngineHolds
<1>3. Retires(u) => v.state \in {"NONE", "HAS_ROOM"}
  BY NextEntryType DEF Prepared
<1>4. ~ Retires(u) => v = u
  BY DEF Prepared
<1>5. Counted(v, r2, msgs)
  BY <1>3, <1>4 DEF Counted, Halfway
<1>6. NextPyld(v, r2) = NextPyld(u, r)
  <2>1. CASE Retires(u)
    <3>1. ~ Retires(v) /\ ~ Halfway(v)
      BY <1>3, <2>1 DEF Retires, Halfway
    <3>2. NextPyld(v, r2) = <<r2 + 1, 1>> /\ r2 + 1 = r + 2
      BY <3>1, <2>1 DEF NextPyld
    <3> QED BY <2>1, <3>2 DEF NextPyld
  <2>2. CASE ~ Retires(u)
    BY <2>2, <1>4
  <2> QED BY <2>1, <2>2
<1>7. CASE ~ Sending(v)
  <2>1. w = v /\ ~ Puts(u)
    BY <1>7 DEF EngineResult, Puts
  <2> QED BY <2>1, <1>5, <1>6
<1>8. CASE Sending(v)
  <2>1. /\ v.mi[v.micur].cntrtype # "NONE" /\ v.mi[v.micur].seq = r2 + 1
        /\ r2 + 1 \in DOMAIN msgs
        /\ Len(msgs[r2 + 1]) = NPkt(v.mi[v.micur].cntrtype)
    BY <1>1, <1>2, <1>8, SendsOldest
  <2>2. u.state # "WAIT_BUFREADY"
    BY <1>4, <1>8 DEF Retires, Sending
  <2>3. ~ EngineFault(u)
    BY <2>1, <2>2 DEF EngineFault
  <2>4. w = Transmit(v) /\ (Puts(u) <=> HasSlot(v))
    BY <1>8, <2>3 DEF EngineResult, Puts
  <2>5. pkt = Packet(p, 0, v.mi[v.micur], w.usize)
    BY DEF PutOp
  <2>6. /\ pkt.pyld = <<v.mi[v.micur].seq, w.usize>>
        /\ pkt.size = NPkt(v.mi[v.micur].cntrtype)
    BY <2>5 DEF Packet
  <2> HIDE DEF v, w, r2, pkt
  <2>7. /\ Counted(w, r2, msgs)
        /\ ~ HasSlot(v) => NextPyld(w, r2) = NextPyld(v, r2)
        /\ HasSlot(v) =>
             /\ pkt.pyld = NextPyld(v, r2)
             /\ pkt.pyld[2] \in DOMAIN msgs[r2 + 1]
             /\ NextPyld(w, r2) = After(pkt.pyld, msgs)
    BY <1>1, <1>2, <1>5, <1>8, <2>4, <2>6, TransmitNext
  <2>8. pkt.pyld[1] = r2 + 1
    BY <2>1, <2>6
  <2>9. HasSlot(v) => OfPosted(pkt, msgs)
    BY <2>1, <2>6, <2>7, <2>8 DEF OfPosted
  <2>10. /\ Counted(w, r2, msgs)
         /\ ~ Puts(u) => NextPyld(w, r2) = NextPyld(u, r)
         /\ Puts(u) => /\ OfPosted(pkt, msgs)
                       /\ pkt.pyld = NextPyld(u, r)
                       /\ NextPyld(w, r2) = After(NextPyld(u, r), msgs)
    BY <1>6, <2>4, <2>7, <2>9
  <2> QED BY <2>10 DEF w, r2, pkt
<1> QED BY <1>7, <1>8

-----------------------------------------------------------------------------
(* The receiver's end: what is assembled is the next message.              *)

(* the message is complete                                                 *)
LEMMA EngulfLast ==
  ASSUME NEW urp \in Urp, NEW pkt \in Pkt, NEW n \in Nat,
         NEW msgs \in Seq(Seq(Nat \X Nat)), Numbers(msgs),
         Assembling(urp, n, msgs), OfPosted(pkt, msgs),
         pkt.pyld = <<n + 1, Len(urp.asm) + 1>>, Completes(urp, pkt)
  PROVE  /\ n < Len(msgs) /\ Append(urp.asm, pkt.pyld) = msgs[n + 1]
         /\ Assembling(Engulf(urp, pkt), n + 1, msgs)
         /\ Engulf(urp, pkt).asm = <<>> /\ Engulf(urp, pkt).state = "R_NONE"
         /\ After(pkt.pyld, msgs) = <<n + 2, 1>>
<1> DEFINE asm == urp.asm
           more == Append(asm, pkt.pyld)
           m == msgs[n + 1]
<1>1. asm \in Seq(Nat \X Nat) /\ Len(asm) \in Nat /\ pkt.pyld \in Nat \X Nat
  BY DEF Urp, Pkt
<1>2. n + 1 \in DOMAIN msgs /\ pkt.size = Len(m) /\ Len(asm) + 1 \in DOMAIN m
  BY <1>1 DEF OfPosted
<1>3. m \in Seq(Nat \X Nat) /\ Len(m) \in Nat /\ n < Len(msgs)
  <2>1. msgs \in Seq(Seq(Nat \X Nat)) /\ n \in Nat
    OBVIOUS
  <2> QED BY ONLY <1>2, <2>1
<1>4. urp.state # "R_NONE" => urp.size = Len(m)
  BY DEF Assembling
<1>5. Len(asm) + 1 = Len(m)
  BY <1>2, <1>4 DEF Completes
<1>6. Len(more) = Len(m) /\ more \in Seq(Nat \X Nat)
  BY <1>1, <1>5
<1>7. \A c \in DOMAIN asm : asm[c] = <<n + 1, c>>
  <2>1. urp.state = "R_NONE" => asm = <<>>
    BY DEF Assembling
  <2>2. urp.state # "R_NONE" => \A c \in DOMAIN asm : asm[c] = <<n + 1, c>>
    BY DEF Assembling
  <2>3. asm = <<>> => DOMAIN asm = {}
    BY <1>1
  <2> QED BY <2>1, <2>2, <2>3
<1>8. \A c \in 1 .. Len(m) : m[c] = <<n + 1, c>>
  <2>1. \A c \in DOMAIN m : m[c] = <<n + 1, c>>
    BY <1>2, Zenon DEF Numbers
  <2>2. DOMAIN m = 1 .. Len(m)
    <3> HIDE DEF m
    <3> QED BY ONLY <1>3
  <2> QED BY ONLY <2>1, <2>2
<1>9. \A c \in 1 .. Len(more) : more[c] = m[c]
  <2> SUFFICES ASSUME NEW c \in 1 .. Len(more) PROVE more[c] = m[c]
    OBVIOUS
  <2>1. CASE c = Len(asm) + 1
    <3>1. more[c] = pkt.pyld
      BY <2>1, <1>1
    <3>2. c \in 1 .. Len(m)
      BY <1>6
    <3> QED BY <2>1, <3>1, <3>2, <1>8
  <2>2. CASE c # Len(asm) + 1
    <3>1. c \in 1 .. Len(asm) /\ c \in 1 .. Len(m)
      BY <2>2, <1>1, <1>5, <1>6
    <3>2. more[c] = asm[c] /\ c \in DOMAIN asm
      BY <3>1, <1>1
    <3> QED BY <3>1, <3>2, <1>7, <1>8
  <2> QED BY <2>1, <2>2
<1>10. more = m
  BY <1>3, <1>6, <1>9, SeqEqual
<1>11. Engulf(urp, pkt) = [urp EXCEPT !.state = "R_NONE", !.size = 0, !.asm = <<>>]
  BY <1>1, <1>2, <1>4, <1>5, <1>6 DEF Engulf
<1>12. Engulf(urp, pkt).state = "R_NONE" /\ Engulf(urp, pkt).asm = <<>>
  BY <1>11 DEF Urp
<1>13. After(pkt.pyld, msgs) = <<n + 2, 1>>
  <2>1. /\ pkt.pyld = <<n + 1, Len(asm) + 1>> /\ n \in Nat
        /\ Len(asm) + 1 = Len(msgs[n + 1]) /\ Len(asm) \in Nat
    BY <1>1, <1>5
  <2> HIDE DEF asm
  <2> QED BY ONLY <2>1 DEF After
<1> QED BY <1>3, <1>10, <1>12, <1>13 DEF Assembling

(* the message grows                                                       *)
LEMMA EngulfMore ==
  ASSUME NEW urp \in Urp, NEW pkt \in Pkt, NEW n \in Nat,
         NEW msgs \in Seq(Seq(Nat \X Nat)),
         Assembling(urp, n, msgs), OfPosted(pkt, msgs),
         pkt.pyld = <<n + 1, Len(urp.asm) + 1>>, ~ Completes(urp, pkt)
  PROVE  /\ Assembling(Engulf(urp, pkt), n, msgs)
         /\ Len(Engulf(urp, pkt).asm) = Len(urp.asm) + 1
         /\ After(pkt.pyld, msgs) = <<n + 1, Len(urp.asm) + 2>>
<1> DEFINE asm == urp.asm
           more == Append(asm, pkt.pyld)
           m == msgs[n + 1]
           urp2 == Engulf(urp, pkt)
<1>1. asm \in Seq(Nat \X Nat) /\ Len(asm) \in Nat /\ pkt.pyld \in Nat \X Nat
  BY DEF Urp, Pkt
<1>2. n + 1 \in DOMAIN msgs /\ pkt.size = Len(m) /\ Len(asm) + 1 \in DOMAIN m
  BY <1>1 DEF OfPosted
<1>3. m \in Seq(Nat \X Nat) /\ Len(m) \in Nat
  <2>1. msgs \in Seq(Seq(Nat \X Nat)) /\ n \in Nat
    OBVIOUS
  <2> QED BY ONLY <1>2, <2>1
<1>4. urp.state # "R_NONE" => urp.size = Len(m)
  BY DEF Assembling
<1>5. Len(asm) + 1 # Len(m) /\ Len(asm) + 1 <= Len(m) /\ Len(asm) + 1 < Len(m)
  <2>1. Len(asm) + 1 # Len(m)
    BY <1>2, <1>4 DEF Completes
  <2>2. Len(asm) + 1 <= Len(m)
    BY <1>2, <1>3
  <2> QED BY <2>1, <2>2, <1>1, <1>3
<1>6. Len(more) = Len(asm) + 1 /\ more \in Seq(Nat \X Nat)
  BY <1>1
<1>7. \A c \in DOMAIN asm : asm[c] = <<n + 1, c>>
  <2>1. urp.state = "R_NONE" => asm = <<>>
    BY DEF Assembling
  <2>2. urp.state # "R_NONE" => \A c \in DOMAIN asm : asm[c] = <<n + 1, c>>
    BY DEF Assembling
  <2>3. asm = <<>> => DOMAIN asm = {}
    BY <1>1
  <2> QED BY <2>1, <2>2, <2>3
<1>8. \A c \in DOMAIN more : more[c] = <<n + 1, c>>
  <2> SUFFICES ASSUME NEW c \in 1 .. Len(asm) + 1 PROVE more[c] = <<n + 1, c>>
    BY <1>6
  <2>1. CASE c = Len(asm) + 1
    BY <2>1, <1>1
  <2>2. CASE c # Len(asm) + 1
    <3>1. c \in 1 .. Len(asm)
      BY <2>2, <1>1
    <3>2. more[c] = asm[c] /\ c \in DOMAIN asm
      BY <3>1, <1>1
    <3> QED BY <3>2, <1>7
  <2> QED BY <2>1, <2>2
<1>9. urp2 = [urp EXCEPT !.state = "R_BODY", !.size = Len(m), !.asm = more]
  BY <1>2, <1>4, <1>5, <1>6 DEF Engulf
<1>10. urp2.state = "R_BODY" /\ urp2.asm = more /\ urp2.size = Len(m)
  BY <1>9 DEF Urp
<1>11. Len(more) \in 1 .. Len(m) - 1
  <2>1. Len(more) < Len(m) /\ Len(more) \in Nat \ {0}
    BY <1>1, <1>5, <1>6
  <2> HIDE DEF more, m
  <2> QED BY ONLY <1>3, <2>1
<1> HIDE DEF urp2, more
<1>12. Assembling(urp2, n, msgs)
  BY <1>2, <1>8, <1>10, <1>11 DEF Assembling
<1>13. After(pkt.pyld, msgs) = <<n + 1, Len(asm) + 2>>
  BY <1>1, <1>3, <1>5 DEF After
<1> QED BY <1>6, <1>10, <1>12, <1>13 DEF urp2

-----------------------------------------------------------------------------
(* Between them.                                                           *)

LEMMA Place ==
  ASSUME NEW p, NEW v, NEW s \in Nat, NEW ops \in Seq(Op), NEW urp \in Urp,
         NEW ring, NEW c, s <= COM_RBUF_SIZE,
         InFlight(p, v, s, ops), Landed(p, s - Len(ops), urp, ring, c)
  PROVE  /\ ReadTo(urp, c) \in Nat /\ Len(ops) \in Nat
         /\ ReadTo(urp, c) <= s - Len(ops)
         /\ c \in {0, 1}
<1>1. urp.recvidx \in Nat /\ COM_RBUF_SIZE \in Nat /\ Len(ops) \in Nat
  BY ConstAssumption DEF Urp, Slot
<1> QED BY <1>1 DEF Landed, ReadTo, InFlight

(* The packets in a run of slots.                                          *)
LEMMA LineAt ==
  ASSUME NEW ops, NEW ring, NEW f \in Int, NEW t \in Int, NEW i \in f .. t - 1
  PROVE  Line(ops, ring, f, t)[i] =
           IF i < t - Len(ops) THEN ring[i] ELSE ops[i - (t - Len(ops)) + 1].pkt
BY DEF Line

(* utf_sendengine                                                          *)
LEMMA EnginePassing ==
  ASSUME NEW u \in Control, ControlOK(u), u.state # "FREE", NEW r \in Nat,
         NEW msgs \in Seq(Seq(Nat \X Nat)), Holds(u, r, msgs),
         NEW p \in Rank, NEW v \in Ring, NEW ops \in Seq(Op), NEW ring, NEW c,
         NEW urp, NEW n, 0 \in SndCntr,
         ReadTo(urp, c) \in Nat, ReadTo(urp, c) <= u.recvidx - Len(ops),
         Passing(u, r, ops, ring, c, urp, n, msgs)
  PROVE  Passing(EngineResult(u), IF Retires(u) THEN r + 1 ELSE r,
                 IF Puts(u) THEN Append(ops, PutOp(p, 0, u, v)) ELSE ops,
                 ring, c, urp, n, msgs)
<1> DEFINE w == EngineResult(u)
           r2 == IF Retires(u) THEN r + 1 ELSE r
           op == PutOp(p, 0, u, v)
           ops2 == IF Puts(u) THEN Append(ops, op) ELSE ops
           f == ReadTo(urp, c)
           t == u.recvidx
           x == <<n + 1, Len(urp.asm) + 1>>
           y == NextPyld(u, r)
           old == Line(ops, ring, f, t)
           new == Line(ops2, ring, f, w.recvidx)
<1>1. Counted(u, r, msgs) /\ Follow(old, f, t, x, y, msgs) /\ Assembling(urp, n, msgs)
  BY DEF Passing
<1>2. t \in Nat /\ f \in Nat /\ Len(ops) \in Nat /\ f <= t
  BY ConstAssumption DEF Control
<1>3. /\ Counted(w, r2, msgs)
      /\ ~ Puts(u) => NextPyld(w, r2) = y
      /\ Puts(u) => /\ OfPosted(op.pkt, msgs) /\ op.pkt.pyld = y
                    /\ NextPyld(w, r2) = After(y, msgs)
  <2> HIDE DEF y, w, r2, op
  <2>1. Counted(u, r, msgs)
    BY <1>1
  <2>2. LET w1 == EngineResult(u)
            r1 == IF Retires(u) THEN r + 1 ELSE r
            pkt == PutOp(p, 0, u, v).pkt
        IN  /\ Counted(w1, r1, msgs)
            /\ ~ Puts(u) => NextPyld(w1, r1) = NextPyld(u, r)
            /\ Puts(u) => /\ OfPosted(pkt, msgs)
                          /\ pkt.pyld = NextPyld(u, r)
                          /\ NextPyld(w1, r1) = After(NextPyld(u, r), msgs)
    BY <2>1, EngineNext, Zenon
  <2> QED BY <2>2 DEF y, w, r2, op
<1>4. w.recvidx = IF Puts(u) THEN t + 1 ELSE t
  BY EngineType
<1>5. Puts(u) => op \in Op
  BY PutOpType
<1>6. Follow(new, f, w.recvidx, x, NextPyld(w, r2), msgs)
  <2>1. CASE ~ Puts(u)
    BY <1>1, <1>3, <1>4, <2>1
  <2>2. CASE Puts(u)
    <3>1. w.recvidx = t + 1 /\ ops2 = Append(ops, op) /\ op \in Op
      BY <1>4, <1>5, <2>2
    <3>2. Len(ops2) = Len(ops) + 1 /\ (t + 1) - Len(ops2) = t - Len(ops)
      BY <3>1, <1>2
    <3>0. new = Line(ops2, ring, f, t + 1) /\ f \in Int /\ t \in Int /\ t + 1 \in Int
      BY <3>1, <1>2
    <3> HIDE DEF ops2, op, w, r2, x, y, f, t, new, old
    <3>3. \A i \in f .. t : new[i] =
            IF i < t - Len(ops) THEN ring[i] ELSE ops2[i - (t - Len(ops)) + 1].pkt
      <4>1. \A i \in f .. (t + 1) - 1 : new[i] =
              IF i < (t + 1) - Len(ops2) THEN ring[i]
              ELSE ops2[i - ((t + 1) - Len(ops2)) + 1].pkt
        BY <3>0, LineAt
      <4>2. (t + 1) - 1 = t
        BY <1>2
      <4> QED BY <3>2, <4>1, <4>2
    <3>4. \A i \in f .. t - 1 : old[i] =
            IF i < t - Len(ops) THEN ring[i] ELSE ops[i - (t - Len(ops)) + 1].pkt
      BY <3>0, LineAt DEF old
    <3>5. \A i \in 1 .. Len(ops) : ops2[i] = ops[i]
      BY <3>1
    <3>6. \A i \in f .. t - 1 : ~ (i < t - Len(ops)) =>
            i - (t - Len(ops)) + 1 \in 1 .. Len(ops)
      BY <1>2
    <3>7. \A i \in f .. t - 1 : i \in f .. t
      BY <1>2
    <3>8. \A i \in f .. t - 1 : new[i] = old[i]
      BY <3>3, <3>4, <3>5, <3>6, <3>7
    <3>9. new[t] = op.pkt
      <4>1. t \in f .. t /\ ~ (t < t - Len(ops)) /\ t - (t - Len(ops)) + 1 = Len(ops) + 1
        BY <1>2
      <4>2. ops2[Len(ops) + 1] = op
        BY <3>1
      <4> QED BY <3>3, <4>1, <4>2
    <3>10. Follow(new, f, t + 1, x, After(y, msgs), msgs)
      <4>1. OfPosted(new[t], msgs) /\ new[t].pyld = y
        BY <1>3, <2>2, <3>9
      <4> QED BY <1>1, <1>2, <3>0, <3>8, <4>1, FollowPut
    <3> QED BY <3>1, <3>10, <1>3, <2>2
  <2> QED BY <2>1, <2>2
<1> HIDE DEF w, r2, ops2
<1>7. Passing(w, r2, ops2, ring, c, urp, n, msgs)
  BY <1>1, <1>3, <1>6 DEF Passing
<1> QED BY <1>7 DEF w, r2, ops2

(* a put lands                                                             *)
LEMMA LandPassing ==
  ASSUME NEW u \in Control, NEW r, NEW ops \in Seq(Op), ops # <<>>,
         NEW ring \in [Slot -> Pkt \cup {NoPkt}], NEW c, NEW urp, NEW n, NEW msgs,
         ReadTo(urp, c) \in Nat, ReadTo(urp, c) <= u.recvidx - Len(ops),
         Head(ops).slot = u.recvidx - Len(ops),
         Passing(u, r, ops, ring, c, urp, n, msgs)
  PROVE  Passing(u, r, Tail(ops), [ring EXCEPT ![Head(ops).slot] = Head(ops).pkt],
                 c, urp, n, msgs)
<1> DEFINE f == ReadTo(urp, c)
           t == u.recvidx
           h == Head(ops)
           ring2 == [ring EXCEPT ![h.slot] = h.pkt]
           ops2 == Tail(ops)
           old == Line(ops, ring, f, t)
           new == Line(ops2, ring2, f, t)
           k == t - Len(ops)
<1>1. t \in Nat /\ f \in Nat /\ Len(ops) \in Nat \ {0} /\ k \in Int
  BY ConstAssumption DEF Control
<1>2. Len(ops2) = Len(ops) - 1 /\ t - Len(ops2) = k + 1
      /\ \A j \in 1 .. Len(ops2) : ops2[j] = ops[j + 1]
  BY <1>1
<1>3. h = ops[1] /\ h \in Op /\ h.slot = k
  BY <1>1
<1>4. k \in Slot
  BY <1>3 DEF Op
<1>5. ring2[k] = ops[1].pkt /\ \A i \in Slot : i # k => ring2[i] = ring[i]
  BY <1>3, <1>4
<1>6. t <= COM_RBUF_SIZE
  BY ConstAssumption DEF Control
<1> HIDE DEF ops2, ring2
<1>7. \A i \in f .. t - 1 : new[i] =
        IF i < k + 1 THEN ring2[i] ELSE ops2[i - (k + 1) + 1].pkt
  <2>1. \A i \in f .. t - 1 : new[i] = IF i < t - Len(ops2) THEN ring2[i]
                                      ELSE ops2[i - (t - Len(ops2)) + 1].pkt
    <3> HIDE DEF f, t
    <3> QED BY ONLY <1>1, LineAt
  <2> QED BY <1>2, <2>1, Zenon
<1>8. \A i \in f .. t - 1 : old[i] = IF i < k THEN ring[i] ELSE ops[i - k + 1].pkt
  <2>1. \A i \in f .. t - 1 : old[i] = IF i < t - Len(ops) THEN ring[i]
                                      ELSE ops[i - (t - Len(ops)) + 1].pkt
    <3> HIDE DEF f, t
    <3> QED BY ONLY <1>1, LineAt
  <2> QED BY <2>1, Zenon
<1>9. ASSUME NEW i \in f .. t - 1 PROVE new[i] = old[i]
  <2> HIDE DEF new, old
  <2>1. CASE i < k
    <3>1. i \in Slot /\ i # k /\ i < k + 1
      BY <1>1, <1>6, <2>1, ConstAssumption DEF Slot
    <3> QED BY <1>5, <1>7, <1>8, <1>9, <2>1, <3>1
  <2>2. CASE i = k
    <3>1. i < k + 1 /\ ~ (i < k) /\ i - k + 1 = 1
      BY <1>1, <2>2
    <3>2. new[i] = ring2[k] /\ old[i] = ops[1].pkt
      BY <1>7, <1>8, <1>9, <2>2, <3>1
    <3> QED BY <1>5, <3>2
  <2>3. CASE i > k
    <3>0. i \in Int
      BY <1>1
    <3>1. ~ (i < k + 1) /\ ~ (i < k) /\ i - (k + 1) + 1 = i - k
      <4> HIDE DEF k
      <4> QED BY ONLY <1>1, <2>3, <3>0
    <3>2. i - k \in 1 .. Len(ops2)
      BY <1>1, <1>2, <2>3
    <3>3. new[i] = ops2[i - k].pkt /\ old[i] = ops[i - k + 1].pkt
      BY <1>7, <1>8, <1>9, <3>1
    <3> QED BY <1>2, <3>2, <3>3
  <2> QED BY <1>1, <2>1, <2>2, <2>3
<1>10. Follow(old, f, t, <<n + 1, Len(urp.asm) + 1>>, NextPyld(u, r), msgs)
  BY DEF Passing
<1> HIDE DEF new, old
<1>11. Follow(new, f, t, <<n + 1, Len(urp.asm) + 1>>, NextPyld(u, r), msgs)
  BY <1>1, <1>9, <1>10, FollowKept
<1> USE DEF new
<1>12. Passing(u, r, ops2, ring2, c, urp, n, msgs)
  BY <1>11 DEF Passing
<1> QED BY <1>12 DEF ops2, ring2

LEMMA RecvidxType ==
  ASSUME NEW u \in Control
  PROVE  u.recvidx \in Nat /\ u.recvidx <= COM_RBUF_SIZE
BY ConstAssumption DEF Control

(* ring2 is ring but for slot f                                            *)
SameBut(ring, ring2, f) == \A i \in Slot : i # f => ring2[i] = ring[i]

(* The packet in slot f is the first of those that follow each other.      *)
LEMMA ReadFollow ==
  ASSUME NEW ops \in Seq(Op), NEW ring, NEW ring2, NEW t \in Nat, t <= COM_RBUF_SIZE,
         NEW f \in Nat, NEW g \in Nat, g = f + 1, f < t - Len(ops),
         NEW x, NEW y, NEW msgs,
         Follow(Line(ops, ring, f, t), f, t, x, y, msgs),
         SameBut(ring, ring2, f)
  PROVE  /\ OfPosted(ring[f], msgs) /\ ring[f].pyld = x
         /\ Follow(Line(ops, ring2, g, t), g, t, After(x, msgs), y, msgs)
<1> DEFINE old == Line(ops, ring, f, t)
           new == Line(ops, ring2, g, t)
<1>1. Follow(old, f, t, x, y, msgs) /\ f < t
  OBVIOUS
<1>2. Len(ops) \in Nat /\ f < t /\ f \in f .. t - 1
  OBVIOUS
<1>3. \A i \in f .. t - 1 : i \in Slot
  BY <1>2, ConstAssumption DEF Slot
<1>4. \A i \in f .. t - 1 : old[i] =
        IF i < t - Len(ops) THEN ring[i] ELSE ops[i - (t - Len(ops)) + 1].pkt
  BY <1>2, LineAt
<1>5. \A i \in g .. t - 1 : new[i] =
        IF i < t - Len(ops) THEN ring2[i] ELSE ops[i - (t - Len(ops)) + 1].pkt
  BY <1>2, LineAt
<1>6. \A i \in g .. t - 1 : i \in f .. t - 1 /\ i # f
  BY <1>2
<1> HIDE DEF old, new
<1>7. old[f] = ring[f]
  BY <1>2, <1>4
<1>8. \A i \in g .. t - 1 : new[i] = old[i]
  BY <1>3, <1>4, <1>5, <1>6 DEF SameBut
<1>9. /\ OfPosted(old[f], msgs) /\ old[f].pyld = x
      /\ Follow(new, g, t, After(x, msgs), y, msgs)
  BY <1>1, <1>8, FollowRead
<1> QED BY <1>7, <1>9 DEF new

(* utf_progress hands the next packet to utf_recvengine                    *)
LEMMA ReadPassing ==
  ASSUME NEW u \in Control, NEW r, NEW ops \in Seq(Op), NEW ring, NEW c,
         NEW urp \in Urp, NEW n \in Nat, NEW msgs \in Seq(Seq(Nat \X Nat)),
         Numbers(msgs), Passing(u, r, ops, ring, c, urp, n, msgs),
         NEW f \in Nat, f = ReadTo(urp, c), f < u.recvidx - Len(ops),
         NEW pkt \in Pkt, ring[f] = pkt,
         NEW ring2, SameBut(ring, ring2, f),
         NEW urp3, NEW c3, NEW g \in Nat, g = f + 1, ReadTo(urp3, c3) = g,
         urp3.state = Engulf(urp, pkt).state, urp3.asm = Engulf(urp, pkt).asm,
         urp3.size = Engulf(urp, pkt).size,
         NEW n2, n2 = IF Completes(urp, pkt) THEN n + 1 ELSE n
  PROVE  Passing(u, r, ops, ring2, c3, urp3, n2, msgs)
<1> DEFINE t == u.recvidx
           x == <<n + 1, Len(urp.asm) + 1>>
           y == NextPyld(u, r)
           new == Line(ops, ring2, g, t)
<1>1. t \in Nat /\ t <= COM_RBUF_SIZE /\ f < t - Len(ops)
  BY RecvidxType
<1>2. Counted(u, r, msgs) /\ Assembling(urp, n, msgs)
  BY DEF Passing
<1>3. /\ OfPosted(pkt, msgs) /\ pkt.pyld = x
      /\ Follow(new, g, t, After(x, msgs), y, msgs)
  <2>1. Follow(Line(ops, ring, f, t), f, t, x, y, msgs)
    BY DEF Passing
  <2> HIDE DEF t, x, y
  <2>2. /\ OfPosted(ring[f], msgs) /\ ring[f].pyld = x
        /\ Follow(Line(ops, ring2, g, t), g, t, After(x, msgs), y, msgs)
    BY <1>1, <2>1, ReadFollow
  <2> QED BY <2>2
<1> HIDE DEF t, y, new
<1>4. CASE Completes(urp, pkt)
  <2>1. /\ n < Len(msgs) /\ Append(urp.asm, pkt.pyld) = msgs[n + 1]
        /\ Assembling(Engulf(urp, pkt), n + 1, msgs)
        /\ Engulf(urp, pkt).asm = <<>> /\ After(pkt.pyld, msgs) = <<n + 2, 1>>
    BY <1>2, <1>3, <1>4, EngulfLast, ZenonT(40)
  <2>2. Assembling(urp3, n + 1, msgs)
    BY <2>1 DEF Assembling
  <2>3. After(x, msgs) = <<(n + 1) + 1, Len(urp3.asm) + 1>>
    BY <1>3, <2>1
  <2>4. Passing(u, r, ops, ring2, c3, urp3, n + 1, msgs)
    BY <1>2, <1>3, <2>2, <2>3 DEF Passing, t, y, new
  <2> QED BY <1>4, <2>4
<1>5. CASE ~ Completes(urp, pkt)
  <2>1. /\ Assembling(Engulf(urp, pkt), n, msgs)
        /\ Len(Engulf(urp, pkt).asm) = Len(urp.asm) + 1
        /\ After(pkt.pyld, msgs) = <<n + 1, Len(urp.asm) + 2>>
    BY <1>2, <1>3, <1>5, EngulfMore
  <2>2. Assembling(urp3, n, msgs)
    BY <2>1 DEF Assembling
  <2>3. After(x, msgs) = <<n + 1, Len(urp3.asm) + 1>>
    <3>1. Len(urp.asm) \in Nat
      BY DEF Urp
    <3> QED BY <1>3, <2>1, <3>1
  <2>4. Passing(u, r, ops, ring2, c3, urp3, n, msgs)
    BY <1>2, <1>3, <2>2, <2>3 DEF Passing, t, y, new
  <2> QED BY <1>5, <2>4
<1> QED BY <1>4, <1>5

(* the message that pkt completes                                          *)
Whole(urp, pkt) == Append(urp.asm, pkt.pyld)

LEMMA ReadWhole ==
  ASSUME NEW u \in Control, NEW r, NEW ops \in Seq(Op), NEW ring, NEW c,
         NEW urp \in Urp, NEW n \in Nat, NEW msgs \in Seq(Seq(Nat \X Nat)),
         Numbers(msgs), Passing(u, r, ops, ring, c, urp, n, msgs),
         NEW f \in Nat, f = ReadTo(urp, c), f < u.recvidx - Len(ops),
         ring[f] \in Pkt, Completes(urp, ring[f])
  PROVE  n < Len(msgs) /\ Whole(urp, ring[f]) = msgs[n + 1]
<1> DEFINE t == u.recvidx
           x == <<n + 1, Len(urp.asm) + 1>>
           y == NextPyld(u, r)
<1>1. t \in Nat /\ t <= COM_RBUF_SIZE /\ f < t - Len(ops)
  BY RecvidxType
<1>2. Follow(Line(ops, ring, f, t), f, t, x, y, msgs) /\ Assembling(urp, n, msgs)
  BY DEF Passing
<1>3. PICK g \in Nat : g = f + 1
  OBVIOUS
<1>4. SameBut(ring, ring, f)
  BY DEF SameBut
<1> HIDE DEF t, x, y
<1>5. /\ OfPosted(ring[f], msgs) /\ ring[f].pyld = x
      /\ Follow(Line(ops, ring, g, t), g, t, After(x, msgs), y, msgs)
  BY <1>1, <1>2, <1>3, <1>4, ReadFollow
<1> QED BY <1>2, <1>5, EngulfLast DEF x, Whole

(* The next payload is a matter of the control's state.                    *)
LEMMA SamePyld ==
  ASSUME NEW u, NEW w, NEW r,
         \/ w.state = u.state /\ w.ostate = u.ostate
         \/ u.state \in {"NONE", "REQ_ROOM"} /\ w.state = "HAS_ROOM"
         \/ u.state = "WAIT_BUFREADY" /\ u.ostate \in {"HAS_ROOM", "DO_EGR"}
              /\ w.state = u.ostate,
         w.usize = u.usize
  PROVE  NextPyld(w, r) = NextPyld(u, r) /\ (Halfway(w) <=> Halfway(u))
BY DEF NextPyld, Halfway, Retires

(* minfo_setup, and the engine made ready to start                         *)
LEMMA PostPassing ==
  ASSUME NEW u \in Control, NEW r \in Nat, NEW ops, NEW ring, NEW c, NEW urp,
         NEW n \in Nat, NEW msgs \in Seq(Seq(Nat \X Nat)), NEW m,
         Passing(u, r, ops, ring, c, urp, n, msgs), ReadTo(urp, c) \in Nat,
         Halfway(u) => r < Len(msgs),
         NEW w, w.recvidx = u.recvidx,
         NextPyld(w, r) = NextPyld(u, r), Halfway(w) <=> Halfway(u),
         w.usize = u.usize
  PROVE  Passing(w, r, ops, ring, c, urp, n, Append(msgs, m))
<1> DEFINE more == Append(msgs, m)
<1>1. \A i \in DOMAIN msgs : i \in DOMAIN more /\ more[i] = msgs[i]
  OBVIOUS
<1>2. u.recvidx \in Int
  BY DEF Control
<1>3. Halfway(u) => r + 1 \in DOMAIN msgs
  OBVIOUS
<1>4. Follow(Line(ops, ring, ReadTo(urp, c), u.recvidx), ReadTo(urp, c), u.recvidx,
             <<n + 1, Len(urp.asm) + 1>>, NextPyld(u, r), more)
  BY <1>2, FollowPosted DEF Passing
<1> HIDE DEF more
<1>5. Counted(w, r, more)
  BY <1>1, <1>3 DEF Passing, Counted
<1>6. Assembling(urp, n, more)
  BY <1>1 DEF Passing, Assembling
<1>7. Passing(w, r, ops, ring, c, urp, n, more)
  BY <1>4, <1>5, <1>6 DEF Passing
<1> QED BY <1>7 DEF more

(* a ring that is empty again, or for the first time                       *)
LEMMA EmptyPassing ==
  ASSUME NEW u, NEW r, NEW ops, NEW ring, NEW c, NEW urp, NEW n, NEW msgs,
         ReadTo(urp, c) = 0, u.recvidx = 0,
         Assembling(urp, n, msgs), Counted(u, r, msgs),
         NextPyld(u, r) = <<n + 1, Len(urp.asm) + 1>>
  PROVE  Passing(u, r, ops, ring, c, urp, n, msgs)
BY DEF Passing, Follow

(* EVT_RMT_RECVRST: everything was read                                    *)
LEMMA ResetPassing ==
  ASSUME NEW u \in Control, NEW r, NEW ops, NEW ring, NEW urp, NEW n, NEW msgs,
         Passing(u, r, ops, ring, 1, urp, n, msgs), u.recvidx = COM_RBUF_SIZE,
         urp.recvidx = 0, NEW ops2, NEW ring2,
         NEW w, w.recvidx = 0, NextPyld(w, r) = NextPyld(u, r),
         Halfway(w) <=> Halfway(u), w.usize = u.usize
  PROVE  Passing(w, r, ops2, ring2, 0, urp, n, msgs)
<1>1. NextPyld(u, r) = <<n + 1, Len(urp.asm) + 1>>
  BY DEF Passing, ReadTo, Follow
<1>2. Counted(w, r, msgs) /\ Assembling(urp, n, msgs)
  BY DEF Passing, Counted
<1>3. ReadTo(urp, 0) = 0
  BY DEF ReadTo
<1> QED BY <1>1, <1>2, <1>3, EmptyPassing

-----------------------------------------------------------------------------
(* The steps of the protocol.                                              *)

FifoIInv == RingIInv /\ WindowInv /\ StreamInv

(* what Stream(p, q) depends on                                            *)
SameStream(p, q) ==
  LET v == egrmgt[p][q].index
  IN  /\ scntr'[p][0] = scntr[p][0] /\ rcvrst'[p][0] = rcvrst[p][0]
      /\ egrmgt'[p][q].index = v
      /\ wire'[p][q] = wire[p][q] /\ posted'[p][q] = posted[p][q]
      /\ rbuf'[q][v] = rbuf[q][v] /\ rcntr'[q][v] = rcntr[q][v]

(* A step that changes one stream at most.                                 *)
LEMMA StreamStep ==
  ASSUME StreamInv, NEW p \in Rank, NEW q \in Rank,
         \A r, x \in Rank : Numbers(posted[r][x])',
         \A r, x \in Rank : (r # p \/ x # q) =>
           /\ Owner(r, x)' <=> Owner(r, x)
           /\ inbox'[x][r] = inbox[x][r] /\ retired'[r][x] = retired[r][x]
           /\ Owner(r, x) => SameStream(r, x),
         Owner(p, q) => Owner(p, q)' /\ egrmgt'[p][q].index = egrmgt[p][q].index,
         IF Owner(p, q)' THEN Stream(p, q)'
         ELSE inbox'[q][p] = <<>> /\ retired'[p][q] = 0,
         \A x \in Rank, v \in Ring :
           ~ (Owner(p, q)' /\ x = q /\ v = egrmgt'[p][q].index) =>
             rcntr'[x][v] = rcntr[x][v]
  PROVE  StreamInv'
<1>1. ASSUME NEW r \in Rank, NEW x \in Rank
      PROVE  IF Owner(r, x)' THEN Stream(r, x)'
             ELSE inbox'[x][r] = <<>> /\ retired'[r][x] = 0
  <2>1. CASE r = p /\ x = q
    BY <2>1
  <2>2. CASE ~ (r = p /\ x = q) /\ Owner(r, x)
    <3>1. Stream(r, x)
      BY <2>2 DEF StreamInv
    <3>2. /\ SameStream(r, x) /\ Owner(r, x)'
          /\ inbox'[x][r] = inbox[x][r] /\ retired'[r][x] = retired[r][x]
      BY <2>2
    <3> QED BY <3>1, <3>2 DEF Stream, SameStream
  <2>3. CASE ~ (r = p /\ x = q) /\ ~ Owner(r, x)
    BY <2>3 DEF StreamInv
  <2> QED BY <2>1, <2>2, <2>3
<1>2. ASSUME NEW x \in Rank, NEW v \in Ring,
             \A r \in Rank : ~ (Owner(r, x)' /\ egrmgt'[r][x].index = v)
      PROVE  rcntr'[x][v].state = "R_NONE" /\ rcntr'[x][v].asm = <<>>
  <2>1. \A r \in Rank : ~ (Owner(r, x) /\ egrmgt[r][x].index = v)
    <3> SUFFICES ASSUME NEW r \in Rank, Owner(r, x), egrmgt[r][x].index = v
                 PROVE  FALSE
      OBVIOUS
    <3>1. Owner(r, x)' /\ egrmgt'[r][x].index = v
      BY DEF SameStream
    <3> QED BY <1>2, <3>1
  <2>2. rcntr'[x][v] = rcntr[x][v]
    BY <1>2
  <2> QED BY <2>1, <2>2 DEF StreamInv
<1> QED BY <1>1, <1>2 DEF StreamInv

(* A step that changes none.                                               *)
LEMMA StreamKept ==
  ASSUME StreamInv, UNCHANGED <<rcntr, inbox, posted, retired>>,
         \A r, x \in Rank :
           /\ Owner(r, x)' <=> Owner(r, x)
           /\ Owner(r, x) => SameStream(r, x)
  PROVE  StreamInv'
<1>1. \A r, x \in Rank : Numbers(posted[r][x])'
  BY DEF StreamInv
<1>2. \A r, x \in Rank : IF Owner(r, x)' THEN Stream(r, x)'
                         ELSE inbox'[x][r] = <<>> /\ retired'[r][x] = 0
  BY DEF StreamInv, Stream, SameStream
<1>3. ASSUME NEW x \in Rank, NEW v \in Ring,
             \A r \in Rank : ~ (Owner(r, x)' /\ egrmgt'[r][x].index = v)
      PROVE  rcntr'[x][v].state = "R_NONE" /\ rcntr'[x][v].asm = <<>>
  <2>1. \A r \in Rank : ~ (Owner(r, x) /\ egrmgt[r][x].index = v)
    BY <1>3 DEF SameStream
  <2> QED BY <2>1 DEF StreamInv
<1> QED BY <1>1, <1>2, <1>3 DEF StreamInv

(* A step of the sender: the streams it has no part in stay.               *)
LEMMA SenderStream ==
  ASSUME StreamInv, NEW p \in Rank, NEW q \in Rank,
         UNCHANGED <<rbuf, rcntr, inbox>>,
         \A r \in Rank : r # p =>
           /\ scntr'[r] = scntr[r] /\ wire'[r] = wire[r] /\ egrmgt'[r] = egrmgt[r]
           /\ rcvrst'[r] = rcvrst[r] /\ posted'[r] = posted[r]
           /\ retired'[r] = retired[r],
         \A x \in Rank : x # q =>
           ~ Owner(p, x) /\ ~ Owner(p, x)' /\ retired'[p][x] = retired[p][x],
         \A r, x \in Rank : Numbers(posted[r][x])',
         Owner(p, q) => Owner(p, q)' /\ egrmgt'[p][q].index = egrmgt[p][q].index,
         IF Owner(p, q)' THEN Stream(p, q)'
         ELSE inbox'[q][p] = <<>> /\ retired'[p][q] = 0
  PROVE  StreamInv'
<1>1. \A r, x \in Rank : (r # p \/ x # q) =>
        /\ Owner(r, x)' <=> Owner(r, x)
        /\ inbox'[x][r] = inbox[x][r] /\ retired'[r][x] = retired[r][x]
        /\ Owner(r, x) => SameStream(r, x)
  <2> SUFFICES ASSUME NEW r \in Rank, NEW x \in Rank, r # p \/ x # q
               PROVE  /\ Owner(r, x)' <=> Owner(r, x)
                      /\ inbox'[x][r] = inbox[x][r] /\ retired'[r][x] = retired[r][x]
                      /\ Owner(r, x) => SameStream(r, x)
    OBVIOUS
  <2>1. CASE r # p
    BY <2>1 DEF Owner, SameStream
  <2>2. CASE r = p /\ x # q
    BY <2>2
  <2> QED BY <2>1, <2>2
<1> QED BY <1>1, StreamStep

LEMMA StreamTypes ==
  ASSUME TypeInv, NEW p \in Rank, NEW q \in Rank, NEW v \in Ring
  PROVE  /\ wire[p][q] \in Seq(Op) /\ rcntr[q][v] \in Urp
         /\ rbuf[q][v] \in [Slot -> Pkt \cup {NoPkt}]
         /\ Len(inbox[q][p]) \in Nat /\ retired[p][q] \in Nat
         /\ posted[p][q] \in Seq(Seq(Nat \X Nat))
         /\ 0 \in SndCntr /\ scntr[p][0] \in Control /\ ControlOK(scntr[p][0])
<1>1. 0 \in SndCntr
  BY ConstAssumption DEF SndCntr
<1>2. wire[p][q] \in Seq(Op)
  BY DEF TypeInv, TypeOK, TypeNet
<1>3. /\ rcntr[q][v] \in Urp /\ rbuf[q][v] \in [Slot -> Pkt \cup {NoPkt}]
      /\ Len(inbox[q][p]) \in Nat
  BY DEF TypeInv, TypeOK, TypeRcv
<1>4. retired[p][q] \in Nat /\ posted[p][q] \in Seq(Seq(Nat \X Nat))
  BY CountsType
<1>5. scntr[p][0] \in Control /\ ControlOK(scntr[p][0])
  BY <1>1 DEF TypeInv, TypeOK, TypeSnd
<1> QED BY ONLY <1>1, <1>2, <1>3, <1>4, <1>5

LEMMA EnginePuts ==
  ASSUME TypeInv, NEW p \in Rank, NEW u \in Control, ControlOK(u),
         NEW v \in Ring, NEW b, NEW done, SendEngine(p, 0, u, v, b, done)
  PROVE  /\ scntr'[p][0] = EngineResult(u)
         /\ \A x \in Rank : x # p => scntr'[x] = scntr[x] /\ wire'[x] = wire[x]
         /\ wire'[p][u.dst] = IF Puts(u) THEN Append(wire[p][u.dst], PutOp(p, 0, u, v))
                              ELSE wire[p][u.dst]
<1>1. 0 \in SndCntr
  BY ConstAssumption DEF SndCntr
<1> QED BY <1>1, EngineEffect, ZenonT(40)

(* A run of the engine on a ring of its own.                               *)
LEMMA EngineStream ==
  ASSUME FifoIInv, NEW p \in Rank, NEW u \in Control, ControlOK(u),
         scntr[p][0].state # "FREE", u.dst = scntr[p][0].dst, u.dst \in Rank,
         u.state # "FREE", NEW v \in Ring, NEW b, NEW done,
         SendEngine(p, 0, u, v, b, done), UNCHANGED <<rbuf, rcntr, inbox>>,
         \A r \in Rank : r # p => /\ egrmgt'[r] = egrmgt[r] /\ rcvrst'[r] = rcvrst[r]
                                  /\ posted'[r] = posted[r],
         \A r, x \in Rank : Numbers(posted[r][x])',
         NEW msgs \in Seq(Seq(Nat \X Nat)), msgs = posted'[p][u.dst],
         Holds(u, retired[p][u.dst], msgs),
         \A x \in Rank : Owner(p, x)' <=> x = u.dst,
         egrmgt'[p][u.dst].index = v,
         Owner(p, u.dst) => egrmgt[p][u.dst].index = v,
         InFlight(p, v, u.recvidx, wire[p][u.dst]),
         Landed(p, u.recvidx - Len(wire[p][u.dst]),
                rcntr[u.dst][v], rbuf[u.dst][v], rcvrst'[p][0]),
         Passing(u, retired[p][u.dst], wire[p][u.dst], rbuf[u.dst][v],
                 rcvrst'[p][0], rcntr[u.dst][v], Len(inbox[u.dst][p]), msgs)
  PROVE  StreamInv'
<1>0. TypeInv /\ OneControl /\ StreamInv
  BY DEF FifoIInv, RingIInv
<1>1. PICK d \in Rank : d = u.dst
  OBVIOUS
<1> DEFINE ops == wire[p][d]
           urp == rcntr[d][v]
           ring == rbuf[d][v]
           c == rcvrst'[p][0]
           n == Len(inbox[d][p])
           r == retired[p][d]
           w == EngineResult(u)
           r2 == IF Retires(u) THEN r + 1 ELSE r
           ops2 == IF Puts(u) THEN Append(ops, PutOp(p, 0, u, v)) ELSE ops
<1>2. ops \in Seq(Op) /\ urp \in Urp /\ r \in Nat /\ 0 \in SndCntr
  BY <1>0, StreamTypes, Zenon
<1>3. u.recvidx \in Nat /\ u.recvidx <= COM_RBUF_SIZE
  BY RecvidxType, Zenon
<1>4. /\ scntr'[p][0] = w /\ wire'[p][d] = ops2
      /\ \A x \in Rank : x # p => scntr'[x] = scntr[x] /\ wire'[x] = wire[x]
  <2>1. /\ scntr'[p][0] = EngineResult(u)
        /\ \A x \in Rank : x # p => scntr'[x] = scntr[x] /\ wire'[x] = wire[x]
        /\ wire'[p][u.dst] = IF Puts(u) THEN Append(wire[p][u.dst], PutOp(p, 0, u, v))
                             ELSE wire[p][u.dst]
    BY <1>0, EnginePuts, Zenon
  <2> QED BY <1>1, <2>1, Zenon
<1>5. /\ retired'[p][d] = r2
      /\ \A x \in Rank : x # d => retired'[p][x] = retired[p][x]
  <2>1. /\ \A y, x \in Rank : (y # p \/ x # u.dst) => retired'[y][x] = retired[y][x]
        /\ retired'[p][u.dst] = IF Retires(u) THEN retired[p][u.dst] + 1
                                ELSE retired[p][u.dst]
    BY <1>0, EngineRetires, Zenon
  <2> QED BY <1>1, <2>1, Zenon
<1>6. \A x \in Rank : x # p => retired'[x] = retired[x]
  BY <1>0, Zenon DEF SendEngine, TypeInv, TypeOK, TypeSnd
<1> HIDE DEF ops, urp, ring, c, n, r, w, r2, ops2
<1>7. /\ InFlight(p, v, u.recvidx, ops) /\ Landed(p, u.recvidx - Len(ops), urp, ring, c)
      /\ Passing(u, r, ops, ring, c, urp, n, msgs) /\ Holds(u, r, msgs)
  BY <1>1, Zenon DEF ops, urp, ring, c, n, r
<1>8. ReadTo(urp, c) \in Nat /\ ReadTo(urp, c) <= u.recvidx - Len(ops)
  BY <1>2, <1>3, <1>7, Place
<1>9. Passing(w, r2, ops2, ring, c, urp, n, msgs)
  BY <1>2, <1>7, <1>8, EnginePassing, Zenon DEF w, r2, ops2
<1>10. Stream(p, d)'
  BY <1>1, <1>4, <1>5, <1>9, Zenon DEF Stream, urp, ring, c, n
<1>11. \A x \in Rank : x # d => ~ Owner(p, x)
  BY <1>0, <1>1, OwnerFacts, Zenon
<1>12. /\ Owner(p, d)' /\ (Owner(p, d) => egrmgt'[p][d].index = egrmgt[p][d].index)
       /\ \A x \in Rank : x # d => ~ Owner(p, x)'
  BY <1>1, Zenon
<1>13. \A x \in Rank : x # p =>
         /\ scntr'[x] = scntr[x] /\ wire'[x] = wire[x] /\ egrmgt'[x] = egrmgt[x]
         /\ rcvrst'[x] = rcvrst[x] /\ posted'[x] = posted[x]
         /\ retired'[x] = retired[x]
  BY <1>4, <1>6, Zenon
<1> QED BY <1>0, <1>5, <1>10, <1>11, <1>12, <1>13, SenderStream, ZenonT(40)

(* The stream of a control that has its ring, and where the ring's packets *)
(* are.                                                                    *)
LEMMA OwnedStream ==
  ASSUME FifoIInv, NEW p \in Rank, NEW q \in Rank, Owner(p, q)
  PROVE  LET u == scntr[p][0]
             v == egrmgt[p][q].index
         IN  /\ u.dst = q /\ v \in Ring /\ u.state \notin {"FREE", "REQ_ROOM"}
             /\ InFlight(p, v, u.recvidx, wire[p][q])
             /\ Landed(p, u.recvidx - Len(wire[p][q]),
                       rcntr[q][v], rbuf[q][v], rcvrst[p][0])
             /\ Passing(u, retired[p][q], wire[p][q], rbuf[q][v], rcvrst[p][0],
                        rcntr[q][v], Len(inbox[q][p]), posted[p][q])
             /\ Holds(u, retired[p][q], posted[p][q])
             /\ \A x \in Rank : Owner(p, x) <=> x = q
<1>1. RingIInv /\ WindowIInv /\ StreamInv
  BY DEF FifoIInv, RingIInv, WindowIInv
<1>2. /\ 0 \in SndCntr /\ q = scntr[p][0].dst /\ egrmgt[p][q].index \in Ring
      /\ scntr[p][0].state \notin {"FREE", "REQ_ROOM"}
      /\ \A x \in Rank : Owner(p, x) => x = scntr[p][0].dst
  BY <1>1, OwnerFacts DEF RingIInv
<1>3. OwnedRing(p, q) /\ Stream(p, q)
  BY <1>1 DEF RingIInv, Rings, StreamInv
<1>4. Holds(scntr[p][0], retired[p][q], posted[p][q])
  BY <1>1, <1>2, HoldFacts
<1> QED BY <1>2, <1>3, <1>4 DEF OwnedRing, Stream

(* utf_sendengine_prep and MRQ_TYPE_LCL_PUT                                *)
LEMMA CompletionStream ==
  ASSUME FifoIInv, NEW p \in Rank, NEW k \in SndCntr, NEW b, NEW done,
         SendEngine(p, k, scntr[p][k], egrmgt[p][scntr[p][k].dst].index, b, done),
         UNCHANGED <<rbuf, rcntr, inbox, egrmgt, rcvrst, posted>>
  PROVE  StreamInv'
<1> DEFINE u == scntr[p][k]
           d == u.dst
           v == egrmgt[p][d].index
<1>1. TypeInv /\ OneControl /\ StreamInv
  BY DEF FifoIInv, RingIInv
<1>2. u \in Control /\ ControlOK(u)
  BY <1>1 DEF TypeInv, TypeOK, TypeSnd
<1>3. /\ k # 0 => u.state = "FREE"
      /\ u.state \notin {"FREE", "NONE", "REQ_ROOM"} =>
           k = 0 /\ u.dst \in Rank /\ Owner(p, u.dst)
  BY <1>1, OwnerFacts
<1>4. CASE u.state \in {"FREE", "NONE", "REQ_ROOM"}
  <2>1. EngineResult(u) = u /\ ~ Puts(u) /\ ~ Retires(u)
    BY <1>4, EngineIdle DEF Retires
  <2>2. scntr' = [scntr EXCEPT ![p][k] = u] /\ wire' = wire /\ retired' = retired
    BY <2>1 DEF SendEngine
  <2>3. scntr' = scntr
    BY <1>1, <1>2, <2>2 DEF TypeInv, TypeOK, TypeSnd
  <2>4. \A r, x \in Rank : (Owner(r, x)' <=> Owner(r, x)) /\ SameStream(r, x)
    BY <2>2, <2>3 DEF Owner, SameStream
  <2> QED BY <1>1, <2>2, <2>4, StreamKept
<1>5. CASE u.state \notin {"FREE", "NONE", "REQ_ROOM"}
  <2>1. k = 0 /\ d \in Rank /\ Owner(p, d)
    BY <1>3, <1>5
  <2>2. PICK msgs \in Seq(Seq(Nat \X Nat)) : msgs = posted'[p][d]
    <3>1. posted[p][d] \in Seq(Seq(Nat \X Nat))
      BY <1>1, <2>1, CountsType, Zenon
    <3>2. posted'[p][d] = posted[p][d]
      OBVIOUS
    <3> QED BY ONLY <3>1, <3>2, Zenon
  <2>3. /\ v \in Ring /\ InFlight(p, v, u.recvidx, wire[p][d])
        /\ Landed(p, u.recvidx - Len(wire[p][d]), rcntr[d][v], rbuf[d][v], rcvrst'[p][0])
        /\ Passing(u, retired[p][d], wire[p][d], rbuf[d][v], rcvrst'[p][0],
                   rcntr[d][v], Len(inbox[d][p]), msgs)
        /\ Holds(u, retired[p][d], msgs)
        /\ \A x \in Rank : Owner(p, x) <=> x = d
    BY <2>1, <2>2, OwnedStream, Zenon
  <2>4. \A x \in Rank : Owner(p, x)' <=> x = d
    BY <2>3 DEF Owner
  <2>5. \A r, x \in Rank : Numbers(posted[r][x])'
    BY <1>1 DEF StreamInv
  <2>6. /\ SendEngine(p, 0, u, v, b, done) /\ u = scntr[p][0]
        /\ egrmgt'[p][d].index = v /\ egrmgt[p][d].index = v
        /\ \A r \in Rank : /\ egrmgt'[r] = egrmgt[r] /\ rcvrst'[r] = rcvrst[r]
                           /\ posted'[r] = posted[r]
    BY <2>1
  <2> HIDE DEF u, v
  <2> QED BY <1>2, <1>5, <2>1, <2>2, <2>3, <2>4, <2>5, <2>6, EngineStream
<1> QED BY <1>4, <1>5

(* utf_scntr_alloc: a control that was free had no ring                    *)
LEMMA SendAllocStream ==
  ASSUME FifoIInv, NEW p \in Rank, SendAlloc(p)
  PROVE  StreamInv'
<1>1. TypeInv /\ OneControl /\ StreamInv
  BY DEF FifoIInv, RingIInv
<1>2. UNCHANGED <<rbuf, rcntr, inbox, egrmgt, rcvrst, posted, retired, wire>>
  BY DEF SendAlloc, rcvVars, mrqVars, netVars
<1>3. \A r, x \in Rank : Owner(r, x) => scntr'[r][0] = scntr[r][0]
  <2> SUFFICES ASSUME NEW r \in Rank, NEW x \in Rank, Owner(r, x)
               PROVE  scntr'[r][0] = scntr[r][0]
    OBVIOUS
  <2>1. 0 \in SndCntr /\ scntr[r][0].state # "FREE"
    BY <1>1, OwnerFacts
  <2>2. \/ scntr' = scntr
        \/ \E k \in FreeControls(p) : scntr' = [scntr EXCEPT ![p][k] =
             [@ EXCEPT !.state = "NONE", !.dst = pend[p].dst, !.mient = 0]]
    BY DEF SendAlloc
  <2>3. CASE scntr' = scntr
    BY <2>3
  <2>4. ASSUME NEW k \in FreeControls(p), scntr' = [scntr EXCEPT ![p][k] =
                 [@ EXCEPT !.state = "NONE", !.dst = pend[p].dst, !.mient = 0]]
        PROVE  scntr'[r][0] = scntr[r][0]
    <3>1. k \in SndCntr /\ scntr[p][k].state = "FREE"
      BY <2>4 DEF FreeControls
    <3>2. r # p \/ k # 0
      BY <2>1, <3>1
    <3> QED BY <1>1, <2>1, <2>4, <3>1, <3>2 DEF TypeInv, TypeOK, TypeSnd
  <2> QED BY <2>2, <2>3, <2>4
<1>4. \A r, x \in Rank : /\ Owner(r, x)' <=> Owner(r, x)
                         /\ Owner(r, x) => SameStream(r, x)
  BY <1>2, <1>3 DEF Owner, SameStream
<1> QED BY <1>1, <1>2, <1>4, StreamKept

LEMMA NumbersMore ==
  ASSUME NEW msgs \in Seq(Seq(Nat \X Nat)), Numbers(msgs), NEW type
  PROVE  Numbers(Append(msgs, Message(Len(msgs) + 1, type)))
<1> DEFINE m == Message(Len(msgs) + 1, type)
           more == Append(msgs, m)
<1>1. \A c \in DOMAIN m : m[c] = <<Len(msgs) + 1, c>>
  BY DEF Message
<1> HIDE DEF m
<1>2. /\ DOMAIN more = 1 .. Len(msgs) + 1 /\ more[Len(msgs) + 1] = m
      /\ \A n \in 1 .. Len(msgs) : more[n] = msgs[n] /\ n \in DOMAIN msgs
  OBVIOUS
<1>3. \A n \in 1 .. Len(msgs) + 1 : n = Len(msgs) + 1 \/ n \in 1 .. Len(msgs)
  OBVIOUS
<1> HIDE DEF more
<1>4. Numbers(more)
  BY <1>1, <1>2, <1>3 DEF Numbers
<1> QED BY <1>4 DEF more, m

(* A control halfway through a message has the message.                    *)
LEMMA HalfwayHolds ==
  ASSUME NEW u, NEW r \in Nat, NEW msgs \in Seq(Seq(Nat \X Nat)),
         Holds(u, r, msgs), Halfway(u)
  PROVE  r < Len(msgs)
BY ConstAssumption DEF Holds, Halfway

(* utf_send                                                                *)
LEMMA SendPostStream ==
  ASSUME FifoIInv, NEW p \in Rank, SendPost(p)
  PROVE  StreamInv'
<1> DEFINE d == pend[p].dst
           k == rank2scntridx[p][d]
           u == scntr[p][k]
           f == Filled(p, u)
           g == [f EXCEPT !.state = "HAS_ROOM"]
           h == [f EXCEPT !.state = "REQ_ROOM"]
           msgs == posted[p][d]
           m == Message(Len(msgs) + 1, pend[p].type)
           r == retired[p][d]
<1>1. RingIInv /\ WindowIInv /\ TypeInv /\ OneControl /\ StreamInv
  BY DEF FifoIInv, RingIInv, WindowIInv
<1>2. /\ d \in Rank /\ k \in SndCntr
      /\ u \in Control /\ ControlOK(u)
      /\ f \in Control /\ f.dst = u.dst /\ f.state = u.state /\ f.recvidx = u.recvidx
      /\ u.state = "NONE" =>
           /\ g \in Control /\ ControlOK(g) /\ g.dst = u.dst
           /\ g.state = "HAS_ROOM" /\ g.recvidx = u.recvidx
  BY <1>1, PostFacts
<1>3. f.ostate = u.ostate /\ f.usize = u.usize
  <2> HIDE DEF u
  <2> QED BY <1>2 DEF Filled, Control
<1>4. /\ u.state # "FREE" /\ u.dst = d
      /\ posted' \in [Rank -> [Rank -> Seq(Seq(Nat \X Nat))]]
      /\ posted'[p][d] = Append(msgs, m)
      /\ \A x, y \in Rank : (x # p \/ y # d) => posted'[x][y] = posted[x][y]
  BY <1>1, PostedNext
<1>5. k = 0
  BY <1>1, <1>2, <1>4, Zenon DEF OneControl
<1>6. msgs \in Seq(Seq(Nat \X Nat)) /\ r \in Nat /\ Len(inbox[d][p]) \in Nat
  <2>1. PICK q \in Rank : q = d
    BY <1>2
  <2>2. posted[p][q] \in Seq(Seq(Nat \X Nat)) /\ retired[p][q] \in Nat
    BY <1>1, CountsType
  <2>3. Len(inbox[q][p]) \in Nat
    BY <1>1 DEF TypeInv, TypeOK, TypeRcv
  <2> QED BY <2>1, <2>2, <2>3
<1>7. \A x, y \in Rank : Numbers(posted[x][y])'
  <2>1. Numbers(msgs)
    BY <1>1, <1>2 DEF StreamInv
  <2>2. Numbers(Append(msgs, m))
    BY <1>6, <2>1, NumbersMore
  <2> HIDE DEF msgs, m, d
  <2> QED BY <1>1, <1>4, <2>2, ZenonT(40) DEF StreamInv
<1>8. UNCHANGED <<rbuf, rcntr, inbox, rcvrst>>
  BY Zenon DEF SendPost, rcvVars, mrqVars
<1>9. \A x \in Rank : x # p => posted'[x] = posted[x]
  BY <1>1, Zenon DEF SendPost, TypeInv, TypeOK, TypeApp
<1>10. \A q \in Rank : Owner(p, q) => q = d
  BY <1>1, <1>4, <1>5, OwnerFacts
<1>11. /\ \A q, x \in Rank : egrmgt'[q][x].sndok = egrmgt[q][x].sndok
       /\ \A q, x \in Rank : egrmgt'[q][x].index = egrmgt[q][x].index
       /\ \A q \in Rank : q # p => egrmgt'[q] = egrmgt[q]
  BY <1>1, PostRooms
<1>12. \A q \in Rank : Owner(p, q)' <=> Owner(p, q)
  BY <1>11 DEF Owner
<1>13. PICK e \in Rank : e = d
  BY <1>2
<1>14. ASSUME NEW w \in Control, scntr' = [scntr EXCEPT ![p][k] = w],
              wire' = wire, retired' = retired,
              Owner(p, e) => w = f
       PROVE  StreamInv'
  <2>1. /\ scntr'[p][0] = w
        /\ \A q \in Rank : q # p => scntr'[q] = scntr[q]
    BY <1>1, <1>2, <1>5, <1>14 DEF TypeInv, TypeOK, TypeSnd
  <2>2. CASE Owner(p, e)
    <3> DEFINE v == egrmgt[p][e].index
    <3>1. /\ Passing(u, r, wire[p][e], rbuf[e][v], rcvrst[p][0], rcntr[e][v],
                     Len(inbox[e][p]), msgs)
          /\ Holds(u, r, msgs) /\ v \in Ring
          /\ InFlight(p, v, u.recvidx, wire[p][e])
          /\ Landed(p, u.recvidx - Len(wire[p][e]),
                    rcntr[e][v], rbuf[e][v], rcvrst[p][0])
      BY <1>5, <1>13, <2>2, OwnedStream
    <3>2. wire[p][e] \in Seq(Op) /\ rcntr[e][v] \in Urp
      BY <1>1, <3>1, StreamTypes, Zenon
    <3>3. ReadTo(rcntr[e][v], rcvrst[p][0]) \in Nat
      BY <1>2, <3>1, <3>2, Place, RecvidxType, Zenon
    <3>4. /\ f.recvidx = u.recvidx /\ f.usize = u.usize
          /\ f.state = u.state /\ f.ostate = u.ostate
      BY <1>2, <1>3, ZenonT(40)
    <3>5. NextPyld(f, r) = NextPyld(u, r) /\ (Halfway(f) <=> Halfway(u))
      BY <3>4, SamePyld
    <3>6. u \in Control /\ r \in Nat /\ msgs \in Seq(Seq(Nat \X Nat))
          /\ Len(inbox[e][p]) \in Nat
      BY <1>2, <1>6, <1>13
    <3> HIDE DEF u, f, r, msgs, m, v
    <3>7. Passing(f, r, wire[p][e], rbuf[e][v], rcvrst[p][0], rcntr[e][v],
                  Len(inbox[e][p]), Append(msgs, m))
      BY <3>1, <3>3, <3>4, <3>5, <3>6, HalfwayHolds, PostPassing
    <3>8. Stream(p, e)'
      BY <1>4, <1>8, <1>11, <1>13, <1>14, <2>1, <2>2, <3>7 DEF Stream, r, v
    <3> QED
      BY <1>1, <1>7, <1>8, <1>9, <1>10, <1>11, <1>12, <1>13, <1>14, <2>1, <2>2,
         <3>8, SenderStream
  <2>3. CASE ~ Owner(p, e)
    <3>1. inbox'[e][p] = <<>> /\ retired'[p][e] = 0
      BY <1>1, <1>8, <1>14, <2>3 DEF StreamInv
    <3> HIDE DEF f
    <3> QED
      BY <1>1, <1>7, <1>8, <1>9, <1>10, <1>11, <1>12, <1>13, <1>14, <2>1, <2>3,
         <3>1, SenderStream
  <2> QED BY <2>2, <2>3
<1>15. CASE u.state # "NONE"
  <2>1. scntr' = [scntr EXCEPT ![p][k] = f] /\ wire' = wire /\ retired' = retired
    BY <1>15 DEF SendPost
  <2> HIDE DEF f, k
  <2> QED BY <1>2, <1>14, <2>1
<1>16. CASE u.state = "NONE" /\ ~ egrmgt[p][d].sndok
  <2>1. scntr' = [scntr EXCEPT ![p][k] = h] /\ wire' = wire /\ retired' = retired
    BY <1>16 DEF SendPost
  <2>2. h \in Control
    BY <1>1, <1>16, PostFacts
  <2>3. ~ Owner(p, e)
    BY <1>13, <1>16 DEF Owner
  <2> HIDE DEF h, f, k
  <2> QED BY <1>14, <2>1, <2>2, <2>3
<1>17. CASE u.state = "NONE" /\ egrmgt[p][d].sndok
  <2> DEFINE v == egrmgt[p][e].index
  <2>1. PICK b : SendEngine(p, k, g, egrmgt[p][d].index, b, FALSE)
    BY <1>17 DEF SendPost
  <2>2. Owner(p, e)
    BY <1>13, <1>17 DEF Owner
  <2>3. /\ Passing(u, r, wire[p][e], rbuf[e][v], rcvrst[p][0], rcntr[e][v],
                   Len(inbox[e][p]), msgs)
        /\ Holds(u, r, msgs) /\ v \in Ring
        /\ InFlight(p, v, u.recvidx, wire[p][e])
        /\ Landed(p, u.recvidx - Len(wire[p][e]),
                  rcntr[e][v], rbuf[e][v], rcvrst[p][0])
    BY <1>5, <1>13, <2>2, OwnedStream
  <2>4. wire[p][e] \in Seq(Op) /\ rcntr[e][v] \in Urp
    BY <1>1, <2>3, StreamTypes, Zenon
  <2>5. ReadTo(rcntr[e][v], rcvrst[p][0]) \in Nat
    BY <1>2, <2>3, <2>4, Place, RecvidxType, Zenon
  <2>6. /\ g.recvidx = u.recvidx /\ g.usize = u.usize /\ g.state = "HAS_ROOM"
        /\ g.micur = f.micur /\ g.mient = f.mient /\ g.mi = f.mi
    <3>1. g.recvidx = u.recvidx /\ g.state = "HAS_ROOM"
      BY <1>2, <1>17
    <3> HIDE DEF f
    <3> QED BY <1>2, <1>3, <3>1, Zenon DEF Control
  <2>7. NextPyld(g, r) = NextPyld(u, r) /\ (Halfway(g) <=> Halfway(u))
    <3>1. u.state = "NONE"
      BY <1>17
    <3> HIDE DEF u, g
    <3> QED BY <2>6, <3>1, SamePyld
  <2>8. u \in Control /\ r \in Nat /\ msgs \in Seq(Seq(Nat \X Nat))
        /\ Len(inbox[e][p]) \in Nat
    BY <1>2, <1>6, <1>13, Zenon
  <2>9. Holds(g, r, posted'[p][d])
    <3> HIDE DEF f, g, u
    <3> QED BY <1>1, <2>6, PostedNext, Zenon DEF f, u
  <2>10. PICK more \in Seq(Seq(Nat \X Nat)) : more = posted'[p][e]
    BY <1>4, ZenonT(40)
  <2>11. g \in Control /\ ControlOK(g) /\ g.dst = e /\ g.state # "FREE"
         /\ scntr[p][0].state # "FREE" /\ g.dst = scntr[p][0].dst
    BY <1>2, <1>4, <1>5, <1>13, <1>17
  <2>12. SendEngine(p, 0, g, v, b, FALSE)
    BY <1>5, <1>13, <2>1
  <2> HIDE DEF u, f, g, r, msgs, m, v
  <2>13. Passing(g, r, wire[p][e], rbuf[e][v], rcvrst[p][0], rcntr[e][v],
                 Len(inbox[e][p]), more)
    <3>1. more = Append(msgs, m)
      BY <1>4, <1>13, <2>10
    <3> QED BY <2>3, <2>5, <2>6, <2>7, <2>8, <3>1, HalfwayHolds, PostPassing
  <2>14. /\ Holds(g, retired[p][e], more)
         /\ InFlight(p, v, g.recvidx, wire[p][e])
         /\ Landed(p, g.recvidx - Len(wire[p][e]), rcntr[e][v], rbuf[e][v], rcvrst'[p][0])
         /\ Passing(g, retired[p][e], wire[p][e], rbuf[e][v], rcvrst'[p][0],
                    rcntr[e][v], Len(inbox[e][p]), more)
    BY <1>8, <1>13, <2>3, <2>6, <2>9, <2>10, <2>13 DEF r
  <2>15. /\ \A x \in Rank : Owner(p, x)' <=> x = e
         /\ egrmgt'[p][e].index = v /\ egrmgt[p][e].index = v
    BY <1>10, <1>11, <1>12, <1>13, <2>2 DEF v
  <2>16. \A x \in Rank : x # p => /\ egrmgt'[x] = egrmgt[x] /\ rcvrst'[x] = rcvrst[x]
                                  /\ posted'[x] = posted[x]
    BY <1>8, <1>9, <1>11
  <2> QED
    BY <1>7, <1>8, <2>3, <2>10, <2>11, <2>12, <2>14, <2>15, <2>16, EngineStream, Zenon
<1> QED BY <1>15, <1>16, <1>17

(* MRQ_TYPE_LCL_ARMW: the stream begins.                                   *)
LEMMA MrqLclArmwStream ==
  ASSUME FifoIInv, NEW p \in Rank, NEW k \in SndCntr, NEW val, MrqLclArmw(p, k, val)
  PROVE  StreamInv'
<1> DEFINE u == scntr[p][k]
           g == [u EXCEPT !.state = "HAS_ROOM", !.recvidx = 0]
<1>1. RingIInv /\ WindowIInv /\ TypeInv /\ StreamInv
  BY DEF FifoIInv, RingIInv, WindowIInv
<1>2. UNCHANGED <<rbuf, rcntr, inbox, rcvrst, posted>>
  BY DEF MrqLclArmw, rcvVars, appVars
<1>3. CASE u.state = "REQ_ROOM" /\ val >= 0
  <2> DEFINE e == u.dst
  <2>1. /\ k = 0 /\ e \in Rank /\ val \in Ring
        /\ g \in Control /\ ControlOK(g) /\ g.dst = e
        /\ g.state = "HAS_ROOM" /\ g.recvidx = 0
        /\ \A q \in Rank : ~ Owner(p, q)
        /\ rcvrst[p][0] = 0 /\ wire[p][e] = <<>>
        /\ \A r \in Rank : ~ (Owner(r, e) /\ egrmgt[r][e].index = val)
        /\ Pristine(rcntr[e][val], rbuf[e][val])
        /\ InFlight(p, val, 0, <<>>)
        /\ Landed(p, 0, rcntr[e][val], rbuf[e][val], 0)
        /\ egrmgt'[p][e].index = val
        /\ \A r \in Rank : r # p => egrmgt'[r] = egrmgt[r]
        /\ \A q \in Rank : Owner(p, q)' <=> q = e
        /\ \E b : SendEngine(p, 0, g, val, b, FALSE)
    BY <1>1, <1>3, ArmwGrant, Zenon
  <2>2. PICK d \in Rank : d = u.dst
    BY <2>1, Zenon
  <2>3. PICK b : SendEngine(p, 0, g, val, b, FALSE)
    BY <2>1
  <2>4. PICK msgs \in Seq(Seq(Nat \X Nat)) : msgs = posted[p][d]
    BY <1>1, CountsType
  <2>5. inbox[d][p] = <<>> /\ retired[p][d] = 0
    BY <1>1, <2>1, <2>2, Zenon DEF StreamInv
  <2>6. rcntr[d][val].state = "R_NONE" /\ rcntr[d][val].asm = <<>>
    BY <1>1, <2>1, <2>2, ZenonT(40) DEF StreamInv
  <2>7. Holds(g, retired[p][d], msgs)
    <3>1. Holds(u, retired[p][d], msgs)
      BY <1>1, <1>3, <2>2, <2>4, HoldFacts
    <3>2. u \in Control
      BY <1>1 DEF TypeInv, TypeOK, TypeSnd
    <3>3. g.mi = u.mi /\ g.micur = u.micur /\ g.mient = u.mient
      BY <3>2 DEF Control
    <3> HIDE DEF g, u
    <3> QED BY <1>3, <2>1, <2>2, <3>1, <3>3, HoldsKept
  <2>8. scntr[p][0].state # "FREE" /\ scntr[p][0].dst = d
    BY <1>3, <2>1, <2>2
  <2> HIDE DEF g, u
  <2>9. Passing(g, 0, <<>>, rbuf[d][val], 0, rcntr[d][val], 0, msgs)
    <3>1. ReadTo(rcntr[d][val], 0) = 0
      BY <2>1, <2>2 DEF ReadTo, Pristine
    <3>2. Assembling(rcntr[d][val], 0, msgs) /\ Counted(g, 0, msgs)
      BY <2>1, <2>2, <2>6 DEF Assembling, Counted, Halfway
    <3>3. NextPyld(g, 0) = <<0 + 1, Len(rcntr[d][val].asm) + 1>>
      BY <2>1, <2>2, <2>6 DEF NextPyld, Halfway, Retires
    <3> QED BY <2>1, <2>2, <3>1, <3>2, <3>3, EmptyPassing
  <2>10. /\ InFlight(p, val, g.recvidx, wire[p][g.dst])
         /\ Landed(p, g.recvidx - Len(wire[p][g.dst]), rcntr[g.dst][val],
                   rbuf[g.dst][val], rcvrst'[p][0])
         /\ Passing(g, retired[p][g.dst], wire[p][g.dst], rbuf[g.dst][val],
                    rcvrst'[p][0], rcntr[g.dst][val], Len(inbox[g.dst][p]), msgs)
         /\ Holds(g, retired[p][g.dst], msgs) /\ msgs = posted'[p][g.dst]
    BY <1>2, <2>1, <2>2, <2>4, <2>5, <2>7, <2>9
  <2>11. \A r, x \in Rank : Numbers(posted[r][x])'
    BY <1>1, <1>2 DEF StreamInv
  <2>12. /\ \A r \in Rank : r # p => /\ egrmgt'[r] = egrmgt[r] /\ rcvrst'[r] = rcvrst[r]
                                     /\ posted'[r] = posted[r]
         /\ \A q \in Rank : Owner(p, q)' <=> q = g.dst
         /\ egrmgt'[p][g.dst].index = val /\ ~ Owner(p, g.dst)
         /\ g \in Control /\ ControlOK(g) /\ g.state # "FREE" /\ g.dst \in Rank
         /\ scntr[p][0].state # "FREE" /\ g.dst = scntr[p][0].dst
    BY <1>2, <2>1, <2>2, <2>8
  <2> QED BY <1>2, <2>1, <2>2, <2>3, <2>10, <2>11, <2>12, EngineStream, Zenon
<1>4. CASE ~ (u.state = "REQ_ROOM" /\ val >= 0)
  <2>1. UNCHANGED <<egrmgt, scntr, retired, wire>>
    BY <1>4 DEF MrqLclArmw
  <2>2. \A r, x \in Rank : (Owner(r, x)' <=> Owner(r, x)) /\ SameStream(r, x)
    BY <1>2, <2>1 DEF Owner, SameStream
  <2> QED BY <1>1, <1>2, <2>1, <2>2, StreamKept
<1> QED BY <1>3, <1>4

(* EVT_RMT_RECVRST: the stream goes on at the ring's first slot.           *)
LEMMA MrqRecvResetStream ==
  ASSUME FifoIInv, NEW p \in Rank, NEW k \in SndCntr, MrqRecvReset(p, k)
  PROVE  StreamInv'
<1> DEFINE o == scntr[p][k]
           u == [o EXCEPT !.recvidx = 0]
           g == [u EXCEPT !.state = u.ostate]
<1>1. RingIInv /\ WindowIInv /\ TypeInv /\ OneControl /\ StreamInv
  BY DEF FifoIInv, RingIInv, WindowIInv
<1>2. UNCHANGED <<rbuf, rcntr, inbox, posted, egrmgt>>
  BY DEF MrqRecvReset, rcvVars, appVars
<1>3. /\ u \in Control /\ ControlOK(u) /\ u.dst = o.dst
      /\ u.state = o.state /\ u.recvidx = 0
      /\ u.state = "WAIT_BUFREADY" =>
           /\ g \in Control /\ ControlOK(g) /\ g.dst = o.dst
           /\ g.state \in {"HAS_ROOM", "DO_EGR"} /\ g.recvidx = 0
  BY <1>1, ResetFacts, ZenonT(40)
<1>4. o \in Control
  BY <1>1 DEF TypeInv, TypeOK, TypeSnd
<1>5. /\ u.ostate = o.ostate /\ u.usize = o.usize /\ g.usize = o.usize
      /\ g.state = o.ostate
      /\ u.mi = o.mi /\ u.micur = o.micur /\ u.mient = o.mient
      /\ g.mi = o.mi /\ g.micur = o.micur /\ g.mient = o.mient
  BY <1>4 DEF Control
<1>6. /\ rcvrst[p][k] > 0 /\ rcvrst'[p][k] = rcvrst[p][k] - 1
      /\ \A j \in SndCntr : j # k => rcvrst'[p][j] = rcvrst[p][j]
      /\ \A r \in Rank : r # p => rcvrst'[r] = rcvrst[r]
  BY <1>1 DEF MrqRecvReset, TypeInv, TypeOK, TypeMrq
<1>7. \A r, x \in Rank : Owner(r, x)' <=> Owner(r, x)
  BY <1>2 DEF Owner
<1>8. \A r, x \in Rank : Numbers(posted[r][x])'
  BY <1>1, <1>2 DEF StreamInv
<1>9. ASSUME u.state # "WAIT_BUFREADY"
      PROVE  /\ scntr'[p][k] = u /\ wire' = wire /\ retired' = retired
             /\ \A j \in SndCntr : j # k => scntr'[p][j] = scntr[p][j]
             /\ \A r \in Rank : r # p => scntr'[r] = scntr[r]
  <2>1. scntr' = [scntr EXCEPT ![p][k] = u] /\ wire' = wire /\ retired' = retired
    BY <1>9 DEF MrqRecvReset
  <2> HIDE DEF u
  <2> QED BY <1>1, <2>1 DEF TypeInv, TypeOK, TypeSnd
<1>10. CASE k # 0
  <2>1. 0 \in SndCntr /\ o.state = "FREE"
    BY <1>1, <1>10, OwnerFacts
  <2>2. /\ wire' = wire /\ retired' = retired
        /\ \A r \in Rank : scntr'[r][0] = scntr[r][0] /\ rcvrst'[r][0] = rcvrst[r][0]
    <3> HIDE DEF u
    <3> QED BY <1>3, <1>6, <1>9, <1>10, <2>1
  <2>3. \A r, x \in Rank : SameStream(r, x)
    BY <1>2, <2>2 DEF SameStream
  <2> QED BY <1>1, <1>2, <1>7, <2>2, <2>3, StreamKept
<1>11. CASE k = 0
  <2>1. PICK d \in Rank : d = scntr[p][0].dst
    BY <1>1, <1>6, <1>11, ResetRing
  <2> DEFINE v == egrmgt[p][d].index
             r == retired[p][d]
             n == Len(inbox[d][p])
             ring == rbuf[d][v]
             urp == rcntr[d][v]
  <2>2. /\ Owner(p, d) /\ v \in Ring /\ o.state # "FREE" /\ o.dst = d
        /\ \A q \in Rank : Owner(p, q) => q = d
        /\ rcvrst[p][0] = 1 /\ wire[p][d] = <<>>
        /\ o.recvidx = COM_RBUF_SIZE /\ urp.recvidx = 0
        /\ InFlight(p, v, 0, <<>>) /\ Landed(p, 0, urp, ring, 0)
    BY <1>1, <1>6, <1>11, <2>1, ResetRing
  <2>3. PICK msgs \in Seq(Seq(Nat \X Nat)) : msgs = posted[p][d]
    BY <1>1, CountsType
  <2>4. rcvrst'[p][0] = 0
    BY <1>6, <1>11, <2>2
  <2>5. /\ Passing(o, r, wire[p][d], ring, 1, urp, n, msgs)
        /\ Holds(o, r, msgs)
    BY <1>11, <2>2, <2>3, OwnedStream
  <2>6. ASSUME NEW w, w.recvidx = 0, w.usize = o.usize,
               \/ w.state = o.state /\ w.ostate = o.ostate
               \/ /\ o.state = "WAIT_BUFREADY" /\ o.ostate \in {"HAS_ROOM", "DO_EGR"}
                  /\ w.state = o.ostate
        PROVE  Passing(w, r, wire[p][d], ring, 0, urp, n, msgs)
    <3>1. NextPyld(w, r) = NextPyld(o, r) /\ (Halfway(w) <=> Halfway(o))
      BY <2>6, SamePyld
    <3> HIDE DEF o, v, r, n, ring, urp
    <3> QED BY <1>4, <2>2, <2>5, <2>6, <3>1, ResetPassing
  <2>7. CASE u.state = "WAIT_BUFREADY"
    <3>1. PICK b : SendEngine(p, 0, g, v, b, FALSE)
      <4>1. PICK b : SendEngine(p, k, g, egrmgt[p][u.dst].index, b, FALSE)
        BY <2>7 DEF MrqRecvReset
      <4> QED BY <1>3, <1>11, <2>2, <4>1
    <3>2. Passing(g, r, wire[p][d], ring, 0, urp, n, msgs)
      <4> HIDE DEF g, u
      <4> QED BY <1>3, <1>5, <2>6, <2>7
    <3>3. Holds(g, r, msgs)
      <4> HIDE DEF g, u
      <4> QED BY <1>3, <1>5, <2>5, <2>7, HoldsKept
    <3>4. /\ g \in Control /\ ControlOK(g) /\ g.dst = d /\ g.state # "FREE"
          /\ g.recvidx = 0
          /\ scntr[p][0].state # "FREE" /\ g.dst = scntr[p][0].dst
      <4> HIDE DEF g, u
      <4> QED BY <1>3, <1>11, <2>2, <2>7
    <3> HIDE DEF g, u, o
    <3>5. /\ InFlight(p, v, g.recvidx, wire[p][g.dst])
          /\ Landed(p, g.recvidx - Len(wire[p][g.dst]), rcntr[g.dst][v],
                    rbuf[g.dst][v], rcvrst'[p][0])
          /\ Passing(g, retired[p][g.dst], wire[p][g.dst], rbuf[g.dst][v],
                     rcvrst'[p][0], rcntr[g.dst][v], Len(inbox[g.dst][p]), msgs)
          /\ Holds(g, retired[p][g.dst], msgs) /\ msgs = posted'[p][g.dst]
      <4>1. wire[p][d] = <<>> /\ g.recvidx - Len(wire[p][d]) = 0
        <5>1. Len(wire[p][d]) = 0 /\ g.recvidx = 0
          BY <2>2, <3>4
        <5>2. wire[p][d] = <<>>
          BY <2>2
        <5> QED BY <5>1, <5>2
      <4>2. InFlight(p, v, g.recvidx, wire[p][d])
        BY <2>2, <3>4
      <4>3. Landed(p, g.recvidx - Len(wire[p][d]), urp, ring, rcvrst'[p][0])
        BY <2>2, <2>4, <4>1
      <4>4. /\ Passing(g, r, wire[p][d], ring, rcvrst'[p][0], urp, n, msgs)
            /\ Holds(g, r, msgs) /\ msgs = posted'[p][d]
        BY <1>2, <2>3, <2>4, <3>2, <3>3
      <4> QED BY <3>4, <4>2, <4>3, <4>4
    <3>6. /\ \A x \in Rank : x # p => /\ egrmgt'[x] = egrmgt[x] /\ rcvrst'[x] = rcvrst[x]
                                      /\ posted'[x] = posted[x]
          /\ \A q \in Rank : Owner(p, q)' <=> q = g.dst
          /\ egrmgt'[p][g.dst].index = v /\ egrmgt[p][g.dst].index = v
          /\ g.dst \in Rank
      BY <1>2, <1>6, <1>7, <2>2, <3>4
    <3> HIDE DEF v
    <3> QED BY <1>2, <1>8, <2>2, <3>1, <3>4, <3>5, <3>6, EngineStream, Zenon
  <2>8. CASE u.state # "WAIT_BUFREADY"
    <3>1. Passing(u, r, wire[p][d], ring, 0, urp, n, msgs)
      <4> HIDE DEF u
      <4> QED BY <1>3, <1>5, <2>6
    <3>2. /\ scntr'[p][0] = u /\ wire' = wire /\ retired' = retired
          /\ \A x \in Rank : x # p => scntr'[x] = scntr[x]
      <4> HIDE DEF u
      <4> QED BY <1>9, <1>11, <2>8
    <3> HIDE DEF u
    <3>3. Stream(p, d)'
      BY <1>2, <2>3, <2>4, <3>1, <3>2 DEF Stream
    <3>4. \A x \in Rank : x # p =>
            /\ scntr'[x] = scntr[x] /\ wire'[x] = wire[x] /\ egrmgt'[x] = egrmgt[x]
            /\ rcvrst'[x] = rcvrst[x] /\ posted'[x] = posted[x]
            /\ retired'[x] = retired[x]
      BY <1>2, <1>6, <3>2
    <3>5. \A x \in Rank : x # d =>
            ~ Owner(p, x) /\ ~ Owner(p, x)' /\ retired'[p][x] = retired[p][x]
      BY <1>7, <2>2, <3>2
    <3>6. Owner(p, d)' /\ egrmgt'[p][d].index = egrmgt[p][d].index
      BY <1>2, <1>7, <2>2
    <3> QED BY <1>1, <1>2, <1>8, <3>3, <3>4, <3>5, <3>6, SenderStream
  <2> QED BY <2>7, <2>8
<1> QED BY <1>10, <1>11

-----------------------------------------------------------------------------
(* Steps at a receiver.                                                    *)

(* A step that concerns the stream from p to q only.                       *)
LEMMA ReceiverStream ==
  ASSUME FifoIInv, NEW p \in Rank, NEW q \in Rank, NEW v \in Ring,
         Owner(p, q), egrmgt[p][q].index = v,
         UNCHANGED <<scntr, egrmgt, posted, retired>>,
         \A r, x \in Rank : (r # p \/ x # q) =>
           wire'[r][x] = wire[r][x] /\ inbox'[x][r] = inbox[x][r],
         \A r \in Rank : r # p => rcvrst'[r] = rcvrst[r],
         \A x \in Rank, y \in Ring : (x # q \/ y # v) =>
           rbuf'[x][y] = rbuf[x][y] /\ rcntr'[x][y] = rcntr[x][y],
         Stream(p, q)'
  PROVE  StreamInv'
<1>1. RingIInv /\ StreamInv /\ TypeInv /\ OneControl
  BY DEF FifoIInv, RingIInv
<1>2. \A r, x \in Rank : Owner(r, x)' <=> Owner(r, x)
  BY DEF Owner
<1>3. /\ \A x \in Rank : Owner(p, x) => x = q
      /\ \A r, x \in Rank : Owner(r, x) => egrmgt[r][x].index \in Ring
  BY <1>1, OwnerFacts
<1>4. \A r \in Rank : Owner(r, q) /\ r # p => egrmgt[r][q].index # v
  BY <1>1, OneOwner
<1>5. ASSUME NEW r \in Rank, NEW x \in Rank, r # p \/ x # q, Owner(r, x)
      PROVE  SameStream(r, x)
  <2>1. r # p /\ (x # q \/ egrmgt[r][x].index # v) /\ egrmgt[r][x].index \in Ring
    BY <1>3, <1>4, <1>5
  <2> QED BY <1>5, <2>1 DEF SameStream
<1>6. \A r, x \in Rank : Numbers(posted[r][x])'
  BY <1>1 DEF StreamInv
<1> QED BY <1>1, <1>2, <1>5, <1>6, StreamStep

LEMMA HeadInFlight ==
  \A p, v : \A s \in Nat, ops \in Seq(Op) :
     ops # <<>> /\ InFlight(p, v, s, ops) =>
     Head(ops) \in Op /\ Head(ops).ridx = v /\ Head(ops).slot = s - Len(ops)
<1> SUFFICES ASSUME NEW p, NEW v, NEW s \in Nat, NEW ops \in Seq(Op), ops # <<>>,
                    InFlight(p, v, s, ops)
             PROVE  Head(ops) \in Op /\ Head(ops).ridx = v /\ Head(ops).slot = s - Len(ops)
  OBVIOUS
<1>1. Len(ops) \in Nat \ {0} /\ Head(ops) = ops[1] /\ ops[1] \in Op
  OBVIOUS
<1>2. 1 \in 1 .. Len(ops)
  BY <1>1
<1>3. ops[1].ridx = v /\ ops[1].slot = s - Len(ops) + 1 - 1
  BY <1>2 DEF InFlight
<1> QED BY <1>1, <1>3

(* The network's step: a packet in flight becomes one in its slot.         *)
LEMMA NetPutStream ==
  ASSUME FifoIInv, NEW p \in Rank, NEW q \in Rank, NetPut(p, q)
  PROVE  StreamInv'
<1> DEFINE v == egrmgt[p][q].index
           u == scntr[p][0]
           ops == wire[p][q]
           op == Head(ops)
           ring == rbuf[q][v]
           urp == rcntr[q][v]
           c == rcvrst[p][0]
<1>1. RingIInv /\ TypeInv /\ Rings
  BY DEF FifoIInv, RingIInv
<1>2. ops # <<>> /\ Owner(p, q)
  BY <1>1 DEF NetPut, Rings
<1>3. /\ v \in Ring /\ InFlight(p, v, u.recvidx, ops)
      /\ Landed(p, u.recvidx - Len(ops), urp, ring, c)
      /\ Passing(u, retired[p][q], ops, ring, c, urp, Len(inbox[q][p]), posted[p][q])
  BY <1>2, OwnedStream
<1>4. /\ ops \in Seq(Op) /\ urp \in Urp /\ u \in Control
      /\ ring \in [Slot -> Pkt \cup {NoPkt}]
  BY <1>1, <1>3, StreamTypes
<1>5. u.recvidx \in Nat
  BY <1>4, RecvidxType
<1>6. op \in Op /\ op.ridx = v /\ op.slot = u.recvidx - Len(ops)
  <2>1. InFlight(p, v, u.recvidx, ops) /\ ops \in Seq(Op) /\ ops # <<>>
    BY <1>2, <1>3, <1>4
  <2>2. \A s \in Nat, l \in Seq(Op) :
           l # <<>> /\ InFlight(p, v, s, l) =>
           Head(l) \in Op /\ Head(l).ridx = v /\ Head(l).slot = s - Len(l)
    BY HeadInFlight, Zenon
  <2> HIDE DEF u, ops, v
  <2> QED BY <1>5, <2>1, <2>2, Zenon
<1>7. ReadTo(urp, c) \in Nat /\ ReadTo(urp, c) <= u.recvidx - Len(ops)
  <2>1. op.slot \in Nat /\ op.slot < COM_RBUF_SIZE
    BY <1>6, ConstAssumption DEF Op, Slot
  <2>2. urp.recvidx \in Nat
    BY <1>4 DEF Urp, Slot
  <2> HIDE DEF u, ops, v, op, urp, c, ring
  <2>3. c = 0 /\ urp.recvidx <= u.recvidx - Len(ops)
    BY <1>3, <1>6, <2>1 DEF Landed
  <2> QED BY <2>2, <2>3 DEF ReadTo
<1>8. /\ wire'[p][q] = Tail(ops)
      /\ \A r, x \in Rank : (r # p \/ x # q) => wire'[r][x] = wire[r][x]
  <2>1. wire' = [wire EXCEPT ![p][q] = Tail(@)]
    BY DEF NetPut
  <2> QED BY <1>1, <2>1 DEF TypeInv, TypeOK, TypeNet
<1>9. /\ rbuf'[q][v] = [ring EXCEPT ![op.slot] = op.pkt]
      /\ \A x \in Rank, y \in Ring : (x # q \/ y # v) => rbuf'[x][y] = rbuf[x][y]
  <2>1. rbuf' = [rbuf EXCEPT ![q][v][op.slot] = op.pkt]
    BY <1>6 DEF NetPut
  <2> HIDE DEF op, v
  <2> QED BY <1>1, <1>3, <2>1 DEF TypeInv, TypeOK, TypeRcv
<1>10. UNCHANGED <<scntr, egrmgt, posted, retired, rcntr, rcvrst, inbox>>
  BY DEF NetPut, sndVars, appVars
<1>11. Passing(u, retired[p][q], Tail(ops), [ring EXCEPT ![op.slot] = op.pkt],
               c, urp, Len(inbox[q][p]), posted[p][q])
  <2> HIDE DEF u, ops, v, urp, c, ring
  <2> QED BY <1>2, <1>3, <1>4, <1>6, <1>7, LandPassing
<1>12. Stream(p, q)'
  <2>1. egrmgt'[p][q].index = v
    BY <1>10
  <2>2. /\ scntr'[p][0] = u /\ retired'[p][q] = retired[p][q] /\ rcvrst'[p][0] = c
        /\ rcntr'[q][v] = urp /\ Len(inbox'[q][p]) = Len(inbox[q][p])
        /\ posted'[p][q] = posted[p][q]
    BY <1>10
  <2>3. wire'[p][q] = Tail(ops) /\ rbuf'[q][v] = [ring EXCEPT ![op.slot] = op.pkt]
    BY <1>8, <1>9, Zenon
  <2> HIDE DEF v, op, u, c, urp, ops, ring
  <2>4. Passing(scntr'[p][0], retired'[p][q], wire'[p][q], rbuf'[q][v], rcvrst'[p][0],
                rcntr'[q][v], Len(inbox'[q][p]), posted'[p][q])
    BY ONLY <1>11, <2>2, <2>3
  <2> QED BY ONLY <2>1, <2>4 DEF Stream
<1> QED BY <1>2, <1>3, <1>8, <1>9, <1>10, <1>12, ReceiverStream

(* utf_progress: the packet that is peeked continues the message that is   *)
(* being received from the ring's owner, and a message that it completes   *)
(* is the next one posted.                                                 *)
LEMMA ScanPktStream ==
  ASSUME FifoIInv, NEW q \in Rank, ScanPkt(q)
  PROVE  /\ StreamInv'
         /\ \/ inbox' = inbox
            \/ \E p \in Rank :
                 /\ Owner(p, q) /\ Len(inbox[q][p]) < Len(posted[p][q])
                 /\ inbox' = [inbox EXCEPT ![q][p] =
                                Append(@, posted[p][q][Len(inbox[q][p]) + 1])]
<1> DEFINE v == scanj[q]
           urp == rcntr[q][v]
           i == urp.recvidx
           pkt == rbuf[q][v][i]
           urp2 == Engulf(urp, pkt)
           full == i + 1 = COM_RBUF_SIZE
<1>1. RingIInv /\ TypeInv /\ StreamInv
  BY DEF FifoIInv, RingIInv
<1>2. /\ v \in Ring /\ urp \in Urp /\ i \in Slot /\ pkt \in Pkt
      /\ urp2 \in Urp /\ urp2.recvidx = i /\ urp2.svcqid = urp.svcqid
      /\ ~ Arrived(rbuf'[q][v][i])
      /\ \A x \in Slot : x # i => rbuf'[q][v][x] = rbuf[q][v][x]
      /\ \A x \in Rank, y \in Ring : (x # q \/ y # v) =>
           rbuf'[x][y] = rbuf[x][y] /\ rcntr'[x][y] = rcntr[x][y]
      /\ \E p \in Rank :
           /\ Owner(p, q) /\ egrmgt[p][q].index = v
           /\ pkt.src = p /\ rcvrst[p][0] = 0
           /\ i < scntr[p][0].recvidx - Len(wire[p][q])
           /\ rcntr'[q][v] = IF full
                             THEN [urp2 EXCEPT !.recvidx = 0, !.svcqid = p]
                             ELSE [urp2 EXCEPT !.recvidx = @ + 1]
           /\ rcvrst'[p][0] = IF full THEN 1 ELSE 0
           /\ \A r \in Rank : r # p => rcvrst'[r] = rcvrst[r]
  BY <1>1, ScanRing, Zenon
<1>3. PICK p \in Rank :
        /\ Owner(p, q) /\ egrmgt[p][q].index = v
        /\ pkt.src = p /\ rcvrst[p][0] = 0
        /\ i < scntr[p][0].recvidx - Len(wire[p][q])
        /\ rcntr'[q][v] = IF full
                          THEN [urp2 EXCEPT !.recvidx = 0, !.svcqid = p]
                          ELSE [urp2 EXCEPT !.recvidx = @ + 1]
        /\ rcvrst'[p][0] = IF full THEN 1 ELSE 0
        /\ \A r \in Rank : r # p => rcvrst'[r] = rcvrst[r]
  BY <1>2
<1> DEFINE u == scntr[p][0]
           n == Len(inbox[q][p])
           msgs == posted[p][q]
           whole == Whole(urp, pkt)
<1>4. /\ Passing(u, retired[p][q], wire[p][q], rbuf[q][v], 0, urp, n, msgs)
      /\ Numbers(msgs)
  <2>1. /\ egrmgt[p][q].index = v /\ Owner(p, q) /\ rcvrst[p][0] = 0
    BY <1>3
  <2>2. Stream(p, q) /\ Numbers(posted[p][q])
    BY <1>1, <2>1 DEF StreamInv
  <2> HIDE DEF v
  <2> QED BY <2>1, <2>2 DEF Stream
<1>5. /\ wire[p][q] \in Seq(Op) /\ u \in Control
      /\ n \in Nat /\ msgs \in Seq(Seq(Nat \X Nat))
  BY <1>1, <1>2, StreamTypes, Zenon
<1>6. /\ UNCHANGED <<scntr, egrmgt, posted, retired, wire>>
      /\ inbox' = IF Completes(urp, pkt)
                  THEN [inbox EXCEPT ![q][p] = Append(@, whole)] ELSE inbox
  BY <1>3 DEF ScanPkt, appVars, sndVars, netVars, Whole
<1>7. /\ rcntr'[q][v].state = urp2.state /\ rcntr'[q][v].asm = urp2.asm
      /\ rcntr'[q][v].size = urp2.size
      /\ ReadTo(rcntr'[q][v], rcvrst'[p][0]) = i + 1
      /\ ReadTo(urp, 0) = i /\ i \in Nat
  <2>1. ReadTo(urp, 0) = i /\ i \in Slot
    <3>1. i \in Slot
      BY <1>2
    <3> HIDE DEF urp
    <3>2. ReadTo(urp, 0) = i
      BY DEF ReadTo
    <3> QED BY <3>1, <3>2
  <2>2. urp2 \in Urp /\ urp2.recvidx = i
    BY <1>2
  <2> HIDE DEF urp2, urp, i
  <2>3. i \in Nat
    BY <2>1 DEF Slot
  <2>4. CASE full
    <3>1. /\ rcntr'[q][v] = [urp2 EXCEPT !.recvidx = 0, !.svcqid = p]
          /\ rcvrst'[p][0] = 1
      BY <1>3, <2>4
    <3> QED BY <2>1, <2>2, <2>3, <2>4, <3>1 DEF Urp, ReadTo
  <2>5. CASE ~ full
    <3>1. /\ rcntr'[q][v] = [urp2 EXCEPT !.recvidx = @ + 1]
          /\ rcvrst'[p][0] = 0
      BY <1>3, <2>5
    <3> QED BY <2>1, <2>2, <2>3, <3>1 DEF Urp, ReadTo
  <2> QED BY <2>4, <2>5
<1>8. /\ Completes(urp, pkt) => n < Len(msgs) /\ whole = msgs[n + 1]
      /\ Passing(u, retired[p][q], wire[p][q], rbuf'[q][v], rcvrst'[p][0],
                 rcntr'[q][v], IF Completes(urp, pkt) THEN n + 1 ELSE n, msgs)
  <2>1. /\ i \in Nat /\ i = ReadTo(urp, 0) /\ i < u.recvidx - Len(wire[p][q])
        /\ rbuf[q][v][i] = pkt
    BY <1>3, <1>7, Zenon
  <2>2. /\ SameBut(rbuf[q][v], rbuf'[q][v], i)
        /\ rcntr'[q][v].state = Engulf(urp, pkt).state
        /\ rcntr'[q][v].asm = Engulf(urp, pkt).asm
        /\ rcntr'[q][v].size = Engulf(urp, pkt).size
        /\ ReadTo(rcntr'[q][v], rcvrst'[p][0]) = i + 1
    BY <1>2, <1>7, Zenon DEF SameBut
  <2>3. urp \in Urp /\ pkt \in Pkt
    BY <1>2
  <2> HIDE DEF u, n, msgs, urp, pkt, urp2, i, v
  <2>4. PICK n2 : n2 = IF Completes(urp, pkt) THEN n + 1 ELSE n
    OBVIOUS
  <2>5. Completes(urp, pkt) => n < Len(msgs) /\ whole = msgs[n + 1]
    <3>1. PICK ring, ops, c, w : /\ ring = rbuf[q][v] /\ ops = wire[p][q]
                                 /\ c = 0 /\ w = retired[p][q]
      OBVIOUS
    <3>2. /\ Passing(u, w, ops, ring, c, urp, n, msgs)
          /\ Numbers(msgs) /\ i = ReadTo(urp, c)
      BY <1>4, <2>1, <3>1
    <3>3. /\ ops \in Seq(Op) /\ u \in Control /\ n \in Nat
          /\ msgs \in Seq(Seq(Nat \X Nat)) /\ urp \in Urp
          /\ i \in Nat /\ i < u.recvidx - Len(ops) /\ ring[i] \in Pkt
      BY <1>5, <2>1, <2>3, <3>1
    <3>4. Completes(urp, ring[i]) => n < Len(msgs) /\ Whole(urp, ring[i]) = msgs[n + 1]
      BY <3>2, <3>3, ReadWhole
    <3> QED BY <2>1, <3>1, <3>4
  <2>6. Passing(u, retired[p][q], wire[p][q], rbuf'[q][v], rcvrst'[p][0],
                rcntr'[q][v], n2, msgs)
    BY <1>4, <1>5, <2>1, <2>2, <2>3, <2>4, ReadPassing
  <2> QED BY <2>4, <2>5, <2>6
<1>9. /\ Len(inbox'[q][p]) = IF Completes(urp, pkt) THEN n + 1 ELSE n
      /\ \A r, x \in Rank : (r # p \/ x # q) => inbox'[x][r] = inbox[x][r]
  <2>1. inbox \in [Rank -> [Rank -> Seq(Seq(Nat \X Nat))]]
    BY <1>1 DEF TypeInv, TypeOK, TypeRcv
  <2>2. urp \in Urp /\ pkt \in Pkt
    BY <1>2
  <2> HIDE DEF urp, pkt
  <2>3. whole \in Seq(Nat \X Nat)
    BY <2>2 DEF Urp, Pkt, Whole
  <2> HIDE DEF whole
  <2> QED BY <1>6, <2>1, <2>3
<1>10. Stream(p, q)'
  <2>1. egrmgt'[p][q].index = v
    BY <1>3, <1>6
  <2> HIDE DEF v, urp, pkt
  <2> QED BY <1>6, <1>8, <1>9, <2>1 DEF Stream
<1>11. StreamInv'
  <2>1. /\ v \in Ring
        /\ \A x \in Rank, y \in Ring : (x # q \/ y # v) =>
             rbuf'[x][y] = rbuf[x][y] /\ rcntr'[x][y] = rcntr[x][y]
    BY <1>2, Zenon
  <2>2. /\ Owner(p, q) /\ egrmgt[p][q].index = v
        /\ \A r \in Rank : r # p => rcvrst'[r] = rcvrst[r]
    BY <1>3, Zenon
  <2>3. \A r, x \in Rank : (r # p \/ x # q) =>
          wire'[r][x] = wire[r][x] /\ inbox'[x][r] = inbox[x][r]
    BY <1>6, <1>9
  <2>4. UNCHANGED <<scntr, egrmgt, posted, retired>>
    BY <1>6
  <2> HIDE DEF v
  <2> QED BY <1>10, <2>1, <2>2, <2>3, <2>4, ReceiverStream
<1>12. CASE Completes(urp, pkt)
  <2> HIDE DEF whole, urp, pkt
  <2> QED BY <1>3, <1>6, <1>8, <1>11, <1>12
<1>13. CASE ~ Completes(urp, pkt)
  BY <1>6, <1>11, <1>13
<1> QED BY <1>12, <1>13

-----------------------------------------------------------------------------
(* The invariant.                                                          *)

(* MRQ_TYPE_LCL_PUT and a completion in the TCQ both run the engine on the *)
(* control they name.                                                      *)
LEMMA CompletionRuns ==
  ASSUME NEW p \in Rank, NEW k \in SndCntr, TcqStep(p, k) \/ MrqLclPut(p, k)
  PROVE  /\ \E b, done :
              SendEngine(p, k, scntr[p][k], egrmgt[p][scntr[p][k].dst].index, b, done)
         /\ UNCHANGED <<rbuf, rcntr, inbox, egrmgt, rcvrst, posted>>
<1> DEFINE run(b, done) ==
      SendEngine(p, k, scntr[p][k], egrmgt[p][scntr[p][k].dst].index, b, done)
<1>1. CASE TcqStep(p, k)
  <2>1. \E b \in {None} \cup tcq[p] : run(b, TRUE)
    BY <1>1 DEF TcqStep
  <2>2. UNCHANGED <<rbuf, rcntr, inbox, egrmgt, rcvrst, posted>>
    BY <1>1 DEF TcqStep, appVars, rcvVars, mrqVars
  <2> QED BY <2>1, <2>2
<1>2. CASE MrqLclPut(p, k)
  <2>1. \E b \in {None} \cup tcq[p] : run(b, FALSE)
    BY <1>2 DEF MrqLclPut
  <2>2. UNCHANGED <<rbuf, rcntr, inbox, egrmgt, rcvrst, posted>>
    BY <1>2 DEF MrqLclPut, appVars, rcvVars, mrqVars
  <2> QED BY <2>1, <2>2
<1> QED BY <1>1, <1>2

LEMMA StreamNext ==
  ASSUME FifoIInv, [Next]_vars
  PROVE  StreamInv'
<1> DEFINE Kept == UNCHANGED <<scntr, egrmgt, rcvrst, wire, rbuf, rcntr, inbox,
                               posted, retired>>
           Goal == StreamInv'
<1>1. Kept => Goal
  <2> SUFFICES ASSUME Kept PROVE Goal
    OBVIOUS
  <2>1. \A r, x \in Rank : (Owner(r, x)' <=> Owner(r, x)) /\ SameStream(r, x)
    BY DEF Owner, SameStream
  <2> QED BY <2>1, StreamKept DEF FifoIInv
<1>2. ASSUME UNCHANGED vars PROVE Goal
  BY <1>1, <1>2 DEF vars, appVars, sndVars, mrqVars, netVars, rcvVars
<1>3. ASSUME NEW p \in Rank,
             \/ ProgressCall(p) \/ SendRetry(p) \/ TcqEnd(p)
             \/ ScanNone(p) \/ ScanEnd(p) \/ MrqNone(p)
      PROVE  Goal
  <2>1. Kept
    BY <1>3 DEF ProgressCall, SendRetry, TcqEnd, ScanNone, ScanEnd, MrqNone,
                appVars, sndVars, mrqVars, netVars, rcvVars
  <2> QED BY <1>1, <2>1
<1>4. ASSUME NEW p \in Rank, NEW d \in Dests[p], NEW type \in Types,
             SendCall(p, d, type)
      PROVE  Goal
  <2>1. Kept
    BY <1>4 DEF SendCall, sndVars, mrqVars, netVars, rcvVars
  <2> QED BY <1>1, <2>1
<1>5. ASSUME NEW p \in Rank, SendAlloc(p) \/ SendPost(p) \/ ScanPkt(p) PROVE Goal
  BY <1>5, SendAllocStream, SendPostStream, ScanPktStream
<1>6. ASSUME NEW p \in Rank, NEW k \in SndCntr, TcqStep(p, k) \/ MrqLclPut(p, k)
      PROVE  Goal
  BY <1>6, CompletionRuns, CompletionStream
<1>7. ASSUME NEW p \in Rank, MrqNotice(p) PROVE Goal
  <2>1. ASSUME NEW k \in SndCntr, NEW val, MrqLclArmw(p, k, val) PROVE Goal
    BY <2>1, MrqLclArmwStream
  <2>2. ASSUME NEW k \in SndCntr, MrqRecvReset(p, k) PROVE Goal
    BY <2>2, MrqRecvResetStream
  <2> HIDE DEF Goal
  <2> QED BY <1>6, <1>7, <2>1, <2>2 DEF MrqNotice
<1>8. ASSUME Net PROVE Goal
  <2>1. ASSUME NEW p \in Rank, NEW q \in Rank, NetPut(p, q) PROVE Goal
    BY <2>1, NetPutStream
  <2>2. ASSUME NEW p \in Rank, NEW q \in Rank, NEW k \in SndCntr, NetAdd(p, k, q)
        PROVE  Goal
    <3>1. Kept
      BY <2>2 DEF NetAdd, appVars, sndVars, rcvVars
    <3> QED BY <1>1, <3>1
  <2> HIDE DEF Goal
  <2> QED BY <1>8, <2>1, <2>2 DEF Net
<1> HIDE DEF Goal
<1>9. Goal
  BY <1>2, <1>3, <1>4, <1>5, <1>6, <1>7, <1>8 DEF Next, Library
<1> QED BY <1>9 DEF Goal

LEMMA StreamInit == Init => StreamInv
<1> SUFFICES ASSUME Init PROVE StreamInv
  OBVIOUS
<1>1. /\ \A p, q \in Rank : posted[p][q] = <<>> /\ retired[p][q] = 0
      /\ \A p, q \in Rank : inbox[q][p] = <<>> /\ ~ egrmgt[p][q].sndok
      /\ \A q \in Rank, v \in Ring : rcntr[q][v] = NoRing
  BY DEF Init
<1>2. \A p, q \in Rank : Numbers(posted[p][q])
  BY <1>1 DEF Numbers
<1>3. \A p, q \in Rank : ~ Owner(p, q)
  BY <1>1 DEF Owner
<1>4. \A q \in Rank, v \in Ring : rcntr[q][v].state = "R_NONE" /\ rcntr[q][v].asm = <<>>
  BY <1>1 DEF NoRing
<1> QED BY <1>1, <1>2, <1>3, <1>4 DEF StreamInv

LEMMA FifoInit == Init => FifoIInv
BY TypeInit, RoomInit, RingInit, WindowInit, StreamInit DEF FifoIInv, RingIInv

LEMMA FifoNext ==
  ASSUME Solo, FifoIInv, [Next]_vars
  PROVE  FifoIInv'
<1>1. RingIInv /\ WindowIInv /\ TypeInv /\ ControlInv /\ RoomInv
  BY DEF FifoIInv, RingIInv, WindowIInv
<1>2. OneControl' /\ Rings'
  BY <1>1, RingNext
<1>3. TypeInv' /\ ControlInv' /\ RoomInv'
  BY <1>1, TypeNext, RoomNext
<1>4. WindowInv' /\ StreamInv'
  BY <1>1, WindowNext, StreamNext
<1> QED BY <1>2, <1>3, <1>4 DEF FifoIInv, RingIInv

(* Of every reachable state: the posted messages that have not retired are *)
(* in their control's slots in order, the packets in a ring and on the way *)
(* to it follow each other without a gap, and what utf_recvengine has put  *)
(* together is the beginning of the next message - when every rank has one *)
(* control, or one destination (ResetAddressed says why).                  *)
THEOREM PipeHolds ==
  ASSUME Solo
  PROVE  Spec => []PipeInv
<1>1. FifoIInv /\ [Next]_vars => FifoIInv'
  BY FifoNext
<1>2. FifoIInv => PipeInv
  BY RingsSafe DEF FifoIInv, PipeInv, RingInv, RingIInv
<1> QED BY FifoInit, <1>1, <1>2, PTL DEF Spec

-----------------------------------------------------------------------------
(* The channel.                                                            *)

(* A control retires a message that was posted.                            *)
LEMMA RetireStep ==
  ASSUME FifoIInv, NEW p \in Rank, NEW k \in SndCntr, NEW v, NEW b, NEW done,
         SendEngine(p, k, scntr[p][k], v, b, done),
         UNCHANGED <<posted, inbox>>
  PROVE  \/ UNCHANGED Channel!chanVars
         \/ \E q \in Rank : q \in Dests[p] /\ Channel!Retire(p, q)
<1> DEFINE u == scntr[p][k]
           d == u.dst
<1>1. WindowIInv /\ OneControl
  BY DEF FifoIInv, RingIInv, WindowIInv
<1>2. CASE Retires(u)
  <2>1. u.state # "FREE"
    BY <1>2 DEF Retires
  <2>2. u \in Control /\ ControlOK(u) /\ d \in Rank
        /\ Holds(u, retired[p][d], posted[p][d])
    BY <1>1, <2>1, HoldFacts
  <2>3. d \in Dests[p]
    BY <1>1, <2>1 DEF OneControl
  <2>4. retired[p][d] \in Nat /\ posted[p][d] \in Seq(Seq(Nat \X Nat))
    BY <1>1, <2>2, CountsType DEF WindowIInv
  <2>5. retired' = [retired EXCEPT ![p][d] = @ + 1]
    BY <1>2 DEF SendEngine
  <2> HIDE DEF u
  <2>6. retired[p][d] < Len(posted[p][d])
    BY <1>2, <2>1, <2>2, <2>4, EngineHolds
  <2> QED BY <2>2, <2>3, <2>5, <2>6 DEF Channel!Retire
<1>3. CASE ~ Retires(u)
  BY <1>3 DEF SendEngine, Channel!chanVars
<1> QED BY <1>2, <1>3

(* utf_send posts a message that the application may send.                 *)
LEMMA PostStep ==
  ASSUME FifoIInv, NEW p \in Rank, SendPost(p)
  PROVE  \E q \in Rank : q \in Dests[p] /\ Channel!Post(p, q)
<1> DEFINE d == pend[p].dst
           k == rank2scntridx[p][d]
           f == Filled(p, scntr[p][k])
           g == [f EXCEPT !.state = "HAS_ROOM"]
           m == Message(Len(posted[p][d]) + 1, pend[p].type)
<1>1. TypeInv /\ CallsAdmitted
  BY DEF FifoIInv, RingIInv, WindowIInv, WindowInv
<1>2. d \in Rank /\ scntr[p][k] \in Control
  BY <1>1, PostFacts
<1>3. d \in Dests[p] /\ pend[p].type \in Types /\ Len(posted[p][d]) < MaxMsg
  BY <1>1, <1>2 DEF CallsAdmitted, Rank, None
<1>4. m \in Messages
  <2>1. Len(posted[p][d]) + 1 \in 1 .. MaxMsg
    <3>1. Len(posted[p][d]) \in Nat
      BY <1>1, <1>2, CountsType
    <3> HIDE DEF d
    <3> QED BY <1>3, <3>1, ConstAssumption
  <2> HIDE DEF d
  <2> QED BY <1>3, <2>1 DEF Messages
<1>5. posted' = [posted EXCEPT ![p][d] = Append(@, m)] /\ UNCHANGED inbox
  BY DEF SendPost, rcvVars
<1>6. retired' = retired
  <2>1. \/ UNCHANGED retired
        \/ \E b : SendEngine(p, k, g, egrmgt[p][d].index, b, FALSE)
    BY DEF SendPost
  <2>2. ~ Retires(g)
    <3>1. g.state = "HAS_ROOM"
      BY <1>2 DEF Filled, Control
    <3> HIDE DEF g
    <3> QED BY <3>1 DEF Retires
  <2> HIDE DEF g
  <2> QED BY <2>1, <2>2 DEF SendEngine
<1> HIDE DEF m, d
<1> QED BY <1>2, <1>3, <1>4, <1>5, <1>6 DEF Channel!Post

(* Every step of the library and of the interconnect is a step of the      *)
(* channel, or none.                                                       *)
LEMMA ChannelNext ==
  ASSUME FifoIInv, [Next]_vars
  PROVE  [Channel!ChanNext]_(Channel!chanVars)
<1> DEFINE Same == UNCHANGED Channel!chanVars
           Pairs == {pq \in Rank \X Rank : pq[2] \in Dests[pq[1]]}
           Goal == Same \/ Channel!ChanNext
<1>1. ASSUME NEW p \in Rank, NEW q \in Rank, q \in Dests[p],
             Channel!Post(p, q) \/ Channel!Deliver(p, q) \/ Channel!Retire(p, q)
      PROVE  Goal
  <2>1. <<p, q>> \in Pairs /\ <<p, q>>[1] = p /\ <<p, q>>[2] = q
    BY <1>1
  <2> QED BY <1>1, <2>1 DEF Channel!ChanNext
<1>2. ASSUME UNCHANGED <<posted, retired, inbox>> PROVE Goal
  BY <1>2 DEF Channel!chanVars
<1>3. ASSUME UNCHANGED vars PROVE Goal
  BY <1>2, <1>3 DEF vars, appVars, sndVars, rcvVars
<1>4. ASSUME NEW p \in Rank,
             \/ ProgressCall(p) \/ SendRetry(p) \/ TcqEnd(p) \/ SendAlloc(p)
             \/ ScanNone(p) \/ ScanEnd(p) \/ MrqNone(p)
      PROVE  Goal
  <2>1. UNCHANGED <<posted, retired, inbox>>
    BY <1>4 DEF ProgressCall, SendRetry, TcqEnd, SendAlloc, ScanNone, ScanEnd, MrqNone,
                appVars, sndVars, rcvVars
  <2> QED BY <1>2, <2>1
<1>5. ASSUME NEW p \in Rank, NEW d \in Dests[p], NEW type \in Types,
             SendCall(p, d, type)
      PROVE  Goal
  <2>1. UNCHANGED <<posted, retired, inbox>>
    BY <1>5 DEF SendCall, sndVars, rcvVars
  <2> QED BY <1>2, <2>1
<1>6. ASSUME NEW p \in Rank, SendPost(p) PROVE Goal
  <2> HIDE DEF Goal
  <2> QED BY <1>1, <1>6, PostStep
<1>7. ASSUME NEW q \in Rank, ScanPkt(q) PROVE Goal
  <2>1. UNCHANGED <<posted, retired>>
    BY <1>7 DEF ScanPkt, appVars, sndVars
  <2>2. CASE inbox' = inbox
    BY <1>2, <2>1, <2>2
  <2>3. CASE inbox' # inbox
    <3>1. PICK p \in Rank :
            /\ Owner(p, q) /\ Len(inbox[q][p]) < Len(posted[p][q])
            /\ inbox' = [inbox EXCEPT ![q][p] =
                           Append(@, posted[p][q][Len(inbox[q][p]) + 1])]
      BY <1>7, <2>3, ScanPktStream
    <3>2. q \in Dests[p]
      <4>1. OneControl /\ 0 \in SndCntr
        BY ConstAssumption DEF FifoIInv, RingIInv, SndCntr
      <4> QED BY <3>1, <4>1 DEF OneControl
    <3>3. Channel!Deliver(p, q)
      BY <2>1, <3>1 DEF Channel!Deliver
    <3> HIDE DEF Goal
    <3> QED BY <1>1, <3>2, <3>3
  <2> QED BY <2>2, <2>3
<1>8. ASSUME NEW p \in Rank, NEW k \in SndCntr, TcqStep(p, k) \/ MrqLclPut(p, k)
      PROVE  Goal
  <2>1. PICK b, done :
          SendEngine(p, k, scntr[p][k], egrmgt[p][scntr[p][k].dst].index, b, done)
    BY <1>8, CompletionRuns
  <2>2. UNCHANGED <<posted, inbox>>
    BY <1>8, CompletionRuns
  <2>3. Same \/ \E q \in Rank : q \in Dests[p] /\ Channel!Retire(p, q)
    BY <2>1, <2>2, RetireStep
  <2>4. Same => Goal
    OBVIOUS
  <2> HIDE DEF Goal, Same
  <2> QED BY <1>1, <2>3, <2>4
<1>9. ASSUME NEW p \in Rank, NEW k \in SndCntr,
             (\E val : MrqLclArmw(p, k, val)) \/ MrqRecvReset(p, k)
      PROVE  Goal
  <2>1. TypeInv
    BY DEF FifoIInv, RingIInv
  <2>2. UNCHANGED <<posted, inbox>>
    BY <1>9 DEF MrqLclArmw, MrqRecvReset, appVars, rcvVars
  <2>3. ASSUME NEW g, NEW v, NEW b, SendEngine(p, k, g, v, b, FALSE),
               g.state \in {"HAS_ROOM", "DO_EGR"}
        PROVE  retired' = retired
    BY <2>3 DEF SendEngine, Retires
  <2>4. ASSUME NEW val, MrqLclArmw(p, k, val) PROVE retired' = retired
    <3> DEFINE u == scntr[p][k]
               g == [u EXCEPT !.state = "HAS_ROOM", !.recvidx = 0]
    <3>1. CASE u.state = "REQ_ROOM" /\ val >= 0
      <4>1. g.state = "HAS_ROOM"
        BY <2>1, <3>1, ArmwFacts
      <4>2. \E b : SendEngine(p, k, g, val, b, FALSE)
        BY <2>4, <3>1 DEF MrqLclArmw
      <4> HIDE DEF g
      <4> QED BY <2>3, <4>1, <4>2
    <3>2. CASE ~ (u.state = "REQ_ROOM" /\ val >= 0)
      BY <2>4, <3>2 DEF MrqLclArmw
    <3> QED BY <3>1, <3>2
  <2>5. ASSUME MrqRecvReset(p, k) PROVE retired' = retired
    <3> DEFINE u == [scntr[p][k] EXCEPT !.recvidx = 0]
               g == [u EXCEPT !.state = u.ostate]
    <3>1. CASE u.state = "WAIT_BUFREADY"
      <4>1. g.state \in {"HAS_ROOM", "DO_EGR"}
        BY <2>1, <3>1, ResetFacts
      <4>2. \E b : SendEngine(p, k, g, egrmgt[p][u.dst].index, b, FALSE)
        BY <2>5, <3>1 DEF MrqRecvReset
      <4> HIDE DEF g
      <4> QED BY <2>3, <4>1, <4>2
    <3>2. CASE u.state # "WAIT_BUFREADY"
      BY <2>5, <3>2 DEF MrqRecvReset
    <3> QED BY <3>1, <3>2
  <2>6. retired' = retired
    BY <1>9, <2>4, <2>5
  <2> QED BY <1>2, <2>2, <2>6
<1>10. ASSUME Net PROVE Goal
  <2>1. UNCHANGED <<posted, retired, inbox>>
    BY <1>10 DEF Net, NetPut, NetAdd, appVars, sndVars, rcvVars
  <2> QED BY <1>2, <2>1
<1> HIDE DEF Goal
<1>11. ASSUME NEW p \in Rank, MrqNotice(p) PROVE Goal
  BY <1>8, <1>9, <1>11 DEF MrqNotice
<1>12. Goal
  BY <1>3, <1>4, <1>5, <1>6, <1>7, <1>8, <1>10, <1>11 DEF Next, Library
<1> QED BY <1>12 DEF Goal

(* utf_send keeps its promise: between every two ranks whole messages      *)
(* arrive in the order they were posted, none lost, none twice, and a slot *)
(* is released only for a message that was posted, whatever the order of   *)
(* puts, completions, notices and ring resets - when every rank has one    *)
(* control, or one destination.                                            *)
THEOREM ChannelImplemented ==
  ASSUME Solo
  PROVE  Spec => FifoSafe
<1>1. Init => Channel!ChanInit
  BY DEF Init, Channel!ChanInit
<1>2. FifoIInv /\ [Next]_vars => FifoIInv'
  BY FifoNext
<1>3. FifoIInv /\ [Next]_vars => [Channel!ChanNext]_(Channel!chanVars)
  BY ChannelNext
<1> QED BY FifoInit, <1>1, <1>2, <1>3, PTL DEF Spec, FifoSafe, Channel!ChanSafety

=============================================================================
