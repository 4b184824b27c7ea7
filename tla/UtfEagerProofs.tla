--------------------------- MODULE UtfEagerProofs ---------------------------
(***************************************************************************)
(* Types of UtfEager, for any number of ranks, controls, entries, ring     *)
(* slots and packets: TypeInv is inductive, so TypeOK is invariant.  One   *)
(* lemma per operator of the send engine, one per action, and TypeNext     *)
(* puts them together.  Then the rooms: RoomInv is inductive with          *)
(* ControlInv, so no ring is given to two senders.                         *)
(***************************************************************************)
EXTENDS UtfEagerInv, TLAPS

-----------------------------------------------------------------------------
(* Every kind of message has at least one packet (minfo_setup).            *)
LEMMA NPktType == ASSUME NEW t PROVE NPkt(t) \in Nat \ {0}
BY ConstAssumption DEF NPkt

(* Label next_entry of utf_sendengine: the entry is cleared, micur moves   *)
(* on, and the control, its destination and its place in the ring stay     *)
(* well formed.                                                            *)
LEMMA NextEntryType ==
  ASSUME NEW u \in Control
  PROVE  /\ NextEntry(u) \in Control
         /\ NextEntry(u).dst = u.dst
         /\ NextEntry(u).recvidx = u.recvidx
         /\ NextEntry(u).state \in {"NONE", "HAS_ROOM"}
<1> DEFINE idx == (u.micur + 1) % COM_SCNTR_MINF_SZ
<1>1. idx \in Minf /\ 0 \in Minf
  BY ConstAssumption DEF Control, Minf
<1>2. NoEntry \in Entry
  BY DEF NoEntry, Entry
<1> DEFINE v == [u EXCEPT !.mi[u.micur] = NoEntry]
<1>3. v \in Control /\ v.dst = u.dst /\ v.recvidx = u.recvidx
  BY <1>2 DEF Control
<1> HIDE DEF idx, v
<1>4. NextEntry(u) = IF idx = u.mient
                     THEN [v EXCEPT !.micur = 0, !.mient = 0, !.state = "NONE"]
                     ELSE [v EXCEPT !.micur = idx, !.state = "HAS_ROOM"]
  BY DEF NextEntry, idx, v
<1> QED
  BY <1>1, <1>3, <1>4, ZenonT(40) DEF Control, SState

(* S_REQ_RDVR: the control that has learnt of its ring is well formed and  *)
(* may send.                                                               *)
LEMMA PreparedType ==
  ASSUME NEW u \in Control, ControlOK(u)
  PROVE  /\ Prepared(u) \in Control
         /\ Prepared(u).dst = u.dst
         /\ Prepared(u).recvidx = u.recvidx
         /\ ControlOK(Prepared(u))
         /\ u.state # "FREE" => Prepared(u).state # "FREE"
         /\ u.state = "FREE" => Prepared(u).state = "FREE"
<1>1. CASE Retires(u)
  BY <1>1, NextEntryType DEF Prepared, Retires, ControlOK
<1>2. CASE ~ Retires(u)
  BY <1>2 DEF Prepared
<1> QED
  BY <1>1, <1>2

(* S_HAS_ROOM and S_DO_EGR: after a packet the control is well formed,     *)
(* sends on, is done or waits for a reset of the ring.                     *)
LEMMA TransmitType ==
  ASSUME NEW v \in Control, ControlOK(v), Sending(v)
  PROVE  /\ Transmit(v) \in Control
         /\ Transmit(v).dst = v.dst
         /\ ControlOK(Transmit(v))
         /\ Transmit(v).state # "FREE"
         /\ HasSlot(v) => /\ Transmit(v).recvidx = v.recvidx + 1
                          /\ v.recvidx \in Slot
         /\ ~ HasSlot(v) => Transmit(v).recvidx = v.recvidx
<1> DEFINE sent == IF v.state = "HAS_ROOM" THEN 1 ELSE v.usize + 1
           st == IF v.mi[v.micur].cntrtype = "RENDEZOUS" THEN "REQ_RDVR"
                 ELSE IF sent = NPkt(v.mi[v.micur].cntrtype) THEN "DONE_EGR"
                 ELSE "DO_EGR"
<1>1. sent \in Nat
  BY DEF Control
<1>2. st \in {"REQ_RDVR", "DONE_EGR", "DO_EGR"}
  OBVIOUS
<1>3. Transmit(v) = IF ~ HasSlot(v)
                    THEN [v EXCEPT !.ostate = v.state, !.state = "WAIT_BUFREADY"]
                    ELSE [v EXCEPT !.recvidx = @ + 1, !.usize = sent, !.state = st]
  BY DEF Transmit
<1>4. v.recvidx \in 0 .. COM_RBUF_SIZE /\ COM_RBUF_SIZE \in Nat
  BY ConstAssumption DEF Control
<1> HIDE DEF sent, st
<1>5. CASE ~ HasSlot(v)
  BY <1>3, <1>5 DEF Control, ControlOK, Sending, SState
<1>6. CASE HasSlot(v)
  <2>1. v.recvidx + 1 \in 0 .. COM_RBUF_SIZE /\ v.recvidx \in Slot
    BY <1>4, <1>6 DEF HasSlot, Slot
  <2>2. Transmit(v) = [v EXCEPT !.recvidx = v.recvidx + 1, !.usize = sent, !.state = st]
    BY <1>3, <1>6
  <2> QED
    BY <1>1, <1>2, <1>6, <2>1, <2>2 DEF Control, ControlOK, Sending, SState
<1> QED
  BY <1>5, <1>6

(* One pass of utf_sendengine keeps a control well formed and its          *)
(* destination.                                                            *)
LEMMA EngineType ==
  ASSUME NEW u \in Control, ControlOK(u)
  PROVE  /\ EngineResult(u) \in Control
         /\ EngineResult(u).dst = u.dst
         /\ ControlOK(EngineResult(u))
         /\ u.state # "FREE" => EngineResult(u).state # "FREE"
         /\ Puts(u) => /\ EngineResult(u).recvidx = u.recvidx + 1
                       /\ u.recvidx \in Slot
                       /\ u.state # "FREE"
                       /\ u.dst \in Rank
         /\ ~ Puts(u) => EngineResult(u).recvidx = u.recvidx
<1> DEFINE v == Prepared(u)
<1>1. /\ v \in Control /\ v.dst = u.dst /\ v.recvidx = u.recvidx
      /\ ControlOK(v) /\ (u.state # "FREE" => v.state # "FREE")
      /\ (u.state = "FREE" => v.state = "FREE")
  BY PreparedType
<1>2. EngineResult(u) = IF Sending(v) /\ ~ EngineFault(u) THEN Transmit(v) ELSE v
  BY DEF EngineResult
<1>3. Puts(u) <=> Sending(v) /\ HasSlot(v) /\ ~ EngineFault(u)
  BY DEF Puts
<1> HIDE DEF v
<1>4. CASE Sending(v) /\ ~ EngineFault(u)
  <2>1. v.state # "FREE"
    BY <1>4 DEF Sending
  <2> QED
    BY <1>1, <1>2, <1>3, <1>4, <2>1, TransmitType DEF ControlOK
<1>5. CASE ~ (Sending(v) /\ ~ EngineFault(u))
  BY <1>1, <1>2, <1>3, <1>5
<1> QED
  BY <1>4, <1>5

(* A put goes to a slot of the ring, which is where calc_recvstadd is      *)
(* needed: there is a slot left.                                           *)
LEMMA PutOpType ==
  ASSUME NEW p \in Rank, NEW k \in SndCntr, NEW u \in Control, ControlOK(u),
         NEW ridx \in Ring, Puts(u)
  PROVE  /\ PutOp(p, k, u, ridx) \in Op
         /\ PutOp(p, k, u, ridx).ridx = ridx
         /\ PutOp(p, k, u, ridx).slot = u.recvidx
         /\ PutOp(p, k, u, ridx).edata = k
         /\ PutOp(p, k, u, ridx).pkt.src = p
         /\ PutOp(p, k, u, ridx).pkt.sidx = 0
<1> DEFINE v == Prepared(u)
           e == v.mi[v.micur]
           n == EngineResult(u).usize
<1>1. v \in Control /\ v.recvidx = u.recvidx /\ u.recvidx \in Slot
  BY PreparedType, EngineType
<1>2. e \in Entry /\ e.cntrtype \in MsgType
  <2>1. e \in Entry
    BY <1>1 DEF Control
  <2>2. e.cntrtype # "NONE"
    BY DEF Puts, EngineFault
  <2> QED
    BY <2>1, <2>2 DEF Entry
<1>3. n \in Nat
  BY EngineType DEF Control
<1>4. PutOp(p, k, u, ridx) =
        [ridx |-> ridx, slot |-> v.recvidx, edata |-> k, type |-> e.cntrtype,
         pkt |-> [src |-> p, sidx |-> 0, size |-> NPkt(e.cntrtype),
                  pyld |-> <<e.seq, n>>]]
  BY DEF PutOp, PutType, Packet, HdrSidx
<1>5. NPkt(e.cntrtype) \in Nat \ {0}
  BY NPktType
<1>6. 0 \in SndCntr
  BY ConstAssumption DEF SndCntr
<1> HIDE DEF v, e, n
<1>7. <<e.seq, n>> \in Nat \X Nat
  BY <1>2, <1>3 DEF Entry
<1>8. [src |-> p, sidx |-> 0, size |-> NPkt(e.cntrtype), pyld |-> <<e.seq, n>>]
        \in Pkt
  BY <1>5, <1>6, <1>7 DEF Pkt
<1> QED
  BY <1>1, <1>2, <1>4, <1>8 DEF Op

(* utf_sendengine with what it hands to the interconnect keeps the types   *)
(* of the send side and of the network.                                    *)
LEMMA SendEngineType ==
  ASSUME TypeInv, NEW p \in Rank, NEW k \in SndCntr, NEW u \in Control,
         ControlOK(u), NEW ridx, Puts(u) => ridx \in Ring,
         NEW b \in {None} \cup tcq[p], NEW done \in BOOLEAN,
         SendEngine(p, k, u, ridx, b, done)
  PROVE  /\ scntr' \in [Rank -> [SndCntr -> Control]]
         /\ \A q \in Rank, j \in SndCntr : ControlOK(scntr'[q][j])
         /\ wire' \in [Rank -> [Rank -> Seq(Op)]]
         /\ tcq' \in [Rank -> SUBSET SndCntr]
         /\ tcq_count' \in [Rank -> Int]
         /\ retired' \in [Rank -> [Rank -> Nat]]
<1>1. EngineResult(u) \in Control /\ ControlOK(EngineResult(u))
  BY EngineType
<1>2. scntr' = [scntr EXCEPT ![p][k] = EngineResult(u)]
  BY DEF SendEngine
<1>3. scntr' \in [Rank -> [SndCntr -> Control]]
  BY <1>1, <1>2 DEF TypeInv, TypeOK, TypeSnd
<1>4. \A q \in Rank, j \in SndCntr : ControlOK(scntr'[q][j])
  <2>1. \A q \in Rank, j \in SndCntr :
          scntr'[q][j] = IF q = p /\ j = k THEN EngineResult(u) ELSE scntr[q][j]
    BY <1>2 DEF TypeInv, TypeOK, TypeSnd
  <2> QED
    BY <1>1, <2>1 DEF TypeInv
<1>5. wire' \in [Rank -> [Rank -> Seq(Op)]]
  <2>1. CASE Puts(u)
    <3> DEFINE op == PutOp(p, k, u, ridx)
    <3>1. op \in Op
      BY <2>1, PutOpType
    <3>2. wire' = [wire EXCEPT ![p][u.dst] = Append(@, op)]
      BY <2>1 DEF SendEngine
    <3>3. u.dst \in Rank
      BY <2>1, EngineType
    <3>4. wire \in [Rank -> [Rank -> Seq(Op)]]
      BY DEF TypeInv, TypeOK, TypeNet
    <3> HIDE DEF op
    <3>5. Append(wire[p][u.dst], op) \in Seq(Op)
      BY <3>1, <3>3, <3>4
    <3> QED
      BY <3>2, <3>3, <3>4, <3>5
  <2>2. CASE ~ Puts(u)
    BY <2>2 DEF SendEngine, TypeInv, TypeOK, TypeNet
  <2> QED
    BY <2>1, <2>2
<1>6. tcq' \in [Rank -> SUBSET SndCntr]
  BY DEF SendEngine, TypeInv, TypeOK, TypeTcq
<1>7. tcq_count' \in [Rank -> Int]
  <2> DEFINE pig == Puts(u) /\ PutType(u) = "PIGBACK"
  <2>1. tcq_count' = [tcq_count EXCEPT ![p] = TcqCount(@, done, pig)]
    BY DEF SendEngine
  <2>2. tcq_count[p] \in Int /\ tcq_count \in [Rank -> Int]
    BY DEF TypeInv, TypeOK, TypeTcq
  <2>3. TcqCount(tcq_count[p], done, pig) \in Int
    BY <2>2 DEF TcqCount
  <2> HIDE DEF pig
  <2> QED
    BY <2>1, <2>2, <2>3
<1>8. retired' \in [Rank -> [Rank -> Nat]]
  <2>1. retired \in [Rank -> [Rank -> Nat]]
    BY DEF TypeInv, TypeOK, TypeSnd
  <2>2. retired' = retired \/ retired' = [retired EXCEPT ![p][u.dst] = @ + 1]
    BY DEF SendEngine
  <2> QED
    BY <2>1, <2>2
<1> QED
  BY <1>3, <1>4, <1>5, <1>6, <1>7, <1>8

(* minfo_setup: the entry is filled and the control stays well formed.     *)
LEMMA FilledType ==
  ASSUME TypeApp, NEW p \in Rank, pend[p].dst \in Rank, NEW u \in Control
  PROVE  /\ Filled(p, u) \in Control
         /\ Filled(p, u).dst = u.dst
         /\ Filled(p, u).recvidx = u.recvidx
         /\ Filled(p, u).state = u.state
         /\ Filled(p, u).ostate = u.ostate
<1> DEFINE n == Len(posted[p][pend[p].dst]) + 1
           e == [cntrtype |-> pend[p].type, seq |-> n]
           m == (u.mient + 1) % COM_SCNTR_MINF_SZ
<1>1. n \in Nat
  BY DEF TypeApp
<1> HIDE DEF n
<1>2. e \in Entry
  BY <1>1 DEF Entry, TypeApp
<1>3. m \in Minf
  BY ConstAssumption DEF Control, Minf
<1> DEFINE v == [u EXCEPT !.mi[u.mient] = e]
<1>4. Filled(p, u) = [v EXCEPT !.mient = m]
  BY DEF Filled, Control, n
<1> HIDE DEF e, m
<1>5. /\ v \in Control /\ v.dst = u.dst /\ v.recvidx = u.recvidx
      /\ v.state = u.state /\ v.ostate = u.ostate
  BY <1>2 DEF Control
<1> HIDE DEF v
<1> QED
  BY <1>3, <1>4, <1>5 DEF Control

-----------------------------------------------------------------------------
(* utf_mem_init establishes the invariant.                                 *)
LEMMA TypeInit == Init => TypeInv
<1> SUFFICES ASSUME Init PROVE TypeInv
  OBVIOUS
<1>1. 0 \in Minf /\ 0 \in Slot /\ 0 \in Ring
  BY ConstAssumption DEF Minf, Slot, Ring
<1>2. FreeCntr \in Control
  <2>1. [i \in Minf |-> NoEntry] \in [Minf -> Entry]
    BY DEF NoEntry, Entry
  <2> QED
    BY <1>1, <2>1, ConstAssumption DEF FreeCntr, Control, SState
<1>3. TypeApp
  BY DEF Init, TypeApp
<1>4. TypeProc
  BY DEF Init, TypeProc, PC
<1>5. TypeSnd
  BY <1>1, <1>2 DEF Init, TypeSnd
<1>6. TypeTcq /\ TypeMrq
  BY DEF Init, TypeTcq, TypeMrq
<1>7. TypeNet
  BY ConstAssumption DEF Init, TypeNet, Count
<1>8. TypeRcv
  <2>1. NoRing \in Urp
    BY <1>1 DEF NoRing, Urp
  <2> QED
    BY <2>1 DEF Init, TypeRcv
<1>9. \A p \in Rank : CallOK(p)
  BY DEF Init, CallOK, Rank, None
<1>10. \A p \in Rank, k \in SndCntr : ControlOK(scntr[p][k])
  BY DEF Init, ControlOK, FreeCntr
<1> QED
  BY <1>3, <1>4, <1>5, <1>6, <1>7, <1>8, <1>9, <1>10 DEF TypeInv, TypeOK

(* The parts of the type invariant an action leaves alone.                 *)
LEMMA TypeKept ==
  ASSUME TypeOK
  PROVE  /\ UNCHANGED appVars => TypeApp'
         /\ UNCHANGED procVars => TypeProc'
         /\ UNCHANGED sndVars => TypeSnd'
         /\ UNCHANGED tcqVars => TypeTcq'
         /\ UNCHANGED mrqVars => TypeMrq'
         /\ UNCHANGED netVars => TypeNet'
         /\ UNCHANGED rcvVars => TypeRcv'
BY DEF TypeOK, TypeApp, TypeProc, TypeSnd, TypeTcq, TypeMrq, TypeNet, TypeRcv,
       appVars, procVars, sndVars, tcqVars, mrqVars, netVars, rcvVars

(* The call of utf_send.                                                   *)
LEMMA SendCallType ==
  ASSUME TypeInv, NEW p \in Rank, NEW d \in Dests[p], NEW type \in Types,
         SendCall(p, d, type)
  PROVE  TypeInv'
<1>1. d \in Rank /\ type \in MsgType
  BY ConstAssumption
<1>2. TypeApp' /\ TypeProc'
  BY <1>1 DEF TypeInv, TypeOK, TypeApp, TypeProc, SendCall, PC
<1>3. TypeSnd' /\ TypeTcq' /\ TypeMrq' /\ TypeNet' /\ TypeRcv'
  BY TypeKept DEF SendCall, TypeInv
<1>4. \A q \in Rank : CallOK(q)'
  BY <1>1 DEF SendCall, TypeInv, TypeOK, TypeApp, TypeProc, CallOK, sndVars
<1>5. \A q \in Rank, k \in SndCntr : ControlOK(scntr[q][k])'
  BY DEF SendCall, TypeInv, ControlOK, sndVars
<1> QED
  BY <1>2, <1>3, <1>4, <1>5 DEF TypeInv, TypeOK

(* The call of utf_progress.                                               *)
LEMMA ProgressCallType ==
  ASSUME TypeInv, NEW p \in Rank, ProgressCall(p)
  PROVE  TypeInv'
<1>1. TypeProc'
  BY DEF TypeInv, TypeOK, TypeProc, ProgressCall, PC
<1>2. TypeApp' /\ TypeSnd' /\ TypeTcq' /\ TypeMrq' /\ TypeNet' /\ TypeRcv'
  BY TypeKept DEF ProgressCall, TypeInv
<1>3. \A q \in Rank : CallOK(q)'
  BY DEF ProgressCall, TypeInv, TypeOK, TypeApp, TypeProc, CallOK, sndVars,
         appVars, Rank, None
<1>4. \A q \in Rank, k \in SndCntr : ControlOK(scntr[q][k])'
  BY DEF ProgressCall, TypeInv, ControlOK, sndVars
<1> QED
  BY <1>1, <1>2, <1>3, <1>4 DEF TypeInv, TypeOK

(* utf_scntr_alloc.                                                        *)
LEMMA SendAllocType ==
  ASSUME TypeInv, NEW p \in Rank, SendAlloc(p)
  PROVE  TypeInv'
<1> DEFINE d == pend[p].dst
<1>1. d \in Rank
  BY DEF SendAlloc, TypeInv, CallOK
<1>2. TypeApp'
  <2>1. \/ pend' = pend
        \/ pend' = [pend EXCEPT ![p] = [dst |-> None, type |-> "NONE"]]
    BY ZenonT(40) DEF SendAlloc
  <2>2. posted' = posted
    BY DEF SendAlloc
  <2> DEFINE P == [dst : Rank \cup {None}, type : MsgType \cup {"NONE"}]
  <2>3. pend \in [Rank -> P]
    BY DEF TypeInv, TypeOK, TypeApp
  <2>4. [dst |-> None, type |-> "NONE"] \in P
    OBVIOUS
  <2> HIDE DEF P
  <2>5. pend' \in [Rank -> P]
    BY <2>1, <2>3, <2>4
  <2> QED
    BY <2>2, <2>5 DEF TypeInv, TypeOK, TypeApp, P
<1>3. TypeProc'
  BY ZenonT(40) DEF SendAlloc, TypeInv, TypeOK, TypeProc, PC
<1>4. TypeTcq' /\ TypeMrq' /\ TypeNet' /\ TypeRcv'
  BY TypeKept DEF SendAlloc, TypeInv
<1>5. CASE UNCHANGED <<rank2scntridx, scntr>>
  <2>1. TypeSnd'
    BY <1>5 DEF SendAlloc, TypeInv, TypeOK, TypeSnd
  <2>2. \A q \in Rank, k \in SndCntr : ControlOK(scntr[q][k])'
    BY <1>5 DEF TypeInv, ControlOK
  <2>3. \/ /\ pend' = pend /\ rank2scntridx[p][d] # None
           /\ pc' = [pc EXCEPT ![p] = "send"]
        \/ /\ pend' = [pend EXCEPT ![p] = [dst |-> None, type |-> "NONE"]]
           /\ pc' = [pc EXCEPT ![p] = "user"]
        \/ \E k \in FreeControls(p) :
              /\ rank2scntridx[p][d] = None
              /\ rank2scntridx' = [rank2scntridx EXCEPT ![p][d] = k]
    BY DEF SendAlloc
  <2>4. ~ \E k \in FreeControls(p) :
              /\ rank2scntridx[p][d] = None
              /\ rank2scntridx' = [rank2scntridx EXCEPT ![p][d] = k]
    BY <1>1, <1>5 DEF FreeControls, TypeInv, TypeOK, TypeSnd, SndCntr, None
  <2>5. \A q \in Rank : CallOK(q)'
    <3>1. CASE /\ pend' = pend /\ rank2scntridx[p][d] # None
               /\ pc' = [pc EXCEPT ![p] = "send"]
      <4>1. pc'[p] = "send" /\ \A q \in Rank \ {p} : pc'[q] = pc[q]
        BY <3>1 DEF TypeInv, TypeOK, TypeProc
      <4>2. rank2scntridx[p][d] \in SndCntr
        BY <1>1, <3>1 DEF TypeInv, TypeOK, TypeSnd
      <4> QED
        BY <1>1, <1>5, <3>1, <4>1, <4>2 DEF TypeInv, CallOK
    <3>2. CASE /\ pend' = [pend EXCEPT ![p] = [dst |-> None, type |-> "NONE"]]
               /\ pc' = [pc EXCEPT ![p] = "user"]
      <4>1. pend'[p].dst = None /\ pc'[p] = "user"
        BY <3>2 DEF TypeInv, TypeOK, TypeApp, TypeProc
      <4>2. \A q \in Rank \ {p} : pend'[q] = pend[q] /\ pc'[q] = pc[q]
        BY <3>2 DEF TypeInv, TypeOK, TypeApp, TypeProc
      <4> QED
        BY <1>5, <4>1, <4>2 DEF TypeInv, CallOK
    <3> QED
      BY <2>3, <2>4, <3>1, <3>2
  <2> QED
    BY <1>2, <1>3, <1>4, <2>1, <2>2, <2>5 DEF TypeInv, TypeOK
<1>6. CASE rank2scntridx[p][d] = None /\ FreeControls(p) # {}
  <2>1. PICK k \in FreeControls(p) :
          /\ rank2scntridx' = [rank2scntridx EXCEPT ![p][d] = k]
          /\ scntr' = [scntr EXCEPT ![p][k] =
                 [@ EXCEPT !.state = "NONE", !.dst = d, !.mient = 0]]
          /\ pc' = [pc EXCEPT ![p] = "send"]
          /\ UNCHANGED <<pend, egrmgt, retired>>
    BY <1>6 DEF SendAlloc
  <2>2. k \in SndCntr
    BY DEF FreeControls
  <2> DEFINE u == [scntr[p][k] EXCEPT !.state = "NONE", !.dst = d, !.mient = 0]
  <2>3. u \in Control /\ ControlOK(u)
    <3>1. scntr[p][k] \in Control
      BY <2>2 DEF TypeInv, TypeOK, TypeSnd
    <3>2. 0 \in Minf
      BY ConstAssumption DEF Minf
    <3> QED
      BY <1>1, <3>1, <3>2 DEF Control, ControlOK, SState
  <2>4. scntr' = [scntr EXCEPT ![p][k] = u]
    BY <2>1
  <2> HIDE DEF u
  <2>5. TypeSnd'
    BY <1>1, <2>1, <2>2, <2>3, <2>4 DEF TypeInv, TypeOK, TypeSnd
  <2>6. \A q \in Rank, j \in SndCntr : ControlOK(scntr[q][j])'
    <3>1. \A q \in Rank, j \in SndCntr :
            scntr'[q][j] = IF q = p /\ j = k THEN u ELSE scntr[q][j]
      BY <2>2, <2>4 DEF TypeInv, TypeOK, TypeSnd
    <3> QED
      BY <2>3, <3>1 DEF TypeInv, ControlOK
  <2>7. \A q \in Rank : CallOK(q)'
    BY <1>1, <2>1, <2>2 DEF TypeInv, TypeOK, TypeApp, TypeProc, TypeSnd, CallOK
  <2> QED
    BY <1>2, <1>3, <1>4, <2>5, <2>6, <2>7 DEF TypeInv, TypeOK
<1> QED
  BY <1>5, <1>6, ZenonT(40) DEF SendAlloc

(* A step that moves the program counter of p and touches no other part of *)
(* the call.                                                               *)
LEMMA CallMoved ==
  ASSUME TypeInv, NEW p \in Rank, NEW s, pc' = [pc EXCEPT ![p] = s],
         UNCHANGED <<pend, rank2scntridx>>,
         s \in {"user", "prep"} => pend[p].dst = None,
         s \in {"sendtcq", "alloc", "send"} => pend[p].dst \in Rank,
         s \in {"send", "tcq", "scan", "mrq"} /\ pend[p].dst \in Rank
           => rank2scntridx[p][pend[p].dst] \in SndCntr
  PROVE  \A q \in Rank : CallOK(q)'
<1>1. pc'[p] = s /\ \A q \in Rank \ {p} : pc'[q] = pc[q]
  BY DEF TypeInv, TypeOK, TypeProc
<1> QED
  BY <1>1 DEF TypeInv, CallOK

(* A step that leaves the calls alone keeps what is known of them.         *)
LEMMA CallKept ==
  ASSUME TypeInv, UNCHANGED <<pc, pend, rank2scntridx>>
  PROVE  \A q \in Rank : CallOK(q)'
BY DEF TypeInv, CallOK

(* A step that leaves the controls alone keeps what is known of them.      *)
LEMMA ControlsKept ==
  ASSUME TypeInv, UNCHANGED scntr
  PROVE  \A q \in Rank, k \in SndCntr : ControlOK(scntr[q][k])'
BY DEF TypeInv, ControlOK

(* utf_send, label retry.                                                  *)
LEMMA SendRetryType ==
  ASSUME TypeInv, NEW p \in Rank, SendRetry(p)
  PROVE  TypeInv'
<1>1. TypeProc'
  BY Zenon DEF TypeInv, TypeOK, TypeProc, SendRetry, PC
<1>2. TypeApp' /\ TypeSnd' /\ TypeTcq' /\ TypeMrq' /\ TypeNet' /\ TypeRcv'
  BY TypeKept DEF SendRetry, TypeInv
<1>3. \A q \in Rank : CallOK(q)'
  <2>1. /\ pc' = [pc EXCEPT ![p] = "tcq"] /\ UNCHANGED <<pend, rank2scntridx>>
        /\ pc[p] = "send"
    BY DEF SendRetry, appVars, sndVars
  <2>2. rank2scntridx[p][pend[p].dst] \in SndCntr
    BY <2>1 DEF TypeInv, CallOK
  <2> QED
    BY <2>1, <2>2, CallMoved
<1>4. \A q \in Rank, k \in SndCntr : ControlOK(scntr[q][k])'
  BY ControlsKept DEF SendRetry, sndVars
<1> QED
  BY <1>1, <1>2, <1>3, <1>4 DEF TypeInv, TypeOK

(* utf_tcqprogress continues a control with utf_sendengine_prep.           *)
LEMMA TcqStepType ==
  ASSUME TypeInv, NEW p \in Rank, NEW k \in SndCntr, TcqStep(p, k)
  PROVE  TypeInv'
<1> DEFINE u == scntr[p][k]
           ridx == egrmgt[p][u.dst].index
<1>1. u \in Control /\ ControlOK(u)
  BY DEF TypeInv, TypeOK, TypeSnd
<1>2. PICK b \in {None} \cup tcq[p] :
        SendEngine(p, k, u, ridx, b, TRUE) /\ cur' = [cur EXCEPT ![p] = b]
  BY DEF TcqStep
<1>3. Puts(u) => ridx \in Ring
  BY <1>1, EngineType DEF TypeInv, TypeOK, TypeSnd
<1>4. /\ scntr' \in [Rank -> [SndCntr -> Control]]
      /\ \A q \in Rank, j \in SndCntr : ControlOK(scntr'[q][j])
      /\ wire' \in [Rank -> [Rank -> Seq(Op)]]
      /\ TypeTcq'
      /\ retired' \in [Rank -> [Rank -> Nat]]
  BY <1>1, <1>2, <1>3, SendEngineType DEF TypeTcq
<1>5. TypeApp' /\ TypeMrq' /\ TypeRcv'
  BY TypeKept DEF TcqStep, TypeInv
<1>6. TypeSnd'
  BY <1>4 DEF TypeInv, TypeOK, TypeSnd, TcqStep
<1>7. TypeNet'
  BY <1>4 DEF TypeInv, TypeOK, TypeNet, TcqStep
<1>8. PICK s \in {"abort", pc[p]} : pc' = [pc EXCEPT ![p] = s]
  BY DEF TcqStep, Continue
<1>9. TypeProc'
  <2>1. b \in SndCntr \cup {None}
    BY DEF TypeInv, TypeOK, TypeTcq
  <2>2. s \in PC
    BY <1>8 DEF TypeInv, TypeOK, TypeProc, PC
  <2> QED
    BY <1>2, <1>8, <2>1, <2>2 DEF TypeInv, TypeOK, TypeProc, TcqStep
<1>10. \A q \in Rank : CallOK(q)'
  <2>1. UNCHANGED <<pend, rank2scntridx>>
    BY DEF TcqStep, appVars
  <2>2. CallOK(p)
    BY DEF TypeInv
  <2> QED
    BY <1>8, <2>1, <2>2, CallMoved DEF CallOK
<1>11. \A q \in Rank, j \in SndCntr : ControlOK(scntr[q][j])'
  BY <1>4 DEF ControlOK
<1> QED
  BY <1>4, <1>5, <1>6, <1>7, <1>9, <1>10, <1>11 DEF TypeInv, TypeOK

(* utf_tcqprogress has emptied the queue.                                  *)
LEMMA TcqEndType ==
  ASSUME TypeInv, NEW p \in Rank, TcqEnd(p)
  PROVE  TypeInv'
<1>1. PICK s \in {"user", "alloc", "abort", "scan"} :
        /\ pc' = [pc EXCEPT ![p] = s]
        /\ s = "user" => pc[p] = "prep"
        /\ s = "alloc" => pc[p] = "sendtcq"
        /\ s = "scan" => pc[p] = "tcq"
  BY DEF TcqEnd
<1>2. PICK j \in Nat : scanj' = [scanj EXCEPT ![p] = j]
  <2>1. scanj \in [Rank -> Nat] /\ cntr[p] \in Int
    BY DEF TypeInv, TypeOK, TypeProc, TypeNet, Count
  <2>2. \/ scanj' = scanj
        \/ scanj' = [scanj EXCEPT ![p] = IF cntr[p] < 0 THEN @ ELSE cntr[p] + 1]
    BY DEF TcqEnd
  <2>3. CASE scanj' = scanj
    <3>1. scanj' = [scanj EXCEPT ![p] = scanj[p]]
      BY <2>1, <2>3
    <3> QED
      BY <2>1, <3>1
  <2>4. CASE scanj' = [scanj EXCEPT ![p] = IF cntr[p] < 0 THEN @ ELSE cntr[p] + 1]
    <3>1. (IF cntr[p] < 0 THEN scanj[p] ELSE cntr[p] + 1) \in Nat
      BY <2>1
    <3> QED
      BY <2>4, <3>1
  <2> QED
    BY <2>2, <2>3, <2>4
<1>3. TypeProc'
  <2>1. arvd' \in [Rank -> BOOLEAN] /\ cur' = cur
    BY DEF TcqEnd, TypeInv, TypeOK, TypeProc
  <2> QED
    BY <1>1, <1>2, <2>1 DEF TypeInv, TypeOK, TypeProc, PC
<1>4. TypeApp' /\ TypeSnd' /\ TypeTcq' /\ TypeMrq' /\ TypeNet' /\ TypeRcv'
  BY TypeKept DEF TcqEnd, TypeInv
<1>5. \A q \in Rank : CallOK(q)'
  <2>1. UNCHANGED <<pend, rank2scntridx>>
    BY DEF TcqEnd, appVars, sndVars
  <2>2. CallOK(p)
    BY DEF TypeInv
  <2> QED
    BY <1>1, <2>1, <2>2, CallMoved DEF CallOK
<1>6. \A q \in Rank, k \in SndCntr : ControlOK(scntr[q][k])'
  BY ControlsKept DEF TcqEnd, sndVars
<1> QED
  BY <1>3, <1>4, <1>5, <1>6 DEF TypeInv, TypeOK

(* utf_recvengine keeps the state of a ring well formed and its place.     *)
LEMMA EngulfType ==
  ASSUME NEW urp \in Urp, NEW pkt \in Pkt
  PROVE  /\ Engulf(urp, pkt) \in Urp
         /\ Engulf(urp, pkt).recvidx = urp.recvidx
         /\ Engulf(urp, pkt).svcqid = urp.svcqid
         /\ Append(urp.asm, pkt.pyld) \in Seq(Nat \X Nat)
<1> DEFINE size == IF urp.state = "R_NONE" THEN pkt.size ELSE urp.size
           asm == Append(urp.asm, pkt.pyld)
<1>1. size \in Nat
  BY DEF Urp, Pkt
<1>2. asm \in Seq(Nat \X Nat)
  <2>1. urp.asm \in Seq(Nat \X Nat) /\ pkt.pyld \in Nat \X Nat
    BY DEF Urp, Pkt
  <2> QED
    BY <2>1
<1>3. Engulf(urp, pkt) =
        IF Len(asm) = size
        THEN [urp EXCEPT !.state = "R_NONE", !.size = 0, !.asm = <<>>]
        ELSE [urp EXCEPT !.state = "R_BODY", !.size = size, !.asm = asm]
  BY DEF Engulf
<1> HIDE DEF size, asm
<1>4. ASSUME NEW st \in {"R_NONE", "R_BODY"}, NEW n \in Nat,
             NEW a \in Seq(Nat \X Nat),
             Engulf(urp, pkt) = [urp EXCEPT !.state = st, !.size = n, !.asm = a]
      PROVE  /\ Engulf(urp, pkt) \in Urp
             /\ Engulf(urp, pkt).recvidx = urp.recvidx
             /\ Engulf(urp, pkt).svcqid = urp.svcqid
  BY <1>4 DEF Urp
<1>5. <<>> \in Seq(Nat \X Nat)
  OBVIOUS
<1>6. CASE Len(asm) = size
  BY <1>2, <1>3, <1>4, <1>5, <1>6 DEF asm
<1>7. CASE Len(asm) # size
  BY <1>1, <1>2, <1>3, <1>4, <1>7 DEF asm
<1> QED
  BY <1>6, <1>7

(* The ring utf_progress is at, and the packet there.                      *)
LEMMA ScanFacts ==
  ASSUME TypeInv, NEW p \in Rank, scanj[p] <= RCV_CNTRL_INIT
  PROVE  /\ scanj[p] \in Ring
         /\ rcntr[p][scanj[p]] \in Urp
         /\ rcntr[p][scanj[p]].recvidx \in Slot
         /\ Arrived(rbuf[p][scanj[p]][rcntr[p][scanj[p]].recvidx]) =>
              rbuf[p][scanj[p]][rcntr[p][scanj[p]].recvidx] \in Pkt
<1>1. scanj[p] \in Ring
  BY ConstAssumption DEF TypeInv, TypeOK, TypeProc, Ring
<1>2. rcntr[p][scanj[p]] \in Urp
  BY <1>1 DEF TypeInv, TypeOK, TypeRcv
<1>3. rcntr[p][scanj[p]].recvidx \in Slot
  BY <1>2 DEF Urp
<1>4. rbuf[p][scanj[p]][rcntr[p][scanj[p]].recvidx] \in Pkt \cup {NoPkt}
  BY <1>1, <1>3 DEF TypeInv, TypeOK, TypeRcv
<1>5. ~ Arrived(NoPkt)
  BY DEF Arrived, NoPkt
<1> QED
  BY <1>1, <1>2, <1>3, <1>4, <1>5

(* utf_progress handles a packet, and at the end of the ring resets it.    *)
LEMMA ScanPktType ==
  ASSUME TypeInv, NEW p \in Rank, ScanPkt(p)
  PROVE  TypeInv'
<1> DEFINE j    == scanj[p]
           urp  == rcntr[p][j]
           pkt  == rbuf[p][j][urp.recvidx]
           full == urp.recvidx + 1 = COM_RBUF_SIZE
           to   == IF urp.svcqid = None THEN pkt.src ELSE urp.svcqid
           urp2 == Engulf(urp, pkt)
           nurp == IF full THEN [urp2 EXCEPT !.recvidx = 0, !.svcqid = to]
                   ELSE [urp2 EXCEPT !.recvidx = @ + 1]
<1>1. j \in Ring /\ urp \in Urp /\ urp.recvidx \in Slot /\ pkt \in Pkt
  BY ScanFacts DEF ScanPkt
<1>2. urp2 \in Urp /\ urp2.recvidx = urp.recvidx
  BY <1>1, EngulfType
<1>3. to \in Rank /\ pkt.src \in Rank
  BY <1>1 DEF Urp, Pkt
<1>4. nurp \in Urp
  <2>1. 0 \in Slot /\ (~ full => urp.recvidx + 1 \in Slot)
    BY <1>1, ConstAssumption DEF Slot
  <2> HIDE DEF full, to, urp2, urp
  <2> QED
    BY <1>2, <1>3, <2>1 DEF Urp
<1>5. rcntr' = [rcntr EXCEPT ![p][j] = nurp]
  BY DEF ScanPkt
<1>6. TypeRcv'
  <2>1. rcntr' \in [Rank -> [Ring -> Urp]]
    <3> HIDE DEF nurp
    <3> QED
      BY <1>1, <1>4, <1>5 DEF TypeInv, TypeOK, TypeRcv
  <2>2. rbuf' \in [Rank -> [Ring -> [Slot -> Pkt \cup {NoPkt}]]]
    <3>1. rbuf' = [rbuf EXCEPT ![p][j][urp.recvidx] = NoPkt]
      BY DEF ScanPkt
    <3>2. rbuf \in [Rank -> [Ring -> [Slot -> Pkt \cup {NoPkt}]]]
      BY DEF TypeInv, TypeOK, TypeRcv
    <3> HIDE DEF urp, j
    <3> QED
      BY <1>1, <3>1, <3>2
  <2>3. inbox' \in [Rank -> [Rank -> Seq(Seq(Nat \X Nat))]]
    <3> DEFINE m == Append(urp.asm, pkt.pyld)
    <3>1. inbox \in [Rank -> [Rank -> Seq(Seq(Nat \X Nat))]]
      BY DEF TypeInv, TypeOK, TypeRcv
    <3>2. m \in Seq(Nat \X Nat)
      BY <1>1, EngulfType
    <3>3. \/ inbox' = inbox
          \/ inbox' = [inbox EXCEPT ![p][pkt.src] = Append(@, m)]
      BY DEF ScanPkt
    <3> HIDE DEF m, pkt
    <3>4. Append(inbox[p][pkt.src], m) \in Seq(Seq(Nat \X Nat))
      BY <1>3, <3>1, <3>2
    <3>5. CASE inbox' = inbox
      BY <3>1, <3>5
    <3>6. CASE inbox' = [inbox EXCEPT ![p][pkt.src] = Append(@, m)]
      BY <1>3, <3>1, <3>4, <3>6
    <3> QED
      BY <3>3, <3>5, <3>6
  <2> QED
    BY <2>1, <2>2, <2>3 DEF TypeRcv
<1>7. TypeMrq' /\ TypeTcq'
  <2>1. rcvrst' = rcvrst \/ rcvrst' = [rcvrst EXCEPT ![to][pkt.sidx] = @ + 1]
    BY DEF ScanPkt
  <2>2. rcvrst' \in [Rank -> [SndCntr -> Nat]]
    <3>1. rcvrst \in [Rank -> [SndCntr -> Nat]]
      BY DEF TypeInv, TypeOK, TypeMrq
    <3>2. pkt.sidx \in SndCntr
      BY <1>1 DEF Pkt
    <3> HIDE DEF to, pkt
    <3>3. CASE rcvrst' = rcvrst
      BY <3>1, <3>3
    <3>4. CASE rcvrst' = [rcvrst EXCEPT ![to][pkt.sidx] = @ + 1]
      BY <1>3, <3>1, <3>2, <3>4
    <3> QED
      BY <2>1, <3>3, <3>4
  <2>3. tcq' = tcq \/ \E b : tcq' = [tcq EXCEPT ![p] = @ \ {b}]
    BY DEF ScanPkt
  <2>4. tcq' \in [Rank -> SUBSET SndCntr]
    BY <2>3 DEF TypeInv, TypeOK, TypeTcq
  <2> QED
    BY <2>2, <2>4, Zenon DEF TypeInv, TypeOK, TypeTcq, TypeMrq, ScanPkt
<1>8. TypeProc'
  <2>1. scanj' = scanj \/ scanj' = [scanj EXCEPT ![p] = @ + 1]
    BY DEF ScanPkt
  <2>2. scanj' \in [Rank -> Nat]
    BY <2>1 DEF TypeInv, TypeOK, TypeProc
  <2> QED
    BY <2>2, Zenon DEF TypeInv, TypeOK, TypeProc, ScanPkt
<1>9. TypeApp' /\ TypeSnd' /\ TypeNet'
  BY TypeKept, Zenon DEF ScanPkt, TypeInv
<1>10. \A q \in Rank : CallOK(q)'
  BY CallKept, Zenon DEF ScanPkt, appVars, sndVars
<1>11. \A q \in Rank, k \in SndCntr : ControlOK(scntr[q][k])'
  BY ControlsKept DEF ScanPkt, sndVars
<1> QED
  BY <1>6, <1>7, <1>8, <1>9, <1>10, <1>11 DEF TypeInv, TypeOK

(* utf_progress finds no packet in the ring it looks at.                   *)
LEMMA ScanNoneType ==
  ASSUME TypeInv, NEW p \in Rank, ScanNone(p)
  PROVE  TypeInv'
<1>1. TypeProc'
  BY DEF TypeInv, TypeOK, TypeProc, ScanNone
<1>2. TypeApp' /\ TypeSnd' /\ TypeTcq' /\ TypeMrq' /\ TypeNet' /\ TypeRcv'
  BY TypeKept DEF ScanNone, TypeInv
<1>3. \A q \in Rank : CallOK(q)'
  BY CallKept DEF ScanNone, appVars, sndVars
<1>4. \A q \in Rank, k \in SndCntr : ControlOK(scntr[q][k])'
  BY ControlsKept DEF ScanNone, sndVars
<1> QED
  BY <1>1, <1>2, <1>3, <1>4 DEF TypeInv, TypeOK

(* A step of utf_progress that only returns, or goes on to the MRQ.        *)
LEMMA MovesOnType ==
  ASSUME TypeInv, NEW p \in Rank, pc[p] \in {"scan", "mrq"},
         Return(p) \/ pc' = [pc EXCEPT ![p] = "mrq"],
         UNCHANGED <<appVars, cur, scanj, arvd, sndVars, tcqVars, mrqVars,
                     netVars, rcvVars>>
  PROVE  TypeInv'
<1>1. PICK s \in {"user", "send", "mrq"} :
        /\ pc' = [pc EXCEPT ![p] = s]
        /\ s = "user" => pend[p].dst = None
        /\ s = "send" => pend[p].dst # None
  BY DEF Return
<1>2. TypeProc'
  BY <1>1 DEF TypeInv, TypeOK, TypeProc, PC
<1>3. TypeApp' /\ TypeSnd' /\ TypeTcq' /\ TypeMrq' /\ TypeNet' /\ TypeRcv'
  BY TypeKept DEF TypeInv
<1>4. \A q \in Rank : CallOK(q)'
  <2>1. CallOK(p) /\ pend[p].dst \in Rank \cup {None}
    BY DEF TypeInv, TypeOK, TypeApp
  <2> QED
    BY <1>1, <2>1, CallMoved DEF CallOK, appVars, sndVars
<1>5. \A q \in Rank, k \in SndCntr : ControlOK(scntr[q][k])'
  BY ControlsKept DEF sndVars
<1> QED
  BY <1>2, <1>3, <1>4, <1>5 DEF TypeInv, TypeOK

(* A put reaches its slot.                                                 *)
LEMMA NetPutType ==
  ASSUME TypeInv, NEW p \in Rank, NEW q \in Rank, NetPut(p, q)
  PROVE  TypeInv'
<1> DEFINE op == Head(wire[p][q])
<1>1. wire[p][q] \in Seq(Op) /\ wire[p][q] # <<>>
  BY DEF NetPut, TypeInv, TypeOK, TypeNet
<1>2. op \in Op /\ Tail(wire[p][q]) \in Seq(Op)
  BY <1>1
<1>3. op.ridx \in Ring /\ op.slot \in Slot /\ op.pkt \in Pkt /\ op.edata \in SndCntr
  BY <1>2 DEF Op
<1>4. /\ wire' = [wire EXCEPT ![p][q] = Tail(@)]
      /\ rbuf' = [rbuf EXCEPT ![q][op.ridx][op.slot] = op.pkt]
      /\ \/ lclput' = lclput
         \/ lclput' = [lclput EXCEPT ![p] = @ \cup {op.edata}]
  BY DEF NetPut
<1> HIDE DEF op
<1>5. TypeNet'
  <2>1. wire' \in [Rank -> [Rank -> Seq(Op)]]
    BY <1>2, <1>4 DEF TypeInv, TypeOK, TypeNet
  <2> QED
    BY <2>1 DEF NetPut, TypeInv, TypeOK, TypeNet
<1>6. TypeRcv'
  <2>1. rbuf' \in [Rank -> [Ring -> [Slot -> Pkt \cup {NoPkt}]]]
    BY <1>3, <1>4 DEF TypeInv, TypeOK, TypeRcv
  <2> QED
    BY <2>1 DEF NetPut, TypeInv, TypeOK, TypeRcv
<1>7. TypeMrq'
  <2>1. lclput' \in [Rank -> SUBSET SndCntr]
    <3>1. lclput \in [Rank -> SUBSET SndCntr]
      BY DEF TypeInv, TypeOK, TypeMrq
    <3>2. CASE lclput' = lclput
      BY <3>1, <3>2
    <3>3. CASE lclput' = [lclput EXCEPT ![p] = @ \cup {op.edata}]
      BY <1>3, <3>1, <3>3
    <3> QED
      BY <1>4, <3>2, <3>3
  <2> QED
    BY <2>1 DEF NetPut, TypeInv, TypeOK, TypeMrq
<1>8. TypeApp' /\ TypeProc' /\ TypeSnd' /\ TypeTcq'
  BY TypeKept DEF NetPut, TypeInv
<1>9. \A r \in Rank : CallOK(r)'
  BY CallKept DEF NetPut, appVars, procVars, sndVars
<1>10. \A r \in Rank, k \in SndCntr : ControlOK(scntr[r][k])'
  BY ControlsKept DEF NetPut, sndVars
<1> QED
  BY <1>5, <1>6, <1>7, <1>8, <1>9, <1>10 DEF TypeInv, TypeOK

(* A fetch-and-add on the counter of rooms is answered.                    *)
LEMMA NetAddType ==
  ASSUME TypeInv, NEW p \in Rank, NEW k \in SndCntr, NEW q \in Rank,
         NetAdd(p, k, q)
  PROVE  TypeInv'
<1>1. cntr[q] \in Count /\ cntr[q] - 1 \in Count
  BY ConstAssumption DEF TypeInv, TypeOK, TypeNet, Count
<1>2. <<k, cntr[q]>> \in SndCntr \X Count
  BY <1>1
<1>3. TypeNet'
  BY <1>1 DEF NetAdd, TypeInv, TypeOK, TypeNet
<1>4. TypeMrq'
  BY <1>2 DEF NetAdd, TypeInv, TypeOK, TypeMrq
<1>5. TypeApp' /\ TypeProc' /\ TypeSnd' /\ TypeTcq' /\ TypeRcv'
  BY TypeKept DEF NetAdd, TypeInv
<1>6. \A r \in Rank : CallOK(r)'
  BY CallKept DEF NetAdd, appVars, procVars, sndVars
<1>7. \A r \in Rank, j \in SndCntr : ControlOK(scntr[r][j])'
  BY ControlsKept DEF NetAdd, sndVars
<1> QED
  BY <1>3, <1>4, <1>5, <1>6, <1>7 DEF TypeInv, TypeOK

(* utf_mrqprogress returns to the application, to utf_send, or aborts.     *)
LEMMA MrqReturnsCall ==
  ASSUME TypeInv, NEW p \in Rank, pc[p] = "mrq", UNCHANGED <<pend, rank2scntridx>>,
         NEW u, MrqReturns(p, u) \/ Return(p) \/ pc' = [pc EXCEPT ![p] = "abort"]
  PROVE  /\ pc' \in [Rank -> PC]
         /\ \A q \in Rank : CallOK(q)'
<1>1. PICK s \in {"user", "send", "abort"} :
        /\ pc' = [pc EXCEPT ![p] = s]
        /\ s = "user" => pend[p].dst = None
        /\ s = "send" => pend[p].dst # None
  BY DEF MrqReturns, Return, Continue
<1>2. CallOK(p) /\ pend[p].dst \in Rank \cup {None}
  BY DEF TypeInv, TypeOK, TypeApp
<1>3. \A q \in Rank : CallOK(q)'
  BY <1>1, <1>2, CallMoved DEF CallOK
<1>4. pc' \in [Rank -> PC]
  BY <1>1 DEF TypeInv, TypeOK, TypeProc, PC
<1> QED
  BY <1>3, <1>4

(* Notice MRQ_TYPE_LCL_PUT.                                                *)
LEMMA MrqLclPutType ==
  ASSUME TypeInv, NEW p \in Rank, NEW k \in SndCntr, MrqLclPut(p, k)
  PROVE  TypeInv'
<1> DEFINE u == scntr[p][k]
           ridx == egrmgt[p][u.dst].index
<1>1. u \in Control /\ ControlOK(u)
  BY DEF TypeInv, TypeOK, TypeSnd
<1>2. PICK b \in {None} \cup tcq[p] : SendEngine(p, k, u, ridx, b, FALSE)
  BY DEF MrqLclPut
<1>3. Puts(u) => ridx \in Ring
  BY <1>1, EngineType DEF TypeInv, TypeOK, TypeSnd
<1>4. /\ scntr' \in [Rank -> [SndCntr -> Control]]
      /\ \A q \in Rank, j \in SndCntr : ControlOK(scntr'[q][j])
      /\ wire' \in [Rank -> [Rank -> Seq(Op)]]
      /\ TypeTcq'
      /\ retired' \in [Rank -> [Rank -> Nat]]
  BY <1>1, <1>2, <1>3, SendEngineType DEF TypeTcq
<1>5. TypeApp' /\ TypeRcv'
  BY TypeKept DEF MrqLclPut, TypeInv
<1>6. TypeSnd'
  BY <1>4 DEF TypeInv, TypeOK, TypeSnd, MrqLclPut
<1>7. TypeNet'
  BY <1>4 DEF TypeInv, TypeOK, TypeNet, MrqLclPut
<1>8. TypeMrq'
  BY DEF TypeInv, TypeOK, TypeMrq, MrqLclPut
<1>9. pc' \in [Rank -> PC] /\ \A q \in Rank : CallOK(q)'
  BY MrqReturnsCall DEF MrqLclPut, appVars
<1>10. TypeProc'
  BY <1>9 DEF TypeInv, TypeOK, TypeProc, MrqLclPut
<1>11. \A q \in Rank, j \in SndCntr : ControlOK(scntr[q][j])'
  BY <1>4 DEF ControlOK
<1> QED
  BY <1>4, <1>5, <1>6, <1>7, <1>8, <1>9, <1>10, <1>11 DEF TypeInv, TypeOK

(* Notice MRQ_TYPE_LCL_ARMW: the control learns of its ring.               *)
LEMMA MrqLclArmwType ==
  ASSUME TypeInv, NEW p \in Rank, NEW k \in SndCntr, NEW val,
         MrqLclArmw(p, k, val)
  PROVE  TypeInv'
<1> DEFINE u == scntr[p][k]
           g == [u EXCEPT !.state = "HAS_ROOM", !.recvidx = 0]
<1>1. u \in Control /\ ControlOK(u)
  BY DEF TypeInv, TypeOK, TypeSnd
<1>2. val \in Count
  BY DEF MrqLclArmw, TypeInv, TypeOK, TypeMrq
<1>3. TypeApp' /\ TypeRcv'
  BY TypeKept DEF MrqLclArmw, TypeInv
<1>4. TypeMrq'
  BY DEF TypeInv, TypeOK, TypeMrq, MrqLclArmw
<1>5. pc' \in [Rank -> PC] /\ \A q \in Rank : CallOK(q)'
  <2>1. MrqReturns(p, g) \/ pc' = [pc EXCEPT ![p] = "abort"]
    BY DEF MrqLclArmw
  <2> QED
    BY <2>1, MrqReturnsCall DEF MrqLclArmw, appVars
<1>6. TypeProc'
  BY <1>5 DEF TypeInv, TypeOK, TypeProc, MrqLclArmw
<1>7. CASE u.state = "REQ_ROOM" /\ val >= 0
  <2>1. val \in Ring
    BY <1>2, <1>7, ConstAssumption DEF Count, Ring
  <2>2. u.dst \in Rank
    BY <1>1, <1>7 DEF ControlOK
  <2>3. g \in Control /\ ControlOK(g)
    <3>1. 0 \in 0 .. COM_RBUF_SIZE
      BY ConstAssumption
    <3> HIDE DEF u
    <3> QED
      BY <1>1, <2>2, <3>1 DEF Control, ControlOK, SState
  <2>4. PICK b \in {None} \cup tcq[p] : SendEngine(p, k, g, val, b, FALSE)
    BY <1>7 DEF MrqLclArmw
  <2>5. /\ scntr' \in [Rank -> [SndCntr -> Control]]
        /\ \A q \in Rank, j \in SndCntr : ControlOK(scntr'[q][j])
        /\ wire' \in [Rank -> [Rank -> Seq(Op)]]
        /\ TypeTcq'
        /\ retired' \in [Rank -> [Rank -> Nat]]
    <3> HIDE DEF g
    <3> QED
      BY <2>1, <2>3, <2>4, SendEngineType DEF TypeTcq
  <2>6. egrmgt' \in [Rank -> [Rank ->
          [examed : BOOLEAN, sndok : BOOLEAN, index : Ring]]]
    <3> DEFINE E == [examed : BOOLEAN, sndok : BOOLEAN, index : Ring]
               e == [egrmgt[p][u.dst] EXCEPT !.sndok = TRUE, !.index = val]
    <3>1. egrmgt \in [Rank -> [Rank -> E]]
      BY DEF TypeInv, TypeOK, TypeSnd
    <3>2. e \in E
      <4>1. egrmgt[p][u.dst] \in E
        BY <2>2, <3>1
      <4> QED
        BY <2>1, <4>1
    <3>3. egrmgt' = [egrmgt EXCEPT ![p][u.dst] = e]
      BY <1>7 DEF MrqLclArmw
    <3> HIDE DEF E, e
    <3>4. egrmgt' \in [Rank -> [Rank -> E]]
      BY <2>2, <3>1, <3>2, <3>3
    <3> QED
      BY <3>4 DEF E
  <2>7. TypeSnd'
    BY <2>5, <2>6 DEF TypeInv, TypeOK, TypeSnd, MrqLclArmw
  <2>8. TypeNet'
    BY <2>5 DEF TypeInv, TypeOK, TypeNet, MrqLclArmw
  <2>9. \A q \in Rank, j \in SndCntr : ControlOK(scntr[q][j])'
    BY <2>5 DEF ControlOK
  <2> QED
    BY <1>3, <1>4, <1>5, <1>6, <2>5, <2>7, <2>8, <2>9 DEF TypeInv, TypeOK
<1>8. CASE ~ (u.state = "REQ_ROOM" /\ val >= 0)
  <2>1. UNCHANGED <<egrmgt, scntr, retired, wire, tcqVars, rank2scntridx>>
    BY <1>8 DEF MrqLclArmw
  <2>2. TypeSnd' /\ TypeTcq'
    BY <2>1, TypeKept DEF TypeInv, sndVars
  <2>3. TypeNet'
    BY <2>1 DEF TypeInv, TypeOK, TypeNet, MrqLclArmw
  <2>4. \A q \in Rank, j \in SndCntr : ControlOK(scntr[q][j])'
    BY <2>1, ControlsKept
  <2> QED
    BY <1>3, <1>4, <1>5, <1>6, <2>2, <2>3, <2>4 DEF TypeInv, TypeOK
<1> QED
  BY <1>7, <1>8

(* Notice MRQ_TYPE_RMT_ARMW: the ring was reset.                           *)
LEMMA MrqRecvResetType ==
  ASSUME TypeInv, NEW p \in Rank, NEW k \in SndCntr, MrqRecvReset(p, k)
  PROVE  TypeInv'
<1> DEFINE u == [scntr[p][k] EXCEPT !.recvidx = 0]
           g == [u EXCEPT !.state = u.ostate]
           ridx == egrmgt[p][u.dst].index
<1>1. /\ u \in Control /\ ControlOK(u) /\ u.state = scntr[p][k].state
  <2>1. scntr[p][k] \in Control /\ ControlOK(scntr[p][k])
    BY DEF TypeInv, TypeOK, TypeSnd
  <2>2. 0 \in 0 .. COM_RBUF_SIZE
    BY ConstAssumption
  <2> QED
    BY <2>1, <2>2 DEF Control, ControlOK
<1>2. TypeApp' /\ TypeRcv'
  BY TypeKept DEF MrqRecvReset, TypeInv
<1>3. TypeMrq'
  <2>1. rcvrst \in [Rank -> [SndCntr -> Nat]] /\ rcvrst[p][k] > 0
    BY DEF TypeInv, TypeOK, TypeMrq, MrqRecvReset
  <2>2. rcvrst' = [rcvrst EXCEPT ![p][k] = @ - 1]
    BY DEF MrqRecvReset
  <2>3. rcvrst' \in [Rank -> [SndCntr -> Nat]]
    BY <2>1, <2>2
  <2> QED
    BY <2>3 DEF TypeInv, TypeOK, TypeMrq, MrqRecvReset
<1>4. pc' \in [Rank -> PC] /\ \A q \in Rank : CallOK(q)'
  <2>1. MrqReturns(p, g) \/ Return(p)
    BY DEF MrqRecvReset
  <2> QED
    BY <2>1, MrqReturnsCall DEF MrqRecvReset, appVars
<1>5. TypeProc'
  BY <1>4 DEF TypeInv, TypeOK, TypeProc, MrqRecvReset
<1>6. CASE u.state = "WAIT_BUFREADY"
  <2>1. g \in Control /\ ControlOK(g) /\ g.dst = u.dst
    <3> HIDE DEF u
    <3> QED
      BY <1>1, <1>6 DEF Control, ControlOK
  <2>2. PICK b \in {None} \cup tcq[p] : SendEngine(p, k, g, ridx, b, FALSE)
    BY <1>6 DEF MrqRecvReset
  <2>3. Puts(g) => ridx \in Ring
    <3>1. Puts(g) => u.dst \in Rank
      BY <2>1, EngineType
    <3> HIDE DEF u, g
    <3> QED
      BY <3>1 DEF TypeInv, TypeOK, TypeSnd
  <2>4. /\ scntr' \in [Rank -> [SndCntr -> Control]]
        /\ \A q \in Rank, j \in SndCntr : ControlOK(scntr'[q][j])
        /\ wire' \in [Rank -> [Rank -> Seq(Op)]]
        /\ TypeTcq'
        /\ retired' \in [Rank -> [Rank -> Nat]]
    <3> HIDE DEF u, g, ridx
    <3> QED
      BY <2>1, <2>2, <2>3, SendEngineType DEF TypeTcq
  <2>5. TypeSnd'
    BY <2>4 DEF TypeInv, TypeOK, TypeSnd, MrqRecvReset
  <2>6. TypeNet'
    BY <2>4 DEF TypeInv, TypeOK, TypeNet, MrqRecvReset
  <2>7. \A q \in Rank, j \in SndCntr : ControlOK(scntr[q][j])'
    BY <2>4 DEF ControlOK
  <2> QED
    BY <1>2, <1>3, <1>4, <1>5, <2>4, <2>5, <2>6, <2>7 DEF TypeInv, TypeOK
<1>7. CASE u.state # "WAIT_BUFREADY"
  <2>1. /\ scntr' = [scntr EXCEPT ![p][k] = u]
        /\ UNCHANGED <<egrmgt, retired, wire, tcqVars, rank2scntridx>>
    BY <1>7 DEF MrqRecvReset
  <2>2. TypeTcq'
    BY <2>1, TypeKept DEF TypeInv
  <2>3. TypeNet'
    BY <2>1 DEF TypeInv, TypeOK, TypeNet, MrqRecvReset
  <2> HIDE DEF u
  <2>4. TypeSnd'
    BY <1>1, <2>1 DEF TypeInv, TypeOK, TypeSnd
  <2>5. \A q \in Rank, j \in SndCntr : ControlOK(scntr[q][j])'
    <3>1. \A q \in Rank, j \in SndCntr :
            scntr'[q][j] = IF q = p /\ j = k THEN u ELSE scntr[q][j]
      BY <2>1 DEF TypeInv, TypeOK, TypeSnd
    <3> QED
      BY <1>1, <3>1 DEF TypeInv, ControlOK
  <2> QED
    BY <1>2, <1>3, <1>4, <1>5, <2>2, <2>3, <2>4, <2>5 DEF TypeInv, TypeOK
<1> QED
  BY <1>6, <1>7

(* The payloads of a message are numbered pairs.                           *)
LEMMA MessageType ==
  ASSUME NEW n \in Nat, NEW t
  PROVE  Message(n, t) \in Seq(Nat \X Nat)
<1>1. NPkt(t) \in Nat
  BY NPktType
<1>2. \A c \in 1 .. NPkt(t) : <<n, c>> \in Nat \X Nat
  BY <1>1
<1>3. Message(n, t) \in [1 .. NPkt(t) -> Nat \X Nat]
  BY <1>2 DEF Message
<1> QED
  BY <1>1, <1>3

(* utf_send fills an entry and starts the engine of an idle control.       *)
LEMMA SendPostType ==
  ASSUME TypeInv, NEW p \in Rank, SendPost(p)
  PROVE  TypeInv'
<1> DEFINE d == pend[p].dst
           k == rank2scntridx[p][d]
           u == scntr[p][k]
           f == Filled(p, u)
           g == [f EXCEPT !.state = "HAS_ROOM"]
           start == u.state = "NONE"
<1>1. d \in Rank /\ k \in SndCntr
  BY DEF SendPost, TypeInv, CallOK
<1>2. u \in Control /\ ControlOK(u)
  BY <1>1 DEF TypeInv, TypeOK, TypeSnd
<1>3. /\ f \in Control /\ f.dst = u.dst /\ f.state = u.state
      /\ f.ostate = u.ostate
  BY <1>1, <1>2, FilledType, Zenon DEF TypeInv, TypeOK
<1>4. ControlOK(f)
  BY <1>2, <1>3 DEF ControlOK
<1>5. TypeApp'
  <2> DEFINE m == Message(Len(posted[p][d]) + 1, pend[p].type)
             P == [dst : Rank \cup {None}, type : MsgType \cup {"NONE"}]
             S == Seq(Seq(Nat \X Nat))
  <2>1. posted \in [Rank -> [Rank -> S]] /\ pend \in [Rank -> P]
    BY DEF TypeInv, TypeOK, TypeApp
  <2>2. m \in Seq(Nat \X Nat)
    BY <1>1, <2>1, MessageType
  <2>3. posted' = [posted EXCEPT ![p][d] = Append(@, m)]
    BY DEF SendPost
  <2>4. Append(posted[p][d], m) \in S
    <3> HIDE DEF m, d
    <3> QED
      BY <1>1, <2>1, <2>2
  <2>5. posted' \in [Rank -> [Rank -> S]]
    <3> HIDE DEF m, d, S
    <3> QED
      BY <1>1, <2>1, <2>3, <2>4
  <2>6. pend' \in [Rank -> P]
    <3>1. [dst |-> None, type |-> "NONE"] \in P
      OBVIOUS
    <3>2. pend' = [pend EXCEPT ![p] = [dst |-> None, type |-> "NONE"]]
      BY Zenon DEF SendPost
    <3> HIDE DEF P
    <3> QED
      BY <2>1, <3>1, <3>2
  <2> QED
    BY <2>5, <2>6 DEF TypeApp
<1>6. TypeMrq' /\ TypeRcv'
  BY TypeKept, Zenon DEF SendPost, TypeInv
<1>7. PICK s \in {"user", "prep", "abort"} : pc' = [pc EXCEPT ![p] = s]
  BY DEF SendPost, Continue
<1>8. \A q \in Rank : CallOK(q)'
  <2>1. pend' = [pend EXCEPT ![p] = [dst |-> None, type |-> "NONE"]]
    BY DEF SendPost
  <2>2. pend'[p].dst = None /\ \A q \in Rank \ {p} : pend'[q] = pend[q]
    BY <2>1 DEF TypeInv, TypeOK, TypeApp
  <2>3. pc'[p] = s /\ \A q \in Rank \ {p} : pc'[q] = pc[q]
    BY <1>7 DEF TypeInv, TypeOK, TypeProc
  <2>4. rank2scntridx' = rank2scntridx
    BY DEF SendPost
  <2>5. None \notin Rank
    BY DEF Rank, None
  <2> QED
    BY <2>2, <2>3, <2>4, <2>5 DEF TypeInv, CallOK
<1>9. TypeProc'
  <2>1. cur' = cur \/ \E b \in {None} \cup tcq[p] : cur' = [cur EXCEPT ![p] = b]
    BY DEF SendPost
  <2>2. cur' \in [Rank -> SndCntr \cup {None}]
    <3>1. cur \in [Rank -> SndCntr \cup {None}] /\ tcq[p] \subseteq SndCntr
      BY DEF TypeInv, TypeOK, TypeProc, TypeTcq
    <3> QED
      BY <2>1, <3>1
  <2>3. pc' \in [Rank -> PC]
    BY <1>7 DEF TypeInv, TypeOK, TypeProc, PC
  <2> QED
    BY <2>2, <2>3, Zenon DEF SendPost, TypeInv, TypeOK, TypeProc
<1>10. UNCHANGED <<rank2scntridx, cntr>>
  BY DEF SendPost
<1>11. ASSUME NEW w \in Control, ControlOK(w), scntr' = [scntr EXCEPT ![p][k] = w]
       PROVE  /\ scntr' \in [Rank -> [SndCntr -> Control]]
              /\ \A q \in Rank, j \in SndCntr : ControlOK(scntr[q][j])'
  <2> HIDE DEF k
  <2>1. scntr' \in [Rank -> [SndCntr -> Control]]
    BY <1>1, <1>11 DEF TypeInv, TypeOK, TypeSnd
  <2>2. \A q \in Rank, j \in SndCntr :
          scntr'[q][j] = IF q = p /\ j = k THEN w ELSE scntr[q][j]
    BY <1>1, <1>11 DEF TypeInv, TypeOK, TypeSnd
  <2> QED
    BY <1>11, <2>1, <2>2 DEF TypeInv, ControlOK
<1>12. CASE /\ scntr' = [scntr EXCEPT ![p][k] = f]
            /\ UNCHANGED <<egrmgt, retired, tcqVars, wire, addreq>>
  <2>1. TypeSnd' /\ \A q \in Rank, j \in SndCntr : ControlOK(scntr[q][j])'
    BY <1>3, <1>4, <1>10, <1>11, <1>12 DEF TypeInv, TypeOK, TypeSnd
  <2>2. TypeTcq' /\ TypeNet'
    BY <1>10, <1>12, TypeKept DEF TypeInv, netVars
  <2> QED
    BY <1>5, <1>6, <1>8, <1>9, <2>1, <2>2 DEF TypeInv, TypeOK
<1>13. CASE start /\ egrmgt[p][d].sndok
  <2>1. PICK b \in {None} \cup tcq[p] :
          SendEngine(p, k, g, egrmgt[p][d].index, b, FALSE)
    BY <1>13, Zenon DEF SendPost
  <2>2. UNCHANGED <<egrmgt, addreq>>
    BY <1>13 DEF SendPost
  <2>3. g \in Control /\ ControlOK(g)
    <3>1. u.dst \in Rank
      BY <1>2, <1>13 DEF ControlOK
    <3> HIDE DEF f, u
    <3> QED
      BY <1>3, <3>1 DEF Control, ControlOK, SState
  <2>4. egrmgt[p][d].index \in Ring
    <3> HIDE DEF d
    <3> QED
      BY <1>1 DEF TypeInv, TypeOK, TypeSnd
  <2>5. /\ scntr' \in [Rank -> [SndCntr -> Control]]
        /\ \A q \in Rank, j \in SndCntr : ControlOK(scntr'[q][j])
        /\ wire' \in [Rank -> [Rank -> Seq(Op)]]
        /\ TypeTcq'
        /\ retired' \in [Rank -> [Rank -> Nat]]
    <3> HIDE DEF g, k, d
    <3> QED
      BY <1>1, <2>1, <2>3, <2>4, SendEngineType DEF TypeTcq
  <2>6. TypeSnd' /\ TypeNet'
    BY <1>10, <2>2, <2>5 DEF TypeInv, TypeOK, TypeSnd, TypeNet
  <2>7. \A q \in Rank, j \in SndCntr : ControlOK(scntr[q][j])'
    BY <2>5 DEF ControlOK
  <2> QED
    BY <1>5, <1>6, <1>8, <1>9, <2>5, <2>6, <2>7 DEF TypeInv, TypeOK
<1>14. CASE start /\ ~ egrmgt[p][d].sndok /\ ~ egrmgt[p][d].examed
  <2> DEFINE w == [f EXCEPT !.state = "REQ_ROOM"]
  <2>1. /\ scntr' = [scntr EXCEPT ![p][k] = w]
        /\ addreq' = [addreq EXCEPT ![p] = @ \cup {<<k, d>>}]
        /\ egrmgt' = [egrmgt EXCEPT ![p][d].examed = TRUE]
        /\ \E b : tcq' = [tcq EXCEPT ![p] = @ \ {b}]
        /\ UNCHANGED <<retired, tcq_count, wire>>
    BY <1>14 DEF SendPost
  <2>2. w \in Control /\ ControlOK(w)
    <3>1. u.dst \in Rank
      BY <1>2, <1>14 DEF ControlOK
    <3> HIDE DEF f, u
    <3> QED
      BY <1>3, <3>1 DEF Control, ControlOK, SState
  <2> HIDE DEF w, k, d
  <2>3. egrmgt' \in [Rank -> [Rank ->
          [examed : BOOLEAN, sndok : BOOLEAN, index : Ring]]]
    <3> DEFINE E == [examed : BOOLEAN, sndok : BOOLEAN, index : Ring]
               e == [egrmgt[p][d] EXCEPT !.examed = TRUE]
    <3>1. egrmgt \in [Rank -> [Rank -> E]]
      BY DEF TypeInv, TypeOK, TypeSnd
    <3>2. e \in E
      <4>1. egrmgt[p][d] \in E
        BY <1>1, <3>1
      <4> QED
        BY <4>1
    <3>3. egrmgt' = [egrmgt EXCEPT ![p][d] = e]
      BY <2>1
    <3> HIDE DEF E, e
    <3>4. egrmgt' \in [Rank -> [Rank -> E]]
      BY <1>1, <3>1, <3>2, <3>3
    <3> QED
      BY <3>4 DEF E
  <2>4. TypeSnd' /\ \A q \in Rank, j \in SndCntr : ControlOK(scntr[q][j])'
    <3>1. /\ scntr' \in [Rank -> [SndCntr -> Control]]
          /\ \A q \in Rank, j \in SndCntr : ControlOK(scntr[q][j])'
      BY <1>11, <2>1, <2>2
    <3> QED
      BY <1>10, <2>1, <2>3, <3>1 DEF TypeInv, TypeOK, TypeSnd
  <2>5. TypeNet'
    BY <1>1, <1>10, <2>1 DEF TypeInv, TypeOK, TypeNet
  <2>6. TypeTcq'
    BY <2>1 DEF TypeInv, TypeOK, TypeTcq
  <2> QED
    BY <1>5, <1>6, <1>8, <1>9, <2>4, <2>5, <2>6 DEF TypeInv, TypeOK
<1> QED
  BY <1>12, <1>13, <1>14, Zenon DEF SendPost

(* Every step keeps the invariant.                                         *)
LEMMA TypeNext ==
  ASSUME TypeInv, [Next]_vars
  PROVE  TypeInv'
<1>1. CASE UNCHANGED vars
  <2>1. TypeOK'
    BY <1>1, TypeKept DEF vars, TypeInv, TypeOK
  <2>2. \A p \in Rank : CallOK(p)'
    BY <1>1, CallKept DEF vars, appVars, procVars, sndVars
  <2>3. \A p \in Rank, k \in SndCntr : ControlOK(scntr[p][k])'
    BY <1>1, ControlsKept DEF vars, sndVars
  <2> QED
    BY <2>1, <2>2, <2>3 DEF TypeInv
<1>2. ASSUME NEW p \in Rank, NEW d \in Dests[p], NEW type \in Types,
             SendCall(p, d, type)
      PROVE  TypeInv'
  BY <1>2, SendCallType
<1>3. ASSUME NEW p \in Rank, ProgressCall(p) PROVE TypeInv'
  BY <1>3, ProgressCallType
<1>4. ASSUME NEW p \in Rank, SendAlloc(p) PROVE TypeInv'
  BY <1>4, SendAllocType
<1>5. ASSUME NEW p \in Rank, SendRetry(p) PROVE TypeInv'
  BY <1>5, SendRetryType
<1>6. ASSUME NEW p \in Rank, SendPost(p) PROVE TypeInv'
  BY <1>6, SendPostType
<1>7. ASSUME NEW p \in Rank, NEW k \in SndCntr, TcqStep(p, k) PROVE TypeInv'
  BY <1>7, TcqStepType
<1>8. ASSUME NEW p \in Rank, TcqEnd(p) PROVE TypeInv'
  BY <1>8, TcqEndType
<1>9. ASSUME NEW p \in Rank, ScanPkt(p) PROVE TypeInv'
  BY <1>9, ScanPktType
<1>10. ASSUME NEW p \in Rank, ScanNone(p) PROVE TypeInv'
  BY <1>10, ScanNoneType
<1>11. ASSUME NEW p \in Rank, ScanEnd(p) PROVE TypeInv'
  BY <1>11, MovesOnType DEF ScanEnd
<1>12. ASSUME NEW p \in Rank, MrqNotice(p) PROVE TypeInv'
  BY <1>12, MrqLclPutType, MrqLclArmwType, MrqRecvResetType DEF MrqNotice
<1>13. ASSUME NEW p \in Rank, MrqNone(p) PROVE TypeInv'
  BY <1>13, MovesOnType DEF MrqNone
<1>14. CASE Net
  BY <1>14, NetPutType, NetAddType DEF Net
<1> QED
  BY <1>1, <1>2, <1>3, <1>4, <1>5, <1>6, <1>7, <1>8, <1>9, <1>10, <1>11, <1>12,
     <1>13, <1>14 DEF Next, Library

(* No reachable state of the eager protocol, for any number of ranks,      *)
(* controls, slots, rings and messages and with or without a busy TOQ,     *)
(* leaves the types: every index the engine computes (micur, mient,        *)
(* recvidx, the ring's slot, the ring, the control in a notice) is inside  *)
(* its array.                                                              *)
THEOREM TypeCorrect == Spec => []TypeOK
<1>1. TypeInv => TypeOK
  BY DEF TypeInv
<1> QED
  BY <1>1, TypeInit, TypeNext, PTL DEF Spec

-----------------------------------------------------------------------------
(***************************************************************************)
(* No ring of a receiver is ever given to two senders: RoomInv is          *)
(* inductive together with ControlInv.  The counter of rooms of the        *)
(* receiver is below every ring that was given out, known to its sender or *)
(* still in the answer to a fetch-and-add.                                 *)
(***************************************************************************)

(* A control in use keeps its destination.                                 *)

Stable ==
  \A p \in Rank, k \in SndCntr : scntr[p][k].state # "FREE" =>
    scntr'[p][k].state # "FREE" /\ scntr'[p][k].dst = scntr[p][k].dst

(* A step that replaces one control, of the same destination if it was in  *)
(* use.                                                                    *)
LEMMA ReplacedStable ==
  ASSUME TypeInv, NEW p \in Rank, NEW k \in SndCntr, NEW w \in Control,
         scntr' = [scntr EXCEPT ![p][k] = w],
         scntr[p][k].state # "FREE" =>
           w.state # "FREE" /\ w.dst = scntr[p][k].dst
  PROVE  Stable
<1>1. \A q \in Rank, j \in SndCntr :
        scntr'[q][j] = IF q = p /\ j = k THEN w ELSE scntr[q][j]
  BY DEF TypeInv, TypeOK, TypeSnd
<1> QED
  BY <1>1 DEF Stable

(* utf_sendengine never frees a control nor redirects it.                  *)
LEMMA EngineStable ==
  ASSUME TypeInv, NEW p \in Rank, NEW k \in SndCntr, NEW u \in Control,
         ControlOK(u), NEW ridx, NEW b, NEW done,
         SendEngine(p, k, u, ridx, b, done),
         scntr[p][k].state # "FREE" =>
           u.state # "FREE" /\ u.dst = scntr[p][k].dst
  PROVE  Stable
<1>1. scntr' = [scntr EXCEPT ![p][k] = EngineResult(u)]
  BY DEF SendEngine
<1>2. /\ EngineResult(u) \in Control
      /\ EngineResult(u).dst = u.dst
      /\ u.state # "FREE" => EngineResult(u).state # "FREE"
  BY EngineType
<1> HIDE DEF Stable
<1> QED
  BY <1>1, <1>2, ReplacedStable

(* A step that leaves the controls alone.                                  *)
LEMMA KeptStable ==
  ASSUME UNCHANGED scntr
  PROVE  Stable
BY DEF Stable

(* The control utf_send posts on, and what it becomes.                     *)
LEMMA PostFacts ==
  ASSUME TypeInv, NEW p \in Rank, SendPost(p)
  PROVE  LET d == pend[p].dst
             k == rank2scntridx[p][d]
             u == scntr[p][k]
             f == Filled(p, u)
             g == [f EXCEPT !.state = "HAS_ROOM"]
             r == [f EXCEPT !.state = "REQ_ROOM"]
         IN  /\ d \in Rank /\ k \in SndCntr
             /\ u \in Control /\ ControlOK(u)
             /\ f \in Control /\ f.dst = u.dst /\ f.state = u.state
             /\ f.recvidx = u.recvidx
             /\ u.state = "NONE" =>
                  /\ g \in Control /\ ControlOK(g) /\ g.dst = u.dst
                  /\ g.state = "HAS_ROOM" /\ g.recvidx = u.recvidx
                  /\ r \in Control /\ ControlOK(r) /\ r.dst = u.dst
                  /\ r.state = "REQ_ROOM" /\ r.recvidx = u.recvidx
<1> DEFINE d == pend[p].dst
           k == rank2scntridx[p][d]
           u == scntr[p][k]
           f == Filled(p, u)
<1>1. d \in Rank /\ k \in SndCntr
  BY DEF SendPost, TypeInv, CallOK
<1>2. u \in Control /\ ControlOK(u)
  BY <1>1 DEF TypeInv, TypeOK, TypeSnd
<1>3. /\ f \in Control /\ f.dst = u.dst /\ f.state = u.state
      /\ f.recvidx = u.recvidx
  BY <1>1, <1>2, FilledType DEF TypeInv, TypeOK
<1>4. ASSUME u.state = "NONE", NEW s \in {"HAS_ROOM", "REQ_ROOM"}
      PROVE  LET g == [f EXCEPT !.state = s]
             IN  /\ g \in Control /\ ControlOK(g) /\ g.dst = u.dst
                 /\ g.state = s /\ g.recvidx = u.recvidx
  <2>1. u.dst \in Rank
    BY <1>2, <1>4 DEF ControlOK
  <2> HIDE DEF f, u
  <2> QED
    BY <1>3, <2>1 DEF Control, ControlOK, SState
<1> QED
  BY <1>1, <1>2, <1>3, <1>4, Zenon

(* Likewise for the answer to a request for a room and for a ring reset.   *)
LEMMA ArmwFacts ==
  ASSUME TypeInv, NEW p \in Rank, NEW k \in SndCntr,
         scntr[p][k].state = "REQ_ROOM"
  PROVE  LET u == scntr[p][k]
             g == [u EXCEPT !.state = "HAS_ROOM", !.recvidx = 0]
         IN  /\ u.dst \in Rank
             /\ g \in Control /\ ControlOK(g) /\ g.dst = u.dst
             /\ g.state = "HAS_ROOM" /\ g.recvidx = 0
<1>1. scntr[p][k] \in Control /\ ControlOK(scntr[p][k])
  BY DEF TypeInv, TypeOK, TypeSnd
<1>2. scntr[p][k].dst \in Rank
  BY <1>1 DEF ControlOK
<1>3. 0 \in 0 .. COM_RBUF_SIZE
  BY ConstAssumption
<1> QED
  BY <1>1, <1>2, <1>3 DEF Control, ControlOK, SState

(* The control whose ring was reset, and the state it takes up again.      *)
LEMMA ResetFacts ==
  ASSUME TypeInv, NEW p \in Rank, NEW k \in SndCntr
  PROVE  LET u == [scntr[p][k] EXCEPT !.recvidx = 0]
             g == [u EXCEPT !.state = u.ostate]
         IN  /\ u \in Control /\ ControlOK(u) /\ u.dst = scntr[p][k].dst
             /\ u.state = scntr[p][k].state /\ u.recvidx = 0
             /\ u.state = "WAIT_BUFREADY" =>
                  /\ g \in Control /\ ControlOK(g) /\ g.dst = u.dst
                  /\ g.state \in {"HAS_ROOM", "DO_EGR"} /\ g.recvidx = 0
<1> DEFINE u == [scntr[p][k] EXCEPT !.recvidx = 0]
           g == [u EXCEPT !.state = u.ostate]
<1>1. scntr[p][k] \in Control /\ ControlOK(scntr[p][k])
  BY DEF TypeInv, TypeOK, TypeSnd
<1>2. 0 \in 0 .. COM_RBUF_SIZE
  BY ConstAssumption
<1>3. /\ u \in Control /\ ControlOK(u) /\ u.dst = scntr[p][k].dst
      /\ u.state = scntr[p][k].state /\ u.recvidx = 0
  BY <1>1, <1>2 DEF Control, ControlOK
<1>4. ASSUME u.state = "WAIT_BUFREADY"
      PROVE  /\ g \in Control /\ ControlOK(g) /\ g.dst = u.dst
             /\ g.state \in {"HAS_ROOM", "DO_EGR"} /\ g.recvidx = 0
  <2> HIDE DEF u
  <2> QED
    BY <1>3, <1>4 DEF Control, ControlOK
<1> QED
  BY <1>3, <1>4

(* utf_send, after the control was found.                                  *)
LEMMA SendPostStable ==
  ASSUME TypeInv, NEW p \in Rank, SendPost(p)
  PROVE  Stable
<1> DEFINE d == pend[p].dst
           k == rank2scntridx[p][d]
           u == scntr[p][k]
           f == Filled(p, u)
           g == [f EXCEPT !.state = "HAS_ROOM"]
           r == [f EXCEPT !.state = "REQ_ROOM"]
<1>1. /\ d \in Rank /\ k \in SndCntr
      /\ f \in Control /\ f.dst = u.dst /\ f.state = u.state
      /\ u.state = "NONE" =>
           /\ g \in Control /\ ControlOK(g) /\ g.dst = u.dst /\ g.state = "HAS_ROOM"
           /\ r \in Control /\ r.dst = u.dst /\ r.state = "REQ_ROOM"
  BY PostFacts, Zenon
<1>2. \/ scntr' = [scntr EXCEPT ![p][k] = f]
      \/ u.state = "NONE" /\ scntr' = [scntr EXCEPT ![p][k] = r]
      \/ /\ u.state = "NONE"
         /\ \E b : SendEngine(p, k, g, egrmgt[p][d].index, b, FALSE)
  BY DEF SendPost
<1> HIDE DEF Stable, f, g, r, k, d
<1>3. CASE scntr' = [scntr EXCEPT ![p][k] = f]
  BY <1>1, <1>3, ReplacedStable
<1>4. CASE u.state = "NONE" /\ scntr' = [scntr EXCEPT ![p][k] = r]
  BY <1>1, <1>4, ReplacedStable
<1>5. CASE u.state = "NONE" /\ \E b : SendEngine(p, k, g, egrmgt[p][d].index, b, FALSE)
  BY <1>1, <1>5, EngineStable
<1> QED
  BY <1>2, <1>3, <1>4, <1>5

(* The notices and the transmit queue.                                     *)
LEMMA MrqStable ==
  ASSUME TypeInv, NEW p \in Rank, NEW k \in SndCntr
  PROVE  /\ MrqLclPut(p, k) => Stable
         /\ \A val : MrqLclArmw(p, k, val) => Stable
         /\ MrqRecvReset(p, k) => Stable
         /\ TcqStep(p, k) => Stable
<1> DEFINE u == scntr[p][k]
<1>1. u \in Control /\ ControlOK(u)
  BY DEF TypeInv, TypeOK, TypeSnd
<1>2. ASSUME NEW ridx, NEW b, NEW done, SendEngine(p, k, u, ridx, b, done)
      PROVE  Stable
  <2> HIDE DEF Stable
  <2> QED
    BY <1>1, <1>2, EngineStable
<1>3. MrqLclPut(p, k) => Stable
  <2>1. MrqLclPut(p, k) => \E b : SendEngine(p, k, u, egrmgt[p][u.dst].index, b, FALSE)
    BY DEF MrqLclPut
  <2> HIDE DEF Stable, u
  <2> QED
    BY <1>2, <2>1
<1>4. TcqStep(p, k) => Stable
  <2>1. TcqStep(p, k) => \E b : SendEngine(p, k, u, egrmgt[p][u.dst].index, b, TRUE)
    BY DEF TcqStep
  <2> HIDE DEF Stable, u
  <2> QED
    BY <1>2, <2>1
<1>5. ASSUME NEW val, MrqLclArmw(p, k, val) PROVE Stable
  <2> DEFINE g == [u EXCEPT !.state = "HAS_ROOM", !.recvidx = 0]
  <2>1. CASE u.state = "REQ_ROOM" /\ val >= 0
    <3>1. \E b : SendEngine(p, k, g, val, b, FALSE)
      BY <1>5, <2>1 DEF MrqLclArmw
    <3>2. g \in Control /\ ControlOK(g) /\ g.dst = u.dst /\ g.state = "HAS_ROOM"
      BY <2>1, ArmwFacts
    <3> HIDE DEF Stable, g
    <3> QED
      BY <3>1, <3>2, EngineStable
  <2>2. CASE ~ (u.state = "REQ_ROOM" /\ val >= 0)
    BY <1>5, <2>2, KeptStable DEF MrqLclArmw
  <2> QED
    BY <2>1, <2>2
<1>6. ASSUME MrqRecvReset(p, k) PROVE Stable
  <2> DEFINE w == [u EXCEPT !.recvidx = 0]
             g == [w EXCEPT !.state = w.ostate]
  <2>1. /\ w \in Control /\ w.dst = u.dst /\ w.state = u.state
        /\ w.state = "WAIT_BUFREADY" =>
             /\ g \in Control /\ ControlOK(g) /\ g.dst = w.dst
             /\ g.state \in {"HAS_ROOM", "DO_EGR"}
    BY ResetFacts
  <2>2. CASE w.state = "WAIT_BUFREADY"
    <3>1. \E b : SendEngine(p, k, g, egrmgt[p][w.dst].index, b, FALSE)
      BY <1>6, <2>2 DEF MrqRecvReset
    <3> HIDE DEF Stable, g, w
    <3> QED
      BY <2>1, <2>2, <3>1, EngineStable
  <2>3. CASE w.state # "WAIT_BUFREADY"
    <3>1. scntr' = [scntr EXCEPT ![p][k] = w]
      BY <1>6, <2>3 DEF MrqRecvReset
    <3> HIDE DEF Stable, w
    <3> QED
      BY <2>1, <3>1, ReplacedStable
  <2> QED
    BY <2>2, <2>3
<1> QED
  BY <1>3, <1>4, <1>5, <1>6

(* utf_scntr_alloc takes a control that was free.                          *)
LEMMA SendAllocStable ==
  ASSUME TypeInv, NEW p \in Rank, SendAlloc(p)
  PROVE  Stable
<1>1. CASE UNCHANGED scntr
  BY <1>1, KeptStable
<1>2. CASE ~ UNCHANGED scntr
  <2>1. PICK k \in FreeControls(p) : scntr' = [scntr EXCEPT ![p][k] =
                 [@ EXCEPT !.state = "NONE", !.dst = pend[p].dst, !.mient = 0]]
    BY <1>2 DEF SendAlloc
  <2>2. k \in SndCntr /\ scntr[p][k].state = "FREE"
    BY DEF FreeControls
  <2>3. \A q \in Rank, j \in SndCntr :
          (q # p \/ j # k) => scntr'[q][j] = scntr[q][j]
    BY <2>1, <2>2 DEF TypeInv, TypeOK, TypeSnd
  <2> QED
    BY <2>2, <2>3 DEF Stable
<1> QED
  BY <1>1, <1>2

-----------------------------------------------------------------------------
(* Rooms.                                                                  *)

(* The rings a rank was given: those it knows of, and those in an answer   *)
(* that it has not read yet.                                               *)
LEMMA InGranted ==
  ASSUME NEW p \in Rank, NEW q \in Rank, NEW v
  PROVE  v \in Granted(p, q) <=>
           \/ egrmgt[p][q].sndok /\ egrmgt[p][q].index = v
           \/ \E a \in lclarmw[p] : a[2] = v /\ scntr[p][a[1]].dst = q
BY DEF Granted

(* The same of the next state.                                             *)
LEMMA InGrantedNext ==
  ASSUME NEW p \in Rank, NEW q \in Rank, NEW v
  PROVE  v \in Granted(p, q)' <=>
           \/ egrmgt'[p][q].sndok /\ egrmgt'[p][q].index = v
           \/ \E a \in lclarmw'[p] : a[2] = v /\ scntr'[p][a[1]].dst = q
BY DEF Granted

(* a step that gives out no room and learns of none                        *)
LEMMA RoomKept ==
  ASSUME TypeInv, ControlInv, RoomInv, Stable, UNCHANGED <<lclarmw, cntr>>,
         \A p, q \in Rank : /\ egrmgt'[p][q].sndok = egrmgt[p][q].sndok
                            /\ egrmgt'[p][q].index = egrmgt[p][q].index
  PROVE  RoomInv'
<1>1. \A p \in Rank : \A a \in lclarmw[p] :
        scntr'[p][a[1]].dst = scntr[p][a[1]].dst
  BY DEF Stable, ControlInv, TypeInv, TypeOK, TypeMrq
<1>2. \A p, q \in Rank : \A v : v \in Granted(p, q)' <=> v \in Granted(p, q)
  BY <1>1, InGranted, InGrantedNext
<1> QED
  BY <1>2 DEF RoomInv

(* A step that adds neither a request for a room nor an answer.            *)
LEMMA ControlKept ==
  ASSUME TypeInv, ControlInv, Stable, UNCHANGED rank2scntridx,
         \A p \in Rank : addreq'[p] \subseteq addreq[p],
         \A p \in Rank : lclarmw'[p] \subseteq lclarmw[p]
  PROVE  ControlInv'
<1>1. \A p, q \in Rank : rank2scntridx[p][q] # None =>
        rank2scntridx[p][q] \in SndCntr
  BY DEF TypeInv, TypeOK, TypeSnd
<1>2. /\ \A p \in Rank : \A a \in addreq[p] : a[1] \in SndCntr
      /\ \A p \in Rank : \A a \in lclarmw[p] : a[1] \in SndCntr
  BY DEF TypeInv, TypeOK, TypeMrq, TypeNet
<1> QED
  BY <1>1, <1>2 DEF ControlInv, Stable

(* utf_scntr_alloc gives the destination a free control.                   *)
LEMMA SendAllocRoom ==
  ASSUME TypeInv, ControlInv, RoomInv, NEW p \in Rank, SendAlloc(p)
  PROVE  ControlInv' /\ RoomInv'
<1>1. Stable
  BY SendAllocStable
<1>2. RoomInv'
  <2>1. UNCHANGED <<lclarmw, cntr, egrmgt>>
    BY DEF SendAlloc, mrqVars, netVars
  <2> HIDE DEF Stable
  <2> QED
    BY <1>1, <2>1, RoomKept
<1>3. UNCHANGED <<addreq, lclarmw>>
  BY DEF SendAlloc, mrqVars, netVars
<1>4. CASE UNCHANGED rank2scntridx
  <2> HIDE DEF Stable
  <2> QED
    BY <1>1, <1>2, <1>3, <1>4, ControlKept
<1>5. CASE ~ UNCHANGED rank2scntridx
  <2> DEFINE d == pend[p].dst
  <2>1. d \in Rank
    BY Zenon DEF SendAlloc, TypeInv, CallOK
  <2>2. PICK k \in FreeControls(p) :
          /\ rank2scntridx' = [rank2scntridx EXCEPT ![p][d] = k]
          /\ scntr' = [scntr EXCEPT ![p][k] =
                 [@ EXCEPT !.state = "NONE", !.dst = d, !.mient = 0]]
    BY <1>5 DEF SendAlloc
  <2>3. k \in SndCntr
    BY DEF FreeControls
  <2>4. scntr[p][k] \in Control
    BY <2>3 DEF TypeInv, TypeOK, TypeSnd
  <2>5. scntr'[p][k] = [scntr[p][k] EXCEPT !.state = "NONE", !.dst = d, !.mient = 0]
    BY <2>2, <2>3 DEF TypeInv, TypeOK, TypeSnd
  <2>6. scntr'[p][k].state = "NONE" /\ scntr'[p][k].dst = d
    BY <2>4, <2>5 DEF Control
  <2>7. \A p1, q1 \in Rank : rank2scntridx'[p1][q1] =
          IF p1 = p /\ q1 = d THEN k ELSE rank2scntridx[p1][q1]
    BY <2>1, <2>2 DEF TypeInv, TypeOK, TypeSnd
  <2> HIDE DEF d
  <2>8. ASSUME NEW p1 \in Rank, NEW q1 \in Rank, rank2scntridx'[p1][q1] # None
        PROVE  /\ scntr'[p1][rank2scntridx'[p1][q1]].state # "FREE"
               /\ scntr'[p1][rank2scntridx'[p1][q1]].dst = q1
    <3>1. CASE p1 = p /\ q1 = d
      BY <2>6, <2>7, <3>1
    <3>2. CASE ~ (p1 = p /\ q1 = d)
      <4>1. rank2scntridx'[p1][q1] = rank2scntridx[p1][q1]
        BY <2>7, <3>2
      <4>2. rank2scntridx[p1][q1] \in SndCntr
        BY <2>8, <4>1 DEF TypeInv, TypeOK, TypeSnd
      <4> QED
        BY <1>1, <2>8, <4>1, <4>2 DEF ControlInv, Stable
    <3> QED
      BY <3>1, <3>2
  <2>9. /\ \A p1 \in Rank : \A a \in addreq[p1] : a[1] \in SndCntr
        /\ \A p1 \in Rank : \A a \in lclarmw[p1] : a[1] \in SndCntr
    BY DEF TypeInv, TypeOK, TypeMrq, TypeNet
  <2>10. /\ \A p1 \in Rank : \A a \in addreq'[p1] :
              scntr'[p1][a[1]].state # "FREE" /\ scntr'[p1][a[1]].dst = a[2]
         /\ \A p1 \in Rank : \A a \in lclarmw'[p1] : scntr'[p1][a[1]].state # "FREE"
    BY <1>1, <1>3, <2>9 DEF ControlInv, Stable
  <2> QED
    BY <1>2, <2>8, <2>10 DEF ControlInv
<1> QED
  BY <1>2, <1>4, <1>5

(* utf_send_start asks for a room at the control's own destination.        *)
LEMMA SendPostRoom ==
  ASSUME TypeInv, ControlInv, RoomInv, NEW p \in Rank, SendPost(p)
  PROVE  ControlInv' /\ RoomInv'
<1> DEFINE d == pend[p].dst
           k == rank2scntridx[p][d]
<1>1. Stable
  BY SendPostStable
<1>2. d \in Rank /\ k \in SndCntr
  BY PostFacts, Zenon
<1>3. UNCHANGED <<lclarmw, cntr, rank2scntridx>>
  BY DEF SendPost, mrqVars
<1>4. \A p1, q1 \in Rank : /\ egrmgt'[p1][q1].sndok = egrmgt[p1][q1].sndok
                           /\ egrmgt'[p1][q1].index = egrmgt[p1][q1].index
  <2>1. egrmgt' = egrmgt \/ egrmgt' = [egrmgt EXCEPT ![p][d].examed = TRUE]
    BY DEF SendPost
  <2> HIDE DEF d
  <2> DEFINE Egr == [examed : BOOLEAN, sndok : BOOLEAN, index : Ring]
  <2>2. egrmgt \in [Rank -> [Rank -> Egr]]
    BY DEF TypeInv, TypeOK, TypeSnd
  <2>3. \A r \in Egr : LET r2 == [r EXCEPT !.examed = TRUE]
                       IN  r2.sndok = r.sndok /\ r2.index = r.index
    OBVIOUS
  <2>4. CASE egrmgt' = [egrmgt EXCEPT ![p][d].examed = TRUE]
    <3>1. \A p1, q1 \in Rank : egrmgt'[p1][q1] =
            IF p1 = p /\ q1 = d THEN [egrmgt[p][d] EXCEPT !.examed = TRUE]
            ELSE egrmgt[p1][q1]
      <4> HIDE DEF Egr
      <4> QED BY <1>2, <2>2, <2>4
    <3>2. egrmgt[p][d] \in Egr
      <4> HIDE DEF Egr
      <4> QED BY <1>2, <2>2
    <3> HIDE DEF Egr
    <3> QED
      BY <2>3, <3>1, <3>2, ZenonT(40)
  <2> QED
    BY <2>1, <2>4
<1>5. RoomInv'
  <2> HIDE DEF Stable
  <2> QED
    BY <1>1, <1>3, <1>4, RoomKept
<1>6. k # None
  BY <1>2 DEF SndCntr, None
<1>7. scntr'[p][k].state # "FREE" /\ scntr'[p][k].dst = d
  BY <1>1, <1>2, <1>6 DEF ControlInv, Stable
<1>8. \A p1 \in Rank : \A a \in addreq'[p1] :
        a \in addreq[p1] \/ (p1 = p /\ a = <<k, d>>)
  <2>1. addreq' = addreq \/ addreq' = [addreq EXCEPT ![p] = @ \cup {<<k, d>>}]
    BY DEF SendPost
  <2> HIDE DEF k, d
  <2> QED
    BY <2>1 DEF TypeInv, TypeOK, TypeNet
<1>9. \A p1, q1 \in Rank : rank2scntridx[p1][q1] # None =>
        rank2scntridx[p1][q1] \in SndCntr
  BY DEF TypeInv, TypeOK, TypeSnd
<1>10. /\ \A p1 \in Rank : \A a \in addreq[p1] : a[1] \in SndCntr
       /\ \A p1 \in Rank : \A a \in lclarmw[p1] : a[1] \in SndCntr
  BY DEF TypeInv, TypeOK, TypeMrq, TypeNet
<1> HIDE DEF k, d
<1>11. \A p1 \in Rank : \A a \in addreq'[p1] :
         scntr'[p1][a[1]].state # "FREE" /\ scntr'[p1][a[1]].dst = a[2]
  BY <1>1, <1>7, <1>8, <1>10 DEF ControlInv, Stable
<1>12. ControlInv'
  BY <1>1, <1>3, <1>9, <1>10, <1>11 DEF ControlInv, Stable
<1> QED
  BY <1>5, <1>12

(* The fetch-and-add gives out the ring head.cntr stood for.               *)
LEMMA NetAddRoom ==
  ASSUME TypeInv, ControlInv, RoomInv, NEW p \in Rank, NEW k \in SndCntr,
         NEW q \in Rank, NetAdd(p, k, q)
  PROVE  ControlInv' /\ RoomInv'
<1>1. UNCHANGED <<scntr, rank2scntridx, egrmgt>>
  BY DEF NetAdd, sndVars
<1>2. scntr[p][k].state # "FREE" /\ scntr[p][k].dst = q
  BY DEF NetAdd, ControlInv
<1>3. \A p1 \in Rank : \A a :
        a \in lclarmw'[p1] <=> a \in lclarmw[p1] \/ (p1 = p /\ a = <<k, cntr[q]>>)
  BY DEF NetAdd, TypeInv, TypeOK, TypeMrq
<1>4. \A q1 \in Rank : cntr'[q1] = IF q1 = q THEN cntr[q] - 1 ELSE cntr[q1]
  BY DEF NetAdd, TypeInv, TypeOK, TypeNet
<1>5. \A p1 \in Rank : addreq'[p1] \subseteq addreq[p1]
  BY DEF NetAdd, TypeInv, TypeOK, TypeNet
<1>6. ControlInv'
  BY <1>1, <1>2, <1>3, <1>5 DEF ControlInv
<1>7. \A p1, q1 \in Rank : \A v :
        v \in Granted(p1, q1)' <=>
          v \in Granted(p1, q1) \/ (p1 = p /\ q1 = q /\ v = cntr[q])
  <2> SUFFICES ASSUME NEW p1 \in Rank, NEW q1 \in Rank, NEW v
               PROVE  (\E a \in lclarmw'[p1] : a[2] = v /\ scntr[p1][a[1]].dst = q1)
                        <=> \/ \E a \in lclarmw[p1] :
                                 a[2] = v /\ scntr[p1][a[1]].dst = q1
                            \/ p1 = p /\ q1 = q /\ v = cntr[q]
    BY <1>1, InGranted, InGrantedNext
  <2> DEFINE new == <<k, cntr[q]>>
  <2>1. new[1] = k /\ new[2] = cntr[q]
    OBVIOUS
  <2>2. \A a : a \in lclarmw'[p1] <=> a \in lclarmw[p1] \/ (p1 = p /\ a = new)
    BY <1>3
  <2> HIDE DEF new
  <2> QED
    BY <1>2, <2>1, <2>2
<1>8. \A p1, q1 \in Rank : Granted(p1, q1) \subseteq Int
  <2>1. \A p1, q1 \in Rank : egrmgt[p1][q1].index \in Int
    BY ConstAssumption DEF TypeInv, TypeOK, TypeSnd, Ring
  <2>2. \A p1 \in Rank : \A a \in lclarmw[p1] : a[2] \in Int
    BY DEF TypeInv, TypeOK, TypeMrq, Count
  <2> QED
    BY <2>1, <2>2, InGranted
<1>9. \A q1 \in Rank : cntr[q1] \in Int
  BY DEF TypeInv, TypeOK, TypeNet, Count
<1>10. RoomInv'
  <2> SUFFICES ASSUME NEW p1 \in Rank, NEW q1 \in Rank, NEW v \in Granted(p1, q1)'
               PROVE  /\ v > cntr'[q1]
                      /\ \A p2 \in Rank \ {p1} : v \notin Granted(p2, q1)'
    BY DEF RoomInv
  <2>1. CASE v \in Granted(p1, q1)
    <3>1. v > cntr[q1] /\ \A p2 \in Rank \ {p1} : v \notin Granted(p2, q1)
      BY <2>1 DEF RoomInv
    <3>2. v \in Int
      BY <1>8, <2>1
    <3> QED
      BY <1>4, <1>7, <1>9, <3>1, <3>2
  <2>2. CASE v \notin Granted(p1, q1)
    <3>1. p1 = p /\ q1 = q /\ v = cntr[q]
      BY <1>7, <2>2
    <3>2. \A p2 \in Rank : v \notin Granted(p2, q)
      BY <1>9, <3>1 DEF RoomInv
    <3> QED
      BY <1>4, <1>7, <1>9, <3>1, <3>2
  <2> QED
    BY <2>1, <2>2
<1> QED
  BY <1>6, <1>10

(* The answer moves from the notice to utf_egrmgt[].                       *)
LEMMA MrqLclArmwRoom ==
  ASSUME TypeInv, ControlInv, RoomInv, NEW p \in Rank, NEW k \in SndCntr,
         NEW val, MrqLclArmw(p, k, val)
  PROVE  ControlInv' /\ RoomInv'
<1> DEFINE q == scntr[p][k].dst
<1>1. Stable
  BY MrqStable
<1>2. UNCHANGED <<rank2scntridx, addreq, cntr>>
  BY DEF MrqLclArmw
<1>3. \A p1 \in Rank : lclarmw'[p1] \subseteq lclarmw[p1]
  BY DEF MrqLclArmw, TypeInv, TypeOK, TypeMrq
<1>4. ControlInv'
  <2> HIDE DEF Stable
  <2> QED
    BY <1>1, <1>2, <1>3, ControlKept
<1>5. <<k, val>> \in lclarmw[p]
  BY DEF MrqLclArmw
<1>6. \A p1, q1 \in Rank :
        \/ egrmgt'[p1][q1] = egrmgt[p1][q1]
        \/ p1 = p /\ q1 = q /\ egrmgt'[p1][q1].index = val
  <2>1. CASE egrmgt' = egrmgt
    BY <2>1
  <2>2. CASE egrmgt' # egrmgt
    <3>1. egrmgt' = [egrmgt EXCEPT ![p][q] =
                       [@ EXCEPT !.sndok = TRUE, !.index = val]]
      BY <2>2 DEF MrqLclArmw
    <3>2. scntr[p][k].state = "REQ_ROOM"
      BY <2>2 DEF MrqLclArmw
    <3>3. q \in Rank
      BY <3>2, ArmwFacts
    <3> DEFINE Egr == [examed : BOOLEAN, sndok : BOOLEAN, index : Ring]
    <3>4. egrmgt \in [Rank -> [Rank -> Egr]]
      BY DEF TypeInv, TypeOK, TypeSnd
    <3>5. \A r \in Egr : [r EXCEPT !.sndok = TRUE, !.index = val].index = val
      OBVIOUS
    <3> HIDE DEF Egr, q
    <3> QED
      BY <3>1, <3>3, <3>4, <3>5
  <2> QED
    BY <2>1, <2>2
<1>7. \A p1 \in Rank : \A a \in lclarmw[p1] :
        scntr'[p1][a[1]].dst = scntr[p1][a[1]].dst
  BY <1>1 DEF Stable, ControlInv, TypeInv, TypeOK, TypeMrq
<1>8. \A p1, q1 \in Rank : \A v : v \in Granted(p1, q1)' => v \in Granted(p1, q1)
  <2> SUFFICES ASSUME NEW p1 \in Rank, NEW q1 \in Rank, NEW v, v \in Granted(p1, q1)'
               PROVE  v \in Granted(p1, q1)
    OBVIOUS
  <2>1. CASE egrmgt'[p1][q1].sndok /\ egrmgt'[p1][q1].index = v
    <3>1. CASE egrmgt'[p1][q1] = egrmgt[p1][q1]
      BY <2>1, <3>1, InGranted
    <3>2. CASE p1 = p /\ q1 = q /\ v = val
      <4>1. \E a \in lclarmw[p] : a[2] = v /\ scntr[p][a[1]].dst = q1
        <5>1. <<k, val>>[2] = v /\ scntr[p][<<k, val>>[1]].dst = q1
          BY <3>2
        <5> QED
          BY <1>5, <5>1
      <4> QED
        BY <3>2, <4>1, InGranted
    <3> HIDE DEF q
    <3> QED
      BY <1>6, <2>1, <3>1, <3>2
  <2>2. CASE \E a \in lclarmw'[p1] : a[2] = v /\ scntr'[p1][a[1]].dst = q1
    BY <1>3, <1>7, <2>2, InGranted
  <2> QED
    BY <2>1, <2>2, InGrantedNext
<1>9. RoomInv'
  BY <1>2, <1>8 DEF RoomInv
<1> QED
  BY <1>4, <1>9

(* Every other step leaves rooms and their owners alone.                   *)
LEMMA OtherRoom ==
  ASSUME TypeInv, ControlInv, RoomInv, Stable,
         UNCHANGED <<rank2scntridx, egrmgt, lclarmw, addreq, cntr>>
  PROVE  ControlInv' /\ RoomInv'
<1> HIDE DEF Stable
<1> QED
  BY RoomKept, ControlKept

(* Every step keeps the two invariants.                                    *)
LEMMA RoomNext ==
  ASSUME TypeInv, ControlInv, RoomInv, [Next]_vars
  PROVE  ControlInv' /\ RoomInv'
<1> DEFINE Kept == UNCHANGED <<rank2scntridx, egrmgt, lclarmw, addreq, cntr>>
           Goal == ControlInv' /\ RoomInv'
<1>1. Kept /\ UNCHANGED scntr => Goal
  BY KeptStable, OtherRoom
<1>2. ASSUME UNCHANGED vars PROVE Goal
  BY <1>1, <1>2 DEF vars, sndVars, mrqVars, netVars
<1>3. ASSUME NEW p \in Rank, NEW d \in Dests[p], NEW type \in Types,
             SendCall(p, d, type)
      PROVE  Goal
  <2>1. Kept /\ UNCHANGED scntr
    BY <1>3 DEF SendCall, sndVars, mrqVars, netVars
  <2> QED
    BY <1>1, <2>1
<1>4. ASSUME NEW p \in Rank,
             \/ ProgressCall(p) \/ SendRetry(p) \/ TcqEnd(p)
             \/ ScanNone(p) \/ ScanEnd(p) \/ MrqNone(p)
      PROVE  Goal
  <2>1. Kept /\ UNCHANGED scntr
    BY <1>4, Zenon DEF ProgressCall, SendRetry, TcqEnd, ScanNone, ScanEnd, MrqNone,
                sndVars, mrqVars, netVars
  <2> QED
    BY <1>1, <2>1
<1>5. ASSUME NEW p \in Rank, ScanPkt(p) PROVE Goal
  <2>1. Kept /\ UNCHANGED scntr
    BY <1>5 DEF ScanPkt, sndVars, netVars
  <2> QED
    BY <1>1, <2>1
<1>6. ASSUME NEW p \in Rank, NEW q \in Rank, NetPut(p, q) PROVE Goal
  <2>1. Kept /\ UNCHANGED scntr
    BY <1>6 DEF NetPut, sndVars
  <2> QED
    BY <1>1, <2>1
<1>7. ASSUME NEW p \in Rank, NEW k \in SndCntr,
             TcqStep(p, k) \/ MrqLclPut(p, k) \/ MrqRecvReset(p, k)
      PROVE  Goal
  <2>1. Kept
    BY <1>7 DEF TcqStep, MrqLclPut, MrqRecvReset, mrqVars
  <2>2. Stable
    BY <1>7, MrqStable
  <2> HIDE DEF Stable
  <2> QED
    BY <2>1, <2>2, OtherRoom
<1>8. ASSUME NEW p \in Rank, NEW k \in SndCntr, NEW val, MrqLclArmw(p, k, val)
      PROVE  Goal
  BY <1>8, MrqLclArmwRoom
<1>9. ASSUME NEW p \in Rank, MrqNotice(p) PROVE Goal
  <2> HIDE DEF Goal
  <2> QED
    BY <1>7, <1>8, <1>9 DEF MrqNotice
<1>10. ASSUME NEW p \in Rank, SendAlloc(p) \/ SendPost(p) PROVE Goal
  BY <1>10, SendAllocRoom, SendPostRoom
<1>11. ASSUME Net PROVE Goal
  <2>1. ASSUME NEW p \in Rank, NEW q \in Rank, NEW k \in SndCntr, NetAdd(p, k, q)
        PROVE  Goal
    BY <2>1, NetAddRoom
  <2> HIDE DEF Goal
  <2> QED
    BY <1>6, <1>11, <2>1 DEF Net
<1> HIDE DEF Goal
<1>12. Goal
  BY <1>2, <1>3, <1>4, <1>5, <1>7, <1>9, <1>10, <1>11 DEF Next, Library
<1> QED
  BY <1>12 DEF Goal

(* No rank has been given a ring at the start.                             *)
LEMMA RoomInit == Init => ControlInv /\ RoomInv
<1> SUFFICES ASSUME Init PROVE ControlInv /\ RoomInv
  OBVIOUS
<1>1. /\ \A p, q \in Rank : rank2scntridx[p][q] = None
      /\ \A p \in Rank : addreq[p] = {} /\ lclarmw[p] = {}
      /\ \A p, q \in Rank : egrmgt[p][q].sndok = FALSE
  BY DEF Init
<1>2. \A p, q \in Rank : Granted(p, q) = {}
  BY <1>1 DEF Granted
<1> QED
  BY <1>1, <1>2 DEF ControlInv, RoomInv

(* For any number of ranks asking any number of peers for a ring, with or  *)
(* without a busy TOQ: no two of them are given one ring of a rank, and a  *)
(* given ring is above that rank's counter, so that utf_progress peeks it. *)
THEOREM RoomsExclusive == Spec => []RoomExclusive
<1>1. ControlInv /\ RoomInv => RoomExclusive
  <2> SUFFICES ASSUME RoomInv, NEW p \in Rank, NEW q \in Rank, egrmgt[p][q].sndok
               PROVE  /\ egrmgt[p][q].index > cntr[q]
                      /\ \A p2 \in Rank \ {p} : egrmgt[p2][q].sndok =>
                           egrmgt[p2][q].index # egrmgt[p][q].index
    BY DEF RoomExclusive
  <2>1. egrmgt[p][q].index \in Granted(p, q)
    BY InGranted
  <2>2. \A p2 \in Rank : egrmgt[p2][q].sndok => egrmgt[p2][q].index \in Granted(p2, q)
    BY InGranted
  <2> QED
    BY <2>1, <2>2 DEF RoomInv
<1>2. TypeInv /\ ControlInv /\ RoomInv /\ [Next]_vars
        => TypeInv' /\ ControlInv' /\ RoomInv'
  BY TypeNext, RoomNext
<1>3. Init => TypeInv /\ ControlInv /\ RoomInv
  BY TypeInit, RoomInit
<1> QED
  BY <1>1, <1>2, <1>3, PTL DEF Spec
=============================================================================
