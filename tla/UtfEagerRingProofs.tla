------------------------- MODULE UtfEagerRingProofs -------------------------
(***************************************************************************)
(* When a rank uses one control, no packet of a ring is overwritten        *)
(* before it was read: RingInv is inductive.  The sender's recvidx counts  *)
(* the slots it used since the last reset, the last of them are in flight, *)
(* the others have landed; the receiver's recvidx is behind, or the ring   *)
(* is empty again and the reset notice is on its way.                      *)
(***************************************************************************)
EXTENDS UtfEagerProofs

(* what is inductive                                                       *)
RingIInv == TypeInv /\ ControlInv /\ RoomInv /\ OneControl /\ Rings

-----------------------------------------------------------------------------
(* The engine.                                                             *)

(* What a run of utf_sendengine does to control k of p and to the wire.    *)
LEMMA EngineEffect ==
  ASSUME TypeInv, NEW p \in Rank, NEW k \in SndCntr, NEW u \in Control,
         ControlOK(u), NEW ridx \in Ring, NEW b, NEW done,
         SendEngine(p, k, u, ridx, b, done)
  PROVE  /\ scntr'[p][k] = EngineResult(u)
         /\ \A j \in SndCntr : j # k => scntr'[p][j] = scntr[p][j]
         /\ \A r \in Rank : r # p => scntr'[r] = scntr[r] /\ wire'[r] = wire[r]
         /\ \A q \in Rank : q # u.dst => wire'[p][q] = wire[p][q]
         /\ ~ Puts(u) => wire' = wire
         /\ Puts(u) => /\ u.dst \in Rank
                       /\ PutOp(p, k, u, ridx) \in Op
                       /\ wire'[p][u.dst] = Append(wire[p][u.dst], PutOp(p, k, u, ridx))
<1>1. scntr' = [scntr EXCEPT ![p][k] = EngineResult(u)]
  BY DEF SendEngine
<1>2. /\ scntr'[p][k] = EngineResult(u)
      /\ \A j \in SndCntr : j # k => scntr'[p][j] = scntr[p][j]
      /\ \A r \in Rank : r # p => scntr'[r] = scntr[r]
  BY <1>1 DEF TypeInv, TypeOK, TypeSnd
<1>3. CASE ~ Puts(u)
  BY <1>2, <1>3 DEF SendEngine
<1>4. CASE Puts(u)
  <2>1. u.dst \in Rank /\ PutOp(p, k, u, ridx) \in Op
    BY <1>4, EngineType, PutOpType
  <2>2. wire' = [wire EXCEPT ![p][u.dst] = Append(@, PutOp(p, k, u, ridx))]
    BY <1>4 DEF SendEngine
  <2>3. wire \in [Rank -> [Rank -> Seq(Op)]]
    BY DEF TypeInv, TypeOK, TypeNet
  <2> QED
    BY <1>2, <1>4, <2>1, <2>2, <2>3
<1> QED
  BY <1>3, <1>4

(* In the states in which a control waits for no completion, an event for  *)
(* it is ignored.                                                          *)
LEMMA EngineIdle ==
  ASSUME NEW u, u.state \in {"FREE", "NONE", "REQ_ROOM"}
  PROVE  EngineResult(u) = u /\ ~ Puts(u)
BY DEF EngineResult, Puts, Prepared, Retires, Sending

(* A control that has a ring keeps it.                                     *)
LEMMA EngineKeepsRing ==
  ASSUME NEW u \in Control, ControlOK(u), u.state \notin {"FREE", "REQ_ROOM"}
  PROVE  EngineResult(u).state \notin {"FREE", "REQ_ROOM"}
<1> DEFINE v == Prepared(u)
<1>1. v \in Control /\ ControlOK(v) /\ v.state \notin {"FREE", "REQ_ROOM"}
  BY PreparedType, NextEntryType DEF Prepared
<1>2. EngineResult(u) = IF Sending(v) /\ ~ EngineFault(u) THEN Transmit(v) ELSE v
  BY DEF EngineResult
<1> HIDE DEF v
<1>3. ASSUME Sending(v) PROVE Transmit(v).state \notin {"FREE", "REQ_ROOM"}
  <2>1. v.state \in SState
    BY <1>1 DEF Control
  <2> DEFINE sent == IF v.state = "HAS_ROOM" THEN 1 ELSE v.usize + 1
             st == IF v.mi[v.micur].cntrtype = "RENDEZOUS" THEN "REQ_RDVR"
                   ELSE IF sent = NPkt(v.mi[v.micur].cntrtype) THEN "DONE_EGR"
                   ELSE "DO_EGR"
  <2>2. Transmit(v) = IF ~ HasSlot(v)
                      THEN [v EXCEPT !.ostate = v.state, !.state = "WAIT_BUFREADY"]
                      ELSE [v EXCEPT !.recvidx = @ + 1, !.usize = sent, !.state = st]
    BY DEF Transmit
  <2>3. st \in {"REQ_RDVR", "DONE_EGR", "DO_EGR"}
    OBVIOUS
  <2> HIDE DEF sent, st
  <2> QED
    BY <1>1, <2>2, <2>3 DEF Control
<1> QED
  BY <1>1, <1>2, <1>3

(* One more packet of p on the way to its ring v, which has a slot left.   *)
LEMMA AppendInFlight ==
  ASSUME NEW p, NEW v, NEW s \in Nat, NEW ops \in Seq(Op), NEW op \in Op,
         InFlight(p, v, s, ops),
         op.ridx = v, op.slot = s, op.pkt.src = p, op.pkt.sidx = 0
  PROVE  InFlight(p, v, s + 1, Append(ops, op)) /\ Len(Append(ops, op)) = Len(ops) + 1
<1>1. /\ Len(ops) \in Nat /\ Len(Append(ops, op)) = Len(ops) + 1
      /\ \A i \in 1 .. Len(ops) : Append(ops, op)[i] = ops[i]
      /\ Append(ops, op)[Len(ops) + 1] = op
  OBVIOUS
<1>2. ASSUME NEW i \in 1 .. Len(ops) + 1
      PROVE  LET o == Append(ops, op)[i]
             IN  /\ o.ridx = v /\ o.slot = (s + 1) - (Len(ops) + 1) + i - 1
                 /\ o.pkt.src = p /\ o.pkt.sidx = 0
  <2>1. CASE i \in 1 .. Len(ops)
    BY <1>1, <2>1 DEF InFlight
  <2>2. CASE i = Len(ops) + 1
    BY <1>1, <2>2
  <2> QED
    BY <1>1, <2>1, <2>2
<1> QED
  BY <1>1, <1>2 DEF InFlight

(* The put that has landed was the first.                                  *)
LEMMA TailInFlight ==
  ASSUME NEW p, NEW v, NEW s \in Nat, NEW ops \in Seq(Op), ops # <<>>,
         InFlight(p, v, s, ops)
  PROVE  /\ InFlight(p, v, s, Tail(ops)) /\ Len(Tail(ops)) = Len(ops) - 1
         /\ Head(ops) \in Op /\ Head(ops).ridx = v /\ Head(ops).slot = s - Len(ops)
         /\ Head(ops).pkt.src = p /\ Head(ops).pkt.sidx = 0
<1>1. /\ Len(ops) \in Nat \ {0} /\ Len(Tail(ops)) = Len(ops) - 1
      /\ \A i \in 1 .. Len(ops) - 1 : Tail(ops)[i] = ops[i + 1]
      /\ Head(ops) = ops[1] /\ ops[1] \in Op
  OBVIOUS
<1>2. ASSUME NEW i \in 1 .. Len(ops) - 1
      PROVE  LET o == Tail(ops)[i]
             IN  /\ o.ridx = v /\ o.slot = s - (Len(ops) - 1) + i - 1
                 /\ o.pkt.src = p /\ o.pkt.sidx = 0
  <2>1. i + 1 \in 1 .. Len(ops)
    BY <1>1
  <2> QED
    BY <1>1, <2>1 DEF InFlight
<1>3. 1 \in 1 .. Len(ops)
  BY <1>1
<1> QED
  BY <1>1, <1>2, <1>3 DEF InFlight

(* A run of the engine on a control that has ring v, from a state in which *)
(* its packets are where they should be.                                   *)
LEMMA EngineOwned ==
  ASSUME TypeInv, NEW p \in Rank, NEW u \in Control, ControlOK(u), 0 \in SndCntr,
         NEW v \in Ring, NEW b, NEW done, NEW c,
         SendEngine(p, 0, u, v, b, done), u.dst \in Rank,
         InFlight(p, v, u.recvidx, wire[p][u.dst]),
         Landed(p, u.recvidx - Len(wire[p][u.dst]),
                rcntr[u.dst][v], rbuf[u.dst][v], c)
  PROVE  LET s == scntr'[p][0].recvidx
             ops == wire'[p][u.dst]
         IN  /\ InFlight(p, v, s, ops)
             /\ Landed(p, s - Len(ops), rcntr[u.dst][v], rbuf[u.dst][v], c)
<1> DEFINE ops == wire[p][u.dst]
           op == PutOp(p, 0, u, v)
<1>1. ops \in Seq(Op) /\ Len(ops) \in Nat
  BY DEF TypeInv, TypeOK, TypeNet
<1>2. u.recvidx \in Nat
  BY ConstAssumption DEF Control
<1>3. CASE ~ Puts(u)
  <2>1. scntr'[p][0].recvidx = u.recvidx /\ wire'[p][u.dst] = ops
    BY <1>3, EngineEffect, EngineType
  <2> QED
    BY <2>1
<1>4. CASE Puts(u)
  <2>1. /\ op \in Op /\ op.ridx = v /\ op.slot = u.recvidx
        /\ op.pkt.src = p /\ op.pkt.sidx = 0
    BY <1>4, PutOpType
  <2>2. /\ scntr'[p][0].recvidx = u.recvidx + 1
        /\ wire'[p][u.dst] = Append(ops, op)
    BY <1>4, EngineEffect, EngineType
  <2> HIDE DEF op, ops
  <2>3. /\ InFlight(p, v, u.recvidx + 1, Append(ops, op))
        /\ Len(Append(ops, op)) = Len(ops) + 1
    BY <1>1, <1>2, <2>1, AppendInFlight DEF ops
  <2>4. (u.recvidx + 1) - (Len(ops) + 1) = u.recvidx - Len(ops)
    BY <1>1, <1>2
  <2> QED
    BY <2>2, <2>3, <2>4 DEF ops
<1> QED
  BY <1>3, <1>4

-----------------------------------------------------------------------------
(* Steps of a sender.                                                      *)

(* A step of p that leaves the receivers' side alone and puts p's packets  *)
(* where they should be.                                                   *)
LEMMA SenderStep ==
  ASSUME TypeInv, Rings, NEW p \in Rank, UNCHANGED <<rbuf, rcntr>>,
         \A r \in Rank : r # p =>
           /\ scntr'[r] = scntr[r] /\ wire'[r] = wire[r]
           /\ egrmgt'[r] = egrmgt[r] /\ rcvrst'[r] = rcvrst[r],
         \A q \in Rank : Owner(p, q) =>
           Owner(p, q)' /\ egrmgt'[p][q].index = egrmgt[p][q].index,
         \A q \in Rank : IF Owner(p, q)' THEN OwnedRing(p, q)' ELSE wire'[p][q] = <<>>
  PROVE  Rings'
<1>1. ASSUME NEW r \in Rank, NEW q \in Rank
      PROVE  IF Owner(r, q)' THEN OwnedRing(r, q)' ELSE wire'[r][q] = <<>>
  <2>1. CASE r = p
    BY <2>1
  <2>2. CASE r # p
    BY <2>2 DEF Rings, Owner, OwnedRing
  <2> QED
    BY <2>1, <2>2
<1>2. ASSUME NEW q \in Rank, NEW v \in Ring,
             \A r \in Rank : ~ (Owner(r, q)' /\ egrmgt'[r][q].index = v)
      PROVE  Pristine(rcntr[q][v], rbuf[q][v])
  <2>1. \A r \in Rank : Owner(r, q) => Owner(r, q)' /\ egrmgt'[r][q].index = egrmgt[r][q].index
    BY DEF Owner
  <2>2. \A r \in Rank : ~ (Owner(r, q) /\ egrmgt[r][q].index = v)
    BY <1>2, <2>1
  <2> QED
    BY <2>2 DEF Rings
<1> QED
  BY <1>1, <1>2 DEF Rings

(* The rank a control has a ring of is its destination, and there is one   *)
(* at most.                                                                *)
LEMMA OwnerFacts ==
  ASSUME TypeInv, OneControl, NEW p \in Rank
  PROVE  /\ 0 \in SndCntr /\ scntr[p][0] \in Control /\ ControlOK(scntr[p][0])
         /\ \A k \in SndCntr : scntr[p][k].state # "FREE" => k = 0
         /\ \A q \in Rank : Owner(p, q) =>
              /\ q = scntr[p][0].dst /\ egrmgt[p][q].index \in Ring
              /\ scntr[p][0].state \notin {"FREE", "REQ_ROOM"}
         /\ scntr[p][0].state \notin {"FREE", "NONE", "REQ_ROOM"} =>
              scntr[p][0].dst \in Rank /\ Owner(p, scntr[p][0].dst)
<1>1. 0 \in SndCntr
  BY ConstAssumption DEF SndCntr
<1>2. scntr[p][0] \in Control /\ ControlOK(scntr[p][0])
  BY <1>1 DEF TypeInv, TypeOK, TypeSnd
<1>3. \A q \in Rank : egrmgt[p][q].index \in Ring
  BY DEF TypeInv, TypeOK, TypeSnd
<1>4. \A q \in Rank : Owner(p, q) =>
        q = scntr[p][0].dst /\ scntr[p][0].state \notin {"FREE", "REQ_ROOM"}
  BY DEF OneControl
<1>5. scntr[p][0].state \notin {"FREE", "NONE", "REQ_ROOM"} =>
        \E q \in Rank : Owner(p, q)
  BY DEF OneControl
<1> QED
  BY <1>1, <1>2, <1>3, <1>4, <1>5 DEF OneControl

(* OneControl after a step of p that leaves who sends where alone and lets *)
(* a control in use stay so.                                               *)
LEMMA OneControlStep ==
  ASSUME TypeInv, OneControl, NEW p \in Rank, Stable, UNCHANGED rank2scntridx,
         \A r \in Rank : pend'[r].dst \in {pend[r].dst, None},
         \A r \in Rank : r # p =>
           scntr'[r] = scntr[r] /\ egrmgt'[r] = egrmgt[r] /\ rcvrst'[r] = rcvrst[r],
         \A k \in SndCntr : scntr[p][k].state = "FREE" => scntr'[p][k].state = "FREE",
         \A q \in Rank : Owner(p, q)' =>
           scntr'[p][0].state \notin {"FREE", "REQ_ROOM"} /\ scntr[p][0].dst = q
             /\ scntr[p][0].state # "FREE",
         (\A q \in Rank : ~ Owner(p, q)') =>
           /\ scntr'[p][0].state \in {"FREE", "NONE", "REQ_ROOM"}
           /\ scntr'[p][0].recvidx = 0 /\ rcvrst'[p][0] = 0
  PROVE  OneControl'
<1>1. 0 \in SndCntr
  BY ConstAssumption DEF SndCntr
<1>2. \A r \in Rank : pend'[r].dst \in Dests[r] \cup {None}
  BY DEF OneControl
<1>3. ASSUME NEW r \in Rank, NEW k \in SndCntr, scntr'[r][k].state # "FREE"
      PROVE  k = 0 /\ scntr'[r][k].dst \in Dests[r] /\ rank2scntridx'[r][scntr'[r][k].dst] = 0
  <2>1. scntr[r][k].state # "FREE"
    BY <1>3
  <2>2. scntr'[r][k].dst = scntr[r][k].dst
    BY <2>1 DEF Stable
  <2> QED
    BY <2>1, <2>2 DEF OneControl
<1>4. \A q \in Rank : Owner(p, q)' => scntr'[p][0].dst = q
  BY <1>1 DEF Stable
<1>5. ASSUME NEW r \in Rank, NEW q \in Rank, Owner(r, q)'
      PROVE  scntr'[r][0].state \notin {"FREE", "REQ_ROOM"} /\ scntr'[r][0].dst = q
  <2>1. CASE r = p
    BY <1>4, <1>5, <2>1
  <2>2. CASE r # p
    BY <1>5, <2>2 DEF OneControl, Owner
  <2> QED
    BY <2>1, <2>2
<1>6. ASSUME NEW r \in Rank, \A q \in Rank : ~ Owner(r, q)'
      PROVE  /\ scntr'[r][0].state \in {"FREE", "NONE", "REQ_ROOM"}
             /\ scntr'[r][0].recvidx = 0 /\ rcvrst'[r][0] = 0
  <2>1. CASE r = p
    BY <1>6, <2>1
  <2>2. CASE r # p
    BY <1>6, <2>2 DEF OneControl, Owner
  <2> QED
    BY <2>1, <2>2
<1> QED
  BY <1>2, <1>3, <1>5, <1>6 DEF OneControl

(* A run of the engine on a control that has, or is given now, ring v of   *)
(* its destination.                                                        *)
LEMMA EngineFrom ==
  ASSUME RingIInv, NEW p \in Rank, NEW u \in Control, ControlOK(u),
         scntr[p][0].state # "FREE", u.dst = scntr[p][0].dst, u.dst \in Rank,
         u.state \notin {"FREE", "NONE", "REQ_ROOM"},
         NEW v \in Ring, NEW b, NEW done,
         SendEngine(p, 0, u, v, b, done),
         UNCHANGED <<rbuf, rcntr, rank2scntridx>>,
         \A r \in Rank : pend'[r].dst \in {pend[r].dst, None},
         \A r \in Rank : r # p => egrmgt'[r] = egrmgt[r] /\ rcvrst'[r] = rcvrst[r],
         \A q \in Rank : Owner(p, q)' <=> q = u.dst,
         egrmgt'[p][u.dst].index = v,
         Owner(p, u.dst) => egrmgt[p][u.dst].index = v,
         InFlight(p, v, u.recvidx, wire[p][u.dst]),
         Landed(p, u.recvidx - Len(wire[p][u.dst]),
                rcntr[u.dst][v], rbuf[u.dst][v], rcvrst'[p][0])
  PROVE  OneControl' /\ Rings'
<1> USE DEF RingIInv
<1>1. 0 \in SndCntr
  BY OwnerFacts
<1>2. \A q \in Rank : Owner(p, q) => q = u.dst
  BY OwnerFacts
<1>3. /\ scntr'[p][0] = EngineResult(u)
      /\ \A j \in SndCntr : j # 0 => scntr'[p][j] = scntr[p][j]
      /\ \A r \in Rank : r # p => scntr'[r] = scntr[r] /\ wire'[r] = wire[r]
      /\ \A q \in Rank : q # u.dst => wire'[p][q] = wire[p][q]
  BY <1>1, EngineEffect, ZenonT(40)
<1>4. LET s == scntr'[p][0].recvidx
          ops == wire'[p][u.dst]
      IN  /\ InFlight(p, v, s, ops)
          /\ Landed(p, s - Len(ops), rcntr[u.dst][v], rbuf[u.dst][v], rcvrst'[p][0])
  BY <1>1, EngineOwned
<1>5. OwnedRing(p, u.dst)'
  BY <1>4, ZenonT(40) DEF OwnedRing
<1>6. Rings'
  <2>1. ASSUME NEW q \in Rank
        PROVE  IF Owner(p, q)' THEN OwnedRing(p, q)' ELSE wire'[p][q] = <<>>
    <3>1. CASE q = u.dst
      BY <1>5, <3>1
    <3>2. CASE q # u.dst
      BY <1>2, <1>3, <3>2 DEF Rings
    <3> QED
      BY <3>1, <3>2
  <2>2. TypeInv /\ Rings /\ UNCHANGED <<rbuf, rcntr>>
    BY DEF RingIInv
  <2>3. \A r \in Rank : r # p =>
           /\ scntr'[r] = scntr[r] /\ wire'[r] = wire[r]
           /\ egrmgt'[r] = egrmgt[r] /\ rcvrst'[r] = rcvrst[r]
    BY <1>3, Zenon
  <2>4. \A q \in Rank : Owner(p, q) =>
           Owner(p, q)' /\ egrmgt'[p][q].index = egrmgt[p][q].index
    BY <1>2, Zenon
  <2>5. p \in Rank
    OBVIOUS
  <2> QED
    BY ONLY <2>1, <2>2, <2>3, <2>4, <2>5, SenderStep
<1>7. OneControl'
  <2>1. Stable
    BY <1>1, EngineStable
  <2>2. EngineResult(u).state \notin {"FREE", "REQ_ROOM"}
    BY EngineKeepsRing
  <2>3. \A q \in Rank : Owner(p, q)' =>
          scntr'[p][0].state \notin {"FREE", "REQ_ROOM"} /\ scntr[p][0].dst = q
            /\ scntr[p][0].state # "FREE"
    BY <1>3, <2>2
  <2>4. \A j \in SndCntr : scntr[p][j].state = "FREE" => scntr'[p][j].state = "FREE"
    BY <1>3
  <2> HIDE DEF Stable
  <2> QED
    BY <1>3, <2>1, <2>3, <2>4, OneControlStep, ZenonT(40)
<1> QED
  BY <1>6, <1>7

(* A step that moves no packet and changes no control.                     *)
LEMMA RingsKept ==
  ASSUME RingIInv, UNCHANGED <<scntr, egrmgt, wire, rbuf, rcntr, rcvrst>>
  PROVE  /\ Rings'
         /\ UNCHANGED <<pend, rank2scntridx>> => OneControl'
BY DEF RingIInv, OneControl, Rings, Owner, OwnedRing

(* A run of the engine on control k for the completion of a put.           *)
LEMMA EngineRings ==
  ASSUME RingIInv, NEW p \in Rank, NEW k \in SndCntr, NEW b, NEW done,
         SendEngine(p, k, scntr[p][k], egrmgt[p][scntr[p][k].dst].index, b, done),
         UNCHANGED <<rbuf, rcntr, pend, rank2scntridx, egrmgt, rcvrst>>
  PROVE  OneControl' /\ Rings'
<1> DEFINE u == scntr[p][k]
           v == egrmgt[p][u.dst].index
<1> USE DEF RingIInv
<1>1. u \in Control /\ ControlOK(u)
  BY DEF TypeInv, TypeOK, TypeSnd
<1>2. /\ \A q \in Rank : Owner(p, q) => (k = 0 => q = u.dst)
      /\ k # 0 => u.state = "FREE"
      /\ u.state \notin {"FREE", "NONE", "REQ_ROOM"} =>
           k = 0 /\ u.dst \in Rank /\ Owner(p, u.dst)
  BY OwnerFacts
<1>3. \A q \in Rank : Owner(p, q)' <=> Owner(p, q)
  BY DEF Owner
<1>4. CASE u.state \in {"FREE", "NONE", "REQ_ROOM"}
  <2>1. EngineResult(u) = u /\ ~ Puts(u)
    BY <1>4, EngineIdle
  <2>2. scntr' = [scntr EXCEPT ![p][k] = u] /\ wire' = wire
    BY <2>1 DEF SendEngine
  <2>3. scntr' = scntr
    BY <1>1, <2>2 DEF TypeInv, TypeOK, TypeSnd
  <2> QED
    BY <2>2, <2>3, RingsKept, Zenon
<1>5. CASE u.state \notin {"FREE", "NONE", "REQ_ROOM"}
  <2>1. k = 0 /\ u.dst \in Rank /\ Owner(p, u.dst) /\ v \in Ring
    BY <1>2, <1>5, OwnerFacts
  <2>2. /\ InFlight(p, v, u.recvidx, wire[p][u.dst])
        /\ Landed(p, u.recvidx - Len(wire[p][u.dst]),
                  rcntr[u.dst][v], rbuf[u.dst][v], rcvrst[p][0])
    BY <2>1 DEF Rings, OwnedRing
  <2>3. \A q \in Rank : Owner(p, q)' <=> q = u.dst
    BY <1>2, <1>3, <2>1
  <2> HIDE DEF u, v
  <2> QED
    BY <1>1, <1>5, <2>1, <2>2, <2>3, EngineFrom DEF u, v
<1> QED
  BY <1>4, <1>5

(* utf_send is called for the one destination.                             *)
LEMMA SendCallRings ==
  ASSUME RingIInv, NEW p \in Rank, NEW d \in Dests[p], NEW type \in Types,
         SendCall(p, d, type)
  PROVE  OneControl' /\ Rings'
<1> USE DEF RingIInv
<1>1. UNCHANGED <<scntr, egrmgt, wire, rbuf, rcntr, rcvrst, rank2scntridx>>
  BY DEF SendCall, sndVars, netVars, rcvVars, mrqVars
<1>2. \A r \in Rank : pend'[r].dst \in Dests[r] \cup {None}
  BY DEF SendCall, OneControl, TypeInv, TypeOK, TypeApp
<1>3. Rings'
  BY <1>1, RingsKept
<1>4. OneControl'
  BY <1>1, <1>2 DEF OneControl, Owner
<1> QED
  BY <1>3, <1>4

(* utf_scntr_alloc: a rank with one control or one destination takes a     *)
(* control once, the first one.                                            *)
LEMMA SendAllocRings ==
  ASSUME RingIInv, Solo, NEW p \in Rank, SendAlloc(p)
  PROVE  OneControl' /\ Rings'
<1> DEFINE d == pend[p].dst
<1> USE DEF RingIInv
<1>1. UNCHANGED <<egrmgt, wire, rbuf, rcntr, rcvrst>>
  BY DEF SendAlloc, netVars, rcvVars, mrqVars
<1>2. \A r \in Rank : pend'[r].dst \in Dests[r] \cup {None}
  <2>1. \/ pend' = pend
        \/ pend' = [pend EXCEPT ![p] = [dst |-> None, type |-> "NONE"]]
    BY DEF SendAlloc
  <2>2. \A r \in Rank : pend[r].dst \in Dests[r] \cup {None}
    BY DEF OneControl
  <2>3. \A r \in Rank : pend'[r] \in {pend[r], [dst |-> None, type |-> "NONE"]}
    BY <2>1 DEF TypeInv, TypeOK, TypeApp
  <2> QED
    BY <2>2, <2>3
<1>3. CASE UNCHANGED <<rank2scntridx, scntr>>
  <2>1. Rings'
    BY <1>1, <1>3, RingsKept
  <2> QED
    BY <1>1, <1>2, <1>3, <2>1 DEF OneControl, Owner
<1>4. CASE ~ UNCHANGED <<rank2scntridx, scntr>>
  <2>1. PICK k \in FreeControls(p) :
          /\ rank2scntridx[p][d] = None
          /\ \A j \in FreeControls(p) : k <= j
          /\ rank2scntridx' = [rank2scntridx EXCEPT ![p][d] = k]
          /\ scntr' = [scntr EXCEPT ![p][k] =
                [@ EXCEPT !.state = "NONE", !.dst = d, !.mient = 0]]
    BY <1>4 DEF SendAlloc
  <2>2. 0 \in SndCntr /\ scntr[p][0] \in Control
    BY OwnerFacts
  <2>3. d \in Rank /\ d \in Dests[p]
    <3>1. d \in Rank
      BY DEF SendAlloc, TypeInv, CallOK
    <3> QED
      BY <3>1 DEF OneControl, Rank, None
  <2>4. scntr[p][0].state = "FREE"
    <3> SUFFICES ASSUME scntr[p][0].state # "FREE" PROVE FALSE
      OBVIOUS
    <3>1. /\ scntr[p][0].dst \in Dests[p]
          /\ rank2scntridx[p][scntr[p][0].dst] = 0
      BY <2>2 DEF OneControl
    <3>2. CASE SND_CNTRL_MAX = 1
      BY <2>1, <3>2 DEF FreeControls, SndCntr
    <3>3. CASE OneDest
      <4>1. scntr[p][0].dst = d
        BY <2>3, <3>1, <3>3 DEF OneDest
      <4> QED
        BY <2>1, <3>1, <4>1 DEF None
    <3> QED
      BY <3>2, <3>3 DEF Solo
  <2>5. k = 0
    BY <2>1, <2>2, <2>4 DEF FreeControls, SndCntr
  <2>6. \A q \in Rank : ~ Owner(p, q)
    BY <2>4 DEF OneControl
  <2>7. /\ scntr'[p][0].state = "NONE" /\ scntr'[p][0].dst = d
        /\ scntr'[p][0].recvidx = 0
        /\ \A j \in SndCntr : j # 0 => scntr'[p][j] = scntr[p][j]
        /\ \A r \in Rank : r # p => scntr'[r] = scntr[r]
    <3>1. scntr[p][0].recvidx = 0
      BY <2>6 DEF OneControl
    <3> QED
      BY <2>1, <2>2, <2>5, <3>1 DEF Control, TypeInv, TypeOK, TypeSnd
  <2>8. /\ rank2scntridx'[p][d] = 0
        /\ \A r \in Rank : r # p => rank2scntridx'[r] = rank2scntridx[r]
    BY <2>1, <2>3, <2>5 DEF TypeInv, TypeOK, TypeSnd
  <2>9. OneControl'
    <3>1. \A r \in Rank, j \in SndCntr : scntr'[r][j].state # "FREE" =>
            /\ j = 0 /\ scntr'[r][j].dst \in Dests[r]
            /\ rank2scntridx'[r][scntr'[r][j].dst] = 0
      <4> TAKE r \in Rank, j \in SndCntr
      <4>1. CASE r = p /\ j = 0
        BY <2>3, <2>7, <2>8, <4>1
      <4>2. CASE r = p /\ j # 0
        BY <2>7, <4>2 DEF OneControl
      <4>3. CASE r # p
        BY <2>7, <2>8, <4>3 DEF OneControl
      <4> QED
        BY <4>1, <4>2, <4>3
    <3>2. \A r, q \in Rank : Owner(r, q)' =>
            scntr'[r][0].state \notin {"FREE", "REQ_ROOM"} /\ scntr'[r][0].dst = q
      BY <1>1, <2>6, <2>7 DEF OneControl, Owner
    <3>3. \A r \in Rank : (\A q \in Rank : ~ Owner(r, q)') =>
            /\ scntr'[r][0].state \in {"FREE", "NONE", "REQ_ROOM"}
            /\ scntr'[r][0].recvidx = 0 /\ rcvrst'[r][0] = 0
      BY <1>1, <2>6, <2>7 DEF OneControl, Owner
    <3> QED
      BY <1>2, <3>1, <3>2, <3>3 DEF OneControl
  <2>10. Rings'
    <3>1. \A r, q \in Rank : Owner(r, q) => r # p
      BY <2>6
    <3> QED
      BY <1>1, <2>7, <3>1 DEF Rings, Owner, OwnedRing
  <2> QED
    BY <2>9, <2>10
<1> QED
  BY <1>3, <1>4

(* utf_send_start keeps what is known of the destinations' rings: it only  *)
(* notes that the destination was asked.                                   *)
LEMMA PostRooms ==
  ASSUME TypeInv, NEW p \in Rank, SendPost(p)
  PROVE  /\ \A q, x \in Rank : egrmgt'[q][x].sndok = egrmgt[q][x].sndok
         /\ \A q, x \in Rank : egrmgt'[q][x].index = egrmgt[q][x].index
         /\ \A q \in Rank : q # p => egrmgt'[q] = egrmgt[q]
<1> DEFINE d == pend[p].dst
<1>0. d \in Rank
  BY PostFacts, Zenon
<1>1. egrmgt' = egrmgt \/ egrmgt' = [egrmgt EXCEPT ![p][d].examed = TRUE]
  BY DEF SendPost
<1>2. egrmgt \in [Rank -> [Rank -> [examed : BOOLEAN, sndok : BOOLEAN, index : Ring]]]
  BY DEF TypeInv, TypeOK, TypeSnd
<1>3. CASE egrmgt' = egrmgt
  BY <1>3
<1>4. CASE egrmgt' = [egrmgt EXCEPT ![p][d].examed = TRUE]
  <2> HIDE DEF d
  <2>1. egrmgt[p][d] \in [examed : BOOLEAN, sndok : BOOLEAN, index : Ring]
    BY <1>0, <1>2
  <2> DEFINE m == [egrmgt[p][d] EXCEPT !.examed = TRUE]
  <2>2. m.sndok = egrmgt[p][d].sndok /\ m.index = egrmgt[p][d].index
    BY <2>1
  <2> HIDE DEF m
  <2>3. \A q, x \in Rank : egrmgt'[q][x] = IF q = p /\ x = d THEN m ELSE egrmgt[q][x]
    BY <1>0, <1>2, <1>4 DEF m
  <2>4. \A q \in Rank : q # p => egrmgt'[q] = egrmgt[q]
    BY <1>2, <1>4
  <2> QED
    BY <2>2, <2>3, <2>4
<1> QED
  BY <1>1, <1>3, <1>4

(* utf_send posts a message: on a control that is busy, on one that has a  *)
(* ring, or on one that has to ask for a ring first.                       *)
LEMMA SendPostRings ==
  ASSUME RingIInv, NEW p \in Rank, SendPost(p)
  PROVE  OneControl' /\ Rings'
<1> DEFINE d == pend[p].dst
           k == rank2scntridx[p][d]
           u == scntr[p][k]
           f == Filled(p, u)
           g == [f EXCEPT !.state = "HAS_ROOM"]
           r == [f EXCEPT !.state = "REQ_ROOM"]
<1> USE DEF RingIInv
<1>1. /\ d \in Rank /\ k \in SndCntr
      /\ u \in Control /\ ControlOK(u)
      /\ f \in Control /\ f.dst = u.dst /\ f.state = u.state /\ f.recvidx = u.recvidx
      /\ u.state = "NONE" =>
           /\ g \in Control /\ ControlOK(g) /\ g.dst = u.dst
           /\ g.state = "HAS_ROOM" /\ g.recvidx = u.recvidx
           /\ r \in Control /\ ControlOK(r) /\ r.dst = u.dst
           /\ r.state = "REQ_ROOM" /\ r.recvidx = u.recvidx
  BY PostFacts, Zenon
<1>2. k = 0 /\ u.state # "FREE" /\ u.dst = d
  <2>1. k # None
    <3> HIDE DEF k
    <3> QED
      BY <1>1, ConstAssumption DEF SndCntr, None
  <2>2. u.state # "FREE" /\ u.dst = d
    BY <1>1, <2>1, Zenon DEF ControlInv
  <2> QED
    BY <1>1, <2>2, Zenon DEF OneControl
<1>3. UNCHANGED <<rbuf, rcntr, rank2scntridx, rcvrst>>
  BY Zenon DEF SendPost, rcvVars, mrqVars
<1>4. \A q \in Rank : pend'[q].dst \in {pend[q].dst, None}
  BY DEF SendPost, TypeInv, TypeOK, TypeApp
<1>5. Stable
  BY SendPostStable
<1>6. \A q \in Rank : Owner(p, q) => q = d
  BY <1>2, OwnerFacts
<1>7. /\ \A q, x \in Rank : egrmgt'[q][x].sndok = egrmgt[q][x].sndok
      /\ \A q, x \in Rank : egrmgt'[q][x].index = egrmgt[q][x].index
      /\ \A q \in Rank : q # p => egrmgt'[q] = egrmgt[q]
  BY PostRooms
<1>8. \A q \in Rank : Owner(p, q)' <=> Owner(p, q)
  BY <1>7 DEF Owner
<1>9. ASSUME NEW w, scntr' = [scntr EXCEPT ![p][k] = w], wire' = wire,
             w = f \/ (w = r /\ u.state = "NONE" /\ ~ Owner(p, d))
      PROVE  OneControl' /\ Rings'
  <2>1. /\ w.recvidx = u.recvidx /\ w.dst = u.dst
        /\ w.state = u.state \/ (w.state = "REQ_ROOM" /\ ~ Owner(p, d) /\ u.state = "NONE")
    BY <1>1, <1>9
  <2>2. /\ scntr'[p][0] = w
        /\ \A j \in SndCntr : j # 0 => scntr'[p][j] = scntr[p][j]
        /\ \A q \in Rank : q # p => scntr'[q] = scntr[q]
    BY <1>1, <1>2, <1>9 DEF TypeInv, TypeOK, TypeSnd
  <2> HIDE DEF d, k, u, f, g, r, Stable
  <2>3. Rings'
    <3>1. ASSUME NEW q \in Rank
          PROVE  IF Owner(p, q)' THEN OwnedRing(p, q)' ELSE wire'[p][q] = <<>>
      <4>1. scntr'[p][0].recvidx = scntr[p][0].recvidx
        BY <1>2, <2>1, <2>2 DEF u
      <4> QED
        BY <1>3, <1>7, <1>8, <1>9, <4>1 DEF Rings, OwnedRing
    <3>2. \A q \in Rank : Owner(p, q) =>
           Owner(p, q)' /\ egrmgt'[p][q].index = egrmgt[p][q].index
      BY <1>7, <1>8
    <3>3. \A q \in Rank : q # p =>
           /\ scntr'[q] = scntr[q] /\ wire'[q] = wire[q]
           /\ egrmgt'[q] = egrmgt[q] /\ rcvrst'[q] = rcvrst[q]
      BY <1>3, <1>7, <1>9, <2>2
    <3> QED
      BY <1>3, <3>1, <3>2, <3>3, SenderStep
  <2>4. OneControl'
    <3>1. \A q \in Rank : Owner(p, q)' =>
            scntr'[p][0].state \notin {"FREE", "REQ_ROOM"} /\ scntr[p][0].dst = q
              /\ scntr[p][0].state # "FREE"
      BY <1>2, <1>6, <1>8, <2>1, <2>2, OwnerFacts DEF u
    <3>2. (\A q \in Rank : ~ Owner(p, q)') =>
            /\ scntr'[p][0].state \in {"FREE", "NONE", "REQ_ROOM"}
            /\ scntr'[p][0].recvidx = 0 /\ rcvrst'[p][0] = 0
      BY <1>2, <1>3, <1>8, <2>1, <2>2 DEF OneControl, u
    <3>3. \A j \in SndCntr : scntr[p][j].state = "FREE" => scntr'[p][j].state = "FREE"
      BY <1>2, <2>2 DEF u
    <3>4. \A q \in Rank : q # p =>
            scntr'[q] = scntr[q] /\ egrmgt'[q] = egrmgt[q] /\ rcvrst'[q] = rcvrst[q]
      BY <1>3, <1>7, <2>2
    <3> QED
      BY <1>3, <1>4, <1>5, <3>1, <3>2, <3>3, <3>4, OneControlStep
  <2> QED
    BY <2>3, <2>4
<1>10. CASE u.state # "NONE"
  <2>1. scntr' = [scntr EXCEPT ![p][k] = f] /\ wire' = wire
    BY <1>10 DEF SendPost
  <2> HIDE DEF k, u, f, g, r, d
  <2> QED
    BY <1>9, <2>1
<1>11. CASE u.state = "NONE" /\ Owner(p, d)
  <2>1. PICK b : SendEngine(p, k, g, egrmgt[p][d].index, b, FALSE)
    BY <1>11, Zenon DEF SendPost, Owner
  <2>2. egrmgt' = egrmgt
    BY <1>11, Zenon DEF SendPost, Owner
  <2> DEFINE v == egrmgt[p][d].index
  <2>3. v \in Ring
    BY <1>11, OwnerFacts, <1>1, Zenon
  <2>4. /\ InFlight(p, v, g.recvidx, wire[p][d])
        /\ Landed(p, g.recvidx - Len(wire[p][d]), rcntr[d][v], rbuf[d][v], rcvrst'[p][0])
    <3>1. OwnedRing(p, d)
      BY <1>1, <1>11 DEF Rings
    <3>2. g.recvidx = scntr[p][0].recvidx
      BY <1>1, <1>2, <1>11
    <3> HIDE DEF g
    <3> QED
      BY <1>3, <3>1, <3>2, Zenon DEF OwnedRing
  <2>5. \A q \in Rank : Owner(p, q)' <=> q = d
    BY <1>6, <1>8, <1>11, <1>1
  <2>6. /\ g \in Control /\ ControlOK(g) /\ g.dst = d /\ g.state = "HAS_ROOM"
        /\ scntr[p][0].state # "FREE" /\ g.dst = scntr[p][0].dst
    BY <1>1, <1>2, <1>11
  <2> HIDE DEF g, u, f, r, v, k, d
  <2>7. k = 0 /\ d \in Rank
    BY <1>1, <1>2
  <2> QED
    BY <1>3, <1>4, <2>1, <2>2, <2>3, <2>4, <2>5, <2>6, <2>7, EngineFrom, Zenon DEF v
<1>12. CASE u.state = "NONE" /\ ~ Owner(p, d)
  <2>1. scntr' = [scntr EXCEPT ![p][k] = r] /\ wire' = wire
    BY <1>12 DEF SendPost, Owner
  <2> HIDE DEF k, u, f, g, r, d
  <2> QED
    BY <1>9, <1>12, <2>1
<1> QED
  BY <1>10, <1>11, <1>12

(* MRQ_TYPE_LCL_ARMW: the ring that was granted is nobody else's, and      *)
(* nothing was ever put into it.                                           *)
LEMMA ArmwGrant ==
  ASSUME RingIInv, NEW p \in Rank, NEW k \in SndCntr, NEW val, MrqLclArmw(p, k, val),
         scntr[p][k].state = "REQ_ROOM", val >= 0
  PROVE  LET d == scntr[p][k].dst
             g == [scntr[p][k] EXCEPT !.state = "HAS_ROOM", !.recvidx = 0]
         IN  /\ k = 0 /\ d \in Rank /\ val \in Ring
             /\ g \in Control /\ ControlOK(g) /\ g.dst = d
             /\ g.state = "HAS_ROOM" /\ g.recvidx = 0
             /\ \A q \in Rank : ~ Owner(p, q)
             /\ rcvrst[p][0] = 0 /\ wire[p][d] = <<>>
             /\ \A r \in Rank : ~ (Owner(r, d) /\ egrmgt[r][d].index = val)
             /\ Pristine(rcntr[d][val], rbuf[d][val])
             /\ InFlight(p, val, 0, <<>>)
             /\ Landed(p, 0, rcntr[d][val], rbuf[d][val], 0)
             /\ egrmgt'[p][d].index = val
             /\ \A r \in Rank : r # p => egrmgt'[r] = egrmgt[r]
             /\ \A q \in Rank : Owner(p, q)' <=> q = d
             /\ \E b : SendEngine(p, 0, g, val, b, FALSE)
<1> DEFINE u == scntr[p][k]
           d == u.dst
           g == [u EXCEPT !.state = "HAS_ROOM", !.recvidx = 0]
<1> USE DEF RingIInv
<1>1. /\ d \in Rank /\ g \in Control /\ ControlOK(g) /\ g.dst = d
      /\ g.state = "HAS_ROOM" /\ g.recvidx = 0
  BY ArmwFacts
<1>2. k = 0 /\ 0 \in SndCntr /\ \A q \in Rank : ~ Owner(p, q)
  BY OwnerFacts
<1>3. rcvrst[p][0] = 0 /\ wire[p][d] = <<>>
  BY <1>1, <1>2 DEF OneControl, Rings
<1>4. <<k, val>> \in lclarmw[p] /\ val \in Ring
  <2>1. <<k, val>> \in lclarmw[p]
    BY DEF MrqLclArmw
  <2>2. val \in Count
    BY <2>1 DEF TypeInv, TypeOK, TypeMrq
  <2> QED
    BY <2>1, <2>2, ConstAssumption DEF Count, Ring
<1>5. \A r \in Rank : ~ (Owner(r, d) /\ egrmgt[r][d].index = val)
  <2>1. val \in Granted(p, d)
    BY <1>1, <1>4, InGranted
  <2>2. \A r \in Rank \ {p} : val \notin Granted(r, d)
    BY <1>1, <2>1 DEF RoomInv
  <2> QED
    BY <1>1, <1>2, <2>2, InGranted DEF Owner
<1>6. Pristine(rcntr[d][val], rbuf[d][val])
  BY <1>1, <1>4, <1>5 DEF Rings
<1>7. /\ InFlight(p, val, 0, <<>>)
      /\ Landed(p, 0, rcntr[d][val], rbuf[d][val], 0)
  <2>1. InFlight(p, val, 0, <<>>)
    BY ONLY DEF InFlight
  <2>2. \A i \in Slot : i \in Nat
    BY ONLY DEF Slot
  <2> HIDE DEF d
  <2> QED
    BY ONLY <1>6, <2>1, <2>2 DEF Landed, Pristine
<1>8. egrmgt' = [egrmgt EXCEPT ![p][d] = [@ EXCEPT !.sndok = TRUE, !.index = val]]
  BY DEF MrqLclArmw
<1>9. PICK b : SendEngine(p, k, g, val, b, FALSE)
  BY DEF MrqLclArmw
<1>10. /\ egrmgt'[p][d].sndok /\ egrmgt'[p][d].index = val
      /\ \A q \in Rank : q # d => egrmgt'[p][q] = egrmgt[p][q]
      /\ \A r \in Rank : r # p => egrmgt'[r] = egrmgt[r]
  <2>1. egrmgt \in [Rank -> [Rank -> [examed : BOOLEAN, sndok : BOOLEAN, index : Ring]]]
    BY DEF TypeInv, TypeOK, TypeSnd
  <2> HIDE DEF d
  <2> QED
    BY <1>1, <1>8, <2>1
<1>11. \A q \in Rank : Owner(p, q)' <=> q = d
  BY <1>1, <1>2, <1>10 DEF Owner
<1> QED
  BY <1>1, <1>2, <1>3, <1>4, <1>5, <1>6, <1>7, <1>9, <1>10, <1>11, ZenonT(40)

(* The answer to the request for a room: nobody has used the ring before.  *)
LEMMA MrqLclArmwRings ==
  ASSUME RingIInv, NEW p \in Rank, NEW k \in SndCntr, NEW val, MrqLclArmw(p, k, val)
  PROVE  OneControl' /\ Rings'
<1> DEFINE u == scntr[p][k]
           d == u.dst
           g == [u EXCEPT !.state = "HAS_ROOM", !.recvidx = 0]
<1> USE DEF RingIInv
<1>1. UNCHANGED <<rbuf, rcntr, rank2scntridx, rcvrst, pend>>
  BY DEF MrqLclArmw, rcvVars, appVars
<1>2. CASE u.state = "REQ_ROOM" /\ val >= 0
  <2>1. /\ k = 0 /\ d \in Rank /\ val \in Ring
        /\ g \in Control /\ ControlOK(g) /\ g.dst = d
        /\ g.state = "HAS_ROOM" /\ g.recvidx = 0
        /\ \A q \in Rank : ~ Owner(p, q)
        /\ rcvrst[p][0] = 0 /\ wire[p][d] = <<>>
        /\ \A r \in Rank : ~ (Owner(r, d) /\ egrmgt[r][d].index = val)
        /\ Pristine(rcntr[d][val], rbuf[d][val])
        /\ InFlight(p, val, 0, <<>>)
        /\ Landed(p, 0, rcntr[d][val], rbuf[d][val], 0)
        /\ egrmgt'[p][d].index = val
        /\ \A r \in Rank : r # p => egrmgt'[r] = egrmgt[r]
        /\ \A q \in Rank : Owner(p, q)' <=> q = d
        /\ \E b : SendEngine(p, 0, g, val, b, FALSE)
    BY <1>2, ArmwGrant, ZenonT(40)
  <2>2. PICK b : SendEngine(p, 0, g, val, b, FALSE)
    BY <2>1
  <2>3. scntr[p][0].state # "FREE" /\ g.dst = scntr[p][0].dst
    BY <1>2, <2>1
  <2>4. /\ \A r \in Rank : r # p => egrmgt'[r] = egrmgt[r] /\ rcvrst'[r] = rcvrst[r]
        /\ \A r \in Rank : pend'[r].dst \in {pend[r].dst, None}
    BY <1>1, <2>1
  <2>5. g.dst \in Rank /\ g.state \notin {"FREE", "NONE", "REQ_ROOM"}
    BY <2>1
  <2> HIDE DEF g, d, u
  <2>6. /\ \A q \in Rank : Owner(p, q)' <=> q = g.dst
        /\ egrmgt'[p][g.dst].index = val /\ ~ Owner(p, g.dst)
    BY <2>1
  <2>7. /\ InFlight(p, val, g.recvidx, wire[p][g.dst])
        /\ Landed(p, g.recvidx - Len(wire[p][g.dst]), rcntr[g.dst][val],
                  rbuf[g.dst][val], rcvrst'[p][0])
    BY <1>1, <2>1
  <2> QED
    BY <1>1, <2>1, <2>2, <2>3, <2>4, <2>5, <2>6, <2>7, EngineFrom, Zenon
<1>3. CASE ~ (u.state = "REQ_ROOM" /\ val >= 0)
  <2>1. UNCHANGED <<egrmgt, scntr, wire>>
    BY <1>3 DEF MrqLclArmw
  <2> QED
    BY <1>1, <2>1, RingsKept
<1> QED
  BY <1>2, <1>3

(* EVT_RMT_RECVRST: the ring was used up and everything in it consumed.    *)
LEMMA ResetRing ==
  ASSUME RingIInv, NEW p \in Rank, rcvrst[p][0] > 0
  PROVE  LET d == scntr[p][0].dst
             v == egrmgt[p][d].index
         IN  /\ d \in Rank /\ Owner(p, d) /\ v \in Ring
             /\ scntr[p][0].state \notin {"FREE", "REQ_ROOM"}
             /\ \A q \in Rank : Owner(p, q) => q = d
             /\ rcvrst[p][0] = 1 /\ wire[p][d] = <<>>
             /\ scntr[p][0].recvidx = COM_RBUF_SIZE /\ rcntr[d][v].recvidx = 0
             /\ InFlight(p, v, 0, <<>>)
             /\ Landed(p, 0, rcntr[d][v], rbuf[d][v], 0)
<1> DEFINE d == scntr[p][0].dst
           v == egrmgt[p][d].index
           s == scntr[p][0].recvidx
           n == Len(wire[p][d])
<1> USE DEF RingIInv
<1>1. d \in Rank /\ Owner(p, d) /\ v \in Ring
      /\ scntr[p][0].state \notin {"FREE", "REQ_ROOM"}
      /\ \A q \in Rank : Owner(p, q) => q = d
  <2>1. PICK q \in Rank : Owner(p, q)
    BY DEF OneControl
  <2> QED
    BY <2>1, OwnerFacts
<1>2. Landed(p, s - n, rcntr[d][v], rbuf[d][v], rcvrst[p][0])
  BY <1>1 DEF Rings, OwnedRing
<1>3. s \in 0 .. COM_RBUF_SIZE
  <2>1. scntr[p][0] \in Control
    BY OwnerFacts
  <2> QED
    BY <2>1 DEF Control
<1>4. wire[p][d] \in Seq(Op)
  BY <1>1 DEF TypeInv, TypeOK, TypeNet
<1> HIDE DEF s, v, d
<1>5. rcvrst[p][0] = 1 /\ s - n = COM_RBUF_SIZE
  BY <1>2 DEF Landed
<1>6. n = 0 /\ wire[p][d] = <<>> /\ s = COM_RBUF_SIZE
  BY <1>3, <1>4, <1>5, ConstAssumption
<1>7. /\ rcntr[d][v].recvidx = 0 /\ InFlight(p, v, 0, <<>>)
      /\ Landed(p, 0, rcntr[d][v], rbuf[d][v], 0)
  BY <1>2, <1>5, <1>6 DEF Landed, InFlight, Slot
<1> QED
  BY <1>1, <1>5, <1>6, <1>7 DEF s, v, d

(* The ring was used up, everything in it has been consumed and the        *)
(* receiver starts at its first slot: so does the sender.                  *)
LEMMA MrqRecvResetRings ==
  ASSUME RingIInv, NEW p \in Rank, NEW k \in SndCntr, MrqRecvReset(p, k)
  PROVE  OneControl' /\ Rings'
<1> DEFINE u == [scntr[p][k] EXCEPT !.recvidx = 0]
           g == [u EXCEPT !.state = u.ostate]
           d == scntr[p][k].dst
           v == egrmgt[p][d].index
<1> USE DEF RingIInv
<1>1. UNCHANGED <<rbuf, rcntr, rank2scntridx, pend, egrmgt>>
  BY DEF MrqRecvReset, rcvVars, appVars
<1>2. /\ u \in Control /\ ControlOK(u) /\ u.dst = d
      /\ u.state = scntr[p][k].state /\ u.recvidx = 0
      /\ u.state = "WAIT_BUFREADY" =>
           /\ g \in Control /\ ControlOK(g) /\ g.dst = d
           /\ g.state \in {"HAS_ROOM", "DO_EGR"} /\ g.recvidx = 0
  <2>1. TypeInv /\ p \in Rank /\ k \in SndCntr
    OBVIOUS
  <2>2. /\ u \in Control /\ ControlOK(u) /\ u.dst = scntr[p][k].dst
        /\ u.state = scntr[p][k].state /\ u.recvidx = 0
        /\ u.state = "WAIT_BUFREADY" =>
             /\ g \in Control /\ ControlOK(g) /\ g.dst = u.dst
             /\ g.state \in {"HAS_ROOM", "DO_EGR"} /\ g.recvidx = 0
    BY ONLY <2>1, ResetFacts, Zenon
  <2> HIDE DEF u, g
  <2> QED
    BY ONLY <2>2
<1>3. /\ rcvrst[p][k] > 0 /\ rcvrst'[p][k] = rcvrst[p][k] - 1
      /\ \A j \in SndCntr : j # k => rcvrst'[p][j] = rcvrst[p][j]
      /\ \A r \in Rank : r # p => rcvrst'[r] = rcvrst[r]
  BY DEF MrqRecvReset, TypeInv, TypeOK, TypeMrq
<1>4. Stable
  BY MrqStable
<1>5. \A r, q \in Rank : Owner(r, q)' <=> Owner(r, q)
  BY <1>1 DEF Owner
<1>6. 0 \in SndCntr
  BY OwnerFacts
<1>7. ASSUME u.state # "WAIT_BUFREADY"
      PROVE  /\ scntr'[p][k] = u /\ wire' = wire
             /\ \A j \in SndCntr : j # k => scntr'[p][j] = scntr[p][j]
             /\ \A r \in Rank : r # p => scntr'[r] = scntr[r]
  <2>1. scntr' = [scntr EXCEPT ![p][k] = u] /\ wire' = wire
    BY <1>7 DEF MrqRecvReset
  <2> HIDE DEF u
  <2> QED
    BY <2>1 DEF TypeInv, TypeOK, TypeSnd
<1>8. CASE k # 0
  <2>1. scntr[p][k].state = "FREE"
    BY <1>8, OwnerFacts
  <2>2. /\ wire' = wire /\ scntr'[p][0] = scntr[p][0] /\ rcvrst'[p][0] = rcvrst[p][0]
        /\ \A r \in Rank : r # p => scntr'[r] = scntr[r]
        /\ \A j \in SndCntr : scntr'[p][j].state = scntr[p][j].state
    BY <1>2, <1>3, <1>6, <1>7, <1>8, <2>1
  <2>3. Rings'
    BY <1>1, <1>3, <1>5, <2>2, SenderStep DEF Rings, OwnedRing
  <2>4. OneControl'
    <3>1. \A q \in Rank : Owner(p, q)' =>
            scntr'[p][0].state \notin {"FREE", "REQ_ROOM"} /\ scntr[p][0].dst = q
              /\ scntr[p][0].state # "FREE"
      BY <1>5, <2>2, OwnerFacts
    <3>2. (\A q \in Rank : ~ Owner(p, q)') =>
            /\ scntr'[p][0].state \in {"FREE", "NONE", "REQ_ROOM"}
            /\ scntr'[p][0].recvidx = 0 /\ rcvrst'[p][0] = 0
      BY <1>5, <2>2 DEF OneControl
    <3> HIDE DEF Stable
    <3> QED
      BY <1>1, <1>3, <1>4, <2>2, <3>1, <3>2, OneControlStep
  <2> QED
    BY <2>3, <2>4
<1>9. CASE k = 0
  <2>1. d \in Rank /\ Owner(p, d) /\ v \in Ring
        /\ scntr[p][0].state \notin {"FREE", "REQ_ROOM"}
        /\ \A q \in Rank : Owner(p, q) => q = d
    BY <1>3, <1>9, ResetRing
  <2>2. /\ rcvrst[p][0] = 1 /\ wire[p][d] = <<>>
        /\ InFlight(p, v, 0, <<>>)
        /\ Landed(p, 0, rcntr[d][v], rbuf[d][v], 0)
    BY <1>3, <1>9, ResetRing
  <2>3. rcvrst'[p][0] = 0 /\ 0 - Len(wire[p][d]) = 0
    <3> HIDE DEF d, v
    <3>1. rcvrst'[p][0] = rcvrst[p][0] - 1
      BY <1>3, <1>9
    <3>2. Len(wire[p][d]) = 0
      BY <2>2
    <3>3. rcvrst[p][0] = 1
      BY <2>2
    <3>4. rcvrst'[p][0] = 0
      BY <3>1, <3>3
    <3>5. 0 - Len(wire[p][d]) = 0
      BY <3>2
    <3> QED
      BY <3>4, <3>5
  <2>4. CASE u.state = "WAIT_BUFREADY"
    <3>1. PICK b : SendEngine(p, k, g, v, b, FALSE)
      BY <1>2, <2>4 DEF MrqRecvReset
    <3>2. \A q \in Rank : Owner(p, q)' <=> q = d
      BY <1>5, <2>1
    <3>3. /\ InFlight(p, v, g.recvidx, wire[p][d])
          /\ Landed(p, g.recvidx - Len(wire[p][d]), rcntr[d][v], rbuf[d][v], rcvrst'[p][0])
      <4> HIDE DEF g, u, v, d
      <4> QED
        BY <1>2, <2>2, <2>3, <2>4
    <3>4. scntr[p][0].state # "FREE" /\ d = scntr[p][0].dst
      BY <1>9, <2>1
    <3>5. \A r \in Rank : r # p => egrmgt'[r] = egrmgt[r] /\ rcvrst'[r] = rcvrst[r]
      BY <1>1, <1>3
    <3>6. egrmgt'[p][d].index = v
      BY <1>1
    <3>7. g.state \notin {"FREE", "NONE", "REQ_ROOM"}
      BY <1>2, <2>4
    <3>8. /\ g \in Control /\ ControlOK(g) /\ g.dst = d
      BY <1>2, <2>4
    <3> HIDE DEF g, u, v, d
    <3> QED
      BY <1>1, <1>9, <2>1, <3>1, <3>2, <3>3, <3>4, <3>5, <3>6, <3>7, <3>8, EngineFrom DEF v
  <2>5. CASE u.state # "WAIT_BUFREADY"
    <3>1. PICK e \in Rank : e = d
      BY <2>1
    <3>2. OwnedRing(p, e)'
      <4>1. wire'[p][e] = wire[p][e] /\ scntr'[p][0].recvidx = 0 /\ egrmgt'[p][e].index = v
        BY <1>1, <1>2, <1>7, <1>9, <2>5, <3>1
      <4> HIDE DEF g, u, v, d
      <4> QED
        BY <1>1, <2>2, <2>3, <3>1, <4>1 DEF OwnedRing
    <3>3. \A q \in Rank : IF Owner(p, q)' THEN OwnedRing(p, q)' ELSE wire'[p][q] = <<>>
      <4> TAKE q \in Rank
      <4>1. CASE q = e
        BY <1>5, <2>1, <3>1, <3>2, <4>1
      <4>2. CASE q # e
        BY <1>5, <1>7, <2>1, <2>5, <3>1, <4>2 DEF Rings
      <4> QED
        BY <4>1, <4>2
    <3>4. Rings'
      BY <1>1, <1>3, <1>5, <1>7, <2>5, <3>3, SenderStep
    <3>5. OneControl'
      <4>1. \A q \in Rank : Owner(p, q)' =>
              scntr'[p][0].state \notin {"FREE", "REQ_ROOM"} /\ scntr[p][0].dst = q
                /\ scntr[p][0].state # "FREE"
        BY <1>2, <1>5, <1>7, <1>9, <2>1, <2>5
      <4>2. \E q \in Rank : Owner(p, q)'
        BY <1>5, <2>1
      <4>3. \A j \in SndCntr : scntr[p][j].state = "FREE" => scntr'[p][j].state = "FREE"
        BY <1>2, <1>7, <2>5
      <4> HIDE DEF Stable, u, g, d, v
      <4> QED
        BY <1>1, <1>3, <1>4, <1>7, <2>5, <4>1, <4>2, <4>3, OneControlStep
    <3> QED
      BY <3>4, <3>5
  <2> QED
    BY <2>4, <2>5
<1> QED
  BY <1>8, <1>9

-----------------------------------------------------------------------------
(* Steps at a receiver.                                                    *)

(* A ring is given to one sender.                                          *)
LEMMA OneOwner ==
  ASSUME RingIInv, NEW p \in Rank, NEW q \in Rank, Owner(p, q),
         NEW r \in Rank, Owner(r, q), r # p
  PROVE  egrmgt[r][q].index # egrmgt[p][q].index
<1> USE DEF RingIInv
<1>1. egrmgt[p][q].index \in Granted(p, q)
  BY InGranted DEF Owner
<1>2. egrmgt[r][q].index \in Granted(r, q)
  BY InGranted DEF Owner
<1> QED
  BY <1>1, <1>2 DEF RoomInv

(* A step that concerns ring v of q, which p was given, and puts it where  *)
(* it should be.                                                           *)
LEMMA ReceiverStep ==
  ASSUME RingIInv, NEW p \in Rank, NEW q \in Rank, NEW v \in Ring,
         Owner(p, q), egrmgt[p][q].index = v,
         UNCHANGED <<scntr, egrmgt, pend, rank2scntridx>>,
         \A r, x \in Rank : (r # p \/ x # q) => wire'[r][x] = wire[r][x],
         \A r \in Rank : r # p => rcvrst'[r] = rcvrst[r],
         \A x \in Rank, y \in Ring : (x # q \/ y # v) =>
           rbuf'[x][y] = rbuf[x][y] /\ rcntr'[x][y] = rcntr[x][y],
         OwnedRing(p, q)'
  PROVE  OneControl' /\ Rings'
<1> USE DEF RingIInv
<1>1. \A r, x \in Rank : Owner(r, x)' <=> Owner(r, x)
  BY DEF Owner
<1>2. \A x \in Rank : Owner(p, x) => x = q
  BY OwnerFacts
<1>3. \A r, x \in Rank : Owner(r, x) => egrmgt[r][x].index \in Ring
  BY OwnerFacts
<1>4. \A r \in Rank : Owner(r, q) /\ r # p => egrmgt[r][q].index # v
  BY OneOwner
<1>5. ASSUME NEW r \in Rank, NEW x \in Rank
      PROVE  IF Owner(r, x)' THEN OwnedRing(r, x)' ELSE wire'[r][x] = <<>>
  <2>1. CASE r = p /\ x = q
    BY <1>1, <2>1
  <2>2. CASE ~ (r = p /\ x = q) /\ Owner(r, x)
    <3>1. OwnedRing(r, x) /\ r # p /\ (x # q \/ egrmgt[r][x].index # v)
      BY <1>2, <1>4, <2>2 DEF Rings
    <3> DEFINE e == egrmgt[r][x].index
    <3>2. e \in Ring /\ Owner(r, x)'
      BY <1>1, <1>3, <2>2, Zenon
    <3>3. rbuf'[x][e] = rbuf[x][e] /\ rcntr'[x][e] = rcntr[x][e]
      BY <3>1, <3>2, Zenon
    <3>4. wire'[r][x] = wire[r][x] /\ rcvrst'[r] = rcvrst[r]
      BY <3>1, Zenon
    <3>5. scntr' = scntr /\ egrmgt' = egrmgt
      OBVIOUS
    <3>6. OwnedRing(r, x)'
      BY ONLY <3>1, <3>3, <3>4, <3>5 DEF OwnedRing
    <3> QED
      BY <3>2, <3>6, Zenon
  <2>3. CASE ~ (r = p /\ x = q) /\ ~ Owner(r, x)
    <3>1. ~ Owner(r, x)' /\ ~ Owner(r, x)
      BY <1>1, <2>3, Zenon
    <3>2. wire[r][x] = <<>>
      BY <3>1, Zenon DEF Rings
    <3> QED
      BY <3>1, <3>2, Zenon
  <2> QED
    BY <2>1, <2>2, <2>3
<1>6. ASSUME NEW x \in Rank, NEW y \in Ring,
             \A r \in Rank : ~ (Owner(r, x)' /\ egrmgt'[r][x].index = y)
      PROVE  Pristine(rcntr[x][y], rbuf[x][y])'
  <2>1. \A r \in Rank : ~ (Owner(r, x) /\ egrmgt[r][x].index = y)
    BY <1>1, <1>6
  <2>2. Pristine(rcntr[x][y], rbuf[x][y]) /\ (x # q \/ y # v)
    BY <2>1 DEF Rings
  <2> QED
    BY <2>2 DEF Pristine
<1>7. Rings'
  BY <1>5, <1>6 DEF Rings
<1>8. OneControl'
  BY <1>1 DEF OneControl
<1> QED
  BY <1>7, <1>8

(* A put lands in the first slot that no put has landed in since the reset. *)
LEMMA NetPutRings ==
  ASSUME RingIInv, NEW p \in Rank, NEW q \in Rank, NetPut(p, q)
  PROVE  OneControl' /\ Rings'
<1> DEFINE v == egrmgt[p][q].index
           s == scntr[p][0].recvidx
           ops == wire[p][q]
           op == Head(ops)
           n == s - Len(ops)
<1> USE DEF RingIInv
<1>1. ops # <<>> /\ Owner(p, q)
  BY DEF NetPut, Rings
<1>2. ops \in Seq(Op) /\ s \in 0 .. COM_RBUF_SIZE /\ v \in Ring
  BY <1>1, OwnerFacts DEF TypeInv, TypeOK, TypeNet, Control
<1>3. InFlight(p, v, s, ops) /\ Landed(p, n, rcntr[q][v], rbuf[q][v], rcvrst[p][0])
  BY <1>1 DEF Rings, OwnedRing
<1>4. /\ InFlight(p, v, s, Tail(ops)) /\ Len(Tail(ops)) = Len(ops) - 1
      /\ op \in Op /\ op.ridx = v /\ op.slot = n
      /\ op.pkt.src = p /\ op.pkt.sidx = 0
  <2> HIDE DEF s, ops, v
  <2> QED
    BY <1>1, <1>2, <1>3, TailInFlight, ConstAssumption
<1>5. /\ wire'[p][q] = Tail(ops)
      /\ \A r, x \in Rank : (r # p \/ x # q) => wire'[r][x] = wire[r][x]
  <2>1. wire' = [wire EXCEPT ![p][q] = Tail(@)]
    BY DEF NetPut
  <2> QED
    BY <2>1 DEF TypeInv, TypeOK, TypeNet
<1>6. /\ rbuf'[q][v][n] = op.pkt
      /\ \A i \in Slot : i # n => rbuf'[q][v][i] = rbuf[q][v][i]
      /\ \A x \in Rank, y \in Ring : (x # q \/ y # v) => rbuf'[x][y] = rbuf[x][y]
      /\ n \in Slot
  <2>1. rbuf' = [rbuf EXCEPT ![q][v][n] = op.pkt]
    BY <1>4 DEF NetPut
  <2>2. n \in Slot
    BY <1>4 DEF Op
  <2> HIDE DEF n, v, op
  <2> QED
    BY <1>2, <2>1, <2>2 DEF TypeInv, TypeOK, TypeRcv
<1>7. UNCHANGED <<scntr, egrmgt, pend, rank2scntridx, rcntr, rcvrst>>
  BY DEF NetPut, sndVars, appVars
<1>8. Arrived(op.pkt)
  BY <1>4 DEF Op, Pkt, Arrived
<1>9. Landed(p, n + 1, rcntr[q][v], rbuf'[q][v], rcvrst[p][0])
  <2>0. n \in Slot
    BY <1>6
  <2>1. n < COM_RBUF_SIZE /\ n \in Nat
    <3> HIDE DEF n
    <3> QED
      BY ONLY <2>0, ConstAssumption DEF Slot
  <2>2. rcntr[q][v].recvidx \in Slot
    BY <1>2 DEF TypeInv, TypeOK, TypeRcv, Urp
  <2> HIDE DEF n, v, op
  <2>3. rcvrst[p][0] = 0 /\ rcntr[q][v].recvidx <= n
    BY <1>3, <2>1 DEF Landed
  <2>4. rcntr[q][v].svcqid \in {None, p}
    BY <1>3 DEF Landed
  <2>5. \A i \in Slot : Arrived(rbuf'[q][v][i]) =>
          rbuf'[q][v][i].src = p /\ rbuf'[q][v][i].sidx = 0
    BY <1>3, <1>4, <1>6 DEF Landed
  <2>6. \A i \in Slot : Arrived(rbuf'[q][v][i]) <=> (rcntr[q][v].recvidx <= i /\ i < n + 1)
    <3> TAKE i \in Slot
    <3>1. i \in Nat /\ rcntr[q][v].recvidx \in Nat
      BY <2>2 DEF Slot
    <3>2. CASE i = n
      BY <1>6, <1>8, <2>1, <2>3, <3>1, <3>2
    <3>3. CASE i # n
      <4>1. Arrived(rbuf'[q][v][i]) <=> (rcntr[q][v].recvidx <= i /\ i < n)
        BY <1>3, <1>6, <2>3, <3>3 DEF Landed
      <4>2. i < n <=> i < n + 1
        BY <2>1, <3>1, <3>3
      <4> QED
        BY <4>1, <4>2
    <3> QED
      BY <3>2, <3>3
  <2>7. rcntr[q][v].recvidx <= n + 1
    BY <2>1, <2>2, <2>3 DEF Slot
  <2> QED
    BY <2>3, <2>4, <2>5, <2>6, <2>7 DEF Landed
<1>10. s - Len(Tail(ops)) = n + 1
  BY <1>2, <1>4
<1>11. OwnedRing(p, q)'
  BY <1>4, <1>5, <1>7, <1>9, <1>10 DEF OwnedRing
<1> HIDE DEF v, s, ops, op, n
<1> QED
  BY <1>1, <1>2, <1>5, <1>6, <1>7, <1>11, ReceiverStep DEF v

(* The packet that is peeked is its owner's, and the owner is told when    *)
(* the ring starts over.                                                   *)
LEMMA ScanRing ==
  ASSUME RingIInv, NEW q \in Rank, ScanPkt(q)
  PROVE  LET v == scanj[q]
             urp == rcntr[q][v]
             i == urp.recvidx
             pkt == rbuf[q][v][i]
             urp2 == Engulf(urp, pkt)
             full == i + 1 = COM_RBUF_SIZE
         IN  /\ v \in Ring /\ urp \in Urp /\ i \in Slot /\ pkt \in Pkt
             /\ urp2 \in Urp /\ urp2.recvidx = i /\ urp2.svcqid = urp.svcqid
             /\ ~ Arrived(rbuf'[q][v][i])
             /\ \A x \in Slot : x # i => rbuf'[q][v][x] = rbuf[q][v][x]
             /\ \A x \in Rank, y \in Ring : (x # q \/ y # v) =>
                  rbuf'[x][y] = rbuf[x][y] /\ rcntr'[x][y] = rcntr[x][y]
             /\ \E p \in Rank :
                  /\ Owner(p, q) /\ egrmgt[p][q].index = v
                  /\ pkt.src = p /\ rcvrst[p][0] = 0
                  /\ i < scntr[p][0].recvidx - Len(wire[p][q])
                  /\ rcntr'[q][v] = IF full
                                    THEN [urp2 EXCEPT !.recvidx = 0, !.svcqid = p]
                                    ELSE [urp2 EXCEPT !.recvidx = @ + 1]
                  /\ rcvrst'[p][0] = IF full THEN 1 ELSE 0
                  /\ \A r \in Rank : r # p => rcvrst'[r] = rcvrst[r]
<1> DEFINE v == scanj[q]
           urp == rcntr[q][v]
           i == urp.recvidx
           pkt == rbuf[q][v][i]
           urp2 == Engulf(urp, pkt)
           full == i + 1 = COM_RBUF_SIZE
           to == IF urp.svcqid = None THEN pkt.src ELSE urp.svcqid
<1> USE DEF RingIInv
<1>1. v \in Ring /\ urp \in Urp /\ i \in Slot /\ Arrived(pkt) /\ pkt \in Pkt
  BY ScanFacts, ZenonT(40) DEF ScanPkt
<1>2. PICK p \in Rank : Owner(p, q) /\ egrmgt[p][q].index = v
  BY <1>1 DEF Rings, Pristine
<1> DEFINE s == scntr[p][0].recvidx
           n == s - Len(wire[p][q])
<1>3. InFlight(p, v, s, wire[p][q]) /\ Landed(p, n, urp, rbuf[q][v], rcvrst[p][0])
  BY <1>2 DEF Rings, OwnedRing
<1>4. /\ s \in 0 .. COM_RBUF_SIZE /\ wire[p][q] \in Seq(Op) /\ 0 \in SndCntr
      /\ i \in Nat /\ COM_RBUF_SIZE \in Nat \ {0}
  <2>1. scntr[p][0] \in Control /\ 0 \in SndCntr
    BY OwnerFacts
  <2>2. s \in 0 .. COM_RBUF_SIZE
    BY <2>1 DEF Control
  <2>3. wire[p][q] \in Seq(Op)
    BY DEF TypeInv, TypeOK, TypeNet
  <2>4. i \in Nat
    <3>1. i \in Slot
      BY <1>1
    <3> HIDE DEF i
    <3> QED
      BY ONLY <3>1 DEF Slot
  <2> QED
    BY <2>1, <2>2, <2>3, <2>4, ConstAssumption
<1>5. n \in Int /\ n <= COM_RBUF_SIZE
  <2> HIDE DEF s
  <2> QED
    BY <1>4
<1>6. /\ pkt.src = p /\ pkt.sidx = 0 /\ rcvrst[p][0] = 0 /\ i < n
      /\ urp.svcqid \in {None, p}
      /\ \A x \in Slot : Arrived(rbuf[q][v][x]) <=> (i <= x /\ x < n)
  BY <1>1, <1>3, Zenon DEF Landed
<1>7. urp2 \in Urp /\ urp2.recvidx = i /\ urp2.svcqid = urp.svcqid
  BY <1>1, EngulfType
<1>8. /\ ~ Arrived(rbuf'[q][v][i])
      /\ \A x \in Slot : x # i => rbuf'[q][v][x] = rbuf[q][v][x]
      /\ \A x \in Rank, y \in Ring : (x # q \/ y # v) => rbuf'[x][y] = rbuf[x][y]
  <2>1. rbuf' = [rbuf EXCEPT ![q][v][i] = NoPkt]
    BY DEF ScanPkt
  <2>2. ~ Arrived(NoPkt)
    BY DEF NoPkt, Arrived
  <2> HIDE DEF v, i
  <2> QED
    BY <1>1, <2>1, <2>2 DEF TypeInv, TypeOK, TypeRcv
<1>9. UNCHANGED <<scntr, egrmgt, pend, rank2scntridx, wire>>
  BY DEF ScanPkt, sndVars, appVars, netVars
<1>10. to = p
  BY <1>6
<1>11. /\ rcntr'[q][v] = IF full THEN [urp2 EXCEPT !.recvidx = 0, !.svcqid = to]
                         ELSE [urp2 EXCEPT !.recvidx = @ + 1]
       /\ \A x \in Rank, y \in Ring : (x # q \/ y # v) => rcntr'[x][y] = rcntr[x][y]
  <2>1. rcntr' = [rcntr EXCEPT ![q][v] =
                   IF full THEN [urp2 EXCEPT !.recvidx = 0, !.svcqid = to]
                   ELSE [urp2 EXCEPT !.recvidx = @ + 1]]
    BY DEF ScanPkt
  <2> HIDE DEF v, urp2, full, to
  <2> QED
    BY <1>1, <2>1 DEF TypeInv, TypeOK, TypeRcv
<1>12. /\ rcvrst'[p][0] = IF full THEN 1 ELSE 0
       /\ \A r \in Rank : r # p => rcvrst'[r] = rcvrst[r]
  <2>1. rcvrst' = IF full THEN [rcvrst EXCEPT ![p][0] = @ + 1] ELSE rcvrst
    BY <1>6, <1>10 DEF ScanPkt
  <2>2. rcvrst \in [Rank -> [SndCntr -> Nat]]
    BY DEF TypeInv, TypeOK, TypeMrq
  <2>3. p \in Rank /\ 0 \in SndCntr /\ rcvrst[p][0] = 0
    BY <1>4, <1>6
  <2> HIDE DEF full
  <2> QED
    BY ONLY <2>1, <2>2, <2>3
<1>13. i < scntr[p][0].recvidx - Len(wire[p][q])
  BY <1>6
<1> HIDE DEF v, urp, i, pkt, urp2, full, to, n, s
<1>14. /\ Owner(p, q) /\ egrmgt[p][q].index = v
       /\ pkt.src = p /\ rcvrst[p][0] = 0
       /\ rcntr'[q][v] = IF full THEN [urp2 EXCEPT !.recvidx = 0, !.svcqid = p]
                         ELSE [urp2 EXCEPT !.recvidx = @ + 1]
       /\ rcvrst'[p][0] = IF full THEN 1 ELSE 0
       /\ \A r \in Rank : r # p => rcvrst'[r] = rcvrst[r]
  BY <1>2, <1>6, <1>10, <1>11, <1>12
<1>15. \A x \in Rank, y \in Ring : (x # q \/ y # v) =>
         rbuf'[x][y] = rbuf[x][y] /\ rcntr'[x][y] = rcntr[x][y]
  BY <1>8, <1>11
<1> QED
  BY <1>1, <1>7, <1>8, <1>13, <1>14, <1>15, Zenon DEF v, urp, i, pkt, urp2, full

(* utf_progress consumes a packet; the last one of the ring resets it and  *)
(* tells the sender so.                                                    *)
LEMMA ScanPktRings ==
  ASSUME RingIInv, NEW q \in Rank, ScanPkt(q)
  PROVE  OneControl' /\ Rings'
<1> DEFINE v == scanj[q]
           urp == rcntr[q][v]
           i == urp.recvidx
           pkt == rbuf[q][v][i]
           urp2 == Engulf(urp, pkt)
           full == i + 1 = COM_RBUF_SIZE
<1> USE DEF RingIInv
<1>1. /\ v \in Ring /\ urp \in Urp /\ i \in Slot /\ pkt \in Pkt
      /\ urp2 \in Urp /\ urp2.recvidx = i /\ urp2.svcqid = urp.svcqid
      /\ ~ Arrived(rbuf'[q][v][i])
      /\ \A x \in Slot : x # i => rbuf'[q][v][x] = rbuf[q][v][x]
      /\ \A x \in Rank, y \in Ring : (x # q \/ y # v) =>
           rbuf'[x][y] = rbuf[x][y] /\ rcntr'[x][y] = rcntr[x][y]
  BY ScanRing
<1>2. PICK p \in Rank :
        /\ Owner(p, q) /\ egrmgt[p][q].index = v /\ rcvrst[p][0] = 0
        /\ i < scntr[p][0].recvidx - Len(wire[p][q])
        /\ rcntr'[q][v] = IF full THEN [urp2 EXCEPT !.recvidx = 0, !.svcqid = p]
                          ELSE [urp2 EXCEPT !.recvidx = @ + 1]
        /\ rcvrst'[p][0] = IF full THEN 1 ELSE 0
        /\ \A r \in Rank : r # p => rcvrst'[r] = rcvrst[r]
  BY ScanRing, Zenon
<1> DEFINE s == scntr[p][0].recvidx
           n == s - Len(wire[p][q])
<1>3. InFlight(p, v, s, wire[p][q]) /\ Landed(p, n, urp, rbuf[q][v], rcvrst[p][0])
  BY <1>2, Zenon DEF Rings, OwnedRing
<1>4. /\ s \in 0 .. COM_RBUF_SIZE /\ wire[p][q] \in Seq(Op) /\ 0 \in SndCntr
      /\ i \in Nat /\ COM_RBUF_SIZE \in Nat \ {0}
  <2>1. scntr[p][0] \in Control /\ 0 \in SndCntr
    BY OwnerFacts
  <2>2. s \in 0 .. COM_RBUF_SIZE
    BY <2>1 DEF Control
  <2>3. wire[p][q] \in Seq(Op)
    BY DEF TypeInv, TypeOK, TypeNet
  <2>4. i \in Slot
    BY <1>1
  <2>5. i \in Nat
    <3> HIDE DEF i
    <3> QED
      BY <2>4 DEF Slot
  <2> QED
    BY <2>1, <2>2, <2>3, <2>5, ConstAssumption
<1>5. n \in Int /\ n <= COM_RBUF_SIZE
  <2> HIDE DEF s
  <2> QED
    BY <1>4
<1>6. /\ urp.svcqid \in {None, p} /\ i < n
      /\ \A x \in Slot : Arrived(rbuf[q][v][x]) <=> (i <= x /\ x < n)
  <2>1. i < n
    BY <1>2, Zenon
  <2>2. rcvrst[p][0] = 0
    BY <1>2
  <2> HIDE DEF v, n
  <2> QED
    BY <1>3, <2>1, <2>2 DEF Landed
<1>7. UNCHANGED <<scntr, egrmgt, pend, rank2scntridx, wire>>
  BY DEF ScanPkt, sndVars, appVars, netVars
<1>8. Landed(p, n, rcntr'[q][v], rbuf'[q][v], rcvrst'[p][0])
  <2> DEFINE nurp == rcntr'[q][v]
             nbuf == rbuf'[q][v]
  <2>1. \A x \in Slot : Arrived(nbuf[x]) => nbuf[x].src = p /\ nbuf[x].sidx = 0
    <3> DEFINE buf == rbuf[q][v]
    <3>1. \A x \in Slot : Arrived(buf[x]) => buf[x].src = p /\ buf[x].sidx = 0
      BY <1>3, Zenon DEF Landed
    <3>2. ~ Arrived(nbuf[i]) /\ \A x \in Slot : x # i => nbuf[x] = buf[x]
      BY <1>1, Zenon
    <3> HIDE DEF buf, nbuf, i
    <3> QED
      BY ONLY <3>1, <3>2, Zenon
  <2>2. \A x \in Slot : Arrived(nbuf[x]) <=> (i + 1 <= x /\ x < n)
    <3> TAKE x \in Slot
    <3>1. x \in Nat
      BY DEF Slot
    <3> HIDE DEF n, i, v, nbuf
    <3>2. CASE x = i
      BY <1>4, <1>1, <3>1, <3>2 DEF nbuf
    <3>3. CASE x # i
      <4>1. Arrived(nbuf[x]) <=> (i <= x /\ x < n)
        BY <1>6, <1>1, <3>3 DEF nbuf
      <4> QED
        BY <1>4, <3>1, <3>3, <4>1
    <3> QED
      BY <3>2, <3>3
  <2>3. CASE full
    <3>1. nurp = [urp2 EXCEPT !.recvidx = 0, !.svcqid = p]
      BY <1>2, <2>3
    <3>2. nurp.recvidx = 0 /\ nurp.svcqid = p
      <4> HIDE DEF urp2, nurp
      <4> QED
        BY <1>1, <3>1 DEF Urp
    <3>3. n = COM_RBUF_SIZE /\ rcvrst'[p][0] = 1
      <4> HIDE DEF n, i
      <4> QED
        BY <1>4, <1>5, <1>6, <1>2, <2>3
    <3>4. \A x \in Slot : ~ Arrived(nbuf[x])
      <4> HIDE DEF n, i, nbuf
      <4> QED
        BY <1>4, <2>2, <2>3 DEF Slot
    <3> HIDE DEF n, nurp, nbuf
    <3> QED
      BY <2>1, <3>2, <3>3, <3>4 DEF Landed, nurp, nbuf
  <2>4. CASE ~ full
    <3>1. nurp = [urp2 EXCEPT !.recvidx = i + 1]
      BY <1>1, <1>2, <2>4
    <3>2. nurp.recvidx = i + 1 /\ nurp.svcqid \in {None, p}
      <4> HIDE DEF urp2, nurp, i
      <4> QED
        BY <1>6, <1>1, <3>1 DEF Urp
    <3>3. i + 1 <= n /\ rcvrst'[p][0] = 0
      <4> HIDE DEF n, i
      <4> QED
        BY <1>4, <1>5, <1>6, <1>2, <2>4
    <3> HIDE DEF n, nurp, nbuf
    <3> QED
      BY <2>1, <2>2, <3>2, <3>3 DEF Landed, nurp, nbuf
  <2> QED
    BY <2>3, <2>4
<1>9. OwnedRing(p, q)'
  BY <1>2, <1>3, <1>7, <1>8 DEF OwnedRing
<1> HIDE DEF v, urp, i, pkt, urp2, full, s, n
<1> QED
  BY <1>1, <1>2, <1>7, <1>9, ReceiverStep

-----------------------------------------------------------------------------
(* The invariant.                                                          *)

(* At the start no control is in use and every ring is empty.              *)
LEMMA RingInit == Init => OneControl /\ Rings
<1> SUFFICES ASSUME Init PROVE OneControl /\ Rings
  OBVIOUS
<1>1. 0 \in SndCntr /\ 0 \in Slot
  BY ConstAssumption DEF SndCntr, Slot
<1>2. /\ \A p \in Rank : pend[p].dst = None
      /\ \A p \in Rank, k \in SndCntr : scntr[p][k].state = "FREE" /\ scntr[p][k].recvidx = 0
      /\ \A p \in Rank, k \in SndCntr : rcvrst[p][k] = 0
      /\ \A p, q \in Rank : ~ egrmgt[p][q].sndok
  BY DEF Init, FreeCntr
<1>3. \A p, q \in Rank : wire[p][q] = <<>>
  BY DEF Init
<1>4. \A q \in Rank, v \in Ring : Pristine(rcntr[q][v], rbuf[q][v])
  BY DEF Init, Pristine, NoRing, NoPkt, Arrived
<1>5. OneControl
  BY <1>1, <1>2 DEF OneControl, Owner
<1>6. Rings
  BY <1>2, <1>3, <1>4 DEF Rings, Owner
<1> QED
  BY <1>5, <1>6

(* Every step keeps the packets where they should be.                      *)
LEMMA RingNext ==
  ASSUME RingIInv, Solo, [Next]_vars
  PROVE  OneControl' /\ Rings'
<1> DEFINE Kept == UNCHANGED <<pend, scntr, rank2scntridx, egrmgt, rcvrst, wire,
                               rbuf, rcntr>>
           Goal == OneControl' /\ Rings'
<1>1. Kept => Goal
  BY RingsKept DEF RingIInv
<1>2. ASSUME UNCHANGED vars PROVE Goal
  BY <1>1, <1>2 DEF vars, appVars, sndVars, mrqVars, netVars, rcvVars
<1>3. ASSUME NEW p \in Rank,
             \/ ProgressCall(p) \/ SendRetry(p) \/ TcqEnd(p)
             \/ ScanNone(p) \/ ScanEnd(p) \/ MrqNone(p)
      PROVE  Goal
  <2>1. Kept
    BY <1>3 DEF ProgressCall, SendRetry, TcqEnd, ScanNone, ScanEnd, MrqNone,
                appVars, sndVars, mrqVars, netVars, rcvVars
  <2> QED
    BY <1>1, <2>1
<1>4. ASSUME NEW p \in Rank, NEW d \in Dests[p], NEW type \in Types,
             SendCall(p, d, type)
      PROVE  Goal
  BY <1>4, SendCallRings
<1>5. ASSUME NEW p \in Rank, SendAlloc(p) \/ SendPost(p) \/ ScanPkt(p) PROVE Goal
  BY <1>5, SendAllocRings, SendPostRings, ScanPktRings
<1>6. ASSUME NEW p \in Rank, NEW k \in SndCntr, TcqStep(p, k) \/ MrqLclPut(p, k)
      PROVE  Goal
  <2> DEFINE run(b, done) ==
        SendEngine(p, k, scntr[p][k], egrmgt[p][scntr[p][k].dst].index, b, done)
  <2>1. (\E b : run(b, TRUE)) \/ (\E b : run(b, FALSE))
    <3>1. CASE TcqStep(p, k)
      <4>1. \E b \in {None} \cup tcq[p] : run(b, TRUE)
        BY <3>1 DEF TcqStep
      <4> QED
        BY <4>1
    <3>2. CASE MrqLclPut(p, k)
      <4>1. \E b \in {None} \cup tcq[p] : run(b, FALSE)
        BY <3>2 DEF MrqLclPut
      <4> QED
        BY <4>1
    <3> QED
      BY <1>6, <3>1, <3>2
  <2>2. UNCHANGED <<pend, rank2scntridx, egrmgt, rcvrst, rbuf, rcntr>>
    BY <1>6 DEF TcqStep, MrqLclPut, appVars, rcvVars, mrqVars
  <2> QED
    BY <2>1, <2>2, EngineRings
<1>7. ASSUME NEW p \in Rank, MrqNotice(p) PROVE Goal
  <2>1. ASSUME NEW k \in SndCntr, NEW val, MrqLclArmw(p, k, val) PROVE Goal
    BY <2>1, MrqLclArmwRings
  <2>2. ASSUME NEW k \in SndCntr, MrqRecvReset(p, k) PROVE Goal
    BY <2>2, MrqRecvResetRings
  <2> HIDE DEF Goal
  <2> QED
    BY <1>6, <1>7, <2>1, <2>2 DEF MrqNotice
<1>8. ASSUME Net PROVE Goal
  <2>1. ASSUME NEW p \in Rank, NEW q \in Rank, NetPut(p, q) PROVE Goal
    BY <2>1, NetPutRings
  <2>2. ASSUME NEW p \in Rank, NEW q \in Rank, NEW k \in SndCntr, NetAdd(p, k, q)
        PROVE  Goal
    <3>1. Kept
      BY <2>2 DEF NetAdd, appVars, sndVars, rcvVars
    <3> QED
      BY <1>1, <3>1
  <2> HIDE DEF Goal
  <2> QED
    BY <1>8, <2>1, <2>2 DEF Net
<1> HIDE DEF Goal
<1>9. Goal
  BY <1>2, <1>3, <1>4, <1>5, <1>6, <1>7, <1>8 DEF Next, Library
<1> QED
  BY <1>9 DEF Goal

(* The slots of the puts in flight are past those that have landed, and    *)
(* differ from each other; rings of different senders are different.       *)
LEMMA RingsSafe ==
  ASSUME RingIInv
  PROVE  RingSafe
<1> USE DEF RingIInv
<1> SUFFICES ASSUME NEW p \in Rank, NEW q \in Rank, NEW i \in DOMAIN wire[p][q]
             PROVE  LET op == wire[p][q][i]
                    IN  /\ ~ Arrived(rbuf[q][op.ridx][op.slot])
                        /\ \A p2 \in Rank : \A j \in DOMAIN wire[p2][q] :
                             (p2 # p \/ j # i) =>
                                <<wire[p2][q][j].ridx, wire[p2][q][j].slot>>
                                  # <<op.ridx, op.slot>>
  BY DEF RingSafe
<1>1. \A r \in Rank : /\ wire[r][q] \in Seq(Op)
                      /\ DOMAIN wire[r][q] = 1 .. Len(wire[r][q])
                      /\ Len(wire[r][q]) \in Nat
  BY DEF TypeInv, TypeOK, TypeNet
<1>2. ASSUME NEW r \in Rank, NEW j \in DOMAIN wire[r][q]
      PROVE  /\ Owner(r, q)
             /\ wire[r][q][j].ridx = egrmgt[r][q].index
             /\ wire[r][q][j].slot = scntr[r][0].recvidx - Len(wire[r][q]) + j - 1
             /\ wire[r][q][j].slot \in Slot
  <2>1. wire[r][q] # <<>>
    BY <1>1
  <2>2. OwnedRing(r, q)
    BY <2>1 DEF Rings
  <2>3. wire[r][q][j] \in Op
    BY <1>1
  <2> QED
    BY <1>1, <2>1, <2>2, <2>3 DEF Rings, OwnedRing, InFlight, Op
<1> DEFINE s == scntr[p][0].recvidx
           len == Len(wire[p][q])
           op == wire[p][q][i]
<1>3. s \in Nat /\ s <= COM_RBUF_SIZE
  <2>1. scntr[p][0] \in Control
    BY OwnerFacts
  <2>2. s \in 0 .. COM_RBUF_SIZE
    BY <2>1 DEF Control
  <2> QED
    BY <2>2, ConstAssumption
<1>4. ~ Arrived(rbuf[q][op.ridx][op.slot])
  <2>1. Landed(p, s - len, rcntr[q][op.ridx], rbuf[q][op.ridx], rcvrst[p][0])
    BY <1>2 DEF Rings, OwnedRing
  <2>2. op.slot = s - len + i - 1 /\ op.slot \in Slot /\ i >= 1
    BY <1>1, <1>2
  <2>3. ~ (op.slot < s - len)
    <3> HIDE DEF op, s, len
    <3>1. i \in Nat /\ len \in Nat
      BY <1>1 DEF len
    <3> QED
      BY <1>3, <2>2, <3>1
  <2> HIDE DEF op, s, len
  <2> QED
    BY <2>1, <2>2, <2>3 DEF Landed
<1>5. ASSUME NEW p2 \in Rank, NEW j \in DOMAIN wire[p2][q], p2 # p \/ j # i
      PROVE  <<wire[p2][q][j].ridx, wire[p2][q][j].slot>> # <<op.ridx, op.slot>>
  <2>1. CASE p2 # p
    <3>1. /\ Owner(p, q) /\ op.ridx = egrmgt[p][q].index
          /\ Owner(p2, q) /\ wire[p2][q][j].ridx = egrmgt[p2][q].index
      BY <1>2
    <3>2. egrmgt[p][q].index \in Granted(p, q) /\ egrmgt[p2][q].index \in Granted(p2, q)
      BY <3>1, InGranted DEF Owner
    <3>3. egrmgt[p2][q].index # egrmgt[p][q].index
      BY <2>1, <3>2 DEF RoomInv
    <3> HIDE DEF op
    <3> QED
      BY <3>1, <3>3
  <2>2. CASE p2 = p /\ j # i
    <3>1. wire[p][q][j].slot = s - len + j - 1 /\ op.slot = s - len + i - 1
      BY <1>2, <2>2
    <3>2. i \in Nat /\ j \in Nat /\ len \in Nat
      BY <1>1, <2>2
    <3>3. wire[p][q][j].slot # op.slot
      <4> HIDE DEF op, s, len
      <4> QED
        BY <1>3, <2>2, <3>1, <3>2
    <3> HIDE DEF op
    <3> QED
      BY <2>2, <3>3
  <2> QED
    BY <1>5, <2>1, <2>2
<1> QED
  BY <1>4, <1>5

(* For any number of ranks, any ring size and any number of messages: when *)
(* every rank has one control, or one destination, a put never lands on a  *)
(* packet that was not read (calc_recvstadd, utf_progress), and the packets*)
(* are where RingInv says, whatever the order of puts, polls and resets.   *)
THEOREM RingsKeepPackets ==
  ASSUME Solo
  PROVE  Spec => []RingInv
<1>1. Init => RingIInv
  BY TypeInit, RoomInit, RingInit DEF RingIInv
<1>2. RingIInv /\ [Next]_vars => RingIInv'
  <2> SUFFICES ASSUME RingIInv, [Next]_vars PROVE RingIInv'
    OBVIOUS
  <2>1. OneControl' /\ Rings'
    BY RingNext
  <2>2. ControlInv' /\ RoomInv'
    BY RoomNext DEF RingIInv
  <2>3. TypeInv'
    BY TypeNext DEF RingIInv
  <2> QED
    BY <2>1, <2>2, <2>3 DEF RingIInv
<1>3. RingIInv => RingInv
  BY RingsSafe DEF RingInv, RingIInv
<1> QED
  BY <1>1, <1>2, <1>3, PTL DEF Spec
=============================================================================
