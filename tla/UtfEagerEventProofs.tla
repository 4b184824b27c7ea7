------------------------ MODULE UtfEagerEventProofs ------------------------
(***************************************************************************)
(* Theorems about the completions of the eager protocol: a control that    *)
(* waits is owed exactly one event, and no rank runs into an abort or an   *)
(* assertion as long as there are rings enough.                            *)
(***************************************************************************)
EXTENDS UtfEagerWindowProofs, FiniteSetTheorems

-----------------------------------------------------------------------------
(* Sets of events.                                                         *)

(* the events of a rank with these queues                                  *)
Out(T, c, L, A, D, W) ==
  {<<k, "tcq", 0, 0>> : k \in T}
  \cup {<<k, "cur", 0, 0>> : k \in {c} \ {None}}
  \cup {<<k, "put", 0, 0>> : k \in L}
  \cup {<<a[1], "armw", 0, a[2]>> : a \in A}
  \cup {<<a[1], "add", a[2], 0>> : a \in D}
  \cup UNION {{<<W[q][i].edata, "wire", q, i>> :
                 i \in {j \in DOMAIN W[q] : W[q][j].type # "PIGBACK"}} :
               q \in Rank}

(* what it takes to be one of them                                         *)
IsOut(e, T, c, L, A, D, W) ==
  \/ \E k \in T : e = <<k, "tcq", 0, 0>>
  \/ c # None /\ e = <<c, "cur", 0, 0>>
  \/ \E k \in L : e = <<k, "put", 0, 0>>
  \/ \E a \in A : e = <<a[1], "armw", 0, a[2]>>
  \/ \E a \in D : e = <<a[1], "add", a[2], 0>>
  \/ \E q \in Rank : \E i \in DOMAIN W[q] :
       W[q][i].type # "PIGBACK" /\ e = <<W[q][i].edata, "wire", q, i>>

LEMMA OutIs ==
  ASSUME NEW T, NEW c, NEW L, NEW A, NEW D, NEW W, NEW e
  PROVE  e \in Out(T, c, L, A, D, W) <=> IsOut(e, T, c, L, A, D, W)
BY DEF Out, IsOut

LEMMA EventsAre ==
  ASSUME NEW p
  PROVE  /\ Events(p) = Out(tcq[p], cur[p], lclput[p], lclarmw[p], addreq[p], wire[p])
         /\ Events(p)' = Out(tcq'[p], cur'[p], lclput'[p], lclarmw'[p], addreq'[p],
                             wire'[p])
BY DEF Events, Out

(* m takes the events but those of the controls in K to other places where *)
(* a control waits likewise                                                *)
Moves(E, K, m) ==
  \A e \in E : e[1] \notin K =>
    e[1] \in SndCntr /\ m[e][1] = e[1] /\ WaitsIn(m[e][2]) = WaitsIn(e[2])

(* all events in E2 come from there or are new                             *)
Comes(E2, E, K, m, N) ==
  \A x \in E2 : x \in N \/ \E e \in E : e[1] \notin K /\ x = m[e]

Stay(K, us, us2) == \A j \in SndCntr : j \notin K => us2[j].state = us[j].state

OfControls(N, K) == \A x \in N : x[1] \in K

(* Events move from one place to another, or those of K are replaced.      *)
LEMMA EventsMoved ==
  ASSUME NEW E, NEW E2, NEW m, NEW N, NEW K, NEW us, NEW us2,
         OneEach(E), InPlace(E, us), OneEach(N), InPlace(N, us2),
         Moves(E, K, m), Comes(E2, E, K, m, N), OfControls(N, K), Stay(K, us, us2)
  PROVE  OneEach(E2) /\ InPlace(E2, us2)
<1> USE DEF Moves, Comes, OfControls, Stay
<1>1. ASSUME NEW x \in E2, NEW y \in E2, x[1] = y[1] PROVE x = y
  <2>1. CASE x \in N /\ y \in N
    BY <2>1, <1>1 DEF OneEach
  <2>2. CASE x \in N /\ \E e \in E : e[1] \notin K /\ y = m[e]
    BY <2>2, <1>1
  <2>3. CASE y \in N /\ \E e \in E : e[1] \notin K /\ x = m[e]
    BY <2>3, <1>1
  <2>4. CASE (\E e \in E : e[1] \notin K /\ x = m[e]) /\ (\E e \in E : e[1] \notin K /\ y = m[e])
    <3>1. PICK e \in E : e[1] \notin K /\ x = m[e]
      BY <2>4
    <3>2. PICK f \in E : f[1] \notin K /\ y = m[f]
      BY <2>4
    <3>3. e[1] = f[1]
      BY <3>1, <3>2, <1>1
    <3> QED BY <3>1, <3>2, <3>3 DEF OneEach
  <2> QED BY <2>1, <2>2, <2>3, <2>4
<1>2. ASSUME NEW x \in E2 PROVE us2[x[1]].state \in WaitsIn(x[2])
  <2>1. CASE x \in N
    BY <2>1 DEF InPlace
  <2>2. CASE \E e \in E : e[1] \notin K /\ x = m[e]
    <3>1. PICK e \in E : e[1] \notin K /\ x = m[e]
      BY <2>2
    <3>2. us[e[1]].state \in WaitsIn(e[2])
      BY <3>1 DEF InPlace
    <3> QED BY <3>1, <3>2
  <2> QED BY <2>1, <2>2
<1> QED BY <1>1, <1>2 DEF OneEach, InPlace

LEMMA EventControl ==
  ASSUME TypeInv, NEW p \in Rank, NEW e \in Events(p)
  PROVE  e[1] \in SndCntr
<1>1. IsOut(e, tcq[p], cur[p], lclput[p], lclarmw[p], addreq[p], wire[p])
  BY EventsAre, OutIs
<1>2. /\ tcq[p] \subseteq SndCntr /\ cur[p] \in SndCntr \cup {None}
      /\ lclput[p] \subseteq SndCntr /\ lclarmw[p] \subseteq SndCntr \X Count
      /\ addreq[p] \subseteq SndCntr \X Rank
  BY DEF TypeInv, TypeOK, TypeTcq, TypeProc, TypeMrq, TypeNet
<1>3. \A q \in Rank : \A i \in DOMAIN wire[p][q] : wire[p][q][i].edata \in SndCntr
  <2> TAKE q \in Rank
  <2>1. wire[p][q] \in Seq(Op)
    BY DEF TypeInv, TypeOK, TypeNet
  <2>2. \A i \in DOMAIN wire[p][q] : wire[p][q][i] \in Op
    BY <2>1
  <2> QED BY <2>2 DEF Op
<1> QED
  BY <1>1, <1>2, <1>3 DEF IsOut

(* What the engine leaves a control in: waiting exactly if it put a packet.*)
LEMMA EngineWaits ==
  ASSUME NEW u \in Control, u.state \in Issued \cup {"HAS_ROOM"}
  PROVE  /\ Puts(u) => EngineResult(u).state \in Issued
         /\ ~ Puts(u) /\ ~ EngineFault(u) =>
              EngineResult(u).state \notin Asked \cup Issued
<1> DEFINE v == Prepared(u)
<1>1. EngineResult(u) = IF Sending(v) /\ ~ EngineFault(u) THEN Transmit(v) ELSE v
  BY DEF EngineResult
<1>2. Puts(u) <=> Sending(v) /\ HasSlot(v) /\ ~ EngineFault(u)
  BY DEF Puts
<1>3. v \in Control
  BY NextEntryType DEF Prepared
<1>4. v.state \in {"HAS_ROOM", "NONE", "DO_EGR"}
  <2>1. CASE Retires(u)
    <3>1. v = NextEntry(u)
      BY <2>1 DEF Prepared
    <3>2. v.state \in {"HAS_ROOM", "NONE"}
      BY <3>1 DEF NextEntry, Control
    <3> QED BY <3>2
  <2>2. CASE ~ Retires(u)
    BY <2>2 DEF Prepared, Retires, Issued
  <2> QED BY <2>1, <2>2
<1> HIDE DEF v
<1>5. CASE Sending(v) /\ ~ EngineFault(u) /\ HasSlot(v)
  <2>1. Transmit(v).state \in Issued
    BY <1>3, <1>5 DEF Transmit, Control, Issued
  <2> QED BY <1>1, <1>2, <1>5, <2>1
<1>6. CASE Sending(v) /\ ~ EngineFault(u) /\ ~ HasSlot(v)
  <2>1. Transmit(v).state = "WAIT_BUFREADY"
    BY <1>3, <1>6 DEF Transmit, Control
  <2> QED BY <1>1, <1>2, <1>6, <2>1 DEF Asked, Issued
<1>7. CASE ~ (Sending(v) /\ ~ EngineFault(u))
  BY <1>1, <1>2, <1>4, <1>7 DEF Asked, Issued, Sending
<1> QED BY <1>5, <1>6, <1>7

(* control k has no event in these queues                                  *)
Quiet(k, T, L, A, D, W) ==
  /\ k \notin T /\ k \notin L
  /\ \A a \in A : a[1] # k
  /\ \A a \in D : a[1] # k
  /\ \A q \in Rank : \A i \in DOMAIN W[q] : W[q][i].edata = k => W[q][i].type = "PIGBACK"

(* what the engine adds: a completion, or a put                            *)
NewEvents(k, pig, put, d, n) ==
  (IF pig THEN {<<k, "tcq", 0, 0>>} ELSE {}) \cup
  (IF put /\ ~ pig THEN {<<k, "wire", d, n>>} ELSE {})

(* a completion the transmit call swallowed is in cur, or gone             *)
Swallow(E, b) ==
  [e \in E |-> IF e = <<b, "tcq", 0, 0>> THEN <<b, "cur", 0, 0>> ELSE e]

(* the puts in flight after the engine's                                   *)
Sent(W, W2, k, pig, put, d) ==
  IF put
  THEN \E op \in Op : /\ op.edata = k /\ (op.type = "PIGBACK" <=> pig)
                      /\ W2 = [W EXCEPT ![d] = Append(@, op)]
  ELSE W2 = W

(* the queues after a run of the engine on k, whose event has been taken   *)
Ran(T, c, L, A, D, W, T2, c2, L2, A2, D2, W2, T1, k, b, d, pig, put) ==
  /\ W \in [Rank -> Seq(Op)] /\ d \in Rank /\ pig \in BOOLEAN /\ put \in BOOLEAN
  /\ b \in {None} \cup T /\ b # k
  /\ T2 = T1 \cup (IF pig THEN {k} ELSE {}) /\ T1 \subseteq T \ {b}
  /\ c2 \in {None, b} /\ L2 \subseteq L /\ A2 \subseteq A /\ D2 \subseteq D
  /\ Sent(W, W2, k, pig, put, d) /\ Quiet(k, T1, L2, A2, D2, W)

LEMMA EngineOut ==
  ASSUME NEW T, NEW c, NEW L, NEW A, NEW D, NEW W,
         NEW T2, NEW c2, NEW L2, NEW A2, NEW D2, NEW W2, NEW T1,
         NEW k, NEW b, NEW d, NEW pig, NEW put,
         Ran(T, c, L, A, D, W, T2, c2, L2, A2, D2, W2, T1, k, b, d, pig, put),
         NEW x \in Out(T2, c2, L2, A2, D2, W2)
  PROVE  \/ x \in NewEvents(k, pig, put, d, Len(W[d]) + 1)
         \/ \E e \in Out(T, c, L, A, D, W) :
              e[1] # k /\ x = Swallow(Out(T, c, L, A, D, W), b)[e]
<1> DEFINE E == Out(T, c, L, A, D, W)
<1> USE DEF Ran
<1>0. IsOut(x, T2, c2, L2, A2, D2, W2)
  BY OutIs
<1>1. CASE x \in E /\ x[1] # k /\ x # <<b, "tcq", 0, 0>>
  <2>1. Swallow(E, b)[x] = x
    BY <1>1 DEF Swallow
  <2> QED BY <1>1, <2>1
<1>2. CASE \E j \in T2 : x = <<j, "tcq", 0, 0>>
  <2>1. PICK j \in T2 : x = <<j, "tcq", 0, 0>>
    BY <1>2
  <2>2. CASE j \in T1
    <3>1. j \in T /\ j # k /\ j # b
      BY <2>2 DEF Quiet
    <3>2. x \in E
      BY <2>1, <3>1 DEF Out
    <3>3. x[1] # k /\ x # <<b, "tcq", 0, 0>>
      BY <2>1, <3>1
    <3> QED BY <1>1, <3>2, <3>3
  <2>3. CASE j \notin T1
    BY <2>1, <2>3 DEF NewEvents
  <2> QED BY <2>2, <2>3
<1>3. CASE c2 # None /\ x = <<c2, "cur", 0, 0>>
  <2>1. b \in T /\ c2 = b
    BY <1>3
  <2>2. <<b, "tcq", 0, 0>> \in E
    BY <2>1 DEF Out
  <2>3. Swallow(E, b)[<<b, "tcq", 0, 0>>] = x
    BY <1>3, <2>1, <2>2 DEF Swallow
  <2>4. (<<b, "tcq", 0, 0>>)[1] = b
    OBVIOUS
  <2> QED BY <2>2, <2>3, <2>4
<1>4. CASE \E j \in L2 : x = <<j, "put", 0, 0>>
  <2>1. PICK j \in L2 : x = <<j, "put", 0, 0>>
    BY <1>4
  <2>2. j \in L /\ j # k
    BY DEF Quiet
  <2>3. x \in E /\ x[1] # k /\ x # <<b, "tcq", 0, 0>>
    BY <2>1, <2>2 DEF Out
  <2> QED BY <1>1, <2>3
<1>5. CASE \E a \in A2 : x = <<a[1], "armw", 0, a[2]>>
  <2>1. PICK a \in A2 : x = <<a[1], "armw", 0, a[2]>>
    BY <1>5
  <2>2. a \in A /\ a[1] # k
    BY DEF Quiet
  <2>3. x \in E /\ x[1] # k /\ x # <<b, "tcq", 0, 0>>
    BY <2>1, <2>2 DEF Out
  <2> QED BY <1>1, <2>3
<1>6. CASE \E a \in D2 : x = <<a[1], "add", a[2], 0>>
  <2>1. PICK a \in D2 : x = <<a[1], "add", a[2], 0>>
    BY <1>6
  <2>2. a \in D /\ a[1] # k
    BY DEF Quiet
  <2>3. x \in E /\ x[1] # k /\ x # <<b, "tcq", 0, 0>>
    BY <2>1, <2>2 DEF Out
  <2> QED BY <1>1, <2>3
<1>7. CASE \E q \in Rank : \E i \in DOMAIN W2[q] :
             W2[q][i].type # "PIGBACK" /\ x = <<W2[q][i].edata, "wire", q, i>>
  <2>1. PICK q \in Rank : \E i \in DOMAIN W2[q] :
             W2[q][i].type # "PIGBACK" /\ x = <<W2[q][i].edata, "wire", q, i>>
    BY <1>7
  <2>2. PICK i \in DOMAIN W2[q] :
             W2[q][i].type # "PIGBACK" /\ x = <<W2[q][i].edata, "wire", q, i>>
    BY <2>1
  <2>3. CASE i \in DOMAIN W[q] /\ W2[q][i] = W[q][i]
    <3>1. W[q][i].edata # k
      BY <2>2, <2>3 DEF Quiet
    <3>2. x \in Out(T, c, L, A, D, W)
      <4>1. IsOut(x, T, c, L, A, D, W)
        BY <2>2, <2>3 DEF IsOut
      <4> QED BY <4>1, OutIs
    <3>3. x[1] # k /\ x # <<b, "tcq", 0, 0>>
      BY <2>2, <2>3, <3>1
    <3> QED BY <1>1, <3>2, <3>3
  <2>4. CASE ~ (i \in DOMAIN W[q] /\ W2[q][i] = W[q][i])
    <3>1. put
      BY <2>4 DEF Sent
    <3>2. PICK op \in Op : /\ op.edata = k /\ (op.type = "PIGBACK" <=> pig)
                           /\ W2 = [W EXCEPT ![d] = Append(@, op)]
      BY <3>1 DEF Sent
    <3>3. q = d /\ i = Len(W[d]) + 1 /\ W2[q][i] = op
      <4>1. q = d
        BY <2>4, <3>2
      <4>2. W[d] \in Seq(Op) /\ W2[d] = Append(W[d], op)
        BY <3>2
      <4> QED BY <2>4, <4>1, <4>2
    <3> QED BY <2>2, <3>1, <3>2, <3>3 DEF NewEvents
  <2> QED BY <2>3, <2>4
<1> QED BY <1>0, <1>2, <1>3, <1>4, <1>5, <1>6, <1>7 DEF IsOut

(* all of A that is not for control k is in A2                             *)
Kept(A, A2, k) == \A a \in A : a[1] # k => a \in A2

(* ... if nothing is lost                                                  *)
RanWell(T, c, L, A, D, W, T2, c2, L2, A2, D2, W2, T1, k, d, pig, put) ==
  /\ W \in [Rank -> Seq(Op)] /\ d \in Rank /\ pig \in BOOLEAN /\ put \in BOOLEAN
  /\ T2 = T1 \cup (IF pig THEN {k} ELSE {}) /\ T \ {k} \subseteq T1
  /\ c \in {None, k} /\ L \ {k} \subseteq L2
  /\ Kept(A, A2, k) /\ Kept(D, D2, k)
  /\ Sent(W, W2, k, pig, put, d)

LEMMA EngineKeeps ==
  ASSUME NEW T, NEW c, NEW L, NEW A, NEW D, NEW W,
         NEW T2, NEW c2, NEW L2, NEW A2, NEW D2, NEW W2, NEW T1,
         NEW k, NEW d, NEW pig, NEW put,
         RanWell(T, c, L, A, D, W, T2, c2, L2, A2, D2, W2, T1, k, d, pig, put)
  PROVE  /\ \A e \in Out(T, c, L, A, D, W) : e[1] # k => e \in Out(T2, c2, L2, A2, D2, W2)
         /\ NewEvents(k, pig, put, d, Len(W[d]) + 1) \subseteq Out(T2, c2, L2, A2, D2, W2)
<1> USE DEF RanWell
<1>1. ASSUME NEW e \in Out(T, c, L, A, D, W), e[1] # k
      PROVE  e \in Out(T2, c2, L2, A2, D2, W2)
  <2>1. IsOut(e, T, c, L, A, D, W)
    BY OutIs
  <2>2. CASE \E j \in T : e = <<j, "tcq", 0, 0>>
    BY <1>1, <2>2 DEF Out
  <2>3. CASE c # None /\ e = <<c, "cur", 0, 0>>
    BY <1>1, <2>3
  <2>4. CASE \E j \in L : e = <<j, "put", 0, 0>>
    BY <1>1, <2>4 DEF Out
  <2>5. CASE \E a \in A : e = <<a[1], "armw", 0, a[2]>>
    BY <1>1, <2>5 DEF Out, Kept
  <2>6. CASE \E a \in D : e = <<a[1], "add", a[2], 0>>
    BY <1>1, <2>6 DEF Out, Kept
  <2>7. CASE \E q \in Rank : \E i \in DOMAIN W[q] :
               W[q][i].type # "PIGBACK" /\ e = <<W[q][i].edata, "wire", q, i>>
    <3>1. PICK q \in Rank : \E i \in DOMAIN W[q] :
               W[q][i].type # "PIGBACK" /\ e = <<W[q][i].edata, "wire", q, i>>
      BY <2>7
    <3>2. PICK i \in DOMAIN W[q] :
               W[q][i].type # "PIGBACK" /\ e = <<W[q][i].edata, "wire", q, i>>
      BY <3>1
    <3>3. i \in DOMAIN W2[q] /\ W2[q][i] = W[q][i]
      <4>1. W[q] \in Seq(Op)
        OBVIOUS
      <4>2. CASE put
        <5>1. PICK op \in Op : W2 = [W EXCEPT ![d] = Append(@, op)]
          BY <4>2 DEF Sent
        <5>2. W2[q] = W[q] \/ W2[q] = Append(W[q], op)
          BY <5>1
        <5> QED BY <4>1, <5>2
      <4>3. CASE ~ put
        BY <4>3 DEF Sent
      <4> QED BY <4>2, <4>3
    <3>4. IsOut(e, T2, c2, L2, A2, D2, W2)
      BY <3>2, <3>3 DEF IsOut
    <3> QED BY <3>4, OutIs
  <2> QED BY <2>1, <2>2, <2>3, <2>4, <2>5, <2>6, <2>7 DEF IsOut
<1>2. ASSUME NEW e \in NewEvents(k, pig, put, d, Len(W[d]) + 1)
      PROVE  e \in Out(T2, c2, L2, A2, D2, W2)
  <2>1. CASE pig /\ e = <<k, "tcq", 0, 0>>
    BY <2>1 DEF Out
  <2>2. CASE put /\ ~ pig /\ e = <<k, "wire", d, Len(W[d]) + 1>>
    <3>1. PICK op \in Op : /\ op.edata = k /\ (op.type = "PIGBACK" <=> pig)
                           /\ W2 = [W EXCEPT ![d] = Append(@, op)]
      BY <2>2 DEF Sent
    <3>2. W[d] \in Seq(Op) /\ W2[d] = Append(W[d], op)
      BY <3>1
    <3>3. Len(W[d]) + 1 \in DOMAIN W2[d] /\ W2[d][Len(W[d]) + 1] = op
      BY <3>2
    <3>4. IsOut(e, T2, c2, L2, A2, D2, W2)
      BY <2>2, <3>1, <3>3 DEF IsOut
    <3> QED BY <3>4, OutIs
  <2> QED BY <2>1, <2>2 DEF NewEvents
<1> QED BY <1>1, <1>2

(* utf_tcq_count over a run of the engine                                  *)
LEMMA CountStep ==
  ASSUME NEW S, IsFiniteSet(S), NEW k, NEW S2, NEW pig \in BOOLEAN, NEW done \in BOOLEAN,
         NEW n \in Int, n >= Cardinality(S), done <=> k \in S,
         S2 \subseteq (S \ {k}) \cup (IF pig THEN {k} ELSE {})
  PROVE  /\ TcqCount(n, done, pig) >= Cardinality(S2)
         /\ n = Cardinality(S) /\ S2 = (S \ {k}) \cup (IF pig THEN {k} ELSE {}) =>
              TcqCount(n, done, pig) = Cardinality(S2)
<1> DEFINE R == S \ {k}
           P == R \cup (IF pig THEN {k} ELSE {})
<1>1. /\ IsFiniteSet(R) /\ Cardinality(R) \in Nat /\ Cardinality(S) \in Nat
      /\ Cardinality(R) = IF done THEN Cardinality(S) - 1 ELSE Cardinality(S)
  BY FS_RemoveElement, FS_CardinalityType
<1>2. /\ IsFiniteSet(P) /\ Cardinality(P) \in Nat
      /\ Cardinality(P) = IF pig THEN Cardinality(R) + 1 ELSE Cardinality(R)
  <2>1. k \notin R
    OBVIOUS
  <2>2. CASE pig
    <3>1. P = R \cup {k}
      BY <2>2
    <3> HIDE DEF P, R
    <3> QED BY <1>1, <2>1, <2>2, <3>1, FS_AddElement, FS_CardinalityType
  <2>3. CASE ~ pig
    <3>1. P = R
      BY <2>3
    <3> QED BY <1>1, <2>3, <3>1
  <2> QED BY <2>2, <2>3
<1>3. Cardinality(S2) <= Cardinality(P) /\ Cardinality(S2) \in Nat
  <2>1. S2 \subseteq P
    OBVIOUS
  <2> HIDE DEF P
  <2> QED BY <1>2, <2>1, FS_Subset, FS_CardinalityType
<1>4. S2 = (S \ {k}) \cup (IF pig THEN {k} ELSE {}) => Cardinality(S2) = Cardinality(P)
  OBVIOUS
<1> HIDE DEF R, P
<1> QED BY <1>1, <1>2, <1>3, <1>4 DEF TcqCount

LEMMA OwedFinite ==
  ASSUME TypeInv, NEW p \in Rank
  PROVE  IsFiniteSet(Owed(p))
<1>1. IsFiniteSet(SndCntr)
  BY ConstAssumption, FS_Interval DEF SndCntr
<1>2. Owed(p) \subseteq SndCntr
  BY DEF Owed, TypeInv, TypeOK, TypeTcq, TypeProc
<1> QED BY <1>1, <1>2, FS_Subset

(* whether the engine puts a piggyback                                     *)
Pig(u) == Puts(u) /\ PutType(u) = "PIGBACK"

LEMMA EngineQueues ==
  ASSUME TypeInv, NEW p \in Rank, NEW k \in SndCntr, NEW u \in Control, ControlOK(u),
         NEW ridx, Puts(u) => ridx \in Ring, NEW b, NEW done \in BOOLEAN,
         SendEngine(p, k, u, ridx, b, done)
  PROVE  /\ b \in {None} \cup (tcq[p] \ {k})
         /\ ~ ToqBusy => b = None
         /\ tcq'[p] = (tcq[p] \ ((IF done THEN {k} ELSE {}) \cup {b}))
                         \cup (IF Pig(u) THEN {k} ELSE {})
         /\ tcq_count'[p] = TcqCount(tcq_count[p], done, Pig(u))
         /\ scntr'[p] = [scntr[p] EXCEPT ![k] = EngineResult(u)]
         /\ Sent(wire[p], wire'[p], k, Pig(u), Puts(u), u.dst)
<1>1. /\ tcq \in [Rank -> SUBSET SndCntr] /\ tcq_count \in [Rank -> Int]
      /\ scntr \in [Rank -> [SndCntr -> Control]]
      /\ wire \in [Rank -> [Rank -> Seq(Op)]]
  BY DEF TypeInv, TypeOK, TypeTcq, TypeSnd, TypeNet
<1>2. b \in {None} \cup (tcq[p] \ {k}) /\ (~ ToqBusy => b = None)
  BY DEF SendEngine, BusyResult
<1>3. tcq'[p] = (tcq[p] \ ((IF done THEN {k} ELSE {}) \cup {b}))
                  \cup (IF Pig(u) THEN {k} ELSE {})
  BY <1>1 DEF SendEngine, Pig
<1>4. tcq_count'[p] = TcqCount(tcq_count[p], done, Pig(u))
  BY <1>1 DEF SendEngine, Pig
<1>5. scntr'[p] = [scntr[p] EXCEPT ![k] = EngineResult(u)]
  BY <1>1 DEF SendEngine
<1>6. Sent(wire[p], wire'[p], k, Pig(u), Puts(u), u.dst)
  <2>1. CASE Puts(u)
    <3> DEFINE op == PutOp(p, k, u, ridx)
    <3>1. op \in Op /\ op.edata = k /\ u.dst \in Rank
      BY <2>1, PutOpType, EngineType
    <3>2. op.type = PutType(u)
      BY DEF PutOp
    <3>3. wire' = [wire EXCEPT ![p][u.dst] = Append(@, op)]
      BY <2>1 DEF SendEngine
    <3> HIDE DEF op
    <3>4. wire'[p] = [wire[p] EXCEPT ![u.dst] = Append(@, op)]
      BY <1>1, <3>1, <3>3
    <3> QED BY <2>1, <3>1, <3>2, <3>4 DEF Sent, Pig
  <2>2. CASE ~ Puts(u)
    BY <2>2 DEF Sent, SendEngine
  <2> QED BY <2>1, <2>2
<1> QED BY <1>2, <1>3, <1>4, <1>5, <1>6

(* A run of the engine on control k, whose event has been taken.           *)
LEMMA EngineAccounted ==
  ASSUME TypeInv, NEW p \in Rank, NEW k \in SndCntr, NEW u \in Control, ControlOK(u),
         u.state \in Issued \cup {"HAS_ROOM"},
         NEW ridx \in Ring, NEW b, NEW done \in BOOLEAN,
         SendEngine(p, k, u, ridx, b, done),
         Accounted(p), pc[p] # "abort",
         Quiet(k, IF done THEN tcq[p] \ {k} ELSE tcq[p], lclput'[p], lclarmw'[p],
               addreq'[p], wire[p]),
         cur[p] \in {None, k}, cur[p] = k => done, done => k \in Owed(p),
         cur'[p] = b \/ (cur'[p] = None /\ (ToqBusy \/ b = None)),
         cur'[p] # None => pc'[p] \in {"sendtcq", "tcq", "prep", "abort"},
         lclput'[p] \subseteq lclput[p], lclput[p] \ {k} \subseteq lclput'[p],
         lclarmw'[p] \subseteq lclarmw[p],
         \A a \in lclarmw[p] : a[1] # k => a \in lclarmw'[p],
         addreq'[p] = addreq[p],
         EngineFault(u) => pc'[p] = "abort"
  PROVE  Accounted(p)'
<1> DEFINE E == Events(p)
           E2 == Events(p)'
           N == NewEvents(k, Pig(u), Puts(u), u.dst, Len(wire[p][u.dst]) + 1)
           T1 == tcq[p] \ ((IF done THEN {k} ELSE {}) \cup {b})
           us2 == [scntr[p] EXCEPT ![k] = EngineResult(u)]
<1>1. /\ b \in {None} \cup (tcq[p] \ {k})
      /\ ~ ToqBusy => b = None
      /\ tcq'[p] = T1 \cup (IF Pig(u) THEN {k} ELSE {})
      /\ tcq_count'[p] = TcqCount(tcq_count[p], done, Pig(u))
      /\ scntr'[p] = us2
      /\ Sent(wire[p], wire'[p], k, Pig(u), Puts(u), u.dst)
  BY EngineQueues
<1>2. /\ wire[p] \in [Rank -> Seq(Op)] /\ u.dst \in Rank
      /\ scntr[p] \in [SndCntr -> Control] /\ EngineResult(u) \in Control
      /\ tcq[p] \subseteq SndCntr /\ tcq_count[p] \in Int
      /\ None \notin SndCntr
  BY EngineType DEF TypeInv, TypeOK, TypeTcq, TypeSnd, TypeNet, ControlOK, Issued,
     SndCntr, None
<1>3. /\ OneEach(E) /\ InPlace(E, scntr[p])
      /\ tcq_count[p] >= Cardinality(Owed(p))
      /\ ~ ToqBusy => NoneMissing(E, scntr[p]) /\ tcq_count[p] = Cardinality(Owed(p))
  BY DEF Accounted
<1>4. /\ Puts(u) => EngineResult(u).state \in Issued
      /\ ~ Puts(u) /\ ~ EngineFault(u) => EngineResult(u).state \notin Asked \cup Issued
  BY EngineWaits
<1>5. Pig(u) \in BOOLEAN /\ Puts(u) \in BOOLEAN /\ (Pig(u) => Puts(u))
  BY DEF Pig, Puts
<1>6. /\ E = Out(tcq[p], cur[p], lclput[p], lclarmw[p], addreq[p], wire[p])
      /\ E2 = Out(tcq'[p], cur'[p], lclput'[p], lclarmw'[p], addreq'[p], wire'[p])
  BY EventsAre
<1>7. Quiet(k, T1, lclput'[p], lclarmw'[p], addreq'[p], wire[p])
  BY DEF Quiet
<1>8. \A x \in E2 : x \in N \/ \E e \in E : e[1] # k /\ x = Swallow(E, b)[e]
  <2> TAKE x \in E2
  <2>1. T1 \subseteq tcq[p] \ {b} /\ cur'[p] \in {None, b} /\ b # k
        /\ b \in {None} \cup tcq[p]
    BY <1>1, <1>2
  <2> DEFINE T == tcq[p]    T2 == tcq'[p]
             c == cur[p]    c2 == cur'[p]
             L == lclput[p] L2 == lclput'[p]
             A == lclarmw[p] A2 == lclarmw'[p]
             D == addreq[p] D2 == addreq'[p]
             W == wire[p]   W2 == wire'[p]
             pig == Pig(u)  put == Puts(u)  d == u.dst
  <2>2. /\ Ran(T, c, L, A, D, W, T2, c2, L2, A2, D2, W2, T1, k, b, d, pig, put)
        /\ E = Out(T, c, L, A, D, W) /\ E2 = Out(T2, c2, L2, A2, D2, W2)
        /\ N = NewEvents(k, pig, put, d, Len(W[d]) + 1)
    BY <1>1, <1>2, <1>5, <1>6, <1>7, <2>1 DEF Ran
  <2> HIDE DEF T1, T, T2, c, c2, L, L2, A, A2, D, D2, W, W2, pig, put, d, E, E2, N
  <2>3. x \in Out(T2, c2, L2, A2, D2, W2)
    BY <2>2
  <2>4. \/ x \in NewEvents(k, pig, put, d, Len(W[d]) + 1)
        \/ \E e \in Out(T, c, L, A, D, W) :
              e[1] # k /\ x = Swallow(Out(T, c, L, A, D, W), b)[e]
    BY <2>2, <2>3, EngineOut
  <2> QED BY <2>2, <2>4
<1>9. /\ OneEach(N) /\ (\A x \in N : x[1] = k)
      /\ InPlace(N, us2)
  <2>1. \A x \in N : x[1] = k /\ x[2] \in {"tcq", "wire"} /\ Puts(u)
    BY <1>5 DEF NewEvents
  <2>2. OneEach(N)
    BY DEF NewEvents, OneEach
  <2>3. us2[k] = EngineResult(u)
    BY <1>2
  <2> HIDE DEF N, us2
  <2> QED BY <1>4, <2>1, <2>2, <2>3 DEF InPlace, WaitsIn
<1>10. \A e \in E : e[1] \in SndCntr
  BY EventControl
<1>11. \A e \in E : /\ Swallow(E, b)[e][1] = e[1]
                    /\ WaitsIn(Swallow(E, b)[e][2]) = WaitsIn(e[2])
  BY DEF Swallow, WaitsIn
<1>12. \A j \in SndCntr : j # k => us2[j] = scntr[p][j]
  BY <1>2
<1> HIDE DEF E, E2, N, T1, us2
<1>13. OneEach(E2) /\ InPlace(E2, us2)
  <2> DEFINE K == {k}
             m == Swallow(E, b)
  <2>1. /\ Moves(E, K, m) /\ Comes(E2, E, K, m, N)
        /\ OfControls(N, K) /\ Stay(K, scntr[p], us2)
    BY <1>8, <1>9, <1>10, <1>11, <1>12 DEF Moves, Comes, OfControls, Stay
  <2> HIDE DEF K, m
  <2> QED BY <1>3, <1>9, <2>1, EventsMoved
<1>14. /\ tcq_count'[p] >= Cardinality(Owed(p)')
       /\ ~ ToqBusy => tcq_count'[p] = Cardinality(Owed(p)')
  <2> DEFINE S == Owed(p)
             S2 == Owed(p)'
  <2>1. IsFiniteSet(S)
    BY OwedFinite
  <2>2. done <=> k \in S
    BY <1>2 DEF Owed, Quiet
  <2>3. S2 \subseteq (S \ {k}) \cup (IF Pig(u) THEN {k} ELSE {})
    BY <1>1, <1>2 DEF Owed, Quiet, T1
  <2>4. ~ ToqBusy => S2 = (S \ {k}) \cup (IF Pig(u) THEN {k} ELSE {})
    BY <1>1, <1>2 DEF Owed, Quiet, T1
  <2> HIDE DEF S, S2
  <2>5. /\ TcqCount(tcq_count[p], done, Pig(u)) >= Cardinality(S2)
        /\ tcq_count[p] = Cardinality(S) /\ S2 = (S \ {k}) \cup (IF Pig(u) THEN {k} ELSE {}) =>
              TcqCount(tcq_count[p], done, Pig(u)) = Cardinality(S2)
    BY <1>2, <1>3, <1>5, <2>1, <2>2, <2>3, CountStep DEF S
  <2> QED BY <1>1, <1>3, <2>4, <2>5 DEF S, S2
<1>15. ~ ToqBusy /\ pc'[p] # "abort" => NoneMissing(E2, us2)
  <2> SUFFICES ASSUME ~ ToqBusy, pc'[p] # "abort" PROVE NoneMissing(E2, us2)
    OBVIOUS
  <2>1. /\ \A e \in E : e[1] # k => e \in E2
        /\ N \subseteq E2
    <3>1. tcq[p] \ {k} \subseteq T1
      BY <1>1, <1>2 DEF T1
    <3> DEFINE T == tcq[p]    T2 == tcq'[p]
               c == cur[p]    c2 == cur'[p]
               L == lclput[p] L2 == lclput'[p]
               A == lclarmw[p] A2 == lclarmw'[p]
               D == addreq[p] D2 == addreq'[p]
               W == wire[p]   W2 == wire'[p]
               pig == Pig(u)  put == Puts(u)  d == u.dst
    <3>2. /\ RanWell(T, c, L, A, D, W, T2, c2, L2, A2, D2, W2, T1, k, d, pig, put)
          /\ E = Out(T, c, L, A, D, W) /\ E2 = Out(T2, c2, L2, A2, D2, W2)
          /\ N = NewEvents(k, pig, put, d, Len(W[d]) + 1)
      BY <1>1, <1>2, <1>5, <1>6, <3>1 DEF Kept, N, RanWell
    <3> HIDE DEF T, T2, c, c2, L, L2, A, A2, D, D2, W, W2, pig, put, d
    <3> QED BY <3>2, EngineKeeps
  <2>2. ASSUME NEW j \in SndCntr, us2[j].state \in Asked \cup Issued
        PROVE  \E e \in E2 : e[1] = j
    <3>1. CASE j = k
      <4>1. us2[k] = EngineResult(u)
        BY <1>2 DEF us2
      <4>2. Puts(u)
        BY <1>4, <2>2, <3>1, <4>1
      <4>3. \E x \in N : x[1] = k
        <5>1. CASE Pig(u)
          <6>1. <<k, "tcq", 0, 0>> \in N
            BY <5>1 DEF N, NewEvents
          <6> QED BY <1>9, <6>1
        <5>2. CASE ~ Pig(u)
          <6>1. <<k, "wire", u.dst, Len(wire[p][u.dst]) + 1>> \in N
            BY <4>2, <5>2 DEF N, NewEvents
          <6> QED BY <1>9, <6>1
        <5> QED BY <5>1, <5>2
      <4> QED BY <2>1, <3>1, <4>3
    <3>2. CASE j # k
      <4>1. \E e \in E : e[1] = j
        BY <1>3, <1>12, <2>2, <3>2 DEF NoneMissing
      <4> QED BY <2>1, <3>2, <4>1
    <3> QED BY <3>1, <3>2
  <2> QED BY <2>2 DEF NoneMissing
<1> QED
  BY <1>1, <1>13, <1>14, <1>15 DEF Accounted, E2

-----------------------------------------------------------------------------
(* Steps.                                                                  *)

SameRank(r) ==
  /\ pc'[r] = pc[r] /\ cur'[r] = cur[r]
  /\ scntr'[r] = scntr[r] /\ tcq_count'[r] = tcq_count[r] /\ tcq'[r] = tcq[r]
  /\ lclput'[r] = lclput[r] /\ lclarmw'[r] = lclarmw[r]
  /\ addreq'[r] = addreq[r] /\ wire'[r] = wire[r]

LEMMA SameEvents ==
  ASSUME NEW r, tcq'[r] = tcq[r], cur'[r] = cur[r], lclput'[r] = lclput[r],
         lclarmw'[r] = lclarmw[r], addreq'[r] = addreq[r], wire'[r] = wire[r]
  PROVE  Events(r)' = Events(r) /\ Owed(r)' = Owed(r)
BY EventsAre DEF Owed

LEMMA OneRank ==
  ASSUME EventInv, NEW p \in Rank, Accounted(p)',
         \A r \in Rank : r # p => SameRank(r)
  PROVE  EventInv'
<1>1. ASSUME NEW r \in Rank, r # p PROVE Accounted(r)'
  <2>1. Accounted(r) /\ SameRank(r)
    BY <1>1 DEF EventInv
  <2>2. Events(r)' = Events(r) /\ Owed(r)' = Owed(r)
    BY <2>1, SameEvents DEF SameRank
  <2> QED BY <2>1, <2>2 DEF Accounted, SameRank
<1> QED BY <1>1 DEF EventInv

LEMMA EngineOthers ==
  ASSUME TypeInv, NEW p \in Rank, NEW k, NEW u, NEW ridx, NEW b, NEW done,
         SendEngine(p, k, u, ridx, b, done), NEW r \in Rank, r # p
  PROVE  /\ scntr'[r] = scntr[r] /\ tcq_count'[r] = tcq_count[r]
         /\ tcq'[r] = tcq[r] /\ wire'[r] = wire[r]
<1>1. /\ tcq \in [Rank -> SUBSET SndCntr] /\ tcq_count \in [Rank -> Int]
      /\ scntr \in [Rank -> [SndCntr -> Control]]
      /\ wire \in [Rank -> [Rank -> Seq(Op)]]
  BY DEF TypeInv, TypeOK, TypeTcq, TypeSnd, TypeNet
<1> QED BY <1>1 DEF SendEngine

(* If control k has event e, it has none elsewhere ...                     *)
LEMMA OnlyThere ==
  ASSUME NEW p, OneEach(Events(p)), NEW k, k # None, NEW e \in Events(p), e[1] = k
  PROVE  /\ k \in tcq[p] => e[2] = "tcq"
         /\ cur[p] = k => e[2] = "cur"
         /\ k \in lclput[p] => e[2] = "put"
         /\ \A a \in lclarmw[p] : a[1] = k => e = <<k, "armw", 0, a[2]>>
         /\ \A a \in addreq[p] : a[1] = k => e = <<k, "add", a[2], 0>>
         /\ \A q \in Rank : \A i \in DOMAIN wire[p][q] :
              wire[p][q][i].edata = k /\ wire[p][q][i].type # "PIGBACK" =>
                e = <<k, "wire", q, i>>
<1> DEFINE is(x) == IsOut(x, tcq[p], cur[p], lclput[p], lclarmw[p], addreq[p], wire[p])
<1>1. ASSUME NEW x, is(x), x[1] = k PROVE e = x
  <2>1. x \in Events(p)
    BY <1>1, EventsAre, OutIs
  <2> QED BY <1>1, <2>1 DEF OneEach
<1>2. k \in tcq[p] => e[2] = "tcq"
  <2>1. k \in tcq[p] => is(<<k, "tcq", 0, 0>>)
    BY DEF IsOut
  <2> HIDE DEF is
  <2> QED BY <1>1, <2>1
<1>3. cur[p] = k => e[2] = "cur"
  <2>1. cur[p] = k => is(<<k, "cur", 0, 0>>)
    BY DEF IsOut
  <2> HIDE DEF is
  <2> QED BY <1>1, <2>1
<1>4. k \in lclput[p] => e[2] = "put"
  <2>1. k \in lclput[p] => is(<<k, "put", 0, 0>>)
    BY DEF IsOut
  <2> HIDE DEF is
  <2> QED BY <1>1, <2>1
<1>5. ASSUME NEW a \in lclarmw[p], a[1] = k PROVE e = <<k, "armw", 0, a[2]>>
  <2>1. is(<<k, "armw", 0, a[2]>>)
    BY <1>5 DEF IsOut
  <2> HIDE DEF is
  <2> QED BY <1>1, <2>1
<1>6. ASSUME NEW a \in addreq[p], a[1] = k PROVE e = <<k, "add", a[2], 0>>
  <2>1. is(<<k, "add", a[2], 0>>)
    BY <1>6 DEF IsOut
  <2> HIDE DEF is
  <2> QED BY <1>1, <2>1
<1>7. ASSUME NEW q \in Rank, NEW i \in DOMAIN wire[p][q],
             wire[p][q][i].edata = k, wire[p][q][i].type # "PIGBACK"
      PROVE  e = <<k, "wire", q, i>>
  <2>1. is(<<k, "wire", q, i>>)
    BY <1>7 DEF IsOut
  <2> HIDE DEF is
  <2> QED BY <1>1, <2>1
<1> QED BY <1>2, <1>3, <1>4, <1>5, <1>6, <1>7

(* ... and a control that waits for nothing has none.                      *)
LEMMA NoEvent ==
  ASSUME NEW p, InPlace(Events(p), scntr[p]), NEW k, k # None,
         scntr[p][k].state \notin Asked \cup Issued
  PROVE  /\ Quiet(k, tcq[p], lclput[p], lclarmw[p], addreq[p], wire[p])
         /\ cur[p] # k
<1> DEFINE is(x) == IsOut(x, tcq[p], cur[p], lclput[p], lclarmw[p], addreq[p], wire[p])
<1>1. ASSUME NEW x, is(x), x[1] = k PROVE FALSE
  <2>1. x \in Events(p)
    BY <1>1, EventsAre, OutIs
  <2> QED BY <1>1, <2>1 DEF InPlace, WaitsIn
<1>2. k \notin tcq[p] /\ k \notin lclput[p] /\ cur[p] # k
  <2>1. /\ k \in tcq[p] => is(<<k, "tcq", 0, 0>>)
        /\ k \in lclput[p] => is(<<k, "put", 0, 0>>)
        /\ cur[p] = k => is(<<k, "cur", 0, 0>>)
    BY DEF IsOut
  <2> HIDE DEF is
  <2> QED BY <1>1, <2>1
<1>3. ASSUME NEW a \in lclarmw[p], a[1] = k PROVE FALSE
  <2>1. is(<<k, "armw", 0, a[2]>>)
    BY <1>3 DEF IsOut
  <2> HIDE DEF is
  <2> QED BY <1>1, <2>1
<1>4. ASSUME NEW a \in addreq[p], a[1] = k PROVE FALSE
  <2>1. is(<<k, "add", a[2], 0>>)
    BY <1>4 DEF IsOut
  <2> HIDE DEF is
  <2> QED BY <1>1, <2>1
<1>5. ASSUME NEW q \in Rank, NEW i \in DOMAIN wire[p][q],
             wire[p][q][i].edata = k, wire[p][q][i].type # "PIGBACK"
      PROVE  FALSE
  <2>1. is(<<k, "wire", q, i>>)
    BY <1>5 DEF IsOut
  <2> HIDE DEF is
  <2> QED BY <1>1, <2>1
<1> QED BY <1>2, <1>3, <1>4, <1>5 DEF Quiet

LEMMA NotNone == None \notin SndCntr
BY DEF None, SndCntr

(* A control with a completion under way is in use.                        *)
LEMMA IssuedFacts ==
  ASSUME TypeInv, NEW p \in Rank, NEW k \in SndCntr, scntr[p][k].state \in Issued
  PROVE  /\ scntr[p][k] \in Control /\ ControlOK(scntr[p][k])
         /\ scntr[p][k].dst \in Rank /\ egrmgt[p][scntr[p][k].dst].index \in Ring
<1>1. scntr[p][k] \in Control /\ ControlOK(scntr[p][k])
  BY DEF TypeInv, TypeOK, TypeSnd
<1>2. scntr[p][k].dst \in Rank
  BY <1>1 DEF ControlOK, Issued
<1> QED BY <1>1, <1>2 DEF TypeInv, TypeOK, TypeSnd

LEMMA TcqStepEvents ==
  ASSUME TypeInv, EventInv, NEW p \in Rank, NEW k \in SndCntr, TcqStep(p, k)
  PROVE  EventInv'
<1> DEFINE u == scntr[p][k]
<1>1. PICK b : /\ SendEngine(p, k, u, egrmgt[p][u.dst].index, b, TRUE)
               /\ cur' = [cur EXCEPT ![p] = b]
  BY DEF TcqStep
<1>2. /\ pc[p] \in {"sendtcq", "tcq", "prep"} /\ pc[p] # "abort"
      /\ cur[p] = k \/ (cur[p] = None /\ k \in tcq[p])
  BY DEF TcqStep
<1>3. /\ UNCHANGED <<lclput, lclarmw, addreq>>
      /\ pc' = [pc EXCEPT ![p] = IF EngineFault(u) THEN "abort"
                                 ELSE IF tcq_count'[p] < 0 THEN "abort" ELSE pc[p]]
  BY DEF TcqStep, mrqVars, Continue
<1>4. pc \in [Rank -> PC] /\ cur \in [Rank -> SndCntr \cup {None}]
  BY DEF TypeInv, TypeOK, TypeProc
<1>5. Accounted(p) /\ OneEach(Events(p)) /\ InPlace(Events(p), scntr[p])
  BY DEF EventInv, Accounted
<1>6. PICK e \in Events(p) : e[1] = k /\ e[2] \in {"tcq", "cur"}
  <2> DEFINE t == <<k, "tcq", 0, 0>>
             c == <<k, "cur", 0, 0>>
  <2>1. t \in Events(p) \/ c \in Events(p)
    BY <1>2, NotNone DEF Events
  <2> QED BY <2>1
<1>7. u.state \in Issued
  BY <1>5, <1>6 DEF InPlace, WaitsIn
<1>8. u \in Control /\ ControlOK(u) /\ u.dst \in Rank /\ egrmgt[p][u.dst].index \in Ring
  BY <1>7, IssuedFacts
<1>9. Quiet(k, tcq[p] \ {k}, lclput[p], lclarmw[p], addreq[p], wire[p])
  BY <1>5, <1>6, NotNone, OnlyThere DEF Quiet
<1>10. pc'[p] \in {"sendtcq", "tcq", "prep", "abort"} /\ (EngineFault(u) => pc'[p] = "abort")
  BY <1>2, <1>3, <1>4
<1>11. cur'[p] = b /\ cur[p] \in {None, k}
  BY <1>1, <1>2, <1>4
<1>12. k \in Owed(p)
  BY <1>2, NotNone DEF Owed
<1>13. \A r \in Rank : r # p => SameRank(r)
  BY <1>1, <1>3, <1>4, EngineOthers DEF SameRank
<1> DEFINE ridx == egrmgt[p][u.dst].index
<1>14. Accounted(p)'
  <2> HIDE DEF u, ridx
  <2>1. /\ SendEngine(p, k, u, ridx, b, TRUE) /\ ridx \in Ring
        /\ u \in Control /\ ControlOK(u) /\ u.state \in Issued \cup {"HAS_ROOM"}
    BY <1>1, <1>7, <1>8 DEF ridx
  <2>2. /\ lclput'[p] = lclput[p] /\ lclarmw'[p] = lclarmw[p] /\ addreq'[p] = addreq[p]
    BY <1>3
  <2> QED
    BY <1>2, <1>5, <1>9, <1>10, <1>11, <1>12, <2>1, <2>2, EngineAccounted
<1> QED BY <1>13, <1>14, OneRank

LEMMA MrqLclPutEvents ==
  ASSUME TypeInv, EventInv, NEW p \in Rank, NEW k \in SndCntr, MrqLclPut(p, k)
  PROVE  EventInv'
<1> DEFINE u == scntr[p][k]
<1>1. PICK b : SendEngine(p, k, u, egrmgt[p][u.dst].index, b, FALSE)
  BY DEF MrqLclPut
<1>2. pc[p] = "mrq" /\ k \in lclput[p]
  BY DEF MrqLclPut
<1>3. /\ UNCHANGED <<cur, lclarmw, addreq>>
      /\ lclput' = [lclput EXCEPT ![p] = @ \ {k}]
      /\ pc' = [pc EXCEPT ![p] = IF EngineFault(u) THEN "abort"
                                 ELSE IF pend[p].dst = None THEN "user" ELSE "send"]
  BY DEF MrqLclPut, MrqReturns, Continue
<1>4. /\ pc \in [Rank -> PC] /\ cur \in [Rank -> SndCntr \cup {None}]
      /\ lclput \in [Rank -> SUBSET SndCntr]
  BY DEF TypeInv, TypeOK, TypeProc, TypeMrq
<1>5. /\ Accounted(p) /\ OneEach(Events(p)) /\ InPlace(Events(p), scntr[p])
      /\ cur[p] = None
  BY <1>2 DEF EventInv, Accounted
<1>6. PICK e \in Events(p) : e[1] = k /\ e[2] = "put"
  <2> DEFINE t == <<k, "put", 0, 0>>
  <2>1. t \in Events(p)
    BY <1>2 DEF Events
  <2> QED BY <2>1
<1>7. u.state \in Issued
  BY <1>5, <1>6 DEF InPlace, WaitsIn
<1>8. u \in Control /\ ControlOK(u) /\ u.dst \in Rank /\ egrmgt[p][u.dst].index \in Ring
  BY <1>7, IssuedFacts
<1>9. Quiet(k, tcq[p], lclput[p] \ {k}, lclarmw[p], addreq[p], wire[p])
  BY <1>5, <1>6, NotNone, OnlyThere DEF Quiet
<1>10. EngineFault(u) => pc'[p] = "abort"
  BY <1>3, <1>4
<1>11. \A r \in Rank : r # p => SameRank(r)
  BY <1>1, <1>3, <1>4, EngineOthers DEF SameRank
<1>12. b = None \/ ToqBusy
  BY <1>1 DEF SendEngine, BusyResult
<1> DEFINE ridx == egrmgt[p][u.dst].index
<1>13. Accounted(p)'
  <2> HIDE DEF u, ridx
  <2>1. /\ SendEngine(p, k, u, ridx, b, FALSE) /\ ridx \in Ring
        /\ u \in Control /\ ControlOK(u) /\ u.state \in Issued \cup {"HAS_ROOM"}
    BY <1>1, <1>7, <1>8 DEF ridx
  <2>2. /\ lclput'[p] = lclput[p] \ {k} /\ lclarmw'[p] = lclarmw[p] /\ addreq'[p] = addreq[p]
        /\ cur'[p] = None /\ cur[p] # k /\ pc[p] # "abort"
    BY <1>2, <1>3, <1>4, <1>5, NotNone
  <2> QED
    BY <1>5, <1>9, <1>10, <1>12, <2>1, <2>2, EngineAccounted
<1> QED BY <1>11, <1>13, OneRank

LEMMA MrqLclArmwRun ==
  ASSUME TypeInv, EventInv, NEW p \in Rank, NEW k \in SndCntr, NEW val,
         MrqLclArmw(p, k, val), scntr[p][k].state = "REQ_ROOM", val >= 0
  PROVE  EventInv'
<1> DEFINE u == scntr[p][k]
           g == [u EXCEPT !.state = "HAS_ROOM", !.recvidx = 0]
<1>1. PICK b : SendEngine(p, k, g, val, b, FALSE)
  BY DEF MrqLclArmw
<1>2. pc[p] = "mrq" /\ <<k, val>> \in lclarmw[p]
  BY DEF MrqLclArmw
<1>3. /\ UNCHANGED <<cur, lclput, addreq>>
      /\ lclarmw' = [lclarmw EXCEPT ![p] = @ \ {<<k, val>>}]
      /\ pc' = [pc EXCEPT ![p] = IF EngineFault(g) THEN "abort"
                                 ELSE IF pend[p].dst = None THEN "user" ELSE "send"]
  BY DEF MrqLclArmw, MrqReturns, Continue
<1>4. /\ pc \in [Rank -> PC] /\ cur \in [Rank -> SndCntr \cup {None}]
      /\ lclarmw \in [Rank -> SUBSET (SndCntr \X Count)]
  BY DEF TypeInv, TypeOK, TypeProc, TypeMrq
<1>5. /\ Accounted(p) /\ OneEach(Events(p)) /\ InPlace(Events(p), scntr[p])
      /\ cur[p] = None
  BY <1>2 DEF EventInv, Accounted
<1>6. PICK e \in Events(p) : e = <<k, "armw", 0, val>>
  <2> DEFINE a == <<k, val>>
             x == <<k, "armw", 0, val>>
  <2>1. a \in lclarmw[p] /\ a[1] = k /\ a[2] = val
    BY <1>2
  <2> HIDE DEF a
  <2>2. IsOut(x, tcq[p], cur[p], lclput[p], lclarmw[p], addreq[p], wire[p])
    BY <2>1 DEF IsOut
  <2> QED BY <2>2, EventsAre, OutIs
<1>7. g \in Control /\ ControlOK(g) /\ g.state = "HAS_ROOM"
  BY ArmwFacts
<1>8. val \in Ring
  BY <1>2, <1>4, ConstAssumption DEF Ring, Count
<1>9. Quiet(k, tcq[p], lclput[p], lclarmw[p] \ {<<k, val>>}, addreq[p], wire[p])
  <2>1. /\ k \notin tcq[p] /\ k \notin lclput[p]
        /\ \A a \in lclarmw[p] : a[1] = k => e = <<k, "armw", 0, a[2]>>
        /\ \A a \in addreq[p] : a[1] # k
        /\ \A q \in Rank : \A i \in DOMAIN wire[p][q] :
              wire[p][q][i].edata = k => wire[p][q][i].type = "PIGBACK"
    BY <1>5, <1>6, NotNone, OnlyThere
  <2>2. ASSUME NEW a \in lclarmw[p], a[1] = k PROVE a = <<k, val>>
    <3>1. a[2] = val /\ a \in SndCntr \X Count
      BY <1>4, <1>6, <2>1, <2>2
    <3> QED BY <2>2, <3>1
  <2> QED BY <2>1, <2>2 DEF Quiet
<1>10. EngineFault(g) => pc'[p] = "abort"
  BY <1>3, <1>4
<1>11. \A r \in Rank : r # p => SameRank(r)
  BY <1>1, <1>3, <1>4, EngineOthers DEF SameRank
<1>12. b = None \/ ToqBusy
  BY <1>1 DEF SendEngine, BusyResult
<1>13. Accounted(p)'
  <2> HIDE DEF u, g
  <2>1. /\ lclput'[p] = lclput[p] /\ lclarmw'[p] = lclarmw[p] \ {<<k, val>>}
        /\ addreq'[p] = addreq[p]
        /\ cur'[p] = None /\ cur[p] # k /\ pc[p] # "abort"
    BY <1>2, <1>3, <1>4, <1>5, NotNone
  <2>2. \A a \in lclarmw[p] : a[1] # k => a \in lclarmw'[p]
    BY <2>1
  <2> QED
    BY <1>1, <1>5, <1>7, <1>8, <1>9, <1>10, <1>12, <2>1, <2>2, EngineAccounted
<1> QED BY <1>11, <1>13, OneRank

LEMMA MrqRecvResetRun ==
  ASSUME TypeInv, EventInv, NEW p \in Rank, NEW k \in SndCntr, MrqRecvReset(p, k),
         scntr[p][k].state = "WAIT_BUFREADY"
  PROVE  EventInv'
<1> DEFINE u == [scntr[p][k] EXCEPT !.recvidx = 0]
           g == [u EXCEPT !.state = u.ostate]
           ridx == egrmgt[p][u.dst].index
<1>1. /\ u \in Control /\ ControlOK(u) /\ u.state = "WAIT_BUFREADY"
      /\ g \in Control /\ ControlOK(g) /\ g.state \in {"HAS_ROOM", "DO_EGR"}
  BY ResetFacts
<1>2. PICK b : SendEngine(p, k, g, ridx, b, FALSE)
  BY <1>1 DEF MrqRecvReset
<1>3. /\ pc[p] = "mrq"
      /\ UNCHANGED <<cur, lclput, lclarmw, addreq>>
      /\ pc' = [pc EXCEPT ![p] = IF EngineFault(g) THEN "abort"
                                 ELSE IF pend[p].dst = None THEN "user" ELSE "send"]
  BY <1>1 DEF MrqRecvReset, MrqReturns, Continue
<1>4. pc \in [Rank -> PC] /\ cur \in [Rank -> SndCntr \cup {None}]
  BY DEF TypeInv, TypeOK, TypeProc
<1>5. /\ Accounted(p) /\ OneEach(Events(p)) /\ InPlace(Events(p), scntr[p])
      /\ cur[p] = None
  BY <1>3 DEF EventInv, Accounted
<1>6. Quiet(k, tcq[p], lclput[p], lclarmw[p], addreq[p], wire[p])
  BY <1>5, NotNone, NoEvent DEF Asked, Issued
<1>7. ridx \in Ring
  <2>1. u.dst \in Rank
    BY <1>1 DEF ControlOK
  <2> HIDE DEF u
  <2> QED BY <2>1 DEF TypeInv, TypeOK, TypeSnd
<1> HIDE DEF u, g, ridx
<1>8. EngineFault(g) => pc'[p] = "abort"
  BY <1>3, <1>4
<1>9. \A r \in Rank : r # p => SameRank(r)
  BY <1>2, <1>3, <1>4, EngineOthers DEF SameRank
<1>10. b = None \/ ToqBusy
  BY <1>2 DEF SendEngine, BusyResult
<1>11. Accounted(p)'
  <2>1. /\ lclput'[p] = lclput[p] /\ lclarmw'[p] = lclarmw[p] /\ addreq'[p] = addreq[p]
        /\ cur'[p] = None /\ cur[p] # k /\ pc[p] # "abort"
    BY <1>3, <1>5, NotNone
  <2>2. g.state \in Issued \cup {"HAS_ROOM"}
    BY <1>1 DEF Issued
  <2> QED
    BY <1>1, <1>2, <1>5, <1>6, <1>7, <1>8, <1>10, <2>1, <2>2, EngineAccounted
<1> QED BY <1>9, <1>11, OneRank

(* the controls wait as before                                             *)
SameWait(us, us2) ==
  \A j \in SndCntr : \/ us2[j].state = us[j].state
                     \/ /\ us[j].state \notin Asked \cup Issued
                        /\ us2[j].state \notin Asked \cup Issued

(* No event is added, and none is lost unless the transmit call did that   *)
(* or the rank is gone.                                                    *)
LEMMA FewerEvents ==
  ASSUME TypeInv, NEW p \in Rank, Accounted(p), pc[p] # "abort", cur'[p] = None,
         Events(p)' \subseteq Events(p), Owed(p)' \subseteq Owed(p),
         SameWait(scntr[p], scntr'[p]), tcq_count'[p] = tcq_count[p],
         \/ pc'[p] = "abort" \/ ToqBusy
         \/ Events(p)' = Events(p) /\ Owed(p)' = Owed(p)
  PROVE  Accounted(p)'
<1>1. /\ OneEach(Events(p)) /\ InPlace(Events(p), scntr[p])
      /\ tcq_count[p] >= Cardinality(Owed(p))
      /\ ~ ToqBusy => NoneMissing(Events(p), scntr[p]) /\ tcq_count[p] = Cardinality(Owed(p))
  BY DEF Accounted
<1>2. OneEach(Events(p)')
  BY <1>1 DEF OneEach
<1>3. InPlace(Events(p)', scntr'[p])
  <2> SUFFICES ASSUME NEW e \in Events(p)' PROVE scntr'[p][e[1]].state \in WaitsIn(e[2])
    BY DEF InPlace
  <2>1. e \in Events(p) /\ e[1] \in SndCntr /\ scntr[p][e[1]].state \in WaitsIn(e[2])
    BY <1>1, EventControl DEF InPlace
  <2>2. scntr[p][e[1]].state \in Asked \cup Issued
    BY <2>1 DEF WaitsIn
  <2> QED BY <2>1, <2>2 DEF SameWait
<1>4. tcq_count'[p] >= Cardinality(Owed(p)')
  <2>1. /\ Cardinality(Owed(p)') <= Cardinality(Owed(p)) /\ Cardinality(Owed(p)) \in Nat
        /\ Cardinality(Owed(p)') \in Nat
    BY OwedFinite, FS_Subset, FS_CardinalityType
  <2>2. tcq_count[p] \in Int
    BY DEF TypeInv, TypeOK, TypeTcq
  <2> QED BY <1>1, <2>1, <2>2
<1>5. ~ ToqBusy /\ pc'[p] # "abort" =>
        NoneMissing(Events(p)', scntr'[p]) /\ tcq_count'[p] = Cardinality(Owed(p)')
  <2> SUFFICES ASSUME ~ ToqBusy, pc'[p] # "abort"
               PROVE  NoneMissing(Events(p)', scntr'[p]) /\ tcq_count'[p] = Cardinality(Owed(p)')
    OBVIOUS
  <2>1. Events(p)' = Events(p) /\ Owed(p)' = Owed(p)
    OBVIOUS
  <2>2. NoneMissing(Events(p), scntr'[p])
    BY <1>1 DEF NoneMissing, SameWait
  <2> QED BY <1>1, <2>1, <2>2
<1> QED BY <1>2, <1>3, <1>4, <1>5 DEF Accounted

(* A step of rank p that leaves its queues and controls alone.             *)
LEMMA CallEvents ==
  ASSUME TypeInv, EventInv, NEW p \in Rank, pc[p] # "abort", cur[p] = None,
         pc' = [pc EXCEPT ![p] = pc'[p]],
         UNCHANGED <<cur, tcqVars, lclput, lclarmw, addreq, wire, scntr>>
  PROVE  EventInv'
<1>1. Events(p)' = Events(p) /\ Owed(p)' = Owed(p)
  BY SameEvents DEF tcqVars
<1>2. SameWait(scntr[p], scntr'[p]) /\ tcq_count'[p] = tcq_count[p]
  BY DEF SameWait, tcqVars
<1>3. Accounted(p) /\ cur'[p] = None
  BY DEF EventInv
<1>4. Accounted(p)'
  BY <1>1, <1>2, <1>3, FewerEvents
<1>5. \A r \in Rank : r # p => SameRank(r)
  BY DEF SameRank, tcqVars, TypeInv, TypeOK, TypeProc
<1> QED BY <1>4, <1>5, OneRank

LEMMA NoCur ==
  ASSUME EventInv, NEW p \in Rank, pc[p] \notin {"sendtcq", "tcq", "prep", "abort"}
  PROVE  cur[p] = None
BY DEF EventInv, Accounted

LEMMA PlainEvents ==
  ASSUME TypeInv, EventInv, NEW p \in Rank,
         \/ \E d \in Dests[p], type \in Types : SendCall(p, d, type)
         \/ ProgressCall(p) \/ SendRetry(p) \/ TcqEnd(p)
         \/ ScanNone(p) \/ ScanEnd(p) \/ MrqNone(p)
  PROVE  EventInv'
<1>1. UNCHANGED <<cur, tcqVars, lclput, lclarmw, addreq, wire, scntr>>
  BY Zenon DEF SendCall, ProgressCall, SendRetry, TcqEnd, ScanNone, ScanEnd, MrqNone,
     sndVars, mrqVars, netVars
<1>2. pc[p] # "abort" /\ cur[p] = None
  BY NoCur, Zenon DEF SendCall, ProgressCall, SendRetry, TcqEnd, ScanNone, ScanEnd, MrqNone
<1>3. pc' = [pc EXCEPT ![p] = pc'[p]]
  BY ZenonT(40) DEF SendCall, ProgressCall, SendRetry, TcqEnd, ScanNone, ScanEnd, MrqNone, Return,
     TypeInv, TypeOK, TypeProc
<1> QED BY <1>1, <1>2, <1>3, CallEvents

LEMMA SendAllocEvents ==
  ASSUME TypeInv, EventInv, NEW p \in Rank, SendAlloc(p)
  PROVE  EventInv'
<1>1. /\ UNCHANGED <<cur, tcq, tcq_count, lclput, lclarmw, addreq, wire>>
      /\ pc[p] = "alloc"
  BY DEF SendAlloc, tcqVars, mrqVars, netVars
<1>2. pc'[p] # "abort" /\ \A r \in Rank : r # p => pc'[r] = pc[r]
  BY DEF SendAlloc, TypeInv, TypeOK, TypeProc
<1>3. \A r \in Rank : r # p => scntr'[r] = scntr[r]
  BY DEF SendAlloc, TypeInv, TypeOK, TypeSnd
<1>4. SameWait(scntr[p], scntr'[p])
  <2>1. CASE UNCHANGED scntr
    BY <2>1 DEF SameWait
  <2>2. CASE ~ UNCHANGED scntr
    <3>1. PICK k \in FreeControls(p) :
            scntr' = [scntr EXCEPT ![p][k] =
                        [@ EXCEPT !.state = "NONE", !.dst = pend[p].dst, !.mient = 0]]
      BY <2>2 DEF SendAlloc
    <3>2. k \in SndCntr /\ scntr[p][k].state = "FREE"
      BY DEF FreeControls
    <3>3. scntr \in [Rank -> [SndCntr -> Control]]
      BY DEF TypeInv, TypeOK, TypeSnd
    <3>4. scntr'[p][k].state = "NONE" /\ \A j \in SndCntr : j # k => scntr'[p][j] = scntr[p][j]
      BY <3>1, <3>2, <3>3 DEF Control
    <3> QED BY <3>2, <3>4 DEF SameWait, Asked, Issued
  <2> QED BY <2>1, <2>2
<1>5. Events(p)' = Events(p) /\ Owed(p)' = Owed(p)
  BY <1>1, SameEvents
<1>6. cur[p] = None /\ Accounted(p)
  BY <1>1, NoCur DEF EventInv
<1>7. Accounted(p)'
  BY <1>1, <1>4, <1>5, <1>6, FewerEvents
<1>8. \A r \in Rank : r # p => SameRank(r)
  BY <1>1, <1>2, <1>3 DEF SameRank
<1> QED BY <1>7, <1>8, OneRank

(* A completion may get lost.                                              *)
LEMMA LossEvents ==
  ASSUME TypeInv, NEW p \in Rank, Accounted(p), NEW b \in BusyResult(p, TRUE, tcq[p]),
         tcq'[p] = tcq[p] \ {b}, cur[p] = None, cur'[p] = None, lclput'[p] = lclput[p],
         lclarmw'[p] = lclarmw[p], addreq'[p] = addreq[p], wire'[p] = wire[p]
  PROVE  /\ Events(p)' \subseteq Events(p) /\ Owed(p)' \subseteq Owed(p)
         /\ ToqBusy \/ (Events(p)' = Events(p) /\ Owed(p)' = Owed(p))
<1>1. Events(p)' \subseteq Events(p) /\ Owed(p)' \subseteq Owed(p)
  BY EventsAre DEF Out, Owed
<1>2. CASE ~ ToqBusy
  <2>1. b = None
    BY <1>2 DEF BusyResult
  <2>2. tcq'[p] = tcq[p]
    BY <2>1, NotNone DEF TypeInv, TypeOK, TypeTcq
  <2> QED BY <1>1, <2>2, SameEvents
<1> QED BY <1>1, <1>2

LEMMA ScanPktEvents ==
  ASSUME TypeInv, EventInv, NEW p \in Rank, ScanPkt(p)
  PROVE  EventInv'
<1>1. /\ UNCHANGED <<pc, cur, scntr, tcq_count, lclput, lclarmw, addreq, wire>>
      /\ pc[p] = "scan"
  BY DEF ScanPkt, sndVars, netVars
<1>2. cur[p] = None /\ Accounted(p)
  BY <1>1, NoCur DEF EventInv
<1>3. SameWait(scntr[p], scntr'[p])
  BY <1>1 DEF SameWait
<1>4. \/ UNCHANGED tcq
      \/ \E b \in BusyResult(p, TRUE, tcq[p]) : tcq' = [tcq EXCEPT ![p] = @ \ {b}]
  BY DEF ScanPkt
<1>5. tcq \in [Rank -> SUBSET SndCntr]
  BY DEF TypeInv, TypeOK, TypeTcq
<1>6. /\ Events(p)' \subseteq Events(p) /\ Owed(p)' \subseteq Owed(p)
      /\ ToqBusy \/ (Events(p)' = Events(p) /\ Owed(p)' = Owed(p))
  <2>1. CASE UNCHANGED tcq
    BY <1>1, <2>1, SameEvents
  <2>2. CASE \E b \in BusyResult(p, TRUE, tcq[p]) : tcq' = [tcq EXCEPT ![p] = @ \ {b}]
    <3>1. PICK b \in BusyResult(p, TRUE, tcq[p]) : tcq' = [tcq EXCEPT ![p] = @ \ {b}]
      BY <2>2
    <3>2. tcq'[p] = tcq[p] \ {b}
      BY <1>5, <3>1
    <3> QED BY <1>1, <1>2, <3>2, LossEvents
  <2> QED BY <1>4, <2>1, <2>2
<1>7. Accounted(p)'
  BY <1>1, <1>2, <1>3, <1>6, FewerEvents
<1>8. \A r \in Rank : r # p => SameRank(r)
  BY <1>1, <1>4, <1>5 DEF SameRank
<1> QED BY <1>7, <1>8, OneRank

LEMMA MrqLclArmwEvents ==
  ASSUME TypeInv, EventInv, NEW p \in Rank, NEW k \in SndCntr, NEW val,
         MrqLclArmw(p, k, val)
  PROVE  EventInv'
<1>1. CASE scntr[p][k].state = "REQ_ROOM" /\ val >= 0
  BY <1>1, MrqLclArmwRun
<1>2. CASE ~ (scntr[p][k].state = "REQ_ROOM" /\ val >= 0)
  <2>1. /\ UNCHANGED <<cur, lclput, addreq, scntr, wire, tcq, tcq_count>>
        /\ lclarmw' = [lclarmw EXCEPT ![p] = @ \ {<<k, val>>}]
        /\ pc[p] = "mrq" /\ pc' = [pc EXCEPT ![p] = "abort"]
    BY <1>2 DEF MrqLclArmw, tcqVars
  <2>2. /\ pc \in [Rank -> PC] /\ lclarmw \in [Rank -> SUBSET (SndCntr \X Count)]
    BY DEF TypeInv, TypeOK, TypeProc, TypeMrq
  <2>3. Events(p)' \subseteq Events(p) /\ Owed(p)' \subseteq Owed(p)
    <3>1. lclarmw'[p] \subseteq lclarmw[p]
      BY <2>1, <2>2
    <3> QED BY <2>1, <3>1, EventsAre DEF Out, Owed
  <2>4. SameWait(scntr[p], scntr'[p])
    BY <2>1 DEF SameWait
  <2>5. Accounted(p) /\ cur[p] = None
    BY <2>1, NoCur DEF EventInv
  <2>6. pc'[p] = "abort"
    BY <2>1, <2>2
  <2>7. Accounted(p)'
    BY <2>1, <2>3, <2>4, <2>5, <2>6, FewerEvents
  <2>8. \A r \in Rank : r # p => SameRank(r)
    BY <2>1, <2>2 DEF SameRank
  <2> QED BY <2>7, <2>8, OneRank
<1> QED BY <1>1, <1>2

LEMMA MrqRecvResetEvents ==
  ASSUME TypeInv, EventInv, NEW p \in Rank, NEW k \in SndCntr, MrqRecvReset(p, k)
  PROVE  EventInv'
<1>1. CASE scntr[p][k].state = "WAIT_BUFREADY"
  BY <1>1, MrqRecvResetRun
<1>2. CASE scntr[p][k].state # "WAIT_BUFREADY"
  <2> DEFINE u == [scntr[p][k] EXCEPT !.recvidx = 0]
  <2>1. u \in Control /\ u.state = scntr[p][k].state
    BY ResetFacts
  <2>2. /\ UNCHANGED <<cur, lclput, lclarmw, addreq, wire, tcq, tcq_count>>
        /\ scntr' = [scntr EXCEPT ![p][k] = u]
        /\ pc[p] = "mrq" /\ Return(p)
    BY <1>2, <2>1 DEF MrqRecvReset, tcqVars
  <2> HIDE DEF u
  <2>3. pc \in [Rank -> PC] /\ scntr \in [Rank -> [SndCntr -> Control]]
    BY DEF TypeInv, TypeOK, TypeProc, TypeSnd
  <2>4. Events(p)' = Events(p) /\ Owed(p)' = Owed(p)
    BY <2>2, SameEvents
  <2>5. SameWait(scntr[p], scntr'[p])
    BY <2>1, <2>2, <2>3 DEF SameWait
  <2>6. Accounted(p) /\ cur[p] = None
    BY <2>2, NoCur DEF EventInv
  <2>7. Accounted(p)'
    BY <2>2, <2>4, <2>5, <2>6, FewerEvents
  <2>8. \A r \in Rank : r # p => SameRank(r)
    BY <2>2, <2>3 DEF SameRank, Return
  <2> QED BY <2>7, <2>8, OneRank
<1> QED BY <1>1, <1>2

(* utf_send starts the engine.                                             *)
LEMMA SendPostRun ==
  ASSUME TypeInv, EventInv, NEW p \in Rank, SendPost(p),
         scntr[p][rank2scntridx[p][pend[p].dst]].state = "NONE",
         egrmgt[p][pend[p].dst].sndok
  PROVE  EventInv'
<1> DEFINE d == pend[p].dst
           k == rank2scntridx[p][d]
           u == scntr[p][k]
           f == Filled(p, u)
           g == [f EXCEPT !.state = "HAS_ROOM"]
           ridx == egrmgt[p][d].index
<1>1. /\ d \in Rank /\ k \in SndCntr
      /\ g \in Control /\ ControlOK(g) /\ g.state = "HAS_ROOM"
  BY PostFacts, Zenon
<1>2. PICK b : /\ SendEngine(p, k, g, ridx, b, FALSE)
               /\ cur' = [cur EXCEPT ![p] = b]
               /\ Continue(p, g, IF b = None THEN "user" ELSE "prep")
  BY Zenon DEF SendPost
<1>3. /\ pc[p] = "send" /\ u.state = "NONE"
      /\ UNCHANGED <<lclput, lclarmw, addreq>>
  BY DEF SendPost, mrqVars
<1>4. pc \in [Rank -> PC] /\ cur \in [Rank -> SndCntr \cup {None}] /\ ridx \in Ring
  <2> HIDE DEF d
  <2> QED BY <1>1 DEF TypeInv, TypeOK, TypeProc, TypeSnd
<1>5. /\ Accounted(p) /\ OneEach(Events(p)) /\ InPlace(Events(p), scntr[p])
      /\ cur[p] = None
  BY <1>3, NoCur DEF EventInv, Accounted
<1> HIDE DEF g, f, k, ridx, d
<1>6. Quiet(k, tcq[p], lclput[p], lclarmw[p], addreq[p], wire[p])
  BY <1>1, <1>3, <1>5, NotNone, NoEvent DEF Asked, Issued
<1>7. /\ EngineFault(g) => pc'[p] = "abort"
      /\ cur'[p] = b
      /\ b # None => pc'[p] \in {"prep", "abort"}
  BY <1>2, <1>4 DEF Continue
<1>8. \A r \in Rank : r # p => SameRank(r)
  BY <1>2, <1>3, <1>4, EngineOthers DEF SameRank, Continue
<1>9. Accounted(p)'
  <2>1. /\ lclput'[p] = lclput[p] /\ lclarmw'[p] = lclarmw[p] /\ addreq'[p] = addreq[p]
        /\ cur[p] # k /\ pc[p] # "abort"
    BY <1>1, <1>3, <1>5, NotNone
  <2> QED
    BY <1>1, <1>2, <1>4, <1>5, <1>6, <1>7, <2>1, EngineAccounted
<1> QED BY <1>8, <1>9, OneRank

(* utf_send asks for a room.                                               *)
LEMMA SendPostAsk ==
  ASSUME TypeInv, EventInv, NEW p \in Rank, SendPost(p),
         scntr[p][rank2scntridx[p][pend[p].dst]].state = "NONE",
         ~ egrmgt[p][pend[p].dst].sndok
  PROVE  EventInv'
<1> DEFINE d == pend[p].dst
           k == rank2scntridx[p][d]
           u == scntr[p][k]
           w == [Filled(p, u) EXCEPT !.state = "REQ_ROOM"]
           E == Events(p)
           E2 == Events(p)'
           x0 == <<k, "add", d, 0>>
<1>1. d \in Rank /\ k \in SndCntr /\ w \in Control /\ w.state = "REQ_ROOM"
  BY PostFacts, Zenon
<1>2. PICK b \in BusyResult(p, TRUE, tcq[p]) : tcq' = [tcq EXCEPT ![p] = @ \ {b}]
  BY Zenon DEF SendPost
<1>3. /\ pc[p] = "send" /\ u.state = "NONE" /\ pc' = [pc EXCEPT ![p] = "user"]
      /\ UNCHANGED <<cur, lclput, lclarmw, wire, tcq_count>>
      /\ addreq' = [addreq EXCEPT ![p] = @ \cup {<<k, d>>}]
      /\ scntr' = [scntr EXCEPT ![p][k] = w]
  BY DEF SendPost, mrqVars
<1>4. /\ pc \in [Rank -> PC] /\ tcq \in [Rank -> SUBSET SndCntr]
      /\ addreq \in [Rank -> SUBSET (SndCntr \X Rank)]
      /\ scntr \in [Rank -> [SndCntr -> Control]]
      /\ tcq_count \in [Rank -> Int]
  BY DEF TypeInv, TypeOK, TypeProc, TypeTcq, TypeNet, TypeSnd
<1>5. /\ Accounted(p) /\ OneEach(E) /\ InPlace(E, scntr[p]) /\ cur[p] = None
      /\ tcq_count[p] >= Cardinality(Owed(p))
      /\ ~ ToqBusy => NoneMissing(E, scntr[p]) /\ tcq_count[p] = Cardinality(Owed(p))
  BY <1>3, NoCur DEF EventInv, Accounted
<1> HIDE DEF w, k, d
<1>6. /\ addreq'[p] = addreq[p] \cup {<<k, d>>} /\ tcq'[p] = tcq[p] \ {b}
      /\ scntr'[p] = [scntr[p] EXCEPT ![k] = w] /\ scntr[p] \in [SndCntr -> Control]
      /\ pc'[p] = "user"
  BY <1>1, <1>2, <1>3, <1>4
<1>7. \A e \in E : e[1] # k /\ e[1] \in SndCntr
  BY <1>3, <1>5, EventControl DEF InPlace, WaitsIn, Asked, Issued
<1>8. E2 \subseteq E \cup {x0}
  <2> SUFFICES ASSUME NEW x \in E2, x # x0 PROVE x \in E
    OBVIOUS
  <2>1. IsOut(x, tcq[p] \ {b}, cur[p], lclput[p], lclarmw[p], addreq[p] \cup {<<k, d>>},
              wire[p])
    BY <1>3, <1>6, EventsAre, OutIs
  <2>2. IsOut(x, tcq[p], cur[p], lclput[p], lclarmw[p], addreq[p], wire[p])
    BY <2>1 DEF IsOut
  <2> QED BY <2>2, EventsAre, OutIs
<1>9. x0 \in E2
  <2> DEFINE a == <<k, d>>
  <2>1. a \in addreq'[p] /\ a[1] = k /\ a[2] = d
    BY <1>6
  <2> HIDE DEF a
  <2>2. IsOut(x0, tcq'[p], cur'[p], lclput'[p], lclarmw'[p], addreq'[p], wire'[p])
    BY <2>1 DEF IsOut
  <2> QED BY <2>2, EventsAre, OutIs
<1>10. ~ ToqBusy => E \subseteq E2 /\ Owed(p)' = Owed(p)
  <2> SUFFICES ASSUME ~ ToqBusy PROVE E \subseteq E2 /\ Owed(p)' = Owed(p)
    OBVIOUS
  <2>1. tcq'[p] = tcq[p]
    BY <1>4, <1>6, NotNone DEF BusyResult
  <2>2. Owed(p)' = Owed(p)
    BY <1>3, <2>1 DEF Owed
  <2>3. E \subseteq E2
    BY <1>3, <1>6, <2>1, EventsAre DEF Out
  <2> QED BY <2>2, <2>3
<1>11. x0[1] = k /\ x0[2] = "add"
  OBVIOUS
<1> HIDE DEF E, E2, x0
<1>12. OneEach(E2) /\ InPlace(E2, scntr'[p])
  <2> DEFINE K == {k}
             N == {x0}
             m == [e \in E |-> e]
             us2 == scntr'[p]
  <2>1. /\ Moves(E, K, m) /\ Comes(E2, E, K, m, N) /\ OfControls(N, K)
        /\ OneEach(N)
    BY <1>7, <1>8, <1>11 DEF Moves, Comes, OfControls, OneEach
  <2>2. Stay(K, scntr[p], us2) /\ us2[k] = w
    BY <1>1, <1>6 DEF Stay
  <2>3. InPlace(N, us2)
    BY <1>1, <1>11, <2>2 DEF InPlace, WaitsIn, Asked
  <2> HIDE DEF K, N, m, us2
  <2>4. OneEach(E2) /\ InPlace(E2, us2)
    BY <1>5, <2>1, <2>2, <2>3, EventsMoved
  <2> QED BY <2>4 DEF us2
<1>13. tcq_count'[p] >= Cardinality(Owed(p)')
  <2>1. Owed(p)' \subseteq Owed(p)
    BY <1>3, <1>6 DEF Owed
  <2>2. /\ Cardinality(Owed(p)') <= Cardinality(Owed(p)) /\ Cardinality(Owed(p)) \in Nat
        /\ Cardinality(Owed(p)') \in Nat
    BY <2>1, OwedFinite, FS_Subset, FS_CardinalityType
  <2> QED BY <1>3, <1>4, <1>5, <2>2
<1>14. ~ ToqBusy => NoneMissing(E2, scntr'[p]) /\ tcq_count'[p] = Cardinality(Owed(p)')
  <2> SUFFICES ASSUME ~ ToqBusy
               PROVE  NoneMissing(E2, scntr'[p]) /\ tcq_count'[p] = Cardinality(Owed(p)')
    OBVIOUS
  <2>1. \A j \in SndCntr : j # k => scntr'[p][j] = scntr[p][j]
    BY <1>6
  <2>2. NoneMissing(E2, scntr'[p])
    BY <1>5, <1>9, <1>10, <1>11, <2>1 DEF NoneMissing
  <2> QED BY <1>3, <1>5, <1>10, <2>2
<1>15. Accounted(p)'
  BY <1>3, <1>5, <1>6, <1>12, <1>13, <1>14 DEF Accounted, E2
<1>16. \A r \in Rank : r # p => SameRank(r)
  BY <1>2, <1>3, <1>4 DEF SameRank
<1> QED BY <1>15, <1>16, OneRank

(* A control that is busy only gets one more message.                      *)
LEMMA SendPostWaits ==
  ASSUME TypeInv, EventInv, NEW p \in Rank, SendPost(p),
         scntr[p][rank2scntridx[p][pend[p].dst]].state # "NONE"
  PROVE  EventInv'
<1> DEFINE k == rank2scntridx[p][pend[p].dst]
           u == scntr[p][k]
           f == Filled(p, u)
<1>1. k \in SndCntr /\ f \in Control /\ f.state = u.state
  BY PostFacts, Zenon
<1>2. /\ pc[p] = "send" /\ pc' = [pc EXCEPT ![p] = "user"]
      /\ UNCHANGED <<cur, lclput, lclarmw, wire, tcq, tcq_count, addreq>>
      /\ scntr' = [scntr EXCEPT ![p][k] = f]
  BY DEF SendPost, mrqVars, tcqVars
<1>3. pc \in [Rank -> PC] /\ scntr \in [Rank -> [SndCntr -> Control]]
  BY DEF TypeInv, TypeOK, TypeProc, TypeSnd
<1> HIDE DEF k, f
<1>4. Events(p)' = Events(p) /\ Owed(p)' = Owed(p)
  BY <1>2, SameEvents
<1>5. SameWait(scntr[p], scntr'[p])
  BY <1>1, <1>2, <1>3 DEF SameWait
<1>6. Accounted(p) /\ cur[p] = None
  BY <1>2, NoCur DEF EventInv
<1>7. Accounted(p)'
  BY <1>2, <1>4, <1>5, <1>6, FewerEvents
<1>8. \A r \in Rank : r # p => SameRank(r)
  BY <1>2, <1>3 DEF SameRank
<1> QED BY <1>7, <1>8, OneRank

(* The interconnect moves a rank's events and nothing else of it.          *)
LEMMA MovedEvents ==
  ASSUME TypeInv, NEW p \in Rank, Accounted(p), NEW m,
         Moves(Events(p), {}, m), Comes(Events(p)', Events(p), {}, m, {}),
         \A e \in Events(p) : m[e] \in Events(p)',
         pc'[p] = pc[p], cur'[p] = cur[p], tcq'[p] = tcq[p], tcq_count'[p] = tcq_count[p],
         scntr'[p] = scntr[p]
  PROVE  Accounted(p)'
<1> DEFINE E == Events(p)
           E2 == Events(p)'
           K == {}
           us == scntr[p]
<1>1. OneEach(E) /\ InPlace(E, us)
  BY DEF Accounted
<1>2. OneEach(K) /\ InPlace(K, us) /\ OfControls(K, K) /\ Stay(K, us, us)
  BY DEF OneEach, InPlace, OfControls, Stay
<1>3. Moves(E, K, m) /\ Comes(E2, E, K, m, K)
  OBVIOUS
<1>4. Owed(p)' = Owed(p)
  BY DEF Owed
<1>5. NoneMissing(E, us) => NoneMissing(E2, us)
  BY DEF NoneMissing, Moves
<1> HIDE DEF E, E2, K, us
<1>6. OneEach(E2) /\ InPlace(E2, us)
  BY <1>1, <1>2, <1>3, EventsMoved
<1> QED BY <1>4, <1>5, <1>6 DEF Accounted, E, E2, us

(* the put to q that lands becomes a notice, the ones behind it move up    *)
Landing(E, q) ==
  [e \in E |-> IF e[2] # "wire" \/ e[3] # q THEN e
               ELSE IF e[4] = 1 THEN <<e[1], "put", 0, 0>>
               ELSE <<e[1], "wire", q, e[4] - 1>>]

LEMMA NetPutEvents ==
  ASSUME TypeInv, EventInv, NEW p \in Rank, NEW q \in Rank, NetPut(p, q)
  PROVE  EventInv'
<1> DEFINE E == Events(p)
           E2 == Events(p)'
           m == Landing(E, q)
           op == Head(wire[p][q])
<1>1. /\ wire[p][q] # <<>>
      /\ wire' = [wire EXCEPT ![p][q] = Tail(@)]
      /\ lclput' = IF op.type = "PIGBACK" THEN lclput
                   ELSE [lclput EXCEPT ![p] = @ \cup {op.edata}]
      /\ UNCHANGED <<pc, cur, tcq, tcq_count, scntr, lclarmw, addreq>>
  BY DEF NetPut, procVars, tcqVars, sndVars
<1>2. /\ wire \in [Rank -> [Rank -> Seq(Op)]] /\ lclput \in [Rank -> SUBSET SndCntr]
  BY DEF TypeInv, TypeOK, TypeNet, TypeMrq
<1>3. /\ wire[p][q] \in Seq(Op) /\ wire'[p][q] = Tail(wire[p][q])
      /\ \A r \in Rank : r # q => wire'[p][r] = wire[p][r]
      /\ op = wire[p][q][1] /\ 1 \in DOMAIN wire[p][q]
  BY <1>1, <1>2
<1>4. lclput'[p] = IF op.type = "PIGBACK" THEN lclput[p] ELSE lclput[p] \cup {op.edata}
  BY <1>1, <1>2
<1>5. /\ \A i \in DOMAIN wire'[p][q] : /\ i + 1 \in DOMAIN wire[p][q]
                                       /\ wire'[p][q][i] = wire[p][q][i + 1]
                                       /\ i \in Nat /\ i + 1 # 1
      /\ \A i \in DOMAIN wire[p][q] : i # 1 => i - 1 \in DOMAIN wire'[p][q] /\ i \in Nat
  BY <1>3
<1> HIDE DEF op
<1>6. \A e : e \in E <=>
        IsOut(e, tcq[p], cur[p], lclput[p], lclarmw[p], addreq[p], wire[p])
  BY EventsAre, OutIs
<1>7. \A e : e \in E2 <=>
        IsOut(e, tcq[p], cur[p], lclput'[p], lclarmw[p], addreq[p], wire'[p])
  BY <1>1, EventsAre, OutIs
<1>8. Moves(E, {}, m)
  <2> SUFFICES ASSUME NEW e \in E
               PROVE  e[1] \in SndCntr /\ m[e][1] = e[1] /\ WaitsIn(m[e][2]) = WaitsIn(e[2])
    BY DEF Moves
  <2>1. e[1] \in SndCntr
    BY EventControl
  <2> HIDE DEF E
  <2> QED BY <2>1 DEF Landing, WaitsIn
<1> HIDE DEF E, E2, m
<1>9. ASSUME NEW x \in E2 PROVE \E e \in E : x = m[e]
  <2>1. CASE x \in E /\ (x[2] # "wire" \/ x[3] # q)
    BY <2>1 DEF m, Landing
  <2>2. CASE \E j \in lclput'[p] : x = <<j, "put", 0, 0>>
    <3>1. PICK j \in lclput'[p] : x = <<j, "put", 0, 0>>
      BY <2>2
    <3>2. CASE j \in lclput[p]
      <4>1. x \in E
        BY <1>6, <3>1, <3>2 DEF IsOut
      <4> QED BY <2>1, <3>1, <4>1
    <3>3. CASE j \notin lclput[p]
      <4> DEFINE e == <<j, "wire", q, 1>>
      <4>1. e \in E
        <5>1. j = op.edata /\ op.type # "PIGBACK"
          BY <1>4, <3>3
        <5> QED BY <1>3, <1>6, <5>1 DEF IsOut
      <4>2. e[1] = j /\ e[2] = "wire" /\ e[3] = q /\ e[4] = 1
        OBVIOUS
      <4> HIDE DEF e
      <4>3. m[e] = x
        BY <3>1, <4>1, <4>2 DEF m, Landing
      <4> QED BY <4>1, <4>3
    <3> QED BY <3>2, <3>3
  <2>3. CASE \E r \in Rank : \E i \in DOMAIN wire'[p][r] :
          wire'[p][r][i].type # "PIGBACK" /\ x = <<wire'[p][r][i].edata, "wire", r, i>>
    <3>1. PICK r \in Rank : \E i \in DOMAIN wire'[p][r] :
          wire'[p][r][i].type # "PIGBACK" /\ x = <<wire'[p][r][i].edata, "wire", r, i>>
      BY <2>3
    <3>2. PICK i \in DOMAIN wire'[p][r] :
          wire'[p][r][i].type # "PIGBACK" /\ x = <<wire'[p][r][i].edata, "wire", r, i>>
      BY <3>1
    <3>3. CASE r # q
      <4>1. x \in E
        BY <1>3, <1>6, <3>2, <3>3 DEF IsOut
      <4> QED BY <2>1, <3>2, <3>3, <4>1
    <3>4. CASE r = q
      <4> DEFINE e == <<wire[p][q][i + 1].edata, "wire", q, i + 1>>
      <4>1. e \in E
        BY <1>5, <1>6, <3>2, <3>4 DEF IsOut
      <4>2. e[1] = x[1] /\ e[2] = "wire" /\ e[3] = q /\ e[4] # 1 /\ e[4] - 1 = i
        BY <1>5, <3>2, <3>4
      <4> HIDE DEF e
      <4>3. m[e] = <<x[1], "wire", q, i>>
        BY <4>1, <4>2 DEF m, Landing
      <4> QED BY <3>2, <3>4, <4>1, <4>3
    <3> QED BY <3>3, <3>4
  <2>4. CASE \/ \E k \in tcq[p] : x = <<k, "tcq", 0, 0>>
             \/ cur[p] # None /\ x = <<cur[p], "cur", 0, 0>>
             \/ \E a \in lclarmw[p] : x = <<a[1], "armw", 0, a[2]>>
             \/ \E a \in addreq[p] : x = <<a[1], "add", a[2], 0>>
    <3>1. x \in E
      BY <1>6, <2>4 DEF IsOut
    <3>2. x[2] # "wire"
      BY <2>4
    <3> QED BY <2>1, <3>1, <3>2
  <2>5. IsOut(x, tcq[p], cur[p], lclput'[p], lclarmw[p], addreq[p], wire'[p])
    BY <1>7
  <2> QED BY <2>2, <2>3, <2>4, <2>5 DEF IsOut
<1>10. ASSUME NEW e \in E PROVE m[e] \in E2
  <2>1. IsOut(e, tcq[p], cur[p], lclput[p], lclarmw[p], addreq[p], wire[p])
    BY <1>6
  <2>2. CASE \E r \in Rank : \E i \in DOMAIN wire[p][r] :
          wire[p][r][i].type # "PIGBACK" /\ e = <<wire[p][r][i].edata, "wire", r, i>>
    <3>1. PICK r \in Rank : \E i \in DOMAIN wire[p][r] :
          wire[p][r][i].type # "PIGBACK" /\ e = <<wire[p][r][i].edata, "wire", r, i>>
      BY <2>2
    <3>2. PICK i \in DOMAIN wire[p][r] :
          wire[p][r][i].type # "PIGBACK" /\ e = <<wire[p][r][i].edata, "wire", r, i>>
      BY <3>1
    <3>3. e[1] = wire[p][r][i].edata /\ e[2] = "wire" /\ e[3] = r /\ e[4] = i
      BY <3>2
    <3>4. CASE r # q
      <4>1. m[e] = e
        BY <3>3, <3>4 DEF m, Landing
      <4> QED BY <1>3, <1>7, <3>2, <3>4, <4>1 DEF IsOut
    <3>5. CASE r = q /\ i = 1
      <4>1. m[e] = <<op.edata, "put", 0, 0>>
        BY <1>3, <3>3, <3>5 DEF m, Landing
      <4>2. op.edata \in lclput'[p]
        BY <1>3, <1>4, <3>2, <3>5
      <4> QED BY <1>7, <4>1, <4>2 DEF IsOut
    <3>6. CASE r = q /\ i # 1
      <4>1. m[e] = <<wire[p][q][i].edata, "wire", q, i - 1>>
        BY <3>3, <3>6 DEF m, Landing
      <4>2. i - 1 \in DOMAIN wire'[p][q] /\ wire'[p][q][i - 1] = wire[p][q][i]
        <5>1. i - 1 \in DOMAIN wire'[p][q] /\ i - 1 + 1 = i
          BY <1>5, <3>6
        <5> QED BY <1>5, <5>1
      <4> QED BY <1>7, <3>2, <3>6, <4>1, <4>2 DEF IsOut
    <3> QED BY <3>4, <3>5, <3>6
  <2>3. CASE ~ \E r \in Rank : \E i \in DOMAIN wire[p][r] :
          wire[p][r][i].type # "PIGBACK" /\ e = <<wire[p][r][i].edata, "wire", r, i>>
    <3>1. e[2] # "wire"
      BY <2>1, <2>3 DEF IsOut
    <3>2. m[e] = e
      BY <3>1 DEF m, Landing
    <3>3. lclput[p] \subseteq lclput'[p]
      BY <1>4
    <3> QED BY <1>7, <2>1, <2>3, <3>2, <3>3 DEF IsOut
  <2> QED BY <2>2, <2>3
<1>11. Accounted(p)'
  <2>1. Comes(E2, E, {}, m, {})
    BY <1>9 DEF Comes
  <2>2. Accounted(p)
    BY DEF EventInv
  <2> QED BY <1>1, <1>8, <1>10, <2>1, <2>2, MovedEvents DEF E, E2
<1>12. \A r \in Rank : r # p => SameRank(r)
  BY <1>1, <1>2 DEF SameRank
<1> QED BY <1>11, <1>12, OneRank

(* the request becomes its answer                                          *)
LEMMA NetAddEvents ==
  ASSUME TypeInv, EventInv, NEW p \in Rank, NEW k \in SndCntr, NEW q \in Rank,
         NetAdd(p, k, q)
  PROVE  EventInv'
<1> DEFINE E == Events(p)
           E2 == Events(p)'
           x0 == <<k, "add", q, 0>>
           y0 == <<k, "armw", 0, cntr[q]>>
           m == [e \in E |-> IF e = x0 THEN y0 ELSE e]
<1>1. /\ <<k, q>> \in addreq[p]
      /\ addreq' = [addreq EXCEPT ![p] = @ \ {<<k, q>>}]
      /\ lclarmw' = [lclarmw EXCEPT ![p] = @ \cup {<<k, cntr[q]>>}]
      /\ UNCHANGED <<pc, cur, tcq, tcq_count, scntr, lclput, wire>>
  BY DEF NetAdd, procVars, tcqVars, sndVars
<1>2. /\ addreq \in [Rank -> SUBSET (SndCntr \X Rank)]
      /\ lclarmw \in [Rank -> SUBSET (SndCntr \X Count)]
  BY DEF TypeInv, TypeOK, TypeNet, TypeMrq
<1>3. /\ addreq'[p] = addreq[p] \ {<<k, q>>} /\ lclarmw'[p] = lclarmw[p] \cup {<<k, cntr[q]>>}
      /\ addreq[p] \subseteq SndCntr \X Rank
  BY <1>1, <1>2
<1>4. \A e : e \in E <=>
        IsOut(e, tcq[p], cur[p], lclput[p], lclarmw[p], addreq[p], wire[p])
  BY EventsAre, OutIs
<1>5. \A e : e \in E2 <=>
        IsOut(e, tcq[p], cur[p], lclput[p], lclarmw'[p], addreq'[p], wire[p])
  BY <1>1, EventsAre, OutIs
<1>6. x0 \in E /\ y0 \in E2
  <2> DEFINE a == <<k, q>>
             c == <<k, cntr[q]>>
  <2>1. a \in addreq[p] /\ a[1] = k /\ a[2] = q
    BY <1>1
  <2>2. c \in lclarmw'[p] /\ c[1] = k /\ c[2] = cntr[q]
    BY <1>3
  <2> HIDE DEF a, c, E, E2
  <2>3. IsOut(x0, tcq[p], cur[p], lclput[p], lclarmw[p], addreq[p], wire[p])
    BY <2>1 DEF IsOut
  <2>4. IsOut(y0, tcq[p], cur[p], lclput[p], lclarmw'[p], addreq'[p], wire[p])
    BY <2>2 DEF IsOut
  <2> QED BY <1>4, <1>5, <2>3, <2>4
<1>7. Moves(E, {}, m)
  <2> SUFFICES ASSUME NEW e \in E
               PROVE  e[1] \in SndCntr /\ m[e][1] = e[1] /\ WaitsIn(m[e][2]) = WaitsIn(e[2])
    BY DEF Moves
  <2>1. e[1] \in SndCntr
    BY EventControl
  <2> HIDE DEF E
  <2> QED BY <2>1 DEF WaitsIn
<1> HIDE DEF E, E2
<1>8. ASSUME NEW x \in E2 PROVE \E e \in E : x = m[e]
  <2>1. CASE x = y0
    BY <1>6, <2>1
  <2>2. CASE x # y0
    <3>1. IsOut(x, tcq[p], cur[p], lclput[p], lclarmw'[p], addreq'[p], wire[p])
      BY <1>5
    <3>2. IsOut(x, tcq[p], cur[p], lclput[p], lclarmw[p], addreq[p], wire[p])
      BY <1>3, <2>2, <3>1 DEF IsOut
    <3>3. x # x0
      <4>1. ASSUME NEW a \in addreq'[p], x0 = <<a[1], "add", a[2], 0>> PROVE FALSE
        <5>1. a[1] = k /\ a[2] = q /\ a \in SndCntr \X Rank
          BY <1>3, <4>1
        <5>2. a = <<k, q>>
          BY <5>1
        <5> QED BY <1>3, <5>2
      <4> QED BY <3>1, <4>1 DEF IsOut
    <3>4. x \in E
      BY <1>4, <3>2
    <3> QED BY <3>3, <3>4
  <2> QED BY <2>1, <2>2
<1>9. ASSUME NEW e \in E PROVE m[e] \in E2
  <2>1. CASE e = x0
    BY <1>6, <2>1
  <2>2. CASE e # x0
    <3>1. IsOut(e, tcq[p], cur[p], lclput[p], lclarmw[p], addreq[p], wire[p])
      BY <1>4
    <3>2. IsOut(e, tcq[p], cur[p], lclput[p], lclarmw'[p], addreq'[p], wire[p])
      BY <1>3, <2>2, <3>1 DEF IsOut
    <3> QED BY <1>5, <2>2, <3>2
  <2> QED BY <2>1, <2>2
<1> HIDE DEF m
<1>10. Accounted(p)'
  <2>1. Comes(E2, E, {}, m, {})
    BY <1>8 DEF Comes
  <2>2. Accounted(p)
    BY DEF EventInv
  <2> QED BY <1>1, <1>7, <1>9, <2>1, <2>2, MovedEvents DEF E, E2
<1>11. \A r \in Rank : r # p => SameRank(r)
  BY <1>1, <1>2 DEF SameRank
<1> QED BY <1>10, <1>11, OneRank

LEMMA EventInit == Init => TypeInv /\ EventInv
<1> SUFFICES ASSUME Init PROVE TypeInv /\ EventInv
  OBVIOUS
<1>1. TypeInv
  BY TypeInit
<1>2. ASSUME NEW p \in Rank PROVE Accounted(p)
  <2>1. /\ tcq[p] = {} /\ cur[p] = None /\ lclput[p] = {} /\ lclarmw[p] = {}
        /\ addreq[p] = {} /\ \A q \in Rank : wire[p][q] = <<>>
        /\ tcq_count[p] = 0
        /\ \A k \in SndCntr : scntr[p][k].state = "FREE"
    BY DEF Init, FreeCntr
  <2>2. Events(p) = {}
    <3>1. \A e : ~ IsOut(e, tcq[p], cur[p], lclput[p], lclarmw[p], addreq[p], wire[p])
      BY <2>1 DEF IsOut
    <3> QED BY <3>1, EventsAre, OutIs
  <2>3. Owed(p) = {}
    BY <2>1 DEF Owed
  <2>4. Cardinality(Owed(p)) = 0
    BY <2>3, FS_EmptySet
  <2>5. OneEach({}) /\ InPlace({}, scntr[p]) /\ NoneMissing({}, scntr[p])
    BY <2>1 DEF OneEach, InPlace, NoneMissing, Asked, Issued
  <2> QED BY <2>1, <2>2, <2>4, <2>5 DEF Accounted
<1> QED BY <1>1, <1>2 DEF EventInv

LEMMA EventNext ==
  ASSUME TypeInv, EventInv, [Next]_vars
  PROVE  EventInv'
<1>1. CASE UNCHANGED vars
  <2>1. \A r \in Rank : SameRank(r)
    BY <1>1 DEF vars, procVars, sndVars, tcqVars, mrqVars, netVars, SameRank
  <2>2. ASSUME NEW r \in Rank PROVE Accounted(r)'
    <3>1. Accounted(r) /\ SameRank(r)
      BY <2>1 DEF EventInv
    <3>2. Events(r)' = Events(r) /\ Owed(r)' = Owed(r)
      BY <3>1, SameEvents DEF SameRank
    <3> QED BY <3>1, <3>2 DEF Accounted, SameRank
  <2> QED BY <2>2 DEF EventInv
<1>2. CASE \E p \in Rank : \E d \in Dests[p], type \in Types : SendCall(p, d, type)
  BY <1>2, PlainEvents
<1>3. ASSUME NEW p \in Rank, ProgressCall(p) \/ Library(p) PROVE EventInv'
  <2>1. CASE \/ ProgressCall(p) \/ SendRetry(p) \/ TcqEnd(p)
             \/ ScanNone(p) \/ ScanEnd(p) \/ MrqNone(p)
    BY <2>1, PlainEvents
  <2>2. CASE SendAlloc(p)
    BY <2>2, SendAllocEvents
  <2>3. CASE SendPost(p)
    BY <2>3, SendPostRun, SendPostAsk, SendPostWaits
  <2>4. CASE \E k \in SndCntr : TcqStep(p, k)
    BY <2>4, TcqStepEvents
  <2>5. CASE ScanPkt(p)
    BY <2>5, ScanPktEvents
  <2>6. CASE MrqNotice(p)
    BY <2>6, MrqLclPutEvents, MrqLclArmwEvents, MrqRecvResetEvents DEF MrqNotice
  <2> QED BY <1>3, <2>1, <2>2, <2>3, <2>4, <2>5, <2>6 DEF Library
<1>4. CASE Net
  BY <1>4, NetPutEvents, NetAddEvents DEF Net
<1> QED BY <1>1, <1>2, <1>3, <1>4 DEF Next

(* One event for each waiting control.                                     *)
LEMMA EventCount ==
  ASSUME TypeInv, ToqBusy = FALSE, EventInv
  PROVE  OneEvent
<1> SUFFICES ASSUME NEW p \in Rank, pc[p] # "abort"
             PROVE  /\ \A k \in SndCntr :
                         Cardinality({e \in Events(p) : e[1] = k}) =
                           IF scntr[p][k].state \in {"REQ_ROOM", "DO_EGR", "DONE_EGR", "REQ_RDVR"}
                           THEN 1 ELSE 0
                    /\ tcq_count[p] = Cardinality(Owed(p))
  BY DEF OneEvent, Owed
<1>1. /\ OneEach(Events(p)) /\ InPlace(Events(p), scntr[p])
      /\ NoneMissing(Events(p), scntr[p]) /\ tcq_count[p] = Cardinality(Owed(p))
  BY DEF EventInv, Accounted
<1>2. ASSUME NEW k \in SndCntr
      PROVE  Cardinality({e \in Events(p) : e[1] = k}) =
               IF scntr[p][k].state \in {"REQ_ROOM", "DO_EGR", "DONE_EGR", "REQ_RDVR"}
               THEN 1 ELSE 0
  <2> DEFINE S == {e \in Events(p) : e[1] = k}
  <2>1. CASE scntr[p][k].state \in Asked \cup Issued
    <3>1. PICK e \in Events(p) : e[1] = k
      BY <1>1, <2>1 DEF NoneMissing
    <3>2. S = {e}
      BY <1>1, <3>1 DEF OneEach
    <3>3. Cardinality({e}) = 1
      BY FS_Singleton
    <3> QED BY <2>1, <3>2, <3>3 DEF Asked, Issued
  <2>2. CASE scntr[p][k].state \notin Asked \cup Issued
    <3>1. S = {}
      BY <1>1, <2>2 DEF InPlace, WaitsIn
    <3> QED BY <2>2, <3>1, FS_EmptySet DEF Asked, Issued
  <2> QED BY <2>1, <2>2
<1> QED BY <1>1, <1>2

(* Every control that waits for a completion has exactly one outstanding,  *)
(* whatever the number of ranks, controls and messages, as long as utofu   *)
(* does not answer BUSY: the engine is neither run twice for one put nor   *)
(* forgotten (utf_sendengine, utf_mrqprogress, utf_tcqprogress).           *)
THEOREM OneEventEach ==
  ASSUME ToqBusy = FALSE
  PROVE  Spec => []OneEvent
<1>1. Init => TypeInv /\ EventInv
  BY EventInit
<1>2. TypeInv /\ EventInv /\ [Next]_vars => (TypeInv /\ EventInv)'
  BY TypeNext, EventNext
<1>3. TypeInv /\ EventInv => OneEvent
  BY EventCount
<1> QED BY <1>1, <1>2, <1>3, PTL DEF Spec

-----------------------------------------------------------------------------
(* The counters of rings.                                                  *)

LEMMA ServedFinite ==
  ASSUME NEW q \in Rank
  PROVE  IsFiniteSet(Rank) /\ IsFiniteSet(Served(q)) /\ IsFiniteSet(Senders(q))
<1>1. IsFiniteSet(Rank)
  BY ConstAssumption, FS_Interval DEF Rank
<1>2. Served(q) \subseteq Rank /\ Senders(q) \subseteq Rank
  BY DEF Served, Senders
<1> QED BY <1>1, <1>2, FS_Subset

LEMMA AskKept ==
  ASSUME AskInv, UNCHANGED <<addreq, cntr>>,
         \A p, q \in Rank : egrmgt'[p][q].examed = egrmgt[p][q].examed
  PROVE  AskInv'
<1>1. \A p, q \in Rank : Asking(p, q)' <=> Asking(p, q)
  BY DEF Asking
<1>2. \A q \in Rank : Served(q)' = Served(q)
  BY <1>1 DEF Served
<1> QED BY <1>1, <1>2 DEF AskInv

LEMMA SendPostAsked ==
  ASSUME WindowIInv, AskInv, NEW p \in Rank, SendPost(p)
  PROVE  AskInv'
<1> DEFINE d == pend[p].dst
           k == rank2scntridx[p][d]
<1>1. d \in Rank /\ k \in SndCntr
  BY PostFacts DEF WindowIInv
<1>2. d \in Dests[p]
  BY <1>1 DEF WindowIInv, WindowInv, CallsAdmitted, None, Rank
<1>3. UNCHANGED cntr
  BY DEF SendPost
<1>4. CASE UNCHANGED <<egrmgt, addreq>>
  BY <1>3, <1>4, AskKept
<1>5. CASE ~ UNCHANGED <<egrmgt, addreq>>
  <2>1. /\ ~ egrmgt[p][d].examed
        /\ addreq' = [addreq EXCEPT ![p] = @ \cup {<<k, d>>}]
        /\ egrmgt' = [egrmgt EXCEPT ![p][d].examed = TRUE]
    BY <1>5 DEF SendPost
  <2>2. /\ addreq \in [Rank -> SUBSET (SndCntr \X Rank)]
        /\ egrmgt \in [Rank -> [Rank -> [examed : BOOLEAN, sndok : BOOLEAN, index : Ring]]]
    BY DEF WindowIInv, TypeInv, TypeOK, TypeNet, TypeSnd
  <2> HIDE DEF d, k
  <2>3. \A r, q \in Rank :
          egrmgt'[r][q].examed = IF r = p /\ q = d THEN TRUE ELSE egrmgt[r][q].examed
    <3> TAKE r, q \in Rank
    <3>1. CASE r = p /\ q = d
      <4>1. egrmgt'[p][d] = [egrmgt[p][d] EXCEPT !.examed = TRUE]
        BY <1>1, <2>1, <2>2
      <4> QED BY <1>1, <2>2, <3>1, <4>1
    <3>2. CASE ~ (r = p /\ q = d)
      <4>1. egrmgt'[r][q] = egrmgt[r][q]
        BY <1>1, <2>1, <2>2, <3>2
      <4> QED BY <3>2, <4>1
    <3> QED BY <3>1, <3>2
  <2>4. /\ \A r \in Rank : r # p => addreq'[r] = addreq[r]
        /\ addreq'[p] = addreq[p] \cup {<<k, d>>}
    BY <2>1, <2>2
  <2>5. \A r, q \in Rank : Asking(r, q)' <=> Asking(r, q) \/ (r = p /\ q = d)
    <3> TAKE r, q \in Rank
    <3>1. CASE r # p
      BY <2>4, <3>1 DEF Asking
    <3>2. CASE r = p
      <4>1. (<<k, d>>)[2] = d
        OBVIOUS
      <4> QED BY <2>4, <3>2, <4>1 DEF Asking
    <3> QED BY <3>1, <3>2
  <2>6. \A q \in Rank : Served(q)' = Served(q)
    BY <2>1, <2>3, <2>5 DEF Served
  <2>7. \A r, q \in Rank : egrmgt'[r][q].examed => q \in Dests[r]
    BY <1>2, <2>3, ZenonT(40) DEF AskInv
  <2>8. \A r, q \in Rank : Asking(r, q)' => egrmgt'[r][q].examed
    <3> SUFFICES ASSUME NEW r \in Rank, NEW q \in Rank, Asking(r, q)'
                 PROVE  egrmgt'[r][q].examed
      OBVIOUS
    <3>1. CASE r = p /\ q = d
      BY <2>3, <3>1, Zenon
    <3>2. CASE ~ (r = p /\ q = d)
      <4>1. Asking(r, q)
        BY <2>5, <3>2, Zenon
      <4>2. egrmgt[r][q].examed
        BY <4>1, Zenon DEF AskInv
      <4> QED BY <2>3, <3>2, <4>2, Zenon
    <3> QED BY <3>1, <3>2, Zenon
  <2> QED BY <1>3, <2>6, <2>7, <2>8 DEF AskInv
<1> QED BY <1>4, <1>5

LEMMA NetAddAsked ==
  ASSUME WindowIInv, AskInv, NEW p \in Rank, NEW k \in SndCntr, NEW q \in Rank,
         NetAdd(p, k, q)
  PROVE  AskInv'
<1>1. /\ <<k, q>> \in addreq[p]
      /\ addreq' = [addreq EXCEPT ![p] = @ \ {<<k, q>>}]
      /\ cntr' = [cntr EXCEPT ![q] = @ - 1]
      /\ UNCHANGED egrmgt
  BY DEF NetAdd, sndVars
<1>2. /\ addreq \in [Rank -> SUBSET (SndCntr \X Rank)] /\ cntr \in [Rank -> Count]
  BY DEF WindowIInv, TypeInv, TypeOK, TypeNet
<1>3. /\ \A r \in Rank : r # p => addreq'[r] = addreq[r]
      /\ addreq'[p] = addreq[p] \ {<<k, q>>}
      /\ cntr'[q] = cntr[q] - 1 /\ cntr[q] \in Int
      /\ \A r \in Rank : r # q => cntr'[r] = cntr[r]
  BY <1>1, <1>2 DEF Count
<1>4. Asking(p, q)
  <2> DEFINE a == <<k, q>>
  <2>1. a \in addreq[p] /\ a[2] = q
    BY <1>1
  <2> QED BY <2>1 DEF Asking
<1>5. ASSUME NEW a \in addreq[p], a[2] = q PROVE a = <<k, q>>
  <2>1. a \in SndCntr \X Rank
    BY <1>2
  <2>2. \A b \in addreq[p] : scntr[p][b[1]].state # "FREE" /\ scntr[p][b[1]].dst = b[2]
    BY DEF WindowIInv, ControlInv
  <2>3. scntr[p][a[1]].state # "FREE" /\ scntr[p][a[1]].dst = q
    BY <1>5, <2>2
  <2>4. scntr[p][k].state # "FREE" /\ scntr[p][k].dst = q
    <3> DEFINE b == <<k, q>>
    <3>1. b \in addreq[p] /\ b[1] = k /\ b[2] = q
      BY <1>1
    <3> HIDE DEF b
    <3> QED BY <2>2, <3>1
  <2>5. a[1] \in SndCntr
    BY <2>1
  <2>6. rank2scntridx[p][q] = a[1] /\ rank2scntridx[p][q] = k
    BY <2>3, <2>4, <2>5, HoldFacts
  <2>7. a[1] = k
    BY <2>6
  <2> QED BY <1>5, <2>1, <2>7
<1>6. \A r, s \in Rank : Asking(r, s)' <=> Asking(r, s) /\ ~ (r = p /\ s = q)
  <2> TAKE r, s \in Rank
  <2>1. CASE r # p
    BY <1>3, <2>1 DEF Asking
  <2>2. CASE r = p /\ s = q
    <3>1. ~ \E a \in addreq'[p] : a[2] = q
      BY <1>3, <1>5
    <3> QED BY <2>2, <3>1 DEF Asking
  <2>3. CASE r = p /\ s # q
    <3>1. (<<k, q>>)[2] = q
      OBVIOUS
    <3> QED BY <1>3, <2>3, <3>1 DEF Asking
  <2> QED BY <2>1, <2>2, <2>3
<1>7. egrmgt[p][q].examed
  BY <1>4 DEF AskInv
<1>8. /\ \A s \in Rank : s # q => Served(s)' = Served(s)
      /\ Served(q)' = Served(q) \cup {p} /\ p \notin Served(q)
  BY <1>1, <1>4, <1>6, <1>7 DEF Served
<1>9. Cardinality(Served(q)') = Cardinality(Served(q)) + 1 /\ Cardinality(Served(q)) \in Nat
  BY <1>8, ServedFinite, FS_AddElement, FS_CardinalityType
<1>10. cntr[q] = RCV_CNTRL_INIT - Cardinality(Served(q))
  BY DEF AskInv
<1>11. cntr'[q] = RCV_CNTRL_INIT - Cardinality(Served(q)')
  BY <1>3, <1>9, <1>10, ConstAssumption
<1>12. \A s \in Rank : cntr'[s] = RCV_CNTRL_INIT - Cardinality(Served(s)')
  BY <1>3, <1>8, <1>11 DEF AskInv
<1> QED BY <1>1, <1>6, <1>12 DEF AskInv

LEMMA AskInit == Init => AskInv
<1> SUFFICES ASSUME Init PROVE AskInv
  OBVIOUS
<1>1. /\ \A p, q \in Rank : ~ egrmgt[p][q].examed
      /\ \A p \in Rank : addreq[p] = {}
      /\ \A q \in Rank : cntr[q] = RCV_CNTRL_INIT
  BY DEF Init
<1>2. \A q \in Rank : Served(q) = {}
  BY <1>1 DEF Served
<1>3. Cardinality({}) = 0
  BY FS_EmptySet
<1>4. ASSUME NEW q \in Rank PROVE cntr[q] = RCV_CNTRL_INIT - Cardinality(Served(q))
  <2>1. Cardinality(Served(q)) = 0 /\ cntr[q] = RCV_CNTRL_INIT
    BY <1>1, <1>2, <1>3
  <2> QED BY <2>1, ConstAssumption
<1> QED BY <1>1, <1>4 DEF AskInv, Asking

LEMMA AskNext ==
  ASSUME WindowIInv, AskInv, [Next]_vars
  PROVE  AskInv'
<1> DEFINE Kept1 == UNCHANGED <<addreq, cntr, egrmgt>>
<1>0. Kept1 => AskInv'
  BY AskKept
<1>1. CASE UNCHANGED vars
  BY <1>0, <1>1 DEF vars, sndVars, netVars
<1>2. ASSUME NEW p \in Rank,
             \/ \E d \in Dests[p], type \in Types : SendCall(p, d, type)
             \/ ProgressCall(p) \/ SendRetry(p) \/ TcqEnd(p)
             \/ ScanNone(p) \/ ScanEnd(p) \/ MrqNone(p) \/ ScanPkt(p) \/ SendAlloc(p)
             \/ \E k \in SndCntr : TcqStep(p, k) \/ MrqLclPut(p, k) \/ MrqRecvReset(p, k)
      PROVE  AskInv'
  <2>1. Kept1
    BY <1>2 DEF SendCall, ProgressCall, SendRetry, TcqEnd, ScanNone, ScanEnd, MrqNone,
       ScanPkt, SendAlloc, TcqStep, MrqLclPut, MrqRecvReset, sndVars, netVars
  <2> QED BY <1>0, <2>1
<1>3. ASSUME NEW p \in Rank, SendPost(p) PROVE AskInv'
  BY <1>3, SendPostAsked
<1>4. ASSUME NEW p \in Rank, NEW k \in SndCntr, NEW val, MrqLclArmw(p, k, val)
      PROVE  AskInv'
  <2>1. UNCHANGED <<addreq, cntr>>
    BY <1>4 DEF MrqLclArmw
  <2>2. \A r, q \in Rank : egrmgt'[r][q].examed = egrmgt[r][q].examed
    <3>1. CASE UNCHANGED egrmgt
      BY <3>1
    <3>2. CASE ~ UNCHANGED egrmgt
      <4>1. egrmgt' = [egrmgt EXCEPT ![p][scntr[p][k].dst] =
                              [@ EXCEPT !.sndok = TRUE, !.index = val]]
        BY <1>4, <3>2 DEF MrqLclArmw
      <4>2. egrmgt \in [Rank -> [Rank -> [examed : BOOLEAN, sndok : BOOLEAN, index : Ring]]]
        BY DEF WindowIInv, TypeInv, TypeOK, TypeSnd
      <4> QED BY <4>1, <4>2
    <3> QED BY <3>1, <3>2
  <2> QED BY <2>1, <2>2, AskKept
<1>5. CASE Net
  <2>1. CASE \E p, q \in Rank : NetPut(p, q)
    BY <1>0, <2>1 DEF NetPut, sndVars
  <2>2. CASE \E p, q \in Rank, k \in SndCntr : NetAdd(p, k, q)
    BY <2>2, NetAddAsked
  <2> QED BY <1>5, <2>1, <2>2 DEF Net
<1> QED BY <1>1, <1>2, <1>3, <1>4, <1>5 DEF Next, Library, MrqNotice

-----------------------------------------------------------------------------
(* Aborts and assertions.                                                  *)

LEMMA HoldsNoFault ==
  ASSUME NEW u \in Control, ControlOK(u), u.state \notin {"FREE", "WAIT_BUFREADY"},
         NEW r \in Nat, NEW msgs \in Seq(Seq(Nat \X Nat)), Holds(u, r, msgs)
  PROVE  ~ EngineFault(u)
<1> DEFINE v == Prepared(u)
           r2 == IF Retires(u) THEN r + 1 ELSE r
<1>1. Holds(v, r2, msgs) /\ r2 \in Nat
  BY EngineHolds
<1>2. v \in Control
  BY PreparedType
<1>3. EngineFault(u) => Sending(v) /\ v.mi[v.micur].cntrtype = "NONE"
  BY DEF EngineFault
<1> HIDE DEF v, r2
<1>4. ASSUME Sending(v) PROVE v.mi[v.micur].cntrtype # "NONE"
  <2>1. v.state # "NONE"
    BY <1>4 DEF Sending
  <2>2. /\ v.micur \in Minf /\ Len(msgs) - r2 \in Int /\ Len(msgs) - r2 > 0
        /\ \A i \in Minf : i < Len(msgs) - r2 => EntryOf(v, i).cntrtype # "NONE"
    BY <1>1, <1>2, <2>1, HoldsFacts
  <2>3. 0 \in Minf /\ Ahead(v.micur, 0) = v.micur
    BY <2>2, ConstAssumption DEF Minf, Ahead
  <2> QED BY <2>2, <2>3 DEF EntryOf
<1> QED BY <1>3, <1>4

(* The engine never faults on a control that is in use and does not wait   *)
(* for a ring reset.                                                       *)
LEMMA RunNoFault ==
  ASSUME WindowIInv, NEW p \in Rank, NEW k \in SndCntr, scntr[p][k].state # "FREE",
         scntr[p][k].state # "NONE",
         NEW u \in Control, ControlOK(u), u.state \notin {"FREE", "NONE", "WAIT_BUFREADY"},
         u.mi = scntr[p][k].mi, u.micur = scntr[p][k].micur, u.mient = scntr[p][k].mient
  PROVE  ~ EngineFault(u)
<1> DEFINE r == retired[p][scntr[p][k].dst]
           msgs == posted[p][scntr[p][k].dst]
<1>1. Holds(scntr[p][k], r, msgs) /\ scntr[p][k].dst \in Rank
  BY HoldFacts
<1>2. r \in Nat /\ msgs \in Seq(Seq(Nat \X Nat))
  BY <1>1, CountsType DEF WindowIInv
<1> HIDE DEF r, msgs
<1>3. Holds(u, r, msgs)
  BY <1>1, HoldsKept
<1> QED BY <1>2, <1>3, HoldsNoFault

(* A control with no message has both ends of its window at one slot.     *)
LEMMA IdleWindow ==
  ASSUME NEW u \in Control, NEW r \in Nat, NEW msgs \in Seq(Seq(Nat \X Nat)),
         Holds(u, r, msgs), u.state = "NONE"
  PROVE  u.mient = u.micur /\ u.micur \in Minf
<1>1. u.micur \in Minf /\ u.mient = Ahead(u.micur, Len(msgs) - r) /\ Len(msgs) - r = 0
  BY HoldsFacts
<1>2. Ahead(u.micur, 0) = u.micur
  BY <1>1, ConstAssumption DEF Ahead, Minf
<1> QED BY <1>1, <1>2

(* Nor on the one utf_send starts.                                         *)
LEMMA PostNoFault ==
  ASSUME WindowIInv, NEW p \in Rank, SendPost(p),
         scntr[p][rank2scntridx[p][pend[p].dst]].state = "NONE"
  PROVE  ~ EngineFault([Filled(p, scntr[p][rank2scntridx[p][pend[p].dst]])
                          EXCEPT !.state = "HAS_ROOM"])
<1> DEFINE d == pend[p].dst
           k == rank2scntridx[p][d]
           u == scntr[p][k]
           f == Filled(p, u)
           g == [f EXCEPT !.state = "HAS_ROOM"]
<1>1. /\ d \in Rank /\ k \in SndCntr /\ u \in Control /\ f \in Control
      /\ g \in Control /\ g.state = "HAS_ROOM"
  BY PostFacts DEF WindowIInv
<1>2. pend[p].type \in Types /\ pend[p].type # "NONE"
  <2>1. pend[p].dst # None
    <3>1. None \notin Rank
      BY ONLY DEF None, Rank
    <3> QED BY <1>1, <3>1, Zenon
  <2>2. pend[p].type \in Types
    BY <2>1 DEF WindowIInv, WindowInv, CallsAdmitted
  <2>3. Types \subseteq MsgType
    BY ConstAssumption
  <2>4. "NONE" \notin MsgType
    BY DEF MsgType
  <2> QED BY <2>2, <2>3, <2>4
<1>3. u.mient = u.micur /\ u.micur \in Minf
  <2>1. Holds(u, retired[p][u.dst], posted[p][u.dst]) /\ u.dst \in Rank
    BY <1>1, HoldFacts, Zenon
  <2>2. retired[p][u.dst] \in Nat /\ posted[p][u.dst] \in Seq(Seq(Nat \X Nat))
    BY <2>1, CountsType, ZenonT(40) DEF WindowIInv
  <2>3. u.state = "NONE" /\ u \in Control
    BY <1>1
  <2> HIDE DEF u
  <2> QED BY <2>1, <2>2, <2>3, IdleWindow
<1>4. f.micur = u.micur /\ f.mi[u.mient].cntrtype = pend[p].type
  <2> HIDE DEF u
  <2> QED BY <1>1, <1>3 DEF Filled, Control
<1>5. g.micur = f.micur /\ g.mi = f.mi
  <2> HIDE DEF f
  <2> QED BY <1>1 DEF Control
<1>6. g.mi[g.micur].cntrtype # "NONE"
  BY <1>2, <1>3, <1>4, <1>5
<1> HIDE DEF g
<1>7. Prepared(g) = g
  BY <1>1 DEF Prepared, Retires
<1>8. ~ EngineFault(g)
  BY <1>1, <1>6, <1>7 DEF EngineFault
<1> QED BY <1>8 DEF g

(* The control utf_sendengine_prep runs the engine on waits for its put.   *)
LEMMA TcqStepState ==
  ASSUME TypeInv, EventInv, NEW p \in Rank, NEW k \in SndCntr, TcqStep(p, k)
  PROVE  scntr[p][k].state \in Issued /\ k \in Owed(p) /\ pc[p] # "abort"
<1>1. cur[p] = k \/ k \in tcq[p]
  BY DEF TcqStep
<1>2. PICK e \in Events(p) : e[1] = k /\ e[2] \in {"tcq", "cur"}
  <2> DEFINE t == <<k, "tcq", 0, 0>>
             c == <<k, "cur", 0, 0>>
  <2>1. t \in Events(p) \/ c \in Events(p)
    BY <1>1, NotNone DEF Events
  <2> QED BY <2>1
<1>3. scntr[p][k].state \in Issued
  BY <1>2 DEF EventInv, Accounted, InPlace, WaitsIn
<1>4. k \in Owed(p)
  BY <1>1, NotNone DEF Owed
<1> QED BY <1>3, <1>4 DEF TcqStep

(* An engine that runs for a completed put finds a message.                *)
LEMMA IssuedNoFault ==
  ASSUME WindowIInv, NEW p \in Rank, NEW k \in SndCntr, scntr[p][k].state \in Issued
  PROVE  ~ EngineFault(scntr[p][k])
<1> DEFINE u == scntr[p][k]
<1>1. u \in Control /\ ControlOK(u)
  BY IssuedFacts DEF WindowIInv
<1>2. u.state \notin {"FREE", "NONE", "WAIT_BUFREADY"}
  BY DEF Issued
<1> QED BY <1>1, <1>2, RunNoFault

LEMMA TcqStepNoAbort ==
  ASSUME WindowIInv, EventInv, NoAbort, NEW p \in Rank, NEW k \in SndCntr, TcqStep(p, k)
  PROVE  NoAbort'
<1> DEFINE u == scntr[p][k]
<1>1. u.state \in Issued /\ k \in Owed(p) /\ pc[p] # "abort"
  BY TcqStepState DEF WindowIInv
<1>2. ~ EngineFault(u)
  BY <1>1, IssuedNoFault
<1>3. PICK b : SendEngine(p, k, u, egrmgt[p][u.dst].index, b, TRUE)
  BY DEF TcqStep
<1>4. tcq_count \in [Rank -> Int] /\ pc \in [Rank -> PC]
  BY DEF WindowIInv, TypeInv, TypeOK, TypeTcq, TypeProc
<1>5. tcq_count'[p] = TcqCount(tcq_count[p], TRUE, Pig(u))
  BY <1>3, <1>4 DEF SendEngine, Pig
<1>6. tcq_count[p] >= Cardinality(Owed(p)) /\ tcq_count[p] \in Int
  BY <1>1, <1>4 DEF EventInv, Accounted
<1>7. IsFiniteSet(Owed(p))
  BY OwedFinite DEF WindowIInv
<1>8. tcq_count'[p] >= 0
  <2>1. 1 <= Cardinality(Owed(p)) /\ Cardinality(Owed(p)) \in Nat
    <3>1. Cardinality(Owed(p) \ {k}) = Cardinality(Owed(p)) - 1
      BY <1>1, <1>7, FS_RemoveElement
    <3>2. Cardinality(Owed(p) \ {k}) \in Nat /\ Cardinality(Owed(p)) \in Nat
      BY <1>7, FS_RemoveElement, FS_CardinalityType
    <3> QED BY <3>1, <3>2
  <2> DEFINE n == tcq_count[p]
  <2>2. n \in Int /\ n >= 1
    BY <1>6, <2>1
  <2>3. TcqCount(n, TRUE, Pig(u)) >= 0
    <3> HIDE DEF n
    <3> QED BY <2>2 DEF TcqCount
  <2> QED BY <1>5, <2>3
<1>9. pc'[p] = pc[p]
  <2>1. pc' = [pc EXCEPT ![p] = IF EngineFault(u) THEN "abort"
                                ELSE IF tcq_count'[p] < 0 THEN "abort" ELSE pc[p]]
    BY DEF TcqStep, Continue
  <2>2. tcq_count'[p] \in Int
    BY <1>5, <1>6 DEF TcqCount
  <2>3. ~ (tcq_count'[p] < 0)
    BY <1>8, <2>2
  <2> QED BY <1>2, <1>4, <2>1, <2>3
<1>10. \A r \in Rank : r # p => pc'[r] = pc[r]
  BY <1>4 DEF TcqStep, Continue
<1> QED BY <1>9, <1>10 DEF NoAbort

(* Where the engine does not fault the call goes on.                       *)
LEMMA GoesOn ==
  ASSUME TypeInv, NoAbort, NEW p \in Rank, NEW x, x # "abort", pc' = [pc EXCEPT ![p] = x]
  PROVE  NoAbort'
<1>1. pc \in [Rank -> PC]
  BY DEF TypeInv, TypeOK, TypeProc
<1> QED BY <1>1 DEF NoAbort

LEMMA MrqLclPutNoAbort ==
  ASSUME WindowIInv, EventInv, NoAbort, NEW p \in Rank, NEW k \in SndCntr, MrqLclPut(p, k)
  PROVE  NoAbort'
<1>1. PICK e \in Events(p) : e[1] = k /\ e[2] = "put"
  <2> DEFINE t == <<k, "put", 0, 0>>
  <2>1. t \in Events(p)
    BY DEF Events, MrqLclPut
  <2> QED BY <2>1
<1>2. scntr[p][k].state \in Issued
  BY <1>1 DEF EventInv, Accounted, InPlace, WaitsIn
<1>3. ~ EngineFault(scntr[p][k])
  BY <1>2, IssuedNoFault
<1> DEFINE x == IF pend[p].dst = None THEN "user" ELSE "send"
<1>4. pc' = [pc EXCEPT ![p] = x] /\ x # "abort"
  BY <1>3 DEF MrqLclPut, MrqReturns, Continue
<1> HIDE DEF x
<1> QED BY <1>4, GoesOn DEF WindowIInv

LEMMA MrqRecvResetNoAbort ==
  ASSUME WindowIInv, NoAbort, NEW p \in Rank, NEW k \in SndCntr, MrqRecvReset(p, k)
  PROVE  NoAbort'
<1> DEFINE u == [scntr[p][k] EXCEPT !.recvidx = 0]
           g == [u EXCEPT !.state = u.ostate]
           x == IF pend[p].dst = None THEN "user" ELSE "send"
<1>1. CASE u.state = "WAIT_BUFREADY"
  <2>1. /\ g \in Control /\ ControlOK(g) /\ g.state \in {"HAS_ROOM", "DO_EGR"}
        /\ u \in Control /\ scntr[p][k].state = "WAIT_BUFREADY"
    BY <1>1, ResetFacts DEF WindowIInv
  <2>2. scntr[p][k] \in Control
    BY DEF WindowIInv, TypeInv, TypeOK, TypeSnd
  <2>3. g.mi = scntr[p][k].mi /\ g.micur = scntr[p][k].micur /\ g.mient = scntr[p][k].mient
    BY <2>2 DEF Control
  <2>4. pc' = [pc EXCEPT ![p] = IF EngineFault(g) THEN "abort" ELSE x]
    BY <1>1 DEF MrqRecvReset, MrqReturns, Continue
  <2> HIDE DEF g
  <2>5. ~ EngineFault(g)
    BY <2>1, <2>3, RunNoFault
  <2>6. pc' = [pc EXCEPT ![p] = x] /\ x # "abort"
    BY <2>4, <2>5
  <2> HIDE DEF x
  <2> QED BY <2>6, GoesOn DEF WindowIInv
<1>2. CASE u.state # "WAIT_BUFREADY"
  <2>1. pc' = [pc EXCEPT ![p] = x] /\ x # "abort"
    BY <1>2 DEF MrqRecvReset, Return
  <2> HIDE DEF x
  <2> QED BY <2>1, GoesOn DEF WindowIInv
<1> QED BY <1>1, <1>2

(* With a ring for every sender and one more, the counter stays at or      *)
(* above 0.                                                                *)
LEMMA CounterHolds ==
  ASSUME TypeInv, AskInv, EnoughRings, NEW q \in Rank
  PROVE  cntr[q] >= 0
<1>1. Served(q) \subseteq Senders(q)
  BY DEF AskInv, Served, Senders
<1>2. IsFiniteSet(Senders(q))
  <2>1. IsFiniteSet(Rank)
    BY ConstAssumption, FS_Interval DEF Rank
  <2>2. Senders(q) \subseteq Rank
    BY DEF Senders
  <2> QED BY <2>1, <2>2, FS_Subset
<1>3. /\ Cardinality(Served(q)) <= Cardinality(Senders(q))
      /\ Cardinality(Served(q)) \in Nat /\ Cardinality(Senders(q)) \in Nat
  BY <1>1, <1>2, FS_Subset, FS_CardinalityType
<1>4. cntr[q] = RCV_CNTRL_INIT - Cardinality(Served(q))
  BY DEF AskInv
<1>5. Cardinality(Senders(q)) <= RCV_CNTRL_INIT
  BY DEF EnoughRings
<1> QED BY <1>3, <1>4, <1>5, ConstAssumption

LEMMA MrqLclArmwNoAbort ==
  ASSUME WindowIInv, RoomInv, EventInv, AskInv, EnoughRings, NoAbort,
         NEW p \in Rank, NEW k \in SndCntr, NEW val, MrqLclArmw(p, k, val)
  PROVE  NoAbort'
<1> DEFINE u == scntr[p][k]
           g == [u EXCEPT !.state = "HAS_ROOM", !.recvidx = 0]
           x == IF pend[p].dst = None THEN "user" ELSE "send"
           d == u.dst
<1>1. <<k, val>> \in lclarmw[p]
  BY DEF MrqLclArmw
<1>2. PICK e \in Events(p) : e[1] = k /\ e[2] = "armw"
  <2> DEFINE t == <<k, "armw", 0, val>>
             a == <<k, val>>
  <2>1. a[1] = k /\ a[2] = val /\ a \in lclarmw[p]
    BY <1>1
  <2>2. t \in Events(p)
    BY <2>1 DEF Events
  <2> QED BY <2>2
<1>3. u.state = "REQ_ROOM"
  BY <1>2 DEF EventInv, Accounted, InPlace, WaitsIn, Asked
<1>4. d \in Rank /\ g \in Control /\ ControlOK(g) /\ g.state = "HAS_ROOM"
  BY <1>3, ArmwFacts DEF WindowIInv
<1>5. val >= 0
  <2>1. val \in Granted(p, d)
    <3> DEFINE a == <<k, val>>
    <3>1. a \in lclarmw[p] /\ a[2] = val /\ scntr[p][a[1]].dst = d
      BY <1>1
    <3> HIDE DEF a, d
    <3> QED BY <3>1 DEF Granted
  <2>2. val > cntr[d]
    BY <1>4, <2>1 DEF RoomInv
  <2>3. cntr[d] >= 0 /\ cntr[d] \in Int
    BY <1>4, CounterHolds DEF WindowIInv, TypeInv, TypeOK, TypeNet, Count
  <2>4. val \in Int
    BY <1>1 DEF WindowIInv, TypeInv, TypeOK, TypeMrq, Count
  <2> HIDE DEF d
  <2> QED BY <2>2, <2>3, <2>4
<1>6. pc' = [pc EXCEPT ![p] = IF EngineFault(g) THEN "abort" ELSE x]
  BY <1>3, <1>5 DEF MrqLclArmw, MrqReturns, Continue
<1>7. u \in Control
  BY DEF WindowIInv, TypeInv, TypeOK, TypeSnd
<1>8. g.mi = u.mi /\ g.micur = u.micur /\ g.mient = u.mient
  BY <1>7 DEF Control
<1> HIDE DEF g
<1>9. ~ EngineFault(g)
  BY <1>3, <1>4, <1>8, RunNoFault
<1>10. pc' = [pc EXCEPT ![p] = x] /\ x # "abort"
  BY <1>6, <1>9
<1> HIDE DEF x
<1> QED BY <1>10, GoesOn DEF WindowIInv

LEMMA SendPostNoAbort ==
  ASSUME WindowIInv, NoAbort, NEW p \in Rank, SendPost(p)
  PROVE  NoAbort'
<1> DEFINE u == scntr[p][rank2scntridx[p][pend[p].dst]]
           g == [Filled(p, u) EXCEPT !.state = "HAS_ROOM"]
<1>1. CASE pc' = [pc EXCEPT ![p] = "user"]
  BY <1>1, GoesOn DEF WindowIInv
<1>2. CASE u.state = "NONE" /\ \E b : Continue(p, g, IF b = None THEN "user" ELSE "prep")
  <2>1. PICK b : Continue(p, g, IF b = None THEN "user" ELSE "prep")
    BY <1>2
  <2> DEFINE x == IF b = None THEN "user" ELSE "prep"
  <2>2. ~ EngineFault(g)
    BY <1>2, PostNoFault
  <2> HIDE DEF g
  <2>3. pc' = [pc EXCEPT ![p] = x] /\ x # "abort"
    BY <2>1, <2>2 DEF Continue
  <2> HIDE DEF x
  <2> QED BY <2>3, GoesOn DEF WindowIInv
<1> QED BY <1>1, <1>2 DEF SendPost

LEMMA NoAbortNext ==
  ASSUME WindowIInv, RoomInv, EventInv, AskInv, EnoughRings, NoAbort, [Next]_vars
  PROVE  NoAbort'
<1>0. TypeInv
  BY DEF WindowIInv
<1>1. UNCHANGED pc => NoAbort'
  BY DEF NoAbort
<1>2. CASE UNCHANGED vars
  BY <1>1, <1>2 DEF vars, procVars
<1>3. ASSUME NEW p \in Rank,
             \/ \E d \in Dests[p], type \in Types : SendCall(p, d, type)
             \/ ProgressCall(p) \/ SendRetry(p) \/ ScanEnd(p) \/ MrqNone(p) \/ SendAlloc(p)
             \/ ScanPkt(p) \/ ScanNone(p) \/ TcqEnd(p)
      PROVE  NoAbort'
  <2>1. cntr[p] >= 0 /\ cntr[p] \in Int
    BY <1>0, CounterHolds DEF TypeInv, TypeOK, TypeNet, Count
  <2>2. ~ (cntr[p] < 0)
    BY <2>1
  <2>3. CASE SendAlloc(p)
    <3>1. pc' = [pc EXCEPT ![p] = "send"] \/ pc' = [pc EXCEPT ![p] = "user"]
      BY <2>3, Zenon DEF SendAlloc
    <3> QED BY <1>0, <3>1, GoesOn
  <2>4. CASE ScanPkt(p) \/ ScanNone(p)
    BY <1>1, <2>4 DEF ScanPkt, ScanNone
  <2>5. CASE TcqEnd(p)
    <3>1. \/ pc' = [pc EXCEPT ![p] = "user"] \/ pc' = [pc EXCEPT ![p] = "alloc"]
          \/ pc' = [pc EXCEPT ![p] = "scan"]
      BY <2>2, <2>5 DEF TcqEnd
    <3> QED BY <1>0, <3>1, GoesOn
  <2>6. CASE \/ \E d \in Dests[p], type \in Types : SendCall(p, d, type)
             \/ ProgressCall(p) \/ SendRetry(p) \/ ScanEnd(p) \/ MrqNone(p)
    <3>1. \E x \in {"sendtcq", "alloc", "tcq", "mrq", "user", "send"} :
             pc' = [pc EXCEPT ![p] = x]
      BY <2>6 DEF SendCall, ProgressCall, SendRetry, ScanEnd, MrqNone, Return
    <3> QED BY <1>0, <3>1, GoesOn
  <2> QED BY <1>3, <2>3, <2>4, <2>5, <2>6
<1>4. ASSUME NEW p \in Rank, SendPost(p) \/ MrqNotice(p) \/ \E k \in SndCntr : TcqStep(p, k)
      PROVE  NoAbort'
  BY <1>4, SendPostNoAbort, TcqStepNoAbort, MrqLclPutNoAbort, MrqLclArmwNoAbort,
     MrqRecvResetNoAbort DEF MrqNotice
<1>5. CASE Net
  BY <1>1, <1>5 DEF Net, NetPut, NetAdd, procVars
<1> QED BY <1>2, <1>3, <1>4, <1>5 DEF Next, Library

(* utf_send and utf_progress never run into abort() or a failing           *)
(* assertion, whatever the number of ranks, controls and messages and also *)
(* when the TOQ is busy, if every rank has a receive ring for each of its  *)
(* senders and one more: no second completion reaches the engine, no       *)
(* slot is found empty, and neither "No room in remote rank" nor "No more  *)
(* Eager Receiver Buffer" comes up.                                        *)
THEOREM NoAborts ==
  ASSUME EnoughRings
  PROVE  Spec => []NoAbort
<1> DEFINE IInv == WindowIInv /\ RoomInv /\ EventInv /\ AskInv /\ NoAbort
<1>1. Init => IInv
  <2>1. Init => NoAbort
    BY DEF Init, NoAbort
  <2> QED BY <2>1, TypeInit, RoomInit, WindowInit, EventInit, AskInit DEF WindowIInv
<1>2. IInv /\ [Next]_vars => IInv'
  <2> SUFFICES ASSUME IInv, [Next]_vars PROVE IInv'
    OBVIOUS
  <2>1. TypeInv' /\ ControlInv' /\ RoomInv' /\ WindowInv'
    BY TypeNext, RoomNext, WindowNext DEF WindowIInv
  <2>2. EventInv' /\ AskInv' /\ NoAbort'
    BY EventNext, AskNext, NoAbortNext DEF WindowIInv
  <2> QED BY <2>1, <2>2 DEF WindowIInv
<1>3. IInv => NoAbort
  OBVIOUS
<1> QED BY <1>1, <1>2, <1>3, PTL DEF Spec

=============================================================================
