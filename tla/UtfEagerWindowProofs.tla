------------------------ MODULE UtfEagerWindowProofs ------------------------
(***************************************************************************)
(* The slots of a send control are a ring of their own: utf_send fills     *)
(* them at mient, utf_sendengine releases them at micur.  WindowInv is     *)
(* inductive for any number of destinations and controls, and it implies   *)
(* MinfWindow.                                                             *)
(***************************************************************************)
EXTENDS UtfEagerRingProofs

-----------------------------------------------------------------------------
(* Counting around msginfo[].                                              *)

(* x % m for the x that occur: less than twice m.                          *)
LEMMA Wraps ==
  ASSUME NEW m \in Nat \ {0}, NEW x \in 0 .. m + m - 1
  PROVE  x % m = IF x < m THEN x ELSE x - m
<1>1. CASE x < m
  <2>1. x \in 0 .. m - 1
    BY <1>1
  <2> QED
    BY <1>1, <2>1
<1>2. CASE ~ (x < m)
  <2>1. x \in m .. m + m - 1
    BY <1>2
  <2> QED
    BY <1>2, <2>1
<1> QED
  BY <1>1, <1>2

(* The slots ahead of c, c itself included, are all the slots ...          *)
LEMMA AheadFacts ==
  ASSUME NEW c \in Minf
  PROVE  /\ \A i \in 0 .. COM_SCNTR_MINF_SZ : Ahead(c, i) \in Minf
         /\ Ahead(c, 0) = c /\ Ahead(c, COM_SCNTR_MINF_SZ) = c
         /\ \A j \in Minf : \E i \in Minf : Ahead(c, i) = j
<1> DEFINE m == COM_SCNTR_MINF_SZ
<1>1. m \in Nat \ {0} /\ Minf = 0 .. m - 1 /\ c \in 0 .. m - 1
  BY ConstAssumption DEF Minf
<1> HIDE DEF m
<1>2. \A i : Ahead(c, i) = IF c + i < m THEN c + i ELSE c + i - m
  BY DEF Ahead, m
<1>3. ASSUME NEW i \in 0 .. m PROVE Ahead(c, i) \in Minf
  <2>1. Ahead(c, i) = IF c + i < m THEN c + i ELSE c + i - m
    BY <1>2
  <2> QED
    BY <1>1, <2>1
<1>4. Ahead(c, 0) = c
  BY <1>1, <1>2
<1>5. Ahead(c, m) = c
  <2>1. Ahead(c, m) = IF c + m < m THEN c + m ELSE c + m - m
    BY <1>2
  <2> QED
    BY <1>1, <2>1
<1>6. ASSUME NEW j \in Minf PROVE \E i \in Minf : Ahead(c, i) = j
  <2>1. CASE j >= c
    <3>1. j - c \in Minf /\ Ahead(c, j - c) = j
      BY <1>1, <1>2, <2>1
    <3> QED
      BY <3>1
  <2>2. CASE j < c
    <3>1. j + m - c \in Minf /\ Ahead(c, j + m - c) = j
      BY <1>1, <1>2, <2>2
    <3> QED
      BY <3>1
  <2> QED
    BY <1>1, <2>1, <2>2
<1> QED
  BY <1>3, <1>4, <1>5, <1>6 DEF m

(* ... each of them once.                                                  *)
LEMMA AheadOnce ==
  ASSUME NEW c \in Minf, NEW i \in Minf, NEW j \in Minf, Ahead(c, i) = Ahead(c, j)
  PROVE  i = j
<1> DEFINE m == COM_SCNTR_MINF_SZ
<1>1. m \in Nat \ {0} /\ c \in 0 .. m - 1 /\ i \in 0 .. m - 1 /\ j \in 0 .. m - 1
  BY ConstAssumption DEF Minf
<1>2. (IF c + i < m THEN c + i ELSE c + i - m) = (IF c + j < m THEN c + j ELSE c + j - m)
  BY DEF Ahead
<1> HIDE DEF m
<1> QED
  BY <1>1, <1>2

(* The slot after the one i places ahead; and counting from the next slot. *)
LEMMA AheadNext ==
  ASSUME NEW c \in Minf, NEW i \in Minf
  PROVE  /\ (Ahead(c, i) + 1) % COM_SCNTR_MINF_SZ = Ahead(c, i + 1)
         /\ Ahead(Ahead(c, 1), i) = IF i + 1 = COM_SCNTR_MINF_SZ THEN c
                                    ELSE Ahead(c, i + 1)
<1> DEFINE m == COM_SCNTR_MINF_SZ
<1>1. m \in Nat \ {0} /\ c \in 0 .. m - 1 /\ i \in 0 .. m - 1
  BY ConstAssumption DEF Minf
<1> HIDE DEF m
<1>2. \A x, y : Ahead(x, y) = IF x + y < m THEN x + y ELSE x + y - m
  BY DEF Ahead, m
<1>3. Ahead(c, i) \in 0 .. m - 1
  BY <1>1, <1>2
<1>4. (Ahead(c, i) + 1) % m = IF Ahead(c, i) + 1 < m THEN Ahead(c, i) + 1
                              ELSE Ahead(c, i) + 1 - m
  BY <1>1, <1>3, Wraps
<1>5. (Ahead(c, i) + 1) % m = Ahead(c, i + 1)
  BY <1>1, <1>2, <1>4
<1>6. Ahead(Ahead(c, 1), i) = IF i + 1 = m THEN c ELSE Ahead(c, i + 1)
  BY <1>1, <1>2
<1> QED
  BY <1>5, <1>6 DEF m

-----------------------------------------------------------------------------
(* What a control holds.                                                   *)

(* The entry i places ahead of micur, when r of the messages have retired  *)
EntryOf(u, i) == u.mi[Ahead(u.micur, i)]

(* What Holds says of one control.                                         *)
LEMMA HoldsFacts ==
  ASSUME NEW u \in Control, NEW r \in Nat, NEW msgs \in Seq(Seq(Nat \X Nat)),
         Holds(u, r, msgs)
  PROVE  LET n == Len(msgs) - r IN
         /\ u.micur \in Minf /\ u.mient \in Minf
         /\ n \in Int /\ n >= 0 /\ n <= COM_SCNTR_MINF_SZ
         /\ n = 0 <=> u.state = "NONE"
         /\ u.mient = Ahead(u.micur, n)
         /\ \A i \in Minf : i < n =>
              /\ EntryOf(u, i).cntrtype # "NONE" /\ EntryOf(u, i).seq = r + 1 + i
              /\ msgs[r + 1 + i] = Message(r + 1 + i, EntryOf(u, i).cntrtype)
         /\ \A i \in Minf : ~ (i < n) => EntryOf(u, i).cntrtype = "NONE"
<1>1. u.micur \in Minf /\ u.mient \in Minf
  BY DEF Control
<1>2. Len(msgs) - r \in 0 .. COM_SCNTR_MINF_SZ
  BY DEF Holds
<1>3. /\ Len(msgs) - r \in Int /\ Len(msgs) - r >= 0
      /\ Len(msgs) - r <= COM_SCNTR_MINF_SZ
  BY <1>2, ConstAssumption
<1> QED
  BY <1>1, <1>3 DEF Holds, EntryOf

(* A control whose slots are left alone.                                   *)
LEMMA HoldsKept ==
  ASSUME NEW u, NEW w, NEW r, NEW msgs, Holds(u, r, msgs),
         w.mi = u.mi, w.micur = u.micur, w.mient = u.mient,
         w.state = "NONE" <=> u.state = "NONE"
  PROVE  Holds(w, r, msgs)
BY DEF Holds

(* label next_entry: the oldest message leaves the control.                *)
LEMMA NextEntryHolds ==
  ASSUME NEW u \in Control, NEW r \in Nat, NEW msgs \in Seq(Seq(Nat \X Nat)),
         Holds(u, r, msgs), u.state # "NONE"
  PROVE  r < Len(msgs) /\ Holds(NextEntry(u), r + 1, msgs)
<1> DEFINE m == COM_SCNTR_MINF_SZ
           n == Len(msgs) - r
           c == u.micur
           idx == (c + 1) % m
           v == [u EXCEPT !.mi[c] = NoEntry]
           w == NextEntry(u)
<1>1. /\ c \in Minf /\ u.mient = Ahead(c, n) /\ n \in 1 .. m
      /\ \A i \in Minf : i < n =>
           /\ EntryOf(u, i).cntrtype # "NONE" /\ EntryOf(u, i).seq = r + 1 + i
           /\ msgs[r + 1 + i] = Message(r + 1 + i, EntryOf(u, i).cntrtype)
      /\ \A i \in Minf : ~ (i < n) => EntryOf(u, i).cntrtype = "NONE"
  BY HoldsFacts, ConstAssumption
<1>2. m \in Nat \ {0} /\ Minf = 0 .. m - 1 /\ Len(msgs) \in Nat
  BY ConstAssumption DEF Minf
<1>3. 0 \in Minf /\ Ahead(c, 0) = c /\ idx = Ahead(c, 1) /\ idx \in Minf
  <2>1. 0 \in Minf /\ 1 \in 0 .. m
    BY <1>2
  <2>2. Ahead(c, 0) = c /\ Ahead(c, 1) \in Minf
    BY <1>1, <2>1, AheadFacts
  <2>3. (Ahead(c, 0) + 1) % m = Ahead(c, 0 + 1)
    BY <1>1, <2>1, AheadNext
  <2> QED
    BY <2>1, <2>2, <2>3
<1>4. idx = u.mient <=> n = 1
  <2>1. CASE n < m
    <3>1. n \in Minf
      BY <1>1, <1>2, <2>1
    <3>2. 1 \in Minf
      BY <1>1, <1>2, <2>1
    <3> HIDE DEF n, c, idx, m
    <3> QED
      BY <1>1, <1>3, <3>1, <3>2, AheadOnce
  <2>2. CASE n = m
    <3>1. u.mient = c
      BY <1>1, <2>2, AheadFacts
    <3>2. idx = c <=> m = 1
      <4>1. idx = IF c + 1 < m THEN c + 1 ELSE c + 1 - m
        BY <1>3 DEF Ahead
      <4>2. c \in 0 .. m - 1
        BY <1>1, <1>2
      <4> HIDE DEF c, idx, m
      <4> QED
        BY <1>2, <4>1, <4>2
    <3> QED
      BY <2>2, <3>1, <3>2
  <2> HIDE DEF n, m
  <2> QED
    BY <1>1, <1>2, <2>1, <2>2
<1>5. /\ v \in Control /\ v.mient = u.mient /\ v.micur = c
      /\ \A i \in Minf : v.mi[i] = IF i = c THEN NoEntry ELSE u.mi[i]
  BY <1>1 DEF Control, Entry, NoEntry
<1>6. w = IF idx = u.mient
          THEN [v EXCEPT !.micur = 0, !.mient = 0, !.state = "NONE"]
          ELSE [v EXCEPT !.micur = idx, !.state = "HAS_ROOM"]
  BY DEF NextEntry
<1>7. r < Len(msgs)
  <2> HIDE DEF m
  <2> QED
    BY <1>1, <1>2
<1> HIDE DEF v, w, idx
<1>8. CASE n = 1
  <2>1. w.micur = 0 /\ w.mient = 0 /\ w.state = "NONE" /\ w.mi = v.mi
    BY <1>4, <1>5, <1>6, <1>8 DEF Control
  <2>2. \A j \in Minf : v.mi[j].cntrtype = "NONE"
    <3> TAKE j \in Minf
    <3>1. PICK i \in Minf : Ahead(c, i) = j
      BY <1>1, AheadFacts, ZenonT(40)
    <3>2. CASE i = 0
      <4>1. j = c
        BY <1>3, <3>1, <3>2
      <4>2. v.mi[j] = NoEntry
        BY <1>5, <4>1
      <4> QED
        BY <4>2 DEF NoEntry
    <3>3. CASE i # 0
      <4>1. ~ (i < n)
        <5> HIDE DEF n, m
        <5> QED
          BY <1>2, <1>8, <3>3
      <4>2. j # c
        BY <1>1, <1>3, <3>1, <3>3, AheadOnce
      <4>3. u.mi[j].cntrtype = "NONE"
        BY <1>1, <3>1, <4>1 DEF EntryOf
      <4> QED
        BY <1>5, <4>2, <4>3
    <3> QED
      BY <3>2, <3>3
  <2>3. /\ Ahead(0, 0) = 0
        /\ \A i \in Minf : Ahead(0, i) \in Minf
    <3>1. \A i \in Minf : i \in 0 .. m
      BY <1>2
    <3> QED
      BY <1>3, <3>1, AheadFacts
  <2>4. Len(msgs) - (r + 1) = 0
    BY <1>2, <1>8
  <2>5. \A i \in Minf : ~ (i < 0)
    BY <1>2
  <2>6. Len(msgs) - (r + 1) \in 0 .. m
    BY <1>2, <2>4
  <2>7. Holds(w, r + 1, msgs)
    BY <2>1, <2>2, <2>3, <2>4, <2>5, <2>6 DEF Holds
  <2> QED
    BY <1>7, <2>7 DEF w
<1>9. CASE n # 1
  <2>1. w.micur = idx /\ w.mient = u.mient /\ w.state = "HAS_ROOM" /\ w.mi = v.mi
    BY <1>4, <1>5, <1>6, <1>9 DEF Control
  <2>2. n - 1 \in Minf /\ n - 1 # 0 /\ n - 1 \in 0 .. m /\ Len(msgs) - (r + 1) = n - 1
    <3>1. Len(msgs) - (r + 1) = n - 1
      BY <1>2
    <3> HIDE DEF n, m
    <3> QED
      BY <1>1, <1>2, <1>9, <3>1
  <2>3. w.mient = Ahead(idx, n - 1)
    <3>1. Ahead(Ahead(c, 1), n - 1) = IF (n - 1) + 1 = m THEN c ELSE Ahead(c, (n - 1) + 1)
      BY <1>1, <2>2, AheadNext
    <3>2. (n - 1) + 1 = n
      BY <1>2
    <3>3. n = m => Ahead(c, n) = c
      BY <1>1, AheadFacts
    <3> QED
      BY <1>1, <1>3, <2>1, <3>1, <3>2, <3>3
  <2>4. ASSUME NEW i \in Minf
        PROVE  LET e == w.mi[Ahead(idx, i)] IN
               IF i < n - 1
               THEN /\ e.cntrtype # "NONE" /\ e.seq = (r + 1) + 1 + i
                    /\ msgs[(r + 1) + 1 + i] = Message((r + 1) + 1 + i, e.cntrtype)
               ELSE e.cntrtype = "NONE"
    <3>1. CASE i + 1 = m
      <4>1. Ahead(idx, i) = c
        BY <1>1, <1>3, <3>1, AheadNext
      <4>2. ~ (i < n - 1)
        <5> HIDE DEF n, m
        <5> QED
          BY <1>1, <1>2, <3>1
      <4> QED
        BY <1>1, <1>5, <2>1, <4>1, <4>2 DEF NoEntry
    <3>2. CASE i + 1 # m
      <4>1. Ahead(idx, i) = Ahead(c, i + 1)
        BY <1>1, <1>3, <3>2, AheadNext
      <4>2. i + 1 \in Minf /\ i + 1 # 0 /\ (i + 1 < n <=> i < n - 1)
            /\ r + 1 + (i + 1) = (r + 1) + 1 + i
        <5>1. n \in Int
          BY <1>2
        <5> HIDE DEF n, m
        <5> QED
          BY <1>2, <3>2, <5>1
      <4>3. Ahead(c, i + 1) # c /\ Ahead(c, i + 1) \in Minf
        <5>1. i + 1 \in 0 .. m
          BY <1>2, <4>2
        <5>2. Ahead(c, i + 1) # c
          BY <1>1, <1>3, <4>2, AheadOnce
        <5> QED
          BY <1>1, <5>1, <5>2, AheadFacts
      <4>4. w.mi[Ahead(idx, i)] = EntryOf(u, i + 1)
        BY <1>5, <2>1, <4>1, <4>3 DEF EntryOf
      <4> HIDE DEF n
      <4> QED
        BY <1>1, <4>2, <4>4
    <3> QED
      BY <3>1, <3>2
  <2>5. Holds(w, r + 1, msgs)
    BY <2>1, <2>2, <2>3, <2>4 DEF Holds
  <2> QED
    BY <1>7, <2>5 DEF w
<1> QED
  BY <1>8, <1>9

(* A run of utf_sendengine: the control holds what it held, or one message *)
(* less, which has retired.                                                *)
LEMMA EngineHolds ==
  ASSUME NEW u \in Control, ControlOK(u), u.state # "FREE",
         NEW r \in Nat, NEW msgs \in Seq(Seq(Nat \X Nat)), Holds(u, r, msgs)
  PROVE  LET r2 == IF Retires(u) THEN r + 1 ELSE r
         IN  /\ Holds(Prepared(u), r2, msgs)
             /\ Holds(EngineResult(u), r2, msgs)
             /\ Retires(u) => r < Len(msgs)
<1> DEFINE v == Prepared(u)
           r2 == IF Retires(u) THEN r + 1 ELSE r
<1>1. Holds(v, r2, msgs) /\ (Retires(u) => r < Len(msgs))
  BY NextEntryHolds DEF Prepared, Retires
<1>2. v \in Control
  BY PreparedType
<1>3. EngineResult(u) = IF Sending(v) /\ ~ EngineFault(u) THEN Transmit(v) ELSE v
  BY DEF EngineResult
<1> HIDE DEF v
<1>4. ASSUME Sending(v) PROVE Holds(Transmit(v), r2, msgs)
  <2> DEFINE w == Transmit(v)
  <2>1. w.mi = v.mi /\ w.micur = v.micur /\ w.mient = v.mient /\ w.state # "NONE"
    BY <1>2 DEF Transmit, Control
  <2>2. v.state # "NONE"
    BY <1>4 DEF Sending
  <2> HIDE DEF w
  <2>3. Holds(w, r2, msgs)
    BY <1>1, <2>1, <2>2, HoldsKept
  <2> QED
    BY <2>3 DEF w
<1> QED
  BY <1>1, <1>3, <1>4 DEF v

(* minfo_setup: the slot at mient is free, so the control has room for one *)
(* more message; w is the control with the slot filled, in any state that  *)
(* is not idle.                                                            *)
LEMMA FilledHolds ==
  ASSUME NEW u \in Control, NEW r \in Nat, NEW msgs \in Seq(Seq(Nat \X Nat)),
         Holds(u, r, msgs), u.mi[u.mient].cntrtype = "NONE",
         NEW type \in MsgType, NEW w, w.state # "NONE", w.micur = u.micur,
         w.mient = (u.mient + 1) % COM_SCNTR_MINF_SZ,
         w.mi = [u.mi EXCEPT ![u.mient] = [cntrtype |-> type, seq |-> Len(msgs) + 1]]
  PROVE  Holds(w, r, Append(msgs, Message(Len(msgs) + 1, type)))
<1> DEFINE m == COM_SCNTR_MINF_SZ
           n == Len(msgs) - r
           c == u.micur
           msg == Message(Len(msgs) + 1, type)
           msgs2 == Append(msgs, msg)
<1>1. /\ c \in Minf /\ u.mient \in Minf /\ u.mient = Ahead(c, n)
      /\ n \in Int /\ n >= 0 /\ n <= m
      /\ \A i \in Minf : i < n =>
           /\ EntryOf(u, i).cntrtype # "NONE" /\ EntryOf(u, i).seq = r + 1 + i
           /\ msgs[r + 1 + i] = Message(r + 1 + i, EntryOf(u, i).cntrtype)
      /\ \A i \in Minf : ~ (i < n) => EntryOf(u, i).cntrtype = "NONE"
  BY HoldsFacts
<1>2. m \in Nat \ {0} /\ Minf = 0 .. m - 1 /\ Len(msgs) \in Nat
  BY ConstAssumption DEF Minf
<1>3. n \in Minf
  <2>1. n # m
    <3> SUFFICES ASSUME n = m PROVE FALSE
      OBVIOUS
    <3>1. u.mient = Ahead(c, 0)
      BY <1>1, AheadFacts
    <3>2. 0 \in Minf /\ 0 < n
      <4> HIDE DEF n, m
      <4> QED
        BY <1>2
    <3>3. EntryOf(u, 0).cntrtype # "NONE"
      BY <1>1, <3>2
    <3> QED
      BY <3>1, <3>3 DEF EntryOf
  <2> HIDE DEF n, m
  <2> QED
    BY <1>1, <1>2, <2>1
<1>4. w.mient = Ahead(c, n + 1)
  BY <1>1, <1>3, AheadNext
<1>5. msg \in Seq(Nat \X Nat)
  BY <1>2, MessageType
<1>6. /\ Len(msgs2) = Len(msgs) + 1 /\ msgs2[Len(msgs) + 1] = msg
      /\ \A i \in 1 .. Len(msgs) : msgs2[i] = msgs[i]
  <2> HIDE DEF msg
  <2> QED
    BY <1>5
<1>7. Len(msgs2) - r = n + 1
  BY <1>2, <1>6
<1>8. n + 1 \in 0 .. m /\ n + 1 # 0
  <2> HIDE DEF n, m
  <2> QED
    BY <1>1, <1>2, <1>3
<1>9. ASSUME NEW i \in Minf
      PROVE  LET e == w.mi[Ahead(c, i)] IN
             IF i < n + 1
             THEN /\ e.cntrtype # "NONE" /\ e.seq = r + 1 + i
                  /\ msgs2[r + 1 + i] = Message(r + 1 + i, e.cntrtype)
             ELSE e.cntrtype = "NONE"
  <2>1. Ahead(c, i) \in Minf
    <3>1. i \in 0 .. m
      BY <1>2
    <3> QED
      BY <1>1, <3>1, AheadFacts
  <2>2. u.mi \in [Minf -> Entry]
    BY DEF Control
  <2>3. CASE i = n
    <3>1. w.mi[Ahead(c, i)] = [cntrtype |-> type, seq |-> Len(msgs) + 1]
      BY <1>1, <2>1, <2>2, <2>3
    <3>2. r + 1 + i = Len(msgs) + 1 /\ i < n + 1
      BY <1>2, <2>3
    <3>3. type # "NONE"
      BY DEF MsgType
    <3> HIDE DEF msgs2
    <3> QED
      BY <1>6, <3>1, <3>2, <3>3
  <2>4. CASE i # n
    <3>1. Ahead(c, i) # u.mient
      BY <1>1, <1>3, <2>4, AheadOnce
    <3>2. w.mi[Ahead(c, i)] = EntryOf(u, i)
      BY <2>1, <2>2, <3>1 DEF EntryOf
    <3>3. (i < n + 1 <=> i < n) /\ (i < n => r + 1 + i \in 1 .. Len(msgs))
      BY <1>2, <2>4
    <3> HIDE DEF msgs2, n
    <3> QED
      BY <1>1, <1>6, <3>2, <3>3
  <2> QED
    BY <2>3, <2>4
<1>10. Holds(w, r, msgs2)
  <2> HIDE DEF n, m, msgs2
  <2> QED
    BY <1>4, <1>7, <1>8, <1>9 DEF Holds, m
<1> QED
  BY <1>10

(* The one slot of a control that is about to be used for the first time.  *)
LEMMA FreshHolds ==
  ASSUME NEW u, u.mi = FreeCntr.mi, u.micur = 0, u.mient = 0, u.state = "NONE"
  PROVE  Holds(u, 0, <<>>)
<1>1. 0 \in Minf /\ \A i \in Minf : ~ (i < 0) /\ i \in 0 .. COM_SCNTR_MINF_SZ
  BY ConstAssumption DEF Minf
<1>2. \A i \in Minf : Ahead(0, i) \in Minf
  BY <1>1, AheadFacts
<1>3. \A i \in Minf : u.mi[i].cntrtype = "NONE"
  BY DEF FreeCntr, NoEntry
<1>4. Ahead(0, 0) = 0
  BY <1>1, AheadFacts
<1>5. Len(<<>>) - 0 = 0 /\ 0 \in 0 .. COM_SCNTR_MINF_SZ
  BY ConstAssumption
<1> QED
  BY <1>1, <1>2, <1>3, <1>4, <1>5 DEF Holds

-----------------------------------------------------------------------------
(* Steps.                                                                  *)

(* what is inductive                                                       *)
WindowIInv == TypeInv /\ ControlInv /\ WindowInv

(* What the types say of the messages of p to q.                           *)
LEMMA CountsType ==
  ASSUME TypeInv, NEW p \in Rank, NEW q \in Rank
  PROVE  /\ retired[p][q] \in Nat /\ posted[p][q] \in Seq(Seq(Nat \X Nat))
         /\ Len(posted[p][q]) \in Nat
BY DEF TypeInv, TypeOK, TypeApp, TypeSnd

(* A control in use: its destination is a rank, which has this control.    *)
LEMMA HoldFacts ==
  ASSUME WindowIInv, NEW p \in Rank, NEW k \in SndCntr, scntr[p][k].state # "FREE"
  PROVE  LET u == scntr[p][k]
         IN  /\ u \in Control /\ ControlOK(u) /\ u.dst \in Rank
             /\ rank2scntridx[p][u.dst] = k /\ k # None
             /\ Holds(u, retired[p][u.dst], posted[p][u.dst])
<1>1. scntr[p][k] \in Control /\ ControlOK(scntr[p][k])
  BY DEF WindowIInv, TypeInv, TypeOK, TypeSnd
<1>2. scntr[p][k].dst \in Rank
  BY <1>1 DEF ControlOK
<1>3. k # None
  BY ConstAssumption DEF SndCntr, None
<1> QED
  BY <1>1, <1>2, <1>3 DEF WindowIInv, WindowInv, ControlsHold

(* A step that concerns one control and the messages to its destination.   *)
LEMMA OneWindow ==
  ASSUME WindowIInv, NEW p \in Rank, NEW k \in SndCntr, scntr[p][k].state # "FREE",
         NEW w \in Control, w.state # "FREE", w.dst = scntr[p][k].dst,
         scntr' = [scntr EXCEPT ![p][k] = w], UNCHANGED rank2scntridx,
         \A r, q \in Rank : (r # p \/ q # w.dst) =>
           posted'[r][q] = posted[r][q] /\ retired'[r][q] = retired[r][q],
         Holds(w, retired'[p][w.dst], posted'[p][w.dst])
  PROVE  ControlsHold' /\ NothingPosted'
<1>1. w.dst \in Rank /\ rank2scntridx[p][w.dst] = k /\ k # None
  <2>1. WindowIInv /\ p \in Rank /\ k \in SndCntr /\ scntr[p][k].state # "FREE"
    OBVIOUS
  <2>2. /\ scntr[p][k].dst \in Rank /\ rank2scntridx[p][scntr[p][k].dst] = k
        /\ k # None
    BY ONLY <2>1, HoldFacts
  <2> QED
    BY <2>2, Zenon
<1>2. \A r \in Rank, j \in SndCntr :
        scntr'[r][j] = IF r = p /\ j = k THEN w ELSE scntr[r][j]
  BY DEF WindowIInv, TypeInv, TypeOK, TypeSnd
<1>3. ASSUME NEW r \in Rank, NEW j \in SndCntr
      PROVE  IF scntr'[r][j].state = "FREE" THEN scntr'[r][j] = FreeCntr
             ELSE /\ rank2scntridx'[r][scntr'[r][j].dst] = j
                  /\ Holds(scntr'[r][j], retired'[r][scntr'[r][j].dst],
                           posted'[r][scntr'[r][j].dst])
  <2>1. CASE r = p /\ j = k
    BY <1>1, <1>2, <2>1
  <2>2. CASE ~ (r = p /\ j = k) /\ scntr[r][j].state = "FREE"
    <3>1. ControlsHold
      BY DEF WindowIInv, WindowInv
    <3>2. scntr[r][j] = FreeCntr
      BY <2>2, <3>1, Zenon DEF ControlsHold
    <3>3. scntr'[r][j] = scntr[r][j]
      BY <1>2, <2>2
    <3> QED
      BY <2>2, <3>2, <3>3, Zenon
  <2>3. CASE ~ (r = p /\ j = k) /\ scntr[r][j].state # "FREE"
    <3> DEFINE x == scntr[r][j].dst
    <3>1. /\ x \in Rank /\ rank2scntridx[r][x] = j
          /\ Holds(scntr[r][j], retired[r][x], posted[r][x])
      BY <2>3, HoldFacts
    <3>2. r # p \/ x # w.dst
      BY <1>1, <2>3, <3>1
    <3>3. scntr'[r][j] = scntr[r][j]
      BY <1>2, <2>3
    <3> QED
      BY <2>3, <3>1, <3>2, <3>3, ZenonT(40)
  <2> QED
    BY <2>1, <2>2, <2>3
<1>4. ControlsHold'
  BY <1>3 DEF ControlsHold
<1>5. NothingPosted'
  <2> SUFFICES ASSUME NEW r \in Rank, NEW q \in Rank, rank2scntridx[r][q] = None
               PROVE  posted'[r][q] = <<>> /\ retired'[r][q] = 0
    BY DEF NothingPosted
  <2>1. r # p \/ q # w.dst
    BY <1>1
  <2> QED
    BY <2>1 DEF WindowIInv, WindowInv, NothingPosted
<1> QED
  BY <1>4, <1>5

(* What utf_sendengine does to the count of the retired.                   *)
LEMMA EngineRetires ==
  ASSUME TypeInv, NEW p \in Rank, NEW k, NEW u, NEW ridx, NEW b, NEW done,
         SendEngine(p, k, u, ridx, b, done), u.dst \in Rank
  PROVE  /\ \A r, q \in Rank : (r # p \/ q # u.dst) => retired'[r][q] = retired[r][q]
         /\ retired'[p][u.dst] = IF Retires(u) THEN retired[p][u.dst] + 1
                                 ELSE retired[p][u.dst]
<1>1. retired' = IF Retires(u) THEN [retired EXCEPT ![p][u.dst] = @ + 1] ELSE retired
  BY DEF SendEngine
<1>2. retired \in [Rank -> [Rank -> Nat]]
  BY DEF TypeInv, TypeOK, TypeSnd
<1> QED
  BY <1>1, <1>2

(* A run of the engine on a control in use, that was brought to u before.  *)
LEMMA EngineWindow ==
  ASSUME WindowIInv, NEW p \in Rank, NEW k \in SndCntr, scntr[p][k].state # "FREE",
         NEW u \in Control, ControlOK(u), u.state # "FREE", u.dst = scntr[p][k].dst,
         NEW ridx, NEW b, NEW done, SendEngine(p, k, u, ridx, b, done),
         UNCHANGED rank2scntridx,
         posted' \in [Rank -> [Rank -> Seq(Seq(Nat \X Nat))]],
         \A r, q \in Rank : (r # p \/ q # u.dst) => posted'[r][q] = posted[r][q],
         Holds(u, retired[p][u.dst], posted'[p][u.dst])
  PROVE  ControlsHold' /\ NothingPosted'
<1> DEFINE w == EngineResult(u)
           d == u.dst
<1>1. d \in Rank
  BY HoldFacts
<1>2. w \in Control /\ w.dst = d /\ w.state # "FREE"
  BY EngineType
<1>3. /\ \A r, q \in Rank : (r # p \/ q # d) => retired'[r][q] = retired[r][q]
      /\ retired'[p][d] = IF Retires(u) THEN retired[p][d] + 1 ELSE retired[p][d]
  BY <1>1, EngineRetires DEF WindowIInv
<1>4. retired[p][d] \in Nat /\ posted'[p][d] \in Seq(Seq(Nat \X Nat))
  BY <1>1, CountsType DEF WindowIInv
<1>5. Holds(w, retired'[p][d], posted'[p][d])
  <2> HIDE DEF w, d
  <2>1. Holds(w, IF Retires(u) THEN retired[p][d] + 1 ELSE retired[p][d], posted'[p][d])
    BY <1>4, EngineHolds DEF w, d
  <2> QED
    BY <1>3, <2>1
<1>6. scntr' = [scntr EXCEPT ![p][k] = w]
  BY DEF SendEngine
<1> HIDE DEF w
<1>7. w.dst = scntr[p][k].dst
  BY <1>2
<1>8. \A r, q \in Rank : (r # p \/ q # w.dst) =>
        posted'[r][q] = posted[r][q] /\ retired'[r][q] = retired[r][q]
  BY <1>2, <1>3
<1>9. Holds(w, retired'[p][w.dst], posted'[p][w.dst])
  BY <1>2, <1>5
<1> QED
  BY <1>2, <1>6, <1>7, <1>8, <1>9, OneWindow

(* An event for control k as it is: a completion.                          *)
LEMMA CompletionWindow ==
  ASSUME WindowIInv, NEW p \in Rank, NEW k \in SndCntr, NEW ridx, NEW b, NEW done,
         SendEngine(p, k, scntr[p][k], ridx, b, done),
         UNCHANGED <<rank2scntridx, posted>>
  PROVE  ControlsHold' /\ NothingPosted'
<1> DEFINE u == scntr[p][k]
<1>1. u \in Control /\ ControlOK(u)
  BY DEF WindowIInv, TypeInv, TypeOK, TypeSnd
<1>2. CASE u.state = "FREE"
  <2>1. EngineResult(u) = u /\ ~ Retires(u)
    BY <1>2, EngineIdle DEF Retires
  <2>2. scntr' = [scntr EXCEPT ![p][k] = u] /\ retired' = retired
    BY <2>1 DEF SendEngine
  <2>3. scntr' = scntr
    BY <1>1, <2>2 DEF WindowIInv, TypeInv, TypeOK, TypeSnd
  <2> QED
    BY <2>2, <2>3 DEF WindowIInv, WindowInv, ControlsHold, NothingPosted
<1>3. CASE u.state # "FREE"
  <2>1. Holds(u, retired[p][u.dst], posted'[p][u.dst])
    BY <1>3, HoldFacts
  <2>2. posted' \in [Rank -> [Rank -> Seq(Seq(Nat \X Nat))]]
    BY DEF WindowIInv, TypeInv, TypeOK, TypeApp
  <2> QED
    BY <1>1, <1>3, <2>1, <2>2, EngineWindow
<1> QED
  BY <1>2, <1>3

(* The answer to the request for a room.                                   *)
LEMMA MrqLclArmwWindow ==
  ASSUME WindowIInv, NEW p \in Rank, NEW k \in SndCntr, NEW val, MrqLclArmw(p, k, val)
  PROVE  ControlsHold' /\ NothingPosted'
<1> DEFINE u == scntr[p][k]
           g == [u EXCEPT !.state = "HAS_ROOM", !.recvidx = 0]
<1>1. UNCHANGED <<rank2scntridx, posted>>
  BY DEF MrqLclArmw, appVars
<1>2. CASE u.state = "REQ_ROOM" /\ val >= 0
  <2>1. PICK b : SendEngine(p, k, g, val, b, FALSE)
    BY <1>2 DEF MrqLclArmw
  <2>2. /\ u.dst \in Rank /\ g \in Control /\ ControlOK(g) /\ g.dst = u.dst
        /\ g.state = "HAS_ROOM"
    BY <1>2, ArmwFacts DEF WindowIInv
  <2>3. u \in Control /\ Holds(u, retired[p][u.dst], posted[p][u.dst])
    BY <1>2, HoldFacts
  <2>4. g.mi = u.mi /\ g.micur = u.micur /\ g.mient = u.mient
    BY <2>3 DEF Control
  <2>5. posted' \in [Rank -> [Rank -> Seq(Seq(Nat \X Nat))]]
    BY <1>1 DEF WindowIInv, TypeInv, TypeOK, TypeApp
  <2> HIDE DEF g
  <2>6. Holds(g, retired[p][u.dst], posted'[p][u.dst])
    BY <1>1, <1>2, <2>2, <2>3, <2>4, HoldsKept
  <2> QED
    BY <1>1, <1>2, <2>1, <2>2, <2>5, <2>6, EngineWindow
<1>3. CASE ~ (u.state = "REQ_ROOM" /\ val >= 0)
  <2>1. UNCHANGED <<scntr, retired>>
    BY <1>3 DEF MrqLclArmw
  <2> QED
    BY <1>1, <2>1 DEF WindowIInv, WindowInv, ControlsHold, NothingPosted
<1> QED
  BY <1>2, <1>3

(* A ring reset.                                                           *)
LEMMA MrqRecvResetWindow ==
  ASSUME WindowIInv, NEW p \in Rank, NEW k \in SndCntr, MrqRecvReset(p, k)
  PROVE  ControlsHold' /\ NothingPosted'
<1> DEFINE o == scntr[p][k]
           u == [o EXCEPT !.recvidx = 0]
           g == [u EXCEPT !.state = u.ostate]
<1>1. UNCHANGED <<rank2scntridx, posted>>
  BY DEF MrqRecvReset, appVars
<1>2. /\ u \in Control /\ ControlOK(u) /\ u.dst = o.dst /\ u.state = o.state
      /\ u.state = "WAIT_BUFREADY" =>
           /\ g \in Control /\ ControlOK(g) /\ g.dst = u.dst
           /\ g.state \in {"HAS_ROOM", "DO_EGR"}
  BY ResetFacts DEF WindowIInv
<1>3. o \in Control
  BY DEF WindowIInv, TypeInv, TypeOK, TypeSnd
<1>4. /\ u.mi = o.mi /\ u.micur = o.micur /\ u.mient = o.mient
      /\ g.mi = o.mi /\ g.micur = o.micur /\ g.mient = o.mient
  BY <1>3 DEF Control
<1>5. o.state # "FREE" => Holds(o, retired[p][o.dst], posted[p][o.dst])
  BY HoldFacts
<1>6. CASE u.state = "WAIT_BUFREADY"
  <2>1. PICK b : SendEngine(p, k, g, egrmgt[p][u.dst].index, b, FALSE)
    BY <1>6 DEF MrqRecvReset
  <2>2. posted' \in [Rank -> [Rank -> Seq(Seq(Nat \X Nat))]]
    BY <1>1 DEF WindowIInv, TypeInv, TypeOK, TypeApp
  <2> HIDE DEF u, g
  <2>3. Holds(g, retired[p][o.dst], posted'[p][o.dst])
    BY <1>1, <1>2, <1>4, <1>5, <1>6, HoldsKept
  <2> QED
    BY <1>1, <1>2, <1>6, <2>1, <2>2, <2>3, EngineWindow
<1>7. CASE u.state # "WAIT_BUFREADY" /\ o.state # "FREE"
  <2>1. scntr' = [scntr EXCEPT ![p][k] = u] /\ retired' = retired
    BY <1>7 DEF MrqRecvReset
  <2> HIDE DEF u
  <2>2. Holds(u, retired'[p][u.dst], posted'[p][u.dst])
    BY <1>1, <1>2, <1>4, <1>5, <1>7, <2>1, HoldsKept
  <2> QED
    BY <1>1, <1>2, <1>7, <2>1, <2>2, OneWindow
<1>8. CASE o.state = "FREE"
  <2>1. scntr' = [scntr EXCEPT ![p][k] = u] /\ retired' = retired
    BY <1>2, <1>8 DEF MrqRecvReset
  <2>2. u = o
    BY <1>3, <1>8 DEF WindowIInv, WindowInv, ControlsHold, FreeCntr, Control
  <2> HIDE DEF u
  <2>3. scntr' = scntr
    BY <2>1, <2>2 DEF WindowIInv, TypeInv, TypeOK, TypeSnd
  <2> QED
    BY <1>1, <2>1, <2>3 DEF WindowIInv, WindowInv, ControlsHold, NothingPosted
<1> QED
  BY <1>6, <1>7, <1>8

(* utf_scntr_alloc: the control taken from the list has never been used,   *)
(* and nothing was posted to its destination.                              *)
LEMMA SendAllocWindow ==
  ASSUME WindowIInv, NEW p \in Rank, SendAlloc(p)
  PROVE  ControlsHold' /\ NothingPosted'
<1> DEFINE d == pend[p].dst
<1>1. UNCHANGED <<retired, posted>>
  BY DEF SendAlloc
<1>2. CASE UNCHANGED <<rank2scntridx, scntr>>
  BY <1>1, <1>2 DEF WindowIInv, WindowInv, ControlsHold, NothingPosted
<1>3. CASE ~ UNCHANGED <<rank2scntridx, scntr>>
  <2>1. PICK k \in FreeControls(p) :
          /\ rank2scntridx[p][d] = None
          /\ rank2scntridx' = [rank2scntridx EXCEPT ![p][d] = k]
          /\ scntr' = [scntr EXCEPT ![p][k] =
                [@ EXCEPT !.state = "NONE", !.dst = d, !.mient = 0]]
    BY <1>3 DEF SendAlloc
  <2>2. k \in SndCntr /\ scntr[p][k].state = "FREE" /\ scntr[p][k] = FreeCntr
    BY <2>1 DEF FreeControls, WindowIInv, WindowInv, ControlsHold
  <2>3. d \in Rank
    BY DEF SendAlloc, WindowIInv, TypeInv, CallOK
  <2> DEFINE w == [scntr[p][k] EXCEPT !.state = "NONE", !.dst = d, !.mient = 0]
  <2>4. /\ w.state = "NONE" /\ w.dst = d /\ w.mient = 0
        /\ w.micur = 0 /\ w.mi = FreeCntr.mi
    BY <2>2 DEF FreeCntr
  <2>5. \A r \in Rank, j \in SndCntr :
          scntr'[r][j] = IF r = p /\ j = k THEN w ELSE scntr[r][j]
    <3>1. scntr' = [scntr EXCEPT ![p][k] = w]
      BY <2>1
    <3> HIDE DEF w
    <3> QED
      BY <2>2, <3>1 DEF WindowIInv, TypeInv, TypeOK, TypeSnd
  <2>6. \A r, q \in Rank :
          rank2scntridx'[r][q] = IF r = p /\ q = d THEN k ELSE rank2scntridx[r][q]
    BY <2>1, <2>3 DEF WindowIInv, TypeInv, TypeOK, TypeSnd
  <2> HIDE DEF w
  <2>7. posted[p][d] = <<>> /\ retired[p][d] = 0
    BY <2>1, <2>3 DEF WindowIInv, WindowInv, NothingPosted
  <2>8. Holds(w, 0, <<>>)
    BY <2>4, FreshHolds
  <2>9. ASSUME NEW r \in Rank, NEW j \in SndCntr
        PROVE  IF scntr'[r][j].state = "FREE" THEN scntr'[r][j] = FreeCntr
               ELSE /\ rank2scntridx'[r][scntr'[r][j].dst] = j
                    /\ Holds(scntr'[r][j], retired'[r][scntr'[r][j].dst],
                             posted'[r][scntr'[r][j].dst])
    <3>1. CASE r = p /\ j = k
      <4>1. scntr'[r][j] = w
        BY <2>5, <3>1
      <4>2. rank2scntridx'[r][d] = j
        BY <2>3, <2>6, <3>1
      <4> HIDE DEF d
      <4> QED
        BY <1>1, <2>4, <2>7, <2>8, <3>1, <4>1, <4>2
    <3>2. CASE ~ (r = p /\ j = k) /\ scntr[r][j].state = "FREE"
      BY <2>5, <3>2 DEF WindowIInv, WindowInv, ControlsHold
    <3>3. CASE ~ (r = p /\ j = k) /\ scntr[r][j].state # "FREE"
      <4> DEFINE x == scntr[r][j].dst
      <4>1. /\ x \in Rank /\ rank2scntridx[r][x] = j /\ j # None
            /\ Holds(scntr[r][j], retired[r][x], posted[r][x])
        BY <3>3, HoldFacts
      <4>2. rank2scntridx'[r][x] = j
        BY <2>1, <2>6, <4>1
      <4>3. scntr'[r][j] = scntr[r][j]
        BY <2>5, <3>3
      <4> QED
        BY <1>1, <3>3, <4>1, <4>2, <4>3
    <3> QED
      BY <3>1, <3>2, <3>3
  <2>10. ControlsHold'
    BY <2>9 DEF ControlsHold
  <2>11. k # None
    BY <2>2, ConstAssumption DEF SndCntr, None
  <2>12. NothingPosted'
    <3> SUFFICES ASSUME NEW r \in Rank, NEW q \in Rank, rank2scntridx'[r][q] = None
                 PROVE  posted'[r][q] = <<>> /\ retired'[r][q] = 0
      BY DEF NothingPosted
    <3>1. rank2scntridx[r][q] = None
      BY <2>6, <2>11
    <3> QED
      BY <1>1, <3>1 DEF WindowIInv, WindowInv, NothingPosted
  <2> QED
    BY <2>10, <2>12
<1> QED
  BY <1>2, <1>3

(* utf_send: the message takes the next slot, whatever the control does    *)
(* with it.                                                                *)
LEMMA PostedNext ==
  ASSUME WindowIInv, NEW p \in Rank, SendPost(p)
  PROVE  LET d == pend[p].dst
             u == scntr[p][rank2scntridx[p][d]]
             f == Filled(p, u)
             msgs == posted[p][d]
         IN  /\ u.state # "FREE" /\ u.dst = d
             /\ posted' \in [Rank -> [Rank -> Seq(Seq(Nat \X Nat))]]
             /\ posted'[p][d] = Append(msgs, Message(Len(msgs) + 1, pend[p].type))
             /\ \A x, y \in Rank : (x # p \/ y # d) => posted'[x][y] = posted[x][y]
             /\ \A w : (/\ w.state # "NONE" /\ w.micur = f.micur
                       /\ w.mient = f.mient /\ w.mi = f.mi)
                       => Holds(w, retired[p][d], posted'[p][d])
<1> DEFINE d == pend[p].dst
           type == pend[p].type
           k == rank2scntridx[p][d]
           u == scntr[p][k]
           f == Filled(p, u)
           msgs == posted[p][d]
           r == retired[p][d]
<1>1. /\ d \in Rank /\ k \in SndCntr
      /\ u \in Control /\ ControlOK(u)
      /\ f \in Control /\ f.dst = u.dst /\ f.state = u.state
  BY PostFacts, Zenon DEF WindowIInv
<1>2. u.state # "FREE" /\ u.dst = d
  <2>1. k # None
    <3> HIDE DEF k
    <3> QED
      BY <1>1, ConstAssumption DEF SndCntr, None
  <2> QED
    BY <1>1, <2>1, Zenon DEF WindowIInv, ControlInv
<1>3. posted' = [posted EXCEPT ![p][d] = Append(@, Message(Len(@) + 1, type))]
  BY Zenon DEF SendPost
<1>4. msgs \in Seq(Seq(Nat \X Nat)) /\ Len(msgs) \in Nat /\ r \in Nat
  BY <1>1, CountsType DEF WindowIInv
<1>5. posted \in [Rank -> [Rank -> Seq(Seq(Nat \X Nat))]]
  BY DEF WindowIInv, TypeInv, TypeOK, TypeApp
<1>6. Append(msgs, Message(Len(msgs) + 1, type)) \in Seq(Seq(Nat \X Nat))
  <2>1. Message(Len(msgs) + 1, type) \in Seq(Nat \X Nat)
    BY <1>4, MessageType
  <2> QED
    BY <1>4, <2>1
<1>7. /\ posted'[p][d] = Append(msgs, Message(Len(msgs) + 1, type))
      /\ \A x, y \in Rank : (x # p \/ y # d) => posted'[x][y] = posted[x][y]
      /\ posted' \in [Rank -> [Rank -> Seq(Seq(Nat \X Nat))]]
  <2> DEFINE msgs2 == Append(msgs, Message(Len(msgs) + 1, type))
  <2>1. posted' = [posted EXCEPT ![p][d] = msgs2]
    BY <1>3
  <2>2. msgs2 \in Seq(Seq(Nat \X Nat))
    BY <1>6
  <2> HIDE DEF msgs2, d
  <2>3. /\ posted'[p][d] = msgs2
        /\ \A x, y \in Rank : (x # p \/ y # d) => posted'[x][y] = posted[x][y]
        /\ posted' \in [Rank -> [Rank -> Seq(Seq(Nat \X Nat))]]
    BY <1>1, <1>5, <2>1, <2>2
  <2> QED
    BY <2>3 DEF msgs2, d
<1>8. Holds(u, r, msgs)
  BY <1>1, <1>2, HoldFacts
<1>9. type \in MsgType
  <2>1. d # None
    <3> HIDE DEF d
    <3> QED
      BY <1>1, ConstAssumption DEF Rank, None
  <2> QED
    BY <2>1, ConstAssumption DEF WindowIInv, WindowInv, CallsAdmitted
<1>10. /\ f.micur = u.micur /\ f.mient = (u.mient + 1) % COM_SCNTR_MINF_SZ
       /\ f.mi = [u.mi EXCEPT ![u.mient] = [cntrtype |-> type, seq |-> Len(msgs) + 1]]
  <2> HIDE DEF u
  <2> QED
    BY <1>1 DEF Filled, Control
<1>11. u.mi[u.mient].cntrtype = "NONE"
  BY DEF SendPost
<1>12. ASSUME NEW w, w.state # "NONE", w.micur = f.micur, w.mient = f.mient, w.mi = f.mi
       PROVE  Holds(w, r, posted'[p][d])
  <2> HIDE DEF u, r, msgs, f, type
  <2>1. w.mi = [u.mi EXCEPT ![u.mient] = [cntrtype |-> type, seq |-> Len(msgs) + 1]]
    BY <1>10, <1>12
  <2>2. w.micur = u.micur /\ w.mient = (u.mient + 1) % COM_SCNTR_MINF_SZ
    BY <1>10, <1>12
  <2>3. u \in Control
    BY <1>1
  <2>4. Holds(w, r, Append(msgs, Message(Len(msgs) + 1, type)))
    BY <1>4, <1>8, <1>9, <1>11, <1>12, <2>1, <2>2, <2>3, FilledHolds
  <2> QED
    BY <1>7, <2>4
<1> HIDE DEF u, f, r, msgs, type
<1> QED
  BY <1>2, <1>7, <1>12, Zenon DEF u, f, r, msgs, type

(* ... so that the controls go on holding what was posted.                 *)
LEMMA SendPostWindow ==
  ASSUME WindowIInv, NEW p \in Rank, SendPost(p)
  PROVE  ControlsHold' /\ NothingPosted'
<1> DEFINE d == pend[p].dst
           k == rank2scntridx[p][d]
           u == scntr[p][k]
           f == Filled(p, u)
           g == [f EXCEPT !.state = "HAS_ROOM"]
           h == [f EXCEPT !.state = "REQ_ROOM"]
           r == retired[p][d]
<1>1. /\ d \in Rank /\ k \in SndCntr
      /\ u \in Control /\ ControlOK(u)
      /\ f \in Control /\ f.dst = u.dst /\ f.state = u.state
      /\ u.state = "NONE" =>
           /\ g \in Control /\ ControlOK(g) /\ g.dst = u.dst
           /\ g.state = "HAS_ROOM"
           /\ h \in Control /\ ControlOK(h) /\ h.dst = u.dst
           /\ h.state = "REQ_ROOM"
  BY PostFacts, ZenonT(40) DEF WindowIInv
<1>2. u.state # "FREE" /\ u.dst = d
  BY PostedNext
<1>3. UNCHANGED rank2scntridx
  BY ZenonT(40) DEF SendPost
<1>4. /\ \A x, y \in Rank : (x # p \/ y # d) => posted'[x][y] = posted[x][y]
      /\ posted' \in [Rank -> [Rank -> Seq(Seq(Nat \X Nat))]]
  BY PostedNext
<1>5. ASSUME NEW w, w.state # "NONE", w.micur = f.micur, w.mient = f.mient, w.mi = f.mi
       PROVE  Holds(w, r, posted'[p][d])
  <2> HIDE DEF f, u
  <2> QED
    BY <1>5, PostedNext DEF u, f
<1>6. CASE u.state # "NONE"
  <2>1. scntr' = [scntr EXCEPT ![p][k] = f] /\ retired' = retired
    BY <1>6 DEF SendPost
  <2> HIDE DEF f, u
  <2>2. Holds(f, r, posted'[p][d])
    BY <1>1, <1>5, <1>6
  <2>3. scntr[p][k].state # "FREE" /\ f.state # "FREE" /\ f.dst = scntr[p][k].dst
        /\ f \in Control /\ f.dst = d /\ k \in SndCntr
    BY <1>1, <1>2 DEF u
  <2> HIDE DEF k, d, r
  <2>4. \A x, q \in Rank : (x # p \/ q # f.dst) =>
          posted'[x][q] = posted[x][q] /\ retired'[x][q] = retired[x][q]
    BY <1>4, <2>1, <2>3
  <2>5. Holds(f, retired'[p][f.dst], posted'[p][f.dst])
    BY <2>1, <2>2, <2>3 DEF r
  <2> QED
    BY <1>3, <2>1, <2>3, <2>4, <2>5, OneWindow
<1>7. CASE u.state = "NONE" /\ egrmgt[p][d].sndok
  <2>1. PICK b : SendEngine(p, k, g, egrmgt[p][d].index, b, FALSE)
    BY <1>7 DEF SendPost
  <2>2. g.micur = f.micur /\ g.mient = f.mient /\ g.mi = f.mi
    <3> HIDE DEF f
    <3> QED
      BY <1>1 DEF Control
  <2> HIDE DEF f, g, u
  <2>3. Holds(g, r, posted'[p][d])
    BY <1>1, <1>5, <1>7, <2>2
  <2>4. scntr[p][k].state # "FREE" /\ g.state # "FREE" /\ g.dst = scntr[p][k].dst
        /\ g \in Control /\ ControlOK(g) /\ g.dst = d /\ k \in SndCntr
    BY <1>1, <1>2, <1>7 DEF u
  <2> HIDE DEF k, d, r
  <2>5. /\ posted' \in [Rank -> [Rank -> Seq(Seq(Nat \X Nat))]]
        /\ \A x, q \in Rank : (x # p \/ q # g.dst) => posted'[x][q] = posted[x][q]
    BY <1>4, <2>4
  <2>6. Holds(g, retired[p][g.dst], posted'[p][g.dst])
    BY <2>3, <2>4 DEF r
  <2> QED
    BY <1>3, <2>1, <2>4, <2>5, <2>6, EngineWindow, Zenon
<1>8. CASE u.state = "NONE" /\ ~ egrmgt[p][d].sndok
  <2>1. scntr' = [scntr EXCEPT ![p][k] = h] /\ retired' = retired
    BY <1>8, Zenon DEF SendPost
  <2>2. h.micur = f.micur /\ h.mient = f.mient /\ h.mi = f.mi
    <3> HIDE DEF f
    <3> QED
      BY <1>1 DEF Control
  <2> HIDE DEF f, h, u
  <2>3. Holds(h, r, posted'[p][d])
    BY <1>1, <1>5, <1>8, <2>2
  <2>4. scntr[p][k].state # "FREE" /\ h.state # "FREE" /\ h.dst = scntr[p][k].dst
        /\ h \in Control /\ h.dst = d /\ k \in SndCntr
    BY <1>1, <1>2, <1>8 DEF u
  <2> HIDE DEF k, d, r
  <2>5. \A x, q \in Rank : (x # p \/ q # h.dst) =>
          posted'[x][q] = posted[x][q] /\ retired'[x][q] = retired[x][q]
    BY <1>4, <2>1, <2>4
  <2>6. Holds(h, retired'[p][h.dst], posted'[p][h.dst])
    BY <2>1, <2>3, <2>4 DEF r
  <2> QED
    BY <1>3, <2>1, <2>4, <2>5, <2>6, OneWindow
<1> QED
  BY <1>6, <1>7, <1>8

(* A call is admitted when it is made, and nothing else is posted before   *)
(* it is served.                                                           *)
LEMMA CallsNext ==
  ASSUME WindowIInv, [Next]_vars
  PROVE  CallsAdmitted'
<1>1. \A r \in Rank : pend[r].dst # None =>
        /\ pend[r].dst \in Dests[r] /\ pend[r].type \in Types
        /\ Len(posted[r][pend[r].dst]) < MaxMsg
  BY DEF WindowIInv, WindowInv, CallsAdmitted
<1>2. pend \in [Rank -> [dst : Rank \cup {None}, type : MsgType \cup {"NONE"}]]
  BY DEF WindowIInv, TypeInv, TypeOK, TypeApp
<1>3. ASSUME UNCHANGED <<pend, posted>> PROVE CallsAdmitted'
  BY <1>1, <1>3 DEF CallsAdmitted
<1>4. ASSUME NEW p \in Rank, NEW d \in Dests[p], NEW type \in Types,
             SendCall(p, d, type)
      PROVE  CallsAdmitted'
  <2>1. /\ pend' = [pend EXCEPT ![p] = [dst |-> d, type |-> type]]
        /\ posted' = posted /\ Len(posted[p][d]) < MaxMsg
    BY <1>4 DEF SendCall
  <2>2. \A r \in Rank : pend'[r] = IF r = p THEN [dst |-> d, type |-> type] ELSE pend[r]
    BY <1>2, <2>1
  <2> QED
    BY <1>1, <2>1, <2>2 DEF CallsAdmitted
<1>5. ASSUME NEW p \in Rank,
             pend' = [pend EXCEPT ![p] = [dst |-> None, type |-> "NONE"]],
             \A r \in Rank : r # p => posted'[r] = posted[r]
      PROVE  CallsAdmitted'
  <2>1. \A r \in Rank : pend'[r] = IF r = p THEN [dst |-> None, type |-> "NONE"] ELSE pend[r]
    BY <1>2, <1>5
  <2> QED
    BY <1>1, <1>5, <2>1 DEF CallsAdmitted
<1>6. ASSUME NEW p \in Rank, SendAlloc(p) PROVE CallsAdmitted'
  <2>1. /\ posted' = posted
        /\ pend' = pend \/ pend' = [pend EXCEPT ![p] = [dst |-> None, type |-> "NONE"]]
    BY <1>6 DEF SendAlloc
  <2> QED
    BY <1>3, <1>5, <2>1
<1>7. ASSUME NEW p \in Rank, SendPost(p) PROVE CallsAdmitted'
  <2>1. /\ pend' = [pend EXCEPT ![p] = [dst |-> None, type |-> "NONE"]]
        /\ posted' = [posted EXCEPT ![p][pend[p].dst] =
                        Append(@, Message(Len(@) + 1, pend[p].type))]
    BY <1>7 DEF SendPost
  <2>2. \A r \in Rank : r # p => posted'[r] = posted[r]
    BY <2>1 DEF WindowIInv, TypeInv, TypeOK, TypeApp
  <2> QED
    BY <1>5, <2>1, <2>2
<1>8. ASSUME UNCHANGED vars PROVE UNCHANGED <<pend, posted>>
  BY <1>8 DEF vars, appVars
<1>9. ASSUME NEW p \in Rank,
             \/ ProgressCall(p) \/ SendRetry(p) \/ TcqEnd(p) \/ ScanPkt(p)
             \/ ScanNone(p) \/ ScanEnd(p) \/ MrqNone(p)
      PROVE  UNCHANGED <<pend, posted>>
  BY <1>9, Zenon DEF ProgressCall, SendRetry, TcqEnd, ScanPkt, ScanNone, ScanEnd, MrqNone,
              appVars
<1>10. ASSUME NEW p \in Rank, NEW k \in SndCntr, NEW val,
              \/ TcqStep(p, k) \/ MrqLclPut(p, k) \/ MrqLclArmw(p, k, val)
              \/ MrqRecvReset(p, k)
       PROVE  UNCHANGED <<pend, posted>>
  BY <1>10, Zenon DEF TcqStep, MrqLclPut, MrqLclArmw, MrqRecvReset, appVars
<1>11. ASSUME Net PROVE UNCHANGED <<pend, posted>>
  BY <1>11 DEF Net, NetPut, NetAdd, appVars
<1> QED
  BY <1>3, <1>4, <1>6, <1>7, <1>8, <1>9, <1>10, <1>11 DEF Next, Library, MrqNotice

(* Every step keeps the posted messages in their control's slots.          *)
LEMMA WindowNext ==
  ASSUME WindowIInv, [Next]_vars
  PROVE  WindowInv'
<1> DEFINE Goal == ControlsHold' /\ NothingPosted'
<1>1. UNCHANGED <<scntr, rank2scntridx, retired, posted>> => Goal
  BY DEF WindowIInv, WindowInv, ControlsHold, NothingPosted
<1>2. ASSUME UNCHANGED vars PROVE Goal
  BY <1>1, <1>2 DEF vars, appVars, sndVars
<1>3. ASSUME NEW p \in Rank, NEW d \in Dests[p], NEW type \in Types,
             SendCall(p, d, type)
      PROVE  Goal
  <2>1. UNCHANGED <<scntr, rank2scntridx, retired, posted>>
    BY <1>3 DEF SendCall, sndVars
  <2> QED
    BY <1>1, <2>1
<1>4. ASSUME NEW p \in Rank,
             \/ ProgressCall(p) \/ SendRetry(p) \/ TcqEnd(p) \/ ScanPkt(p)
             \/ ScanNone(p) \/ ScanEnd(p) \/ MrqNone(p)
      PROVE  Goal
  <2>1. UNCHANGED <<scntr, rank2scntridx, retired, posted>>
    BY <1>4 DEF ProgressCall, SendRetry, TcqEnd, ScanPkt, ScanNone, ScanEnd, MrqNone,
                appVars, sndVars
  <2> QED
    BY <1>1, <2>1
<1>5. ASSUME NEW p \in Rank, SendAlloc(p) \/ SendPost(p) PROVE Goal
  BY <1>5, SendAllocWindow, SendPostWindow
<1>6. ASSUME NEW p \in Rank, NEW k \in SndCntr, TcqStep(p, k) \/ MrqLclPut(p, k)
      PROVE  Goal
  <2> DEFINE run(b, done) ==
        SendEngine(p, k, scntr[p][k], egrmgt[p][scntr[p][k].dst].index, b, done)
  <2>1. (\E b : run(b, TRUE)) \/ (\E b : run(b, FALSE))
    <3>1. CASE TcqStep(p, k)
      <4>1. \E b \in {None} \cup tcq[p] : run(b, TRUE)
        BY <3>1 DEF TcqStep
      <4> QED
        BY <4>1
    <3>2. CASE MrqLclPut(p, k)
      <4>1. \E b \in {None} \cup tcq[p] : run(b, FALSE)
        BY <3>2 DEF MrqLclPut
      <4> QED
        BY <4>1
    <3> QED
      BY <1>6, <3>1, <3>2
  <2>2. UNCHANGED <<rank2scntridx, posted>>
    BY <1>6 DEF TcqStep, MrqLclPut, appVars
  <2> QED
    BY <2>1, <2>2, CompletionWindow
<1>7. ASSUME NEW p \in Rank, MrqNotice(p) PROVE Goal
  <2>1. ASSUME NEW k \in SndCntr, NEW val, MrqLclArmw(p, k, val) PROVE Goal
    BY <2>1, MrqLclArmwWindow
  <2>2. ASSUME NEW k \in SndCntr, MrqRecvReset(p, k) PROVE Goal
    BY <2>2, MrqRecvResetWindow
  <2> HIDE DEF Goal
  <2> QED
    BY <1>6, <1>7, <2>1, <2>2 DEF MrqNotice
<1>8. ASSUME Net PROVE Goal
  <2>1. UNCHANGED <<scntr, rank2scntridx, retired, posted>>
    BY <1>8 DEF Net, NetPut, NetAdd, appVars, sndVars
  <2> QED
    BY <1>1, <2>1
<1> HIDE DEF Goal
<1>9. Goal
  BY <1>2, <1>3, <1>4, <1>5, <1>6, <1>7, <1>8 DEF Next, Library
<1> QED
  BY <1>9, CallsNext DEF Goal, WindowInv

(* At the start no control has been taken.                                 *)
LEMMA WindowInit == Init => WindowInv
<1> SUFFICES ASSUME Init PROVE WindowInv
  OBVIOUS
<1>1. /\ \A p \in Rank, k \in SndCntr : scntr[p][k] = FreeCntr
      /\ \A p, q \in Rank : posted[p][q] = <<>> /\ retired[p][q] = 0
      /\ \A p \in Rank : pend[p].dst = None
  BY DEF Init
<1>2. FreeCntr.state = "FREE"
  BY DEF FreeCntr
<1> QED
  BY <1>1, <1>2 DEF WindowInv, ControlsHold, NothingPosted, CallsAdmitted

-----------------------------------------------------------------------------
(* The window of a control, as the code computes with micur and mient.     *)

(* Its slots are those that hold a message.                                *)
LEMMA WindowSlots ==
  ASSUME NEW u \in Control, NEW r \in Nat, NEW msgs \in Seq(Seq(Nat \X Nat)),
         Holds(u, r, msgs), u.state # "FREE"
  PROVE  Window(u) = {Ahead(u.micur, i) : i \in {j \in Minf : j < Len(msgs) - r}}
<1> DEFINE m == COM_SCNTR_MINF_SZ
           n == Len(msgs) - r
           c == u.micur
           x == u.mient - c + m - 1
           S == {Ahead(c, i) : i \in {j \in Minf : j < n}}
<1>1. /\ c \in Minf /\ u.mient \in Minf /\ u.mient = Ahead(c, n)
      /\ n \in Int /\ n >= 0 /\ n <= m /\ (n = 0 <=> u.state = "NONE")
  BY HoldsFacts
<1>2. m \in Nat \ {0} /\ Minf = 0 .. m - 1
  BY ConstAssumption DEF Minf
<1>3. CASE u.state = "NONE"
  <2>1. Window(u) = {}
    BY <1>3 DEF Window
  <2>2. \A i \in Minf : ~ (i < n)
    BY <1>1, <1>2, <1>3
  <2> HIDE DEF n
  <2> QED
    BY <2>1, <2>2 DEF n
<1>4. CASE u.state # "NONE"
  <2>1. x % m = n - 1
    <3>1. u.mient = IF c + n < m THEN c + n ELSE c + n - m
      BY <1>1 DEF Ahead
    <3>2. n \in 1 .. m /\ c \in 0 .. m - 1 /\ u.mient \in 0 .. m - 1
      <4> HIDE DEF n, m, c
      <4> QED
        BY <1>1, <1>2, <1>4
    <3> HIDE DEF n, m, c
    <3>3. x \in 0 .. m + m - 1
      BY <1>2, <3>2
    <3>4. x % m = IF x < m THEN x ELSE x - m
      BY <1>2, <3>3, Wraps
    <3> QED
      BY <1>2, <3>1, <3>2, <3>4
  <2>2. Window(u) = {(c + i) % m : i \in 0 .. n - 1}
    BY <1>4, <2>1 DEF Window
  <2>3. \A i \in 0 .. n - 1 : i \in Minf /\ i < n /\ (c + i) % m = Ahead(c, i)
    <3> TAKE i \in 0 .. n - 1
    <3>1. n \in 1 .. m /\ c \in 0 .. m - 1 /\ i \in 0 .. m - 1 /\ i < n
      <4> HIDE DEF n, m, c
      <4> QED
        BY <1>1, <1>2, <1>4
    <3>2. (c + i) % m = IF c + i < m THEN c + i ELSE c + i - m
      <4> DEFINE y == c + i
      <4> HIDE DEF n, m, c
      <4>1. y \in 0 .. m + m - 1
        BY <1>2, <3>1
      <4> HIDE DEF y
      <4>2. y % m = IF y < m THEN y ELSE y - m
        BY <1>2, <4>1, Wraps
      <4> QED
        BY <1>2, <3>1, <4>2 DEF y
    <3> QED
      BY <1>2, <3>1, <3>2 DEF Ahead
  <2>4. \A i \in Minf : i < n => i \in 0 .. n - 1
    <3> HIDE DEF n, m
    <3> QED
      BY <1>1, <1>2
  <2> HIDE DEF n, m, c
  <2>5. {(c + i) % m : i \in 0 .. n - 1} = S
    <3>1. ASSUME NEW y \in {(c + i) % m : i \in 0 .. n - 1} PROVE y \in S
      <4>1. PICK i \in 0 .. n - 1 : y = (c + i) % m
        BY <3>1
      <4> QED
        BY <2>3, <4>1
    <3>2. ASSUME NEW y \in S PROVE y \in {(c + i) % m : i \in 0 .. n - 1}
      <4>1. PICK i \in {j \in Minf : j < n} : y = Ahead(c, i)
        BY <3>2
      <4>2. i \in 0 .. n - 1 /\ y = (c + i) % m
        BY <2>3, <2>4, <4>1
      <4> QED
        BY <4>2
    <3> QED
      BY <3>1, <3>2
  <2> QED
    BY <2>2, <2>5 DEF n, c
<1> QED
  BY <1>3, <1>4

(* WindowInv is about the same slots as MinfWindow.                        *)
LEMMA WindowsHold ==
  ASSUME WindowIInv
  PROVE  MinfWindow
<1> SUFFICES ASSUME NEW p \in Rank, NEW k \in SndCntr
             PROVE  LET u == scntr[p][k]
                    IN  /\ \A i \in Minf : u.mi[i].cntrtype # "NONE" <=> i \in Window(u)
                        /\ u.state # "FREE" =>
                             {u.mi[i].seq : i \in Window(u)} =
                                retired[p][u.dst] + 1 .. Len(posted[p][u.dst])
                        /\ Window(u) # {} => u.mi[u.micur].seq = retired[p][u.dst] + 1
  BY DEF MinfWindow
<1> DEFINE u == scntr[p][k]
           r == retired[p][u.dst]
           msgs == posted[p][u.dst]
           n == Len(msgs) - r
           S == {j \in Minf : j < n}
<1>1. CASE u.state = "FREE"
  <2>1. u = FreeCntr
    BY <1>1 DEF WindowIInv, WindowInv, ControlsHold
  <2>2. \A i \in Minf : u.mi[i].cntrtype = "NONE"
    BY <2>1 DEF FreeCntr, NoEntry
  <2>3. Window(u) = {}
    BY <1>1 DEF Window
  <2> QED
    BY <1>1, <2>2, <2>3
<1>2. CASE u.state # "FREE"
  <2>1. u \in Control /\ u.dst \in Rank /\ Holds(u, r, msgs)
    BY <1>2, HoldFacts
  <2>2. r \in Nat /\ msgs \in Seq(Seq(Nat \X Nat)) /\ Len(msgs) \in Nat
    BY <2>1, CountsType DEF WindowIInv
  <2> HIDE DEF u, r, msgs
  <2>3. /\ u.micur \in Minf
        /\ n \in Int /\ n >= 0 /\ n <= COM_SCNTR_MINF_SZ
        /\ \A i \in Minf : i < n =>
             EntryOf(u, i).cntrtype # "NONE" /\ EntryOf(u, i).seq = r + 1 + i
        /\ \A i \in Minf : ~ (i < n) => EntryOf(u, i).cntrtype = "NONE"
    BY <2>1, <2>2, HoldsFacts
  <2>4. Window(u) = {Ahead(u.micur, i) : i \in S}
    BY <1>2, <2>1, <2>2, WindowSlots
  <2>5. \A i \in Minf : u.mi[i].cntrtype # "NONE" <=> i \in Window(u)
    <3> TAKE i \in Minf
    <3>1. PICK j \in Minf : Ahead(u.micur, j) = i
      BY <2>3, AheadFacts
    <3>2. i \in Window(u) <=> j < n
      <4>1. ASSUME NEW x \in S, Ahead(u.micur, x) = i PROVE x = j
        BY <2>3, <3>1, <4>1, AheadOnce
      <4> HIDE DEF n
      <4> QED
        BY <2>4, <3>1, <4>1
    <3> HIDE DEF n
    <3> QED
      BY <2>3, <3>1, <3>2 DEF EntryOf
  <2>6. {u.mi[i].seq : i \in Window(u)} = r + 1 .. Len(msgs)
    <3>1. \A i \in S : u.mi[Ahead(u.micur, i)].seq = r + 1 + i
      BY <2>3 DEF EntryOf
    <3>2. \A i \in S : r + 1 + i \in r + 1 .. Len(msgs)
      BY <2>2 DEF Minf
    <3>3. \A y \in r + 1 .. Len(msgs) : y - (r + 1) \in S /\ y = r + 1 + (y - (r + 1))
      BY <2>2, <2>3, ConstAssumption DEF Minf
    <3> HIDE DEF S
    <3>4. ASSUME NEW y \in r + 1 .. Len(msgs) PROVE y \in {u.mi[i].seq : i \in Window(u)}
      <4>1. /\ y - (r + 1) \in S
            /\ u.mi[Ahead(u.micur, y - (r + 1))].seq = y
            /\ Ahead(u.micur, y - (r + 1)) \in Window(u)
        BY <2>4, <3>1, <3>3
      <4> QED
        BY <4>1
    <3>5. ASSUME NEW i \in Window(u) PROVE u.mi[i].seq \in r + 1 .. Len(msgs)
      BY <2>4, <3>1, <3>2
    <3> QED
      BY <3>4, <3>5
  <2>7. Window(u) # {} => u.mi[u.micur].seq = r + 1
    <3> SUFFICES ASSUME Window(u) # {} PROVE u.mi[u.micur].seq = r + 1
      OBVIOUS
    <3>1. 0 \in Minf /\ 0 < n
      BY <2>2, <2>3, <2>4, ConstAssumption DEF Minf
    <3>2. EntryOf(u, 0).seq = r + 1 + 0 /\ Ahead(u.micur, 0) = u.micur
      BY <2>3, <3>1, AheadFacts
    <3> QED
      BY <2>2, <3>2 DEF EntryOf
  <2> QED
    BY <2>5, <2>6, <2>7 DEF u, r, msgs
<1> QED
  BY <1>1, <1>2

(* For any number of ranks, controls, slots and destinations, whatever the *)
(* order of calls, completions and notices: the slots of a control from    *)
(* micur to mient hold the messages that were posted and have not retired, *)
(* the oldest at micur (utf_send, label next_entry).                       *)
THEOREM WindowsExact == Spec => []MinfWindow
<1>1. Init => WindowIInv
  BY TypeInit, RoomInit, WindowInit DEF WindowIInv
<1>2. WindowIInv /\ RoomInv /\ [Next]_vars => WindowIInv' /\ RoomInv'
  <2> SUFFICES ASSUME WindowIInv, RoomInv, [Next]_vars PROVE WindowIInv' /\ RoomInv'
    OBVIOUS
  <2>1. WindowInv'
    BY WindowNext
  <2>2. ControlInv' /\ RoomInv'
    BY RoomNext DEF WindowIInv
  <2>3. TypeInv'
    BY TypeNext DEF WindowIInv
  <2> QED
    BY <2>1, <2>2, <2>3 DEF WindowIInv
<1>3. Init => RoomInv
  BY RoomInit
<1>4. WindowIInv => MinfWindow
  BY WindowsHold
<1> QED
  BY <1>1, <1>2, <1>3, <1>4, PTL DEF Spec
=============================================================================
