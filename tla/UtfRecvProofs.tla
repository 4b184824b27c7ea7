---------------------------- MODULE UtfRecvProofs ----------------------------
(***************************************************************************)
(* Theorems about UtfRecv: the pool of requests is sound, a receive and a  *)
(* message that fit never wait for each other, a completed receive has its *)
(* whole message, a rendezvous is released only when it is there, and no   *)
(* message is lost.                                                        *)
(***************************************************************************)
EXTENDS UtfRecvInv, FiniteSetTheorems, SequenceTheorems, WellFoundedInduction, TLAPS

-----------------------------------------------------------------------------
(* Sequences.                                                              *)

LEMMA LeastNumber ==
  ASSUME NEW T, T \subseteq Nat, T # {}
  PROVE  \E x \in T : \A y \in T : x <= y
<1> DEFINE R == OpToRel(<, Nat)
<1>1. IsWellFoundedOn(R, Nat)
  BY NatLessThanWellFounded
<1>2. \A x, y \in Nat : <<y, x>> \in R <=> y < x
  BY DEF OpToRel
<1> HIDE DEF R
<1>3. PICK x \in T : \A y \in T : ~ (<<y, x>> \in R)
  BY <1>1, WFMin
<1>4. ASSUME NEW y \in T PROVE x <= y
  <2>1. x \in Nat /\ y \in Nat
    OBVIOUS
  <2>2. ~ (y < x)
    BY <1>2, <1>3, <2>1
  <2> QED BY <2>1, <2>2
<1> QED BY <1>4

(* an entry is taken out                                                   *)
LEMMA RemoveAtFacts ==
  ASSUME NEW S, NEW s \in Seq(S), NEW at \in 1 .. Len(s)
  PROVE  /\ RemoveAt(s, at) \in Seq(S)
         /\ Len(RemoveAt(s, at)) = Len(s) - 1
         /\ \A j \in 1 .. Len(s) - 1 :
              RemoveAt(s, at)[j] = s[IF j < at THEN j ELSE j + 1]
<1> DEFINE a == SubSeq(s, 1, at - 1)
           b == SubSeq(s, at + 1, Len(s))
<1>1. /\ a \in Seq(S) /\ Len(a) = at - 1
      /\ \A j \in 1 .. at - 1 : a[j] = s[j]
  BY SubSeqProperties
<1>2. /\ b \in Seq(S) /\ Len(b) = Len(s) - at
      /\ \A j \in 1 .. Len(s) - at : b[j] = s[at + j]
  BY SubSeqProperties
<1>3. RemoveAt(s, at) = a \o b
  BY DEF RemoveAt
<1> HIDE DEF a, b
<1>4. /\ a \o b \in Seq(S) /\ Len(a \o b) = Len(a) + Len(b)
      /\ \A j \in 1 .. Len(a) + Len(b) :
           (a \o b)[j] = IF j <= Len(a) THEN a[j] ELSE b[j - Len(a)]
  BY <1>1, <1>2, ConcatProperties
<1>5. ASSUME NEW j \in 1 .. Len(s) - 1
      PROVE  (a \o b)[j] = s[IF j < at THEN j ELSE j + 1]
  BY <1>1, <1>2, <1>4
<1> QED BY <1>1, <1>2, <1>3, <1>4, <1>5

(* of the requests in a list                                               *)
LEMMA ListRemove ==
  ASSUME NEW lst \in Seq(Lst), DistinctList(lst), NEW at \in 1 .. Len(lst)
  PROVE  LET m == RemoveAt(lst, at)
         IN  /\ m \in Seq(Lst) /\ DistinctList(m)
             /\ Held(m) = Held(lst) \ {lst[at].reqidx}
<1> DEFINE m == RemoveAt(lst, at)
<1>1. /\ m \in Seq(Lst) /\ Len(m) = Len(lst) - 1
      /\ \A j \in 1 .. Len(lst) - 1 : m[j] = lst[IF j < at THEN j ELSE j + 1]
  BY RemoveAtFacts
<1>2. DOMAIN m = 1 .. Len(lst) - 1 /\ DOMAIN lst = 1 .. Len(lst) /\ Len(lst) \in Nat
  BY <1>1
<1> HIDE DEF m
<1>3. DistinctList(m)
  <2> SUFFICES ASSUME NEW x \in DOMAIN m, NEW y \in DOMAIN m, m[x].reqidx = m[y].reqidx
               PROVE  x = y
    BY DEF DistinctList
  <2> DEFINE u == IF x < at THEN x ELSE x + 1
             v == IF y < at THEN y ELSE y + 1
  <2>1. u \in DOMAIN lst /\ v \in DOMAIN lst /\ (u = v => x = y)
    BY <1>2
  <2>2. m[x] = lst[u] /\ m[y] = lst[v]
    BY <1>1, <1>2
  <2> HIDE DEF u, v
  <2> QED BY <2>1, <2>2 DEF DistinctList
<1>4. ASSUME NEW j \in DOMAIN m
      PROVE  \E i \in DOMAIN lst : i # at /\ m[j] = lst[i]
  <2> DEFINE u == IF j < at THEN j ELSE j + 1
  <2>1. u \in DOMAIN lst /\ u # at /\ m[j] = lst[u]
    BY <1>1, <1>2
  <2> QED BY <2>1
<1>5. ASSUME NEW i \in DOMAIN lst, i # at
      PROVE  \E j \in DOMAIN m : m[j] = lst[i]
  <2> DEFINE j == IF i < at THEN i ELSE i - 1
  <2>1. j \in DOMAIN m
    BY <1>2, <1>5
  <2>2. (IF j < at THEN j ELSE j + 1) = i
    BY <1>2, <1>5
  <2>3. m[j] = lst[i]
    <3> HIDE DEF j
    <3> QED BY <1>1, <1>2, <2>1, <2>2
  <2> QED BY <2>1, <2>3
<1>6. Held(m) = Held(lst) \ {lst[at].reqidx}
  <2>1. ASSUME NEW x \in Held(m) PROVE x \in Held(lst) /\ x # lst[at].reqidx
    BY <1>2, <1>4 DEF DistinctList, Held
  <2>2. ASSUME NEW x \in Held(lst), x # lst[at].reqidx PROVE x \in Held(m)
    BY <1>5, <2>2 DEF Held
  <2> QED BY <2>1, <2>2
<1> QED BY <1>1, <1>3, <1>6 DEF m

LEMMA ListAppend ==
  ASSUME NEW lst \in Seq(Lst), DistinctList(lst), NEW e \in Lst,
         e.reqidx \notin Held(lst)
  PROVE  LET m == Append(lst, e)
         IN  /\ m \in Seq(Lst) /\ DistinctList(m)
             /\ Held(m) = Held(lst) \cup {e.reqidx}
<1> DEFINE m == Append(lst, e)
<1>1. /\ m \in Seq(Lst) /\ DOMAIN m = 1 .. Len(lst) + 1 /\ m[Len(lst) + 1] = e
      /\ \A j \in 1 .. Len(lst) : m[j] = lst[j]
      /\ DOMAIN lst = 1 .. Len(lst) /\ Len(lst) \in Nat
  BY AppendProperties
<1> HIDE DEF m
<1>2. DOMAIN m = DOMAIN lst \cup {Len(lst) + 1} /\ \A j \in DOMAIN lst : m[j] = lst[j]
  BY <1>1
<1>3. DistinctList(m)
  BY <1>1, <1>2 DEF DistinctList, Held
<1>4. Held(m) = Held(lst) \cup {e.reqidx}
  BY <1>1, <1>2 DEF Held
<1> QED BY <1>1, <1>3, <1>4 DEF m

(* of plain sequences                                                      *)
LEMMA SeqRemove ==
  ASSUME NEW S, NEW s \in Seq(S), IsInjective(s), NEW at \in 1 .. Len(s)
  PROVE  LET m == RemoveAt(s, at)
         IN  m \in Seq(S) /\ IsInjective(m) /\ ToSet(m) = ToSet(s) \ {s[at]}
<1> DEFINE m == RemoveAt(s, at)
<1>1. /\ m \in Seq(S) /\ Len(m) = Len(s) - 1
      /\ \A j \in 1 .. Len(s) - 1 : m[j] = s[IF j < at THEN j ELSE j + 1]
  BY RemoveAtFacts
<1>2. DOMAIN m = 1 .. Len(s) - 1 /\ DOMAIN s = 1 .. Len(s) /\ Len(s) \in Nat
  BY <1>1
<1> HIDE DEF m
<1>3. IsInjective(m)
  <2> SUFFICES ASSUME NEW x \in DOMAIN m, NEW y \in DOMAIN m, m[x] = m[y]
               PROVE  x = y
    BY DEF IsInjective
  <2> DEFINE u == IF x < at THEN x ELSE x + 1
             v == IF y < at THEN y ELSE y + 1
  <2>1. u \in DOMAIN s /\ v \in DOMAIN s /\ (u = v => x = y)
    BY <1>2
  <2>2. m[x] = s[u] /\ m[y] = s[v]
    BY <1>1, <1>2
  <2> HIDE DEF u, v
  <2> QED BY <2>1, <2>2 DEF IsInjective
<1>4. ASSUME NEW j \in DOMAIN m
      PROVE  \E i \in DOMAIN s : i # at /\ m[j] = s[i]
  <2> DEFINE u == IF j < at THEN j ELSE j + 1
  <2>1. u \in DOMAIN s /\ u # at /\ m[j] = s[u]
    BY <1>1, <1>2
  <2> QED BY <2>1
<1>5. ASSUME NEW i \in DOMAIN s, i # at
      PROVE  \E j \in DOMAIN m : m[j] = s[i]
  <2> DEFINE j == IF i < at THEN i ELSE i - 1
  <2>1. j \in DOMAIN m
    BY <1>2, <1>5
  <2>2. (IF j < at THEN j ELSE j + 1) = i
    BY <1>2, <1>5
  <2>3. m[j] = s[i]
    <3> HIDE DEF j
    <3> QED BY <1>1, <1>2, <2>1, <2>2
  <2> QED BY <2>1, <2>3
<1>6. ToSet(m) = ToSet(s) \ {s[at]}
  BY <1>2, <1>4, <1>5 DEF ToSet, IsInjective
<1> QED BY <1>1, <1>3, <1>6 DEF m

LEMMA SeqAppend ==
  ASSUME NEW S, NEW s \in Seq(S), IsInjective(s), NEW e \in S, e \notin ToSet(s)
  PROVE  LET m == Append(s, e)
         IN  m \in Seq(S) /\ IsInjective(m) /\ ToSet(m) = ToSet(s) \cup {e}
<1> DEFINE m == Append(s, e)
<1>1. /\ m \in Seq(S) /\ DOMAIN m = 1 .. Len(s) + 1 /\ m[Len(s) + 1] = e
      /\ \A j \in 1 .. Len(s) : m[j] = s[j]
      /\ DOMAIN s = 1 .. Len(s) /\ Len(s) \in Nat
  BY AppendProperties
<1> HIDE DEF m
<1>2. DOMAIN m = DOMAIN s \cup {Len(s) + 1} /\ \A j \in DOMAIN s : m[j] = s[j]
  BY <1>1
<1>3. IsInjective(m)
  <2> SUFFICES ASSUME NEW x \in DOMAIN m, NEW y \in DOMAIN m, m[x] = m[y]
               PROVE  x = y
    BY DEF IsInjective
  <2>1. \A j \in DOMAIN s : s[j] # e
    BY DEF ToSet
  <2>2. CASE x \in DOMAIN s /\ y \in DOMAIN s
    BY <1>2, <2>2 DEF IsInjective
  <2>3. CASE x \notin DOMAIN s \/ y \notin DOMAIN s
    BY <1>1, <1>2, <2>1, <2>3
  <2> QED BY <2>2, <2>3
<1>4. ToSet(m) = ToSet(s) \cup {e}
  BY <1>1, <1>2 DEF ToSet
<1> QED BY <1>1, <1>3, <1>4 DEF m

(* the free list: the first request is taken, one is put to the front      *)
LEMMA SeqTake ==
  ASSUME NEW S, NEW s \in Seq(S), IsInjective(s), s # <<>>
  PROVE  /\ Head(s) \in S /\ Head(s) \in ToSet(s)
         /\ Tail(s) \in Seq(S) /\ IsInjective(Tail(s)) /\ Len(Tail(s)) = Len(s) - 1
         /\ ToSet(Tail(s)) = ToSet(s) \ {Head(s)}
<1> DEFINE m == Tail(s)
<1>1. /\ Len(s) \in Nat \ {0} /\ Head(s) = s[1] /\ s[1] \in S
      /\ m \in Seq(S) /\ Len(m) = Len(s) - 1
      /\ \A j \in 1 .. Len(s) - 1 : m[j] = s[j + 1]
  BY HeadTailProperties, EmptySeq
<1>2. DOMAIN m = 1 .. Len(s) - 1 /\ DOMAIN s = 1 .. Len(s)
  BY <1>1
<1> HIDE DEF m
<1>3. IsInjective(m)
  <2> SUFFICES ASSUME NEW x \in DOMAIN m, NEW y \in DOMAIN m, m[x] = m[y]
               PROVE  x = y
    BY DEF IsInjective
  <2>1. /\ x \in Int /\ y \in Int /\ x + 1 \in DOMAIN s /\ y + 1 \in DOMAIN s
        /\ m[x] = s[x + 1] /\ m[y] = s[y + 1]
    BY <1>1, <1>2
  <2>2. x + 1 = y + 1
    BY <2>1 DEF IsInjective
  <2> QED BY ONLY <2>1, <2>2
<1>4. ASSUME NEW j \in DOMAIN m
      PROVE  \E i \in DOMAIN s : i # 1 /\ m[j] = s[i]
  <2>1. j + 1 \in DOMAIN s /\ j + 1 # 1 /\ m[j] = s[j + 1]
    BY <1>1, <1>2
  <2> QED BY <2>1
<1>5. ASSUME NEW i \in DOMAIN s, i # 1
      PROVE  \E j \in DOMAIN m : m[j] = s[i]
  <2>1. i - 1 \in DOMAIN m /\ (i - 1) + 1 = i
    BY <1>1, <1>2, <1>5
  <2> QED BY <1>1, <1>2, <2>1
<1>6. 1 \in DOMAIN s
  BY <1>1, <1>2
<1>7. ToSet(m) = ToSet(s) \ {s[1]} /\ s[1] \in ToSet(s)
  BY <1>4, <1>5, <1>6 DEF ToSet, IsInjective
<1> QED BY <1>1, <1>3, <1>7 DEF m

LEMMA SeqPut ==
  ASSUME NEW S, NEW s \in Seq(S), IsInjective(s), NEW e \in S, e \notin ToSet(s)
  PROVE  LET m == <<e>> \o s
         IN  /\ m \in Seq(S) /\ IsInjective(m) /\ Len(m) = Len(s) + 1
             /\ ToSet(m) = ToSet(s) \cup {e}
<1> DEFINE m == <<e>> \o s
<1>1. <<e>> \in Seq(S) /\ Len(<<e>>) = 1 /\ (<<e>>)[1] = e
  OBVIOUS
<1>2. /\ m \in Seq(S) /\ Len(m) = 1 + Len(s)
      /\ \A j \in 1 .. 1 + Len(s) : m[j] = IF j <= 1 THEN (<<e>>)[j] ELSE s[j - 1]
  BY <1>1, ConcatProperties
<1>3. DOMAIN m = 1 .. Len(s) + 1 /\ DOMAIN s = 1 .. Len(s) /\ Len(s) \in Nat
  BY <1>2
<1> HIDE DEF m
<1>4. m[1] = e /\ \A j \in DOMAIN s : m[j + 1] = s[j]
  BY <1>1, <1>2, <1>3
<1>5. \A j \in DOMAIN m : j # 1 => j - 1 \in DOMAIN s /\ m[j] = s[j - 1]
  BY <1>2, <1>3
<1>6. IsInjective(m)
  BY <1>3, <1>4, <1>5 DEF IsInjective, ToSet
<1>7. ToSet(m) = ToSet(s) \cup {e}
  <2>1. 1 \in DOMAIN m /\ \A j \in DOMAIN s : j + 1 \in DOMAIN m
    BY <1>3
  <2> QED BY <1>4, <1>5, <2>1 DEF ToSet
<1> QED BY <1>2, <1>6, <1>7 DEF m

-----------------------------------------------------------------------------
(* The application's calls.                                                *)

LEMMA OpenAppend ==
  ASSUME NEW C, NEW calls \in Seq(C), DistinctOpen(calls), NEW e \in C, e.open,
         e.req \notin Opened(calls)
  PROVE  LET m == Append(calls, e)
         IN  /\ m \in Seq(C) /\ DistinctOpen(m)
             /\ Opened(m) = Opened(calls) \cup {e.req}
<1> DEFINE m == Append(calls, e)
<1>1. /\ m \in Seq(C) /\ DOMAIN m = 1 .. Len(calls) + 1 /\ m[Len(calls) + 1] = e
      /\ \A j \in 1 .. Len(calls) : m[j] = calls[j]
      /\ DOMAIN calls = 1 .. Len(calls) /\ Len(calls) \in Nat
  BY AppendProperties
<1> HIDE DEF m
<1>2. /\ DOMAIN m = DOMAIN calls \cup {Len(calls) + 1}
      /\ \A j \in DOMAIN calls : m[j] = calls[j]
  BY <1>1
<1>3. DistinctOpen(m)
  BY <1>1, <1>2 DEF DistinctOpen, Opened
<1>4. Opened(m) = Opened(calls) \cup {e.req}
  BY <1>1, <1>2 DEF Opened
<1> QED BY <1>1, <1>3, <1>4 DEF m

(* m is calls with call r closed                                           *)
Closed(m, calls, r) ==
  /\ DOMAIN m = DOMAIN calls /\ r \in DOMAIN calls
  /\ \A c \in DOMAIN calls :
       m[c].req = calls[c].req /\ m[c].open = (calls[c].open /\ c # r)

LEMMA OpenClose ==
  ASSUME NEW calls, DistinctOpen(calls), NEW r, calls[r].open, NEW m, Closed(m, calls, r)
  PROVE  DistinctOpen(m) /\ Opened(m) = Opened(calls) \ {calls[r].req}
<1>1. DistinctOpen(m)
  BY DEF DistinctOpen, Closed
<1>2. ASSUME NEW x \in Opened(m) PROVE x \in Opened(calls) /\ x # calls[r].req
  <2>1. PICK c \in DOMAIN m : m[c].open /\ x = m[c].req
    BY DEF Opened
  <2> QED BY <2>1 DEF Closed, Opened, DistinctOpen
<1>3. ASSUME NEW x \in Opened(calls), x # calls[r].req PROVE x \in Opened(m)
  <2>1. PICK c \in DOMAIN calls : calls[c].open /\ x = calls[c].req
    BY DEF Opened
  <2> QED BY <1>3, <2>1 DEF Closed, Opened
<1> QED BY <1>1, <1>2, <1>3

(* the calls refer to the same requests                                    *)
LEMMA OpenKept ==
  ASSUME NEW calls, NEW m, DOMAIN m = DOMAIN calls,
         \A c \in DOMAIN calls : m[c].req = calls[c].req /\ m[c].open = calls[c].open
  PROVE  (DistinctOpen(calls) => DistinctOpen(m)) /\ Opened(m) = Opened(calls)
BY DEF DistinctOpen, Opened

-----------------------------------------------------------------------------
(* Steps on one request.                                                   *)

LEMMA InUseIs ==
  InUse = Expected \cup Unexpected \cup Filling \cup Getting \cup engine
            \cup OpenRecvs \cup OpenSends
BY DEF InUse, Expected, Unexpected, Held, Filling, Getting, OpenRecvs, OpenSends, Opened

(* request j is as before, and referred to as before                       *)
SameRole(j) ==
  /\ req'[j].state = req[j].state /\ req'[j].type = req[j].type
  /\ req'[j].rndz = req[j].rndz /\ req'[j].reclaim = req[j].reclaim
  /\ (j \in Free') = (j \in Free)
  /\ (j \in Expected') = (j \in Expected)
  /\ (j \in Unexpected') = (j \in Unexpected)
  /\ (j \in Filling') = (j \in Filling)
  /\ (j \in Getting') = (j \in Getting)
  /\ (j \in engine') = (j \in engine)
  /\ (j \in OpenRecvs') = (j \in OpenRecvs)
  /\ (j \in OpenSends') = (j \in OpenSends)

LEMMA RoleKept ==
  ASSUME NEW j \in MsgReq, Role(j), SameRole(j)
  PROVE  Role(j)'
<1>1. (j \in InUse') = (j \in InUse)
  <2>1. InUse' = (Expected \cup Unexpected \cup Filling \cup Getting \cup engine
                    \cup OpenRecvs \cup OpenSends)'
    BY DEF InUse, Expected, Unexpected, Held, Filling, Getting, OpenRecvs, OpenSends, Opened
  <2> QED BY <2>1, InUseIs DEF SameRole
<1> QED BY <1>1 DEF Role, SameRole

LEMMA RolesStep ==
  ASSUME Roles, NEW i \in MsgReq, \A j \in MsgReq : j # i => SameRole(j), Role(i)'
  PROVE  Roles'
BY RoleKept DEF Roles

LEMMA OffFinite ==
  ASSUME NEW T
  PROVE  IsFiniteSet(Off(T)) /\ Cardinality(Off(T)) \in Nat
<1>1. IsFiniteSet(MsgReq)
  BY RecvAssumption, FS_Interval DEF MsgReq, MSGREQ_SIZE
<1>2. Off(T) \subseteq MsgReq
  BY DEF Off
<1> QED BY <1>1, <1>2, FS_Subset, FS_CardinalityType

(* request i is taken from the free list                                   *)
LEMMA OffTaken ==
  ASSUME NEW i \in MsgReq, i \in Free, Free' = Free \ {i}, NEW T,
         \A j \in MsgReq : j # i => req'[j].type = req[j].type
  PROVE  IF req'[i].type \in T THEN Cardinality(Off(T)') = Cardinality(Off(T)) + 1
         ELSE Off(T)' = Off(T)
<1>1. i \notin Off(T)
  BY DEF Off
<1>2. Off(T)' = IF req'[i].type \in T THEN Off(T) \cup {i} ELSE Off(T)
  BY DEF Off
<1> QED BY <1>1, <1>2, OffFinite, FS_AddElement

(* request i is put back                                                   *)
LEMMA OffFreed ==
  ASSUME NEW i \in MsgReq, i \notin Free, Free' = Free \cup {i}, NEW T,
         \A j \in MsgReq : req'[j].type = req[j].type
  PROVE  IF req[i].type \in T
         THEN Cardinality(Off(T)') = Cardinality(Off(T)) - 1 /\ Cardinality(Off(T)) > 0
         ELSE Off(T)' = Off(T)
<1>1. req[i].type \in T => i \in Off(T)
  BY DEF Off
<1>2. Off(T)' = Off(T) \ {i}
  BY DEF Off
<1>3. CASE req[i].type \in T
  <2>1. Cardinality(Off(T) \ {i}) = Cardinality(Off(T)) - 1
    BY <1>1, <1>3, OffFinite, FS_RemoveElement
  <2>2. Cardinality(Off(T) \ {i}) \in Nat
    BY OffFinite, FS_RemoveElement, FS_CardinalityType
  <2> QED BY <1>2, <1>3, <2>1, <2>2, OffFinite
<1>4. CASE req[i].type \notin T
  BY <1>2, <1>4 DEF Off
<1> QED BY <1>3, <1>4

(* the types of the requests, as far as they are counted                   *)
LEMMA OffKept ==
  ASSUME NEW T, Free' = Free,
         \A j \in MsgReq : (req'[j].type \in T) = (req[j].type \in T)
  PROVE  Off(T)' = Off(T)
BY DEF Off

LEMMA TypesApart == SendTypes \cap RecvTypes = {} /\ "NONE" \notin SendTypes
BY RecvAssumption DEF RecvTypes

LEMMA SizeType == MSGREQ_SIZE \in Nat
BY RecvAssumption DEF MSGREQ_SIZE

LEMMA CountsKept ==
  ASSUME Counts, UNCHANGED <<freelst, rreq_count, sreq_count>>,
         \A j \in MsgReq : /\ (req'[j].type \in RecvTypes) = (req[j].type \in RecvTypes)
                           /\ (req'[j].type \in SendTypes) = (req[j].type \in SendTypes)
  PROVE  Counts'
<1>1. Free' = Free
  BY DEF Free
<1>2. Off(RecvTypes)' = Off(RecvTypes) /\ Off(SendTypes)' = Off(SendTypes)
  BY <1>1, OffKept
<1> QED BY <1>2 DEF Counts

(* utf_recvreq_alloc and utf_sendreq_alloc: request i is the first of the  *)
(* free list                                                               *)
Takes(i) ==
  /\ freelst # <<>> /\ i = Head(freelst) /\ freelst' = Tail(freelst)
  /\ \A j \in MsgReq : j # i => req'[j].type = req[j].type

LEMMA TakesFacts ==
  ASSUME TypeLists, Distinct, NEW i, Takes(i)
  PROVE  /\ i \in MsgReq /\ i \in Free /\ Free' = Free \ {i}
         /\ freelst' \in Seq(MsgReq) /\ IsInjective(freelst')
         /\ Len(freelst') = Len(freelst) - 1 /\ Len(freelst) \in Nat
BY SeqTake DEF TypeLists, Distinct, Takes, Free

LEMMA CountsTakeRecv ==
  ASSUME TypeLists, Distinct, Counts, NEW i, Takes(i), ~ RecvReqRefused,
         req'[i].type \in RecvTypes, rreq_count' = rreq_count + 1, UNCHANGED sreq_count
  PROVE  Counts'
<1>1. /\ i \in MsgReq /\ i \in Free /\ Free' = Free \ {i}
      /\ Len(freelst') = Len(freelst) - 1 /\ Len(freelst) \in Nat
      /\ \A j \in MsgReq : j # i => req'[j].type = req[j].type
  BY TakesFacts DEF Takes
<1>2. Cardinality(Off(RecvTypes)') = Cardinality(Off(RecvTypes)) + 1
  BY <1>1, OffTaken
<1>3. Off(SendTypes)' = Off(SendTypes)
  BY <1>1, OffTaken, TypesApart
<1>4. Cardinality(Off(RecvTypes)) \in Nat /\ Cardinality(Off(SendTypes)) \in Nat
  BY OffFinite
<1>5. rreq_count <= MSGREQ_RECV_SZ
  BY <1>4, RecvAssumption DEF RecvReqRefused, Counts
<1>6. rreq_count' = Cardinality(Off(RecvTypes)') /\ rreq_count' <= MSGREQ_RECV_SZ + 1
  BY <1>2, <1>4, <1>5, RecvAssumption DEF Counts
<1>7. sreq_count' = Cardinality(Off(SendTypes)') /\ sreq_count' <= MSGREQ_SEND_SZ + 1
  BY <1>3 DEF Counts
<1>8. rreq_count' + sreq_count' = MSGREQ_SIZE - Len(freelst')
  <2>1. /\ rreq_count + sreq_count = MSGREQ_SIZE - Len(freelst)
        /\ rreq_count \in Nat /\ sreq_count \in Nat
    BY <1>4 DEF Counts
  <2>2. MSGREQ_SIZE \in Nat
    BY SizeType
  <2>3. rreq_count' = rreq_count + 1 /\ sreq_count' = sreq_count
    OBVIOUS
  <2>4. Len(freelst) \in Nat /\ Len(freelst') = Len(freelst) - 1
    BY <1>1
  <2> QED BY ONLY <2>1, <2>2, <2>3, <2>4
<1> QED BY <1>6, <1>7, <1>8 DEF Counts

LEMMA CountsTakeSend ==
  ASSUME TypeLists, Distinct, Counts, NEW i, Takes(i), ~ SendReqRefused,
         req'[i].type \in SendTypes, sreq_count' = sreq_count + 1, UNCHANGED rreq_count
  PROVE  Counts'
<1>1. /\ i \in MsgReq /\ i \in Free /\ Free' = Free \ {i}
      /\ Len(freelst') = Len(freelst) - 1 /\ Len(freelst) \in Nat
      /\ \A j \in MsgReq : j # i => req'[j].type = req[j].type
  BY TakesFacts DEF Takes
<1>2. Cardinality(Off(SendTypes)') = Cardinality(Off(SendTypes)) + 1
  BY <1>1, OffTaken
<1>3. Off(RecvTypes)' = Off(RecvTypes)
  BY <1>1, OffTaken, TypesApart
<1>4. Cardinality(Off(RecvTypes)) \in Nat /\ Cardinality(Off(SendTypes)) \in Nat
  BY OffFinite
<1>5. sreq_count <= MSGREQ_SEND_SZ
  BY <1>4, RecvAssumption DEF SendReqRefused, Counts
<1>6. sreq_count' = Cardinality(Off(SendTypes)') /\ sreq_count' <= MSGREQ_SEND_SZ + 1
  BY <1>2, <1>4, <1>5, RecvAssumption DEF Counts
<1>7. rreq_count' = Cardinality(Off(RecvTypes)') /\ rreq_count' <= MSGREQ_RECV_SZ + 1
  BY <1>3 DEF Counts
<1>8. rreq_count' + sreq_count' = MSGREQ_SIZE - Len(freelst')
  <2>1. /\ rreq_count + sreq_count = MSGREQ_SIZE - Len(freelst)
        /\ rreq_count \in Nat /\ sreq_count \in Nat
    BY <1>4 DEF Counts
  <2>2. MSGREQ_SIZE \in Nat
    BY SizeType
  <2>3. sreq_count' = sreq_count + 1 /\ rreq_count' = rreq_count
    OBVIOUS
  <2>4. Len(freelst) \in Nat /\ Len(freelst') = Len(freelst) - 1
    BY <1>1
  <2> QED BY ONLY <2>1, <2>2, <2>3, <2>4
<1> QED BY <1>6, <1>7, <1>8 DEF Counts

(* utf_recvreq_free and utf_sendreq_free                                   *)
Frees(i) ==
  /\ freelst' = <<i>> \o freelst /\ i \notin Free
  /\ \A j \in MsgReq : req'[j].type = req[j].type

LEMMA FreesFacts ==
  ASSUME TypeLists, Distinct, NEW i \in MsgReq, Frees(i)
  PROVE  /\ Free' = Free \cup {i}
         /\ freelst' \in Seq(MsgReq) /\ IsInjective(freelst')
         /\ Len(freelst') = Len(freelst) + 1 /\ Len(freelst) \in Nat
BY SeqPut DEF TypeLists, Distinct, Frees, Free

LEMMA CountsFree ==
  ASSUME TypeLists, Distinct, Counts, NEW i \in MsgReq, Frees(i),
         \/ /\ req[i].type \in RecvTypes
            /\ rreq_count' = rreq_count - 1 /\ UNCHANGED sreq_count
         \/ /\ req[i].type \in SendTypes
            /\ sreq_count' = sreq_count - 1 /\ UNCHANGED rreq_count
  PROVE  Counts'
<1>1. /\ i \notin Free /\ Free' = Free \cup {i}
      /\ Len(freelst') = Len(freelst) + 1 /\ Len(freelst) \in Nat
      /\ \A j \in MsgReq : req'[j].type = req[j].type
  BY FreesFacts DEF Frees
<1>2. Cardinality(Off(RecvTypes)) \in Nat /\ Cardinality(Off(SendTypes)) \in Nat
  BY OffFinite
<1>3. /\ rreq_count' = Cardinality(Off(RecvTypes)') /\ rreq_count' <= rreq_count
      /\ sreq_count' = Cardinality(Off(SendTypes)') /\ sreq_count' <= sreq_count
  <2>1. CASE req[i].type \in RecvTypes
    <3>1. Cardinality(Off(RecvTypes)') = Cardinality(Off(RecvTypes)) - 1
      BY <1>1, <2>1, OffFreed
    <3>2. Off(SendTypes)' = Off(SendTypes)
      BY <1>1, <2>1, OffFreed, TypesApart
    <3>3. rreq_count' = rreq_count - 1 /\ UNCHANGED sreq_count
      BY <2>1, TypesApart
    <3> QED BY <1>2, <3>1, <3>2, <3>3 DEF Counts
  <2>2. CASE req[i].type \in SendTypes
    <3>1. Cardinality(Off(SendTypes)') = Cardinality(Off(SendTypes)) - 1
      BY <1>1, <2>2, OffFreed
    <3>2. Off(RecvTypes)' = Off(RecvTypes)
      BY <1>1, <2>2, OffFreed, TypesApart
    <3>3. sreq_count' = sreq_count - 1 /\ UNCHANGED rreq_count
      BY <2>2, TypesApart
    <3> QED BY <1>2, <3>1, <3>2, <3>3 DEF Counts
  <2> QED BY <2>1, <2>2
<1>4. rreq_count \in Nat /\ sreq_count \in Nat /\ rreq_count' \in Int /\ sreq_count' \in Int
  BY <1>2 DEF Counts
<1>5. rreq_count' <= MSGREQ_RECV_SZ + 1 /\ sreq_count' <= MSGREQ_SEND_SZ + 1
  BY <1>3, <1>4, RecvAssumption DEF Counts
<1>6. rreq_count' + sreq_count' = MSGREQ_SIZE - Len(freelst')
  <2>1. rreq_count' + sreq_count' = rreq_count + sreq_count - 1
    <3>1. \/ rreq_count' = rreq_count - 1 /\ sreq_count' = sreq_count
          \/ sreq_count' = sreq_count - 1 /\ rreq_count' = rreq_count
      OBVIOUS
    <3>2. CASE rreq_count' = rreq_count - 1 /\ sreq_count' = sreq_count
      BY <1>4, <3>2
    <3>3. CASE sreq_count' = sreq_count - 1 /\ rreq_count' = rreq_count
      BY <1>4, <3>3
    <3> QED BY <3>1, <3>2, <3>3
  <2>2. rreq_count + sreq_count = MSGREQ_SIZE - Len(freelst) /\ MSGREQ_SIZE \in Nat
    BY SizeType DEF Counts
  <2>3. Len(freelst') = Len(freelst) + 1 /\ Len(freelst) \in Nat
    BY <1>1
  <2>4. rreq_count' \in Int /\ sreq_count' \in Int /\ rreq_count \in Nat /\ sreq_count \in Nat
    BY <1>4
  <2> QED BY <2>1, <2>2, <2>3, <2>4
<1> QED BY <1>3, <1>5, <1>6 DEF Counts

-----------------------------------------------------------------------------
(* The rings' requests.                                                    *)

LEMMA RingFills ==
  ASSUME urp \in [Srcs -> [state : {"R_NONE", "R_BODY"}, req : MsgReq \cup {NoReq}]],
         RingsHold, DistinctRings, NEW s \in Srcs, NEW i \in MsgReq,
         urp[s].req \in {NoReq, i}, urp[s].req = NoReq => i \notin Filling,
         urp' = [urp EXCEPT ![s] = [state |-> "R_BODY", req |-> i]]
  PROVE  /\ urp' \in [Srcs -> [state : {"R_NONE", "R_BODY"}, req : MsgReq \cup {NoReq}]]
         /\ RingsHold' /\ DistinctRings' /\ Filling' = Filling \cup {i}
<1>1. NoReq \notin MsgReq
  BY RecvAssumption DEF NoReq, MsgReq
<1>2. /\ urp'[s] = [state |-> "R_BODY", req |-> i]
      /\ \A t \in Srcs : t # s => urp'[t] = urp[t]
      /\ urp' \in [Srcs -> [state : {"R_NONE", "R_BODY"}, req : MsgReq \cup {NoReq}]]
  OBVIOUS
<1>3. RingsHold'
  BY <1>1, <1>2 DEF RingsHold
<1>4. \A t \in Srcs : t # s => urp[t].req # i
  BY <1>1 DEF Filling, DistinctRings
<1>5. DistinctRings'
  BY <1>1, <1>2, <1>4 DEF DistinctRings
<1>6. Filling' = Filling \cup {i}
  BY <1>1, <1>2 DEF Filling
<1> QED BY <1>2, <1>3, <1>5, <1>6

LEMMA RingClears ==
  ASSUME urp \in [Srcs -> [state : {"R_NONE", "R_BODY"}, req : MsgReq \cup {NoReq}]],
         RingsHold, DistinctRings, NEW s \in Srcs,
         urp' = [urp EXCEPT ![s] = [state |-> "R_NONE", req |-> NoReq]]
  PROVE  /\ urp' \in [Srcs -> [state : {"R_NONE", "R_BODY"}, req : MsgReq \cup {NoReq}]]
         /\ RingsHold' /\ DistinctRings' /\ Filling' = Filling \ {urp[s].req}
<1>2. /\ urp'[s] = [state |-> "R_NONE", req |-> NoReq]
      /\ \A t \in Srcs : t # s => urp'[t] = urp[t]
      /\ urp' \in [Srcs -> [state : {"R_NONE", "R_BODY"}, req : MsgReq \cup {NoReq}]]
  OBVIOUS
<1>3. RingsHold'
  BY <1>2 DEF RingsHold
<1>5. DistinctRings'
  BY <1>2 DEF DistinctRings
<1>6. Filling' = Filling \ {urp[s].req}
  BY <1>2 DEF Filling, DistinctRings
<1> QED BY <1>2, <1>3, <1>5, <1>6

-----------------------------------------------------------------------------
(* What the operators make of a request.                                   *)

LEMMA FilledFacts ==
  ASSUME NEW q \in ReqRecord, NEW pkt \in Pkt
  PROVE  LET f == Filled(q, pkt)
         IN  /\ f \in ReqRecord /\ f.type = q.type /\ f.rndz = q.rndz
             /\ f.rndzpos = q.rndzpos /\ f.reclaim = q.reclaim
             /\ f.state \in {q.state, "DONE"}
<1> DEFINE f == Filled(q, pkt)
           more == Append(q.buf, Payload(pkt))
<1>1. q.buf \in Payloads /\ q.rsize \in Nat
  BY DEF ReqRecord
<1>2. Payload(pkt) \in Srcs \X Nat \X Nat
  BY DEF Payload, Pkt
<1>3. more \in Payloads
  BY <1>1, <1>2, AppendProperties DEF Payloads
<1> DEFINE n == q.rsize + 1
           b == IF q.usr = 0 THEN more ELSE q.buf
           st == IF q.rsize + 1 = q.size THEN "DONE" ELSE q.state
<1>4. f = [q EXCEPT !.rsize = n, !.buf = b, !.state = st]
  BY DEF Filled
<1>7. n \in Nat /\ b \in Payloads /\ st \in {q.state, "DONE"}
      /\ st \in {"NONE", "PRG_NORMAL", "DONE", "WAIT_RNDZ", "DO_RNDZ"}
  BY <1>1, <1>3 DEF ReqRecord
<1> HIDE DEF f, more, n, b, st
<1>5. /\ f.type = q.type /\ f.rndz = q.rndz /\ f.rndzpos = q.rndzpos
      /\ f.reclaim = q.reclaim /\ f.state \in {q.state, "DONE"}
  BY <1>4, <1>7 DEF ReqRecord
<1>6. f \in ReqRecord
  BY <1>4, <1>7 DEF ReqRecord
<1> QED BY <1>5, <1>6 DEF f

LEMMA HeaderFacts ==
  ASSUME NEW q \in ReqRecord, NEW pkt \in Pkt
  PROVE  LET h == Header(q, pkt)
         IN  /\ h \in ReqRecord /\ h.type = q.type /\ h.state = q.state
             /\ h.reclaim = q.reclaim /\ h.rndz = pkt.rndz /\ h.rndzpos = pkt.rndzpos
             /\ h.src = pkt.src /\ h.tag = pkt.tag /\ h.usr = q.usr
<1>1. pkt.rndzpos \in Nat /\ pkt.src \in Srcs /\ pkt.tag \in Tags
  BY DEF Pkt, RndzPos
<1> QED BY <1>1 DEF Header, ReqRecord, Pkt

LEMMA WantedFacts ==
  ASSUME NEW q \in ReqRecord
  PROVE  LET w == Wanted(q)
         IN  /\ w \in ReqRecord /\ w.type = q.type /\ w.state = "DO_RNDZ"
             /\ w.reclaim = q.reclaim /\ w.rndz = q.rndz /\ w.rndzpos = q.rndzpos
BY ZenonT(40) DEF Wanted, ReqRecord

(* request i becomes f                                                     *)
Becomes(i, f) ==
  /\ req' \in [MsgReq -> ReqRecord] /\ req'[i] = f
  /\ \A j \in MsgReq : j # i => req'[j] = req[j]

LEMMA ReqStep ==
  ASSUME TypeLists, NEW i \in MsgReq, NEW f \in ReqRecord, req' = [req EXCEPT ![i] = f]
  PROVE  Becomes(i, f)
BY DEF TypeLists, Becomes

LEMMA PosKept ==
  ASSUME TypeRndz, NEW i \in MsgReq, NEW f, Becomes(i, f), f.rndzpos \in RndzPos
  PROVE  \A j \in MsgReq : req'[j].rndzpos \in RndzPos
BY DEF TypeRndz, Becomes

LEMMA EagerCopyFacts ==
  ASSUME TypeLists, RingsHold, DistinctRings, NEW s \in Srcs, NEW i \in MsgReq,
         NEW q \in ReqRecord, q.state \in {"NONE", "PRG_NORMAL"}, NEW pkt \in Pkt,
         urp[s].req \in {NoReq, i}, urp[s].req = NoReq => i \notin Filling,
         EagerCopy(s, i, q, pkt)
  PROVE  /\ Becomes(i, Filled(q, pkt))
         /\ urp' \in [Srcs -> [state : {"R_NONE", "R_BODY"}, req : MsgReq \cup {NoReq}]]
         /\ RingsHold' /\ DistinctRings'
         /\ IF Filled(q, pkt).state = "DONE" THEN Filling' = Filling \ {i}
            ELSE Filling' = Filling \cup {i}
<1> DEFINE f == Filled(q, pkt)
<1>1. f \in ReqRecord
  BY FilledFacts
<1>2. /\ req' = [req EXCEPT ![i] = f]
      /\ urp' = [urp EXCEPT ![s] =
                   IF f.state = "DONE" THEN [state |-> "R_NONE", req |-> NoReq]
                   ELSE [state |-> "R_BODY", req |-> i]]
  BY DEF EagerCopy
<1> HIDE DEF f
<1>3. Becomes(i, f)
  BY <1>1, <1>2, ReqStep
<1>4. urp \in [Srcs -> [state : {"R_NONE", "R_BODY"}, req : MsgReq \cup {NoReq}]]
  BY DEF TypeLists
<1>5. CASE f.state = "DONE"
  <2>1. urp' = [urp EXCEPT ![s] = [state |-> "R_NONE", req |-> NoReq]]
    BY <1>2, <1>5
  <2>2. /\ urp' \in [Srcs -> [state : {"R_NONE", "R_BODY"}, req : MsgReq \cup {NoReq}]]
        /\ RingsHold' /\ DistinctRings' /\ Filling' = Filling \ {urp[s].req}
    BY <1>4, <2>1, RingClears
  <2>3. NoReq \notin Filling
    BY DEF Filling
  <2>4. Filling' = Filling \ {i}
    BY <2>2, <2>3
  <2> QED BY <1>3, <1>5, <2>2, <2>4 DEF f
<1>6. CASE f.state # "DONE"
  <2>1. urp' = [urp EXCEPT ![s] = [state |-> "R_BODY", req |-> i]]
    BY <1>2, <1>6
  <2>2. /\ urp' \in [Srcs -> [state : {"R_NONE", "R_BODY"}, req : MsgReq \cup {NoReq}]]
        /\ RingsHold' /\ DistinctRings' /\ Filling' = Filling \cup {i}
    BY <1>4, <2>1, RingFills
  <2> QED BY <1>3, <1>6, <2>2 DEF f
<1> QED BY <1>5, <1>6

-----------------------------------------------------------------------------
(* Steps that leave the pool alone.                                        *)

LEMMA PoolKept ==
  ASSUME PoolInv, UNCHANGED <<poolVars, lstVars, urp, proglst, recvs, sends, engine>>,
         fault' \in BOOLEAN, ring' \in [Srcs -> Seq(Pkt)], lclget' \in [Srcs -> Nat],
         rndzfree' \in [Srcs -> Seq(RndzPos)], rgetdone' \in [Srcs -> SUBSET RndzPos],
         sent' \in [Srcs -> Seq([tag : Tags, kind : Kinds])]
  PROVE  PoolInv'
<1>1. UNCHANGED <<req, freelst, rreq_count, sreq_count, explst, uexplst>>
  BY DEF poolVars, lstVars
<1>2. TypeLists' /\ TypeRndz' /\ RingsHold'
  BY <1>1 DEF PoolInv, TypeLists, TypeRndz, RingsHold
<1>3. Distinct'
  BY <1>1 DEF PoolInv, Distinct, DistinctRings
<1>4. /\ Free' = Free /\ Expected' = Expected /\ Unexpected' = Unexpected
      /\ Filling' = Filling /\ Getting' = Getting /\ OpenRecvs' = OpenRecvs
      /\ OpenSends' = OpenSends
  BY <1>1 DEF Free, Expected, Unexpected, Filling, Getting, OpenRecvs, OpenSends
<1>5. \A j \in MsgReq : SameRole(j)
  BY <1>1, <1>4 DEF SameRole
<1>6. Roles'
  BY <1>5, RoleKept DEF PoolInv, Roles
<1>7. Counts'
  BY <1>1, CountsKept DEF PoolInv
<1> QED BY <1>2, <1>3, <1>6, <1>7 DEF PoolInv

LEMMA FaultPool ==
  ASSUME PoolInv, Fault
  PROVE  PoolInv'
BY PoolKept DEF Fault, PoolInv, TypeRndz, rgetVars, srcVars, userVars

LEMMA PacketsType ==
  ASSUME NEW s \in Srcs, NEW n \in Nat, NEW tag \in Tags, NEW kind \in Kinds, NEW pos \in RndzPos
  PROVE  Packets(s, n, tag, kind, pos) \in Seq(Pkt)
<1> DEFINE m == IF kind.rndz THEN 1 ELSE kind.size
<1>1. kind.rndz \in BOOLEAN /\ kind.size \in Nat
  BY RecvAssumption
<1>2. m \in Nat
  BY <1>1
<1>3. \A c \in 1 .. m : [src |-> s, tag |-> tag, msg |-> n, part |-> c, size |-> kind.size,
                          rndz |-> kind.rndz, rndzpos |-> pos] \in Pkt
  BY <1>1 DEF Pkt
<1>4. Packets(s, n, tag, kind, pos) \in [1 .. m -> Pkt]
  BY <1>3 DEF Packets
<1> HIDE DEF m
<1> QED BY <1>2, <1>4

LEMMA PostPool ==
  ASSUME PoolInv, NEW s \in Srcs, NEW tag \in Tags, NEW kind \in Kinds, Post(s, tag, kind)
  PROVE  PoolInv'
<1> DEFINE n   == Len(sent[s]) + 1
           none == kind.rndz /\ rndzfree[s] = <<>>
           pos == IF kind.rndz /\ ~ none THEN utf_rndzprog_alloc(s) ELSE 0
<1>1. CASE none
  <2>1. Fault
    BY <1>1 DEF Post
  <2> QED BY <2>1, FaultPool
<1>2. CASE ~ none
  <2>1. /\ UNCHANGED <<poolVars, lstVars, urp, rgetVars, rgetdone, userVars, fault>>
        /\ ring' = [ring EXCEPT ![s] = @ \o Packets(s, n, tag, kind, pos)]
        /\ sent' = [sent EXCEPT ![s] = Append(@, [tag |-> tag, kind |-> kind])]
        /\ IF kind.rndz THEN rndzfree' = [rndzfree EXCEPT ![s] = Tail(@)]
           ELSE UNCHANGED rndzfree
    BY <1>2 DEF Post, utfslist_remove
  <2>2. /\ ring \in [Srcs -> Seq(Pkt)] /\ rndzfree \in [Srcs -> Seq(RndzPos)]
        /\ sent \in [Srcs -> Seq([tag : Tags, kind : Kinds])]
        /\ lclget \in [Srcs -> Nat] /\ rgetdone \in [Srcs -> SUBSET RndzPos]
    BY DEF PoolInv, TypeRndz
  <2>3. kind.rndz => Tail(rndzfree[s]) \in Seq(RndzPos) /\ Head(rndzfree[s]) \in RndzPos
    BY <1>2, <2>2, HeadTailProperties
  <2>4. pos \in RndzPos /\ n \in Nat
    BY <1>2, <2>2, <2>3, RecvAssumption DEF utf_rndzprog_alloc, RndzPos
  <2>5. ring[s] \o Packets(s, n, tag, kind, pos) \in Seq(Pkt)
    <3> HIDE DEF n, pos
    <3> QED BY <2>2, <2>4, PacketsType, ConcatProperties
  <2>6. ring' \in [Srcs -> Seq(Pkt)] /\ rndzfree' \in [Srcs -> Seq(RndzPos)]
    BY <2>1, <2>2, <2>3, <2>5
  <2>7. sent' \in [Srcs -> Seq([tag : Tags, kind : Kinds])]
    BY <2>1, <2>2, AppendProperties
  <2>8. UNCHANGED <<proglst, lclget, recvs, sends, engine>> /\ fault' \in BOOLEAN
    BY <2>1 DEF rgetVars, userVars, PoolInv, TypeLists
  <2> HIDE DEF n, pos
  <2> QED BY <2>1, <2>2, <2>6, <2>7, <2>8, PoolKept
<1> QED BY <1>1, <1>2

LEMMA RndzDonePool ==
  ASSUME PoolInv, NEW s \in Srcs, NEW pos \in rgetdone[s], RndzDone(s, pos)
  PROVE  PoolInv'
<1>1. /\ UNCHANGED <<poolVars, lstVars, urp, ring, rgetVars, sent, userVars>>
      /\ rgetdone' = [rgetdone EXCEPT ![s] = @ \ {pos}]
      /\ fault' \in BOOLEAN
      /\ \/ rndzfree' = [rndzfree EXCEPT ![s] = <<pos>> \o @]
         \/ UNCHANGED rndzfree
  BY DEF RndzDone, utfslist_insert, PoolInv, TypeLists
<1>2. /\ ring \in [Srcs -> Seq(Pkt)] /\ rndzfree \in [Srcs -> Seq(RndzPos)]
      /\ sent \in [Srcs -> Seq([tag : Tags, kind : Kinds])]
      /\ lclget \in [Srcs -> Nat] /\ rgetdone \in [Srcs -> SUBSET RndzPos]
  BY DEF PoolInv, TypeRndz
<1>3. <<pos>> \o rndzfree[s] \in Seq(RndzPos)
  <2>1. <<pos>> \in Seq(RndzPos)
    BY <1>2
  <2> QED BY <1>2, <2>1, ConcatProperties
<1>4. rndzfree' \in [Srcs -> Seq(RndzPos)] /\ rgetdone' \in [Srcs -> SUBSET RndzPos]
  BY <1>1, <1>2, <1>3
<1>5. UNCHANGED <<proglst, lclget, recvs, sends, engine>>
  BY <1>1 DEF rgetVars, userVars
<1> QED BY <1>1, <1>2, <1>4, <1>5, PoolKept

LEMMA NetGetPool ==
  ASSUME PoolInv, NEW s \in Srcs, NetGet(s)
  PROVE  PoolInv'
<1>1. /\ UNCHANGED <<poolVars, lstVars, urp, ring, proglst, srcVars, recvs, sends, engine, fault>>
      /\ lclget' = [lclget EXCEPT ![s] = @ + 1]
  BY DEF NetGet
<1>2. /\ UNCHANGED <<rndzfree, rgetdone, sent>> /\ fault' \in BOOLEAN
      /\ lclget' \in [Srcs -> Nat]
  BY <1>1 DEF srcVars, PoolInv, TypeLists, TypeRndz
<1> QED BY <1>1, <1>2, PoolKept DEF PoolInv, TypeRndz

-----------------------------------------------------------------------------
(* utf_wait.                                                               *)

LEMMA CloseCall ==
  ASSUME NEW C, NEW calls \in Seq(C), NEW r \in DOMAIN calls, NEW c \in C, c.open = FALSE,
         c.req = calls[r].req, \A x \in C : x.open \in BOOLEAN,
         NEW m, m = [calls EXCEPT ![r] = c]
  PROVE  m \in Seq(C) /\ Closed(m, calls, r)
<1>1. r \in 1 .. Len(calls)
  OBVIOUS
<1>2. m \in Seq(C)
  BY <1>1, ExceptSeq
<1>3. \A x \in DOMAIN calls : calls[x].open \in BOOLEAN
  BY ElementOfSeq
<1> QED BY <1>2, <1>3 DEF Closed

LEMMA CloseRecv ==
  ASSUME recvs \in Seq(CallRecord), NEW r \in DOMAIN recvs,
         recvs' = [recvs EXCEPT ![r].open = FALSE]
  PROVE  recvs' \in Seq(CallRecord) /\ Closed(recvs', recvs, r)
<1> DEFINE c == [recvs[r] EXCEPT !.open = FALSE]
<1>1. recvs[r] \in CallRecord
  BY ElementOfSeq
<1>2. c \in CallRecord /\ c.req = recvs[r].req /\ c.open = FALSE
  BY <1>1 DEF CallRecord
<1>3. recvs' = [recvs EXCEPT ![r] = c]
  OBVIOUS
<1>4. \A x \in CallRecord : x.open \in BOOLEAN
  BY DEF CallRecord
<1> HIDE DEF c
<1> QED BY <1>2, <1>3, <1>4, CloseCall

SendCall == [req : MsgReq, open : BOOLEAN]

LEMMA CloseSend ==
  ASSUME sends \in Seq(SendCall), NEW r \in DOMAIN sends,
         sends' = [sends EXCEPT ![r].open = FALSE]
  PROVE  sends' \in Seq(SendCall) /\ Closed(sends', sends, r)
<1> DEFINE c == [sends[r] EXCEPT !.open = FALSE]
<1>1. sends[r] \in SendCall
  BY ElementOfSeq
<1>2. c \in SendCall /\ c.req = sends[r].req /\ c.open = FALSE
  BY <1>1 DEF SendCall
<1>3. sends' = [sends EXCEPT ![r] = c]
  OBVIOUS
<1>4. \A x \in SendCall : x.open \in BOOLEAN
  BY DEF SendCall
<1> HIDE DEF c
<1> QED BY <1>2, <1>3, <1>4, CloseCall

(* A request that nobody refers to any more may be free.                   *)
LEMMA FreedRole ==
  ASSUME NEW i \in MsgReq, i \in Free',
         i \notin Expected' \cup Unexpected' \cup Filling' \cup Getting' \cup engine'
                    \cup OpenRecvs' \cup OpenSends'
  PROVE  Role(i)'
<1>1. InUse' = (Expected \cup Unexpected \cup Filling \cup Getting \cup engine
                  \cup OpenRecvs \cup OpenSends)'
  BY DEF InUse, Expected, Unexpected, Held, Filling, Getting, OpenRecvs, OpenSends, Opened
<1> QED BY <1>1 DEF Role

(* A request somebody refers to is not free.                               *)
LEMMA UsedRole ==
  ASSUME Roles, NEW i \in MsgReq,
         i \in Expected \cup Unexpected \cup Filling \cup Getting \cup engine
                    \cup OpenRecvs \cup OpenSends
  PROVE  i \notin Free /\ Role(i)
BY InUseIs DEF Roles, Role

LEMMA WaitRecvPool ==
  ASSUME PoolInv, NEW r \in DOMAIN recvs, WaitRecv(r)
  PROVE  PoolInv'
<1>a. PICK i : i = recvs[r].req
  OBVIOUS
<1>b. PICK f : f = [req[i] EXCEPT !.state = "NONE"]
  OBVIOUS
<1>0. TypeLists /\ TypeRndz /\ RingsHold /\ Distinct /\ Roles /\ Counts
  BY DEF PoolInv
<1>1. /\ recvs[r].open /\ req[i].state = "DONE"
      /\ req' = [req EXCEPT ![i] = f] /\ freelst' = <<i>> \o freelst
      /\ rreq_count' = rreq_count - 1
      /\ recvs' = [recvs EXCEPT ![r].open = FALSE]
      /\ UNCHANGED <<sreq_count, explst, uexplst, urp, ring, proglst, lclget, sends,
                     engine, fault, rndzfree, rgetdone, sent>>
  BY <1>a, <1>b DEF WaitRecv, Freed, utfslist_insert, lstVars, rgetVars, srcVars
<1>2. recvs \in Seq(CallRecord) /\ i \in MsgReq /\ req[i] \in ReqRecord
  <2>1. recvs \in Seq(CallRecord) /\ req \in [MsgReq -> ReqRecord]
    BY <1>0 DEF TypeLists
  <2>2. recvs[r] \in CallRecord
    BY <2>1, ElementOfSeq
  <2> QED BY <1>a, <2>1, <2>2 DEF CallRecord
<1>3. i \in OpenRecvs
  BY <1>a, <1>1 DEF OpenRecvs, Opened
<1>4. i \notin Free /\ Role(i)
  BY <1>0, <1>2, <1>3, UsedRole
<1>5. /\ req[i].type \in RecvTypes
      /\ i \notin Expected \cup Unexpected \cup Filling \cup Getting \cup engine \cup OpenSends
  BY <1>1, <1>3, <1>4, TypesApart DEF Role
<1>6. f \in ReqRecord /\ f.type = req[i].type /\ f.rndzpos = req[i].rndzpos
  BY <1>b, <1>2 DEF ReqRecord
<1>7. Becomes(i, f)
  BY <1>0, <1>1, <1>2, <1>6, ReqStep
<1>8. Frees(i)
  BY <1>1, <1>4, <1>6, <1>7 DEF Frees, Becomes
<1>9. /\ Free' = Free \cup {i} /\ freelst' \in Seq(MsgReq) /\ IsInjective(freelst')
  BY <1>0, <1>2, <1>8, FreesFacts
<1>10. recvs' \in Seq(CallRecord) /\ Closed(recvs', recvs, r)
  BY <1>1, <1>2, CloseRecv
<1>11. DistinctOpen(recvs') /\ Opened(recvs') = Opened(recvs) \ {i}
  BY <1>a, <1>0, <1>1, <1>10, OpenClose DEF Distinct
<1>12. TypeLists' /\ RingsHold'
  BY <1>0, <1>1, <1>7, <1>9, <1>10 DEF TypeLists, RingsHold, Becomes
<1>13. TypeRndz'
  <2>1. \A j \in MsgReq : req'[j].rndzpos \in RndzPos
    BY <1>0, <1>2, <1>6, <1>7, PosKept DEF TypeRndz
  <2> QED BY <1>0, <1>1, <2>1 DEF TypeRndz
<1>14. Distinct'
  BY <1>0, <1>1, <1>9, <1>11 DEF Distinct, DistinctRings
<1>15. /\ Expected' = Expected /\ Unexpected' = Unexpected /\ Filling' = Filling
       /\ Getting' = Getting /\ OpenSends' = OpenSends /\ OpenRecvs' = OpenRecvs \ {i}
  BY <1>1, <1>11 DEF Expected, Unexpected, Filling, Getting, OpenSends, OpenRecvs
<1>16. \A j \in MsgReq : j # i => SameRole(j)
  BY <1>1, <1>7, <1>9, <1>15 DEF SameRole, Becomes
<1>17. Role(i)'
  BY <1>1, <1>2, <1>5, <1>9, <1>15, FreedRole
<1>18. Roles'
  BY <1>0, <1>2, <1>16, <1>17, RolesStep
<1>19. Counts'
  BY <1>0, <1>1, <1>2, <1>5, <1>8, CountsFree
<1> QED BY <1>12, <1>13, <1>14, <1>18, <1>19 DEF PoolInv

LEMMA WaitCmplRecvPool ==
  ASSUME PoolInv, NEW r \in DOMAIN recvs, WaitCmplRecv(r)
  PROVE  PoolInv'
<1>a. PICK i : i = recvs[r].req
  OBVIOUS
<1>0. TypeLists /\ TypeRndz /\ RingsHold /\ Distinct /\ Roles /\ Counts
  BY DEF PoolInv
<1>1. /\ recvs[r].open
      /\ recvs' = [recvs EXCEPT ![r].open = FALSE]
      /\ UNCHANGED <<req, freelst, rreq_count, sreq_count, explst, uexplst, urp, ring,
                     proglst, lclget, sends, engine, fault, rndzfree, rgetdone, sent>>
  BY DEF WaitCmplRecv, poolVars, lstVars, rgetVars, srcVars
<1>2. recvs \in Seq(CallRecord) /\ i \in MsgReq
  <2>1. recvs \in Seq(CallRecord)
    BY <1>0 DEF TypeLists
  <2>2. recvs[r] \in CallRecord
    BY <2>1, ElementOfSeq
  <2> QED BY <1>a, <2>1, <2>2 DEF CallRecord
<1>3. i \in OpenRecvs
  BY <1>a, <1>1 DEF OpenRecvs, Opened
<1>4. i \notin Free /\ Role(i)
  BY <1>0, <1>2, <1>3, UsedRole
<1>10. recvs' \in Seq(CallRecord) /\ Closed(recvs', recvs, r)
  BY <1>1, <1>2, CloseRecv
<1>11. DistinctOpen(recvs') /\ Opened(recvs') = Opened(recvs) \ {i}
  BY <1>a, <1>0, <1>1, <1>10, OpenClose DEF Distinct
<1>12. TypeLists' /\ RingsHold' /\ TypeRndz'
  BY <1>0, <1>1, <1>10 DEF TypeLists, RingsHold, TypeRndz
<1>14. Distinct'
  BY <1>0, <1>1, <1>11 DEF Distinct, DistinctRings
<1>15. /\ Expected' = Expected /\ Unexpected' = Unexpected /\ Filling' = Filling
       /\ Getting' = Getting /\ OpenSends' = OpenSends /\ OpenRecvs' = OpenRecvs \ {i}
       /\ Free' = Free
  BY <1>1, <1>11 DEF Expected, Unexpected, Filling, Getting, OpenSends, OpenRecvs, Free
<1>16. \A j \in MsgReq : j # i => SameRole(j)
  BY <1>1, <1>15 DEF SameRole
<1>17. Role(i)'
  BY <1>1, <1>4, <1>15 DEF Role
<1>18. Roles'
  BY <1>0, <1>2, <1>16, <1>17, RolesStep
<1>19. Counts'
  BY <1>0, <1>1, CountsKept
<1> QED BY <1>12, <1>14, <1>18, <1>19 DEF PoolInv

-----------------------------------------------------------------------------
(* The rank's own sends.                                                   *)

LEMMA SendPool ==
  ASSUME PoolInv, NEW type \in SendTypes, Send(type)
  PROVE  PoolInv'
<1>a. PICK i : i = Head(freelst)
  OBVIOUS
<1>b. PICK f : f = [req[i] EXCEPT !.state = "PRG_NORMAL", !.type = type, !.reclaim = FALSE]
  OBVIOUS
<1>0. TypeLists /\ TypeRndz /\ RingsHold /\ Distinct /\ Roles /\ Counts
  BY DEF PoolInv
<1>c. CASE PoolEmpty
  <2>1. Fault
    BY <1>c DEF Send
  <2> QED BY <2>1, FaultPool
<1>d. CASE ~ PoolEmpty
  <2>1. /\ ~ SendReqRefused /\ freelst # <<>>
        /\ req' = [req EXCEPT ![i] = f] /\ freelst' = Tail(freelst)
        /\ sreq_count' = sreq_count + 1
        /\ sends' = Append(sends, [req |-> i, open |-> TRUE])
        /\ engine' = engine \cup {i}
        /\ UNCHANGED <<rreq_count, explst, uexplst, urp, ring, proglst, lclget, recvs,
                       fault, rndzfree, rgetdone, sent>>
    BY <1>a, <1>b, <1>d DEF Send, utfslist_remove, PoolEmpty, lstVars, rgetVars, srcVars
  <2>2. i \in MsgReq /\ i \in Free
    BY <1>0, <1>a, <2>1, SeqTake DEF TypeLists, Distinct, Free
  <2>3. req[i] \in ReqRecord
    BY <1>0, <2>2 DEF TypeLists
  <2>4. /\ f \in ReqRecord /\ f.type = type /\ f.rndzpos = req[i].rndzpos
        /\ f.state = "PRG_NORMAL" /\ f.reclaim = FALSE
    BY <1>b, <2>3 DEF ReqRecord
  <2>5. Becomes(i, f)
    BY <1>0, <2>1, <2>2, <2>4, ReqStep
  <2>6. Takes(i)
    BY <1>a, <2>1, <2>5 DEF Takes, Becomes
  <2>7. Free' = Free \ {i} /\ freelst' \in Seq(MsgReq) /\ IsInjective(freelst')
    BY <1>0, <2>6, TakesFacts
  <2>8. i \notin Expected \cup Unexpected \cup Filling \cup Getting \cup engine
                   \cup OpenRecvs \cup OpenSends
    BY <1>0, <2>2, UsedRole
  <2>9. sends \in Seq(SendCall) /\ [req |-> i, open |-> TRUE] \in SendCall
    BY <1>0, <2>2 DEF TypeLists, SendCall
  <2>10. /\ sends' \in Seq(SendCall) /\ DistinctOpen(sends')
         /\ Opened(sends') = Opened(sends) \cup {i}
    <3>1. PICK e : e = [req |-> i, open |-> TRUE]
      OBVIOUS
    <3>2. e.open /\ e.req = i /\ e \in SendCall /\ sends' = Append(sends, e)
      BY <2>1, <2>9, <3>1
    <3> QED BY <1>0, <2>8, <2>9, <3>2, OpenAppend DEF Distinct, OpenSends
  <2>12. TypeLists' /\ RingsHold'
    <3>1. sends' \in Seq([req : MsgReq, open : BOOLEAN])
      BY <2>10 DEF SendCall
    <3> QED BY <1>0, <2>1, <2>2, <2>5, <2>7, <3>1 DEF TypeLists, RingsHold, Becomes
  <2>13. TypeRndz'
    <3>1. \A j \in MsgReq : req'[j].rndzpos \in RndzPos
      BY <1>0, <2>2, <2>4, <2>5, PosKept DEF TypeRndz
    <3> QED BY <1>0, <2>1, <3>1 DEF TypeRndz
  <2>14. Distinct'
    BY <1>0, <2>1, <2>7, <2>10 DEF Distinct, DistinctRings
  <2>15. /\ Expected' = Expected /\ Unexpected' = Unexpected /\ Filling' = Filling
         /\ Getting' = Getting /\ OpenRecvs' = OpenRecvs /\ OpenSends' = OpenSends \cup {i}
    BY <2>1, <2>10 DEF Expected, Unexpected, Filling, Getting, OpenSends, OpenRecvs
  <2>16. \A j \in MsgReq : j # i => SameRole(j)
    BY <2>1, <2>5, <2>7, <2>15 DEF SameRole, Becomes
  <2>17. Role(i)'
    BY <2>2, <2>4, <2>5, <2>7, <2>8, <2>15 DEF Role, Becomes
  <2>18. Roles'
    BY <1>0, <2>2, <2>16, <2>17, RolesStep
  <2>19. Counts'
    BY <1>0, <2>1, <2>4, <2>5, <2>6, CountsTakeSend DEF Becomes
  <2> QED BY <2>12, <2>13, <2>14, <2>18, <2>19 DEF PoolInv
<1> QED BY <1>c, <1>d

LEMMA EngineDonePool ==
  ASSUME PoolInv, NEW i \in engine, EngineDone(i)
  PROVE  PoolInv'
<1>0. TypeLists /\ TypeRndz /\ RingsHold /\ Distinct /\ Roles /\ Counts
  BY DEF PoolInv
<1>1. /\ engine' = engine \ {i}
      /\ UNCHANGED <<rreq_count, explst, uexplst, urp, ring, proglst, lclget, recvs, sends,
                     fault, rndzfree, rgetdone, sent>>
  BY DEF EngineDone, lstVars, rgetVars, srcVars
<1>2. i \in MsgReq /\ req[i] \in ReqRecord
  BY <1>0 DEF TypeLists
<1>3. i \notin Free /\ Role(i)
  BY <1>0, <1>2, UsedRole
<1>4. /\ req[i].type \in SendTypes
      /\ i \notin Expected \cup Unexpected \cup Filling \cup Getting \cup OpenRecvs
  BY <1>3, TypesApart DEF Role
<1>5. /\ Expected' = Expected /\ Unexpected' = Unexpected /\ Filling' = Filling
      /\ Getting' = Getting /\ OpenRecvs' = OpenRecvs /\ OpenSends' = OpenSends
  BY <1>1 DEF Expected, Unexpected, Filling, Getting, OpenSends, OpenRecvs
<1>6. CASE req[i].reclaim
  <2>1. PICK f : f = [req[i] EXCEPT !.state = "NONE", !.reclaim = FALSE]
    OBVIOUS
  <2>2. /\ req' = [req EXCEPT ![i] = f] /\ freelst' = <<i>> \o freelst
        /\ sreq_count' = sreq_count - 1
    BY <1>6, <2>1 DEF EngineDone, utfslist_insert
  <2>3. f \in ReqRecord /\ f.type = req[i].type /\ f.rndzpos = req[i].rndzpos
    BY <1>2, <2>1 DEF ReqRecord
  <2>4. Becomes(i, f)
    BY <1>0, <1>2, <2>2, <2>3, ReqStep
  <2>5. Frees(i)
    BY <1>3, <2>2, <2>3, <2>4 DEF Frees, Becomes
  <2>6. Free' = Free \cup {i} /\ freelst' \in Seq(MsgReq) /\ IsInjective(freelst')
    BY <1>0, <1>2, <2>5, FreesFacts
  <2>7. i \notin OpenSends
    BY <1>3, <1>6 DEF Role
  <2>8. TypeLists' /\ RingsHold'
    BY <1>0, <1>1, <2>4, <2>6 DEF TypeLists, RingsHold, Becomes
  <2>9. TypeRndz'
    <3>1. \A j \in MsgReq : req'[j].rndzpos \in RndzPos
      BY <1>0, <1>2, <2>3, <2>4, PosKept DEF TypeRndz
    <3> QED BY <1>0, <1>1, <3>1 DEF TypeRndz
  <2>10. Distinct'
    BY <1>0, <1>1, <2>6 DEF Distinct, DistinctRings
  <2>11. \A j \in MsgReq : j # i => SameRole(j)
    BY <1>1, <1>5, <2>4, <2>6 DEF SameRole, Becomes
  <2>12. Role(i)'
    BY <1>1, <1>2, <1>4, <1>5, <2>6, <2>7, FreedRole
  <2>13. Roles'
    BY <1>0, <1>2, <2>11, <2>12, RolesStep
  <2>14. Counts'
    BY <1>0, <1>1, <1>2, <1>4, <2>2, <2>5, CountsFree
  <2> QED BY <2>8, <2>9, <2>10, <2>13, <2>14 DEF PoolInv
<1>7. CASE ~ req[i].reclaim
  <2>1. PICK f : f = [req[i] EXCEPT !.state = "DONE"]
    OBVIOUS
  <2>2. req' = [req EXCEPT ![i] = f] /\ UNCHANGED <<freelst, sreq_count>>
    BY <1>7, <2>1 DEF EngineDone
  <2>3. /\ f \in ReqRecord /\ f.type = req[i].type /\ f.rndzpos = req[i].rndzpos
        /\ f.reclaim = req[i].reclaim
    BY <1>2, <2>1 DEF ReqRecord
  <2>4. Becomes(i, f)
    BY <1>0, <1>2, <2>2, <2>3, ReqStep
  <2>5. Free' = Free
    BY <2>2 DEF Free
  <2>6. TypeLists' /\ RingsHold'
    BY <1>0, <1>1, <2>2, <2>4 DEF TypeLists, RingsHold, Becomes
  <2>7. TypeRndz'
    <3>1. \A j \in MsgReq : req'[j].rndzpos \in RndzPos
      BY <1>0, <1>2, <2>3, <2>4, PosKept DEF TypeRndz
    <3> QED BY <1>0, <1>1, <3>1 DEF TypeRndz
  <2>8. Distinct'
    BY <1>0, <1>1, <2>2 DEF Distinct, DistinctRings
  <2>9. \A j \in MsgReq : j # i => SameRole(j)
    BY <1>1, <1>5, <2>4, <2>5 DEF SameRole, Becomes
  <2>10. Role(i)'
    BY <1>1, <1>3, <1>4, <1>5, <2>3, <2>4, <2>5 DEF Role, Becomes
  <2>11. Roles'
    BY <1>0, <1>2, <2>9, <2>10, RolesStep
  <2>12. Counts'
    BY <1>0, <1>1, <2>2, <2>3, <2>4, CountsKept DEF Becomes
  <2> QED BY <2>6, <2>7, <2>8, <2>11, <2>12 DEF PoolInv
<1> QED BY <1>6, <1>7

LEMMA WaitSendPool ==
  ASSUME PoolInv, NEW k \in DOMAIN sends, WaitSend(k)
  PROVE  PoolInv'
<1>a. PICK i : i = sends[k].req
  OBVIOUS
<1>0. TypeLists /\ TypeRndz /\ RingsHold /\ Distinct /\ Roles /\ Counts
  BY DEF PoolInv
<1>1. /\ sends[k].open /\ sends' = [sends EXCEPT ![k].open = FALSE]
      /\ UNCHANGED <<rreq_count, explst, uexplst, urp, ring, proglst, lclget, recvs, engine,
                     fault, rndzfree, rgetdone, sent>>
  BY DEF WaitSend, lstVars, rgetVars, srcVars
<1>2. sends \in Seq(SendCall) /\ i \in MsgReq /\ req[i] \in ReqRecord
  <2>1. sends \in Seq(SendCall) /\ req \in [MsgReq -> ReqRecord]
    BY <1>0 DEF TypeLists, SendCall
  <2>2. sends[k] \in SendCall
    BY <2>1, ElementOfSeq
  <2> QED BY <1>a, <2>1, <2>2 DEF SendCall
<1>3. i \in OpenSends
  BY <1>a, <1>1 DEF OpenSends, Opened
<1>4. i \notin Free /\ Role(i)
  BY <1>0, <1>2, <1>3, UsedRole
<1>5. /\ req[i].type \in SendTypes
      /\ i \notin Expected \cup Unexpected \cup Filling \cup Getting \cup OpenRecvs
  BY <1>3, <1>4, TypesApart DEF Role
<1>6. sends' \in Seq(SendCall) /\ Closed(sends', sends, k)
  BY <1>1, <1>2, CloseSend
<1>7. DistinctOpen(sends') /\ Opened(sends') = Opened(sends) \ {i}
  BY <1>a, <1>0, <1>1, <1>6, OpenClose DEF Distinct
<1>8. /\ Expected' = Expected /\ Unexpected' = Unexpected /\ Filling' = Filling
      /\ Getting' = Getting /\ OpenRecvs' = OpenRecvs /\ OpenSends' = OpenSends \ {i}
  BY <1>1, <1>7 DEF Expected, Unexpected, Filling, Getting, OpenSends, OpenRecvs
<1>9. sends' \in Seq([req : MsgReq, open : BOOLEAN])
  BY <1>6 DEF SendCall
<1>10. CASE req[i].state = "DONE"
  <2>1. PICK f : f = [req[i] EXCEPT !.state = "NONE"]
    OBVIOUS
  <2>2. /\ req' = [req EXCEPT ![i] = f] /\ freelst' = <<i>> \o freelst
        /\ sreq_count' = sreq_count - 1
    BY <1>a, <1>10, <2>1 DEF WaitSend, Freed, utfslist_insert
  <2>3. f \in ReqRecord /\ f.type = req[i].type /\ f.rndzpos = req[i].rndzpos
    BY <1>2, <2>1 DEF ReqRecord
  <2>4. Becomes(i, f)
    BY <1>0, <1>2, <2>2, <2>3, ReqStep
  <2>5. Frees(i)
    BY <1>4, <2>2, <2>3, <2>4 DEF Frees, Becomes
  <2>6. Free' = Free \cup {i} /\ freelst' \in Seq(MsgReq) /\ IsInjective(freelst')
    BY <1>0, <1>2, <2>5, FreesFacts
  <2>7. i \notin engine
    BY <1>4, <1>10 DEF Role
  <2>8. TypeLists' /\ RingsHold'
    BY <1>0, <1>1, <1>9, <2>4, <2>6 DEF TypeLists, RingsHold, Becomes
  <2>9. TypeRndz'
    <3>1. \A j \in MsgReq : req'[j].rndzpos \in RndzPos
      BY <1>0, <1>2, <2>3, <2>4, PosKept DEF TypeRndz
    <3> QED BY <1>0, <1>1, <3>1 DEF TypeRndz
  <2>10. Distinct'
    BY <1>0, <1>1, <1>7, <2>6 DEF Distinct, DistinctRings
  <2>11. \A j \in MsgReq : j # i => SameRole(j)
    BY <1>1, <1>8, <2>4, <2>6 DEF SameRole, Becomes
  <2>12. Role(i)'
    BY <1>1, <1>2, <1>5, <1>8, <2>6, <2>7, FreedRole
  <2>13. Roles'
    BY <1>0, <1>2, <2>11, <2>12, RolesStep
  <2>14. Counts'
    BY <1>0, <1>1, <1>2, <1>5, <2>2, <2>5, CountsFree
  <2> QED BY <2>8, <2>9, <2>10, <2>13, <2>14 DEF PoolInv
<1>11. CASE req[i].state # "DONE"
  <2>1. PICK f : f = [req[i] EXCEPT !.reclaim = TRUE]
    OBVIOUS
  <2>2. req' = [req EXCEPT ![i] = f] /\ UNCHANGED <<freelst, sreq_count>>
    BY <1>a, <1>11, <2>1 DEF WaitSend
  <2>3. /\ f \in ReqRecord /\ f.type = req[i].type /\ f.rndzpos = req[i].rndzpos
        /\ f.state = req[i].state
    BY <1>2, <2>1 DEF ReqRecord
  <2>4. Becomes(i, f)
    BY <1>0, <1>2, <2>2, <2>3, ReqStep
  <2>5. Free' = Free
    BY <2>2 DEF Free
  <2>6. TypeLists' /\ RingsHold'
    BY <1>0, <1>1, <1>9, <2>2, <2>4 DEF TypeLists, RingsHold, Becomes
  <2>7. TypeRndz'
    <3>1. \A j \in MsgReq : req'[j].rndzpos \in RndzPos
      BY <1>0, <1>2, <2>3, <2>4, PosKept DEF TypeRndz
    <3> QED BY <1>0, <1>1, <3>1 DEF TypeRndz
  <2>8. Distinct'
    BY <1>0, <1>1, <1>7, <2>2 DEF Distinct, DistinctRings
  <2>9. \A j \in MsgReq : j # i => SameRole(j)
    BY <1>1, <1>8, <2>4, <2>5 DEF SameRole, Becomes
  <2>10. Role(i)'
    BY <1>1, <1>4, <1>5, <1>8, <2>3, <2>4, <2>5 DEF Role, Becomes
  <2>11. Roles'
    BY <1>0, <1>2, <2>9, <2>10, RolesStep
  <2>12. Counts'
    BY <1>0, <1>1, <2>2, <2>3, <2>4, CountsKept DEF Becomes
  <2> QED BY <2>6, <2>7, <2>8, <2>11, <2>12 DEF PoolInv
<1> QED BY <1>10, <1>11

-----------------------------------------------------------------------------
(* Searching the lists: the first entry that fits, 0 if none does.         *)

LEMMA LeastOf ==
  ASSUME NEW T, T \subseteq Nat
  PROVE  T # {} => Min(T) \in T
<1>1. T # {} => \E x \in T : \A y \in T : x <= y
  BY LeastNumber
<1> QED BY <1>1 DEF Min

LEMMA ExpFirst ==
  ASSUME NEW src, NEW tag, explst \in Seq(Lst)
  PROVE  LET at == utf_explst_match(src, tag)
         IN  /\ at \in 0 .. Len(explst)
             /\ at # 0 => ExpMatches(explst[at], src, tag)
             /\ at = 0 => \A i \in DOMAIN explst : ~ ExpMatches(explst[i], src, tag)
<1> DEFINE I == {i \in 1 .. Len(explst) : ExpMatches(explst[i], src, tag)}
<1>1. utf_explst_match(src, tag) = IF I # {} THEN Min(I) ELSE 0
  BY DEF utf_explst_match, SelectInSeq
<1>2. I \subseteq Nat /\ Len(explst) \in Nat
  OBVIOUS
<1>3. I # {} => Min(I) \in I
  <2> HIDE DEF I
  <2> QED BY <1>2, LeastOf
<1> QED BY <1>1, <1>2, <1>3

LEMMA UexpFirst ==
  ASSUME NEW src, NEW tag, uexplst \in Seq(Lst)
  PROVE  LET at == utf_uexplst_match(src, tag)
         IN  /\ at \in 0 .. Len(uexplst)
             /\ at # 0 => UexpMatches(src, tag, uexplst[at])
             /\ at = 0 => \A i \in DOMAIN uexplst : ~ UexpMatches(src, tag, uexplst[i])
<1> DEFINE I == {i \in 1 .. Len(uexplst) : UexpMatches(src, tag, uexplst[i])}
<1>1. utf_uexplst_match(src, tag) = IF I # {} THEN Min(I) ELSE 0
  BY DEF utf_uexplst_match, SelectInSeq
<1>2. I \subseteq Nat /\ Len(uexplst) \in Nat
  OBVIOUS
<1>3. I # {} => Min(I) \in I
  <2> HIDE DEF I
  <2> QED BY <1>2, LeastOf
<1> QED BY <1>1, <1>2, <1>3

LEMMA RgetFirst ==
  ASSUME NEW s, proglst \in Seq(MsgReq)
  PROVE  LET at == RgetOf(s)
         IN  at \in 0 .. Len(proglst) /\ (at # 0 => req[proglst[at]].src = s)
<1> DEFINE I == {j \in 1 .. Len(proglst) : req[proglst[j]].src = s}
<1>1. RgetOf(s) = IF I # {} THEN Min(I) ELSE 0
  BY DEF RgetOf, SelectInSeq
<1>2. I \subseteq Nat /\ Len(proglst) \in Nat
  OBVIOUS
<1>3. I # {} => Min(I) \in I
  <2> HIDE DEF I
  <2> QED BY <1>2, LeastOf
<1> QED BY <1>1, <1>2, <1>3

-----------------------------------------------------------------------------
(* utf_recv.                                                               *)

LEMMA ListedFacts ==
  ASSUME NEW q \in ReqRecord, NEW i \in MsgReq
  PROVE  /\ Listed(q, i) \in Lst /\ Listed(q, i).reqidx = i
         /\ Listed(q, i).src = q.src /\ Listed(q, i).tag = q.tag
BY DEF Listed, Lst, ReqRecord

LEMMA CallFacts ==
  ASSUME NEW src \in Srcs \cup {ANY}, NEW tag \in Tags \cup {ANY}, NEW size \in Nat,
         NEW i \in MsgReq, NEW msg \in Seq(Int)
  PROVE  /\ Call(src, tag, size, i, msg) \in CallRecord
         /\ Call(src, tag, size, i, msg).req = i
         /\ Call(src, tag, size, i, msg).open = TRUE
BY DEF Call, CallRecord

LEMMA RecvPostedPool ==
  ASSUME PoolInv, NEW src \in Srcs \cup {ANY}, NEW tag \in Tags \cup {ANY}, NEW size \in Nat,
         RecvPosted(src, tag, size)
  PROVE  PoolInv'
<1>a. PICK i : i = Head(freelst)
  OBVIOUS
<1>b. PICK f : f = [req[i] EXCEPT !.state = "PRG_NORMAL", !.type = "RECV_EXPECTED",
                      !.src = src, !.tag = tag, !.rsize = 0, !.usrreqsz = size,
                      !.usr = Len(recvs) + 1]
  OBVIOUS
<1>e. PICK e : e = Listed(f, i)
  OBVIOUS
<1>f. PICK c : c = Call(src, tag, size, i, <<>>)
  OBVIOUS
<1>0. TypeLists /\ TypeRndz /\ RingsHold /\ Distinct /\ Roles /\ Counts
  BY DEF PoolInv
<1>c. CASE PoolEmpty
  <2>1. Fault
    BY <1>c DEF RecvPosted
  <2> QED BY <2>1, FaultPool
<1>d. CASE ~ PoolEmpty
  <2>1. /\ ~ RecvReqRefused /\ freelst # <<>>
        /\ req' = [req EXCEPT ![i] = f] /\ freelst' = Tail(freelst)
        /\ rreq_count' = rreq_count + 1
        /\ explst' = Append(explst, e) /\ recvs' = Append(recvs, c)
        /\ UNCHANGED <<sreq_count, uexplst, urp, ring, proglst, lclget, sends, engine,
                       fault, rndzfree, rgetdone, sent>>
    BY <1>a, <1>b, <1>d, <1>e, <1>f
       DEF RecvPosted, utfslist_remove, utfslist_append, PoolEmpty, rgetVars, srcVars
  <2>2. i \in MsgReq /\ i \in Free
    BY <1>0, <1>a, <2>1, SeqTake DEF TypeLists, Distinct, Free
  <2>3. req[i] \in ReqRecord /\ recvs \in Seq(CallRecord) /\ explst \in Seq(Lst)
    BY <1>0, <2>2 DEF TypeLists
  <2>4. /\ f \in ReqRecord /\ f.type = "RECV_EXPECTED" /\ f.rndzpos = req[i].rndzpos
        /\ f.state = "PRG_NORMAL" /\ f.reclaim = req[i].reclaim
    <3>1. Len(recvs) + 1 \in Nat
      BY <2>3
    <3> QED BY <1>b, <2>3, <3>1 DEF ReqRecord
  <2>5. Becomes(i, f)
    BY <1>0, <2>1, <2>2, <2>4, ReqStep
  <2>6. Takes(i)
    BY <1>a, <2>1, <2>5 DEF Takes, Becomes
  <2>7. Free' = Free \ {i} /\ freelst' \in Seq(MsgReq) /\ IsInjective(freelst')
    BY <1>0, <2>6, TakesFacts
  <2>8. i \notin Expected \cup Unexpected \cup Filling \cup Getting \cup engine
                   \cup OpenRecvs \cup OpenSends
    BY <1>0, <2>2, UsedRole
  <2>9. e \in Lst /\ e.reqidx = i
    BY <1>e, <2>2, <2>4, ListedFacts
  <2>10. explst' \in Seq(Lst) /\ DistinctList(explst') /\ Held(explst') = Held(explst) \cup {i}
    BY <1>0, <2>1, <2>3, <2>8, <2>9, ListAppend DEF Distinct, Expected
  <2>11. c \in CallRecord /\ c.req = i /\ c.open
    <3>1. <<>> \in Seq(Int)
      OBVIOUS
    <3>2. c \in CallRecord /\ c.req = i /\ c.open = TRUE
      BY <1>f, <2>2, <3>1, CallFacts, Zenon
    <3> QED BY <3>2
  <2>12. /\ recvs' \in Seq(CallRecord) /\ DistinctOpen(recvs')
         /\ Opened(recvs') = Opened(recvs) \cup {i}
    BY <1>0, <2>1, <2>3, <2>8, <2>11, OpenAppend DEF Distinct, OpenRecvs
  <2>13. TypeLists' /\ RingsHold'
    BY <1>0, <2>1, <2>5, <2>7, <2>10, <2>12 DEF TypeLists, RingsHold, Becomes
  <2>14. TypeRndz'
    <3>1. \A j \in MsgReq : req'[j].rndzpos \in RndzPos
      BY <1>0, <2>2, <2>4, <2>5, PosKept DEF TypeRndz
    <3> QED BY <1>0, <2>1, <3>1 DEF TypeRndz
  <2>15. Distinct'
    BY <1>0, <2>1, <2>7, <2>10, <2>12 DEF Distinct, DistinctRings
  <2>16. /\ Expected' = Expected \cup {i} /\ Unexpected' = Unexpected /\ Filling' = Filling
         /\ Getting' = Getting /\ OpenRecvs' = OpenRecvs \cup {i} /\ OpenSends' = OpenSends
    BY <2>1, <2>10, <2>12 DEF Expected, Unexpected, Filling, Getting, OpenSends, OpenRecvs
  <2>17. \A j \in MsgReq : j # i => SameRole(j)
    BY <2>1, <2>5, <2>7, <2>16 DEF SameRole, Becomes
  <2>18. Role(i)'
    BY <2>1, <2>2, <2>4, <2>5, <2>7, <2>8, <2>16 DEF Role, Becomes, RecvTypes
  <2>19. Roles'
    BY <1>0, <2>2, <2>17, <2>18, RolesStep
  <2>20. Counts'
    BY <1>0, <2>1, <2>4, <2>5, <2>6, CountsTakeRecv DEF Becomes, RecvTypes
  <2> QED BY <2>13, <2>14, <2>15, <2>19, <2>20 DEF PoolInv
<1> QED BY <1>c, <1>d

(* request i, a queued message, goes to a receive: by gets if it is a      *)
(* rendezvous                                                              *)
LEMMA TakenOver ==
  ASSUME PoolInv, NEW i \in MsgReq, i \in Unexpected, NEW f \in ReqRecord, Becomes(i, f),
         f.type \in RecvTypes, f.rndzpos = req[i].rndzpos,
         uexplst' \in Seq(Lst), DistinctList(uexplst'), Held(uexplst') = Held(uexplst) \ {i},
         recvs' \in Seq(CallRecord), DistinctOpen(recvs'),
         Opened(recvs') = Opened(recvs) \cup {i},
         \/ /\ proglst' = Append(proglst, i)
            /\ f.state = "DO_RNDZ" /\ req[i].state = "WAIT_RNDZ"
         \/ proglst' = proglst /\ f.state = req[i].state /\ req[i].state # "WAIT_RNDZ",
         UNCHANGED <<freelst, rreq_count, sreq_count, explst, urp, ring, lclget, sends,
                     engine, fault, rndzfree, rgetdone, sent>>
  PROVE  PoolInv'
<1>0. TypeLists /\ TypeRndz /\ RingsHold /\ Distinct /\ Roles /\ Counts
  BY DEF PoolInv
<1>1. i \notin Free /\ Role(i)
  BY <1>0, UsedRole
<1>2. /\ req[i].type \in RecvTypes /\ req[i].state \in {"NONE", "DONE", "WAIT_RNDZ"}
      /\ i \notin Expected \cup Getting \cup engine \cup OpenRecvs \cup OpenSends
      /\ req[i].state = "WAIT_RNDZ" => i \notin Filling
  BY <1>1, TypesApart DEF Role
<1>3. /\ proglst' \in Seq(MsgReq) /\ IsInjective(proglst')
      /\ IF f.state = "DO_RNDZ" THEN Getting' = Getting \cup {i} ELSE Getting' = Getting
  <2>1. proglst \in Seq(MsgReq) /\ IsInjective(proglst) /\ i \notin ToSet(proglst)
    BY <1>0, <1>2 DEF TypeLists, Distinct, Getting
  <2>2. CASE proglst' = Append(proglst, i) /\ f.state = "DO_RNDZ"
    BY <2>1, <2>2, SeqAppend DEF Getting
  <2>3. CASE proglst' = proglst /\ f.state = req[i].state
    BY <1>2, <2>1, <2>3 DEF Getting
  <2> QED BY <2>2, <2>3
<1>4. TypeLists' /\ RingsHold'
  BY <1>0, <1>3 DEF TypeLists, RingsHold, Becomes
<1>5. TypeRndz'
  <2>1. \A j \in MsgReq : req'[j].rndzpos \in RndzPos
    BY <1>0, PosKept DEF TypeRndz
  <2> QED BY <1>0, <2>1 DEF TypeRndz
<1>6. Distinct'
  BY <1>0, <1>3 DEF Distinct, DistinctRings
<1>7. /\ Expected' = Expected /\ Unexpected' = Unexpected \ {i} /\ Filling' = Filling
      /\ OpenRecvs' = OpenRecvs \cup {i} /\ OpenSends' = OpenSends /\ Free' = Free
  BY DEF Expected, Unexpected, Filling, OpenSends, OpenRecvs, Free
<1>8. \A j \in MsgReq : j # i => SameRole(j)
  BY <1>3, <1>7 DEF SameRole, Becomes
<1>9. Role(i)'
  <2>1. /\ i \in Filling' => f.state \in {"NONE", "PRG_NORMAL"}
        /\ i \in Getting' => f.state = "DO_RNDZ"
    BY <1>1, <1>2, <1>3, <1>7 DEF Role
  <2>2. req'[i] = f /\ i \notin Free' /\ i \notin engine' /\ i \notin OpenSends'
        /\ i \notin Expected' /\ i \notin Unexpected'
    BY <1>1, <1>2, <1>7 DEF Becomes
  <2> QED BY <2>1, <2>2 DEF Role
<1>10. Roles'
  BY <1>0, <1>8, <1>9, RolesStep
<1>11. Counts'
  BY <1>0, <1>2, TypesApart, CountsKept DEF Becomes
<1> QED BY <1>4, <1>5, <1>6, <1>10, <1>11 DEF PoolInv

LEMMA RecvUnexpectedPool ==
  ASSUME PoolInv, NEW src \in Srcs \cup {ANY}, NEW tag \in Tags \cup {ANY}, NEW size \in Nat,
         RecvUnexpected(src, tag, size)
  PROVE  PoolInv'
<1>a. PICK at : at = utf_uexplst_match(src, tag)
  OBVIOUS
<1>b. PICK i : i = uexplst[at].reqidx
  OBVIOUS
<1>c. PICK c : c = Call(src, tag, size, i, <<req[i].src, req[i].msg>>)
  OBVIOUS
<1>0. TypeLists /\ TypeRndz /\ RingsHold /\ Distinct /\ Roles /\ Counts
  BY DEF PoolInv
<1>1. /\ at # 0 /\ uexplst' = RemoveAt(uexplst, at)
      /\ UNCHANGED <<freelst, rreq_count, sreq_count, explst, urp, ring, sends, engine,
                     fault, rndzfree, rgetdone, sent>>
  BY <1>a DEF RecvUnexpected, utfslist_remove2, srcVars
<1>2. /\ uexplst \in Seq(Lst) /\ req \in [MsgReq -> ReqRecord] /\ recvs \in Seq(CallRecord)
  BY <1>0 DEF TypeLists
<1>3. at \in 1 .. Len(uexplst) /\ at \in DOMAIN uexplst
  BY <1>a, <1>1, <1>2, UexpFirst
<1>4. i \in MsgReq /\ req[i] \in ReqRecord /\ i \in Unexpected
  <2>1. uexplst[at] \in Lst
    BY <1>2, <1>3, ElementOfSeq
  <2> QED BY <1>b, <1>2, <1>3, <2>1 DEF Lst, Unexpected, Held
<1>5. /\ uexplst' \in Seq(Lst) /\ DistinctList(uexplst')
      /\ Held(uexplst') = Held(uexplst) \ {i}
  BY <1>0, <1>b, <1>1, <1>2, <1>3, ListRemove DEF Distinct
<1>6. /\ req[i].type \in RecvTypes /\ i \notin OpenRecvs
      /\ req[i].rndz <=> req[i].state = "WAIT_RNDZ"
  BY <1>0, <1>4 DEF Roles, Role
<1>7. /\ c \in CallRecord /\ c.req = i /\ c.open
      /\ [c EXCEPT !.late = TRUE] \in CallRecord /\ [c EXCEPT !.late = TRUE].req = i
      /\ [c EXCEPT !.late = TRUE].open
  <2>1. req[i].src \in Srcs \cup {ANY} /\ req[i].msg \in Nat
    BY <1>4 DEF ReqRecord
  <2>2. req[i].src \in Int
    BY <2>1, RecvAssumption DEF ANY
  <2>3. <<req[i].src, req[i].msg>> \in Seq(Int)
    BY <2>1, <2>2
  <2>4. c \in CallRecord /\ c.req = i /\ c.open = TRUE
    BY <1>c, <1>4, <2>3, CallFacts, Zenon
  <2>5. PICK d : d = [c EXCEPT !.late = TRUE]
    OBVIOUS
  <2>6. d \in CallRecord /\ d.req = c.req /\ d.open = c.open
    BY <2>4, <2>5 DEF CallRecord
  <2> QED BY <2>4, <2>5, <2>6
<1>8. ASSUME NEW d \in CallRecord, d.req = i, d.open, recvs' = Append(recvs, d)
      PROVE  /\ recvs' \in Seq(CallRecord) /\ DistinctOpen(recvs')
             /\ Opened(recvs') = Opened(recvs) \cup {i}
  BY <1>0, <1>2, <1>6, <1>8, OpenAppend DEF Distinct, OpenRecvs
<1>9. CASE req[i].rndz
  <2>1. PICK g : g = [req[i] EXCEPT !.usr = Len(recvs) + 1, !.usrreqsz = size]
    OBVIOUS
  <2>2. PICK f : f = Wanted(g)
    OBVIOUS
  <2>3. /\ req' = [req EXCEPT ![i] = f] /\ proglst' = Append(proglst, i)
        /\ UNCHANGED lclget /\ recvs' = Append(recvs, c)
    BY <1>a, <1>b, <1>c, <1>9, <2>1, <2>2 DEF RecvUnexpected, RgetStart, utfslist_append
  <2>4. g \in ReqRecord /\ g.type = req[i].type /\ g.rndzpos = req[i].rndzpos
    <3>1. Len(recvs) + 1 \in Nat
      BY <1>2
    <3> QED BY <1>4, <2>1, <3>1 DEF ReqRecord
  <2>5. /\ f \in ReqRecord /\ f.type = req[i].type /\ f.state = "DO_RNDZ"
        /\ f.rndzpos = req[i].rndzpos
    BY <2>2, <2>4, WantedFacts
  <2>6. Becomes(i, f)
    BY <1>0, <1>4, <2>3, <2>5, ReqStep
  <2>7. /\ recvs' \in Seq(CallRecord) /\ DistinctOpen(recvs')
        /\ Opened(recvs') = Opened(recvs) \cup {i}
    BY <1>7, <1>8, <2>3
  <2> QED BY <1>1, <1>4, <1>5, <1>6, <1>9, <2>3, <2>5, <2>6, <2>7, TakenOver
<1>10. CASE ~ req[i].rndz /\ req[i].state = "DONE"
  <2>1. PICK f : f = [req[i] EXCEPT !.buf = <<>>]
    OBVIOUS
  <2>2. /\ req' = [req EXCEPT ![i] = f] /\ UNCHANGED <<proglst, lclget>>
        /\ recvs' = Append(recvs, c)
    BY <1>a, <1>b, <1>c, <1>10, <2>1 DEF RecvUnexpected, rgetVars
  <2>3. /\ f \in ReqRecord /\ f.type = req[i].type /\ f.state = req[i].state
        /\ f.rndzpos = req[i].rndzpos
    <3>1. <<>> \in Payloads
      BY DEF Payloads
    <3> QED BY <1>4, <2>1, <3>1 DEF ReqRecord
  <2>4. Becomes(i, f)
    BY <1>0, <1>4, <2>2, <2>3, ReqStep
  <2>5. /\ recvs' \in Seq(CallRecord) /\ DistinctOpen(recvs')
        /\ Opened(recvs') = Opened(recvs) \cup {i}
    BY <1>7, <1>8, <2>2
  <2> QED BY <1>1, <1>4, <1>5, <1>6, <1>10, <2>2, <2>3, <2>4, <2>5, TakenOver
<1>11. CASE ~ req[i].rndz /\ req[i].state # "DONE"
  <2>1. PICK f : f = [req[i] EXCEPT !.type = "RECV_EXPECTED"]
    OBVIOUS
  <2>2. /\ req' = [req EXCEPT ![i] = f] /\ UNCHANGED <<proglst, lclget>>
        /\ recvs' = Append(recvs, [c EXCEPT !.late = TRUE])
    BY <1>a, <1>b, <1>c, <1>11, <2>1 DEF RecvUnexpected, rgetVars
  <2>3. /\ f \in ReqRecord /\ f.type \in RecvTypes /\ f.state = req[i].state
        /\ f.rndzpos = req[i].rndzpos
    BY <1>4, <2>1 DEF ReqRecord, RecvTypes
  <2>4. Becomes(i, f)
    BY <1>0, <1>4, <2>2, <2>3, ReqStep
  <2>5. /\ recvs' \in Seq(CallRecord) /\ DistinctOpen(recvs')
        /\ Opened(recvs') = Opened(recvs) \cup {i}
    BY <1>7, <1>8, <2>2
  <2> QED BY <1>1, <1>4, <1>5, <1>6, <1>11, <2>2, <2>3, <2>4, <2>5, TakenOver
<1> QED BY <1>9, <1>10, <1>11

-----------------------------------------------------------------------------
(* utf_recvengine.                                                         *)

LEMMA SrcsNumbers == Srcs \subseteq Int
<1>1. Srcs \subseteq Nat
  BY RecvAssumption
<1> QED BY <1>1

LEMMA NextPacket ==
  ASSUME ring \in [Srcs -> Seq(Pkt)], NEW s \in Srcs, ring[s] # <<>>
  PROVE  /\ Head(ring[s]) \in Pkt
         /\ [ring EXCEPT ![s] = Tail(@)] \in [Srcs -> Seq(Pkt)]
<1>1. ring[s] \in Seq(Pkt)
  OBVIOUS
<1>2. Head(ring[s]) \in Pkt /\ Tail(ring[s]) \in Seq(Pkt)
  BY <1>1, HeadTailProperties
<1> QED BY <1>2

(* a receive learns which message it got                                   *)
LEMMA NoteMsg ==
  ASSUME recvs \in Seq(CallRecord), NEW u, NEW msg \in Seq(Int),
         recvs' = [recvs EXCEPT ![u].msg = msg]
  PROVE  /\ recvs' \in Seq(CallRecord) /\ DOMAIN recvs' = DOMAIN recvs
         /\ \A c \in DOMAIN recvs : /\ recvs'[c].req = recvs[c].req
                                    /\ recvs'[c].open = recvs[c].open
<1>1. CASE u \in DOMAIN recvs
  <2>1. PICK c : c = [recvs[u] EXCEPT !.msg = msg]
    OBVIOUS
  <2>2. recvs' = [recvs EXCEPT ![u] = c]
    BY <2>1
  <2>3. recvs[u] \in CallRecord
    BY <1>1, ElementOfSeq
  <2>4. c \in CallRecord /\ c.req = recvs[u].req /\ c.open = recvs[u].open
    BY <2>1, <2>3 DEF CallRecord
  <2>5. u \in 1 .. Len(recvs)
    BY <1>1
  <2>6. [recvs EXCEPT ![u] = c] \in Seq(CallRecord)
    BY <2>4, <2>5, ExceptSeq
  <2> QED BY <1>1, <2>2, <2>4, <2>6
<1>2. CASE u \notin DOMAIN recvs
  <2>1. recvs' = [c \in DOMAIN recvs |-> recvs[c]]
    BY <1>2
  <2>2. recvs = [c \in DOMAIN recvs |-> recvs[c]]
    OBVIOUS
  <2> QED BY <2>1, <2>2
<1> QED BY <1>1, <1>2

LEMMA PktExpectedPool ==
  ASSUME PoolInv, NEW s \in Srcs, PktExpected(s)
  PROVE  PoolInv'
<1>a. PICK pkt : pkt = Head(ring[s])
  OBVIOUS
<1>b. PICK at : at = utf_explst_match(pkt.src, pkt.tag)
  OBVIOUS
<1>c. PICK i : i = explst[at].reqidx
  OBVIOUS
<1>d. PICK q : q = Header(req[i], pkt)
  OBVIOUS
<1>0. TypeLists /\ TypeRndz /\ RingsHold /\ Distinct /\ Roles /\ Counts
  BY DEF PoolInv
<1>1. /\ ring[s] # <<>> /\ urp[s].state = "R_NONE" /\ at # 0
      /\ ring' = [ring EXCEPT ![s] = Tail(@)]
      /\ explst' = RemoveAt(explst, at)
      /\ recvs' = [recvs EXCEPT ![q.usr].msg = <<pkt.src, pkt.msg>>]
      /\ \/ pkt.rndz /\ RgetStart(i, q) /\ UNCHANGED urp
         \/ ~ pkt.rndz /\ EagerCopy(s, i, q, pkt) /\ UNCHANGED rgetVars
      /\ UNCHANGED <<freelst, rreq_count, sreq_count, uexplst, sends, engine, fault,
                     rndzfree, rgetdone, sent>>
  BY <1>a, <1>b, <1>c, <1>d DEF PktExpected, utfgen_explst_match, utfslist_remove2, srcVars
<1>2. /\ explst \in Seq(Lst) /\ req \in [MsgReq -> ReqRecord] /\ recvs \in Seq(CallRecord)
      /\ urp \in [Srcs -> [state : {"R_NONE", "R_BODY"}, req : MsgReq \cup {NoReq}]]
  BY <1>0 DEF TypeLists
<1>3. pkt \in Pkt /\ ring' \in [Srcs -> Seq(Pkt)]
  BY <1>0, <1>a, <1>1, NextPacket DEF TypeRndz
<1>4. at \in 1 .. Len(explst) /\ at \in DOMAIN explst
  BY <1>b, <1>1, <1>2, ExpFirst
<1>5. i \in MsgReq /\ req[i] \in ReqRecord /\ i \in Expected
  <2>1. explst[at] \in Lst
    BY <1>2, <1>4, ElementOfSeq
  <2> QED BY <1>c, <1>2, <1>4, <2>1 DEF Lst, Expected, Held
<1>6. explst' \in Seq(Lst) /\ DistinctList(explst') /\ Held(explst') = Held(explst) \ {i}
  BY <1>0, <1>c, <1>1, <1>2, <1>4, ListRemove DEF Distinct
<1>7. i \notin Free /\ Role(i)
  BY <1>0, <1>5, UsedRole
<1>8. /\ req[i].type \in RecvTypes /\ req[i].state = "PRG_NORMAL"
      /\ i \notin Unexpected \cup Filling \cup Getting \cup engine \cup OpenSends
  BY <1>5, <1>7, TypesApart DEF Role
<1>9. /\ recvs' \in Seq(CallRecord) /\ DistinctOpen(recvs')
      /\ Opened(recvs') = Opened(recvs)
  <2>1. pkt.src \in Srcs /\ pkt.msg \in Nat
    BY <1>3 DEF Pkt
  <2>4. pkt.src \in Int
    BY <2>1, SrcsNumbers
  <2>2. <<pkt.src, pkt.msg>> \in Seq(Int)
    BY <2>1, <2>4
  <2>3. /\ recvs' \in Seq(CallRecord) /\ DOMAIN recvs' = DOMAIN recvs
        /\ \A c \in DOMAIN recvs : /\ recvs'[c].req = recvs[c].req
                                   /\ recvs'[c].open = recvs[c].open
    BY <1>1, <1>2, <2>2, NoteMsg
  <2> QED BY <1>0, <2>3, OpenKept DEF Distinct
<1>10. /\ q \in ReqRecord /\ q.type = req[i].type /\ q.state = "PRG_NORMAL"
       /\ q.rndzpos \in RndzPos
  <2>1. pkt.rndzpos \in RndzPos
    BY <1>3 DEF Pkt
  <2> QED BY <1>d, <1>3, <1>5, <1>8, <2>1, HeaderFacts
<1>11. urp[s].req = NoReq
  BY <1>0, <1>1, <1>2 DEF RingsHold
<1>12. PICK f \in ReqRecord :
         /\ Becomes(i, f) /\ f.type = req[i].type /\ f.rndzpos \in RndzPos
         /\ proglst' \in Seq(MsgReq) /\ IsInjective(proglst') /\ UNCHANGED lclget
         /\ urp' \in [Srcs -> [state : {"R_NONE", "R_BODY"}, req : MsgReq \cup {NoReq}]]
         /\ RingsHold' /\ DistinctRings'
         /\ \/ /\ f.state = "DO_RNDZ"
               /\ Getting' = Getting \cup {i} /\ Filling' = Filling
            \/ /\ f.state = "DONE"
               /\ Getting' = Getting /\ Filling' = Filling
            \/ /\ f.state = "PRG_NORMAL"
               /\ Getting' = Getting /\ Filling' = Filling \cup {i}
  <2>1. proglst \in Seq(MsgReq) /\ IsInjective(proglst) /\ i \notin ToSet(proglst)
    BY <1>0, <1>8 DEF TypeLists, Distinct, Getting
  <2>2. CASE pkt.rndz
    <3>1. PICK f : f = Wanted(q)
      OBVIOUS
    <3>2. /\ req' = [req EXCEPT ![i] = f] /\ proglst' = Append(proglst, i)
          /\ UNCHANGED <<lclget, urp>>
      BY <1>1, <2>2, <3>1 DEF RgetStart, utfslist_append
    <3>3. /\ f \in ReqRecord /\ f.type = req[i].type /\ f.state = "DO_RNDZ"
          /\ f.rndzpos \in RndzPos
      BY <1>10, <3>1, WantedFacts
    <3>4. Becomes(i, f)
      BY <1>0, <1>5, <3>2, <3>3, ReqStep
    <3>5. proglst' \in Seq(MsgReq) /\ IsInjective(proglst') /\ Getting' = Getting \cup {i}
      BY <1>5, <2>1, <3>2, SeqAppend DEF Getting
    <3>6. RingsHold' /\ DistinctRings' /\ Filling' = Filling
      BY <1>0, <3>2 DEF RingsHold, Distinct, DistinctRings, Filling
    <3> QED BY <1>2, <3>2, <3>3, <3>4, <3>5, <3>6
  <2>3. CASE ~ pkt.rndz
    <3>1. PICK f : f = Filled(q, pkt)
      OBVIOUS
    <3>2. EagerCopy(s, i, q, pkt) /\ UNCHANGED <<proglst, lclget>>
      BY <1>1, <2>3 DEF rgetVars
    <3>3. /\ f \in ReqRecord /\ f.type = req[i].type /\ f.state \in {"PRG_NORMAL", "DONE"}
          /\ f.rndzpos \in RndzPos
      BY <1>3, <1>10, <3>1, FilledFacts
    <3>4. /\ Becomes(i, f)
          /\ urp' \in [Srcs -> [state : {"R_NONE", "R_BODY"}, req : MsgReq \cup {NoReq}]]
          /\ RingsHold' /\ DistinctRings'
          /\ IF f.state = "DONE" THEN Filling' = Filling \ {i}
             ELSE Filling' = Filling \cup {i}
      <4>1. /\ DistinctRings /\ q.state \in {"NONE", "PRG_NORMAL"}
            /\ urp[s].req \in {NoReq, i} /\ (urp[s].req = NoReq => i \notin Filling)
        BY <1>0, <1>8, <1>10, <1>11 DEF Distinct
      <4> QED BY <1>0, <1>3, <1>5, <1>10, <3>1, <3>2, <4>1, EagerCopyFacts
    <3>5. Getting' = Getting
      BY <3>2 DEF Getting
    <3>6. Filling \ {i} = Filling
      BY <1>8
    <3> QED BY <2>1, <3>2, <3>3, <3>4, <3>5, <3>6
  <2> QED BY <2>2, <2>3
<1>13. TypeLists' /\ RingsHold'
  BY <1>0, <1>1, <1>6, <1>9, <1>12 DEF TypeLists, Becomes
<1>14. TypeRndz'
  <2>1. \A j \in MsgReq : req'[j].rndzpos \in RndzPos
    BY <1>0, <1>5, <1>12, PosKept
  <2> QED BY <1>0, <1>1, <1>3, <1>12, <2>1 DEF TypeRndz
<1>15. Distinct'
  BY <1>0, <1>1, <1>6, <1>9, <1>12 DEF Distinct
<1>16. /\ Expected' = Expected \ {i} /\ Unexpected' = Unexpected
       /\ OpenRecvs' = OpenRecvs /\ OpenSends' = OpenSends /\ Free' = Free
  BY <1>1, <1>6, <1>9 DEF Expected, Unexpected, OpenSends, OpenRecvs, Free
<1>17. \A j \in MsgReq : j # i => SameRole(j)
  BY <1>1, <1>12, <1>16 DEF SameRole, Becomes
<1>18. Role(i)'
  <2>1. /\ i \in Filling' => f.state \in {"NONE", "PRG_NORMAL"}
        /\ i \in Getting' => f.state = "DO_RNDZ"
    BY <1>8, <1>12
  <2>2. /\ req'[i] = f /\ f.type \in RecvTypes /\ i \notin Free' /\ i \notin engine'
        /\ i \notin OpenSends' /\ i \notin Expected' /\ i \notin Unexpected'
    BY <1>1, <1>7, <1>8, <1>12, <1>16 DEF Becomes
  <2> QED BY <2>1, <2>2 DEF Role
<1>19. Roles'
  BY <1>0, <1>5, <1>17, <1>18, RolesStep
<1>20. Counts'
  BY <1>0, <1>1, <1>12, CountsKept DEF Becomes
<1> QED BY <1>13, <1>14, <1>15, <1>19, <1>20 DEF PoolInv

LEMMA PktUnexpectedPool ==
  ASSUME PoolInv, NEW s \in Srcs, PktUnexpected(s)
  PROVE  PoolInv'
<1>a. PICK pkt : pkt = Head(ring[s])
  OBVIOUS
<1>b. PICK i : i = Head(freelst)
  OBVIOUS
<1>c. PICK st : st = IF pkt.rndz THEN "WAIT_RNDZ" ELSE "NONE"
  OBVIOUS
<1>d. PICK q : q = [Header(req[i], pkt) EXCEPT !.type = "RECV_UNEXPECTED",
                      !.rsize = 0, !.usr = 0, !.buf = <<>>, !.state = st]
  OBVIOUS
<1>e. PICK e : e = Listed(q, i)
  OBVIOUS
<1>0. TypeLists /\ TypeRndz /\ RingsHold /\ Distinct /\ Roles /\ Counts
  BY DEF PoolInv
<1>1. /\ ring[s] # <<>> /\ urp[s].state = "R_NONE"
      /\ UNCHANGED <<explst, proglst, lclget, rndzfree, rgetdone, sent, recvs, sends, engine>>
  BY DEF PktUnexpected, rgetVars, srcVars
<1>2. pkt \in Pkt /\ [ring EXCEPT ![s] = Tail(@)] \in [Srcs -> Seq(Pkt)]
  BY <1>0, <1>a, <1>1, NextPacket DEF TypeRndz
<1>3. CASE RecvReqRefused
  <2>1. /\ ring' = [ring EXCEPT ![s] = Tail(@)]
        /\ UNCHANGED <<poolVars, lstVars, urp, fault>>
    BY <1>3, <1>1 DEF PktUnexpected, lstVars
  <2>2. ring' \in [Srcs -> Seq(Pkt)] /\ fault' \in BOOLEAN
    BY <1>0, <1>2, <2>1 DEF TypeLists
  <2> QED BY <1>0, <1>1, <2>1, <2>2, PoolKept DEF TypeRndz
<1>4. CASE ~ RecvReqRefused /\ PoolEmpty
  <2>1. fault' = TRUE /\ UNCHANGED <<poolVars, lstVars, ring, urp>>
    BY <1>4, <1>1 DEF PktUnexpected, lstVars
  <2> QED BY <1>0, <1>1, <2>1, PoolKept DEF TypeRndz
<1>5. CASE ~ RecvReqRefused /\ ~ PoolEmpty
  <2>1. /\ ring' = [ring EXCEPT ![s] = Tail(@)] /\ freelst # <<>>
        /\ freelst' = Tail(freelst) /\ rreq_count' = rreq_count + 1
        /\ uexplst' = Append(uexplst, e)
        /\ \/ pkt.rndz /\ req' = [req EXCEPT ![i] = q] /\ UNCHANGED urp
           \/ ~ pkt.rndz /\ EagerCopy(s, i, q, pkt)
        /\ UNCHANGED <<sreq_count, fault>>
    BY <1>a, <1>b, <1>c, <1>d, <1>e, <1>5
       DEF PktUnexpected, utfslist_remove, utfslist_append, utfgen_uexplst_enqueue, PoolEmpty
  <2>2. i \in MsgReq /\ i \in Free
    BY <1>0, <1>b, <2>1, SeqTake DEF TypeLists, Distinct, Free
  <2>3. /\ req[i] \in ReqRecord /\ uexplst \in Seq(Lst)
        /\ urp \in [Srcs -> [state : {"R_NONE", "R_BODY"}, req : MsgReq \cup {NoReq}]]
    BY <1>0, <2>2 DEF TypeLists
  <2>4. i \notin Expected \cup Unexpected \cup Filling \cup Getting \cup engine
                   \cup OpenRecvs \cup OpenSends
    BY <1>0, <2>2, UsedRole
  <2>5. /\ q \in ReqRecord /\ q.type = "RECV_UNEXPECTED" /\ q.state = st
        /\ q.rndz = pkt.rndz /\ q.rndzpos \in RndzPos
    <3>1. PICK h : h = Header(req[i], pkt)
      OBVIOUS
    <3>2. h \in ReqRecord /\ h.rndz = pkt.rndz /\ h.rndzpos = pkt.rndzpos
      BY <1>2, <2>3, <3>1, HeaderFacts
    <3>3. <<>> \in Payloads /\ st \in {"WAIT_RNDZ", "NONE"} /\ pkt.rndzpos \in RndzPos
      BY <1>2, <1>c DEF Payloads, Pkt
    <3>4. q = [h EXCEPT !.type = "RECV_UNEXPECTED",
                        !.rsize = 0, !.usr = 0, !.buf = <<>>, !.state = st]
      BY <1>d, <3>1
    <3> QED BY <3>2, <3>3, <3>4 DEF ReqRecord
  <2>6. e \in Lst /\ e.reqidx = i
    BY <1>e, <2>2, <2>5, ListedFacts
  <2>7. /\ uexplst' \in Seq(Lst) /\ DistinctList(uexplst')
        /\ Held(uexplst') = Held(uexplst) \cup {i}
    BY <1>0, <2>1, <2>3, <2>4, <2>6, ListAppend DEF Distinct, Unexpected
  <2>8. urp[s].req = NoReq
    BY <1>0, <1>1, <2>3 DEF RingsHold
  <2>9. PICK f \in ReqRecord :
           /\ Becomes(i, f) /\ f.type = "RECV_UNEXPECTED" /\ f.rndzpos \in RndzPos
           /\ urp' \in [Srcs -> [state : {"R_NONE", "R_BODY"}, req : MsgReq \cup {NoReq}]]
           /\ RingsHold' /\ DistinctRings'
           /\ \/ f.state = "WAIT_RNDZ" /\ f.rndz = TRUE /\ Filling' = Filling
              \/ f.state = "DONE" /\ f.rndz = FALSE /\ Filling' = Filling
              \/ f.state = "NONE" /\ f.rndz = FALSE /\ Filling' = Filling \cup {i}
    <3>0. pkt.rndz \in BOOLEAN
      BY <1>2 DEF Pkt
    <3>1. CASE pkt.rndz
      <4>1. req' = [req EXCEPT ![i] = q] /\ UNCHANGED urp
        BY <2>1, <3>1
      <4>2. Becomes(i, q)
        BY <1>0, <2>2, <2>5, <4>1, ReqStep
      <4>3. RingsHold' /\ DistinctRings' /\ Filling' = Filling
        BY <1>0, <4>1 DEF RingsHold, Distinct, DistinctRings, Filling
      <4>4. q.state = "WAIT_RNDZ" /\ q.rndz = TRUE
        BY <1>c, <2>5, <3>1
      <4> QED BY <2>3, <2>5, <4>1, <4>2, <4>3, <4>4
    <3>2. CASE ~ pkt.rndz
      <4>1. PICK f : f = Filled(q, pkt)
        OBVIOUS
      <4>2. EagerCopy(s, i, q, pkt)
        BY <2>1, <3>2
      <4>3. q.state = "NONE" /\ q.rndz = FALSE
        BY <1>c, <2>5, <3>0, <3>2
      <4>4. /\ f \in ReqRecord /\ f.type = "RECV_UNEXPECTED" /\ f.state \in {"NONE", "DONE"}
            /\ f.rndzpos \in RndzPos /\ f.rndz = FALSE
        BY <1>2, <2>5, <4>1, <4>3, FilledFacts
      <4>5. /\ Becomes(i, f)
            /\ urp' \in [Srcs -> [state : {"R_NONE", "R_BODY"}, req : MsgReq \cup {NoReq}]]
            /\ RingsHold' /\ DistinctRings'
            /\ IF f.state = "DONE" THEN Filling' = Filling \ {i}
               ELSE Filling' = Filling \cup {i}
        <5>1. /\ DistinctRings /\ q.state \in {"NONE", "PRG_NORMAL"}
              /\ urp[s].req \in {NoReq, i} /\ (urp[s].req = NoReq => i \notin Filling)
          BY <1>0, <2>4, <2>8, <4>3 DEF Distinct
        <5> QED BY <1>0, <1>2, <2>2, <2>5, <4>1, <4>2, <5>1, EagerCopyFacts
      <4>6. Filling \ {i} = Filling
        BY <2>4
      <4> QED BY <4>4, <4>5, <4>6
    <3> QED BY <3>1, <3>2
  <2>10. Takes(i)
    BY <1>b, <2>1, <2>9 DEF Takes, Becomes
  <2>11. Free' = Free \ {i} /\ freelst' \in Seq(MsgReq) /\ IsInjective(freelst')
    BY <1>0, <2>10, TakesFacts
  <2>12. TypeLists' /\ RingsHold'
    BY <1>0, <1>1, <2>1, <2>7, <2>9, <2>11 DEF TypeLists, Becomes
  <2>13. TypeRndz'
    <3>1. \A j \in MsgReq : req'[j].rndzpos \in RndzPos
      BY <1>0, <2>2, <2>9, PosKept
    <3> QED BY <1>0, <1>1, <1>2, <2>1, <3>1 DEF TypeRndz
  <2>14. Distinct'
    BY <1>0, <1>1, <2>7, <2>9, <2>11 DEF Distinct
  <2>15. /\ Expected' = Expected /\ Unexpected' = Unexpected \cup {i} /\ Getting' = Getting
         /\ OpenRecvs' = OpenRecvs /\ OpenSends' = OpenSends
    BY <1>1, <2>7 DEF Expected, Unexpected, Getting, OpenSends, OpenRecvs
  <2>16. \A j \in MsgReq : j # i => SameRole(j)
    BY <1>1, <2>9, <2>11, <2>15 DEF SameRole, Becomes
  <2>17. Role(i)'
    <3>1. /\ i \in Filling' => f.state = "NONE"
          /\ f.state \in {"NONE", "DONE", "WAIT_RNDZ"} /\ (f.rndz <=> f.state = "WAIT_RNDZ")
      BY <2>4, <2>9
    <3>2. /\ req'[i] = f /\ f.type \in RecvTypes /\ i \notin Free' /\ i \notin engine'
          /\ i \notin OpenSends' /\ i \notin Expected' /\ i \notin Getting'
          /\ i \notin OpenRecvs'
      BY <1>1, <2>4, <2>9, <2>11, <2>15 DEF Becomes, RecvTypes
    <3> QED BY <3>1, <3>2 DEF Role
  <2>18. Roles'
    BY <1>0, <2>2, <2>16, <2>17, RolesStep
  <2>19. Counts'
    <3>1. req'[i].type \in RecvTypes
      BY <2>9 DEF Becomes, RecvTypes
    <3> QED BY <1>0, <1>5, <2>1, <2>10, <3>1, CountsTakeRecv
  <2> QED BY <2>12, <2>13, <2>14, <2>18, <2>19 DEF PoolInv
<1> QED BY <1>3, <1>4, <1>5

LEMMA PktBodyPool ==
  ASSUME PoolInv, NEW s \in Srcs, PktBody(s)
  PROVE  PoolInv'
<1>a. PICK pkt : pkt = Head(ring[s])
  OBVIOUS
<1>b. PICK i : i = urp[s].req
  OBVIOUS
<1>c. PICK f : f = Filled(req[i], pkt)
  OBVIOUS
<1>0. TypeLists /\ TypeRndz /\ RingsHold /\ Distinct /\ Roles /\ Counts
  BY DEF PoolInv
<1>1. /\ ring[s] # <<>> /\ urp[s].state = "R_BODY"
      /\ ring' = [ring EXCEPT ![s] = Tail(@)]
      /\ EagerCopy(s, i, req[i], pkt)
      /\ UNCHANGED <<freelst, rreq_count, sreq_count, explst, uexplst, proglst, lclget,
                     rndzfree, rgetdone, sent, recvs, sends, engine, fault>>
  BY <1>a, <1>b DEF PktBody, lstVars, rgetVars, srcVars
<1>2. pkt \in Pkt /\ ring' \in [Srcs -> Seq(Pkt)]
  BY <1>0, <1>a, <1>1, NextPacket DEF TypeRndz
<1>3. /\ urp \in [Srcs -> [state : {"R_NONE", "R_BODY"}, req : MsgReq \cup {NoReq}]]
      /\ req \in [MsgReq -> ReqRecord]
  BY <1>0 DEF TypeLists
<1>4. i \in MsgReq /\ i \in Filling /\ req[i] \in ReqRecord
  <2>1. i # NoReq
    BY <1>0, <1>b, <1>1 DEF RingsHold
  <2>2. i \in MsgReq
    BY <1>b, <1>3, <2>1
  <2> QED BY <1>b, <1>3, <2>1, <2>2 DEF Filling
<1>5. i \notin Free /\ Role(i)
  BY <1>0, <1>4, UsedRole
<1>6. /\ req[i].type \in RecvTypes /\ req[i].state \in {"NONE", "PRG_NORMAL"}
      /\ i \notin Expected \cup Getting \cup engine \cup OpenSends
      /\ i \in Unexpected => req[i].state = "NONE" /\ ~ req[i].rndz /\ i \notin OpenRecvs
  BY <1>4, <1>5, TypesApart DEF Role
<1>7. /\ f \in ReqRecord /\ f.type = req[i].type /\ f.state \in {req[i].state, "DONE"}
      /\ f.rndz = req[i].rndz /\ f.rndzpos = req[i].rndzpos
  BY <1>2, <1>4, <1>c, FilledFacts
<1>8. /\ Becomes(i, f)
      /\ urp' \in [Srcs -> [state : {"R_NONE", "R_BODY"}, req : MsgReq \cup {NoReq}]]
      /\ RingsHold' /\ DistinctRings'
      /\ IF f.state = "DONE" THEN Filling' = Filling \ {i} ELSE Filling' = Filling \cup {i}
  <2>1. DistinctRings /\ urp[s].req \in {NoReq, i} /\ (urp[s].req = NoReq => i \notin Filling)
    <3>1. i # NoReq
      BY <1>4, RecvAssumption DEF MsgReq, NoReq
    <3> QED BY <1>0, <1>b, <3>1 DEF Distinct
  <2> QED BY <1>0, <1>1, <1>2, <1>4, <1>6, <1>c, <2>1, EagerCopyFacts
<1>9. TypeLists' /\ RingsHold'
  BY <1>0, <1>1, <1>8 DEF TypeLists, Becomes
<1>10. TypeRndz'
  <2>1. \A j \in MsgReq : req'[j].rndzpos \in RndzPos
    BY <1>0, <1>4, <1>7, <1>8, PosKept DEF TypeRndz
  <2> QED BY <1>0, <1>1, <1>2, <2>1 DEF TypeRndz
<1>11. Distinct'
  BY <1>0, <1>1, <1>8 DEF Distinct
<1>12. /\ Expected' = Expected /\ Unexpected' = Unexpected /\ Getting' = Getting
       /\ OpenRecvs' = OpenRecvs /\ OpenSends' = OpenSends /\ Free' = Free
  BY <1>1 DEF Expected, Unexpected, Getting, OpenSends, OpenRecvs, Free
<1>13. \A j \in MsgReq : j # i => SameRole(j)
  BY <1>1, <1>8, <1>12 DEF SameRole, Becomes
<1>14. Role(i)'
  <2>1. /\ i \in Filling' => f.state \in {"NONE", "PRG_NORMAL"}
        /\ i \in Unexpected' =>
             /\ f.state \in {"NONE", "DONE", "WAIT_RNDZ"} /\ (f.rndz <=> f.state = "WAIT_RNDZ")
             /\ i \notin OpenRecvs'
    BY <1>6, <1>7, <1>8, <1>12
  <2>2. /\ req'[i] = f /\ f.type \in RecvTypes /\ i \notin Free' /\ i \notin engine'
        /\ i \notin OpenSends' /\ i \notin Expected' /\ i \notin Getting'
    BY <1>1, <1>5, <1>6, <1>7, <1>8, <1>12 DEF Becomes
  <2> QED BY <2>1, <2>2 DEF Role
<1>15. Roles'
  BY <1>0, <1>4, <1>13, <1>14, RolesStep
<1>16. Counts'
  BY <1>0, <1>1, <1>7, <1>8, CountsKept DEF Becomes
<1> QED BY <1>9, <1>10, <1>11, <1>15, <1>16 DEF PoolInv

-----------------------------------------------------------------------------
(* utf_rget_progress.                                                      *)

LEMMA MrqLclGetPool ==
  ASSUME PoolInv, NEW s \in Srcs, MrqLclGet(s)
  PROVE  PoolInv'
<1>a. PICK at : at = RgetOf(s)
  OBVIOUS
<1>b. PICK i : i = proglst[at]
  OBVIOUS
<1>0. TypeLists /\ TypeRndz /\ RingsHold /\ Distinct /\ Roles /\ Counts
  BY DEF PoolInv
<1>1. /\ lclget[s] > 0 /\ lclget' = [lclget EXCEPT ![s] = @ - 1] /\ fault' = (at = 0)
      /\ IF at = 0 THEN UNCHANGED <<req, proglst, rgetdone>> ELSE utf_rget_progress(s, at)
      /\ UNCHANGED <<freelst, rreq_count, sreq_count, explst, uexplst, urp, ring, rndzfree,
                     sent, recvs, sends, engine>>
  BY <1>a DEF MrqLclGet, lstVars, userVars
<1>2. lclget' \in [Srcs -> Nat] /\ fault' \in BOOLEAN
  <2>1. lclget \in [Srcs -> Nat]
    BY <1>0 DEF TypeRndz
  <2>2. lclget[s] - 1 \in Nat
    BY <1>1, <2>1
  <2> QED BY <1>1, <2>1, <2>2
<1>3. CASE at = 0
  <2>1. UNCHANGED <<poolVars, lstVars, urp, proglst, recvs, sends, engine>>
    BY <1>1, <1>3 DEF poolVars, lstVars
  <2> QED BY <1>0, <1>1, <1>2, <1>3, <2>1, PoolKept DEF TypeRndz
<1>4. CASE at # 0
  <2>1. /\ proglst \in Seq(MsgReq) /\ IsInjective(proglst) /\ req \in [MsgReq -> ReqRecord]
        /\ rgetdone \in [Srcs -> SUBSET RndzPos]
    BY <1>0 DEF TypeLists, Distinct, TypeRndz
  <2>2. at \in 1 .. Len(proglst) /\ at \in DOMAIN proglst
    BY <1>a, <1>4, <2>1, RgetFirst
  <2>3. i \in MsgReq /\ i \in Getting /\ req[i] \in ReqRecord
    <3>1. i \in MsgReq
      BY <1>b, <2>1, <2>2, ElementOfSeq
    <3> QED BY <1>b, <2>1, <2>2, <3>1 DEF Getting, ToSet
  <2>4. i \notin Free /\ Role(i)
    BY <1>0, <2>3, UsedRole
  <2>5. /\ req[i].type \in RecvTypes /\ req[i].state = "DO_RNDZ"
        /\ i \notin Expected \cup Unexpected \cup Filling \cup engine \cup OpenSends
    BY <2>3, <2>4, TypesApart DEF Role
  <2>6. PICK rest : rest = RemoveAt(proglst, at)
    OBVIOUS
  <2>7. rest \in Seq(MsgReq) /\ IsInjective(rest) /\ ToSet(rest) = Getting \ {i}
    BY <1>b, <2>1, <2>2, <2>6, SeqRemove DEF Getting
  <2>8. PICK f \in ReqRecord :
          /\ Becomes(i, f) /\ f.type = req[i].type /\ f.rndzpos \in RndzPos
          /\ proglst' \in Seq(MsgReq) /\ IsInjective(proglst')
          /\ rgetdone' \in [Srcs -> SUBSET RndzPos]
          /\ \/ f.state = "DO_RNDZ" /\ Getting' = Getting
             \/ f.state = "DONE" /\ Getting' = Getting \ {i}
    <3>0. req[i].rndzpos \in RndzPos
      BY <1>0, <2>3 DEF TypeRndz
    <3>1. CASE RgetMore(req[i])
      <4>1. PICK f : f = [req[i] EXCEPT !.rsize = @ + 1]
        OBVIOUS
      <4>2. /\ req' = [req EXCEPT ![i] = f] /\ proglst' = Append(rest, i)
            /\ UNCHANGED rgetdone
        BY <1>b, <1>1, <1>4, <2>6, <3>1, <4>1
           DEF utf_rget_progress, rget_continue, utfslist_append, utfslist_remove2
      <4>3. /\ f \in ReqRecord /\ f.type = req[i].type /\ f.state = "DO_RNDZ"
            /\ f.rndzpos = req[i].rndzpos
        BY <2>3, <2>5, <4>1 DEF ReqRecord
      <4>4. Becomes(i, f)
        BY <1>0, <2>3, <4>2, <4>3, ReqStep
      <4>5. proglst' \in Seq(MsgReq) /\ IsInjective(proglst') /\ ToSet(proglst') = ToSet(rest) \cup {i}
        <5>1. i \notin ToSet(rest)
          BY <2>7
        <5> QED BY <2>3, <2>7, <4>2, <5>1, SeqAppend
      <4>6. Getting' = Getting
        BY <2>3, <2>7, <4>5 DEF Getting
      <4> QED BY <2>1, <3>0, <4>2, <4>3, <4>4, <4>5, <4>6
    <3>2. CASE ~ RgetMore(req[i])
      <4>1. PICK f : f = [req[i] EXCEPT !.state = "DONE"]
        OBVIOUS
      <4>2. /\ req' = [req EXCEPT ![i] = f] /\ proglst' = rest
            /\ rgetdone' = [rgetdone EXCEPT ![s] = @ \cup {req[i].rndzpos}]
        BY <1>b, <1>1, <1>4, <2>6, <3>2, <4>1 DEF utf_rget_progress, utfslist_remove2
      <4>3. /\ f \in ReqRecord /\ f.type = req[i].type /\ f.state = "DONE"
            /\ f.rndzpos = req[i].rndzpos
        BY <2>3, <4>1 DEF ReqRecord
      <4>4. Becomes(i, f)
        BY <1>0, <2>3, <4>2, <4>3, ReqStep
      <4>5. Getting' = Getting \ {i}
        BY <2>7, <4>2 DEF Getting
      <4>6. rgetdone' \in [Srcs -> SUBSET RndzPos]
        BY <2>1, <3>0, <4>2
      <4> QED BY <2>7, <3>0, <4>2, <4>3, <4>4, <4>5, <4>6
    <3> QED BY <3>1, <3>2
  <2>9. TypeLists' /\ RingsHold'
    BY <1>0, <1>1, <1>2, <2>8 DEF TypeLists, Becomes, RingsHold
  <2>10. TypeRndz'
    <3>1. \A j \in MsgReq : req'[j].rndzpos \in RndzPos
      BY <1>0, <2>3, <2>8, PosKept
    <3> QED BY <1>0, <1>1, <1>2, <2>8, <3>1 DEF TypeRndz
  <2>11. Distinct'
    BY <1>0, <1>1, <2>8 DEF Distinct, DistinctRings
  <2>12. /\ Expected' = Expected /\ Unexpected' = Unexpected /\ Filling' = Filling
         /\ OpenRecvs' = OpenRecvs /\ OpenSends' = OpenSends /\ Free' = Free
    BY <1>1 DEF Expected, Unexpected, Filling, OpenSends, OpenRecvs, Free
  <2>13. \A j \in MsgReq : j # i => SameRole(j)
    BY <1>1, <2>8, <2>12 DEF SameRole, Becomes
  <2>14. Role(i)'
    <3>1. i \in Getting' => f.state = "DO_RNDZ"
      BY <2>8
    <3>2. /\ req'[i] = f /\ f.type \in RecvTypes /\ i \notin Free' /\ i \notin engine'
          /\ i \notin OpenSends' /\ i \notin Expected' /\ i \notin Unexpected'
          /\ i \notin Filling'
      BY <1>1, <2>4, <2>5, <2>8, <2>12 DEF Becomes
    <3> QED BY <3>1, <3>2 DEF Role
  <2>15. Roles'
    BY <1>0, <2>3, <2>13, <2>14, RolesStep
  <2>16. Counts'
    BY <1>0, <1>1, <2>8, CountsKept DEF Becomes
  <2> QED BY <2>9, <2>10, <2>11, <2>15, <2>16 DEF PoolInv
<1> QED BY <1>3, <1>4

-----------------------------------------------------------------------------
(* The pool.                                                               *)

LEMMA PoolInit == ASSUME Init PROVE PoolInv
<1>0. /\ MSGREQ_SIZE \in Nat /\ MsgReq = 0 .. MSGREQ_SIZE - 1 /\ MSGREQ_SEND_SZ \in Nat \ {0}
      /\ MSGREQ_RECV_SZ \in Nat
  BY RecvAssumption DEF MSGREQ_SIZE, MsgReq
<1>1. FreeReq \in ReqRecord /\ FreeReq.rndzpos = 0
  <2>1. <<>> \in Payloads
    BY DEF Payloads
  <2> QED BY <2>1 DEF FreeReq, ReqRecord
<1>2. /\ req = [i \in MsgReq |-> FreeReq]
      /\ freelst = [i \in 1 .. MSGREQ_SIZE |-> i - 1]
      /\ rreq_count = 0 /\ sreq_count = 0 /\ explst = <<>> /\ uexplst = <<>>
      /\ urp = [s \in Srcs |-> [state |-> "R_NONE", req |-> NoReq]]
      /\ ring = [s \in Srcs |-> <<>>] /\ proglst = <<>>
      /\ lclget = [s \in Srcs |-> 0]
      /\ rndzfree = [s \in Srcs |-> [i \in 1 .. MSGREQ_SEND_SZ |-> i - 1]]
      /\ rgetdone = [s \in Srcs |-> {}] /\ sent = [s \in Srcs |-> <<>>]
      /\ recvs = <<>> /\ sends = <<>> /\ engine = {} /\ fault = FALSE
  BY DEF Init
<1>3. /\ freelst \in Seq(MsgReq) /\ Len(freelst) = MSGREQ_SIZE
      /\ DOMAIN freelst = 1 .. MSGREQ_SIZE
  BY <1>0, <1>2
<1>4. TypeLists
  <2>1. req \in [MsgReq -> ReqRecord]
    BY <1>1, <1>2
  <2>2. urp \in [Srcs -> [state : {"R_NONE", "R_BODY"}, req : MsgReq \cup {NoReq}]]
    BY <1>2
  <2>3. /\ explst \in Seq(Lst) /\ uexplst \in Seq(Lst) /\ proglst \in Seq(MsgReq)
        /\ recvs \in Seq(CallRecord) /\ sends \in Seq([req : MsgReq, open : BOOLEAN])
    BY <1>2
  <2> QED BY <1>2, <1>3, <2>1, <2>2, <2>3 DEF TypeLists
<1>5. TypeRndz
  <2>1. \A i \in MsgReq : req[i].rndzpos \in RndzPos
    BY <1>0, <1>1, <1>2 DEF RndzPos
  <2>2. [i \in 1 .. MSGREQ_SEND_SZ |-> i - 1] \in Seq(RndzPos)
    BY <1>0 DEF RndzPos
  <2>3. rndzfree \in [Srcs -> Seq(RndzPos)]
    BY <1>2, <2>2
  <2>4. ring \in [Srcs -> Seq(Pkt)] /\ sent \in [Srcs -> Seq([tag : Tags, kind : Kinds])]
    BY <1>2
  <2> QED BY <1>2, <2>1, <2>3, <2>4 DEF TypeRndz
<1>6. RingsHold /\ DistinctRings /\ Filling = {}
  BY <1>2 DEF RingsHold, DistinctRings, Filling
<1>7. /\ DistinctList(explst) /\ DistinctList(uexplst) /\ IsInjective(proglst)
      /\ DistinctOpen(recvs) /\ DistinctOpen(sends)
  BY <1>2 DEF DistinctList, DistinctOpen, IsInjective
<1>8. IsInjective(freelst)
  BY <1>0, <1>2, <1>3 DEF IsInjective
<1>9. Distinct
  BY <1>6, <1>7, <1>8 DEF Distinct
<1>10. Free = MsgReq
  <2>1. ASSUME NEW i \in MsgReq PROVE i \in Free
    <3>1. i + 1 \in DOMAIN freelst /\ freelst[i + 1] = i
      BY <1>0, <1>2, <1>3
    <3> QED BY <3>1 DEF Free, ToSet
  <2>2. ASSUME NEW x \in Free PROVE x \in MsgReq
    <3>1. PICK j \in DOMAIN freelst : x = freelst[j]
      BY DEF Free, ToSet
    <3> QED BY <1>3, <3>1, ElementOfSeq
  <2> QED BY <2>1, <2>2
<1>11. /\ Expected = {} /\ Unexpected = {} /\ Getting = {} /\ OpenRecvs = {} /\ OpenSends = {}
  BY <1>2 DEF Expected, Unexpected, Held, Getting, ToSet, OpenRecvs, OpenSends, Opened
<1>12. Roles
  <2>1. InUse = {}
    BY <1>2, <1>6, <1>11, InUseIs
  <2> QED BY <1>2, <1>6, <1>10, <1>11, <2>1 DEF Roles, Role
<1>13. Counts
  <2>1. Off(RecvTypes) = {} /\ Off(SendTypes) = {}
    BY <1>10 DEF Off
  <2>2. Cardinality(Off(RecvTypes)) = 0 /\ Cardinality(Off(SendTypes)) = 0
    BY <2>1, FS_EmptySet
  <2> QED BY <1>0, <1>2, <1>3, <2>2 DEF Counts
<1> QED BY <1>4, <1>5, <1>6, <1>9, <1>12, <1>13 DEF PoolInv

LEMMA PoolNext == ASSUME PoolInv, [Next]_vars PROVE PoolInv'
<1>1. CASE UNCHANGED vars
  <2>1. UNCHANGED <<poolVars, lstVars, urp, ring, rgetVars, srcVars, userVars, fault>>
    BY <1>1 DEF vars
  <2>2. UNCHANGED <<proglst, lclget, rndzfree, rgetdone, sent, recvs, sends, engine>>
    BY <2>1 DEF rgetVars, srcVars, userVars
  <2> QED BY <2>1, <2>2, PoolKept DEF PoolInv, TypeLists, TypeRndz
<1>2. ASSUME NEW s \in Srcs, NEW tag \in Tags, NEW kind \in Kinds, Post(s, tag, kind)
      PROVE  PoolInv'
  BY <1>2, PostPool
<1>3. ASSUME NEW s \in Srcs, NEW pos \in rgetdone[s], RndzDone(s, pos)
      PROVE  PoolInv'
  BY <1>3, RndzDonePool
<1>4. ASSUME NEW s \in Srcs, Progress(s)
      PROVE  PoolInv'
  BY <1>4, PktExpectedPool, PktUnexpectedPool, PktBodyPool, MrqLclGetPool DEF Progress
<1>5. ASSUME NEW s \in Srcs, NetGet(s)
      PROVE  PoolInv'
  BY <1>5, NetGetPool
<1>6. ASSUME NEW a \in RecvArgs, Recv(a[1], a[2], a[3])
      PROVE  PoolInv'
  <2>1. a[1] \in Srcs \cup {ANY} /\ a[2] \in Tags \cup {ANY} /\ a[3] \in Nat
    BY RecvAssumption
  <2> QED BY <1>6, <2>1, RecvUnexpectedPool, RecvPostedPool DEF Recv
<1>7. ASSUME NEW r \in DOMAIN recvs, WaitRecv(r) \/ WaitCmplRecv(r)
      PROVE  PoolInv'
  BY <1>7, WaitRecvPool, WaitCmplRecvPool
<1>8. ASSUME NEW type \in SendTypes, Send(type)
      PROVE  PoolInv'
  BY <1>8, SendPool
<1>9. ASSUME NEW k \in DOMAIN sends, WaitSend(k)
      PROVE  PoolInv'
  BY <1>9, WaitSendPool
<1>10. ASSUME NEW i \in engine, EngineDone(i)
       PROVE  PoolInv'
  BY <1>10, EngineDonePool
<1> QED BY <1>1, <1>2, <1>3, <1>4, <1>5, <1>6, <1>7, <1>8, <1>9, <1>10 DEF Next

LEMMA PoolInvSound == ASSUME PoolInv PROVE PoolSound
<1>0. TypeLists /\ TypeRndz /\ Distinct /\ Roles /\ Counts
  BY DEF PoolInv
<1>1. rreq_count \in 0 .. MSGREQ_RECV_SZ + 1 /\ sreq_count \in 0 .. MSGREQ_SEND_SZ + 1
  <2>1. /\ Cardinality(Off(RecvTypes)) \in Nat /\ Cardinality(Off(SendTypes)) \in Nat
        /\ MSGREQ_RECV_SZ \in Nat /\ MSGREQ_SEND_SZ \in Nat
    BY OffFinite, RecvAssumption
  <2> QED BY <1>0, <2>1 DEF Counts
<1>2. TypeOK
  <2>1. \A s \in Srcs : rgetdone[s] \subseteq 0 .. MSGREQ_SEND_SZ - 1
    BY <1>0 DEF TypeRndz, RndzPos
  <2>2. lclget \in [Srcs -> Nat]
    BY <1>0 DEF TypeRndz
  <2> QED BY <1>0, <1>1, <2>1, <2>2 DEF TypeOK, TypeLists
<1>3. Free \subseteq MsgReq
  <2>1. freelst \in Seq(MsgReq)
    BY <1>0 DEF TypeLists
  <2> QED BY <2>1, ElementOfSeq DEF Free, ToSet
<1>4. Free \cap InUse = {}
  BY <1>0, <1>3 DEF Roles, Role
<1> QED BY <1>0, <1>2, <1>4 DEF PoolSound, Free, Distinct, Counts

(* The pool of requests is sound whatever the limits and the order of      *)
(* packets, receives, sends and waits: a request is on the free list at    *)
(* most once and only while no list, ring, get, send engine or caller      *)
(* refers to it, and the counters say how many are off the list            *)
(* (utf_recvreq_free, utf_sendreq_free, the reclaim flag of utf_wait).     *)
THEOREM PoolsSound == Spec => []PoolSound
<1>1. Init => PoolInv
  BY PoolInit
<1>2. PoolInv /\ [Next]_vars => PoolInv'
  BY PoolNext
<1>3. PoolInv => PoolSound
  BY PoolInvSound
<1> QED BY <1>1, <1>2, <1>3, PTL DEF Spec

-----------------------------------------------------------------------------
(* Matching.                                                               *)

LEMMA RemoveAtShrinks ==
  ASSUME NEW lst \in Seq(Lst), NEW at \in 1 .. Len(lst),
         NEW j \in DOMAIN RemoveAt(lst, at)
  PROVE  \E i \in DOMAIN lst : RemoveAt(lst, at)[j] = lst[i]
<1> DEFINE m == RemoveAt(lst, at)
<1>1. /\ m \in Seq(Lst) /\ Len(m) = Len(lst) - 1
      /\ \A k \in 1 .. Len(lst) - 1 : m[k] = lst[IF k < at THEN k ELSE k + 1]
  BY RemoveAtFacts
<1>2. DOMAIN m = 1 .. Len(lst) - 1 /\ DOMAIN lst = 1 .. Len(lst) /\ Len(lst) \in Nat
  BY <1>1
<1>3. j \in DOMAIN m
  OBVIOUS
<1> HIDE DEF m
<1>4. PICK u : u = IF j < at THEN j ELSE j + 1
  OBVIOUS
<1>5. u \in DOMAIN lst /\ m[j] = lst[u]
  BY <1>1, <1>2, <1>3, <1>4
<1> QED BY <1>5 DEF m

LEMMA AppendLast ==
  ASSUME NEW lst \in Seq(Lst), NEW e, NEW j \in DOMAIN Append(lst, e)
  PROVE  Append(lst, e)[j] = e \/ (j \in DOMAIN lst /\ Append(lst, e)[j] = lst[j])
OBVIOUS

(* the lists got shorter                                                   *)
LEMMA MatchShrinks ==
  ASSUME NoMissedMatch,
         \A j \in DOMAIN explst' : \E i \in DOMAIN explst : explst'[j] = explst[i],
         \A j \in DOMAIN uexplst' : \E i \in DOMAIN uexplst : uexplst'[j] = uexplst[i]
  PROVE  NoMissedMatch'
<1> SUFFICES ASSUME NEW i \in DOMAIN explst', NEW j \in DOMAIN uexplst', Exact(explst'[i])
             PROVE  <<explst'[i].src, explst'[i].tag>> # <<uexplst'[j].src, uexplst'[j].tag>>
  BY DEF NoMissedMatch, Exact
<1>1. PICK a \in DOMAIN explst : explst'[i] = explst[a]
  OBVIOUS
<1>2. PICK b \in DOMAIN uexplst : uexplst'[j] = uexplst[b]
  OBVIOUS
<1> QED BY <1>1, <1>2 DEF NoMissedMatch

LEMMA MatchNext == ASSUME PoolInv, NoMissedMatch, [Next]_vars PROVE NoMissedMatch'
<1>0. explst \in Seq(Lst) /\ uexplst \in Seq(Lst) /\ req \in [MsgReq -> ReqRecord]
  BY DEF PoolInv, TypeLists
<1>1. CASE UNCHANGED lstVars
  BY <1>1 DEF lstVars, NoMissedMatch
<1>2. ASSUME NEW src \in Srcs \cup {ANY}, NEW tag \in Tags \cup {ANY}, NEW size \in Nat,
             RecvUnexpected(src, tag, size)
      PROVE  NoMissedMatch'
  <2>1. PICK at : at = utf_uexplst_match(src, tag)
    OBVIOUS
  <2>2. at # 0 /\ uexplst' = RemoveAt(uexplst, at) /\ UNCHANGED explst
    BY <1>2, <2>1 DEF RecvUnexpected, utfslist_remove2
  <2>3. at \in 1 .. Len(uexplst)
    BY <1>0, <2>1, <2>2, UexpFirst
  <2>4. \A j \in DOMAIN uexplst' : \E i \in DOMAIN uexplst : uexplst'[j] = uexplst[i]
    BY <1>0, <2>2, <2>3, RemoveAtShrinks
  <2> QED BY <2>2, <2>4, MatchShrinks
<1>3. ASSUME NEW src \in Srcs \cup {ANY}, NEW tag \in Tags \cup {ANY}, NEW size \in Nat,
             RecvPosted(src, tag, size)
      PROVE  NoMissedMatch'
  <2>1. CASE PoolEmpty
    BY <1>1, <1>3, <2>1 DEF RecvPosted, Fault
  <2>2. CASE ~ PoolEmpty
    <3>1. PICK e : /\ explst' = Append(explst, e) /\ UNCHANGED uexplst
                   /\ e.src = src /\ e.tag = tag
      <4>1. PICK i : i = Head(freelst)
        OBVIOUS
      <4>2. PICK q : q = [req[i] EXCEPT !.state = "PRG_NORMAL", !.type = "RECV_EXPECTED",
                            !.src = src, !.tag = tag, !.rsize = 0, !.usrreqsz = size,
                            !.usr = Len(recvs) + 1]
        OBVIOUS
      <4>3. explst' = Append(explst, Listed(q, i)) /\ UNCHANGED uexplst
        BY <1>3, <2>2, <4>1, <4>2 DEF RecvPosted, utfslist_append
      <4>4. i \in MsgReq
        BY <2>2, <4>1, HeadTailProperties DEF PoolInv, TypeLists, PoolEmpty
      <4>5. req[i] \in ReqRecord
        BY <1>0, <4>4
      <4>6. q.src = src /\ q.tag = tag
        BY <4>2, <4>5 DEF ReqRecord
      <4> QED BY <4>3, <4>6 DEF Listed
    <3>2. \A j \in DOMAIN uexplst : ~ UexpMatches(src, tag, uexplst[j])
      BY <1>0, <1>3, UexpFirst DEF RecvPosted
    <3> SUFFICES ASSUME NEW i \in DOMAIN explst', NEW j \in DOMAIN uexplst', Exact(explst'[i])
                 PROVE  <<explst'[i].src, explst'[i].tag>> # <<uexplst'[j].src, uexplst'[j].tag>>
      BY DEF NoMissedMatch, Exact
    <3>3. j \in DOMAIN uexplst /\ uexplst'[j] = uexplst[j]
      BY <3>1
    <3>4. explst'[i] = e \/ (i \in DOMAIN explst /\ explst'[i] = explst[i])
      BY <1>0, <3>1, AppendLast
    <3>5. CASE explst'[i] = e
      BY <3>1, <3>2, <3>3, <3>5 DEF UexpMatches, Exact
    <3>6. CASE i \in DOMAIN explst /\ explst'[i] = explst[i]
      BY <3>3, <3>6 DEF NoMissedMatch
    <3> QED BY <3>4, <3>5, <3>6
  <2> QED BY <2>1, <2>2
<1>4. ASSUME NEW s \in Srcs, PktExpected(s)
      PROVE  NoMissedMatch'
  <2>1. PICK at : at = utfgen_explst_match(Head(ring[s]))
    OBVIOUS
  <2>2. at # 0 /\ explst' = RemoveAt(explst, at) /\ UNCHANGED uexplst
    BY <1>4, <2>1 DEF PktExpected, utfslist_remove2
  <2>3. at \in 1 .. Len(explst)
    BY <1>0, <2>1, <2>2, ExpFirst DEF utfgen_explst_match
  <2>4. \A j \in DOMAIN explst' : \E i \in DOMAIN explst : explst'[j] = explst[i]
    BY <1>0, <2>2, <2>3, RemoveAtShrinks
  <2> QED BY <2>2, <2>4, MatchShrinks
<1>5. ASSUME NEW s \in Srcs, PktUnexpected(s)
      PROVE  NoMissedMatch'
  <2>0. PICK pkt : pkt = Head(ring[s])
    OBVIOUS
  <2>1. CASE RecvReqRefused \/ PoolEmpty
    <3>1. UNCHANGED lstVars
      BY <1>5, <2>1 DEF PktUnexpected, lstVars
    <3> QED BY <1>1, <3>1
  <2>2. CASE ~ RecvReqRefused /\ ~ PoolEmpty
    <3>1. PICK e : /\ uexplst' = Append(uexplst, e) /\ UNCHANGED explst
                   /\ e.src = pkt.src /\ e.tag = pkt.tag
      <4>1. PICK i : i = Head(freelst)
        OBVIOUS
      <4>2. PICK h : h = Header(req[i], pkt)
        OBVIOUS
      <4>3. PICK st : st = IF pkt.rndz THEN "WAIT_RNDZ" ELSE "NONE"
        OBVIOUS
      <4>4. PICK q : q = [h EXCEPT !.type = "RECV_UNEXPECTED",
                            !.rsize = 0, !.usr = 0, !.buf = <<>>, !.state = st]
        OBVIOUS
      <4>5. uexplst' = Append(uexplst, Listed(q, i)) /\ UNCHANGED explst
        BY <1>5, <2>0, <2>2, <4>1, <4>2, <4>3, <4>4
           DEF PktUnexpected, utfgen_uexplst_enqueue, utfslist_append
      <4>6. i \in MsgReq
        BY <2>2, <4>1, HeadTailProperties DEF PoolInv, TypeLists, PoolEmpty
      <4>7. req[i] \in ReqRecord /\ pkt \in Pkt
        BY <1>0, <1>5, <2>0, <4>6, NextPacket DEF PktUnexpected, PoolInv, TypeRndz
      <4>8. h \in ReqRecord /\ h.src = pkt.src /\ h.tag = pkt.tag
        BY <4>2, <4>7, HeaderFacts
      <4>9. q.src = h.src /\ q.tag = h.tag
        BY <4>4, <4>8 DEF ReqRecord
      <4> QED BY <4>5, <4>8, <4>9 DEF Listed
    <3>2. \A j \in DOMAIN explst : ~ ExpMatches(explst[j], pkt.src, pkt.tag)
      BY <1>0, <1>5, <2>0, ExpFirst DEF PktUnexpected, utfgen_explst_match
    <3> SUFFICES ASSUME NEW i \in DOMAIN explst', NEW j \in DOMAIN uexplst', Exact(explst'[i])
                 PROVE  <<explst'[i].src, explst'[i].tag>> # <<uexplst'[j].src, uexplst'[j].tag>>
      BY DEF NoMissedMatch, Exact
    <3>3. i \in DOMAIN explst /\ explst'[i] = explst[i]
      BY <3>1
    <3>4. uexplst'[j] = e \/ (j \in DOMAIN uexplst /\ uexplst'[j] = uexplst[j])
      BY <1>0, <3>1, AppendLast
    <3>5. CASE uexplst'[j] = e
      BY <3>1, <3>2, <3>3, <3>5 DEF ExpMatches
    <3>6. CASE j \in DOMAIN uexplst /\ uexplst'[j] = uexplst[j]
      BY <3>3, <3>6 DEF NoMissedMatch
    <3> QED BY <3>4, <3>5, <3>6
  <2> QED BY <2>1, <2>2
<1>6. ASSUME NEW s \in Srcs, Progress(s)
      PROVE  NoMissedMatch'
  <2>1. PktBody(s) => UNCHANGED lstVars
    BY DEF PktBody
  <2>2. MrqLclGet(s) => UNCHANGED lstVars
    BY DEF MrqLclGet
  <2> QED BY <1>1, <1>4, <1>5, <1>6, <2>1, <2>2 DEF Progress
<1>7. ASSUME NEW a \in RecvArgs, Recv(a[1], a[2], a[3])
      PROVE  NoMissedMatch'
  <2>1. a[1] \in Srcs \cup {ANY} /\ a[2] \in Tags \cup {ANY} /\ a[3] \in Nat
    BY RecvAssumption
  <2> QED BY <1>2, <1>3, <1>7, <2>1 DEF Recv
<1>8. \A s \in Srcs, tag \in Tags, kind \in Kinds : Post(s, tag, kind) => UNCHANGED lstVars
  BY DEF Post, Fault
<1>9. \A s \in Srcs : \A pos \in rgetdone[s] : RndzDone(s, pos) => UNCHANGED lstVars
  BY DEF RndzDone
<1>10. \A s \in Srcs : NetGet(s) => UNCHANGED lstVars
  BY DEF NetGet
<1>11. \A r \in DOMAIN recvs : WaitRecv(r) \/ WaitCmplRecv(r) => UNCHANGED lstVars
  BY DEF WaitRecv, WaitCmplRecv
<1>12. \A type \in SendTypes : Send(type) => UNCHANGED lstVars
  BY DEF Send, Fault
<1>13. \A k \in DOMAIN sends : WaitSend(k) => UNCHANGED lstVars
  BY DEF WaitSend
<1>14. \A i \in engine : EngineDone(i) => UNCHANGED lstVars
  BY DEF EngineDone
<1>15. UNCHANGED vars => UNCHANGED lstVars
  BY DEF vars
<1> QED BY <1>1, <1>6, <1>7, <1>8, <1>9, <1>10, <1>11, <1>12, <1>13, <1>14, <1>15 DEF Next

(* A posted receive for a source and a tag never waits while a message     *)
(* with that source and tag is queued, whichever came first and whatever   *)
(* came between: utf_recv searches utf_uexplst before it posts, and        *)
(* utf_recvengine searches utf_explst before it queues.                    *)
THEOREM MatchesMeet == Spec => []NoMissedMatch
<1>1. Init => PoolInv /\ NoMissedMatch
  <2>1. Init => PoolInv
    BY PoolInit
  <2>2. Init => NoMissedMatch
    BY DEF Init, NoMissedMatch
  <2> QED BY <2>1, <2>2
<1>2. PoolInv /\ NoMissedMatch /\ [Next]_vars => PoolInv' /\ NoMissedMatch'
  BY PoolNext, MatchNext
<1> QED BY <1>1, <1>2, PTL DEF Spec

-----------------------------------------------------------------------------
(* The data: what a step on request i leaves alone.                        *)

(* the requests but i, the receives but the one that waits for i, and the  *)
(* messages that were sent                                                 *)
Left(i) ==
  /\ \A j \in MsgReq : j # i => req'[j] = req[j]
  /\ \A r \in DOMAIN recvs :
       ~ (recvs[r].open /\ recvs[r].req = i) =>
         r \in DOMAIN recvs' /\ recvs'[r] = recvs[r] /\ ubuf'[r] = ubuf[r]
  /\ \A s \in Srcs : \A n \in DOMAIN sent[s] :
       n \in DOMAIN sent'[s] /\ sent'[s][n] = sent[s][n]

LEMMA CarriesKept ==
  ASSUME NEW i, Left(i), NEW j \in MsgReq, j # i, Carries(j)
  PROVE  Carries(j)'
<1>1. req'[j] = req[j]
  BY DEF Left
<1>2. PICK q : q = req[j]
  OBVIOUS
<1>3. /\ q.src \in Srcs /\ q.msg \in DOMAIN sent[q.src]
      /\ q.size = sent[q.src][q.msg].kind.size /\ q.rndz = sent[q.src][q.msg].kind.rndz
  BY <1>2 DEF Carries
<1>4. q.msg \in DOMAIN sent'[q.src] /\ sent'[q.src][q.msg] = sent[q.src][q.msg]
  BY <1>3 DEF Left
<1> QED BY <1>1, <1>2, <1>3, <1>4 DEF Carries

LEMMA ServesKept ==
  ASSUME NEW i, Left(i), NEW j \in MsgReq, j # i, Serves(j), NEW u, u = req[j].usr
  PROVE  Serves(j)' /\ req'[j].usr = u /\ recvs'[u] = recvs[u] /\ ubuf'[u] = ubuf[u]
<1>1. req'[j] = req[j]
  BY DEF Left
<1>2. u \in DOMAIN recvs /\ recvs[u].open /\ ~ recvs[u].late /\ recvs[u].req = j
  BY DEF Serves
<1>3. u \in DOMAIN recvs' /\ recvs'[u] = recvs[u] /\ ubuf'[u] = ubuf[u]
  BY <1>2 DEF Left
<1> QED BY <1>1, <1>2, <1>3 DEF Serves

LEMMA FilledKept ==
  ASSUME NEW i, Left(i), NEW j \in MsgReq, j # i, FilledOf(j)
  PROVE  FilledOf(j)'
<1>1. req'[j] = req[j]
  BY DEF Left
<1>2. Carries(j)'
  BY CarriesKept DEF FilledOf
<1>3. PICK u : u = req[j].usr
  OBVIOUS
<1>4. CASE u = 0
  BY <1>1, <1>2, <1>3, <1>4 DEF FilledOf
<1>5. CASE u # 0
  <2>1. Serves(j)' /\ recvs'[u] = recvs[u] /\ ubuf'[u] = ubuf[u]
    BY <1>3, <1>5, ServesKept DEF FilledOf
  <2> QED BY <1>1, <1>2, <1>3, <1>5, <2>1 DEF FilledOf
<1> QED BY <1>4, <1>5

LEMMA QueuedKept ==
  ASSUME NEW i, Left(i), NEW j \in MsgReq, j # i, QueuedOf(j)
  PROVE  QueuedOf(j)'
<1>1. req'[j] = req[j]
  BY DEF Left
<1>2. Carries(j)'
  BY CarriesKept DEF QueuedOf
<1> QED BY <1>1, <1>2 DEF QueuedOf

LEMMA PostedKept ==
  ASSUME NEW i, Left(i), NEW j \in MsgReq, j # i, PostedOf(j)
  PROVE  PostedOf(j)'
<1>1. req'[j] = req[j]
  BY DEF Left
<1>2. PICK u : u = req[j].usr
  OBVIOUS
<1>3. Serves(j)' /\ recvs'[u] = recvs[u] /\ ubuf'[u] = ubuf[u]
  BY <1>2, ServesKept DEF PostedOf
<1> QED BY <1>1, <1>2, <1>3 DEF PostedOf

LEMMA GotKept ==
  ASSUME NEW i, Left(i), NEW j \in MsgReq, j # i, GotOf(j), InFlight(j)' = InFlight(j)
  PROVE  GotOf(j)'
<1>1. req'[j] = req[j]
  BY DEF Left
<1>2. PICK u : u = req[j].usr
  OBVIOUS
<1>3. Serves(j)' /\ recvs'[u] = recvs[u] /\ ubuf'[u] = ubuf[u]
  BY <1>2, ServesKept DEF GotOf
<1>4. Carries(j)'
  BY CarriesKept DEF GotOf
<1> QED BY <1>1, <1>2, <1>3, <1>4 DEF GotOf

LEMMA HasAllKept ==
  ASSUME NEW i, Left(i), NEW r \in DOMAIN recvs, HasAll(r),
         recvs'[r].msg = recvs[r].msg, recvs'[r].size = recvs[r].size, ubuf'[r] = ubuf[r]
  PROVE  HasAll(r)'
<1>1. PICK s, n : s = recvs[r].msg[1] /\ n = recvs[r].msg[2]
  OBVIOUS
<1>2. /\ recvs[r].msg = <<s, n>> /\ s \in Srcs /\ n \in DOMAIN sent[s]
      /\ ubuf[r] = Parts(s, n, Fits(recvs[r].size, sent[s][n].kind.size))
  BY <1>1 DEF HasAll
<1>3. n \in DOMAIN sent'[s] /\ sent'[s][n] = sent[s][n]
  BY <1>2 DEF Left
<1>4. s = recvs'[r].msg[1] /\ n = recvs'[r].msg[2]
  BY <1>1
<1> QED BY <1>2, <1>3, <1>4 DEF HasAll

LEMMA DoneKept ==
  ASSUME recvs \in Seq(CallRecord), NEW i, Left(i), NEW r \in DOMAIN recvs,
         ~ (recvs[r].open /\ recvs[r].req = i), DoneOf(r)
  PROVE  DoneOf(r)'
<1>1. r \in DOMAIN recvs' /\ recvs'[r] = recvs[r] /\ ubuf'[r] = ubuf[r]
  BY DEF Left
<1>2. recvs[r].req \in MsgReq
  <2>1. recvs[r] \in CallRecord
    BY ElementOfSeq
  <2> QED BY <2>1 DEF CallRecord
<1>3. PICK j : j = recvs[r].req
  OBVIOUS
<1>4. recvs[r].open => req'[j] = req[j]
  BY <1>2, <1>3 DEF Left
<1>5. HasAll(r) => HasAll(r)'
  BY <1>1, HasAllKept
<1> QED BY <1>1, <1>3, <1>4, <1>5 DEF DoneOf

(* a receive that has its message keeps it                                 *)
StaysHere(r) ==
  Here(r) => r \in DOMAIN recvs' /\ recvs'[r].msg = recvs[r].msg /\ Here(r)'
Stays == \A r \in DOMAIN recvs : StaysHere(r)

(* a request that is or waits for a transfer was so, for the same message  *)
SameMsg(j) ==
  /\ req'[j].src = req[j].src /\ req'[j].msg = req[j].msg
  /\ req'[j].rndzpos = req[j].rndzpos
RemainBut(i) == \A j \in Transfers' : j # i => j \in Transfers /\ SameMsg(j)
Remains == \A j \in Transfers' : j \in Transfers /\ SameMsg(j)

(* request i takes over the rendezvous of the next packet of source s      *)
FromPkt(s, i) ==
  /\ ring[s] # <<>> /\ ring' = [ring EXCEPT ![s] = Tail(@)]
  /\ ring[s][1].rndz
  /\ req'[i].src = s /\ req'[i].msg = ring[s][1].msg
  /\ req'[i].rndzpos = ring[s][1].rndzpos
TakesOver(s) ==
  \E i \in MsgReq : RemainBut(i) /\ (i \in Transfers' => FromPkt(s, i))

(* the source is told of a message that is all there                       *)
Reports(s) ==
  \/ UNCHANGED rgetdone
  \/ \E i \in Getting : \E n \in {req[i].msg} :
       /\ req[i].src = s /\ i \notin Transfers' /\ GotWhole(s, n)'
       /\ rgetdone' = [rgetdone EXCEPT ![s] = @ \cup {req[i].rndzpos}]

LEMMA StaysStep ==
  ASSUME PoolInv, NEW i, Left(i),
         \A r \in DOMAIN recvs : recvs[r].open /\ recvs[r].req = i => StaysHere(r)
  PROVE  Stays
<1>1. recvs \in Seq(CallRecord)
  BY DEF PoolInv, TypeLists
<1>2. ASSUME NEW r \in DOMAIN recvs, ~ (recvs[r].open /\ recvs[r].req = i), Here(r)
      PROVE  r \in DOMAIN recvs' /\ recvs'[r].msg = recvs[r].msg /\ Here(r)'
  <2>1. r \in DOMAIN recvs' /\ recvs'[r] = recvs[r] /\ ubuf'[r] = ubuf[r]
    BY <1>2 DEF Left
  <2>2. recvs[r].req \in MsgReq
    <3>1. recvs[r] \in CallRecord
      BY <1>1, ElementOfSeq
    <3> QED BY <3>1 DEF CallRecord
  <2>3. PICK j : j = recvs[r].req
    OBVIOUS
  <2>4. recvs[r].open => req'[j] = req[j]
    BY <1>2, <2>2, <2>3 DEF Left
  <2>5. HasAll(r)'
    BY <1>2, <2>1, HasAllKept DEF Here
  <2> QED BY <1>2, <2>1, <2>3, <2>4, <2>5 DEF Here
<1> QED BY <1>2 DEF Stays, StaysHere

(* no receive that waits for i has its message                             *)
LEMMA StaysBusy ==
  ASSUME PoolInv, NEW i, Left(i), req[i].state # "DONE" \/ i \notin OpenRecvs
  PROVE  Stays
<1>1. ASSUME NEW r \in DOMAIN recvs, recvs[r].open, recvs[r].req = i PROVE StaysHere(r)
  BY <1>1 DEF StaysHere, Here, OpenRecvs, Opened
<1> QED BY <1>1, StaysStep

LEMMA RemainStep ==
  ASSUME NEW i, Left(i),
         \A j \in MsgReq : j # i =>
           /\ j \in Unexpected' => j \in Unexpected
           /\ j \in Getting' => j \in Getting,
         Unexpected' \subseteq MsgReq, Getting' \subseteq MsgReq
  PROVE  RemainBut(i)
<1>1. \A j \in MsgReq : j # i => req'[j] = req[j]
  BY DEF Left
<1>2. Transfers' \subseteq MsgReq
  BY DEF Transfers
<1>3. ASSUME NEW j \in MsgReq, j # i, j \in Transfers' PROVE j \in Transfers
  <2>1. j \in Getting' \/ (j \in Unexpected' /\ req'[j].rndz)
    BY <1>3 DEF Transfers
  <2>2. req'[j] = req[j]
    BY <1>1, <1>3
  <2>3. j \in Getting' => j \in Getting
    BY <1>3
  <2>4. j \in Unexpected' => j \in Unexpected
    BY <1>3
  <2>5. j \in Getting \/ (j \in Unexpected /\ req[j].rndz)
    BY <2>1, <2>2, <2>3, <2>4
  <2> QED BY <2>5 DEF Transfers
<1> QED BY <1>1, <1>2, <1>3 DEF RemainBut, SameMsg

LEMMA RemainOther ==
  ASSUME NEW i, RemainBut(i), i \in Transfers' => i \in Transfers /\ SameMsg(i)
  PROVE  Remains
BY DEF Remains, RemainBut

(* request i is none of them                                               *)
LEMMA RemainAll ==
  ASSUME NEW i, Left(i), i \notin Unexpected \cup Getting,
         Unexpected' = Unexpected, Getting' = Getting,
         Unexpected \subseteq MsgReq, Getting \subseteq MsgReq
  PROVE  Remains
<1>1. RemainBut(i)
  BY RemainStep
<1>2. i \notin Transfers'
  BY DEF Transfers
<1> QED BY <1>1, <1>2, RemainOther

(* A step on request i keeps what is said of the requests and receives if  *)
(* it establishes it for i, for the receive that waits for i and for new   *)
(* ones.                                                                   *)
LEMMA DataStep ==
  ASSUME PoolInv, DataInv, NEW i, Left(i),
         \A j \in MsgReq : j # i =>
           /\ j \in Filling' => j \in Filling
           /\ j \in Unexpected' => j \in Unexpected
           /\ j \in Expected' => j \in Expected
           /\ j \in Getting' => j \in Getting /\ InFlight(j)' = InFlight(j),
         Filling' \cup Unexpected' \cup Expected' \cup Getting' \subseteq MsgReq,
         i \in Filling' => FilledOf(i)', i \in Unexpected' => QueuedOf(i)',
         i \in Expected' => PostedOf(i)', i \in Getting' => GotOf(i)',
         \A r \in DOMAIN recvs' :
           (r \in DOMAIN recvs => recvs[r].open /\ recvs[r].req = i) => DoneOf(r)'
  PROVE  (\A j \in Filling : FilledOf(j))' /\ Queued' /\ Posted' /\ Got' /\ DoneRecvs'
<1>1. (\A j \in Filling : FilledOf(j))'
  BY FilledKept DEF DataInv, Fill
<1>2. Queued'
  BY QueuedKept DEF DataInv, Queued
<1>3. Posted'
  BY PostedKept DEF DataInv, Posted
<1>4. Got'
  BY GotKept DEF DataInv, Got
<1>5. DoneRecvs'
  BY DoneKept DEF DataInv, DoneRecvs, PoolInv, TypeLists
<1> QED BY <1>1, <1>2, <1>3, <1>4, <1>5

-----------------------------------------------------------------------------
(* The stream of packets.                                                  *)

LEMMA StreamKept ==
  ASSUME NEW s \in Srcs, StreamOf(s), ring'[s] = ring[s], urp'[s] = urp[s],
         \A n \in DOMAIN sent[s] : n \in DOMAIN sent'[s] /\ sent'[s][n] = sent[s][n],
         NEW j, j = urp[s].req,
         j = NoReq \/ (req'[j].msg = req[j].msg /\ req'[j].rsize = req[j].rsize)
  PROVE  StreamOf(s)'
<1>1. PICK a : a = ring[s] /\ a = ring'[s]
  OBVIOUS
<1>2. \A x \in DOMAIN a : PktOf(s, a[x])
  BY <1>1 DEF StreamOf
<1>3. \A x \in DOMAIN a : PktOf(s, a[x])'
  BY <1>2 DEF PktOf
<1>4. StreamOf(s)' = (/\ \A x \in DOMAIN a : PktOf(s, a[x])'
                      /\ \A x \in DOMAIN a : x + 1 \in DOMAIN a => Follows(a[x], a[x + 1])
                      /\ a # <<>> => LastPart(a[Len(a)])
                      /\ IF j = NoReq THEN a # <<>> => a[1].part = 1
                         ELSE a # <<>> /\ a[1].msg = req'[j].msg
                                /\ a[1].part = req'[j].rsize + 1)
  BY <1>1 DEF StreamOf, NextIs, PktOf
<1> QED BY <1>1, <1>3, <1>4 DEF StreamOf, NextIs

(* the next packet was handled                                             *)
LEMMA StreamNext ==
  ASSUME ring \in [Srcs -> Seq(Pkt)], NEW s \in Srcs, StreamOf(s), ring[s] # <<>>,
         NEW pkt, pkt = ring[s][1], ring'[s] = Tail(ring[s]),
         \A n \in DOMAIN sent[s] : n \in DOMAIN sent'[s] /\ sent'[s][n] = sent[s][n],
         NEW j, urp'[s].req = j,
         IF LastPart(pkt) THEN j = NoReq
         ELSE j # NoReq /\ req'[j].msg = pkt.msg /\ req'[j].rsize = pkt.part
  PROVE  StreamOf(s)'
<1>1. PICK a : a = ring[s]
  OBVIOUS
<1>2. PICK b : b = Tail(a)
  OBVIOUS
<1>3. /\ a \in Seq(Pkt) /\ Len(a) \in Nat \ {0} /\ pkt = a[1]
      /\ b \in Seq(Pkt) /\ Len(b) = Len(a) - 1
      /\ \A x \in 1 .. Len(a) - 1 : b[x] = a[x + 1]
  BY <1>1, <1>2, HeadTailProperties, EmptySeq
<1>4. DOMAIN a = 1 .. Len(a) /\ DOMAIN b = 1 .. Len(a) - 1
  BY <1>3
<1>5. \A x \in DOMAIN b : x + 1 \in DOMAIN a /\ b[x] = a[x + 1]
  BY <1>3, <1>4
<1>6. /\ \A x \in DOMAIN a : PktOf(s, a[x])
      /\ \A x \in DOMAIN a : x + 1 \in DOMAIN a => Follows(a[x], a[x + 1])
      /\ LastPart(a[Len(a)])
  BY <1>1 DEF StreamOf
<1>7. \A x \in DOMAIN b : PktOf(s, b[x])'
  BY <1>5, <1>6 DEF PktOf
<1>8. \A x \in DOMAIN b : x + 1 \in DOMAIN b => Follows(b[x], b[x + 1])
  BY <1>5, <1>6
<1>9. b # <<>> => LastPart(b[Len(b)])
  <2>1. CASE Len(a) = 1
    BY <1>3, <2>1
  <2>2. CASE Len(a) # 1
    BY <1>3, <1>4, <1>6, <2>2
  <2> QED BY <2>1, <2>2
<1>10. b # <<>> => b[1] = a[2] /\ Follows(pkt, a[2])
  <2>1. b # <<>> => 1 \in DOMAIN b
    BY <1>3, <1>4
  <2>2. b # <<>> => b[1] = a[1 + 1] /\ 1 + 1 \in DOMAIN a /\ 1 \in DOMAIN a
    BY <1>3, <1>4, <1>5, <2>1
  <2>3. 1 + 1 = 2
    OBVIOUS
  <2>4. b # <<>> => Follows(a[1], a[1 + 1])
    BY <1>6, <2>2
  <2> QED BY <1>3, <2>2, <2>3, <2>4
<1>11. b = <<>> => LastPart(pkt)
  <2>1. b = <<>> => Len(a) = 1
    BY <1>3
  <2> QED BY <1>3, <1>6, <2>1
<1>12. ring'[s] = b
  BY <1>1, <1>2
<1>13. IF j = NoReq THEN b # <<>> => b[1].part = 1
       ELSE b # <<>> /\ b[1].msg = req'[j].msg /\ b[1].part = req'[j].rsize + 1
  BY <1>10, <1>11 DEF Follows
<1>14. StreamOf(s)' = (/\ \A x \in DOMAIN b : PktOf(s, b[x])'
                       /\ \A x \in DOMAIN b : x + 1 \in DOMAIN b => Follows(b[x], b[x + 1])
                       /\ b # <<>> => LastPart(b[Len(b)])
                       /\ IF j = NoReq THEN b # <<>> => b[1].part = 1
                          ELSE b # <<>> /\ b[1].msg = req'[j].msg
                                 /\ b[1].part = req'[j].rsize + 1)
  BY <1>12 DEF StreamOf, NextIs, PktOf
<1> QED BY <1>7, <1>8, <1>9, <1>13, <1>14

(* the packets of a new message                                            *)
Count(kind) == IF kind.rndz THEN 1 ELSE kind.size

LEMMA PacketsAre ==
  ASSUME NEW s \in Srcs, NEW n \in Nat, NEW tag \in Tags, NEW kind \in Kinds, NEW pos \in RndzPos,
         NEW p, p = Packets(s, n, tag, kind, pos), NEW m, m = Count(kind)
  PROVE  /\ p \in Seq(Pkt) /\ Len(p) = m /\ m \in Nat \ {0} /\ DOMAIN p = 1 .. m
         /\ \A c \in 1 .. m : /\ p[c].src = s /\ p[c].msg = n /\ p[c].part = c
                              /\ p[c].size = kind.size /\ p[c].rndz = kind.rndz
                              /\ p[c].rndzpos = pos
<1>1. kind.size \in Nat \ {0}
  BY RecvAssumption
<1>2. m \in Nat \ {0}
  BY <1>1 DEF Count
<1>3. p = [c \in 1 .. m |->
             [src |-> s, tag |-> tag, msg |-> n, part |-> c, size |-> kind.size,
              rndz |-> kind.rndz, rndzpos |-> pos]]
  BY DEF Packets, Count
<1>4. p \in Seq(Pkt)
  BY PacketsType
<1>5. DOMAIN p = 1 .. m /\ Len(p) = m
  BY <1>2, <1>3, <1>4
<1> QED BY <1>2, <1>3, <1>4, <1>5

(* what comes after the packets of whole messages                          *)
LEMMA PacketsFollow ==
  ASSUME NEW a \in Seq(Pkt), NEW p \in Seq(Pkt), NEW m \in Nat \ {0}, Len(p) = m,
         \A x \in DOMAIN a : x + 1 \in DOMAIN a => Follows(a[x], a[x + 1]),
         a # <<>> => LastPart(a[Len(a)]),
         p[1].part = 1, \A c \in 1 .. m - 1 : Follows(p[c], p[c + 1]), LastPart(p[m]),
         NEW b, b = a \o p
  PROVE  /\ b \in Seq(Pkt)
         /\ \A x \in DOMAIN b : \/ x \in DOMAIN a /\ b[x] = a[x]
                                \/ \E c \in 1 .. m : b[x] = p[c]
         /\ \A x \in DOMAIN b : x + 1 \in DOMAIN b => Follows(b[x], b[x + 1])
         /\ b # <<>> /\ LastPart(b[Len(b)])
         /\ IF a = <<>> THEN b[1] = p[1] ELSE b[1] = a[1]
<1>0. Len(a) \in Nat
  OBVIOUS
<1>6. /\ b \in Seq(Pkt) /\ Len(b) = Len(a) + m
      /\ \A x \in 1 .. Len(a) + m : b[x] = IF x <= Len(a) THEN a[x] ELSE p[x - Len(a)]
  BY <1>0, ConcatProperties
<1>7. DOMAIN a = 1 .. Len(a) /\ DOMAIN b = 1 .. Len(a) + m
  BY <1>6
<1>8. /\ \A x \in DOMAIN a : x \in DOMAIN b /\ b[x] = a[x]
      /\ \A c \in 1 .. m : Len(a) + c \in DOMAIN b /\ b[Len(a) + c] = p[c]
  <2>1. \A x \in DOMAIN a : x \in DOMAIN b /\ b[x] = a[x]
    BY <1>0, <1>6, <1>7
  <2>2. ASSUME NEW c \in 1 .. m PROVE Len(a) + c \in DOMAIN b /\ b[Len(a) + c] = p[c]
    <3>1. /\ Len(a) + c \in 1 .. Len(a) + m /\ ~ (Len(a) + c <= Len(a))
          /\ Len(a) + c - Len(a) = c
      BY <1>0
    <3> QED BY <1>6, <1>7, <3>1
  <2> QED BY <2>1, <2>2
<1>9. \A x \in DOMAIN b : x \in DOMAIN a \/ \E c \in 1 .. m : x = Len(a) + c
  <2> TAKE x \in DOMAIN b
  <2>1. CASE x <= Len(a)
    BY <1>0, <1>6, <1>7, <2>1
  <2>2. CASE ~ (x <= Len(a))
    <3>0. x \in Int /\ x <= Len(a) + m
      BY <1>0, <1>7
    <3>1. x - Len(a) \in 1 .. m /\ x = Len(a) + (x - Len(a))
      BY <1>0, <2>2, <3>0
    <3> QED BY <3>1
  <2> QED BY <2>1, <2>2
<1>12. \A x \in DOMAIN b : x + 1 \in DOMAIN b => Follows(b[x], b[x + 1])
  <2> SUFFICES ASSUME NEW x \in DOMAIN b, x + 1 \in DOMAIN b PROVE Follows(b[x], b[x + 1])
    OBVIOUS
  <2>1. CASE x + 1 \in DOMAIN a
    <3>1. x \in DOMAIN a
      BY <1>0, <1>6, <1>7, <2>1
    <3> QED BY <1>8, <2>1, <3>1
  <2>2. CASE x = Len(a)
    <3>1. x \in DOMAIN a /\ a # <<>> /\ b[x] = a[Len(a)]
      BY <1>0, <1>6, <1>7, <1>8, <2>2
    <3>2. b[x + 1] = p[1]
      BY <1>8, <2>2
    <3> QED BY <3>1, <3>2 DEF Follows
  <2>3. CASE x > Len(a)
    <3>0. x \notin DOMAIN a
      BY <1>0, <1>7, <2>3
    <3>1. PICK c \in 1 .. m : x = Len(a) + c
      BY <1>9, <3>0
    <3>2. c + 1 \in 1 .. m /\ c \in 1 .. m - 1 /\ x + 1 = Len(a) + (c + 1)
      BY <1>0, <1>6, <1>7, <3>1
    <3>3. b[x] = p[c] /\ b[x + 1] = p[c + 1]
      BY <1>8, <3>1, <3>2
    <3> QED BY <3>2, <3>3
  <2>4. x \in Nat
    BY <1>0, <1>7
  <2>5. x + 1 \in DOMAIN a \/ x = Len(a) \/ x > Len(a)
    BY <1>0, <1>7, <2>4
  <2> QED BY <2>1, <2>2, <2>3, <2>5
<1>13. b # <<>> /\ LastPart(b[Len(b)])
  <2>1. m \in 1 .. m /\ Len(b) = Len(a) + m
    BY <1>6
  <2>2. b[Len(b)] = p[m] /\ Len(b) \in DOMAIN b
    BY <1>8, <2>1
  <2> QED BY <2>2
<1>14. IF a = <<>> THEN b[1] = p[1] ELSE b[1] = a[1]
  <2>1. CASE a = <<>>
    BY <1>8, <2>1
  <2>2. CASE a # <<>>
    <3>1. 1 \in DOMAIN a
      BY <1>0, <1>7, <2>2
    <3> QED BY <1>8, <2>2, <3>1
  <2> QED BY <2>1, <2>2
<1> QED BY <1>6, <1>8, <1>9, <1>12, <1>13, <1>14

LEMMA StreamPost ==
  ASSUME ring \in [Srcs -> Seq(Pkt)], NEW s \in Srcs, StreamOf(s),
         NEW n \in Nat, NEW tag \in Tags, NEW kind \in Kinds, NEW pos \in RndzPos,
         NEW p, p = Packets(s, n, tag, kind, pos),
         ring'[s] = ring[s] \o p, urp'[s] = urp[s], req' = req,
         \A k \in DOMAIN sent[s] : k \in DOMAIN sent'[s] /\ sent'[s][k] = sent[s][k],
         n \in DOMAIN sent'[s], sent'[s][n].kind = kind
  PROVE  StreamOf(s)'
<1>1. PICK a : a = ring[s]
  OBVIOUS
<1>3. PICK m : m = Count(kind)
  OBVIOUS
<1>4. PICK b : b = a \o p
  OBVIOUS
<1>5. /\ p \in Seq(Pkt) /\ Len(p) = m /\ m \in Nat \ {0} /\ DOMAIN p = 1 .. m
      /\ \A c \in 1 .. m : /\ p[c].src = s /\ p[c].msg = n /\ p[c].part = c
                           /\ p[c].size = kind.size /\ p[c].rndz = kind.rndz
  <2>1. /\ s \in Srcs /\ n \in Nat /\ tag \in Tags /\ kind \in Kinds /\ pos \in RndzPos
        /\ p = Packets(s, n, tag, kind, pos)
    OBVIOUS
  <2>2. p \in Seq(Pkt) /\ Len(p) = m /\ m \in Nat \ {0} /\ DOMAIN p = 1 .. m
    BY ONLY <1>3, <2>1, PacketsAre
  <2>3. \A c \in 1 .. m : /\ p[c].src = s /\ p[c].msg = n /\ p[c].part = c
                         /\ p[c].size = kind.size /\ p[c].rndz = kind.rndz
    BY ONLY <1>3, <2>1, PacketsAre
  <2> QED BY ONLY <2>2, <2>3
<1>10. /\ a \in Seq(Pkt) /\ \A x \in DOMAIN a : PktOf(s, a[x])
       /\ \A x \in DOMAIN a : x + 1 \in DOMAIN a => Follows(a[x], a[x + 1])
       /\ a # <<>> => LastPart(a[Len(a)])
  BY <1>1 DEF StreamOf
<1>11. /\ p[1].part = 1 /\ LastPart(p[m])
       /\ \A c \in 1 .. m - 1 : Follows(p[c], p[c + 1])
  <2>1. p[1].part = 1
    BY <1>5
  <2>2. LastPart(p[m])
    BY <1>3, <1>5 DEF LastPart, Count
  <2>3. ASSUME NEW c \in 1 .. m - 1 PROVE Follows(p[c], p[c + 1])
    <3>1. c \in 1 .. m /\ c + 1 \in 1 .. m /\ c # m
      BY <1>5
    <3>2. ~ LastPart(p[c])
      BY <1>3, <1>5, <3>1, RecvAssumption DEF LastPart, Count
    <3> QED BY <1>5, <3>1, <3>2 DEF Follows
  <2> QED BY <2>1, <2>2, <2>3
<1>12. /\ b \in Seq(Pkt)
       /\ \A x \in DOMAIN b : \/ x \in DOMAIN a /\ b[x] = a[x]
                              \/ \E c \in 1 .. m : b[x] = p[c]
       /\ \A x \in DOMAIN b : x + 1 \in DOMAIN b => Follows(b[x], b[x + 1])
       /\ b # <<>> /\ LastPart(b[Len(b)])
       /\ IF a = <<>> THEN b[1] = p[1] ELSE b[1] = a[1]
  <2>1. a \in Seq(Pkt) /\ p \in Seq(Pkt) /\ m \in Nat \ {0} /\ Len(p) = m
    BY <1>5, <1>10
  <2>2. \A x \in DOMAIN a : x + 1 \in DOMAIN a => Follows(a[x], a[x + 1])
    BY <1>10
  <2>3. a # <<>> => LastPart(a[Len(a)])
    BY <1>10
  <2>4. p[1].part = 1
    BY <1>11
  <2>5. \A c \in 1 .. m - 1 : Follows(p[c], p[c + 1])
    BY <1>11
  <2>6. LastPart(p[m])
    BY <1>11
  <2>7. b \in Seq(Pkt)
    BY ONLY <1>4, <2>1, <2>2, <2>3, <2>4, <2>5, <2>6, PacketsFollow
  <2>8. \A x \in DOMAIN b : \/ x \in DOMAIN a /\ b[x] = a[x]
                            \/ \E c \in 1 .. m : b[x] = p[c]
    BY ONLY <1>4, <2>1, <2>2, <2>3, <2>4, <2>5, <2>6, PacketsFollow
  <2>9. \A x \in DOMAIN b : x + 1 \in DOMAIN b => Follows(b[x], b[x + 1])
    BY ONLY <1>4, <2>1, <2>2, <2>3, <2>4, <2>5, <2>6, PacketsFollow
  <2>10. b # <<>> /\ LastPart(b[Len(b)])
    BY ONLY <1>4, <2>1, <2>2, <2>3, <2>4, <2>5, <2>6, PacketsFollow
  <2>11. IF a = <<>> THEN b[1] = p[1] ELSE b[1] = a[1]
    BY ONLY <1>4, <2>1, <2>2, <2>3, <2>4, <2>5, <2>6, PacketsFollow
  <2> QED BY <2>7, <2>8, <2>9, <2>10, <2>11
<1>13. \A x \in DOMAIN b : PktOf(s, b[x])'
  <2>1. \A x \in DOMAIN a : PktOf(s, a[x])'
    BY <1>10 DEF PktOf
  <2>2. \A c \in 1 .. m : PktOf(s, p[c])'
    <3> TAKE c \in 1 .. m
    <3>1. kind.size \in Nat \ {0} /\ c \in 1 .. kind.size
      BY <1>3, RecvAssumption DEF Count
    <3> QED BY <1>5, <3>1 DEF PktOf
  <2> QED BY <1>12, <2>1, <2>2
<1>15. ring'[s] = b
  BY <1>1, <1>4
<1>16. PICK j : j = urp[s].req
  OBVIOUS
<1>17. IF j = NoReq THEN a # <<>> => a[1].part = 1
       ELSE a # <<>> /\ a[1].msg = req[j].msg /\ a[1].part = req[j].rsize + 1
  BY <1>1, <1>16 DEF StreamOf, NextIs
<1>18. IF j = NoReq THEN b[1].part = 1
       ELSE b[1].msg = req'[j].msg /\ b[1].part = req'[j].rsize + 1
  BY <1>11, <1>12, <1>17
<1>19. StreamOf(s)' = (/\ \A x \in DOMAIN b : PktOf(s, b[x])'
                       /\ \A x \in DOMAIN b : x + 1 \in DOMAIN b => Follows(b[x], b[x + 1])
                       /\ b # <<>> => LastPart(b[Len(b)])
                       /\ IF j = NoReq THEN b # <<>> => b[1].part = 1
                          ELSE b # <<>> /\ b[1].msg = req'[j].msg
                                 /\ b[1].part = req'[j].rsize + 1)
  BY <1>15, <1>16 DEF StreamOf, NextIs, PktOf
<1> QED BY <1>12, <1>13, <1>18, <1>19

-----------------------------------------------------------------------------
(* The order of the gets.                                                  *)

LEMMA OrderedFewer ==
  ASSUME NEW lst, NEW ops, NEW done, Ordered(lst, ops, done), NEW less, less \subseteq done
  PROVE  Ordered(lst, ops, less)
BY DEF Ordered

(* a request joins the list                                                *)
LEMMA OrderedJoin ==
  ASSUME NEW lst \in Seq(MsgReq), NEW ops, NEW done, Ordered(lst, ops, done),
         NEW i, i \notin done, \A j \in DOMAIN ops : ops[j].req # i
  PROVE  Ordered(Append(lst, i), ops, done)
<1>1. PICK m : m = Append(lst, i)
  OBVIOUS
<1>2. /\ DOMAIN m = 1 .. Len(lst) + 1 /\ m[Len(lst) + 1] = i
      /\ \A j \in 1 .. Len(lst) : m[j] = lst[j]
      /\ DOMAIN lst = 1 .. Len(lst) /\ Len(lst) \in Nat
  BY <1>1, AppendProperties
<1>3. \A x \in DOMAIN m : m[x] # i => x \in DOMAIN lst /\ m[x] = lst[x]
  BY <1>2
<1>4. Ordered(m, ops, done)
  BY <1>3 DEF Ordered
<1> QED BY <1>1, <1>4

(* and its get is the last                                                 *)
LEMMA OrderedAsk ==
  ASSUME NEW lst \in Seq(MsgReq), NEW ops \in Seq(GetRecord), NEW done, Ordered(lst, ops, done),
         NEW i, i \notin done, i \notin ToSet(lst), \A j \in DOMAIN ops : ops[j].req # i,
         NEW g \in GetRecord, g.req = i
  PROVE  Ordered(Append(lst, i), Append(ops, g), done)
<1>1. PICK m, o : m = Append(lst, i) /\ o = Append(ops, g)
  OBVIOUS
<1>2. /\ DOMAIN m = 1 .. Len(lst) + 1 /\ m[Len(lst) + 1] = i
      /\ \A j \in 1 .. Len(lst) : m[j] = lst[j]
      /\ DOMAIN lst = 1 .. Len(lst) /\ Len(lst) \in Nat
  BY <1>1, AppendProperties
<1>3. /\ DOMAIN o = 1 .. Len(ops) + 1 /\ o[Len(ops) + 1] = g
      /\ \A j \in 1 .. Len(ops) : o[j] = ops[j]
      /\ DOMAIN ops = 1 .. Len(ops) /\ Len(ops) \in Nat
  BY <1>1, AppendProperties
<1>4. /\ \A x \in DOMAIN m : m[x] # i => x \in DOMAIN lst /\ m[x] = lst[x]
      /\ \A x \in DOMAIN m : m[x] = i => x = Len(lst) + 1
      /\ \A x \in DOMAIN lst : x < Len(lst) + 1
  BY <1>2 DEF ToSet
<1>5. /\ \A x \in DOMAIN o : o[x].req # i => x \in DOMAIN ops /\ o[x] = ops[x]
      /\ \A x \in DOMAIN o : o[x].req = i => x = Len(ops) + 1
      /\ \A x \in DOMAIN o : ~ (Len(ops) + 1 < x)
  BY <1>3
<1>6. ASSUME NEW a \in DOMAIN m, NEW b \in DOMAIN m, NEW j \in DOMAIN o, NEW l \in DOMAIN o,
             m[a] = o[j].req, m[b] = o[l].req, j < l
      PROVE  a < b
  <2>1. o[j].req # i
    BY <1>5, <1>6
  <2>2. a \in DOMAIN lst /\ m[a] = lst[a] /\ j \in DOMAIN ops /\ o[j] = ops[j]
    BY <1>4, <1>5, <1>6, <2>1
  <2>3. CASE m[b] = i
    BY <1>4, <2>2, <2>3
  <2>4. CASE m[b] # i
    <3>1. b \in DOMAIN lst /\ m[b] = lst[b] /\ l \in DOMAIN ops /\ o[l] = ops[l]
      BY <1>4, <1>5, <1>6, <2>4
    <3> QED BY <1>6, <2>2, <3>1 DEF Ordered
  <2> QED BY <2>3, <2>4
<1>7. ASSUME NEW a \in DOMAIN m, NEW b \in DOMAIN m, NEW l \in DOMAIN o,
             m[a] \in done, m[b] = o[l].req
      PROVE  a < b
  <2>1. a \in DOMAIN lst /\ m[a] = lst[a]
    BY <1>4, <1>7
  <2>2. CASE m[b] = i
    BY <1>4, <2>1, <2>2
  <2>3. CASE m[b] # i
    <3>1. b \in DOMAIN lst /\ m[b] = lst[b] /\ l \in DOMAIN ops /\ o[l] = ops[l]
      BY <1>4, <1>5, <1>7, <2>3
    <3> QED BY <1>7, <2>1, <3>1 DEF Ordered
  <2> QED BY <2>2, <2>3
<1>8. Ordered(m, o, done)
  BY <1>6, <1>7 DEF Ordered
<1> QED BY <1>1, <1>8

(* a request leaves the list                                               *)
LEMMA OrderedLeave ==
  ASSUME NEW lst \in Seq(MsgReq), NEW ops, NEW done, Ordered(lst, ops, done),
         NEW at \in 1 .. Len(lst)
  PROVE  Ordered(RemoveAt(lst, at), ops, done)
<1>1. PICK m : m = RemoveAt(lst, at)
  OBVIOUS
<1>2. /\ Len(m) = Len(lst) - 1 /\ m \in Seq(MsgReq)
      /\ \A j \in 1 .. Len(lst) - 1 : m[j] = lst[IF j < at THEN j ELSE j + 1]
  BY <1>1, RemoveAtFacts
<1>3. DOMAIN m = 1 .. Len(lst) - 1 /\ DOMAIN lst = 1 .. Len(lst) /\ Len(lst) \in Nat
  BY <1>2
<1>4. \A a \in DOMAIN m : \E u \in DOMAIN lst : m[a] = lst[u] /\ u = IF a < at THEN a ELSE a + 1
  <2> TAKE a \in DOMAIN m
  <2>1. PICK u : u = IF a < at THEN a ELSE a + 1
    OBVIOUS
  <2>2. u \in DOMAIN lst /\ m[a] = lst[u]
    BY <1>2, <1>3, <2>1
  <2> QED BY <2>1, <2>2
<1>5. ASSUME NEW a \in DOMAIN m, NEW b \in DOMAIN m, NEW u, NEW v, u < v,
             u = IF a < at THEN a ELSE a + 1, v = IF b < at THEN b ELSE b + 1
      PROVE  a < b
  BY <1>3, <1>5
<1>6. ASSUME NEW a \in DOMAIN m, NEW b \in DOMAIN m, NEW j \in DOMAIN ops, NEW l \in DOMAIN ops,
             m[a] = ops[j].req, m[b] = ops[l].req, j < l
      PROVE  a < b
  <2>1. PICK u \in DOMAIN lst : m[a] = lst[u] /\ u = IF a < at THEN a ELSE a + 1
    BY <1>4
  <2>2. PICK v \in DOMAIN lst : m[b] = lst[v] /\ v = IF b < at THEN b ELSE b + 1
    BY <1>4
  <2>3. u < v
    BY <1>6, <2>1, <2>2 DEF Ordered
  <2> QED BY <1>5, <2>1, <2>2, <2>3
<1>7. ASSUME NEW a \in DOMAIN m, NEW b \in DOMAIN m, NEW l \in DOMAIN ops,
             m[a] \in done, m[b] = ops[l].req
      PROVE  a < b
  <2>1. PICK u \in DOMAIN lst : m[a] = lst[u] /\ u = IF a < at THEN a ELSE a + 1
    BY <1>4
  <2>2. PICK v \in DOMAIN lst : m[b] = lst[v] /\ v = IF b < at THEN b ELSE b + 1
    BY <1>4
  <2>3. u < v
    BY <1>7, <2>1, <2>2 DEF Ordered
  <2> QED BY <1>5, <2>1, <2>2, <2>3
<1>8. Ordered(m, ops, done)
  BY <1>6, <1>7 DEF Ordered
<1> QED BY <1>1, <1>8

(* the first get is done                                                   *)
LEMMA OrderedGot ==
  ASSUME NEW lst, NEW ops \in Seq(GetRecord), ops # <<>>, NEW done, Ordered(lst, ops, done)
  PROVE  Ordered(lst, Tail(ops), done \cup {ops[1].req})
<1>1. PICK o : o = Tail(ops)
  OBVIOUS
<1>2. /\ Len(ops) \in Nat \ {0} /\ o \in Seq(GetRecord) /\ Len(o) = Len(ops) - 1
      /\ \A x \in 1 .. Len(ops) - 1 : o[x] = ops[x + 1]
  BY <1>1, HeadTailProperties, EmptySeq
<1>3. DOMAIN ops = 1 .. Len(ops) /\ DOMAIN o = 1 .. Len(ops) - 1
  BY <1>2
<1>4. /\ \A x \in DOMAIN o : x + 1 \in DOMAIN ops /\ o[x] = ops[x + 1] /\ 1 < x + 1
      /\ \A x, y \in DOMAIN o : x < y => x + 1 < y + 1
      /\ 1 \in DOMAIN ops
  BY <1>2, <1>3
<1>5. ASSUME NEW a \in DOMAIN lst, NEW b \in DOMAIN lst, NEW j \in DOMAIN o, NEW l \in DOMAIN o,
             lst[a] = o[j].req, lst[b] = o[l].req, j < l
      PROVE  a < b
  <2>1. /\ j + 1 \in DOMAIN ops /\ l + 1 \in DOMAIN ops /\ j + 1 < l + 1
        /\ lst[a] = ops[j + 1].req /\ lst[b] = ops[l + 1].req
    BY <1>4, <1>5
  <2> QED BY <2>1 DEF Ordered
<1>6. ASSUME NEW a \in DOMAIN lst, NEW b \in DOMAIN lst, NEW l \in DOMAIN o,
             lst[a] \in done \cup {ops[1].req}, lst[b] = o[l].req
      PROVE  a < b
  <2>1. l + 1 \in DOMAIN ops /\ lst[b] = ops[l + 1].req /\ 1 < l + 1 /\ 1 \in DOMAIN ops
    BY <1>4, <1>6
  <2>2. CASE lst[a] \in done
    BY <2>1, <2>2 DEF Ordered
  <2>3. CASE lst[a] = ops[1].req
    BY <2>1, <2>3 DEF Ordered
  <2> QED BY <1>6, <2>2, <2>3
<1>7. Ordered(lst, o, done \cup {ops[1].req})
  BY <1>5, <1>6 DEF Ordered
<1> QED BY <1>1, <1>7

-----------------------------------------------------------------------------
(* The gets of the sources.                                                *)

LEMMA FlightWhere ==
  ASSUME Gets, NEW s \in Srcs, NEW j \in DOMAIN gets[s], NEW i, gets[s][j].req = i
  PROVE  i \in Getting /\ req[i].src = s /\ InFlight(i)
BY DEF Gets, GetsOf, AllAsked, InFlight

LEMMA FlightOf ==
  ASSUME Gets, NEW i, InFlight(i), NEW s, req[i].src = s
  PROVE  s \in Srcs /\ \E j \in DOMAIN gets[s] : gets[s][j].req = i
<1>1. PICK t \in Srcs : \E j \in DOMAIN gets[t] : gets[t][j].req = i
  BY DEF InFlight
<1>2. req[i].src = t
  BY <1>1, FlightWhere
<1> QED BY <1>1, <1>2

LEMMA LandedFinite ==
  ASSUME proglst \in Seq(MsgReq), NEW s
  PROVE  IsFiniteSet(Landed(s)) /\ Landed(s) \subseteq Getting /\ Getting \subseteq MsgReq
<1>1. Getting \subseteq MsgReq
  BY ElementOfSeq DEF Getting, ToSet
<1>2. IsFiniteSet(MsgReq)
  BY RecvAssumption, FS_Interval DEF MsgReq, MSGREQ_SIZE
<1>3. Landed(s) \subseteq Getting
  BY DEF Landed
<1> QED BY <1>1, <1>2, <1>3, FS_Subset

LEMMA GetsBuilt ==
  ASSUME NEW s \in Srcs, NEW ops, gets'[s] = ops, NEW done, Landed(s)' = done,
         NEW lst, proglst' = lst,
         AllAsked(s, ops)',
         OnceEach(ops),
         Ordered(lst, ops, done), lclget'[s] = Cardinality(done)
  PROVE  GetsOf(s)'
BY DEF GetsOf, AllAsked

LEMMA GetsKept ==
  ASSUME Gets, UNCHANGED <<proglst, gets, lclget>>, \A j \in Getting : req'[j] = req[j]
  PROVE  Gets' /\ Getting' = Getting /\ \A j : InFlight(j)' = InFlight(j)
<1>1. \A j : InFlight(j)' = InFlight(j)
  BY DEF InFlight
<1>2. Getting' = Getting
  BY DEF Getting
<1>3. ASSUME NEW s \in Srcs PROVE GetsOf(s)'
  <2>1. Landed(s)' = Landed(s)
    BY <1>1, <1>2 DEF Landed
  <2>2. GetsOf(s)
    BY DEF Gets
  <2>3. PICK ops, done : ops = gets[s] /\ done = Landed(s)
    OBVIOUS
  <2>4. AllAsked(s, ops)
    BY <2>2, <2>3 DEF GetsOf
  <2>5. AllAsked(s, ops)'
    BY <1>2, <2>4 DEF AllAsked
  <2> QED BY <2>1, <2>2, <2>3, <2>5, GetsBuilt DEF GetsOf
<1> QED BY <1>1, <1>2, <1>3 DEF Gets

(* a get is asked for, on request i                                        *)
Asks(s, i, f) ==
  /\ s \in Srcs /\ i \in MsgReq /\ Becomes(i, f) /\ f.src = s
  /\ gets' = [gets EXCEPT ![s] = Append(@, [req |-> i, msg |-> f.msg, part |-> f.rsize])]

LEMMA AsksFacts ==
  ASSUME gets \in [Srcs -> Seq(GetRecord)], NEW s, NEW i, NEW f \in ReqRecord, Asks(s, i, f),
         NEW g, g = [req |-> i, msg |-> f.msg, part |-> f.rsize]
  PROVE  /\ gets' \in [Srcs -> Seq(GetRecord)] /\ g \in GetRecord
         /\ gets'[s] = Append(gets[s], g) /\ \A t \in Srcs : t # s => gets'[t] = gets[t]
         /\ InFlight(i)' /\ \A j : j # i => InFlight(j)' = InFlight(j)
<1>1. g \in GetRecord
  <2>1. f.msg \in Nat /\ f.rsize \in Nat
    BY DEF ReqRecord
  <2> QED BY <2>1 DEF GetRecord, Asks
<1>2. PICK a, b : a = gets[s] /\ b = Append(a, g)
  OBVIOUS
<1>3. /\ b \in Seq(GetRecord) /\ DOMAIN b = 1 .. Len(a) + 1 /\ b[Len(a) + 1] = g
      /\ \A x \in 1 .. Len(a) : b[x] = a[x]
      /\ DOMAIN a = 1 .. Len(a) /\ Len(a) \in Nat
  BY <1>1, <1>2, AppendProperties DEF Asks
<1>4. /\ gets' \in [Srcs -> Seq(GetRecord)] /\ gets'[s] = b
      /\ \A t \in Srcs : t # s => gets'[t] = gets[t]
  BY <1>2, <1>3 DEF Asks
<1>5. s \in Srcs /\ g.req = i
  BY DEF Asks
<1>6. InFlight(i)'
  BY <1>3, <1>4, <1>5 DEF InFlight
<1>7. ASSUME NEW j, j # i PROVE InFlight(j)' = InFlight(j)
  <2>1. (\E x \in DOMAIN b : b[x].req = j) <=> (\E x \in DOMAIN a : a[x].req = j)
    <3>1. ASSUME NEW x \in DOMAIN b, b[x].req = j PROVE x \in DOMAIN a /\ a[x].req = j
      <4>1. x # Len(a) + 1
        BY <1>3, <1>5, <1>7, <3>1
      <4>2. x \in 1 .. Len(a)
        BY ONLY <1>3, <3>1, <4>1
      <4> QED BY <1>3, <3>1, <4>2
    <3>2. ASSUME NEW x \in DOMAIN a, a[x].req = j PROVE x \in DOMAIN b /\ b[x].req = j
      BY ONLY <1>3, <3>2
    <3> QED BY <3>1, <3>2
  <2>2. \A t \in Srcs : (\E x \in DOMAIN gets'[t] : gets'[t][x].req = j)
                          <=> (\E x \in DOMAIN gets[t] : gets[t][x].req = j)
    BY <1>2, <1>4, <2>1
  <2> QED BY <2>2 DEF InFlight
<1> QED BY <1>1, <1>2, <1>4, <1>6, <1>7

LEMMA GetsAsk ==
  ASSUME Gets, gets \in [Srcs -> Seq(GetRecord)],
         NEW s, NEW i, NEW f \in ReqRecord, Asks(s, i, f),
         \A t \in Srcs : \A j \in DOMAIN gets[t] : gets[t][j].req # i,
         NEW lst \in Seq(MsgReq), i \notin ToSet(lst), proglst' = Append(lst, i),
         ToSet(lst) = Getting \ {i},
         \A t \in Srcs : Ordered(lst, gets[t], Landed(t)),
         \A t \in Srcs : lclget'[t] = Cardinality(Landed(t) \ {i})
  PROVE  /\ Gets' /\ gets' \in [Srcs -> Seq(GetRecord)] /\ Getting' = Getting \cup {i}
         /\ InFlight(i)' /\ \A j : j # i => InFlight(j)' = InFlight(j)
<1>1. PICK g : g = [req |-> i, msg |-> f.msg, part |-> f.rsize]
  OBVIOUS
<1>2. /\ gets' \in [Srcs -> Seq(GetRecord)] /\ g \in GetRecord
      /\ gets'[s] = Append(gets[s], g) /\ \A t \in Srcs : t # s => gets'[t] = gets[t]
      /\ InFlight(i)' /\ \A j : j # i => InFlight(j)' = InFlight(j)
  BY <1>1, AsksFacts
<1>3. /\ s \in Srcs /\ i \in MsgReq /\ req'[i] = f /\ f.src = s
      /\ \A j \in MsgReq : j # i => req'[j] = req[j]
  BY DEF Asks, Becomes
<1>4. Getting' = ToSet(lst) \cup {i}
  <2>1. DOMAIN Append(lst, i) = DOMAIN lst \cup {Len(lst) + 1}
        /\ Append(lst, i)[Len(lst) + 1] = i
        /\ \A x \in DOMAIN lst : Append(lst, i)[x] = lst[x]
    BY <1>3, AppendProperties
  <2> QED BY <2>1 DEF Getting, ToSet
<1>5. Getting' = Getting \cup {i} /\ Getting \ {i} \subseteq MsgReq
  <2>1. ToSet(lst) \subseteq MsgReq
    BY ElementOfSeq DEF ToSet
  <2> QED BY <1>4, <2>1
<1>6. \A t \in Srcs : Landed(t)' = Landed(t) \ {i}
  BY <1>2, <1>3, <1>5 DEF Landed
<1>7. ASSUME NEW t \in Srcs
      PROVE  \A j \in DOMAIN gets[t] : \A k : gets[t][j].req = k =>
               /\ k \in Getting' /\ req'[k].src = t
               /\ gets[t][j].msg = req'[k].msg /\ gets[t][j].part = req'[k].rsize
  BY <1>3, <1>5 DEF Gets, GetsOf, AllAsked
<1>8. ASSUME NEW t \in Srcs, t # s PROVE GetsOf(t)'
  <2>1. PICK ops, done, p : ops = gets[t] /\ done = Landed(t) \ {i} /\ p = Append(lst, i)
    OBVIOUS
  <2>2. Ordered(p, ops, done)
    BY <2>1, OrderedFewer, OrderedJoin
  <2>3. OnceEach(ops)
    BY <2>1 DEF Gets, GetsOf
  <2>4. gets'[t] = ops /\ Landed(t)' = done /\ proglst' = p /\ lclget'[t] = Cardinality(done)
    BY <1>2, <1>6, <1>8, <2>1
  <2>5. AllAsked(t, ops)'
    BY <1>7, <2>1 DEF AllAsked
  <2> QED BY <1>8, <2>2, <2>3, <2>4, <2>5, GetsBuilt
<1>9. GetsOf(s)'
  <2>1. PICK old, ops, done, p :
          old = gets[s] /\ ops = Append(old, g) /\ done = Landed(s) \ {i} /\ p = Append(lst, i)
    OBVIOUS
  <2>2. old \in Seq(GetRecord) /\ g.req = i /\ g.msg = f.msg /\ g.part = f.rsize
    BY <1>1, <1>3, <2>1
  <2>3. Ordered(lst, old, done)
    BY <1>3, <2>1, OrderedFewer
  <2>4. Ordered(p, ops, done)
    <3>1. \A j \in DOMAIN old : old[j].req # i
      BY <1>3, <2>1
    <3>2. i \notin done
      BY <2>1
    <3> QED BY <1>2, <2>1, <2>2, <2>3, <3>1, <3>2, OrderedAsk
  <2>5. /\ DOMAIN ops = 1 .. Len(old) + 1 /\ ops[Len(old) + 1] = g
        /\ \A x \in 1 .. Len(old) : ops[x] = old[x]
        /\ DOMAIN old = 1 .. Len(old) /\ Len(old) \in Nat
    BY <1>2, <2>1, <2>2, AppendProperties
  <2>6. \A x \in DOMAIN ops : \/ x \in DOMAIN old /\ ops[x] = old[x] /\ old[x].req # i
                              \/ x = Len(old) + 1 /\ ops[x] = g
    BY <1>3, <2>1, <2>5
  <2>7. OnceEach(ops)
    <3>1. OnceEach(old)
      BY <1>3, <2>1 DEF Gets, GetsOf
    <3> QED BY <2>2, <2>6, <3>1 DEF OnceEach
  <2>8. AllAsked(s, ops)'
    <3>1. AllAsked(s, old)'
      BY <1>3, <1>7, <2>1 DEF AllAsked
    <3>2. i \in Getting' /\ req'[i].src = s /\ g.msg = req'[i].msg /\ g.part = req'[i].rsize
      BY <1>3, <1>5, <2>2
    <3> QED BY <2>2, <2>6, <3>1, <3>2 DEF AllAsked
  <2>9. gets'[s] = ops /\ Landed(s)' = done /\ proglst' = p /\ lclget'[s] = Cardinality(done)
    BY <1>2, <1>3, <1>6, <2>1
  <2> QED BY <1>3, <2>4, <2>7, <2>8, <2>9, GetsBuilt
<1>10. Gets'
  BY <1>8, <1>9 DEF Gets
<1> QED BY <1>2, <1>5, <1>10

(* rget_start                                                              *)
LEMMA GetsStart ==
  ASSUME PoolInv, Gets, gets \in [Srcs -> Seq(GetRecord)],
         NEW s, NEW i, NEW f \in ReqRecord, Asks(s, i, f), i \notin Getting,
         proglst' = Append(proglst, i), UNCHANGED lclget
  PROVE  /\ Gets' /\ gets' \in [Srcs -> Seq(GetRecord)] /\ Getting' = Getting \cup {i}
         /\ InFlight(i)' /\ \A j : j # i => InFlight(j)' = InFlight(j)
<1>1. proglst \in Seq(MsgReq) /\ ToSet(proglst) = Getting
  BY DEF PoolInv, TypeLists, Getting
<1>2. \A t \in Srcs : \A j \in DOMAIN gets[t] : gets[t][j].req # i
  BY FlightWhere
<1>3. \A t \in Srcs : Ordered(proglst, gets[t], Landed(t))
  BY DEF Gets, GetsOf
<1>4. \A t \in Srcs : lclget'[t] = Cardinality(Landed(t) \ {i})
  <2> TAKE t \in Srcs
  <2>1. Landed(t) \ {i} = Landed(t)
    BY DEF Landed
  <2> QED BY <2>1 DEF Gets, GetsOf
<1>5. i \notin ToSet(proglst) /\ ToSet(proglst) = Getting \ {i}
  BY <1>1
<1> QED BY <1>1, <1>2, <1>3, <1>4, <1>5, GetsAsk

(* the other requests' gets are where they were                            *)
OthersFly(i) == \A j : j # i => InFlight(j)' = InFlight(j)

(* a get completes                                                         *)
LEMMA GetsGot ==
  ASSUME PoolInv, Gets, gets \in [Srcs -> Seq(GetRecord)],
         NEW s \in Srcs, gets[s] # <<>>, NEW i, i = gets[s][1].req,
         gets' = [gets EXCEPT ![s] = Tail(@)], lclget' = [lclget EXCEPT ![s] = @ + 1],
         UNCHANGED <<proglst, req>>
  PROVE  /\ Gets' /\ gets' \in [Srcs -> Seq(GetRecord)] /\ Getting' = Getting
         /\ i \in Getting /\ req[i].src = s /\ InFlight(i) /\ ~ InFlight(i)'
         /\ gets[s][1].msg = req[i].msg /\ gets[s][1].part = req[i].rsize
         /\ OthersFly(i)
<1>1. PICK a, b : a = gets[s] /\ b = Tail(a)
  OBVIOUS
<1>2. /\ Len(a) \in Nat \ {0} /\ a \in Seq(GetRecord) /\ b \in Seq(GetRecord) /\ Len(b) = Len(a) - 1
      /\ \A x \in 1 .. Len(a) - 1 : b[x] = a[x + 1]
  BY <1>1, HeadTailProperties, EmptySeq
<1>3. DOMAIN a = 1 .. Len(a) /\ DOMAIN b = 1 .. Len(a) - 1
  BY <1>2
<1>4. /\ \A x \in DOMAIN b : x + 1 \in DOMAIN a /\ b[x] = a[x + 1] /\ x + 1 # 1
      /\ \A x, y \in DOMAIN b : x + 1 = y + 1 => x = y
      /\ 1 \in DOMAIN a
  BY <1>2, <1>3
<1>5. \A x \in DOMAIN a : x # 1 => \E y \in DOMAIN b : b[y] = a[x]
  <2> TAKE x \in DOMAIN a
  <2>1. x # 1 => x - 1 \in DOMAIN b /\ b[x - 1] = a[x]
    BY <1>2, <1>3
  <2> QED BY <2>1
<1>6. /\ gets' \in [Srcs -> Seq(GetRecord)] /\ gets'[s] = b
      /\ \A t \in Srcs : t # s => gets'[t] = gets[t]
  BY <1>1, <1>2
<1>7. GetsOf(s) /\ i \in Getting /\ req[i].src = s /\ InFlight(i) /\ i = a[1].req
  BY <1>1, <1>4, FlightWhere DEF Gets
<1>8. /\ AllAsked(s, a)
      /\ OnceEach(a)
      /\ Ordered(proglst, a, Landed(s)) /\ lclget[s] = Cardinality(Landed(s))
  BY <1>1, <1>7 DEF GetsOf
<1>9. \A x \in DOMAIN b : b[x].req # i
  BY <1>4, <1>7, <1>8 DEF OnceEach
<1>10. ~ InFlight(i)'
  <2>1. ASSUME NEW t \in Srcs, NEW x \in DOMAIN gets'[t], gets'[t][x].req = i PROVE FALSE
    <3>1. CASE t = s
      BY <1>6, <1>9, <2>1, <3>1
    <3>2. CASE t # s
      <4>1. x \in DOMAIN gets[t] /\ gets[t][x].req = i
        BY <1>6, <2>1, <3>2
      <4>2. req[i].src = t
        BY <4>1, FlightWhere
      <4> QED BY <1>7, <3>2, <4>2
    <3> QED BY <3>1, <3>2
  <2> QED BY <2>1 DEF InFlight
<1>11. ASSUME NEW j, j # i PROVE InFlight(j)' = InFlight(j)
  <2>1. (\E x \in DOMAIN b : b[x].req = j) <=> (\E x \in DOMAIN a : a[x].req = j)
    <3>1. \A x \in DOMAIN b : \E y \in DOMAIN a : b[x] = a[y]
      BY <1>4
    <3>2. \A x \in DOMAIN a : a[x].req = j => \E y \in DOMAIN b : b[y] = a[x]
      BY <1>5, <1>7, <1>11
    <3> QED BY <3>1, <3>2
  <2>2. \A t \in Srcs : (\E x \in DOMAIN gets'[t] : gets'[t][x].req = j)
                          <=> (\E x \in DOMAIN gets[t] : gets[t][x].req = j)
    BY <1>1, <1>6, <2>1
  <2> QED BY <2>2 DEF InFlight
<1>12. Getting' = Getting
  BY DEF Getting
<1>13. Landed(s)' = Landed(s) \cup {i} /\ i \notin Landed(s)
  BY <1>7, <1>10, <1>11, <1>12 DEF Landed
<1>14. lclget[s] \in Nat /\ lclget'[s] = lclget[s] + 1 /\ \A t \in Srcs : t # s => lclget'[t] = lclget[t]
  BY DEF PoolInv, TypeRndz
<1>15. AllAsked(s, a)'
  BY <1>8, <1>12 DEF AllAsked
<1>16. GetsOf(s)'
  <2>1. PICK done : done = Landed(s) \cup {i}
    OBVIOUS
  <2>0. PICK lst : lst = proglst
    OBVIOUS
  <2>2. Ordered(lst, b, done)
    BY <1>1, <1>2, <1>7, <1>8, <2>0, <2>1, OrderedGot
  <2>3. AllAsked(s, b)'
    BY <1>4, <1>15 DEF AllAsked
  <2>4. OnceEach(b)
    BY <1>4, <1>8 DEF OnceEach
  <2>5. lclget'[s] = Cardinality(done)
    <3>1. proglst \in Seq(MsgReq)
      BY DEF PoolInv, TypeLists
    <3>2. IsFiniteSet(Landed(s))
      BY <3>1, LandedFinite
    <3>3. Cardinality(done) = Cardinality(Landed(s)) + 1
      BY <1>13, <2>1, <3>2, FS_AddElement
    <3> QED BY <1>8, <1>14, <3>3
  <2>6. Landed(s)' = done /\ gets'[s] = b /\ proglst' = lst
    BY <1>6, <1>13, <2>0, <2>1
  <2>7. s \in Srcs
    OBVIOUS
  <2> QED BY <2>2, <2>3, <2>4, <2>5, <2>6, <2>7, GetsBuilt
<1>17. ASSUME NEW t \in Srcs, t # s PROVE GetsOf(t)'
  <2>1. Landed(t)' = Landed(t)
    BY <1>7, <1>11, <1>12, <1>17 DEF Landed
  <2>2. PICK ops, done : ops = gets[t] /\ done = Landed(t)
    OBVIOUS
  <2>3. AllAsked(t, ops)'
    BY <1>12, <2>2 DEF Gets, GetsOf, AllAsked
  <2>4. /\ OnceEach(ops)
        /\ Ordered(proglst, ops, done) /\ lclget[t] = Cardinality(done)
    BY <2>2 DEF Gets, GetsOf
  <2>5. gets'[t] = ops /\ Landed(t)' = done /\ proglst' = proglst /\ lclget'[t] = Cardinality(done)
    BY <1>6, <1>14, <1>17, <2>1, <2>2, <2>4
  <2> QED BY <1>17, <2>3, <2>4, <2>5, GetsBuilt
<1>18. Gets'
  BY <1>16, <1>17 DEF Gets
<1>19. gets[s][1].msg = req[i].msg /\ gets[s][1].part = req[i].rsize
  BY <1>1, <1>4, <1>7, <1>8 DEF AllAsked
<1> QED BY <1>6, <1>7, <1>10, <1>11, <1>12, <1>18, <1>19 DEF OthersFly

(* find_rget_msgreq: the first request of a source                         *)
LEMMA LeastIs ==
  ASSUME NEW T, T \subseteq Nat, T # {}
  PROVE  Min(T) \in T /\ \A y \in T : Min(T) <= y
<1>1. \E x \in T : \A y \in T : x <= y
  BY LeastNumber
<1> QED BY <1>1 DEF Min

LEMMA RgetLeast ==
  ASSUME NEW s, proglst \in Seq(MsgReq), NEW b \in DOMAIN proglst, req[proglst[b]].src = s
  PROVE  RgetOf(s) # 0 /\ RgetOf(s) <= b
<1> DEFINE I == {j \in 1 .. Len(proglst) : req[proglst[j]].src = s}
<1>1. RgetOf(s) = IF I # {} THEN Min(I) ELSE 0
  BY DEF RgetOf, SelectInSeq
<1>2. I \subseteq Nat /\ Len(proglst) \in Nat /\ 0 \notin I /\ b \in I
  OBVIOUS
<1>3. Min(I) \in I /\ \A y \in I : Min(I) <= y
  <2> HIDE DEF I
  <2> QED BY <1>2, LeastIs
<1> QED BY <1>1, <1>2, <1>3

(* A notice belongs to the first request of its source.                    *)
LEMMA RgetLanded ==
  ASSUME PoolInv, Gets, NEW s \in Srcs, lclget[s] > 0, NEW at, at = RgetOf(s)
  PROVE  at \in 1 .. Len(proglst) /\ proglst[at] \in Landed(s)
<1>1. proglst \in Seq(MsgReq) /\ GetsOf(s)
  BY DEF PoolInv, TypeLists, Gets
<1>2. Landed(s) # {}
  <2>1. lclget[s] = Cardinality(Landed(s)) /\ lclget[s] # 0
    BY <1>1 DEF GetsOf
  <2> QED BY <2>1, FS_EmptySet
<1>3. PICK l \in Landed(s) : TRUE
  BY <1>2
<1>4. l \in Getting /\ req[l].src = s
  BY DEF Landed
<1>5. PICK b \in DOMAIN proglst : proglst[b] = l
  BY <1>4 DEF Getting, ToSet
<1>6. at # 0 /\ at <= b
  BY <1>1, <1>4, <1>5, RgetLeast
<1>7. at \in 1 .. Len(proglst) /\ req[proglst[at]].src = s
  BY <1>1, <1>6, RgetFirst
<1>8. PICK i : i = proglst[at]
  OBVIOUS
<1>9. i \in Getting /\ at \in DOMAIN proglst
  BY <1>1, <1>7, <1>8 DEF Getting, ToSet
<1>10. ASSUME InFlight(i) PROVE FALSE
  <2>1. PICK j \in DOMAIN gets[s] : gets[s][j].req = i
    BY <1>7, <1>8, <1>10, FlightOf
  <2>2. b < at
    BY <1>1, <1>3, <1>5, <1>8, <1>9, <2>1 DEF GetsOf, Ordered
  <2>3. at \in Int /\ b \in Int
    BY <1>1, <1>5, <1>7
  <2> QED BY <1>6, <2>2, <2>3
<1> QED BY <1>7, <1>8, <1>9, <1>10 DEF Landed

(* rget_continue                                                           *)
LEMMA GetsMore ==
  ASSUME PoolInv, Gets, gets \in [Srcs -> Seq(GetRecord)],
         NEW s \in Srcs, NEW at \in 1 .. Len(proglst), NEW i, i = proglst[at], i \in Landed(s),
         NEW f \in ReqRecord, Asks(s, i, f),
         proglst' = Append(RemoveAt(proglst, at), i), lclget' = [lclget EXCEPT ![s] = @ - 1]
  PROVE  /\ Gets' /\ gets' \in [Srcs -> Seq(GetRecord)] /\ Getting' = Getting
         /\ InFlight(i)' /\ \A j : j # i => InFlight(j)' = InFlight(j)
<1>1. PICK lst : lst = RemoveAt(proglst, at)
  OBVIOUS
<1>2. proglst \in Seq(MsgReq) /\ IsInjective(proglst) /\ lclget \in [Srcs -> Nat]
  BY DEF PoolInv, TypeLists, Distinct, TypeRndz
<1>3. lst \in Seq(MsgReq) /\ ToSet(lst) = Getting \ {i}
  BY <1>1, <1>2, SeqRemove DEF Getting
<1>4. i \in Getting /\ req[i].src = s /\ ~ InFlight(i)
  BY DEF Landed
<1>5. \A t \in Srcs : \A j \in DOMAIN gets[t] : gets[t][j].req # i
  BY <1>4 DEF InFlight
<1>6. \A t \in Srcs : Ordered(lst, gets[t], Landed(t))
  BY <1>1, <1>2, OrderedLeave DEF Gets, GetsOf
<1>7. \A t \in Srcs : lclget'[t] = Cardinality(Landed(t) \ {i})
  <2> TAKE t \in Srcs
  <2>1. IsFiniteSet(Landed(t)) /\ lclget[t] = Cardinality(Landed(t))
    BY <1>2, LandedFinite DEF Gets, GetsOf
  <2>2. CASE t = s
    <3>1. Cardinality(Landed(s) \ {i}) = Cardinality(Landed(s)) - 1
      BY <2>1, <2>2, FS_RemoveElement
    <3>2. lclget'[s] = lclget[s] - 1
      BY <1>2
    <3> QED BY <2>1, <2>2, <3>1, <3>2
  <2>3. CASE t # s
    <3>1. Landed(t) \ {i} = Landed(t)
      BY <1>4, <2>3 DEF Landed
    <3> QED BY <1>2, <2>1, <2>3, <3>1
  <2> QED BY <2>2, <2>3
<1>8. i \notin ToSet(lst) /\ proglst' = Append(lst, i)
  BY <1>1, <1>3
<1>9. /\ Gets' /\ gets' \in [Srcs -> Seq(GetRecord)] /\ Getting' = Getting \cup {i}
      /\ InFlight(i)' /\ \A j : j # i => InFlight(j)' = InFlight(j)
  <2>2. Gets'
    BY <1>3, <1>5, <1>6, <1>7, <1>8, GetsAsk
  <2>3. PICK g : g = [req |-> i, msg |-> f.msg, part |-> f.rsize]
    OBVIOUS
  <2>4. gets' \in [Srcs -> Seq(GetRecord)] /\ InFlight(i)'
    BY <2>3, AsksFacts
  <2>5. \A j : j # i => InFlight(j)' = InFlight(j)
    BY <2>3, AsksFacts
  <2>6. Getting' = ToSet(lst) \cup {i}
    <3>1. /\ DOMAIN Append(lst, i) = DOMAIN lst \cup {Len(lst) + 1}
          /\ Append(lst, i)[Len(lst) + 1] = i
          /\ \A x \in DOMAIN lst : Append(lst, i)[x] = lst[x]
      BY <1>3, AppendProperties DEF Asks
    <3> QED BY <1>8, <3>1 DEF Getting, ToSet
  <2> QED BY <1>3, <2>2, <2>4, <2>5, <2>6
<1> QED BY <1>4, <1>9

(* the last get of a request was the notice's                              *)
LEMMA GetsLast ==
  ASSUME PoolInv, Gets,
         NEW s \in Srcs, NEW at \in 1 .. Len(proglst), NEW i, i = proglst[at], i \in Landed(s),
         NEW f, Becomes(i, f), UNCHANGED gets,
         proglst' = RemoveAt(proglst, at), lclget' = [lclget EXCEPT ![s] = @ - 1]
  PROVE  /\ Gets' /\ Getting' = Getting \ {i} /\ \A j : InFlight(j)' = InFlight(j)
<1>1. PICK lst : lst = RemoveAt(proglst, at)
  OBVIOUS
<1>2. proglst \in Seq(MsgReq) /\ IsInjective(proglst) /\ lclget \in [Srcs -> Nat]
  BY DEF PoolInv, TypeLists, Distinct, TypeRndz
<1>3. Getting' = Getting \ {i} /\ Getting \subseteq MsgReq
  BY <1>1, <1>2, SeqRemove, LandedFinite DEF Getting
<1>4. i \in Getting /\ req[i].src = s /\ ~ InFlight(i)
  BY DEF Landed
<1>5. \A t \in Srcs : \A j \in DOMAIN gets[t] : gets[t][j].req # i
  BY <1>4 DEF InFlight
<1>6. \A j : InFlight(j)' = InFlight(j)
  BY DEF InFlight
<1>7. \A j \in MsgReq : j # i => req'[j] = req[j]
  BY DEF Becomes
<1>8. \A t \in Srcs : Landed(t)' = Landed(t) \ {i}
  BY <1>3, <1>6, <1>7 DEF Landed
<1>9. ASSUME NEW t \in Srcs PROVE GetsOf(t)'
  <2>1. PICK ops, done : ops = gets[t] /\ done = Landed(t) \ {i}
    OBVIOUS
  <2>2. /\ AllAsked(t, ops)
        /\ OnceEach(ops)
    BY <2>1 DEF Gets, GetsOf, AllAsked
  <2>3. AllAsked(t, ops)'
    BY <1>3, <1>5, <1>7, <2>1, <2>2 DEF AllAsked
  <2>4. Ordered(lst, ops, done)
    <3>1. Ordered(lst, ops, Landed(t))
      BY <1>1, <1>2, <2>1, OrderedLeave DEF Gets, GetsOf
    <3> QED BY <2>1, <3>1, OrderedFewer
  <2>5. lclget'[t] = Cardinality(done)
    <3>1. IsFiniteSet(Landed(t)) /\ lclget[t] = Cardinality(Landed(t))
      BY <1>2, LandedFinite DEF Gets, GetsOf
    <3>2. CASE t = s
      <4>1. Cardinality(Landed(s) \ {i}) = Cardinality(Landed(s)) - 1
        BY <3>1, <3>2, FS_RemoveElement
      <4>2. lclget'[s] = lclget[s] - 1
        BY <1>2
      <4> QED BY <2>1, <3>1, <3>2, <4>1, <4>2
    <3>3. CASE t # s
      <4>1. Landed(t) \ {i} = Landed(t)
        BY <1>4, <3>3 DEF Landed
      <4> QED BY <1>2, <2>1, <3>1, <3>3, <4>1
    <3> QED BY <3>2, <3>3
  <2>6. gets'[t] = ops /\ Landed(t)' = done /\ proglst' = lst
    BY <1>1, <1>8, <2>1
  <2> QED BY <1>9, <2>2, <2>3, <2>4, <2>5, <2>6, GetsBuilt
<1>10. Gets'
  BY <1>9 DEF Gets
<1> QED BY <1>3, <1>6, <1>10

-----------------------------------------------------------------------------
(* Steps that leave the data alone.                                        *)

LEMMA RolesInRange ==
  ASSUME PoolInv
  PROVE  /\ Expected \subseteq MsgReq /\ Unexpected \subseteq MsgReq
         /\ Filling \subseteq MsgReq /\ Getting \subseteq MsgReq /\ OpenRecvs \subseteq MsgReq
<1>1. /\ explst \in Seq(Lst) /\ uexplst \in Seq(Lst) /\ proglst \in Seq(MsgReq)
      /\ urp \in [Srcs -> [state : {"R_NONE", "R_BODY"}, req : MsgReq \cup {NoReq}]]
      /\ recvs \in Seq(CallRecord)
  BY DEF PoolInv, TypeLists
<1>2. Expected \subseteq MsgReq /\ Unexpected \subseteq MsgReq
  <2>1. \A e \in Lst : e.reqidx \in MsgReq
    BY DEF Lst
  <2> QED BY <1>1, <2>1, ElementOfSeq DEF Expected, Unexpected, Held
<1>3. Filling \subseteq MsgReq
  BY <1>1 DEF Filling
<1>4. Getting \subseteq MsgReq
  BY <1>1, ElementOfSeq DEF Getting, ToSet
<1>5. OpenRecvs \subseteq MsgReq
  <2>1. \A c \in CallRecord : c.req \in MsgReq
    BY DEF CallRecord
  <2> QED BY <1>1, <2>1, ElementOfSeq DEF OpenRecvs, Opened
<1> QED BY <1>2, <1>3, <1>4, <1>5

(* a ring keeps its place in its message                                   *)
LEMMA RingsKept ==
  ASSUME PoolInv, DataInv, NEW i, Left(i), UNCHANGED <<ring, urp>>,
         \/ i \notin Filling
         \/ /\ req'[i].src = req[i].src /\ req'[i].msg = req[i].msg
            /\ req'[i].rsize = req[i].rsize
  PROVE  /\ Stream' /\ Filling' = Filling
         /\ (\A s \in Srcs : \A j \in MsgReq : urp[s].req = j => req[j].src = s)'
<1>1. urp \in [Srcs -> [state : {"R_NONE", "R_BODY"}, req : MsgReq \cup {NoReq}]]
  BY DEF PoolInv, TypeLists
<1>2. \A s \in Srcs : urp[s].req \in MsgReq \cup {NoReq}
  BY <1>1
<1>3. ASSUME NEW s \in Srcs, NEW j, j = urp[s].req, j # NoReq
      PROVE  /\ req'[j].src = req[j].src /\ req'[j].msg = req[j].msg
             /\ req'[j].rsize = req[j].rsize
  <2>1. j \in MsgReq /\ j \in Filling
    BY <1>2, <1>3 DEF Filling
  <2> QED BY <2>1 DEF Left
<1>4. ASSUME NEW s \in Srcs PROVE StreamOf(s)'
  <2>1. PICK j : j = urp[s].req
    OBVIOUS
  <2>2. StreamOf(s)
    BY DEF DataInv, Stream
  <2>3. j = NoReq \/ (req'[j].msg = req[j].msg /\ req'[j].rsize = req[j].rsize)
    BY <1>3, <2>1
  <2>4. \A n \in DOMAIN sent[s] : n \in DOMAIN sent'[s] /\ sent'[s][n] = sent[s][n]
    BY DEF Left
  <2> QED BY <2>1, <2>2, <2>3, <2>4, StreamKept
<1>5. ASSUME NEW s \in Srcs, NEW j \in MsgReq, urp'[s].req = j PROVE req'[j].src = s
  <2>1. j # NoReq /\ urp[s].req = j
    BY <1>5, RecvAssumption DEF MsgReq, NoReq
  <2>2. req[j].src = s
    BY <2>1 DEF DataInv, Fill
  <2> QED BY <1>3, <2>1, <2>2
<1>6. Filling' = Filling
  BY DEF Filling
<1> QED BY <1>4, <1>5, <1>6 DEF Stream

(* request i is nobody's receive                                           *)
LEMMA DataOther ==
  ASSUME PoolInv, DataInv, NEW i,
         i \notin Expected \cup Unexpected \cup Filling \cup Getting \cup OpenRecvs,
         \A j \in MsgReq : j # i => req'[j] = req[j],
         UNCHANGED <<explst, uexplst, urp, ring, proglst, gets, lclget, sent, recvs, ubuf>>
  PROVE  DataInv' /\ Stays /\ Remains
<1>1. TypeData /\ Rooms /\ Gets
  BY DEF DataInv
<1>2. recvs \in Seq(CallRecord)
  BY DEF PoolInv, TypeLists
<1>3. Left(i)
  BY DEF Left
<1>4. \A r \in DOMAIN recvs : ~ (recvs[r].open /\ recvs[r].req = i)
  BY DEF OpenRecvs, Opened
<1>5. Stream' /\ Filling' = Filling
      /\ (\A s \in Srcs : \A j \in MsgReq : urp[s].req = j => req[j].src = s)'
  BY <1>3, RingsKept
<1>6. Getting \subseteq MsgReq /\ Getting' = Getting
  BY LandedFinite DEF PoolInv, TypeLists, Getting
<1>7. \A j \in Getting : req'[j] = req[j]
  BY <1>6
<1>8. Gets' /\ \A j : InFlight(j)' = InFlight(j)
  BY <1>1, <1>7, GetsKept
<1>9. Expected' = Expected /\ Unexpected' = Unexpected
  BY DEF Expected, Unexpected
<1>10. Expected \subseteq MsgReq /\ Unexpected \subseteq MsgReq /\ Filling \subseteq MsgReq
  BY RolesInRange
<1>11. (\A j \in Filling : FilledOf(j))' /\ Queued' /\ Posted' /\ Got' /\ DoneRecvs'
  BY <1>3, <1>4, <1>5, <1>6, <1>8, <1>9, <1>10, DataStep
<1>12. TypeData' /\ Rooms'
  BY <1>1 DEF TypeData, Rooms
<1>13. Stays
  BY <1>3, StaysBusy
<1>14. Remains
  BY <1>3, <1>6, <1>9, <1>10, RemainAll
<1> QED BY <1>5, <1>8, <1>11, <1>12, <1>13, <1>14 DEF DataInv, Fill

LEMMA DataSame ==
  ASSUME PoolInv, DataInv,
         UNCHANGED <<req, explst, uexplst, urp, ring, proglst, gets, lclget, sent, recvs, ubuf>>
  PROVE  DataInv' /\ Stays /\ Remains
<1>1. NoReq \notin MsgReq
  BY RecvAssumption DEF NoReq, MsgReq
<1>2. NoReq \notin Expected \cup Unexpected \cup Filling \cup Getting \cup OpenRecvs
  BY <1>1, RolesInRange
<1>3. \A j \in MsgReq : j # NoReq => req'[j] = req[j]
  OBVIOUS
<1> QED BY <1>2, <1>3, DataOther

LEMMA FaultData ==
  ASSUME PoolInv, DataInv, Fault
  PROVE  DataInv' /\ Stays /\ Remains
BY DataSame DEF Fault, poolVars, lstVars, rgetVars, srcVars, userVars

LEMMA RndzDoneData ==
  ASSUME PoolInv, DataInv, NEW s, NEW pos, RndzDone(s, pos)
  PROVE  DataInv' /\ Stays /\ Remains
BY DataSame DEF RndzDone, poolVars, lstVars, rgetVars, userVars

(* the requests of the rank's own sends                                    *)
LEMMA SendData ==
  ASSUME PoolInv, DataInv, NEW type \in SendTypes, Send(type)
  PROVE  DataInv' /\ Stays /\ Remains
<1>a. PICK i : i = Head(freelst)
  OBVIOUS
<1>b. PICK f : f = [req[i] EXCEPT !.state = "PRG_NORMAL", !.type = type, !.reclaim = FALSE]
  OBVIOUS
<1>0. TypeLists /\ Distinct /\ Roles
  BY DEF PoolInv
<1>c. CASE PoolEmpty
  <2>1. Fault
    BY <1>c DEF Send
  <2> QED BY <2>1, FaultData
<1>d. CASE ~ PoolEmpty
  <2>1. /\ freelst # <<>> /\ req' = [req EXCEPT ![i] = f]
        /\ UNCHANGED <<explst, uexplst, urp, ring, proglst, gets, lclget, sent, recvs, ubuf>>
    BY <1>a, <1>b, <1>d DEF Send, PoolEmpty, lstVars, rgetVars, srcVars
  <2>2. i \in MsgReq /\ i \in Free
    BY <1>0, <1>a, <2>1, SeqTake DEF TypeLists, Distinct, Free
  <2>3. i \notin Expected \cup Unexpected \cup Filling \cup Getting \cup OpenRecvs
    BY <1>0, <2>2, UsedRole
  <2>4. \A j \in MsgReq : j # i => req'[j] = req[j]
    BY <1>0, <2>1 DEF TypeLists
  <2> QED BY <2>1, <2>3, <2>4, DataOther
<1> QED BY <1>c, <1>d

LEMMA SendNoRecv ==
  ASSUME PoolInv, NEW i \in MsgReq, i \in engine \cup OpenSends
  PROVE  i \notin Expected \cup Unexpected \cup Filling \cup Getting \cup OpenRecvs
<1>1. Role(i)
  BY DEF PoolInv, Roles
<1> QED BY <1>1, TypesApart DEF Role

LEMMA EngineDoneData ==
  ASSUME PoolInv, DataInv, NEW i \in engine, EngineDone(i)
  PROVE  DataInv' /\ Stays /\ Remains
<1>1. TypeLists
  BY DEF PoolInv
<1>2. i \in MsgReq
  BY <1>1 DEF TypeLists
<1>3. /\ \A j \in MsgReq : j # i => req'[j] = req[j]
      /\ UNCHANGED <<explst, uexplst, urp, ring, proglst, gets, lclget, sent, recvs, ubuf>>
  BY <1>1 DEF EngineDone, lstVars, rgetVars, srcVars, TypeLists
<1>4. i \notin Expected \cup Unexpected \cup Filling \cup Getting \cup OpenRecvs
  BY <1>2, SendNoRecv
<1> QED BY <1>3, <1>4, DataOther

LEMMA WaitSendData ==
  ASSUME PoolInv, DataInv, NEW k \in DOMAIN sends, WaitSend(k)
  PROVE  DataInv' /\ Stays /\ Remains
<1>a. PICK i : i = sends[k].req
  OBVIOUS
<1>1. TypeLists
  BY DEF PoolInv
<1>2. i \in MsgReq /\ i \in OpenSends
  <2>1. sends \in Seq(SendCall)
    BY <1>1 DEF TypeLists, SendCall
  <2>2. sends[k] \in SendCall
    BY <2>1, ElementOfSeq
  <2> QED BY <1>a, <2>2 DEF SendCall, WaitSend, OpenSends, Opened
<1>3. /\ \A j \in MsgReq : j # i => req'[j] = req[j]
      /\ UNCHANGED <<explst, uexplst, urp, ring, proglst, gets, lclget, sent, recvs, ubuf>>
  BY <1>a, <1>1 DEF WaitSend, Freed, lstVars, rgetVars, srcVars, TypeLists
<1>4. i \notin Expected \cup Unexpected \cup Filling \cup Getting \cup OpenRecvs
  BY <1>2, SendNoRecv
<1> QED BY <1>3, <1>4, DataOther

-----------------------------------------------------------------------------
(* The parts of a message, and the receives.                               *)

LEMMA PartsAre ==
  ASSUME NEW s \in Srcs, NEW n \in Nat, NEW k \in Nat
  PROVE  /\ Parts(s, n, k) \in Payloads
         /\ Append(Parts(s, n, k), <<s, n, k + 1>>) = Parts(s, n, k + 1)
<1>1. PICK p, m, e : p = Parts(s, n, k) /\ e = <<s, n, k + 1>> /\ m = Append(p, e)
  OBVIOUS
<1>2. p \in [1 .. k -> Srcs \X Nat \X Nat] /\ e \in Srcs \X Nat \X Nat
  BY <1>1 DEF Parts
<1>3. p \in Seq(Srcs \X Nat \X Nat) /\ Len(p) = k
  BY <1>2
<1>4. /\ m \in Seq(Srcs \X Nat \X Nat) /\ Len(m) = k + 1 /\ m[k + 1] = e
      /\ \A j \in 1 .. k : m[j] = p[j]
  BY <1>1, <1>2, <1>3, AppendProperties
<1>5. m = [c \in 1 .. k + 1 |-> m[c]]
  BY <1>4
<1>6. \A c \in 1 .. k + 1 : m[c] = <<s, n, c>>
  BY <1>1, <1>4 DEF Parts
<1> QED BY <1>1, <1>3, <1>5, <1>6 DEF Parts, Payloads

LEMMA ServesOnly ==
  ASSUME PoolInv, NEW i, Serves(i), NEW u, u = req[i].usr
  PROVE  /\ u \in DOMAIN recvs /\ recvs[u].open /\ ~ recvs[u].late /\ recvs[u].req = i
         /\ \A x \in DOMAIN recvs : recvs[x].open /\ recvs[x].req = i => x = u
BY DEF Serves, PoolInv, Distinct, DistinctOpen

LEMMA CallsAppend ==
  ASSUME TypeData, Rooms, recvs \in Seq(CallRecord), NEW c \in CallRecord, EagerFits(c.size),
         NEW b \in Payloads, recvs' = Append(recvs, c), ubuf' = Append(ubuf, b),
         NEW r, r = Len(recvs) + 1
  PROVE  /\ Len(ubuf') = Len(recvs') /\ ubuf' \in Seq(Payloads) /\ Rooms'
         /\ recvs'[r] = c /\ ubuf'[r] = b /\ r \in DOMAIN recvs' /\ r \notin DOMAIN recvs
         /\ \A x \in DOMAIN recvs' : x # r => x \in DOMAIN recvs
         /\ \A x \in DOMAIN recvs : /\ x \in DOMAIN recvs' /\ recvs'[x] = recvs[x]
                                    /\ ubuf'[x] = ubuf[x]
<1>1. ubuf \in Seq(Payloads) /\ Len(ubuf) = Len(recvs) /\ Len(recvs) \in Nat
  BY DEF TypeData
<1>2. /\ recvs' \in Seq(CallRecord) /\ Len(recvs') = r /\ recvs'[r] = c
      /\ \A x \in 1 .. Len(recvs) : recvs'[x] = recvs[x]
  BY AppendProperties
<1>3. /\ ubuf' \in Seq(Payloads) /\ Len(ubuf') = r /\ ubuf'[r] = b
      /\ \A x \in 1 .. Len(recvs) : ubuf'[x] = ubuf[x]
  BY <1>1, AppendProperties
<1>4. DOMAIN recvs = 1 .. Len(recvs) /\ DOMAIN recvs' = 1 .. Len(recvs) + 1
  BY <1>1, <1>2
<1>5. \A x \in DOMAIN recvs' : x # r => x \in DOMAIN recvs
  BY <1>1, <1>4
<1>6. r \in DOMAIN recvs' /\ r \notin DOMAIN recvs
  BY <1>1, <1>4
<1>7. \A x \in DOMAIN recvs : x \in DOMAIN recvs' /\ recvs'[x] = recvs[x] /\ ubuf'[x] = ubuf[x]
  BY <1>1, <1>2, <1>3, <1>4
<1>8. Rooms'
  <2>1. \A x \in DOMAIN recvs' : EagerFits(recvs'[x].size)
    BY <1>2, <1>5, <1>7 DEF Rooms
  <2> QED BY <2>1 DEF Rooms, EagerFits
<1> QED BY <1>2, <1>3, <1>5, <1>6, <1>7, <1>8

LEMMA CallsClose ==
  ASSUME TypeData, Rooms, recvs \in Seq(CallRecord), NEW r \in DOMAIN recvs,
         recvs' = [recvs EXCEPT ![r].open = FALSE], UNCHANGED <<ubuf, gets>>
  PROVE  /\ TypeData' /\ Rooms' /\ DOMAIN recvs' = DOMAIN recvs
         /\ \A x \in DOMAIN recvs : x # r => recvs'[x] = recvs[x]
         /\ recvs'[r].msg = recvs[r].msg /\ recvs'[r].size = recvs[r].size
         /\ recvs'[r].late = recvs[r].late /\ recvs'[r].open = FALSE
<1>1. recvs' \in Seq(CallRecord)
  BY CloseRecv
<1>2. /\ DOMAIN recvs' = DOMAIN recvs
      /\ \A x \in DOMAIN recvs : x # r => recvs'[x] = recvs[x]
  OBVIOUS
<1>3. recvs[r] \in CallRecord
  BY ElementOfSeq
<1>4. /\ recvs'[r].msg = recvs[r].msg /\ recvs'[r].size = recvs[r].size
      /\ recvs'[r].late = recvs[r].late /\ recvs'[r].open = FALSE
  BY <1>3 DEF CallRecord
<1>5. Rooms'
  <2>1. \A x \in DOMAIN recvs' : EagerFits(recvs'[x].size)
    BY <1>2, <1>4 DEF Rooms
  <2> QED BY <2>1 DEF Rooms, EagerFits
<1>6. Len(recvs') = Len(recvs)
  <2>1. Len(recvs) \in Nat /\ DOMAIN recvs = 1 .. Len(recvs) /\ DOMAIN recvs' = 1 .. Len(recvs')
        /\ Len(recvs') \in Nat
    BY <1>1
  <2> QED BY <1>2, <2>1
<1>7. TypeData'
  BY <1>6 DEF TypeData
<1> QED BY <1>2, <1>4, <1>5, <1>7

(* a receive is waited for                                                 *)
LEMMA WaitRecvData ==
  ASSUME PoolInv, DataInv, NEW r \in DOMAIN recvs, WaitRecv(r)
  PROVE  DataInv' /\ Stays /\ Remains
<1>a. PICK i : i = recvs[r].req
  OBVIOUS
<1>0. /\ TypeLists /\ Distinct /\ Roles /\ recvs \in Seq(CallRecord)
      /\ TypeData /\ Rooms /\ Gets
  BY DEF PoolInv, DataInv, TypeLists
<1>1. /\ recvs[r].open /\ req[i].state = "DONE" /\ i \in OpenRecvs
      /\ \A j \in MsgReq : j # i => req'[j] = req[j]
      /\ recvs' = [recvs EXCEPT ![r].open = FALSE]
      /\ UNCHANGED <<explst, uexplst, urp, ring, proglst, gets, lclget, sent, ubuf>>
  BY <1>0, <1>a
     DEF WaitRecv, Freed, lstVars, rgetVars, srcVars, TypeLists, OpenRecvs, Opened
<1>2. i \in MsgReq /\ Role(i)
  BY <1>0, <1>1, RolesInRange DEF Roles
<1>3. i \notin Expected \cup Unexpected \cup Filling \cup Getting
  BY <1>1, <1>2 DEF Role
<1>4. /\ TypeData' /\ Rooms' /\ DOMAIN recvs' = DOMAIN recvs
      /\ \A x \in DOMAIN recvs : x # r => recvs'[x] = recvs[x]
      /\ recvs'[r].msg = recvs[r].msg /\ recvs'[r].size = recvs[r].size
      /\ recvs'[r].late = recvs[r].late /\ recvs'[r].open = FALSE
  BY <1>0, <1>1, CallsClose
<1>5. Left(i)
  BY <1>1, <1>4, <1>a DEF Left
<1>6. \A x \in DOMAIN recvs : recvs[x].open /\ recvs[x].req = i => x = r
  BY <1>0, <1>1, <1>a DEF Distinct, DistinctOpen
<1>7. DoneOf(r)'
  <2>1. CASE recvs[r].late
    BY <1>4, <2>1 DEF DoneOf
  <2>2. CASE ~ recvs[r].late
    <3>1. DoneOf(r)
      BY DEF DataInv, DoneRecvs
    <3>2. HasAll(r)
      BY <1>1, <1>a, <2>2, <3>1 DEF DoneOf
    <3>3. HasAll(r)'
      BY <1>1, <1>4, <1>5, <3>2, HasAllKept
    <3> QED BY <1>4, <3>3 DEF DoneOf
  <2> QED BY <2>1, <2>2
<1>8. \A x \in DOMAIN recvs' : (x \in DOMAIN recvs => recvs[x].open /\ recvs[x].req = i) => DoneOf(x)'
  BY <1>4, <1>6, <1>7
<1>9. Stream' /\ Filling' = Filling
      /\ (\A s \in Srcs : \A j \in MsgReq : urp[s].req = j => req[j].src = s)'
  BY <1>1, <1>3, <1>5, RingsKept
<1>10. \A j \in Getting : req'[j] = req[j]
  BY <1>1, <1>3, RolesInRange
<1>11. Gets' /\ Getting' = Getting /\ \A j : InFlight(j)' = InFlight(j)
  BY <1>0, <1>1, <1>10, GetsKept
<1>12. Expected' = Expected /\ Unexpected' = Unexpected
  BY <1>1 DEF Expected, Unexpected
<1>13. (\A j \in Filling : FilledOf(j))' /\ Queued' /\ Posted' /\ Got' /\ DoneRecvs'
  BY <1>3, <1>5, <1>8, <1>9, <1>11, <1>12, RolesInRange, DataStep
<1>14. StaysHere(r)
  <2>1. SUFFICES ASSUME Here(r) PROVE Here(r)'
    BY <1>4 DEF StaysHere
  <2>2. HasAll(r)'
    BY <1>1, <1>4, <1>5, <2>1, HasAllKept DEF Here
  <2> QED BY <1>4, <2>1, <2>2 DEF Here
<1>15. Stays
  BY <1>5, <1>6, <1>14, StaysStep
<1>16. Remains
  BY <1>3, <1>5, <1>11, <1>12, RolesInRange, RemainAll
<1> QED BY <1>4, <1>9, <1>11, <1>13, <1>15, <1>16 DEF DataInv, Fill

LEMMA WaitCmplRecvData ==
  ASSUME PoolInv, DataInv, NEW r \in DOMAIN recvs, WaitCmplRecv(r)
  PROVE  DataInv' /\ Stays /\ Remains
<1>a. PICK i : i = recvs[r].req
  OBVIOUS
<1>0. /\ TypeLists /\ Distinct /\ Roles /\ recvs \in Seq(CallRecord)
      /\ TypeData /\ Rooms /\ Gets
  BY DEF PoolInv, DataInv, TypeLists
<1>1. /\ recvs[r].open /\ req[i].state = "NONE" /\ i \in OpenRecvs
      /\ recvs' = [recvs EXCEPT ![r].open = FALSE]
      /\ UNCHANGED <<req, explst, uexplst, urp, ring, proglst, gets, lclget, sent, ubuf>>
  BY <1>a DEF WaitCmplRecv, poolVars, lstVars, rgetVars, srcVars, OpenRecvs, Opened
<1>2. i \in MsgReq /\ Role(i)
  BY <1>0, <1>1, RolesInRange DEF Roles
<1>3. i \notin Expected \cup Unexpected \cup Getting
  BY <1>1, <1>2 DEF Role
<1>4. /\ TypeData' /\ Rooms' /\ DOMAIN recvs' = DOMAIN recvs
      /\ \A x \in DOMAIN recvs : x # r => recvs'[x] = recvs[x]
      /\ recvs'[r].msg = recvs[r].msg /\ recvs'[r].size = recvs[r].size
      /\ recvs'[r].late = recvs[r].late /\ recvs'[r].open = FALSE
  BY <1>0, <1>1, CallsClose
<1>5. Left(i)
  BY <1>1, <1>4, <1>a DEF Left
<1>6. \A x \in DOMAIN recvs : recvs[x].open /\ recvs[x].req = i => x = r
  BY <1>0, <1>1, <1>a DEF Distinct, DistinctOpen
<1>7. recvs[r].late
  <2>1. DoneOf(r)
    BY DEF DataInv, DoneRecvs
  <2> QED BY <1>1, <1>a, <2>1 DEF DoneOf
<1>8. \A x \in DOMAIN recvs' : (x \in DOMAIN recvs => recvs[x].open /\ recvs[x].req = i) => DoneOf(x)'
  BY <1>4, <1>6, <1>7 DEF DoneOf
<1>9. Stream' /\ Filling' = Filling
      /\ (\A s \in Srcs : \A j \in MsgReq : urp[s].req = j => req[j].src = s)'
  BY <1>1, <1>5, RingsKept
<1>10. Gets' /\ Getting' = Getting /\ \A j : InFlight(j)' = InFlight(j)
  BY <1>0, <1>1, GetsKept
<1>11. Expected' = Expected /\ Unexpected' = Unexpected
  BY <1>1 DEF Expected, Unexpected
<1>12. i \in Filling => FilledOf(i)'
  <2>1. SUFFICES ASSUME i \in Filling PROVE FilledOf(i)'
    OBVIOUS
  <2>2. FilledOf(i)
    BY <2>1 DEF DataInv, Fill
  <2>3. req[i].usr = 0
    <3>1. ~ Serves(i)
      BY <1>6, <1>7 DEF Serves
    <3> QED BY <2>2, <3>1 DEF FilledOf
  <2>4. Carries(i)'
    BY <1>1, <2>2 DEF FilledOf, Carries
  <2> QED BY <1>1, <2>2, <2>3, <2>4 DEF FilledOf
<1>13. (\A j \in Filling : FilledOf(j))' /\ Queued' /\ Posted' /\ Got' /\ DoneRecvs'
  BY <1>3, <1>5, <1>8, <1>9, <1>10, <1>11, <1>12, RolesInRange, DataStep
<1>14. Stays
  <2>1. StaysHere(r)
    BY <1>7 DEF StaysHere, Here
  <2> QED BY <1>5, <1>6, <2>1, StaysStep
<1>15. Remains
  BY <1>3, <1>5, <1>10, <1>11, RolesInRange, RemainAll
<1> QED BY <1>4, <1>9, <1>10, <1>13, <1>14, <1>15 DEF DataInv, Fill

(* a source's message is put into the ring                                 *)
LEMMA PostData ==
  ASSUME PoolInv, DataInv, NEW s \in Srcs, NEW tag \in Tags, NEW kind \in Kinds, Post(s, tag, kind)
  PROVE  DataInv' /\ Stays /\ Remains
<1>a. PICK n : n = Len(sent[s]) + 1
  OBVIOUS
<1>b. PICK none : none = (kind.rndz /\ rndzfree[s] = <<>>)
  OBVIOUS
<1>c. PICK pos : pos = IF kind.rndz /\ ~ none THEN utf_rndzprog_alloc(s) ELSE 0
  OBVIOUS
<1>d. PICK p : p = Packets(s, n, tag, kind, pos)
  OBVIOUS
<1>0. /\ TypeLists /\ TypeData /\ Rooms /\ Gets /\ Stream /\ recvs \in Seq(CallRecord)
      /\ ring \in [Srcs -> Seq(Pkt)] /\ rndzfree \in [Srcs -> Seq(RndzPos)]
      /\ sent \in [Srcs -> Seq([tag : Tags, kind : Kinds])]
  BY DEF PoolInv, DataInv, TypeLists, TypeRndz
<1>1. CASE none
  <2>1. Fault
    BY <1>b, <1>1 DEF Post
  <2> QED BY <2>1, FaultData
<1>2. CASE ~ none
  <2>1. /\ ring' = [ring EXCEPT ![s] = @ \o p]
        /\ sent' = [sent EXCEPT ![s] = Append(@, [tag |-> tag, kind |-> kind])]
        /\ UNCHANGED <<req, explst, uexplst, urp, proglst, gets, lclget, recvs, ubuf>>
    BY <1>a, <1>b, <1>c, <1>d, <1>2 DEF Post, poolVars, lstVars, rgetVars, userVars
  <2>2. pos \in RndzPos /\ n \in Nat
    <3>1. kind.rndz => Head(rndzfree[s]) \in RndzPos
      BY <1>0, <1>b, <1>2, HeadTailProperties
    <3>2. 0 \in RndzPos
      BY RecvAssumption DEF RndzPos
    <3> QED BY <1>0, <1>a, <1>c, <3>1, <3>2 DEF utf_rndzprog_alloc
  <2>3. /\ sent'[s] = Append(sent[s], [tag |-> tag, kind |-> kind])
        /\ \A t \in Srcs : t # s => sent'[t] = sent[t]
    BY <1>0, <2>1
  <2>4. /\ \A k \in DOMAIN sent[s] : k \in DOMAIN sent'[s] /\ sent'[s][k] = sent[s][k]
        /\ n \in DOMAIN sent'[s] /\ sent'[s][n].kind = kind
    <3>1. PICK a, e : a = sent[s] /\ e = [tag |-> tag, kind |-> kind]
      OBVIOUS
    <3>2. a \in Seq([tag : Tags, kind : Kinds]) /\ e \in [tag : Tags, kind : Kinds] /\ e.kind = kind
      BY <1>0, <3>1
    <3>3. /\ DOMAIN Append(a, e) = 1 .. Len(a) + 1 /\ DOMAIN a = 1 .. Len(a) /\ Len(a) \in Nat
          /\ \A k \in 1 .. Len(a) : Append(a, e)[k] = a[k]
          /\ Append(a, e)[Len(a) + 1] = e
      BY <3>2, AppendProperties
    <3> QED BY <1>a, <2>3, <3>1, <3>2, <3>3
  <2>5. Left(NoReq)
    <3>1. \A t \in Srcs : \A k \in DOMAIN sent[t] : k \in DOMAIN sent'[t] /\ sent'[t][k] = sent[t][k]
      BY <2>3, <2>4
    <3> QED BY <2>1, <3>1 DEF Left
  <2>6. NoReq \notin MsgReq
    BY RecvAssumption DEF NoReq, MsgReq
  <2>7. \A r \in DOMAIN recvs : recvs[r].req # NoReq
    <3>1. \A r \in DOMAIN recvs : recvs[r] \in CallRecord
      BY <1>0, ElementOfSeq
    <3> QED BY <2>6, <3>1 DEF CallRecord
  <2>8. ASSUME NEW t \in Srcs PROVE StreamOf(t)'
    <3>1. StreamOf(t)
      BY <1>0 DEF Stream
    <3>2. CASE t = s
      <4>1. ring'[s] = ring[s] \o p /\ urp'[s] = urp[s] /\ req' = req
        BY <1>0, <2>1
      <4> QED BY <1>0, <1>d, <2>2, <2>4, <3>1, <3>2, <4>1, StreamPost
    <3>3. CASE t # s
      <4>1. ring'[t] = ring[t] /\ urp'[t] = urp[t] /\ req' = req
        BY <1>0, <2>1, <3>3
      <4>2. PICK j : j = urp[t].req
        OBVIOUS
      <4>3. \A k \in DOMAIN sent[t] : k \in DOMAIN sent'[t] /\ sent'[t][k] = sent[t][k]
        BY <2>3, <3>3
      <4>4. req'[j].msg = req[j].msg /\ req'[j].rsize = req[j].rsize
        BY <4>1
      <4> QED BY <3>1, <4>1, <4>2, <4>3, <4>4, StreamKept
    <3> QED BY <3>2, <3>3
  <2>9. Gets' /\ Getting' = Getting /\ \A j : InFlight(j)' = InFlight(j)
    BY <1>0, <2>1, GetsKept
  <2>10. Expected' = Expected /\ Unexpected' = Unexpected /\ Filling' = Filling
    BY <2>1 DEF Expected, Unexpected, Filling
  <2>11. (\A j \in Filling : FilledOf(j))' /\ Queued' /\ Posted' /\ Got' /\ DoneRecvs'
    BY <2>1, <2>5, <2>6, <2>7, <2>9, <2>10, RolesInRange, DataStep
  <2>12. (\A t \in Srcs : \A j \in MsgReq : urp[t].req = j => req[j].src = t)'
    BY <2>1 DEF DataInv, Fill
  <2>13. TypeData' /\ Rooms'
    BY <1>0, <2>1 DEF TypeData, Rooms
  <2>14. Stays
    <3>1. NoReq \notin OpenRecvs
      BY <2>7 DEF OpenRecvs, Opened
    <3> QED BY <2>5, <3>1, StaysBusy
  <2>15. Remains
    <3>1. NoReq \notin Unexpected \cup Getting
      BY <2>6, RolesInRange
    <3> QED BY <2>5, <2>9, <2>10, <3>1, RolesInRange, RemainAll
  <2> QED BY <2>8, <2>9, <2>11, <2>12, <2>13, <2>14, <2>15 DEF DataInv, Fill, Stream
<1> QED BY <1>1, <1>2

(* a get completes                                                         *)
LEMMA NetGetData ==
  ASSUME PoolInv, DataInv, NEW s \in Srcs, NetGet(s)
  PROVE  DataInv' /\ Stays /\ Remains
<1>a. PICK i : i = gets[s][1].req
  OBVIOUS
<1>b. PICK u : u = req[i].usr
  OBVIOUS
<1>0. /\ TypeLists /\ Distinct /\ Roles /\ recvs \in Seq(CallRecord)
      /\ TypeData /\ Rooms /\ Gets /\ gets \in [Srcs -> Seq(GetRecord)]
  BY DEF PoolInv, DataInv, TypeLists, TypeData
<1>1. /\ gets[s] # <<>> /\ gets' = [gets EXCEPT ![s] = Tail(@)]
      /\ lclget' = [lclget EXCEPT ![s] = @ + 1]
      /\ ubuf' = [ubuf EXCEPT ![u] = Append(@, <<s, gets[s][1].msg, gets[s][1].part>>)]
      /\ UNCHANGED <<req, explst, uexplst, urp, ring, proglst, sent, recvs>>
  <2>1. Head(gets[s]) = gets[s][1]
    <3>1. PICK a : a = gets[s]
      OBVIOUS
    <3>2. a \in Seq(GetRecord) /\ a # <<>>
      BY <1>0, <3>1 DEF NetGet
    <3> QED BY <3>1, <3>2, HeadTailProperties
  <2> QED BY <1>a, <1>b, <2>1 DEF NetGet, poolVars, lstVars, srcVars
<1>2. /\ Gets' /\ gets' \in [Srcs -> Seq(GetRecord)] /\ Getting' = Getting
      /\ i \in Getting /\ req[i].src = s /\ InFlight(i) /\ ~ InFlight(i)'
      /\ gets[s][1].msg = req[i].msg /\ gets[s][1].part = req[i].rsize
      /\ \A j : j # i => InFlight(j)' = InFlight(j)
  <2>1. /\ gets[s] # <<>> /\ gets' = [gets EXCEPT ![s] = Tail(@)]
        /\ lclget' = [lclget EXCEPT ![s] = @ + 1]
        /\ UNCHANGED <<proglst, req>>
    BY <1>1
  <2>2. PoolInv /\ Gets /\ gets \in [Srcs -> Seq(GetRecord)] /\ s \in Srcs
    BY <1>0
  <2>3. Gets' /\ gets' \in [Srcs -> Seq(GetRecord)] /\ Getting' = Getting
    BY ONLY <1>a, <2>1, <2>2, GetsGot
  <2>4. /\ i \in Getting /\ req[i].src = s /\ InFlight(i) /\ ~ InFlight(i)'
        /\ gets[s][1].msg = req[i].msg /\ gets[s][1].part = req[i].rsize
    BY ONLY <1>a, <2>1, <2>2, GetsGot
  <2>5. OthersFly(i)
    BY ONLY <1>a, <2>1, <2>2, GetsGot
  <2> QED BY <2>3, <2>4, <2>5 DEF OthersFly
<1>3. GotOf(i) /\ i \in MsgReq /\ Role(i) /\ req[i] \in ReqRecord
  BY <1>0, <1>2, RolesInRange DEF DataInv, Got, Roles, TypeLists
<1>4. i \notin Expected \cup Unexpected \cup Filling /\ req[i].state = "DO_RNDZ"
  BY <1>2, <1>3 DEF Role
<1>5. PICK n, k : n = req[i].msg /\ k = req[i].rsize
  OBVIOUS
<1>6. /\ Serves(i) /\ recvs[u].msg = <<s, n>> /\ ubuf[u] = Parts(s, n, k - 1)
      /\ k \in Nat \ {0} /\ n \in Nat
  <2>1. req[i].rcvexpsz \in Nat /\ n \in Nat
    BY <1>3, <1>5 DEF ReqRecord
  <2> QED BY <1>2, <1>3, <1>5, <1>b, <2>1 DEF GotOf
<1>7. /\ u \in DOMAIN recvs /\ recvs[u].open /\ recvs[u].req = i
      /\ \A x \in DOMAIN recvs : recvs[x].open /\ recvs[x].req = i => x = u
  BY <1>6, <1>b, ServesOnly
<1>8. DOMAIN ubuf = DOMAIN recvs /\ ubuf \in Seq(Payloads)
  <2>1. ubuf \in Seq(Payloads) /\ Len(ubuf) = Len(recvs)
    BY <1>0 DEF TypeData
  <2> QED BY <1>0, <2>1
<1>9. Append(ubuf[u], <<s, n, k>>) = Parts(s, n, k) /\ Parts(s, n, k) \in Payloads
  <2>1. k - 1 \in Nat /\ (k - 1) + 1 = k /\ k \in Nat
    BY <1>6
  <2> QED BY <1>6, <2>1, PartsAre
<1>10. ubuf' = [ubuf EXCEPT ![u] = Parts(s, n, k)]
  BY <1>1, <1>2, <1>5, <1>9
<1>11. /\ ubuf'[u] = Parts(s, n, k) /\ \A x \in DOMAIN recvs : x # u => ubuf'[x] = ubuf[x]
       /\ ubuf' \in Seq(Payloads) /\ Len(ubuf') = Len(ubuf)
  BY <1>7, <1>8, <1>9, <1>10, ExceptSeq
<1>12. Left(i)
  BY <1>1, <1>7, <1>11 DEF Left
<1>13. GotOf(i)'
  <2>1. Carries(i)' /\ Serves(i)'
    BY <1>1, <1>3, <1>6 DEF GotOf, Carries, Serves
  <2> QED BY <1>1, <1>2, <1>3, <1>5, <1>b, <1>11, <2>1 DEF GotOf
<1>14. DoneOf(u)'
  BY <1>1, <1>4, <1>7, <1>b DEF DoneOf
<1>15. \A x \in DOMAIN recvs' : (x \in DOMAIN recvs => recvs[x].open /\ recvs[x].req = i) => DoneOf(x)'
  BY <1>1, <1>7, <1>14
<1>16. Stream' /\ Filling' = Filling
       /\ (\A t \in Srcs : \A j \in MsgReq : urp[t].req = j => req[j].src = t)'
  BY <1>1, <1>4, <1>12, RingsKept
<1>17. Expected' = Expected /\ Unexpected' = Unexpected
  BY <1>1 DEF Expected, Unexpected
<1>18. (\A j \in Filling : FilledOf(j))' /\ Queued' /\ Posted' /\ Got' /\ DoneRecvs'
  BY <1>2, <1>4, <1>12, <1>13, <1>15, <1>16, <1>17, RolesInRange, DataStep
<1>19. TypeData' /\ Rooms'
  BY <1>0, <1>1, <1>2, <1>11 DEF TypeData, Rooms
<1>20. Stays
  BY <1>4, <1>12, StaysBusy
<1>21. Remains
  <2>1. Transfers' = Transfers
    BY <1>1, <1>2, <1>17 DEF Transfers
  <2> QED BY <1>1, <2>1 DEF Remains, SameMsg
<1> QED BY <1>2, <1>16, <1>18, <1>19, <1>20, <1>21 DEF DataInv, Fill

(* a receive is posted                                                     *)
LEMMA RecvPostedData ==
  ASSUME PoolInv, DataInv, NEW src \in Srcs \cup {ANY}, NEW tag \in Tags \cup {ANY},
         NEW size \in Nat, EagerFits(size), RecvPosted(src, tag, size)
  PROVE  DataInv' /\ Stays /\ Remains
<1>a. PICK i : i = Head(freelst)
  OBVIOUS
<1>r. PICK r : r = Len(recvs) + 1
  OBVIOUS
<1>b. PICK f : f = [req[i] EXCEPT !.state = "PRG_NORMAL", !.type = "RECV_EXPECTED",
                      !.src = src, !.tag = tag, !.rsize = 0, !.usrreqsz = size, !.usr = r]
  OBVIOUS
<1>e. PICK e : e = Listed(f, i)
  OBVIOUS
<1>f. PICK c : c = Call(src, tag, size, i, <<>>)
  OBVIOUS
<1>0. /\ TypeLists /\ Distinct /\ Roles /\ recvs \in Seq(CallRecord)
      /\ TypeData /\ Rooms /\ Gets /\ gets \in [Srcs -> Seq(GetRecord)]
  BY DEF PoolInv, DataInv, TypeLists, TypeData
<1>c. CASE PoolEmpty
  <2>1. Fault
    BY <1>c DEF RecvPosted
  <2> QED BY <2>1, FaultData
<1>d. CASE ~ PoolEmpty
  <2>1. /\ freelst # <<>> /\ req' = [req EXCEPT ![i] = f]
        /\ explst' = Append(explst, e) /\ recvs' = Append(recvs, c)
        /\ ubuf' = Append(ubuf, <<>>)
        /\ UNCHANGED <<uexplst, urp, ring, proglst, gets, lclget, sent>>
    BY <1>a, <1>b, <1>d, <1>e, <1>f, <1>r
       DEF RecvPosted, utfslist_append, PoolEmpty, rgetVars, srcVars
  <2>2. i \in MsgReq /\ i \in Free
    BY <1>0, <1>a, <2>1, SeqTake DEF TypeLists, Distinct, Free
  <2>3. req[i] \in ReqRecord /\ explst \in Seq(Lst)
    BY <1>0, <2>2 DEF TypeLists
  <2>4. /\ f \in ReqRecord /\ f.state = "PRG_NORMAL" /\ f.rsize = 0 /\ f.usrreqsz = size
        /\ f.usr = r
    <3>1. r \in Nat
      BY <1>0, <1>r
    <3> QED BY <1>b, <2>3, <3>1 DEF ReqRecord
  <2>5. Becomes(i, f)
    BY <1>0, <2>1, <2>2, <2>4, ReqStep
  <2>6. i \notin Expected \cup Unexpected \cup Filling \cup Getting \cup OpenRecvs
    BY <1>0, <2>2, UsedRole
  <2>7. e \in Lst /\ e.reqidx = i
    BY <1>e, <2>2, <2>4, ListedFacts
  <2>8. Expected' = Expected \cup {i} /\ Unexpected' = Unexpected
    BY <1>0, <2>1, <2>3, <2>6, <2>7, ListAppend DEF Distinct, Expected, Unexpected
  <2>9. c \in CallRecord /\ c.req = i /\ c.open = TRUE /\ c.size = size /\ c.late = FALSE
    <3>1. <<>> \in Seq(Int)
      OBVIOUS
    <3>2. c \in CallRecord /\ c.req = i /\ c.open = TRUE
      BY <1>f, <2>2, <3>1, CallFacts, Zenon
    <3> QED BY <1>f, <3>2 DEF Call
  <2>10. /\ Len(ubuf') = Len(recvs') /\ ubuf' \in Seq(Payloads) /\ Rooms'
         /\ recvs'[r] = c /\ ubuf'[r] = <<>> /\ r \in DOMAIN recvs' /\ r \notin DOMAIN recvs
         /\ \A x \in DOMAIN recvs' : x # r => x \in DOMAIN recvs
         /\ \A x \in DOMAIN recvs : /\ x \in DOMAIN recvs' /\ recvs'[x] = recvs[x]
                                    /\ ubuf'[x] = ubuf[x]
    <3>1. <<>> \in Payloads
      BY DEF Payloads
    <3> QED BY <1>0, <1>r, <2>1, <2>9, <3>1, CallsAppend
  <2>11. Left(i)
    BY <2>1, <2>5, <2>10 DEF Left, Becomes
  <2>12. \A x \in DOMAIN recvs : ~ (recvs[x].open /\ recvs[x].req = i)
    BY <2>6 DEF OpenRecvs, Opened
  <2>13. req'[i] = f
    BY <2>5 DEF Becomes
  <2>14. PostedOf(i)'
    BY <2>4, <2>9, <2>10, <2>13 DEF PostedOf, Serves
  <2>15. DoneOf(r)'
    BY <2>4, <2>9, <2>10, <2>13 DEF DoneOf
  <2>16. \A x \in DOMAIN recvs' :
           (x \in DOMAIN recvs => recvs[x].open /\ recvs[x].req = i) => DoneOf(x)'
    BY <2>10, <2>12, <2>15
  <2>17. Stream' /\ Filling' = Filling
         /\ (\A s \in Srcs : \A j \in MsgReq : urp[s].req = j => req[j].src = s)'
    BY <2>1, <2>6, <2>11, RingsKept
  <2>18. \A j \in Getting : req'[j] = req[j]
    BY <2>5, <2>6, RolesInRange DEF Becomes
  <2>19. Gets' /\ Getting' = Getting /\ \A j : InFlight(j)' = InFlight(j)
    BY <1>0, <2>1, <2>18, GetsKept
  <2>20. (\A j \in Filling : FilledOf(j))' /\ Queued' /\ Posted' /\ Got' /\ DoneRecvs'
    BY <2>2, <2>6, <2>8, <2>11, <2>14, <2>16, <2>17, <2>19, RolesInRange, DataStep
  <2>21. TypeData'
    BY <1>0, <2>1, <2>10 DEF TypeData
  <2>22. Stays
    BY <2>6, <2>11, StaysBusy
  <2>23. Remains
    BY <2>6, <2>8, <2>11, <2>19, RolesInRange, RemainAll
  <2> QED BY <2>10, <2>17, <2>19, <2>20, <2>21, <2>22, <2>23 DEF DataInv, Fill
<1> QED BY <1>c, <1>d

(* rget_start on a request                                                 *)
LEMMA WantedData ==
  ASSUME NEW q \in ReqRecord, NEW f, f = Wanted(q)
  PROVE  /\ f \in ReqRecord /\ f.src = q.src /\ f.msg = q.msg /\ f.size = q.size
         /\ f.rndz = q.rndz /\ f.usr = q.usr /\ f.state = "DO_RNDZ" /\ f.rsize = 1
         /\ f.rndzpos = q.rndzpos
         /\ f.rcvexpsz = IF q.usrreqsz < f.size THEN q.usrreqsz ELSE f.size
<1>1. f \in ReqRecord
  BY WantedFacts
<1>2. PICK x : x = IF q.usrreqsz < q.size THEN q.usrreqsz ELSE q.size
  OBVIOUS
<1>3. f = [q EXCEPT !.state = "DO_RNDZ", !.rsize = 1, !.rcvexpsz = x]
  BY <1>2 DEF Wanted
<1>4. /\ f.src = q.src /\ f.msg = q.msg /\ f.size = q.size
      /\ f.rndz = q.rndz /\ f.usr = q.usr /\ f.state = "DO_RNDZ" /\ f.rsize = 1
      /\ f.rcvexpsz = x /\ f.rndzpos = q.rndzpos
  BY <1>3 DEF ReqRecord
<1> QED BY <1>1, <1>2, <1>4

LEMMA PartsNone == \A s, n : Parts(s, n, 0) = <<>>
BY DEF Parts

(* the header of a request                                                 *)
LEMMA CarriesFacts ==
  ASSUME PoolInv, NEW i, Carries(i), NEW s, s = req[i].src, NEW n, n = req[i].msg
  PROVE  /\ s \in Srcs /\ n \in DOMAIN sent[s] /\ n \in Nat
         /\ req[i].size = sent[s][n].kind.size /\ req[i].size \in Nat \ {0}
         /\ \A size : EagerFits(size) /\ ~ req[i].rndz => req[i].size <= size
<1>1. /\ s \in Srcs /\ n \in DOMAIN sent[s]
      /\ req[i].size = sent[s][n].kind.size /\ req[i].rndz = sent[s][n].kind.rndz
  BY DEF Carries
<1>2. sent[s] \in Seq([tag : Tags, kind : Kinds])
  BY <1>1 DEF PoolInv, TypeRndz
<1>3. n \in Nat /\ sent[s][n] \in [tag : Tags, kind : Kinds]
  <2>1. PICK a : a = sent[s]
    OBVIOUS
  <2>2. a \in Seq([tag : Tags, kind : Kinds]) /\ n \in DOMAIN a
    BY <1>1, <1>2, <2>1
  <2>3. n \in Nat /\ n \in 1 .. Len(a)
    BY <2>2
  <2>4. a[n] \in [tag : Tags, kind : Kinds]
    BY <2>2, <2>3, ElementOfSeq
  <2> QED BY <2>1, <2>3, <2>4
<1>4. sent[s][n].kind \in Kinds
  BY <1>3
<1>5. sent[s][n].kind.size \in Nat \ {0}
  BY <1>4, RecvAssumption
<1> QED BY <1>1, <1>3, <1>4, <1>5 DEF EagerFits

(* request i, a queued message, goes to a new receive                      *)
LEMMA TakenData ==
  ASSUME PoolInv, DataInv, NEW i \in MsgReq, i \in Unexpected, NEW f, Becomes(i, f),
         NEW c \in CallRecord, c.req = i, c.open, EagerFits(c.size), NEW b \in Payloads,
         recvs' = Append(recvs, c), ubuf' = Append(ubuf, b), NEW r, r = Len(recvs) + 1,
         Held(uexplst') = Held(uexplst) \ {i}, UNCHANGED <<explst, urp, ring, sent>>,
         gets' \in [Srcs -> Seq(GetRecord)], Gets',
         \A j : j # i => InFlight(j)' = InFlight(j),
         Getting' \subseteq Getting \cup {i}, i \in Getting' => GotOf(i)',
         i \in Filling => /\ FilledOf(i)'
                          /\ f.src = req[i].src /\ f.msg = req[i].msg /\ f.rsize = req[i].rsize,
         i \in Getting' => req[i].rndz /\ SameMsg(i), DoneOf(r)'
  PROVE  DataInv' /\ Stays /\ Remains
<1>0. /\ TypeLists /\ Distinct /\ Roles /\ recvs \in Seq(CallRecord)
      /\ TypeData /\ Rooms
  BY DEF PoolInv, DataInv, TypeLists
<1>1. /\ Len(ubuf') = Len(recvs') /\ ubuf' \in Seq(Payloads) /\ Rooms'
      /\ recvs'[r] = c /\ ubuf'[r] = b /\ r \in DOMAIN recvs' /\ r \notin DOMAIN recvs
      /\ \A x \in DOMAIN recvs' : x # r => x \in DOMAIN recvs
      /\ \A x \in DOMAIN recvs : /\ x \in DOMAIN recvs' /\ recvs'[x] = recvs[x]
                                 /\ ubuf'[x] = ubuf[x]
  BY <1>0, CallsAppend
<1>2. Role(i)
  BY <1>0 DEF Roles
<1>3. i \notin Expected \cup OpenRecvs
  BY <1>2 DEF Role
<1>4. Left(i)
  BY <1>1 DEF Left, Becomes
<1>5. \A x \in DOMAIN recvs : ~ (recvs[x].open /\ recvs[x].req = i)
  BY <1>3 DEF OpenRecvs, Opened
<1>6. \A x \in DOMAIN recvs' :
        (x \in DOMAIN recvs => recvs[x].open /\ recvs[x].req = i) => DoneOf(x)'
  BY <1>1, <1>5
<1>7. i \notin Filling \/ /\ req'[i].src = req[i].src /\ req'[i].msg = req[i].msg
                          /\ req'[i].rsize = req[i].rsize
  BY DEF Becomes
<1>8. Stream' /\ Filling' = Filling
      /\ (\A s \in Srcs : \A j \in MsgReq : urp[s].req = j => req[j].src = s)'
  BY <1>4, <1>7, RingsKept
<1>9. Expected' = Expected /\ Unexpected' = Unexpected \ {i}
  BY DEF Expected, Unexpected
<1>10. i \in Filling' => FilledOf(i)'
  BY <1>8
<1>11. i \notin Unexpected' /\ i \notin Expected'
  BY <1>3, <1>9
<1>12. \A j \in MsgReq : j # i =>
         /\ j \in Filling' => j \in Filling
         /\ j \in Unexpected' => j \in Unexpected
         /\ j \in Expected' => j \in Expected
         /\ j \in Getting' => j \in Getting /\ InFlight(j)' = InFlight(j)
  BY <1>8, <1>9
<1>13. Filling' \cup Unexpected' \cup Expected' \cup Getting' \subseteq MsgReq
  BY <1>8, <1>9, RolesInRange
<1>14. (\A j \in Filling : FilledOf(j))' /\ Queued' /\ Posted' /\ Got' /\ DoneRecvs'
  BY <1>4, <1>6, <1>10, <1>11, <1>12, <1>13, DataStep
<1>15. TypeData'
  BY <1>1 DEF TypeData
<1>16. Stays
  BY <1>3, <1>4, StaysBusy
<1>17. Remains
  <2>1. RemainBut(i)
    <3>1. Unexpected' \subseteq MsgReq /\ Getting' \subseteq MsgReq
      BY <1>13
    <3> QED BY <1>4, <1>12, <3>1, RemainStep
  <2>2. i \in Transfers' => i \in Transfers /\ SameMsg(i)
    BY <1>11 DEF Transfers
  <2> QED BY <2>1, <2>2, RemainOther
<1> QED BY <1>1, <1>8, <1>14, <1>15, <1>16, <1>17 DEF DataInv, Fill

LEMMA RecvUnexpectedData ==
  ASSUME PoolInv, DataInv, NEW src \in Srcs \cup {ANY}, NEW tag \in Tags \cup {ANY},
         NEW size \in Nat, EagerFits(size), RecvUnexpected(src, tag, size)
  PROVE  DataInv' /\ Stays /\ Remains
<1>a. PICK at : at = utf_uexplst_match(src, tag)
  OBVIOUS
<1>b. PICK i : i = uexplst[at].reqidx
  OBVIOUS
<1>s. PICK s, n : s = req[i].src /\ n = req[i].msg
  OBVIOUS
<1>c. PICK c : c = Call(src, tag, size, i, <<s, n>>)
  OBVIOUS
<1>d. PICK d : d = [c EXCEPT !.late = TRUE]
  OBVIOUS
<1>r. PICK r : r = Len(recvs) + 1
  OBVIOUS
<1>0. /\ TypeLists /\ Distinct /\ Roles /\ recvs \in Seq(CallRecord)
      /\ TypeData /\ Rooms /\ Gets /\ gets \in [Srcs -> Seq(GetRecord)]
  BY DEF PoolInv, DataInv, TypeLists, TypeData
<1>1. at # 0 /\ uexplst' = RemoveAt(uexplst, at) /\ UNCHANGED <<explst, urp, ring, sent>>
  BY <1>a DEF RecvUnexpected, utfslist_remove2, srcVars
<1>2. uexplst \in Seq(Lst) /\ r \in Nat
  BY <1>0, <1>r DEF TypeLists
<1>3. at \in 1 .. Len(uexplst) /\ at \in DOMAIN uexplst
  BY <1>a, <1>1, <1>2, UexpFirst
<1>4. i \in MsgReq /\ req[i] \in ReqRecord /\ i \in Unexpected
  <2>1. uexplst[at] \in Lst
    BY <1>2, <1>3, ElementOfSeq
  <2> QED BY <1>b, <1>0, <1>3, <2>1 DEF TypeLists, Lst, Unexpected, Held
<1>5. Held(uexplst') = Held(uexplst) \ {i}
  BY <1>0, <1>b, <1>1, <1>2, <1>3, ListRemove DEF Distinct
<1>6. QueuedOf(i) /\ Role(i)
  BY <1>0, <1>4 DEF DataInv, Queued, Roles
<1>7. /\ i \notin Expected /\ i \notin Getting
      /\ req[i].rndz => i \notin Filling
      /\ req[i].state = "DONE" => i \notin Filling
  BY <1>4, <1>6 DEF Role
<1>8. /\ s \in Srcs /\ n \in DOMAIN sent[s] /\ n \in Nat
      /\ req[i].size = sent[s][n].kind.size /\ req[i].size \in Nat \ {0}
      /\ ~ req[i].rndz => req[i].size <= size
  BY <1>6, <1>s, CarriesFacts DEF QueuedOf
<1>9. /\ c \in CallRecord /\ c.req = i /\ c.open = TRUE /\ c.size = size /\ c.late = FALSE
      /\ c.msg = <<s, n>>
      /\ d \in CallRecord /\ d.req = i /\ d.open = TRUE /\ d.size = size /\ d.late = TRUE
  <2>1. <<s, n>> \in Seq(Int)
    BY <1>8, SrcsNumbers
  <2>2. c \in CallRecord /\ c.req = i /\ c.open = TRUE
    BY <1>c, <1>4, <2>1, CallFacts, Zenon
  <2>3. c.size = size /\ c.late = FALSE /\ c.msg = <<s, n>>
    BY <1>c DEF Call
  <2>4. /\ d \in CallRecord /\ d.req = c.req /\ d.open = c.open /\ d.size = c.size
        /\ d.late = TRUE
    BY <1>d, <2>2 DEF CallRecord
  <2> QED BY <2>2, <2>3, <2>4
<1>10. <<>> \in Payloads
  BY DEF Payloads
<1>n. ASSUME NEW e \in CallRecord, NEW b \in Payloads, recvs' = Append(recvs, e), ubuf' = Append(ubuf, b),
             EagerFits(e.size)
      PROVE  recvs'[r] = e /\ ubuf'[r] = b /\ r \in DOMAIN recvs'
  BY <1>0, <1>r, <1>n, CallsAppend
<1>11. CASE req[i].rndz
  <2>1. PICK g : g = [req[i] EXCEPT !.usr = r, !.usrreqsz = size]
    OBVIOUS
  <2>2. PICK f : f = Wanted(g)
    OBVIOUS
  <2>3. /\ req' = [req EXCEPT ![i] = f] /\ proglst' = Append(proglst, i)
        /\ gets' = [gets EXCEPT ![g.src] = Append(@, GetOp(i, g, 1))]
        /\ UNCHANGED lclget /\ recvs' = Append(recvs, c) /\ ubuf' = Append(ubuf, <<>>)
    BY <1>a, <1>b, <1>c, <1>r, <1>s, <1>11, <2>1, <2>2 DEF RecvUnexpected, RgetStart, utfslist_append
  <2>4. /\ g \in ReqRecord /\ g.src = s /\ g.msg = n /\ g.size = req[i].size
        /\ g.rndz = req[i].rndz /\ g.usr = r /\ g.usrreqsz = size
        /\ g.rndzpos = req[i].rndzpos
    BY <1>2, <1>4, <1>s, <2>1 DEF ReqRecord
  <2>5. /\ f \in ReqRecord /\ f.src = s /\ f.msg = n /\ f.size = req[i].size
        /\ f.rndz = req[i].rndz /\ f.usr = r /\ f.state = "DO_RNDZ" /\ f.rsize = 1
        /\ f.rndzpos = req[i].rndzpos
        /\ f.rcvexpsz = IF size < f.size THEN size ELSE f.size
    BY <2>2, <2>4, WantedData
  <2>6. Becomes(i, f) /\ req'[i] = f
    BY <1>0, <1>4, <2>3, <2>5, ReqStep DEF Becomes
  <2>7. Asks(s, i, f)
    BY <1>4, <1>8, <2>3, <2>4, <2>5, <2>6 DEF Asks, GetOp
  <2>8. /\ Gets' /\ gets' \in [Srcs -> Seq(GetRecord)] /\ Getting' = Getting \cup {i}
        /\ InFlight(i)' /\ \A j : j # i => InFlight(j)' = InFlight(j)
    BY <1>0, <1>7, <2>3, <2>5, <2>7, GetsStart
  <2>9. recvs'[r] = c /\ ubuf'[r] = <<>> /\ r \in DOMAIN recvs'
    BY <1>9, <1>10, <1>n, <2>3
  <2>10. GotOf(i)'
    <3>1. Carries(i)'
      BY <1>1, <1>6, <1>s, <2>5, <2>6 DEF QueuedOf, Carries
    <3>2. Serves(i)'
      BY <1>9, <2>5, <2>6, <2>9 DEF Serves
    <3>3. f.rsize \in 1 .. f.rcvexpsz
      BY <1>8, <2>5 DEF EagerFits
    <3>4. ubuf'[r] = Parts(s, n, f.rsize - 1)
      BY <2>5, <2>9, PartsNone
    <3> QED BY <1>9, <2>5, <2>6, <2>8, <2>9, <3>1, <3>2, <3>3, <3>4 DEF GotOf
  <2>11. DoneOf(r)'
    BY <1>9, <2>5, <2>6, <2>9 DEF DoneOf
  <2>12. req[i].rndz /\ SameMsg(i)
    BY <1>11, <1>s, <2>5, <2>6 DEF SameMsg
  <2> QED BY <1>1, <1>4, <1>5, <1>7, <1>9, <1>10, <1>11, <1>r, <2>3, <2>6, <2>8, <2>10, <2>11, <2>12, TakenData
<1>12. CASE ~ req[i].rndz /\ req[i].state = "DONE"
  <2>1. PICK f : f = [req[i] EXCEPT !.buf = <<>>]
    OBVIOUS
  <2>2. /\ req' = [req EXCEPT ![i] = f] /\ UNCHANGED <<proglst, gets, lclget>>
        /\ recvs' = Append(recvs, c) /\ ubuf' = Append(ubuf, req[i].buf)
    BY <1>a, <1>b, <1>c, <1>s, <1>12, <2>1 DEF RecvUnexpected, rgetVars
  <2>3. f \in ReqRecord /\ f.state = "DONE" /\ req[i].buf \in Payloads
    BY <1>4, <1>10, <1>12, <2>1 DEF ReqRecord
  <2>4. Becomes(i, f) /\ req'[i] = f
    BY <1>0, <1>4, <2>2, <2>3, ReqStep DEF Becomes
  <2>5. \A j \in Getting : req'[j] = req[j]
    BY <1>7, <2>4, RolesInRange DEF Becomes
  <2>6. /\ Gets' /\ gets' \in [Srcs -> Seq(GetRecord)] /\ Getting' = Getting
        /\ \A j : InFlight(j)' = InFlight(j)
    BY <1>0, <2>2, <2>5, GetsKept
  <2>7. recvs'[r] = c /\ ubuf'[r] = req[i].buf /\ r \in DOMAIN recvs'
    BY <1>9, <1>n, <2>2, <2>3
  <2>8. HasAll(r)'
    <3>1. ubuf'[r] = Parts(s, n, req[i].size)
      BY <1>6, <1>12, <1>s, <2>7 DEF QueuedOf
    <3>2. Fits(size, req[i].size) = req[i].size
      <4>1. size \in Nat /\ req[i].size \in Nat /\ req[i].size <= size
        BY <1>8, <1>12
      <4> QED BY <4>1 DEF Fits
    <3>3. s = recvs'[r].msg[1] /\ n = recvs'[r].msg[2] /\ recvs'[r].size = size
      BY <1>9, <2>7
    <3> QED BY <1>1, <1>8, <1>9, <2>7, <3>1, <3>2, <3>3 DEF HasAll
  <2>9. DoneOf(r)'
    BY <1>9, <2>3, <2>4, <2>7, <2>8 DEF DoneOf
  <2> QED BY <1>1, <1>4, <1>5, <1>7, <1>9, <1>12, <1>r, <2>2, <2>3, <2>4, <2>6, <2>9, TakenData
<1>13. CASE ~ req[i].rndz /\ req[i].state # "DONE"
  <2>1. PICK f : f = [req[i] EXCEPT !.type = "RECV_EXPECTED"]
    OBVIOUS
  <2>2. /\ req' = [req EXCEPT ![i] = f] /\ UNCHANGED <<proglst, gets, lclget>>
        /\ recvs' = Append(recvs, d) /\ ubuf' = Append(ubuf, <<>>)
    BY <1>a, <1>b, <1>c, <1>d, <1>s, <1>13, <2>1 DEF RecvUnexpected, rgetVars
  <2>3. /\ f \in ReqRecord /\ f.src = req[i].src /\ f.msg = req[i].msg /\ f.size = req[i].size
        /\ f.rndz = req[i].rndz /\ f.rsize = req[i].rsize /\ f.usr = req[i].usr
        /\ f.buf = req[i].buf
    BY <1>4, <2>1 DEF ReqRecord
  <2>4. Becomes(i, f) /\ req'[i] = f
    BY <1>0, <1>4, <2>2, <2>3, ReqStep DEF Becomes
  <2>5. \A j \in Getting : req'[j] = req[j]
    BY <1>7, <2>4, RolesInRange DEF Becomes
  <2>6. /\ Gets' /\ gets' \in [Srcs -> Seq(GetRecord)] /\ Getting' = Getting
        /\ \A j : InFlight(j)' = InFlight(j)
    BY <1>0, <2>2, <2>5, GetsKept
  <2>7. recvs'[r] = d
    BY <1>9, <1>10, <1>n, <2>2
  <2>8. i \in Filling => FilledOf(i)'
    <3>1. Carries(i)'
      BY <1>1, <1>6, <2>3, <2>4 DEF QueuedOf, Carries
    <3>2. req[i].usr = 0
      BY <1>6 DEF QueuedOf
    <3> QED BY <2>3, <2>4, <3>1, <3>2 DEF FilledOf, DataInv, Fill
  <2>9. DoneOf(r)'
    BY <1>9, <2>7 DEF DoneOf
  <2> QED BY <1>1, <1>4, <1>5, <1>7, <1>9, <1>10, <1>r, <2>2, <2>3, <2>4, <2>6, <2>8, <2>9, TakenData
<1> QED BY <1>11, <1>12, <1>13

-----------------------------------------------------------------------------
(* utf_recvengine.                                                         *)

(* the next packet of a ring                                               *)
LEMMA PacketFacts ==
  ASSUME PoolInv, DataInv, NEW s \in Srcs, ring[s] # <<>>, NEW pkt, pkt = Head(ring[s])
  PROVE  /\ pkt = ring[s][1] /\ pkt \in Pkt /\ PktOf(s, pkt)
         /\ pkt.msg \in Nat /\ pkt.part \in Nat \ {0} /\ pkt.size \in Nat \ {0}
         /\ pkt.part <= pkt.size /\ pkt.src = s /\ pkt.msg \in DOMAIN sent[s]
         /\ \A size : EagerFits(size) /\ ~ pkt.rndz => pkt.size <= size
         /\ IF urp[s].req = NoReq THEN pkt.part = 1
            ELSE pkt.msg = req[urp[s].req].msg /\ pkt.part = req[urp[s].req].rsize + 1
<1>1. PICK a : a = ring[s]
  OBVIOUS
<1>2. a \in Seq(Pkt) /\ a # <<>> /\ StreamOf(s)
  BY <1>1 DEF PoolInv, TypeRndz, DataInv, Stream
<1>3. 1 \in DOMAIN a /\ pkt = a[1] /\ pkt \in Pkt
  BY <1>1, <1>2, HeadTailProperties, EmptySeq
<1>4. PktOf(s, pkt)
  BY <1>1, <1>2, <1>3 DEF StreamOf
<1>5. pkt.msg \in Nat /\ pkt.part \in 1 .. pkt.size /\ pkt.size \in Nat
  BY <1>3, <1>4 DEF Pkt, PktOf
<1>6. sent[s][pkt.msg].kind \in Kinds
  <2>1. PICK b, n : b = sent[s] /\ n = pkt.msg
    OBVIOUS
  <2>2. b \in Seq([tag : Tags, kind : Kinds]) /\ n \in DOMAIN b
    BY <1>4, <2>1 DEF PoolInv, TypeRndz, PktOf
  <2>3. n \in 1 .. Len(b)
    BY <2>2
  <2>4. b[n] \in [tag : Tags, kind : Kinds]
    BY <2>2, <2>3, ElementOfSeq
  <2> QED BY <2>1, <2>4
<1>7. \A size : EagerFits(size) /\ ~ pkt.rndz => pkt.size <= size
  BY <1>4, <1>6 DEF EagerFits, PktOf
<1>8. IF urp[s].req = NoReq THEN pkt.part = 1
      ELSE pkt.msg = req[urp[s].req].msg /\ pkt.part = req[urp[s].req].rsize + 1
  BY <1>1, <1>2, <1>3 DEF StreamOf, NextIs
<1>9. pkt.part \in Nat \ {0} /\ pkt.part <= pkt.size /\ pkt.size \in Nat \ {0}
  BY ONLY <1>5
<1>10. pkt = ring[s][1] /\ pkt.src = s /\ pkt.msg \in DOMAIN sent[s]
  BY <1>1, <1>3, <1>4 DEF PktOf
<1> QED BY ONLY <1>3, <1>4, <1>5, <1>7, <1>8, <1>9, <1>10

(* the request of a ring is of the ring's source                           *)
RingsOwn == \A t \in Srcs : \A j \in MsgReq : urp[t].req = j => req[j].src = t

(* packet pkt of source s is handled, and request i has something of it    *)
Handled(s, i, pkt) ==
  /\ ring[s] # <<>> /\ pkt = ring[s][1] /\ ring' = [ring EXCEPT ![s] = Tail(@)]
  /\ sent' = sent
  /\ \A j \in MsgReq : j # i => req'[j] = req[j]
  /\ urp[s].req \in {NoReq, i} /\ (urp[s].req = NoReq => i \notin Filling)
  /\ \A t \in Srcs : t # s => urp'[t] = urp[t]
  /\ IF LastPart(pkt) THEN urp'[s].req = NoReq
     ELSE /\ urp'[s].req = i /\ req'[i].msg = pkt.msg /\ req'[i].rsize = pkt.part
          /\ req'[i].src = s

(* the rings after a packet                                                *)
LEMMA RingsNext ==
  ASSUME PoolInv, DataInv, NEW s \in Srcs, NEW pkt, NEW i \in MsgReq, Handled(s, i, pkt)
  PROVE  Stream' /\ RingsOwn'
<1>h. /\ ring[s] # <<>> /\ pkt = ring[s][1] /\ ring' = [ring EXCEPT ![s] = Tail(@)]
      /\ sent' = sent
      /\ \A j \in MsgReq : j # i => req'[j] = req[j]
      /\ urp[s].req \in {NoReq, i} /\ (urp[s].req = NoReq => i \notin Filling)
      /\ \A t \in Srcs : t # s => urp'[t] = urp[t]
      /\ IF LastPart(pkt) THEN urp'[s].req = NoReq
         ELSE /\ urp'[s].req = i /\ req'[i].msg = pkt.msg /\ req'[i].rsize = pkt.part
              /\ req'[i].src = s
  BY DEF Handled
<1>0. /\ ring \in [Srcs -> Seq(Pkt)] /\ DistinctRings /\ NoReq \notin MsgReq
      /\ urp \in [Srcs -> [state : {"R_NONE", "R_BODY"}, req : MsgReq \cup {NoReq}]]
  BY RecvAssumption DEF PoolInv, TypeRndz, TypeLists, Distinct, NoReq, MsgReq
<1>1. \A t \in Srcs : \A n \in DOMAIN sent[t] : n \in DOMAIN sent'[t] /\ sent'[t][n] = sent[t][n]
  BY <1>h
<1>2. ASSUME NEW t \in Srcs, t # s PROVE urp[t].req # i
  BY <1>0, <1>2, <1>h DEF DistinctRings, Filling
<1>3. ASSUME NEW t \in Srcs, t # s PROVE StreamOf(t)'
  <2>1. PICK j : j = urp[t].req
    OBVIOUS
  <2>2. j = NoReq \/ (req'[j].msg = req[j].msg /\ req'[j].rsize = req[j].rsize)
    BY <1>0, <1>2, <1>3, <1>h, <2>1
  <2>3. StreamOf(t)
    BY DEF DataInv, Stream
  <2>4. ring'[t] = ring[t] /\ urp'[t] = urp[t]
    BY <1>0, <1>3, <1>h
  <2> QED BY <1>1, <2>1, <2>2, <2>3, <2>4, StreamKept
<1>4. StreamOf(s)'
  <2>1. StreamOf(s)
    BY DEF DataInv, Stream
  <2>2. PICK j : urp'[s].req = j
    OBVIOUS
  <2>3. IF LastPart(pkt) THEN j = NoReq
        ELSE j # NoReq /\ req'[j].msg = pkt.msg /\ req'[j].rsize = pkt.part
    BY <1>0, <1>h, <2>2
  <2>4. /\ ring \in [Srcs -> Seq(Pkt)] /\ ring[s] # <<>> /\ pkt = ring[s][1]
        /\ ring'[s] = Tail(ring[s])
    BY <1>0, <1>h
  <2>5. \A n \in DOMAIN sent[s] : n \in DOMAIN sent'[s] /\ sent'[s][n] = sent[s][n]
    BY <1>1
  <2>6. s \in Srcs
    OBVIOUS
  <2> QED BY ONLY <2>1, <2>2, <2>3, <2>4, <2>5, <2>6, StreamNext
<1>5. ASSUME NEW t \in Srcs, NEW j \in MsgReq, urp'[t].req = j PROVE req'[j].src = t
  <2>1. CASE t = s
    BY <1>0, <1>5, <1>h, <2>1
  <2>2. CASE t # s
    <3>1. urp[t].req = j /\ j # i
      BY <1>2, <1>5, <1>h, <2>2
    <3> QED BY <1>h, <3>1 DEF DataInv, Fill
  <2> QED BY <2>1, <2>2
<1> QED BY <1>3, <1>4, <1>5 DEF Stream, RingsOwn

LEMMA FilledData ==
  ASSUME NEW q \in ReqRecord, NEW pkt \in Pkt, NEW f, f = Filled(q, pkt)
  PROVE  /\ f \in ReqRecord /\ f.src = q.src /\ f.msg = q.msg /\ f.size = q.size
         /\ f.rndz = q.rndz /\ f.usr = q.usr /\ f.rsize = q.rsize + 1
         /\ f.buf = (IF q.usr = 0 THEN Append(q.buf, Payload(pkt)) ELSE q.buf)
         /\ f.state = (IF q.rsize + 1 = q.size THEN "DONE" ELSE q.state)
<1>1. f \in ReqRecord
  BY FilledFacts
<1>2. PICK n, b, st : /\ n = q.rsize + 1
                      /\ b = (IF q.usr = 0 THEN Append(q.buf, Payload(pkt)) ELSE q.buf)
                      /\ st = (IF q.rsize + 1 = q.size THEN "DONE" ELSE q.state)
  OBVIOUS
<1>3. f = [q EXCEPT !.rsize = n, !.buf = b, !.state = st]
  BY <1>2 DEF Filled
<1>4. /\ f.src = q.src /\ f.msg = q.msg /\ f.size = q.size
      /\ f.rndz = q.rndz /\ f.usr = q.usr /\ f.rsize = n /\ f.buf = b /\ f.state = st
  BY <1>3 DEF ReqRecord
<1> QED BY <1>1, <1>2, <1>4

LEMMA HeaderData ==
  ASSUME NEW q \in ReqRecord, NEW pkt \in Pkt, NEW h, h = Header(q, pkt)
  PROVE  /\ h \in ReqRecord /\ h.src = pkt.src /\ h.msg = pkt.msg /\ h.size = pkt.size
         /\ h.rndz = pkt.rndz /\ h.usr = q.usr /\ h.rsize = q.rsize /\ h.state = q.state
         /\ h.usrreqsz = q.usrreqsz /\ h.rndzpos = pkt.rndzpos
<1>1. h \in ReqRecord
  BY HeaderFacts
<1> QED BY <1>1 DEF Header, ReqRecord

(* request q is a message of which the packets before pkt have come        *)
SoFar(q, pkt) ==
  /\ q.src = pkt.src /\ q.msg = pkt.msg /\ q.size = pkt.size /\ ~ q.rndz /\ ~ pkt.rndz
  /\ q.rsize + 1 = pkt.part /\ q.state \in {"NONE", "PRG_NORMAL"}
  /\ q.usr = 0 => q.buf = Parts(pkt.src, pkt.msg, q.rsize)

(* receive u waits for request i, which is such a message                  *)
TakesIn(u, i, q, pkt) ==
  /\ u \in DOMAIN recvs' /\ recvs'[u].open /\ ~ recvs'[u].late /\ recvs'[u].req = i
  /\ recvs'[u].msg = <<pkt.src, pkt.msg>>
  /\ recvs'[u].size \in Nat /\ EagerFits(recvs'[u].size)
  /\ u \in DOMAIN ubuf /\ ubuf[u] = Parts(pkt.src, pkt.msg, q.rsize)
  /\ q.state = "PRG_NORMAL"

LEMMA EagerCopyData ==
  ASSUME PoolInv, DataInv, NEW s \in Srcs, ring[s] # <<>>, NEW pkt, pkt = Head(ring[s]),
         NEW i \in MsgReq, NEW q \in ReqRecord, SoFar(q, pkt), NEW u, u = q.usr,
         u # 0 => TakesIn(u, i, q, pkt), EagerCopy(s, i, q, pkt), UNCHANGED sent,
         NEW f, f = Filled(q, pkt)
  PROVE  /\ Becomes(i, f) /\ Carries(i)'
         /\ f.src = s /\ f.msg = pkt.msg /\ f.rsize = pkt.part /\ f.usr = u /\ ~ f.rndz
         /\ f.state = IF LastPart(pkt) THEN "DONE" ELSE q.state
         /\ urp'[s].req = IF LastPart(pkt) THEN NoReq ELSE i
         /\ \A t \in Srcs : t # s => urp'[t] = urp[t]
         /\ ~ LastPart(pkt) => FilledOf(i)'
         /\ u = 0 /\ LastPart(pkt) => f.buf = Parts(s, f.msg, f.size)
         /\ u = 0 => ubuf' = ubuf
         /\ u # 0 => DoneOf(u)'
         /\ \A x \in DOMAIN ubuf : x # u => ubuf'[x] = ubuf[x]
         /\ ubuf' \in Seq(Payloads) /\ Len(ubuf') = Len(ubuf)
<1>1. /\ pkt \in Pkt /\ PktOf(s, pkt) /\ pkt.src = s
      /\ pkt.msg \in Nat /\ pkt.part \in Nat \ {0} /\ pkt.size \in Nat \ {0}
      /\ pkt.part <= pkt.size /\ pkt.msg \in DOMAIN sent[s]
      /\ \A size : EagerFits(size) /\ ~ pkt.rndz => pkt.size <= size
  BY PacketFacts
<1>2. PICK n, k, z : n = pkt.msg /\ k = q.rsize /\ z = pkt.size
  OBVIOUS
<1>3. k \in Nat /\ k + 1 = pkt.part /\ n \in Nat /\ z \in Nat \ {0} /\ k + 1 <= z
  BY <1>1, <1>2 DEF SoFar, ReqRecord
<1>4. Payload(pkt) = <<s, n, k + 1>>
  BY <1>1, <1>2, <1>3 DEF Payload
<1>5. /\ Append(Parts(s, n, k), <<s, n, k + 1>>) = Parts(s, n, k + 1)
      /\ Parts(s, n, k + 1) \in Payloads
  <2>1. s \in Srcs /\ n \in Nat /\ k \in Nat /\ k + 1 \in Nat
    BY <1>3
  <2> QED BY ONLY <2>1, PartsAre
<1>6. LastPart(pkt) <=> k + 1 = z
  BY <1>2, <1>3 DEF LastPart, SoFar
<1>7. /\ f \in ReqRecord /\ f.src = s /\ f.msg = n /\ f.size = z
      /\ f.rndz = FALSE /\ f.usr = u /\ f.rsize = k + 1
      /\ f.buf = (IF u = 0 THEN Append(q.buf, <<s, n, k + 1>>) ELSE q.buf)
      /\ f.state = (IF k + 1 = z THEN "DONE" ELSE q.state)
  <2>1. /\ f \in ReqRecord /\ f.src = q.src /\ f.msg = q.msg /\ f.size = q.size
        /\ f.rndz = q.rndz /\ f.usr = q.usr /\ f.rsize = q.rsize + 1
        /\ f.buf = (IF q.usr = 0 THEN Append(q.buf, Payload(pkt)) ELSE q.buf)
        /\ f.state = (IF q.rsize + 1 = q.size THEN "DONE" ELSE q.state)
    BY <1>1, FilledData
  <2>2. q.rndz = FALSE
    BY DEF SoFar, ReqRecord
  <2> QED BY <1>1, <1>2, <1>4, <2>1, <2>2 DEF SoFar
<1>8. u = 0 => f.buf = Parts(s, n, k + 1)
  BY <1>1, <1>2, <1>5, <1>7 DEF SoFar
<1>9. /\ req' = [req EXCEPT ![i] = f]
      /\ ubuf' = IF u = 0 THEN ubuf ELSE [ubuf EXCEPT ![u] = Append(@, <<s, n, k + 1>>)]
      /\ urp' = [urp EXCEPT ![s] =
                   IF f.state = "DONE" THEN [state |-> "R_NONE", req |-> NoReq]
                   ELSE [state |-> "R_BODY", req |-> i]]
  BY <1>4 DEF EagerCopy
<1>10. Becomes(i, f) /\ req'[i] = f
  BY <1>7, <1>9, ReqStep DEF PoolInv, Becomes
<1>11. /\ urp'[s].req = IF LastPart(pkt) THEN NoReq ELSE i
       /\ \A t \in Srcs : t # s => urp'[t] = urp[t]
  <2>1. urp \in [Srcs -> [state : {"R_NONE", "R_BODY"}, req : MsgReq \cup {NoReq}]]
    BY DEF PoolInv, TypeLists
  <2>2. f.state = "DONE" <=> LastPart(pkt)
    BY <1>6, <1>7 DEF SoFar
  <2> QED BY <1>9, <2>1, <2>2
<1>12. Carries(i)'
  <2>1. pkt.rndz = FALSE
    BY <1>1 DEF SoFar, Pkt
  <2> QED BY <1>1, <1>2, <1>7, <1>10, <2>1 DEF Carries, PktOf
<1>13. ubuf \in Seq(Payloads)
  BY DEF DataInv, TypeData
<1>14. ASSUME u # 0
       PROVE  /\ ubuf'[u] = Parts(s, n, k + 1) /\ \A x \in DOMAIN ubuf : x # u => ubuf'[x] = ubuf[x]
              /\ ubuf' \in Seq(Payloads) /\ Len(ubuf') = Len(ubuf)
  <2>1. u \in DOMAIN ubuf /\ ubuf[u] = Parts(s, n, k)
    BY <1>1, <1>2, <1>14 DEF TakesIn
  <2>2. ubuf' = [ubuf EXCEPT ![u] = Parts(s, n, k + 1)]
    BY <1>5, <1>9, <1>14, <2>1
  <2>3. ubuf' \in Seq(Payloads) /\ Len(ubuf') = Len(ubuf)
    BY <1>5, <1>13, <2>1, <2>2, ExceptSeq
  <2> QED BY <1>13, <2>1, <2>2, <2>3
<1>15. ASSUME u # 0
       PROVE  /\ u \in DOMAIN recvs' /\ recvs'[u].open /\ ~ recvs'[u].late /\ recvs'[u].req = i
              /\ recvs'[u].msg = <<s, n>> /\ recvs'[u].size \in Nat /\ EagerFits(recvs'[u].size)
              /\ q.state = "PRG_NORMAL"
  BY <1>1, <1>2, <1>15 DEF TakesIn
<1>16. ASSUME ~ LastPart(pkt) PROVE FilledOf(i)'
  <2>1. k + 1 \in 1 .. z - 1
    BY <1>3, <1>6, <1>16
  <2>2. u # 0 => Serves(i)'
    BY <1>7, <1>10, <1>15 DEF Serves
  <2> QED BY <1>7, <1>8, <1>10, <1>12, <1>14, <1>15, <2>1, <2>2 DEF FilledOf
<1>17. ASSUME u # 0 PROVE DoneOf(u)'
  <2>1. CASE LastPart(pkt)
    <3>1. Fits(recvs'[u].size, z) = z
      <4>1. PICK size : recvs'[u].size = size
        OBVIOUS
      <4>2. size \in Nat /\ z <= size /\ z \in Nat
        BY <1>1, <1>2, <1>3, <1>15, <1>17, <4>1 DEF SoFar
      <4> QED BY <4>1, <4>2 DEF Fits
    <3>2. sent'[s][n].kind.size = z /\ n \in DOMAIN sent'[s]
      BY <1>1, <1>2 DEF PktOf
    <3>3. s = recvs'[u].msg[1] /\ n = recvs'[u].msg[2]
      BY <1>15, <1>17
    <3>4. ubuf'[u] = Parts(s, n, z)
      BY <1>6, <1>14, <1>17, <2>1
    <3>5. HasAll(u)'
      BY <1>15, <1>17, <3>1, <3>2, <3>3, <3>4 DEF HasAll
    <3>6. req'[i].state = "DONE"
      BY <1>6, <1>7, <1>10, <2>1
    <3> QED BY <1>15, <1>17, <3>5, <3>6 DEF DoneOf
  <2>2. CASE ~ LastPart(pkt)
    BY <1>6, <1>7, <1>10, <1>15, <1>17, <2>2 DEF DoneOf
  <2> QED BY <2>1, <2>2
<1>18. u = 0 => ubuf' = ubuf
  BY <1>9
<1>19. u = 0 /\ LastPart(pkt) => f.buf = Parts(s, f.msg, f.size)
  BY <1>6, <1>7, <1>8
<1>20. f.state = IF LastPart(pkt) THEN "DONE" ELSE q.state
  BY <1>6, <1>7
<1>21. f.rsize = pkt.part /\ f.msg = pkt.msg
  BY <1>2, <1>3, <1>7
<1> QED BY <1>7, <1>10, <1>11, <1>12, <1>13, <1>14, <1>16, <1>17, <1>18, <1>19, <1>20, <1>21

LEMMA RecvIsNotZero ==
  ASSUME recvs \in Seq(CallRecord), NEW x \in DOMAIN recvs
  PROVE  x # 0
<1>1. DOMAIN recvs = 1 .. Len(recvs)
  OBVIOUS
<1> QED BY <1>1

(* a receive learns which message it gets, and keeps the rest              *)
LEMMA CallNoted ==
  ASSUME recvs \in Seq(CallRecord), Rooms, NEW u \in DOMAIN recvs, NEW msg \in Seq(Int),
         recvs' = [recvs EXCEPT ![u].msg = msg]
  PROVE  /\ DOMAIN recvs' = DOMAIN recvs /\ Len(recvs') = Len(recvs) /\ Rooms'
         /\ \A x \in DOMAIN recvs : x # u => recvs'[x] = recvs[x]
         /\ recvs'[u].msg = msg /\ recvs'[u].size = recvs[u].size /\ recvs'[u].req = recvs[u].req
         /\ recvs'[u].open = recvs[u].open /\ recvs'[u].late = recvs[u].late
         /\ recvs[u].size \in Nat /\ EagerFits(recvs[u].size)
<1>1. recvs' \in Seq(CallRecord) /\ DOMAIN recvs' = DOMAIN recvs
  BY NoteMsg
<1>2. recvs[u] \in CallRecord
  BY ElementOfSeq
<1>3. PICK c : c = [recvs[u] EXCEPT !.msg = msg]
  OBVIOUS
<1>4. recvs' = [recvs EXCEPT ![u] = c]
  BY <1>3
<1>5. /\ c.msg = msg /\ c.size = recvs[u].size /\ c.req = recvs[u].req
      /\ c.open = recvs[u].open /\ c.late = recvs[u].late /\ recvs[u].size \in Nat
  BY <1>2, <1>3 DEF CallRecord
<1>6. recvs'[u] = c /\ \A x \in DOMAIN recvs : x # u => recvs'[x] = recvs[x]
  BY <1>4
<1>7. Len(recvs') = Len(recvs)
  <2>1. Len(recvs) \in Nat /\ DOMAIN recvs = 1 .. Len(recvs) /\ DOMAIN recvs' = 1 .. Len(recvs')
        /\ Len(recvs') \in Nat
    BY <1>1
  <2> QED BY <1>1, <2>1
<1>8. Rooms'
  <2>1. \A x \in DOMAIN recvs' : EagerFits(recvs'[x].size)
    BY <1>1, <1>5, <1>6 DEF Rooms
  <2> QED BY <2>1 DEF Rooms, EagerFits
<1>9. EagerFits(recvs[u].size)
  BY DEF Rooms
<1> QED BY <1>1, <1>5, <1>6, <1>7, <1>8, <1>9

(* the next packet of a message                                            *)
LEMMA PktBodyData ==
  ASSUME PoolInv, DataInv, NEW s \in Srcs, PktBody(s)
  PROVE  DataInv' /\ Stays /\ Remains
<1>a. PICK pkt : pkt = Head(ring[s])
  OBVIOUS
<1>b. PICK i : i = urp[s].req
  OBVIOUS
<1>q. PICK q : q = req[i]
  OBVIOUS
<1>f. PICK f : f = Filled(q, pkt)
  OBVIOUS
<1>u. PICK u : u = q.usr
  OBVIOUS
<1>0. /\ TypeLists /\ RingsHold /\ DistinctRings /\ Distinct /\ Roles
      /\ recvs \in Seq(CallRecord) /\ TypeData /\ Rooms /\ Gets
      /\ gets \in [Srcs -> Seq(GetRecord)]
  BY DEF PoolInv, DataInv, TypeLists, TypeData, Distinct
<1>1. /\ ring[s] # <<>> /\ urp[s].state = "R_BODY"
      /\ ring' = [ring EXCEPT ![s] = Tail(@)]
      /\ EagerCopy(s, i, q, pkt)
      /\ UNCHANGED <<explst, uexplst, proglst, gets, lclget, sent, recvs>>
  BY <1>a, <1>b, <1>q DEF PktBody, lstVars, rgetVars, srcVars
<1>2. i # NoReq /\ i \in MsgReq /\ i \in Filling /\ q \in ReqRecord
  <2>1. /\ urp \in [Srcs -> [state : {"R_NONE", "R_BODY"}, req : MsgReq \cup {NoReq}]]
        /\ req \in [MsgReq -> ReqRecord]
    BY <1>0 DEF TypeLists
  <2>2. i # NoReq
    BY <1>0, <1>b, <1>1 DEF RingsHold
  <2>3. i \in MsgReq
    BY <1>b, <2>1, <2>2
  <2> QED BY <1>b, <1>q, <2>1, <2>2, <2>3 DEF Filling
<1>3. /\ FilledOf(i) /\ q.src = s /\ Role(i)
  BY <1>0, <1>2, <1>b, <1>q DEF DataInv, Fill, Roles
<1>4. /\ pkt = ring[s][1] /\ pkt \in Pkt /\ PktOf(s, pkt) /\ pkt.src = s
      /\ pkt.msg = q.msg /\ pkt.part = q.rsize + 1
  BY <1>1, <1>2, <1>a, <1>b, <1>q, PacketFacts
<1>5. /\ q.state \in {"NONE", "PRG_NORMAL"} /\ i \notin Expected \cup Getting
  BY <1>2, <1>3, <1>q DEF Role
<1>6. SoFar(q, pkt)
  <2>1. q.size = pkt.size /\ ~ q.rndz /\ pkt.rndz = q.rndz
    BY <1>3, <1>4, <1>q DEF FilledOf, Carries, PktOf
  <2>2. q.usr = 0 => q.buf = Parts(q.src, q.msg, q.rsize)
    BY <1>3, <1>q DEF FilledOf
  <2> QED BY <1>3, <1>4, <1>5, <2>1, <2>2 DEF SoFar
<1>7. u # 0 => Serves(i) /\ recvs[u].msg = <<s, q.msg>> /\ ubuf[u] = Parts(s, q.msg, q.rsize)
  BY <1>3, <1>q, <1>u DEF FilledOf
<1>8. ASSUME u # 0
      PROVE  /\ u \in DOMAIN recvs /\ recvs[u].open /\ ~ recvs[u].late /\ recvs[u].req = i
             /\ \A x \in DOMAIN recvs : recvs[x].open /\ recvs[x].req = i => x = u
  BY <1>7, <1>8, <1>q, <1>u, ServesOnly
<1>9. ASSUME u # 0 PROVE TakesIn(u, i, q, pkt)
  <2>1. DoneOf(u)
    BY <1>8, <1>9 DEF DataInv, DoneRecvs
  <2>2. q.state = "PRG_NORMAL"
    BY <1>5, <1>8, <1>9, <1>q, <2>1 DEF DoneOf
  <2>3. recvs[u].size \in Nat /\ EagerFits(recvs[u].size)
    <3>1. recvs[u] \in CallRecord
      BY <1>0, <1>8, <1>9, ElementOfSeq
    <3> QED BY <1>0, <1>8, <1>9, <3>1 DEF CallRecord, Rooms
  <2>4. u \in DOMAIN ubuf
    <3>1. ubuf \in Seq(Payloads) /\ Len(ubuf) = Len(recvs)
      BY <1>0 DEF TypeData
    <3> QED BY <1>0, <1>8, <1>9, <3>1
  <2> QED BY <1>1, <1>4, <1>7, <1>8, <1>9, <2>2, <2>3, <2>4 DEF TakesIn
<1>10. UNCHANGED sent /\ ring[s] # <<>>
  BY <1>1
<1>11. /\ Becomes(i, f) /\ Carries(i)'
       /\ f.src = s /\ f.msg = pkt.msg /\ f.rsize = pkt.part /\ f.usr = u /\ ~ f.rndz
       /\ f.state = IF LastPart(pkt) THEN "DONE" ELSE q.state
       /\ urp'[s].req = IF LastPart(pkt) THEN NoReq ELSE i
       /\ \A t \in Srcs : t # s => urp'[t] = urp[t]
       /\ ~ LastPart(pkt) => FilledOf(i)'
       /\ u = 0 /\ LastPart(pkt) => f.buf = Parts(s, f.msg, f.size)
       /\ u = 0 => ubuf' = ubuf
       /\ u # 0 => DoneOf(u)'
       /\ \A x \in DOMAIN ubuf : x # u => ubuf'[x] = ubuf[x]
       /\ ubuf' \in Seq(Payloads) /\ Len(ubuf') = Len(ubuf)
  BY <1>1, <1>2, <1>6, <1>9, <1>10, <1>a, <1>f, <1>u, EagerCopyData
<1>12. req'[i] = f /\ \A j \in MsgReq : j # i => req'[j] = req[j]
  BY <1>11 DEF Becomes
<1>13. DOMAIN ubuf = DOMAIN recvs
  <2>1. ubuf \in Seq(Payloads) /\ Len(ubuf) = Len(recvs)
    BY <1>0 DEF TypeData
  <2> QED BY <1>0, <2>1
<1>14. Left(i)
  <2>1. ASSUME NEW x \in DOMAIN recvs, ~ (recvs[x].open /\ recvs[x].req = i)
        PROVE  x \in DOMAIN recvs' /\ recvs'[x] = recvs[x] /\ ubuf'[x] = ubuf[x]
    <3>1. x # u
      BY <1>8, <1>11, <1>13, <2>1, RecvIsNotZero
    <3> QED BY <1>1, <1>11, <1>13, <2>1, <3>1
  <2> QED BY <1>1, <1>12, <2>1 DEF Left
<1>15. Stream' /\ RingsOwn'
  <2>1. IF LastPart(pkt) THEN urp'[s].req = NoReq
        ELSE /\ urp'[s].req = i /\ req'[i].msg = pkt.msg /\ req'[i].rsize = pkt.part
             /\ req'[i].src = s
    BY <1>11, <1>12
  <2>2. urp[s].req \in {NoReq, i} /\ (urp[s].req = NoReq => i \notin Filling)
    BY <1>2, <1>b
  <2>3. /\ ring[s] # <<>> /\ pkt = ring[s][1] /\ ring' = [ring EXCEPT ![s] = Tail(@)]
        /\ UNCHANGED sent /\ i \in MsgReq
    BY <1>1, <1>2, <1>4
  <2>4. \A j \in MsgReq : j # i => req'[j] = req[j]
    BY <1>12
  <2>5. \A t \in Srcs : t # s => urp'[t] = urp[t]
    BY <1>11
  <2>6. Handled(s, i, pkt)
    BY ONLY <2>1, <2>2, <2>3, <2>4, <2>5 DEF Handled
  <2> QED BY <1>2, <2>6, RingsNext
<1>16. IF f.state = "DONE" THEN Filling' = Filling \ {i} ELSE Filling' = Filling \cup {i}
  <2>1. urp[s].req \in {NoReq, i} /\ (urp[s].req = NoReq => i \notin Filling)
    BY <1>2, <1>b
  <2> QED BY <1>0, <1>1, <1>2, <1>4, <1>5, <1>f, <2>1, EagerCopyFacts
<1>17. \A j \in Getting : req'[j] = req[j]
  BY <1>5, <1>12, RolesInRange
<1>18. Gets' /\ Getting' = Getting /\ \A j : InFlight(j)' = InFlight(j)
  BY <1>0, <1>1, <1>17, GetsKept
<1>19. Expected' = Expected /\ Unexpected' = Unexpected
  BY <1>1 DEF Expected, Unexpected
<1>20. i \in Unexpected' => QueuedOf(i)'
  <2>1. SUFFICES ASSUME i \in Unexpected PROVE QueuedOf(i)'
    BY <1>19
  <2>2. u = 0
    BY <2>1, <1>q, <1>u DEF DataInv, Queued, QueuedOf
  <2>3. f.state = "DONE" => f.buf = Parts(f.src, f.msg, f.size)
    BY <1>5, <1>11, <2>2
  <2> QED BY <1>11, <1>12, <2>2, <2>3 DEF QueuedOf
<1>21. i \in Filling' => FilledOf(i)'
  BY <1>5, <1>11, <1>16
<1>22. \A x \in DOMAIN recvs' :
         (x \in DOMAIN recvs => recvs[x].open /\ recvs[x].req = i) => DoneOf(x)'
  <2>1. SUFFICES ASSUME NEW x \in DOMAIN recvs, recvs[x].open, recvs[x].req = i PROVE DoneOf(x)'
    BY <1>1
  <2>2. CASE u # 0
    BY <1>8, <1>11, <2>1, <2>2
  <2>3. CASE u = 0
    <3>1. DoneOf(x) /\ x # 0
      BY <1>0, RecvIsNotZero DEF DataInv, DoneRecvs
    <3>2. recvs[x].late
      BY <1>5, <1>q, <1>u, <2>1, <2>3, <3>1 DEF DoneOf
    <3> QED BY <1>1, <3>2 DEF DoneOf
  <2> QED BY <2>2, <2>3
<1>23. (\A j \in Filling : FilledOf(j))' /\ Queued' /\ Posted' /\ Got' /\ DoneRecvs'
  <2>1. \A j \in MsgReq : j # i =>
          /\ j \in Filling' => j \in Filling
          /\ j \in Unexpected' => j \in Unexpected
          /\ j \in Expected' => j \in Expected
          /\ j \in Getting' => j \in Getting /\ InFlight(j)' = InFlight(j)
    BY <1>16, <1>18, <1>19
  <2>2. Filling' \cup Unexpected' \cup Expected' \cup Getting' \subseteq MsgReq
    BY <1>2, <1>16, <1>18, <1>19, RolesInRange
  <2>3. i \notin Expected' /\ i \notin Getting'
    BY <1>5, <1>18, <1>19
  <2> QED BY <1>14, <1>20, <1>21, <1>22, <2>1, <2>2, <2>3, DataStep
<1>24. TypeData' /\ Rooms'
  BY <1>0, <1>1, <1>11 DEF TypeData, Rooms
<1>25. Stays
  BY <1>5, <1>14, <1>q, StaysBusy
<1>26. Remains
  <2>1. RemainBut(i)
    BY <1>14, <1>18, <1>19, RolesInRange, RemainStep
  <2>2. i \notin Transfers'
    BY <1>5, <1>11, <1>12, <1>18 DEF Transfers
  <2> QED BY <2>1, <2>2, RemainOther
<1> QED BY <1>15, <1>18, <1>23, <1>24, <1>25, <1>26 DEF DataInv, Fill, RingsOwn

(* a packet that a posted receive waits for                                *)
LEMMA PktExpectedData ==
  ASSUME PoolInv, DataInv, NEW s \in Srcs, PktExpected(s)
  PROVE  DataInv' /\ Stays /\ (Remains \/ TakesOver(s))
<1>a. PICK pkt : pkt = Head(ring[s])
  OBVIOUS
<1>b. PICK at : at = utf_explst_match(pkt.src, pkt.tag)
  OBVIOUS
<1>c. PICK i : i = explst[at].reqidx
  OBVIOUS
<1>q. PICK q : q = Header(req[i], pkt)
  OBVIOUS
<1>u. PICK u : u = req[i].usr
  OBVIOUS
<1>m. PICK msg : msg = <<s, pkt.msg>>
  OBVIOUS
<1>0. /\ TypeLists /\ RingsHold /\ DistinctRings /\ Distinct /\ Roles
      /\ recvs \in Seq(CallRecord) /\ TypeData /\ Rooms /\ Gets
      /\ gets \in [Srcs -> Seq(GetRecord)]
  BY DEF PoolInv, DataInv, TypeLists, TypeData, Distinct
<1>1. /\ ring[s] # <<>> /\ urp[s].state = "R_NONE" /\ at # 0
      /\ ring' = [ring EXCEPT ![s] = Tail(@)]
      /\ explst' = RemoveAt(explst, at)
      /\ recvs' = [recvs EXCEPT ![q.usr].msg = <<pkt.src, pkt.msg>>]
      /\ \/ pkt.rndz /\ RgetStart(i, q) /\ UNCHANGED <<urp, ubuf>>
         \/ ~ pkt.rndz /\ EagerCopy(s, i, q, pkt) /\ UNCHANGED <<proglst, gets, lclget>>
      /\ uexplst' = uexplst /\ sent' = sent
  BY <1>a, <1>b, <1>c, <1>q
     DEF PktExpected, utfgen_explst_match, utfslist_remove2, srcVars, rgetVars
<1>2. explst \in Seq(Lst) /\ req \in [MsgReq -> ReqRecord] /\ NoReq \notin MsgReq
      /\ urp \in [Srcs -> [state : {"R_NONE", "R_BODY"}, req : MsgReq \cup {NoReq}]]
  BY <1>0, RecvAssumption DEF TypeLists, NoReq, MsgReq
<1>3. at \in 1 .. Len(explst) /\ at \in DOMAIN explst
  BY <1>b, <1>1, <1>2, ExpFirst
<1>4. i \in MsgReq /\ req[i] \in ReqRecord /\ i \in Expected
  <2>1. explst[at] \in Lst
    BY <1>2, <1>3, ElementOfSeq
  <2> QED BY <1>c, <1>2, <1>3, <2>1 DEF Lst, Expected, Held
<1>5. Held(explst') = Held(explst) \ {i}
  BY <1>0, <1>c, <1>1, <1>2, <1>3, ListRemove DEF Distinct
<1>6. PostedOf(i) /\ Role(i)
  BY <1>0, <1>4 DEF DataInv, Posted, Roles
<1>7. req[i].state = "PRG_NORMAL" /\ i \notin Unexpected \cup Filling \cup Getting
  <2>1. i \notin Getting
    BY <1>4, <1>6 DEF Role
  <2> QED BY <1>4, <1>6, <2>1 DEF Role
<1>8. urp[s].req = NoReq
  BY <1>0, <1>1, <1>2 DEF RingsHold
<1>9. /\ pkt = ring[s][1] /\ pkt \in Pkt /\ PktOf(s, pkt) /\ pkt.src = s /\ pkt.part = 1
      /\ pkt.msg \in Nat /\ pkt.size \in Nat \ {0} /\ pkt.msg \in DOMAIN sent[s]
  BY <1>1, <1>8, <1>a, PacketFacts
<1>10. /\ q \in ReqRecord /\ q.src = s /\ q.msg = pkt.msg /\ q.size = pkt.size
       /\ q.rndz = pkt.rndz /\ q.usr = u /\ q.state = "PRG_NORMAL" /\ q.rsize = 0
       /\ q.usrreqsz = recvs[u].size /\ q.rndzpos = pkt.rndzpos
  <2>1. req[i].rsize = 0 /\ req[i].usrreqsz = recvs[u].size
    BY <1>6, <1>u DEF PostedOf
  <2> QED BY <1>4, <1>7, <1>9, <1>q, <1>u, <2>1, HeaderData
<1>11. /\ u \in DOMAIN recvs /\ recvs[u].open /\ ~ recvs[u].late /\ recvs[u].req = i
       /\ \A x \in DOMAIN recvs : recvs[x].open /\ recvs[x].req = i => x = u
       /\ ubuf[u] = <<>>
  <2>1. Serves(i) /\ ubuf[u] = <<>>
    BY <1>6, <1>u DEF PostedOf
  <2> QED BY <1>u, <2>1, ServesOnly
<1>12. recvs' = [recvs EXCEPT ![u].msg = msg] /\ msg \in Seq(Int)
  BY <1>1, <1>9, <1>10, <1>m, SrcsNumbers
<1>13. /\ DOMAIN recvs' = DOMAIN recvs /\ Len(recvs') = Len(recvs) /\ Rooms'
       /\ \A x \in DOMAIN recvs : x # u => recvs'[x] = recvs[x]
       /\ recvs'[u].msg = msg /\ recvs'[u].size = recvs[u].size /\ recvs'[u].req = recvs[u].req
       /\ recvs'[u].open = recvs[u].open /\ recvs'[u].late = recvs[u].late
       /\ recvs[u].size \in Nat /\ EagerFits(recvs[u].size)
  BY <1>0, <1>11, <1>12, CallNoted
<1>14. u # 0 /\ DOMAIN ubuf = DOMAIN recvs
  <2>1. ubuf \in Seq(Payloads) /\ Len(ubuf) = Len(recvs)
    BY <1>0 DEF TypeData
  <2> QED BY <1>0, <1>11, <2>1, RecvIsNotZero
<1>15. Expected' = Expected \ {i} /\ Unexpected' = Unexpected
  BY <1>1, <1>5 DEF Expected, Unexpected
(* what is left once the request and the buffer are known                  *)
<1>e. ASSUME NEW f, Becomes(i, f), DoneOf(u)', Gets', gets' \in [Srcs -> Seq(GetRecord)],
             IF LastPart(pkt) THEN urp'[s].req = NoReq
             ELSE urp'[s].req = i /\ f.msg = pkt.msg /\ f.rsize = pkt.part /\ f.src = s,
             \A t \in Srcs : t # s => urp'[t] = urp[t],
             \A x \in DOMAIN ubuf : x # u => ubuf'[x] = ubuf[x],
             ubuf' \in Seq(Payloads), Len(ubuf') = Len(ubuf),
             Filling' \subseteq Filling \cup {i}, i \in Filling' => FilledOf(i)',
             Getting' \subseteq Getting \cup {i}, i \in Getting' => GotOf(i)',
             \A j : j # i => InFlight(j)' = InFlight(j)
      PROVE  DataInv' /\ Stays /\ RemainBut(i)
  <2>1. req'[i] = f /\ \A j \in MsgReq : j # i => req'[j] = req[j]
    BY <1>e DEF Becomes
  <2>2. Left(i)
    <3>1. ASSUME NEW x \in DOMAIN recvs, ~ (recvs[x].open /\ recvs[x].req = i)
          PROVE  x \in DOMAIN recvs' /\ recvs'[x] = recvs[x] /\ ubuf'[x] = ubuf[x]
      <4>1. x # u
        BY <1>11, <3>1
      <4> QED BY <1>e, <1>13, <1>14, <3>1, <4>1
    <3> QED BY <1>1, <2>1, <3>1 DEF Left
  <2>3. Stream' /\ RingsOwn'
    <3>1. Handled(s, i, pkt)
      BY <1>e, <1>1, <1>7, <1>8, <1>9, <2>1 DEF Handled
    <3> QED BY <1>4, <3>1, RingsNext
  <2>4. \A x \in DOMAIN recvs' :
          (x \in DOMAIN recvs => recvs[x].open /\ recvs[x].req = i) => DoneOf(x)'
    BY <1>e, <1>11, <1>13
  <2>5. \A j \in MsgReq : j # i =>
          /\ j \in Filling' => j \in Filling
          /\ j \in Unexpected' => j \in Unexpected
          /\ j \in Expected' => j \in Expected
          /\ j \in Getting' => j \in Getting /\ InFlight(j)' = InFlight(j)
    BY <1>e, <1>15
  <2>6. Filling' \cup Unexpected' \cup Expected' \cup Getting' \subseteq MsgReq
    BY <1>e, <1>4, <1>15, RolesInRange
  <2>7. i \notin Expected' /\ i \notin Unexpected'
    BY <1>7, <1>15
  <2>8. (\A j \in Filling : FilledOf(j))' /\ Queued' /\ Posted' /\ Got' /\ DoneRecvs'
    BY <1>e, <2>2, <2>4, <2>5, <2>6, <2>7, DataStep
  <2>9. TypeData' /\ Rooms'
    BY <1>e, <1>0, <1>13 DEF TypeData
  <2>10. Stays
    BY <1>7, <2>2, StaysBusy
  <2>11. RemainBut(i)
    <3>1. Unexpected' \subseteq MsgReq /\ Getting' \subseteq MsgReq
      BY <2>6
    <3> QED BY <2>2, <2>5, <3>1, RemainStep
  <2> QED BY <1>e, <2>3, <2>8, <2>9, <2>10, <2>11 DEF DataInv, Fill, RingsOwn
<1>16. CASE pkt.rndz
  <2>1. PICK f : f = Wanted(q)
    OBVIOUS
  <2>2. /\ req' = [req EXCEPT ![i] = f] /\ proglst' = Append(proglst, i)
        /\ gets' = [gets EXCEPT ![s] = Append(@, GetOp(i, q, 1))]
        /\ UNCHANGED <<lclget, urp, ubuf>>
    BY <1>1, <1>10, <1>16, <2>1 DEF RgetStart, utfslist_append
  <2>3. /\ f \in ReqRecord /\ f.src = s /\ f.msg = pkt.msg /\ f.size = pkt.size
        /\ f.rndz = pkt.rndz /\ f.usr = u /\ f.state = "DO_RNDZ" /\ f.rsize = 1
        /\ f.rndzpos = pkt.rndzpos
        /\ f.rcvexpsz = IF recvs[u].size < f.size THEN recvs[u].size ELSE f.size
    BY <1>10, <2>1, WantedData
  <2>4. Becomes(i, f) /\ req'[i] = f
    BY <1>2, <1>4, <2>2, <2>3, ReqStep DEF Becomes, TypeLists, PoolInv
  <2>5. Asks(s, i, f)
    BY <1>4, <1>10, <2>2, <2>3, <2>4 DEF Asks, GetOp
  <2>6. /\ Gets' /\ gets' \in [Srcs -> Seq(GetRecord)] /\ Getting' = Getting \cup {i}
        /\ InFlight(i)' /\ \A j : j # i => InFlight(j)' = InFlight(j)
    BY <1>0, <1>7, <2>2, <2>3, <2>5, GetsStart
  <2>7. GotOf(i)'
    <3>1. Carries(i)'
      BY <1>1, <1>9, <2>3, <2>4 DEF PktOf, Carries
    <3>2. Serves(i)'
      BY <1>11, <1>13, <2>3, <2>4 DEF Serves
    <3>3. f.rsize \in 1 .. f.rcvexpsz
      BY <1>9, <1>13, <2>3 DEF EagerFits
    <3>4. ubuf'[u] = Parts(s, f.msg, f.rsize - 1)
      BY <1>11, <2>2, <2>3, PartsNone
    <3> QED BY <1>13, <1>m, <2>3, <2>4, <2>6, <3>1, <3>2, <3>3, <3>4 DEF GotOf
  <2>8. DoneOf(u)'
    BY <1>11, <1>13, <2>3, <2>4 DEF DoneOf
  <2>9. Filling' = Filling /\ i \notin Filling' /\ LastPart(pkt) /\ urp'[s].req = NoReq
    BY <1>7, <1>8, <1>16, <2>2 DEF Filling, LastPart
  <2>10. ubuf' \in Seq(Payloads)
    BY <1>0, <2>2 DEF TypeData
  <2>11. DataInv' /\ Stays /\ RemainBut(i)
    BY <1>e, <2>2, <2>4, <2>6, <2>7, <2>8, <2>9, <2>10
  <2>12. FromPkt(s, i)
    BY <1>1, <1>9, <1>16, <2>3, <2>4 DEF FromPkt
  <2> QED BY <1>4, <2>11, <2>12 DEF TakesOver
<1>17. CASE ~ pkt.rndz
  <2>1. PICK f : f = Filled(q, pkt)
    OBVIOUS
  <2>2. EagerCopy(s, i, q, pkt) /\ UNCHANGED <<proglst, gets, lclget>>
    BY <1>1, <1>17
  <2>3. pkt.rndz = FALSE
    BY <1>9, <1>17 DEF Pkt
  <2>4. SoFar(q, pkt)
    BY <1>9, <1>10, <1>14, <2>3 DEF SoFar
  <2>5. TakesIn(u, i, q, pkt)
    BY <1>9, <1>10, <1>11, <1>13, <1>14, <1>m, PartsNone DEF TakesIn
  <2>6. /\ Becomes(i, f) /\ Carries(i)'
        /\ f.src = s /\ f.msg = pkt.msg /\ f.rsize = pkt.part /\ f.usr = u
        /\ f.state = IF LastPart(pkt) THEN "DONE" ELSE q.state
        /\ urp'[s].req = IF LastPart(pkt) THEN NoReq ELSE i
        /\ \A t \in Srcs : t # s => urp'[t] = urp[t]
        /\ ~ LastPart(pkt) => FilledOf(i)'
        /\ u # 0 => DoneOf(u)'
        /\ \A x \in DOMAIN ubuf : x # u => ubuf'[x] = ubuf[x]
        /\ ubuf' \in Seq(Payloads) /\ Len(ubuf') = Len(ubuf)
    <3>1. ring[s] # <<>> /\ UNCHANGED sent
      BY <1>1
    <3> QED BY <1>4, <1>10, <1>a, <2>1, <2>2, <2>4, <2>5, <3>1, EagerCopyData
  <2>7. IF f.state = "DONE" THEN Filling' = Filling \ {i} ELSE Filling' = Filling \cup {i}
    <3>1. /\ q.state \in {"NONE", "PRG_NORMAL"}
          /\ urp[s].req \in {NoReq, i} /\ (urp[s].req = NoReq => i \notin Filling)
      BY <1>7, <1>8, <1>10
    <3> QED BY <1>0, <1>4, <1>9, <1>10, <2>1, <2>2, <3>1, EagerCopyFacts
  <2>8. Filling' \subseteq Filling \cup {i} /\ (i \in Filling' => FilledOf(i)')
    BY <2>6, <2>7
  <2>9. \A j \in Getting : req'[j] = req[j]
    BY <1>7, <2>6, RolesInRange DEF Becomes
  <2>10. Gets' /\ gets' \in [Srcs -> Seq(GetRecord)] /\ Getting' = Getting
         /\ \A j : InFlight(j)' = InFlight(j)
    BY <1>0, <2>2, <2>9, GetsKept
  <2>11. Getting' \subseteq Getting \cup {i} /\ i \notin Getting'
    BY <1>7, <2>10
  <2>12. IF LastPart(pkt) THEN urp'[s].req = NoReq
         ELSE urp'[s].req = i /\ f.msg = pkt.msg /\ f.rsize = pkt.part /\ f.src = s
    BY <2>6
  <2>13. DataInv' /\ Stays /\ RemainBut(i)
    BY <1>e, <1>14, <2>6, <2>8, <2>10, <2>11, <2>12
  <2>14. i \notin Transfers'
    BY <1>7, <1>15, <2>11 DEF Transfers
  <2> QED BY <2>13, <2>14, RemainOther
<1> QED BY <1>16, <1>17

(* a packet that nothing waits for, when the engine has a request for it   *)
LEMMA PktUnexpectedData ==
  ASSUME PoolInv, DataInv, NEW s \in Srcs, PktUnexpected(s), ~ RecvReqRefused
  PROVE  DataInv' /\ Stays /\ (Remains \/ TakesOver(s))
<1>a. PICK pkt : pkt = Head(ring[s])
  OBVIOUS
<1>b. PICK i : i = Head(freelst)
  OBVIOUS
<1>c. PICK st : st = IF pkt.rndz THEN "WAIT_RNDZ" ELSE "NONE"
  OBVIOUS
<1>d. PICK q : q = [Header(req[i], pkt) EXCEPT !.type = "RECV_UNEXPECTED",
                      !.rsize = 0, !.usr = 0, !.buf = <<>>, !.state = st]
  OBVIOUS
<1>e. PICK e : e = Listed(q, i)
  OBVIOUS
<1>0. /\ TypeLists /\ RingsHold /\ DistinctRings /\ Distinct /\ Roles
      /\ recvs \in Seq(CallRecord) /\ TypeData /\ Rooms /\ Gets
      /\ gets \in [Srcs -> Seq(GetRecord)]
  BY DEF PoolInv, DataInv, TypeLists, TypeData, Distinct
<1>1. /\ ring[s] # <<>> /\ urp[s].state = "R_NONE"
      /\ UNCHANGED <<explst, proglst, gets, lclget, sent, recvs>>
  BY DEF PktUnexpected, rgetVars, srcVars
<1>2. CASE PoolEmpty
  <2>1. UNCHANGED <<req, explst, uexplst, urp, ring, proglst, gets, lclget, sent, recvs, ubuf>>
    BY <1>1, <1>2 DEF PktUnexpected, poolVars
  <2> QED BY <2>1, DataSame
<1>3. CASE ~ PoolEmpty
  <2>1. /\ ring' = [ring EXCEPT ![s] = Tail(@)] /\ freelst # <<>>
        /\ uexplst' = Append(uexplst, e)
        /\ \/ pkt.rndz /\ req' = [req EXCEPT ![i] = q] /\ UNCHANGED <<urp, ubuf>>
           \/ ~ pkt.rndz /\ EagerCopy(s, i, q, pkt)
    BY <1>a, <1>b, <1>c, <1>d, <1>e, <1>3
       DEF PktUnexpected, utfslist_append, utfgen_uexplst_enqueue, PoolEmpty
  <2>2. i \in MsgReq /\ i \in Free
    BY <1>0, <1>b, <2>1, SeqTake DEF TypeLists, Distinct, Free
  <2>3. /\ req[i] \in ReqRecord /\ uexplst \in Seq(Lst)
        /\ urp \in [Srcs -> [state : {"R_NONE", "R_BODY"}, req : MsgReq \cup {NoReq}]]
    BY <1>0, <2>2 DEF TypeLists
  <2>4. i \notin Expected \cup Unexpected \cup Filling \cup Getting \cup OpenRecvs
    BY <1>0, <2>2, UsedRole
  <2>5. urp[s].req = NoReq
    BY <1>0, <1>1, <2>3 DEF RingsHold
  <2>6. /\ pkt = ring[s][1] /\ pkt \in Pkt /\ PktOf(s, pkt) /\ pkt.src = s /\ pkt.part = 1
        /\ pkt.msg \in Nat /\ pkt.size \in Nat \ {0} /\ pkt.msg \in DOMAIN sent[s]
    BY <1>1, <1>a, <2>5, PacketFacts
  <2>7. /\ q \in ReqRecord /\ q.src = s /\ q.msg = pkt.msg /\ q.size = pkt.size
        /\ q.rndz = pkt.rndz /\ q.usr = 0 /\ q.state = st /\ q.rsize = 0 /\ q.buf = <<>>
        /\ q.rndzpos = pkt.rndzpos
    <3>1. PICK h : h = Header(req[i], pkt)
      OBVIOUS
    <3>2. h \in ReqRecord /\ h.src = s /\ h.msg = pkt.msg /\ h.size = pkt.size /\ h.rndz = pkt.rndz
          /\ h.rndzpos = pkt.rndzpos
      BY <2>3, <2>6, <3>1, HeaderData
    <3>3. <<>> \in Payloads /\ st \in {"WAIT_RNDZ", "NONE"}
      BY <1>c DEF Payloads
    <3>4. q = [h EXCEPT !.type = "RECV_UNEXPECTED",
                        !.rsize = 0, !.usr = 0, !.buf = <<>>, !.state = st]
      BY <1>d, <3>1
    <3> QED BY <3>2, <3>3, <3>4 DEF ReqRecord
  <2>8. e \in Lst /\ e.reqidx = i
    BY <1>e, <2>2, <2>7, ListedFacts
  <2>9. Held(uexplst') = Held(uexplst) \cup {i}
    BY <1>0, <2>1, <2>3, <2>4, <2>8, ListAppend DEF Distinct, Unexpected
  <2>10. Expected' = Expected /\ Unexpected' = Unexpected \cup {i}
    BY <1>1, <2>9 DEF Expected, Unexpected
  <2>11. \A x \in DOMAIN recvs : ~ (recvs[x].open /\ recvs[x].req = i)
    BY <2>4 DEF OpenRecvs, Opened
  (* what is left once the request is known                                *)
  <2>e. ASSUME NEW f, Becomes(i, f), QueuedOf(i)', UNCHANGED ubuf,
               IF LastPart(pkt) THEN urp'[s].req = NoReq
               ELSE urp'[s].req = i /\ f.msg = pkt.msg /\ f.rsize = pkt.part /\ f.src = s,
               \A t \in Srcs : t # s => urp'[t] = urp[t],
               Filling' \subseteq Filling \cup {i}, i \in Filling' => FilledOf(i)'
        PROVE  DataInv' /\ Stays /\ RemainBut(i) /\ Getting' = Getting
    <3>1. req'[i] = f /\ \A j \in MsgReq : j # i => req'[j] = req[j]
      BY <2>e DEF Becomes
    <3>2. Left(i)
      BY <1>1, <2>e, <3>1 DEF Left
    <3>3. Stream' /\ RingsOwn'
      <4>1. Handled(s, i, pkt)
        BY <1>1, <2>1, <2>4, <2>5, <2>6, <2>e, <3>1 DEF Handled
      <4> QED BY <2>2, <4>1, RingsNext
    <3>4. \A x \in DOMAIN recvs' :
            (x \in DOMAIN recvs => recvs[x].open /\ recvs[x].req = i) => DoneOf(x)'
      BY <1>1, <2>11
    <3>5. \A j \in Getting : req'[j] = req[j]
      BY <2>4, <3>1, RolesInRange
    <3>6. Gets' /\ Getting' = Getting /\ \A j : InFlight(j)' = InFlight(j)
      BY <1>0, <1>1, <3>5, GetsKept
    <3>7. \A j \in MsgReq : j # i =>
            /\ j \in Filling' => j \in Filling
            /\ j \in Unexpected' => j \in Unexpected
            /\ j \in Expected' => j \in Expected
            /\ j \in Getting' => j \in Getting /\ InFlight(j)' = InFlight(j)
      BY <2>10, <2>e, <3>6
    <3>8. Filling' \cup Unexpected' \cup Expected' \cup Getting' \subseteq MsgReq
      BY <2>2, <2>10, <2>e, <3>6, RolesInRange
    <3>9. i \notin Expected' /\ i \notin Getting'
      BY <2>4, <2>10, <3>6
    <3>10. (\A j \in Filling : FilledOf(j))' /\ Queued' /\ Posted' /\ Got' /\ DoneRecvs'
      BY <2>e, <3>2, <3>4, <3>7, <3>8, <3>9, DataStep
    <3>11. TypeData' /\ Rooms'
      BY <1>0, <1>1, <2>e DEF TypeData, Rooms
    <3>12. Stays
      BY <2>4, <3>2, StaysBusy
    <3>13. RemainBut(i)
      <4>1. Unexpected' \subseteq MsgReq /\ Getting' \subseteq MsgReq
        BY <3>8
      <4> QED BY <3>2, <3>7, <4>1, RemainStep
    <3> QED BY <3>3, <3>6, <3>10, <3>11, <3>12, <3>13 DEF DataInv, Fill, RingsOwn
  <2>12. CASE pkt.rndz
    <3>1. req' = [req EXCEPT ![i] = q] /\ UNCHANGED <<urp, ubuf>>
      BY <2>1, <2>12
    <3>2. Becomes(i, q) /\ req'[i] = q
      BY <1>0, <2>2, <2>7, <3>1, ReqStep DEF Becomes
    <3>3. QueuedOf(i)'
      <4>1. Carries(i)'
        BY <1>1, <2>6, <2>7, <3>2 DEF PktOf, Carries
      <4> QED BY <1>c, <2>7, <2>12, <3>2, <4>1 DEF QueuedOf
    <3>4. Filling' = Filling /\ i \notin Filling' /\ LastPart(pkt) /\ urp'[s].req = NoReq
      BY <2>4, <2>5, <2>12, <3>1 DEF Filling, LastPart
    <3>5. DataInv' /\ Stays /\ RemainBut(i)
      BY <2>e, <3>1, <3>2, <3>3, <3>4
    <3>6. FromPkt(s, i)
      BY <1>1, <2>1, <2>6, <2>7, <2>12, <3>2 DEF FromPkt
    <3> QED BY <2>2, <3>5, <3>6 DEF TakesOver
  <2>13. CASE ~ pkt.rndz
    <3>1. PICK f : f = Filled(q, pkt)
      OBVIOUS
    <3>2. EagerCopy(s, i, q, pkt)
      BY <2>1, <2>13
    <3>3. pkt.rndz = FALSE /\ q.state = "NONE"
      BY <1>c, <2>6, <2>7, <2>13 DEF Pkt
    <3>4. SoFar(q, pkt)
      BY <2>6, <2>7, <3>3, PartsNone DEF SoFar
    <3>5. PICK u : u = q.usr
      OBVIOUS
    <3>6. u = 0
      BY <2>7, <3>5
    <3>7. /\ Becomes(i, f) /\ Carries(i)'
          /\ f.src = s /\ f.msg = pkt.msg /\ f.rsize = pkt.part /\ f.usr = u /\ ~ f.rndz
          /\ f.state = IF LastPart(pkt) THEN "DONE" ELSE q.state
          /\ urp'[s].req = IF LastPart(pkt) THEN NoReq ELSE i
          /\ \A t \in Srcs : t # s => urp'[t] = urp[t]
          /\ ~ LastPart(pkt) => FilledOf(i)'
          /\ u = 0 /\ LastPart(pkt) => f.buf = Parts(s, f.msg, f.size)
          /\ u = 0 => ubuf' = ubuf
      <4>1. ring[s] # <<>> /\ UNCHANGED sent
        BY <1>1
      <4> QED BY <1>a, <2>2, <2>7, <3>1, <3>2, <3>4, <3>5, <3>6, <4>1, EagerCopyData
    <3>8. IF f.state = "DONE" THEN Filling' = Filling \ {i} ELSE Filling' = Filling \cup {i}
      <4>1. /\ q.state \in {"NONE", "PRG_NORMAL"}
            /\ urp[s].req \in {NoReq, i} /\ (urp[s].req = NoReq => i \notin Filling)
        BY <2>4, <2>5, <3>3
      <4> QED BY <1>0, <2>2, <2>6, <2>7, <3>1, <3>2, <4>1, EagerCopyFacts
    <3>9. QueuedOf(i)'
      <4>1. req'[i] = f
        BY <3>7 DEF Becomes
      <4>2. f.state = "DONE" => f.buf = Parts(f.src, f.msg, f.size)
        BY <3>3, <3>6, <3>7
      <4> QED BY <3>6, <3>7, <4>1, <4>2 DEF QueuedOf
    <3>10. Filling' \subseteq Filling \cup {i} /\ (i \in Filling' => FilledOf(i)')
      BY <2>4, <3>3, <3>7, <3>8
    <3>11. IF LastPart(pkt) THEN urp'[s].req = NoReq
           ELSE urp'[s].req = i /\ f.msg = pkt.msg /\ f.rsize = pkt.part /\ f.src = s
      BY <3>7
    <3>12. DataInv' /\ Stays /\ RemainBut(i) /\ Getting' = Getting
      BY <2>e, <3>6, <3>7, <3>9, <3>10, <3>11
    <3>13. i \notin Transfers'
      BY <2>4, <3>7, <3>12 DEF Transfers, Becomes
    <3> QED BY <3>12, <3>13, RemainOther
  <2> QED BY <2>12, <2>13
<1> QED BY <1>2, <1>3

(* a notice that a get is done                                             *)
LEMMA MrqLclGetData ==
  ASSUME PoolInv, DataInv, NEW s \in Srcs, MrqLclGet(s)
  PROVE  DataInv' /\ Stays /\ Remains /\ Reports(s)
<1>a. PICK at : at = RgetOf(s)
  OBVIOUS
<1>b. PICK i : i = proglst[at]
  OBVIOUS
<1>u. PICK u : u = req[i].usr
  OBVIOUS
<1>n. PICK n, k : n = req[i].msg /\ k = req[i].rsize
  OBVIOUS
<1>0. /\ TypeLists /\ Distinct /\ Roles /\ recvs \in Seq(CallRecord)
      /\ TypeData /\ Rooms /\ Gets /\ gets \in [Srcs -> Seq(GetRecord)]
  BY DEF PoolInv, DataInv, TypeLists, TypeData
<1>1. /\ lclget[s] > 0 /\ lclget' = [lclget EXCEPT ![s] = @ - 1]
      /\ at # 0 => utf_rget_progress(s, at)
      /\ UNCHANGED <<explst, uexplst, urp, ring, sent, recvs, ubuf>>
  BY <1>a DEF MrqLclGet, lstVars, userVars
<1>2. at \in 1 .. Len(proglst) /\ i \in Landed(s)
  BY <1>0, <1>1, <1>a, <1>b, RgetLanded
<1>3. i \in Getting /\ req[i].src = s /\ ~ InFlight(i)
  BY <1>2 DEF Landed
<1>4. GotOf(i) /\ i \in MsgReq /\ Role(i) /\ req[i] \in ReqRecord
  BY <1>0, <1>3, RolesInRange DEF DataInv, Got, Roles, TypeLists
<1>5. i \notin Expected \cup Unexpected \cup Filling /\ req[i].state = "DO_RNDZ"
  BY <1>3, <1>4 DEF Role
<1>6. /\ Carries(i) /\ Serves(i) /\ recvs[u].msg = <<s, n>>
      /\ req[i].rcvexpsz = Fits(recvs[u].size, req[i].size) /\ k \in 1 .. req[i].rcvexpsz
      /\ ubuf[u] = Parts(s, n, k)
  BY <1>3, <1>4, <1>n, <1>u DEF GotOf, Fits
<1>7. /\ u \in DOMAIN recvs /\ recvs[u].open /\ ~ recvs[u].late /\ recvs[u].req = i
      /\ \A x \in DOMAIN recvs : recvs[x].open /\ recvs[x].req = i => x = u
  BY <1>6, <1>u, ServesOnly
<1>8. k \in Nat \ {0} /\ req[i].rcvexpsz \in Nat
  BY <1>4, <1>6 DEF ReqRecord
<1>9. PICK rest : rest = RemoveAt(proglst, at)
  OBVIOUS
<1>10. at # 0
  BY <1>2
<1>11. Expected' = Expected /\ Unexpected' = Unexpected
  BY <1>1 DEF Expected, Unexpected
(* what is left once the request is known                                  *)
<1>e. ASSUME NEW f, Becomes(i, f), DoneOf(u)', Gets', gets' \in [Srcs -> Seq(GetRecord)],
             Getting' \subseteq Getting, i \in Getting' => GotOf(i)',
             \A j : j # i => InFlight(j)' = InFlight(j)
      PROVE  DataInv' /\ Stays /\ RemainBut(i)
  <2>1. req'[i] = f /\ \A j \in MsgReq : j # i => req'[j] = req[j]
    BY <1>e DEF Becomes
  <2>2. Left(i)
    BY <1>1, <2>1 DEF Left
  <2>3. Stream' /\ Filling' = Filling
        /\ (\A t \in Srcs : \A j \in MsgReq : urp[t].req = j => req[j].src = t)'
    BY <1>1, <1>5, <2>2, RingsKept
  <2>4. \A x \in DOMAIN recvs' :
          (x \in DOMAIN recvs => recvs[x].open /\ recvs[x].req = i) => DoneOf(x)'
    BY <1>e, <1>1, <1>7
  <2>5. \A j \in MsgReq : j # i =>
          /\ j \in Filling' => j \in Filling
          /\ j \in Unexpected' => j \in Unexpected
          /\ j \in Expected' => j \in Expected
          /\ j \in Getting' => j \in Getting /\ InFlight(j)' = InFlight(j)
    BY <1>e, <1>11, <2>3
  <2>6. Filling' \cup Unexpected' \cup Expected' \cup Getting' \subseteq MsgReq
    BY <1>e, <1>11, <2>3, RolesInRange
  <2>7. i \notin Expected' /\ i \notin Unexpected' /\ i \notin Filling'
    BY <1>5, <1>11, <2>3
  <2>8. (\A j \in Filling : FilledOf(j))' /\ Queued' /\ Posted' /\ Got' /\ DoneRecvs'
    BY <1>e, <2>2, <2>4, <2>5, <2>6, <2>7, DataStep
  <2>9. TypeData' /\ Rooms'
    BY <1>e, <1>0, <1>1 DEF TypeData, Rooms
  <2>10. Stays
    BY <1>5, <2>2, StaysBusy
  <2>11. RemainBut(i)
    <3>1. Unexpected' \subseteq MsgReq /\ Getting' \subseteq MsgReq
      BY <2>6
    <3> QED BY <2>2, <2>5, <3>1, RemainStep
  <2> QED BY <1>e, <2>3, <2>8, <2>9, <2>10, <2>11 DEF DataInv, Fill
<1>12. CASE RgetMore(req[i])
  <2>1. PICK f : f = [req[i] EXCEPT !.rsize = k + 1]
    OBVIOUS
  <2>2. /\ req' = [req EXCEPT ![i] = f] /\ proglst' = Append(rest, i) /\ UNCHANGED rgetdone
        /\ gets' = [gets EXCEPT ![s] = Append(@, GetOp(i, req[i], k + 1))]
    BY <1>b, <1>n, <1>1, <1>9, <1>10, <1>12, <2>1
       DEF utf_rget_progress, rget_continue, utfslist_append, utfslist_remove2
  <2>3. /\ f \in ReqRecord /\ f.src = s /\ f.msg = n /\ f.size = req[i].size
        /\ f.rndz = req[i].rndz /\ f.usr = u /\ f.state = "DO_RNDZ" /\ f.rsize = k + 1
        /\ f.rcvexpsz = req[i].rcvexpsz /\ f.rndzpos = req[i].rndzpos
    BY <1>3, <1>4, <1>5, <1>8, <1>n, <1>u, <2>1 DEF ReqRecord
  <2>4. Becomes(i, f) /\ req'[i] = f
    BY <1>0, <1>4, <2>2, <2>3, ReqStep DEF Becomes
  <2>5. Asks(s, i, f)
    BY <1>4, <1>n, <2>2, <2>3, <2>4 DEF Asks, GetOp
  <2>6. /\ Gets' /\ gets' \in [Srcs -> Seq(GetRecord)] /\ Getting' = Getting
        /\ InFlight(i)' /\ \A j : j # i => InFlight(j)' = InFlight(j)
    <3>1. /\ proglst' = Append(RemoveAt(proglst, at), i) /\ lclget' = [lclget EXCEPT ![s] = @ - 1]
          /\ f \in ReqRecord
      BY <1>1, <1>9, <2>2, <2>3
    <3>2. PoolInv /\ Gets /\ gets \in [Srcs -> Seq(GetRecord)]
      BY <1>0
    <3> QED BY <1>2, <1>b, <2>5, <3>1, <3>2, GetsMore
  <2>7. GotOf(i)'
    <3>1. Carries(i)'
      BY <1>1, <1>3, <1>6, <1>n, <2>3, <2>4 DEF Carries
    <3>2. Serves(i)'
      BY <1>1, <1>7, <2>3, <2>4 DEF Serves
    <3>3. f.rsize \in 1 .. f.rcvexpsz
      BY <1>6, <1>8, <1>12, <1>n, <2>3 DEF RgetMore
    <3>4. ubuf'[u] = Parts(s, n, f.rsize - 1)
      <4>1. (k + 1) - 1 = k
        BY <1>8
      <4> QED BY <1>1, <1>6, <2>3, <4>1
    <3>5. f.rcvexpsz = (IF recvs'[u].size < f.size THEN recvs'[u].size ELSE f.size)
      BY <1>1, <1>6, <2>3 DEF Fits
    <3> QED BY <1>1, <1>6, <2>3, <2>4, <2>6, <3>1, <3>2, <3>3, <3>4, <3>5 DEF GotOf
  <2>8. DoneOf(u)'
    BY <1>1, <1>7, <2>3, <2>4 DEF DoneOf
  <2>9. DataInv' /\ Stays /\ RemainBut(i)
    BY <1>e, <2>4, <2>6, <2>7, <2>8
  <2>10. i \in Transfers /\ SameMsg(i)
    BY <1>3, <1>n, <2>3, <2>4 DEF Transfers, SameMsg
  <2> QED BY <2>2, <2>9, <2>10, RemainOther DEF Reports
<1>13. CASE ~ RgetMore(req[i])
  <2>1. PICK f : f = [req[i] EXCEPT !.state = "DONE"]
    OBVIOUS
  <2>2. /\ req' = [req EXCEPT ![i] = f] /\ proglst' = rest /\ UNCHANGED gets
        /\ rgetdone' = [rgetdone EXCEPT ![s] = @ \cup {req[i].rndzpos}]
    BY <1>b, <1>1, <1>9, <1>10, <1>13, <2>1 DEF utf_rget_progress, utfslist_remove2
  <2>3. f \in ReqRecord /\ f.state = "DONE"
    BY <1>4, <2>1 DEF ReqRecord
  <2>4. Becomes(i, f) /\ req'[i] = f
    BY <1>0, <1>4, <2>2, <2>3, ReqStep DEF Becomes
  <2>5. Gets' /\ Getting' = Getting \ {i} /\ \A j : InFlight(j)' = InFlight(j)
    BY <1>1, <1>2, <1>9, <1>b, <2>2, <2>4, <1>0, GetsLast
  <2>6. HasAll(u)'
    <3>1. k = Fits(recvs[u].size, req[i].size)
      BY <1>6, <1>13, <1>n DEF RgetMore
    <3>2. s \in Srcs /\ n \in DOMAIN sent[s] /\ req[i].size = sent[s][n].kind.size
      BY <1>3, <1>6, <1>n DEF Carries
    <3>3. s = recvs'[u].msg[1] /\ n = recvs'[u].msg[2]
      BY <1>1, <1>6
    <3> QED BY <1>1, <1>6, <3>1, <3>2, <3>3 DEF HasAll
  <2>7. DoneOf(u)'
    BY <1>1, <1>7, <2>3, <2>4, <2>6 DEF DoneOf
  <2>8. Getting' \subseteq Getting /\ i \notin Getting' /\ gets' \in [Srcs -> Seq(GetRecord)]
    BY <1>0, <2>2, <2>5
  <2>9. DataInv' /\ Stays /\ RemainBut(i)
    BY <1>e, <2>4, <2>5, <2>7, <2>8
  <2>10. i \notin Transfers'
    BY <1>5, <1>11, <2>8 DEF Transfers
  <2>11. GotWhole(s, n)'
    BY <1>1, <1>6, <1>7, <2>3, <2>4, <2>6 DEF GotWhole, Here
  <2> QED BY <1>3, <1>n, <2>2, <2>9, <2>10, <2>11, RemainOther DEF Reports
<1> QED BY <1>12, <1>13

(* The engine has no request for a packet that nothing waits for, and the  *)
(* packet is gone: utf_recvengine answers 1 and utf_progress goes on.      *)
PacketDropped == \E s \in Srcs : RecvReqRefused /\ PktUnexpected(s)

LEMMA DataInit == ASSUME Init PROVE DataInv
<1>1. /\ explst = <<>> /\ uexplst = <<>> /\ proglst = <<>> /\ recvs = <<>> /\ ubuf = <<>>
      /\ urp = [s \in Srcs |-> [state |-> "R_NONE", req |-> NoReq]]
      /\ ring = [s \in Srcs |-> <<>>] /\ gets = [s \in Srcs |-> <<>>]
      /\ lclget = [s \in Srcs |-> 0]
  BY DEF Init
<1>2. Filling = {} /\ Expected = {} /\ Unexpected = {} /\ Getting = {}
  BY <1>1 DEF Filling, Expected, Unexpected, Held, Getting, ToSet
<1>3. TypeData /\ Rooms
  BY <1>1 DEF TypeData, Rooms
<1>4. Stream
  BY <1>1 DEF Stream, StreamOf
<1>5. Fill
  <2>1. NoReq \notin MsgReq
    BY RecvAssumption DEF NoReq, MsgReq
  <2> QED BY <1>1, <1>2, <2>1 DEF Fill
<1>6. Queued /\ Posted /\ Got
  BY <1>2 DEF Queued, Posted, Got
<1>7. Gets
  <2>1. \A s \in Srcs : Landed(s) = {} /\ gets[s] = <<>> /\ lclget[s] = 0
    BY <1>1, <1>2 DEF Landed
  <2>2. Cardinality({}) = 0
    BY FS_EmptySet
  <2>3. ASSUME NEW s \in Srcs PROVE GetsOf(s)
    <3>1. DOMAIN gets[s] = {} /\ DOMAIN proglst = {}
      BY <1>1, <2>1
    <3>2. AllAsked(s, gets[s]) /\ OnceEach(gets[s])
      BY <3>1 DEF AllAsked, OnceEach
    <3>3. Ordered(proglst, gets[s], Landed(s))
      BY <3>1 DEF Ordered
    <3> QED BY <2>1, <2>2, <3>2, <3>3 DEF GetsOf
  <2> QED BY <2>3 DEF Gets
<1>8. DoneRecvs
  BY <1>1 DEF DoneRecvs
<1> QED BY <1>3, <1>4, <1>5, <1>6, <1>7, <1>8 DEF DataInv

LEMMA DataNext ==
  ASSUME PoolInv, DataInv, [Next]_vars, [~ PacketDropped]_vars
  PROVE  DataInv'
<1>0. CASE UNCHANGED vars
  <2>1. UNCHANGED <<poolVars, lstVars, urp, ring, rgetVars, srcVars, userVars>>
    BY <1>0 DEF vars
  <2>2. UNCHANGED <<req, explst, uexplst, urp, ring, proglst, gets, lclget, sent, recvs, ubuf>>
    BY <2>1 DEF poolVars, lstVars, rgetVars, srcVars, userVars
  <2> QED BY <2>2, DataSame
<1>1. CASE ~ UNCHANGED vars
  <2>1. Next /\ ~ PacketDropped
    BY <1>1
  <2>2. ASSUME NEW s \in Srcs, NEW tag \in Tags, NEW kind \in Kinds, Post(s, tag, kind)
        PROVE  DataInv'
    BY <2>2, PostData
  <2>3. ASSUME NEW s \in Srcs, NEW pos \in rgetdone[s], RndzDone(s, pos)
        PROVE  DataInv'
    BY <2>3, RndzDoneData
  <2>4. ASSUME NEW s \in Srcs, Progress(s)
        PROVE  DataInv'
    <3>1. PktUnexpected(s) => ~ RecvReqRefused
      BY <2>1 DEF PacketDropped
    <3> QED BY <2>4, <3>1, PktExpectedData, PktUnexpectedData, PktBodyData, MrqLclGetData
            DEF Progress
  <2>5. ASSUME NEW s \in Srcs, NetGet(s)
        PROVE  DataInv'
    BY <2>5, NetGetData
  <2>6. ASSUME NEW a \in RecvArgs, Recv(a[1], a[2], a[3])
        PROVE  DataInv'
    <3>1. a[1] \in Srcs \cup {ANY} /\ a[2] \in Tags \cup {ANY} /\ a[3] \in Nat \ {0}
      BY RecvAssumption
    <3>2. EagerFits(a[3])
      BY <3>1, RecvAssumption DEF EagerFits
    <3> QED BY <2>6, <3>1, <3>2, RecvUnexpectedData, RecvPostedData DEF Recv
  <2>7. ASSUME NEW r \in DOMAIN recvs, WaitRecv(r) \/ WaitCmplRecv(r)
        PROVE  DataInv'
    BY <2>7, WaitRecvData, WaitCmplRecvData
  <2>8. ASSUME NEW type \in SendTypes, Send(type)
        PROVE  DataInv'
    BY <2>8, SendData
  <2>9. ASSUME NEW k \in DOMAIN sends, WaitSend(k)
        PROVE  DataInv'
    BY <2>9, WaitSendData
  <2>10. ASSUME NEW i \in engine, EngineDone(i)
         PROVE  DataInv'
    BY <2>10, EngineDoneData
  <2> QED BY <2>1, <2>2, <2>3, <2>4, <2>5, <2>6, <2>7, <2>8, <2>9, <2>10 DEF Next
<1> QED BY <1>0, <1>1

(* a receive that has all its parts has what the properties ask for        *)
LEMMA AllIsWhole ==
  ASSUME PoolInv, NEW r \in DOMAIN recvs, HasAll(r)
  PROVE  /\ recvs[r].msg # <<>>
         /\ ubuf[r] = Whole(recvs[r].msg[1], recvs[r].msg[2], recvs[r].size)
<1>1. PICK s, n, size : s = recvs[r].msg[1] /\ n = recvs[r].msg[2] /\ size = recvs[r].size
  OBVIOUS
<1>2. /\ recvs[r].msg = <<s, n>> /\ s \in Srcs /\ n \in DOMAIN sent[s]
      /\ ubuf[r] = Parts(s, n, Fits(size, sent[s][n].kind.size))
  BY <1>1 DEF HasAll
<1>3. PICK m : m = sent[s][n].kind.size
  OBVIOUS
<1>4. m \in Nat
  <2>1. PICK a : a = sent[s]
    OBVIOUS
  <2>2. a \in Seq([tag : Tags, kind : Kinds]) /\ n \in DOMAIN a
    BY <1>2, <2>1 DEF PoolInv, TypeRndz
  <2>3. n \in 1 .. Len(a)
    BY <2>2
  <2>4. a[n].kind \in Kinds
    <3>1. a[n] \in [tag : Tags, kind : Kinds]
      BY <2>2, <2>3, ElementOfSeq
    <3> QED BY <3>1
  <2> QED BY <1>3, <2>1, <2>4, RecvAssumption
<1>5. size \in Nat
  <2>1. recvs \in Seq(CallRecord)
    BY DEF PoolInv, TypeLists
  <2>2. recvs[r] \in CallRecord
    BY <2>1, ElementOfSeq
  <2> QED BY <1>1, <2>2 DEF CallRecord
<1>6. Min({size, m}) = Fits(size, m)
  <2>1. {size, m} \subseteq Nat /\ {size, m} # {}
    BY <1>4, <1>5
  <2>2. Min({size, m}) \in {size, m} /\ Min({size, m}) <= size /\ Min({size, m}) <= m
    BY <2>1, LeastIs
  <2> QED BY <1>4, <1>5, <2>2 DEF Fits
<1>7. Whole(s, n, size) = Parts(s, n, Fits(size, m))
  BY <1>3, <1>6 DEF Whole, Parts
<1>8. recvs[r].msg # <<>>
  BY <1>2
<1> QED BY <1>1, <1>2, <1>3, <1>7, <1>8

LEMMA DataDelivered == ASSUME PoolInv, DataInv PROVE Delivered
<1>1. ASSUME NEW r \in DOMAIN recvs, Completed(r), ~ recvs[r].late PROVE HasAll(r)
  BY <1>1 DEF Completed, DataInv, DoneRecvs, DoneOf
<1> QED BY <1>1, AllIsWhole DEF Delivered

(* As long as the engine drops no packet for want of a request, a receive  *)
(* that the application sees completed has the whole message in its        *)
(* buffer, every part once and in its place, however packets, gets,        *)
(* receives and waits follow each other and however many sources, tags,    *)
(* sizes and requests there are (eager_copy_and_check, rget_start,         *)
(* rget_continue, utf_rget_progress).  With a dropped packet it is false:  *)
(* the packets of the message that follow would be taken for its start.    *)
THEOREM MessagesDelivered == Spec /\ [][~ PacketDropped]_vars => []Delivered
<1>1. Init => PoolInv /\ DataInv
  BY PoolInit, DataInit
<1>2. PoolInv /\ DataInv /\ [Next]_vars /\ [~ PacketDropped]_vars => (PoolInv /\ DataInv)'
  BY PoolNext, DataNext
<1>3. PoolInv /\ DataInv => Delivered
  BY DataDelivered
<1> QED BY <1>1, <1>2, <1>3, PTL DEF Spec

-----------------------------------------------------------------------------
(* The positions of a rendezvous.                                          *)

LEMMA WholeKept ==
  ASSUME Stays, NEW s, NEW n, GotWhole(s, n)
  PROVE  GotWhole(s, n)'
<1>1. PICK r \in DOMAIN recvs : recvs[r].msg = <<s, n>> /\ Here(r)
  BY DEF GotWhole
<1>2. r \in DOMAIN recvs' /\ recvs'[r].msg = <<s, n>> /\ Here(r)'
  BY <1>1 DEF Stays, StaysHere
<1> QED BY <1>2 DEF GotWhole

LEMMA ToldKept ==
  ASSUME Stays, NEW s, ToldOf(s), rndzprog'[s] = rndzprog[s], rgetdone'[s] = rgetdone[s],
         released'[s] = released[s], DOMAIN sent[s] \subseteq DOMAIN sent'[s]
  PROVE  ToldOf(s)'
<1>1. \A n : GotWhole(s, n) => GotWhole(s, n)'
  BY WholeKept
<1> QED BY <1>1 DEF ToldOf

LEMMA PositionsKept ==
  ASSUME NEW s, PositionsOf(s), rndzprog'[s] = rndzprog[s], rgetdone'[s] = rgetdone[s],
         rndzfree'[s] = rndzfree[s], DOMAIN sent[s] \subseteq DOMAIN sent'[s]
  PROVE  PositionsOf(s)'
BY DEF PositionsOf

(* the position of packet or request q, as the source has it after a step  *)
HoldsNext(s, pos, n) ==
  [mypos |-> pos, msg |-> n] \in rndzprog'[s] /\ pos \notin rgetdone'[s]

LEMMA OnWayKept ==
  ASSUME NEW s, OnWayOf(s), ring'[s] = ring[s], Remains,
         \A x \in DOMAIN ring[s] : ring[s][x].rndz =>
           HoldsNext(s, ring[s][x].rndzpos, ring[s][x].msg)
  PROVE  OnWayOf(s)'
<1>1. PICK a : a = ring[s] /\ a = ring'[s]
  OBVIOUS
<1>2. ASSUME NEW x \in DOMAIN a, a[x].rndz
      PROVE  \A i \in Transfers' : req'[i].src = s => req'[i].rndzpos # a[x].rndzpos
  BY <1>1, <1>2 DEF OnWayOf, Remains, SameMsg
<1>3. ASSUME NEW x \in DOMAIN a, a[x].rndz
      PROVE  \A y \in DOMAIN a : a[y].rndz /\ a[y].rndzpos = a[x].rndzpos => y = x
  BY <1>1, <1>3 DEF OnWayOf
<1>4. ASSUME NEW x \in DOMAIN a, a[x].rndz PROVE Holds(s, a[x])'
  BY <1>1, <1>4 DEF Holds, HoldsNext
<1> QED BY <1>1, <1>2, <1>3, <1>4 DEF OnWayOf, Holds

LEMMA PlacedKept ==
  ASSUME Placed, Remains,
         \A j \in Transfers' : HoldsNext(req[j].src, req[j].rndzpos, req[j].msg)
  PROVE  Placed'
<1>1. ASSUME NEW j \in Transfers' PROVE Holds(req[j].src, req[j])'
  <2>1. PICK s, pos, n : s = req[j].src /\ pos = req[j].rndzpos /\ n = req[j].msg
    OBVIOUS
  <2>2. req'[j].src = s /\ req'[j].rndzpos = pos /\ req'[j].msg = n
    BY <2>1 DEF Remains, SameMsg
  <2> QED BY <2>1, <2>2 DEF Holds, HoldsNext
<1>2. ASSUME NEW j \in Transfers', NEW k \in Transfers',
             req'[k].src = req'[j].src, req'[k].rndzpos = req'[j].rndzpos
      PROVE  k = j
  BY <1>2 DEF Remains, SameMsg, Placed
<1> QED BY <1>1, <1>2 DEF Placed

-----------------------------------------------------------------------------
(* Steps on which the sources' tables stay: a packet's position goes to    *)
(* the request that takes the packet.                                      *)

RingTaken(s) == ring[s] # <<>> /\ ring' = [ring EXCEPT ![s] = Tail(@)]

(* b is a from its entry d + 1 on                                          *)
Shifted(a, b, d) ==
  \A x \in DOMAIN b : x \in Nat \ {0} /\ x + d \in DOMAIN a /\ b[x] = a[x + d]
RingStep(s, tail) == IF tail THEN RingTaken(s) ELSE ring' = ring

LEMMA RingShift ==
  ASSUME ring \in [Srcs -> Seq(Pkt)], NEW s \in Srcs, NEW t \in Srcs, NEW tail \in BOOLEAN,
         RingStep(s, tail),
         NEW a, a = ring[t], NEW b, b = ring'[t], NEW d, d = IF tail /\ t = s THEN 1 ELSE 0
  PROVE  Shifted(a, b, d)
<1> USE DEF Shifted, RingStep
<1>1. a \in Seq(Pkt)
  OBVIOUS
<1>2. CASE tail /\ t = s
  <2>1. a # <<>> /\ b = Tail(a)
    BY <1>2 DEF RingTaken
  <2>2. /\ Len(a) \in Nat \ {0} /\ b \in Seq(Pkt) /\ Len(b) = Len(a) - 1
        /\ \A x \in 1 .. Len(a) - 1 : b[x] = a[x + 1]
    BY <1>1, <2>1, HeadTailProperties, EmptySeq
  <2>3. d = 1
    BY <1>2
  <2>4. DOMAIN a = 1 .. Len(a) /\ DOMAIN b = 1 .. Len(b)
    BY <1>1, <2>2
  <2>5. ASSUME NEW x \in DOMAIN b PROVE x \in Nat \ {0} /\ x + 1 \in DOMAIN a /\ b[x] = a[x + 1]
    <3>1. x \in 1 .. Len(a) - 1 /\ Len(a) \in Nat
      BY <2>2, <2>4
    <3>2. x \in Nat \ {0} /\ x + 1 \in 1 .. Len(a)
      BY <3>1
    <3> QED BY <2>2, <2>4, <3>1, <3>2
  <2> QED BY <2>3, <2>5
<1>3. CASE ~ (tail /\ t = s)
  <2>1. b = a
    BY <1>3 DEF RingTaken
  <2> QED BY <1>1, <1>3, <2>1
<1> QED BY <1>2, <1>3

(* what becomes of the transfers, i the request that takes a packet        *)
Over(s, i) ==
  \A j \in Transfers' :
    (j \in Transfers /\ SameMsg(j)) \/ (j = i /\ FromPkt(s, i))

LEMMA OverIs ==
  ASSUME NEW s, Remains \/ TakesOver(s)
  PROVE  \E i : Over(s, i)
<1>1. CASE Remains
  <2>1. Over(s, NoReq)
    BY <1>1 DEF Remains, Over
  <2> QED BY <2>1
<1>2. CASE TakesOver(s)
  <2>1. PICK i \in MsgReq : RemainBut(i) /\ (i \in Transfers' => FromPkt(s, i))
    BY <1>2 DEF TakesOver
  <2>2. Over(s, i)
    BY <2>1 DEF RemainBut, Over
  <2> QED BY <2>2
<1> QED BY <1>1, <1>2

LEMMA OnWayOver ==
  ASSUME PoolInv, OnWay, UNCHANGED <<rndzprog, rgetdone>>, NEW s \in Srcs, NEW i, Over(s, i),
         ring' = ring \/ RingTaken(s), NEW t \in Srcs
  PROVE  OnWayOf(t)'
<1>1. PICK tail \in BOOLEAN : tail = RingTaken(s)
  BY DEF RingTaken
<1>2. PICK a, b : a = ring[t] /\ b = ring'[t]
  OBVIOUS
<1>3. PICK d : d = IF tail /\ t = s THEN 1 ELSE 0
  OBVIOUS
<1>4. Shifted(a, b, d)
  <2>1. ring \in [Srcs -> Seq(Pkt)]
    BY DEF PoolInv, TypeRndz
  <2>2. RingStep(s, tail)
    BY <1>1 DEF RingStep
  <2>3. s \in Srcs /\ t \in Srcs /\ tail \in BOOLEAN
    OBVIOUS
  <2> QED BY ONLY <1>2, <1>3, <2>1, <2>2, <2>3, RingShift
<1>5. OnWayOf(t)
  BY DEF OnWay
<1>6. ASSUME NEW x \in DOMAIN b, b[x].rndz
      PROVE  /\ Holds(t, b[x])'
             /\ \A y \in DOMAIN b : b[y].rndz /\ b[y].rndzpos = b[x].rndzpos => y = x
             /\ \A j \in Transfers' : req'[j].src = t => req'[j].rndzpos # b[x].rndzpos
  <2>1. x \in Nat \ {0} /\ x + d \in DOMAIN a /\ b[x] = a[x + d] /\ d \in {0, 1}
    BY <1>3, <1>4 DEF Shifted
  <2>2. /\ Holds(t, a[x + d])
        /\ \A y \in DOMAIN a : a[y].rndz /\ a[y].rndzpos = b[x].rndzpos => y = x + d
        /\ \A j \in Transfers : req[j].src = t => req[j].rndzpos # b[x].rndzpos
    BY <1>2, <1>5, <1>6, <2>1 DEF OnWayOf
  <2>3. Holds(t, b[x])'
    BY <2>1, <2>2 DEF Holds
  <2>4. ASSUME NEW y \in DOMAIN b, b[y].rndz, b[y].rndzpos = b[x].rndzpos PROVE y = x
    <3>1. y \in Nat /\ y + d \in DOMAIN a /\ b[y] = a[y + d]
      BY <1>4 DEF Shifted
    <3>2. y + d = x + d
      BY <2>2, <2>4, <3>1
    <3> QED BY <2>1, <3>1, <3>2
  <2>5. ASSUME NEW j \in Transfers', req'[j].src = t, req'[j].rndzpos = b[x].rndzpos PROVE FALSE
    <3>1. CASE j \in Transfers /\ SameMsg(j)
      BY <2>2, <2>5, <3>1 DEF SameMsg
    <3>2. CASE j = i /\ FromPkt(s, i)
      <4>1. /\ RingTaken(s) /\ t = s /\ ring[s][1].rndz
            /\ ring[s][1].rndzpos = b[x].rndzpos
        BY <2>5, <3>2 DEF FromPkt, RingTaken
      <4>2. d = 1 /\ a[1].rndz /\ a[1].rndzpos = b[x].rndzpos
        BY <1>1, <1>2, <1>3, <4>1
      <4>3. 1 \in DOMAIN a
        <5>1. a \in Seq(Pkt) /\ a # <<>>
          BY <1>2, <4>1 DEF PoolInv, TypeRndz, RingTaken
        <5> QED BY <5>1, EmptySeq
      <4>4. 1 = x + 1
        BY <2>2, <4>2, <4>3
      <4> QED BY <2>1, <4>4
    <3> QED BY <2>5, <3>1, <3>2 DEF Over
  <2> QED BY <2>3, <2>4, <2>5
<1> QED BY <1>2, <1>6 DEF OnWayOf, Holds

LEMMA PlacedOver ==
  ASSUME PoolInv, OnWay, Placed, UNCHANGED <<rndzprog, rgetdone>>, NEW s \in Srcs, NEW i, Over(s, i)
  PROVE  Placed'
<1>1. ASSUME FromPkt(s, i)
      PROVE  /\ Holds(s, ring[s][1])
             /\ \A j \in Transfers : req[j].src = s => req[j].rndzpos # ring[s][1].rndzpos
  <2>1. 1 \in DOMAIN ring[s]
    <3>1. ring[s] \in Seq(Pkt) /\ ring[s] # <<>>
      BY <1>1 DEF PoolInv, TypeRndz, FromPkt
    <3> QED BY <3>1, EmptySeq
  <2> QED BY <1>1, <2>1 DEF OnWay, OnWayOf, FromPkt
<1>2. ASSUME NEW j \in Transfers' PROVE Holds(req[j].src, req[j])'
  <2>1. CASE j \in Transfers /\ SameMsg(j)
    <3>1. PICK u, pos, n : u = req[j].src /\ pos = req[j].rndzpos /\ n = req[j].msg
      OBVIOUS
    <3>2. [mypos |-> pos, msg |-> n] \in rndzprog[u] /\ pos \notin rgetdone[u]
      BY <2>1, <3>1 DEF Placed, Holds
    <3>3. req'[j].src = u /\ req'[j].rndzpos = pos /\ req'[j].msg = n
      BY <2>1, <3>1 DEF SameMsg
    <3> QED BY <3>2, <3>3 DEF Holds
  <2>2. CASE j = i /\ FromPkt(s, i)
    <3>1. PICK pos, n : pos = ring[s][1].rndzpos /\ n = ring[s][1].msg
      OBVIOUS
    <3>2. [mypos |-> pos, msg |-> n] \in rndzprog[s] /\ pos \notin rgetdone[s]
      BY <1>1, <2>2, <3>1 DEF Holds
    <3>3. req'[j].src = s /\ req'[j].rndzpos = pos /\ req'[j].msg = n
      BY <2>2, <3>1 DEF FromPkt
    <3> QED BY <3>2, <3>3 DEF Holds
  <2> QED BY <2>1, <2>2 DEF Over
<1>3. ASSUME NEW j \in Transfers', NEW k \in Transfers',
             req'[k].src = req'[j].src, req'[k].rndzpos = req'[j].rndzpos
      PROVE  k = j
  <2>1. \A l \in {j, k} : (l \in Transfers /\ SameMsg(l)) \/ (l = i /\ FromPkt(s, i))
    BY <1>3 DEF Over
  <2>2. CASE j \in Transfers /\ SameMsg(j) /\ k \in Transfers /\ SameMsg(k)
    BY <1>3, <2>2 DEF Placed, SameMsg
  <2>3. CASE k = i /\ FromPkt(s, i) /\ j \in Transfers /\ SameMsg(j)
    BY <1>1, <1>3, <2>3 DEF SameMsg, FromPkt
  <2>4. CASE j = i /\ FromPkt(s, i) /\ k \in Transfers /\ SameMsg(k)
    BY <1>1, <1>3, <2>4 DEF SameMsg, FromPkt
  <2> QED BY <2>1, <2>2, <2>3, <2>4
<1> QED BY <1>2, <1>3 DEF Placed

LEMMA RndzOver ==
  ASSUME PoolInv, RndzInv, Stays, UNCHANGED srcVars, NEW s \in Srcs,
         Remains \/ TakesOver(s), ring' = ring \/ RingTaken(s)
  PROVE  RndzInv'
<1>1. UNCHANGED <<rndzfree, rndzprog, rgetdone, sent, released>>
  BY DEF srcVars
<1>2. PICK i : Over(s, i)
  BY OverIs
<1>3. Positions'
  <2>1. \A t \in Srcs : PositionsOf(t)'
    BY <1>1, PositionsKept DEF RndzInv, Positions
  <2> QED BY <1>1, <2>1 DEF RndzInv, Positions
<1>4. OnWay'
  <2>1. \A t \in Srcs : OnWayOf(t)'
    BY <1>1, <1>2, OnWayOver DEF RndzInv
  <2> QED BY <2>1 DEF OnWay
<1>5. Placed'
  BY <1>1, <1>2, PlacedOver DEF RndzInv
<1>6. Told'
  <2>1. \A t \in Srcs : ToldOf(t)'
    BY <1>1, ToldKept DEF RndzInv, Told
  <2> QED BY <2>1 DEF Told
<1> QED BY <1>3, <1>4, <1>5, <1>6 DEF RndzInv

-----------------------------------------------------------------------------
(* Steps on which the sources' tables change.                              *)

(* the source of a transfer                                                *)
LEMMA TransferSrc == ASSUME DataInv, NEW j \in Transfers PROVE req[j].src \in Srcs
BY DEF DataInv, Got, GotOf, Queued, QueuedOf, Carries, Transfers

(* utf_rndz_done: the position is free again, and the sender's request is  *)
(* done                                                                    *)
LEMMA RndzDoneRndz ==
  ASSUME PoolInv, DataInv, RndzInv, NEW s \in Srcs, NEW pos \in rgetdone[s], RndzDone(s, pos)
  PROVE  RndzInv'
<1>a. PICK prog, free, done : prog = rndzprog[s] /\ free = rndzfree[s] /\ done = rgetdone[s]
  OBVIOUS
<1>0. /\ rndzfree \in [Srcs -> Seq(RndzPos)] /\ rgetdone \in [Srcs -> SUBSET RndzPos]
      /\ rndzprog \in [Srcs -> SUBSET [mypos : RndzPos, msg : Nat]]
      /\ released \in [Srcs -> SUBSET Nat]
  BY DEF PoolInv, TypeRndz, RndzInv, Positions
<1>1. /\ \A m \in prog : m.msg \in DOMAIN sent[s] /\ m.mypos \notin ToSet(free)
      /\ \A m, k \in prog : m.mypos = k.mypos \/ m.msg = k.msg => m = k
      /\ IsInjective(free) /\ done \subseteq {m.mypos : m \in prog}
  BY <1>a DEF RndzInv, Positions, PositionsOf
<1>2. PICK m \in prog : m.mypos = pos
  BY <1>a, <1>1
<1>3. find_rndzprog(s, pos) = {m}
  BY <1>a, <1>1, <1>2 DEF find_rndzprog
<1>4. /\ rgetdone' = [rgetdone EXCEPT ![s] = @ \ {pos}]
      /\ rndzprog' = [rndzprog EXCEPT ![s] = @ \ {m}]
      /\ released' = [released EXCEPT ![s] = @ \cup {m.msg}]
      /\ rndzfree' = [rndzfree EXCEPT ![s] = <<pos>> \o @]
      /\ UNCHANGED <<ring, sent>>
  BY <1>3 DEF RndzDone, utfslist_insert
<1>5. /\ rgetdone'[s] = done \ {pos} /\ rndzprog'[s] = prog \ {m}
      /\ released'[s] = released[s] \cup {m.msg} /\ rndzfree'[s] = <<pos>> \o free
  BY <1>0, <1>4, <1>a
<1>6. \A t \in Srcs : t # s => /\ rgetdone'[t] = rgetdone[t] /\ rndzprog'[t] = rndzprog[t]
                               /\ released'[t] = released[t] /\ rndzfree'[t] = rndzfree[t]
  BY <1>0, <1>4
<1>7. Stays /\ Remains
  BY RndzDoneData
<1>8. PositionsOf(s)'
  <2>1. pos \in RndzPos /\ pos \notin ToSet(free) /\ free \in Seq(RndzPos)
    BY <1>0, <1>1, <1>2, <1>a
  <2>2. PICK f : f = <<pos>> \o free
    OBVIOUS
  <2>3. IsInjective(f) /\ ToSet(f) = ToSet(free) \cup {pos}
    BY <1>1, <2>1, <2>2, SeqPut
  <2>4. \A k \in prog \ {m} : k.mypos # pos
    BY <1>1, <1>2
  <2>5. \A k \in prog \ {m} : k.mypos \notin ToSet(f)
    BY <1>1, <2>3, <2>4
  <2>6. done \ {pos} \subseteq {k.mypos : k \in prog \ {m}}
    BY <1>1, <1>2
  <2>7. \A k \in prog \ {m} : k.msg \in DOMAIN sent'[s]
    BY <1>1, <1>4
  <2> QED BY <1>1, <1>5, <2>2, <2>3, <2>5, <2>6, <2>7 DEF PositionsOf
<1>9. Positions'
  <2>1. \A t \in Srcs : PositionsOf(t)'
    BY <1>4, <1>6, <1>8, PositionsKept DEF RndzInv, Positions
  <2>2. prog \ {m} \in SUBSET [mypos : RndzPos, msg : Nat] /\ m.msg \in Nat
    BY <1>0, <1>2, <1>a
  <2>3. rndzprog' \in [Srcs -> SUBSET [mypos : RndzPos, msg : Nat]]
    BY <1>0, <1>4, <2>2
  <2>4. released' \in [Srcs -> SUBSET Nat]
    BY <1>0, <1>4, <2>2
  <2> QED BY <2>1, <2>3, <2>4 DEF Positions
<1>10. ASSUME NEW t \in Srcs, NEW p, NEW n, [mypos |-> p, msg |-> n] \in rndzprog[t],
              p \notin rgetdone[t]
       PROVE  HoldsNext(t, p, n)
  <2>1. CASE t # s
    BY <1>6, <1>10, <2>1 DEF HoldsNext
  <2>2. CASE t = s
    <3>1. [mypos |-> p, msg |-> n] # m
      BY <1>2, <1>10, <2>2
    <3> QED BY <1>5, <1>10, <1>a, <2>2, <3>1 DEF HoldsNext
  <2> QED BY <2>1, <2>2
<1>11. OnWay'
  <2>1. ASSUME NEW t \in Srcs PROVE OnWayOf(t)'
    <3>1. OnWayOf(t) /\ ring'[t] = ring[t]
      BY <1>4 DEF RndzInv, OnWay
    <3>2. \A x \in DOMAIN ring[t] : ring[t][x].rndz =>
            HoldsNext(t, ring[t][x].rndzpos, ring[t][x].msg)
      BY <1>10, <3>1 DEF OnWayOf, Holds
    <3> QED BY <1>7, <3>1, <3>2, OnWayKept
  <2> QED BY <2>1 DEF OnWay
<1>12. Placed'
  <2>1. \A j \in Transfers' : HoldsNext(req[j].src, req[j].rndzpos, req[j].msg)
    <3>1. \A j \in Transfers' : j \in Transfers /\ req[j].src \in Srcs /\ Holds(req[j].src, req[j])
      BY <1>7, TransferSrc DEF Remains, RndzInv, Placed
    <3> QED BY <1>10, <3>1 DEF Holds
  <2> QED BY <1>7, <2>1, PlacedKept DEF RndzInv
<1>13. ToldOf(s)'
  <2>1. /\ \A k \in prog : k.mypos \in done => GotWhole(s, k.msg)
        /\ \A n \in released[s] : n \in DOMAIN sent[s] /\ GotWhole(s, n) /\ \A k \in prog : k.msg # n
    BY <1>a DEF RndzInv, Told, ToldOf
  <2>2. \A n : GotWhole(s, n) => GotWhole(s, n)'
    BY <1>7, WholeKept
  <2>3. \A k \in prog \ {m} : k.mypos \in done \ {pos} => GotWhole(s, k.msg)'
    BY <2>1, <2>2
  <2>4. ASSUME NEW n \in released[s] \cup {m.msg}
        PROVE  n \in DOMAIN sent[s] /\ GotWhole(s, n)' /\ \A k \in prog \ {m} : k.msg # n
    <3>1. CASE n \in released[s]
      BY <2>1, <2>2, <3>1
    <3>2. CASE n = m.msg
      BY <1>1, <1>2, <1>a, <2>1, <2>2, <3>2
    <3> QED BY <2>4, <3>1, <3>2
  <2> QED BY <1>4, <1>5, <2>3, <2>4 DEF ToldOf
<1>14. Told'
  <2>1. \A t \in Srcs : ToldOf(t)'
    BY <1>4, <1>6, <1>7, <1>13, ToldKept DEF RndzInv, Told
  <2> QED BY <2>1 DEF Told
<1> QED BY <1>9, <1>11, <1>12, <1>14 DEF RndzInv

(* utf_rget_progress: the sender is told when its message is all there     *)
LEMMA MrqLclGetRndz ==
  ASSUME PoolInv, DataInv, RndzInv, NEW s \in Srcs, MrqLclGet(s)
  PROVE  RndzInv'
<1>1. /\ UNCHANGED <<ring, rndzfree, rndzprog, sent, released>>
      /\ rgetdone \in [Srcs -> SUBSET RndzPos]
  BY DEF MrqLclGet, PoolInv, TypeRndz
<1>2. Stays /\ Remains /\ Reports(s)
  BY MrqLclGetData
<1>3. CASE UNCHANGED rgetdone
  BY <1>1, <1>2, <1>3, RndzOver DEF srcVars
<1>4. ASSUME NEW i \in Getting, NEW n, n = req[i].msg, req[i].src = s, i \notin Transfers',
             GotWhole(s, n)', rgetdone' = [rgetdone EXCEPT ![s] = @ \cup {req[i].rndzpos}]
      PROVE  RndzInv'
  <2>a. PICK pos, prog, done : pos = req[i].rndzpos /\ prog = rndzprog[s] /\ done = rgetdone[s]
    OBVIOUS
  <2>1. i \in Transfers
    BY DEF Transfers
  <2>2. [mypos |-> pos, msg |-> n] \in prog
    BY <1>4, <2>a, <2>1 DEF RndzInv, Placed, Holds
  <2>3. rgetdone'[s] = done \cup {pos} /\ \A t \in Srcs : t # s => rgetdone'[t] = rgetdone[t]
    BY <1>1, <1>4, <2>a
  <2>4. /\ \A m, k \in prog : m.mypos = k.mypos \/ m.msg = k.msg => m = k
        /\ done \subseteq {m.mypos : m \in prog}
    BY <2>a DEF RndzInv, Positions, PositionsOf
  <2>5. Positions'
    <3>1. ASSUME NEW t \in Srcs PROVE PositionsOf(t)'
      <4>1. PositionsOf(t)
        BY DEF RndzInv, Positions
      <4>2. CASE t # s
        BY <1>1, <2>3, <4>1, <4>2, PositionsKept
      <4>3. CASE t = s
        <5>1. pos \in {m.mypos : m \in prog}
          BY <2>2
        <5>2. done \cup {pos} \subseteq {m.mypos : m \in prog}
          BY <2>4, <5>1
        <5>3. rgetdone'[s] \subseteq {m.mypos : m \in rndzprog'[s]}
          BY <1>1, <2>3, <2>a, <5>2
        <5> QED BY <1>1, <4>1, <4>3, <5>3 DEF PositionsOf
      <4> QED BY <4>2, <4>3
    <3> QED BY <1>1, <3>1 DEF RndzInv, Positions
  <2>6. ASSUME NEW t \in Srcs, NEW p, NEW k, [mypos |-> p, msg |-> k] \in rndzprog[t],
               p \notin rgetdone[t], t = s => p # pos
        PROVE  HoldsNext(t, p, k)
    BY <1>1, <2>3, <2>6, <2>a DEF HoldsNext
  <2>7. OnWay'
    <3>1. ASSUME NEW t \in Srcs PROVE OnWayOf(t)'
      <4>1. OnWayOf(t) /\ ring'[t] = ring[t]
        BY <1>1 DEF RndzInv, OnWay
      <4>2. ASSUME NEW x \in DOMAIN ring[t], ring[t][x].rndz
            PROVE  HoldsNext(t, ring[t][x].rndzpos, ring[t][x].msg)
        <5>1. PICK p, k : p = ring[t][x].rndzpos /\ k = ring[t][x].msg
          OBVIOUS
        <5>2. [mypos |-> p, msg |-> k] \in rndzprog[t] /\ p \notin rgetdone[t]
          BY <4>1, <4>2, <5>1 DEF OnWayOf, Holds
        <5>3. t = s => p # pos
          BY <1>4, <2>1, <2>a, <4>1, <4>2, <5>1 DEF OnWayOf
        <5> QED BY <2>6, <5>1, <5>2, <5>3
      <4> QED BY <1>2, <4>1, <4>2, OnWayKept
    <3> QED BY <3>1 DEF OnWay
  <2>8. Placed'
    <3>1. ASSUME NEW j \in Transfers' PROVE HoldsNext(req[j].src, req[j].rndzpos, req[j].msg)
      <4>1. j \in Transfers /\ j # i
        BY <1>2, <1>4 DEF Remains
      <4>2. PICK t, p, k : t = req[j].src /\ p = req[j].rndzpos /\ k = req[j].msg
        OBVIOUS
      <4>3. t \in Srcs /\ [mypos |-> p, msg |-> k] \in rndzprog[t] /\ p \notin rgetdone[t]
        BY <4>1, <4>2, TransferSrc DEF RndzInv, Placed, Holds
      <4>4. t = s => p # pos
        BY <1>4, <2>1, <2>a, <4>1, <4>2 DEF RndzInv, Placed
      <4> QED BY <2>6, <4>2, <4>3, <4>4
    <3> QED BY <1>2, <3>1, PlacedKept DEF RndzInv
  <2>9. Told'
    <3>1. ASSUME NEW t \in Srcs PROVE ToldOf(t)'
      <4>1. ToldOf(t)
        BY DEF RndzInv, Told
      <4>2. CASE t # s
        BY <1>1, <1>2, <2>3, <4>1, <4>2, ToldKept
      <4>3. CASE t = s
        <5>1. \A k : GotWhole(s, k) => GotWhole(s, k)'
          BY <1>2, WholeKept
        <5>2. ASSUME NEW m \in prog, m.mypos \in done \cup {pos} PROVE GotWhole(s, m.msg)'
          <6>1. CASE m.mypos \in done
            BY <2>a, <4>1, <4>3, <5>1, <6>1 DEF ToldOf
          <6>2. CASE m.mypos = pos
            <7>1. m = [mypos |-> pos, msg |-> n]
              BY <2>2, <2>4, <6>2
            <7> QED BY <1>4, <7>1
          <6> QED BY <5>2, <6>1, <6>2
        <5>3. \A m \in rndzprog'[s] : m.mypos \in rgetdone'[s] => GotWhole(s, m.msg)'
          BY <1>1, <2>3, <2>a, <5>2
        <5> QED BY <1>1, <4>1, <4>3, <5>1, <5>3 DEF ToldOf
      <4> QED BY <4>2, <4>3
    <3> QED BY <3>1 DEF Told
  <2> QED BY <2>5, <2>7, <2>8, <2>9 DEF RndzInv
<1> QED BY <1>2, <1>3, <1>4 DEF Reports

(* The packets p of message n come into the ring a of source s: a          *)
(* rendezvous has one, and the position pos, which no other has.           *)
PktsOf(p, n, rndz, pos) ==
  \A c \in DOMAIN p : p[c].rndz = rndz /\ p[c].rndzpos = pos /\ p[c].msg = n
NewPos(s, a, p, n, pos) ==
  /\ Len(p) = 1 /\ HoldsNext(s, pos, n)
  /\ \A x \in DOMAIN a : a[x].rndz => a[x].rndzpos # pos
  /\ \A i \in Transfers : req[i].src = s => req[i].rndzpos # pos
HoldOn(s, a) == \A x \in DOMAIN a : a[x].rndz => HoldsNext(s, a[x].rndzpos, a[x].msg)

LEMMA OnWayMore ==
  ASSUME NEW s, OnWayOf(s), Remains, NEW a \in Seq(Pkt), a = ring[s], NEW p \in Seq(Pkt),
         ring'[s] = a \o p, NEW pos, NEW n, NEW rndz \in BOOLEAN,
         PktsOf(p, n, rndz, pos), rndz => NewPos(s, a, p, n, pos), HoldOn(s, a)
  PROVE  OnWayOf(s)'
<1> USE DEF PktsOf, NewPos, HoldOn
<1>1. PICK b : b = a \o p
  OBVIOUS
<1>2. /\ Len(a) \in Nat /\ Len(p) \in Nat /\ DOMAIN a = 1 .. Len(a) /\ DOMAIN p = 1 .. Len(p)
      /\ DOMAIN b = 1 .. Len(a) + Len(p)
      /\ \A x \in 1 .. Len(a) + Len(p) : b[x] = IF x <= Len(a) THEN a[x] ELSE p[x - Len(a)]
  <2>1. b \in Seq(Pkt) /\ Len(b) = Len(a) + Len(p)
    BY <1>1, ConcatProperties
  <2> QED BY <1>1, <2>1, ConcatProperties
<1>3. ASSUME NEW x \in DOMAIN b, b[x].rndz
      PROVE  \/ x \in DOMAIN a /\ b[x] = a[x]
             \/ rndz /\ x = Len(a) + 1 /\ b[x].rndzpos = pos /\ b[x].msg = n
  <2>1. CASE x <= Len(a)
    BY <1>2, <2>1
  <2>2. CASE ~ (x <= Len(a))
    <3>1. x - Len(a) \in DOMAIN p /\ b[x] = p[x - Len(a)]
      BY <1>2, <2>2
    <3>2. rndz /\ b[x].rndzpos = pos /\ b[x].msg = n
      BY <1>3, <3>1
    <3>3. x - Len(a) \in 1 .. 1 /\ x \in Int
      BY <1>2, <3>1, <3>2
    <3>4. x = Len(a) + 1
      BY <1>2, <3>3
    <3> QED BY <3>2, <3>4
  <2> QED BY <2>1, <2>2
<1>4. ASSUME NEW x \in DOMAIN a, a[x].rndz
      PROVE  /\ \A y \in DOMAIN a : a[y].rndz /\ a[y].rndzpos = a[x].rndzpos => y = x
             /\ \A i \in Transfers : req[i].src = s => req[i].rndzpos # a[x].rndzpos
  BY <1>4 DEF OnWayOf
<1>5. ASSUME NEW x \in DOMAIN b, b[x].rndz
      PROVE  /\ HoldsNext(s, b[x].rndzpos, b[x].msg)
             /\ \A i \in Transfers : req[i].src = s => req[i].rndzpos # b[x].rndzpos
  <2>1. CASE x \in DOMAIN a /\ b[x] = a[x]
    BY <1>4, <1>5, <2>1
  <2>2. CASE rndz /\ b[x].rndzpos = pos /\ b[x].msg = n
    BY <2>2
  <2> QED BY <1>3, <1>5, <2>1, <2>2
<1>6. ASSUME NEW x \in DOMAIN b, b[x].rndz, NEW y \in DOMAIN b, b[y].rndz,
             b[y].rndzpos = b[x].rndzpos
      PROVE  y = x
  <2>1. CASE x \in DOMAIN a /\ b[x] = a[x] /\ y \in DOMAIN a /\ b[y] = a[y]
    BY <1>4, <1>6, <2>1
  <2>2. CASE x \in DOMAIN a /\ b[x] = a[x] /\ rndz /\ b[y].rndzpos = pos
    BY <1>6, <2>2
  <2>3. CASE y \in DOMAIN a /\ b[y] = a[y] /\ rndz /\ b[x].rndzpos = pos
    BY <1>6, <2>3
  <2>4. CASE x = Len(a) + 1 /\ y = Len(a) + 1
    BY <2>4
  <2> QED BY <1>3, <1>6, <2>1, <2>2, <2>3, <2>4
<1>7. ASSUME NEW x \in DOMAIN b, b[x].rndz
      PROVE  \A i \in Transfers' : req'[i].src = s => req'[i].rndzpos # b[x].rndzpos
  BY <1>5, <1>7 DEF Remains, SameMsg
<1>8. ASSUME NEW x \in DOMAIN b, b[x].rndz
      PROVE  /\ [mypos |-> b[x].rndzpos, msg |-> b[x].msg] \in rndzprog'[s]
             /\ b[x].rndzpos \notin rgetdone'[s]
  BY <1>5, <1>8 DEF HoldsNext
<1>9. ring'[s] = b
  BY <1>1
<1> QED BY ONLY <1>6, <1>7, <1>8, <1>9 DEF OnWayOf, Holds

(* utf_send and the send engine: a rendezvous takes a free position        *)
LEMMA PostRndz ==
  ASSUME PoolInv, DataInv, RndzInv, NEW s \in Srcs, NEW tag \in Tags, NEW kind \in Kinds,
         Post(s, tag, kind)
  PROVE  RndzInv'
<1>a. PICK n : n = Len(sent[s]) + 1
  OBVIOUS
<1>b. PICK none : none = (kind.rndz /\ rndzfree[s] = <<>>)
  OBVIOUS
<1>c. PICK pos : pos = IF kind.rndz /\ ~ none THEN utf_rndzprog_alloc(s) ELSE 0
  OBVIOUS
<1>d. PICK p : p = Packets(s, n, tag, kind, pos)
  OBVIOUS
<1>e. PICK prog, free, done, a :
        prog = rndzprog[s] /\ free = rndzfree[s] /\ done = rgetdone[s] /\ a = ring[s]
  OBVIOUS
<1>0. /\ ring \in [Srcs -> Seq(Pkt)] /\ rndzfree \in [Srcs -> Seq(RndzPos)]
      /\ sent \in [Srcs -> Seq([tag : Tags, kind : Kinds])]
      /\ rndzprog \in [Srcs -> SUBSET [mypos : RndzPos, msg : Nat]]
      /\ released \in [Srcs -> SUBSET Nat]
  BY DEF PoolInv, TypeRndz, RndzInv, Positions
<1>1. Stays /\ Remains
  BY PostData
<1>2. CASE none
  <2>1. UNCHANGED <<ring, srcVars>>
    BY <1>b, <1>2 DEF Post, Fault
  <2> QED BY <1>1, <2>1, RndzOver
<1>3. CASE ~ none
  <2>1. /\ ring' = [ring EXCEPT ![s] = @ \o p]
        /\ sent' = [sent EXCEPT ![s] = Append(@, [tag |-> tag, kind |-> kind])]
        /\ IF kind.rndz
           THEN /\ rndzfree' = [rndzfree EXCEPT ![s] = Tail(@)]
                /\ rndzprog' = [rndzprog EXCEPT ![s] = @ \cup {[mypos |-> pos, msg |-> n]}]
           ELSE UNCHANGED <<rndzfree, rndzprog>>
        /\ UNCHANGED <<rgetdone, released>>
    BY <1>a, <1>b, <1>c, <1>d, <1>3 DEF Post, utfslist_remove
  <2>2. /\ ring'[s] = a \o p
        /\ \A t \in Srcs : t # s => /\ ring'[t] = ring[t] /\ sent'[t] = sent[t]
                                    /\ rndzfree'[t] = rndzfree[t] /\ rndzprog'[t] = rndzprog[t]
    BY <1>0, <1>e, <2>1
  <2>3. DOMAIN sent[s] = 1 .. n - 1 /\ DOMAIN sent'[s] = 1 .. n /\ n \in Nat \ {0}
    <3>1. PICK m, e : m = sent[s] /\ e = [tag |-> tag, kind |-> kind]
      OBVIOUS
    <3>2. m \in Seq([tag : Tags, kind : Kinds]) /\ e \in [tag : Tags, kind : Kinds]
      BY <1>0, <3>1
    <3>3. DOMAIN Append(m, e) = 1 .. Len(m) + 1 /\ DOMAIN m = 1 .. Len(m) /\ Len(m) \in Nat
      BY <3>2, AppendProperties
    <3>4. sent'[s] = Append(m, e)
      BY <1>0, <2>1, <3>1
    <3> QED BY <1>a, <3>1, <3>3, <3>4
  <2>4. \A t \in Srcs : DOMAIN sent[t] \subseteq DOMAIN sent'[t]
    BY <2>2, <2>3
  <2>5. kind.rndz => /\ pos = Head(free) /\ free # <<>> /\ free \in Seq(RndzPos)
                     /\ rndzfree'[s] = Tail(free)
                     /\ rndzprog'[s] = prog \cup {[mypos |-> pos, msg |-> n]}
    BY <1>0, <1>b, <1>c, <1>e, <1>3, <2>1 DEF utf_rndzprog_alloc
  <2>6. /\ \A m \in prog : m.msg \in DOMAIN sent[s] /\ m.mypos \notin ToSet(free)
        /\ \A m, k \in prog : m.mypos = k.mypos \/ m.msg = k.msg => m = k
        /\ IsInjective(free) /\ done \subseteq {m.mypos : m \in prog}
    BY <1>e DEF RndzInv, Positions, PositionsOf
  <2>7. kind.rndz => /\ pos \in RndzPos /\ pos \in ToSet(free) /\ IsInjective(Tail(free))
                     /\ ToSet(Tail(free)) = ToSet(free) \ {pos}
    BY <2>5, <2>6, SeqTake
  <2>8. kind.rndz => pos \notin done /\ \A m \in prog : m.mypos # pos /\ m.msg # n
    BY <2>3, <2>6, <2>7
  <2>9. pos \in RndzPos
    <3>1. 0 \in RndzPos
      BY RecvAssumption DEF RndzPos
    <3> QED BY <1>c, <1>3, <1>b, <2>7, <3>1
  <2>10. PositionsOf(s)'
    <3>1. CASE kind.rndz
      <4>1. PICK e : e = [mypos |-> pos, msg |-> n]
        OBVIOUS
      <4>2. e.mypos = pos /\ e.msg = n /\ rndzprog'[s] = prog \cup {e}
        BY <2>5, <3>1, <4>1
      <4>3. \A m \in prog \cup {e} : m.msg \in DOMAIN sent'[s]
        BY <2>3, <2>6, <4>2
      <4>4. \A m, k \in prog \cup {e} : m.mypos = k.mypos \/ m.msg = k.msg => m = k
        BY <2>6, <2>8, <3>1, <4>2
      <4>5. \A m \in prog \cup {e} : m.mypos \notin ToSet(Tail(free))
        BY <2>6, <2>7, <3>1, <4>2
      <4>6. done \subseteq {m.mypos : m \in prog \cup {e}}
        BY <2>6
      <4>7. rgetdone'[s] = done /\ rndzfree'[s] = Tail(free)
        BY <1>e, <2>1, <2>5, <3>1
      <4> QED BY <2>7, <3>1, <4>2, <4>3, <4>4, <4>5, <4>6, <4>7 DEF PositionsOf
    <3>2. CASE ~ kind.rndz
      BY <2>1, <2>4, <3>2, PositionsKept DEF RndzInv, Positions
    <3> QED BY <3>1, <3>2
  <2>11. Positions'
    <3>1. \A t \in Srcs : PositionsOf(t)'
      BY <2>1, <2>2, <2>4, <2>10, PositionsKept DEF RndzInv, Positions
    <3>2. [mypos |-> pos, msg |-> n] \in [mypos : RndzPos, msg : Nat]
      BY <2>3, <2>9
    <3>3. rndzprog' \in [Srcs -> SUBSET [mypos : RndzPos, msg : Nat]]
      <4>1. CASE kind.rndz
        <5>1. PICK e : e = [mypos |-> pos, msg |-> n]
          OBVIOUS
        <5>2. rndzprog' = [rndzprog EXCEPT ![s] = @ \cup {e}]
          BY <2>1, <4>1, <5>1
        <5>3. e \in [mypos : RndzPos, msg : Nat]
          BY <3>2, <5>1
        <5> QED BY <1>0, <5>2, <5>3
      <4>2. CASE ~ kind.rndz
        BY <1>0, <2>1, <4>2
      <4> QED BY <4>1, <4>2
    <3> QED BY <1>0, <2>1, <3>1, <3>3 DEF Positions
  <2>12. ASSUME NEW t \in Srcs, NEW q, NEW k, [mypos |-> q, msg |-> k] \in rndzprog[t],
                q \notin rgetdone[t]
         PROVE  HoldsNext(t, q, k) /\ (kind.rndz /\ t = s => q # pos)
    <3>1. [mypos |-> q, msg |-> k] \in rndzprog'[t]
      <4>1. CASE t # s
        BY <2>2, <2>12, <4>1
      <4>2. CASE t = s
        BY <1>e, <2>1, <2>5, <2>12, <4>2
      <4> QED BY <4>1, <4>2
    <3>2. kind.rndz /\ t = s => q # pos
      BY <1>e, <2>8, <2>12
    <3> QED BY <2>1, <2>12, <3>1, <3>2 DEF HoldsNext
  <2>13. ASSUME NEW j \in Transfers
         PROVE  /\ HoldsNext(req[j].src, req[j].rndzpos, req[j].msg)
                /\ kind.rndz /\ req[j].src = s => req[j].rndzpos # pos
    <3>1. PICK t, q, k : t = req[j].src /\ q = req[j].rndzpos /\ k = req[j].msg
      OBVIOUS
    <3>2. t \in Srcs /\ [mypos |-> q, msg |-> k] \in rndzprog[t] /\ q \notin rgetdone[t]
      BY <3>1, TransferSrc DEF RndzInv, Placed, Holds
    <3> QED BY <2>12, <3>1, <3>2
  <2>14. Placed'
    <3>1. \A j \in Transfers' : HoldsNext(req[j].src, req[j].rndzpos, req[j].msg)
      BY <1>1, <2>13 DEF Remains
    <3> QED BY <1>1, <3>1, PlacedKept DEF RndzInv
  <2>15. ASSUME NEW t \in Srcs, NEW x \in DOMAIN ring[t], ring[t][x].rndz
         PROVE  /\ HoldsNext(t, ring[t][x].rndzpos, ring[t][x].msg)
                /\ kind.rndz /\ t = s => ring[t][x].rndzpos # pos
    <3>1. PICK q, k : q = ring[t][x].rndzpos /\ k = ring[t][x].msg
      OBVIOUS
    <3>2. [mypos |-> q, msg |-> k] \in rndzprog[t] /\ q \notin rgetdone[t]
      BY <2>15, <3>1 DEF RndzInv, OnWay, OnWayOf, Holds
    <3> QED BY <2>12, <3>1, <3>2
  <2>16. OnWayOf(s)'
    <3>1. PICK m : m = Count(kind)
      OBVIOUS
    <3>2. /\ p \in Seq(Pkt) /\ Len(p) = m /\ DOMAIN p = 1 .. m
          /\ \A c \in 1 .. m : p[c].msg = n /\ p[c].rndz = kind.rndz /\ p[c].rndzpos = pos
      BY <1>d, <2>3, <2>9, <3>1, PacketsAre
    <3>3. PICK rndz \in BOOLEAN : rndz = kind.rndz
      BY RecvAssumption
    <3>4. a \in Seq(Pkt) /\ a = ring[s] /\ OnWayOf(s)
      BY <1>0, <1>e DEF RndzInv, OnWay
    <3>5. PktsOf(p, n, rndz, pos)
      BY <3>2, <3>3 DEF PktsOf
    <3>6. rndz => HoldsNext(s, pos, n)
      BY <1>e, <2>1, <2>5, <2>8, <3>3 DEF HoldsNext
    <3>7. rndz => NewPos(s, a, p, n, pos)
      BY <2>13, <2>15, <3>1, <3>2, <3>3, <3>4, <3>6 DEF Count, NewPos
    <3>8. HoldOn(s, a)
      BY <2>15, <3>4 DEF HoldOn
    <3>9. ring'[s] = a \o p /\ p \in Seq(Pkt) /\ rndz \in BOOLEAN /\ Remains
      BY <1>1, <2>2, <3>2
    <3> QED BY ONLY <3>4, <3>5, <3>7, <3>8, <3>9, OnWayMore
  <2>17. OnWay'
    <3>1. ASSUME NEW t \in Srcs, t # s PROVE OnWayOf(t)'
      <4>1. OnWayOf(t) /\ ring'[t] = ring[t]
        BY <2>2, <3>1 DEF RndzInv, OnWay
      <4> QED BY <1>1, <2>15, <4>1, OnWayKept
    <3> QED BY <2>16, <3>1 DEF OnWay
  <2>18. Told'
    <3>1. ASSUME NEW t \in Srcs PROVE ToldOf(t)'
      <4>1. ToldOf(t) /\ rgetdone'[t] = rgetdone[t] /\ released'[t] = released[t]
        BY <2>1 DEF RndzInv, Told
      <4>2. CASE rndzprog'[t] = rndzprog[t]
        BY <1>1, <2>4, <4>1, <4>2, ToldKept
      <4>3. CASE t = s /\ kind.rndz
        <5>1. \A k : GotWhole(s, k) => GotWhole(s, k)'
          BY <1>1, WholeKept
        <5>2. PICK e : e = [mypos |-> pos, msg |-> n]
          OBVIOUS
        <5>3. e.mypos = pos /\ e.msg = n /\ rndzprog'[s] = prog \cup {e}
          BY <2>5, <4>3, <5>2
        <5>4. \A m \in prog \cup {e} : m.mypos \in done => GotWhole(s, m.msg)'
          BY <1>e, <2>8, <4>1, <4>3, <5>1, <5>3 DEF ToldOf
        <5>5. ASSUME NEW k \in released[s]
              PROVE  k \in DOMAIN sent'[s] /\ GotWhole(s, k)' /\ \A m \in prog \cup {e} : m.msg # k
          <6>1. k \in DOMAIN sent[s] /\ GotWhole(s, k) /\ \A m \in prog : m.msg # k
            BY <1>e, <4>1, <4>3 DEF ToldOf
          <6>2. k # n /\ k \in DOMAIN sent'[s]
            BY <2>3, <6>1
          <6> QED BY <5>1, <5>3, <6>1, <6>2
        <5> QED BY <1>e, <4>1, <4>3, <5>3, <5>4, <5>5 DEF ToldOf
      <4>4. rndzprog'[t] = rndzprog[t] \/ (t = s /\ kind.rndz)
        BY <2>1, <2>2
      <4> QED BY <4>2, <4>3, <4>4
    <3> QED BY <3>1 DEF Told
  <2> QED BY <2>11, <2>14, <2>17, <2>18 DEF RndzInv
<1> QED BY <1>2, <1>3

(* steps on which neither the tables nor the rings change                  *)
LEMMA RndzSame ==
  ASSUME PoolInv, DataInv, RndzInv, Stays, Remains, UNCHANGED <<ring, srcVars>>
  PROVE  RndzInv'
<1>1. CASE Srcs = {}
  <2>1. Transfers' = {}
    BY <1>1, TransferSrc DEF Remains
  <2> QED BY <1>1, <2>1 DEF RndzInv, Positions, OnWay, Placed, Told, srcVars
<1>2. ASSUME NEW s \in Srcs PROVE RndzInv'
  BY RndzOver
<1> QED BY <1>1, <1>2

(* the next packet of source s                                             *)
LEMMA PktRndz ==
  ASSUME PoolInv, DataInv, RndzInv, NEW s \in Srcs,
         PktExpected(s) \/ PktUnexpected(s) \/ PktBody(s), PktUnexpected(s) => ~ RecvReqRefused
  PROVE  RndzInv'
<1>1. Stays /\ (Remains \/ TakesOver(s))
  BY PktExpectedData, PktUnexpectedData, PktBodyData
<1>2. UNCHANGED srcVars
  BY DEF PktExpected, PktUnexpected, PktBody
<1>3. ring' = ring \/ RingTaken(s)
  BY DEF PktExpected, PktUnexpected, PktBody, RingTaken
<1> QED BY <1>1, <1>2, <1>3, RndzOver

LEMMA RndzInit == ASSUME Init PROVE RndzInv
<1>1. /\ \A s \in Srcs : /\ rndzprog[s] = {} /\ rgetdone[s] = {} /\ released[s] = {}
                         /\ ring[s] = <<>>
                         /\ rndzfree[s] = [i \in 1 .. MSGREQ_SEND_SZ |-> i - 1]
      /\ rndzprog \in [Srcs -> SUBSET [mypos : RndzPos, msg : Nat]]
      /\ released \in [Srcs -> SUBSET Nat]
  BY DEF Init
<1>2. Transfers = {}
  BY DEF Init, Transfers, Getting, Unexpected, Held, ToSet
<1>3. IsInjective([i \in 1 .. MSGREQ_SEND_SZ |-> i - 1])
  BY RecvAssumption DEF IsInjective
<1>4. \A s \in Srcs : PositionsOf(s)
  BY <1>1, <1>3 DEF PositionsOf
<1>5. OnWay
  <2>1. \A s \in Srcs : ring[s] = <<>>
    BY <1>1
  <2>2. DOMAIN <<>> = {}
    OBVIOUS
  <2>3. \A s \in Srcs : DOMAIN ring[s] = {}
    BY ONLY <2>1, <2>2
  <2> QED BY ONLY <2>3 DEF OnWay, OnWayOf
<1> QED BY <1>1, <1>2, <1>4, <1>5 DEF RndzInv, Positions, Placed, Told, ToldOf

LEMMA RndzNext ==
  ASSUME PoolInv, DataInv, RndzInv, [Next]_vars, [~ PacketDropped]_vars
  PROVE  RndzInv'
<1>0. CASE UNCHANGED vars
  <2>1. UNCHANGED <<poolVars, lstVars, urp, ring, rgetVars, srcVars, userVars>>
    BY <1>0 DEF vars
  <2>2. UNCHANGED <<req, explst, uexplst, urp, ring, proglst, gets, lclget, sent, recvs, ubuf>>
    BY <2>1 DEF poolVars, lstVars, rgetVars, srcVars, userVars
  <2> QED BY <2>1, <2>2, DataSame, RndzSame
<1>1. CASE ~ UNCHANGED vars
  <2>1. Next /\ ~ PacketDropped
    BY <1>1
  <2>2. ASSUME NEW s \in Srcs, NEW tag \in Tags, NEW kind \in Kinds, Post(s, tag, kind)
        PROVE  RndzInv'
    BY <2>2, PostRndz
  <2>3. ASSUME NEW s \in Srcs, NEW pos \in rgetdone[s], RndzDone(s, pos)
        PROVE  RndzInv'
    BY <2>3, RndzDoneRndz
  <2>4. ASSUME NEW s \in Srcs, Progress(s)
        PROVE  RndzInv'
    <3>1. PktUnexpected(s) => ~ RecvReqRefused
      BY <2>1 DEF PacketDropped
    <3> QED BY <2>4, <3>1, PktRndz, MrqLclGetRndz DEF Progress
  <2>5. ASSUME NEW s \in Srcs, NetGet(s)
        PROVE  RndzInv'
    <3>1. UNCHANGED <<ring, srcVars>>
      BY <2>5 DEF NetGet
    <3> QED BY <2>5, <3>1, NetGetData, RndzSame
  <2>6. ASSUME NEW a \in RecvArgs, Recv(a[1], a[2], a[3])
        PROVE  RndzInv'
    <3>1. a[1] \in Srcs \cup {ANY} /\ a[2] \in Tags \cup {ANY} /\ a[3] \in Nat \ {0}
      BY RecvAssumption
    <3>2. EagerFits(a[3])
      BY <3>1, RecvAssumption DEF EagerFits
    <3>3. Stays /\ Remains
      BY <2>6, <3>1, <3>2, RecvUnexpectedData, RecvPostedData DEF Recv
    <3>4. UNCHANGED <<ring, srcVars>>
      BY <2>6 DEF Recv, RecvUnexpected, RecvPosted, Fault
    <3> QED BY <3>3, <3>4, RndzSame
  <2>7. ASSUME NEW r \in DOMAIN recvs, WaitRecv(r) \/ WaitCmplRecv(r)
        PROVE  RndzInv'
    <3>1. UNCHANGED <<ring, srcVars>>
      BY <2>7 DEF WaitRecv, WaitCmplRecv
    <3> QED BY <2>7, <3>1, WaitRecvData, WaitCmplRecvData, RndzSame
  <2>8. ASSUME NEW type \in SendTypes, Send(type)
        PROVE  RndzInv'
    <3>1. UNCHANGED <<ring, srcVars>>
      BY <2>8 DEF Send, Fault
    <3> QED BY <2>8, <3>1, SendData, RndzSame
  <2>9. ASSUME NEW k \in DOMAIN sends, WaitSend(k)
        PROVE  RndzInv'
    <3>1. UNCHANGED <<ring, srcVars>>
      BY <2>9 DEF WaitSend
    <3> QED BY <2>9, <3>1, WaitSendData, RndzSame
  <2>10. ASSUME NEW i \in engine, EngineDone(i)
         PROVE  RndzInv'
    <3>1. UNCHANGED <<ring, srcVars>>
      BY <2>10 DEF EngineDone
    <3> QED BY <2>10, <3>1, EngineDoneData, RndzSame
  <2> QED BY <2>1, <2>2, <2>3, <2>4, <2>5, <2>6, <2>7, <2>8, <2>9, <2>10 DEF Next
<1> QED BY <1>0, <1>1

LEMMA RndzIsReleased == ASSUME PoolInv, DataInv, RndzInv PROVE RndzReleased
<1>1. SUFFICES ASSUME NEW s \in Srcs, NEW n \in released[s]
               PROVE  /\ \A j \in DOMAIN gets[s] : gets[s][j].msg # n
                      /\ \E r \in DOMAIN recvs : /\ recvs[r].msg = <<s, n>>
                                                 /\ ubuf[r] = Whole(s, n, recvs[r].size)
  BY DEF RndzReleased
<1>2. GotWhole(s, n) /\ \A m \in rndzprog[s] : m.msg # n
  BY DEF RndzInv, Told, ToldOf
<1>3. ASSUME NEW j \in DOMAIN gets[s] PROVE gets[s][j].msg # n
  <2>1. PICK i : i = gets[s][j].req
    OBVIOUS
  <2>2. i \in Getting /\ req[i].src = s /\ gets[s][j].msg = req[i].msg
    BY <2>1 DEF DataInv, Gets, GetsOf, AllAsked
  <2>3. [mypos |-> req[i].rndzpos, msg |-> req[i].msg] \in rndzprog[s]
    BY <2>2 DEF Transfers, RndzInv, Placed, Holds
  <2> QED BY <1>2, <2>2, <2>3
<1>4. PICK r \in DOMAIN recvs : recvs[r].msg = <<s, n>> /\ HasAll(r)
  BY <1>2 DEF GotWhole, Here
<1>5. ubuf[r] = Whole(s, n, recvs[r].size)
  BY <1>4, AllIsWhole
<1> QED BY <1>3, <1>4, <1>5

(* As long as the engine drops no packet for want of a request, a sender   *)
(* learns that its rendezvous is done only when the whole message is in    *)
(* the receive's buffer and no get of it is in flight, so that it may      *)
(* reuse its own: however many transfers share the positions of            *)
(* utf_rndz_pool, and in whatever order gets, notices and new sends follow *)
(* each other (utf_rndzprog_alloc, utf_rget_progress, utf_rndz_done).      *)
THEOREM SendersReleased == Spec /\ [][~ PacketDropped]_vars => []RndzReleased
<1>1. Init => PoolInv /\ DataInv /\ RndzInv
  BY PoolInit, DataInit, RndzInit
<1>2. /\ PoolInv /\ DataInv /\ RndzInv /\ [Next]_vars /\ [~ PacketDropped]_vars
      => (PoolInv /\ DataInv /\ RndzInv)'
  BY PoolNext, DataNext, RndzNext
<1>3. PoolInv /\ DataInv /\ RndzInv => RndzReleased
  BY RndzIsReleased
<1> QED BY <1>1, <1>2, <1>3, PTL DEF Spec

-----------------------------------------------------------------------------
(* Where the messages are.                                                 *)

(* An allocation finds nothing and aborts: a request of the pool, or a     *)
(* position of utf_rndz_pool (utf_sendreq_alloc, utf_recvreq_alloc,        *)
(* utf_rndzprog_alloc).                                                    *)
RunsOut ==
  \/ /\ PoolEmpty
     /\ \/ \E s \in Srcs : PktUnexpected(s)
        \/ \E a \in RecvArgs : RecvPosted(a[1], a[2], a[3])
        \/ \E type \in SendTypes : Send(type)
  \/ \E s \in Srcs, tag \in Tags, kind \in Kinds :
       kind.rndz /\ rndzfree[s] = <<>> /\ Post(s, tag, kind)

(* a receive keeps the message it has; a message is not lost from a list   *)
(* or a ring; a posted receive has none                                    *)
KeepsMsg(r) == r \in DOMAIN recvs' /\ (recvs[r].msg # <<>> => recvs'[r].msg = recvs[r].msg)
KeepRecvs == \A r \in DOMAIN recvs : KeepsMsg(r)
KeepQueue == \A s \in Srcs : \A n : IsQueued(s, n) => Somewhere(s, n)'
KeepRing  == \A s \in Srcs : \A n : InRing(s, n) => Somewhere(s, n)'
NonePosted == \A i \in Expected : recvs[req[i].usr].msg = <<>>

LEMMA LostStep ==
  ASSUME LostInv, KeepRecvs, KeepQueue, KeepRing, NonePosted', ~ fault',
         \A s \in Srcs : \A n \in DOMAIN sent'[s] : n \in DOMAIN sent[s] \/ Somewhere(s, n)'
  PROVE  LostInv'
<1>1. ASSUME NEW s \in Srcs, NEW n \in DOMAIN sent'[s] PROVE Somewhere(s, n)'
  <2>1. CASE WithRecv(s, n)
    <3>1. PICK r \in DOMAIN recvs : recvs[r].msg = <<s, n>>
      BY <2>1 DEF WithRecv
    <3>2. r \in DOMAIN recvs' /\ recvs'[r].msg = <<s, n>>
      BY <3>1 DEF KeepRecvs, KeepsMsg
    <3> QED BY <3>2 DEF Somewhere, WithRecv
  <2>2. n \in DOMAIN sent[s] => InRing(s, n) \/ WithRecv(s, n) \/ IsQueued(s, n)
    BY DEF LostInv, Somewhere
  <2> QED BY <1>1, <2>1, <2>2 DEF KeepQueue, KeepRing
<1> QED BY <1>1 DEF LostInv, NonePosted

(* request i has the message it had                                        *)
SameHead(i) == /\ req'[i].src = req[i].src /\ req'[i].msg = req[i].msg
               /\ req'[i].usr = req[i].usr

LEMMA QueueKept ==
  ASSUME \A i \in Unexpected : i \in Unexpected' /\ SameHead(i)
  PROVE  KeepQueue
<1>1. ASSUME NEW s \in Srcs, NEW n, IsQueued(s, n) PROVE IsQueued(s, n)'
  BY <1>1 DEF IsQueued, SameHead
<1> QED BY <1>1 DEF KeepQueue, Somewhere

LEMMA PostedNone ==
  ASSUME PoolInv, DataInv, NonePosted, \A i \in Expected' : i \in Expected /\ SameHead(i),
         \A r \in DOMAIN recvs : recvs'[r].msg = recvs[r].msg
  PROVE  NonePosted'
<1>1. ASSUME NEW i \in Expected' PROVE recvs'[req'[i].usr].msg = <<>>
  <2>1. PICK u : u = req[i].usr
    OBVIOUS
  <2>2. i \in Expected /\ req'[i].usr = u
    BY <2>1 DEF SameHead
  <2>3. u \in DOMAIN recvs /\ recvs[u].msg = <<>>
    BY <2>1, <2>2 DEF DataInv, Posted, PostedOf, Serves, NonePosted
  <2> QED BY <2>2, <2>3
<1> QED BY <1>1 DEF NonePosted

LEMMA RingStays == ASSUME ring' = ring PROVE KeepRing
<1>1. ASSUME NEW s \in Srcs, NEW n, InRing(s, n) PROVE InRing(s, n)'
  BY <1>1 DEF InRing
<1> QED BY <1>1 DEF KeepRing, Somewhere

(* most steps move no message                                              *)
SameCall(x) == /\ recvs'[x].src = recvs[x].src /\ recvs'[x].tag = recvs[x].tag
               /\ recvs'[x].msg = recvs[x].msg
Quiet ==
  /\ UNCHANGED <<explst, uexplst, ring, sent>>
  /\ DOMAIN recvs' = DOMAIN recvs /\ \A x \in DOMAIN recvs : SameCall(x)
  /\ \A i \in MsgReq : SameHead(i)

LEMMA LostSame == ASSUME PoolInv, DataInv, LostInv, Quiet, ~ fault' PROVE LostInv'
<1>0. \A r \in DOMAIN recvs : r \in DOMAIN recvs' /\ recvs'[r].msg = recvs[r].msg
  BY DEF Quiet, SameCall
<1>1. Expected' = Expected /\ Unexpected' = Unexpected
  BY DEF Expected, Unexpected, Quiet
<1>2. Expected \subseteq MsgReq /\ Unexpected \subseteq MsgReq
  BY RolesInRange
<1>3. KeepQueue
  BY <1>1, <1>2, QueueKept DEF Quiet
<1>4. NonePosted'
  BY <1>0, <1>1, <1>2, PostedNone DEF LostInv, NonePosted, Quiet
<1>5. KeepRecvs
  BY <1>0 DEF KeepRecvs, KeepsMsg
<1>6. KeepRing
  BY RingStays DEF Quiet
<1> QED BY <1>3, <1>4, <1>5, <1>6, LostStep DEF Quiet

(* the first packet leaves the ring of source s                            *)
LEMMA RingDrops ==
  ASSUME PoolInv, NEW s \in Srcs, RingTaken(s),
         \A n : ring[s][1].msg = n /\ ring[s][1].part = 1 => Somewhere(s, n)'
  PROVE  KeepRing
<1>1. ASSUME NEW t \in Srcs, NEW n, InRing(t, n) PROVE Somewhere(t, n)'
  <2>1. PICK a, b : a = ring[t] /\ b = ring'[t]
    OBVIOUS
  <2>2. a \in Seq(Pkt)
    BY <2>1 DEF PoolInv, TypeRndz
  <2>3. PICK x \in DOMAIN a : a[x].msg = n /\ a[x].part = 1
    BY <1>1, <2>1 DEF InRing
  <2>4. CASE t # s
    <3>1. b = a
      BY <2>1, <2>4 DEF RingTaken
    <3>2. InRing(t, n)'
      BY <2>1, <2>3, <3>1 DEF InRing
    <3> QED BY <3>2 DEF Somewhere
  <2>5. CASE t = s /\ x = 1
    BY <2>1, <2>3, <2>5
  <2>6. CASE t = s /\ x # 1
    <3>1. a # <<>> /\ b = Tail(a)
      BY <2>1, <2>6 DEF RingTaken, PoolInv, TypeRndz
    <3>2. /\ Len(a) \in Nat \ {0} /\ b \in Seq(Pkt) /\ Len(b) = Len(a) - 1
          /\ \A y \in 1 .. Len(a) - 1 : b[y] = a[y + 1]
      BY <2>2, <3>1, HeadTailProperties, EmptySeq
    <3>3. x \in 1 .. Len(a) /\ DOMAIN b = 1 .. Len(b)
      BY <2>2, <3>2
    <3>4. PICK y : y = x - 1
      OBVIOUS
    <3>5. y \in 1 .. Len(a) - 1 /\ y + 1 = x
      BY <2>6, <3>2, <3>3, <3>4
    <3>6. y \in DOMAIN b /\ b[y] = a[x]
      BY <3>2, <3>3, <3>5
    <3>7. InRing(t, n)'
      BY <2>1, <2>3, <3>6 DEF InRing
    <3> QED BY <3>7 DEF Somewhere
  <2> QED BY <2>4, <2>5, <2>6
<1> QED BY <1>1 DEF KeepRing

(* every step but one on a packet or of utf_recv leaves the requests'      *)
(* messages as they are                                                    *)
LEMMA SameHeads ==
  ASSUME PoolInv, req' = req \/ \E i \in MsgReq : \E f : /\ req' = [req EXCEPT ![i] = f]
                                                       /\ f.src = req[i].src /\ f.usr = req[i].usr
                                                       /\ f.msg = req[i].msg
  PROVE  \A i \in MsgReq : SameHead(i)
<1>1. req \in [MsgReq -> ReqRecord]
  BY DEF PoolInv, TypeLists
<1> QED BY <1>1 DEF SameHead

LEMMA PostLost ==
  ASSUME PoolInv, DataInv, LostInv, NEW s \in Srcs, NEW tag \in Tags, NEW kind \in Kinds,
         Post(s, tag, kind), ~ (kind.rndz /\ rndzfree[s] = <<>>)
  PROVE  LostInv'
<1>a. PICK n : n = Len(sent[s]) + 1
  OBVIOUS
<1>b. PICK pos : pos = IF kind.rndz THEN Head(rndzfree[s]) ELSE 0
  OBVIOUS
<1>c. PICK p : p = Packets(s, n, tag, kind, pos)
  OBVIOUS
<1>0. /\ ring \in [Srcs -> Seq(Pkt)] /\ rndzfree \in [Srcs -> Seq(RndzPos)]
      /\ sent \in [Srcs -> Seq([tag : Tags, kind : Kinds])]
  BY DEF PoolInv, TypeRndz
<1>1. /\ ring' = [ring EXCEPT ![s] = @ \o p]
      /\ sent' = [sent EXCEPT ![s] = Append(@, [tag |-> tag, kind |-> kind])]
      /\ UNCHANGED <<req, explst, uexplst, recvs, fault>>
  BY <1>a, <1>b, <1>c DEF Post, utf_rndzprog_alloc, poolVars, lstVars, userVars
<1>2. pos \in RndzPos /\ n \in Nat
  <2>1. kind.rndz => Head(rndzfree[s]) \in RndzPos
    BY <1>0, HeadTailProperties
  <2>2. 0 \in RndzPos
    BY RecvAssumption DEF RndzPos
  <2> QED BY <1>0, <1>a, <1>b, <2>1, <2>2
<1>3. p \in Seq(Pkt) /\ Len(p) \in Nat \ {0} /\ p[1].msg = n /\ p[1].part = 1
  <2>1. PICK m : m = Count(kind)
    OBVIOUS
  <2>2. /\ p \in Seq(Pkt) /\ Len(p) = m /\ m \in Nat \ {0}
        /\ \A c \in 1 .. m : p[c].msg = n /\ p[c].part = c
    BY <1>2, <1>c, <2>1, PacketsAre
  <2> QED BY <2>2
<1>4. PICK a, b : a = ring[s] /\ b = a \o p
  OBVIOUS
<1>5. a \in Seq(Pkt) /\ Len(a) \in Nat /\ ring'[s] = b
  BY <1>0, <1>1, <1>4
<1>6. /\ DOMAIN b = 1 .. Len(a) + Len(p)
      /\ \A x \in 1 .. Len(a) + Len(p) : b[x] = IF x <= Len(a) THEN a[x] ELSE p[x - Len(a)]
  <2>1. b \in Seq(Pkt) /\ Len(b) = Len(a) + Len(p)
    BY <1>3, <1>4, <1>5, ConcatProperties
  <2> QED BY <1>3, <1>4, <1>5, <2>1, ConcatProperties
<1>7. \A x \in DOMAIN a : x \in DOMAIN b /\ b[x] = a[x]
  <2>1. DOMAIN a = 1 .. Len(a)
    BY <1>5
  <2> QED BY <1>3, <1>5, <1>6, <2>1
<1>8. Len(a) + 1 \in DOMAIN b /\ b[Len(a) + 1] = p[1]
  <2>1. Len(a) + 1 \in 1 .. Len(a) + Len(p) /\ ~ (Len(a) + 1 <= Len(a)) /\ (Len(a) + 1) - Len(a) = 1
    BY <1>3, <1>5
  <2> QED BY <1>6, <2>1
<1>9. KeepRing
  <2>1. ASSUME NEW t \in Srcs, NEW k, InRing(t, k) PROVE InRing(t, k)'
    <3>1. CASE t # s
      <4>1. ring'[t] = ring[t]
        BY <1>0, <1>1, <3>1
      <4> QED BY <2>1, <4>1 DEF InRing
    <3>2. CASE t = s
      BY <1>4, <1>5, <1>7, <2>1, <3>2 DEF InRing
    <3> QED BY <3>1, <3>2
  <2> QED BY <2>1 DEF KeepRing, Somewhere
<1>10. ASSUME NEW t \in Srcs, NEW k \in DOMAIN sent'[t]
       PROVE  k \in DOMAIN sent[t] \/ Somewhere(t, k)'
  <2>1. CASE t # s
    BY <1>0, <1>1, <1>10, <2>1
  <2>2. CASE t = s
    <3>1. PICK c, e : c = sent[s] /\ e = [tag |-> tag, kind |-> kind]
      OBVIOUS
    <3>2. c \in Seq([tag : Tags, kind : Kinds]) /\ e \in [tag : Tags, kind : Kinds]
      BY <1>0, <3>1
    <3>3. DOMAIN Append(c, e) = 1 .. Len(c) + 1 /\ DOMAIN c = 1 .. Len(c) /\ Len(c) \in Nat
      BY <3>2, AppendProperties
    <3>4. sent'[s] = Append(c, e)
      BY <1>0, <1>1, <3>1
    <3>5. k \in DOMAIN sent[s] \/ k = n
      BY <1>a, <1>10, <2>2, <3>1, <3>3, <3>4
    <3>6. InRing(s, n)'
      BY <1>3, <1>5, <1>8 DEF InRing
    <3> QED BY <2>2, <3>5, <3>6 DEF Somewhere
  <2> QED BY <2>1, <2>2
<1>11. Expected' = Expected /\ Unexpected' = Unexpected /\ \A i : SameHead(i)
  BY <1>1 DEF Expected, Unexpected, SameHead
<1>12. KeepQueue
  BY <1>11, QueueKept
<1>13. NonePosted'
  BY <1>1, <1>11, PostedNone DEF LostInv, NonePosted
<1>14. KeepRecvs /\ ~ fault'
  BY <1>1 DEF KeepRecvs, KeepsMsg, LostInv
<1> QED BY <1>9, <1>10, <1>12, <1>13, <1>14, LostStep

LEMMA RndzDoneQuiet ==
  ASSUME PoolInv, NEW s \in Srcs, NEW pos, RndzDone(s, pos)
  PROVE  Quiet
<1>1. UNCHANGED <<req, explst, uexplst, ring, sent, recvs>>
  BY DEF RndzDone, poolVars, lstVars, userVars
<1> QED BY <1>1, SameHeads DEF Quiet, SameCall

LEMMA RndzDoneLost ==
  ASSUME PoolInv, DataInv, RndzInv, LostInv, NEW s \in Srcs, NEW pos \in rgetdone[s],
         RndzDone(s, pos)
  PROVE  LostInv'
<1>2. find_rndzprog(s, pos) # {}
  <2>1. pos \in {m.mypos : m \in rndzprog[s]}
    BY DEF RndzInv, Positions, PositionsOf
  <2>2. PICK m \in rndzprog[s] : m.mypos = pos
    BY <2>1
  <2>3. m \in find_rndzprog(s, pos)
    BY <2>2 DEF find_rndzprog
  <2> QED BY <2>3
<1>3. ~ fault'
  BY <1>2 DEF RndzDone
<1> QED BY <1>3, LostSame, RndzDoneQuiet

LEMMA MrqLclGetQuiet ==
  ASSUME PoolInv, DataInv, NEW s \in Srcs, MrqLclGet(s)
  PROVE  Quiet /\ ~ fault'
<1>a. PICK at : at = RgetOf(s)
  OBVIOUS
<1>b. PICK i : i = proglst[at]
  OBVIOUS
<1>1. at \in 1 .. Len(proglst)
  <2>1. lclget[s] > 0 /\ Gets
    BY DEF MrqLclGet, DataInv
  <2> QED BY <1>a, <2>1, RgetLanded
<1>2. i \in MsgReq /\ req[i] \in ReqRecord
  BY <1>1, <1>b, ElementOfSeq DEF PoolInv, TypeLists
<1>3. at # 0
  BY <1>1
<1>4. ~ fault' /\ UNCHANGED <<explst, uexplst, ring, sent, recvs>> /\ utf_rget_progress(s, at)
  BY <1>a, <1>3 DEF MrqLclGet, lstVars, userVars
<1>5. \/ req' = [req EXCEPT ![i].rsize = @ + 1]
      \/ req' = [req EXCEPT ![i].state = "DONE"]
  BY <1>b, <1>4 DEF utf_rget_progress, rget_continue
<1>6. \E f : /\ req' = [req EXCEPT ![i] = f] /\ f.src = req[i].src /\ f.usr = req[i].usr
             /\ f.msg = req[i].msg
  <2>1. CASE req' = [req EXCEPT ![i].rsize = @ + 1]
    <3>1. PICK f : f = [req[i] EXCEPT !.rsize = @ + 1]
      OBVIOUS
    <3>2. f.src = req[i].src /\ f.usr = req[i].usr /\ f.msg = req[i].msg
      BY <1>2, <3>1 DEF ReqRecord
    <3> QED BY <2>1, <3>1, <3>2
  <2>2. CASE req' = [req EXCEPT ![i].state = "DONE"]
    <3>1. PICK f : f = [req[i] EXCEPT !.state = "DONE"]
      OBVIOUS
    <3>2. f.src = req[i].src /\ f.usr = req[i].usr /\ f.msg = req[i].msg
      BY <1>2, <3>1 DEF ReqRecord
    <3> QED BY <2>2, <3>1, <3>2
  <2> QED BY <1>5, <2>1, <2>2
<1>7. \A j \in MsgReq : SameHead(j)
  BY <1>2, <1>6, SameHeads
<1> QED BY <1>4, <1>7 DEF Quiet, SameCall

(* waits, own sends and gets                                               *)
LEMMA StateOnly ==
  ASSUME PoolInv, NEW i \in MsgReq, NEW st, NEW type, NEW back,
         req' = [req EXCEPT ![i] = [@ EXCEPT !.state = st, !.type = type, !.reclaim = back]]
  PROVE  \A j \in MsgReq : SameHead(j)
<1>1. PICK f : f = [req[i] EXCEPT !.state = st, !.type = type, !.reclaim = back]
  OBVIOUS
<1>2. req[i] \in ReqRecord
  BY DEF PoolInv, TypeLists
<1>3. f.src = req[i].src /\ f.usr = req[i].usr /\ f.msg = req[i].msg
  BY <1>1, <1>2 DEF ReqRecord
<1>4. req' = [req EXCEPT ![i] = f]
  BY <1>1
<1> QED BY <1>3, <1>4, SameHeads

LEMMA StateAlone ==
  ASSUME PoolInv, NEW i \in MsgReq, NEW st, req' = [req EXCEPT ![i].state = st]
  PROVE  \A j \in MsgReq : SameHead(j)
<1>1. PICK f : f = [req[i] EXCEPT !.state = st]
  OBVIOUS
<1>2. req[i] \in ReqRecord
  BY DEF PoolInv, TypeLists
<1>3. f.src = req[i].src /\ f.usr = req[i].usr /\ f.msg = req[i].msg
  BY <1>1, <1>2 DEF ReqRecord
<1>4. req' = [req EXCEPT ![i] = f]
  BY <1>1
<1> QED BY <1>3, <1>4, SameHeads

LEMMA CloseMsgs ==
  ASSUME PoolInv, NEW r \in DOMAIN recvs, recvs' = [recvs EXCEPT ![r].open = FALSE]
  PROVE  DOMAIN recvs' = DOMAIN recvs /\ \A x \in DOMAIN recvs : SameCall(x)
<1>1. recvs \in Seq(CallRecord)
  BY DEF PoolInv, TypeLists
<1>2. recvs[r] \in CallRecord
  BY <1>1, ElementOfSeq
<1>3. PICK c : c = [recvs[r] EXCEPT !.open = FALSE]
  OBVIOUS
<1>4. c.msg = recvs[r].msg /\ c.src = recvs[r].src /\ c.tag = recvs[r].tag
  BY <1>2, <1>3 DEF CallRecord
<1>5. recvs' = [recvs EXCEPT ![r] = c]
  BY <1>3
<1> QED BY <1>4, <1>5 DEF SameCall

LEMMA NetGetQuiet == ASSUME PoolInv, NEW s \in Srcs, NetGet(s) PROVE Quiet /\ ~ fault'
<1>1. UNCHANGED <<req, explst, uexplst, ring, sent, recvs, fault>>
  BY DEF NetGet, poolVars, lstVars, srcVars
<1>2. ~ fault /\ \A i \in MsgReq : SameHead(i)
  BY <1>1, SameHeads DEF NetGet
<1> QED BY <1>1, <1>2 DEF Quiet, SameCall

LEMMA WaitRecvQuiet ==
  ASSUME PoolInv, NEW r \in DOMAIN recvs, WaitRecv(r) \/ WaitCmplRecv(r)
  PROVE  Quiet /\ ~ fault'
<1>1. UNCHANGED <<explst, uexplst, ring, sent, fault>> /\ ~ fault
  BY DEF WaitRecv, WaitCmplRecv, lstVars, srcVars
<1>2. DOMAIN recvs' = DOMAIN recvs /\ \A x \in DOMAIN recvs : SameCall(x)
  BY CloseMsgs DEF WaitRecv, WaitCmplRecv
<1>3. \A j \in MsgReq : SameHead(j)
  <2>1. CASE WaitRecv(r)
    <3>1. PICK i : i = recvs[r].req
      OBVIOUS
    <3>2. recvs \in Seq(CallRecord)
      BY DEF PoolInv, TypeLists
    <3>3. recvs[r] \in CallRecord
      BY <3>2, ElementOfSeq
    <3>4. i \in MsgReq
      BY <3>1, <3>3 DEF CallRecord
    <3>5. req' = [req EXCEPT ![i].state = "NONE"]
      BY <2>1, <3>1 DEF WaitRecv, Freed
    <3> QED BY <3>4, <3>5, StateAlone
  <2>2. CASE WaitCmplRecv(r)
    BY <2>2, SameHeads DEF WaitCmplRecv, poolVars
  <2> QED BY <2>1, <2>2
<1> QED BY <1>1, <1>2, <1>3 DEF Quiet

LEMMA SendQuiet ==
  ASSUME PoolInv, NEW type \in SendTypes, Send(type), ~ PoolEmpty
  PROVE  Quiet /\ ~ fault'
<1>1. UNCHANGED <<explst, uexplst, ring, sent, recvs, fault>> /\ ~ fault
  BY DEF Send, lstVars, srcVars
<1>2. PICK i : i = Head(freelst)
  OBVIOUS
<1>3. i \in MsgReq
  BY <1>2, SeqTake DEF PoolInv, TypeLists, Distinct, PoolEmpty
<1>4. req' = [req EXCEPT ![i] = [@ EXCEPT !.state = "PRG_NORMAL", !.type = type, !.reclaim = FALSE]]
  BY <1>2 DEF Send
<1>5. \A j \in MsgReq : SameHead(j)
  BY <1>3, <1>4, StateOnly
<1> QED BY <1>1, <1>5 DEF Quiet, SameCall

LEMMA WaitSendQuiet ==
  ASSUME PoolInv, NEW k \in DOMAIN sends, WaitSend(k)
  PROVE  Quiet /\ ~ fault'
<1>1. UNCHANGED <<explst, uexplst, ring, sent, recvs, fault>> /\ ~ fault
  BY DEF WaitSend, lstVars, srcVars
<1>2. PICK i : i = sends[k].req
  OBVIOUS
<1>3. i \in MsgReq /\ req[i] \in ReqRecord
  <2>1. sends \in Seq([req : MsgReq, open : BOOLEAN])
    BY DEF PoolInv, TypeLists
  <2>2. sends[k] \in [req : MsgReq, open : BOOLEAN]
    <3>1. k \in 1 .. Len(sends)
      BY <2>1
    <3> QED BY <2>1, <3>1, ElementOfSeq
  <2> QED BY <1>2, <2>2 DEF PoolInv, TypeLists
<1>4. req' = [req EXCEPT ![i].state = "NONE"] \/ req' = [req EXCEPT ![i].reclaim = TRUE]
  BY <1>2 DEF WaitSend, Freed
<1>5. \A j \in MsgReq : SameHead(j)
  <2>1. CASE req' = [req EXCEPT ![i].state = "NONE"]
    BY <1>3, <2>1, StateAlone
  <2>2. CASE req' = [req EXCEPT ![i].reclaim = TRUE]
    <3>1. PICK f : f = [req[i] EXCEPT !.reclaim = TRUE]
      OBVIOUS
    <3>2. f.src = req[i].src /\ f.usr = req[i].usr /\ f.msg = req[i].msg
      BY <1>3, <3>1 DEF ReqRecord
    <3>3. req' = [req EXCEPT ![i] = f]
      BY <2>2, <3>1
    <3> QED BY <1>3, <3>2, <3>3, SameHeads
  <2> QED BY <1>4, <2>1, <2>2
<1> QED BY <1>1, <1>5 DEF Quiet, SameCall

LEMMA EngineDoneQuiet ==
  ASSUME PoolInv, NEW i \in engine, EngineDone(i)
  PROVE  Quiet /\ ~ fault'
<1>1. UNCHANGED <<explst, uexplst, ring, sent, recvs, fault>> /\ ~ fault
  BY DEF EngineDone, lstVars, srcVars
<1>2. i \in MsgReq /\ req[i] \in ReqRecord
  BY DEF PoolInv, TypeLists
<1>3. \/ req' = [req EXCEPT ![i] = [@ EXCEPT !.state = "NONE", !.reclaim = FALSE]]
      \/ req' = [req EXCEPT ![i].state = "DONE"]
  BY DEF EngineDone
<1>4. \A j \in MsgReq : SameHead(j)
  <2>1. CASE req' = [req EXCEPT ![i] = [@ EXCEPT !.state = "NONE", !.reclaim = FALSE]]
    <3>1. PICK f : f = [req[i] EXCEPT !.state = "NONE", !.reclaim = FALSE]
      OBVIOUS
    <3>2. f.src = req[i].src /\ f.usr = req[i].usr /\ f.msg = req[i].msg
      BY <1>2, <3>1 DEF ReqRecord
    <3>3. req' = [req EXCEPT ![i] = f]
      BY <2>1, <3>1
    <3> QED BY <1>2, <3>2, <3>3, SameHeads
  <2>2. CASE req' = [req EXCEPT ![i].state = "DONE"]
    BY <1>2, <2>2, StateAlone
  <2> QED BY <1>3, <2>1, <2>2
<1> QED BY <1>1, <1>4 DEF Quiet, SameCall

LEMMA CallsDomain ==
  ASSUME PoolInv
  PROVE  DOMAIN recvs = 1 .. Len(recvs) /\ Len(recvs) \in Nat
<1>1. recvs \in Seq(CallRecord)
  BY DEF PoolInv, TypeLists
<1> QED BY <1>1

(* utf_recv posts receive r, which has no message, under request i         *)
PostsRecv(src, tag, r, i, e) ==
  /\ UNCHANGED <<uexplst, ring, sent, fault>>
  /\ DOMAIN recvs' = 1 .. r /\ r \notin DOMAIN recvs
  /\ recvs'[r].src = src /\ recvs'[r].tag = tag /\ recvs'[r].msg = <<>>
  /\ \A x \in DOMAIN recvs : x \in DOMAIN recvs' /\ recvs'[x] = recvs[x]
  /\ e.reqidx = i /\ e.src = src /\ e.tag = tag /\ explst' = Append(explst, e)
  /\ i \notin Expected \cup Unexpected
  /\ Expected' = Expected \cup {i} /\ Unexpected' = Unexpected
  /\ req'[i].usr = r /\ \A j \in MsgReq : j # i => req'[j] = req[j]

LEMMA RecvPostedStep ==
  ASSUME PoolInv, NEW src \in Srcs \cup {ANY}, NEW tag \in Tags \cup {ANY},
         NEW size \in Nat, RecvPosted(src, tag, size), ~ PoolEmpty, NEW r, r = Len(recvs) + 1
  PROVE  \E i \in MsgReq, e \in Lst : PostsRecv(src, tag, r, i, e)
<1>a. PICK i : i = Head(freelst)
  OBVIOUS
<1>b. PICK f : f = [req[i] EXCEPT !.state = "PRG_NORMAL", !.type = "RECV_EXPECTED",
                      !.src = src, !.tag = tag, !.rsize = 0, !.usrreqsz = size, !.usr = r]
  OBVIOUS
<1>e. PICK e : e = Listed(f, i)
  OBVIOUS
<1>f. PICK c : c = Call(src, tag, size, i, <<>>)
  OBVIOUS
<1>0. TypeLists /\ Distinct /\ Roles /\ recvs \in Seq(CallRecord)
  BY DEF PoolInv, TypeLists
<1>1. /\ freelst # <<>> /\ req' = [req EXCEPT ![i] = f]
      /\ explst' = Append(explst, e) /\ recvs' = Append(recvs, c)
      /\ UNCHANGED <<uexplst, ring, sent, fault>>
  BY <1>a, <1>b, <1>e, <1>f DEF RecvPosted, utfslist_append, PoolEmpty, srcVars
<1>2. i \in MsgReq /\ i \in Free
  BY <1>0, <1>a, <1>1, SeqTake DEF TypeLists, Distinct, Free
<1>3. req[i] \in ReqRecord /\ explst \in Seq(Lst) /\ req \in [MsgReq -> ReqRecord]
  BY <1>0, <1>2 DEF TypeLists
<1>4. f \in ReqRecord /\ f.usr = r /\ f.src = src /\ f.tag = tag
  <2>1. r \in Nat
    BY <1>0
  <2> QED BY <1>b, <1>3, <2>1 DEF ReqRecord
<1>5. i \notin Expected \cup Unexpected
  BY <1>0, <1>2, UsedRole
<1>6. e \in Lst /\ e.reqidx = i /\ e.src = src /\ e.tag = tag
  BY <1>e, <1>2, <1>4, ListedFacts
<1>7. Expected' = Expected \cup {i} /\ Unexpected' = Unexpected
  BY <1>0, <1>1, <1>3, <1>5, <1>6, ListAppend DEF Distinct, Expected, Unexpected
<1>8. /\ DOMAIN recvs' = 1 .. r /\ recvs'[r] = c /\ r \notin DOMAIN recvs
      /\ \A x \in DOMAIN recvs : x \in DOMAIN recvs' /\ recvs'[x] = recvs[x]
  <2>1. /\ DOMAIN recvs = 1 .. Len(recvs) /\ Len(recvs) \in Nat
        /\ DOMAIN recvs' = 1 .. Len(recvs) + 1
        /\ \A x \in 1 .. Len(recvs) : recvs'[x] = recvs[x]
        /\ recvs'[Len(recvs) + 1] = c
    BY <1>0, <1>1
  <2> QED BY <2>1
<1>9. c.src = src /\ c.tag = tag /\ c.msg = <<>>
  BY <1>f DEF Call
<1>10. req'[i] = f /\ \A j \in MsgReq : j # i => req'[j] = req[j]
  BY <1>1, <1>2, <1>3
<1>11. PostsRecv(src, tag, r, i, e)
  BY <1>1, <1>4, <1>5, <1>6, <1>7, <1>8, <1>9, <1>10 DEF PostsRecv
<1> QED BY <1>2, <1>6, <1>11

LEMMA RecvPostedLost ==
  ASSUME PoolInv, DataInv, LostInv, NEW src \in Srcs \cup {ANY}, NEW tag \in Tags \cup {ANY},
         NEW size \in Nat, RecvPosted(src, tag, size), ~ PoolEmpty
  PROVE  LostInv'
<1>a. PICK r : r = Len(recvs) + 1
  OBVIOUS
<1>1. PICK i \in MsgReq, e \in Lst : PostsRecv(src, tag, r, i, e)
  BY <1>a, RecvPostedStep
<1>2. /\ UNCHANGED <<uexplst, ring, sent, fault>> /\ recvs'[r].msg = <<>>
      /\ i \notin Expected \cup Unexpected
      /\ Expected' = Expected \cup {i} /\ Unexpected' = Unexpected
      /\ req'[i].usr = r /\ \A j \in MsgReq : j # i => req'[j] = req[j]
  BY <1>1 DEF PostsRecv
<1>3. \A x \in DOMAIN recvs : x \in DOMAIN recvs' /\ recvs'[x].msg = recvs[x].msg
  BY <1>1 DEF PostsRecv
<1>4. KeepQueue
  <2>1. \A j \in Unexpected : j \in Unexpected' /\ SameHead(j)
    BY <1>2, RolesInRange DEF SameHead
  <2> QED BY <2>1, QueueKept
<1>5. NonePosted'
  <2>1. ASSUME NEW j \in Expected' PROVE recvs'[req'[j].usr].msg = <<>>
    <3>1. CASE j = i
      BY <1>2, <3>1
    <3>2. CASE j # i
      <4>1. PICK u : u = req[j].usr
        OBVIOUS
      <4>2. j \in Expected /\ req'[j] = req[j]
        BY <1>2, <3>2, RolesInRange
      <4>3. u \in DOMAIN recvs /\ recvs[u].msg = <<>>
        BY <4>1, <4>2 DEF DataInv, Posted, PostedOf, Serves, LostInv
      <4> QED BY <1>3, <4>1, <4>2, <4>3
    <3> QED BY <3>1, <3>2
  <2> QED BY <2>1 DEF NonePosted
<1>6. KeepRecvs
  BY <1>3 DEF KeepRecvs, KeepsMsg
<1>7. KeepRing
  BY <1>2, RingStays
<1>8. ~ fault' /\ sent' = sent
  BY <1>2 DEF LostInv
<1> QED BY <1>4, <1>5, <1>6, <1>7, <1>8, LostStep

(* utf_recv takes the queued message of request i with receive r           *)
TakesQueued(src, tag, at, i, r) ==
  /\ UNCHANGED <<explst, ring, sent, fault>>
  /\ at \in 1 .. Len(uexplst) /\ at \in DOMAIN uexplst
  /\ UexpMatches(src, tag, uexplst[at]) /\ uexplst' = RemoveAt(uexplst, at)
  /\ i \in MsgReq /\ i \in Unexpected /\ i \notin Expected
  /\ Expected' = Expected /\ Unexpected' = Unexpected \ {i}
  /\ \A j \in MsgReq : j # i => req'[j] = req[j]
  /\ DOMAIN recvs' = 1 .. r /\ r \in DOMAIN recvs' /\ r \notin DOMAIN recvs
  /\ recvs'[r].src = src /\ recvs'[r].tag = tag
  /\ recvs'[r].msg = <<req[i].src, req[i].msg>>
  /\ \A x \in DOMAIN recvs : x \in DOMAIN recvs' /\ recvs'[x] = recvs[x]

LEMMA RecvUnexpectedStep ==
  ASSUME PoolInv, NEW src, NEW tag, NEW size, RecvUnexpected(src, tag, size),
         NEW at, at = utf_uexplst_match(src, tag), NEW i, i = uexplst[at].reqidx,
         NEW r, r = Len(recvs) + 1
  PROVE  TakesQueued(src, tag, at, i, r)
<1>s. PICK s, n : s = req[i].src /\ n = req[i].msg
  OBVIOUS
<1>c. PICK c : c = Call(src, tag, size, i, <<s, n>>)
  OBVIOUS
<1>0. TypeLists /\ Distinct /\ Roles /\ recvs \in Seq(CallRecord)
  BY DEF PoolInv, TypeLists
<1>1. /\ at # 0 /\ uexplst' = RemoveAt(uexplst, at) /\ UNCHANGED <<explst, ring, sent, fault>>
      /\ recvs' = Append(recvs, c) \/ recvs' = Append(recvs, [c EXCEPT !.late = TRUE])
      /\ \E f : req' = [req EXCEPT ![i] = f]
  <2>1. at # 0 /\ uexplst' = RemoveAt(uexplst, at) /\ UNCHANGED <<explst, ring, sent, fault>>
    BY DEF RecvUnexpected, utfslist_remove2, srcVars
  <2>2. recvs' = Append(recvs, c) \/ recvs' = Append(recvs, [c EXCEPT !.late = TRUE])
    BY <1>c, <1>s DEF RecvUnexpected
  <2>3. \E f : req' = [req EXCEPT ![i] = f]
    <3>1. \/ RgetStart(i, [req[i] EXCEPT !.usr = r, !.usrreqsz = size])
          \/ req' = [req EXCEPT ![i].buf = <<>>]
          \/ req' = [req EXCEPT ![i].type = "RECV_EXPECTED"]
      BY DEF RecvUnexpected
    <3> QED BY <3>1 DEF RgetStart
  <2> QED BY <2>1, <2>2, <2>3
<1>2. uexplst \in Seq(Lst) /\ req \in [MsgReq -> ReqRecord]
  BY <1>0 DEF TypeLists
<1>3. at \in 1 .. Len(uexplst) /\ at \in DOMAIN uexplst /\ UexpMatches(src, tag, uexplst[at])
  BY <1>1, <1>2, UexpFirst
<1>4. i \in MsgReq /\ i \in Unexpected
  <2>1. uexplst[at] \in Lst
    BY <1>2, <1>3, ElementOfSeq
  <2> QED BY <1>3, <2>1 DEF Lst, Unexpected, Held
<1>5. Unexpected' = Unexpected \ {i} /\ Expected' = Expected /\ i \notin Expected
  <2>1. Held(uexplst') = Held(uexplst) \ {i}
    BY <1>0, <1>1, <1>2, <1>3, ListRemove DEF Distinct
  <2>2. Role(i)
    BY <1>0, <1>4 DEF Roles
  <2> QED BY <1>1, <1>4, <2>1, <2>2 DEF Unexpected, Expected, Role
<1>6. \A j \in MsgReq : j # i => req'[j] = req[j]
  BY <1>1, <1>2
<1>7. PICK d : /\ recvs' = Append(recvs, d)
               /\ d.src = src /\ d.tag = tag /\ d.msg = <<s, n>>
  <2>1. PICK b : b = [c EXCEPT !.late = TRUE]
    OBVIOUS
  <2>2. c.src = src /\ c.tag = tag /\ c.msg = <<s, n>>
    BY <1>c DEF Call
  <2>3. b.src = src /\ b.tag = tag /\ b.msg = <<s, n>>
    BY <1>c, <2>1 DEF Call
  <2> QED BY <1>1, <2>1, <2>2, <2>3
<1>8. /\ DOMAIN recvs' = 1 .. r /\ r \in DOMAIN recvs' /\ recvs'[r] = d /\ r \notin DOMAIN recvs
      /\ \A x \in DOMAIN recvs : x \in DOMAIN recvs' /\ recvs'[x] = recvs[x]
  <2>1. /\ DOMAIN recvs = 1 .. Len(recvs) /\ Len(recvs) \in Nat
        /\ DOMAIN recvs' = 1 .. Len(recvs) + 1
        /\ \A x \in 1 .. Len(recvs) : recvs'[x] = recvs[x]
        /\ recvs'[Len(recvs) + 1] = d
    BY <1>0, <1>7
  <2> QED BY <2>1
<1> QED BY <1>s, <1>1, <1>3, <1>4, <1>5, <1>6, <1>7, <1>8 DEF TakesQueued

LEMMA RecvUnexpectedLost ==
  ASSUME PoolInv, DataInv, LostInv, NEW src, NEW tag, NEW size, RecvUnexpected(src, tag, size)
  PROVE  LostInv'
<1>a. PICK at, r : at = utf_uexplst_match(src, tag) /\ r = Len(recvs) + 1
  OBVIOUS
<1>b. PICK i : i = uexplst[at].reqidx
  OBVIOUS
<1>1. TakesQueued(src, tag, at, i, r)
  BY <1>a, <1>b, RecvUnexpectedStep
<1>2. /\ UNCHANGED <<explst, ring, sent, fault>>
      /\ i \in Unexpected /\ i \notin Expected
      /\ Expected' = Expected /\ Unexpected' = Unexpected \ {i}
      /\ \A j \in MsgReq : j # i => req'[j] = req[j]
      /\ r \in DOMAIN recvs' /\ recvs'[r].msg = <<req[i].src, req[i].msg>>
      /\ \A x \in DOMAIN recvs : x \in DOMAIN recvs' /\ recvs'[x] = recvs[x]
  BY <1>1 DEF TakesQueued
<1>3. KeepQueue
  <2>1. ASSUME NEW t \in Srcs, NEW k, IsQueued(t, k) PROVE Somewhere(t, k)'
    <3>1. PICK j \in Unexpected : req[j].src = t /\ req[j].msg = k
      BY <2>1 DEF IsQueued
    <3>2. CASE j = i
      <4>1. recvs'[r].msg = <<t, k>>
        BY <1>2, <3>1, <3>2
      <4>2. WithRecv(t, k)'
        BY <1>2, <4>1 DEF WithRecv
      <4> QED BY <4>2 DEF Somewhere
    <3>3. CASE j # i
      <4>1. j \in Unexpected' /\ req'[j].src = t /\ req'[j].msg = k
        BY <1>2, <3>1, <3>3, RolesInRange
      <4>2. IsQueued(t, k)'
        BY <4>1 DEF IsQueued
      <4> QED BY <4>2 DEF Somewhere
    <3> QED BY <3>2, <3>3
  <2> QED BY <2>1 DEF KeepQueue
<1>4. NonePosted'
  <2>1. \A j \in Expected' : j \in Expected /\ SameHead(j)
    BY <1>2, RolesInRange DEF SameHead
  <2>2. NonePosted
    BY DEF LostInv, NonePosted
  <2> QED BY <1>2, <2>1, <2>2, PostedNone
<1>5. KeepRecvs
  BY <1>2 DEF KeepRecvs, KeepsMsg
<1>6. KeepRing
  BY <1>2, RingStays
<1>7. ~ fault' /\ sent' = sent
  BY <1>2 DEF LostInv
<1> QED BY <1>3, <1>4, <1>5, <1>6, <1>7, LostStep

(* a packet for the posted receive u of request i: it learns what it gets  *)
TakesPosted(s, pkt, at, i, u) ==
  /\ UNCHANGED <<uexplst, sent, fault>> /\ RingTaken(s) /\ pkt.part = 1
  /\ at \in 1 .. Len(explst) /\ at \in DOMAIN explst
  /\ ExpMatches(explst[at], s, pkt.tag) /\ explst' = RemoveAt(explst, at)
  /\ i \in MsgReq /\ i \in Expected /\ i \notin Unexpected
  /\ Expected' = Expected \ {i} /\ Unexpected' = Unexpected
  /\ \A j \in MsgReq : j # i => req'[j] = req[j]
  /\ u \in DOMAIN recvs /\ DOMAIN recvs' = DOMAIN recvs
  /\ recvs'[u].src = recvs[u].src /\ recvs'[u].tag = recvs[u].tag
  /\ recvs'[u].msg = <<s, pkt.msg>> /\ recvs[u].req = i
  /\ \A x \in DOMAIN recvs : x # u => recvs'[x] = recvs[x]

LEMMA PktExpectedStep ==
  ASSUME PoolInv, DataInv, NEW s \in Srcs, PktExpected(s), NEW pkt, pkt = ring[s][1],
         NEW at, at = utf_explst_match(s, pkt.tag), NEW i, i = explst[at].reqidx,
         NEW u, u = req[i].usr
  PROVE  TakesPosted(s, pkt, at, i, u)
<1>0. TypeLists /\ RingsHold /\ Distinct /\ Roles /\ recvs \in Seq(CallRecord)
  BY DEF PoolInv, TypeLists
<1>1. /\ explst \in Seq(Lst) /\ req \in [MsgReq -> ReqRecord] /\ NoReq \notin MsgReq
      /\ urp \in [Srcs -> [state : {"R_NONE", "R_BODY"}, req : MsgReq \cup {NoReq}]]
  BY <1>0, RecvAssumption DEF TypeLists, NoReq, MsgReq
<1>2. ring[s] # <<>> /\ urp[s].state = "R_NONE"
  BY DEF PktExpected
<1>3. urp[s].req = NoReq
  BY <1>0, <1>1, <1>2 DEF RingsHold
<1>4. pkt = Head(ring[s]) /\ pkt \in Pkt /\ pkt.src = s /\ pkt.part = 1
  BY <1>2, <1>3, PacketFacts
<1>5. /\ at # 0
      /\ ring' = [ring EXCEPT ![s] = Tail(@)]
      /\ explst' = RemoveAt(explst, at)
      /\ recvs' = [recvs EXCEPT ![Header(req[i], pkt).usr].msg = <<s, pkt.msg>>]
      /\ RgetStart(i, Header(req[i], pkt)) \/ EagerCopy(s, i, Header(req[i], pkt), pkt)
      /\ UNCHANGED <<uexplst, sent, fault>>
  BY <1>4 DEF PktExpected, utfgen_explst_match, utfslist_remove2, srcVars
<1>6. at \in 1 .. Len(explst) /\ at \in DOMAIN explst /\ ExpMatches(explst[at], s, pkt.tag)
  <2>1. PICK tag : tag = pkt.tag
    OBVIOUS
  <2>2. at # 0 /\ explst \in Seq(Lst) /\ at = utf_explst_match(s, tag)
    BY <1>1, <1>5, <2>1
  <2>3. at \in 0 .. Len(explst) /\ ExpMatches(explst[at], s, tag)
    BY ONLY <2>2, ExpFirst
  <2> QED BY ONLY <2>1, <2>2, <2>3
<1>7. i \in MsgReq /\ req[i] \in ReqRecord /\ i \in Expected
  <2>1. explst[at] \in Lst
    BY <1>1, <1>6, ElementOfSeq
  <2> QED BY <1>1, <1>6, <2>1 DEF Lst, Expected, Held
<1>8. Expected' = Expected \ {i} /\ Unexpected' = Unexpected /\ i \notin Unexpected
  <2>1. Held(explst') = Held(explst) \ {i}
    BY <1>0, <1>1, <1>5, <1>6, ListRemove DEF Distinct
  <2>2. Role(i)
    BY <1>0, <1>7 DEF Roles
  <2> QED BY <1>5, <1>7, <2>1, <2>2 DEF Unexpected, Expected, Role
<1>9. Header(req[i], pkt).usr = u
  BY <1>4, <1>7, HeaderFacts
<1>10. u \in DOMAIN recvs /\ recvs[u].req = i
  BY <1>7 DEF DataInv, Posted, PostedOf, Serves
<1>11. \A j \in MsgReq : j # i => req'[j] = req[j]
  BY <1>1, <1>5 DEF RgetStart, EagerCopy
<1>12. PICK c : c = [recvs[u] EXCEPT !.msg = <<s, pkt.msg>>]
  OBVIOUS
<1>13. c.msg = <<s, pkt.msg>> /\ c.src = recvs[u].src /\ c.tag = recvs[u].tag
  <2>1. recvs[u] \in CallRecord
    BY <1>0, <1>10, ElementOfSeq
  <2> QED BY <1>12, <2>1 DEF CallRecord
<1>14. /\ DOMAIN recvs' = DOMAIN recvs /\ recvs'[u] = c
       /\ \A x \in DOMAIN recvs : x # u => recvs'[x] = recvs[x]
  <2>1. recvs' = [recvs EXCEPT ![u] = c]
    BY <1>5, <1>9, <1>12
  <2> QED BY <1>10, <2>1
<1>15. RingTaken(s)
  BY <1>2, <1>5 DEF RingTaken
<1> QED BY <1>4, <1>5, <1>6, <1>7, <1>8, <1>10, <1>11, <1>13, <1>14, <1>15 DEF TakesPosted

LEMMA PktExpectedLost ==
  ASSUME PoolInv, DataInv, LostInv, NEW s \in Srcs, PktExpected(s)
  PROVE  LostInv'
<1>a. PICK pkt : pkt = ring[s][1]
  OBVIOUS
<1>b. PICK at : at = utf_explst_match(s, pkt.tag)
  OBVIOUS
<1>c. PICK i : i = explst[at].reqidx
  OBVIOUS
<1>u. PICK u : u = req[i].usr
  OBVIOUS
<1>0. TakesPosted(s, pkt, at, i, u)
  BY <1>a, <1>b, <1>c, <1>u, PktExpectedStep
<1>1. /\ UNCHANGED <<uexplst, sent, fault>> /\ RingTaken(s)
      /\ i \in MsgReq /\ i \in Expected /\ i \notin Unexpected
      /\ Expected' = Expected \ {i} /\ Unexpected' = Unexpected
      /\ \A j \in MsgReq : j # i => req'[j] = req[j]
      /\ u \in DOMAIN recvs /\ DOMAIN recvs' = DOMAIN recvs
      /\ recvs'[u].msg = <<s, pkt.msg>> /\ recvs[u].req = i
      /\ \A x \in DOMAIN recvs : x # u => recvs'[x] = recvs[x]
  BY <1>0 DEF TakesPosted
<1>2. /\ recvs[u].msg = <<>>
      /\ \A j \in Expected : j # i => req[j].usr \in DOMAIN recvs /\ req[j].usr # u
  BY <1>1, <1>u DEF LostInv, DataInv, Posted, PostedOf, Serves
<1>3. KeepQueue
  <2>1. \A j \in Unexpected : j \in Unexpected' /\ SameHead(j)
    BY <1>1, RolesInRange DEF SameHead
  <2> QED BY <2>1, QueueKept
<1>4. NonePosted'
  <2>1. ASSUME NEW j \in Expected' PROVE recvs'[req'[j].usr].msg = <<>>
    <3>1. PICK v : v = req[j].usr
      OBVIOUS
    <3>2. j \in Expected /\ j # i /\ req'[j].usr = v
      BY <1>1, <3>1, RolesInRange
    <3>3. v \in DOMAIN recvs /\ v # u /\ recvs[v].msg = <<>>
      BY <1>2, <3>1, <3>2 DEF LostInv
    <3> QED BY <1>1, <3>2, <3>3
  <2> QED BY <2>1 DEF NonePosted
<1>5. KeepRecvs
  BY <1>1, <1>2 DEF KeepRecvs, KeepsMsg
<1>6. KeepRing
  <2>1. WithRecv(s, pkt.msg)'
    BY <1>1 DEF WithRecv
  <2> QED BY <1>a, <1>1, <2>1, RingDrops DEF Somewhere
<1>7. ~ fault' /\ sent' = sent
  BY <1>1 DEF LostInv
<1> QED BY <1>3, <1>4, <1>5, <1>6, <1>7, LostStep

(* a packet that nothing waits for: its message is queued under request i  *)
QueuesMsg(s, pkt, i, e) ==
  /\ UNCHANGED <<explst, sent, recvs, fault>> /\ RingTaken(s) /\ pkt.part = 1
  /\ e.reqidx = i /\ e.src = s /\ e.tag = pkt.tag /\ uexplst' = Append(uexplst, e)
  /\ i \notin Expected \cup Unexpected
  /\ Expected' = Expected /\ Unexpected' = Unexpected \cup {i}
  /\ req'[i].src = s /\ req'[i].msg = pkt.msg
  /\ \A j \in MsgReq : j # i => req'[j] = req[j]

LEMMA PktUnexpectedStep ==
  ASSUME PoolInv, DataInv, NEW s \in Srcs, PktUnexpected(s), ~ RecvReqRefused, ~ PoolEmpty,
         NEW pkt, pkt = ring[s][1]
  PROVE  \E i \in MsgReq, e \in Lst : QueuesMsg(s, pkt, i, e)
<1>b. PICK i : i = Head(freelst)
  OBVIOUS
<1>c. PICK st : st = IF pkt.rndz THEN "WAIT_RNDZ" ELSE "NONE"
  OBVIOUS
<1>d. PICK q : q = [Header(req[i], pkt) EXCEPT !.type = "RECV_UNEXPECTED",
                      !.rsize = 0, !.usr = 0, !.buf = <<>>, !.state = st]
  OBVIOUS
<1>e. PICK e : e = Listed(q, i)
  OBVIOUS
<1>0. TypeLists /\ RingsHold /\ Distinct /\ Roles
  BY DEF PoolInv
<1>1. /\ req \in [MsgReq -> ReqRecord] /\ uexplst \in Seq(Lst) /\ NoReq \notin MsgReq
      /\ urp \in [Srcs -> [state : {"R_NONE", "R_BODY"}, req : MsgReq \cup {NoReq}]]
  BY <1>0, RecvAssumption DEF TypeLists, NoReq, MsgReq
<1>2. ring[s] # <<>> /\ urp[s].state = "R_NONE"
  BY DEF PktUnexpected
<1>3. urp[s].req = NoReq
  BY <1>0, <1>1, <1>2 DEF RingsHold
<1>4. pkt = Head(ring[s]) /\ pkt \in Pkt /\ pkt.src = s /\ pkt.part = 1
  BY <1>2, <1>3, PacketFacts
<1>5. /\ freelst # <<>>
      /\ ring' = [ring EXCEPT ![s] = Tail(@)] /\ uexplst' = Append(uexplst, e)
      /\ req' = [req EXCEPT ![i] = q] \/ req' = [req EXCEPT ![i] = Filled(q, pkt)]
      /\ UNCHANGED <<explst, sent, recvs, fault>>
  BY <1>4, <1>b, <1>c, <1>d, <1>e
     DEF PktUnexpected, utfslist_append, utfgen_uexplst_enqueue, PoolEmpty, EagerCopy, srcVars
<1>6. i \in MsgReq /\ i \in Free
  BY <1>0, <1>b, <1>5, SeqTake DEF TypeLists, Distinct, Free
<1>7. i \notin Expected \cup Unexpected
  BY <1>0, <1>6, UsedRole
<1>8. q \in ReqRecord /\ q.src = s /\ q.msg = pkt.msg /\ q.tag = pkt.tag
  <2>1. PICK h : h = Header(req[i], pkt)
    OBVIOUS
  <2>2. req[i] \in ReqRecord
    BY <1>1, <1>6
  <2>3. h \in ReqRecord /\ h.src = s /\ h.msg = pkt.msg
    BY <1>4, <2>1, <2>2, HeaderData
  <2>4. h.tag = pkt.tag
    BY <2>1, <2>2 DEF Header, ReqRecord
  <2>5. <<>> \in Payloads /\ st \in {"WAIT_RNDZ", "NONE"}
    BY <1>c DEF Payloads
  <2>6. q = [h EXCEPT !.type = "RECV_UNEXPECTED",
                      !.rsize = 0, !.usr = 0, !.buf = <<>>, !.state = st]
    BY <1>d, <2>1
  <2> QED BY <2>3, <2>4, <2>5, <2>6 DEF ReqRecord
<1>9. e \in Lst /\ e.reqidx = i /\ e.src = s /\ e.tag = pkt.tag
  BY <1>e, <1>6, <1>8, ListedFacts
<1>10. Expected' = Expected /\ Unexpected' = Unexpected \cup {i}
  BY <1>0, <1>1, <1>5, <1>7, <1>9, ListAppend DEF Distinct, Expected, Unexpected
<1>11. /\ req'[i].src = s /\ req'[i].msg = pkt.msg
       /\ \A j \in MsgReq : j # i => req'[j] = req[j]
  <2>1. Filled(q, pkt).src = s /\ Filled(q, pkt).msg = pkt.msg
    BY <1>8 DEF Filled, ReqRecord
  <2> QED BY <1>1, <1>5, <1>6, <1>8, <2>1
<1>12. RingTaken(s)
  BY <1>2, <1>5 DEF RingTaken
<1>13. QueuesMsg(s, pkt, i, e)
  BY <1>4, <1>5, <1>7, <1>9, <1>10, <1>11, <1>12 DEF QueuesMsg
<1> QED BY <1>6, <1>9, <1>13

LEMMA PktUnexpectedLost ==
  ASSUME PoolInv, DataInv, LostInv, NEW s \in Srcs, PktUnexpected(s), ~ RecvReqRefused, ~ PoolEmpty
  PROVE  LostInv'
<1>a. PICK pkt : pkt = ring[s][1]
  OBVIOUS
<1>1. PICK i \in MsgReq, e \in Lst : QueuesMsg(s, pkt, i, e)
  BY <1>a, PktUnexpectedStep
<1>2. /\ UNCHANGED <<explst, sent, recvs, fault>> /\ RingTaken(s)
      /\ i \notin Expected \cup Unexpected
      /\ Expected' = Expected /\ Unexpected' = Unexpected \cup {i}
      /\ req'[i].src = s /\ req'[i].msg = pkt.msg
      /\ \A j \in MsgReq : j # i => req'[j] = req[j]
  BY <1>1 DEF QueuesMsg
<1>3. KeepQueue
  <2>1. \A j \in Unexpected : j \in Unexpected' /\ SameHead(j)
    BY <1>2, RolesInRange DEF SameHead
  <2> QED BY <2>1, QueueKept
<1>4. NonePosted'
  <2>1. \A j \in Expected' : j \in Expected /\ SameHead(j)
    BY <1>2, RolesInRange DEF SameHead
  <2> QED BY <1>2, <2>1, PostedNone DEF LostInv, NonePosted
<1>5. KeepRecvs
  BY <1>2 DEF KeepRecvs, KeepsMsg
<1>6. KeepRing
  <2>1. IsQueued(s, pkt.msg)'
    BY <1>2 DEF IsQueued
  <2> QED BY <1>a, <1>2, <2>1, RingDrops DEF Somewhere
<1>7. ~ fault' /\ sent' = sent
  BY <1>2 DEF LostInv
<1> QED BY <1>3, <1>4, <1>5, <1>6, <1>7, LostStep

(* a later packet of a message: it has left the ring before                *)
LEMMA PktBodyHeads ==
  ASSUME PoolInv, DataInv, NEW s \in Srcs, PktBody(s)
  PROVE  RingTaken(s) /\ ring[s][1].part # 1 /\ \A i \in MsgReq : SameHead(i)
<1>a. PICK pkt : pkt = Head(ring[s])
  OBVIOUS
<1>b. PICK i : i = urp[s].req
  OBVIOUS
<1>1. /\ ring[s] # <<>> /\ urp[s].state = "R_BODY"
      /\ ring' = [ring EXCEPT ![s] = Tail(@)]
      /\ req' = [req EXCEPT ![i] = Filled(req[i], pkt)]
      /\ UNCHANGED <<explst, uexplst, sent, recvs, fault>>
  BY <1>a, <1>b DEF PktBody, EagerCopy, lstVars, srcVars
<1>2. i # NoReq /\ i \in MsgReq /\ i \in Filling /\ req[i] \in ReqRecord
  <2>1. /\ urp \in [Srcs -> [state : {"R_NONE", "R_BODY"}, req : MsgReq \cup {NoReq}]]
        /\ req \in [MsgReq -> ReqRecord]
    BY DEF PoolInv, TypeLists
  <2>2. i # NoReq
    BY <1>b, <1>1 DEF PoolInv, RingsHold
  <2>3. i \in MsgReq
    BY <1>b, <2>1, <2>2
  <2> QED BY <1>b, <2>1, <2>2, <2>3 DEF Filling
<1>3. /\ pkt = ring[s][1] /\ pkt \in Pkt /\ pkt.part = req[i].rsize + 1
      /\ pkt.part # 1
  <2>1. pkt = ring[s][1] /\ pkt \in Pkt /\ pkt.part = req[i].rsize + 1
    BY <1>1, <1>2, <1>a, <1>b, PacketFacts
  <2>2. req[i].rsize \in 1 .. req[i].size - 1 /\ req[i].size \in Nat
    BY <1>2 DEF DataInv, Fill, FilledOf, ReqRecord
  <2> QED BY <2>1, <2>2
<1>4. \A j \in MsgReq : SameHead(j)
  <2>1. PICK f : f = Filled(req[i], pkt)
    OBVIOUS
  <2>2. f.src = req[i].src /\ f.usr = req[i].usr /\ f.msg = req[i].msg
    BY <1>2, <2>1 DEF Filled, ReqRecord
  <2> QED BY <1>1, <1>2, <2>1, <2>2, SameHeads
<1> QED BY <1>1, <1>3, <1>4 DEF RingTaken

LEMMA PktBodyLost ==
  ASSUME PoolInv, DataInv, LostInv, NEW s \in Srcs, PktBody(s)
  PROVE  LostInv'
<1>1. UNCHANGED <<explst, uexplst, sent, recvs, fault>>
  BY DEF PktBody, lstVars, srcVars
<1>2. RingTaken(s) /\ ring[s][1].part # 1
  BY PktBodyHeads
<1>3. \A j \in MsgReq : SameHead(j)
  BY PktBodyHeads
<1>4. Expected' = Expected /\ Unexpected' = Unexpected
  BY <1>1 DEF Expected, Unexpected
<1>5. Expected \subseteq MsgReq /\ Unexpected \subseteq MsgReq
  BY RolesInRange
<1>6. KeepQueue
  BY <1>3, <1>4, <1>5, QueueKept
<1>7. NonePosted'
  BY <1>1, <1>3, <1>4, <1>5, PostedNone DEF LostInv, NonePosted
<1>8. KeepRecvs
  BY <1>1 DEF KeepRecvs, KeepsMsg
<1>9. KeepRing
  BY <1>2, RingDrops
<1>10. ~ fault' /\ sent' = sent
  BY <1>1 DEF LostInv
<1> QED BY <1>6, <1>7, <1>8, <1>9, <1>10, LostStep

LEMMA LostInit == ASSUME Init PROVE LostInv
<1>1. ~ fault /\ explst = <<>> /\ \A s \in Srcs : sent[s] = <<>>
  BY DEF Init
<1>2. DOMAIN <<>> = {}
  OBVIOUS
<1>3. \A s \in Srcs : DOMAIN sent[s] = {}
  BY ONLY <1>1, <1>2
<1>4. Expected = {}
  BY <1>1 DEF Expected, Held
<1> QED BY <1>1, <1>3, <1>4 DEF LostInv

LEMMA LostNext ==
  ASSUME PoolInv, DataInv, RndzInv, LostInv, [Next]_vars, [~ PacketDropped]_vars, [~ RunsOut]_vars
  PROVE  LostInv'
<1>0. CASE UNCHANGED vars
  <2>1. UNCHANGED <<poolVars, lstVars, urp, ring, rgetVars, srcVars, userVars, fault>>
    BY <1>0 DEF vars
  <2>2. UNCHANGED <<req, explst, uexplst, ring, sent, recvs, fault>>
    BY <2>1 DEF poolVars, lstVars, srcVars, userVars
  <2>3. Quiet
    BY <2>2, SameHeads DEF Quiet, SameCall
  <2> QED BY <2>2, <2>3, LostSame DEF LostInv
<1>1. CASE ~ UNCHANGED vars
  <2>1. Next /\ ~ PacketDropped /\ ~ RunsOut
    BY <1>1
  <2>2. ASSUME NEW s \in Srcs, NEW tag \in Tags, NEW kind \in Kinds, Post(s, tag, kind)
        PROVE  LostInv'
    <3>1. ~ (kind.rndz /\ rndzfree[s] = <<>>)
      BY <2>1, <2>2 DEF RunsOut
    <3> QED BY <2>2, <3>1, PostLost
  <2>3. ASSUME NEW s \in Srcs, NEW pos \in rgetdone[s], RndzDone(s, pos)
        PROVE  LostInv'
    BY <2>3, RndzDoneLost
  <2>4. ASSUME NEW s \in Srcs, Progress(s)
        PROVE  LostInv'
    <3>1. PktUnexpected(s) => ~ RecvReqRefused /\ ~ PoolEmpty
      BY <2>1 DEF PacketDropped, RunsOut
    <3> QED BY <2>4, <3>1, PktExpectedLost, PktUnexpectedLost, PktBodyLost, MrqLclGetQuiet,
               LostSame DEF Progress
  <2>5. ASSUME NEW s \in Srcs, NetGet(s)
        PROVE  LostInv'
    BY <2>5, NetGetQuiet, LostSame
  <2>6. ASSUME NEW a \in RecvArgs, Recv(a[1], a[2], a[3])
        PROVE  LostInv'
    <3>1. a[1] \in Srcs \cup {ANY} /\ a[2] \in Tags \cup {ANY} /\ a[3] \in Nat
      BY RecvAssumption
    <3>2. RecvPosted(a[1], a[2], a[3]) => ~ PoolEmpty
      BY <2>1 DEF RunsOut
    <3> QED BY <2>6, <3>1, <3>2, RecvUnexpectedLost, RecvPostedLost DEF Recv
  <2>7. ASSUME NEW r \in DOMAIN recvs, WaitRecv(r) \/ WaitCmplRecv(r)
        PROVE  LostInv'
    BY <2>7, WaitRecvQuiet, LostSame
  <2>8. ASSUME NEW type \in SendTypes, Send(type)
        PROVE  LostInv'
    <3>1. ~ PoolEmpty
      BY <2>1, <2>8 DEF RunsOut
    <3> QED BY <2>8, <3>1, SendQuiet, LostSame
  <2>9. ASSUME NEW k \in DOMAIN sends, WaitSend(k)
        PROVE  LostInv'
    BY <2>9, WaitSendQuiet, LostSame
  <2>10. ASSUME NEW i \in engine, EngineDone(i)
         PROVE  LostInv'
    BY <2>10, EngineDoneQuiet, LostSame
  <2> QED BY <2>1, <2>2, <2>3, <2>4, <2>5, <2>6, <2>7, <2>8, <2>9, <2>10 DEF Next
<1> QED BY <1>0, <1>1

LEMMA LostNothing == ASSUME LostInv PROVE NothingLost
<1>1. ASSUME NEW s \in Srcs, NEW n \in DOMAIN sent[s]
      PROVE  \/ \E x \in DOMAIN ring[s] : ring[s][x].msg = n
             \/ WithRecv(s, n)
             \/ \E j \in DOMAIN uexplst :
                  req[uexplst[j].reqidx].src = s /\ req[uexplst[j].reqidx].msg = n
  <2>1. InRing(s, n) \/ WithRecv(s, n) \/ IsQueued(s, n)
    BY DEF LostInv, Somewhere
  <2>2. CASE IsQueued(s, n)
    BY <2>2 DEF IsQueued, Unexpected, Held
  <2> QED BY <2>1, <2>2 DEF InRing
<1> QED BY <1>1 DEF NothingLost, LostInv, WithRecv

(* A message is lost only with a packet for which the engine has no        *)
(* request, and the rank aborts only because an allocation finds nothing:  *)
(* never because a notice's position or request is not on its list,        *)
(* however notices, packets and calls follow each other (utf_recvengine,   *)
(* utf_recv, utf_rndz_done, find_rget_msgreq).  Every other message stays  *)
(* in its ring until the first packet of it is taken, and is then queued   *)
(* or with a receive for ever.                                             *)
THEOREM MessagesKept ==
  Spec /\ [][~ PacketDropped]_vars /\ [][~ RunsOut]_vars => []NothingLost
<1>1. Init => PoolInv /\ DataInv /\ RndzInv /\ LostInv
  BY PoolInit, DataInit, RndzInit, LostInit
<1>2. /\ PoolInv /\ DataInv /\ RndzInv /\ LostInv
      /\ [Next]_vars /\ [~ PacketDropped]_vars /\ [~ RunsOut]_vars
      => (PoolInv /\ DataInv /\ RndzInv /\ LostInv)'
  BY PoolNext, DataNext, RndzNext, LostNext
<1>3. LostInv => NothingLost
  BY LostNothing
<1> QED BY <1>1, <1>2, <1>3, PTL DEF Spec

=============================================================================
