-------------------------- MODULE UtfRecvOrderProofs --------------------------
(***************************************************************************)
(* Receives get their messages in the order they were sent: OrderInv, the  *)
(* order of the posted receives, of the queued messages and of the taken   *)
(* ones, is inductive together with the invariants of UtfRecvProofs, as    *)
(* long as the engine drops no packet for want of a request.               *)
(***************************************************************************)
EXTENDS UtfRecvProofs

-----------------------------------------------------------------------------
(* the receives that are alike are as many as the messages that fit        *)
LEMMA SameNumber ==
  ASSUME NEW A \in SUBSET Nat, NEW B \in SUBSET Nat, IsFiniteSet(A), NEW f \in [A -> B],
         \A x, y \in A : f[x] = f[y] => x = y, \A m \in B : \E x \in A : f[x] = m
  PROVE  Cardinality(B) = Cardinality(A)
<1>1. f \in Bijection(A, B)
  BY DEF Bijection, Injection, Surjection, IsInjective
<1>2. ExistsBijection(A, B)
  BY <1>1 DEF ExistsBijection
<1> QED BY <1>2, FS_Bijection

(* the receives like r up to r, and the messages that fit them up to r's   *)
Alike(r) == {x \in 1 .. r : recvs[x].src = recvs[r].src /\ recvs[x].tag = recvs[r].tag}
Fitting(r) ==
  {m \in 1 .. recvs[r].msg[2] : sent[recvs[r].src][m].tag = recvs[r].tag}
    \ {m \in 1 .. recvs[r].msg[2] :
         \E x \in DOMAIN recvs : ~ Exact(recvs[x]) /\ recvs[x].msg = <<recvs[r].src, m>>}

LEMMA OrderCounts ==
  ASSUME PoolInv, OrderInv, NEW r \in DOMAIN recvs, Exact(recvs[r]), recvs[r].msg # <<>>
  PROVE  /\ recvs[r].msg[1] = recvs[r].src
         /\ sent[recvs[r].src][recvs[r].msg[2]].tag = recvs[r].tag
         /\ Cardinality(Fitting(r)) = Cardinality(Alike(r))
<1>a. PICK s, t, n : s = recvs[r].src /\ t = recvs[r].tag /\ n = recvs[r].msg[2]
  OBVIOUS
<1>b. PICK like : like = Alike(r)
  OBVIOUS
<1>c. PICK mine : mine = Fitting(r)
  OBVIOUS
<1>h. Has(r)
  BY DEF Has
<1>t. recvs \in Seq(CallRecord) /\ sent \in [Srcs -> Seq([tag : Tags, kind : Kinds])]
  BY DEF PoolInv, TypeLists, TypeRndz
<1>0. DOMAIN recvs = 1 .. Len(recvs) /\ Len(recvs) \in Nat
  BY <1>t
<1>1. s \in Srcs /\ n \in DOMAIN sent[s] /\ recvs[r].msg = <<s, n>> /\ sent[s][n].tag = t
  BY <1>a, <1>h DEF OrderInv, Matched
<1>2. DOMAIN sent[s] = 1 .. Len(sent[s]) /\ Len(sent[s]) \in Nat
  BY <1>t, <1>1
<1>3. InLine(r) /\ NoneSkipped(r)
  BY <1>h DEF OrderInv, InTurn
<1>4. ASSUME NEW x \in like
      PROVE  x \in DOMAIN recvs /\ recvs[x].msg[2] \in mine /\ recvs[x].msg = <<s, recvs[x].msg[2]>>
  <2>1. /\ x \in 1 .. r /\ x \in DOMAIN recvs /\ recvs[x].src = s /\ recvs[x].tag = t
        /\ Exact(recvs[x])
    BY <1>0, <1>a, <1>b DEF Alike, Exact
  <2>2. Has(x) /\ (x = r \/ recvs[x].msg[2] < n)
    BY <1>0, <1>a, <1>h, <1>3, <2>1 DEF InLine, Like
  <2>3. PICK m : m = recvs[x].msg[2]
    OBVIOUS
  <2>4. m \in DOMAIN sent[s] /\ recvs[x].msg = <<s, m>> /\ sent[s][m].tag = t
    BY <2>1, <2>2, <2>3 DEF OrderInv, Matched
  <2>5. m \in 1 .. n
    <3>1. m = n \/ m < n
      BY <1>a, <2>2, <2>3
    <3> QED BY <1>1, <1>2, <2>4, <3>1
  <2>6. ASSUME NEW y \in DOMAIN recvs, ~ Exact(recvs[y]), recvs[y].msg = <<s, m>> PROVE FALSE
    <3>1. y = x
      BY <2>1, <2>2, <2>4, <2>6 DEF OrderInv, Once
    <3> QED BY <2>1, <2>6, <3>1
  <2>7. m \in mine
    BY <1>a, <1>c, <2>4, <2>5, <2>6 DEF Fitting
  <2> QED BY <2>1, <2>3, <2>4, <2>7
<1>5. ASSUME NEW m \in mine PROVE \E x \in like : recvs[x].msg[2] = m
  <2>1. /\ m \in 1 .. n /\ sent[s][m].tag = t
        /\ \A y \in DOMAIN recvs : recvs[y].msg = <<s, m>> => Exact(recvs[y])
    BY <1>a, <1>c DEF Fitting
  <2>2. CASE m = n
    <3>1. r \in like
      BY <1>0, <1>b DEF Alike
    <3> QED BY <1>a, <2>2, <3>1
  <2>3. CASE m # n
    <3>1. m < n /\ m \in DOMAIN sent[s]
      BY <1>1, <1>2, <2>1, <2>3
    <3>2. PICK y \in DOMAIN recvs : recvs[y].msg = <<s, m>>
      BY <1>a, <1>3, <2>1, <3>1 DEF NoneSkipped, WithRecv
    <3>3. Exact(recvs[y]) /\ Has(y) /\ recvs[y].msg[1] = s /\ recvs[y].msg[2] = m
      BY <2>1, <3>2 DEF Has
    <3>4. recvs[y].src = s /\ recvs[y].tag = t
      BY <2>1, <3>2, <3>3 DEF OrderInv, Matched
    <3>5. y \in 1 .. r
      <4>1. ASSUME y > r PROVE FALSE
        <5>1. InLine(y) /\ r \in 1 .. y - 1 /\ Like(r, y)
          BY <1>0, <1>a, <3>3, <3>4, <4>1 DEF OrderInv, InTurn, Like
        <5>2. n < m
          BY <1>a, <3>3, <5>1 DEF InLine
        <5> QED BY <1>1, <1>2, <3>1, <5>2
      <4> QED BY <1>0, <4>1
    <3>6. y \in like
      BY <1>a, <1>b, <3>4, <3>5 DEF Alike
    <3> QED BY <3>3, <3>6
  <2> QED BY <2>2, <2>3
<1>6. PICK f : f = [x \in like |-> recvs[x].msg[2]]
  OBVIOUS
<1>7. /\ f \in [like -> mine] /\ \A x, y \in like : f[x] = f[y] => x = y
      /\ \A m \in mine : \E x \in like : f[x] = m
  <2>1. f \in [like -> mine]
    BY <1>4, <1>6
  <2>2. ASSUME NEW x \in like, NEW y \in like, f[x] = f[y] PROVE x = y
    <3>1. recvs[x].msg[2] = recvs[y].msg[2]
      BY <1>6, <2>2
    <3>2. PICK m : m = recvs[y].msg[2]
      OBVIOUS
    <3>3. /\ x \in DOMAIN recvs /\ y \in DOMAIN recvs
          /\ recvs[x].msg = <<s, m>> /\ recvs[y].msg = <<s, m>>
      BY <1>4, <3>1, <3>2
    <3>4. Has(x) /\ Has(y) /\ recvs[x].msg = recvs[y].msg
      BY <3>3 DEF Has
    <3> QED BY <3>3, <3>4 DEF OrderInv, Once
  <2>3. \A m \in mine : \E x \in like : f[x] = m
    BY <1>5, <1>6
  <2> QED BY <2>1, <2>2, <2>3
<1>8. like \in SUBSET Nat /\ mine \in SUBSET Nat /\ IsFiniteSet(like)
  <2>1. IsFiniteSet(1 .. r) /\ like \subseteq 1 .. r
    BY <1>0, <1>b, FS_Interval DEF Alike
  <2>2. IsFiniteSet(like)
    BY <2>1, FS_Subset
  <2>3. mine \in SUBSET Nat /\ like \in SUBSET Nat
    <3>1. mine \subseteq 1 .. n /\ 1 .. n \subseteq Nat
      BY <1>a, <1>c DEF Fitting
    <3> QED BY <1>0, <2>1, <3>1
  <2> QED BY <2>2, <2>3
<1>9. Cardinality(mine) = Cardinality(like)
  BY ONLY <1>7, <1>8, SameNumber
<1> QED BY <1>a, <1>b, <1>c, <1>1, <1>9

LEMMA OrderInOrder == ASSUME PoolInv, OrderInv PROVE InOrder
BY OrderCounts DEF InOrder, Alike, Fitting


(* nothing is unsent                                                       *)
SentStays ==
  \A s \in Srcs : \A n \in DOMAIN sent[s] : n \in DOMAIN sent'[s] /\ sent'[s][n] = sent[s][n]

LEMMA OlderSent ==
  ASSUME PoolInv, PoolInv', NEW s \in Srcs, NEW n \in DOMAIN sent[s], NEW m \in DOMAIN sent'[s],
         m < n
  PROVE  m \in DOMAIN sent[s]
<1>1. /\ sent \in [Srcs -> Seq([tag : Tags, kind : Kinds])]
      /\ sent' \in [Srcs -> Seq([tag : Tags, kind : Kinds])]
  BY DEF PoolInv, TypeRndz
<1>2. PICK a, b : a = sent[s] /\ b = sent'[s]
  OBVIOUS
<1>3. /\ DOMAIN a = 1 .. Len(a) /\ Len(a) \in Nat
      /\ DOMAIN b = 1 .. Len(b) /\ Len(b) \in Nat
  BY <1>1, <1>2
<1> QED BY <1>2, <1>3

(* no receive gets a message                                               *)
LEMMA CallsSame ==
  ASSUME PoolInv, PoolInv', SentStays, Once, Matched, InTurn,
         \A x \in DOMAIN recvs : x \in DOMAIN recvs' /\ SameCall(x),
         \A x \in DOMAIN recvs' : Has(x)' => x \in DOMAIN recvs
  PROVE  Once' /\ Matched' /\ InTurn'
<1>0. /\ DOMAIN recvs = 1 .. Len(recvs) /\ Len(recvs) \in Nat
      /\ DOMAIN recvs' = 1 .. Len(recvs') /\ Len(recvs') \in Nat
  BY CallsDomain
<1>1. \A x \in DOMAIN recvs' : Has(x)' => x \in DOMAIN recvs /\ SameCall(x) /\ Has(x)
  BY DEF Has, SameCall
<1>2. \A s, n : WithRecv(s, n) => WithRecv(s, n)'
  BY DEF WithRecv, SameCall
<1>3. Once'
  <2>1. ASSUME NEW x \in DOMAIN recvs', NEW r \in DOMAIN recvs', Has(r)',
               recvs'[r].msg = recvs'[x].msg
        PROVE  x = r
    <3>1. Has(x)'
      BY <2>1 DEF Has
    <3>2. Has(x) /\ Has(r) /\ recvs[r].msg = recvs[x].msg /\ x \in DOMAIN recvs /\ r \in DOMAIN recvs
      BY <1>1, <2>1, <3>1 DEF SameCall
    <3> QED BY <3>2 DEF Once
  <2> QED BY <2>1 DEF Once
<1>4. Matched'
  <2>1. ASSUME NEW r \in DOMAIN recvs', Has(r)'
        PROVE  \E s \in Srcs : \E n \in DOMAIN sent'[s] :
                 /\ recvs'[r].msg = <<s, n>>
                 /\ Exact(recvs'[r]) => recvs'[r].src = s /\ recvs'[r].tag = sent'[s][n].tag
    <3>1. r \in DOMAIN recvs /\ SameCall(r) /\ Has(r)
      BY <1>1, <2>1
    <3>2. PICK s \in Srcs : \E n \in DOMAIN sent[s] :
            /\ recvs[r].msg = <<s, n>>
            /\ Exact(recvs[r]) => recvs[r].src = s /\ recvs[r].tag = sent[s][n].tag
      BY <3>1 DEF Matched
    <3>3. PICK n \in DOMAIN sent[s] :
            /\ recvs[r].msg = <<s, n>>
            /\ Exact(recvs[r]) => recvs[r].src = s /\ recvs[r].tag = sent[s][n].tag
      BY <3>2
    <3>4. n \in DOMAIN sent'[s] /\ sent'[s][n] = sent[s][n]
      BY DEF SentStays
    <3> QED BY <3>1, <3>3, <3>4 DEF SameCall, Exact
  <2> QED BY <2>1 DEF Matched
<1>5. ASSUME NEW r \in DOMAIN recvs', Exact(recvs'[r]), Has(r)'
      PROVE  InLine(r)' /\ NoneSkipped(r)'
  <2>1. r \in DOMAIN recvs /\ SameCall(r) /\ Has(r) /\ Exact(recvs[r])
    BY <1>1, <1>5 DEF SameCall, Exact
  <2>2. InLine(r) /\ NoneSkipped(r)
    BY <2>1 DEF InTurn
  <2>3. InLine(r)'
    <3>1. ASSUME NEW x \in 1 .. r - 1, Like(x, r)'
          PROVE  Has(x)' /\ recvs'[x].msg[2] < recvs'[r].msg[2]
      <4>1. x \in DOMAIN recvs /\ SameCall(x)
        BY <1>0, <2>1
      <4>2. Like(x, r)
        BY <2>1, <3>1, <4>1 DEF Like, SameCall
      <4> QED BY <2>1, <2>2, <4>1, <4>2 DEF InLine, SameCall, Has
    <3> QED BY <3>1 DEF InLine
  <2>4. NoneSkipped(r)'
    <3>1. PICK s, n : s = recvs[r].src /\ n = recvs[r].msg[2]
      OBVIOUS
    <3>2. s \in Srcs /\ n \in DOMAIN sent[s]
      BY <2>1, <3>1 DEF Matched
    <3>3. ASSUME NEW m \in DOMAIN sent'[s], m < n, sent'[s][m].tag = recvs[r].tag
          PROVE  WithRecv(s, m)'
      <4>1. m \in DOMAIN sent[s]
        BY <3>2, <3>3, OlderSent
      <4>2. WithRecv(s, m)
        BY <2>2, <3>1, <3>2, <3>3, <4>1 DEF NoneSkipped, SentStays
      <4> QED BY <1>2, <4>2
    <3> QED BY <2>1, <3>1, <3>3 DEF NoneSkipped, SameCall
  <2> QED BY <2>3, <2>4
<1> QED BY <1>3, <1>4, <1>5 DEF InTurn

(* receive r gets message n of source s                                    *)
LEMMA CallGiven ==
  ASSUME PoolInv, PoolInv', sent' = sent, Once, Matched, InTurn,
         NEW r \in DOMAIN recvs', NEW s \in Srcs, NEW n \in DOMAIN sent[s],
         recvs'[r].msg = <<s, n>>, ~ WithRecv(s, n), r \in DOMAIN recvs => ~ Has(r),
         \A x \in DOMAIN recvs : x \in DOMAIN recvs' /\ (x # r => SameCall(x)),
         \A x \in DOMAIN recvs' : x # r => x \in DOMAIN recvs,
         Exact(recvs'[r]) =>
           /\ recvs'[r].src = s /\ recvs'[r].tag = sent[s][n].tag
           /\ \A m \in DOMAIN sent[s] :
                m < n /\ sent[s][m].tag = sent[s][n].tag => WithRecv(s, m)
           /\ \A x \in DOMAIN recvs :
                x # r /\ recvs[x].src = s /\ recvs[x].tag = sent[s][n].tag => (Has(x) <=> x < r)
  PROVE  Once' /\ Matched' /\ InTurn'
<1>0. /\ DOMAIN recvs = 1 .. Len(recvs) /\ Len(recvs) \in Nat
      /\ DOMAIN recvs' = 1 .. Len(recvs') /\ Len(recvs') \in Nat
  BY CallsDomain
<1>1. \A x \in DOMAIN recvs' : x # r =>
        x \in DOMAIN recvs /\ SameCall(x) /\ (Has(x)' <=> Has(x))
  BY DEF Has, SameCall
<1>2. ASSUME NEW t, NEW m, WithRecv(t, m) PROVE WithRecv(t, m)'
  <2>1. PICK x \in DOMAIN recvs : recvs[x].msg = <<t, m>>
    BY <1>2 DEF WithRecv
  <2>2. Has(x)
    BY <2>1 DEF Has
  <2>3. x # r
    BY <2>2
  <2> QED BY <2>1, <2>3 DEF WithRecv, SameCall
<1>3. \A x \in DOMAIN recvs' : x # r => recvs'[x].msg # <<s, n>>
  BY <1>1 DEF WithRecv, SameCall
<1>4. Once'
  <2>1. ASSUME NEW x \in DOMAIN recvs', NEW y \in DOMAIN recvs', Has(y)',
               recvs'[y].msg = recvs'[x].msg, x # y
        PROVE  FALSE
    <3>1. x # r /\ y # r
      BY <1>3, <2>1
    <3>2. x \in DOMAIN recvs /\ y \in DOMAIN recvs /\ Has(y) /\ recvs[y].msg = recvs[x].msg
      BY <1>1, <2>1, <3>1 DEF SameCall
    <3> QED BY <2>1, <3>2 DEF Once
  <2> QED BY <2>1 DEF Once
<1>5. Matched'
  <2>1. ASSUME NEW x \in DOMAIN recvs', Has(x)'
        PROVE  \E t \in Srcs : \E m \in DOMAIN sent[t] :
                 /\ recvs'[x].msg = <<t, m>>
                 /\ Exact(recvs'[x]) => recvs'[x].src = t /\ recvs'[x].tag = sent[t][m].tag
    <3>1. CASE x = r
      BY <3>1
    <3>2. CASE x # r
      <4>1. x \in DOMAIN recvs /\ SameCall(x) /\ Has(x)
        BY <1>1, <2>1, <3>2
      <4>2. \E t \in Srcs : \E m \in DOMAIN sent[t] :
              /\ recvs[x].msg = <<t, m>>
              /\ Exact(recvs[x]) => recvs[x].src = t /\ recvs[x].tag = sent[t][m].tag
        BY <4>1 DEF Matched
      <4> QED BY <4>1, <4>2 DEF SameCall, Exact
    <3> QED BY <3>1, <3>2
  <2> QED BY <2>1 DEF Matched
<1>6. ASSUME NEW y \in DOMAIN recvs', Exact(recvs'[y]), Has(y)', y # r
      PROVE  InLine(y)' /\ NoneSkipped(y)'
  <2>1. y \in DOMAIN recvs /\ SameCall(y) /\ Has(y) /\ Exact(recvs[y])
    BY <1>1, <1>6 DEF SameCall, Exact
  <2>2. InLine(y) /\ NoneSkipped(y)
    BY <2>1 DEF InTurn
  <2>3. ASSUME NEW x \in 1 .. y - 1, Like(x, y)'
        PROVE  Has(x)' /\ recvs'[x].msg[2] < recvs'[y].msg[2]
    <3>1. x \in DOMAIN recvs'
      BY <1>0
    <3>2. CASE x = r
      <4>1. Exact(recvs'[r]) /\ y # r /\ recvs[y].src = s /\ recvs[y].tag = sent[s][n].tag
        BY <1>6, <2>1, <2>3, <3>2 DEF Like, Exact, SameCall
      <4>2. y < r
        BY <2>1, <4>1
      <4> QED BY <1>0, <3>2, <4>2
    <3>3. CASE x # r
      <4>1. x \in DOMAIN recvs /\ SameCall(x) /\ (Has(x)' <=> Has(x))
        BY <1>1, <3>1, <3>3
      <4>2. Like(x, y)
        BY <2>1, <2>3, <4>1 DEF Like, SameCall
      <4> QED BY <2>1, <2>2, <4>1, <4>2 DEF InLine, SameCall
    <3> QED BY <3>2, <3>3
  <2>4. NoneSkipped(y)'
    BY <1>2, <2>1, <2>2 DEF NoneSkipped, SameCall
  <2> QED BY <2>3, <2>4 DEF InLine
<1>7. ASSUME Exact(recvs'[r]) PROVE InLine(r)' /\ NoneSkipped(r)'
  <2>1. recvs'[r].src = s /\ recvs'[r].tag = sent[s][n].tag
    BY <1>7
  <2>2. ASSUME NEW x \in 1 .. r - 1, Like(x, r)'
        PROVE  Has(x)' /\ recvs'[x].msg[2] < n
    <3>1. x \in DOMAIN recvs' /\ x # r /\ x < r
      BY <1>0
    <3>2. x \in DOMAIN recvs /\ SameCall(x) /\ (Has(x)' <=> Has(x))
      BY <1>1, <3>1
    <3>3. recvs[x].src = s /\ recvs[x].tag = sent[s][n].tag
      BY <2>1, <2>2, <3>2 DEF Like, SameCall
    <3>4. Has(x) /\ Exact(recvs[x])
      BY <1>7, <2>1, <3>1, <3>2, <3>3 DEF Exact
    <3>5. PICK m : m = recvs[x].msg[2]
      OBVIOUS
    <3>6. m \in DOMAIN sent[s] /\ recvs[x].msg = <<s, m>>
      BY <3>2, <3>3, <3>4, <3>5 DEF Matched
    <3>7. m # n
      BY <3>2, <3>6 DEF WithRecv
    <3>8. ~ (n < m)
      <4>1. NoneSkipped(x)
        BY <3>2, <3>4 DEF InTurn
      <4> QED BY <3>3, <3>5, <4>1 DEF NoneSkipped
    <3>9. m < n
      <4>1. sent \in [Srcs -> Seq([tag : Tags, kind : Kinds])]
        BY DEF PoolInv, TypeRndz
      <4>2. DOMAIN sent[s] = 1 .. Len(sent[s]) /\ Len(sent[s]) \in Nat
        BY <4>1
      <4> QED BY <3>6, <3>7, <3>8, <4>2
    <3> QED BY <3>2, <3>4, <3>5, <3>9 DEF SameCall
  <2>3. NoneSkipped(r)'
    BY <1>2, <1>7, <2>1 DEF NoneSkipped
  <2>4. InLine(r)'
    BY <2>2 DEF InLine
  <2> QED BY <2>3, <2>4
<1> QED BY <1>4, <1>5, <1>6, <1>7 DEF InTurn


(* the place an entry had before the one at a place was taken out          *)
OldPlace(at, k) == IF k < at THEN k ELSE k + 1

LEMMA CutPlaces ==
  ASSUME NEW lst \in Seq(Lst), NEW at \in 1 .. Len(lst), NEW m, m = RemoveAt(lst, at)
  PROVE  /\ \A k \in DOMAIN m : /\ OldPlace(at, k) \in DOMAIN lst /\ OldPlace(at, k) # at
                                /\ m[k] = lst[OldPlace(at, k)]
         /\ \A k, l \in DOMAIN m : k < l => OldPlace(at, k) < OldPlace(at, l)
         /\ \A u \in DOMAIN lst : u # at => \E k \in DOMAIN m : m[k] = lst[u]
<1>1. /\ m \in Seq(Lst) /\ Len(m) = Len(lst) - 1
      /\ \A j \in 1 .. Len(lst) - 1 : m[j] = lst[OldPlace(at, j)]
  BY RemoveAtFacts DEF OldPlace
<1>2. DOMAIN m = 1 .. Len(lst) - 1 /\ DOMAIN lst = 1 .. Len(lst) /\ Len(lst) \in Nat
  BY <1>1
<1>3. ASSUME NEW u \in DOMAIN lst, u # at PROVE \E k \in DOMAIN m : m[k] = lst[u]
  <2>1. PICK k : k = IF u < at THEN u ELSE u - 1
    OBVIOUS
  <2>2. k \in 1 .. Len(lst) - 1 /\ OldPlace(at, k) = u
    BY <1>2, <1>3, <2>1 DEF OldPlace
  <2> QED BY <1>1, <1>2, <2>2
<1>4. ASSUME NEW k \in DOMAIN m
      PROVE  OldPlace(at, k) \in DOMAIN lst /\ OldPlace(at, k) # at
  BY <1>2 DEF OldPlace
<1>5. ASSUME NEW k \in DOMAIN m, NEW l \in DOMAIN m, k < l
      PROVE  OldPlace(at, k) < OldPlace(at, l)
  BY <1>2, <1>5 DEF OldPlace
<1> QED BY <1>1, <1>2, <1>3, <1>4, <1>5

LEMMA PutPlaces ==
  ASSUME NEW lst \in Seq(Lst), NEW e \in Lst, NEW m, m = Append(lst, e)
  PROVE  /\ DOMAIN lst = 1 .. Len(lst) /\ Len(lst) \in Nat /\ DOMAIN m = 1 .. Len(lst) + 1
         /\ m[Len(lst) + 1] = e /\ \A k \in DOMAIN lst : m[k] = lst[k]
<1>1. DOMAIN lst = 1 .. Len(lst) /\ Len(lst) \in Nat
  OBVIOUS
<1> QED BY <1>1, AppendProperties

(* the queued messages are in their order                                  *)
QueueTag(j) == uexplst[j].src = QSrc(j) /\ uexplst[j].tag = sent[QSrc(j)][QMsg(j)].tag

LEMMA QueuedThere ==
  ASSUME DataInv, NEW j \in DOMAIN uexplst
  PROVE  /\ uexplst[j].reqidx \in Unexpected /\ QSrc(j) \in Srcs /\ QMsg(j) \in DOMAIN sent[QSrc(j)]
<1>1. uexplst[j].reqidx \in Unexpected
  BY DEF Unexpected, Held
<1> QED BY <1>1 DEF DataInv, Queued, QueuedOf, Carries, QSrc, QMsg

LEMMA QueueSame ==
  ASSUME DataInv, QueueLine, SentStays, uexplst' = uexplst, \A i \in Unexpected : SameHead(i)
  PROVE  QueueLine'
<1>1. ASSUME NEW j \in DOMAIN uexplst
      PROVE  QSrc(j)' = QSrc(j) /\ QMsg(j)' = QMsg(j) /\ QueueTag(j)'
  <2>1. /\ uexplst[j].reqidx \in Unexpected /\ QSrc(j) \in Srcs
        /\ QMsg(j) \in DOMAIN sent[QSrc(j)]
    BY QueuedThere
  <2>2. QSrc(j)' = QSrc(j) /\ QMsg(j)' = QMsg(j)
    BY <2>1 DEF QSrc, QMsg, SameHead
  <2>3. QueueTag(j)
    BY DEF QueueLine, QueueTag
  <2> QED BY <2>1, <2>2, <2>3 DEF QueueTag, SentStays
<1> QED BY <1>1 DEF QueueLine, QueueTag

LEMMA QueueCut ==
  ASSUME PoolInv, DataInv, QueueLine, sent' = sent, NEW at \in 1 .. Len(uexplst),
         uexplst' = RemoveAt(uexplst, at),
         \A i \in Unexpected : i # uexplst[at].reqidx => SameHead(i)
  PROVE  QueueLine'
<1>0. uexplst \in Seq(Lst) /\ DistinctList(uexplst)
  BY DEF PoolInv, TypeLists, Distinct
<1>1. /\ \A k \in DOMAIN uexplst' :
           /\ OldPlace(at, k) \in DOMAIN uexplst /\ OldPlace(at, k) # at
           /\ uexplst'[k] = uexplst[OldPlace(at, k)]
      /\ \A k, l \in DOMAIN uexplst' : k < l => OldPlace(at, k) < OldPlace(at, l)
  BY <1>0, CutPlaces
<1>2. ASSUME NEW k \in DOMAIN uexplst', NEW j, j = OldPlace(at, k)
      PROVE  QSrc(k)' = QSrc(j) /\ QMsg(k)' = QMsg(j) /\ QueueTag(k)'
  <2>1. j \in DOMAIN uexplst /\ uexplst'[k] = uexplst[j] /\ j # at /\ at \in DOMAIN uexplst
    BY <1>0, <1>1, <1>2
  <2>2. uexplst[j].reqidx \in Unexpected /\ uexplst[j].reqidx # uexplst[at].reqidx
    BY <1>0, <2>1 DEF Unexpected, Held, DistinctList
  <2>3. QSrc(k)' = QSrc(j) /\ QMsg(k)' = QMsg(j)
    BY <2>1, <2>2 DEF QSrc, QMsg, SameHead
  <2>4. QueueTag(j)
    BY <2>1 DEF QueueLine, QueueTag
  <2> QED BY <2>1, <2>3, <2>4 DEF QueueTag
<1>3. ASSUME NEW k \in DOMAIN uexplst', NEW l \in DOMAIN uexplst', k < l, QSrc(k)' = QSrc(l)'
      PROVE  QMsg(k)' < QMsg(l)'
  <2>1. PICK a, b : a = OldPlace(at, k) /\ b = OldPlace(at, l)
    OBVIOUS
  <2>2. a \in DOMAIN uexplst /\ b \in DOMAIN uexplst /\ a < b
    BY <1>1, <1>3, <2>1
  <2>3. /\ QSrc(k)' = QSrc(a) /\ QMsg(k)' = QMsg(a)
        /\ QSrc(l)' = QSrc(b) /\ QMsg(l)' = QMsg(b)
    BY <1>2, <2>1
  <2> QED BY <1>3, <2>2, <2>3 DEF QueueLine
<1> QED BY <1>2, <1>3 DEF QueueLine, QueueTag

LEMMA QueuePut ==
  ASSUME PoolInv, DataInv, QueueLine, sent' = sent, NEW e \in Lst, uexplst' = Append(uexplst, e),
         NEW i, i = e.reqidx, e.src = req'[i].src,
         e.tag = sent[req'[i].src][req'[i].msg].tag,
         \A j \in Unexpected : SameHead(j),
         \A j \in Unexpected : req[j].src = req'[i].src => req[j].msg < req'[i].msg
  PROVE  QueueLine'
<1>0. uexplst \in Seq(Lst)
  BY DEF PoolInv, TypeLists
<1>1. PICK last : last = Len(uexplst) + 1
  OBVIOUS
<1>2. /\ DOMAIN uexplst = 1 .. Len(uexplst) /\ Len(uexplst) \in Nat
      /\ DOMAIN uexplst' = 1 .. Len(uexplst) + 1
      /\ uexplst'[last] = e /\ \A k \in DOMAIN uexplst : uexplst'[k] = uexplst[k]
  BY <1>0, <1>1, PutPlaces
<1>3. \A k \in DOMAIN uexplst' : k \in DOMAIN uexplst \/ k = last
  BY <1>1, <1>2
<1>4. ASSUME NEW j \in DOMAIN uexplst
      PROVE  /\ QSrc(j)' = QSrc(j) /\ QMsg(j)' = QMsg(j) /\ QueueTag(j)'
             /\ QSrc(j) = req'[i].src => QMsg(j) < req'[i].msg
  <2>1. uexplst[j].reqidx \in Unexpected /\ uexplst'[j] = uexplst[j]
    BY <1>2, QueuedThere
  <2>2. QSrc(j)' = QSrc(j) /\ QMsg(j)' = QMsg(j)
    BY <2>1 DEF QSrc, QMsg, SameHead
  <2>3. QueueTag(j)
    BY DEF QueueLine, QueueTag
  <2> QED BY <2>1, <2>2, <2>3 DEF QueueTag, QSrc, QMsg
<1>5. QSrc(last)' = req'[i].src /\ QMsg(last)' = req'[i].msg /\ QueueTag(last)'
  BY <1>2 DEF QSrc, QMsg, QueueTag
<1>6. ASSUME NEW k \in DOMAIN uexplst', NEW l \in DOMAIN uexplst', k < l, QSrc(k)' = QSrc(l)'
      PROVE  QMsg(k)' < QMsg(l)'
  <2>1. k \in DOMAIN uexplst
    BY <1>1, <1>2, <1>6
  <2>2. CASE l \in DOMAIN uexplst
    BY <1>4, <1>6, <2>1, <2>2 DEF QueueLine
  <2>3. CASE l = last
    BY <1>4, <1>5, <1>6, <2>1, <2>3
  <2> QED BY <1>3, <2>2, <2>3
<1> QED BY <1>3, <1>4, <1>5, <1>6 DEF QueueLine, QueueTag


(* the posted receives are in their order                                  *)
PostTag(j) ==
  explst[j].src = recvs[PCall(j)].src /\ explst[j].tag = recvs[PCall(j)].tag

LEMMA PostedThere ==
  ASSUME PoolInv, DataInv, NEW j \in DOMAIN explst
  PROVE  explst[j].reqidx \in Expected /\ PCall(j) \in DOMAIN recvs /\ PCall(j) \in Nat
<1>1. explst[j].reqidx \in Expected
  BY DEF Expected, Held
<1>2. PCall(j) \in DOMAIN recvs
  BY <1>1 DEF DataInv, Posted, PostedOf, Serves, PCall
<1> QED BY <1>1, <1>2, CallsDomain

LEMMA PostSame ==
  ASSUME PoolInv, DataInv, PostLine, explst' = explst, \A i \in Expected : SameHead(i),
         \A x \in DOMAIN recvs : x \in DOMAIN recvs' /\ SameCall(x),
         \A x \in DOMAIN recvs' : ~ Has(x)' => x \in DOMAIN recvs
  PROVE  PostLine'
<1>1. ASSUME NEW j \in DOMAIN explst
      PROVE  PCall(j)' = PCall(j) /\ PostTag(j)'
  <2>1. explst[j].reqidx \in Expected /\ PCall(j) \in DOMAIN recvs
    BY PostedThere
  <2>2. PCall(j)' = PCall(j)
    BY <2>1 DEF PCall, SameHead
  <2>3. PostTag(j)
    BY DEF PostLine, PostTag
  <2> QED BY <2>1, <2>2, <2>3 DEF PostTag, SameCall
<1>2. ASSUME NEW r \in DOMAIN recvs', ~ Has(r)' PROVE \E j \in DOMAIN explst : PCall(j)' = r
  <2>1. r \in DOMAIN recvs /\ ~ Has(r)
    BY <1>2 DEF Has, SameCall
  <2> QED BY <1>1, <2>1 DEF PostLine
<1> QED BY <1>1, <1>2 DEF PostLine, PostTag

LEMMA PostCut ==
  ASSUME PoolInv, DataInv, PostLine, NEW at \in 1 .. Len(explst), explst' = RemoveAt(explst, at),
         \A i \in Expected : i # explst[at].reqidx => SameHead(i),
         NEW u, u = PCall(at), DOMAIN recvs' = DOMAIN recvs, Has(u)',
         \A x \in DOMAIN recvs : x # u => SameCall(x)
  PROVE  PostLine'
<1>0. explst \in Seq(Lst) /\ DistinctList(explst)
  BY DEF PoolInv, TypeLists, Distinct
<1>1. /\ \A k \in DOMAIN explst' :
           /\ OldPlace(at, k) \in DOMAIN explst /\ OldPlace(at, k) # at
           /\ explst'[k] = explst[OldPlace(at, k)]
      /\ \A k, l \in DOMAIN explst' : k < l => OldPlace(at, k) < OldPlace(at, l)
      /\ \A j \in DOMAIN explst : j # at => \E k \in DOMAIN explst' : explst'[k] = explst[j]
  BY <1>0, CutPlaces
<1>2. at \in DOMAIN explst /\ DOMAIN explst \subseteq Int
  BY <1>0
<1>3. ASSUME NEW j \in DOMAIN explst, j # at
      PROVE  explst[j].reqidx \in Expected /\ SameHead(explst[j].reqidx)
             /\ PCall(j) # u /\ PCall(j) \in DOMAIN recvs
  <2>1. explst[j].reqidx \in Expected /\ PCall(j) \in DOMAIN recvs /\ PCall(j) \in Nat
    BY PostedThere
  <2>2. u \in Nat
    BY <1>2, PostedThere
  <2>3. explst[j].reqidx # explst[at].reqidx
    BY <1>0, <1>2, <1>3 DEF DistinctList
  <2>4. j < at \/ at < j
    BY <1>2, <1>3
  <2>5. PCall(j) # u
    BY <1>2, <2>1, <2>2, <2>4 DEF PostLine
  <2> QED BY <2>1, <2>3, <2>5
<1>4. ASSUME NEW k \in DOMAIN explst', NEW j, j = OldPlace(at, k)
      PROVE  PCall(k)' = PCall(j) /\ PostTag(k)'
  <2>1. j \in DOMAIN explst /\ explst'[k] = explst[j] /\ j # at
    BY <1>1, <1>4
  <2>2. SameHead(explst[j].reqidx) /\ PCall(j) # u /\ PCall(j) \in DOMAIN recvs
    BY <1>3, <2>1
  <2>3. PCall(k)' = PCall(j)
    BY <2>1, <2>2 DEF PCall, SameHead
  <2>4. PostTag(j)
    BY <2>1 DEF PostLine, PostTag
  <2> QED BY <2>1, <2>2, <2>3, <2>4 DEF PostTag, SameCall
<1>5. ASSUME NEW k \in DOMAIN explst', NEW l \in DOMAIN explst', k < l
      PROVE  PCall(k)' < PCall(l)'
  <2>1. PICK a, b : a = OldPlace(at, k) /\ b = OldPlace(at, l)
    OBVIOUS
  <2>2. a \in DOMAIN explst /\ b \in DOMAIN explst /\ a < b
    BY <1>1, <1>5, <2>1
  <2>3. PCall(k)' = PCall(a) /\ PCall(l)' = PCall(b)
    BY <1>4, <2>1
  <2> QED BY <2>2, <2>3 DEF PostLine
<1>6. ASSUME NEW r \in DOMAIN recvs', ~ Has(r)' PROVE \E k \in DOMAIN explst' : PCall(k)' = r
  <2>1. r \in DOMAIN recvs /\ r # u /\ ~ Has(r)
    BY <1>6 DEF Has, SameCall
  <2>2. PICK j \in DOMAIN explst : PCall(j) = r
    BY <2>1 DEF PostLine
  <2>3. j # at
    BY <2>1, <2>2
  <2>4. PICK k \in DOMAIN explst' : explst'[k] = explst[j]
    BY <1>1, <2>3
  <2>5. PCall(k)' = r
    BY <1>3, <2>2, <2>3, <2>4 DEF PCall, SameHead
  <2> QED BY <2>5
<1> QED BY <1>4, <1>5, <1>6 DEF PostLine, PostTag

LEMMA PostPut ==
  ASSUME PoolInv, DataInv, PostLine, NEW e \in Lst, explst' = Append(explst, e),
         NEW i, i = e.reqidx, NEW r, r = Len(recvs) + 1, req'[i].usr = r,
         DOMAIN recvs' = 1 .. r, e.src = recvs'[r].src, e.tag = recvs'[r].tag,
         \A x \in DOMAIN recvs : SameCall(x), \A j \in Expected : SameHead(j)
  PROVE  PostLine'
<1>0. explst \in Seq(Lst)
  BY DEF PoolInv, TypeLists
<1>1. PICK last : last = Len(explst) + 1
  OBVIOUS
<1>2. /\ DOMAIN explst = 1 .. Len(explst) /\ Len(explst) \in Nat
      /\ DOMAIN explst' = 1 .. Len(explst) + 1
      /\ explst'[last] = e /\ \A k \in DOMAIN explst : explst'[k] = explst[k]
  BY <1>0, <1>1, PutPlaces
<1>3. \A k \in DOMAIN explst' : k \in DOMAIN explst \/ k = last
  BY <1>1, <1>2
<1>4. DOMAIN recvs = 1 .. Len(recvs) /\ Len(recvs) \in Nat
  BY CallsDomain
<1>5. ASSUME NEW j \in DOMAIN explst
      PROVE  PCall(j)' = PCall(j) /\ PostTag(j)' /\ PCall(j) < r
  <2>1. /\ explst[j].reqidx \in Expected /\ explst'[j] = explst[j]
        /\ PCall(j) \in DOMAIN recvs /\ PCall(j) \in Nat
    BY <1>2, PostedThere
  <2>2. PCall(j)' = PCall(j)
    BY <2>1 DEF PCall, SameHead
  <2>3. PostTag(j)
    BY DEF PostLine, PostTag
  <2>4. PCall(j) < r
    BY <1>4, <2>1
  <2> QED BY <2>1, <2>2, <2>3, <2>4 DEF PostTag, SameCall
<1>6. PCall(last)' = r /\ PostTag(last)'
  BY <1>2 DEF PCall, PostTag
<1>7. ASSUME NEW k \in DOMAIN explst', NEW l \in DOMAIN explst', k < l
      PROVE  PCall(k)' < PCall(l)'
  <2>1. k \in DOMAIN explst
    BY <1>1, <1>2, <1>7
  <2>2. CASE l \in DOMAIN explst
    BY <1>5, <1>7, <2>1, <2>2 DEF PostLine
  <2>3. CASE l = last
    BY <1>5, <1>6, <2>1, <2>3
  <2> QED BY <1>3, <2>2, <2>3
<1>8. ASSUME NEW x \in DOMAIN recvs', ~ Has(x)' PROVE \E j \in DOMAIN explst' : PCall(j)' = x
  <2>1. CASE x = r
    <3>1. last \in DOMAIN explst'
      BY <1>1, <1>2
    <3> QED BY <1>6, <2>1, <3>1
  <2>2. CASE x # r
    <3>1. x \in DOMAIN recvs
      BY <1>4, <2>2
    <3>2. ~ Has(x)
      BY <1>8, <3>1 DEF Has, SameCall
    <3>3. PICK j \in DOMAIN explst : PCall(j) = x
      BY <3>1, <3>2 DEF PostLine
    <3>4. j \in DOMAIN explst'
      BY <1>2
    <3> QED BY <1>5, <3>3, <3>4
  <2> QED BY <2>1, <2>2
<1> QED BY <1>3, <1>5, <1>6, <1>7, <1>8 DEF PostLine, PostTag


(* the messages in the ring come after those that have been taken over     *)
Taken(s, n) == WithRecv(s, n) \/ IsQueued(s, n)
RingTag(s, x) == ring[s][x].tag = sent[s][ring[s][x].msg].tag

LEMMA TakenSent ==
  ASSUME DataInv, Matched, NEW s \in Srcs, NEW n, Taken(s, n)
  PROVE  n \in DOMAIN sent[s]
<1>1. CASE WithRecv(s, n)
  <2>1. PICK r \in DOMAIN recvs : recvs[r].msg = <<s, n>>
    BY <1>1 DEF WithRecv
  <2>2. Has(r)
    BY <2>1 DEF Has
  <2>3. PICK t \in Srcs : \E m \in DOMAIN sent[t] : recvs[r].msg = <<t, m>>
    BY <2>2 DEF Matched
  <2> QED BY <2>1, <2>3
<1>2. CASE IsQueued(s, n)
  BY <1>2 DEF IsQueued, DataInv, Queued, QueuedOf, Carries
<1> QED BY <1>1, <1>2 DEF Taken

LEMMA WithSame ==
  ASSUME \A x \in DOMAIN recvs : x \in DOMAIN recvs' /\ SameCall(x),
         \A x \in DOMAIN recvs' : Has(x)' => x \in DOMAIN recvs
  PROVE  \A s, n : WithRecv(s, n)' <=> WithRecv(s, n)
<1>1. ASSUME NEW s, NEW n, WithRecv(s, n)' PROVE WithRecv(s, n)
  <2>1. PICK r \in DOMAIN recvs' : recvs'[r].msg = <<s, n>>
    BY <1>1 DEF WithRecv
  <2>2. Has(r)'
    BY <2>1 DEF Has
  <2>3. r \in DOMAIN recvs /\ recvs[r].msg = <<s, n>>
    BY <2>1, <2>2 DEF SameCall
  <2> QED BY <2>3 DEF WithRecv
<1>2. ASSUME NEW s, NEW n, WithRecv(s, n) PROVE WithRecv(s, n)'
  BY <1>2 DEF WithRecv, SameCall
<1> QED BY <1>1, <1>2

LEMMA QueuedSame ==
  ASSUME Unexpected' = Unexpected, \A i \in Unexpected : SameHead(i)
  PROVE  \A s, n : IsQueued(s, n)' <=> IsQueued(s, n)
BY DEF IsQueued, SameHead

LEMMA RingKept ==
  ASSUME RingLine, ring' = ring, sent' = sent,
         \A s \in Srcs : \A n : Taken(s, n)' => Taken(s, n)
  PROVE  RingLine'
<1>1. ASSUME NEW s \in Srcs, NEW x \in DOMAIN ring[s], First(s, x),
             NEW n \in DOMAIN sent[s], WithRecv(s, n)' \/ IsQueued(s, n)'
      PROVE  n < ring[s][x].msg
  BY <1>1 DEF RingLine, Taken
<1> QED BY <1>1 DEF RingLine, First

LEMMA RingCut ==
  ASSUME PoolInv, RingLine, sent' = sent, NEW s \in Srcs, RingTaken(s),
         NEW n, n = ring[s][1].msg,
         \A t \in Srcs : \A k : Taken(t, k)' =>
           Taken(t, k) \/ (t = s /\ k = n /\ ring[s][1].part = 1)
  PROVE  RingLine'
<1>1. ASSUME NEW t \in Srcs, NEW a, a = ring[t], NEW b, b = ring'[t]
      PROVE  /\ \A x \in DOMAIN b : RingTag(t, x)'
             /\ \A x, y \in DOMAIN b :
                  b[x].part = 1 /\ b[y].part = 1 /\ x < y => b[x].msg < b[y].msg
             /\ \A x \in DOMAIN b : b[x].part = 1 =>
                  \A k \in DOMAIN sent[t] : Taken(t, k)' => k < b[x].msg
  <2>1. PICK d : d = IF t = s THEN 1 ELSE 0
    OBVIOUS
  <2>2. Shifted(a, b, d)
    <3>1. ring \in [Srcs -> Seq(Pkt)] /\ RingStep(s, TRUE)
      BY DEF PoolInv, TypeRndz, RingStep
    <3>2. TRUE \in BOOLEAN /\ d = IF TRUE /\ t = s THEN 1 ELSE 0
      BY <2>1
    <3> QED BY ONLY <1>1, <3>1, <3>2, s \in Srcs, t \in Srcs, RingShift
  <2>3. d \in Nat /\ (t = s => d = 1)
    BY <2>1
  <2>4. \A x \in DOMAIN b : x \in Nat \ {0} /\ x + d \in DOMAIN a /\ b[x] = a[x + d]
    BY <2>2 DEF Shifted
  <2>5. ASSUME NEW x \in DOMAIN b PROVE RingTag(t, x)'
    BY <1>1, <2>4 DEF RingTag, RingLine
  <2>6. ASSUME NEW x \in DOMAIN b, NEW y \in DOMAIN b, b[x].part = 1, b[y].part = 1, x < y
        PROVE  b[x].msg < b[y].msg
    <3>1. x + d \in DOMAIN a /\ y + d \in DOMAIN a /\ x + d < y + d
      BY <2>3, <2>4, <2>6
    <3> QED BY <1>1, <2>4, <2>6, <3>1 DEF RingLine, First
  <2>7. ASSUME NEW x \in DOMAIN b, b[x].part = 1, NEW k \in DOMAIN sent[t], Taken(t, k)'
        PROVE  k < b[x].msg
    <3>1. x + d \in DOMAIN a /\ b[x] = a[x + d] /\ First(t, x + d)
      BY <1>1, <2>4, <2>7 DEF First
    <3>2. CASE Taken(t, k)
      BY <1>1, <2>7, <3>1, <3>2 DEF RingLine, Taken
    <3>3. CASE t = s /\ k = n /\ ring[s][1].part = 1
      <4>1. 1 < x + d
        BY <2>3, <2>4, <3>3
      <4>2. First(t, 1)
        <5>1. ring \in [Srcs -> Seq(Pkt)] /\ ring[s] # <<>>
          BY DEF PoolInv, TypeRndz, RingTaken
        <5>2. 1 \in DOMAIN ring[s]
          BY <5>1, EmptySeq
        <5> QED BY <3>3, <5>2 DEF First
      <4> QED BY <1>1, <3>1, <3>3, <4>1, <4>2 DEF RingLine, First
    <3> QED BY <2>7, <3>2, <3>3
  <2> QED BY <2>5, <2>6, <2>7
<1> QED BY <1>1 DEF RingLine, RingTag, First, Taken

(* a message is posted: it is the source's last                            *)
PostsMsg(s, n, e, p) ==
  /\ p \in Seq(Pkt) /\ \A c \in DOMAIN p : p[c].msg = n /\ p[c].part = c /\ p[c].tag = e.tag
  /\ e \in [tag : Tags, kind : Kinds] /\ n = Len(sent[s]) + 1
  /\ ring' = [ring EXCEPT ![s] = @ \o p] /\ sent' = [sent EXCEPT ![s] = Append(@, e)]

LEMMA RingPut ==
  ASSUME PoolInv, DataInv, Matched, RingLine, NEW s \in Srcs, NEW n, NEW e, NEW p,
         PostsMsg(s, n, e, p), \A t \in Srcs : \A k : Taken(t, k)' => Taken(t, k)
  PROVE  RingLine'
<1>p. /\ p \in Seq(Pkt) /\ \A c \in DOMAIN p : p[c].msg = n /\ p[c].part = c /\ p[c].tag = e.tag
      /\ e \in [tag : Tags, kind : Kinds] /\ n = Len(sent[s]) + 1
      /\ ring' = [ring EXCEPT ![s] = @ \o p] /\ sent' = [sent EXCEPT ![s] = Append(@, e)]
  BY DEF PostsMsg
<1>0. ring \in [Srcs -> Seq(Pkt)] /\ sent \in [Srcs -> Seq([tag : Tags, kind : Kinds])]
  BY DEF PoolInv, TypeRndz
<1>1. PICK a, b : a = ring[s] /\ b = a \o p
  OBVIOUS
<1>2. /\ a \in Seq(Pkt) /\ ring'[s] = b /\ Len(a) \in Nat /\ DOMAIN a = 1 .. Len(a)
      /\ Len(p) \in Nat /\ DOMAIN p = 1 .. Len(p)
  BY <1>p, <1>0, <1>1
<1>3. /\ DOMAIN b = 1 .. Len(a) + Len(p)
      /\ \A x \in 1 .. Len(a) + Len(p) : b[x] = IF x <= Len(a) THEN a[x] ELSE p[x - Len(a)]
  <2>1. b \in Seq(Pkt) /\ Len(b) = Len(a) + Len(p)
    BY <1>p, <1>1, <1>2, ConcatProperties
  <2> QED BY <1>p, <1>1, <1>2, <2>1, ConcatProperties
<1>4. \A x \in DOMAIN b : \/ x \in DOMAIN a /\ b[x] = a[x]
                          \/ /\ x > Len(a) /\ b[x].msg = n /\ b[x].tag = e.tag
                             /\ b[x].part = x - Len(a)
  <2>1. ASSUME NEW x \in DOMAIN b, x \notin DOMAIN a
        PROVE  x > Len(a) /\ b[x].msg = n /\ b[x].tag = e.tag /\ b[x].part = x - Len(a)
    <3>1. x > Len(a) /\ x - Len(a) \in DOMAIN p /\ b[x] = p[x - Len(a)]
      BY <1>p, <1>2, <1>3, <2>1
    <3> QED BY <1>p, <3>1
  <2>2. ASSUME NEW x \in DOMAIN b, x \in DOMAIN a PROVE b[x] = a[x]
    BY <1>2, <1>3, <2>2
  <2> QED BY <2>1, <2>2
<1>5. PICK c : c = sent[s]
  OBVIOUS
<1>6. /\ DOMAIN c = 1 .. Len(c) /\ Len(c) \in Nat /\ sent'[s] = Append(c, e)
      /\ DOMAIN sent'[s] = 1 .. n /\ sent'[s][n] = e
      /\ \A k \in DOMAIN c : k < n /\ sent'[s][k] = c[k]
  <2>1. c \in Seq([tag : Tags, kind : Kinds]) /\ sent'[s] = Append(c, e) /\ n = Len(c) + 1
    BY <1>p, <1>0, <1>5
  <2>2. DOMAIN c = 1 .. Len(c) /\ Len(c) \in Nat
    BY <2>1
  <2>3. /\ DOMAIN Append(c, e) = 1 .. Len(c) + 1 /\ Append(c, e)[Len(c) + 1] = e
        /\ \A k \in 1 .. Len(c) : Append(c, e)[k] = c[k]
    BY <1>p, <2>1, AppendProperties
  <2> QED BY <2>1, <2>2, <2>3
<1>7. \A x \in DOMAIN a : a[x].msg \in DOMAIN c
  BY <1>1, <1>5 DEF DataInv, Stream, StreamOf, PktOf
<1>8. ASSUME NEW x \in DOMAIN b PROVE b[x].tag = sent'[s][b[x].msg].tag
  <2>1. CASE x \in DOMAIN a /\ b[x] = a[x]
    BY <1>1, <1>5, <1>6, <1>7, <2>1 DEF RingLine
  <2>2. CASE b[x].msg = n /\ b[x].tag = e.tag
    BY <1>p, <1>6, <2>2
  <2> QED BY <1>4, <2>1, <2>2
<1>9. ASSUME NEW x \in DOMAIN b, NEW y \in DOMAIN b, b[x].part = 1, b[y].part = 1, x < y
      PROVE  b[x].msg < b[y].msg
  <2>1. x \in DOMAIN a /\ b[x] = a[x]
    BY <1>2, <1>3, <1>4, <1>9
  <2>2. CASE y \in DOMAIN a /\ b[y] = a[y]
    BY <1>1, <1>9, <2>1, <2>2 DEF RingLine, First
  <2>3. CASE b[y].msg = n
    BY <1>6, <1>7, <2>1, <2>3
  <2> QED BY <1>4, <2>2, <2>3
<1>10. ASSUME NEW t \in Srcs, NEW k, Taken(t, k)' PROVE Taken(t, k) /\ k \in DOMAIN sent[t]
  BY <1>10, TakenSent
<1>11. ASSUME NEW x \in DOMAIN b, b[x].part = 1, NEW k, Taken(s, k)' PROVE k < b[x].msg
  <2>1. CASE x \in DOMAIN a /\ b[x] = a[x]
    BY <1>1, <1>10, <1>11, <2>1 DEF RingLine, First, Taken
  <2>2. CASE b[x].msg = n
    BY <1>p, <1>5, <1>6, <1>10, <1>11, <2>2
  <2> QED BY <1>4, <2>1, <2>2
<1>12. ASSUME NEW t \in Srcs, t # s
       PROVE  ring'[t] = ring[t] /\ sent'[t] = sent[t]
  BY <1>p, <1>0, <1>12
<1>13. ASSUME NEW t \in Srcs
       PROVE  /\ \A x \in DOMAIN ring'[t] : RingTag(t, x)'
              /\ \A x, y \in DOMAIN ring'[t] :
                   First(t, x)' /\ First(t, y)' /\ x < y => ring'[t][x].msg < ring'[t][y].msg
              /\ \A x \in DOMAIN ring'[t] : First(t, x)' =>
                   \A k \in DOMAIN sent'[t] : Taken(t, k)' => k < ring'[t][x].msg
  <2>1. CASE t = s
    <3>1. ring'[t] = b
      BY <1>2, <2>1
    <3>2. \A x \in DOMAIN b : RingTag(t, x)'
      BY <1>8, <2>1, <3>1 DEF RingTag
    <3>3. \A x \in DOMAIN b : First(t, x)' => b[x].part = 1
      BY <3>1 DEF First
    <3>4. \A x \in DOMAIN b : First(t, x)' => \A k : Taken(t, k)' => k < b[x].msg
      BY <1>11, <2>1, <3>3
    <3>5. \A x, y \in DOMAIN b : First(t, x)' /\ First(t, y)' /\ x < y => b[x].msg < b[y].msg
      BY <1>9, <3>3
    <3> QED BY ONLY <3>1, <3>2, <3>4, <3>5
  <2>2. CASE t # s
    BY <1>10, <1>12, <2>2 DEF RingLine, RingTag, First, Taken
  <2> QED BY <2>1, <2>2
<1> QED BY <1>13 DEF RingLine, RingTag, Taken


(* a step on which no message changes hands                                *)
LEMMA OrderSame ==
  ASSUME PoolInv, PoolInv', DataInv, OrderInv, UNCHANGED <<explst, uexplst, sent>>,
         DOMAIN recvs' = DOMAIN recvs, \A x \in DOMAIN recvs : SameCall(x),
         \A i \in MsgReq : SameHead(i),
         ring' = ring \/ \E s \in Srcs : RingTaken(s) /\ ring[s][1].part # 1
  PROVE  OrderInv'
<1>1. Expected' = Expected /\ Unexpected' = Unexpected
  BY DEF Expected, Unexpected
<1>2. Expected \subseteq MsgReq /\ Unexpected \subseteq MsgReq
  BY RolesInRange
<1>3. SentStays
  BY DEF SentStays
<1>4. Once' /\ Matched' /\ InTurn'
  BY <1>3, CallsSame DEF OrderInv
<1>5. QueueLine'
  BY <1>2, <1>3, QueueSame DEF OrderInv
<1>6. PostLine'
  BY <1>2, PostSame DEF OrderInv
<1>7. \A s, n : WithRecv(s, n)' <=> WithRecv(s, n)
  BY WithSame
<1>8. \A s, n : IsQueued(s, n)' <=> IsQueued(s, n)
  BY <1>1, <1>2, QueuedSame
<1>9. \A s \in Srcs : \A n : Taken(s, n)' => Taken(s, n)
  BY <1>7, <1>8 DEF Taken
<1>10. RingLine'
  <2>1. CASE ring' = ring
    BY <1>9, <2>1, RingKept DEF OrderInv
  <2>2. CASE \E s \in Srcs : RingTaken(s) /\ ring[s][1].part # 1
    <3>1. PICK s \in Srcs : RingTaken(s) /\ ring[s][1].part # 1
      BY <2>2
    <3> QED BY <1>9, <3>1, RingCut DEF OrderInv
  <2> QED BY <2>1, <2>2
<1>11. Apart'
  BY <1>7, <1>8 DEF OrderInv, Apart
<1> QED BY <1>4, <1>5, <1>6, <1>10, <1>11 DEF OrderInv

LEMMA QuietOrder ==
  ASSUME PoolInv, PoolInv', DataInv, OrderInv, Quiet
  PROVE  OrderInv'
BY OrderSame DEF Quiet

LEMMA PostOrder ==
  ASSUME PoolInv, PoolInv', DataInv, OrderInv,
         NEW s \in Srcs, NEW tag \in Tags, NEW kind \in Kinds, Post(s, tag, kind)
  PROVE  OrderInv'
<1>a. PICK n : n = Len(sent[s]) + 1
  OBVIOUS
<1>b. PICK pos : pos = IF kind.rndz THEN Head(rndzfree[s]) ELSE 0
  OBVIOUS
<1>c. PICK p : p = Packets(s, n, tag, kind, pos)
  OBVIOUS
<1>d. PICK e : e = [tag |-> tag, kind |-> kind]
  OBVIOUS
<1>0. /\ ring \in [Srcs -> Seq(Pkt)] /\ rndzfree \in [Srcs -> Seq(RndzPos)]
      /\ sent \in [Srcs -> Seq([tag : Tags, kind : Kinds])]
  BY DEF PoolInv, TypeRndz
<1>1. CASE kind.rndz /\ rndzfree[s] = <<>>
  <2>1. UNCHANGED <<req, explst, uexplst, ring, sent, recvs>>
    BY <1>1 DEF Post, Fault, poolVars, lstVars, srcVars, userVars
  <2> QED BY <2>1, QuietOrder, SameHeads DEF Quiet, SameCall
<1>2. CASE ~ (kind.rndz /\ rndzfree[s] = <<>>)
  <2>1. /\ ring' = [ring EXCEPT ![s] = @ \o p] /\ sent' = [sent EXCEPT ![s] = Append(@, e)]
        /\ UNCHANGED <<req, explst, uexplst, recvs>>
    BY <1>2, <1>a, <1>b, <1>c, <1>d
       DEF Post, utf_rndzprog_alloc, poolVars, lstVars, userVars
  <2>2. pos \in RndzPos /\ n \in Nat
    <3>1. kind.rndz => Head(rndzfree[s]) \in RndzPos
      BY <1>0, <1>2, HeadTailProperties
    <3>2. 0 \in RndzPos
      BY RecvAssumption DEF RndzPos
    <3> QED BY <1>0, <1>a, <1>b, <3>1, <3>2
  <2>3. p \in Seq(Pkt) /\ \A c \in DOMAIN p : p[c].msg = n /\ p[c].part = c /\ p[c].tag = e.tag
    <3>1. PICK m : m = Count(kind)
      OBVIOUS
    <3>2. p \in Seq(Pkt) /\ DOMAIN p = 1 .. m /\ \A c \in 1 .. m : p[c].msg = n /\ p[c].part = c
      BY <1>c, <2>2, <3>1, PacketsAre
    <3>3. \A c \in 1 .. m : p[c].tag = tag
      BY <1>c, <3>1 DEF Packets, Count
    <3> QED BY <1>d, <3>2, <3>3
  <2>4. e \in [tag : Tags, kind : Kinds]
    BY <1>d
  <2>5. SentStays
    <3>1. ASSUME NEW t \in Srcs, NEW k \in DOMAIN sent[t]
          PROVE  k \in DOMAIN sent'[t] /\ sent'[t][k] = sent[t][k]
      <4>1. CASE t # s
        BY <1>0, <2>1, <4>1
      <4>2. CASE t = s
        <5>1. PICK c : c = sent[s]
          OBVIOUS
        <5>2. c \in Seq([tag : Tags, kind : Kinds]) /\ sent'[s] = Append(c, e)
          BY <1>0, <2>1, <5>1
        <5>3. DOMAIN c = 1 .. Len(c) /\ Len(c) \in Nat
          BY <5>2
        <5>4. /\ DOMAIN Append(c, e) = 1 .. Len(c) + 1
              /\ \A x \in 1 .. Len(c) : Append(c, e)[x] = c[x]
          BY <2>4, <5>2, AppendProperties
        <5> QED BY <3>1, <4>2, <5>1, <5>2, <5>3, <5>4
      <4> QED BY <4>1, <4>2
    <3> QED BY <3>1 DEF SentStays
  <2>6. /\ \A i : SameHead(i) /\ \A x \in DOMAIN recvs : x \in DOMAIN recvs' /\ SameCall(x)
        /\ Unexpected' = Unexpected
    BY <2>1 DEF SameHead, SameCall, Unexpected
  <2>7. Once' /\ Matched' /\ InTurn'
    BY <2>1, <2>5, <2>6, CallsSame DEF OrderInv
  <2>8. QueueLine' /\ PostLine'
    BY <2>1, <2>5, <2>6, QueueSame, PostSame DEF OrderInv
  <2>9. \A t, k : (WithRecv(t, k)' <=> WithRecv(t, k)) /\ (IsQueued(t, k)' <=> IsQueued(t, k))
    BY <2>1, <2>6, WithSame, QueuedSame
  <2>10. \A t \in Srcs : \A k : Taken(t, k)' => Taken(t, k)
    BY <2>9 DEF Taken
  <2>11. RingLine'
    <3>1. PostsMsg(s, n, e, p)
      BY <1>a, <2>1, <2>3, <2>4 DEF PostsMsg
    <3> QED BY <2>10, <3>1, RingPut DEF OrderInv
  <2>12. Apart'
    <3>1. \A t \in Srcs : \A k : Taken(t, k) => k \in DOMAIN sent[t]
      BY TakenSent DEF OrderInv
    <3> QED BY <2>9, <3>1 DEF OrderInv, Apart, Taken
  <2> QED BY <2>7, <2>8, <2>11, <2>12 DEF OrderInv
<1> QED BY <1>1, <1>2

LEMMA PktBodyOrder ==
  ASSUME PoolInv, PoolInv', DataInv, OrderInv, NEW s \in Srcs, PktBody(s)
  PROVE  OrderInv'
<1>1. RingTaken(s) /\ ring[s][1].part # 1 /\ \A i \in MsgReq : SameHead(i)
  BY PktBodyHeads
<1>2. UNCHANGED <<explst, uexplst, sent, recvs>>
  BY DEF PktBody, lstVars, srcVars
<1> QED BY <1>1, <1>2, OrderSame DEF SameCall


(* an entry that fits is not before the one that is found                  *)
LEMMA ExpLeast ==
  ASSUME NEW src, NEW tag, explst \in Seq(Lst), NEW k \in DOMAIN explst,
         ExpMatches(explst[k], src, tag)
  PROVE  utf_explst_match(src, tag) <= k
<1> DEFINE I == {i \in 1 .. Len(explst) : ExpMatches(explst[i], src, tag)}
<1>1. utf_explst_match(src, tag) = IF I # {} THEN Min(I) ELSE 0
  BY DEF utf_explst_match, SelectInSeq
<1>2. I \subseteq Nat /\ Len(explst) \in Nat /\ k \in I
  OBVIOUS
<1>3. Min(I) \in I /\ \A y \in I : Min(I) <= y
  <2> HIDE DEF I
  <2> QED BY <1>2, LeastIs
<1> QED BY <1>1, <1>2, <1>3

LEMMA UexpLeast ==
  ASSUME NEW src, NEW tag, uexplst \in Seq(Lst), NEW k \in DOMAIN uexplst,
         UexpMatches(src, tag, uexplst[k])
  PROVE  utf_uexplst_match(src, tag) <= k
<1> DEFINE I == {i \in 1 .. Len(uexplst) : UexpMatches(src, tag, uexplst[i])}
<1>1. utf_uexplst_match(src, tag) = IF I # {} THEN Min(I) ELSE 0
  BY DEF utf_uexplst_match, SelectInSeq
<1>2. I \subseteq Nat /\ Len(uexplst) \in Nat /\ k \in I
  OBVIOUS
<1>3. Min(I) \in I /\ \A y \in I : Min(I) <= y
  <2> HIDE DEF I
  <2> QED BY <1>2, LeastIs
<1> QED BY <1>1, <1>2, <1>3

(* a queued message is at a place of the queue, a waiting receive posted   *)
LEMMA QueuedAt ==
  ASSUME NEW s, NEW n, IsQueued(s, n)
  PROVE  \E k \in DOMAIN uexplst : QSrc(k) = s /\ QMsg(k) = n
BY DEF IsQueued, Unexpected, Held, QSrc, QMsg

(* the message that comes next in a ring is neither queued nor received    *)
LEMMA NextIsNew ==
  ASSUME PoolInv, DataInv, OrderInv, NEW s \in Srcs, RingTaken(s), ring[s][1].part = 1,
         NEW n, n = ring[s][1].msg
  PROVE  /\ n \in DOMAIN sent[s] /\ ring[s][1].tag = sent[s][n].tag
         /\ ~ WithRecv(s, n) /\ ~ IsQueued(s, n)
         /\ \A k : Taken(s, k) => k \in DOMAIN sent[s] /\ k < n
         /\ \A k : InRing(s, k) => k = n \/ n < k
<1>1. ring[s] \in Seq(Pkt) /\ ring[s] # <<>>
  BY DEF PoolInv, TypeRndz, RingTaken
<1>2. 1 \in DOMAIN ring[s] /\ DOMAIN ring[s] \subseteq Nat \ {0}
  BY <1>1, EmptySeq
<1>3. n \in DOMAIN sent[s] /\ ring[s][1].tag = sent[s][n].tag
  BY <1>2 DEF DataInv, Stream, StreamOf, PktOf, OrderInv, RingLine
<1>4. First(s, 1)
  BY <1>2 DEF First
<1>5. ASSUME NEW k, Taken(s, k) PROVE k \in DOMAIN sent[s] /\ k < n
  <2>1. k \in DOMAIN sent[s]
    BY <1>5, TakenSent DEF OrderInv
  <2> QED BY <1>2, <1>4, <1>5, <2>1 DEF OrderInv, RingLine, Taken
<1>6. n \in Int
  <2>1. sent[s] \in Seq([tag : Tags, kind : Kinds])
    BY DEF PoolInv, TypeRndz
  <2> QED BY <1>3, <2>1
<1>7. ~ WithRecv(s, n) /\ ~ IsQueued(s, n)
  BY <1>5, <1>6 DEF Taken
<1>8. ASSUME NEW k, InRing(s, k) PROVE k = n \/ n < k
  <2>1. PICK x \in DOMAIN ring[s] : ring[s][x].msg = k /\ ring[s][x].part = 1
    BY <1>8 DEF InRing
  <2>2. CASE x = 1
    BY <2>1, <2>2
  <2>3. CASE x # 1
    <3>1. First(s, x) /\ 1 < x
      BY <1>2, <2>1, <2>3 DEF First
    <3> QED BY <1>2, <1>4, <2>1, <3>1 DEF OrderInv, RingLine
  <2> QED BY <2>2, <2>3
<1> QED BY <1>3, <1>5, <1>7, <1>8

LEMMA RecvPostedOrder ==
  ASSUME PoolInv, PoolInv', DataInv, OrderInv, NEW src \in Srcs \cup {ANY},
         NEW tag \in Tags \cup {ANY}, NEW size \in Nat, RecvPosted(src, tag, size)
  PROVE  OrderInv'
<1>1. CASE PoolEmpty
  <2>1. UNCHANGED <<req, explst, uexplst, ring, sent, recvs>>
    BY <1>1 DEF RecvPosted, Fault, poolVars, lstVars, srcVars, userVars
  <2> QED BY <2>1, QuietOrder, SameHeads DEF Quiet, SameCall
<1>2. CASE ~ PoolEmpty
  <2>a. PICK r : r = Len(recvs) + 1
    OBVIOUS
  <2>1. PICK i \in MsgReq, e \in Lst : PostsRecv(src, tag, r, i, e)
    BY <1>2, <2>a, RecvPostedStep
  <2>2. /\ UNCHANGED <<uexplst, ring, sent>> /\ DOMAIN recvs' = 1 .. r
        /\ recvs'[r].src = src /\ recvs'[r].tag = tag /\ recvs'[r].msg = <<>>
        /\ e.reqidx = i /\ e.src = src /\ e.tag = tag /\ explst' = Append(explst, e)
        /\ i \notin Expected \cup Unexpected /\ Unexpected' = Unexpected /\ req'[i].usr = r
        /\ \A j \in MsgReq : j # i => req'[j] = req[j]
    BY <2>1 DEF PostsRecv
  <2>3. \A x \in DOMAIN recvs : x \in DOMAIN recvs' /\ SameCall(x)
    BY <2>1 DEF PostsRecv, SameCall
  <2>4. \A x \in DOMAIN recvs' : Has(x)' => x \in DOMAIN recvs
    <3>1. DOMAIN recvs = 1 .. Len(recvs) /\ Len(recvs) \in Nat
      BY CallsDomain
    <3> QED BY <2>2, <2>a, <3>1 DEF Has
  <2>5. \A j \in Expected \cup Unexpected : SameHead(j)
    BY <2>2, RolesInRange DEF SameHead
  <2>6. SentStays
    BY <2>2 DEF SentStays
  <2>7. Once' /\ Matched' /\ InTurn'
    BY <2>3, <2>4, <2>6, CallsSame DEF OrderInv
  <2>8. QueueLine'
    BY <2>2, <2>5, <2>6, QueueSame DEF OrderInv
  <2>9. PostLine'
    BY <2>2, <2>3, <2>5, <2>a, PostPut DEF OrderInv
  <2>10. \A s, n : (WithRecv(s, n)' <=> WithRecv(s, n)) /\ (IsQueued(s, n)' <=> IsQueued(s, n))
    BY <2>2, <2>3, <2>4, <2>5, WithSame, QueuedSame
  <2>11. RingLine'
    BY <2>2, <2>10, RingKept DEF OrderInv, Taken
  <2>12. Apart'
    BY <2>2, <2>10 DEF OrderInv, Apart
  <2> QED BY <2>7, <2>8, <2>9, <2>11, <2>12 DEF OrderInv
<1> QED BY <1>1, <1>2

(* what a receive that finds a queued message leaves behind                *)
LEMMA QueuedIsNext ==
  ASSUME PoolInv, DataInv, NoMissedMatch, LostInv, OrderInv,
         NEW src, NEW tag, src # ANY, tag # ANY,
         NEW at \in DOMAIN uexplst, at = utf_uexplst_match(src, tag),
         UexpMatches(src, tag, uexplst[at]), NEW n, n = QMsg(at)
  PROVE  /\ src = QSrc(at) /\ src \in Srcs /\ n \in DOMAIN sent[src] /\ tag = sent[src][n].tag
         /\ \A m \in DOMAIN sent[src] : m < n /\ sent[src][m].tag = tag => WithRecv(src, m)
         /\ \A x \in DOMAIN recvs : recvs[x].src = src /\ recvs[x].tag = tag => Has(x)
<1>1. QSrc(at) \in Srcs /\ n \in DOMAIN sent[QSrc(at)]
  BY QueuedThere
<1>2. uexplst[at].src = QSrc(at) /\ uexplst[at].tag = sent[QSrc(at)][n].tag
  BY DEF OrderInv, QueueLine
<1>3. src = QSrc(at) /\ tag = sent[src][n].tag
  BY <1>2 DEF UexpMatches
<1>4. IsQueued(src, n)
  BY <1>3 DEF IsQueued, Unexpected, Held, QSrc, QMsg
<1>5. DOMAIN uexplst \subseteq Int /\ uexplst \in Seq(Lst)
  BY DEF PoolInv, TypeLists
<1>6. sent[src] \in Seq([tag : Tags, kind : Kinds])
  BY <1>1, <1>3 DEF PoolInv, TypeRndz
<1>7. n \in Int /\ \A m \in DOMAIN sent[src] : m \in Int
  <2>1. PICK a : a = sent[src]
    OBVIOUS
  <2>2. DOMAIN a = 1 .. Len(a) /\ Len(a) \in Nat
    BY <1>6, <2>1
  <2>3. n \in DOMAIN a
    BY <1>1, <1>3, <2>1
  <2> QED BY ONLY <2>1, <2>2, <2>3
<1>8. ASSUME NEW m \in DOMAIN sent[src], m < n, sent[src][m].tag = tag PROVE WithRecv(src, m)
  <2>1. ASSUME InRing(src, m) PROVE FALSE
    <3>1. PICK x \in DOMAIN ring[src] : ring[src][x].msg = m /\ ring[src][x].part = 1
      BY <2>1 DEF InRing
    <3>2. n < m
      BY <1>1, <1>3, <1>4, <3>1 DEF OrderInv, RingLine, First
    <3> QED BY <1>7, <1>8, <3>2
  <2>2. ASSUME IsQueued(src, m) PROVE FALSE
    <3>1. PICK k \in DOMAIN uexplst : QSrc(k) = src /\ QMsg(k) = m
      BY <2>2, QueuedAt
    <3>2. uexplst[k].src = src /\ uexplst[k].tag = tag
      BY <1>8, <3>1 DEF OrderInv, QueueLine
    <3>3. at <= k
      BY <1>5, <3>2, UexpLeast DEF UexpMatches
    <3>4. at # k
      BY <1>7, <1>8, <3>1
    <3>5. at < k
      BY <1>5, <3>3, <3>4
    <3>6. n < m
      BY <1>3, <3>1, <3>5 DEF OrderInv, QueueLine
    <3> QED BY <1>7, <1>8, <3>6
  <2>3. Somewhere(src, m)
    BY <1>1, <1>3, <1>8 DEF LostInv
  <2> QED BY <2>1, <2>2, <2>3 DEF Somewhere
<1>9. ASSUME NEW x \in DOMAIN recvs, recvs[x].src = src, recvs[x].tag = tag, ~ Has(x) PROVE FALSE
  <2>1. PICK j \in DOMAIN explst : PCall(j) = x
    BY <1>9 DEF OrderInv, PostLine
  <2>2. explst[j].src = src /\ explst[j].tag = tag
    BY <1>9, <2>1 DEF OrderInv, PostLine
  <2>3. uexplst[at].src = src /\ uexplst[at].tag = tag
    BY <1>2, <1>3
  <2> QED BY <2>2, <2>3 DEF NoMissedMatch, Exact
<1> QED BY <1>1, <1>3, <1>8, <1>9

LEMMA RecvUnexpectedOrder ==
  ASSUME PoolInv, PoolInv', DataInv, NoMissedMatch, LostInv, OrderInv,
         NEW src, NEW tag, NEW size, RecvUnexpected(src, tag, size)
  PROVE  OrderInv'
<1>a. PICK at, r : at = utf_uexplst_match(src, tag) /\ r = Len(recvs) + 1
  OBVIOUS
<1>b. PICK i : i = uexplst[at].reqidx
  OBVIOUS
<1>s. PICK s, n : s = req[i].src /\ n = req[i].msg
  OBVIOUS
<1>1. TakesQueued(src, tag, at, i, r)
  BY <1>a, <1>b, RecvUnexpectedStep
<1>2. /\ UNCHANGED <<explst, ring, sent>>
      /\ at \in 1 .. Len(uexplst) /\ at \in DOMAIN uexplst
      /\ UexpMatches(src, tag, uexplst[at]) /\ uexplst' = RemoveAt(uexplst, at)
      /\ i \in MsgReq /\ i \in Unexpected /\ i \notin Expected
      /\ Expected' = Expected /\ Unexpected' = Unexpected \ {i}
      /\ DOMAIN recvs' = 1 .. r /\ r \in DOMAIN recvs' /\ r \notin DOMAIN recvs
      /\ recvs'[r].src = src /\ recvs'[r].tag = tag /\ recvs'[r].msg = <<s, n>>
  BY <1>1, <1>s DEF TakesQueued
<1>3. \A j \in Expected \cup Unexpected : j # i => SameHead(j)
  <2>1. \A j \in MsgReq : j # i => req'[j] = req[j]
    BY <1>1 DEF TakesQueued
  <2> QED BY <2>1, RolesInRange DEF SameHead
<1>4. \A x \in DOMAIN recvs : x \in DOMAIN recvs' /\ SameCall(x) /\ x < r
  <2>1. \A x \in DOMAIN recvs : x \in DOMAIN recvs' /\ SameCall(x)
    BY <1>1 DEF TakesQueued, SameCall
  <2>2. DOMAIN recvs = 1 .. Len(recvs) /\ Len(recvs) \in Nat
    BY CallsDomain
  <2> QED BY <1>a, <2>1, <2>2
<1>5. \A x \in DOMAIN recvs' : x # r => x \in DOMAIN recvs
  <2>1. DOMAIN recvs = 1 .. Len(recvs) /\ Len(recvs) \in Nat
    BY CallsDomain
  <2> QED BY <1>2, <1>a, <2>1
<1>6. QSrc(at) = s /\ QMsg(at) = n
  BY <1>b, <1>s DEF QSrc, QMsg
<1>7. s \in Srcs /\ n \in DOMAIN sent[s]
  BY <1>2, <1>6, QueuedThere
<1>8. IsQueued(s, n) /\ ~ WithRecv(s, n)
  <2>1. IsQueued(s, n)
    BY <1>2, <1>s DEF IsQueued
  <2> QED BY <1>7, <2>1 DEF OrderInv, Apart
<1>9. Once' /\ Matched' /\ InTurn'
  <2>1. Exact(recvs'[r]) =>
          /\ recvs'[r].src = s /\ recvs'[r].tag = sent[s][n].tag
          /\ \A m \in DOMAIN sent[s] :
               m < n /\ sent[s][m].tag = sent[s][n].tag => WithRecv(s, m)
          /\ \A x \in DOMAIN recvs :
               x # r /\ recvs[x].src = s /\ recvs[x].tag = sent[s][n].tag => (Has(x) <=> x < r)
    <3>1. SUFFICES ASSUME Exact(recvs'[r])
          PROVE  /\ recvs'[r].src = s /\ recvs'[r].tag = sent[s][n].tag
                 /\ \A m \in DOMAIN sent[s] :
                      m < n /\ sent[s][m].tag = sent[s][n].tag => WithRecv(s, m)
                 /\ \A x \in DOMAIN recvs :
                      recvs[x].src = s /\ recvs[x].tag = sent[s][n].tag => (Has(x) <=> x < r)
      OBVIOUS
    <3>2. src # ANY /\ tag # ANY
      BY <1>2, <3>1 DEF Exact
    <3>3. /\ src = s /\ tag = sent[s][n].tag
          /\ \A m \in DOMAIN sent[src] : m < n /\ sent[src][m].tag = tag => WithRecv(src, m)
          /\ \A x \in DOMAIN recvs : recvs[x].src = src /\ recvs[x].tag = tag => Has(x)
      BY <1>2, <1>6, <1>a, <3>2, QueuedIsNext
    <3> QED BY <1>2, <1>4, <3>3
  <2> QED BY <1>2, <1>4, <1>5, <1>7, <1>8, <2>1, CallGiven DEF OrderInv
<1>10. QueueLine'
  BY <1>2, <1>3, <1>b, QueueCut DEF OrderInv
<1>11. PostLine'
  <2>0. Has(r)'
    BY <1>2 DEF Has
  <2>1. \A x \in DOMAIN recvs' : ~ Has(x)' => x \in DOMAIN recvs
    BY <1>5, <2>0
  <2>2. \A j \in Expected : SameHead(j)
    BY <1>2, <1>3
  <2> QED BY <1>2, <1>4, <2>1, <2>2, PostSame DEF OrderInv
<1>12. ASSUME NEW t, NEW k, WithRecv(t, k)' PROVE WithRecv(t, k) \/ (t = s /\ k = n)
  <2>1. PICK x \in DOMAIN recvs' : recvs'[x].msg = <<t, k>>
    BY <1>12 DEF WithRecv
  <2>2. CASE x = r
    BY <1>2, <2>1, <2>2
  <2>3. CASE x # r
    <3>1. x \in DOMAIN recvs /\ recvs[x].msg = <<t, k>>
      BY <1>4, <1>5, <2>1, <2>3 DEF SameCall
    <3> QED BY <3>1 DEF WithRecv
  <2> QED BY <2>2, <2>3
<1>13. ASSUME NEW t, NEW k, IsQueued(t, k)' PROVE IsQueued(t, k) /\ ~ (t = s /\ k = n)
  <2>1. PICK j \in Unexpected' : req'[j].src = t /\ req'[j].msg = k
    BY <1>13 DEF IsQueued
  <2>2. j \in Unexpected /\ j # i /\ req[j].src = t /\ req[j].msg = k
    BY <1>2, <1>3, <2>1 DEF SameHead
  <2>3. PICK l \in DOMAIN uexplst : uexplst[l].reqidx = j
    BY <2>2 DEF Unexpected, Held
  <2>4. QSrc(l) = t /\ QMsg(l) = k /\ l # at
    BY <1>b, <2>2, <2>3 DEF QSrc, QMsg
  <2>5. ASSUME t = s, k = n PROVE FALSE
    <3>1. uexplst \in Seq(Lst)
      BY DEF PoolInv, TypeLists
    <3>2. l < at \/ at < l
      BY <1>2, <2>4, <3>1
    <3>3. n < n
      BY <1>2, <1>6, <2>4, <2>5, <3>2 DEF OrderInv, QueueLine
    <3>4. sent[s] \in Seq([tag : Tags, kind : Kinds])
      BY <1>7 DEF PoolInv, TypeRndz
    <3> QED BY <1>7, <3>3, <3>4
  <2> QED BY <2>2, <2>5 DEF IsQueued
<1>14. RingLine'
  BY <1>2, <1>8, <1>12, <1>13, RingKept DEF OrderInv, Taken
<1>15. Apart'
  BY <1>2, <1>12, <1>13 DEF OrderInv, Apart
<1> QED BY <1>9, <1>10, <1>11, <1>14, <1>15 DEF OrderInv


(* what a packet that finds a posted receive leaves behind                 *)
LEMMA PostedIsNext ==
  ASSUME PoolInv, DataInv, NoMissedMatch, LostInv, OrderInv, NEW s \in Srcs,
         RingTaken(s), ring[s][1].part = 1, NEW n, n = ring[s][1].msg,
         NEW tag, tag = ring[s][1].tag, NEW at \in DOMAIN explst, at = utf_explst_match(s, tag),
         ExpMatches(explst[at], s, tag), NEW u, u = PCall(at), Exact(recvs[u])
  PROVE  /\ recvs[u].src = s /\ recvs[u].tag = tag
         /\ \A m \in DOMAIN sent[s] : m < n /\ sent[s][m].tag = tag => WithRecv(s, m)
         /\ \A x \in DOMAIN recvs :
              x # u /\ recvs[x].src = s /\ recvs[x].tag = tag => (Has(x) <=> x < u)
<1>0. /\ n \in DOMAIN sent[s] /\ tag = sent[s][n].tag
      /\ \A k : Taken(s, k) => k \in DOMAIN sent[s] /\ k < n
      /\ \A k : InRing(s, k) => k = n \/ n < k
  BY NextIsNew
<1>1. u \in DOMAIN recvs /\ explst[at].reqidx \in Expected
  BY PostedThere
<1>2. explst[at].src = recvs[u].src /\ explst[at].tag = recvs[u].tag
  BY DEF OrderInv, PostLine
<1>3. recvs[u].src = s /\ recvs[u].tag = tag /\ Exact(explst[at])
  BY <1>2 DEF ExpMatches, Exact
<1>4. explst \in Seq(Lst) /\ sent[s] \in Seq([tag : Tags, kind : Kinds])
  BY DEF PoolInv, TypeLists, TypeRndz
<1>5. /\ n \in Int /\ \A m \in DOMAIN sent[s] : m \in Int
      /\ \A j \in DOMAIN explst : j \in Int
  <2>1. PICK a : a = sent[s]
    OBVIOUS
  <2>2. DOMAIN a = 1 .. Len(a) /\ Len(a) \in Nat
    BY <1>4, <2>1
  <2>3. DOMAIN explst = 1 .. Len(explst) /\ Len(explst) \in Nat
    BY <1>4
  <2>4. n \in DOMAIN a
    BY <1>0, <2>1
  <2> QED BY ONLY <2>1, <2>2, <2>3, <2>4
<1>6. ASSUME NEW m \in DOMAIN sent[s], m < n, sent[s][m].tag = tag PROVE WithRecv(s, m)
  <2>1. ~ InRing(s, m)
    <3>1. m \in Int
      BY <1>5
    <3>2. ~ (m = n \/ n < m)
      BY <1>5, <1>6, <3>1
    <3> QED BY <1>0, <3>2
  <2>2. ASSUME IsQueued(s, m) PROVE FALSE
    <3>1. PICK k \in DOMAIN uexplst : QSrc(k) = s /\ QMsg(k) = m
      BY <2>2, QueuedAt
    <3>2. uexplst[k].src = s /\ uexplst[k].tag = tag
      BY <1>6, <3>1 DEF OrderInv, QueueLine
    <3>3. <<explst[at].src, explst[at].tag>> # <<uexplst[k].src, uexplst[k].tag>>
      BY <1>3 DEF NoMissedMatch
    <3> QED BY <1>2, <1>3, <3>2, <3>3
  <2>3. Somewhere(s, m)
    BY DEF LostInv
  <2> QED BY <2>1, <2>2, <2>3 DEF Somewhere
<1>7. DOMAIN recvs = 1 .. Len(recvs) /\ Len(recvs) \in Nat
  BY CallsDomain
<1>8. ASSUME NEW x \in DOMAIN recvs, recvs[x].src = s, recvs[x].tag = tag, x < u, ~ Has(x)
      PROVE  FALSE
  <2>1. PICK j \in DOMAIN explst : PCall(j) = x
    BY <1>8 DEF OrderInv, PostLine
  <2>2. explst[j].src = s /\ explst[j].tag = tag
    BY <1>8, <2>1 DEF OrderInv, PostLine
  <2>3. at <= j
    BY <1>4, <2>2, ExpLeast DEF ExpMatches
  <2>4. at # j
    BY <1>1, <1>7, <1>8, <2>1
  <2>5. at < j
    BY <1>5, <2>3, <2>4
  <2>6. u < x
    BY <2>1, <2>5 DEF OrderInv, PostLine
  <2> QED BY <1>1, <1>7, <1>8, <2>6
<1>9. ASSUME NEW x \in DOMAIN recvs, recvs[x].src = s, recvs[x].tag = tag, u < x, Has(x)
      PROVE  FALSE
  <2>1. InLine(x)
    BY <1>3, <1>9 DEF OrderInv, InTurn, Exact
  <2>2. u \in 1 .. x - 1 /\ Like(u, x)
    BY <1>1, <1>3, <1>7, <1>9 DEF Like
  <2>3. Has(u)
    BY <2>1, <2>2 DEF InLine
  <2> QED BY <1>1, <2>3 DEF LostInv, PCall, Has
<1>10. ASSUME NEW x \in DOMAIN recvs, x # u, recvs[x].src = s, recvs[x].tag = tag
       PROVE  Has(x) <=> x < u
  <2>1. x < u \/ u < x
    BY <1>1, <1>7, <1>10
  <2>2. ~ (x < u /\ u < x)
    BY <1>1, <1>7
  <2> QED BY <1>8, <1>9, <1>10, <2>1, <2>2
<1> QED BY <1>3, <1>6, <1>10

LEMMA PktExpectedOrder ==
  ASSUME PoolInv, PoolInv', DataInv, NoMissedMatch, LostInv, OrderInv, NEW s \in Srcs,
         PktExpected(s)
  PROVE  OrderInv'
<1>a. PICK pkt : pkt = ring[s][1]
  OBVIOUS
<1>b. PICK n, tag : n = pkt.msg /\ tag = pkt.tag
  OBVIOUS
<1>c. PICK at : at = utf_explst_match(s, tag)
  OBVIOUS
<1>d. PICK i : i = explst[at].reqidx
  OBVIOUS
<1>u. PICK u : u = req[i].usr
  OBVIOUS
<1>1. TakesPosted(s, pkt, at, i, u)
  BY <1>a, <1>b, <1>c, <1>d, <1>u, PktExpectedStep
<1>2. /\ UNCHANGED <<uexplst, sent>> /\ RingTaken(s) /\ pkt.part = 1
      /\ at \in 1 .. Len(explst) /\ at \in DOMAIN explst
      /\ ExpMatches(explst[at], s, tag) /\ explst' = RemoveAt(explst, at)
      /\ i \in MsgReq /\ i \in Expected /\ i \notin Unexpected /\ Unexpected' = Unexpected
      /\ u \in DOMAIN recvs /\ DOMAIN recvs' = DOMAIN recvs
      /\ recvs'[u].src = recvs[u].src /\ recvs'[u].tag = recvs[u].tag
      /\ recvs'[u].msg = <<s, n>>
  BY <1>1, <1>b DEF TakesPosted
<1>3. \A j \in Expected \cup Unexpected : j # i => SameHead(j)
  <2>1. \A j \in MsgReq : j # i => req'[j] = req[j]
    BY <1>1 DEF TakesPosted
  <2> QED BY <2>1, RolesInRange DEF SameHead
<1>4. \A x \in DOMAIN recvs : x # u => SameCall(x)
  BY <1>1 DEF TakesPosted, SameCall
<1>5. PCall(at) = u /\ ~ Has(u)
  BY <1>2, <1>d, <1>u DEF PCall, Has, LostInv
<1>6. /\ n \in DOMAIN sent[s] /\ tag = sent[s][n].tag
      /\ ~ WithRecv(s, n) /\ ~ IsQueued(s, n)
  BY <1>2, <1>a, <1>b, NextIsNew
<1>7. Once' /\ Matched' /\ InTurn'
  <2>1. Exact(recvs'[u]) =>
          /\ recvs'[u].src = s /\ recvs'[u].tag = sent[s][n].tag
          /\ \A m \in DOMAIN sent[s] :
               m < n /\ sent[s][m].tag = sent[s][n].tag => WithRecv(s, m)
          /\ \A x \in DOMAIN recvs :
               x # u /\ recvs[x].src = s /\ recvs[x].tag = sent[s][n].tag => (Has(x) <=> x < u)
    <3>1. SUFFICES ASSUME Exact(recvs'[u])
          PROVE  /\ recvs[u].src = s /\ recvs[u].tag = tag
                 /\ \A m \in DOMAIN sent[s] : m < n /\ sent[s][m].tag = tag => WithRecv(s, m)
                 /\ \A x \in DOMAIN recvs :
                      x # u /\ recvs[x].src = s /\ recvs[x].tag = tag => (Has(x) <=> x < u)
      BY <1>2, <1>6
    <3>2. Exact(recvs[u])
      BY <1>2, <3>1 DEF Exact
    <3> QED BY <1>2, <1>5, <1>a, <1>b, <1>c, <3>2, PostedIsNext
  <2>2. sent' = sent /\ \A x \in DOMAIN recvs : x \in DOMAIN recvs' /\ (x # u => SameCall(x))
    BY <1>2, <1>4
  <2>3. \A x \in DOMAIN recvs' : x # u => x \in DOMAIN recvs
    BY <1>2
  <2> QED BY <1>2, <1>5, <1>6, <2>1, <2>2, <2>3, CallGiven DEF OrderInv
<1>8. QueueLine'
  BY <1>2, <1>3, QueueSame DEF OrderInv, SentStays
<1>9. PostLine'
  <2>1. Has(u)'
    BY <1>2 DEF Has
  <2>2. \A j \in Expected : j # explst[at].reqidx => SameHead(j)
    BY <1>3, <1>d
  <2> QED BY <1>2, <1>4, <1>5, <2>1, <2>2, PostCut DEF OrderInv
<1>10. ASSUME NEW t, NEW k, WithRecv(t, k)' PROVE WithRecv(t, k) \/ (t = s /\ k = n)
  <2>1. PICK x \in DOMAIN recvs' : recvs'[x].msg = <<t, k>>
    BY <1>10 DEF WithRecv
  <2>2. CASE x = u
    BY <1>2, <2>1, <2>2
  <2>3. CASE x # u
    <3>1. x \in DOMAIN recvs /\ recvs[x].msg = <<t, k>>
      BY <1>2, <1>4, <2>1, <2>3 DEF SameCall
    <3> QED BY <3>1 DEF WithRecv
  <2> QED BY <2>2, <2>3
<1>11. \A t, k : IsQueued(t, k)' <=> IsQueued(t, k)
  <2>1. \A j \in Unexpected : SameHead(j)
    BY <1>2, <1>3
  <2> QED BY <1>2, <2>1, QueuedSame
<1>12. RingLine'
  <2>1. \A t \in Srcs : \A k : Taken(t, k)' =>
          Taken(t, k) \/ (t = s /\ k = n /\ ring[s][1].part = 1)
    BY <1>2, <1>10, <1>11, <1>a DEF Taken
  <2> QED BY <1>2, <1>a, <1>b, <2>1, RingCut DEF OrderInv
<1>13. Apart'
  BY <1>2, <1>6, <1>10, <1>11 DEF OrderInv, Apart
<1> QED BY <1>7, <1>8, <1>9, <1>12, <1>13 DEF OrderInv

LEMMA PktUnexpectedOrder ==
  ASSUME PoolInv, PoolInv', DataInv, OrderInv, NEW s \in Srcs, PktUnexpected(s),
         ~ RecvReqRefused
  PROVE  OrderInv'
<1>1. CASE PoolEmpty
  <2>1. UNCHANGED <<req, explst, uexplst, ring, sent, recvs>>
    BY <1>1 DEF PktUnexpected, poolVars, lstVars, srcVars, userVars
  <2> QED BY <2>1, QuietOrder, SameHeads DEF Quiet, SameCall
<1>2. CASE ~ PoolEmpty
  <2>a. PICK pkt : pkt = ring[s][1]
    OBVIOUS
  <2>n. PICK n, tag : n = pkt.msg /\ tag = pkt.tag
    OBVIOUS
  <2>1. PICK i \in MsgReq, e \in Lst : QueuesMsg(s, pkt, i, e)
    BY <1>2, <2>a, PktUnexpectedStep
  <2>2. /\ UNCHANGED <<explst, sent, recvs>> /\ RingTaken(s) /\ pkt.part = 1
        /\ e.reqidx = i /\ e.src = s /\ e.tag = tag /\ uexplst' = Append(uexplst, e)
        /\ i \notin Expected \cup Unexpected /\ Unexpected' = Unexpected \cup {i}
        /\ req'[i].src = s /\ req'[i].msg = n
    BY <2>1, <2>n DEF QueuesMsg
  <2>3. \A j \in Expected \cup Unexpected : SameHead(j)
    <3>1. \A j \in MsgReq : j # i => req'[j] = req[j]
      BY <2>1 DEF QueuesMsg
    <3> QED BY <2>2, <3>1, RolesInRange DEF SameHead
  <2>4. /\ n \in DOMAIN sent[s] /\ tag = sent[s][n].tag
        /\ ~ WithRecv(s, n) /\ \A k : Taken(s, k) => k < n
    BY <2>2, <2>a, <2>n, NextIsNew
  <2>5. SentStays /\ \A x \in DOMAIN recvs : x \in DOMAIN recvs' /\ SameCall(x)
    BY <2>2 DEF SentStays, SameCall
  <2>6. Once' /\ Matched' /\ InTurn'
    BY <2>2, <2>5, CallsSame DEF OrderInv
  <2>7. QueueLine'
    <3>1. \A j \in Unexpected : req[j].src = req'[i].src => req[j].msg < req'[i].msg
      BY <2>2, <2>4 DEF Taken, IsQueued
    <3>2. i = e.reqidx /\ e.src = req'[i].src /\ e.tag = sent[req'[i].src][req'[i].msg].tag
      BY <2>2, <2>4
    <3> QED BY <2>2, <2>3, <3>1, <3>2, QueuePut DEF OrderInv
  <2>8. PostLine'
    BY <2>2, <2>3, <2>5, PostSame DEF OrderInv
  <2>9. \A t, k : WithRecv(t, k)' <=> WithRecv(t, k)
    BY <2>2, <2>5, WithSame
  <2>10. ASSUME NEW t, NEW k, IsQueued(t, k)' PROVE IsQueued(t, k) \/ (t = s /\ k = n)
    <3>1. PICK j \in Unexpected' : req'[j].src = t /\ req'[j].msg = k
      BY <2>10 DEF IsQueued
    <3> QED BY <2>2, <2>3, <3>1 DEF IsQueued, SameHead
  <2>11. RingLine'
    <3>1. \A t \in Srcs : \A k : Taken(t, k)' =>
            Taken(t, k) \/ (t = s /\ k = n /\ ring[s][1].part = 1)
      BY <2>2, <2>9, <2>10, <2>a DEF Taken
    <3> QED BY <2>2, <2>a, <2>n, <3>1, RingCut DEF OrderInv
  <2>12. Apart'
    BY <2>2, <2>4, <2>9, <2>10 DEF OrderInv, Apart
  <2> QED BY <2>6, <2>7, <2>8, <2>11, <2>12 DEF OrderInv
<1> QED BY <1>1, <1>2

LEMMA OrderInit == ASSUME Init PROVE OrderInv
<1>1. /\ explst = <<>> /\ uexplst = <<>> /\ recvs = <<>>
      /\ \A s \in Srcs : ring[s] = <<>> /\ sent[s] = <<>>
  BY DEF Init
<1>2. DOMAIN <<>> = {}
  OBVIOUS
<1>3. /\ DOMAIN explst = {} /\ DOMAIN uexplst = {} /\ DOMAIN recvs = {}
      /\ \A s \in Srcs : DOMAIN ring[s] = {} /\ DOMAIN sent[s] = {}
  BY ONLY <1>1, <1>2
<1>4. Once /\ Matched /\ InTurn
  BY <1>3 DEF Once, Matched, InTurn
<1>5. QueueLine /\ PostLine
  BY <1>3 DEF QueueLine, PostLine
<1>6. RingLine /\ Apart
  BY <1>3 DEF RingLine, Apart, First
<1> QED BY <1>4, <1>5, <1>6 DEF OrderInv

(* a rank that has aborted does nothing                                    *)
LEMMA FaultStops == ASSUME fault, [Next]_vars PROVE UNCHANGED vars
BY DEF Next, Progress, Recv, Post, RndzDone, PktExpected, PktUnexpected, PktBody, MrqLclGet,
       NetGet, RecvUnexpected, RecvPosted, WaitRecv, WaitCmplRecv, Send, WaitSend, EngineDone

LEMMA OrderNext ==
  ASSUME PoolInv, PoolInv', DataInv, NoMissedMatch, LostInv \/ fault, OrderInv,
         [Next]_vars, [~ PacketDropped]_vars
  PROVE  OrderInv'
<1>0. CASE UNCHANGED vars
  <2>1. UNCHANGED <<poolVars, lstVars, urp, ring, rgetVars, srcVars, userVars, fault>>
    BY <1>0 DEF vars
  <2>2. UNCHANGED <<req, explst, uexplst, ring, sent, recvs>>
    BY <2>1 DEF poolVars, lstVars, srcVars, userVars
  <2> QED BY <2>2, QuietOrder, SameHeads DEF Quiet, SameCall
<1>1. CASE ~ UNCHANGED vars
  <2>1. Next /\ ~ PacketDropped /\ LostInv
    BY <1>1, FaultStops
  <2>2. ASSUME NEW s \in Srcs, NEW tag \in Tags, NEW kind \in Kinds, Post(s, tag, kind)
        PROVE  OrderInv'
    BY <2>2, PostOrder
  <2>3. ASSUME NEW s \in Srcs, NEW pos \in rgetdone[s], RndzDone(s, pos)
        PROVE  OrderInv'
    BY <2>3, RndzDoneQuiet, QuietOrder
  <2>4. ASSUME NEW s \in Srcs, Progress(s)
        PROVE  OrderInv'
    <3>1. PktUnexpected(s) => ~ RecvReqRefused
      BY <2>1 DEF PacketDropped
    <3>2. MrqLclGet(s) => Quiet
      BY MrqLclGetQuiet
    <3> QED BY <2>1, <2>4, <3>1, <3>2, PktExpectedOrder, PktUnexpectedOrder, PktBodyOrder,
               QuietOrder DEF Progress
  <2>5. ASSUME NEW s \in Srcs, NetGet(s)
        PROVE  OrderInv'
    BY <2>5, NetGetQuiet, QuietOrder
  <2>6. ASSUME NEW a \in RecvArgs, Recv(a[1], a[2], a[3])
        PROVE  OrderInv'
    <3>1. a[1] \in Srcs \cup {ANY} /\ a[2] \in Tags \cup {ANY} /\ a[3] \in Nat
      BY RecvAssumption
    <3> QED BY <2>1, <2>6, <3>1, RecvUnexpectedOrder, RecvPostedOrder DEF Recv
  <2>7. ASSUME NEW r \in DOMAIN recvs, WaitRecv(r) \/ WaitCmplRecv(r)
        PROVE  OrderInv'
    BY <2>7, WaitRecvQuiet, QuietOrder
  <2>8. ASSUME NEW type \in SendTypes, Send(type)
        PROVE  OrderInv'
    <3>1. CASE PoolEmpty
      <4>1. UNCHANGED <<req, explst, uexplst, ring, sent, recvs>>
        BY <2>8, <3>1 DEF Send, Fault, poolVars, lstVars, srcVars, userVars
      <4> QED BY <4>1, QuietOrder, SameHeads DEF Quiet, SameCall
    <3>2. CASE ~ PoolEmpty
      BY <2>8, <3>2, SendQuiet, QuietOrder
    <3> QED BY <3>1, <3>2
  <2>9. ASSUME NEW k \in DOMAIN sends, WaitSend(k)
        PROVE  OrderInv'
    BY <2>9, WaitSendQuiet, QuietOrder
  <2>10. ASSUME NEW i \in engine, EngineDone(i)
         PROVE  OrderInv'
    BY <2>10, EngineDoneQuiet, QuietOrder
  <2> QED BY <2>1, <2>2, <2>3, <2>4, <2>5, <2>6, <2>7, <2>8, <2>9, <2>10 DEF Next
<1> QED BY <1>0, <1>1

(* every message is somewhere, or the rank has aborted                     *)
LEMMA LostOrStopped ==
  ASSUME PoolInv, DataInv, RndzInv, LostInv \/ fault, [Next]_vars, [~ PacketDropped]_vars
  PROVE  (LostInv \/ fault)'
<1>1. CASE fault
  BY <1>1, FaultStops DEF vars
<1>2. CASE ~ fault /\ [~ RunsOut]_vars
  BY <1>2, LostNext
<1>3. CASE ~ UNCHANGED vars /\ RunsOut
  <2>1. ASSUME NEW s \in Srcs, PoolEmpty, PktUnexpected(s) PROVE fault'
    <3>1. ~ RecvReqRefused
      BY <1>3, <2>1 DEF PacketDropped
    <3> QED BY <2>1, <3>1 DEF PktUnexpected
  <2>2. ASSUME NEW src, NEW tag, NEW size, PoolEmpty, RecvPosted(src, tag, size) PROVE fault'
    BY <2>2 DEF RecvPosted, Fault
  <2>3. ASSUME NEW type, PoolEmpty, Send(type) PROVE fault'
    BY <2>3 DEF Send, Fault
  <2>4. ASSUME NEW s, NEW tag, NEW kind, kind.rndz /\ rndzfree[s] = <<>>, Post(s, tag, kind)
        PROVE  fault'
    BY <2>4 DEF Post, Fault
  <2> QED BY <1>3, <2>1, <2>2, <2>3, <2>4 DEF RunsOut
<1> QED BY <1>1, <1>2, <1>3

(* As long as the engine drops no packet for want of a request, receives   *)
(* for one source and tag get that source's messages with that tag in the  *)
(* order they were sent, none twice, and none is skipped but for one that  *)
(* a wildcard receive has: whether a message meets a posted receive or a   *)
(* receive a queued message, and whatever wildcards, waits and transfers   *)
(* there are in between (utf_recv, utf_recvengine, utf_explst_match,       *)
(* utf_uexplst_match).  An allocation that fails ends the rank and breaks  *)
(* nothing.                                                                *)
THEOREM ReceivesInOrder == Spec /\ [][~ PacketDropped]_vars => []InOrder
<1> DEFINE Inv == /\ PoolInv /\ DataInv /\ RndzInv /\ NoMissedMatch
                  /\ LostInv \/ fault
                  /\ OrderInv
<1>1. Init => Inv
  <2>1. Init => NoMissedMatch
    BY DEF Init, NoMissedMatch
  <2> QED BY <2>1, PoolInit, DataInit, RndzInit, LostInit, OrderInit
<1>2. Inv /\ [Next]_vars /\ [~ PacketDropped]_vars => Inv'
  BY PoolNext, DataNext, RndzNext, MatchNext, LostOrStopped, OrderNext
<1>3. Inv => InOrder
  BY OrderInOrder
<1> QED BY <1>1, <1>2, <1>3, PTL DEF Spec

=============================================================================
