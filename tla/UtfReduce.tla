------------------------------ MODULE UtfReduce ------------------------------
(***************************************************************************)
(* The operands of reductions over barrier gates (src/vbg/utf_bg_barrier.c *)
(* and .h).  The interconnect reduces vectors of unsigned words and knows  *)
(* SUM, MAX, MAXLOC and the bitwise operations.  Every other operation and *)
(* type is mapped onto these: utf_bg_reduce_base and its helpers write the *)
(* converted user data into idata, UTF_BG_SET_RESULT_... converts the      *)
(* words that come back.                                                   *)
(*                                                                         *)
(* Words have WordBits bits (64 in the code).  Types have that size or     *)
(* SmallBits, as a float, an int or a byte beside a double or a long.      *)
(* idata comes from posix_memalign and is never cleared: an operation      *)
(* finds there what the one before left.  Reals of a size have a sign,     *)
(* Mantissa[size] bits of mantissa and an exponent, as IEEE 754 has them;  *)
(* the sums of reals and complex numbers are done on doubles (BFPSUM).     *)
(***************************************************************************)
EXTENDS Integers, Sequences, FiniteSets, SequencesExt, FiniteSetsExt

CONSTANTS
  WordBits,      \* bits of a word
  SmallBits,     \* bits of the smaller types, a divisor of WordBits
  Mantissa,      \* bits of the mantissa of a real type, by its size
  NWords,        \* words of idata (UTF_BG_REDUCE_ULMT_ELMS_6)
  Stale,         \* words idata may hold before the first call
  Calls,         \* the collectives that may be called
  Buffers(_),    \* the user buffers tried for a call
  MaxCalls       \* bound: collectives per process

Procs == {0, 1}
All == -1
Sizes == {SmallBits, WordBits}
WordIdx == 0 .. NWords - 1

ASSUME ConstAssumption ==
  /\ SmallBits \in Nat /\ SmallBits > 1
  /\ WordBits \in Nat /\ WordBits > SmallBits /\ WordBits % SmallBits = 0
  /\ \A s \in Sizes : Mantissa[s] \in 1 .. s - 2
  /\ Mantissa[SmallBits] < Mantissa[WordBits]
  /\ NWords \in Nat /\ NWords > 1
  /\ Stale \subseteq 0 .. 2 ^ WordBits - 1
  /\ MaxCalls \in Nat

Extreme == {"MAX", "MIN"}
Located == {"MAXLOC", "MINLOC"}
BitOps == {"BAND", "BOR", "BXOR"}
Logical == {"LAND", "LOR", "LXOR"}

NoCall == [op |-> "NONE", dt |-> "NONE", size |-> WordBits, count |-> 0, root |-> All]

VARIABLES
  idata,     \* poll_info.utf_bg_poll_idata of every process
  soft,      \* ~ UTF_BG_ALGORITHM: both are on one node, 0 is its manager
  call,      \* the collective in progress, or the last one
  buf,       \* what the processes called it with, <<>> before
  out,       \* their result buffers, <<>> if not written
  ncalls

vars == <<idata, soft, call, buf, out, ncalls>>

-----------------------------------------------------------------------------
(* Words.                                                                  *)

Modulus == 2 ^ WordBits
MASK_HB == 2 ^ (WordBits - 1)
MASK_MAX == Modulus - 1
Inverted(w) == MASK_MAX - w
Flipped(w) == (w + MASK_HB) % Modulus

(* memcpy of a value to the high-order bytes of a word, and back           *)
Shift(size) == 2 ^ (WordBits - size)
Place(old, v, size) == v * Shift(size) + (old % Shift(size))
High(w, size) == w \div Shift(size)

Bit(w, i) == (w \div 2 ^ i) % 2
FromBits(B(_)) == MapThenSumSet(LAMBDA i : (2 ^ i) * B(i), 0 .. WordBits - 1)

-----------------------------------------------------------------------------
(* Reals.  Magnitudes are numbered in their order, zero first, infinity    *)
(* after the greatest number and the NaNs after it; they are measured in   *)
(* units of the least magnitude of the wide type.                          *)

Negative(v, size) == v >= 2 ^ (size - 1)
Magnitude(v, size) == v % 2 ^ (size - 1)
Infinity(size) == 2 ^ (size - 1) - 2 ^ Mantissa[size]
IsNaN(v, size) == Magnitude(v, size) > Infinity(size)
Bias(size) == 2 ^ (size - 2 - Mantissa[size]) - 1

Units(m, size) ==
  LET one      == 2 ^ Mantissa[size]
      expo     == m \div one
      Scale(x) == 2 ^ (x - Bias(size) - Mantissa[size]
                         + Bias(WordBits) + Mantissa[WordBits] - 1)
  IN  IF expo = 0 THEN m * Scale(1) ELSE (one + (m % one)) * Scale(expo)

(* the magnitude nearest to x units, the even one of two; beyond the       *)
(* greatest number it is infinity                                          *)
Nearest(x, size) ==
  LET m == Max({k \in 0 .. Infinity(size) : Units(k, size) <= x})
      twice == Units(m, size) + Units(m + 1, size)
  IN  IF m = Infinity(size) \/ 2 * x < twice THEN m
      ELSE IF 2 * x > twice \/ m % 2 = 1 THEN m + 1 ELSE m

Rounded(neg, x, size) == (IF neg THEN 2 ^ (size - 1) ELSE 0) + Nearest(x, size)
NaN(size) == Infinity(size) + 1

(* the conversions between double and float                                *)
Convert(v, from, to) ==
  IF IsNaN(v, from) THEN NaN(to)
  ELSE IF Magnitude(v, from) = Infinity(from)
  THEN Infinity(to) + (IF Negative(v, from) THEN 2 ^ (to - 1) ELSE 0)
  ELSE Rounded(Negative(v, from), Units(Magnitude(v, from), from), to)

(* addition of doubles                                                     *)
RealSum(a, b) ==
  LET inf(v) == Magnitude(v, WordBits) = Infinity(WordBits)
      val(v) == (IF Negative(v, WordBits) THEN -1 ELSE 1) * Units(Magnitude(v, WordBits), WordBits)
      x      == val(a) + val(b)
      neg    == x < 0 \/ (x = 0 /\ a = MASK_HB /\ b = MASK_HB)
  IN  IF IsNaN(a, WordBits) \/ IsNaN(b, WordBits) \/ (inf(a) /\ inf(b) /\ a # b)
      THEN NaN(WordBits)
      ELSE IF inf(a) THEN a ELSE IF inf(b) THEN b
      ELSE Rounded(neg, IF x < 0 THEN - x ELSE x, WordBits)

-----------------------------------------------------------------------------
(* From user data to operands.                                             *)

(* complex numbers are summed by their two parts                           *)
IsRealSum(c) == c.op = "SUM" /\ c.dt \in {"REAL", "COMP"}
PartSize(c) == IF c.dt = "COMP" THEN c.size \div 2 ELSE c.size
Part(c, b, i) == IF c.dt = "COMP" THEN b[1][i + 1] ELSE b[i + 1]

(* mutant: a float is copied as an integer of its size is                  *)
RealSumWordCopied(v, size) == Place(0, v, size)

(* utf_bg_reduce_double                                                    *)
RealSumWord(v, size) == IF size = WordBits THEN v ELSE Convert(v, size, WordBits)

(* mutant: the word is not cleared first                                   *)
SumWordStale(old, v, size) == Place(old, v, size)

(* utf_bg_reduce_uint64: idata[i] = 0, then the value                  *)
SumWord(old, v, size) == Place(0, v, size)

(* utf_bg_reduce_uint64_max_min: MIN is the MAX of the complements         *)
ExtremeWord(op, dt, w) ==
  LET s == IF dt = "INT" THEN Flipped(w) ELSE w
  IN  IF op = "MIN" THEN Inverted(s) ELSE s

(* UTF_BG_REDUCE_MASK_NAN_...: the ones of the mantissa                    *)
MASK_NAN(size) == (2 ^ Mantissa[size] - 1) * Shift(size)

(* mutant: NaNs keep their places beyond the infinities                    *)
RealWordKeepsNaN(op, w, size) ==
  IF op = "MAX" THEN (IF w >= MASK_HB THEN Inverted(w) ELSE Flipped(w))
  ELSE IF w < MASK_HB THEN MASK_HB - 1 - w ELSE w

(* utf_bg_reduce_double_max_min: sign and magnitude become an unsigned     *)
(* number of the same order (MAX) or the reverse (MIN), moved up until the *)
(* NaNs at its upper end wrap around to the lower                          *)
RealWord(op, w, size) ==
  LET f == IF op = "MAX"
           THEN (IF w >= MASK_HB THEN Inverted(w) ELSE Flipped(w))
           ELSE (IF w < MASK_HB THEN MASK_HB - 1 - w ELSE w)
  IN  (f + MASK_NAN(size)) % Modulus

(* mutant: MINLOC complements the locations as well                        *)
LocatedWordBoth(op, w, i) ==
  IF op = "MINLOC" THEN Inverted(Flipped(w)) ELSE Flipped(w)

(* utf_bg_reduce_maxmin_loc: values are the even words, locations the odd  *)
LocatedWord(op, w, i) ==
  IF op = "MINLOC" /\ i % 2 = 0 THEN Inverted(Flipped(w)) ELSE Flipped(w)

(* mutant: the next word is begun one element late                         *)
NextWordLate(i, j) == IF i % WordBits = 1 /\ i # 1 THEN j + 1 ELSE j

(* where the element after the i-th goes                                   *)
NextWord(i, j) == IF i % WordBits = 0 THEN j + 1 ELSE j

(* utf_bg_reduce_logical: a flag replaces the lowest bit of the word,      *)
(* which is moved up for the next one                                      *)
LogicalWords(old, b) ==
  LET Flag(w, v) == 2 * (w \div 2) + (IF v = 0 THEN 0 ELSE 1)
      Step(acc, i) ==
        LET set == [acc.w EXCEPT ![acc.j] = Flag(@, b[i])]
            j   == NextWord(i, acc.j)
        IN  [w |-> IF i = Len(b) THEN set
                   ELSE [set EXCEPT ![j] = (2 * @) % Modulus],
             j |-> j]
  IN  FoldLeft(Step, [w |-> old, j |-> 0], [i \in 1 .. Len(b) |-> i]).w

PerWord(size) == WordBits \div size

(* memcpy of elements of a size, the first at the low end of the word      *)
PackedWord(old, b, i, size) ==
  LET At(s) == IF i * PerWord(size) + s < Len(b) THEN b[i * PerWord(size) + s + 1]
               ELSE (old \div 2 ^ (s * size)) % 2 ^ size
  IN  MapThenSumSet(LAMBDA s : At(s) * 2 ^ (s * size), 0 .. PerWord(size) - 1)

(* utf_broadcast: the root sends its buffer, the others zeros              *)
BcastBuffer(p, c, b) == IF p = c.root THEN b ELSE [i \in DOMAIN b |-> 0]

(* the words an operation uses (utf_bg_poll_numcount)                      *)
NumCount(c) ==
  CASE IsRealSum(c) /\ c.dt = "COMP" -> 2
    [] c.op \in Extreme \cup {"SUM"} -> c.count
    [] c.op \in Located -> 2 * c.count
    [] c.op \in Logical -> (c.count + WordBits - 1) \div WordBits
    [] OTHER -> (c.count + PerWord(c.size) - 1) \div PerWord(c.size)

(* the limits on count of utf_bg_reduce_base and utf_broadcast             *)
Limit(c) ==
  CASE IsRealSum(c) -> IF c.dt = "COMP" THEN 1 ELSE NWords \div 2
    [] c.op \in Extreme \cup {"SUM"} -> NWords
    [] c.op \in Located -> NWords \div 2
    [] c.op \in Logical -> NWords * WordBits
    [] OTHER -> NWords * PerWord(c.size)

(* idata of a process after its call with buffer b; the values of pairs    *)
(* have the size of the type, their locations are small                    *)
Operand(p, c, b, old) ==
  LET Word(i) ==
        CASE IsRealSum(c) -> RealSumWord(Part(c, b, i), PartSize(c))
          [] c.op = "SUM" /\ c.dt = "INT" -> SumWord(old[i], b[i + 1], c.size)
          [] c.op \in Extreme /\ c.dt # "REAL" ->
               ExtremeWord(c.op, c.dt, Place(old[i], b[i + 1], c.size))
          [] c.op \in Extreme /\ c.dt = "REAL" ->
               RealWord(c.op, Place(old[i], b[i + 1], c.size), c.size)
          [] c.op \in Located ->
               LET size == IF i % 2 = 0 THEN c.size ELSE SmallBits
               IN  LocatedWord(c.op, Place(old[i], b[(i \div 2) + 1][(i % 2) + 1], size), i)
          [] c.op \in BitOps -> PackedWord(old[i], b, i, c.size)
          [] c.op = "BCAST" -> PackedWord(old[i], BcastBuffer(p, c, b), i, c.size)
  IN  IF c.op \in Logical THEN LogicalWords(old, b)
      ELSE [i \in DOMAIN old |-> IF i < NumCount(c) THEN Word(i) ELSE old[i]]

-----------------------------------------------------------------------------
(* What the interconnect and SM_REDUCE_OP do with the operands.            *)

UtofuOp(c) ==
  CASE IsRealSum(c) -> "BFPSUM"
    [] c.op = "MIN" -> "MAX" [] c.op = "MINLOC" -> "MAXLOC"
    [] c.op = "LAND" -> "BAND" [] c.op \in {"LOR", "BCAST"} -> "BOR"
    [] c.op = "LXOR" -> "BXOR" [] OTHER -> c.op

WordOp(op, a, b) ==
  CASE op = "SUM" -> (a + b) % Modulus
    [] op = "BFPSUM" -> RealSum(a, b)
    [] op = "MAX" -> IF a < b THEN b ELSE a
    [] op = "BAND" -> FromBits(LAMBDA i : Bit(a, i) * Bit(b, i))
    [] op = "BOR" -> FromBits(LAMBDA i : IF Bit(a, i) + Bit(b, i) > 0 THEN 1 ELSE 0)
    [] op = "BXOR" -> FromBits(LAMBDA i : (Bit(a, i) + Bit(b, i)) % 2)

(* the first count words of d1 after those of d2 have been taken in        *)
ReduceOp(op, d1, d2, count) ==
  LET v(i)    == i - (i % 2)
      less(i) == d1[v(i)] < d2[v(i)]
      same(i) == d1[v(i)] = d2[v(i)] /\ d1[v(i) + 1] > d2[v(i) + 1]
      Loc(i)  == IF less(i) \/ same(i) THEN d2[i] ELSE d1[i]
  IN  [i \in DOMAIN d1 |-> IF i >= count THEN d1[i]
                           ELSE IF op = "MAXLOC" THEN Loc(i)
                           ELSE WordOp(op, d1[i], d2[i])]

-----------------------------------------------------------------------------
(* From the words of the result to user data.                              *)

(* UTF_BG_SET_RESULT_UINT64_MAX_MIN                                        *)
FromExtreme(op, dt, w) ==
  LET m == IF op = "MIN" THEN Inverted(w) ELSE w
  IN  IF dt = "INT" THEN Flipped(m) ELSE m

(* UTF_BG_SET_RESULT_DOUBLE_MAX_MIN                                        *)
FromReal(op, w, size) ==
  LET f == (w - MASK_NAN(size)) % Modulus
  IN  IF op = "MAX" THEN (IF f >= MASK_HB THEN Flipped(f) ELSE Inverted(f))
      ELSE IF f < MASK_HB THEN MASK_HB - 1 - f ELSE f

(* UTF_BG_SET_RESULT_MAXMIN_LOC                                            *)
FromLocated(op, w, i) ==
  IF op = "MINLOC" /\ i % 2 = 0 THEN Flipped(Inverted(w)) ELSE Flipped(w)

(* UTF_BG_SET_RESULT_LOGICAL: the flags of a word end at its lowest bit    *)
FromLogical(words, count, e) ==
  LET i == (e - 1) \div WordBits
      bit_count == IF WordBits >= count - i * WordBits
                   THEN count - i * WordBits ELSE WordBits
  IN  Bit(words[i], bit_count - 1 - ((e - 1) % WordBits))

FromPacked(words, e, size) ==
  (words[(e - 1) \div PerWord(size)]
     \div 2 ^ (((e - 1) % PerWord(size)) * size)) % 2 ^ size

(* UTF_BG_SET_RESULT_DOUBLE and _FLOAT                                     *)
FromRealSum(w, size) == IF size = WordBits THEN w ELSE Convert(w, WordBits, size)

(* both polls of a sum of reals: the size is that of a part                *)
RealElement(c, odata, e) ==
  IF c.dt = "COMP"
  THEN <<FromRealSum(odata[0], PartSize(c)), FromRealSum(odata[1], PartSize(c))>>
  ELSE FromRealSum(odata[e - 1], PartSize(c))

(* the user's element e                                                    *)
Element(c, odata, e) ==
  CASE IsRealSum(c) -> RealElement(c, odata, e)
    [] c.op = "SUM" /\ c.dt = "INT" -> High(odata[e - 1], c.size)
    [] c.op \in Extreme /\ c.dt # "REAL" ->
         High(FromExtreme(c.op, c.dt, odata[e - 1]), c.size)
    [] c.op \in Extreme /\ c.dt = "REAL" ->
         High(FromReal(c.op, odata[e - 1], c.size), c.size)
    [] c.op \in Located ->
         <<High(FromLocated(c.op, odata[2 * e - 2], 0), c.size),
           High(FromLocated(c.op, odata[2 * e - 1], 1), SmallBits)>>
    [] c.op \in Logical -> FromLogical(odata, c.count, e)
    [] OTHER -> FromPacked(odata, e, c.size)

Result(c, odata) == [e \in 1 .. c.count |-> Element(c, odata, e)]

-----------------------------------------------------------------------------
Init ==
  /\ idata \in [Procs -> [WordIdx -> Stale]]
  /\ soft \in BOOLEAN
  /\ call = NoCall
  /\ buf = [p \in Procs |-> <<>>] /\ out = [p \in Procs |-> <<>>]
  /\ ncalls = 0

Started == {p \in Procs : buf[p] # <<>>}
Done == \E p \in Procs : out[p] # <<>>

(* the processes of a group call the same collectives in the same order    *)
Callable ==
  IF call # NoCall /\ ~ Done THEN {call}
  ELSE {c \in Calls : ncalls < MaxCalls}

(* utf_allreduce, utf_reduce or utf_broadcast of process p; a count above  *)
(* the limit is refused (UTF_ERR_NOT_AVAILABLE) before anything is stored  *)
Start(p, c, b) ==
  /\ p \notin Started \/ Done
  /\ Len(b) = c.count /\ c.count <= Limit(c)
  /\ IF Done \/ call = NoCall
     THEN /\ ncalls' = ncalls + 1
          /\ call' = c
          /\ buf' = [q \in Procs |-> IF q = p THEN b ELSE <<>>]
          /\ out' = [q \in Procs |-> <<>>]
     ELSE /\ buf' = [buf EXCEPT ![p] = b]
          /\ UNCHANGED <<call, out, ncalls>>
  /\ idata' = [idata EXCEPT ![p] = Operand(p, c, b, @)]
  /\ UNCHANGED soft

(* utf_bg_poll_root: the result is stored at the root of a reduction, and  *)
(* everywhere but at the root of a broadcast                               *)
StoresResult(p) ==
  IF call.op = "BCAST" THEN p # call.root ELSE call.root \in {All, p}

(* utf_poll_reduce of both processes once both have called.  In a node the *)
(* manager takes the other one's operands into its own idata; the barrier  *)
(* gates leave idata alone.                                                *)
Complete ==
  LET odata == ReduceOp(UtofuOp(call), idata[0], idata[1], NumCount(call))
  IN  /\ Started = Procs /\ ~ Done
      /\ out' = [p \in Procs |-> IF StoresResult(p) THEN Result(call, odata) ELSE <<>>]
      /\ idata' = IF soft THEN [idata EXCEPT ![0] = odata] ELSE idata
      /\ UNCHANGED <<soft, call, buf, ncalls>>

Next ==
  \/ \E p \in Procs, c \in Callable : \E b \in Buffers(c) : Start(p, c, b)
  \/ Complete

Spec == Init /\ [][Next]_vars

-----------------------------------------------------------------------------
Word == 0 .. Modulus - 1

(* what the processes that get a result find in element e                  *)
Outcomes(e) == {out[p][e] : p \in {q \in Procs : out[q] # <<>>}}

Signed(v, size) == IF v >= 2 ^ (size - 1) THEN v - 2 ^ size ELSE v
Value(v) == IF call.dt = "INT" THEN Signed(v, call.size) ELSE v
Best(op, S) == IF op \in {"MAX", "MAXLOC"} THEN Max(S) ELSE Min(S)

(* MAX and MIN of integers, signed or not, are those of the user's values, *)
(* whatever idata held below and beside them, and their sum is exact       *)
(* modulo the size of the type.                                            *)
IntegersCorrect ==
  call.dt # "REAL" =>
    \A e \in 1 .. call.count : \A x \in Outcomes(e) :
      /\ call.op \in Extreme =>
           Value(x) = Best(call.op, {Value(buf[p][e]) : p \in Procs})
      /\ call.op = "SUM" /\ call.dt = "INT" =>
           x = (buf[0][e] + buf[1][e]) % 2 ^ call.size

RealOrder(v) ==
  (IF Negative(v, call.size) THEN -1 ELSE 1) * Magnitude(v, call.size)

(* MAX and MIN of reals: the result is one of the operands, the greatest   *)
(* or the least of those that are numbers (both zeros being the same), and *)
(* a NaN only if there is no number among them.                            *)
RealCorrect ==
  call.op \in Extreme /\ call.dt = "REAL" =>
    \A e \in 1 .. call.count : \A x \in Outcomes(e) :
      LET vals == {buf[p][e] : p \in Procs}
          nums == {v \in vals : ~ IsNaN(v, call.size)}
      IN  /\ x \in vals
          /\ nums # {} => /\ ~ IsNaN(x, call.size)
                          /\ RealOrder(x) = Best(call.op, {RealOrder(v) : v \in nums})

(* the sum of two reals as no rounding has touched it, in units            *)
Exact(v, size) ==
  (IF Negative(v, size) THEN -1 ELSE 1) * Units(Magnitude(v, size), size)

(* no real of the size is nearer to the sum of u and v than x              *)
NearestSum(x, u, v, size) ==
  LET sum == Exact(u, size) + Exact(v, size)
      Far(m) == LET d == Units(m, size) - (IF sum < 0 THEN - sum ELSE sum)
                IN  IF d < 0 THEN - d ELSE d
      inf == {y \in {u, v} : Magnitude(y, size) = Infinity(size)}
  IN  CASE IsNaN(u, size) \/ IsNaN(v, size) \/ Cardinality(inf) = 2 -> IsNaN(x, size)
        [] Cardinality(inf) = 1 /\ ~ IsNaN(u, size) /\ ~ IsNaN(v, size) -> x \in inf
        [] OTHER -> /\ ~ IsNaN(x, size)
                    /\ Magnitude(x, size) > 0 => (Negative(x, size) <=> sum < 0)
                    /\ \A m \in 0 .. Infinity(size) :
                         Far(Magnitude(x, size)) <= Far(m)

(* The sum of reals, and of the parts of complex numbers, is the real of   *)
(* the user's type nearest to the exact sum (an infinity where that is too *)
(* great), although the words summed are doubles: floats are widened       *)
(* without loss and rounded once, on the way back (utf_bg_reduce_double,   *)
(* UTF_BG_SET_RESULT_FLOAT), over the gates and in a node alike.           *)
RealSumCorrect ==
  IsRealSum(call) =>
    \A e \in 1 .. call.count : \A x \in Outcomes(e) :
      \A i \in 0 .. NumCount(call) - 1 :
        NearestSum(Part(call, <<x>>, i), Part(call, buf[0], i), Part(call, buf[1], i),
                   PartSize(call))

(* MAXLOC and MINLOC return the extreme value with a location it was found *)
(* at; values of a word's size that are equal return the smaller location. *)
LocatedCorrect ==
  call.op \in Located =>
    \A e \in 1 .. call.count : \A x \in Outcomes(e) :
      LET val(pair) == Signed(pair[1], call.size)
          loc(pair) == Signed(pair[2], SmallBits)
          pairs     == {buf[p][e] : p \in Procs}
          best      == {q \in pairs : val(q) = Best(call.op, {val(r) : r \in pairs})}
      IN  /\ x \in best
          /\ call.size = WordBits => loc(x) = Min({loc(q) : q \in best})

(* Elements that share words, the last word being used in part, come back  *)
(* in place and no collective that is accepted uses more words than idata  *)
(* has (utf_bg_reduce_base).  A broadcast gives everybody the root's bytes,*)
(* a bitwise operation works element by element, and a logical one gives 0 *)
(* or 1 as the user's values, zero or not, have it.                        *)
PackedCorrect ==
  /\ idata \in [Procs -> [WordIdx -> Word]] /\ NumCount(call) <= NWords
  /\ \A e \in 1 .. call.count : \A x \in Outcomes(e) :
       LET n == Cardinality({p \in Procs : buf[p][e] # 0})
       IN  /\ call.op = "BCAST" => x = buf[call.root][e]
           /\ call.op \in BitOps => x = WordOp(call.op, buf[0][e], buf[1][e])
           /\ call.op = "LAND" => x = IF n = 2 THEN 1 ELSE 0
           /\ call.op = "LOR" => x = IF n > 0 THEN 1 ELSE 0
           /\ call.op = "LXOR" => x = n % 2
=============================================================================
