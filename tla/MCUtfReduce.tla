----------------------------- MODULE MCUtfReduce -----------------------------
(* An instance of UtfReduce for TLC: words of six bits.  The small real    *)
(* type has a sign, one bit of exponent and one of mantissa (zeros, a      *)
(* number, infinities and NaNs), the wide one two and three.               *)
EXTENDS UtfReduce, TLC

Reals == 3 :> 1 @@ 6 :> 3

Header(op, dt, size, count, root) ==
  [op |-> op, dt |-> dt, size |-> size, count |-> count, root |-> root]

ReduceCalls ==
  {Header(op, dt, size, 1, All) : op \in Extreme, dt \in {"UINT", "INT", "REAL"},
                                  size \in Sizes}
    \cup {Header("MAX", "INT", 3, n, 1) : n \in {1, 2, 3}}
    \cup {Header("SUM", "INT", size, 1, All) : size \in Sizes}
    \cup {Header("SUM", "REAL", size, 1, All) : size \in Sizes}
    \cup {Header("SUM", "COMP", 2 * size, 1, All) : size \in Sizes}
    \cup {Header(op, "PAIR", size, n, All) : op \in Located, size \in Sizes, n \in {1, 2}}
    \cup {Header(op, "UINT", 3, n, All) : op \in BitOps, n \in {3, 5}}
    \cup {Header(op, "UINT", 3, n, 0) : op \in Logical, n \in {1, 6, 7, 12, 13}}
    \cup {Header("BCAST", "BYTES", 3, n, root) : n \in {1, 4}, root \in Procs}

(* zeros, the least and greatest numbers, infinities and NaNs              *)
WideValues == {0, 1, 23, 24, 25, 32, 33, 55, 56, 57}
Pairs(size) == (IF size = 3 THEN {0, 3, 4, 7} ELSE {0, 31, 32, 63}) \X {0, 1}

(* one element of every value, more of a few patterns                      *)
ReduceBuffers(c) ==
  CASE c.op \in Located ->
         {[i \in 1 .. c.count |-> x] : x \in Pairs(c.size)}
    [] c.dt = "COMP" ->
         IF c.size = 6 THEN {<<<<x, 5 - x>>>> : x \in {0, 1, 4, 5}}
         ELSE {<<<<x, 56 - x>>>> : x \in {3, 13, 53, 56}}
    [] c.op \in Extreme \cup {"SUM"} ->
         {[i \in 1 .. c.count |-> (x + i - 1) % (2 ^ c.size)] :
            x \in IF c.size = 3 THEN 0 .. 7 ELSE WideValues}
    [] c.op \in Logical ->
         {[i \in 1 .. c.count |-> IF i % 6 \in S THEN 2 ELSE 0] :
            S \in {{}, {0}, {1}, {1, 2, 5}, 0 .. 5}}
    [] OTHER ->
         {[i \in 1 .. c.count |-> IF i % 2 = 0 THEN x ELSE 7 - x] : x \in {0, 2, 7}}
=============================================================================
