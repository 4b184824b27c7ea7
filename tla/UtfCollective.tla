---------------------------- MODULE UtfCollective ----------------------------
(***************************************************************************)
(* What utf_barrier, utf_reduce and their poll functions promise to the    *)
(* processes of a group: a collective is left only after every process has *)
(* entered it, and a reduction gives each of them every contribution to    *)
(* this collective exactly once.                                           *)
(***************************************************************************)
EXTENDS Naturals, Sequences, Bags

CONSTANTS
  Procs,  \* the processes of the group
  Ops     \* the collectives they call, in order: "barrier" or "reduce"

VARIABLES
  entered,  \* number of collectives each process has called
  left,     \* number of collectives each process has seen completed
  result    \* the outcome of its last reduction

vars == <<entered, left, result>>

(* what process p gives to its k-th collective                             *)
Contribution(p, k) == SetToBag({<<p, k>>})

Everybodys(k) == SetToBag({<<p, k>> : p \in Procs})

Init ==
  /\ entered = [p \in Procs |-> 0]
  /\ left = [p \in Procs |-> 0]
  /\ result = [p \in Procs |-> EmptyBag]

Enter(p) ==
  /\ entered[p] = left[p] /\ entered[p] < Len(Ops)
  /\ entered' = [entered EXCEPT ![p] = @ + 1]
  /\ UNCHANGED <<left, result>>

Leave(p) ==
  /\ left[p] < entered[p]
  /\ \A q \in Procs : entered[q] >= entered[p]
  /\ left' = [left EXCEPT ![p] = @ + 1]
  /\ result' = IF Ops[entered[p]] = "reduce"
               THEN [result EXCEPT ![p] = Everybodys(entered[p])]
               ELSE result
  /\ UNCHANGED entered

Next == \E p \in Procs : Enter(p) \/ Leave(p)

Spec == Init /\ [][Next]_vars
=============================================================================
