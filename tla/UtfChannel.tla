----------------------------- MODULE UtfChannel -----------------------------
(***************************************************************************)
(* What utf_send promises: between every two ranks a reliable FIFO channel *)
(* of whole messages.  Posting is asynchronous; the sender's slot for a    *)
(* message may be released before or after the message is delivered.       *)
(***************************************************************************)
EXTENDS Naturals, Sequences

CONSTANTS
  Node,   \* the ranks
  Pair,   \* <<p, q>>: p may send to q
  Msg     \* the messages

VARIABLES
  posted,    \* posted[p][q]: messages p has posted to q
  retired,   \* retired[p][q]: how many of them no longer occupy the sender
  inbox      \* inbox[q][p]: messages q has received from p

chanVars == <<posted, retired, inbox>>

ChanInit ==
  /\ posted = [p \in Node |-> [q \in Node |-> <<>>]]
  /\ retired = [p \in Node |-> [q \in Node |-> 0]]
  /\ inbox = [p \in Node |-> [q \in Node |-> <<>>]]

Post(p, q) ==
  /\ \E m \in Msg : posted' = [posted EXCEPT ![p][q] = Append(@, m)]
  /\ UNCHANGED <<retired, inbox>>

Deliver(p, q) ==
  /\ Len(inbox[q][p]) < Len(posted[p][q])
  /\ inbox' = [inbox EXCEPT ![q][p] =
                 Append(@, posted[p][q][Len(inbox[q][p]) + 1])]
  /\ UNCHANGED <<posted, retired>>

Retire(p, q) ==
  /\ retired[p][q] < Len(posted[p][q])
  /\ retired' = [retired EXCEPT ![p][q] = @ + 1]
  /\ UNCHANGED <<posted, inbox>>

ChanNext ==
  \E pq \in Pair : \/ Post(pq[1], pq[2])
                  \/ Deliver(pq[1], pq[2])
                  \/ Retire(pq[1], pq[2])

(* nothing is lost or duplicated, and messages do not overtake each other  *)
ChanSafety == ChanInit /\ [][ChanNext]_chanVars

ChanSpec ==
  /\ ChanSafety
  /\ \A pq \in Pair : /\ WF_chanVars(Deliver(pq[1], pq[2]))
                      /\ WF_chanVars(Retire(pq[1], pq[2]))
=============================================================================
