--------------------------- MODULE UtfStartProofs ---------------------------
(***************************************************************************)
(* Proofs about UtfStart for any number of processes, nodes, jobs and      *)
(* fences.                                                                 *)
(*                                                                         *)
(* Fences.  That a process which leaves a fence has seen this fence's      *)
(* marker of everybody, and not one of four fences ago, rests on three     *)
(* facts: no process leaves a fence before everybody has written its       *)
(* marker; hence processes are less than two fences apart; hence each byte *)
(* of a file is the marker of this fence or of the one before the last.    *)
(*                                                                         *)
(* Queues.  utf_tni_select gives the processes of a node different ones.   *)
(*                                                                         *)
(* Shared memory.  A node's segment has its key only while the leader is   *)
(* between shmget and IPC_RMID, unless a killed job has left it and no     *)
(* leader has touched it yet; the others attach only in that time, because *)
(* the leader waits until all have counted themselves.  They count in the  *)
(* first word of the segment, which belongs to the user as well: this is   *)
(* true of programs that never store there, or that have a fence between   *)
(* utf_shm_init and their stores, when nobody is in the handshake.         *)
(*                                                                         *)
(* Peers.  How many fences a process has passed follows from its place in  *)
(* the program, and where a fence has let one process go on, all others    *)
(* have come to it.  A process that may communicate is past the first one, *)
(* the one of utf_init, and not at the last one, of utf_finalize, so that  *)
(* all the others are between the two as well, where they have everything. *)
(***************************************************************************)
EXTENDS UtfStart, TLAPS, FiniteSetTheorems, SequenceTheorems, WellFoundedInduction

(* markers p has written                                                   *)
Wrote(p) == IF fpc[p] = "peek" THEN ntimes[p] + 1 ELSE ntimes[p]

(* the byte in file f of a process that has written w markers              *)
LastByte(f, w) ==
  IF (w - 1) % 2 = f
  THEN (IF w >= 1 THEN (w - 1) % 4 ELSE NoByte)
  ELSE (IF w >= 2 THEN (w - 2) % 4 ELSE NoByte)

Written == \A p, q \in Procs : ntimes[p] <= Wrote(q)
Bytes == \A q \in Procs : file[0][q] = LastByte(0, Wrote(q)) /\ file[1][q] = LastByte(1, Wrote(q))
Seen == \A p, q \in Procs :
  fpc[p] = "write" /\ q # p /\ bufp[p][q] = Marker(p) => Wrote(q) >= ntimes[p] + 1

FenceInv == FenceType /\ Written /\ Bytes /\ Seen

-----------------------------------------------------------------------------
(* The numbers of files and markers.                                       *)
LEMMA Remainders == \A n \in Nat : n % 2 \in 0 .. 1 /\ n % 4 \in 0 .. 3
BY Z3

LEMMA FenceIndices ==
  ASSUME FenceType, NEW p \in Procs
  PROVE  /\ FileOf(p) \in 0 .. 1 /\ FileOf(p) = ntimes[p] % 2
         /\ Marker(p) \in 0 .. 3 /\ ntimes[p] \in Nat
<1>1. ntimes[p] \in Nat
  BY DEF FenceType
<1> QED BY <1>1, Remainders DEF FileOf, Marker

(* The byte of a process at most two markers ahead tells whether it has    *)
(* written the marker of fence n.                                          *)
LEMMA ByteTells ==
  ASSUME NEW n \in Nat, NEW w \in Nat, n <= w
  PROVE  LastByte(n % 2, w) = n % 4 => w >= n + 1
<1>1. SUFFICES ASSUME w = n PROVE LastByte(n % 2, w) # n % 4
  OBVIOUS
<1>2. (n - 1) % 2 # n % 2
  OBVIOUS
<1>3. n >= 2 => (n - 2) % 4 # n % 4
  OBVIOUS
<1>4. n % 4 # NoByte
  BY DEF NoByte
<1> QED BY <1>1, <1>2, <1>3, <1>4 DEF LastByte

(* Writing the marker of fence n changes the byte of its file only.        *)
LEMMA WriteByte ==
  ASSUME NEW n \in Nat
  PROVE  /\ LastByte(n % 2, n + 1) = n % 4
         /\ \A f \in 0 .. 1 : f # n % 2 => LastByte(f, n + 1) = LastByte(f, n)
<1>1. LastByte(n % 2, n + 1) = n % 4
  <2>1. (n + 1) - 1 = n /\ n + 1 >= 1
    OBVIOUS
  <2> QED BY <2>1 DEF LastByte
<1>2. ASSUME NEW f \in 0 .. 1, f # n % 2 PROVE LastByte(f, n + 1) = LastByte(f, n)
  <2>1. (n - 1) % 2 = f
    BY <1>2
  <2>2. ((n + 1) - 1) % 2 # f
    BY <1>2
  <2> QED BY <2>1, <2>2 DEF LastByte
<1> QED BY <1>1, <1>2

(* count_marker reaches the number of processes only if all bytes match.   *)
LEMMA AllMarkedAll ==
  ASSUME NEW buf, NEW p \in Procs, AllMarked(buf, p)
  PROVE  \A q \in Procs : buf[q] = Marker(p)
<1> DEFINE S == {q \in Procs : \A r \in Procs : r <= q => buf[r] = Marker(p)}
<1>1. S \in SUBSET Procs /\ Cardinality(S) = Cardinality(Procs)
  BY DEF AllMarked, count_marker
<1>2. S = Procs
  BY <1>1, FS_Subset, ProcsAssumption
<1>3. \A q \in Procs : q <= q
  <2>1. Cardinality(Procs) \in Nat
    BY ProcsAssumption, FS_CardinalityType
  <2>2. Procs \subseteq Int
    BY <2>1, ProcsAssumption
  <2> QED BY <2>2
<1> QED BY <1>2, <1>3

-----------------------------------------------------------------------------
LEMMA FenceInvInit == FenceInit => FenceInv
<1> SUFFICES ASSUME FenceInit PROVE FenceInv
  OBVIOUS
<1>1. FenceType
  BY DEF FenceInit, FenceType, Empty, NoByte
<1>2. Written /\ Seen
  BY DEF FenceInit, Written, Seen, Wrote
<1>3. Bytes
  BY DEF FenceInit, Bytes, Wrote, LastByte, Empty, NoByte
<1> QED BY <1>1, <1>2, <1>3 DEF FenceInv

LEMMA FenceInvReset == FenceReset => FenceInv'
<1> SUFFICES ASSUME FenceReset PROVE FenceInv'
  OBVIOUS
<1>1. FenceType'
  BY DEF FenceReset, FenceType, Empty, NoByte
<1>2. Written' /\ Seen'
  BY DEF FenceReset, Written, Seen, Wrote
<1>3. Bytes'
  BY DEF FenceReset, Bytes, Wrote, LastByte, Empty, NoByte
<1> QED BY <1>1, <1>2, <1>3 DEF FenceInv

LEMMA FenceInvStutter == FenceInv /\ UNCHANGED fenceVars => FenceInv'
BY DEF FenceInv, FenceType, Written, Bytes, Seen, Wrote, Marker, fenceVars

LEMMA FenceInvEnter ==
  ASSUME FenceInv, NEW p \in Procs, FenceEnter(p)
  PROVE  FenceInv'
<1> USE DEF FenceInv, FenceEnter
<1>1. FenceType'
  BY DEF FenceType
<1>2. \A q \in Procs : Wrote(q)' = Wrote(q)
  BY DEF Wrote, FenceType
<1>3. Written' /\ Bytes'
  BY <1>2 DEF Written, Bytes
<1>4. Seen'
  BY <1>2 DEF Seen, Marker, FenceType
<1> QED BY <1>1, <1>3, <1>4

LEMMA FenceInvRead ==
  ASSUME FenceInv, NEW p \in Procs, UpdateRead(p)
  PROVE  FenceInv'
<1> USE DEF FenceInv, UpdateRead
<1>0. FileOf(p) \in 0 .. 1 /\ Marker(p) \in 0 .. 3 /\ ntimes[p] \in Nat
  BY FenceIndices
<1>1. FenceType'
  BY <1>0 DEF FenceType
<1>2. \A q \in Procs : Wrote(q)' = Wrote(q) /\ Wrote(q) \in Nat
  BY DEF Wrote, FenceType
<1>3. Written' /\ Bytes'
  BY <1>2 DEF Written, Bytes
<1>4. ASSUME NEW r \in Procs, NEW q \in Procs, fpc'[r] = "write", q # r,
             bufp'[r][q] = Marker(r)'
      PROVE  Wrote(q) >= ntimes[r] + 1
  <2>1. Marker(r)' = Marker(r)
    BY DEF Marker
  <2>2. CASE r = p
    <3>1. bufp'[p][q] = file[FileOf(p)][q]
      BY <1>0, <1>4, <2>2 DEF FenceType
    <3>2. file[FileOf(p)][q] = LastByte(ntimes[p] % 2, Wrote(q))
      BY <1>0 DEF Bytes, FileOf
    <3>3. ntimes[p] <= Wrote(q)
      BY DEF Written
    <3> QED BY <3>1, <3>2, <3>3, <1>0, <1>2, <1>4, <2>1, <2>2, ByteTells DEF Marker
  <2>3. CASE r # p
    BY <2>1, <2>3, <1>4 DEF Seen, FenceType
  <2> QED BY <2>2, <2>3
<1>5. Seen'
  BY <1>2, <1>4 DEF Seen
<1> QED BY <1>1, <1>3, <1>5

(* A process that has seen the marker of everybody leaves the fence; all   *)
(* have written w markers or more, p itself w.                             *)
LEMMA FenceInvPass ==
  ASSUME FenceInv, NEW p \in Procs, Pass(p),
         fpc[p] \in {"write", "peek"},
         \/ fpc[p] = "peek" /\ UNCHANGED file
         \/ fpc[p] = "write" /\ file' = [file EXCEPT ![FileOf(p)][p] = Marker(p)],
         \A q \in Procs : q # p => Wrote(q) >= ntimes[p] + 1
  PROVE  FenceInv'
<1> USE DEF FenceInv, Pass
<1>0. FileOf(p) \in 0 .. 1 /\ Marker(p) \in 0 .. 3 /\ ntimes[p] \in Nat
  BY FenceIndices
<1>1. FenceType'
  <2>1. Empty \in [Procs -> {NoByte} \cup 0 .. 3]
    BY DEF Empty
  <2>2. file' \in [0 .. 1 -> [Procs -> {NoByte} \cup 0 .. 3]]
    <3>1. /\ file \in [0 .. 1 -> [Procs -> {NoByte} \cup 0 .. 3]] /\ p \in Procs
          /\ file' \in {file, [file EXCEPT ![FileOf(p)][p] = Marker(p)]}
      BY DEF FenceType
    <3> QED BY ONLY <1>0, <3>1
  <2>3. bufp' \in [Procs -> [Procs -> {NoByte} \cup 0 .. 3]]
    BY <2>1 DEF FenceType
  <2>4. ntimes' \in [Procs -> Nat] /\ fpc' \in [Procs -> {"out", "update", "write", "peek"}]
    BY DEF FenceType
  <2> QED BY <2>2, <2>3, <2>4 DEF FenceType
<1>2. /\ \A q \in Procs : q # p => Wrote(q)' = Wrote(q)
      /\ \A q \in Procs : Wrote(q) \in Nat
      /\ Wrote(p)' = ntimes[p] + 1
  BY DEF Wrote, FenceType
<1>3. ntimes'[p] = ntimes[p] + 1 /\ \A q \in Procs : q # p => ntimes'[q] = ntimes[q]
  BY DEF FenceType
<1>4. \A q \in Procs : ntimes[q] <= ntimes[p] + 1
  BY <1>0 DEF Written, Wrote, FenceType
<1>5. Written'
  BY <1>2, <1>3, <1>4, <1>0 DEF Written, FenceType
<1>6. Bytes'
  <2>1. CASE fpc[p] = "peek"
    <3>1. file' = file /\ Wrote(p) = ntimes[p] + 1
      BY <2>1 DEF Wrote
    <3>2. \A q \in Procs : Wrote(q)' = Wrote(q)
      BY <3>1, <1>2
    <3> QED BY <3>1, <3>2 DEF Bytes
  <2>2. CASE fpc[p] = "write"
    <3>1. Wrote(p) = ntimes[p] /\ file' = [file EXCEPT ![FileOf(p)][p] = Marker(p)]
      BY <2>2 DEF Wrote
    <3>2. ASSUME NEW q \in Procs, q # p
          PROVE  file'[0][q] = LastByte(0, Wrote(q)') /\ file'[1][q] = LastByte(1, Wrote(q)')
      BY <3>1, <3>2, <1>0, <1>2 DEF Bytes, FenceType
    <3>3. \A f \in 0 .. 1 : file'[f][p] = IF f = FileOf(p) THEN Marker(p) ELSE file[f][p]
      BY <3>1, <1>0 DEF FenceType
    <3>4. \A f \in 0 .. 1 : file[f][p] = LastByte(f, ntimes[p])
      BY <3>1 DEF Bytes
    <3>5. \A f \in 0 .. 1 : file'[f][p] = LastByte(f, Wrote(p)')
      BY <3>3, <3>4, <1>0, <1>2, WriteByte DEF FileOf, Marker
    <3> QED BY <3>2, <3>5 DEF Bytes
  <2> QED BY <2>1, <2>2
<1>7. Seen'
  <2> SUFFICES ASSUME NEW r \in Procs, NEW q \in Procs, fpc'[r] = "write", q # r,
                      bufp'[r][q] = Marker(r)'
               PROVE  Wrote(q)' >= ntimes'[r] + 1
    BY DEF Seen
  <2>1. r # p /\ fpc[r] = "write" /\ bufp'[r] = bufp[r]
    BY DEF FenceType
  <2>2. Marker(r)' = Marker(r) /\ ntimes'[r] = ntimes[r]
    BY <2>1, <1>3 DEF Marker
  <2>3. Wrote(q) >= ntimes[r] + 1
    BY <2>1, <2>2 DEF Seen
  <2>4. Wrote(q)' >= Wrote(q)
    BY <1>2, <1>0 DEF Wrote, FenceType
  <2> QED BY <2>2, <2>3, <2>4, <1>2, <1>0 DEF FenceType
<1> QED BY <1>1, <1>5, <1>6, <1>7

LEMMA FenceInvWrite ==
  ASSUME FenceInv, NEW p \in Procs, UpdateWrite(p)
  PROVE  FenceInv'
<1>1. CASE AllMarked(bufp[p], p)
  <2>1. \A q \in Procs : bufp[p][q] = Marker(p)
    BY <1>1, AllMarkedAll
  <2>2. \A q \in Procs : q # p => Wrote(q) >= ntimes[p] + 1
    BY <2>1 DEF UpdateWrite, FenceInv, Seen
  <2> QED BY <1>1, <2>2, FenceInvPass DEF UpdateWrite
<1>2. CASE ~ AllMarked(bufp[p], p)
  <2> USE <1>2 DEF FenceInv, UpdateWrite
  <2>0. FileOf(p) \in 0 .. 1 /\ Marker(p) \in 0 .. 3 /\ ntimes[p] \in Nat
    BY FenceIndices
  <2>1. FenceType'
    <3>1. Empty \in [Procs -> {NoByte} \cup 0 .. 3]
      BY DEF Empty
    <3>2. file' \in [0 .. 1 -> [Procs -> {NoByte} \cup 0 .. 3]]
      BY <2>0 DEF FenceType
    <3>3. bufp' \in [Procs -> [Procs -> {NoByte} \cup 0 .. 3]]
      BY <3>1 DEF FenceType
    <3>4. ntimes' \in [Procs -> Nat] /\ fpc' \in [Procs -> {"out", "update", "write", "peek"}]
      BY DEF FenceType
    <3> QED BY <3>2, <3>3, <3>4 DEF FenceType
  <2>2. /\ \A q \in Procs : q # p => Wrote(q)' = Wrote(q)
        /\ \A q \in Procs : Wrote(q) \in Nat /\ Wrote(q)' >= Wrote(q) /\ Wrote(q)' \in Nat
        /\ Wrote(p) = ntimes[p] /\ Wrote(p)' = ntimes[p] + 1
    BY DEF Wrote, FenceType
  <2>3. Written'
    BY <2>2 DEF Written, FenceType
  <2>4. Bytes'
    <3>2. ASSUME NEW q \in Procs, q # p
          PROVE  file'[0][q] = LastByte(0, Wrote(q)') /\ file'[1][q] = LastByte(1, Wrote(q)')
      BY <3>2, <2>0, <2>2 DEF Bytes, FenceType
    <3>3. \A f \in 0 .. 1 : file'[f][p] = IF f = FileOf(p) THEN Marker(p) ELSE file[f][p]
      BY <2>0 DEF FenceType
    <3>4. \A f \in 0 .. 1 : file[f][p] = LastByte(f, ntimes[p])
      BY <2>2 DEF Bytes
    <3>5. \A f \in 0 .. 1 : file'[f][p] = LastByte(f, Wrote(p)')
      BY <3>3, <3>4, <2>0, <2>2, WriteByte DEF FileOf, Marker
    <3> QED BY <3>2, <3>5 DEF Bytes
  <2>5. Seen'
    <3> SUFFICES ASSUME NEW r \in Procs, NEW q \in Procs, fpc'[r] = "write", q # r,
                        bufp'[r][q] = Marker(r)'
                 PROVE  Wrote(q)' >= ntimes'[r] + 1
      BY DEF Seen
    <3>1. r # p /\ fpc[r] = "write" /\ bufp'[r] = bufp[r]
      BY DEF FenceType
    <3>2. Marker(r)' = Marker(r) /\ ntimes'[r] = ntimes[r] /\ ntimes[r] \in Nat
      BY DEF Marker, FenceType
    <3>3. Wrote(q) >= ntimes[r] + 1
      BY <3>1, <3>2 DEF Seen
    <3> QED BY <3>2, <3>3, <2>2
  <2> QED BY <2>1, <2>3, <2>4, <2>5
<1> QED BY <1>1, <1>2

LEMMA FenceInvPeek ==
  ASSUME FenceInv, NEW p \in Procs, Peek(p)
  PROVE  FenceInv'
<1>1. \A q \in Procs : file[FileOf(p)][q] = Marker(p)
  BY AllMarkedAll DEF Peek
<1>2. ntimes[p] \in Nat /\ FileOf(p) = ntimes[p] % 2 /\ FileOf(p) \in 0 .. 1
  BY FenceIndices DEF FenceInv
<1>3. ASSUME NEW q \in Procs PROVE Wrote(q) >= ntimes[p] + 1
  <2>1. file[FileOf(p)][q] = LastByte(ntimes[p] % 2, Wrote(q))
    BY <1>2 DEF FenceInv, Bytes
  <2>2. ntimes[p] <= Wrote(q) /\ Wrote(q) \in Nat
    BY DEF FenceInv, Written, Wrote, FenceType
  <2> QED BY <1>1, <1>2, <2>1, <2>2, ByteTells DEF Marker
<1> QED BY <1>3, FenceInvPass DEF Peek

-----------------------------------------------------------------------------
(* Every step of the program leaves the fence alone or is one of its steps. *)
LEMMA FenceInvNext == FenceInv /\ [Next]_vars => FenceInv'
<1> SUFFICES ASSUME FenceInv, [Next]_vars PROVE FenceInv'
  OBVIOUS
<1>1. CASE NextJob
  BY <1>1, FenceInvReset DEF NextJob
<1>2. CASE UNCHANGED vars
  BY <1>2, FenceInvStutter DEF vars, fenceVars
<1>3. ASSUME NEW p \in Procs, Step(p) PROVE FenceInv'
  <2>1. CASE \/ utf_init(p) \/ Create(p) \/ Publish(p) \/ Gather(p) \/ Remove(p)
             \/ Attach(p) \/ Count(p) \/ Table(p) \/ PMIx_Resolve_nodes(p)
    BY <2>1, FenceInvStutter
       DEF utf_init, Create, Publish, Gather, Remove, Attach, Count, Table,
           PMIx_Resolve_nodes
  <2>2. CASE \/ utf_shm_init(p) \/ Store(p) \/ utf_shm_finalize(p) \/ Teardown(p)
    BY <2>2, FenceInvStutter DEF utf_shm_init, Store, utf_shm_finalize, Teardown
  <2>3. CASE utf_mem_init(p) \/ utf_fence(p)
    BY <2>3, FenceInvEnter DEF utf_mem_init, utf_fence
  <2>4. CASE utf_finalize(p)
    BY <2>4, FenceInvEnter, FenceInvStutter DEF utf_finalize
  <2>5. CASE FenceRead(p)
    BY <2>5, FenceInvRead DEF FenceRead
  <2>6. CASE FenceReturn(p)
    BY <2>6, FenceInvWrite, FenceInvPeek DEF FenceReturn
  <2> QED BY <1>3, <2>1, <2>2, <2>3, <2>4, <2>5, <2>6 DEF Step
<1> QED BY <1>1, <1>2, <1>3 DEF Next

(* utf_fence holds a process back until every process of the job has       *)
(* called it: for any number of processes, fences and jobs.                *)
THEOREM FencesExact == Spec => []FenceExact
<1>1. Init => FenceInv
  BY FenceInvInit DEF Init
<1>2. FenceInv => FenceExact
  <2> SUFFICES ASSUME FenceInv, NEW p \in Procs, NEW q \in Procs
               PROVE  ntimes[p] <= Entered(q)
    BY DEF FenceExact
  <2>1. ntimes[p] <= Wrote(q) /\ ntimes[p] \in Nat /\ ntimes[q] \in Nat
    BY DEF FenceInv, Written, FenceType
  <2>2. Wrote(q) <= Entered(q) /\ Wrote(q) \in Nat /\ Entered(q) \in Nat
    BY <2>1 DEF Wrote, Entered, InFence
  <2> QED BY <2>1, <2>2
<1> QED BY <1>1, <1>2, FenceInvNext, PTL DEF Spec

-----------------------------------------------------------------------------
(* the n queues s of a TNI in order                                        *)
Increasing(s, n) ==
  s \in [1 .. n -> 0 .. 10] /\ \A i, j \in 1 .. n : i < j => s[i] < s[j]

(* CqList is strictly increasing, within 0 .. 10, and long enough.         *)
LEMMA CqListIncreases ==
  ASSUME NEW ppn \in 1 .. 48
  PROVE  \E n \in 4 .. 8 : (ppn > 24 => ppn <= 6 * n) /\ Increasing(CqList(ppn), n)
<1>1. CASE ppn \in 1 .. 24
  <2>1. Increasing(<<0, 2, 5, 8>>, 4)
    BY DEF Increasing
  <2>2. CqList(ppn) = <<0, 2, 5, 8>>
    BY <1>1 DEF CqList
  <2> QED BY <1>1, <2>1, <2>2
<1>2. CASE ppn \in 25 .. 30
  <2>1. Increasing(<<0, 2, 5, 8, 10>>, 5)
    BY DEF Increasing
  <2>2. CqList(ppn) = <<0, 2, 5, 8, 10>>
    BY <1>2 DEF CqList
  <2> QED BY <1>2, <2>1, <2>2
<1>3. CASE ppn \in 31 .. 36
  <2>1. Increasing(<<0, 2, 5, 8, 9, 10>>, 6)
    BY DEF Increasing
  <2>2. CqList(ppn) = <<0, 2, 5, 8, 9, 10>>
    BY <1>3 DEF CqList
  <2> QED BY <1>3, <2>1, <2>2
<1>4. CASE ppn \in 37 .. 42
  <2>1. Increasing(<<0, 2, 5, 6, 8, 9, 10>>, 7)
    BY DEF Increasing
  <2>2. CqList(ppn) = <<0, 2, 5, 6, 8, 9, 10>>
    BY <1>4 DEF CqList
  <2> QED BY <1>4, <2>1, <2>2
<1>5. CASE ppn \in 43 .. 48
  <2>1. Increasing(<<0, 2, 4, 5, 6, 8, 9, 10>>, 8)
    BY DEF Increasing
  <2>2. CqList(ppn) = <<0, 2, 4, 5, 6, 8, 9, 10>>
    BY <1>5 DEF CqList
  <2> QED BY <1>5, <2>1, <2>2
<1>6. ppn \in 1 .. 24 \/ ppn \in 25 .. 30 \/ ppn \in 31 .. 36 \/ ppn \in 37 .. 42 \/ ppn \in 43 .. 48
  OBVIOUS
<1> QED BY <1>1, <1>2, <1>3, <1>4, <1>5, <1>6

(* Division splits a number without loss.                                  *)
LEMMA Division ==
  ASSUME NEW a \in Nat
  PROVE  /\ a % 2 \in 0 .. 1 /\ a \div 2 \in Nat /\ a = 2 * (a \div 2) + (a % 2)
         /\ a % 3 \in 0 .. 2 /\ a \div 3 \in Nat /\ a = 3 * (a \div 3) + (a % 3)
         /\ a % 6 \in 0 .. 5 /\ a \div 6 \in Nat /\ a = 6 * (a \div 6) + (a % 6)
<1>1. a % 2 \in 0 .. 1 /\ a \div 2 \in Nat /\ a = 2 * (a \div 2) + (a % 2)
  OBVIOUS
<1>2. a % 3 \in 0 .. 2 /\ a \div 3 \in Nat /\ a = 3 * (a \div 3) + (a % 3)
  OBVIOUS
<1>3. a % 6 \in 0 .. 5 /\ a \div 6 \in Nat /\ a = 6 * (a \div 6) + (a % 6)
  OBVIOUS
<1> QED BY <1>1, <1>2, <1>3

(* Two processes of a node with up to 48 of them get different queues from *)
(* utf_tni_select, each one of the six TNIs' queues 0 to 10.               *)
THEOREM QueuesApart == QueuesDistinct
<1> DEFINE Sel(ppn, a) == utf_tni_select(ppn, a)
<1> DEFINE Apart(ppn) ==
      /\ \A a \in 0 .. ppn - 1 : Sel(ppn, a).tni \in 0 .. 5 /\ Sel(ppn, a).cq \in 0 .. 10
      /\ \A a \in 0 .. ppn - 1 : \A b \in 0 .. a - 1 : Sel(ppn, a) # Sel(ppn, b)
<1> SUFFICES ASSUME NEW ppn \in 1 .. 48 PROVE Apart(ppn)
  BY DEF QueuesDistinct
<1>1. CASE ppn \in 1 .. 3
  BY <1>1 DEF utf_tni_select
<1>2. CASE ppn = 4
  <2>1. \A a \in 0 .. 3 : Sel(ppn, a) = [tni |-> a, cq |-> CqList(4)[a + 1]]
    BY <1>2 DEF utf_tni_select
  <2>2. \A a \in 0 .. 3 : CqList(4)[a + 1] \in 0 .. 10
    <3>1. PICK n \in 4 .. 8 : Increasing(CqList(4), n)
      BY CqListIncreases
    <3> QED BY <3>1 DEF Increasing
  <2> QED BY <1>2, <2>1, <2>2
<1>3. CASE ppn \in 5 .. 8
  <2>1. \A a \in 0 .. 7 :
          Sel(ppn, a) = [tni |-> (a % 2) * 3, cq |-> CqList(8)[a \div 2 + 1]]
    BY <1>3 DEF utf_tni_select
  <2>2. \A a \in 0 .. 7 : a \div 2 + 1 \in 1 .. 4 /\ (a % 2) * 3 \in 0 .. 5
    BY Division
  <2> HIDE DEF Sel
  <2>5. /\ \A i \in 1 .. 4 : CqList(8)[i] \in 0 .. 10
        /\ \A i, j \in 1 .. 4 : i < j => CqList(8)[i] < CqList(8)[j]
    <3>1. PICK n \in 4 .. 8 : Increasing(CqList(8), n)
      BY CqListIncreases
    <3> QED BY <3>1 DEF Increasing
  <2>3. \A a \in 0 .. 7 : CqList(8)[a \div 2 + 1] \in 0 .. 10
    BY <2>2, <2>5
  <2>4. ASSUME NEW a \in 0 .. 7, NEW b \in 0 .. a - 1, (a % 2) * 3 = (b % 2) * 3
        PROVE  CqList(8)[a \div 2 + 1] # CqList(8)[b \div 2 + 1]
    <3>1. b \in 0 .. 7 /\ b \div 2 + 1 < a \div 2 + 1
      BY <2>4, Division
    <3> QED BY <3>1, <2>2, <2>3, <2>5
  <2> QED BY <1>3, <2>1, <2>2, <2>3, <2>4
<1>4. CASE ppn \in 9 .. 12
  <2>1. \A a \in 0 .. 11 :
          Sel(ppn, a) = [tni |-> (a % 3) * 2, cq |-> CqList(12)[a \div 3 + 1]]
    BY <1>4 DEF utf_tni_select
  <2>2. \A a \in 0 .. 11 : a \div 3 + 1 \in 1 .. 4 /\ (a % 3) * 2 \in 0 .. 5
    BY Division
  <2> HIDE DEF Sel
  <2>5. /\ \A i \in 1 .. 4 : CqList(12)[i] \in 0 .. 10
        /\ \A i, j \in 1 .. 4 : i < j => CqList(12)[i] < CqList(12)[j]
    <3>1. PICK n \in 4 .. 8 : Increasing(CqList(12), n)
      BY CqListIncreases
    <3> QED BY <3>1 DEF Increasing
  <2>3. \A a \in 0 .. 11 : CqList(12)[a \div 3 + 1] \in 0 .. 10
    BY <2>2, <2>5
  <2>4. ASSUME NEW a \in 0 .. 11, NEW b \in 0 .. a - 1, (a % 3) * 2 = (b % 3) * 2
        PROVE  CqList(12)[a \div 3 + 1] # CqList(12)[b \div 3 + 1]
    <3>1. b \in 0 .. 11 /\ b \div 3 + 1 < a \div 3 + 1
      BY <2>4, Division
    <3> QED BY <3>1, <2>2, <2>3, <2>5
  <2> QED BY <1>4, <2>1, <2>2, <2>3, <2>4
<1>5. CASE ppn \in 13 .. 48
  <2>1. \A a \in 0 .. ppn - 1 : Sel(ppn, a) = [tni |-> a % 6, cq |-> CqList(ppn)[a \div 6 + 1]]
    <3>1. ppn # 1 /\ ppn # 2 /\ ppn # 3 /\ ppn # 4 /\ ppn \notin 5 .. 8 /\ ppn \notin 9 .. 12
      BY <1>5
    <3> QED BY <3>1, Zenon DEF utf_tni_select
  <2> HIDE DEF Sel
  <2>0. PICK n \in 4 .. 8 : ppn <= 6 * n /\ Increasing(CqList(ppn), n)
    <3>1. PICK n \in 4 .. 8 : (ppn > 24 => ppn <= 6 * n) /\ Increasing(CqList(ppn), n)
      BY CqListIncreases
    <3> QED BY <3>1
  <2>2. \A a \in 0 .. ppn - 1 : a \div 6 + 1 \in 1 .. n /\ a % 6 \in 0 .. 5
    BY <2>0, Division
  <2>3. \A a \in 0 .. ppn - 1 : CqList(ppn)[a \div 6 + 1] \in 0 .. 10
    BY <2>2, <2>0 DEF Increasing
  <2>4. ASSUME NEW a \in 0 .. ppn - 1, NEW b \in 0 .. a - 1, a % 6 = b % 6
        PROVE  CqList(ppn)[a \div 6 + 1] # CqList(ppn)[b \div 6 + 1]
    <3>1. b \in 0 .. ppn - 1 /\ b \div 6 + 1 < a \div 6 + 1
      BY <2>4, Division
    <3> QED BY <3>1, <2>0, <2>2, <2>3 DEF Increasing
  <2>5. \A a \in 0 .. ppn - 1 : Sel(ppn, a).tni \in 0 .. 5 /\ Sel(ppn, a).cq \in 0 .. 10
    BY <2>1, <2>2, <2>3
  <2>6. ASSUME NEW a \in 0 .. ppn - 1, NEW b \in 0 .. a - 1 PROVE Sel(ppn, a) # Sel(ppn, b)
    <3>1. b \in 0 .. ppn - 1
      OBVIOUS
    <3>2. Sel(ppn, a) = [tni |-> a % 6, cq |-> CqList(ppn)[a \div 6 + 1]]
      BY <2>1
    <3>3. Sel(ppn, b) = [tni |-> b % 6, cq |-> CqList(ppn)[b \div 6 + 1]]
      BY <3>1, <2>1
    <3> QED BY <3>2, <3>3, <2>4
  <2> QED BY <2>5, <2>6
<1> QED BY <1>1, <1>2, <1>3, <1>4, <1>5

-----------------------------------------------------------------------------
(* Shared memory.                                                          *)

(* where a process is in utf_shm_init_internal                             *)
Leading == {"create", "publish", "gather", "remove"}
Following == {"attach", "count"}
Handshake == Leading \cup Following
In(p, labels, k) == pc[p] \in labels /\ Kind(p) = k

(* p has called utf_shm_init_internal for k; as the leader, it has also    *)
(* published the segment; as another one, it has also counted itself       *)
Begun(p, k) == IF k = "utf" THEN peers[p].notfirst = 1 ELSE shm_usd[p]
Past(p, k) == Begun(p, k) /\ ~ In(p, {"create", "publish", "aborted"}, k)
Counted(p, k) == Begun(p, k) /\ ~ In(p, {"attach", "count"}, k)

(* p, a leader, has not yet looked for a segment                           *)
Fresh(p) == ~ Begun(p, "utf") \/ In(p, {"create", "aborted"}, "utf")

(* a segment that a killed job has left and no leader has touched yet      *)
Stale(i) ==
  /\ Attached(i) = {} /\ seg[i].by < job
  /\ \A p \in Procs : place[p] = seg[i].node /\ IsLeader(p) => Fresh(p)

(* p, a leader, is why a segment of kind k has the key                     *)
Holding(p, k) == In(p, {"publish", "gather", "remove"}, k)

Segment(e) ==
  [node : Nodes, key : BOOLEAN, size : Nat, kind : Kinds, by : Nat, head : Nat,
   word : {NoWord} \cup Nat, entries : {e}, stores : SUBSET Nat]

SegType ==
  /\ IsFiniteSet(DOMAIN seg) /\ DOMAIN seg \subseteq Nat \ {0}
  /\ \A i \in DOMAIN seg : seg[i] \in Segment(seg[i].entries)

StartType ==
  /\ job \in 1 .. MaxJobs /\ place \in Places /\ sz \in UsrPages
  /\ ip \in [Procs -> Nat \ {0}] /\ pc \in [Procs -> Labels]
  /\ utf_initialized \in [Procs -> Nat]
  /\ shm_usd \in [Procs -> BOOLEAN]
  /\ peers \in [Procs -> [notfirst : {-1, 0, 1}, vcqhs : Seq(0 .. 5)]]
  /\ stags \in [Procs -> SUBSET Tags]
  /\ shmid \in [Procs -> [Kinds -> Nat]]

(* the calls in which p can be at a label                                  *)
CallsOf(p) ==
  /\ pc[p] \notin {"call", "end"} => ip[p] <= Len(Program)
  /\ ip[p] <= Len(Program) + 1
  /\ pc[p] \in Handshake \cup {"aborted"} => Call(p) \in {"init", "resolve", "shm_init"}
  /\ pc[p] = "table" => Call(p) \in {"init", "resolve"}
  /\ pc[p] = "mem" => Call(p) = "init"
  /\ pc[p] = "fence" => Call(p) \in {"init", "fence", "finalize"}
  /\ pc[p] = "teardown" => Call(p) = "finalize"
  /\ InFence(p) <=> pc[p] = "fence"
Calls == \A p \in Procs : CallsOf(p)

(* the calls of utf_init not yet undone: in one, it counts, and in         *)
(* utf_finalize no longer                                                  *)
Balance(c) == IF c = "init" THEN 1 ELSE IF c = "finalize" THEN -1 ELSE 0
Opened(p) ==
  Before(Program, ip[p], "init") - Before(Program, ip[p], "finalize")
    + (IF pc[p] \in {"call", "end"} THEN 0 ELSE Balance(Call(p)))
Opens == \A p \in Procs : utf_initialized[p] = Opened(p)

(* who is in the handshake, and what a process has done by then            *)
BeginsOf(p) ==
  /\ pc[p] \in Leading => IsLeader(p)
  /\ pc[p] \in Following => ~ IsLeader(p)
  /\ pc[p] \in Handshake => Begun(p, Kind(p))
  /\ pc[p] = "table" => Begun(p, "utf")
  /\ peers[p].notfirst = -1 => pc[p] = "aborted"
  /\ shm_usd[p] => peers[p].notfirst = 1 /\ ~ In(p, Handshake \cup {"table", "aborted"}, "utf")
  /\ utf_initialized[p] > 0 => peers[p].notfirst # 0
  /\ pc[p] \in {"mem", "fence"} /\ Call(p) = "init" => peers[p].notfirst = 1
  /\ (\E j \in 1 .. ip[p] - 1 : Program[j] = "init") => peers[p].notfirst = 1
  /\ (\E j \in 1 .. ip[p] - 1 : Program[j] = "shm_init") =>
       shm_usd[p] /\ ~ In(p, Handshake, "usr")
Begins == \A p \in Procs : BeginsOf(p)

(* when a process is attached, and to a segment of its node                *)
HeldOf(p) ==
  /\ \A k \in Kinds : shmid[p][k] # NoSeg =>
       /\ shmid[p][k] \in DOMAIN seg /\ seg[shmid[p][k]].node = place[p]
       /\ Begun(p, k) /\ ~ In(p, {"create", "attach"}, k)
  /\ \A k \in Kinds : Holding(p, k) \/ In(p, {"count"}, k) => shmid[p][k] # NoSeg
  /\ pc[p] = "table" => shmid[p]["utf"] # NoSeg
  /\ /\ shm_usd[p] /\ ~ In(p, {"create", "attach", "aborted"}, "usr")
     /\ \A j \in 1 .. ip[p] - 1 : Program[j] # "shm_finalize"
     => shmid[p]["usr"] # NoSeg
Held == \A p \in Procs : HeldOf(p)

Published == \A p \in Procs : \A k \in Kinds :
  <<p, k>> \in kvs => IsLeader(p) /\ Past(p, k)

Counting == \A p, r \in Procs : \A k \in Kinds : ~ IsLeader(p) /\ r = lrank(p) =>
  /\ Counted(p, k) \/ In(p, {"count"}, k) => Past(r, k)
  /\ Past(r, k) /\ ~ In(r, {"gather"}, k) => Counted(p, k)

CountedOn(p, k) == {q \in nd_ranks(p) \ {p} : Counted(q, k)}
Heads == \A p \in Procs : \A k \in Kinds :
  In(p, {"gather"}, k) => seg[shmid[p][k]].head = 1 + Cardinality(CountedOn(p, k))

(* a node has one segment with the key, and its leader or a killed job is  *)
(* the reason                                                              *)
KeyOne == \A i, j \in DOMAIN seg :
  seg[i].key /\ seg[j].key /\ seg[i].node = seg[j].node => i = j
KeyHeld == \A p \in Procs : \A k \in Kinds : Holding(p, k) =>
  /\ seg[shmid[p][k]].key
  /\ seg[shmid[p][k]].size >= (IF k = "utf" THEN CqPages ELSE sz)
KeyWhy == \A i \in DOMAIN seg : seg[i].key =>
  Stale(i) \/ \E p \in Procs : \E k \in Kinds : Holding(p, k) /\ shmid[p][k] = i

(* which processes share a segment, and what is in it                      *)
OwnSegs == \A p, q \in Procs : \A k, l \in Kinds :
  shmid[p][k] # NoSeg /\ shmid[q][l] # NoSeg =>
    (shmid[p][k] = shmid[q][l] <=> (place[p] = place[q] /\ k = l))
OwnStores == \A p \in Procs : shmid[p]["usr"] # NoSeg =>
  seg[shmid[p]["usr"]].stores \subseteq {job} /\ seg[shmid[p]["usr"]].entries = <<>>
OwnKinds == \A i \in DOMAIN seg :
  seg[i].by <= job /\ (seg[i].kind = "utf" => seg[i].size = CqPages)

(* the segment of a killed job that made p abort                           *)
Aborts == \A p \in Procs : pc[p] = "aborted" /\ peers[p].notfirst # -1 =>
  /\ IsLeader(p) /\ Kind(p) = "utf"
  /\ \E i \in DOMAIN seg :
       /\ seg[i].node = place[p] /\ seg[i].key
       /\ seg[i].by < job /\ seg[i].kind = "usr" /\ seg[i].size < CqPages

LocalInv == FenceType /\ StartType /\ SegType /\ Calls /\ Opens /\ Begins
ShmInv ==
  /\ LocalInv /\ Held /\ Published /\ Counting /\ Heads /\ KeyOne /\ KeyHeld /\ KeyWhy
  /\ OwnSegs /\ OwnStores /\ OwnKinds /\ Aborts

-----------------------------------------------------------------------------
(* what a step of p leaves alone                                           *)
Others(p) ==
  /\ UNCHANGED job_place
  /\ \A q \in Procs : q # p =>
       /\ pc'[q] = pc[q] /\ ip'[q] = ip[q] /\ utf_initialized'[q] = utf_initialized[q]
       /\ peers'[q] = peers[q] /\ shm_usd'[q] = shm_usd[q] /\ shmid'[q] = shmid[q]
       /\ fpc'[q] = fpc[q]

LEMMA LeastNumber ==
  ASSUME NEW T, T \subseteq Nat, T # {}
  PROVE  \E x \in T : \A y \in T : x <= y
<1> DEFINE R == OpToRel(<, Nat)
<1>1. IsWellFoundedOn(R, Nat)
  BY NatLessThanWellFounded
<1>2. \A x, y \in Nat : <<y, x>> \in R <=> y < x
  BY DEF OpToRel
<1> HIDE DEF R
<1>3. PICK x \in T : \A y \in T : ~ (<<y, x>> \in R)
  BY <1>1, WFMin
<1>4. ASSUME NEW y \in T PROVE x <= y
  <2>1. x \in Nat /\ y \in Nat
    OBVIOUS
  <2>2. ~ (y < x)
    BY <1>2, <1>3, <2>1
  <2> QED BY <2>1, <2>2
<1> QED BY <1>4

LEMMA ProcsNat == Procs \subseteq Nat /\ IsFiniteSet(Procs)
<1>1. Cardinality(Procs) \in Nat
  BY ProcsAssumption, FS_CardinalityType
<1> QED BY <1>1, ProcsAssumption

(* Every node has one leader, a process of its own.                        *)
LEMMA LeaderFacts ==
  /\ \A p \in Procs : lrank(p) \in Procs /\ place[lrank(p)] = place[p] /\ IsLeader(lrank(p))
  /\ \A p, q \in Procs : place[p] = place[q] => lrank(p) = lrank(q)
  /\ \A p \in Procs : IsLeader(p) <=> lrank(p) = p
  /\ \A p, q \in Procs : IsLeader(p) /\ IsLeader(q) /\ place[p] = place[q] => p = q
  /\ \A p \in Procs : \A q \in nd_ranks(p) : q \in Procs /\ place[q] = place[p]
<1>1. \A p, q \in Procs : place[p] = place[q] => lrank(p) = lrank(q)
  <2> SUFFICES ASSUME NEW p \in Procs, NEW q \in Procs, place[p] = place[q]
               PROVE  lrank(p) = lrank(q)
    OBVIOUS
  <2>1. nd_ranks(p) = nd_ranks(q)
    BY DEF nd_ranks
  <2> QED BY <2>1 DEF lrank
<1>2. \A p \in Procs : lrank(p) \in Procs /\ place[lrank(p)] = place[p]
  <2> SUFFICES ASSUME NEW p \in Procs PROVE lrank(p) \in nd_ranks(p)
    BY DEF nd_ranks
  <2>1. nd_ranks(p) \subseteq Nat /\ nd_ranks(p) # {}
    BY ProcsNat DEF nd_ranks
  <2>2. \E q \in nd_ranks(p) : \A r \in nd_ranks(p) : q <= r
    BY <2>1, LeastNumber
  <2> QED BY <2>2 DEF lrank
<1>3. \A p \in Procs : IsLeader(p) <=> lrank(p) = p
  BY DEF IsLeader
<1>4. \A p \in Procs : IsLeader(lrank(p))
  BY <1>1, <1>2, <1>3
<1>5. \A p, q \in Procs : IsLeader(p) /\ IsLeader(q) /\ place[p] = place[q] => p = q
  BY <1>1, <1>3
<1>6. \A p \in Procs : \A q \in nd_ranks(p) : q \in Procs /\ place[q] = place[p]
  BY DEF nd_ranks
<1> QED BY <1>1, <1>2, <1>3, <1>4, <1>5, <1>6

(* The nodes and leaders of a job stay what they are.                      *)
LEMMA OthersSame ==
  ASSUME NEW p \in Procs, Others(p)
  PROVE  /\ Program' = Program /\ job' = job /\ place' = place /\ sz' = sz
         /\ \A q \in Procs : /\ nd_ranks(q)' = nd_ranks(q) /\ lrank(q)' = lrank(q)
                             /\ myppn(q)' = myppn(q) /\ IsLeader(q)' = IsLeader(q)
         /\ \A q \in Procs : q # p =>
              /\ pc'[q] = pc[q] /\ shmid'[q] = shmid[q] /\ peers'[q] = peers[q]
              /\ Call(q)' = Call(q) /\ Kind(q)' = Kind(q) /\ Size(q)' = Size(q)
              /\ Fresh(q)' = Fresh(q)
              /\ \A k \in Kinds :
                   /\ Begun(q, k)' = Begun(q, k) /\ Past(q, k)' = Past(q, k)
                   /\ Counted(q, k)' = Counted(q, k)
<1>1. job' = job /\ place' = place /\ sz' = sz
  BY DEF Others, job_place
<1>2. Program' = Program
  BY <1>1 DEF Program
<1>3. ASSUME NEW q \in Procs
      PROVE  /\ nd_ranks(q)' = nd_ranks(q) /\ lrank(q)' = lrank(q)
             /\ myppn(q)' = myppn(q) /\ IsLeader(q)' = IsLeader(q)
  <2>1. nd_ranks(q)' = nd_ranks(q)
    BY <1>1 DEF nd_ranks
  <2>2. lrank(q)' = lrank(q)
    BY <2>1 DEF lrank
  <2> QED BY <2>1, <2>2 DEF myppn, IsLeader
<1>4. ASSUME NEW q \in Procs, q # p
      PROVE  /\ pc'[q] = pc[q] /\ shmid'[q] = shmid[q] /\ peers'[q] = peers[q]
             /\ shm_usd'[q] = shm_usd[q] /\ ip'[q] = ip[q]
  BY <1>4 DEF Others
<1>5. ASSUME NEW q \in Procs, q # p
      PROVE  Call(q)' = Call(q) /\ Kind(q)' = Kind(q) /\ Size(q)' = Size(q)
  <2>1. Call(q)' = Call(q)
    BY <1>2, <1>4, <1>5 DEF Call
  <2>2. Kind(q)' = Kind(q)
    BY <2>1 DEF Kind
  <2> QED BY <2>1, <2>2, <1>1 DEF Size
<1>6. ASSUME NEW q \in Procs, q # p, NEW k \in Kinds
      PROVE  /\ Begun(q, k)' = Begun(q, k) /\ Past(q, k)' = Past(q, k)
             /\ Counted(q, k)' = Counted(q, k)
  <2>1. Begun(q, k)' = Begun(q, k)
    BY <1>4, <1>6 DEF Begun
  <2> QED BY <2>1, <1>4, <1>5, <1>6 DEF Past, Counted, In
<1>7. ASSUME NEW q \in Procs, q # p PROVE Fresh(q)' = Fresh(q)
  BY <1>4, <1>5, <1>6, <1>7 DEF Fresh, In, Kinds
<1> QED BY <1>1, <1>2, <1>3, <1>4, <1>5, <1>6, <1>7

-----------------------------------------------------------------------------
(* Segments: what an assignment to a field leaves alone.                   *)
Rigid ==
  /\ DOMAIN seg' = DOMAIN seg
  /\ \A j \in DOMAIN seg : /\ seg'[j].node = seg[j].node /\ seg'[j].size = seg[j].size
                           /\ seg'[j].kind = seg[j].kind /\ seg'[j].by = seg[j].by
SameKeys == \A j \in DOMAIN seg : seg'[j].key = seg[j].key
SameHeads == \A j \in DOMAIN seg : seg'[j].head = seg[j].head
SameWords == \A j \in DOMAIN seg : seg'[j].word = seg[j].word
SameMemory == \A j \in DOMAIN seg :
  seg'[j].entries = seg[j].entries /\ seg'[j].stores = seg[j].stores

LEMMA SegSame ==
  ASSUME SegType, UNCHANGED seg
  PROVE  SegType' /\ Rigid /\ SameKeys /\ SameHeads /\ SameWords /\ SameMemory
BY DEF SegType, Rigid, SameKeys, SameHeads, SameWords, SameMemory

LEMMA SetHead ==
  ASSUME SegType, NEW i \in DOMAIN seg, NEW h \in Nat, seg' = [seg EXCEPT ![i].head = h]
  PROVE  /\ SegType' /\ Rigid /\ SameKeys /\ SameWords /\ SameMemory /\ seg'[i].head = h
         /\ \A j \in DOMAIN seg : j # i => seg'[j].head = seg[j].head
<1>1. /\ DOMAIN seg' = DOMAIN seg /\ seg'[i] = [seg[i] EXCEPT !.head = h]
      /\ \A j \in DOMAIN seg : j # i => seg'[j] = seg[j]
  BY DEF SegType
<1>2. \A j \in DOMAIN seg : seg[j] \in Segment(seg[j].entries)
  BY DEF SegType
<1>3. /\ seg'[i].node = seg[i].node /\ seg'[i].size = seg[i].size /\ seg'[i].kind = seg[i].kind
      /\ seg'[i].by = seg[i].by /\ seg'[i].key = seg[i].key /\ seg'[i].head = h
      /\ seg'[i].word = seg[i].word /\ seg'[i].entries = seg[i].entries /\ seg'[i].stores = seg[i].stores
  BY <1>1, <1>2 DEF Segment
<1>4. SegType'
  <2>1. seg'[i] \in Segment(seg'[i].entries)
    BY <1>1, <1>2 DEF Segment
  <2> QED BY <1>1, <1>2, <2>1 DEF SegType
<1> QED BY <1>1, <1>3, <1>4 DEF Rigid, SameKeys, SameWords, SameMemory

LEMMA DropKey ==
  ASSUME SegType, NEW i \in DOMAIN seg,
         seg' = [seg EXCEPT ![i].head = 0, ![i].key = FALSE]
  PROVE  /\ SegType' /\ Rigid /\ SameWords /\ SameMemory /\ ~ seg'[i].key
         /\ \A j \in DOMAIN seg : j # i => seg'[j].key = seg[j].key /\ seg'[j].head = seg[j].head
<1>1. /\ DOMAIN seg' = DOMAIN seg /\ seg'[i] = [seg[i] EXCEPT !.head = 0, !.key = FALSE]
      /\ \A j \in DOMAIN seg : j # i => seg'[j] = seg[j]
  BY DEF SegType
<1>2. \A j \in DOMAIN seg : seg[j] \in Segment(seg[j].entries)
  BY DEF SegType
<1>3. /\ seg'[i].node = seg[i].node /\ seg'[i].size = seg[i].size /\ seg'[i].kind = seg[i].kind
      /\ seg'[i].by = seg[i].by /\ seg'[i].word = seg[i].word /\ seg'[i].key = FALSE
      /\ seg'[i].entries = seg[i].entries /\ seg'[i].stores = seg[i].stores
  BY <1>1, <1>2 DEF Segment
<1>4. SegType'
  <2>1. PICK e : e = seg[i].entries
    OBVIOUS
  <2>2. seg'[i] \in Segment(e)
    <3>1. seg[i] \in Segment(e) /\ seg'[i] = [seg[i] EXCEPT !.head = 0, !.key = FALSE]
      BY <1>1, <1>2, <2>1
    <3> QED BY <3>1 DEF Segment
  <2>3. seg'[i] \in Segment(seg'[i].entries)
    BY <1>3, <2>1, <2>2
  <2> QED BY <1>1, <1>2, <2>3 DEF SegType
<1> QED BY <1>1, <1>3, <1>4 DEF Rigid, SameWords, SameMemory

LEMMA SetEntries ==
  ASSUME SegType, NEW i \in DOMAIN seg, NEW e, seg' = [seg EXCEPT ![i].entries = e]
  PROVE  /\ SegType' /\ Rigid /\ SameHeads /\ SameKeys /\ SameWords
         /\ \A j \in DOMAIN seg : seg'[j].stores = seg[j].stores
         /\ \A j \in DOMAIN seg : j # i => seg'[j].entries = seg[j].entries
<1>1. /\ DOMAIN seg' = DOMAIN seg /\ seg'[i] = [seg[i] EXCEPT !.entries = e]
      /\ \A j \in DOMAIN seg : j # i => seg'[j] = seg[j]
  BY DEF SegType
<1>2. \A j \in DOMAIN seg : seg[j] \in Segment(seg[j].entries)
  BY DEF SegType
<1>3. /\ seg'[i].node = seg[i].node /\ seg'[i].size = seg[i].size /\ seg'[i].kind = seg[i].kind
      /\ seg'[i].by = seg[i].by /\ seg'[i].head = seg[i].head /\ seg'[i].key = seg[i].key
      /\ seg'[i].word = seg[i].word /\ seg'[i].stores = seg[i].stores
  BY <1>1, <1>2 DEF Segment
<1>4. SegType'
  <2>1. seg'[i] \in Segment(seg'[i].entries)
    BY <1>1, <1>2 DEF Segment
  <2> QED BY <1>1, <1>2, <2>1 DEF SegType
<1> QED BY <1>1, <1>3, <1>4 DEF Rigid, SameHeads, SameKeys, SameWords

LEMMA SetStores ==
  ASSUME SegType, NEW i \in DOMAIN seg, NEW e \in SUBSET Nat,
         \/ seg' = [seg EXCEPT ![i].stores = e]
         \/ \E w \in Words : seg' = [seg EXCEPT ![i].stores = e, ![i].head = w, ![i].word = w]
  PROVE  /\ SegType' /\ Rigid /\ SameKeys /\ seg'[i].stores = e
         /\ \A j \in DOMAIN seg : seg'[j].entries = seg[j].entries
         /\ \A j \in DOMAIN seg : j # i => seg'[j] = seg[j]
         /\ \/ seg'[i].head = seg[i].head /\ seg'[i].word = seg[i].word
            \/ Words # {} /\ seg'[i].head = seg'[i].word
<1>1. PICK r : /\ seg'[i] = r /\ DOMAIN seg' = DOMAIN seg
               /\ \A j \in DOMAIN seg : j # i => seg'[j] = seg[j]
               /\ \/ r = [seg[i] EXCEPT !.stores = e]
                  \/ \E w \in Words : r = [seg[i] EXCEPT !.stores = e, !.head = w, !.word = w]
  BY DEF SegType
<1>2. \A j \in DOMAIN seg : seg[j] \in Segment(seg[j].entries)
  BY DEF SegType
<1>3. /\ r \in Segment(seg[i].entries) /\ r.entries = seg[i].entries /\ r.stores = e
      /\ r.node = seg[i].node /\ r.size = seg[i].size /\ r.kind = seg[i].kind
      /\ r.by = seg[i].by /\ r.key = seg[i].key
      /\ \/ r.head = seg[i].head /\ r.word = seg[i].word
         \/ Words # {} /\ r.head = r.word
  <2>1. CASE r = [seg[i] EXCEPT !.stores = e]
    BY <1>2, <2>1 DEF Segment
  <2>2. ASSUME NEW w \in Words, r = [seg[i] EXCEPT !.stores = e, !.head = w, !.word = w]
        PROVE  /\ r \in Segment(seg[i].entries) /\ r.entries = seg[i].entries /\ r.stores = e
               /\ r.node = seg[i].node /\ r.size = seg[i].size /\ r.kind = seg[i].kind
               /\ r.by = seg[i].by /\ r.key = seg[i].key /\ r.head = r.word
    BY <1>2, <2>2, StartAssumption DEF Segment
  <2> QED BY <1>1, <2>1, <2>2
<1>4. SegType'
  BY <1>1, <1>2, <1>3 DEF SegType
<1> QED BY <1>1, <1>3, <1>4 DEF Rigid, SameKeys

-----------------------------------------------------------------------------
(* The calls of a program.                                                 *)
LEMMA ProgramFacts ==
  ASSUME job \in 1 .. MaxJobs
  PROVE  /\ Program \in Seq(CallNames) /\ Len(Program) \in Nat
         /\ \A i \in 1 .. Len(Program) :
              /\ Program[i] = "shm_init" => \E j \in 1 .. i - 1 : Program[j] = "init"
              /\ Program[i] = "store" =>
                   /\ \E j \in 1 .. i - 1 : Program[j] = "shm_init"
                   /\ \A j \in 1 .. i - 1 : Program[j] # "shm_finalize"
              /\ Program[i] = "finalize" =>
                   Before(Program, i, "finalize") < Before(Program, i, "init")
<1>1. Program = Programs[job]
  BY DEF Program
<1>2. Program \in Seq(CallNames)
  BY <1>1, ProgramsAssumption
<1>3. Len(Program) \in Nat
  BY <1>2
<1> QED BY <1>1, <1>2, <1>3, ProgramsAssumption

LEMMA BeforeNext ==
  ASSUME NEW s, NEW i \in Nat \ {0}, NEW c
  PROVE  /\ Before(s, i, c) \in 0 .. i - 1
         /\ Before(s, i + 1, c) = Before(s, i, c) + (IF s[i] = c THEN 1 ELSE 0)
<1> DEFINE A == {j \in 1 .. i - 1 : s[j] = c}
           B == {j \in 1 .. (i + 1) - 1 : s[j] = c}
<1>1. IsFiniteSet(1 .. i - 1) /\ Cardinality(1 .. i - 1) = i - 1
  BY FS_Interval
<1>2. A \in SUBSET (1 .. i - 1)
  OBVIOUS
<1>3. IsFiniteSet(A) /\ Cardinality(A) <= i - 1
  BY <1>1, <1>2, FS_Subset
<1>4. Cardinality(A) \in Nat
  BY <1>3, FS_CardinalityType
<1>5. B = IF s[i] = c THEN A \cup {i} ELSE A
  BY <1>1
<1>6. i \notin A
  OBVIOUS
<1> HIDE DEF A, B
<1>7. Cardinality(B) = Cardinality(A) + (IF s[i] = c THEN 1 ELSE 0)
  <2>1. Cardinality(A \cup {i}) = Cardinality(A) + 1
    BY <1>3, <1>6, FS_AddElement
  <2> QED BY <1>4, <1>5, <2>1
<1>8. Before(s, i, c) = Cardinality(A) /\ Before(s, i + 1, c) = Cardinality(B)
  BY DEF Before, A, B
<1> QED BY <1>3, <1>4, <1>7, <1>8

(* p goes on in its call, or to the next one                               *)
Moves(p) ==
  \/ Return(p)
  \/ \E l \in Labels \ {"call", "end"} : Goto(p, l)

LEMMA OpenedMoves ==
  ASSUME StartType, Calls, NEW p \in Procs, Others(p), Moves(p), pc[p] # "end",
         ip[p] <= Len(Program)
  PROVE  Opened(p)' = Opened(p) + (IF pc[p] = "call" THEN Balance(Call(p)) ELSE 0)
<1>1. Program' = Program
  BY OthersSame
<1>2. ip[p] \in Nat \ {0} /\ pc[p] \in Labels /\ pc \in [Procs -> Labels]
  BY DEF StartType
<1>3. /\ Before(Program, ip[p], "init") \in Int /\ Before(Program, ip[p], "finalize") \in Int
      /\ Before(Program, ip[p] + 1, "init")
           = Before(Program, ip[p], "init") + (IF Call(p) = "init" THEN 1 ELSE 0)
      /\ Before(Program, ip[p] + 1, "finalize")
           = Before(Program, ip[p], "finalize") + (IF Call(p) = "finalize" THEN 1 ELSE 0)
  BY <1>2, BeforeNext DEF Call
<1>4. Opened(p)' = Before(Program, ip'[p], "init") - Before(Program, ip'[p], "finalize")
                     + (IF pc'[p] \in {"call", "end"} THEN 0 ELSE Balance(Program[ip'[p]]))
  BY <1>1 DEF Opened, Call, Before, Balance
<1>5. CASE Return(p)
  <2>1. ip'[p] = ip[p] + 1 /\ pc'[p] \in {"call", "end"}
    BY <1>2, <1>5 DEF Return, StartType
  <2>2. Opened(p)' = Before(Program, ip[p] + 1, "init") - Before(Program, ip[p] + 1, "finalize")
    <3>1. Before(Program, ip[p] + 1, "init") \in Int /\ Before(Program, ip[p] + 1, "finalize") \in Int
      BY <1>3
    <3> QED BY <1>4, <2>1, <3>1
  <2>3. Opened(p) = Before(Program, ip[p], "init") - Before(Program, ip[p], "finalize")
                      + (IF pc[p] = "call" THEN 0 ELSE Balance(Call(p)))
    BY <1>2 DEF Opened
  <2> QED BY <1>3, <2>2, <2>3 DEF Balance
<1>6. ASSUME NEW l \in Labels \ {"call", "end"}, Goto(p, l)
      PROVE  Opened(p)' = Opened(p) + (IF pc[p] = "call" THEN Balance(Call(p)) ELSE 0)
  <2>1. ip'[p] = ip[p] /\ pc'[p] \notin {"call", "end"}
    BY <1>2, <1>6 DEF Goto
  <2>2. Opened(p)' = Before(Program, ip[p], "init") - Before(Program, ip[p], "finalize")
                       + Balance(Call(p))
    BY <1>4, <2>1 DEF Call
  <2>3. Opened(p) = Before(Program, ip[p], "init") - Before(Program, ip[p], "finalize")
                      + (IF pc[p] = "call" THEN 0 ELSE Balance(Call(p)))
    BY <1>2 DEF Opened
  <2>4. Balance(Call(p)) \in Int
    BY DEF Balance
  <2> QED BY <1>3, <2>2, <2>3, <2>4
<1> QED BY <1>5, <1>6 DEF Moves

-----------------------------------------------------------------------------
(* The calls a process makes: each step does what it should to its own     *)
(* place in the program.                                                   *)

(* which facts about p the rest of its step has to bring                   *)
LEMMA OthersLocal ==
  ASSUME LocalInv, NEW p \in Procs, Others(p),
         CallsOf(p)', utf_initialized'[p] = Opened(p)', BeginsOf(p)'
  PROVE  Calls' /\ Opens' /\ Begins'
<1> SUFFICES ASSUME NEW q \in Procs, q # p
             PROVE  CallsOf(q)' /\ utf_initialized'[q] = Opened(q)' /\ BeginsOf(q)'
  BY DEF Calls, Opens, Begins
<1>1. /\ Program' = Program /\ pc'[q] = pc[q] /\ peers'[q] = peers[q]
      /\ Call(q)' = Call(q) /\ Kind(q)' = Kind(q) /\ IsLeader(q)' = IsLeader(q)
      /\ \A k \in Kinds : Begun(q, k)' = Begun(q, k)
  BY OthersSame
<1>2. /\ ip'[q] = ip[q] /\ utf_initialized'[q] = utf_initialized[q]
      /\ shm_usd'[q] = shm_usd[q] /\ fpc'[q] = fpc[q]
  BY DEF Others
<1>3. CallsOf(q) /\ utf_initialized[q] = Opened(q) /\ BeginsOf(q)
  BY DEF LocalInv, Calls, Opens, Begins
<1>4. CallsOf(q)'
  BY <1>1, <1>2, <1>3 DEF CallsOf, InFence
<1>5. Opened(q)' = Opened(q)
  BY <1>1, <1>2 DEF Opened
<1>6. Kind(q) \in Kinds /\ "utf" \in Kinds
  BY DEF Kind, Kinds
<1>7. BeginsOf(q)'
  <2>1. Begun(q, Kind(q))' = Begun(q, Kind(q)) /\ Begun(q, "utf")' = Begun(q, "utf")
    BY <1>1, <1>6 DEF Begun
  <2> QED BY <1>1, <1>2, <1>3, <2>1 DEF BeginsOf, In
<1> QED BY <1>2, <1>3, <1>4, <1>5, <1>7

LEMMA StepOthers ==
  ASSUME FenceType, StartType, NEW p \in Procs, Step(p)
  PROVE  Others(p)
<1>0. fpc \in [Procs -> {"out", "update", "write", "peek"}]
  BY DEF FenceType
<1> USE DEF StartType, Others, job_place, Goto, Return
<1>1. CASE \/ Create(p) \/ Publish(p) \/ Gather(p) \/ Remove(p) \/ Attach(p) \/ Count(p)
  BY <1>1 DEF Create, Publish, Gather, Remove, Attach, Count, ShmReturn, fenceVars
<1>2. CASE utf_init(p) \/ PMIx_Resolve_nodes(p)
  BY <1>2 DEF utf_init, PMIx_Resolve_nodes, utf_get_peers, utf_peers_init, PeersFail, fenceVars
<1>3. CASE Table(p) \/ utf_shm_init(p) \/ Store(p) \/ utf_shm_finalize(p) \/ Teardown(p)
  BY <1>3 DEF Table, utf_shm_init, Store, utf_shm_finalize, Teardown, fenceVars
<1>4. CASE utf_mem_init(p) \/ utf_fence(p) \/ utf_finalize(p)
  <2>1. fenceVars' = fenceVars \/ FenceEnter(p)
    BY <1>4 DEF utf_mem_init, utf_fence, utf_finalize
  <2>2. \A q \in Procs : q # p => fpc'[q] = fpc[q]
    BY <1>0, <2>1 DEF FenceEnter, fenceVars
  <2> QED BY <1>4, <2>2 DEF utf_mem_init, utf_fence, utf_finalize
<1>5. CASE FenceRead(p)
  BY <1>0, <1>5 DEF FenceRead, UpdateRead
<1>6. CASE FenceReturn(p)
  <2>1. \A q \in Procs : q # p => fpc'[q] = fpc[q]
    BY <1>0, <1>6 DEF FenceReturn, UpdateWrite, Peek, Pass
  <2> QED BY <1>6, <2>1 DEF FenceReturn
<1> QED BY <1>1, <1>2, <1>3, <1>4, <1>5, <1>6 DEF Step

LEMMA ReturnLocal ==
  ASSUME LocalInv, NEW p \in Procs, Others(p), Return(p), fpc'[p] = "out",
         pc[p] # "end", ip[p] <= Len(Program),
         utf_initialized'[p]
           = utf_initialized[p] + (IF pc[p] = "call" THEN Balance(Call(p)) ELSE 0),
         peers'[p].notfirst # -1, shm_usd[p] => shm_usd'[p],
         peers[p].notfirst = 1 => peers'[p].notfirst = 1,
         shm_usd'[p] => peers'[p].notfirst = 1,
         utf_initialized'[p] > 0 => peers'[p].notfirst # 0,
         Call(p) = "init" => peers'[p].notfirst = 1,
         Call(p) = "shm_init" => shm_usd'[p]
  PROVE  Calls' /\ Opens' /\ Begins'
<1>1. Program' = Program
  BY OthersSame
<1>2. /\ ip[p] \in Nat \ {0} /\ ip'[p] = ip[p] + 1
      /\ pc'[p] \in {"call", "end"} /\ Len(Program) \in Nat
  BY ProgramFacts DEF LocalInv, StartType, Return
<1>3. CallsOf(p)'
  <2>1. ip'[p] <= Len(Program) + 1
    BY <1>2
  <2>2. ip'[p] <= Len(Program)' + 1
    BY <1>1, <2>1
  <2>3. ~ InFence(p)'
    BY DEF InFence
  <2> QED BY <1>2, <2>2, <2>3 DEF CallsOf, Handshake, Leading, Following
<1>4. utf_initialized'[p] = Opened(p)'
  <2>1. Opened(p)' = Opened(p) + (IF pc[p] = "call" THEN Balance(Call(p)) ELSE 0)
    BY OpenedMoves DEF LocalInv, Moves
  <2> QED BY <2>1 DEF LocalInv, Opens
<1>5. BeginsOf(p)'
  <2>1. ASSUME NEW j \in 1 .. ip'[p] - 1, Program'[j] = "init" PROVE peers'[p].notfirst = 1
    <3>1. CASE j = ip[p]
      BY <1>1, <2>1, <3>1 DEF Call
    <3>2. CASE j # ip[p]
      <4>1. j \in 1 .. ip[p] - 1
        BY <1>2, <3>2
      <4> QED BY <1>1, <2>1, <4>1 DEF LocalInv, Begins, BeginsOf
    <3> QED BY <3>1, <3>2
  <2>2. ASSUME NEW j \in 1 .. ip'[p] - 1, Program'[j] = "shm_init" PROVE shm_usd'[p]
    <3>1. CASE j = ip[p]
      BY <1>1, <2>2, <3>1 DEF Call
    <3>2. CASE j # ip[p]
      <4>1. j \in 1 .. ip[p] - 1
        BY <1>2, <3>2
      <4> QED BY <1>1, <2>2, <4>1 DEF LocalInv, Begins, BeginsOf
    <3> QED BY <3>1, <3>2
  <2>3. ~ In(p, Handshake, "usr")'
    BY <1>2 DEF In, Handshake, Leading, Following
  <2> QED BY <1>2, <2>1, <2>2, <2>3 DEF BeginsOf, In, Handshake, Leading, Following
<1> QED BY <1>3, <1>4, <1>5, OthersLocal

LEMMA GotoLocal ==
  ASSUME LocalInv, NEW p \in Procs, Others(p), NEW l \in Labels \ {"call", "end"}, Goto(p, l),
         pc[p] # "end", ip[p] <= Len(Program),
         utf_initialized'[p]
           = utf_initialized[p] + (IF pc[p] = "call" THEN Balance(Call(p)) ELSE 0),
         InFence(p)' <=> l = "fence",
         l \in Handshake \cup {"aborted"} => Call(p) \in {"init", "resolve", "shm_init"},
         l = "table" => Call(p) \in {"init", "resolve"}, l = "mem" => Call(p) = "init",
         l = "fence" => Call(p) \in {"init", "fence", "finalize"},
         l = "teardown" => Call(p) = "finalize",
         l \in Leading => IsLeader(p), l \in Following => ~ IsLeader(p),
         l \in Handshake => IF Kind(p) = "utf" THEN peers'[p].notfirst = 1 ELSE shm_usd'[p],
         l \in Handshake /\ Kind(p) = "usr" =>
           \A j \in 1 .. ip[p] - 1 : Program[j] # "shm_init",
         l \in {"table", "mem"} \/ (l = "fence" /\ Call(p) = "init") => peers'[p].notfirst = 1,
         peers'[p].notfirst = -1 => l = "aborted",
         shm_usd'[p] =>
           /\ peers'[p].notfirst = 1
           /\ ~ (l \in Handshake \cup {"table", "aborted"} /\ Kind(p) = "utf"),
         utf_initialized'[p] > 0 => peers'[p].notfirst # 0,
         peers[p].notfirst = 1 => peers'[p].notfirst = 1, shm_usd[p] => shm_usd'[p]
  PROVE  Calls' /\ Opens' /\ Begins'
<1>1. Program' = Program /\ IsLeader(p)' = IsLeader(p)
  BY OthersSame
<1>2. ip'[p] = ip[p] /\ pc'[p] = l
  BY DEF LocalInv, StartType, Goto
<1>3. Call(p)' = Call(p) /\ Kind(p)' = Kind(p)
  BY <1>1, <1>2 DEF Call, Kind
<1>4. CallsOf(p)'
  <2>1. ip[p] \in Nat /\ Len(Program) \in Nat /\ Len(Program)' = Len(Program)
    BY <1>1, ProgramFacts DEF LocalInv, StartType
  <2>2. ip'[p] <= Len(Program)' /\ ip'[p] <= Len(Program)' + 1
    BY <1>2, <2>1
  <2> QED BY <1>2, <1>3, <2>2 DEF CallsOf
<1>5. utf_initialized'[p] = Opened(p)'
  <2>1. Opened(p)' = Opened(p) + (IF pc[p] = "call" THEN Balance(Call(p)) ELSE 0)
    BY OpenedMoves DEF LocalInv, Moves
  <2> QED BY <2>1 DEF LocalInv, Opens
<1>6. BeginsOf(p)'
  <2>1. ASSUME NEW j \in 1 .. ip'[p] - 1, Program'[j] = "init" PROVE peers'[p].notfirst = 1
    BY <1>1, <1>2, <2>1 DEF LocalInv, Begins, BeginsOf
  <2>2. ASSUME NEW j \in 1 .. ip'[p] - 1, Program'[j] = "shm_init"
        PROVE  shm_usd'[p] /\ ~ In(p, Handshake, "usr")'
    <3>1. shm_usd'[p]
      BY <1>1, <1>2, <2>2 DEF LocalInv, Begins, BeginsOf
    <3>2. ~ In(p, Handshake, "usr")'
      BY <1>1, <1>2, <1>3, <2>2 DEF In
    <3> QED BY <3>1, <3>2
  <2>3. l \in Handshake => Begun(p, Kind(p))'
    BY <1>3 DEF Begun
  <2>4. l = "table" => Begun(p, "utf")'
    BY DEF Begun
  <2> QED BY <1>1, <1>2, <1>3, <2>1, <2>2, <2>3, <2>4 DEF BeginsOf, In
<1> QED BY <1>4, <1>5, <1>6, OthersLocal

(* Outside of a fence a process that does not enter one stays outside.     *)
LEMMA LocalFacts ==
  ASSUME LocalInv, NEW p \in Procs
  PROVE  /\ pc[p] \in Labels /\ peers[p].notfirst \in {-1, 0, 1} /\ shm_usd[p] \in BOOLEAN
         /\ utf_initialized[p] \in Nat /\ CallsOf(p) /\ BeginsOf(p)
         /\ fpc \in [Procs -> {"out", "update", "write", "peek"}]
         /\ pc[p] # "fence" /\ UNCHANGED fenceVars => fpc'[p] = "out"
         /\ pc[p] # "aborted" => peers[p].notfirst \in {0, 1}
         /\ peers \in [Procs -> [notfirst : {-1, 0, 1}, vcqhs : Seq(0 .. 5)]]
<1>1. CallsOf(p) /\ BeginsOf(p)
  BY DEF LocalInv, Calls, Begins
<1>2. /\ pc[p] \in Labels /\ peers[p].notfirst \in {-1, 0, 1} /\ shm_usd[p] \in BOOLEAN
      /\ utf_initialized[p] \in Nat /\ fpc \in [Procs -> {"out", "update", "write", "peek"}]
      /\ peers \in [Procs -> [notfirst : {-1, 0, 1}, vcqhs : Seq(0 .. 5)]]
  BY DEF LocalInv, StartType, FenceType
<1>3. pc[p] # "fence" /\ UNCHANGED fenceVars => fpc'[p] = "out"
  BY <1>1 DEF CallsOf, InFence, fenceVars
<1>4. pc[p] # "aborted" => peers[p].notfirst \in {0, 1}
  BY <1>1, <1>2 DEF BeginsOf
<1> QED BY <1>1, <1>2, <1>3, <1>4

(* PMIx_Resolve_nodes and utf_init: of utf_get_peers' three ways           *)
LEMMA GetPeersLocal ==
  ASSUME LocalInv, NEW p \in Procs, Others(p), pc[p] = "call", ip[p] <= Len(Program),
         Call(p) \in {"init", "resolve"}, UNCHANGED fenceVars, UNCHANGED shm_usd,
         utf_initialized'[p] = utf_initialized[p] + Balance(Call(p)),
         utf_peers_init(p) \/ PeersFail(p), peers[p].notfirst = 0
  PROVE  Calls' /\ Opens' /\ Begins'
<1>1. /\ CallsOf(p) /\ BeginsOf(p) /\ ~ shm_usd[p] /\ fpc'[p] = "out" /\ ~ InFence(p)'
      /\ shm_usd'[p] = shm_usd[p] /\ Kind(p) = "utf"
  BY LocalFacts DEF BeginsOf, InFence, Kind
<1>2. CASE utf_peers_init(p)
  <2>1. peers'[p].notfirst = 1
    BY <1>2, LocalFacts DEF utf_peers_init
  <2>2. PICK l \in {"create", "attach"} : Goto(p, l) /\ l = ShmEntry(p)
    BY <1>2 DEF utf_peers_init, ShmEntry
  <2>3. /\ l \in Labels \ {"call", "end"} /\ l \in Handshake
        /\ l \in Leading => IsLeader(p)
        /\ l \in Following => ~ IsLeader(p)
    BY <2>2 DEF ShmEntry, Labels, Leading, Following, Handshake
  <2> QED BY <1>1, <2>1, <2>2, <2>3, GotoLocal
<1>3. CASE PeersFail(p)
  <2>1. peers'[p].notfirst = -1 /\ Goto(p, "aborted")
    BY <1>3, LocalFacts DEF PeersFail
  <2>2. "aborted" \in Labels \ {"call", "end"} /\ "aborted" \notin Handshake
    BY DEF Labels, Handshake, Leading, Following
  <2> QED BY <1>1, <2>1, <2>2, GotoLocal DEF Leading, Following
<1> QED BY <1>2, <1>3

LEMMA utf_initLocal ==
  ASSUME LocalInv, NEW p \in Procs, Others(p), utf_init(p)
  PROVE  Calls' /\ Opens' /\ Begins'
<1>1. /\ pc[p] = "call" /\ ip[p] <= Len(Program) /\ Call(p) = "init"
      /\ UNCHANGED fenceVars /\ UNCHANGED shm_usd
  BY DEF utf_init, At
<1>2. utf_initialized'[p] = utf_initialized[p] + Balance(Call(p)) /\ utf_initialized[p] \in Nat
  BY <1>1, LocalFacts DEF utf_init, LocalInv, StartType, Balance
<1>3. CallsOf(p) /\ BeginsOf(p) /\ fpc'[p] = "out" /\ ~ InFence(p)' /\ shm_usd'[p] = shm_usd[p]
  BY <1>1, LocalFacts DEF InFence
<1>4. CASE utf_initialized[p] > 0
  <2>1. Return(p) /\ UNCHANGED peers
    BY <1>4 DEF utf_init
  <2>2. peers[p].notfirst = 1
    BY <1>1, <1>4, LocalFacts DEF BeginsOf
  <2> QED BY <1>1, <1>2, <1>3, <2>1, <2>2, ReturnLocal
<1>5. CASE ~ (utf_initialized[p] > 0)
  <2>1. utf_get_peers(p, Goto(p, "mem"))
    BY <1>5 DEF utf_init
  <2>2. CASE peers[p].notfirst = 1 /\ Goto(p, "mem") /\ UNCHANGED peers
    <3>1. "mem" \in Labels \ {"call", "end"} /\ "mem" \notin Handshake
      BY DEF Labels, Handshake, Leading, Following
    <3> QED BY <1>1, <1>2, <1>3, <2>2, <3>1, GotoLocal DEF Leading, Following
  <2>3. CASE peers[p].notfirst = 0 /\ (utf_peers_init(p) \/ PeersFail(p))
    BY <1>1, <1>2, <2>3, GetPeersLocal
  <2> QED BY <2>1, <2>2, <2>3 DEF utf_get_peers
<1> QED BY <1>4, <1>5

LEMMA ResolveLocal ==
  ASSUME LocalInv, NEW p \in Procs, Others(p), PMIx_Resolve_nodes(p)
  PROVE  Calls' /\ Opens' /\ Begins'
<1>1. /\ pc[p] = "call" /\ ip[p] <= Len(Program) /\ Call(p) = "resolve"
      /\ UNCHANGED fenceVars /\ UNCHANGED shm_usd /\ UNCHANGED utf_initialized
  BY DEF PMIx_Resolve_nodes, At
<1>2. utf_initialized'[p] = utf_initialized[p] + (IF pc[p] = "call" THEN Balance(Call(p)) ELSE 0)
  BY <1>1, LocalFacts DEF Balance
<1>3. CallsOf(p) /\ BeginsOf(p) /\ fpc'[p] = "out" /\ ~ InFence(p)' /\ shm_usd'[p] = shm_usd[p]
      /\ utf_initialized'[p] = utf_initialized[p] /\ peers[p].notfirst \in {0, 1}
  BY <1>1, LocalFacts DEF InFence
<1>4. CASE peers[p].notfirst = 1 /\ Return(p) /\ UNCHANGED peers
  <2>1. /\ peers'[p].notfirst = 1 /\ Call(p) # "shm_init" /\ pc[p] # "end"
        /\ ip[p] <= Len(Program) /\ Return(p) /\ fpc'[p] = "out" /\ shm_usd'[p] = shm_usd[p]
    BY <1>1, <1>3, <1>4
  <2> HIDE <1>1, <1>3, <1>4
  <2> QED BY <1>2, <2>1, ReturnLocal
<1>5. CASE peers[p].notfirst = 0 /\ (utf_peers_init(p) \/ PeersFail(p))
  <2>1. utf_initialized'[p] = utf_initialized[p] + Balance(Call(p))
    BY <1>1, <1>2
  <2> QED BY <1>1, <2>1, <1>5, GetPeersLocal
<1> QED BY <1>4, <1>5 DEF PMIx_Resolve_nodes, utf_get_peers

LEMMA utf_shm_initLocal ==
  ASSUME LocalInv, NEW p \in Procs, Others(p), utf_shm_init(p)
  PROVE  Calls' /\ Opens' /\ Begins'
<1>1. /\ pc[p] = "call" /\ ip[p] <= Len(Program) /\ Call(p) = "shm_init"
      /\ UNCHANGED fenceVars /\ UNCHANGED peers /\ UNCHANGED utf_initialized
      /\ shm_usd'[p] = TRUE
  BY DEF utf_shm_init, At, LocalInv, StartType
<1>2. utf_initialized'[p] = utf_initialized[p] + (IF pc[p] = "call" THEN Balance(Call(p)) ELSE 0)
  BY <1>1, LocalFacts DEF Balance
<1>3. /\ CallsOf(p) /\ BeginsOf(p) /\ fpc'[p] = "out" /\ ~ InFence(p)' /\ Kind(p) = "usr"
      /\ utf_initialized'[p] = utf_initialized[p]
  BY <1>1, LocalFacts DEF InFence, Kind
<1>4. peers'[p].notfirst = 1
  <2>1. ip[p] \in 1 .. Len(Program) /\ Program[ip[p]] = "shm_init"
    BY <1>1, ProgramFacts DEF Call, LocalInv, StartType
  <2>2. \E j \in 1 .. ip[p] - 1 : Program[j] = "init"
    BY <2>1, ProgramFacts DEF LocalInv, StartType
  <2> QED BY <1>1, <1>3, <2>2 DEF BeginsOf
<1>5. /\ pc[p] = "call" /\ ip[p] <= Len(Program) /\ Call(p) = "shm_init" /\ Kind(p) = "usr"
      /\ shm_usd'[p] = TRUE /\ peers'[p].notfirst = 1 /\ fpc'[p] = "out" /\ ~ InFence(p)'
  BY <1>1, <1>3, <1>4
<1> HIDE <1>1, <1>3, <1>4
<1>8. ~ shm_usd[p] => \A j \in 1 .. ip[p] - 1 : Program[j] # "shm_init"
  BY LocalFacts DEF BeginsOf
<1>7. CASE Return(p)
  BY <1>2, <1>5, <1>7, ReturnLocal
<1>6. CASE ~ shm_usd[p] /\ Goto(p, ShmEntry(p))
  <2>2. PICK l \in {"create", "attach"} : Goto(p, l) /\ l = ShmEntry(p)
    BY <1>6 DEF ShmEntry
  <2>3. /\ l \in Labels \ {"call", "end"} /\ l \in Handshake
        /\ l \in Leading => IsLeader(p)
        /\ l \in Following => ~ IsLeader(p)
    BY <2>2 DEF ShmEntry, Labels, Leading, Following, Handshake
  <2> QED BY <1>2, <1>5, <1>6, <1>8, <2>2, <2>3, GotoLocal
<1> QED BY <1>7, <1>6 DEF utf_shm_init

(* The steps of the handshake.                                             *)
LEMMA HandshakeLocal ==
  ASSUME LocalInv, NEW p \in Procs, Others(p), pc[p] \in Handshake \cup {"table"},
         fpc'[p] = "out", peers'[p] = peers[p], shm_usd'[p] = shm_usd[p],
         utf_initialized'[p] = utf_initialized[p],
         \/ \E l \in Handshake \cup {"aborted"} :
              /\ Goto(p, l)
              /\ pc[p] \in Leading /\ l # "aborted" => l \in Leading
              /\ pc[p] \in Following /\ l # "aborted" => l \in Following
              /\ pc[p] # "table"
         \/ pc[p] \in Handshake /\ ShmReturn(p)
         \/ pc[p] = "table" /\ IF Call(p) = "init" THEN Goto(p, "mem") ELSE Return(p)
  PROVE  Calls' /\ Opens' /\ Begins'
<1>1. /\ CallsOf(p) /\ BeginsOf(p) /\ ~ InFence(p)' /\ ip[p] <= Len(Program)
      /\ pc[p] \notin {"call", "end", "aborted", "fence"}
      /\ peers[p].notfirst \in {0, 1} /\ utf_initialized[p] \in Nat
  BY LocalFacts DEF CallsOf, InFence, Handshake, Leading, Following
<1>2. utf_initialized'[p] = utf_initialized[p] + (IF pc[p] = "call" THEN Balance(Call(p)) ELSE 0)
  BY <1>1
<1>3. CASE \E l \in Handshake \cup {"aborted"} :
             /\ Goto(p, l)
             /\ pc[p] \in Leading /\ l # "aborted" => l \in Leading
             /\ pc[p] \in Following /\ l # "aborted" => l \in Following
             /\ pc[p] # "table"
  <2>1. PICK l \in Handshake \cup {"aborted"} :
             /\ Goto(p, l)
             /\ pc[p] \in Leading /\ l # "aborted" => l \in Leading
             /\ pc[p] \in Following /\ l # "aborted" => l \in Following
             /\ pc[p] # "table"
    BY <1>3
  <2>2. /\ l \in Labels \ {"call", "end"} /\ l \notin {"fence", "table", "mem", "teardown"}
        /\ l \in Leading => IsLeader(p)
        /\ l \in Following => ~ IsLeader(p)
    BY <1>1, <2>1 DEF Labels, Leading, Following, Handshake, BeginsOf
  <2>3. l \in Handshake => IF Kind(p) = "utf" THEN peers'[p].notfirst = 1 ELSE shm_usd'[p]
    BY <1>1, <2>1 DEF BeginsOf, Begun
  <2>5. Kind(p) = "usr" => \A j \in 1 .. ip[p] - 1 : Program[j] # "shm_init"
    <3>1. Kind(p) = "usr" => In(p, Handshake, "usr")
      BY <1>1, <2>1 DEF In, Handshake
    <3> QED BY <1>1, <3>1 DEF BeginsOf
  <2>4. /\ Call(p) \in {"init", "resolve", "shm_init"}
        /\ peers[p].notfirst # -1
        /\ shm_usd'[p] => peers'[p].notfirst = 1 /\ ~ (Kind(p) = "utf")
        /\ utf_initialized'[p] > 0 => peers'[p].notfirst # 0
    BY <1>1, <2>1 DEF BeginsOf, In, CallsOf
  <2> QED BY <1>1, <1>2, <2>1, <2>2, <2>3, <2>4, <2>5, GotoLocal
<1>4. CASE Return(p) /\ (pc[p] = "table" \/ Kind(p) = "usr")
  <2>1. /\ Call(p) = "init" => peers'[p].notfirst = 1
        /\ Call(p) = "shm_init" => shm_usd'[p]
        /\ shm_usd'[p] => peers'[p].notfirst = 1
        /\ utf_initialized'[p] > 0 => peers'[p].notfirst # 0
    BY <1>1, <1>4 DEF BeginsOf, CallsOf, Begun, Kind
  <2> QED BY <1>1, <1>2, <1>4, <2>1, ReturnLocal
<1>5. CASE pc[p] \in Handshake /\ Kind(p) = "utf" /\ Goto(p, "table")
  <2>1. /\ Call(p) \in {"init", "resolve"} /\ peers'[p].notfirst = 1 /\ ~ shm_usd'[p]
    BY <1>1, <1>5 DEF BeginsOf, CallsOf, Begun, Kind, In
  <2>2. /\ "table" \in Labels \ {"call", "end"}
        /\ "table" \notin Handshake \cup {"aborted"} /\ "table" \notin Leading
        /\ "table" \notin Following
    BY DEF Labels, Handshake, Leading, Following
  <2> QED BY <1>1, <1>2, <1>5, <2>1, <2>2, GotoLocal
<1>6. CASE pc[p] = "table" /\ Call(p) = "init" /\ Goto(p, "mem")
  <2>1. peers'[p].notfirst = 1
    BY <1>1, <1>6 DEF BeginsOf, Begun
  <2>2. /\ "mem" \in Labels \ {"call", "end"}
        /\ "mem" \notin Handshake \cup {"table", "aborted"} /\ "mem" \notin Leading
        /\ "mem" \notin Following
    BY DEF Labels, Handshake, Leading, Following
  <2> QED BY <1>1, <1>2, <1>6, <2>1, <2>2, GotoLocal
<1>7. Kind(p) \in {"utf", "usr"}
  BY DEF Kind
<1> QED BY <1>3, <1>4, <1>5, <1>6, <1>7 DEF ShmReturn

LEMMA ShmLocal ==
  ASSUME LocalInv, NEW p \in Procs, Others(p),
         \/ Create(p) \/ Publish(p) \/ Gather(p) \/ Remove(p) \/ Attach(p) \/ Count(p)
         \/ Table(p)
  PROVE  Calls' /\ Opens' /\ Begins'
<1>1. /\ pc[p] \in Handshake \cup {"table"} /\ UNCHANGED fenceVars
      /\ peers'[p] = peers[p] /\ shm_usd'[p] = shm_usd[p]
      /\ utf_initialized'[p] = utf_initialized[p]
  BY DEF Create, Publish, Gather, Remove, Attach, Count, Table, Handshake, Leading, Following
<1>2. fpc'[p] = "out"
  BY <1>1, LocalFacts DEF Handshake, Leading, Following
<1>3. \/ \E l \in Handshake \cup {"aborted"} :
              /\ Goto(p, l)
              /\ pc[p] \in Leading /\ l # "aborted" => l \in Leading
              /\ pc[p] \in Following /\ l # "aborted" => l \in Following
              /\ pc[p] # "table"
      \/ pc[p] \in Handshake /\ ShmReturn(p)
      \/ pc[p] = "table" /\ IF Call(p) = "init" THEN Goto(p, "mem") ELSE Return(p)
  <2>1. CASE Create(p)
    <3>1. pc[p] = "create" /\ (Goto(p, "publish") \/ Goto(p, "aborted"))
      BY <2>1 DEF Create
    <3> QED BY <3>1 DEF Handshake, Leading, Following
  <2>2. CASE Publish(p) \/ Gather(p)
    BY <2>2 DEF Publish, Gather, Handshake, Leading, Following
  <2>3. CASE Attach(p)
    <3>1. pc[p] = "attach" /\ (Goto(p, "count") \/ Goto(p, "aborted"))
      BY <2>3 DEF Attach
    <3> QED BY <3>1 DEF Handshake, Leading, Following
  <2>4. CASE Remove(p) \/ Count(p)
    BY <2>4 DEF Remove, Count, Handshake, Leading, Following
  <2>5. CASE Table(p)
    BY <2>5 DEF Table
  <2> QED BY <2>1, <2>2, <2>3, <2>4, <2>5
<1> QED BY <1>1, <1>2, <1>3, HandshakeLocal

LEMMA EnterLocal ==
  ASSUME LocalInv, NEW p \in Procs, Others(p), FenceEnter(p), Goto(p, "fence"),
         pc[p] \in {"call", "mem"}, ip[p] <= Len(Program),
         Call(p) \in {"init", "fence", "finalize"},
         Call(p) = "init" => pc[p] = "mem",
         utf_initialized'[p]
           = utf_initialized[p] + (IF pc[p] = "call" THEN Balance(Call(p)) ELSE 0),
         utf_initialized'[p] > 0 => utf_initialized[p] > 0,
         peers'[p] = peers[p], shm_usd'[p] = shm_usd[p]
  PROVE  Calls' /\ Opens' /\ Begins'
<1>1. BeginsOf(p) /\ peers[p].notfirst \in {0, 1}
  BY LocalFacts
<1>2. InFence(p)'
  <2>1. fpc'[p] = "update"
    BY LocalFacts DEF FenceEnter
  <2> QED BY <2>1 DEF InFence
<1>3. /\ "fence" \in Labels \ {"call", "end"}
      /\ "fence" \notin Handshake \cup {"table", "mem", "teardown", "aborted"}
      /\ "fence" \notin Leading /\ "fence" \notin Following
  BY DEF Labels, Handshake, Leading, Following
<1>4. /\ Call(p) = "init" => peers'[p].notfirst = 1
      /\ shm_usd'[p] => peers'[p].notfirst = 1
      /\ utf_initialized'[p] > 0 => peers'[p].notfirst # 0
  BY <1>1 DEF BeginsOf
<1> QED BY <1>1, <1>2, <1>3, <1>4, GotoLocal

LEMMA FenceLocal ==
  ASSUME LocalInv, NEW p \in Procs, Others(p),
         utf_mem_init(p) \/ utf_fence(p) \/ FenceRead(p) \/ FenceReturn(p) \/ utf_finalize(p)
  PROVE  Calls' /\ Opens' /\ Begins'
<1>1. /\ CallsOf(p) /\ BeginsOf(p) /\ utf_initialized[p] \in Nat
      /\ fpc \in [Procs -> {"out", "update", "write", "peek"}] /\ pc[p] \in Labels
  BY LocalFacts
<1>2. CASE utf_mem_init(p)
  <2>1. /\ pc[p] = "mem" /\ Goto(p, "fence") /\ FenceEnter(p) /\ peers'[p] = peers[p]
        /\ shm_usd'[p] = shm_usd[p] /\ utf_initialized'[p] = utf_initialized[p]
    BY <1>2 DEF utf_mem_init
  <2>2. Call(p) = "init" /\ ip[p] <= Len(Program)
    BY <1>1, <2>1 DEF CallsOf
  <2> QED BY <1>1, <2>1, <2>2, EnterLocal
<1>3. CASE utf_fence(p)
  <2>1. /\ pc[p] = "call" /\ Goto(p, "fence") /\ FenceEnter(p) /\ peers'[p] = peers[p]
        /\ shm_usd'[p] = shm_usd[p] /\ utf_initialized'[p] = utf_initialized[p]
        /\ Call(p) = "fence" /\ ip[p] <= Len(Program)
    BY <1>3 DEF utf_fence, At
  <2>2. Balance(Call(p)) = 0
    BY <2>1 DEF Balance
  <2>3. utf_initialized'[p]
           = utf_initialized[p] + (IF pc[p] = "call" THEN Balance(Call(p)) ELSE 0)
    BY <1>1, <2>1, <2>2
  <2> QED BY <1>1, <2>1, <2>3, EnterLocal
<1>4. CASE utf_finalize(p)
  <2>1. /\ pc[p] = "call" /\ peers'[p] = peers[p] /\ shm_usd'[p] = shm_usd[p]
        /\ Call(p) = "finalize" /\ ip[p] <= Len(Program)
        /\ utf_initialized'[p] = utf_initialized[p] - 1
    BY <1>4 DEF utf_finalize, At, LocalInv, StartType
  <2>2. utf_initialized'[p]
           = utf_initialized[p] + (IF pc[p] = "call" THEN Balance(Call(p)) ELSE 0)
    BY <1>1, <2>1 DEF Balance
  <2>3. utf_initialized'[p] > 0 => utf_initialized[p] > 0
    BY <1>1, <2>1
  <2>4. CASE Goto(p, "fence") /\ FenceEnter(p)
    BY <2>1, <2>2, <2>3, <2>4, EnterLocal
  <2>5. CASE Return(p) /\ UNCHANGED fenceVars
    <3>1. fpc'[p] = "out" /\ peers'[p].notfirst \in {0, 1}
      BY <2>1, <2>5, LocalFacts
    <3>2. /\ shm_usd'[p] => peers'[p].notfirst = 1
          /\ utf_initialized'[p] > 0 => peers'[p].notfirst # 0
      BY <1>1, <2>1, <2>3 DEF BeginsOf
    <3> QED BY <2>1, <2>2, <2>5, <3>1, <3>2, ReturnLocal
  <2> QED BY <1>4, <2>4, <2>5 DEF utf_finalize
<1>5. CASE (FenceRead(p) \/ FenceReturn(p)) /\ fpc'[p] # "out"
  <2>1. /\ fpc[p] # "out" /\ pc'[p] = pc[p] /\ ip'[p] = ip[p] /\ peers'[p] = peers[p]
        /\ shm_usd'[p] = shm_usd[p] /\ utf_initialized'[p] = utf_initialized[p]
    BY <1>1, <1>5 DEF FenceRead, FenceReturn, UpdateRead, UpdateWrite, Peek, Pass
  <2>2. Program' = Program /\ IsLeader(p)' = IsLeader(p)
    BY OthersSame
  <2>3. Call(p)' = Call(p) /\ Kind(p)' = Kind(p)
    BY <2>1, <2>2 DEF Call, Kind
  <2>4. CallsOf(p)'
    BY <1>1, <1>5, <2>1, <2>2, <2>3 DEF CallsOf, InFence
  <2>5. Opened(p)' = Opened(p)
    BY <2>1, <2>2, <2>3 DEF Opened
  <2>6. utf_initialized'[p] = Opened(p)'
    BY <2>1, <2>5 DEF LocalInv, Opens
  <2>7. BeginsOf(p)'
    <3>1. Begun(p, Kind(p))' = Begun(p, Kind(p)) /\ Begun(p, "utf")' = Begun(p, "utf")
      BY <2>1, <2>3 DEF Begun
    <3> QED BY <1>1, <2>1, <2>2, <2>3, <3>1 DEF BeginsOf, In
  <2> QED BY <2>4, <2>6, <2>7, OthersLocal
<1>6. CASE FenceReturn(p) /\ fpc'[p] = "out"
  <2>1. /\ fpc[p] # "out" /\ peers'[p] = peers[p]
        /\ shm_usd'[p] = shm_usd[p] /\ utf_initialized'[p] = utf_initialized[p]
    BY <1>1, <1>6 DEF FenceReturn, UpdateWrite, Peek
  <2>2. pc[p] = "fence" /\ ip[p] <= Len(Program) /\ Call(p) \in {"init", "fence", "finalize"}
    BY <1>1, <2>1 DEF CallsOf, InFence
  <2>3. /\ peers[p].notfirst \in {0, 1} /\ ~ InFence(p)'
        /\ shm_usd'[p] => peers'[p].notfirst = 1
        /\ utf_initialized'[p] > 0 => peers'[p].notfirst # 0
        /\ Call(p) = "init" => peers'[p].notfirst = 1
    BY <1>1, <1>6, <2>1, <2>2, LocalFacts DEF BeginsOf, InFence
  <2>4. utf_initialized'[p]
           = utf_initialized[p] + (IF pc[p] = "call" THEN Balance(Call(p)) ELSE 0)
    BY <1>1, <2>1, <2>2
  <2>5. CASE Return(p)
    BY <1>6, <2>1, <2>2, <2>3, <2>4, <2>5, ReturnLocal
  <2>6. CASE Call(p) = "finalize" /\ Goto(p, "teardown")
    <3>1. /\ "teardown" \in Labels \ {"call", "end"}
          /\ "teardown" \notin Handshake \cup {"table", "mem", "fence", "aborted"}
          /\ "teardown" \notin Leading /\ "teardown" \notin Following
      BY DEF Labels, Handshake, Leading, Following
    <3> QED BY <2>1, <2>2, <2>3, <2>4, <2>6, <3>1, GotoLocal
  <2> QED BY <1>6, <2>5, <2>6 DEF FenceReturn
<1>7. FenceRead(p) => fpc'[p] # "out"
  BY <1>1 DEF FenceRead, UpdateRead
<1> QED BY <1>2, <1>3, <1>4, <1>5, <1>6, <1>7

LEMMA CloseLocal ==
  ASSUME LocalInv, NEW p \in Procs, Others(p),
         Store(p) \/ utf_shm_finalize(p) \/ Teardown(p)
  PROVE  Calls' /\ Opens' /\ Begins'
<1>1. /\ CallsOf(p) /\ BeginsOf(p) /\ utf_initialized[p] \in Nat
      /\ peers \in [Procs -> [notfirst : {-1, 0, 1}, vcqhs : Seq(0 .. 5)]]
  BY LocalFacts
<1>2. /\ Return(p) /\ UNCHANGED fenceVars /\ pc[p] \in {"call", "teardown"}
      /\ shm_usd'[p] = shm_usd[p] /\ utf_initialized'[p] = utf_initialized[p]
      /\ peers'[p].notfirst = peers[p].notfirst
      /\ Call(p) \in {"store", "shm_finalize", "finalize"} /\ ip[p] <= Len(Program)
      /\ pc[p] = "call" => Call(p) # "finalize"
  BY <1>1 DEF Store, utf_shm_finalize, Teardown, At, CallsOf
<1>3. fpc'[p] = "out" /\ peers[p].notfirst \in {0, 1}
  BY <1>2, LocalFacts
<1>4. /\ shm_usd'[p] => peers'[p].notfirst = 1
      /\ utf_initialized'[p] > 0 => peers'[p].notfirst # 0
  BY <1>1, <1>2 DEF BeginsOf
<1>5. utf_initialized'[p] = utf_initialized[p] + (IF pc[p] = "call" THEN Balance(Call(p)) ELSE 0)
  BY <1>1, <1>2 DEF Balance
<1> QED BY <1>2, <1>3, <1>4, <1>5, ReturnLocal

LEMMA CallsNext ==
  ASSUME LocalInv, NEW p \in Procs, Step(p)
  PROVE  Calls' /\ Opens' /\ Begins'
<1>1. Others(p)
  BY StepOthers DEF LocalInv
<1>2. CASE utf_init(p)
  BY <1>1, <1>2, utf_initLocal
<1>3. CASE PMIx_Resolve_nodes(p)
  BY <1>1, <1>3, ResolveLocal
<1>4. CASE utf_shm_init(p)
  BY <1>1, <1>4, utf_shm_initLocal
<1>5. CASE \/ Create(p) \/ Publish(p) \/ Gather(p) \/ Remove(p) \/ Attach(p) \/ Count(p)
           \/ Table(p)
  BY <1>1, <1>5, ShmLocal
<1>6. CASE utf_mem_init(p) \/ utf_fence(p) \/ FenceRead(p) \/ FenceReturn(p) \/ utf_finalize(p)
  BY <1>1, <1>6, FenceLocal
<1>7. CASE Store(p) \/ utf_shm_finalize(p) \/ Teardown(p)
  BY <1>1, <1>7, CloseLocal
<1> QED BY <1>2, <1>3, <1>4, <1>5, <1>6, <1>7 DEF Step

-----------------------------------------------------------------------------
(* Types.                                                                  *)
LEMMA NodeRanks ==
  ASSUME NEW p \in Procs
  PROVE  /\ IsFiniteSet(nd_ranks(p)) /\ myppn(p) \in Nat /\ mynrnk(p) \in Nat
         /\ mynrnk(p) < myppn(p) /\ p \in nd_ranks(p)
<1> DEFINE S == {q \in nd_ranks(p) : q < p}
<1>1. IsFiniteSet(nd_ranks(p)) /\ p \in nd_ranks(p)
  <2>1. nd_ranks(p) \in SUBSET Procs
    BY DEF nd_ranks
  <2> QED BY <2>1, ProcsNat, FS_Subset DEF nd_ranks
<1>2. S \in SUBSET nd_ranks(p) /\ S # nd_ranks(p)
  <2>1. p \in Nat
    BY ProcsNat
  <2> QED BY <1>1, <2>1
<1>3. IsFiniteSet(S) /\ Cardinality(S) <= Cardinality(nd_ranks(p))
      /\ Cardinality(S) # Cardinality(nd_ranks(p))
  BY <1>1, <1>2, FS_Subset
<1>4. Cardinality(S) \in Nat /\ Cardinality(nd_ranks(p)) \in Nat
  BY <1>1, <1>3, FS_CardinalityType
<1> QED BY <1>1, <1>3, <1>4 DEF myppn, mynrnk

(* every node has at most MaxPpn processes                                 *)
LEMMA MaxPpnFacts ==
  ASSUME NEW p \in Procs
  PROVE  /\ MaxPpn \in Nat /\ \A q \in Procs : myppn(q) <= MaxPpn
         /\ \E q \in Procs : MaxPpn = myppn(q)
<1> DEFINE N == Cardinality(Procs)
           T == {N - myppn(q) : q \in Procs}
<1>1. N \in Nat
  BY ProcsNat, FS_CardinalityType
<1>2. \A q \in Procs : myppn(q) \in Nat /\ myppn(q) <= N
  <2>1. ASSUME NEW q \in Procs PROVE myppn(q) \in Nat /\ myppn(q) <= N
    <3>1. nd_ranks(q) \in SUBSET Procs
      BY DEF nd_ranks
    <3> QED BY <3>1, ProcsNat, FS_Subset, NodeRanks DEF myppn
  <2> QED BY <2>1
<1>3. T \subseteq Nat /\ T # {}
  BY <1>1, <1>2
<1>4. PICK x \in T : \A y \in T : x <= y
  BY <1>3, LeastNumber
<1>5. PICK r \in Procs : x = N - myppn(r)
  BY <1>4
<1>6. \A q \in Procs : myppn(q) <= myppn(r)
  BY <1>1, <1>2, <1>4, <1>5
<1>7. \E n \in {myppn(q) : q \in Procs} : \A q \in Procs : myppn(q) <= n
  BY <1>6
<1>8. MaxPpn \in {myppn(q) : q \in Procs} /\ \A q \in Procs : myppn(q) <= MaxPpn
  BY <1>7 DEF MaxPpn
<1> QED BY <1>2, <1>8

LEMMA TniidsFacts ==
  ASSUME NEW p \in Procs
  PROVE  /\ tniids(p) \in Seq(0 .. 5) /\ Len(tniids(p)) = Len(OnesidedTnis)
         /\ tniids(p)[1] = tniq(p).tni
<1>1. /\ MaxPpn \in Nat /\ mynrnk(p) \in Nat /\ mynrnk(p) < MaxPpn
  BY MaxPpnFacts, NodeRanks
<1>2. \A a, n \in Nat : a < n => utf_tni_select(n, a).tni \in 0 .. 5
  <2> SUFFICES ASSUME NEW a \in Nat, NEW n \in Nat, a < n
               PROVE  utf_tni_select(n, a).tni \in 0 .. 5
    OBVIOUS
  <2>1. a % 2 \in 0 .. 1 /\ a % 3 \in 0 .. 2 /\ a % 6 \in 0 .. 5
    BY Division
  <2>2. (a % 2) * 3 \in 0 .. 5 /\ (a % 3) * 2 \in 0 .. 5
    BY <2>1
  <2>3. utf_tni_select(n, a).tni \in {0, a, (a % 2) * 3, (a % 3) * 2, a % 6}
    BY DEF utf_tni_select
  <2>4. n \in 2 .. 4 \/ utf_tni_select(n, a).tni \in {0, (a % 2) * 3, (a % 3) * 2, a % 6}
    BY DEF utf_tni_select
  <2> QED BY <2>1, <2>2, <2>3, <2>4
<1>3. tniq(p).tni \in 0 .. 5
  BY <1>1, <1>2 DEF tniq
<1>4. tniids(p) = [i \in 1 .. 6 |-> IF i = 1 THEN tniq(p).tni
                     ELSE IF OnesidedTnis[i - 1] < tniq(p).tni THEN OnesidedTnis[i - 1]
                     ELSE OnesidedTnis[i]]
  <2>1. Len(OnesidedTnis) = 6
    BY DEF OnesidedTnis
  <2> QED BY <2>1 DEF tniids
<1>5. \A i \in 1 .. 6 : OnesidedTnis[i] \in 0 .. 5
  BY DEF OnesidedTnis
<1>6. tniids(p) \in [1 .. 6 -> 0 .. 5]
  <2>1. \A i \in 2 .. 6 : i - 1 \in 1 .. 6
    OBVIOUS
  <2> QED BY <1>3, <1>4, <1>5, <2>1
<1>7. tniids(p) \in Seq(0 .. 5) /\ Len(tniids(p)) = 6
  <2> DEFINE t == tniids(p)
  <2>1. t \in [1 .. 6 -> 0 .. 5]
    BY <1>6
  <2> HIDE DEF t
  <2>2. t \in Seq(0 .. 5)
    BY <2>1, SeqDef
  <2>3. DOMAIN t = 1 .. 6 /\ DOMAIN t = 1 .. Len(t) /\ Len(t) \in Nat
    BY <2>1, <2>2, LenProperties
  <2>4. Len(t) = 6
    BY <2>3
  <2> QED BY <2>2, <2>4 DEF t
<1> QED BY <1>4, <1>7 DEF OnesidedTnis

-----------------------------------------------------------------------------
(* Segments come and go.                                                   *)
LEMMA KindFacts ==
  \A p \in Procs : Kind(p) \in Kinds /\ Size(p) = IF Kind(p) = "utf" THEN CqPages ELSE sz
BY DEF Kind, Kinds, Size

LEMMA FreshFacts ==
  ASSUME SegType
  PROVE  FreshId \in Nat \ {0} /\ FreshId \notin DOMAIN seg
<1> DEFINE n == Cardinality(DOMAIN seg)
<1>1. n \in Nat
  BY FS_CardinalityType DEF SegType
<1>2. \E i \in 1 .. n + 1 : i \notin DOMAIN seg
  <2> SUFFICES ASSUME 1 .. n + 1 \subseteq DOMAIN seg PROVE FALSE
    OBVIOUS
  <2>1. IsFiniteSet(1 .. n + 1) /\ Cardinality(1 .. n + 1) = n + 1
    BY <1>1, FS_Interval
  <2>2. IsFiniteSet(DOMAIN seg) /\ (1 .. n + 1) \in SUBSET (DOMAIN seg)
    BY DEF SegType
  <2>3. Cardinality(1 .. n + 1) <= n
    BY <2>2, FS_Subset
  <2> QED BY <1>1, <2>1, <2>3
<1>3. FreshId \in 1 .. n + 1 /\ FreshId \notin DOMAIN seg
  BY <1>2 DEF FreshId
<1> QED BY <1>1, <1>3

LEMMA AddSeg ==
  ASSUME StartType, SegType, NEW p \in Procs, NEW size \in Nat,
         seg' = With(seg, FreshId, NewSeg(place[p], Kind(p), size))
  PROVE  /\ SegType' /\ DOMAIN seg' = DOMAIN seg \cup {FreshId}
         /\ \A j \in DOMAIN seg : seg'[j] = seg[j]
         /\ LET s == seg'[FreshId] IN
              /\ s.node = place[p] /\ s.key = TRUE /\ s.size = size /\ s.kind = Kind(p)
              /\ s.by = job /\ s.entries = <<>> /\ s.stores = {} /\ s.word = NoWord
<1> DEFINE id == FreshId
           r == NewSeg(place[p], Kind(p), size)
<1>1. id \in Nat \ {0} /\ id \notin DOMAIN seg
  BY FreshFacts
<1>2. seg' = [j \in DOMAIN seg \cup {id} |-> IF j = id THEN r ELSE seg[j]]
  BY DEF With
<1>3. /\ r.node = place[p] /\ r.key = TRUE /\ r.size = size /\ r.kind = Kind(p)
      /\ r.by = job /\ r.entries = <<>> /\ r.stores = {} /\ r.word = NoWord
  BY DEF NewSeg
<1>4. r \in Segment(r.entries)
  <2>1. place[p] \in Nodes /\ job \in Nat /\ Kind(p) \in Kinds
    BY KindFacts, StartAssumption DEF StartType, Nodes
  <2> QED BY <2>1 DEF NewSeg, Segment
<1> HIDE DEF id, r
<1>5. DOMAIN seg' = DOMAIN seg \cup {id} /\ seg'[id] = r /\ \A j \in DOMAIN seg : seg'[j] = seg[j]
  BY <1>1, <1>2
<1>6. IsFiniteSet(DOMAIN seg')
  BY <1>5, FS_AddElement DEF SegType
<1>7. SegType'
  BY <1>1, <1>4, <1>5, <1>6 DEF SegType
<1>8. id = FreshId
  BY DEF id
<1> QED BY <1>3, <1>5, <1>7, <1>8

LEMMA DropSeg ==
  ASSUME SegType, NEW p \in Procs, NEW i \in Nat, seg' = Detached(seg, i, p)
  PROVE  /\ SegType' /\ DOMAIN seg' \subseteq DOMAIN seg
         /\ \A j \in DOMAIN seg' : seg'[j] = seg[j]
         /\ \A j \in DOMAIN seg : j \notin DOMAIN seg' =>
              j = i /\ ~ seg[j].key /\ Attached(j) \subseteq {p}
<1>1. CASE i \in DOMAIN seg /\ ~ seg[i].key /\ Attached(i) \subseteq {p}
  <2>1. seg' = [j \in DOMAIN seg \ {i} |-> seg[j]]
    BY <1>1 DEF Detached, Without
  <2>2. DOMAIN seg' = DOMAIN seg \ {i} /\ \A j \in DOMAIN seg' : seg'[j] = seg[j]
    BY <2>1
  <2>3. IsFiniteSet(DOMAIN seg')
    BY <2>2, FS_RemoveElement DEF SegType
  <2> QED BY <1>1, <2>2, <2>3 DEF SegType
<1>2. CASE ~ (i \in DOMAIN seg /\ ~ seg[i].key /\ Attached(i) \subseteq {p})
  <2>1. seg' = seg
    BY <1>2 DEF Detached
  <2> QED BY <2>1 DEF SegType
<1> QED BY <1>1, <1>2

-----------------------------------------------------------------------------
(* What keeps the facts about the leader's and the others' progress.       *)
LEMMA PublishedKeeps ==
  ASSUME Published, NEW p \in Procs, Others(p),
         \A q \in Procs : \A k \in Kinds :
           <<q, k>> \in kvs' => <<q, k>> \in kvs \/ (q = p /\ IsLeader(p) /\ Past(p, k)'),
         \A k \in Kinds : IsLeader(p) /\ Past(p, k) => Past(p, k)'
  PROVE  Published'
<1> SUFFICES ASSUME NEW q \in Procs, NEW k \in Kinds, <<q, k>> \in kvs'
             PROVE  IsLeader(q)' /\ Past(q, k)'
  BY DEF Published
<1>1. IsLeader(q)' = IsLeader(q) /\ (q # p => Past(q, k)' = Past(q, k))
  BY OthersSame
<1>2. <<q, k>> \in kvs => IsLeader(q) /\ Past(q, k)
  BY DEF Published
<1> QED BY <1>1, <1>2

LEMMA CountingKeeps ==
  ASSUME Counting, NEW p \in Procs, Others(p),
         ASSUME NEW k \in Kinds, IsLeader(p)
         PROVE  /\ Past(p, k) => Past(p, k)'
                /\ Past(p, k)' /\ ~ In(p, {"gather"}, k)' =>
                     \/ Past(p, k) /\ ~ In(p, {"gather"}, k)
                     \/ \A q \in nd_ranks(p) \ {p} : Counted(q, k),
         ASSUME NEW k \in Kinds, ~ IsLeader(p)
         PROVE  /\ Counted(p, k) => Counted(p, k)'
                /\ Counted(p, k)' \/ In(p, {"count"}, k)' =>
                     Counted(p, k) \/ In(p, {"count"}, k) \/ Past(lrank(p), k)
  PROVE  Counting'
<1>0. \A q \in Procs : IsLeader(q)' = IsLeader(q) /\ lrank(q)' = lrank(q)
  BY OthersSame
<1> SUFFICES ASSUME NEW q \in Procs, NEW r \in Procs, NEW k \in Kinds, ~ IsLeader(q),
                    r = lrank(q)
             PROVE  /\ Counted(q, k)' \/ In(q, {"count"}, k)' => Past(r, k)'
                    /\ Past(r, k)' /\ ~ In(r, {"gather"}, k)' => Counted(q, k)'
  BY <1>0 DEF Counting
<1>1. place[r] = place[q] /\ IsLeader(r) /\ r # q /\ q \in nd_ranks(r)
  BY LeaderFacts DEF nd_ranks
<1>2. /\ q # p => /\ Counted(q, k)' <=> Counted(q, k)
                  /\ In(q, {"count"}, k)' <=> In(q, {"count"}, k)
      /\ r # p => /\ Past(r, k)' <=> Past(r, k)
                  /\ In(r, {"gather"}, k)' <=> In(r, {"gather"}, k)
  <2>1. \A x \in Procs : x # p =>
          /\ pc'[x] = pc[x] /\ Kind(x)' = Kind(x)
          /\ Counted(x, k)' = Counted(x, k) /\ Past(x, k)' = Past(x, k)
    BY OthersSame
  <2>2. \A x \in Procs : x # p =>
          /\ Counted(x, k)' <=> Counted(x, k)
          /\ Past(x, k)' <=> Past(x, k)
          /\ In(x, {"count"}, k)' <=> In(x, {"count"}, k)
          /\ In(x, {"gather"}, k)' <=> In(x, {"gather"}, k)
    <3> SUFFICES ASSUME NEW x \in Procs, x # p
                 PROVE  /\ Counted(x, k)' <=> Counted(x, k)
                        /\ Past(x, k)' <=> Past(x, k)
                        /\ In(x, {"count"}, k)' <=> In(x, {"count"}, k)
                        /\ In(x, {"gather"}, k)' <=> In(x, {"gather"}, k)
      OBVIOUS
    <3>1. Counted(x, k)' = Counted(x, k) /\ Past(x, k)' = Past(x, k)
      BY <2>1
    <3>2. pc'[x] = pc[x] /\ Kind(x)' = Kind(x)
      BY <2>1
    <3> QED BY <3>1, <3>2 DEF In
  <2> QED BY <1>1, <2>2
<1>3. /\ Counted(q, k) \/ In(q, {"count"}, k) => Past(r, k)
      /\ Past(r, k) /\ ~ In(r, {"gather"}, k) => Counted(q, k)
  BY DEF Counting
<1>4. CASE p # q /\ p # r
  BY <1>2, <1>3, <1>4
<1>5. CASE p = q
  BY <1>1, <1>2, <1>3, <1>5
<1>6. CASE p = r
  <2>1. /\ IsLeader(p) /\ q \in nd_ranks(p) \ {p} /\ p # q
        /\ Counted(q, k) \/ In(q, {"count"}, k) => Past(p, k)
        /\ Past(p, k) /\ ~ In(p, {"gather"}, k) => Counted(q, k)
    BY <1>1, <1>3, <1>6
  <2>2. /\ Past(p, k) => Past(p, k)'
        /\ Past(p, k)' /\ ~ In(p, {"gather"}, k)' =>
             \/ Past(p, k) /\ ~ In(p, {"gather"}, k)
             \/ \A x \in nd_ranks(p) \ {p} : Counted(x, k)
    BY <2>1
  <2> QED BY <1>2, <1>6, <2>1, <2>2
<1> QED BY <1>4, <1>5, <1>6

LEMMA SameIn ==
  ASSUME NEW p \in Procs, Others(p), NEW q \in Procs, q # p, NEW k \in Kinds
  PROVE  /\ Holding(q, k)' <=> Holding(q, k)
         /\ In(q, {"gather"}, k)' <=> In(q, {"gather"}, k)
         /\ In(q, {"count"}, k)' <=> In(q, {"count"}, k)
         /\ In(q, {"create", "attach"}, k)' <=> In(q, {"create", "attach"}, k)
<1>1. pc'[q] = pc[q] /\ Kind(q)' = Kind(q)
  BY OthersSame
<1> QED BY <1>1 DEF In, Holding

LEMMA HeadsKeeps ==
  ASSUME Heads, Begins, NEW p \in Procs, Others(p),
         ASSUME NEW q \in Procs, q # p, NEW k \in Kinds, In(q, {"gather"}, k)
         PROVE  seg'[shmid[q][k]].head = seg[shmid[q][k]].head,
         \A k \in Kinds : ~ IsLeader(p) => (Counted(p, k)' <=> Counted(p, k)),
         \A k \in Kinds : In(p, {"gather"}, k)' =>
           seg'[shmid'[p][k]].head = 1 + Cardinality(CountedOn(p, k))
  PROVE  Heads'
<1> SUFFICES ASSUME NEW q \in Procs, NEW k \in Kinds, In(q, {"gather"}, k)'
             PROVE  seg'[shmid'[q][k]].head = 1 + Cardinality(CountedOn(q, k)')
  BY DEF Heads
<1>1. nd_ranks(q)' = nd_ranks(q)
  BY OthersSame
<1>2. CASE q = p
  <2>1. \A x \in nd_ranks(p) \ {p} : Counted(x, k)' <=> Counted(x, k)
    BY OthersSame, LeaderFacts
  <2>2. CountedOn(p, k)' = CountedOn(p, k)
    BY <1>1, <1>2, <2>1 DEF CountedOn
  <2> QED BY <1>2, <2>2
<1>3. CASE q # p
  <2>1. In(q, {"gather"}, k) /\ shmid'[q] = shmid[q]
    BY <1>3, SameIn, OthersSame
  <2>2. IsLeader(q)
    BY <2>1 DEF Begins, BeginsOf, In, Leading
  <2>3. \A x \in nd_ranks(q) \ {q} : ~ IsLeader(x)
    BY <2>2, LeaderFacts
  <2>4. ASSUME NEW x \in nd_ranks(q) \ {q} PROVE Counted(x, k)' <=> Counted(x, k)
    <3>1. x \in Procs /\ ~ IsLeader(x)
      BY <2>3, LeaderFacts
    <3>2. x # p => Counted(x, k)' = Counted(x, k)
      BY <3>1, OthersSame
    <3> QED BY <3>1, <3>2
  <2>5. CountedOn(q, k)' = CountedOn(q, k)
    BY <1>1, <2>4 DEF CountedOn
  <2>6. seg'[shmid[q][k]].head = seg[shmid[q][k]].head
    BY <1>3, <2>1
  <2> QED BY <2>1, <2>5, <2>6 DEF Heads
<1> QED BY <1>2, <1>3

LEMMA HeldKeeps ==
  ASSUME Held, NEW p \in Procs, Others(p),
         ASSUME NEW q \in Procs, q # p, NEW k \in Kinds, shmid[q][k] # NoSeg
         PROVE  shmid[q][k] \in DOMAIN seg' /\ seg'[shmid[q][k]].node = seg[shmid[q][k]].node,
         HeldOf(p)'
  PROVE  Held'
<1> SUFFICES ASSUME NEW q \in Procs, q # p PROVE HeldOf(q)'
  BY DEF Held
<1>1. HeldOf(q)
  BY DEF Held
<1>2. /\ shmid'[q] = shmid[q] /\ Program' = Program /\ pc'[q] = pc[q] /\ place' = place
      /\ shm_usd'[q] = shm_usd[q] /\ ip'[q] = ip[q] /\ Kind(q)' = Kind(q)
      /\ \A k \in Kinds : Begun(q, k)' = Begun(q, k)
  BY OthersSame DEF Others
<1>3. ASSUME NEW k \in Kinds, shmid'[q][k] # NoSeg
      PROVE  /\ shmid'[q][k] \in DOMAIN seg' /\ seg'[shmid'[q][k]].node = place'[q]
             /\ Begun(q, k)' /\ ~ In(q, {"create", "attach"}, k)'
  BY <1>1, <1>2, <1>3, SameIn DEF HeldOf
<1>4. ASSUME NEW k \in Kinds, Holding(q, k)' \/ In(q, {"count"}, k)'
      PROVE  shmid'[q][k] # NoSeg
  BY <1>1, <1>2, <1>4, SameIn DEF HeldOf
<1>5. (pc[q] = "table")' => shmid'[q]["utf"] # NoSeg
  BY <1>1, <1>2 DEF HeldOf
<1>6. ASSUME shm_usd'[q], ~ In(q, {"create", "attach", "aborted"}, "usr")',
             \A j \in 1 .. ip'[q] - 1 : Program'[j] # "shm_finalize"
      PROVE  shmid'[q]["usr"] # NoSeg
  <2>1. ~ In(q, {"create", "attach", "aborted"}, "usr")
    BY <1>2, <1>6 DEF In
  <2> QED BY <1>1, <1>2, <1>6, <2>1 DEF HeldOf
<1> QED BY <1>3, <1>4, <1>5, <1>6 DEF HeldOf

(* Nothing is attached anew.                                               *)
LEMMA OwnSegsKeeps ==
  ASSUME OwnSegs, NEW p \in Procs, Others(p),
         \A k \in Kinds : shmid'[p][k] \in {shmid[p][k], NoSeg}
  PROVE  OwnSegs'
<1>1. \A q \in Procs : \A k \in Kinds : shmid'[q][k] \in {shmid[q][k], NoSeg}
  BY DEF Others
<1>2. place' = place
  BY OthersSame
<1> QED BY <1>1, <1>2 DEF OwnSegs

LEMMA OwnStoresKeeps ==
  ASSUME OwnStores, NEW p \in Procs, Others(p),
         \A k \in Kinds : shmid'[p][k] \in {shmid[p][k], NoSeg},
         ASSUME NEW q \in Procs, shmid[q]["usr"] # NoSeg
         PROVE  /\ \/ shmid'[q]["usr"] = NoSeg
                   \/ /\ seg'[shmid[q]["usr"]].stores \subseteq
                           seg[shmid[q]["usr"]].stores \cup {job}
                      /\ seg'[shmid[q]["usr"]].entries = seg[shmid[q]["usr"]].entries
  PROVE  OwnStores'
<1>1. \A q \in Procs : shmid'[q]["usr"] \in {shmid[q]["usr"], NoSeg}
  BY DEF Others, Kinds
<1>2. job' = job
  BY OthersSame
<1> SUFFICES ASSUME NEW q \in Procs, shmid'[q]["usr"] # NoSeg
             PROVE  /\ seg'[shmid'[q]["usr"]].stores \subseteq {job'}
                    /\ seg'[shmid'[q]["usr"]].entries = <<>>
  BY DEF OwnStores
<1>3. shmid'[q]["usr"] = shmid[q]["usr"] /\ shmid[q]["usr"] # NoSeg
  BY <1>1
<1> QED BY <1>2, <1>3 DEF OwnStores

LEMMA AbortsKeeps ==
  ASSUME Aborts, NEW p \in Procs, Others(p),
         ASSUME NEW q \in Procs, q # p, pc[q] = "aborted", IsLeader(q), NEW i \in DOMAIN seg,
                seg[i].node = place[q], seg[i].key
         PROVE  /\ i \in DOMAIN seg' /\ seg'[i].key /\ seg'[i].node = seg[i].node
                /\ seg'[i].by = seg[i].by /\ seg'[i].kind = seg[i].kind
                /\ seg'[i].size = seg[i].size,
         pc'[p] = "aborted" /\ peers'[p].notfirst # -1 =>
           /\ IsLeader(p) /\ Kind(p)' = "utf"
           /\ \E i \in DOMAIN seg' :
                /\ seg'[i].node = place[p] /\ seg'[i].key
                /\ seg'[i].by < job /\ seg'[i].kind = "usr" /\ seg'[i].size < CqPages
  PROVE  Aborts'
<1>1. place' = place /\ job' = job
  BY OthersSame
<1> SUFFICES ASSUME NEW q \in Procs, pc'[q] = "aborted", peers'[q].notfirst # -1
             PROVE  /\ IsLeader(q)' /\ Kind(q)' = "utf"
                    /\ \E i \in DOMAIN seg' :
                         /\ seg'[i].node = place[q] /\ seg'[i].key
                         /\ seg'[i].by < job /\ seg'[i].kind = "usr" /\ seg'[i].size < CqPages
  BY <1>1 DEF Aborts
<1>2. IsLeader(q)' = IsLeader(q)
  BY OthersSame
<1>3. CASE q = p
  BY <1>2, <1>3
<1>4. CASE q # p
  <2>1. pc[q] = "aborted" /\ peers[q].notfirst # -1 /\ Kind(q)' = Kind(q)
    BY <1>4, OthersSame
  <2>2. /\ IsLeader(q) /\ Kind(q) = "utf"
        /\ \E i \in DOMAIN seg :
             /\ seg[i].node = place[q] /\ seg[i].key
             /\ seg[i].by < job /\ seg[i].kind = "usr" /\ seg[i].size < CqPages
    BY <2>1 DEF Aborts
  <2>3. PICK i \in DOMAIN seg :
             /\ seg[i].node = place[q] /\ seg[i].key
             /\ seg[i].by < job /\ seg[i].kind = "usr" /\ seg[i].size < CqPages
    BY <2>2
  <2>4. /\ i \in DOMAIN seg' /\ seg'[i].key /\ seg'[i].node = seg[i].node
        /\ seg'[i].by = seg[i].by /\ seg'[i].kind = seg[i].kind
        /\ seg'[i].size = seg[i].size
    BY <1>4, <2>1, <2>2, <2>3
  <2> QED BY <1>2, <2>1, <2>2, <2>3, <2>4
<1> QED BY <1>3, <1>4

LEMMA KeyOneKeeps ==
  ASSUME KeyOne,
         ASSUME NEW i \in DOMAIN seg', seg'[i].key
         PROVE  i \in DOMAIN seg /\ seg[i].key /\ seg'[i].node = seg[i].node
  PROVE  KeyOne'
<1> SUFFICES ASSUME NEW i \in DOMAIN seg', NEW j \in DOMAIN seg', seg'[i].key, seg'[j].key,
                    seg'[i].node = seg'[j].node
             PROVE  i = j
  BY DEF KeyOne
<1>1. i \in DOMAIN seg /\ seg[i].key /\ seg'[i].node = seg[i].node
  OBVIOUS
<1>2. j \in DOMAIN seg /\ seg[j].key /\ seg'[j].node = seg[j].node
  OBVIOUS
<1> QED BY <1>1, <1>2 DEF KeyOne

LEMMA KeyHeldKeeps ==
  ASSUME KeyHeld, NEW p \in Procs, Others(p),
         ASSUME NEW q \in Procs, q # p, NEW k \in Kinds, Holding(q, k)
         PROVE  /\ seg'[shmid[q][k]].key = seg[shmid[q][k]].key
                /\ seg'[shmid[q][k]].size = seg[shmid[q][k]].size,
         \A k \in Kinds : Holding(p, k)' =>
           /\ seg'[shmid'[p][k]].key
           /\ seg'[shmid'[p][k]].size >= (IF k = "utf" THEN CqPages ELSE sz)
  PROVE  KeyHeld'
<1>1. sz' = sz
  BY OthersSame
<1> SUFFICES ASSUME NEW q \in Procs, NEW k \in Kinds, Holding(q, k)'
             PROVE  /\ seg'[shmid'[q][k]].key
                    /\ seg'[shmid'[q][k]].size >= (IF k = "utf" THEN CqPages ELSE sz)
  BY <1>1 DEF KeyHeld
<1>2. CASE q = p
  BY <1>2
<1>3. CASE q # p
  <2>1. Holding(q, k) /\ shmid'[q] = shmid[q]
    BY <1>3, SameIn, OthersSame
  <2>2. /\ seg'[shmid[q][k]].key = seg[shmid[q][k]].key
        /\ seg'[shmid[q][k]].size = seg[shmid[q][k]].size
    BY <1>3, <2>1
  <2>3. /\ seg[shmid[q][k]].key
        /\ seg[shmid[q][k]].size >= (IF k = "utf" THEN CqPages ELSE sz)
    BY <2>1 DEF KeyHeld
  <2> QED BY <2>1, <2>2, <2>3
<1> QED BY <1>2, <1>3

LEMMA KeyWhyKeeps ==
  ASSUME KeyWhy, NEW p \in Procs, Others(p),
         ASSUME NEW i \in DOMAIN seg', seg'[i].key
         PROVE  \/ \E k \in Kinds : Holding(p, k)' /\ shmid'[p][k] = i
                \/ \E q \in Procs : q # p /\ \E k \in Kinds : Holding(q, k) /\ shmid[q][k] = i
                \/ /\ i \in DOMAIN seg /\ seg[i].key
                   /\ seg'[i].node = seg[i].node /\ seg'[i].by = seg[i].by
                   /\ \A k \in Kinds : shmid'[p][k] = i => shmid[p][k] = i
                   /\ place[p] = seg[i].node /\ IsLeader(p) /\ Fresh(p) => Fresh(p)'
                   /\ \A k \in Kinds : Holding(p, k) /\ shmid[p][k] = i =>
                        Holding(p, k)' /\ shmid'[p][k] = i
  PROVE  KeyWhy'
<1> SUFFICES ASSUME NEW i \in DOMAIN seg', seg'[i].key
             PROVE  \/ Stale(i)'
                    \/ \E q \in Procs : \E k \in Kinds : Holding(q, k)' /\ shmid'[q][k] = i
  BY DEF KeyWhy
<1>1. CASE \E k \in Kinds : Holding(p, k)' /\ shmid'[p][k] = i
  BY <1>1
<1>3. ASSUME NEW q \in Procs, q # p, NEW k \in Kinds, Holding(q, k), shmid[q][k] = i
      PROVE  Holding(q, k)' /\ shmid'[q][k] = i
  BY <1>3, SameIn, OthersSame
<1>2. CASE /\ i \in DOMAIN seg /\ seg[i].key
           /\ seg'[i].node = seg[i].node /\ seg'[i].by = seg[i].by
           /\ \A k \in Kinds : shmid'[p][k] = i => shmid[p][k] = i
           /\ place[p] = seg[i].node /\ IsLeader(p) /\ Fresh(p) => Fresh(p)'
           /\ \A k \in Kinds : Holding(p, k) /\ shmid[p][k] = i =>
                Holding(p, k)' /\ shmid'[p][k] = i
  <2>1. Stale(i) \/ \E q \in Procs : \E k \in Kinds : Holding(q, k) /\ shmid[q][k] = i
    BY <1>2 DEF KeyWhy
  <2>2. CASE Stale(i)
    <3>1. \A q \in Procs : \A k \in Kinds : shmid'[q][k] = i => shmid[q][k] = i
      BY <1>2, OthersSame
    <3>2. Attached(i) = {}
      BY <2>2 DEF Stale
    <3>3. Attached(i)' = {}
      BY <3>1, <3>2 DEF Attached
    <3>4. seg'[i].by < job'
      BY <1>2, <2>2, OthersSame DEF Stale
    <3>5. ASSUME NEW q \in Procs, place'[q] = seg'[i].node, IsLeader(q)' PROVE Fresh(q)'
      <4>1. place[q] = seg[i].node /\ IsLeader(q)
        BY <1>2, <3>5, OthersSame
      <4>2. Fresh(q)
        BY <2>2, <4>1 DEF Stale
      <4>3. q # p => Fresh(q)' = Fresh(q)
        BY OthersSame
      <4> QED BY <1>2, <4>1, <4>2, <4>3
    <3> QED BY <3>3, <3>4, <3>5 DEF Stale
  <2>3. ASSUME NEW q \in Procs, NEW k \in Kinds, Holding(q, k), shmid[q][k] = i
        PROVE  Holding(q, k)' /\ shmid'[q][k] = i
    <3>1. q # p => Holding(q, k)' /\ shmid'[q] = shmid[q]
      BY <2>3, SameIn, OthersSame
    <3> QED BY <1>2, <2>3, <3>1
  <2> QED BY <2>1, <2>2, <2>3
<1> QED BY <1>1, <1>2, <1>3

LEMMA OwnKindsKeeps ==
  ASSUME OwnKinds, NEW p \in Procs, Others(p),
         ASSUME NEW i \in DOMAIN seg'
         PROVE  \/ /\ i \in DOMAIN seg /\ seg'[i].by = seg[i].by
                   /\ seg'[i].kind = seg[i].kind /\ seg'[i].size = seg[i].size
                \/ seg'[i].by <= job /\ (seg'[i].kind = "utf" => seg'[i].size = CqPages)
  PROVE  OwnKinds'
<1>1. job' = job
  BY OthersSame
<1> QED BY <1>1 DEF OwnKinds

-----------------------------------------------------------------------------
(* Steps outside of the handshake, and into it.                            *)

(* what the facts about the nodes see of p's progress does not change      *)
SameFlags(p) ==
  /\ \A k \in Kinds : /\ IsLeader(p) => (Past(p, k)' <=> Past(p, k))
                      /\ ~ IsLeader(p) => (Counted(p, k)' <=> Counted(p, k))
                      /\ ~ Holding(p, k) /\ ~ Holding(p, k)'
                      /\ ~ In(p, {"count"}, k) /\ ~ In(p, {"count"}, k)'
  /\ IsLeader(p) /\ Fresh(p) => Fresh(p)'

(* p leaves segments, and those that go were its own; it may set the head  *)
(* of one on which no leader waits                                         *)
Leaves(p) ==
  /\ UNCHANGED kvs
  /\ \A k \in Kinds : shmid'[p][k] \in {shmid[p][k], NoSeg}
  /\ \A i \in DOMAIN seg' : i \in DOMAIN seg
  /\ \A i \in DOMAIN seg' :
       /\ seg'[i].node = seg[i].node /\ seg'[i].size = seg[i].size
       /\ seg'[i].kind = seg[i].kind /\ seg'[i].by = seg[i].by
       /\ seg'[i].key = seg[i].key
       /\ \/ seg'[i].head = seg[i].head
          \/ \A q \in Procs : \A k \in Kinds : In(q, {"gather"}, k) => shmid[q][k] # i
  /\ \A i \in DOMAIN seg : i \notin DOMAIN seg' => ~ seg[i].key /\ Attached(i) \subseteq {p}

LEMMA CalmKeeps ==
  ASSUME ShmInv, NEW p \in Procs, Others(p), SameFlags(p), Leaves(p), HeldOf(p)', OwnStores',
         pc'[p] = "aborted" /\ peers'[p].notfirst # -1 =>
           /\ IsLeader(p) /\ Kind(p)' = "utf"
           /\ \E i \in DOMAIN seg' :
                /\ seg'[i].node = place[p] /\ seg'[i].key
                /\ seg'[i].by < job /\ seg'[i].kind = "usr" /\ seg'[i].size < CqPages
  PROVE  ShmInv' <=> LocalInv'
<1> USE DEF ShmInv
<1>1. ASSUME NEW q \in Procs, q # p, NEW k \in Kinds, shmid[q][k] # NoSeg
      PROVE  shmid[q][k] \in DOMAIN seg' /\ shmid[q][k] \in DOMAIN seg
  <2>1. shmid[q][k] \in DOMAIN seg
    BY <1>1 DEF Held, HeldOf
  <2>2. q \in Attached(shmid[q][k])
    BY DEF Attached
  <2> QED BY <1>1, <2>1, <2>2 DEF Leaves
<1>2. \A q \in Procs : \A k \in Kinds : Holding(q, k) => shmid[q][k] # NoSeg
  BY DEF Held, HeldOf
<1>3. Held'
  <2>1. ASSUME NEW q \in Procs, q # p, NEW k \in Kinds, shmid[q][k] # NoSeg
        PROVE  shmid[q][k] \in DOMAIN seg' /\ seg'[shmid[q][k]].node = seg[shmid[q][k]].node
    BY <1>1, <2>1 DEF Leaves
  <2> QED BY <2>1, HeldKeeps
<1>4. Published'
  <2>1. \A k \in Kinds : IsLeader(p) /\ Past(p, k) => Past(p, k)'
    BY DEF SameFlags
  <2>2. kvs' = kvs
    BY DEF Leaves
  <2> QED BY <2>1, <2>2, PublishedKeeps
<1>5. Counting'
  <2>1. ASSUME NEW k \in Kinds, IsLeader(p)
        PROVE  /\ Past(p, k) => Past(p, k)'
               /\ Past(p, k)' /\ ~ In(p, {"gather"}, k)' =>
                    \/ Past(p, k) /\ ~ In(p, {"gather"}, k)
                    \/ \A q \in nd_ranks(p) \ {p} : Counted(q, k)
    BY <2>1 DEF SameFlags, Holding, In
  <2>2. ASSUME NEW k \in Kinds, ~ IsLeader(p)
        PROVE  /\ Counted(p, k) => Counted(p, k)'
               /\ Counted(p, k)' \/ In(p, {"count"}, k)' =>
                    Counted(p, k) \/ In(p, {"count"}, k) \/ Past(lrank(p), k)
    BY <2>2 DEF SameFlags
  <2> QED BY <2>1, <2>2, CountingKeeps
<1>6. Heads'
  <2>1. ASSUME NEW q \in Procs, q # p, NEW k \in Kinds, In(q, {"gather"}, k)
        PROVE  seg'[shmid[q][k]].head = seg[shmid[q][k]].head
    <3>1. shmid[q][k] # NoSeg
      BY <1>2, <2>1 DEF Holding, In
    <3>2. shmid[q][k] \in DOMAIN seg'
      BY <1>1, <2>1, <3>1
    <3> QED BY <2>1, <3>2 DEF Leaves
  <2>2. \A k \in Kinds : ~ IsLeader(p) => (Counted(p, k)' <=> Counted(p, k))
    BY DEF SameFlags
  <2>3. \A k \in Kinds : ~ In(p, {"gather"}, k)'
    BY DEF SameFlags, Holding, In
  <2>4. Begins
    BY DEF LocalInv
  <2> QED BY <2>1, <2>2, <2>3, <2>4, HeadsKeeps
<1>7. KeyOne'
  <2>1. ASSUME NEW i \in DOMAIN seg', seg'[i].key
        PROVE  i \in DOMAIN seg /\ seg[i].key /\ seg'[i].node = seg[i].node
    BY <2>1 DEF Leaves
  <2> QED BY <2>1, KeyOneKeeps
<1>8. KeyHeld'
  <2>1. ASSUME NEW q \in Procs, q # p, NEW k \in Kinds, Holding(q, k)
        PROVE  /\ seg'[shmid[q][k]].key = seg[shmid[q][k]].key
               /\ seg'[shmid[q][k]].size = seg[shmid[q][k]].size
    BY <1>1, <1>2, <2>1 DEF Leaves
  <2>2. \A k \in Kinds : ~ Holding(p, k)'
    BY DEF SameFlags
  <2> QED BY <2>1, <2>2, KeyHeldKeeps
<1>9. KeyWhy'
  <2>1. ASSUME NEW i \in DOMAIN seg', seg'[i].key
        PROVE  /\ i \in DOMAIN seg /\ seg[i].key
               /\ seg'[i].node = seg[i].node /\ seg'[i].by = seg[i].by
               /\ \A k \in Kinds : shmid'[p][k] = i => shmid[p][k] = i
               /\ place[p] = seg[i].node /\ IsLeader(p) /\ Fresh(p) => Fresh(p)'
               /\ \A k \in Kinds : Holding(p, k) /\ shmid[p][k] = i =>
                    Holding(p, k)' /\ shmid'[p][k] = i
    <3>1. /\ i \in DOMAIN seg /\ seg[i].key
          /\ seg'[i].node = seg[i].node /\ seg'[i].by = seg[i].by
      BY <2>1 DEF Leaves
    <3>2. i # NoSeg
      BY <3>1 DEF LocalInv, SegType, NoSeg
    <3>3. \A k \in Kinds : shmid'[p][k] = i => shmid[p][k] = i
      BY <3>2 DEF Leaves
    <3> QED BY <3>1, <3>3 DEF SameFlags
  <2> QED BY <2>1, KeyWhyKeeps
<1>10. OwnSegs'
  BY OwnSegsKeeps DEF Leaves
<1>11. OwnKinds'
  <2>1. ASSUME NEW i \in DOMAIN seg'
        PROVE  /\ i \in DOMAIN seg /\ seg'[i].by = seg[i].by
               /\ seg'[i].kind = seg[i].kind /\ seg'[i].size = seg[i].size
    BY <2>1 DEF Leaves
  <2> QED BY <2>1, OwnKindsKeeps
<1>12. Aborts'
  <2>1. ASSUME NEW q \in Procs, q # p, pc[q] = "aborted", IsLeader(q), NEW i \in DOMAIN seg,
               seg[i].node = place[q], seg[i].key
        PROVE  /\ i \in DOMAIN seg' /\ seg'[i].key /\ seg'[i].node = seg[i].node
               /\ seg'[i].by = seg[i].by /\ seg'[i].kind = seg[i].kind
               /\ seg'[i].size = seg[i].size
    BY <2>1 DEF Leaves
  <2> QED BY <2>1, AbortsKeeps
<1> QED BY <1>3, <1>4, <1>5, <1>6, <1>7, <1>8, <1>9, <1>10, <1>11, <1>12

-----------------------------------------------------------------------------
(* Types, and what each process keeps of its own.                          *)
LEMMA MovesType ==
  ASSUME StartType, NEW p \in Procs, Moves(p)
  PROVE  ip' \in [Procs -> Nat \ {0}] /\ pc' \in [Procs -> Labels]
<1>1. ip \in [Procs -> Nat \ {0}] /\ pc \in [Procs -> Labels]
  BY DEF StartType
<1>2. CASE Return(p)
  <2>1. ip[p] + 1 \in Nat \ {0} /\ "end" \in Labels /\ "call" \in Labels
    BY <1>1 DEF Labels
  <2> QED BY <1>1, <1>2, <2>1 DEF Return
<1>3. CASE \E l \in Labels \ {"call", "end"} : Goto(p, l)
  BY <1>1, <1>3 DEF Goto
<1> QED BY <1>2, <1>3 DEF Moves

(* utf_finalize never finds utf_initialized 0.                             *)
LEMMA FinalizeFacts ==
  ASSUME LocalInv, NEW p \in Procs, At(p, "finalize")
  PROVE  utf_initialized[p] - 1 \in Nat
<1>1. ip[p] \in 1 .. Len(Program) /\ Program[ip[p]] = "finalize" /\ pc[p] = "call"
  BY ProgramFacts DEF LocalInv, StartType, At, Call
<1>2. Before(Program, ip[p], "finalize") < Before(Program, ip[p], "init")
  BY <1>1, ProgramFacts DEF LocalInv, StartType
<1>3. /\ Before(Program, ip[p], "finalize") \in Int
      /\ Before(Program, ip[p], "init") \in Int
  <2>1. ip[p] \in Nat \ {0}
    BY DEF LocalInv, StartType
  <2>2. /\ Before(Program, ip[p], "finalize") \in 0 .. ip[p] - 1
        /\ Before(Program, ip[p], "init") \in 0 .. ip[p] - 1
    BY <2>1, BeforeNext
  <2> QED BY <2>2
<1>4. utf_initialized[p] = Before(Program, ip[p], "init") - Before(Program, ip[p], "finalize")
  BY <1>1, <1>3 DEF LocalInv, Opens, Opened
<1> QED BY <1>2, <1>3, <1>4

LEMMA StepMoves ==
  ASSUME LocalInv, NEW p \in Procs, Step(p)
  PROVE  Moves(p) \/ UNCHANGED <<ip, pc>>
<1> DEFINE L == Labels \ {"call", "end"}
<1>1. {"create", "publish", "gather", "remove", "attach", "count", "table", "mem", "fence",
       "teardown", "aborted"} \subseteq L
  BY DEF Labels
<1>2. ShmEntry(p) \in L
  BY <1>1 DEF ShmEntry
<1>3. utf_peers_init(p) \/ PeersFail(p) => \E l \in L : Goto(p, l)
  BY <1>1, <1>2 DEF utf_peers_init, PeersFail
<1>4. ShmReturn(p) => Return(p) \/ \E l \in L : Goto(p, l)
  BY <1>1 DEF ShmReturn
<1>5. SUFFICES Return(p) \/ (\E l \in L : Goto(p, l)) \/ UNCHANGED <<ip, pc>>
  BY DEF Moves
<1> HIDE DEF L
<1>6. CASE utf_init(p) \/ PMIx_Resolve_nodes(p)
  <2>1. utf_get_peers(p, Goto(p, "mem")) \/ Return(p) \/ utf_get_peers(p, Return(p))
    BY <1>6 DEF utf_init, PMIx_Resolve_nodes
  <2>2. Return(p) \/ Goto(p, "mem") \/ utf_peers_init(p) \/ PeersFail(p)
    BY <2>1 DEF utf_get_peers
  <2> QED BY <1>1, <1>3, <2>2
<1>7. CASE Create(p) \/ Publish(p) \/ Gather(p) \/ Attach(p)
  <2>1. Goto(p, "publish") \/ Goto(p, "aborted") \/ Goto(p, "gather") \/ Goto(p, "remove")
          \/ Goto(p, "count")
    BY <1>7 DEF Create, Publish, Gather, Attach
  <2> QED BY <1>1, <2>1
<1>8. CASE Remove(p) \/ Count(p)
  <2>1. ShmReturn(p)
    BY <1>8 DEF Remove, Count
  <2> QED BY <1>4, <2>1
<1>9. CASE \/ Table(p) \/ utf_mem_init(p) \/ utf_fence(p) \/ FenceRead(p) \/ FenceReturn(p)
           \/ utf_shm_init(p)
  <2>1. \/ Goto(p, "mem") \/ Return(p) \/ Goto(p, "fence") \/ UNCHANGED <<ip, pc>>
        \/ Goto(p, "teardown") \/ Goto(p, ShmEntry(p))
    BY <1>9 DEF Table, utf_mem_init, utf_fence, FenceRead, FenceReturn, utf_shm_init
  <2> QED BY <1>1, <1>2, <2>1
<1>10. CASE Store(p) \/ utf_shm_finalize(p) \/ utf_finalize(p) \/ Teardown(p)
  <2>1. Return(p) \/ Goto(p, "fence")
    BY <1>10 DEF Store, utf_shm_finalize, utf_finalize, Teardown
  <2> QED BY <1>1, <2>1
<1> QED BY <1>6, <1>7, <1>8, <1>9, <1>10 DEF Step

LEMMA StartTypeNext ==
  ASSUME LocalInv, NEW p \in Procs, Step(p)
  PROVE  StartType'
<1>1. /\ job \in 1 .. MaxJobs /\ place \in Places /\ sz \in UsrPages
      /\ ip \in [Procs -> Nat \ {0}] /\ pc \in [Procs -> Labels]
      /\ utf_initialized \in [Procs -> Nat]
      /\ shm_usd \in [Procs -> BOOLEAN]
      /\ peers \in [Procs -> [notfirst : {-1, 0, 1}, vcqhs : Seq(0 .. 5)]]
      /\ stags \in [Procs -> SUBSET Tags]
      /\ shmid \in [Procs -> [Kinds -> Nat]]
  BY DEF LocalInv, StartType
<1>2. job' = job /\ place' = place /\ sz' = sz
  BY StepOthers DEF LocalInv, Others, job_place
<1>3. ip' \in [Procs -> Nat \ {0}] /\ pc' \in [Procs -> Labels]
  BY <1>1, StepMoves, MovesType DEF LocalInv
<1>4. utf_initialized' \in [Procs -> Nat]
  <2>1. CASE utf_init(p)
    BY <1>1, <2>1 DEF utf_init
  <2>2. CASE utf_finalize(p)
    BY <1>1, <2>2, FinalizeFacts DEF utf_finalize
  <2>3. CASE ~ utf_init(p) /\ ~ utf_finalize(p)
    <3>1. utf_initialized' = utf_initialized
      BY <2>3 DEF Step, PMIx_Resolve_nodes, Create, Publish, Gather, Remove, Attach, Count, Table,
         utf_mem_init, utf_fence, FenceRead, FenceReturn, utf_shm_init, Store, utf_shm_finalize,
         Teardown
    <3> QED BY <1>1, <3>1
  <2> QED BY <2>1, <2>2, <2>3
<1>5. shm_usd' \in [Procs -> BOOLEAN]
  <2>1. shm_usd' = shm_usd \/ shm_usd' = [shm_usd EXCEPT ![p] = TRUE]
    BY DEF Step, utf_init, utf_finalize, PMIx_Resolve_nodes, Create, Publish, Gather, Remove,
       Attach, Count, Table, utf_mem_init, utf_fence, FenceRead, FenceReturn, utf_shm_init, Store,
       utf_shm_finalize, Teardown
  <2> QED BY <1>1, <2>1
<1>6. peers' \in [Procs -> [notfirst : {-1, 0, 1}, vcqhs : Seq(0 .. 5)]]
  <2>1. \/ peers' = peers \/ utf_peers_init(p) \/ PeersFail(p)
        \/ peers' = [peers EXCEPT ![p].vcqhs = <<>>]
    BY DEF Step, utf_init, utf_finalize, PMIx_Resolve_nodes, Create, Publish, Gather, Remove,
       Attach, Count, Table, utf_mem_init, utf_fence, FenceRead, FenceReturn, utf_shm_init, Store,
       utf_shm_finalize, Teardown, utf_get_peers
  <2>2. CASE utf_peers_init(p)
    <3>1. peers' = [peers EXCEPT ![p] = [notfirst |-> 1, vcqhs |-> tniids(p)]]
      BY <2>2 DEF utf_peers_init
    <3>2. tniids(p) \in Seq(0 .. 5)
      BY TniidsFacts
    <3> QED BY <1>1, <3>1, <3>2
  <2>3. CASE PeersFail(p)
    BY <1>1, <2>3 DEF PeersFail
  <2>4. CASE peers' = [peers EXCEPT ![p].vcqhs = <<>>]
    <3>1. <<>> \in Seq(0 .. 5)
      OBVIOUS
    <3> QED BY <1>1, <2>4, <3>1
  <2> QED BY <1>1, <2>1, <2>2, <2>3, <2>4
<1>7. stags' \in [Procs -> SUBSET Tags]
  <2>1. \/ stags' = stags \/ stags' = [stags EXCEPT ![p] = Tags]
        \/ stags' = [stags EXCEPT ![p] = @ \ {"EGRMGT", "RBUF", "SBUF", "SNDCTR"}]
    BY DEF Step, utf_init, utf_finalize, PMIx_Resolve_nodes, Create, Publish, Gather, Remove,
       Attach, Count, Table, utf_mem_init, utf_fence, FenceRead, FenceReturn, utf_shm_init, Store,
       utf_shm_finalize, Teardown
  <2>2. stags[p] \ {"EGRMGT", "RBUF", "SBUF", "SNDCTR"} \in SUBSET Tags
    BY <1>1
  <2>3. stags' = stags \/ \E T \in SUBSET Tags : stags' = [stags EXCEPT ![p] = T]
    BY <2>1, <2>2
  <2> QED BY <1>1, <2>3
<1>8. shmid' \in [Procs -> [Kinds -> Nat]]
  <2>1. ASSUME NEW k, NEW i \in Nat, shmid' = [shmid EXCEPT ![p][k] = i]
        PROVE  shmid' \in [Procs -> [Kinds -> Nat]]
    BY <1>1, <2>1
  <2>2. CASE Create(p)
    <3>1. FreshId \in Nat /\ \A i \in Keyed(place[p]) : i \in Nat
      BY FreshFacts DEF LocalInv, SegType, Keyed
    <3>2. shmid' = shmid \/ \E i \in Nat : shmid' = [shmid EXCEPT ![p][Kind(p)] = i]
      BY <2>2, <3>1 DEF Create
    <3> QED BY <1>1, <2>1, <3>2
  <2>3. CASE Attach(p)
    <3>1. \A i \in Keyed(place[p]) : i \in Nat
      BY DEF LocalInv, SegType, Keyed
    <3>2. shmid' = shmid \/ \E i \in Nat : shmid' = [shmid EXCEPT ![p][Kind(p)] = i]
      BY <2>3, <3>1 DEF Attach
    <3> QED BY <1>1, <2>1, <3>2
  <2>4. CASE utf_shm_finalize(p) \/ Teardown(p)
    <3>1. \E k \in Kinds : shmid' = [shmid EXCEPT ![p][k] = NoSeg]
      BY <2>4 DEF utf_shm_finalize, Teardown, Kinds
    <3> QED BY <2>1, <3>1 DEF NoSeg
  <2>5. CASE ~ (Create(p) \/ Attach(p) \/ utf_shm_finalize(p) \/ Teardown(p))
    <3>1. shmid' = shmid
      BY <2>5 DEF Step, utf_init, utf_finalize, PMIx_Resolve_nodes, Publish, Gather, Remove,
         Count, Table, utf_mem_init, utf_fence, FenceRead, FenceReturn, utf_shm_init, Store
    <3> QED BY <1>1, <3>1
  <2> QED BY <2>2, <2>3, <2>4, <2>5
<1> QED BY <1>1, <1>2, <1>3, <1>4, <1>5, <1>6, <1>7, <1>8 DEF StartType

LEMMA LocalNext ==
  ASSUME FenceInv, LocalInv, NEW p \in Procs, Step(p), SegType'
  PROVE  LocalInv'
<1>1. FenceType'
  <2>1. FenceInv'
    BY FenceInvNext DEF Next
  <2> QED BY <2>1 DEF FenceInv
<1> QED BY <1>1, StartTypeNext, CallsNext DEF LocalInv

-----------------------------------------------------------------------------
LEMMA QuietNext ==
  ASSUME ShmInv, NEW p \in Procs, Others(p), Leaves(p), OwnStores',
         pc[p] \notin Handshake \cup {"aborted"}, pc'[p] \notin Handshake \cup {"aborted", "table"},
         peers'[p].notfirst = peers[p].notfirst, shm_usd'[p] = shm_usd[p],
         ip'[p] \in {ip[p], ip[p] + 1},
         shmid'[p]["usr"] = shmid[p]["usr"] \/ (ip'[p] = ip[p] + 1 /\ Call(p) = "shm_finalize"),
         \A k \in Kinds : shmid'[p][k] # NoSeg => shmid[p][k] \in DOMAIN seg'
  PROVE  ShmInv' <=> LocalInv'
<1>1. \A k : Begun(p, k)' <=> Begun(p, k)
  BY DEF Begun
<1>2. \A k : \A L \in SUBSET (Handshake \cup {"aborted"}) : ~ In(p, L, k) /\ ~ In(p, L, k)'
  BY DEF In
<1>3. /\ {"create", "publish", "aborted"} \in SUBSET (Handshake \cup {"aborted"})
      /\ {"attach", "count"} \in SUBSET (Handshake \cup {"aborted"})
      /\ {"create", "attach"} \in SUBSET (Handshake \cup {"aborted"})
      /\ {"create", "aborted"} \in SUBSET (Handshake \cup {"aborted"})
      /\ {"create", "attach", "aborted"} \in SUBSET (Handshake \cup {"aborted"})
      /\ {"publish", "gather", "remove"} \in SUBSET (Handshake \cup {"aborted"})
      /\ {"count"} \in SUBSET (Handshake \cup {"aborted"})
  BY DEF Handshake, Leading, Following
<1>4. SameFlags(p)
  BY <1>1, <1>2, <1>3 DEF SameFlags, Past, Counted, Holding, Fresh
<1>5. HeldOf(p)'
  <2>1. HeldOf(p)
    BY DEF ShmInv, Held
  <2>2. place' = place /\ Program' = Program
    BY OthersSame
  <2>3. ASSUME NEW k \in Kinds, shmid'[p][k] # NoSeg
        PROVE  /\ shmid'[p][k] \in DOMAIN seg' /\ seg'[shmid'[p][k]].node = place'[p]
               /\ Begun(p, k)' /\ ~ In(p, {"create", "attach"}, k)'
    <3>1. shmid'[p][k] = shmid[p][k] /\ shmid[p][k] \in DOMAIN seg'
      BY <2>3 DEF Leaves
    <3>2. seg'[shmid[p][k]].node = seg[shmid[p][k]].node
      BY <3>1 DEF Leaves
    <3>3. seg[shmid[p][k]].node = place[p] /\ Begun(p, k)
      BY <2>1, <2>3, <3>1 DEF HeldOf
    <3> QED BY <1>1, <1>2, <1>3, <2>2, <3>1, <3>2, <3>3
  <2>4. \A k \in Kinds : ~ Holding(p, k)' /\ ~ In(p, {"count"}, k)'
    BY <1>2, <1>3 DEF Holding
  <2>5. ASSUME shm_usd'[p], \A j \in 1 .. ip'[p] - 1 : Program'[j] # "shm_finalize"
        PROVE  shmid'[p]["usr"] # NoSeg
    <3>1. ip[p] \in Nat \ {0}
      BY DEF ShmInv, LocalInv, StartType
    <3>2. 1 .. ip[p] - 1 \subseteq 1 .. ip'[p] - 1
      BY <3>1
    <3>3. ~ (ip'[p] = ip[p] + 1 /\ Call(p) = "shm_finalize")
      <4> SUFFICES ASSUME ip'[p] = ip[p] + 1, Call(p) = "shm_finalize" PROVE FALSE
        OBVIOUS
      <4>1. ip[p] \in 1 .. ip'[p] - 1
        BY <3>1
      <4> QED BY <2>2, <2>5, <4>1 DEF Call
    <3>4. shmid[p]["usr"] # NoSeg
      BY <1>2, <1>3, <2>1, <2>2, <2>5, <3>2 DEF HeldOf
    <3> QED BY <3>3, <3>4
  <2> HIDE DEF Handshake
  <2>6. (pc[p] = "table")' => FALSE
    OBVIOUS
  <2> QED BY <2>3, <2>4, <2>5, <2>6 DEF HeldOf
<1>6. pc'[p] # "aborted"
  OBVIOUS
<1> QED BY <1>4, <1>5, <1>6, CalmKeeps

(* p enters the handshake for k.                                           *)
LEMMA EnterNext ==
  ASSUME ShmInv, NEW p \in Procs, Others(p), NEW k \in Kinds, UNCHANGED <<seg, shmid, kvs>>,
         pc[p] = "call", Kind(p) = k, ~ Begun(p, k),
         \A l \in Kinds : l # k => (Begun(p, l)' <=> Begun(p, l)),
         k = "utf" => ~ shm_usd'[p],
         ip'[p] = ip[p],
         \/ pc'[p] = ShmEntry(p) /\ Begun(p, k)'
         \/ pc'[p] = "aborted" /\ k = "utf" /\ ~ Begun(p, k)' /\ peers'[p].notfirst = -1
  PROVE  ShmInv' <=> LocalInv'
<1>1. Kind(p)' = k
  <2>1. Program' = Program
    BY OthersSame
  <2> QED BY <2>1 DEF Kind, Call
<1>2. \A L, l : In(p, L, l)' <=> pc'[p] \in L /\ l = k
  BY <1>1 DEF In
<1>3. \A l : \A L \in SUBSET (Handshake \cup {"aborted"}) : ~ In(p, L, l)
  BY DEF In, Handshake, Leading, Following
<1>4. Leaves(p)
  <2>1. SegType
    BY DEF ShmInv, LocalInv
  <2> QED BY <2>1 DEF Leaves
<1>5. OwnStores'
  <2>1. OwnStores /\ \A l \in Kinds : shmid'[p][l] = shmid[p][l]
    BY DEF ShmInv
  <2>2. job' = job
    BY OthersSame
  <2> QED BY <2>1, <2>2 DEF OwnStores
<1>6. SameFlags(p)
  <2>1. ASSUME NEW l \in Kinds, l # k
        PROVE  /\ Past(p, l)' <=> Past(p, l)
               /\ Counted(p, l)' <=> Counted(p, l)
    BY <1>2, <1>3, <2>1 DEF Past, Counted, In
  <2>2. IsLeader(p) => (Past(p, k)' <=> Past(p, k))
    BY <1>2 DEF Past, ShmEntry
  <2>3. ~ IsLeader(p) => (Counted(p, k)' <=> Counted(p, k))
    BY <1>2 DEF Counted, ShmEntry
  <2>4. \A l \in Kinds : /\ ~ Holding(p, l) /\ ~ Holding(p, l)'
                         /\ ~ In(p, {"count"}, l) /\ ~ In(p, {"count"}, l)'
    BY <1>2 DEF Holding, In, ShmEntry
  <2>5. IsLeader(p) /\ Fresh(p) => Fresh(p)'
    <3>1. CASE k = "utf"
      BY <1>2, <3>1 DEF Fresh, ShmEntry
    <3>2. CASE k # "utf"
      <4>1. Begun(p, "utf")' <=> Begun(p, "utf")
        BY <3>2 DEF Kinds
      <4> QED BY <4>1 DEF Fresh, In
    <3> QED BY <3>1, <3>2
  <2> QED BY <2>1, <2>2, <2>3, <2>4, <2>5 DEF SameFlags
<1>7. HeldOf(p)'
  <2>1. HeldOf(p)
    BY DEF ShmInv, Held
  <2>2. place' = place /\ Program' = Program /\ shmid' = shmid /\ seg' = seg
    BY OthersSame
  <2>3. ASSUME NEW l \in Kinds, shmid'[p][l] # NoSeg
        PROVE  /\ shmid'[p][l] \in DOMAIN seg' /\ seg'[shmid'[p][l]].node = place'[p]
               /\ Begun(p, l)' /\ ~ In(p, {"create", "attach"}, l)'
    <3>1. /\ shmid[p][l] \in DOMAIN seg /\ seg[shmid[p][l]].node = place[p]
          /\ Begun(p, l)
      BY <2>1, <2>2, <2>3 DEF HeldOf
    <3>2. l # k
      BY <3>1
    <3> QED BY <1>2, <2>2, <3>1, <3>2
  <2>4. \A l \in Kinds : ~ Holding(p, l)' /\ ~ In(p, {"count"}, l)'
    BY <1>6 DEF SameFlags
  <2>5. ASSUME shm_usd'[p], ~ In(p, {"create", "attach", "aborted"}, "usr")'
        PROVE  FALSE
    <3>1. k = "usr"
      BY <2>5 DEF Kinds
    <3> QED BY <1>2, <2>5, <3>1 DEF ShmEntry
  <2>6. (pc[p] = "table")' => FALSE
    BY DEF ShmEntry
  <2> QED BY <2>3, <2>4, <2>5, <2>6 DEF HeldOf
<1>8. ~ (pc'[p] = "aborted" /\ peers'[p].notfirst # -1)
  BY DEF ShmEntry
<1> QED BY <1>4, <1>5, <1>6, <1>7, <1>8, CalmKeeps

LEMMA UntouchedNext ==
  ASSUME ShmInv, NEW p \in Procs, Others(p), UNCHANGED <<seg, shmid, kvs>>,
         pc[p] \notin Handshake \cup {"aborted"}, pc'[p] \notin Handshake \cup {"aborted", "table"},
         peers'[p].notfirst = peers[p].notfirst, shm_usd'[p] = shm_usd[p],
         ip'[p] \in {ip[p], ip[p] + 1}
  PROVE  SegType' /\ (ShmInv' <=> LocalInv')
<1>1. SegType' /\ Leaves(p)
  <2>1. SegType
    BY DEF ShmInv, LocalInv
  <2> QED BY <2>1, SegSame DEF Leaves
<1>2. OwnStores'
  <2>1. OwnStores
    BY DEF ShmInv
  <2>2. job' = job
    BY OthersSame
  <2> QED BY <2>1, <2>2 DEF OwnStores
<1>3. \A k \in Kinds : shmid'[p][k] # NoSeg => shmid[p][k] \in DOMAIN seg'
  BY DEF ShmInv, Held, HeldOf
<1> QED BY <1>1, <1>2, <1>3, QuietNext

LEMMA GetPeersNext ==
  ASSUME ShmInv, NEW p \in Procs, Others(p), UNCHANGED <<seg, shmid, kvs, shm_usd>>,
         pc[p] = "call", Call(p) \in {"init", "resolve"}, peers[p].notfirst = 0,
         utf_peers_init(p) \/ PeersFail(p)
  PROVE  SegType' /\ (ShmInv' <=> LocalInv')
<1>1. SegType'
  BY SegSame DEF ShmInv, LocalInv
<1>2. /\ peers \in [Procs -> [notfirst : {-1, 0, 1}, vcqhs : Seq(0 .. 5)]]
      /\ pc \in [Procs -> Labels] /\ BeginsOf(p)
  BY LocalFacts DEF ShmInv, LocalInv, StartType
<1>3. Kind(p) = "utf" /\ ~ Begun(p, "utf") /\ ~ shm_usd'[p]
  BY <1>2 DEF Kind, Begun, BeginsOf
<1>4. \A l \in Kinds : l # "utf" => (Begun(p, l)' <=> Begun(p, l))
  BY DEF Begun
<1>5. ip'[p] = ip[p]
  BY DEF utf_peers_init, PeersFail, Goto
<1>6. \/ pc'[p] = ShmEntry(p) /\ Begun(p, "utf")'
      \/ pc'[p] = "aborted" /\ ~ Begun(p, "utf")' /\ peers'[p].notfirst = -1
  BY <1>2 DEF utf_peers_init, PeersFail, Goto, Begun
<1>7. "utf" \in Kinds
  BY DEF Kinds
<1>8. ShmInv' <=> LocalInv'
  BY <1>3, <1>4, <1>5, <1>6, <1>7, EnterNext
<1> QED BY <1>1, <1>8

LEMMA utf_initNext ==
  ASSUME ShmInv, NEW p \in Procs, Others(p), utf_init(p) \/ PMIx_Resolve_nodes(p)
  PROVE  SegType' /\ (ShmInv' <=> LocalInv')
<1>1. /\ pc[p] = "call" /\ Call(p) \in {"init", "resolve"}
      /\ UNCHANGED <<seg, shmid, kvs, shm_usd>>
  BY DEF utf_init, PMIx_Resolve_nodes, At
<1>2. \/ UNCHANGED peers /\ (Return(p) \/ Goto(p, "mem"))
      \/ peers[p].notfirst = 0 /\ (utf_peers_init(p) \/ PeersFail(p))
  BY DEF utf_init, PMIx_Resolve_nodes, utf_get_peers
<1>3. CASE UNCHANGED peers /\ (Return(p) \/ Goto(p, "mem"))
  <2>1. pc \in [Procs -> Labels] /\ ip \in [Procs -> Nat \ {0}]
    BY DEF ShmInv, LocalInv, StartType
  <2>2. pc'[p] \in {"call", "end", "mem"} /\ ip'[p] \in {ip[p], ip[p] + 1}
    BY <1>3, <2>1 DEF Return, Goto
  <2>3. /\ pc[p] \notin Handshake \cup {"aborted"}
        /\ pc'[p] \notin Handshake \cup {"aborted", "table"}
    BY <1>1, <2>2 DEF Handshake, Leading, Following
  <2> QED BY <1>1, <1>3, <2>2, <2>3, UntouchedNext
<1> QED BY <1>1, <1>2, <1>3, GetPeersNext

LEMMA utf_shm_initNext ==
  ASSUME ShmInv, NEW p \in Procs, Others(p), utf_shm_init(p)
  PROVE  SegType' /\ (ShmInv' <=> LocalInv')
<1>1. /\ pc[p] = "call" /\ Call(p) = "shm_init" /\ Kind(p) = "usr"
      /\ UNCHANGED <<seg, shmid, kvs, peers>> /\ shm_usd'[p] = TRUE /\ shm_usd[p] \in BOOLEAN
  BY DEF utf_shm_init, At, Kind, ShmInv, LocalInv, StartType
<1>2. pc \in [Procs -> Labels] /\ ip \in [Procs -> Nat \ {0}]
  BY DEF ShmInv, LocalInv, StartType
<1>3. CASE shm_usd[p]
  <2>1. Return(p)
    BY <1>3 DEF utf_shm_init
  <2>2. pc'[p] \in {"call", "end"} /\ ip'[p] \in {ip[p], ip[p] + 1}
    BY <2>1, <1>2 DEF Return
  <2>3. /\ pc[p] \notin Handshake \cup {"aborted"}
        /\ pc'[p] \notin Handshake \cup {"aborted", "table"}
    BY <1>1, <2>2 DEF Handshake, Leading, Following
  <2> QED BY <1>1, <1>3, <2>2, <2>3, UntouchedNext
<1>4. CASE ~ shm_usd[p]
  <2>1. Goto(p, ShmEntry(p))
    BY <1>4 DEF utf_shm_init
  <2>2. pc'[p] = ShmEntry(p) /\ ip'[p] = ip[p]
    BY <2>1, <1>2 DEF Goto
  <2>3. ~ Begun(p, "usr") /\ Begun(p, "usr")'
    BY <1>1, <1>4 DEF Begun
  <2>4. \A l \in Kinds : l # "usr" => (Begun(p, l)' <=> Begun(p, l))
    BY <1>1 DEF Begun, Kinds
  <2>5. "usr" \in Kinds
    BY DEF Kinds
  <2>6. ShmInv' <=> LocalInv'
    BY <1>1, <2>2, <2>3, <2>4, <2>5, EnterNext
  <2>7. SegType'
    BY <1>1, SegSame DEF ShmInv, LocalInv
  <2> QED BY <2>6, <2>7
<1> QED BY <1>1, <1>3, <1>4

LEMMA FenceNext ==
  ASSUME ShmInv, NEW p \in Procs, Others(p),
         utf_mem_init(p) \/ utf_fence(p) \/ FenceRead(p) \/ FenceReturn(p) \/ utf_finalize(p)
  PROVE  SegType' /\ (ShmInv' <=> LocalInv')
<1>1. UNCHANGED <<seg, shmid, kvs, peers, shm_usd>>
  BY DEF utf_mem_init, utf_fence, FenceRead, FenceReturn, utf_finalize
<1>2. pc \in [Procs -> Labels] /\ ip \in [Procs -> Nat \ {0}]
  BY DEF ShmInv, LocalInv, StartType
<1>3. pc[p] \in {"mem", "call", "fence"}
  <2>1. CallsOf(p)
    BY LocalFacts DEF ShmInv
  <2>2. FenceRead(p) \/ FenceReturn(p) => InFence(p)
    BY DEF FenceRead, FenceReturn, UpdateRead, UpdateWrite, Peek, InFence
  <2> QED BY <2>1, <2>2 DEF CallsOf, utf_mem_init, utf_fence, utf_finalize, At
<1>4. \/ Return(p) \/ Goto(p, "fence") \/ Goto(p, "teardown") \/ UNCHANGED <<ip, pc>>
  BY DEF utf_mem_init, utf_fence, FenceRead, FenceReturn, utf_finalize
<1>5. pc'[p] \in {"mem", "call", "fence", "teardown", "end"} /\ ip'[p] \in {ip[p], ip[p] + 1}
  BY <1>2, <1>3, <1>4 DEF Return, Goto
<1>6. /\ pc[p] \notin Handshake \cup {"aborted"}
      /\ pc'[p] \notin Handshake \cup {"aborted", "table"}
  BY <1>3, <1>5 DEF Handshake, Leading, Following
<1> QED BY <1>1, <1>5, <1>6, UntouchedNext

LEMMA TableNext ==
  ASSUME ShmInv, NEW p \in Procs, Others(p), Table(p)
  PROVE  SegType' /\ (ShmInv' <=> LocalInv')
<1> DEFINE i == shmid[p]["utf"]
           e == With(seg[i].entries, mynrnk(p), tinfo(p))
<1>1. /\ pc[p] = "table" /\ UNCHANGED <<shmid, kvs, peers, shm_usd>>
      /\ seg' = [seg EXCEPT ![i].entries = e]
      /\ Goto(p, "mem") \/ Return(p)
  BY DEF Table
<1>2. pc \in [Procs -> Labels] /\ ip \in [Procs -> Nat \ {0}]
  BY DEF ShmInv, LocalInv, StartType
<1>3. i # NoSeg /\ i \in DOMAIN seg
  BY <1>1 DEF ShmInv, Held, HeldOf, Kinds
<1> HIDE DEF e
<1>4. /\ SegType' /\ Rigid /\ SameHeads /\ SameKeys
      /\ \A j \in DOMAIN seg : seg'[j].stores = seg[j].stores
      /\ \A j \in DOMAIN seg : j # i => seg'[j].entries = seg[j].entries
  BY <1>1, <1>3, SetEntries DEF ShmInv, LocalInv
<1>5. Leaves(p)
  BY <1>1, <1>4 DEF Leaves, Rigid, SameHeads, SameKeys
<1>6. ASSUME NEW q \in Procs, shmid[q]["usr"] # NoSeg
      PROVE  /\ seg'[shmid[q]["usr"]].stores \subseteq seg[shmid[q]["usr"]].stores \cup {job}
             /\ seg'[shmid[q]["usr"]].entries = seg[shmid[q]["usr"]].entries
  <2>1. shmid[q]["usr"] \in DOMAIN seg
    BY <1>6 DEF ShmInv, Held, HeldOf, Kinds
  <2>2. shmid[q]["usr"] # i
    BY <1>3, <1>6 DEF ShmInv, OwnSegs, Kinds
  <2> QED BY <1>4, <2>1, <2>2
<1>7. OwnStores'
  BY <1>1, <1>6, OwnStoresKeeps DEF ShmInv
<1>8. pc'[p] \in {"mem", "call", "end"} /\ ip'[p] \in {ip[p], ip[p] + 1}
  BY <1>1, <1>2 DEF Return, Goto
<1>9. /\ pc[p] \notin Handshake \cup {"aborted"}
      /\ pc'[p] \notin Handshake \cup {"aborted", "table"}
  BY <1>1, <1>8 DEF Handshake, Leading, Following
<1>10. \A k \in Kinds : shmid'[p][k] # NoSeg => shmid[p][k] \in DOMAIN seg'
  BY <1>1, <1>4 DEF ShmInv, Held, HeldOf, Rigid
<1>11. peers'[p].notfirst = peers[p].notfirst /\ shm_usd'[p] = shm_usd[p] /\ shmid' = shmid
  BY <1>1
<1> HIDE <1>1
<1> QED BY <1>4, <1>5, <1>7, <1>8, <1>9, <1>10, <1>11, QuietNext

(* a program stores into a segment it is attached to                       *)
LEMMA StoreFacts ==
  ASSUME ShmInv, NEW p \in Procs, Store(p)
  PROVE  shmid[p]["usr"] # NoSeg /\ shmid[p]["usr"] \in DOMAIN seg
<1>1. pc[p] = "call" /\ Call(p) = "store" /\ ip[p] <= Len(Program)
  BY DEF Store, At
<1>2. ip[p] \in Nat \ {0} /\ job \in 1 .. MaxJobs
  BY DEF ShmInv, LocalInv, StartType
<1>3. ip[p] \in 1 .. Len(Program) /\ Program[ip[p]] = "store"
  BY <1>1, <1>2, ProgramFacts DEF Call
<1>4. /\ \E j \in 1 .. ip[p] - 1 : Program[j] = "shm_init"
      /\ \A j \in 1 .. ip[p] - 1 : Program[j] # "shm_finalize"
  BY <1>2, <1>3, ProgramFacts
<1>5. shm_usd[p]
  BY <1>4 DEF ShmInv, LocalInv, Begins, BeginsOf
<1>6. ~ In(p, {"create", "attach", "aborted"}, "usr")
  BY <1>1 DEF In
<1>7. shmid[p]["usr"] # NoSeg
  BY <1>4, <1>5, <1>6 DEF ShmInv, Held, HeldOf
<1> QED BY <1>7 DEF ShmInv, Held, HeldOf, Kinds

(* no store can disturb the counting of processes in the first word        *)
HeadFree == Words = {} \/ \A q \in Procs : ~ In(q, Handshake, "usr")

LEMMA StoreNext ==
  ASSUME ShmInv, HeadFree, NEW p \in Procs, Others(p), Store(p)
  PROVE  SegType' /\ (ShmInv' <=> LocalInv')
<1> DEFINE i == shmid[p]["usr"]
           e == seg[i].stores \cup {job}
<1>1. /\ pc[p] = "call" /\ Call(p) = "store" /\ ip[p] <= Len(Program)
      /\ UNCHANGED <<shmid, kvs, peers, shm_usd>> /\ Return(p)
      /\ \/ seg' = [seg EXCEPT ![i].stores = e]
         \/ \E w \in Words : seg' = [seg EXCEPT ![i].stores = e, ![i].head = w, ![i].word = w]
  BY DEF Store, At
<1>2. /\ pc \in [Procs -> Labels] /\ ip \in [Procs -> Nat \ {0}] /\ job \in Nat
      /\ job \in 1 .. MaxJobs
  BY StartAssumption DEF ShmInv, LocalInv, StartType
<1>3. i # NoSeg /\ i \in DOMAIN seg
  BY StoreFacts
<1>4. e \in SUBSET Nat
  BY <1>2, <1>3 DEF ShmInv, LocalInv, SegType, Segment
<1> HIDE DEF e
<1>5. /\ SegType' /\ Rigid /\ SameKeys /\ seg'[i].stores = e
      /\ \A j \in DOMAIN seg : seg'[j].entries = seg[j].entries
      /\ \A j \in DOMAIN seg : j # i => seg'[j] = seg[j]
      /\ seg'[i].head = seg[i].head \/ Words # {}
  BY <1>1, <1>3, <1>4, SetStores DEF ShmInv, LocalInv
<1>6. Leaves(p)
  <2>1. ASSUME Words # {}, NEW q \in Procs, NEW k \in Kinds, In(q, {"gather"}, k)
        PROVE  shmid[q][k] # i
    <3>1. k # "usr"
      BY <2>1 DEF HeadFree, In, Handshake, Leading
    <3> QED BY <1>3, <3>1 DEF ShmInv, OwnSegs, Kinds
  <2>2. \A j \in DOMAIN seg' :
          \/ seg'[j].head = seg[j].head
          \/ \A q \in Procs : \A k \in Kinds : In(q, {"gather"}, k) => shmid[q][k] # j
    BY <1>5, <2>1 DEF Rigid
  <2> QED BY <1>1, <1>5, <2>2 DEF Leaves, Rigid, SameKeys
<1>7. ASSUME NEW q \in Procs, shmid[q]["usr"] # NoSeg
      PROVE  /\ seg'[shmid[q]["usr"]].stores \subseteq seg[shmid[q]["usr"]].stores \cup {job}
             /\ seg'[shmid[q]["usr"]].entries = seg[shmid[q]["usr"]].entries
  <2>1. shmid[q]["usr"] \in DOMAIN seg
    BY <1>7 DEF ShmInv, Held, HeldOf, Kinds
  <2> QED BY <1>5, <2>1 DEF e
<1>8. OwnStores'
  BY <1>1, <1>7, OwnStoresKeeps DEF ShmInv
<1>9. pc'[p] \in {"call", "end"} /\ ip'[p] \in {ip[p], ip[p] + 1}
  BY <1>1, <1>2 DEF Return
<1>10. /\ pc[p] \notin Handshake \cup {"aborted"}
       /\ pc'[p] \notin Handshake \cup {"aborted", "table"}
  BY <1>1, <1>9 DEF Handshake, Leading, Following
<1>11. \A k \in Kinds : shmid'[p][k] # NoSeg => shmid[p][k] \in DOMAIN seg'
  BY <1>1, <1>5 DEF ShmInv, Held, HeldOf, Rigid
<1>12. peers'[p].notfirst = peers[p].notfirst /\ shm_usd'[p] = shm_usd[p] /\ shmid' = shmid
  BY <1>1
<1> HIDE <1>1
<1> QED BY <1>5, <1>6, <1>8, <1>9, <1>10, <1>11, <1>12, QuietNext

LEMMA DetachNext ==
  ASSUME ShmInv, NEW p \in Procs, Others(p), utf_shm_finalize(p) \/ Teardown(p)
  PROVE  SegType' /\ (ShmInv' <=> LocalInv')
<1>1. PICK k \in Kinds :
        /\ seg' = Detached(seg, shmid[p][k], p) /\ shmid' = [shmid EXCEPT ![p][k] = NoSeg]
        /\ k = "usr" => Call(p) = "shm_finalize"
  <2>1. utf_shm_finalize(p) =>
          /\ seg' = Detached(seg, shmid[p]["usr"], p)
          /\ shmid' = [shmid EXCEPT ![p]["usr"] = NoSeg] /\ Call(p) = "shm_finalize"
    BY DEF utf_shm_finalize, At
  <2>2. Teardown(p) =>
          /\ seg' = Detached(seg, shmid[p]["utf"], p)
          /\ shmid' = [shmid EXCEPT ![p]["utf"] = NoSeg]
    BY DEF Teardown
  <2> QED BY <2>1, <2>2 DEF Kinds
<1>2. /\ Return(p) /\ UNCHANGED <<kvs, shm_usd>> /\ pc[p] \in {"call", "teardown"}
      /\ UNCHANGED peers \/ peers' = [peers EXCEPT ![p].vcqhs = <<>>]
  BY DEF utf_shm_finalize, Teardown, At
<1>3. /\ pc \in [Procs -> Labels] /\ ip \in [Procs -> Nat \ {0}]
      /\ shmid \in [Procs -> [Kinds -> Nat]]
      /\ peers \in [Procs -> [notfirst : {-1, 0, 1}, vcqhs : Seq(0 .. 5)]]
      /\ SegType
  BY DEF ShmInv, LocalInv, StartType
<1>4. peers'[p].notfirst = peers[p].notfirst /\ shm_usd'[p] = shm_usd[p] /\ kvs' = kvs
  BY <1>2, <1>3
<1>5. /\ pc'[p] \in {"call", "end"} /\ ip'[p] = ip[p] + 1 /\ ip'[p] \in {ip[p], ip[p] + 1}
  BY <1>2, <1>3 DEF Return
<1>6. /\ pc[p] \notin Handshake \cup {"aborted"}
      /\ pc'[p] \notin Handshake \cup {"aborted", "table"}
  BY <1>2, <1>5 DEF Handshake, Leading, Following
<1>7. shmid'[p][k] = NoSeg /\ \A l \in Kinds : l # k => shmid'[p][l] = shmid[p][l]
  BY <1>1, <1>3
<1>8. shmid'[p]["usr"] = shmid[p]["usr"] \/ Call(p) = "shm_finalize"
  BY <1>1, <1>7 DEF Kinds
<1>9. /\ SegType' /\ DOMAIN seg' \subseteq DOMAIN seg
      /\ \A j \in DOMAIN seg' : seg'[j] = seg[j]
      /\ \A j \in DOMAIN seg : j \notin DOMAIN seg' =>
           j = shmid[p][k] /\ ~ seg[j].key /\ Attached(j) \subseteq {p}
  <2>1. shmid[p][k] \in Nat
    BY <1>3
  <2> QED BY <1>1, <1>3, <2>1, DropSeg
<1>10. Leaves(p)
  BY <1>4, <1>7, <1>9 DEF Leaves
<1>11. ASSUME NEW l \in Kinds, shmid'[p][l] # NoSeg PROVE shmid[p][l] \in DOMAIN seg'
  <2>1. l # k /\ shmid[p][l] # NoSeg
    BY <1>7, <1>11
  <2>2. shmid[p][l] \in DOMAIN seg
    BY <2>1 DEF ShmInv, Held, HeldOf
  <2>3. CASE shmid[p][k] # NoSeg
    <3>1. shmid[p][l] # shmid[p][k]
      BY <2>1, <2>3 DEF ShmInv, OwnSegs
    <3> QED BY <1>9, <2>2, <3>1
  <2>4. CASE shmid[p][k] = NoSeg
    <3>1. NoSeg \notin DOMAIN seg
      BY <1>3 DEF SegType, NoSeg
    <3> QED BY <1>9, <2>2, <2>4, <3>1
  <2> QED BY <2>3, <2>4
<1>12. OwnStores'
  <2>1. ASSUME NEW q \in Procs, shmid[q]["usr"] # NoSeg
        PROVE  \/ shmid'[q]["usr"] = NoSeg
               \/ /\ seg'[shmid[q]["usr"]].stores \subseteq seg[shmid[q]["usr"]].stores \cup {job}
                  /\ seg'[shmid[q]["usr"]].entries = seg[shmid[q]["usr"]].entries
    <3>1. shmid[q]["usr"] \in DOMAIN seg
      BY <2>1 DEF ShmInv, Held, HeldOf, Kinds
    <3>2. CASE shmid[q]["usr"] \in DOMAIN seg'
      BY <1>9, <3>2
    <3>3. CASE shmid[q]["usr"] \notin DOMAIN seg'
      <4>1. q \in Attached(shmid[q]["usr"])
        BY DEF Attached, Kinds
      <4>2. q = p
        BY <1>9, <3>1, <3>3, <4>1
      <4> QED BY <1>11, <3>3, <4>2 DEF Kinds
    <3> QED BY <3>2, <3>3
  <2>2. \A l \in Kinds : shmid'[p][l] \in {shmid[p][l], NoSeg}
    BY <1>10 DEF Leaves
  <2> QED BY <2>1, <2>2, OwnStoresKeeps DEF ShmInv
<1> HIDE <1>1, <1>2
<1> QED BY <1>4, <1>5, <1>6, <1>8, <1>9, <1>10, <1>11, <1>12, QuietNext

-----------------------------------------------------------------------------
(* The handshake.                                                          *)
LEMMA StayFacts ==
  ASSUME ShmInv, NEW p \in Procs, Others(p), UNCHANGED <<peers, shm_usd>>, NEW l, Goto(p, l)
  PROVE  /\ ip'[p] = ip[p] /\ pc'[p] = l /\ Kind(p)' = Kind(p)
         /\ \A k : Begun(p, k)' <=> Begun(p, k)
         /\ \A L, k : In(p, L, k)' <=> l \in L /\ k = Kind(p)
<1>1. ip'[p] = ip[p] /\ pc'[p] = l
  BY DEF Goto, ShmInv, LocalInv, StartType
<1>2. Kind(p)' = Kind(p)
  BY <1>1, OthersSame DEF Kind, Call
<1> QED BY <1>1, <1>2 DEF Begun, In

LEMMA LeaveFacts ==
  ASSUME ShmInv, NEW p \in Procs, Others(p), UNCHANGED <<peers, shm_usd>>, ShmReturn(p)
  PROVE  /\ ip'[p] \in {ip[p], ip[p] + 1} /\ pc'[p] \in {"table", "call", "end"}
         /\ pc'[p] = "table" => Kind(p) = "utf"
         /\ \A k : Begun(p, k)' <=> Begun(p, k)
         /\ \A k : \A L \in SUBSET (Handshake \cup {"aborted"}) : ~ In(p, L, k)'
<1>1. pc \in [Procs -> Labels] /\ ip \in [Procs -> Nat \ {0}]
  BY DEF ShmInv, LocalInv, StartType
<1>2. /\ ip'[p] \in {ip[p], ip[p] + 1} /\ pc'[p] \in {"table", "call", "end"}
      /\ pc'[p] = "table" => Kind(p) = "utf"
  BY <1>1 DEF ShmReturn, Return, Goto
<1> QED BY <1>2 DEF Begun, In, Handshake, Leading, Following

(* what is known of a process in the handshake                             *)
LEMMA HandFacts ==
  ASSUME ShmInv, NEW p \in Procs, pc[p] \in Handshake
  PROVE  /\ Kind(p) \in Kinds /\ Begun(p, Kind(p))
         /\ Begun(p, "utf")
         /\ pc[p] \in Leading <=> IsLeader(p)
         /\ Kind(p) = "utf" => ~ shm_usd[p]
         /\ \A L, k : In(p, L, k) <=> pc[p] \in L /\ k = Kind(p)
         /\ Kind(p) = "usr" => ~ Fresh(p)
         /\ Fresh(p) => pc[p] = "create"
<1>1. BeginsOf(p) /\ shm_usd[p] \in BOOLEAN
  BY LocalFacts DEF ShmInv
<1>2. \A L, k : In(p, L, k) <=> pc[p] \in L /\ k = Kind(p)
  BY DEF In
<1>3. Kind(p) \in Kinds /\ Begun(p, Kind(p)) /\ (pc[p] \in Leading <=> IsLeader(p))
  BY <1>1, KindFacts DEF BeginsOf, Handshake
<1>4. Kind(p) = "utf" => ~ shm_usd[p]
  BY <1>1, <1>2 DEF BeginsOf
<1>5. Begun(p, "utf")
  BY <1>1, <1>3 DEF BeginsOf, Begun, Kinds
<1>6. (Kind(p) = "usr" => ~ Fresh(p)) /\ (Fresh(p) => pc[p] = "create")
  BY <1>2, <1>5 DEF Fresh, Handshake, Leading, Following
<1> QED BY <1>2, <1>3, <1>4, <1>5, <1>6

(* Leaders of different nodes have different segments, also while they     *)
(* are no longer in the handshake.                                         *)
LEMMA LeadersApart ==
  ASSUME ShmInv, NEW p \in Procs, NEW q \in Procs, p # q, NEW k \in Kinds, NEW l \in Kinds,
         IsLeader(p), IsLeader(q), shmid[p][k] # NoSeg, shmid[q][l] # NoSeg
  PROVE  shmid[q][l] # shmid[p][k] /\ place[p] # place[q]
<1>1. place[p] # place[q]
  BY LeaderFacts
<1> QED BY <1>1 DEF ShmInv, OwnSegs

LEMMA HoldFacts ==
  ASSUME ShmInv, NEW p \in Procs, NEW k \in Kinds, Holding(p, k)
  PROVE  /\ IsLeader(p) /\ shmid[p][k] # NoSeg /\ shmid[p][k] \in DOMAIN seg
         /\ seg[shmid[p][k]].node = place[p] /\ seg[shmid[p][k]].key
         /\ seg[shmid[p][k]].size >= (IF k = "utf" THEN CqPages ELSE sz)
         /\ pc[p] \in {"publish", "gather", "remove"} /\ k = Kind(p)
<1>1. IsLeader(p) /\ pc[p] \in {"publish", "gather", "remove"} /\ k = Kind(p)
  BY DEF ShmInv, LocalInv, Begins, BeginsOf, Holding, In, Leading
<1>2. /\ shmid[p][k] # NoSeg /\ shmid[p][k] \in DOMAIN seg
      /\ seg[shmid[p][k]].node = place[p]
  BY DEF ShmInv, Held, HeldOf
<1> QED BY <1>1, <1>2 DEF ShmInv, KeyHeld

(* p stays attached.                                                       *)
LEMMA HeldStays ==
  ASSUME ShmInv, NEW p \in Procs, Others(p), UNCHANGED <<peers, shm_usd, shmid>>, Rigid,
         pc[p] \in {"publish", "gather", "remove", "count"}, ip'[p] \in {ip[p], ip[p] + 1},
         \/ pc'[p] \in {"gather", "remove"} /\ Kind(p)' = Kind(p)
         \/ pc'[p] \in {"call", "end"} \/ (pc'[p] = "table" /\ Kind(p) = "utf")
  PROVE  Held'
<1> DEFINE k == Kind(p)
<1>1. /\ k \in Kinds /\ \A L, l : In(p, L, l) <=> pc[p] \in L /\ l = k
      /\ HeldOf(p)
  BY HandFacts DEF Handshake, Leading, Following, ShmInv, Held
<1>2. shmid[p][k] # NoSeg
  BY <1>1 DEF HeldOf, Holding
<1>3. place' = place /\ Program' = Program
  BY OthersSame
<1>4. ASSUME NEW l \in Kinds, shmid'[p][l] # NoSeg
      PROVE  /\ shmid'[p][l] \in DOMAIN seg' /\ seg'[shmid'[p][l]].node = place'[p]
             /\ Begun(p, l)' /\ ~ In(p, {"create", "attach"}, l)'
  <2>1. /\ shmid[p][l] \in DOMAIN seg /\ seg[shmid[p][l]].node = place[p] /\ Begun(p, l)
    BY <1>1, <1>4 DEF HeldOf
  <2>2. shmid[p][l] \in DOMAIN seg' /\ seg'[shmid[p][l]].node = place[p]
    BY <2>1 DEF Rigid
  <2>3. Begun(p, l)'
    BY <2>1 DEF Begun
  <2> QED BY <1>3, <2>2, <2>3 DEF In
<1>5. ASSUME NEW l \in Kinds, Holding(p, l)' \/ In(p, {"count"}, l)' PROVE shmid'[p][l] # NoSeg
  BY <1>2, <1>5 DEF Holding, In
<1>6. ASSUME shm_usd'[p], \A j \in 1 .. ip'[p] - 1 : Program'[j] # "shm_finalize"
      PROVE  shmid'[p]["usr"] # NoSeg
  <2>1. 1 .. ip[p] - 1 \subseteq 1 .. ip'[p] - 1
    <3>1. ip[p] \in Nat \ {0}
      BY DEF ShmInv, LocalInv, StartType
    <3> QED BY <3>1
  <2>2. ~ In(p, {"create", "attach", "aborted"}, "usr")
    BY DEF In
  <2> QED BY <1>1, <1>3, <1>6, <2>1, <2>2 DEF HeldOf
<1>7. pc'[p] = "table" => shmid'[p]["utf"] # NoSeg
  BY <1>2
<1>8. HeldOf(p)'
  BY <1>4, <1>5, <1>6, <1>7 DEF HeldOf
<1>9. ASSUME NEW q \in Procs, q # p, NEW l \in Kinds, shmid[q][l] # NoSeg
      PROVE  shmid[q][l] \in DOMAIN seg' /\ seg'[shmid[q][l]].node = seg[shmid[q][l]].node
  <2>1. shmid[q][l] \in DOMAIN seg
    BY <1>9 DEF ShmInv, Held, HeldOf
  <2> QED BY <2>1 DEF Rigid
<1>10. Held
  BY DEF ShmInv
<1> QED BY <1>8, <1>9, <1>10, HeldKeeps

(* The segments' memory is what it was.                                    *)
LEMMA MemoryStays ==
  ASSUME ShmInv, NEW p \in Procs, Others(p), UNCHANGED shmid, Rigid, SameMemory
  PROVE  OwnSegs' /\ OwnStores' /\ OwnKinds'
<1>1. OwnSegs'
  BY OwnSegsKeeps DEF ShmInv
<1>2. OwnStores'
  <2>1. ASSUME NEW q \in Procs, shmid[q]["usr"] # NoSeg
        PROVE  /\ seg'[shmid[q]["usr"]].stores \subseteq seg[shmid[q]["usr"]].stores \cup {job}
               /\ seg'[shmid[q]["usr"]].entries = seg[shmid[q]["usr"]].entries
    <3>1. shmid[q]["usr"] \in DOMAIN seg
      BY <2>1 DEF ShmInv, Held, HeldOf, Kinds
    <3> QED BY <3>1 DEF SameMemory
  <2> QED BY <2>1, OwnStoresKeeps DEF ShmInv
<1>3. OwnKinds'
  <2>1. ASSUME NEW i \in DOMAIN seg'
        PROVE  /\ i \in DOMAIN seg /\ seg'[i].by = seg[i].by
               /\ seg'[i].kind = seg[i].kind /\ seg'[i].size = seg[i].size
    BY <2>1 DEF Rigid
  <2> QED BY <2>1, OwnKindsKeeps DEF ShmInv
<1> QED BY <1>1, <1>2, <1>3

(* The segments keep their keys, and p its reason to hold one.             *)
LEMMA KeysStay ==
  ASSUME ShmInv, NEW p \in Procs, Others(p), UNCHANGED shmid, Rigid, SameKeys,
         \A k \in Kinds : Holding(p, k)' <=> Holding(p, k),
         IsLeader(p) /\ Fresh(p) => Fresh(p)', pc'[p] # "aborted"
  PROVE  KeyOne' /\ KeyHeld' /\ KeyWhy' /\ Aborts'
<1>1. KeyOne'
  <2>1. ASSUME NEW i \in DOMAIN seg', seg'[i].key
        PROVE  i \in DOMAIN seg /\ seg[i].key /\ seg'[i].node = seg[i].node
    BY <2>1 DEF Rigid, SameKeys
  <2> QED BY <2>1, KeyOneKeeps DEF ShmInv
<1>2. ASSUME NEW q \in Procs, NEW k \in Kinds, Holding(q, k)
      PROVE  /\ seg'[shmid[q][k]].key = seg[shmid[q][k]].key
             /\ seg'[shmid[q][k]].size = seg[shmid[q][k]].size
  <2>1. shmid[q][k] \in DOMAIN seg
    BY <1>2, HoldFacts
  <2> QED BY <2>1 DEF Rigid, SameKeys
<1>3. KeyHeld'
  <2>1. \A k \in Kinds : Holding(p, k)' =>
           /\ seg'[shmid'[p][k]].key
           /\ seg'[shmid'[p][k]].size >= (IF k = "utf" THEN CqPages ELSE sz)
    BY <1>2, HoldFacts
  <2> QED BY <1>2, <2>1, KeyHeldKeeps DEF ShmInv
<1>4. KeyWhy'
  <2>1. ASSUME NEW i \in DOMAIN seg', seg'[i].key
        PROVE  /\ i \in DOMAIN seg /\ seg[i].key
               /\ seg'[i].node = seg[i].node /\ seg'[i].by = seg[i].by
               /\ \A k \in Kinds : shmid'[p][k] = i => shmid[p][k] = i
               /\ place[p] = seg[i].node /\ IsLeader(p) /\ Fresh(p) => Fresh(p)'
               /\ \A k \in Kinds : Holding(p, k) /\ shmid[p][k] = i =>
                    Holding(p, k)' /\ shmid'[p][k] = i
    BY <2>1 DEF Rigid, SameKeys
  <2> QED BY <2>1, KeyWhyKeeps DEF ShmInv
<1>5. Aborts'
  <2>1. ASSUME NEW q \in Procs, q # p, pc[q] = "aborted", IsLeader(q), NEW i \in DOMAIN seg,
               seg[i].node = place[q], seg[i].key
        PROVE  /\ i \in DOMAIN seg' /\ seg'[i].key /\ seg'[i].node = seg[i].node
               /\ seg'[i].by = seg[i].by /\ seg'[i].kind = seg[i].kind
               /\ seg'[i].size = seg[i].size
    BY <2>1 DEF Rigid, SameKeys
  <2> QED BY <2>1, AbortsKeeps DEF ShmInv
<1> QED BY <1>1, <1>3, <1>4, <1>5

(* The others of a leader's node follow it, and what they did is in the    *)
(* head of its segment.                                                    *)
LEMMA NodeFacts ==
  ASSUME NEW p \in Procs, IsLeader(p), NEW q \in nd_ranks(p) \ {p}
  PROVE  q \in Procs /\ ~ IsLeader(q) /\ lrank(q) = p
BY LeaderFacts

LEMMA PublishNext ==
  ASSUME ShmInv, NEW p \in Procs, Others(p), Publish(p)
  PROVE  SegType' /\ (ShmInv' <=> LocalInv')
<1>0. PICK k \in Kinds : k = Kind(p)
  BY KindFacts
<1> DEFINE id == shmid[p][k]
<1>1. /\ pc[p] = "publish" /\ seg' = [seg EXCEPT ![id].head = 1]
      /\ kvs' = kvs \cup {<<p, k>>} /\ Goto(p, "gather")
      /\ UNCHANGED <<peers, shm_usd, shmid>>
  BY <1>0 DEF Publish
<1>2. /\ k \in Kinds /\ Begun(p, k) /\ IsLeader(p) /\ ~ Fresh(p)
      /\ \A L, l : In(p, L, l) <=> pc[p] \in L /\ l = k
  BY <1>0, <1>1, HandFacts DEF Handshake, Leading
<1>3. /\ ip'[p] = ip[p] /\ pc'[p] = "gather" /\ Kind(p)' = k
      /\ \A l : Begun(p, l)' <=> Begun(p, l)
      /\ \A L, l : In(p, L, l)' <=> "gather" \in L /\ l = k
  BY <1>0, <1>1, StayFacts
<1>4. Holding(p, k) /\ id # NoSeg /\ id \in DOMAIN seg
  BY <1>1, <1>2, HoldFacts DEF Holding
<1>5. /\ SegType' /\ Rigid /\ SameKeys /\ SameMemory /\ seg'[id].head = 1
      /\ \A j \in DOMAIN seg : j # id => seg'[j].head = seg[j].head
  <2>1. 1 \in Nat
    OBVIOUS
  <2> QED BY <1>1, <1>4, <2>1, SetHead DEF ShmInv, LocalInv
<1>6. Held'
  <2>1. ip'[p] \in {ip[p], ip[p] + 1} /\ pc[p] \in {"publish", "gather", "remove", "count"}
    BY <1>1, <1>3
  <2> QED BY <1>0, <1>1, <1>3, <1>5, <2>1, HeldStays
<1>7. OwnSegs' /\ OwnStores' /\ OwnKinds'
  BY <1>1, <1>5, MemoryStays
<1>8. KeyOne' /\ KeyHeld' /\ KeyWhy' /\ Aborts'
  <2>1. \A l \in Kinds : Holding(p, l)' <=> Holding(p, l)
    BY <1>1, <1>2, <1>3 DEF Holding
  <2> QED BY <1>1, <1>2, <1>3, <1>5, <2>1, KeysStay
<1>9. /\ \A l \in Kinds : Past(p, l) => Past(p, l)'
      /\ Past(p, k)' /\ ~ Past(p, k)
      /\ \A l \in Kinds : l # k => (Past(p, l)' <=> Past(p, l))
  BY <1>1, <1>2, <1>3 DEF Past
<1> HIDE <1>1
<1>10. Published'
  <2>1. kvs' = kvs \cup {<<p, k>>}
    BY <1>1
  <2>2. ASSUME NEW q \in Procs, NEW l \in Kinds, <<q, l>> \in kvs'
        PROVE  <<q, l>> \in kvs \/ (q = p /\ IsLeader(p) /\ Past(p, l)')
    <3>1. <<q, l>> \in kvs \/ (q = p /\ l = k)
      BY <2>1, <2>2
    <3> QED BY <1>2, <1>9, <3>1
  <2>3. Published
    BY DEF ShmInv
  <2> QED BY <1>9, <2>2, <2>3, PublishedKeeps
<1>11. Counting'
  <2>1. ASSUME NEW l \in Kinds, IsLeader(p)
        PROVE  /\ Past(p, l) => Past(p, l)'
               /\ Past(p, l)' /\ ~ In(p, {"gather"}, l)' => Past(p, l) /\ ~ In(p, {"gather"}, l)
    <3>1. l # k => ~ In(p, {"gather"}, l)
      BY <1>2
    <3> QED BY <1>3, <1>9, <3>1
  <2> QED BY <1>2, <2>1, CountingKeeps DEF ShmInv
<1>12. Heads'
  <2>1. ASSUME NEW q \in Procs, q # p, NEW l \in Kinds, In(q, {"gather"}, l)
        PROVE  seg'[shmid[q][l]].head = seg[shmid[q][l]].head
    <3>1. Holding(q, l)
      BY <2>1 DEF Holding, In
    <3>2. IsLeader(q) /\ shmid[q][l] # NoSeg /\ shmid[q][l] \in DOMAIN seg
      BY <3>1, HoldFacts
    <3>3. shmid[q][l] # id
      BY <1>2, <1>4, <2>1, <3>2, LeadersApart
    <3> QED BY <1>5, <3>2, <3>3
  <2>2. CountedOn(p, k) = {}
    <3> SUFFICES ASSUME NEW q \in nd_ranks(p) \ {p}, Counted(q, k) PROVE FALSE
      BY DEF CountedOn
    <3>1. q \in Procs /\ ~ IsLeader(q) /\ lrank(q) = p
      BY <1>2, NodeFacts
    <3>2. Past(p, k)
      BY <1>2, <3>1 DEF ShmInv, Counting
    <3> QED BY <1>9, <3>2
  <2>3. \A l \in Kinds : In(p, {"gather"}, l)' =>
          seg'[shmid'[p][l]].head = 1 + Cardinality(CountedOn(p, l))
    <3>1. Cardinality(CountedOn(p, k)) = 0
      BY <2>2, FS_EmptySet
    <3>2. shmid' = shmid
      BY <1>1
    <3> QED BY <1>3, <1>5, <3>1, <3>2
  <2>4. Heads /\ Begins
    BY DEF ShmInv, LocalInv
  <2> QED BY <1>2, <2>1, <2>3, <2>4, HeadsKeeps
<1> QED BY <1>5, <1>6, <1>7, <1>8, <1>10, <1>11, <1>12 DEF ShmInv

LEMMA GatherNext ==
  ASSUME ShmInv, NEW p \in Procs, Others(p), Gather(p)
  PROVE  SegType' /\ (ShmInv' <=> LocalInv')
<1>0. PICK k \in Kinds : k = Kind(p)
  BY KindFacts
<1> DEFINE id == shmid[p][k]
<1>1. /\ pc[p] = "gather" /\ seg' = seg /\ kvs' = kvs
      /\ Goto(p, "remove") /\ seg[id].head = myppn(p)
      /\ UNCHANGED <<peers, shm_usd, shmid>>
  BY <1>0 DEF Gather, Gathered
<1>2. /\ k \in Kinds /\ Begun(p, k) /\ IsLeader(p) /\ ~ Fresh(p)
      /\ \A L, l : In(p, L, l) <=> pc[p] \in L /\ l = k
  BY <1>0, <1>1, HandFacts DEF Handshake, Leading
<1>3. /\ ip'[p] = ip[p] /\ pc'[p] = "remove" /\ Kind(p)' = k
      /\ \A l : Begun(p, l)' <=> Begun(p, l)
      /\ \A L, l : In(p, L, l)' <=> "remove" \in L /\ l = k
  BY <1>0, <1>1, StayFacts
<1>4. Holding(p, k) /\ id # NoSeg /\ id \in DOMAIN seg
  BY <1>1, <1>2, HoldFacts DEF Holding
<1>5. SegType' /\ Rigid /\ SameKeys /\ SameMemory
  BY <1>1, SegSame DEF ShmInv, LocalInv
<1>6. Held'
  <2>1. ip'[p] \in {ip[p], ip[p] + 1} /\ pc[p] \in {"publish", "gather", "remove", "count"}
    BY <1>1, <1>3
  <2> QED BY <1>0, <1>1, <1>3, <1>5, <2>1, HeldStays
<1>7. OwnSegs' /\ OwnStores' /\ OwnKinds'
  BY <1>1, <1>5, MemoryStays
<1>8. KeyOne' /\ KeyHeld' /\ KeyWhy' /\ Aborts'
  <2>1. \A l \in Kinds : Holding(p, l)' <=> Holding(p, l)
    BY <1>1, <1>2, <1>3 DEF Holding
  <2> QED BY <1>1, <1>2, <1>3, <1>5, <2>1, KeysStay
<1>9. \A l \in Kinds : Past(p, l)' <=> Past(p, l)
  BY <1>1, <1>2, <1>3 DEF Past
<1>10. \A q \in nd_ranks(p) \ {p} : Counted(q, k)
  <2>1. In(p, {"gather"}, k)
    BY <1>1, <1>2
  <2>2. myppn(p) = 1 + Cardinality(CountedOn(p, k))
    BY <1>1, <1>2, <2>1 DEF ShmInv, Heads
  <2>3. /\ IsFiniteSet(nd_ranks(p)) /\ p \in nd_ranks(p)
        /\ Cardinality(nd_ranks(p)) = myppn(p) /\ myppn(p) \in Nat
    BY NodeRanks DEF myppn
  <2>4. /\ IsFiniteSet(nd_ranks(p) \ {p})
        /\ Cardinality(nd_ranks(p) \ {p}) = Cardinality(nd_ranks(p)) - 1
    BY <2>3, FS_RemoveElement
  <2>5. CountedOn(p, k) \in SUBSET (nd_ranks(p) \ {p})
    BY DEF CountedOn
  <2>6. Cardinality(CountedOn(p, k)) \in Nat
    BY <2>4, <2>5, FS_Subset, FS_CardinalityType
  <2>7. Cardinality(CountedOn(p, k)) = Cardinality(nd_ranks(p) \ {p})
    BY <2>2, <2>3, <2>4, <2>6
  <2>8. CountedOn(p, k) = nd_ranks(p) \ {p}
    BY <2>4, <2>5, <2>7, FS_Subset
  <2> QED BY <2>8 DEF CountedOn
<1> HIDE <1>1
<1>11. Published'
  <2>1. kvs' = kvs
    BY <1>1
  <2> QED BY <1>9, <2>1, PublishedKeeps DEF ShmInv
<1>12. Counting'
  <2>1. ASSUME NEW l \in Kinds, IsLeader(p)
        PROVE  /\ Past(p, l) => Past(p, l)'
               /\ Past(p, l)' /\ ~ In(p, {"gather"}, l)' =>
                    \/ Past(p, l) /\ ~ In(p, {"gather"}, l)
                    \/ \A q \in nd_ranks(p) \ {p} : Counted(q, l)
    <3>1. l # k => ~ In(p, {"gather"}, l)
      BY <1>2
    <3> QED BY <1>9, <1>10, <3>1
  <2> QED BY <1>2, <2>1, CountingKeeps DEF ShmInv
<1>13. Heads'
  <2>1. ASSUME NEW q \in Procs, q # p, NEW l \in Kinds, In(q, {"gather"}, l)
        PROVE  seg'[shmid[q][l]].head = seg[shmid[q][l]].head
    BY <1>1
  <2>2. \A l \in Kinds : ~ In(p, {"gather"}, l)'
    BY <1>3
  <2>3. Heads /\ Begins
    BY DEF ShmInv, LocalInv
  <2> QED BY <1>2, <2>1, <2>2, <2>3, HeadsKeeps
<1> QED BY <1>5, <1>6, <1>7, <1>8, <1>11, <1>12, <1>13 DEF ShmInv

LEMMA RemoveNext ==
  ASSUME ShmInv, NEW p \in Procs, Others(p), Remove(p)
  PROVE  SegType' /\ (ShmInv' <=> LocalInv')
<1>0. PICK k \in Kinds : k = Kind(p)
  BY KindFacts
<1> DEFINE id == shmid[p][k]
<1>1. /\ pc[p] = "remove" /\ seg' = [seg EXCEPT ![id].head = 0, ![id].key = FALSE]
      /\ kvs' = kvs /\ ShmReturn(p)
      /\ UNCHANGED <<peers, shm_usd, shmid>>
  BY <1>0 DEF Remove
<1>2. /\ Begun(p, k) /\ IsLeader(p) /\ ~ Fresh(p)
      /\ \A L, l : In(p, L, l) <=> pc[p] \in L /\ l = k
  BY <1>0, <1>1, HandFacts DEF Handshake, Leading
<1>3. /\ ip'[p] \in {ip[p], ip[p] + 1} /\ pc'[p] \in {"table", "call", "end"}
      /\ pc'[p] = "table" => k = "utf"
      /\ \A l : Begun(p, l)' <=> Begun(p, l)
      /\ \A l : \A L \in SUBSET (Handshake \cup {"aborted"}) : ~ In(p, L, l)'
  BY <1>0, <1>1, LeaveFacts
<1>4. Holding(p, k) /\ id # NoSeg /\ id \in DOMAIN seg
  BY <1>1, <1>2, HoldFacts DEF Holding
<1>5. /\ SegType' /\ Rigid /\ SameMemory /\ ~ seg'[id].key
      /\ \A j \in DOMAIN seg : j # id => seg'[j].key = seg[j].key /\ seg'[j].head = seg[j].head
  BY <1>1, <1>4, DropKey DEF ShmInv, LocalInv
<1>6. Held'
  BY <1>0, <1>1, <1>3, <1>5, HeldStays
<1>7. OwnSegs' /\ OwnStores' /\ OwnKinds'
  BY <1>1, <1>5, MemoryStays
<1>8. \A l \in Kinds : ~ In(p, {"gather"}, l)' /\ ~ Holding(p, l)' /\ (Past(p, l) => Past(p, l)')
  <2>1. /\ {"gather"} \in SUBSET (Handshake \cup {"aborted"})
        /\ {"publish", "gather", "remove"} \in SUBSET (Handshake \cup {"aborted"})
        /\ {"create", "publish", "aborted"} \in SUBSET (Handshake \cup {"aborted"})
    BY DEF Handshake, Leading
  <2> QED BY <1>3, <2>1 DEF Holding, Past
<1>9. \A l \in Kinds : Past(p, l)' => Past(p, l)
  BY <1>1, <1>2, <1>3 DEF Past
<1>10. ASSUME NEW q \in Procs, q # p, NEW l \in Kinds, Holding(q, l)
       PROVE  /\ IsLeader(q) /\ shmid[q][l] # NoSeg /\ shmid[q][l] \in DOMAIN seg
              /\ shmid[q][l] # id
  <2>1. IsLeader(q) /\ shmid[q][l] # NoSeg /\ shmid[q][l] \in DOMAIN seg
    BY <1>10, HoldFacts
  <2> QED BY <1>2, <1>4, <1>10, <2>1, LeadersApart
<1>11. kvs' = kvs /\ shmid' = shmid
  BY <1>1
<1> HIDE <1>1
<1>12. Published'
  BY <1>8, <1>11, PublishedKeeps DEF ShmInv
<1>13. Counting'
  <2>1. ASSUME NEW l \in Kinds, IsLeader(p)
        PROVE  /\ Past(p, l) => Past(p, l)'
               /\ Past(p, l)' /\ ~ In(p, {"gather"}, l)' => Past(p, l) /\ ~ In(p, {"gather"}, l)
    <3>1. ~ In(p, {"gather"}, l)
      BY <1>1, <1>2
    <3> QED BY <1>8, <1>9, <3>1
  <2> QED BY <1>2, <2>1, CountingKeeps DEF ShmInv
<1>14. Heads'
  <2>1. ASSUME NEW q \in Procs, q # p, NEW l \in Kinds, In(q, {"gather"}, l)
        PROVE  seg'[shmid[q][l]].head = seg[shmid[q][l]].head
    <3>1. Holding(q, l)
      BY <2>1 DEF Holding, In
    <3> QED BY <1>5, <1>10, <2>1, <3>1
  <2>2. Heads /\ Begins
    BY DEF ShmInv, LocalInv
  <2> QED BY <1>2, <1>8, <2>1, <2>2, HeadsKeeps
<1>15. KeyOne'
  <2>1. ASSUME NEW i \in DOMAIN seg', seg'[i].key
        PROVE  i \in DOMAIN seg /\ seg[i].key /\ seg'[i].node = seg[i].node
    BY <1>5, <2>1 DEF Rigid
  <2> QED BY <2>1, KeyOneKeeps DEF ShmInv
<1>16. KeyHeld'
  <2>1. ASSUME NEW q \in Procs, q # p, NEW l \in Kinds, Holding(q, l)
        PROVE  /\ seg'[shmid[q][l]].key = seg[shmid[q][l]].key
               /\ seg'[shmid[q][l]].size = seg[shmid[q][l]].size
    BY <1>5, <1>10, <2>1 DEF Rigid
  <2> QED BY <1>8, <2>1, KeyHeldKeeps DEF ShmInv
<1>17. KeyWhy'
  <2>1. ASSUME NEW i \in DOMAIN seg', seg'[i].key
        PROVE  /\ i \in DOMAIN seg /\ seg[i].key
               /\ seg'[i].node = seg[i].node /\ seg'[i].by = seg[i].by
               /\ \A l \in Kinds : shmid'[p][l] = i => shmid[p][l] = i
               /\ place[p] = seg[i].node /\ IsLeader(p) /\ Fresh(p) => Fresh(p)'
               /\ \A l \in Kinds : Holding(p, l) /\ shmid[p][l] = i =>
                    Holding(p, l)' /\ shmid'[p][l] = i
    <3>1. i # id /\ i \in DOMAIN seg /\ seg[i].key
      BY <1>5, <2>1 DEF Rigid
    <3>2. \A l \in Kinds : Holding(p, l) => l = k
      BY <1>2 DEF Holding
    <3> QED BY <1>2, <1>5, <1>11, <3>1, <3>2 DEF Rigid
  <2> QED BY <2>1, KeyWhyKeeps DEF ShmInv
<1>18. Aborts'
  <2>1. ASSUME NEW q \in Procs, q # p, pc[q] = "aborted", IsLeader(q), NEW i \in DOMAIN seg,
               seg[i].node = place[q], seg[i].key
        PROVE  /\ i \in DOMAIN seg' /\ seg'[i].key /\ seg'[i].node = seg[i].node
               /\ seg'[i].by = seg[i].by /\ seg'[i].kind = seg[i].kind
               /\ seg'[i].size = seg[i].size
    <3>1. place[q] # place[p]
      BY <1>2, <2>1, LeaderFacts
    <3>2. seg[id].node = place[p]
      BY <1>4, HoldFacts
    <3>3. i # id
      BY <2>1, <3>1, <3>2
    <3> QED BY <1>5, <2>1, <3>3 DEF Rigid
  <2>2. pc'[p] # "aborted"
    BY <1>3
  <2> QED BY <2>1, <2>2, AbortsKeeps DEF ShmInv
<1> QED BY <1>5, <1>6, <1>7, <1>12, <1>13, <1>14, <1>15, <1>16, <1>17, <1>18 DEF ShmInv

LEMMA CountNext ==
  ASSUME ShmInv, NEW p \in Procs, Others(p), Count(p)
  PROVE  SegType' /\ (ShmInv' <=> LocalInv')
<1>0. PICK k \in Kinds : k = Kind(p)
  BY KindFacts
<1> DEFINE id == shmid[p][k]
<1>r. PICK r \in Procs : r = lrank(p)
  BY LeaderFacts
<1>1. /\ pc[p] = "count" /\ seg' = [seg EXCEPT ![id].head = seg[id].head + 1]
      /\ kvs' = kvs /\ ShmReturn(p)
      /\ UNCHANGED <<peers, shm_usd, shmid>>
  BY <1>0 DEF Count
<1>2. /\ Begun(p, k) /\ ~ IsLeader(p)
      /\ \A L, l : In(p, L, l) <=> pc[p] \in L /\ l = k
  BY <1>0, <1>1, HandFacts DEF Handshake, Leading, Following
<1>3. /\ ip'[p] \in {ip[p], ip[p] + 1} /\ pc'[p] \in {"table", "call", "end"}
      /\ pc'[p] = "table" => k = "utf"
      /\ \A l : Begun(p, l)' <=> Begun(p, l)
      /\ \A l : \A L \in SUBSET (Handshake \cup {"aborted"}) : ~ In(p, L, l)'
  BY <1>0, <1>1, LeaveFacts
<1>4. id # NoSeg /\ id \in DOMAIN seg /\ seg[id].head \in Nat
  <2>1. In(p, {"count"}, k)
    BY <1>1, <1>2
  <2>2. id # NoSeg /\ id \in DOMAIN seg
    BY <2>1 DEF ShmInv, Held, HeldOf
  <2> QED BY <2>2 DEF ShmInv, LocalInv, SegType, Segment
<1>5. /\ SegType' /\ Rigid /\ SameKeys /\ SameMemory /\ seg'[id].head = seg[id].head + 1
      /\ \A j \in DOMAIN seg : j # id => seg'[j].head = seg[j].head
  <2>1. seg[id].head + 1 \in Nat
    BY <1>4
  <2> QED BY <1>1, <1>4, <2>1, SetHead DEF ShmInv, LocalInv
<1>6. Held'
  BY <1>0, <1>1, <1>3, <1>5, HeldStays
<1>7. OwnSegs' /\ OwnStores' /\ OwnKinds'
  BY <1>1, <1>5, MemoryStays
<1>8. \A l \in Kinds : /\ ~ In(p, {"gather"}, l)' /\ ~ In(p, {"count"}, l)'
                       /\ ~ Holding(p, l)' /\ ~ Holding(p, l)
                       /\ Begun(p, l) => Counted(p, l)'
                       /\ l # k => (Counted(p, l)' <=> Counted(p, l))
  <2>1. /\ {"gather"} \in SUBSET (Handshake \cup {"aborted"})
        /\ {"count"} \in SUBSET (Handshake \cup {"aborted"})
        /\ {"publish", "gather", "remove"} \in SUBSET (Handshake \cup {"aborted"})
        /\ {"attach", "count"} \in SUBSET (Handshake \cup {"aborted"})
    BY DEF Handshake, Leading, Following
  <2> QED BY <1>1, <1>2, <1>3, <2>1 DEF Holding, Counted
<1>9. KeyOne' /\ KeyHeld' /\ KeyWhy' /\ Aborts'
  <2>1. \A l \in Kinds : Holding(p, l)' <=> Holding(p, l)
    BY <1>8
  <2>2. pc'[p] # "aborted"
    BY <1>3
  <2> QED BY <1>1, <1>2, <1>5, <2>1, <2>2, KeysStay
<1>10. kvs' = kvs /\ shmid' = shmid /\ ~ Counted(p, k)
  BY <1>1, <1>2 DEF Counted
<1>11. Past(r, k) /\ In(r, {"gather"}, k)
  <2>1. In(p, {"count"}, k)
    BY <1>1, <1>2
  <2>2. Past(r, k)
    BY <1>2, <1>r, <2>1 DEF ShmInv, Counting
  <2>3. In(r, {"gather"}, k)
    BY <1>2, <1>r, <1>10, <2>2 DEF ShmInv, Counting
  <2> QED BY <2>2, <2>3
<1> HIDE <1>1
<1>12. Published'
  <2>1. \A l \in Kinds : IsLeader(p) /\ Past(p, l) => Past(p, l)'
    BY <1>2
  <2> QED BY <1>10, <2>1, PublishedKeeps DEF ShmInv
<1>13. Counting'
  <2>1. ASSUME NEW l \in Kinds, ~ IsLeader(p)
        PROVE  /\ Counted(p, l) => Counted(p, l)'
               /\ Counted(p, l)' \/ In(p, {"count"}, l)' =>
                    Counted(p, l) \/ In(p, {"count"}, l) \/ Past(lrank(p), l)
    BY <1>8, <1>r, <1>11 DEF Counted
  <2> QED BY <1>2, <2>1, CountingKeeps DEF ShmInv
<1>14. /\ IsLeader(r) /\ place[r] = place[p] /\ r # p /\ p \in nd_ranks(r)
       /\ shmid[r][k] # NoSeg /\ shmid[r][k] = id
  <2>1. IsLeader(r) /\ place[r] = place[p] /\ r # p /\ p \in nd_ranks(r)
    BY <1>2, <1>r, LeaderFacts DEF nd_ranks
  <2>2. shmid[r][k] # NoSeg
    BY <1>11, HoldFacts DEF Holding, In
  <2> QED BY <1>4, <2>1, <2>2 DEF ShmInv, OwnSegs
<1>15. Heads'
  <2> SUFFICES ASSUME NEW q \in Procs, NEW l \in Kinds, In(q, {"gather"}, l)'
               PROVE  seg'[shmid'[q][l]].head = 1 + Cardinality(CountedOn(q, l)')
    BY DEF Heads
  <2>1. q # p
    BY <1>8
  <2>2. In(q, {"gather"}, l) /\ shmid'[q] = shmid[q] /\ nd_ranks(q)' = nd_ranks(q)
    BY <2>1, SameIn, OthersSame
  <2>3. /\ IsLeader(q) /\ shmid[q][l] # NoSeg /\ shmid[q][l] \in DOMAIN seg
        /\ l = Kind(q)
    BY <2>2, HoldFacts DEF Holding, In
  <2>4. seg[shmid[q][l]].head = 1 + Cardinality(CountedOn(q, l))
    BY <2>2 DEF ShmInv, Heads
  <2>5. CASE q = r
    <3>1. l = k
      BY <1>11, <2>3, <2>5 DEF In
    <3>2. \A x \in nd_ranks(r) : x # p => (Counted(x, k)' <=> Counted(x, k))
      BY OthersSame, LeaderFacts
    <3>3. Counted(p, k)'
      BY <1>2, <1>8
    <3>4. CountedOn(r, k)' = CountedOn(r, k) \cup {p} /\ p \notin CountedOn(r, k)
      BY <1>10, <1>14, <2>2, <2>5, <3>2, <3>3 DEF CountedOn
    <3>5. IsFiniteSet(CountedOn(r, k))
      <4>1. CountedOn(r, k) \in SUBSET nd_ranks(r)
        BY DEF CountedOn
      <4> QED BY <4>1, NodeRanks, FS_Subset
    <3>6. /\ Cardinality(CountedOn(r, k) \cup {p}) = Cardinality(CountedOn(r, k)) + 1
          /\ Cardinality(CountedOn(r, k)) \in Nat
      BY <3>4, <3>5, FS_AddElement, FS_CardinalityType
    <3>7. /\ seg[id].head = 1 + Cardinality(CountedOn(r, k))
          /\ seg'[id].head = seg[id].head + 1
      BY <1>5, <1>14, <2>4, <2>5, <3>1
    <3>8. seg'[id].head = 1 + Cardinality(CountedOn(r, k)')
      BY <3>4, <3>6, <3>7
    <3> QED BY <1>14, <2>2, <2>5, <3>1, <3>8
  <2>6. CASE q # r
    <3>1. place[q] # place[r]
      BY <1>14, <2>3, <2>6, LeaderFacts
    <3>2. shmid[q][l] # id
      BY <1>14, <2>3, <2>6, LeadersApart
    <3>3. \A x \in nd_ranks(q) : x \in Procs /\ x # p
      BY <1>14, <3>1, LeaderFacts
    <3>4. \A x \in nd_ranks(q) : Counted(x, l)' <=> Counted(x, l)
      BY <3>3, OthersSame
    <3>5. CountedOn(q, l)' = CountedOn(q, l)
      BY <2>2, <3>4 DEF CountedOn
    <3> QED BY <1>5, <2>2, <2>3, <2>4, <3>2, <3>5
  <2> QED BY <2>5, <2>6
<1> QED BY <1>5, <1>6, <1>7, <1>9, <1>12, <1>13, <1>15 DEF ShmInv

(* The leader's segment is the one with the key while the others attach.   *)
LEMMA AttachFacts ==
  ASSUME ShmInv, NEW p \in Procs, NEW k \in Kinds, k = Kind(p), pc[p] = "attach", Found(p),
         NEW r \in Procs, r = lrank(p)
  PROVE  /\ Past(r, k) /\ Holding(r, k) /\ r # p /\ place[r] = place[p]
         /\ shmid[r][k] # NoSeg
         /\ {i \in Keyed(place[p]) : seg[i].size >= Size(p)} = {shmid[r][k]}
<1> DEFINE id == shmid[r][k]
<1>1. /\ ~ IsLeader(p) /\ \A L, l : In(p, L, l) <=> pc[p] \in L /\ l = k
  BY HandFacts DEF Handshake, Leading, Following
<1>2. place[r] = place[p] /\ r # p
  BY <1>1, LeaderFacts
<1>3. Past(r, k)
  BY DEF Found, ShmInv, Published
<1>4. ~ Counted(p, k)
  BY <1>1 DEF Counted
<1>5. In(r, {"gather"}, k)
  BY <1>1, <1>3, <1>4 DEF ShmInv, Counting
<1>6. Holding(r, k)
  BY <1>5 DEF Holding, In
<1>7. /\ id # NoSeg /\ id \in DOMAIN seg /\ seg[id].node = place[r] /\ seg[id].key
      /\ seg[id].size >= (IF k = "utf" THEN CqPages ELSE sz)
  BY <1>6, HoldFacts
<1>8. Size(p) = IF k = "utf" THEN CqPages ELSE sz
  BY DEF Size
<1>9. id \in {i \in Keyed(place[p]) : seg[i].size >= Size(p)}
  BY <1>2, <1>7, <1>8 DEF Keyed
<1>10. \A i \in Keyed(place[p]) : i = id
  BY <1>2, <1>7 DEF Keyed, ShmInv, KeyOne
<1> HIDE DEF id
<1>11. {i \in Keyed(place[p]) : seg[i].size >= Size(p)} = {id}
  BY <1>9, <1>10
<1> QED BY <1>2, <1>3, <1>6, <1>7, <1>11 DEF id

LEMMA AttachNext ==
  ASSUME ShmInv, NEW p \in Procs, Others(p), Attach(p)
  PROVE  SegType' /\ (ShmInv' <=> LocalInv')
<1>0. PICK k \in Kinds : k = Kind(p)
  BY KindFacts
<1>r. PICK r \in Procs : r = lrank(p)
  BY LeaderFacts
<1> DEFINE id == shmid[r][k]
<1>1. /\ pc[p] = "attach" /\ Found(p) /\ UNCHANGED <<peers, shm_usd, seg, kvs>>
      /\ \E i \in {j \in Keyed(place[p]) : seg[j].size >= Size(p)} :
           shmid' = [shmid EXCEPT ![p][k] = i]
      /\ Goto(p, "count")
  <2>1. /\ pc[p] = "attach" /\ Found(p) /\ UNCHANGED <<peers, shm_usd, seg, kvs>>
    BY DEF Attach
  <2>2. {i \in Keyed(place[p]) : seg[i].size >= Size(p)} # {}
    BY <1>0, <1>r, <2>1, AttachFacts
  <2> QED BY <1>0, <2>1, <2>2 DEF Attach
<1>2. /\ Past(r, k) /\ Holding(r, k) /\ r # p /\ place[r] = place[p] /\ id # NoSeg
      /\ {i \in Keyed(place[p]) : seg[i].size >= Size(p)} = {id}
  BY <1>0, <1>1, <1>r, AttachFacts
<1>3. /\ Begun(p, k) /\ ~ IsLeader(p) /\ (k = "utf" => ~ shm_usd[p])
      /\ \A L, l : In(p, L, l) <=> pc[p] \in L /\ l = k
  BY <1>0, <1>1, HandFacts DEF Handshake, Leading, Following
<1>4. /\ ip'[p] = ip[p] /\ pc'[p] = "count" /\ Kind(p)' = k
      /\ \A l : Begun(p, l)' <=> Begun(p, l)
      /\ \A L, l : In(p, L, l)' <=> "count" \in L /\ l = k
  BY <1>0, <1>1, StayFacts
<1>5. /\ shmid'[p][k] = id /\ \A l \in Kinds : l # k => shmid'[p][l] = shmid[p][l]
      /\ shmid[p][k] = NoSeg
  <2>1. shmid' = [shmid EXCEPT ![p][k] = id]
    BY <1>1, <1>2
  <2>2. shmid \in [Procs -> [Kinds -> Nat]]
    BY DEF ShmInv, LocalInv, StartType
  <2>3. shmid[p][k] = NoSeg
    BY <1>1, <1>3 DEF ShmInv, Held, HeldOf
  <2> HIDE DEF id
  <2> QED BY <2>1, <2>2, <2>3
<1>6. \A q \in Procs : q # p => shmid'[q] = shmid[q]
  BY OthersSame
<1>7. seg' = seg /\ kvs' = kvs /\ UNCHANGED <<peers, shm_usd>> /\ pc[p] = "attach"
  BY <1>1
<1>8. /\ id \in DOMAIN seg /\ seg[id].node = place[p] /\ seg[id].key
  BY <1>2, HoldFacts
<1> HIDE <1>1
<1> HIDE DEF id
<1>9. SegType'
  BY <1>7, SegSame DEF ShmInv, LocalInv
<1>10. Held'
  <2>1. place' = place /\ Program' = Program
    BY OthersSame
  <2>2. HeldOf(p)
    BY DEF ShmInv, Held
  <2>3. ASSUME NEW l \in Kinds, shmid'[p][l] # NoSeg
        PROVE  /\ shmid'[p][l] \in DOMAIN seg' /\ seg'[shmid'[p][l]].node = place'[p]
               /\ Begun(p, l)' /\ ~ In(p, {"create", "attach"}, l)'
    <3>1. CASE l = k
      BY <1>3, <1>4, <1>5, <1>7, <1>8, <2>1, <3>1
    <3>2. CASE l # k
      BY <1>4, <1>5, <1>7, <2>1, <2>2, <2>3, <3>2 DEF HeldOf
    <3> QED BY <3>1, <3>2
  <2>4. ASSUME NEW l \in Kinds, Holding(p, l)' \/ In(p, {"count"}, l)'
        PROVE  shmid'[p][l] # NoSeg
    BY <1>2, <1>4, <1>5, <2>4 DEF Holding
  <2>5. ASSUME shm_usd'[p], \A j \in 1 .. ip'[p] - 1 : Program'[j] # "shm_finalize"
        PROVE  shmid'[p]["usr"] # NoSeg
    <3>1. k = "usr"
      BY <1>3, <1>7, <2>5 DEF Kinds
    <3> QED BY <1>2, <1>5, <3>1
  <2>6. HeldOf(p)'
    BY <1>4, <2>3, <2>4, <2>5 DEF HeldOf
  <2>7. ASSUME NEW q \in Procs, q # p, NEW l \in Kinds, shmid[q][l] # NoSeg
        PROVE  shmid[q][l] \in DOMAIN seg' /\ seg'[shmid[q][l]].node = seg[shmid[q][l]].node
    BY <1>7, <2>7 DEF ShmInv, Held, HeldOf
  <2> QED BY <2>6, <2>7, HeldKeeps DEF ShmInv
<1>11. Published'
  BY <1>3, <1>7, PublishedKeeps DEF ShmInv
<1>12. \A l \in Kinds : Counted(p, l)' <=> Counted(p, l)
  BY <1>3, <1>4, <1>7 DEF Counted
<1>13. Counting'
  <2>1. ASSUME NEW l \in Kinds, ~ IsLeader(p)
        PROVE  /\ Counted(p, l) => Counted(p, l)'
               /\ Counted(p, l)' \/ In(p, {"count"}, l)' =>
                    Counted(p, l) \/ In(p, {"count"}, l) \/ Past(lrank(p), l)
    BY <1>2, <1>4, <1>r, <1>12
  <2> QED BY <1>3, <2>1, CountingKeeps DEF ShmInv
<1>14. Heads'
  <2>1. ASSUME NEW q \in Procs, q # p, NEW l \in Kinds, In(q, {"gather"}, l)
        PROVE  seg'[shmid[q][l]].head = seg[shmid[q][l]].head
    BY <1>7
  <2>2. \A l \in Kinds : ~ In(p, {"gather"}, l)'
    BY <1>4
  <2>3. Heads /\ Begins
    BY DEF ShmInv, LocalInv
  <2> QED BY <1>12, <2>1, <2>2, <2>3, HeadsKeeps
<1>15. KeyOne'
  BY <1>7, KeyOneKeeps DEF ShmInv
<1>16. \A l \in Kinds : ~ Holding(p, l) /\ ~ Holding(p, l)'
  BY <1>3, <1>4, <1>7 DEF Holding
<1>17. KeyHeld'
  BY <1>7, <1>16, KeyHeldKeeps DEF ShmInv
<1>18. KeyWhy'
  <2>1. ASSUME NEW i \in DOMAIN seg', seg'[i].key
        PROVE  \/ \E q \in Procs : q # p /\ \E l \in Kinds : Holding(q, l) /\ shmid[q][l] = i
               \/ /\ i \in DOMAIN seg /\ seg[i].key
                  /\ seg'[i].node = seg[i].node /\ seg'[i].by = seg[i].by
                  /\ \A l \in Kinds : shmid'[p][l] = i => shmid[p][l] = i
                  /\ place[p] = seg[i].node /\ IsLeader(p) /\ Fresh(p) => Fresh(p)'
                  /\ \A l \in Kinds : Holding(p, l) /\ shmid[p][l] = i =>
                       Holding(p, l)' /\ shmid'[p][l] = i
    <3>1. CASE i = id
      BY <1>2, <3>1 DEF id
    <3>2. CASE i # id
      BY <1>3, <1>5, <1>7, <1>16, <2>1, <3>2
    <3> QED BY <3>1, <3>2
  <2> QED BY <2>1, KeyWhyKeeps DEF ShmInv
<1>19. OwnSegs'
  <2>1. place' = place
    BY OthersSame
  <2>2. ASSUME NEW q \in Procs, NEW l \in Kinds, shmid'[q][l] # NoSeg
        PROVE  id = shmid'[q][l] <=> (place[p] = place[q] /\ k = l)
    <3>1. CASE q = p /\ l = k
      BY <1>5, <3>1
    <3>2. CASE ~ (q = p /\ l = k)
      <4>1. shmid'[q][l] = shmid[q][l]
        BY <1>5, <1>6, <3>2
      <4> QED BY <1>2, <2>2, <4>1 DEF ShmInv, OwnSegs, id
    <3> QED BY <3>1, <3>2
  <2> SUFFICES ASSUME NEW q \in Procs, NEW x \in Procs, NEW l \in Kinds, NEW m \in Kinds,
                      shmid'[q][l] # NoSeg, shmid'[x][m] # NoSeg
               PROVE  shmid'[q][l] = shmid'[x][m] <=> (place[q] = place[x] /\ l = m)
    BY <2>1 DEF OwnSegs
  <2>3. CASE q = p /\ l = k
    BY <1>5, <2>2, <2>3
  <2>4. CASE x = p /\ m = k
    BY <1>5, <2>2, <2>4
  <2>5. CASE ~ (q = p /\ l = k) /\ ~ (x = p /\ m = k)
    <3>1. shmid'[q][l] = shmid[q][l] /\ shmid'[x][m] = shmid[x][m]
      BY <1>5, <1>6, <2>5
    <3> QED BY <3>1 DEF ShmInv, OwnSegs
  <2> QED BY <2>3, <2>4, <2>5
<1>20. OwnStores'
  <2>1. job' = job
    BY OthersSame
  <2> SUFFICES ASSUME NEW q \in Procs, shmid'[q]["usr"] # NoSeg
               PROVE  /\ seg[shmid'[q]["usr"]].stores \subseteq {job}
                      /\ seg[shmid'[q]["usr"]].entries = <<>>
    BY <1>7, <2>1 DEF OwnStores
  <2>2. CASE q = p /\ k = "usr"
    BY <1>2, <1>5, <2>2 DEF ShmInv, OwnStores, id
  <2>3. CASE ~ (q = p /\ k = "usr")
    <3>1. shmid'[q]["usr"] = shmid[q]["usr"]
      BY <1>5, <1>6, <2>3 DEF Kinds
    <3> QED BY <3>1 DEF ShmInv, OwnStores
  <2> QED BY <2>2, <2>3
<1>21. OwnKinds'
  BY <1>7, OwnKindsKeeps DEF ShmInv
<1>22. Aborts'
  <2>1. pc'[p] # "aborted"
    BY <1>4
  <2> QED BY <1>7, <2>1, AbortsKeeps DEF ShmInv
<1> QED BY <1>9, <1>10, <1>11, <1>13, <1>14, <1>15, <1>17, <1>18, <1>19, <1>20, <1>21, <1>22
        DEF ShmInv

-----------------------------------------------------------------------------
(* The leader looks for a segment.                                         *)

(* Nobody of the node is attached yet, and a segment that has the key is   *)
(* one a killed job has left, which the table of queues' leader finds.     *)
LEMMA CreateFacts ==
  ASSUME ShmInv, NEW p \in Procs, NEW k \in Kinds, k = Kind(p), pc[p] = "create"
  PROVE  /\ IsLeader(p) /\ Begun(p, k) /\ ~ Past(p, k) /\ (k = "utf" => ~ shm_usd[p])
         /\ \A L, l : In(p, L, l) <=> pc[p] \in L /\ l = k
         /\ Fresh(p) => k = "utf"
         /\ \A q \in Procs : place[q] = place[p] => shmid[q][k] = NoSeg
         /\ \A i \in Keyed(place[p]) : Stale(i) /\ k = "utf"
<1>1. /\ IsLeader(p) /\ Begun(p, k) /\ (k = "utf" => ~ shm_usd[p])
      /\ \A L, l : In(p, L, l) <=> pc[p] \in L /\ l = k
      /\ Fresh(p) => k = "utf"
  BY HandFacts DEF Handshake, Leading, Following, Kinds
<1>2. ~ Past(p, k)
  BY <1>1 DEF Past
<1>3. ASSUME NEW q \in Procs, place[q] = place[p] PROVE shmid[q][k] = NoSeg
  <2>1. CASE q = p
    BY <1>1, <2>1 DEF ShmInv, Held, HeldOf
  <2>2. CASE q # p
    <3>1. ~ IsLeader(q) /\ lrank(q) = p
      BY <1>1, <1>3, <2>2, LeaderFacts
    <3>2. ~ Counted(q, k) /\ ~ In(q, {"count"}, k)
      BY <1>2, <3>1 DEF ShmInv, Counting
    <3>3. shmid[q][k] # NoSeg => Begun(q, k) /\ ~ In(q, {"create", "attach"}, k)
      BY DEF ShmInv, Held, HeldOf
    <3> QED BY <3>2, <3>3 DEF Counted, In
  <2> QED BY <2>1, <2>2
<1>4. ASSUME NEW i \in Keyed(place[p]) PROVE Stale(i) /\ k = "utf"
  <2>1. i \in DOMAIN seg /\ seg[i].node = place[p] /\ seg[i].key
    BY DEF Keyed
  <2>2. ASSUME NEW q \in Procs, NEW l \in Kinds, Holding(q, l), shmid[q][l] = i PROVE FALSE
    <3>1. IsLeader(q) /\ place[q] = place[p] /\ pc[q] # "create"
      BY <2>1, <2>2, HoldFacts
    <3> QED BY <1>1, <3>1, LeaderFacts
  <2>3. Stale(i)
    BY <2>1, <2>2 DEF ShmInv, KeyWhy
  <2>4. Fresh(p)
    BY <1>1, <2>1, <2>3 DEF Stale
  <2> QED BY <1>1, <2>3, <2>4
<1> QED BY <1>1, <1>2, <1>3, <1>4

(* p takes segment i, its own or the one that was there.                   *)
LEMMA TakeNext ==
  ASSUME ShmInv, NEW p \in Procs, Others(p), NEW k \in Kinds, k = Kind(p), pc[p] = "create",
         UNCHANGED <<peers, shm_usd, kvs>>, Goto(p, "publish"), NEW i \in Nat \ {0},
         shmid' = [shmid EXCEPT ![p][k] = i],
         DOMAIN seg' = DOMAIN seg \cup {i}, \A j \in DOMAIN seg : seg'[j] = seg[j],
         \A q \in Procs : \A l \in Kinds : shmid[q][l] # i,
         seg'[i].node = place[p], seg'[i].key, seg'[i].size >= Size(p),
         \A j \in Keyed(place[p]) : j = i,
         k = "usr" => seg'[i].stores \subseteq {job} /\ seg'[i].entries = <<>>,
         i \notin DOMAIN seg =>
           seg'[i].by <= job /\ (seg'[i].kind = "utf" => seg'[i].size = CqPages)
  PROVE  ShmInv' <=> LocalInv'
<1>1. /\ IsLeader(p) /\ Begun(p, k) /\ ~ Past(p, k) /\ (k = "utf" => ~ shm_usd[p])
      /\ \A L, l : In(p, L, l) <=> pc[p] \in L /\ l = k
      /\ \A q \in Procs : place[q] = place[p] => shmid[q][k] = NoSeg
  BY CreateFacts
<1>2. /\ ip'[p] = ip[p] /\ pc'[p] = "publish" /\ Kind(p)' = k
      /\ \A l : Begun(p, l)' <=> Begun(p, l)
      /\ \A L, l : In(p, L, l)' <=> "publish" \in L /\ l = k
  BY StayFacts
<1>3. /\ shmid'[p][k] = i /\ \A l \in Kinds : l # k => shmid'[p][l] = shmid[p][l]
      /\ i # NoSeg
  <2>1. shmid \in [Procs -> [Kinds -> Nat]]
    BY DEF ShmInv, LocalInv, StartType
  <2> QED BY <2>1 DEF NoSeg
<1>4. \A q \in Procs : q # p => shmid'[q] = shmid[q]
  BY OthersSame
<1>5. place' = place /\ Program' = Program /\ job' = job
  BY OthersSame
<1>6. \A q \in Procs : \A l \in Kinds : shmid[q][l] # NoSeg => shmid[q][l] \in DOMAIN seg
  BY DEF ShmInv, Held, HeldOf
<1>7. \A l \in Kinds : (Past(p, l)' <=> Past(p, l)) /\ ~ In(p, {"gather"}, l)
                       /\ ~ In(p, {"gather"}, l)' /\ ~ Holding(p, l)
                       /\ (Holding(p, l)' <=> l = k)
  BY <1>1, <1>2 DEF Past, Holding
<1>8. kvs' = kvs /\ UNCHANGED <<peers, shm_usd>>
  OBVIOUS
<1>9. Held'
  <2>1. HeldOf(p)
    BY DEF ShmInv, Held
  <2>2. ASSUME NEW l \in Kinds, shmid'[p][l] # NoSeg
        PROVE  /\ shmid'[p][l] \in DOMAIN seg' /\ seg'[shmid'[p][l]].node = place'[p]
               /\ Begun(p, l)' /\ ~ In(p, {"create", "attach"}, l)'
    <3>1. CASE l = k
      BY <1>1, <1>2, <1>3, <1>5, <3>1
    <3>2. CASE l # k
      BY <1>2, <1>3, <1>5, <2>1, <2>2, <3>2 DEF HeldOf
    <3> QED BY <3>1, <3>2
  <2>3. ASSUME NEW l \in Kinds, Holding(p, l)' \/ In(p, {"count"}, l)'
        PROVE  shmid'[p][l] # NoSeg
    BY <1>2, <1>3, <2>3 DEF Holding
  <2>4. ASSUME shm_usd'[p], \A j \in 1 .. ip'[p] - 1 : Program'[j] # "shm_finalize"
        PROVE  shmid'[p]["usr"] # NoSeg
    <3>1. k = "usr"
      BY <1>1, <1>8, <2>4 DEF Kinds
    <3> QED BY <1>3, <3>1
  <2>5. HeldOf(p)'
    BY <1>2, <2>2, <2>3, <2>4 DEF HeldOf
  <2>6. ASSUME NEW q \in Procs, q # p, NEW l \in Kinds, shmid[q][l] # NoSeg
        PROVE  shmid[q][l] \in DOMAIN seg' /\ seg'[shmid[q][l]].node = seg[shmid[q][l]].node
    BY <1>6, <2>6
  <2> QED BY <2>5, <2>6, HeldKeeps DEF ShmInv
<1>10. Published'
  BY <1>7, <1>8, PublishedKeeps DEF ShmInv
<1>11. Counting'
  <2>1. ASSUME NEW l \in Kinds, IsLeader(p)
        PROVE  /\ Past(p, l) => Past(p, l)'
               /\ Past(p, l)' /\ ~ In(p, {"gather"}, l)' => Past(p, l) /\ ~ In(p, {"gather"}, l)
    BY <1>7
  <2> QED BY <1>1, <2>1, CountingKeeps DEF ShmInv
<1>12. Heads'
  <2>1. ASSUME NEW q \in Procs, q # p, NEW l \in Kinds, In(q, {"gather"}, l)
        PROVE  seg'[shmid[q][l]].head = seg[shmid[q][l]].head
    <3>1. shmid[q][l] \in DOMAIN seg
      BY <2>1, HoldFacts DEF Holding, In
    <3> QED BY <3>1
  <2>2. Heads /\ Begins
    BY DEF ShmInv, LocalInv
  <2> QED BY <1>1, <1>7, <2>1, <2>2, HeadsKeeps
<1>13. KeyOne'
  <2>1. ASSUME NEW j \in DOMAIN seg', j # i, seg'[j].key
        PROVE  /\ j \in DOMAIN seg /\ seg[j].key /\ seg'[j] = seg[j]
               /\ seg[j].node # place[p]
    BY <2>1 DEF Keyed
  <2> SUFFICES ASSUME NEW j \in DOMAIN seg', NEW m \in DOMAIN seg', seg'[j].key, seg'[m].key,
                      seg'[j].node = seg'[m].node
               PROVE  j = m
    BY DEF KeyOne
  <2>2. CASE j = i \/ m = i
    BY <2>1, <2>2
  <2>3. CASE j # i /\ m # i
    <3>1. /\ j \in DOMAIN seg /\ seg[j].key /\ seg'[j] = seg[j]
          /\ m \in DOMAIN seg /\ seg[m].key /\ seg'[m] = seg[m]
      BY <2>1, <2>3
    <3> QED BY <3>1 DEF ShmInv, KeyOne
  <2> QED BY <2>2, <2>3
<1>14. KeyHeld'
  <2>1. ASSUME NEW q \in Procs, q # p, NEW l \in Kinds, Holding(q, l)
        PROVE  /\ seg'[shmid[q][l]].key = seg[shmid[q][l]].key
               /\ seg'[shmid[q][l]].size = seg[shmid[q][l]].size
    <3>1. shmid[q][l] \in DOMAIN seg
      BY <2>1, HoldFacts
    <3> QED BY <3>1
  <2>2. Size(p) = IF k = "utf" THEN CqPages ELSE sz
    BY DEF Size
  <2>3. ASSUME NEW l \in Kinds, Holding(p, l)'
        PROVE  /\ seg'[shmid'[p][l]].key
               /\ seg'[shmid'[p][l]].size >= (IF l = "utf" THEN CqPages ELSE sz)
    <3>1. l = k
      BY <1>7, <2>3
    <3> QED BY <1>3, <2>2, <3>1
  <2>4. KeyHeld
    BY DEF ShmInv
  <2> QED BY <2>1, <2>3, <2>4, KeyHeldKeeps
<1>15. KeyWhy'
  <2>1. ASSUME NEW j \in DOMAIN seg', seg'[j].key
        PROVE  \/ \E l \in Kinds : Holding(p, l)' /\ shmid'[p][l] = j
               \/ /\ j \in DOMAIN seg /\ seg[j].key
                  /\ seg'[j].node = seg[j].node /\ seg'[j].by = seg[j].by
                  /\ \A l \in Kinds : shmid'[p][l] = j => shmid[p][l] = j
                  /\ place[p] = seg[j].node /\ IsLeader(p) /\ Fresh(p) => Fresh(p)'
                  /\ \A l \in Kinds : Holding(p, l) /\ shmid[p][l] = j =>
                       Holding(p, l)' /\ shmid'[p][l] = j
    <3>1. CASE j = i
      BY <1>3, <1>7, <3>1
    <3>2. CASE j # i
      <4>1. j \in DOMAIN seg /\ seg'[j] = seg[j] /\ seg[j].key /\ seg[j].node # place[p]
        BY <2>1, <3>2 DEF Keyed
      <4>2. \A l \in Kinds : shmid'[p][l] = j => shmid[p][l] = j
        BY <1>3, <3>2
      <4> QED BY <1>7, <4>1, <4>2
    <3> QED BY <3>1, <3>2
  <2> QED BY <2>1, KeyWhyKeeps DEF ShmInv
<1>16. OwnSegs'
  <2>1. ASSUME NEW q \in Procs, NEW l \in Kinds, shmid'[q][l] # NoSeg
        PROVE  i = shmid'[q][l] <=> (place[p] = place[q] /\ k = l)
    <3>1. CASE q = p /\ l = k
      BY <1>3, <3>1
    <3>2. CASE ~ (q = p /\ l = k)
      <4>1. shmid'[q][l] = shmid[q][l]
        BY <1>3, <1>4, <3>2
      <4>2. shmid[q][l] # i /\ ~ (place[p] = place[q] /\ k = l)
        BY <1>1, <2>1, <4>1
      <4> QED BY <4>1, <4>2
    <3> QED BY <3>1, <3>2
  <2> SUFFICES ASSUME NEW q \in Procs, NEW x \in Procs, NEW l \in Kinds, NEW m \in Kinds,
                      shmid'[q][l] # NoSeg, shmid'[x][m] # NoSeg
               PROVE  shmid'[q][l] = shmid'[x][m] <=> (place[q] = place[x] /\ l = m)
    BY <1>5 DEF OwnSegs
  <2>2. CASE q = p /\ l = k
    BY <1>3, <2>1, <2>2
  <2>3. CASE x = p /\ m = k
    BY <1>3, <2>1, <2>3
  <2>4. CASE ~ (q = p /\ l = k) /\ ~ (x = p /\ m = k)
    <3>1. shmid'[q][l] = shmid[q][l] /\ shmid'[x][m] = shmid[x][m]
      BY <1>3, <1>4, <2>4
    <3> QED BY <3>1 DEF ShmInv, OwnSegs
  <2> QED BY <2>2, <2>3, <2>4
<1>17. OwnStores'
  <2> SUFFICES ASSUME NEW q \in Procs, shmid'[q]["usr"] # NoSeg
               PROVE  /\ seg'[shmid'[q]["usr"]].stores \subseteq {job}
                      /\ seg'[shmid'[q]["usr"]].entries = <<>>
    BY <1>5 DEF OwnStores
  <2>1. CASE q = p /\ k = "usr"
    BY <1>3, <2>1
  <2>2. CASE ~ (q = p /\ k = "usr")
    <3>1. shmid'[q]["usr"] = shmid[q]["usr"]
      BY <1>3, <1>4, <2>2 DEF Kinds
    <3>2. shmid[q]["usr"] \in DOMAIN seg
      BY <1>6, <3>1 DEF Kinds
    <3> QED BY <3>1, <3>2 DEF ShmInv, OwnStores
  <2> QED BY <2>1, <2>2
<1>18. OwnKinds'
  <2>1. ASSUME NEW j \in DOMAIN seg'
        PROVE  \/ /\ j \in DOMAIN seg /\ seg'[j].by = seg[j].by
                  /\ seg'[j].kind = seg[j].kind /\ seg'[j].size = seg[j].size
               \/ seg'[j].by <= job /\ (seg'[j].kind = "utf" => seg'[j].size = CqPages)
    <3>1. j \in DOMAIN seg => seg'[j] = seg[j]
      OBVIOUS
    <3> QED BY <3>1
  <2> QED BY <2>1, OwnKindsKeeps DEF ShmInv
<1>19. Aborts'
  <2>1. pc'[p] # "aborted"
    BY <1>2
  <2>2. ASSUME NEW q \in Procs, q # p, pc[q] = "aborted", IsLeader(q), NEW j \in DOMAIN seg,
               seg[j].node = place[q], seg[j].key
        PROVE  /\ j \in DOMAIN seg' /\ seg'[j].key /\ seg'[j].node = seg[j].node
               /\ seg'[j].by = seg[j].by /\ seg'[j].kind = seg[j].kind
               /\ seg'[j].size = seg[j].size
    <3>1. seg'[j] = seg[j]
      OBVIOUS
    <3> QED BY <2>2, <3>1
  <2> QED BY <2>1, <2>2, AbortsKeeps DEF ShmInv
<1> QED BY <1>9, <1>10, <1>11, <1>12, <1>13, <1>14, <1>15, <1>16, <1>17, <1>18, <1>19
        DEF ShmInv

LEMMA CreateNext ==
  ASSUME ShmInv, NEW p \in Procs, Others(p), Create(p)
  PROVE  SegType' /\ (ShmInv' <=> LocalInv')
<1>0. PICK k \in Kinds : k = Kind(p)
  BY KindFacts
<1>1. pc[p] = "create" /\ UNCHANGED <<peers, shm_usd, kvs>>
  BY DEF Create
<1>2. /\ IsLeader(p) /\ Begun(p, k) /\ ~ Past(p, k) /\ (k = "utf" => ~ shm_usd[p])
      /\ \A L, l : In(p, L, l) <=> pc[p] \in L /\ l = k
      /\ Fresh(p) => k = "utf"
      /\ \A q \in Procs : place[q] = place[p] => shmid[q][k] = NoSeg
      /\ \A i \in Keyed(place[p]) : Stale(i) /\ k = "utf"
  BY <1>0, <1>1, CreateFacts
<1>3. SegType /\ StartType
  BY DEF ShmInv, LocalInv
<1>4. \A q \in Procs : \A l \in Kinds : shmid[q][l] # NoSeg => shmid[q][l] \in DOMAIN seg
  BY DEF ShmInv, Held, HeldOf
<1>5. Size(p) = (IF k = "utf" THEN CqPages ELSE sz) /\ Size(p) \in Nat
  BY <1>0, <1>3, StartAssumption DEF Size, StartType
<1>6. CASE /\ Keyed(place[p]) = {}
           /\ seg' = With(seg, FreshId, NewSeg(place[p], Kind(p), Size(p)))
           /\ shmid' = [shmid EXCEPT ![p][Kind(p)] = FreshId]
           /\ Goto(p, "publish")
  <2>1. PICK i : i = FreshId
    OBVIOUS
  <2>2. i \in Nat \ {0} /\ i \notin DOMAIN seg
    BY <1>3, <2>1, FreshFacts
  <2>3. /\ SegType' /\ DOMAIN seg' = DOMAIN seg \cup {i}
        /\ \A j \in DOMAIN seg : seg'[j] = seg[j]
        /\ seg'[i].node = place[p] /\ seg'[i].key = TRUE /\ seg'[i].size = Size(p)
        /\ seg'[i].kind = Kind(p)
        /\ seg'[i].by = job /\ seg'[i].entries = <<>> /\ seg'[i].stores = {}
    BY <1>3, <1>5, <1>6, <2>1, AddSeg
  <2>4. \A q \in Procs : \A l \in Kinds : shmid[q][l] # i
    BY <1>4, <2>2 DEF NoSeg
  <2>5. shmid' = [shmid EXCEPT ![p][k] = i] /\ Goto(p, "publish") /\ Keyed(place[p]) = {}
    BY <1>0, <1>6, <2>1
  <2>6. seg'[i].size >= Size(p) /\ (seg'[i].kind = "utf" => seg'[i].size = CqPages)
    BY <1>0, <1>5, <2>3
  <2>7. seg'[i].by <= job
    BY <1>3, <2>3, StartAssumption DEF StartType
  <2> HIDE <1>6
  <2>8. ShmInv' <=> LocalInv'
    BY <1>0, <1>1, <2>2, <2>3, <2>4, <2>5, <2>6, <2>7, TakeNext
  <2> QED BY <2>3, <2>8
<1>7. ASSUME NEW i \in Keyed(place[p]), seg[i].size >= Size(p),
             shmid' = [shmid EXCEPT ![p][Kind(p)] = i], Goto(p, "publish"), UNCHANGED seg
      PROVE  SegType' /\ (ShmInv' <=> LocalInv')
  <2>1. /\ i \in DOMAIN seg /\ i \in Nat \ {0} /\ seg[i].node = place[p] /\ seg[i].key
        /\ Stale(i) /\ k = "utf"
    BY <1>2, <1>3 DEF Keyed, SegType
  <2>2. \A q \in Procs : \A l \in Kinds : shmid[q][l] # i
    BY <2>1 DEF Stale, Attached
  <2>3. \A j \in Keyed(place[p]) : j = i
    BY <2>1 DEF Keyed, ShmInv, KeyOne
  <2>4. shmid' = [shmid EXCEPT ![p][k] = i]
    BY <1>0, <1>7
  <2>5. SegType' /\ DOMAIN seg' = DOMAIN seg \cup {i} /\ \A j \in DOMAIN seg : seg'[j] = seg[j]
    BY <1>3, <1>7, <2>1, SegSame
  <2>6. seg'[i].node = place[p] /\ seg'[i].key /\ seg'[i].size >= Size(p)
    BY <1>7, <2>1
  <2>7. ShmInv' <=> LocalInv'
    BY <1>0, <1>1, <1>7, <2>1, <2>2, <2>3, <2>4, <2>5, <2>6, TakeNext
  <2> QED BY <2>5, <2>7
<1>8. ASSUME NEW i \in Keyed(place[p]), seg[i].size < Size(p), Goto(p, "aborted"),
             UNCHANGED <<seg, shmid>>
      PROVE  SegType' /\ (ShmInv' <=> LocalInv')
  <2>1. /\ i \in DOMAIN seg /\ seg[i].node = place[p] /\ seg[i].key
        /\ Stale(i) /\ k = "utf"
    BY <1>2 DEF Keyed
  <2>2. seg[i].by < job /\ seg[i].kind = "usr" /\ seg[i].size < CqPages
    <3>1. seg[i].by < job /\ seg[i].kind \in Kinds /\ seg[i].size < CqPages
      BY <1>3, <1>5, <1>8, <2>1 DEF Stale, SegType, Segment
    <3>2. seg[i].kind # "utf"
      BY <2>1, <3>1, StartAssumption DEF ShmInv, OwnKinds
    <3> QED BY <3>1, <3>2 DEF Kinds
  <2>3. /\ ip'[p] = ip[p] /\ pc'[p] = "aborted" /\ Kind(p)' = k
        /\ \A l : Begun(p, l)' <=> Begun(p, l)
        /\ \A L, l : In(p, L, l)' <=> "aborted" \in L /\ l = k
    BY <1>0, <1>1, <1>8, StayFacts
  <2>4. SegType' /\ Leaves(p)
    BY <1>1, <1>3, <1>8, SegSame DEF Leaves
  <2>5. SameFlags(p)
    BY <1>1, <1>2, <2>1, <2>3 DEF SameFlags, Past, Holding, Fresh
  <2>6. HeldOf(p)'
    <3>1. place' = place /\ Program' = Program /\ HeldOf(p)
      BY OthersSame DEF ShmInv, Held
    <3>2. ASSUME NEW l \in Kinds, shmid'[p][l] # NoSeg
          PROVE  /\ shmid'[p][l] \in DOMAIN seg' /\ seg'[shmid'[p][l]].node = place'[p]
                 /\ Begun(p, l)' /\ ~ In(p, {"create", "attach"}, l)'
      BY <1>8, <2>3, <3>1, <3>2 DEF HeldOf
    <3>3. \A l \in Kinds : ~ Holding(p, l)' /\ ~ In(p, {"count"}, l)'
      BY <2>3 DEF Holding
    <3>4. ~ shm_usd'[p]
      BY <1>1, <1>2, <2>1
    <3> QED BY <2>3, <3>2, <3>3, <3>4 DEF HeldOf
  <2>7. OwnStores'
    <3>1. job' = job
      BY OthersSame
    <3> QED BY <1>8, <3>1 DEF ShmInv, OwnStores
  <2>8. /\ IsLeader(p) /\ Kind(p)' = "utf"
        /\ \E j \in DOMAIN seg' :
             /\ seg'[j].node = place[p] /\ seg'[j].key
             /\ seg'[j].by < job /\ seg'[j].kind = "usr" /\ seg'[j].size < CqPages
    BY <1>2, <1>8, <2>1, <2>2, <2>3
  <2>9. ShmInv' <=> LocalInv'
    BY <2>4, <2>5, <2>6, <2>7, <2>8, CalmKeeps
  <2> QED BY <2>4, <2>9
<1> QED BY <1>6, <1>7, <1>8 DEF Create

-----------------------------------------------------------------------------
(* A job starts: the segments it finds are those that a killed job left    *)
(* with the key.                                                           *)
NewJob ==
  /\ FenceType /\ fpc = PerProc("out") /\ ntimes = PerProc(0)
  /\ job \in 1 .. MaxJobs /\ place \in Places /\ sz \in UsrPages
  /\ ip = PerProc(1) /\ pc = PerProc("call")
  /\ utf_initialized = PerProc(0) /\ shm_usd = PerProc(FALSE)
  /\ peers = PerProc(NoPeers) /\ stags = PerProc({}) /\ shmid = PerProc(Unattached)
  /\ kvs = {}
  /\ SegType /\ KeyOne
  /\ \A i \in DOMAIN seg :
       seg[i].by < job /\ (seg[i].kind = "utf" => seg[i].size = CqPages)

LEMMA NewJobInv == NewJob => ShmInv
<1> SUFFICES ASSUME NewJob PROVE ShmInv
  OBVIOUS
<1>1. ASSUME NEW p \in Procs
      PROVE  /\ ip[p] = 1 /\ pc[p] = "call" /\ utf_initialized[p] = 0 /\ shm_usd[p] = FALSE
             /\ peers[p].notfirst = 0 /\ fpc[p] = "out"
             /\ \A k \in Kinds : shmid[p][k] = NoSeg
  BY DEF NewJob, PerProc, NoPeers, Unattached
<1>0. ASSUME NEW p \in Procs PROVE ip[p] = 1 /\ pc[p] = "call" /\ fpc[p] = "out"
  BY <1>1
<1>2. ASSUME NEW p \in Procs
      PROVE  /\ \A k \in Kinds : ~ Begun(p, k) /\ ~ Past(p, k) /\ ~ Counted(p, k)
             /\ Fresh(p)
  <2>1. peers[p].notfirst = 0 /\ shm_usd[p] = FALSE
    BY <1>1
  <2>2. \A k : ~ Begun(p, k)
    BY <2>1 DEF Begun
  <2> QED BY <2>2 DEF Past, Counted, Fresh
<1>3. ASSUME NEW p \in Procs
      PROVE  /\ \A k : ~ Holding(p, k) /\ ~ In(p, {"gather"}, k) /\ ~ In(p, {"count"}, k)
             /\ pc[p] \notin {"aborted", "table"}
  BY <1>1 DEF Holding, In
<1>4. StartType
  <2>1. 1 \in Nat \ {0} /\ "call" \in Labels /\ 0 \in Nat /\ NoSeg \in Nat
    BY DEF Labels, NoSeg
  <2>2. NoPeers \in [notfirst : {-1, 0, 1}, vcqhs : Seq(0 .. 5)]
    <3>1. <<>> \in Seq(0 .. 5)
      OBVIOUS
    <3> QED BY <3>1 DEF NoPeers
  <2>3. Unattached \in [Kinds -> Nat]
    BY <2>1 DEF Unattached
  <2> QED BY <2>1, <2>2, <2>3 DEF NewJob, StartType, PerProc
<1>5. Calls
  <2>1. Len(Program) \in Nat
    BY ProgramFacts DEF NewJob
  <2>2. \A p \in Procs : ip[p] <= Len(Program) + 1
    BY <1>0, <2>1
  <2> QED BY <1>0, <2>2 DEF Calls, CallsOf, Handshake, Leading, Following, InFence
<1>6. Opens
  <2>1. \A c : Before(Program, 1, c) = 0
    <3>1. \A c : Before(Program, 1, c) \in 0 .. 1 - 1
      BY BeforeNext
    <3> QED BY <3>1
  <2>2. \A p \in Procs : Opened(p) = 0
    BY <1>0, <2>1 DEF Opened
  <2>3. \A p \in Procs : utf_initialized[p] = 0
    BY <1>1
  <2> QED BY <2>2, <2>3 DEF Opens
<1>7. Begins
  <2> SUFFICES ASSUME NEW p \in Procs PROVE BeginsOf(p)
    BY DEF Begins
  <2>1. \A j \in 1 .. ip[p] - 1 : FALSE
    BY <1>0
  <2>2. /\ pc[p] = "call" /\ peers[p].notfirst = 0 /\ shm_usd[p] = FALSE
        /\ utf_initialized[p] = 0
    BY <1>1
  <2> QED BY <2>1, <2>2 DEF BeginsOf, Handshake, Leading, Following
<1>8. LocalInv
  BY <1>4, <1>5, <1>6, <1>7 DEF NewJob, LocalInv
<1>9. Held
  BY <1>1, <1>3 DEF Held, HeldOf
<1>10. Published /\ Counting /\ Heads
  <2>1. Published
    BY DEF NewJob, Published
  <2>2. Counting
    BY <1>2, <1>3 DEF Counting
  <2>3. Heads
    BY <1>3 DEF Heads
  <2> QED BY <2>1, <2>2, <2>3
<1>11. KeyOne /\ KeyHeld /\ KeyWhy
  <2>1. KeyHeld
    BY <1>3 DEF KeyHeld
  <2>2. ASSUME NEW i \in DOMAIN seg PROVE Stale(i)
    <3>1. i # NoSeg
      BY DEF NewJob, SegType, NoSeg
    <3>2. Attached(i) = {}
      BY <1>1, <3>1 DEF Attached
    <3> QED BY <1>2, <3>2 DEF NewJob, Stale
  <2> QED BY <2>1, <2>2 DEF NewJob, KeyWhy
<1>12. OwnSegs /\ OwnStores
  BY <1>1 DEF OwnSegs, OwnStores, Kinds
<1>13. OwnKinds
  <2>1. \A i \in DOMAIN seg : seg[i].by \in Nat /\ job \in Nat
    BY StartAssumption DEF NewJob, SegType, Segment
  <2> QED BY <2>1 DEF NewJob, OwnKinds
<1>14. Aborts
  BY <1>3 DEF Aborts
<1> QED BY <1>8, <1>9, <1>10, <1>11, <1>12, <1>13, <1>14 DEF ShmInv

LEMMA InitNewJob == Init => NewJob
<1> SUFFICES ASSUME Init PROVE NewJob
  OBVIOUS
<1>1. FenceType /\ fpc = PerProc("out") /\ ntimes = PerProc(0)
  <2>1. FenceInv
    BY FenceInvInit DEF Init
  <2> QED BY <2>1 DEF FenceInv, Init, FenceInit, PerProc
<1>2. job \in 1 .. MaxJobs
  BY StartAssumption DEF Init
<1>3. DOMAIN seg = {}
  BY DEF Init
<1>4. SegType /\ KeyOne
  BY <1>3, FS_EmptySet DEF SegType, KeyOne
<1> QED BY <1>1, <1>2, <1>3, <1>4 DEF Init, NewJob

LEMMA NextNewJob == FenceInv /\ ShmInv /\ NextJob => NewJob'
<1> SUFFICES ASSUME FenceInv, ShmInv, NextJob PROVE NewJob'
  OBVIOUS
<1>1. FenceType' /\ fpc' = PerProc("out") /\ ntimes' = PerProc(0)
  <2>1. FenceInv'
    BY FenceInvNext DEF Next
  <2> QED BY <2>1 DEF FenceInv, NextJob, FenceReset, PerProc
<1>2. job' \in 1 .. MaxJobs /\ job' = job + 1 /\ job \in Nat
  BY StartAssumption DEF NextJob, ShmInv, LocalInv, StartType
<1>3. /\ DOMAIN seg' = {j \in DOMAIN seg : seg[j].key}
      /\ \A j \in DOMAIN seg' : seg'[j] = seg[j]
  BY DEF NextJob
<1>4. SegType'
  <2>1. DOMAIN seg' \in SUBSET DOMAIN seg /\ SegType
    BY <1>3 DEF ShmInv, LocalInv
  <2>2. IsFiniteSet(DOMAIN seg')
    BY <2>1, FS_Subset DEF SegType
  <2> QED BY <1>3, <2>1, <2>2 DEF SegType
<1>5. KeyOne'
  <2>1. ASSUME NEW i \in DOMAIN seg', seg'[i].key
        PROVE  i \in DOMAIN seg /\ seg[i].key /\ seg'[i].node = seg[i].node
    BY <1>3, <2>1
  <2> QED BY <2>1, KeyOneKeeps DEF ShmInv
<1>6. ASSUME NEW i \in DOMAIN seg'
      PROVE  seg'[i].by < job' /\ (seg'[i].kind = "utf" => seg'[i].size = CqPages)
  <2>1. i \in DOMAIN seg /\ seg'[i] = seg[i]
    BY <1>3
  <2>2. seg[i].by <= job /\ (seg[i].kind = "utf" => seg[i].size = CqPages) /\ seg[i].by \in Nat
    BY <2>1 DEF ShmInv, OwnKinds, LocalInv, SegType, Segment
  <2> QED BY <1>2, <2>1, <2>2
<1> QED BY <1>1, <1>2, <1>4, <1>5, <1>6 DEF NextJob, NewJob

LEMMA ShmInvStep ==
  ASSUME FenceInv, ShmInv, NEW p \in Procs, Step(p), Store(p) => HeadFree
  PROVE  ShmInv'
<1>1. Others(p)
  BY StepOthers DEF ShmInv, LocalInv
<1>2. SegType' /\ (ShmInv' <=> LocalInv')
  <2>1. CASE utf_init(p) \/ PMIx_Resolve_nodes(p)
    BY <1>1, <2>1, utf_initNext
  <2>2. CASE Create(p)
    BY <1>1, <2>2, CreateNext
  <2>3. CASE Publish(p)
    BY <1>1, <2>3, PublishNext
  <2>4. CASE Gather(p)
    BY <1>1, <2>4, GatherNext
  <2>5. CASE Remove(p)
    BY <1>1, <2>5, RemoveNext
  <2>6. CASE Attach(p)
    BY <1>1, <2>6, AttachNext
  <2>7. CASE Count(p)
    BY <1>1, <2>7, CountNext
  <2>8. CASE Table(p)
    BY <1>1, <2>8, TableNext
  <2>9. CASE utf_mem_init(p) \/ utf_fence(p) \/ FenceRead(p) \/ FenceReturn(p) \/ utf_finalize(p)
    BY <1>1, <2>9, FenceNext
  <2>10. CASE utf_shm_init(p)
    BY <1>1, <2>10, utf_shm_initNext
  <2>11. CASE Store(p)
    BY <1>1, <2>11, StoreNext
  <2>12. CASE utf_shm_finalize(p) \/ Teardown(p)
    BY <1>1, <2>12, DetachNext
  <2> QED BY <2>1, <2>2, <2>3, <2>4, <2>5, <2>6, <2>7, <2>8, <2>9, <2>10, <2>11, <2>12 DEF Step
<1>3. LocalInv
  BY DEF ShmInv
<1>4. LocalInv'
  BY <1>2, <1>3, LocalNext
<1> QED BY <1>2, <1>4

LEMMA ShmInvStutter == FenceInv /\ ShmInv /\ UNCHANGED vars => ShmInv'
<1> SUFFICES ASSUME FenceInv, ShmInv, UNCHANGED vars PROVE ShmInv'
  OBVIOUS
<1>1. /\ job' = job /\ place' = place /\ sz' = sz /\ ip' = ip /\ pc' = pc
      /\ utf_initialized' = utf_initialized /\ shm_usd' = shm_usd /\ peers' = peers
      /\ stags' = stags /\ shmid' = shmid /\ seg' = seg /\ kvs' = kvs
      /\ file' = file /\ ntimes' = ntimes /\ bufp' = bufp /\ fpc' = fpc
  BY DEF vars
<1>2. Program' = Program
  BY <1>1 DEF Program
<1>3. /\ \A p : Call(p)' = Call(p) /\ Kind(p)' = Kind(p)
      /\ \A p : nd_ranks(p)' = nd_ranks(p) /\ lrank(p)' = lrank(p)
      /\ \A p : IsLeader(p)' = IsLeader(p)
  BY <1>1, <1>2 DEF Call, Kind, nd_ranks, lrank, IsLeader
<1>4. /\ \A p, k : Begun(p, k)' = Begun(p, k) /\ Past(p, k)' = Past(p, k)
      /\ \A p, k : Counted(p, k)' = Counted(p, k) /\ Holding(p, k)' = Holding(p, k)
      /\ \A p, L, k : In(p, L, k)' = In(p, L, k)
      /\ \A p : Fresh(p)' = Fresh(p)
  BY <1>1, <1>3 DEF Begun, Past, Counted, Holding, In, Fresh
<1>5. LocalInv'
  <2>1. FenceType'
    BY <1>1 DEF ShmInv, LocalInv, FenceType
  <2>2. StartType'
    BY <1>1 DEF ShmInv, LocalInv, StartType
  <2>3. SegType'
    BY <1>1 DEF ShmInv, LocalInv, SegType
  <2>4. Calls'
    BY <1>1, <1>2, <1>3 DEF ShmInv, LocalInv, Calls, CallsOf, InFence
  <2>5. Opens'
    BY <1>1, <1>2, <1>3 DEF ShmInv, LocalInv, Opens, Opened
  <2>6. Begins'
    BY <1>1, <1>2, <1>3, <1>4 DEF ShmInv, LocalInv, Begins, BeginsOf
  <2> QED BY <2>1, <2>2, <2>3, <2>4, <2>5, <2>6 DEF LocalInv
<1>6. Held' /\ Published' /\ Counting'
  <2>1. Held'
    BY <1>1, <1>2, <1>3, <1>4 DEF ShmInv, Held, HeldOf
  <2>2. Published' /\ Counting'
    BY <1>1, <1>3, <1>4 DEF ShmInv, Published, Counting
  <2> QED BY <2>1, <2>2
<1>7. Heads'
  <2>1. \A p, k : CountedOn(p, k)' = CountedOn(p, k)
    BY <1>3, <1>4 DEF CountedOn
  <2> QED BY <1>1, <1>4, <2>1 DEF ShmInv, Heads
<1>8. KeyOne' /\ KeyHeld' /\ KeyWhy'
  <2>1. KeyOne' /\ KeyHeld'
    BY <1>1, <1>4 DEF ShmInv, KeyOne, KeyHeld
  <2>2. \A i : Stale(i)' <=> Stale(i)
    BY <1>1, <1>3, <1>4 DEF Stale, Attached
  <2> QED BY <1>1, <1>4, <2>1, <2>2 DEF ShmInv, KeyWhy
<1>9. OwnSegs' /\ OwnStores' /\ OwnKinds' /\ Aborts'
  BY <1>1, <1>3 DEF ShmInv, OwnSegs, OwnStores, OwnKinds, Aborts
<1> QED BY <1>5, <1>6, <1>7, <1>8, <1>9 DEF ShmInv

-----------------------------------------------------------------------------
(* Which fences a process has passed follows from its place.               *)

(* the calls of a program with a fence: those of utf_init that find the    *)
(* library not in use, among them, and of utf_finalize that leave it so    *)
Inited(i) == \E j \in 1 .. i - 1 : Program[j] = "init"
LastAt(i) ==
  /\ Program[i] = "finalize"
  /\ Before(Program, i, "init") = Before(Program, i, "finalize") + 1
FenceAt(i) ==
  \/ Program[i] = "fence" \/ LastAt(i)
  \/ Program[i] = "init" /\ Before(Program, i, "init") = Before(Program, i, "finalize")
FencesBefore(i) == Cardinality({j \in 1 .. i - 1 : FenceAt(j)})

(* p is in its first call of utf_get_peers                                 *)
Starting(p) == In(p, Handshake \cup {"table", "aborted"}, "utf")

(* which fences p has passed, and where it may be in the others            *)
PassedOf(p) ==
  /\ ntimes[p] = FencesBefore(ip[p]) + (IF pc[p] = "teardown" THEN 1 ELSE 0)
  /\ pc[p] \in {"mem", "fence", "teardown"} => FenceAt(ip[p])
  /\ Starting(p) => ~ Inited(ip[p])
Passed == \A p \in Procs : PassedOf(p)

(* Counting the fences of a program.                                       *)
LEMMA FencesNext ==
  ASSUME NEW i \in Nat \ {0}
  PROVE  /\ FencesBefore(i) \in Nat
         /\ FencesBefore(i + 1) = FencesBefore(i) + (IF FenceAt(i) THEN 1 ELSE 0)
<1> DEFINE A == {j \in 1 .. i - 1 : FenceAt(j)}
           B == {j \in 1 .. (i + 1) - 1 : FenceAt(j)}
<1>1. IsFiniteSet(1 .. i - 1) /\ A \in SUBSET (1 .. i - 1)
  BY FS_Interval
<1>2. IsFiniteSet(A)
  BY <1>1, FS_Subset
<1>3. Cardinality(A) \in Nat
  BY <1>2, FS_CardinalityType
<1>4. B = IF FenceAt(i) THEN A \cup {i} ELSE A
  OBVIOUS
<1>5. i \notin A
  OBVIOUS
<1>6. FencesBefore(i) = Cardinality(A) /\ FencesBefore(i + 1) = Cardinality(B)
  BY DEF FencesBefore
<1> HIDE DEF A, B
<1>7. Cardinality(A \cup {i}) = Cardinality(A) + 1
  BY <1>2, <1>5, FS_AddElement
<1> QED BY <1>3, <1>4, <1>6, <1>7

LEMMA FencesGrow ==
  ASSUME NEW i \in Nat \ {0}, NEW j \in Nat \ {0}, i <= j
  PROVE  FencesBefore(i) <= FencesBefore(j)
<1> DEFINE A == {k \in 1 .. i - 1 : FenceAt(k)}
           B == {k \in 1 .. j - 1 : FenceAt(k)}
<1>1. IsFiniteSet(1 .. j - 1) /\ B \in SUBSET (1 .. j - 1) /\ A \in SUBSET B
  BY FS_Interval
<1>2. IsFiniteSet(B)
  BY <1>1, FS_Subset
<1>3. Cardinality(A) <= Cardinality(B)
  BY <1>1, <1>2, FS_Subset
<1> QED BY <1>3 DEF FencesBefore

(* what is there before a place is there before a later one                *)
LEMMA BeforeGrows ==
  ASSUME NEW s, NEW c, NEW i \in Nat \ {0}, NEW j \in Nat \ {0}, i <= j
  PROVE  /\ Before(s, i, c) <= Before(s, j, c)
         /\ (\A k \in i .. j - 1 : s[k] # c) => Before(s, i, c) = Before(s, j, c)
         /\ Before(s, i, c) \in Nat /\ Before(s, j, c) \in Nat
         /\ Before(s, i, c) > 0 <=> \E k \in 1 .. i - 1 : s[k] = c
<1> DEFINE A == {k \in 1 .. i - 1 : s[k] = c}
           B == {k \in 1 .. j - 1 : s[k] = c}
<1>1. IsFiniteSet(1 .. j - 1) /\ B \in SUBSET (1 .. j - 1) /\ A \in SUBSET B
  BY FS_Interval
<1>2. IsFiniteSet(B)
  BY <1>1, FS_Subset
<1>3. IsFiniteSet(A) /\ Cardinality(A) <= Cardinality(B)
  BY <1>1, <1>2, FS_Subset
<1>4. (\A k \in i .. j - 1 : s[k] # c) => A = B
  OBVIOUS
<1>5. Cardinality(A) \in Nat /\ Cardinality(B) \in Nat
  BY <1>2, <1>3, FS_CardinalityType
<1>6. Cardinality(A) > 0 <=> A # {}
  BY <1>3, <1>5, FS_EmptySet
<1>7. A # {} <=> \E k \in 1 .. i - 1 : s[k] = c
  OBVIOUS
<1> HIDE DEF A, B
<1>8. Before(s, i, c) = Cardinality(A) /\ Before(s, j, c) = Cardinality(B)
  BY DEF Before, A, B
<1> QED BY <1>3, <1>4, <1>5, <1>6, <1>7, <1>8

(* The program of a job is the same for all its steps.                     *)
LEMMA SameProgram ==
  ASSUME Program' = Program
  PROVE  \A i : /\ Inited(i)' = Inited(i) /\ LastAt(i)' = LastAt(i) /\ FenceAt(i)' = FenceAt(i)
                /\ FencesBefore(i)' = FencesBefore(i)
<1>1. \A i : Inited(i)' = Inited(i) /\ LastAt(i)' = LastAt(i)
  BY DEF Inited, LastAt, Before
<1>2. \A i : FenceAt(i)' = FenceAt(i)
  BY <1>1 DEF FenceAt, Before
<1> QED BY <1>1, <1>2 DEF FencesBefore

LEMMA AtPlace ==
  ASSUME Program' = Program, NEW p \in Procs
  PROVE  /\ Inited(ip[p])' = Inited(ip'[p]) /\ FenceAt(ip[p])' = FenceAt(ip'[p])
         /\ FencesBefore(ip[p])' = FencesBefore(ip'[p])
<1>1. Inited(ip[p])' = Inited(ip'[p])
  BY DEF Inited
<1>2. LastAt(ip[p])' = LastAt(ip'[p])
  BY DEF LastAt, Before
<1>3. FenceAt(ip[p])' = FenceAt(ip'[p])
  BY <1>2 DEF FenceAt, Before
<1>4. \A i : FenceAt(i)' = FenceAt(i)
  BY SameProgram
<1>5. FencesBefore(ip[p])' = FencesBefore(ip'[p])
  BY <1>4 DEF FencesBefore
<1> QED BY <1>1, <1>3, <1>5

(* What a step of p leaves to the others.                                  *)
Rest(p) == \A q \in Procs : q # p => ntimes'[q] = ntimes[q] /\ stags'[q] = stags[q]

LEMMA StepRest ==
  ASSUME FenceType, StartType, NEW p \in Procs, Step(p)
  PROVE  Rest(p)
<1>1. ntimes \in [Procs -> Nat] /\ stags \in [Procs -> SUBSET Tags]
  BY DEF FenceType, StartType
<1>2. ntimes' = ntimes \/ Pass(p)
  <2>1. CASE utf_mem_init(p) \/ utf_fence(p) \/ utf_finalize(p)
    BY <2>1 DEF utf_mem_init, utf_fence, utf_finalize, FenceEnter, fenceVars
  <2>2. CASE FenceRead(p) \/ FenceReturn(p)
    BY <2>2 DEF FenceRead, FenceReturn, UpdateRead, UpdateWrite, Peek
  <2>3. CASE ~ (utf_mem_init(p) \/ utf_fence(p) \/ utf_finalize(p) \/ FenceRead(p) \/ FenceReturn(p))
    BY <2>3 DEF Step, utf_init, PMIx_Resolve_nodes, Create, Publish, Gather, Remove, Attach, Count,
       Table, utf_shm_init, Store, utf_shm_finalize, Teardown, fenceVars
  <2> QED BY <2>1, <2>2, <2>3
<1>3. \E t : stags' = stags \/ stags' = [stags EXCEPT ![p] = t]
  <2>1. CASE utf_mem_init(p) \/ Teardown(p)
    BY <2>1 DEF utf_mem_init, Teardown
  <2>2. CASE ~ (utf_mem_init(p) \/ Teardown(p))
    BY <2>2 DEF Step, utf_init, PMIx_Resolve_nodes, Create, Publish, Gather, Remove, Attach, Count,
       Table, utf_shm_init, Store, utf_shm_finalize, utf_fence, utf_finalize, FenceRead, FenceReturn
  <2> QED BY <2>1, <2>2
<1>4. \A q \in Procs : q # p => ntimes'[q] = ntimes[q]
  BY <1>1, <1>2 DEF Pass
<1>5. \A q \in Procs : q # p => stags'[q] = stags[q]
  BY <1>1, <1>3
<1> QED BY <1>4, <1>5 DEF Rest

LEMMA PassedKeeps ==
  ASSUME Passed, NEW p \in Procs, Others(p), Rest(p), PassedOf(p)'
  PROVE  Passed'
<1> SUFFICES ASSUME NEW q \in Procs, q # p PROVE PassedOf(q)'
  BY DEF Passed
<1>1. /\ Program' = Program /\ pc'[q] = pc[q] /\ Kind(q)' = Kind(q) /\ ip'[q] = ip[q]
      /\ ntimes'[q] = ntimes[q]
  BY OthersSame DEF Others, Rest
<1>2. PassedOf(q)
  BY DEF Passed
<1>3. /\ FenceAt(ip[q])' = FenceAt(ip[q]) /\ Inited(ip[q])' = Inited(ip[q])
      /\ FencesBefore(ip[q])' = FencesBefore(ip[q]) /\ Starting(q)' = Starting(q)
  <2>1. Starting(q)' = Starting(q)
    BY <1>1 DEF Starting, In
  <2> QED BY <1>1, <2>1, AtPlace
<1> QED BY <1>1, <1>2, <1>3 DEF PassedOf

(* the fences of the call p is at                                          *)
LEMMA CallFences ==
  ASSUME NEW p \in Procs
  PROVE  /\ Call(p) = "fence" => FenceAt(ip[p])
         /\ Call(p) = "init" =>
              (FenceAt(ip[p]) <=>
                 Before(Program, ip[p], "init") = Before(Program, ip[p], "finalize"))
         /\ Call(p) = "finalize" => (FenceAt(ip[p]) <=> LastAt(ip[p]))
         /\ LastAt(ip[p]) => Call(p) = "finalize"
         /\ Call(p) \notin {"fence", "init", "finalize"} => ~ FenceAt(ip[p])
BY DEF Call, FenceAt, LastAt

LEMMA AtFences ==
  ASSUME LocalInv, NEW p \in Procs, pc[p] = "call", ip[p] <= Len(Program)
  PROVE  /\ Call(p) = "init" => (utf_initialized[p] > 0 <=> ~ FenceAt(ip[p]))
         /\ Call(p) = "finalize" =>
              utf_initialized[p] \in Nat \ {0} /\ (LastAt(ip[p]) <=> utf_initialized[p] = 1)
<1>1. /\ ip[p] \in Nat \ {0} /\ ip[p] \in 1 .. Len(Program) /\ job \in 1 .. MaxJobs
      /\ utf_initialized[p] \in Nat
  BY ProgramFacts DEF LocalInv, StartType
<1>2. Before(Program, ip[p], "init") \in Nat /\ Before(Program, ip[p], "finalize") \in Nat
  BY <1>1, BeforeGrows
<1>3. utf_initialized[p] = Before(Program, ip[p], "init") - Before(Program, ip[p], "finalize")
  BY <1>2 DEF LocalInv, Opens, Opened
<1>4. ASSUME Call(p) = "init" PROVE utf_initialized[p] > 0 <=> ~ FenceAt(ip[p])
  BY <1>1, <1>2, <1>3, <1>4, CallFences
<1>5. ASSUME Call(p) = "finalize"
      PROVE  utf_initialized[p] \in Nat \ {0} /\ (LastAt(ip[p]) <=> utf_initialized[p] = 1)
  <2>1. Before(Program, ip[p], "finalize") < Before(Program, ip[p], "init")
    BY <1>1, <1>5, ProgramFacts DEF Call
  <2> QED BY <1>2, <1>3, <1>5, <2>1 DEF LastAt, Call
<1> QED BY <1>4, <1>5

(* the first utf_init has a fence                                          *)
LEMMA FirstInit ==
  ASSUME job \in 1 .. MaxJobs, NEW i \in 1 .. Len(Program), Program[i] = "init", ~ Inited(i)
  PROVE  FenceAt(i)
<1>1. Len(Program) \in Nat /\ i \in Nat \ {0}
  BY ProgramFacts
<1>2. Before(Program, i, "init") = 0
  BY <1>1, BeforeGrows DEF Inited
<1>3. ASSUME NEW k \in 1 .. i - 1, Program[k] = "finalize" PROVE FALSE
  <2>1. k \in 1 .. Len(Program) /\ k \in Nat \ {0}
    BY <1>1
  <2>2. Before(Program, k, "finalize") < Before(Program, k, "init")
    BY <1>3, <2>1, ProgramFacts
  <2>3. Before(Program, k, "init") \in Nat /\ Before(Program, k, "finalize") \in Nat
    BY <2>1, BeforeGrows
  <2>4. Before(Program, k, "init") > 0
    BY <2>2, <2>3
  <2>5. \E j \in 1 .. k - 1 : Program[j] = "init"
    BY <2>1, <2>4, BeforeGrows
  <2>6. 1 .. k - 1 \subseteq 1 .. i - 1
    BY <1>1
  <2> QED BY <2>5, <2>6 DEF Inited
<1>4. Before(Program, i, "finalize") = 0
  BY <1>1, <1>3, BeforeGrows
<1> QED BY <1>2, <1>4 DEF FenceAt

-----------------------------------------------------------------------------
(* The fences p has passed.                                                *)
LEMMA StayPassed ==
  ASSUME NEW p \in Procs, Others(p), PassedOf(p), ip'[p] = ip[p], ntimes'[p] = ntimes[p],
         pc[p] # "teardown", pc'[p] # "teardown",
         pc'[p] \in {"mem", "fence"} => FenceAt(ip[p]),
         Starting(p)' => ~ Inited(ip[p])
  PROVE  PassedOf(p)'
<1>1. Program' = Program
  BY OthersSame
<1>2. /\ Inited(ip[p])' = Inited(ip[p]) /\ FenceAt(ip[p])' = FenceAt(ip[p])
      /\ FencesBefore(ip[p])' = FencesBefore(ip[p])
  BY <1>1, AtPlace
<1> QED BY <1>2 DEF PassedOf

LEMMA ReturnPassed ==
  ASSUME StartType, NEW p \in Procs, Others(p), Return(p),
         ntimes'[p] = FencesBefore(ip[p]) + (IF FenceAt(ip[p]) THEN 1 ELSE 0)
  PROVE  PassedOf(p)'
<1>1. Program' = Program
  BY OthersSame
<1>2. ip'[p] = ip[p] + 1 /\ pc'[p] \in {"call", "end"} /\ ip[p] \in Nat \ {0}
  BY DEF StartType, Return
<1>3. FencesBefore(ip[p])' = FencesBefore(ip[p] + 1)
  BY <1>1, <1>2, AtPlace
<1>4. ntimes'[p] = FencesBefore(ip[p])' /\ FencesBefore(ip[p])' \in Nat
  <2>1. ip[p] + 1 \in Nat \ {0}
    BY <1>2
  <2>2. FencesBefore(ip[p] + 1) \in Nat
    BY <2>1, FencesNext
  <2> QED BY <1>2, <1>3, <2>2, FencesNext
<1>5. ~ Starting(p)'
  BY <1>2 DEF Starting, In, Handshake, Leading, Following
<1>6. (IF pc'[p] = "teardown" THEN 1 ELSE 0) = 0 /\ pc'[p] \notin {"mem", "fence", "teardown"}
  BY <1>2
<1>7. ntimes'[p] = FencesBefore(ip[p])' + (IF pc'[p] = "teardown" THEN 1 ELSE 0)
  BY <1>4, <1>6
<1> QED BY <1>5, <1>6, <1>7 DEF PassedOf

(* outside of a fence the count of fences stays                            *)
LEMMA CalmPassed ==
  ASSUME LocalInv, NEW p \in Procs, Others(p), PassedOf(p), UNCHANGED fenceVars,
         pc[p] # "teardown",
         \/ Return(p) /\ ~ FenceAt(ip[p])
         \/ \E l \in Labels \ {"call", "end", "teardown"} :
              /\ Goto(p, l) /\ (l \in {"mem", "fence"} => FenceAt(ip[p]))
              /\ Starting(p)' => ~ Inited(ip[p])
  PROVE  PassedOf(p)'
<1>1. ntimes'[p] = ntimes[p]
  BY DEF fenceVars
<1>2. CASE Return(p) /\ ~ FenceAt(ip[p])
  <2>1. ntimes[p] = FencesBefore(ip[p]) + 0
    BY DEF PassedOf
  <2> QED BY <1>1, <1>2, <2>1, ReturnPassed DEF LocalInv
<1>3. ASSUME NEW l \in Labels \ {"call", "end", "teardown"}, Goto(p, l),
             l \in {"mem", "fence"} => FenceAt(ip[p]), Starting(p)' => ~ Inited(ip[p])
      PROVE  PassedOf(p)'
  <2>1. ip'[p] = ip[p] /\ pc'[p] = l
    BY <1>3 DEF Goto, LocalInv, StartType
  <2> QED BY <1>1, <1>3, <2>1, StayPassed
<1> QED BY <1>2, <1>3

(* utf_get_peers starts the handshake in p's first call only.              *)
LEMMA FirstPeers ==
  ASSUME LocalInv, NEW p \in Procs, peers[p].notfirst = 0
  PROVE  ~ Inited(ip[p])
BY DEF LocalInv, Begins, BeginsOf, Inited

LEMMA PeersPassed ==
  ASSUME LocalInv, Passed, NEW p \in Procs, Others(p),
         utf_init(p) \/ PMIx_Resolve_nodes(p)
  PROVE  PassedOf(p)'
<1>1. PassedOf(p) /\ pc[p] = "call" /\ ip[p] <= Len(Program) /\ UNCHANGED fenceVars
  BY DEF Passed, utf_init, PMIx_Resolve_nodes, At
<1>2. ShmEntry(p) \in {"create", "attach"}
  BY DEF ShmEntry
<1>3. {"create", "attach", "aborted", "mem"} \subseteq Labels \ {"call", "end", "teardown"}
  BY DEF Labels
<1>4. ASSUME utf_peers_init(p) \/ PeersFail(p), ~ Inited(ip[p]) PROVE PassedOf(p)'
  <2>1. \E l \in {"create", "attach", "aborted"} : Goto(p, l)
    BY <1>2, <1>4 DEF utf_peers_init, PeersFail
  <2> QED BY <1>1, <1>3, <1>4, <2>1, CalmPassed
<1>5. CASE utf_init(p)
  <2>1. utf_initialized[p] > 0 <=> ~ FenceAt(ip[p])
    BY <1>1, <1>5, AtFences DEF utf_init, At
  <2>2. CASE utf_initialized[p] > 0
    <3>1. Return(p)
      BY <1>5, <2>2 DEF utf_init
    <3> QED BY <1>1, <2>1, <2>2, <3>1, CalmPassed
  <2>3. CASE ~ utf_initialized[p] > 0
    <3>1. utf_get_peers(p, Goto(p, "mem"))
      BY <1>5, <2>3 DEF utf_init
    <3>2. CASE Goto(p, "mem")
      <4>1. ~ Starting(p)'
        <5>1. pc'[p] = "mem"
          BY <3>2 DEF Goto, LocalInv, StartType
        <5> QED BY <5>1 DEF Starting, In, Handshake, Leading, Following
      <4>2. "mem" \in Labels \ {"call", "end", "teardown"}
        BY <1>3
      <4>3. FenceAt(ip[p])
        BY <2>1, <2>3
      <4> QED BY <1>1, <3>2, <4>1, <4>2, <4>3, CalmPassed
    <3> QED BY <1>4, <3>1, <3>2, FirstPeers DEF utf_get_peers
  <2> QED BY <2>2, <2>3
<1>6. CASE PMIx_Resolve_nodes(p)
  <2>1. ~ FenceAt(ip[p])
    BY <1>6, CallFences DEF PMIx_Resolve_nodes, At
  <2>2. Return(p) \/ (peers[p].notfirst = 0 /\ (utf_peers_init(p) \/ PeersFail(p)))
    BY <1>6 DEF PMIx_Resolve_nodes, utf_get_peers
  <2>3. CASE Return(p)
    BY <1>1, <2>1, <2>3, CalmPassed
  <2> QED BY <1>4, <2>2, <2>3, FirstPeers
<1> QED BY <1>5, <1>6

LEMMA HandshakePassed ==
  ASSUME LocalInv, Passed, NEW p \in Procs, Others(p),
         \/ Create(p) \/ Publish(p) \/ Gather(p) \/ Remove(p) \/ Attach(p) \/ Count(p)
         \/ Table(p)
  PROVE  PassedOf(p)'
<1>1. /\ PassedOf(p) /\ CallsOf(p) /\ pc[p] \in Handshake \cup {"table"} /\ UNCHANGED fenceVars
  BY LocalFacts
     DEF Passed, Create, Publish, Gather, Remove, Attach, Count, Table, Handshake, Leading, Following
<1>2. pc[p] # "teardown" /\ Call(p) \in {"init", "resolve", "shm_init"}
      /\ (pc[p] = "table" => Call(p) \in {"init", "resolve"})
  BY <1>1 DEF CallsOf, Handshake, Leading, Following
<1>3. \/ \E l \in {"publish", "gather", "remove", "count", "aborted"} : Goto(p, l)
      \/ Kind(p) = "utf" /\ Goto(p, "table")
      \/ Kind(p) # "utf" /\ Return(p)
      \/ pc[p] = "table" /\ Call(p) = "init" /\ Goto(p, "mem")
      \/ pc[p] = "table" /\ Call(p) # "init" /\ Return(p)
  BY DEF Create, Publish, Gather, Remove, Attach, Count, Table, ShmReturn
<1>4. {"publish", "gather", "remove", "count", "aborted", "table", "mem"}
        \subseteq Labels \ {"call", "end", "teardown"}
  BY DEF Labels
<1>5. ASSUME NEW l, Goto(p, l), Starting(p)' PROVE ~ Inited(ip[p])
  <2>1. Program' = Program /\ ip'[p] = ip[p]
    BY <1>5, OthersSame DEF Goto
  <2>2. Kind(p)' = Kind(p)
    BY <2>1 DEF Kind, Call
  <2>3. Starting(p)
    BY <1>1, <1>5, <2>2 DEF Starting, In
  <2> QED BY <1>1, <2>3 DEF PassedOf
<1>6. CASE \E l \in {"publish", "gather", "remove", "count", "aborted"} : Goto(p, l)
  <2>1. PICK l \in {"publish", "gather", "remove", "count", "aborted"} : Goto(p, l)
    BY <1>6
  <2>2. l \in Labels \ {"call", "end", "teardown"} /\ l \notin {"mem", "fence"}
    BY <1>4
  <2> QED BY <1>1, <1>2, <1>5, <2>1, <2>2, CalmPassed
<1>7. CASE Goto(p, "table")
  <2>1. "table" \in Labels \ {"call", "end", "teardown"}
    BY <1>4
  <2> QED BY <1>1, <1>2, <1>5, <1>7, <2>1, CalmPassed
<1>8. CASE Return(p) /\ (Kind(p) # "utf" \/ (pc[p] = "table" /\ Call(p) # "init"))
  <2>1. Call(p) \in {"resolve", "shm_init"}
    BY <1>2, <1>8 DEF Kind
  <2>2. ~ FenceAt(ip[p])
    BY <2>1, CallFences
  <2> QED BY <1>1, <1>2, <1>8, <2>2, CalmPassed
<1>9. CASE pc[p] = "table" /\ Call(p) = "init" /\ Goto(p, "mem")
  <2>1. Starting(p)
    BY <1>9 DEF Starting, In, Kind
  <2>2. FenceAt(ip[p])
    <3>1. job \in 1 .. MaxJobs /\ ip[p] \in Nat \ {0} /\ Len(Program) \in Nat
      BY ProgramFacts DEF LocalInv, StartType
    <3>2. ip[p] \in 1 .. Len(Program) /\ Program[ip[p]] = "init"
      BY <1>1, <1>9, <3>1 DEF CallsOf, Call
    <3>3. ~ Inited(ip[p])
      BY <1>1, <2>1 DEF PassedOf
    <3> QED BY <3>1, <3>2, <3>3, FirstInit
  <2>3. "mem" \in Labels \ {"call", "end", "teardown"}
    BY <1>4
  <2> QED BY <1>1, <1>2, <1>5, <1>9, <2>2, <2>3, CalmPassed
<1> QED BY <1>3, <1>6, <1>7, <1>8, <1>9

LEMMA FencePassed ==
  ASSUME LocalInv, Passed, NEW p \in Procs, Others(p),
         \/ utf_mem_init(p) \/ utf_fence(p) \/ FenceRead(p) \/ FenceReturn(p) \/ utf_finalize(p)
  PROVE  PassedOf(p)'
<1>1. /\ PassedOf(p) /\ CallsOf(p) /\ fpc \in [Procs -> {"out", "update", "write", "peek"}]
      /\ ntimes \in [Procs -> Nat] /\ pc \in [Procs -> Labels]
  BY LocalFacts DEF Passed, LocalInv, FenceType, StartType
<1>2. "fence" \in Labels \ {"call", "end", "teardown"}
  BY DEF Labels
<1>3. ASSUME pc'[p] = "fence" PROVE ~ Starting(p)'
  BY <1>3 DEF Starting, In, Handshake, Leading, Following
<1>4. CASE Goto(p, "fence") /\ FenceEnter(p)
  <2>1. ip'[p] = ip[p] /\ pc'[p] = "fence" /\ ntimes'[p] = ntimes[p]
    BY <1>1, <1>4 DEF Goto, FenceEnter
  <2>2. FenceAt(ip[p]) /\ pc[p] # "teardown"
    <3>1. CASE utf_mem_init(p)
      BY <1>1, <3>1 DEF PassedOf, utf_mem_init
    <3>2. CASE utf_fence(p)
      BY <3>2, CallFences DEF utf_fence, At
    <3>3. CASE utf_finalize(p)
      <4>0. pc[p] = "call" /\ ip[p] <= Len(Program) /\ Call(p) = "finalize"
        BY <3>3 DEF utf_finalize, At
      <4>1. utf_initialized[p] \in Nat \ {0} /\ (LastAt(ip[p]) <=> utf_initialized[p] = 1)
        BY <4>0, AtFences
      <4>2. ~ utf_initialized[p] > 1
        <5> SUFFICES ASSUME utf_initialized[p] > 1 PROVE FALSE
          OBVIOUS
        <5>1. Return(p)
          BY <3>3 DEF utf_finalize
        <5> QED BY <1>1, <1>4, <5>1 DEF Return, Goto
      <4> QED BY <4>0, <4>1, <4>2, CallFences
    <3>4. CASE FenceRead(p) \/ FenceReturn(p)
      BY <1>1, <1>4, <3>4
         DEF FenceRead, FenceReturn, UpdateRead, UpdateWrite, Peek, FenceEnter
    <3> QED BY <3>1, <3>2, <3>3, <3>4
  <2> QED BY <1>1, <1>3, <2>1, <2>2, StayPassed
<1>5. CASE utf_finalize(p) /\ Return(p) /\ UNCHANGED fenceVars /\ utf_initialized[p] > 1
  <2>0. pc[p] = "call" /\ ip[p] <= Len(Program) /\ Call(p) = "finalize"
    BY <1>5 DEF utf_finalize, At
  <2>1. ~ FenceAt(ip[p])
    BY <1>5, <2>0, AtFences, CallFences
  <2> QED BY <1>1, <1>5, <2>0, <2>1, CalmPassed
<1>6. CASE FenceRead(p) \/ FenceReturn(p)
  <2>1. pc[p] = "fence" /\ FenceAt(ip[p])
    <3>1. InFence(p)
      BY <1>6 DEF FenceRead, FenceReturn, UpdateRead, UpdateWrite, Peek, InFence
    <3> QED BY <1>1, <3>1 DEF CallsOf, PassedOf
  <2>2. CASE fpc'[p] # "out"
    <3>1. ip'[p] = ip[p] /\ pc'[p] = pc[p] /\ ntimes'[p] = ntimes[p]
      BY <1>1, <1>6, <2>2 DEF FenceRead, FenceReturn, UpdateRead, UpdateWrite, Peek, Pass
    <3> QED BY <1>1, <1>3, <2>1, <3>1, StayPassed
  <2>3. CASE fpc'[p] = "out"
    <3>1. FenceReturn(p) /\ ntimes'[p] = ntimes[p] + 1
      BY <1>1, <1>6, <2>3 DEF FenceRead, FenceReturn, UpdateRead, UpdateWrite, Peek, Pass
    <3>2. ntimes[p] = FencesBefore(ip[p]) + 0
      BY <1>1, <2>1 DEF PassedOf
    <3>3. ip[p] \in Nat \ {0} /\ FencesBefore(ip[p]) \in Nat
      BY FencesNext DEF LocalInv, StartType
    <3>4. ntimes'[p] = FencesBefore(ip[p]) + (IF FenceAt(ip[p]) THEN 1 ELSE 0)
      BY <2>1, <3>1, <3>2, <3>3
    <3>5. CASE Return(p)
      BY <3>4, <3>5, ReturnPassed DEF LocalInv
    <3>6. CASE Goto(p, "teardown")
      <4>1. Program' = Program /\ ip'[p] = ip[p] /\ pc'[p] = "teardown"
        BY <1>1, <3>6, OthersSame DEF Goto
      <4>2. /\ FenceAt(ip[p])' = FenceAt(ip[p])
            /\ FencesBefore(ip[p])' = FencesBefore(ip[p])
        BY <4>1, AtPlace
      <4>3. ~ Starting(p)'
        BY <4>1 DEF Starting, In, Handshake, Leading, Following
      <4> QED BY <2>1, <3>4, <4>1, <4>2, <4>3 DEF PassedOf
    <3> QED BY <2>3, <3>1, <3>5, <3>6 DEF FenceReturn
  <2> QED BY <2>2, <2>3
<1>7. \/ Goto(p, "fence") /\ FenceEnter(p)
      \/ utf_finalize(p) /\ Return(p) /\ UNCHANGED fenceVars /\ utf_initialized[p] > 1
      \/ FenceRead(p) \/ FenceReturn(p)
  BY DEF utf_mem_init, utf_fence, utf_finalize
<1> QED BY <1>4, <1>5, <1>6, <1>7

LEMMA EndPassed ==
  ASSUME LocalInv, Passed, NEW p \in Procs, Others(p),
         utf_shm_init(p) \/ Store(p) \/ utf_shm_finalize(p) \/ Teardown(p)
  PROVE  PassedOf(p)'
<1>1. PassedOf(p) /\ CallsOf(p) /\ UNCHANGED fenceVars
  BY LocalFacts DEF Passed, utf_shm_init, Store, utf_shm_finalize, Teardown
<1>2. CASE Teardown(p)
  <2>1. Return(p) /\ pc[p] = "teardown" /\ ntimes'[p] = ntimes[p]
    BY <1>1, <1>2 DEF Teardown, fenceVars
  <2>2. ntimes'[p] = FencesBefore(ip[p]) + (IF FenceAt(ip[p]) THEN 1 ELSE 0)
    BY <1>1, <2>1 DEF PassedOf
  <2> QED BY <2>1, <2>2, ReturnPassed DEF LocalInv
<1>3. CASE utf_shm_init(p) \/ Store(p) \/ utf_shm_finalize(p)
  <2>1. pc[p] = "call" /\ Call(p) \in {"shm_init", "store", "shm_finalize"}
    BY <1>3 DEF utf_shm_init, Store, utf_shm_finalize, At
  <2>2. ~ FenceAt(ip[p])
    BY <2>1, CallFences
  <2>3. Return(p) \/ (Goto(p, ShmEntry(p)) /\ Call(p) = "shm_init")
    BY <1>3 DEF utf_shm_init, Store, utf_shm_finalize, At
  <2>4. CASE Return(p)
    BY <1>1, <2>1, <2>2, <2>4, CalmPassed
  <2>5. CASE Goto(p, ShmEntry(p)) /\ Call(p) = "shm_init"
    <3>1. ShmEntry(p) \in Labels \ {"call", "end", "teardown"} /\ ShmEntry(p) \notin {"mem", "fence"}
      BY DEF ShmEntry, Labels
    <3>2. ~ Starting(p)'
      <4>1. Program' = Program /\ ip'[p] = ip[p]
        BY <2>5, OthersSame DEF Goto
      <4>2. Kind(p)' = "usr"
        BY <2>5, <4>1 DEF Kind, Call
      <4> QED BY <4>2 DEF Starting, In
    <3> QED BY <1>1, <2>1, <2>5, <3>1, <3>2, CalmPassed
  <2> QED BY <2>3, <2>4, <2>5
<1> QED BY <1>2, <1>3

LEMMA PassedNext ==
  ASSUME LocalInv, Passed, NEW p \in Procs, Step(p)
  PROVE  Passed'
<1>1. Others(p) /\ Rest(p)
  BY StepOthers, StepRest DEF LocalInv
<1>2. PassedOf(p)'
  BY <1>1, PeersPassed, HandshakePassed, FencePassed, EndPassed DEF Step
<1> QED BY <1>1, <1>2, PassedKeeps

(* A job starts with no fence passed.                                      *)
LEMMA NewJobPassed == NewJob => Passed
<1> SUFFICES ASSUME NewJob PROVE Passed
  OBVIOUS
<1>1. ASSUME NEW p \in Procs
      PROVE  /\ ip[p] = 1 /\ pc[p] = "call" /\ ntimes[p] = 0
  BY DEF NewJob, PerProc
<1>2. FencesBefore(1) = 0
  <2>1. {j \in 1 .. 1 - 1 : FenceAt(j)} = {}
    OBVIOUS
  <2> QED BY <2>1, FS_EmptySet DEF FencesBefore
<1>3. ~ Inited(1)
  BY DEF Inited
<1> QED BY <1>1, <1>2, <1>3 DEF Passed, PassedOf

LEMMA PassedStutter == Passed /\ UNCHANGED vars => Passed'
<1> SUFFICES ASSUME Passed, UNCHANGED vars, NEW p \in Procs PROVE PassedOf(p)'
  BY DEF Passed
<1>1. job' = job /\ ip' = ip /\ pc' = pc /\ ntimes' = ntimes
  BY DEF vars
<1>2. Program' = Program
  BY <1>1 DEF Program
<1>3. Kind(p)' = Kind(p)
  BY <1>1, <1>2 DEF Kind, Call
<1>4. /\ Starting(p)' = Starting(p)
      /\ Inited(ip[p])' = Inited(ip[p]) /\ FenceAt(ip[p])' = FenceAt(ip[p])
      /\ FencesBefore(ip[p])' = FencesBefore(ip[p])
  BY <1>1, <1>2, <1>3, AtPlace DEF Starting, In
<1> QED BY <1>1, <1>4 DEF Passed, PassedOf

(* where a fence has let one process go on, the others have come to it     *)
LEMMA Reach ==
  ASSUME FenceInv, ShmInv, Passed, NEW p \in Procs, NEW q \in Procs, NEW i \in Nat \ {0},
         i < ip[p], FenceAt(i)
  PROVE  ip[q] > i \/ (ip[q] = i /\ pc[q] \in {"fence", "teardown"})
<1>1. /\ ip[p] \in Nat \ {0} /\ ip[q] \in Nat \ {0} /\ i + 1 \in Nat \ {0}
      /\ ntimes[p] \in Nat /\ ntimes[q] \in Nat
  BY DEF FenceInv, FenceType, ShmInv, LocalInv, StartType
<1>2. /\ FencesBefore(ip[p]) \in Nat /\ FencesBefore(ip[q]) \in Nat /\ FencesBefore(i) \in Nat
      /\ FencesBefore(i + 1) = FencesBefore(i) + 1
  BY <1>1, FencesNext
<1>3. ntimes[p] >= FencesBefore(i) + 1
  <2>1. FencesBefore(i + 1) <= FencesBefore(ip[p])
    BY <1>1, FencesGrow
  <2>2. ntimes[p] >= FencesBefore(ip[p])
    BY <1>1, <1>2 DEF Passed, PassedOf
  <2> QED BY <1>1, <1>2, <2>1, <2>2
<1>4. Wrote(q) >= FencesBefore(i) + 1
  <2>1. ntimes[p] <= Wrote(q)
    BY DEF FenceInv, Written
  <2> QED BY <1>1, <1>2, <1>3, <2>1 DEF Wrote
<1>5. CASE pc[q] \in {"fence", "teardown"}
  <2>1. FenceAt(ip[q])
    BY <1>5 DEF Passed, PassedOf
  <2>2. FencesBefore(ip[q] + 1) = FencesBefore(ip[q]) + 1
    BY <1>1, <2>1, FencesNext
  <2>3. Wrote(q) <= FencesBefore(ip[q] + 1)
    <3>1. CASE pc[q] = "fence"
      <4>1. ntimes[q] = FencesBefore(ip[q]) + 0
        BY <3>1 DEF Passed, PassedOf
      <4> QED BY <1>1, <1>2, <2>2, <4>1 DEF Wrote
    <3>2. CASE pc[q] = "teardown"
      <4>1. ntimes[q] = FencesBefore(ip[q]) + 1
        BY <3>2 DEF Passed, PassedOf
      <4>2. fpc[q] # "peek"
        BY <3>2 DEF ShmInv, LocalInv, Calls, CallsOf, InFence
      <4> QED BY <1>1, <1>2, <2>2, <4>1, <4>2 DEF Wrote
    <3> QED BY <1>5, <3>1, <3>2
  <2>4. ~ (ip[q] < i)
    <3>1. ip[q] < i => FencesBefore(ip[q] + 1) <= FencesBefore(i)
      <4>1. ip[q] + 1 \in Nat \ {0} /\ (ip[q] < i => ip[q] + 1 <= i)
        BY <1>1
      <4> QED BY <4>1, FencesGrow
    <3>2. Wrote(q) \in Nat
      BY <1>1 DEF Wrote
    <3> QED BY <1>2, <1>4, <2>2, <2>3, <3>1, <3>2
  <2> QED BY <1>1, <1>5, <2>4
<1>6. CASE pc[q] \notin {"fence", "teardown"}
  <2>1. ntimes[q] = FencesBefore(ip[q]) + 0
    BY <1>6 DEF Passed, PassedOf
  <2>2. fpc[q] # "peek"
    BY <1>6 DEF ShmInv, LocalInv, Calls, CallsOf, InFence
  <2>3. FencesBefore(ip[q]) >= FencesBefore(i) + 1
    BY <1>1, <1>2, <1>4, <2>1, <2>2 DEF Wrote
  <2>4. ip[q] <= i => FencesBefore(ip[q]) <= FencesBefore(i)
    BY <1>1, FencesGrow
  <2> QED BY <1>1, <1>2, <2>3, <2>4
<1> QED BY <1>5, <1>6

-----------------------------------------------------------------------------
(* The programs whose stores disturb no handshake: they leave the first    *)
(* word of their memory alone, or have a fence between utf_shm_init and    *)
(* their stores.                                                           *)
StoresFenced == \A n \in 1 .. MaxJobs : LET s == Programs[n] IN
  \A i \in 1 .. Len(s) : s[i] = "store" =>
    \E j \in 1 .. i - 1 : s[j] = "fence" /\ \E k \in 1 .. j - 1 : s[k] = "shm_init"
FirstWordSafe == Words = {} \/ StoresFenced

LEMMA StoresFree ==
  ASSUME FirstWordSafe, FenceInv, ShmInv, Passed, NEW p \in Procs, Store(p)
  PROVE  HeadFree
<1> SUFFICES ASSUME StoresFenced, NEW q \in Procs PROVE ~ In(q, Handshake, "usr")
  BY DEF FirstWordSafe, HeadFree
<1>0. job \in 1 .. MaxJobs /\ ip[p] \in Nat \ {0} /\ ip[q] \in Nat \ {0}
  BY DEF ShmInv, LocalInv, StartType
<1>1. ip[p] \in 1 .. Len(Program) /\ Program[ip[p]] = "store"
  <2>1. Len(Program) \in Nat
    BY <1>0, ProgramFacts
  <2>2. ip[p] <= Len(Program) /\ Call(p) = "store"
    BY DEF Store, At
  <2> QED BY <1>0, <2>1, <2>2 DEF Call
<1>2. PICK j \in 1 .. ip[p] - 1 :
        Program[j] = "fence" /\ \E k \in 1 .. j - 1 : Program[k] = "shm_init"
  BY <1>0, <1>1 DEF StoresFenced, Program
<1>3. j \in Nat \ {0} /\ j < ip[p] /\ FenceAt(j)
  BY <1>0, <1>1, <1>2 DEF FenceAt
<1>4. ip[q] >= j
  BY <1>0, <1>3, Reach
<1>5. \E k \in 1 .. ip[q] - 1 : Program[k] = "shm_init"
  <2>1. 1 .. j - 1 \subseteq 1 .. ip[q] - 1
    BY <1>0, <1>3, <1>4
  <2> QED BY <1>2, <2>1
<1> QED BY <1>5 DEF ShmInv, LocalInv, Begins, BeginsOf

(* what a program has stored into the first word is there, and nobody      *)
(* stores into a segment that still has its key                            *)
WordInv == \A i \in DOMAIN seg :
  /\ seg[i].key => seg[i].word = NoWord
  /\ seg[i].word # NoWord => seg[i].head = seg[i].word

LEMMA WordNext ==
  ASSUME ShmInv, WordInv, NEW p \in Procs, Step(p), Store(p) => HeadFree
  PROVE  WordInv'
<1>1. SegType /\ StartType
  BY DEF ShmInv, LocalInv
<1>2. ASSUME NEW i \in DOMAIN seg, seg[i].key, Rigid, SameWords,
             \A j \in DOMAIN seg : seg'[j].key => seg[j].key,
             \A j \in DOMAIN seg : j # i => seg'[j].head = seg[j].head
      PROVE  WordInv'
  BY <1>2 DEF WordInv, Rigid, SameWords
<1>3. ASSUME \A i \in DOMAIN seg' : i \in DOMAIN seg /\ seg'[i] = seg[i]
      PROVE  WordInv'
  BY <1>3 DEF WordInv
<1>4. PICK k \in Kinds : k = Kind(p)
  BY KindFacts
<1>5. CASE Publish(p)
  <2>1. Holding(p, k) /\ seg' = [seg EXCEPT ![shmid[p][k]].head = 1]
    BY <1>4, <1>5 DEF Publish, Holding, In
  <2>2. shmid[p][k] \in DOMAIN seg /\ seg[shmid[p][k]].key /\ 1 \in Nat
    BY <2>1, HoldFacts
  <2>3. /\ Rigid /\ SameKeys /\ SameWords
        /\ \A j \in DOMAIN seg : j # shmid[p][k] => seg'[j].head = seg[j].head
    BY <1>1, <2>1, <2>2, SetHead
  <2> QED BY <1>2, <2>2, <2>3 DEF SameKeys
<1>6. CASE Remove(p)
  <2>1. /\ Holding(p, k)
        /\ seg' = [seg EXCEPT ![shmid[p][k]].head = 0, ![shmid[p][k]].key = FALSE]
    BY <1>4, <1>6 DEF Remove, Holding, In
  <2>2. shmid[p][k] \in DOMAIN seg /\ seg[shmid[p][k]].key
    BY <2>1, HoldFacts
  <2>3. /\ Rigid /\ SameWords
        /\ \A j \in DOMAIN seg : j # shmid[p][k] =>
             seg'[j].key = seg[j].key /\ seg'[j].head = seg[j].head
    BY <1>1, <2>1, <2>2, DropKey
  <2> QED BY <1>2, <2>2, <2>3
<1>7. CASE Count(p)
  <2>1. /\ In(p, {"count"}, k) /\ ~ Counted(p, k) /\ ~ IsLeader(p)
        /\ seg' = [seg EXCEPT ![shmid[p][k]].head = @ + 1]
    BY <1>4, <1>7, LocalFacts DEF ShmInv, Count, In, Counted, BeginsOf, Following
  <2>2. PICK r \in Procs : r = lrank(p) /\ place[r] = place[p]
    BY LeaderFacts
  <2>3. Holding(r, k)
    BY <2>1, <2>2 DEF ShmInv, Counting, Holding, In
  <2>4. shmid[r][k] # NoSeg /\ shmid[r][k] \in DOMAIN seg /\ seg[shmid[r][k]].key
    BY <2>3, HoldFacts
  <2>5. shmid[p][k] = shmid[r][k]
    BY <2>1, <2>2, <2>4 DEF ShmInv, Held, HeldOf, OwnSegs
  <2>6. seg[shmid[p][k]].head + 1 \in Nat
    BY <1>1, <2>4, <2>5 DEF SegType, Segment
  <2>7. seg' = [seg EXCEPT ![shmid[p][k]].head = seg[shmid[p][k]].head + 1]
    BY <2>1
  <2>8. /\ Rigid /\ SameKeys /\ SameWords
        /\ \A j \in DOMAIN seg : j # shmid[p][k] => seg'[j].head = seg[j].head
    BY <1>1, <2>4, <2>5, <2>6, <2>7, SetHead
  <2> QED BY <1>2, <2>4, <2>5, <2>8 DEF SameKeys
<1>8. CASE Table(p)
  <2>1. PICK i \in DOMAIN seg : i = shmid[p]["utf"]
    BY <1>8 DEF ShmInv, Held, HeldOf, Kinds, Table
  <2>2. PICK e : seg' = [seg EXCEPT ![i].entries = e]
    BY <1>8, <2>1 DEF Table
  <2>3. Rigid /\ SameHeads /\ SameKeys /\ SameWords
    BY <1>1, <2>2, SetEntries
  <2> QED BY <2>3 DEF WordInv, Rigid, SameHeads, SameKeys, SameWords
<1>9. CASE Create(p)
  <2>1. seg' = seg \/ seg' = With(seg, FreshId, NewSeg(place[p], Kind(p), Size(p)))
    BY <1>9 DEF Create
  <2>2. Size(p) \in Nat
    BY <1>1, KindFacts, StartAssumption DEF StartType
  <2>3. CASE seg' = With(seg, FreshId, NewSeg(place[p], Kind(p), Size(p)))
    <3>1. /\ DOMAIN seg' = DOMAIN seg \cup {FreshId} /\ seg'[FreshId].word = NoWord
          /\ \A j \in DOMAIN seg : seg'[j] = seg[j]
      BY <1>1, <2>2, <2>3, AddSeg
    <3> QED BY <3>1 DEF WordInv
  <2> QED BY <1>3, <2>1, <2>3
<1>10. CASE Store(p)
  <2>1. PICK i \in DOMAIN seg : i = shmid[p]["usr"] /\ i # NoSeg
    BY <1>10, StoreFacts
  <2>2. PICK e \in SUBSET Nat :
          \/ seg' = [seg EXCEPT ![i].stores = e]
          \/ \E w \in Words : seg' = [seg EXCEPT ![i].stores = e, ![i].head = w, ![i].word = w]
    <3>1. seg[i].stores \cup {job} \in SUBSET Nat
      BY <1>1 DEF SegType, Segment, StartType
    <3> QED BY <1>10, <2>1, <3>1 DEF Store
  <2>3. /\ Rigid /\ SameKeys /\ \A j \in DOMAIN seg : j # i => seg'[j] = seg[j]
        /\ \/ seg'[i].head = seg[i].head /\ seg'[i].word = seg[i].word
           \/ Words # {} /\ seg'[i].head = seg'[i].word
    BY <1>1, <2>2, SetStores
  <2>4. ASSUME Words # {}, seg[i].key PROVE FALSE
    <3>1. p \in Attached(i)
      BY <2>1 DEF Attached, Kinds
    <3>2. PICK q \in Procs : \E l \in Kinds : Holding(q, l) /\ shmid[q][l] = i
      BY <2>4, <3>1 DEF ShmInv, KeyWhy, Stale
    <3>3. PICK l \in Kinds : Holding(q, l) /\ shmid[q][l] = i
      BY <3>2
    <3>4. l = "usr"
      BY <2>1, <3>3 DEF ShmInv, OwnSegs, Kinds
    <3> QED BY <1>10, <2>4, <3>3, <3>4 DEF HeadFree, Holding, In, Handshake, Leading
  <2> QED BY <2>1, <2>3, <2>4 DEF WordInv, Rigid, SameKeys
<1>11. CASE utf_shm_finalize(p) \/ Teardown(p)
  <2>1. \E l \in Kinds : seg' = Detached(seg, shmid[p][l], p)
    BY <1>11 DEF utf_shm_finalize, Teardown, Kinds
  <2>2. \A l \in Kinds : shmid[p][l] \in Nat
    BY <1>1 DEF StartType
  <2> QED BY <1>1, <1>3, <2>1, <2>2, DropSeg
<1>12. CASE \/ utf_init(p) \/ PMIx_Resolve_nodes(p) \/ Gather(p) \/ Attach(p) \/ utf_mem_init(p)
            \/ utf_fence(p) \/ FenceRead(p) \/ FenceReturn(p) \/ utf_shm_init(p)
            \/ utf_finalize(p)
  <2>1. seg' = seg
    BY <1>12 DEF utf_init, PMIx_Resolve_nodes, Gather, Attach, utf_mem_init, utf_fence,
       FenceRead, FenceReturn, utf_shm_init, utf_finalize
  <2> QED BY <1>3, <2>1
<1> QED BY <1>5, <1>6, <1>7, <1>8, <1>9, <1>10, <1>11, <1>12 DEF Step

(* The strengthening and its three facts.                                  *)
LEMMA ShmInvAlways ==
  FirstWordSafe => (Spec => [](FenceInv /\ ShmInv /\ Passed /\ WordInv))
<1> DEFINE Inv == ShmInv /\ Passed /\ WordInv
<1> SUFFICES ASSUME FirstWordSafe PROVE Spec => [](FenceInv /\ Inv)
  OBVIOUS
<1>1. Init => FenceInv
  BY FenceInvInit DEF Init
<1>2. Init => Inv
  <2>1. Init => ShmInv /\ Passed
    BY InitNewJob, NewJobInv, NewJobPassed
  <2>2. Init => WordInv
    BY DEF Init, WordInv
  <2> QED BY <2>1, <2>2
<1>3. FenceInv /\ [Next]_vars => FenceInv'
  BY FenceInvNext
<1>4. NewJob => ShmInv /\ Passed
  BY NewJobInv, NewJobPassed
<1>5. FenceInv /\ Inv /\ [Next]_vars => WordInv' /\ (NewJob' \/ (ShmInv' /\ Passed'))
  <2> SUFFICES ASSUME FenceInv, Inv, [Next]_vars
               PROVE  WordInv' /\ (NewJob' \/ (ShmInv' /\ Passed'))
    OBVIOUS
  <2>1. CASE NextJob
    <3>1. \A i \in DOMAIN seg' : i \in DOMAIN seg /\ seg'[i] = seg[i]
      BY <2>1 DEF NextJob
    <3>2. WordInv'
      BY <3>1 DEF WordInv
    <3> QED BY <2>1, <3>2, NextNewJob
  <2>2. ASSUME NEW p \in Procs, Step(p) PROVE WordInv' /\ ShmInv' /\ Passed'
    <3>1. Store(p) => HeadFree
      BY StoresFree
    <3>2. Passed'
      BY <2>2, PassedNext DEF ShmInv
    <3> QED BY <2>2, <3>1, <3>2, ShmInvStep, WordNext
  <2>3. CASE UNCHANGED vars
    <3>1. WordInv'
      BY <2>3 DEF vars, WordInv
    <3> QED BY <2>3, <3>1, ShmInvStutter, PassedStutter
  <2> QED BY <2>1, <2>2, <2>3 DEF Next
<1> HIDE DEF Inv
<1>6. FenceInv /\ Inv /\ [Next]_vars => FenceInv' /\ ((NewJob' /\ WordInv') \/ Inv')
  BY <1>3, <1>5 DEF Inv
<1>7. NewJob /\ WordInv => Inv
  BY <1>4 DEF Inv
<1> QED BY <1>1, <1>2, <1>6, <1>7, PTL DEF Spec

LEMMA ShmInvTypes ==
  ASSUME ShmInv
  PROVE  TypeOK
<1>1. /\ job \in 1 .. MaxJobs /\ place \in Places /\ sz \in UsrPages /\ FenceType
      /\ ip \in [Procs -> Nat \ {0}] /\ pc \in [Procs -> Labels]
      /\ utf_initialized \in [Procs -> Nat]
      /\ shm_usd \in [Procs -> BOOLEAN]
      /\ peers \in [Procs -> [notfirst : {-1, 0, 1}, vcqhs : Seq(0 .. 5)]]
      /\ stags \in [Procs -> SUBSET Tags]
  BY DEF ShmInv, LocalInv, StartType
<1>2. Len(Program) \in Nat
  BY <1>1, ProgramFacts
<1>3. ASSUME NEW p \in Procs
      PROVE  ip[p] \in 1 .. Len(Program) + 1 /\ utf_initialized[p] \in 0 .. Len(Program)
  <2>1. ip[p] \in Nat \ {0} /\ utf_initialized[p] \in Nat
    BY <1>1
  <2>2. /\ ip[p] <= Len(Program) + 1 /\ (pc[p] \notin {"call", "end"} => ip[p] <= Len(Program))
        /\ utf_initialized[p] = Opened(p)
    BY DEF ShmInv, LocalInv, Calls, CallsOf, Opens
  <2>3. /\ Before(Program, ip[p], "init") \in 0 .. ip[p] - 1
        /\ Before(Program, ip[p], "finalize") \in 0 .. ip[p] - 1
    BY <2>1, BeforeNext
  <2>4. Opened(p) <= Len(Program)
    <3>1. CASE pc[p] \in {"call", "end"}
      <4>1. Opened(p) = Before(Program, ip[p], "init") - Before(Program, ip[p], "finalize")
        BY <2>3, <3>1 DEF Opened
      <4> QED BY <1>2, <2>1, <2>2, <2>3, <4>1
    <3>2. CASE pc[p] \notin {"call", "end"}
      <4>1. Opened(p) = Before(Program, ip[p], "init") - Before(Program, ip[p], "finalize")
                          + Balance(Call(p))
        BY <2>3, <3>2 DEF Opened
      <4>2. Balance(Call(p)) \in {-1, 0, 1}
        BY DEF Balance
      <4>3. ip[p] <= Len(Program)
        BY <2>2, <3>2
      <4> QED BY <1>2, <2>1, <2>3, <4>1, <4>2, <4>3
    <3> QED BY <3>1, <3>2
  <2> QED BY <1>2, <2>1, <2>2, <2>4
<1>4. ip \in [Procs -> 1 .. Len(Program) + 1] /\ utf_initialized \in [Procs -> 0 .. Len(Program)]
  BY <1>1, <1>3
<1>5. \A p \in Procs : \A k \in Kinds : shmid[p][k] \in {NoSeg} \cup DOMAIN seg
  BY DEF ShmInv, Held, HeldOf
<1>6. \A p \in Procs : InFence(p) <=> pc[p] = "fence"
  BY DEF ShmInv, LocalInv, Calls, CallsOf
<1>7. ASSUME NEW n \in Nodes PROVE Cardinality(Keyed(n)) <= 1
  <2>1. \A i, j \in Keyed(n) : i = j
    BY DEF Keyed, ShmInv, KeyOne
  <2>2. CASE Keyed(n) = {}
    BY <2>2, FS_EmptySet
  <2>3. CASE Keyed(n) # {}
    <3>1. PICK i : i \in Keyed(n)
      BY <2>3
    <3>2. Keyed(n) = {i}
      BY <2>1, <3>1
    <3>3. Cardinality({i}) = 1
      BY FS_Singleton
    <3> QED BY <3>2, <3>3
  <2> QED BY <2>2, <2>3
<1> QED BY <1>1, <1>4, <1>5, <1>6, <1>7 DEF TypeOK

(* utf_shm_init_internal gives all processes of a node the same segment of *)
(* a kind, and another one to each other node and kind, although all keys  *)
(* are equal; the user's holds nothing an earlier job has left, and what a *)
(* program has stored into its first word the counting of processes, which *)
(* uses that word, does not change: for any number of nodes, processes and *)
(* jobs, each killed anywhere.                                             *)
THEOREM SegmentsShared == FirstWordSafe => (Spec => []SameSegment)
<1> SUFFICES ASSUME FirstWordSafe PROVE Spec => []SameSegment
  OBVIOUS
<1>1. ShmInv /\ WordInv => SameSegment
  <2> SUFFICES ASSUME ShmInv, WordInv PROVE SameSegment
    OBVIOUS
  <2>1. OwnSegs /\ OwnStores /\ TypeOK
    BY ShmInvTypes DEF ShmInv
  <2>2. \A p \in Procs : shmid[p]["usr"] # NoSeg => shmid[p]["usr"] \in DOMAIN seg
    BY DEF ShmInv, Held, HeldOf, Kinds
  <2> QED BY <2>1, <2>2 DEF SameSegment, OwnSegs, OwnStores, WordInv
<1> QED BY <1>1, ShmInvAlways, PTL

(* In programs that leave the handshake alone, a process whose PMIx works  *)
(* dies in it only on a node that has kept the user's segment of a job     *)
(* killed earlier, smaller than the table of queues: shmget of a process   *)
(* that is not the leader finds its node's segment, large enough, whenever *)
(* it is called.                                                           *)
THEOREM OnlyLeftoversAbort == FirstWordSafe => (Spec => []NoAbort)
<1> SUFFICES ASSUME FirstWordSafe PROVE Spec => []NoAbort
  OBVIOUS
<1>1. ShmInv => NoAbort
  BY DEF ShmInv, Aborts, NoAbort, Keyed
<1> QED BY <1>1, ShmInvAlways, PTL

(* In such programs the leader removes the key only when all processes of  *)
(* its node have attached and counted themselves, as it means to.          *)
THEOREM LeadersWait == FirstWordSafe => (Spec => []LeaderWaits)
<1> SUFFICES ASSUME FirstWordSafe PROVE Spec => []LeaderWaits
  OBVIOUS
<1>1. ShmInv => LeaderWaits
  <2> SUFFICES ASSUME ShmInv, NEW p \in Procs, pc[p] = "remove", Kind(p) = "usr",
                      NEW q \in nd_ranks(p)
               PROVE  shm_usd[q] /\ pc[q] \notin {"attach", "count"}
    BY DEF LeaderWaits
  <2>1. /\ IsLeader(p) /\ shm_usd[p] /\ Past(p, "usr") /\ ~ In(p, {"gather"}, "usr")
        /\ q \in Procs
    BY HandFacts DEF Handshake, Leading, Past, Begun, In, nd_ranks
  <2>2. CASE q # p
    <3>1. ~ IsLeader(q) /\ lrank(q) = p
      BY <2>1, <2>2, NodeFacts
    <3>2. Counted(q, "usr")
      BY <2>1, <3>1 DEF ShmInv, Counting, Kinds
    <3>3. shm_usd[q] /\ ~ In(q, {"attach", "count"}, "usr")
      BY <3>2 DEF Counted, Begun
    <3>4. ~ In(q, {"attach", "count"}, "utf")
      BY <2>1, <3>3 DEF ShmInv, LocalInv, Begins, BeginsOf, In, Handshake, Following
    <3> QED BY <2>1, <3>3, <3>4, KindFacts DEF In, Kinds
  <2> QED BY <2>1, <2>2
<1> QED BY <1>1, ShmInvAlways, PTL

-----------------------------------------------------------------------------
(* What utf_init leaves for the others to find.                            *)

(* p has torn down                                                         *)
Torn(p) == \E j \in 1 .. ip[p] - 1 : LastAt(j)

(* p's memory is registered                                                *)
MemDone(p) == Inited(ip[p]) \/ (pc[p] = "fence" /\ Call(p) = "init")
(* p's entry of the table of its node                                      *)
EntryOf(p) ==
  LET tab == seg[shmid[p]["utf"]].entries
  IN  mynrnk(p) \in DOMAIN tab /\ tab[mynrnk(p)] = tinfo(p)

ReadyOf(p) == ~ Torn(p) =>
  /\ Begun(p, "utf") => peers[p].vcqhs = tniids(p)
  /\ MemDone(p) => stags[p] = Tags
  /\ Begun(p, "utf") /\ ~ Starting(p) => shmid[p]["utf"] # NoSeg /\ EntryOf(p)
Ready == \A p \in Procs : ReadyOf(p)

(* ranks within nodes and queues are the job's                             *)
LEMMA SameQueues ==
  ASSUME NEW p \in Procs, Others(p)
  PROVE  \A q \in Procs : mynrnk(q)' = mynrnk(q) /\ tniids(q)' = tniids(q)
<1>1. \A q \in Procs : nd_ranks(q)' = nd_ranks(q) /\ myppn(q)' = myppn(q)
  BY OthersSame
<1>2. \A q \in Procs : mynrnk(q)' = mynrnk(q)
  BY <1>1 DEF mynrnk
<1>3. MaxPpn' = MaxPpn
  BY <1>1 DEF MaxPpn
<1>4. \A q \in Procs : tniq(q)' = tniq(q)
  BY <1>2, <1>3 DEF tniq
<1>5. \A q \in Procs : tniids(q)' = tniids(q)
  BY <1>4 DEF tniids
<1> QED BY <1>2, <1>5

(* the entry of q in the table of its node stays                           *)
EntryKept(q) ==
  shmid[q]["utf"] # NoSeg /\ EntryOf(q) =>
    /\ mynrnk(q) \in DOMAIN seg'[shmid[q]["utf"]].entries
    /\ seg'[shmid[q]["utf"]].entries[mynrnk(q)] = seg[shmid[q]["utf"]].entries[mynrnk(q)]

LEMMA ReadyKeeps ==
  ASSUME Ready, NEW p \in Procs, Others(p), Rest(p), ReadyOf(p)',
         \A q \in Procs : q # p => EntryKept(q)
  PROVE  Ready'
<1> SUFFICES ASSUME NEW q \in Procs, q # p PROVE ReadyOf(q)'
  BY DEF Ready
<1>1. /\ Program' = Program /\ pc'[q] = pc[q] /\ Kind(q)' = Kind(q) /\ ip'[q] = ip[q]
      /\ stags'[q] = stags[q] /\ peers'[q] = peers[q] /\ shmid'[q] = shmid[q]
      /\ Call(q)' = Call(q) /\ job' = job /\ EntryKept(q)
  BY OthersSame DEF Others, Rest
<1>2. \A i : Inited(i)' = Inited(i) /\ LastAt(i)' = LastAt(i)
  BY <1>1, SameProgram
<1>3. ReadyOf(q)
  BY DEF Ready
<1>4. mynrnk(q)' = mynrnk(q) /\ tniids(q)' = tniids(q) /\ tinfo(q)' = tinfo(q)
  BY <1>1, SameQueues DEF tinfo
<1>5. Torn(q)' = Torn(q) /\ MemDone(q)' = MemDone(q)
  <2>1. Inited(ip[q])' = Inited(ip[q])
    BY <1>1 DEF Inited
  <2> QED BY <1>1, <1>2, <2>1 DEF Torn, MemDone
<1>6. Starting(q)' = Starting(q) /\ Begun(q, "utf")' = Begun(q, "utf")
  BY <1>1 DEF Starting, In, Begun
<1>7. shmid[q]["utf"] # NoSeg /\ EntryOf(q) => EntryOf(q)'
  BY <1>1, <1>4 DEF EntryKept, EntryOf
<1> QED BY <1>1, <1>3, <1>4, <1>5, <1>6, <1>7 DEF ReadyOf

-----------------------------------------------------------------------------
(* The entries of the tables stay, but for those of a process that writes  *)
(* its own or detaches.                                                    *)
LEMMA EntriesStay ==
  ASSUME NEW q \in Procs, shmid[q]["utf"] # NoSeg =>
           seg'[shmid[q]["utf"]].entries = seg[shmid[q]["utf"]].entries
  PROVE  EntryKept(q)
BY DEF EntryKept, EntryOf

LEMMA EntriesNext ==
  ASSUME ShmInv, NEW p \in Procs, Step(p), ~ Table(p), ~ Teardown(p), NEW q \in Procs
  PROVE  EntryKept(q)
<1>1. /\ SegType /\ HeldOf(q) /\ HeldOf(p) /\ StartType
      /\ shmid[q]["utf"] # NoSeg => shmid[q]["utf"] \in DOMAIN seg
  BY DEF ShmInv, LocalInv, Held, HeldOf, Kinds
<1>2. CASE UNCHANGED seg
  BY <1>2, EntriesStay
<1>3. CASE SameMemory
  BY <1>1, <1>3, EntriesStay DEF SameMemory
<1>4. CASE Publish(p) \/ Count(p)
  <2>1. PICK k \in Kinds : k = Kind(p)
    BY KindFacts
  <2>2. shmid[p][k] # NoSeg /\ shmid[p][k] \in DOMAIN seg
    BY <1>1, <1>4, <2>1 DEF HeldOf, Holding, In, Publish, Count
  <2>3. PICK i \in DOMAIN seg : i = shmid[p][k]
    BY <2>2
  <2>4. seg[i].head \in Nat
    BY <1>1 DEF SegType, Segment
  <2>5. \E h \in Nat : seg' = [seg EXCEPT ![i].head = h]
    <3>1. \/ seg' = [seg EXCEPT ![i].head = 1]
          \/ seg' = [seg EXCEPT ![i].head = @ + 1]
      <4>1. CASE Publish(p)
        BY <4>1, <2>1, <2>3 DEF Publish
      <4>2. CASE Count(p)
        BY <4>2, <2>1, <2>3 DEF Count
      <4> QED BY <1>4, <4>1, <4>2
    <3>2. seg' = [seg EXCEPT ![i].head = @ + 1] =>
            seg' = [seg EXCEPT ![i].head = seg[i].head + 1]
      OBVIOUS
    <3>3. seg[i].head + 1 \in Nat /\ 1 \in Nat
      BY <2>4
    <3> QED BY <3>1, <3>2, <3>3
  <2>6. SameMemory
    BY <1>1, <2>5, SetHead
  <2> QED BY <1>3, <2>6
<1>5. CASE Remove(p)
  <2>1. PICK k \in Kinds : k = Kind(p)
    BY KindFacts
  <2>2. shmid[p][k] # NoSeg /\ shmid[p][k] \in DOMAIN seg
    BY <1>1, <1>5, <2>1 DEF HeldOf, Holding, In, Remove
  <2>3. PICK i \in DOMAIN seg : i = shmid[p][k]
    BY <2>2
  <2>4. seg' = [seg EXCEPT ![i].head = 0, ![i].key = FALSE]
    BY <1>5, <2>1, <2>3 DEF Remove
  <2>5. SameMemory
    BY <1>1, <2>4, DropKey
  <2> QED BY <1>3, <2>5
<1>6. CASE Create(p)
  <2>1. seg' = seg \/ seg' = With(seg, FreshId, NewSeg(place[p], Kind(p), Size(p)))
    BY <1>6 DEF Create
  <2>2. Size(p) \in Nat
    BY <1>1, KindFacts, StartAssumption DEF StartType
  <2>3. \A j \in DOMAIN seg : seg'[j] = seg[j]
    BY <1>1, <2>1, <2>2, AddSeg
  <2> QED BY <1>1, <2>3, EntriesStay
<1>7. CASE Store(p)
  <2>1. PICK i : i = shmid[p]["usr"]
    OBVIOUS
  <2>2. \/ seg' = [seg EXCEPT ![i].stores = @ \cup {job}]
        \/ \E w \in Words :
             seg' = [seg EXCEPT ![i].stores = @ \cup {job}, ![i].head = w, ![i].word = w]
    BY <1>7, <2>1 DEF Store
  <2>3. CASE i \in DOMAIN seg
    <3>1. PICK e : e = seg[i].stores \cup {job}
      OBVIOUS
    <3>2. e \in SUBSET Nat
      BY <1>1, <2>3, <3>1 DEF SegType, Segment, StartType
    <3>4. \/ seg' = [seg EXCEPT ![i].stores = e]
          \/ \E w \in Words : seg' = [seg EXCEPT ![i].stores = e, ![i].head = w, ![i].word = w]
      BY <2>2, <3>1
    <3>3. \A j \in DOMAIN seg : seg'[j].entries = seg[j].entries
      BY <1>1, <2>3, <3>2, <3>4, SetStores
    <3> QED BY <1>1, <3>3, EntriesStay
  <2>4. CASE i \notin DOMAIN seg
    <3>1. \A j \in DOMAIN seg : seg'[j] = seg[j]
      BY <2>2, <2>4
    <3> QED BY <1>1, <3>1, EntriesStay
  <2> QED BY <2>3, <2>4
<1>8. CASE utf_shm_finalize(p)
  <2>1. PICK i \in Nat : i = shmid[p]["usr"]
    BY <1>1 DEF StartType, Kinds
  <2>2. seg' = Detached(seg, i, p)
    BY <1>8, <2>1 DEF utf_shm_finalize
  <2>3. SUFFICES ASSUME shmid[q]["utf"] # NoSeg PROVE shmid[q]["utf"] \in DOMAIN seg'
    BY <1>1, <2>2, DropSeg, EntriesStay
  <2>4. SUFFICES ASSUME shmid[q]["utf"] = i, Attached(i) \subseteq {p} PROVE FALSE
    BY <1>1, <2>2, <2>3, DropSeg
  <2>5. q = p
    BY <2>4 DEF Attached, Kinds
  <2> QED BY <2>1, <2>3, <2>4, <2>5 DEF ShmInv, OwnSegs, Kinds
<1>9. CASE \/ utf_init(p) \/ PMIx_Resolve_nodes(p) \/ Gather(p) \/ Attach(p) \/ utf_mem_init(p)
           \/ utf_fence(p) \/ FenceRead(p) \/ FenceReturn(p) \/ utf_shm_init(p) \/ utf_finalize(p)
  BY <1>2, <1>9 DEF utf_init, PMIx_Resolve_nodes, Gather, Attach, utf_mem_init, utf_fence,
     FenceRead, FenceReturn, utf_shm_init, utf_finalize
<1> QED BY <1>4, <1>5, <1>6, <1>7, <1>8, <1>9 DEF Step

LEMMA RanksApart ==
  ASSUME NEW p \in Procs, NEW q \in Procs, p # q, place[p] = place[q]
  PROVE  mynrnk(p) # mynrnk(q)
<1>1. ASSUME NEW a \in Procs, NEW b \in Procs, a < b, place[a] = place[b]
      PROVE  mynrnk(a) # mynrnk(b)
  <2> DEFINE A == {x \in nd_ranks(a) : x < a}
             B == {x \in nd_ranks(b) : x < b}
  <2>1. nd_ranks(a) = nd_ranks(b) /\ a \in nd_ranks(a)
    BY <1>1 DEF nd_ranks
  <2>2. B \in SUBSET nd_ranks(b) /\ A \in SUBSET B /\ A # B
    <3>1. a \in B /\ a \notin A
      BY <1>1, <2>1, ProcsNat
    <3>2. \A x \in nd_ranks(a) : x \in Nat /\ a \in Nat /\ b \in Nat
      BY ProcsNat DEF nd_ranks
    <3>3. \A x \in nd_ranks(a) : x < a => x < b
      BY <1>1, <3>2
    <3> QED BY <2>1, <3>1, <3>3
  <2>3. IsFiniteSet(B)
    BY <2>2, NodeRanks, FS_Subset
  <2>4. Cardinality(A) # Cardinality(B)
    BY <2>2, <2>3, FS_Subset
  <2> QED BY <2>4 DEF mynrnk
<1>2. p < q \/ q < p
  BY ProcsNat
<1> QED BY <1>1, <1>2

LEMMA TableEntries ==
  ASSUME ShmInv, NEW p \in Procs, Others(p), Table(p)
  PROVE  /\ \A q \in Procs : q # p => EntryKept(q)
         /\ shmid'[p]["utf"] # NoSeg /\ EntryOf(p)'
<1>1. SegType /\ OwnSegs /\ HeldOf(p) /\ shmid' = shmid /\ peers' = peers
  BY DEF ShmInv, LocalInv, Held, Table
<1>2. PICK i \in DOMAIN seg : i = shmid[p]["utf"] /\ i # NoSeg
  BY <1>1 DEF HeldOf, Table, Kinds
<1>3. PICK n \in Nat : n = mynrnk(p)
  BY NodeRanks
<1>4. PICK e : e = With(seg[i].entries, n, tinfo(p))
  OBVIOUS
<1>5. seg' = [seg EXCEPT ![i].entries = e]
  BY <1>2, <1>3, <1>4 DEF Table
<1>6. /\ DOMAIN e = DOMAIN seg[i].entries \cup {n} /\ e[n] = tinfo(p)
      /\ \A m \in DOMAIN seg[i].entries : m # n => e[m] = seg[i].entries[m]
  BY <1>4 DEF With
<1>7. seg'[i].entries = e
  <2>1. seg[i] \in Segment(seg[i].entries)
    BY <1>1 DEF SegType
  <2> QED BY <1>5, <2>1 DEF Segment
<1>8. ASSUME NEW q \in Procs, q # p PROVE EntryKept(q)
  <2>1. CASE shmid[q]["utf"] = i
    <3>1. place[q] = place[p]
      BY <1>1, <1>2, <2>1 DEF OwnSegs, Kinds
    <3>2. mynrnk(q) # n
      BY <1>3, <1>8, <3>1, RanksApart
    <3> QED BY <1>6, <1>7, <2>1, <3>2 DEF EntryKept, EntryOf
  <2>2. CASE shmid[q]["utf"] # i
    <3>1. shmid[q]["utf"] # NoSeg => shmid[q]["utf"] \in DOMAIN seg
      BY DEF ShmInv, Held, HeldOf, Kinds
    <3>2. \A j \in DOMAIN seg : j # i => seg'[j].entries = seg[j].entries
      BY <1>1, <1>5, SetEntries
    <3> QED BY <2>2, <3>1, <3>2, EntriesStay
  <2> QED BY <2>1, <2>2
<1>9. EntryOf(p)'
  <2>1. mynrnk(p)' = n
    BY <1>3, SameQueues
  <2>2. tinfo(p)' = tinfo(p)
    BY <1>1, OthersSame DEF tinfo
  <2> QED BY <1>1, <1>2, <1>6, <1>7, <2>1, <2>2 DEF EntryOf
<1> QED BY <1>1, <1>2, <1>8, <1>9

LEMMA TeardownEntries ==
  ASSUME ShmInv, NEW p \in Procs, Teardown(p), NEW q \in Procs, q # p
  PROVE  EntryKept(q)
<1>1. /\ SegType /\ StartType
      /\ shmid[q]["utf"] # NoSeg => shmid[q]["utf"] \in DOMAIN seg
  BY DEF ShmInv, LocalInv, Held, HeldOf, Kinds
<1>2. PICK i \in Nat : i = shmid[p]["utf"]
  BY <1>1 DEF StartType, Kinds
<1>3. seg' = Detached(seg, i, p)
  BY <1>2 DEF Teardown
<1>4. shmid[q]["utf"] # NoSeg => shmid[q]["utf"] \in DOMAIN seg'
  <2> SUFFICES ASSUME shmid[q]["utf"] # NoSeg, shmid[q]["utf"] \notin DOMAIN seg' PROVE FALSE
    OBVIOUS
  <2>1. shmid[q]["utf"] = i /\ Attached(i) \subseteq {p}
    BY <1>1, <1>3, DropSeg
  <2> QED BY <2>1 DEF Attached, Kinds
<1> QED BY <1>1, <1>3, <1>4, DropSeg, EntriesStay

-----------------------------------------------------------------------------
(* What p itself has ready.                                                *)
LEMMA TornFacts ==
  ASSUME StartType, NEW p \in Procs, Others(p), ip'[p] \in {ip[p], ip[p] + 1}
  PROVE  /\ Torn(p) => Torn(p)'
         /\ ip'[p] = ip[p] + 1 /\ LastAt(ip[p]) => Torn(p)'
<1>1. Program' = Program /\ ip[p] \in Nat \ {0}
  BY OthersSame DEF StartType
<1>2. \A j : LastAt(j)' = LastAt(j)
  BY <1>1, SameProgram
<1>3. 1 .. ip[p] - 1 \subseteq 1 .. ip'[p] - 1
  BY <1>1
<1>4. ip'[p] = ip[p] + 1 => ip[p] \in 1 .. ip'[p] - 1
  BY <1>1
<1>5. Torn(p) => Torn(p)'
  BY <1>2, <1>3 DEF Torn
<1>6. ASSUME ip'[p] = ip[p] + 1, LastAt(ip[p]) PROVE Torn(p)'
  <2>1. PICK j \in 1 .. ip'[p] - 1 : j = ip[p]
    BY <1>4, <1>6
  <2>2. LastAt(j)'
    BY <1>2, <1>6, <2>1
  <2> QED BY <2>2 DEF Torn
<1> QED BY <1>5, <1>6

(* p neither gets queues nor gives them back                               *)
LEMMA ReadySelf ==
  ASSUME StartType, NEW p \in Procs, Others(p), ReadyOf(p), ip'[p] \in {ip[p], ip[p] + 1},
         EntryKept(p), peers'[p] = peers[p],
         Starting(p)' \/ shmid'[p]["utf"] = shmid[p]["utf"],
         MemDone(p)' => MemDone(p) \/ stags'[p] = Tags,
         stags'[p] = stags[p] \/ stags'[p] = Tags,
         Starting(p) => Starting(p)' \/ ~ Begun(p, "utf")
  PROVE  ReadyOf(p)'
<1>1. ~ Torn(p)' => ~ Torn(p)
  BY TornFacts
<1>2. /\ tniids(p)' = tniids(p) /\ mynrnk(p)' = mynrnk(p) /\ job' = job
      /\ Begun(p, "utf")' = Begun(p, "utf")
  BY SameQueues, OthersSame DEF Begun
<1>3. tinfo(p)' = tinfo(p)
  BY <1>2 DEF tinfo
<1>4. ASSUME ~ Starting(p)', shmid[p]["utf"] # NoSeg, EntryOf(p) PROVE EntryOf(p)'
  BY <1>2, <1>3, <1>4 DEF EntryKept, EntryOf
<1> QED BY <1>1, <1>2, <1>4 DEF ReadyOf

LEMMA MemMoves ==
  ASSUME StartType, NEW p \in Procs, Others(p)
  PROVE  /\ Return(p) =>
              /\ MemDone(p)' => Inited(ip[p]) \/ Call(p) = "init"
              /\ ip'[p] = ip[p] + 1 /\ ~ Starting(p)'
         /\ \A l : Goto(p, l) =>
              /\ MemDone(p)' => Inited(ip[p]) \/ (l = "fence" /\ Call(p) = "init")
              /\ ip'[p] = ip[p]
              /\ Kind(p) = "utf" /\ l \in Handshake \cup {"table", "aborted"} => Starting(p)'
<1>1. Program' = Program /\ ip[p] \in Nat \ {0} /\ pc \in [Procs -> Labels]
  BY OthersSame DEF StartType
<1>2. Inited(ip[p])' = Inited(ip'[p])
  BY <1>1, AtPlace
<1>3. ASSUME Return(p)
      PROVE  /\ MemDone(p)' => Inited(ip[p]) \/ Call(p) = "init"
             /\ ip'[p] = ip[p] + 1 /\ ~ Starting(p)'
  <2>1. ip'[p] = ip[p] + 1 /\ pc'[p] \in {"call", "end"}
    BY <1>1, <1>3 DEF Return, StartType
  <2>2. \A i \in Nat \ {0} : Inited(i + 1) => Inited(i) \/ Program[i] = "init"
    BY DEF Inited
  <2>3. MemDone(p)' => Inited(ip[p] + 1)
    BY <1>2, <2>1 DEF MemDone
  <2>4. ~ Starting(p)'
    BY <2>1 DEF Starting, In, Handshake, Leading, Following
  <2> QED BY <1>1, <2>1, <2>2, <2>3, <2>4 DEF Call
<1>4. ASSUME NEW l, Goto(p, l)
      PROVE  /\ MemDone(p)' => Inited(ip[p]) \/ (l = "fence" /\ Call(p) = "init")
             /\ ip'[p] = ip[p]
             /\ Kind(p) = "utf" /\ l \in Handshake \cup {"table", "aborted"} => Starting(p)'
  <2>1. ip'[p] = ip[p] /\ pc'[p] = l
    BY <1>1, <1>4 DEF Goto
  <2>2. Call(p)' = Call(p)
    BY <1>1, <2>1 DEF Call
  <2>3. Kind(p)' = Kind(p)
    BY <2>2 DEF Kind
  <2>4. MemDone(p)' => Inited(ip[p]) \/ (l = "fence" /\ Call(p) = "init")
    BY <1>2, <2>1, <2>2 DEF MemDone
  <2> QED BY <2>1, <2>3, <2>4 DEF Starting, In
<1> QED BY <1>3, <1>4

(* utf_init finds the library in use unless it is the first                *)
LEMMA AtInit ==
  ASSUME LocalInv, NEW p \in Procs, pc[p] = "call", ip[p] <= Len(Program),
         Call(p) = "init", utf_initialized[p] > 0
  PROVE  Inited(ip[p])
<1>1. ip[p] \in Nat \ {0} /\ utf_initialized[p] \in Nat
  BY DEF LocalInv, StartType
<1>2. /\ Before(Program, ip[p], "init") \in Nat /\ Before(Program, ip[p], "finalize") \in Nat
      /\ Before(Program, ip[p], "init") > 0 <=> Inited(ip[p])
  BY <1>1, BeforeGrows DEF Inited
<1>3. utf_initialized[p] = Before(Program, ip[p], "init") - Before(Program, ip[p], "finalize")
  BY <1>2 DEF LocalInv, Opens, Opened
<1> QED BY <1>1, <1>2, <1>3

LEMMA PeersReadyNext ==
  ASSUME LocalInv, Ready, NEW p \in Procs, Others(p), EntryKept(p),
         utf_init(p) \/ PMIx_Resolve_nodes(p)
  PROVE  ReadyOf(p)'
<1>1. /\ ReadyOf(p) /\ StartType /\ pc[p] = "call" /\ ip[p] <= Len(Program)
      /\ stags' = stags /\ shmid' = shmid
      /\ peers \in [Procs -> [notfirst : {-1, 0, 1}, vcqhs : Seq(0 .. 5)]]
  BY DEF Ready, LocalInv, StartType, utf_init, PMIx_Resolve_nodes, At
<1>2. ~ Starting(p)
  BY <1>1 DEF Starting, In, Handshake, Leading, Following
<1>3. \/ Call(p) = "init" /\ utf_initialized[p] > 0 /\ Return(p) /\ peers' = peers
      \/ Call(p) = "init" /\ Goto(p, "mem") /\ peers' = peers
      \/ Call(p) = "resolve" /\ Return(p) /\ peers' = peers
      \/ utf_peers_init(p) \/ PeersFail(p)
  BY DEF utf_init, PMIx_Resolve_nodes, At, utf_get_peers
<1>4. CASE Call(p) = "init" /\ utf_initialized[p] > 0 /\ Return(p) /\ peers' = peers
  <2>1. Inited(ip[p])
    BY <1>1, <1>4, AtInit
  <2> QED BY <1>1, <1>2, <1>4, <2>1, MemMoves, ReadySelf DEF MemDone
<1>5. CASE Goto(p, "mem") /\ peers' = peers
  <2>1. (MemDone(p)' => Inited(ip[p])) /\ ip'[p] = ip[p]
    BY <1>1, <1>5, MemMoves
  <2> QED BY <1>1, <1>2, <1>5, <2>1, ReadySelf DEF MemDone
<1>6. CASE Call(p) = "resolve" /\ Return(p) /\ peers' = peers
  <2>1. (MemDone(p)' => Inited(ip[p])) /\ ip'[p] = ip[p] + 1
    BY <1>1, <1>6, MemMoves
  <2> QED BY <1>1, <1>2, <1>6, <2>1, ReadySelf DEF MemDone
<1>7. CASE utf_peers_init(p) \/ PeersFail(p)
  <2>1. PICK l \in {"create", "attach", "aborted"} : Goto(p, l)
    BY <1>7 DEF utf_peers_init, PeersFail, ShmEntry
  <2>2. (MemDone(p)' => Inited(ip[p])) /\ ip'[p] = ip[p]
    BY <1>1, <2>1, MemMoves
  <2>3. ~ Torn(p)' => ~ Torn(p)
    BY <1>1, <2>2, TornFacts
  <2>4. Kind(p) = "utf"
    BY DEF utf_init, PMIx_Resolve_nodes, At, Kind
  <2>5. Starting(p)'
    BY <1>1, <2>1, <2>4, MemMoves DEF Handshake, Leading, Following
  <2>6. Begun(p, "utf")' => peers'[p].vcqhs = tniids(p)
    BY <1>1, <1>7 DEF utf_peers_init, PeersFail, Begun
  <2>7. tniids(p)' = tniids(p)
    BY SameQueues
  <2>8. ~ Torn(p)' /\ MemDone(p)' => stags'[p] = Tags
    BY <1>1, <2>2, <2>3 DEF ReadyOf, MemDone
  <2> QED BY <2>5, <2>6, <2>7, <2>8 DEF ReadyOf
<1> QED BY <1>3, <1>4, <1>5, <1>6, <1>7

LEMMA HandshakeReady ==
  ASSUME LocalInv, Ready, NEW p \in Procs, Others(p), EntryKept(p),
         Create(p) \/ Publish(p) \/ Gather(p) \/ Remove(p) \/ Attach(p) \/ Count(p)
  PROVE  ReadyOf(p)'
<1>1. /\ ReadyOf(p) /\ StartType /\ CallsOf(p) /\ stags' = stags /\ peers' = peers
      /\ pc[p] \in Handshake
  BY LocalFacts DEF Ready, LocalInv, Create, Publish, Gather, Remove, Attach, Count, Handshake,
     Leading, Following
<1>2. \/ \E l \in {"publish", "gather", "remove", "count", "aborted"} : Goto(p, l)
      \/ Kind(p) = "utf" /\ Goto(p, "table")
      \/ Kind(p) # "utf" /\ Return(p)
  BY DEF Create, Publish, Gather, Remove, Attach, Count, ShmReturn
<1>3. Kind(p) # "utf" => Call(p) = "shm_init"
  BY <1>1 DEF CallsOf, Kind
<1>4. ip'[p] \in {ip[p], ip[p] + 1} /\ (MemDone(p)' => MemDone(p))
  BY <1>1, <1>2, <1>3, MemMoves DEF MemDone
<1>5. Kind(p) = "utf" => Starting(p)'
  BY <1>1, <1>2, MemMoves DEF Handshake, Leading, Following
<1>6. Starting(p) => Kind(p) = "utf"
  BY DEF Starting, In
<1>7. Kind(p) # "utf" => shmid'[p]["utf"] = shmid[p]["utf"]
  <2>1. shmid \in [Procs -> [Kinds -> Nat]]
    BY <1>1 DEF StartType
  <2>2. shmid' = shmid \/ \E i : shmid' = [shmid EXCEPT ![p][Kind(p)] = i]
    BY DEF Create, Publish, Gather, Remove, Attach, Count
  <2>3. PICK k \in Kinds : k = Kind(p)
    BY KindFacts
  <2>4. "utf" \in Kinds
    BY DEF Kinds
  <2> QED BY <2>1, <2>2, <2>3, <2>4
<1> QED BY <1>1, <1>4, <1>5, <1>6, <1>7, ReadySelf

LEMMA TableReady ==
  ASSUME ShmInv, Ready, NEW p \in Procs, Others(p), Table(p)
  PROVE  ReadyOf(p)'
<1>1. /\ ReadyOf(p) /\ StartType /\ CallsOf(p) /\ stags' = stags /\ peers' = peers
      /\ pc[p] = "table" /\ Call(p) \in {"init", "resolve"}
  BY LocalFacts DEF ShmInv, Ready, LocalInv, Table, CallsOf
<1>2. Goto(p, "mem") \/ (Call(p) # "init" /\ Return(p))
  BY DEF Table
<1>3. ip'[p] \in {ip[p], ip[p] + 1} /\ (MemDone(p)' => MemDone(p))
  BY <1>1, <1>2, MemMoves DEF MemDone
<1>4. ~ Torn(p)' => ~ Torn(p)
  BY <1>1, <1>3, TornFacts
<1>5. tniids(p)' = tniids(p)
  BY SameQueues
<1>6. Begun(p, "utf")' = Begun(p, "utf")
  BY <1>1 DEF Begun
<1>7. shmid'[p]["utf"] # NoSeg /\ EntryOf(p)'
  BY TableEntries
<1> QED BY <1>1, <1>3, <1>4, <1>5, <1>6, <1>7 DEF ReadyOf

LEMMA FenceReady ==
  ASSUME LocalInv, Ready, NEW p \in Procs, Others(p), EntryKept(p),
         \/ utf_mem_init(p) \/ utf_fence(p) \/ FenceRead(p) \/ FenceReturn(p) \/ utf_finalize(p)
  PROVE  ReadyOf(p)'
<1>1. /\ ReadyOf(p) /\ StartType /\ CallsOf(p) /\ shmid' = shmid /\ peers' = peers
  BY LocalFacts DEF Ready, LocalInv, utf_mem_init, utf_fence, FenceRead, FenceReturn, utf_finalize
<1>2. CASE utf_mem_init(p)
  <2>1. stags'[p] = Tags /\ ip'[p] = ip[p] /\ pc[p] = "mem"
    BY <1>1, <1>2, MemMoves DEF utf_mem_init, StartType
  <2>2. ~ Starting(p)
    BY <2>1 DEF Starting, In, Handshake, Leading, Following
  <2> QED BY <1>1, <2>1, <2>2, ReadySelf
<1>3. CASE utf_fence(p) \/ FenceRead(p) \/ FenceReturn(p) \/ utf_finalize(p)
  <2>1. stags' = stags
    BY <1>3 DEF utf_fence, FenceRead, FenceReturn, utf_finalize
  <2>2. pc[p] = "call" \/ pc[p] = "fence"
    BY <1>1, <1>3 DEF utf_fence, FenceRead, FenceReturn, utf_finalize, At, CallsOf, InFence,
       UpdateRead, UpdateWrite, Peek
  <2>3. ~ Starting(p)
    BY <2>2 DEF Starting, In, Handshake, Leading, Following
  <2>4. \/ ip'[p] = ip[p] /\ pc'[p] = pc[p]
        \/ Call(p) \in {"fence", "finalize"} /\ (Return(p) \/ Goto(p, "fence"))
        \/ Goto(p, "teardown")
        \/ pc[p] = "fence" /\ Return(p)
    <3>1. CASE utf_fence(p)
      BY <3>1 DEF utf_fence, At
    <3>2. CASE FenceRead(p)
      BY <3>2 DEF FenceRead
    <3>3. CASE FenceReturn(p)
      <4>1. pc[p] = "fence"
        BY <1>1, <3>3 DEF FenceReturn, UpdateWrite, Peek, CallsOf, InFence
      <4> QED BY <3>3, <4>1 DEF FenceReturn
    <3>4. CASE utf_finalize(p)
      BY <3>4 DEF utf_finalize, At
    <3> QED BY <1>3, <3>1, <3>2, <3>3, <3>4
  <2>5. ip'[p] \in {ip[p], ip[p] + 1} /\ (MemDone(p)' => MemDone(p))
    <3>1. CASE ip'[p] = ip[p] /\ pc'[p] = pc[p]
      <4>1. Program' = Program
        BY OthersSame
      <4>2. Inited(ip[p])' = Inited(ip[p]) /\ Call(p)' = Call(p)
        BY <3>1, <4>1, AtPlace DEF Call
      <4> QED BY <3>1, <4>2 DEF MemDone
    <3>2. CASE Call(p) \in {"fence", "finalize"} /\ (Return(p) \/ Goto(p, "fence"))
      BY <1>1, <3>2, MemMoves DEF MemDone
    <3>3. CASE Goto(p, "teardown")
      BY <1>1, <3>3, MemMoves DEF MemDone
    <3>4. CASE pc[p] = "fence" /\ Return(p)
      BY <1>1, <3>4, MemMoves DEF MemDone
    <3> QED BY <2>4, <3>1, <3>2, <3>3, <3>4
  <2> QED BY <1>1, <2>1, <2>3, <2>5, ReadySelf
<1> QED BY <1>2, <1>3

LEMMA EndReady ==
  ASSUME LocalInv, Passed, Ready, NEW p \in Procs, Others(p), ~ Teardown(p) => EntryKept(p),
         utf_shm_init(p) \/ Store(p) \/ utf_shm_finalize(p) \/ Teardown(p)
  PROVE  ReadyOf(p)'
<1>1. ReadyOf(p) /\ StartType /\ CallsOf(p) /\ PassedOf(p)
  BY LocalFacts DEF Ready, Passed, LocalInv
<1>2. CASE Teardown(p)
  <2>1. LastAt(ip[p])
    BY <1>1, <1>2, CallFences DEF PassedOf, CallsOf, Teardown
  <2>2. ip'[p] = ip[p] + 1
    BY <1>1, <1>2, MemMoves DEF Teardown
  <2> QED BY <1>1, <2>1, <2>2, TornFacts DEF ReadyOf
<1>3. CASE utf_shm_init(p) \/ Store(p) \/ utf_shm_finalize(p)
  <2>1. /\ stags' = stags /\ peers' = peers /\ pc[p] = "call"
        /\ Call(p) \in {"shm_init", "store", "shm_finalize"}
    BY <1>3 DEF utf_shm_init, Store, utf_shm_finalize, At
  <2>2. ~ Starting(p)
    BY <2>1 DEF Starting, In, Handshake, Leading, Following
  <2>3. shmid'[p]["utf"] = shmid[p]["utf"]
    <3>1. shmid' = shmid \/ shmid' = [shmid EXCEPT ![p]["usr"] = NoSeg]
      BY <1>3 DEF utf_shm_init, Store, utf_shm_finalize
    <3>2. shmid \in [Procs -> [Kinds -> Nat]]
      BY <1>1 DEF StartType
    <3> QED BY <3>1, <3>2 DEF Kinds
  <2>4. Return(p) \/ \E l \in {"create", "attach"} : Goto(p, l)
    BY <1>3 DEF utf_shm_init, Store, utf_shm_finalize, ShmEntry
  <2>5. ip'[p] \in {ip[p], ip[p] + 1} /\ (MemDone(p)' => MemDone(p))
    BY <1>1, <2>1, <2>4, MemMoves DEF MemDone
  <2>6. EntryKept(p)
    BY <1>3, <2>1 DEF Teardown
  <2> QED BY <1>1, <2>1, <2>2, <2>3, <2>5, <2>6, ReadySelf
<1> QED BY <1>2, <1>3

LEMMA ReadyNext ==
  ASSUME ShmInv, Passed, Ready, NEW p \in Procs, Step(p)
  PROVE  Ready'
<1>1. LocalInv
  BY DEF ShmInv
<1>2. Others(p) /\ Rest(p)
  BY <1>1, StepOthers, StepRest DEF LocalInv
<1>3. \A q \in Procs : q # p \/ (~ Table(p) /\ ~ Teardown(p)) => EntryKept(q)
  BY <1>2, EntriesNext, TableEntries, TeardownEntries
<1>4. ReadyOf(p)'
  <2>1. CASE utf_init(p) \/ PMIx_Resolve_nodes(p)
    <3>1. ~ Table(p) /\ ~ Teardown(p)
      BY <2>1 DEF utf_init, PMIx_Resolve_nodes, At, Table, Teardown
    <3> QED BY <1>1, <1>2, <1>3, <2>1, <3>1, PeersReadyNext
  <2>2. CASE Create(p) \/ Publish(p) \/ Gather(p) \/ Remove(p) \/ Attach(p) \/ Count(p)
    <3>1. ~ Table(p) /\ ~ Teardown(p)
      BY <2>2 DEF Create, Publish, Gather, Remove, Attach, Count, Table, Teardown
    <3> QED BY <1>1, <1>2, <1>3, <2>2, <3>1, HandshakeReady
  <2>3. CASE Table(p)
    BY <1>2, <2>3, TableReady
  <2>4. CASE \/ utf_mem_init(p) \/ utf_fence(p) \/ FenceRead(p) \/ FenceReturn(p)
             \/ utf_finalize(p)
    <3>1. pc[p] \in {"mem", "call", "fence"}
      <4>1. CallsOf(p)
        BY <1>1, LocalFacts
      <4> QED BY <2>4, <4>1 DEF utf_mem_init, utf_fence, FenceRead, FenceReturn, utf_finalize, At,
             CallsOf, InFence, UpdateRead, UpdateWrite, Peek
    <3>2. ~ Table(p) /\ ~ Teardown(p)
      BY <3>1 DEF Table, Teardown
    <3> QED BY <1>1, <1>2, <1>3, <2>4, <3>2, FenceReady
  <2>5. CASE utf_shm_init(p) \/ Store(p) \/ utf_shm_finalize(p) \/ Teardown(p)
    <3>1. ~ Table(p)
      BY <2>5 DEF utf_shm_init, Store, utf_shm_finalize, At, Table, Teardown
    <3> QED BY <1>1, <1>2, <1>3, <2>5, <3>1, EndReady
  <2> QED BY <2>1, <2>2, <2>3, <2>4, <2>5 DEF Step
<1> QED BY <1>2, <1>3, <1>4, ReadyKeeps

(* A job starts with nothing ready.                                        *)
LEMMA NewJobReady == NewJob => Ready
<1> SUFFICES ASSUME NewJob PROVE Ready
  OBVIOUS
<1>1. ASSUME NEW p \in Procs
      PROVE  ip[p] = 1 /\ pc[p] = "call" /\ peers[p].notfirst = 0
  BY DEF NewJob, PerProc, NoPeers
<1>2. ~ Inited(1)
  BY DEF Inited
<1> QED BY <1>1, <1>2 DEF Ready, ReadyOf, MemDone, Begun

LEMMA ReadyStutter == Ready /\ UNCHANGED vars => Ready'
<1> SUFFICES ASSUME Ready, UNCHANGED vars PROVE Ready'
  OBVIOUS
<1>1. /\ job' = job /\ place' = place /\ ip' = ip /\ pc' = pc /\ peers' = peers
      /\ stags' = stags /\ shmid' = shmid /\ seg' = seg
      /\ shm_usd' = shm_usd /\ utf_initialized' = utf_initialized /\ sz' = sz /\ fpc' = fpc
  BY DEF vars
<1>2. Program' = Program
  BY <1>1 DEF Program
<1>3. \A i : Inited(i)' = Inited(i) /\ LastAt(i)' = LastAt(i)
  BY <1>2, SameProgram
<1>4. ASSUME NEW p \in Procs PROVE ReadyOf(p)'
  <2>1. Others(p)
    BY <1>1 DEF Others, job_place
  <2>2. ReadyOf(p)
    BY DEF Ready
  <2>3. Call(p)' = Call(p) /\ Kind(p)' = Kind(p)
    BY <1>1, <1>2 DEF Call, Kind
  <2>4. /\ Starting(p)' = Starting(p) /\ Begun(p, "utf")' = Begun(p, "utf")
        /\ Inited(ip[p])' = Inited(ip[p])
    BY <1>1, <1>2, <2>3, AtPlace DEF Starting, In, Begun
  <2>5. Torn(p)' = Torn(p) /\ MemDone(p)' = MemDone(p)
    BY <1>1, <1>3, <2>3, <2>4 DEF Torn, MemDone
  <2>6. mynrnk(p)' = mynrnk(p) /\ tniids(p)' = tniids(p)
    BY <2>1, SameQueues
  <2>7. EntryOf(p)' = EntryOf(p)
    BY <1>1, <2>6 DEF EntryOf, tinfo
  <2> QED BY <1>1, <2>2, <2>4, <2>5, <2>6, <2>7 DEF ReadyOf
<1> QED BY <1>4 DEF Ready

LEMMA ReadyAlways ==
  FirstWordSafe => (Spec => [](FenceInv /\ ShmInv /\ Passed /\ Ready))
<1> SUFFICES ASSUME FirstWordSafe PROVE Spec => [](FenceInv /\ ShmInv /\ Passed /\ Ready)
  OBVIOUS
<1>1. Init => NewJob
  BY InitNewJob
<1>2. NewJob => Ready
  BY NewJobReady
<1>3. ShmInv /\ Passed /\ Ready /\ FenceInv /\ [Next]_vars => NewJob' \/ Ready'
  <2> SUFFICES ASSUME FenceInv, ShmInv, Passed, Ready, [Next]_vars PROVE NewJob' \/ Ready'
    OBVIOUS
  <2>1. CASE NextJob
    BY <2>1, NextNewJob
  <2>2. ASSUME NEW p \in Procs, Step(p) PROVE Ready'
    BY <2>2, ReadyNext
  <2>3. CASE UNCHANGED vars
    BY <2>3, ReadyStutter
  <2> QED BY <2>1, <2>2, <2>3 DEF Next
<1> QED BY <1>1, <1>2, <1>3, ShmInvAlways, PTL DEF Spec

-----------------------------------------------------------------------------
(* Who communicates finds everybody between the fence of utf_init and that *)
(* of utf_finalize.                                                        *)

(* A program calls utf_init again only before its last utf_finalize.       *)
OneLife == \A n \in 1 .. MaxJobs : LET s == Programs[n] IN
  \A i \in 1 .. Len(s) :
    s[i] = "init" /\ (\E j \in 1 .. i - 1 : s[j] = "init") =>
      Before(s, i, "finalize") < Before(s, i, "init")

LEMMA OneLifeFacts ==
  ASSUME OneLife, job \in 1 .. MaxJobs
  PROVE  \A i \in 1 .. Len(Program) : Program[i] = "init" /\ Inited(i) =>
           Before(Program, i, "finalize") < Before(Program, i, "init")
<1>1. Program = Programs[job]
  BY DEF Program
<1> QED BY <1>1 DEF OneLife, Inited

(* after the last utf_finalize, no utf_init is left to be undone           *)
LEMMA NoMore ==
  ASSUME OneLife, job \in 1 .. MaxJobs, NEW k \in Nat \ {0}, LastAt(k),
         NEW n \in Nat \ {0}, k < n, n <= Len(Program) + 1
  PROVE  Before(Program, n, "init") <= Before(Program, n, "finalize")
<1>1. Len(Program) \in Nat /\ k + 1 \in Nat \ {0}
  BY ProgramFacts
<1>2. /\ Before(Program, k, "init") \in Nat /\ Before(Program, k, "finalize") \in Nat
      /\ Before(Program, k, "init") = Before(Program, k, "finalize") + 1
      /\ Before(Program, k + 1, "finalize") = Before(Program, k, "finalize") + 1
      /\ Before(Program, k + 1, "init") = Before(Program, k, "init")
  <2>1. Program[k] = "finalize"
    BY DEF LastAt
  <2> QED BY <2>1, BeforeGrows, BeforeNext DEF LastAt
<1>3. Inited(k)
  <2>1. Before(Program, k, "init") > 0
    BY <1>2
  <2>2. Before(Program, k, "init") > 0 <=> \E j \in 1 .. k - 1 : Program[j] = "init"
    BY BeforeGrows
  <2> QED BY <2>1, <2>2 DEF Inited
<1> DEFINE Clear(m) == \A j \in k + 1 .. m - 1 : Program[j] # "init"
<1>4. ASSUME NEW m \in Nat \ {0}, k < m, Clear(m)
      PROVE  /\ Before(Program, m, "init") <= Before(Program, m, "finalize")
             /\ Before(Program, m, "init") \in Nat /\ Before(Program, m, "finalize") \in Nat
  <2>1. k + 1 <= m
    BY <1>4
  <2>2. Before(Program, m, "init") = Before(Program, k + 1, "init")
    BY <1>1, <1>4, <2>1, BeforeGrows
  <2>3. Before(Program, k + 1, "finalize") <= Before(Program, m, "finalize")
    BY <1>1, <2>1, BeforeGrows
  <2>4. Before(Program, m, "init") \in Nat /\ Before(Program, m, "finalize") \in Nat
    BY BeforeGrows
  <2> QED BY <1>2, <2>2, <2>3, <2>4
<1>5. Clear(n)
  <2> DEFINE T == {j \in k + 1 .. n - 1 : Program[j] = "init"}
  <2> SUFFICES ASSUME T # {} PROVE FALSE
    OBVIOUS
  <2>1. T \subseteq Nat
    BY <1>1
  <2>2. PICK m \in T : \A j \in T : m <= j
    BY <2>1, LeastNumber
  <2>3. m \in 1 .. Len(Program) /\ m \in Nat \ {0} /\ k < m /\ Program[m] = "init"
    BY <1>1, <2>2
  <2>4. Clear(m)
    BY <1>1, <2>2, <2>3
  <2>5. Inited(m)
    <3>1. 1 .. k - 1 \subseteq 1 .. m - 1
      BY <2>3
    <3> QED BY <1>3, <3>1 DEF Inited
  <2>6. Before(Program, m, "finalize") < Before(Program, m, "init")
    BY <2>3, <2>5, OneLifeFacts
  <2> HIDE DEF Clear
  <2> QED BY <1>4, <2>3, <2>4, <2>6
<1> HIDE DEF Clear
<1> QED BY <1>4, <1>5

(* what the count of utf_init tells a process in use about its program     *)
LEMMA UseFacts ==
  ASSUME ShmInv, NEW p \in Procs, InUse(p)
  PROVE  /\ Before(Program, ip[p], "finalize") < Before(Program, ip[p], "init")
         /\ ~ (Call(p) = "finalize" /\ pc[p] \in {"fence", "teardown"} /\ LastAt(ip[p]))
         /\ Inited(ip[p]) /\ ip[p] \in Nat \ {0} /\ ip[p] <= Len(Program) + 1
<1>1. /\ ip[p] \in Nat \ {0} /\ ip[p] <= Len(Program) + 1
      /\ utf_initialized[p] = Opened(p) /\ utf_initialized[p] \in Nat /\ pc[p] \in Labels
  BY DEF ShmInv, LocalInv, StartType, Calls, CallsOf, Opens
<1>2. /\ Before(Program, ip[p], "init") \in Nat /\ Before(Program, ip[p], "finalize") \in Nat
      /\ Before(Program, ip[p], "init") > 0 <=> Inited(ip[p])
  BY <1>1, BeforeGrows DEF Inited
<1>3. Opened(p) <= Before(Program, ip[p], "init") - Before(Program, ip[p], "finalize")
  <2>1. CASE pc[p] \in {"call", "end"}
    <3>1. Opened(p) = Before(Program, ip[p], "init") - Before(Program, ip[p], "finalize")
      BY <1>2, <2>1 DEF Opened
    <3> QED BY <1>2, <3>1
  <2>2. CASE pc[p] \notin {"call", "end"}
    <3>1. Opened(p) = Before(Program, ip[p], "init") - Before(Program, ip[p], "finalize")
                        + Balance(Call(p))
      BY <1>2, <2>2 DEF Opened
    <3>2. Balance(Call(p)) \in {-1, 0}
      BY <2>2 DEF InUse, Balance
    <3> QED BY <1>2, <3>1, <3>2
  <2> QED BY <2>1, <2>2
<1>4. Before(Program, ip[p], "finalize") < Before(Program, ip[p], "init")
  BY <1>1, <1>2, <1>3 DEF InUse
<1>5. ASSUME Call(p) = "finalize", pc[p] \in {"fence", "teardown"}, LastAt(ip[p]) PROVE FALSE
  <2>1. Opened(p) = Before(Program, ip[p], "init") - Before(Program, ip[p], "finalize") + (-1)
    BY <1>5 DEF Opened, Balance
  <2> QED BY <1>1, <1>2, <1>5, <2>1 DEF LastAt, InUse
<1> QED BY <1>1, <1>2, <1>4, <1>5

LEMMA NotTorn ==
  ASSUME OneLife, FenceInv, ShmInv, Passed, NEW p \in Procs, InUse(p), NEW q \in Procs
  PROVE  ~ Torn(q)
<1> SUFFICES ASSUME Torn(q) PROVE FALSE
  OBVIOUS
<1>1. ip[q] \in Nat \ {0} /\ ip[p] \in Nat \ {0} /\ job \in 1 .. MaxJobs
  BY DEF ShmInv, LocalInv, StartType
<1>2. PICK k \in 1 .. ip[q] - 1 : LastAt(k)
  BY DEF Torn
<1>3. k \in Nat \ {0} /\ k < ip[q] /\ FenceAt(k)
  BY <1>1, <1>2 DEF FenceAt
<1>4. ip[p] > k \/ (ip[p] = k /\ pc[p] \in {"fence", "teardown"})
  BY <1>3, Reach
<1>5. CASE ip[p] > k
  <2>1. Before(Program, ip[p], "init") <= Before(Program, ip[p], "finalize")
    BY <1>1, <1>2, <1>3, <1>5, NoMore, UseFacts
  <2>2. Before(Program, ip[p], "init") \in Nat /\ Before(Program, ip[p], "finalize") \in Nat
    BY <1>1, BeforeGrows
  <2> QED BY <2>1, <2>2, UseFacts
<1>6. CASE ip[p] = k /\ pc[p] \in {"fence", "teardown"}
  <2>1. LastAt(ip[p]) /\ Call(p) = "finalize"
    BY <1>2, <1>6 DEF LastAt, Call
  <2> QED BY <1>6, <2>1, UseFacts
<1> QED BY <1>4, <1>5, <1>6

(* the others have their queues and their memory                           *)
LEMMA AllReady ==
  ASSUME OneLife, FenceInv, ShmInv, Passed, Ready, NEW p \in Procs, InUse(p), NEW q \in Procs
  PROVE  /\ stags[q] = Tags /\ peers[q].vcqhs = tniids(q)
         /\ shmid[q]["utf"] # NoSeg /\ EntryOf(q)
<1>1. ip[q] \in Nat \ {0} /\ ip[p] \in Nat \ {0} /\ Inited(ip[p])
  BY UseFacts DEF ShmInv, LocalInv, StartType
<1> DEFINE T == {j \in 1 .. ip[p] - 1 : Program[j] = "init"}
<1>2. T \subseteq Nat /\ T # {}
  BY <1>1 DEF Inited
<1>3. PICK i \in T : \A j \in T : i <= j
  BY <1>2, LeastNumber
<1>4. i \in Nat \ {0} /\ i < ip[p] /\ Program[i] = "init" /\ FenceAt(i)
  <2>1. i \in Nat \ {0} /\ i < ip[p] /\ Program[i] = "init"
    BY <1>1, <1>3
  <2>2. ~ Inited(i)
    BY <1>1, <1>3, <2>1 DEF Inited
  <2>3. job \in 1 .. MaxJobs /\ i \in 1 .. Len(Program)
    <3>1. job \in 1 .. MaxJobs /\ Len(Program) \in Nat
      BY ProgramFacts DEF ShmInv, LocalInv, StartType
    <3>2. ip[p] <= Len(Program) + 1
      BY UseFacts
    <3> QED BY <1>1, <2>1, <3>1, <3>2
  <2> QED BY <2>1, <2>2, <2>3, FirstInit
<1>5. ip[q] > i \/ (ip[q] = i /\ pc[q] \in {"fence", "teardown"})
  BY <1>4, Reach
<1>6. Inited(ip[q]) \/ (pc[q] = "fence" /\ Call(q) = "init")
  <2>1. CASE ip[q] > i
    <3>1. i \in 1 .. ip[q] - 1
      BY <1>1, <1>4, <2>1
    <3> QED BY <1>4, <3>1 DEF Inited
  <2>2. CASE ip[q] = i /\ pc[q] \in {"fence", "teardown"}
    <3>1. Call(q) = "init"
      BY <1>4, <2>2 DEF Call
    <3>2. pc[q] # "teardown"
      BY <3>1 DEF ShmInv, LocalInv, Calls, CallsOf
    <3> QED BY <2>2, <3>1, <3>2
  <2> QED BY <1>5, <2>1, <2>2
<1>7. Begun(q, "utf")
  BY <1>6 DEF ShmInv, LocalInv, Begins, BeginsOf, Begun, Inited
<1>8. ~ Starting(q)
  <2>1. CASE Inited(ip[q])
    BY <2>1 DEF Passed, PassedOf
  <2>2. CASE pc[q] = "fence"
    BY <2>2 DEF Starting, In, Handshake, Leading, Following
  <2> QED BY <1>6, <2>1, <2>2
<1>9. ~ Torn(q)
  BY NotTorn
<1> QED BY <1>6, <1>7, <1>8, <1>9 DEF Ready, ReadyOf, MemDone

(* and all queues are different                                            *)
LEMMA AddressesApart ==
  ASSUME place \in Places, NEW q \in Procs, NEW r \in Procs, q # r
  PROVE  vcqid(q) # vcqid(r)
<1>1. CASE place[q] # place[r]
  BY <1>1 DEF vcqid
<1>2. CASE place[q] = place[r]
  <2>1. PICK n \in Nat : n = MaxPpn
    BY MaxPpnFacts
  <2>2. PICK s \in Procs : n = myppn(s)
    BY <2>1, MaxPpnFacts
  <2>3. n <= 48
    BY <2>2, PlacesAssumption DEF myppn, nd_ranks
  <2>4. ASSUME NEW x \in Procs
        PROVE  mynrnk(x) \in Nat /\ mynrnk(x) < n
    <3>1. myppn(x) <= n /\ myppn(x) \in Nat /\ mynrnk(x) \in Nat /\ mynrnk(x) < myppn(x)
      BY <2>1, MaxPpnFacts, NodeRanks
    <3> QED BY <3>1
  <2>5. n \in 1 .. 48
    BY <2>3, <2>4
  <2>6. mynrnk(q) # mynrnk(r)
    BY <1>2, RanksApart
  <2>7. utf_tni_select(n, mynrnk(q)) # utf_tni_select(n, mynrnk(r))
    <3>1. ASSUME NEW a \in Nat, NEW b \in Nat, b < a, a < n
          PROVE  utf_tni_select(n, a) # utf_tni_select(n, b)
      <4>1. a \in 0 .. n - 1 /\ b \in 0 .. a - 1
        BY <3>1
      <4> QED BY <2>5, <4>1, QueuesApart DEF QueuesDistinct
    <3>2. mynrnk(q) < mynrnk(r) \/ mynrnk(r) < mynrnk(q)
      BY <2>4, <2>6
    <3> QED BY <2>4, <3>1, <3>2
  <2> QED BY <2>1, <2>7 DEF vcqid, tniq
<1> QED BY <1>1, <1>2

(* In programs that disturb no handshake of shared memory and call         *)
(* utf_init again only before the last utf_finalize, a process that may    *)
(* communicate finds the memory and the queues of every process of its     *)
(* job, each at an address of its own, and its node's table of queues      *)
(* filled in by this job: the fences of utf_init and of the last           *)
(* utf_finalize keep every process between the two.                        *)
THEOREM PeersFound == FirstWordSafe /\ OneLife => (Spec => []PeersReady)
<1> SUFFICES ASSUME FirstWordSafe, OneLife PROVE Spec => []PeersReady
  OBVIOUS
<1>1. FenceInv /\ ShmInv /\ Passed /\ Ready => PeersReady
  <2> SUFFICES ASSUME FenceInv, ShmInv, Passed, Ready, NEW p \in Procs, InUse(p)
               PROVE  /\ \A q \in Procs :
                           /\ stags[q] = Tags
                           /\ peers[q].vcqhs[1] = tniq(q).tni
                           /\ Len(peers[q].vcqhs) = Len(OnesidedTnis)
                           /\ \A r \in Procs : q # r => vcqid(q) # vcqid(r)
                      /\ \A q \in nd_ranks(p) :
                           LET tab == seg[shmid[p]["utf"]].entries
                           IN  mynrnk(q) \in DOMAIN tab /\ tab[mynrnk(q)] = tinfo(q)
    BY DEF PeersReady
  <2>1. ASSUME NEW q \in Procs
        PROVE  /\ stags[q] = Tags /\ peers[q].vcqhs[1] = tniq(q).tni
               /\ Len(peers[q].vcqhs) = Len(OnesidedTnis)
    BY AllReady, TniidsFacts
  <2>2. ASSUME NEW q \in Procs, NEW r \in Procs, q # r PROVE vcqid(q) # vcqid(r)
    BY <2>2, AddressesApart DEF ShmInv, LocalInv, StartType
  <2>3. ASSUME NEW q \in nd_ranks(p)
        PROVE  LET tab == seg[shmid[p]["utf"]].entries
               IN  mynrnk(q) \in DOMAIN tab /\ tab[mynrnk(q)] = tinfo(q)
    <3>1. q \in Procs /\ place[q] = place[p]
      BY <2>3 DEF nd_ranks
    <3>2. shmid[q]["utf"] # NoSeg /\ EntryOf(q) /\ shmid[p]["utf"] # NoSeg
      BY <3>1, AllReady
    <3>3. shmid[q]["utf"] = shmid[p]["utf"]
      BY <3>1, <3>2 DEF ShmInv, OwnSegs, Kinds
    <3> QED BY <3>2, <3>3 DEF EntryOf
  <2> QED BY <2>1, <2>2, <2>3
<1> QED BY <1>1, ReadyAlways, PTL
=============================================================================
