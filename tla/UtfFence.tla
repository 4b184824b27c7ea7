------------------------------ MODULE UtfFence ------------------------------
(***************************************************************************)
(* PMIx_Fence, on which utf_fence rests, as the repository's own stand-in  *)
(* for the PMIx library has it (fbarrier of dfile2.c): two files with one  *)
(* byte per process, used in turn.  A process reads the file, writes its   *)
(* marker and then reads until every byte is the marker of this fence.     *)
(***************************************************************************)
EXTENDS Integers, FiniteSets

CONSTANT Procs   \* the processes of the job, by rank from 0 on

ASSUME ProcsAssumption == IsFiniteSet(Procs) /\ Procs = 0 .. Cardinality(Procs) - 1

VARIABLES
  file,    \* the two files: the byte of each process, NoByte before any write
  ntimes,  \* per process: fences it has left
  bufp,    \* per process: what it has read of the file
  fpc      \* per process: out of the fence, at update, in it, or at peek

fenceVars == <<file, ntimes, bufp, fpc>>

NoByte == -1
Empty == [p \in Procs |-> NoByte]

FenceInit ==
  /\ file = [f \in 0 .. 1 |-> Empty]
  /\ ntimes = [p \in Procs |-> 0]
  /\ bufp = [p \in Procs |-> Empty]
  /\ fpc = [p \in Procs |-> "out"]

(* new processes, the files removed                                        *)
FenceReset ==
  /\ file' = [f \in 0 .. 1 |-> Empty]
  /\ ntimes' = [p \in Procs |-> 0]
  /\ bufp' = [p \in Procs |-> Empty]
  /\ fpc' = [p \in Procs |-> "out"]

FenceType ==
  /\ file \in [0 .. 1 -> [Procs -> {NoByte} \cup 0 .. 3]]
  /\ ntimes \in [Procs -> Nat]
  /\ bufp \in [Procs -> [Procs -> {NoByte} \cup 0 .. 3]]
  /\ fpc \in [Procs -> {"out", "update", "write", "peek"}]

-----------------------------------------------------------------------------
FileOf(p) == ntimes[p] % 2

Marker(p) == ntimes[p] % 4

(* mutant: any marker counts                                               *)
count_markerAny(buf, marker) ==
  Cardinality({p \in Procs : \A q \in Procs : q <= p => buf[q] # NoByte})

(* the number of processes, from rank 0 on, whose byte is marker: the      *)
(* count stops at the first byte that is not                               *)
count_marker(buf, marker) ==
  Cardinality({p \in Procs : \A q \in Procs : q <= p => buf[q] = marker})

AllMarked(buf, p) == count_marker(buf, Marker(p)) = Cardinality(Procs)

(* the call of PMIx_Fence                                                  *)
FenceEnter(p) ==
  /\ fpc[p] = "out"
  /\ fpc' = [fpc EXCEPT ![p] = "update"]
  /\ UNCHANGED <<file, ntimes, bufp>>

(* update: the file is read ...                                            *)
UpdateRead(p) ==
  /\ fpc[p] = "update"
  /\ bufp' = [bufp EXCEPT ![p] = [file[FileOf(p)] EXCEPT ![p] = Marker(p)]]
  /\ fpc' = [fpc EXCEPT ![p] = "write"]
  /\ UNCHANGED <<file, ntimes>>

(* fbarrier's end: buf shows the marker of everybody                       *)
Pass(p) ==
  /\ ntimes' = [ntimes EXCEPT ![p] = @ + 1]
  /\ bufp' = [bufp EXCEPT ![p] = Empty]
  /\ fpc' = [fpc EXCEPT ![p] = "out"]

(* ... and the process's own byte written; without the lock that the file's *)
(* header speaks of, so others may write between the two                   *)
UpdateWrite(p) ==
  /\ fpc[p] = "write"
  /\ file' = [file EXCEPT ![FileOf(p)][p] = Marker(p)]
  /\ IF AllMarked(bufp[p], p)
     THEN Pass(p)
     ELSE /\ fpc' = [fpc EXCEPT ![p] = "peek"]
          /\ bufp' = [bufp EXCEPT ![p] = Empty]
          /\ UNCHANGED ntimes

(* peek; a file without everybody's marker is read again                   *)
Peek(p) ==
  /\ fpc[p] = "peek"
  /\ AllMarked(file[FileOf(p)], p)
  /\ Pass(p)
  /\ UNCHANGED file

InFence(p) == fpc[p] # "out"

(* fences p has called                                                     *)
Entered(p) == IF InFence(p) THEN ntimes[p] + 1 ELSE ntimes[p]
=============================================================================
