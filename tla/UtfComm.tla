------------------------------- MODULE UtfComm -------------------------------
(***************************************************************************)
(* The tables of groups and communicators of the MPI layer                 *)
(* (src/mpi_vbg/commgroup.c and the wrappers of mpi_utf.c), in one process.*)
(* MPI hides the members of a group; to open barrier gates for one the     *)
(* layer keeps its own copy of the ranks of every group and communicator,  *)
(* found by their handles, in entries taken from two free lists.           *)
(*                                                                         *)
(* mgrp and mcom are the MPI library's own objects, which the wrappers     *)
(* call (PMPI_...) before or after they change the tables.  A wrapper that *)
(* aborts, fails an assertion or follows a bad pointer sets fault.         *)
(*                                                                         *)
(* cominfo_entarray is declared as an array of the smaller grpinfo_ent     *)
(* (MPICH's handles are ints: 24 bytes against 32), so that the last field *)
(* of a communicator's entry, bg_grp, is the first of the next one, its    *)
(* link in a list.  coment[n].bg is both.                                  *)
(***************************************************************************)
EXTENDS Integers, Sequences, FiniteSets, SequencesExt

CONSTANTS
  World,      \* the ranks of MPI_COMM_WORLD, in order
  Me,         \* the rank of this process
  WORLD,      \* MPI_COMM_WORLD
  Comms,      \* handles of the other communicators
  EMPTY,      \* MPI_GROUP_EMPTY
  Groups,     \* handles of the other groups
  None,       \* no handle, or no group of barrier gates
  NEnts,      \* GROUPINFO_SIZE
  RankLists,  \* rank lists tried with MPI_Group_incl and MPI_Group_excl
  MinBarrier  \* UTF_BG_MIN_BARRIER_SIZE

Ents == 1 .. NEnts

ASSUME ConstAssumption ==
  /\ Me \in Range(World) /\ IsInjective(World)
  /\ WORLD \notin Comms /\ EMPTY \notin Groups
  /\ None \notin Comms \cup Groups \cup {WORLD, EMPTY}
  /\ NEnts \in Nat /\ NEnts > 1
  /\ \A l \in RankLists : l \in Seq(Nat) /\ IsInjective(l)

VARIABLES
  grpent, grplst, grpfree,  \* grpinfo_entarray, grpinfo_lst, grpinfo_freelst
  coment, comlst,           \* cominfo_entarray, cominfo_lst
  comfree,                  \* the head of cominfo_freelst
  mgrp,      \* groups of the library: members, references, and whether all
             \* they were made from had the members of MPI_COMM_WORLD
  mcom,      \* communicators of the library: members and their group
  enabled,   \* mpi_bg_enabled
  fault

tables == <<grpent, grplst, grpfree, coment, comlst, comfree>>
vars == <<tables, mgrp, mcom, enabled, fault>>

-----------------------------------------------------------------------------
(* The library.                                                            *)

NoComm == [ranks |-> <<>>, group |-> None]
NoGroup == [ranks |-> <<>>, users |-> 0, pure |-> FALSE]
Live(c) == mcom[c] # NoComm
Held(g) == g = EMPTY \/ mgrp[g].users > 0

FreshComms == {c \in Comms : ~ Live(c)}
FreshGroups ==
  {g \in Groups : ~ Held(g) /\ \A c \in Comms \cup {WORLD} : mcom[c].group # g}

(* a group with these members, one reference more; there is one empty      *)
(* group, which counts as derived from whatever it was the result of       *)
PMPI_Group(g, ranks, pure) ==
  IF g = EMPTY THEN [mgrp EXCEPT ![g].pure = @ /\ pure]
  ELSE [mgrp EXCEPT ![g] = [ranks |-> ranks, users |-> @.users + 1, pure |-> pure]]

NewGroup(ranks) == IF ranks = <<>> THEN {EMPTY} ELSE FreshGroups

(* the order MPI prescribes                                                *)
PMPI_Union(a, b) == a \o SelectSeq(b, LAMBDA r : r \notin Range(a))
PMPI_Intersection(a, b) == SelectSeq(a, LAMBDA r : r \in Range(b))
PMPI_Difference(a, b) == SelectSeq(a, LAMBDA r : r \notin Range(b))
PMPI_Incl(a, l) == [i \in DOMAIN l |-> a[l[i] + 1]]
PMPI_Excl(a, l) ==
  SelectSeq(a, LAMBDA r : \A i \in DOMAIN l : a[l[i] + 1] # r)

-----------------------------------------------------------------------------
(* The tables.                                                             *)

(* the first of the positions is of a list, 0 if there is none             *)
FirstAt(lst, is) == IF is = {} THEN 0 ELSE lst[Min(is)]

grpinfo_get(g) == FirstAt(grplst, {i \in DOMAIN grplst : grpent[grplst[i]].grp = g})
cominfo_get(c) == FirstAt(comlst, {i \in DOMAIN comlst : coment[comlst[i]].comm = c})
Listed(g) == grpinfo_get(g) # 0
Ranks(g) == grpent[grpinfo_get(g)].ranks

(* mutant: the entry stays on the free list                                *)
TakeEntryPeeks(free) == IF Len(free) > 1 THEN free ELSE Tail(free)

(* utfslist_remove                                                         *)
TakeEntry(free) == Tail(free)

Entry(g, ranks) == [grp |-> g, ranks |-> ranks]

(* grpinfo_reg, and grpinfo_dup followed by an append                      *)
grpinfo_reg(g, ranks) ==
  /\ grpent' = [grpent EXCEPT ![Head(grpfree)] = Entry(g, ranks)]
  /\ grplst' = Append(grplst, Head(grpfree))
  /\ grpfree' = TakeEntry(grpfree)
  /\ UNCHANGED <<coment, comlst, comfree>>

(* mutant: the entry at the head of the list is taken for the one found    *)
grpinfo_unregHead(g) ==
  LET n == Head(grplst)
  IN  /\ grpent' = [grpent EXCEPT ![n] = Entry(None, <<>>)]
      /\ grplst' = Tail(grplst)
      /\ grpfree' = <<n>> \o grpfree
      /\ UNCHANGED <<coment, comlst, comfree>>

grpinfo_unreg(g) ==
  LET n == grpinfo_get(g)
  IN  /\ grpent' = [grpent EXCEPT ![n] = Entry(None, <<>>)]
      /\ grplst' = SelectSeq(grplst, LAMBDA m : m # n)
      /\ grpfree' = <<n>> \o grpfree
      /\ UNCHANGED <<coment, comlst, comfree>>

(* grpinfo_dup of an entry for a communicator, then cominfo_reg: the link  *)
(* of the entry taken, which is the gates of the one before, becomes the   *)
(* new head of the free list and is cleared                                *)
cominfo_reg(c, src, g, bg) ==
  /\ grpent' = [grpent EXCEPT ![Head(grpfree)] = Entry(g, grpent[src].ranks)]
  /\ grpfree' = TakeEntry(grpfree)
  /\ coment' = [coment EXCEPT ![comfree - 1].bg = None,
                               ![comfree] = [comm |-> c, grp |-> Head(grpfree), bg |-> bg]]
  /\ comlst' = Append(comlst, comfree)
  /\ comfree' = IF comfree = NEnts THEN None ELSE coment[comfree - 1].bg
  /\ UNCHANGED grplst

(* the free list still leads to an entry                                   *)
EntryLeft == comfree \in Ents

(* the tables are changed if the wrapper gets that far                     *)
Guarded(ok, Change) == IF ok THEN Change /\ UNCHANGED fault
                       ELSE fault' = TRUE /\ UNCHANGED tables

(* d is entered with the ranks of c and no gates; a communicator that is   *)
(* not in the table is only reported                                       *)
cominfo_dup(c, d) ==
  LET n == cominfo_get(c)
  IN  IF n = 0 THEN UNCHANGED <<tables, fault>>
      ELSE Guarded(grpfree # <<>> /\ EntryLeft,
                   cominfo_reg(d, coment[n].grp, None, None))

(* nothing happens unless c is in the table; if it is, a part of           *)
(* grpinfo_entarray is passed to free()                                    *)
cominfo_unreg(c) == Guarded(cominfo_get(c) = 0, UNCHANGED tables)

(* the options from the environment that change what is done               *)
option_get == [UTF_BG_DISABLE : BOOLEAN]

-----------------------------------------------------------------------------
(* mpi_bg_init; with UTF_BG_DISABLE the tables are never set up            *)
Init ==
  /\ \E options \in option_get : enabled = ~ options.UTF_BG_DISABLE
  /\ LET all == [n \in Ents |-> n]
     IN  /\ grpent = [n \in Ents |-> IF enabled /\ n = 1 THEN Entry(None, World)
                                     ELSE Entry(None, <<>>)]
         /\ grplst = <<>>
         /\ grpfree = IF enabled THEN Tail(all) ELSE <<>>
         /\ coment = [n \in Ents |-> IF enabled /\ n = 1
                                     THEN [comm |-> WORLD, grp |-> 1, bg |-> WORLD]
                                     ELSE [comm |-> None, grp |-> 0,
                                           bg |-> IF n + 2 \in Ents THEN n + 2 ELSE None]]
         /\ comlst = IF enabled THEN <<1>> ELSE <<>>
         /\ comfree = IF enabled THEN 2 ELSE None
  /\ mgrp = [g \in Groups \cup {EMPTY} |-> [NoGroup EXCEPT !.pure = (g = EMPTY)]]
  /\ mcom = [c \in Comms \cup {WORLD} |->
               IF c = WORLD THEN [ranks |-> World, group |-> None] ELSE NoComm]
  /\ fault = FALSE

(* MPI_Comm_group: the library returns the same group again                *)
MPI_Comm_group(c) ==
  \E g \in IF mcom[c].group = None THEN FreshGroups ELSE {mcom[c].group} :
    /\ Live(c)
    /\ mgrp' = PMPI_Group(g, mcom[c].ranks, mcom[c].ranks = World)
    /\ mcom' = [mcom EXCEPT ![c].group = g]
    /\ LET n == cominfo_get(c)
       IN  Guarded(n # 0 /\ grpfree # <<>>, grpinfo_reg(g, grpent[coment[n].grp].ranks))

(* mutant: ordered as in the second group                                  *)
IntersectionSecond(a, b) == SelectSeq(b, LAMBDA r : r \in Range(a))

(* the loops of MPI_Group_union, _intersection and _difference             *)
Union(a, b) ==
  FoldLeft(LAMBDA acc, r : IF \E j \in DOMAIN a : a[j] = r THEN acc ELSE Append(acc, r), a, b)
Intersection(a, b) ==
  FoldLeft(LAMBDA acc, r : IF \E j \in DOMAIN b : r = b[j] THEN Append(acc, r) ELSE acc,
           <<>>, a)
Difference(a, b) ==
  FoldLeft(LAMBDA acc, r : IF \E j \in DOMAIN b : r = b[j] THEN acc ELSE Append(acc, r),
           <<>>, a)

(* MPI_Group_excl: ranks to leave out become -1, the others move down      *)
Excl(a, l) ==
  LET marked == [i \in DOMAIN a |-> IF i - 1 \in Range(l) THEN -1 ELSE a[i]]
  IN  SelectSeq(marked, LAMBDA r : r # -1)

(* the common part of the functions that make a group of others            *)
GroupOf(args, truth, Copied, found) ==
  \E g \in NewGroup(truth) :
    /\ \A h \in args : Held(h)
    /\ mgrp' = PMPI_Group(g, truth, \A h \in args : mgrp[h].pure)
    /\ Guarded(found /\ grpfree # <<>>, grpinfo_reg(g, Copied))
    /\ UNCHANGED mcom

MPI_Group_union(g, h) ==
  GroupOf({g, h}, PMPI_Union(mgrp[g].ranks, mgrp[h].ranks), Union(Ranks(g), Ranks(h)),
          Listed(g) /\ Listed(h))
MPI_Group_intersection(g, h) ==
  GroupOf({g, h}, PMPI_Intersection(mgrp[g].ranks, mgrp[h].ranks),
          Intersection(Ranks(g), Ranks(h)), Listed(g) /\ Listed(h))
MPI_Group_difference(g, h) ==
  GroupOf({g, h}, PMPI_Difference(mgrp[g].ranks, mgrp[h].ranks),
          Difference(Ranks(g), Ranks(h)), Listed(g) /\ Listed(h))

(* every element must be a valid rank of the group; one beyond the layer's *)
(* own copy fails the assertion or is read outside the array               *)
Within(l, ranks) == \A i \in DOMAIN l : l[i] < Len(ranks)
MPI_Group_incl(g, l) ==
  /\ Within(l, mgrp[g].ranks)
  /\ GroupOf({g}, PMPI_Incl(mgrp[g].ranks, l), PMPI_Incl(Ranks(g), l),
             l = <<>> \/ (Listed(g) /\ Within(l, Ranks(g))))
MPI_Group_excl(g, l) ==
  /\ Within(l, mgrp[g].ranks)
  /\ GroupOf({g}, PMPI_Excl(mgrp[g].ranks, l), Excl(Ranks(g), l),
             Listed(g) /\ Within(l, Ranks(g)))

(* MPI_Group_range_incl and _range_excl leave the tables alone             *)
MPI_Group_range(g) ==
  /\ Held(g) /\ mgrp[g].ranks # <<>>
  /\ \E h \in FreshGroups : mgrp' = PMPI_Group(h, <<mgrp[g].ranks[1]>>, mgrp[g].pure)
  /\ UNCHANGED <<tables, mcom, fault>>

MPI_Group_free(g) ==
  /\ g # EMPTY /\ Held(g)
  /\ mgrp' = [mgrp EXCEPT ![g] = IF @.users = 1 THEN NoGroup
                                 ELSE [@ EXCEPT !.users = @ - 1]]
  /\ Guarded(Listed(g), grpinfo_unreg(g))
  /\ UNCHANGED mcom

(* MPI_Comm_create: the new entry gets the ranks and gates of the old one; *)
(* a process outside the group gets MPI_COMM_NULL                          *)
MPI_Comm_create(c, g) ==
  /\ Live(c) /\ Held(g)
  /\ UNCHANGED mgrp
  /\ IF Me \notin Range(mgrp[g].ranks) THEN UNCHANGED <<tables, mcom, fault>>
     ELSE \E d \in FreshComms :
            /\ mcom' = [mcom EXCEPT ![d].ranks = mgrp[g].ranks]
            /\ LET n == cominfo_get(c)
               IN  Guarded(n # 0 /\ Listed(g) /\ grpfree # <<>> /\ EntryLeft,
                           cominfo_reg(d, coment[n].grp, g, coment[n].bg))

(* MPI_Comm_dup, MPI_Comm_dup_with_info                                    *)
MPI_Comm_dup(c) ==
  \E d \in FreshComms :
    /\ Live(c)
    /\ mcom' = [mcom EXCEPT ![d].ranks = mcom[c].ranks]
    /\ cominfo_dup(c, d)
    /\ UNCHANGED mgrp

(* MPI_Comm_split: nprocs is commgroup.c's, which nobody sets, so that     *)
(* utf_bg_init refuses a group of 0 ranks; the communicator exists and its *)
(* group entry is taken and lost                                           *)
MPI_Comm_split(c) ==
  \E d \in FreshComms, ranks \in {mcom[c].ranks, <<Me>>} :
    /\ Live(c)
    /\ mcom' = [mcom EXCEPT ![d].ranks = ranks]
    /\ Guarded(grpfree # <<>>,
               /\ grpent' = [grpent EXCEPT ![Head(grpfree)] = Entry(None, <<>>)]
               /\ grpfree' = TakeEntry(grpfree)
               /\ UNCHANGED <<grplst, coment, comlst, comfree>>)
    /\ UNCHANGED mgrp

(* MPI_Cart_create, MPI_Comm_idup and the others that are not supported    *)
MPI_Comm_other(c) ==
  /\ Live(c)
  /\ \E d \in FreshComms : mcom' = [mcom EXCEPT ![d].ranks = mcom[c].ranks]
  /\ UNCHANGED <<tables, mgrp, fault>>

(* MPI_Comm_free: the library has set the handle to MPI_COMM_NULL when     *)
(* cominfo_unreg looks for it, and finds nothing                           *)
MPI_Comm_free(c) ==
  /\ c # WORLD /\ Live(c)
  /\ mcom' = [mcom EXCEPT ![c] = NoComm]
  /\ cominfo_unreg(None)
  /\ UNCHANGED mgrp

(* a collective over the gates needs an entry with gates                   *)
OverGates(c) ==
  /\ fault' = (cominfo_get(c) = 0 \/ coment[cominfo_get(c)].bg # WORLD)
  /\ UNCHANGED <<tables, mgrp, mcom>>

InLibrary == UNCHANGED <<tables, mgrp, mcom, fault>>

MPI_Barrier(c) ==
  /\ Live(c)
  /\ LET n == cominfo_get(c)
     IN  IF ~ enabled \/ (n # 0 /\ Len(grpent[coment[n].grp].ranks) < MinBarrier)
         THEN InLibrary ELSE OverGates(c)

(* MPI_Bcast, MPI_Reduce and MPI_Allreduce; "supported": the operation and *)
(* the type have a counterpart (a broadcast always)                        *)
MPI_Reduce(c, supported) ==
  /\ Live(c)
  /\ IF enabled /\ supported THEN OverGates(c) ELSE InLibrary

AllGroups == Groups \cup {EMPTY}
AllComms == Comms \cup {WORLD}

Next ==
  /\ ~ fault /\ UNCHANGED enabled
  /\ \/ \E c \in AllComms :
          \/ MPI_Comm_group(c) \/ MPI_Comm_dup(c) \/ MPI_Comm_split(c)
          \/ MPI_Comm_other(c) \/ MPI_Comm_free(c) \/ MPI_Barrier(c)
          \/ \E s \in BOOLEAN : MPI_Reduce(c, s)
          \/ \E g \in AllGroups : MPI_Comm_create(c, g)
     \/ \E g \in AllGroups :
          \/ MPI_Group_free(g) \/ MPI_Group_range(g)
          \/ \E h \in AllGroups : \/ MPI_Group_union(g, h)
                                  \/ MPI_Group_intersection(g, h)
                                  \/ MPI_Group_difference(g, h)
          \/ \E l \in RankLists : MPI_Group_incl(g, l) \/ MPI_Group_excl(g, l)

Spec == Init /\ [][Next]_vars

-----------------------------------------------------------------------------
(* An entry of grpinfo_entarray is on the free list, listed, owned by one  *)
(* communicator's entry, or lost, and never two of these: the comment on   *)
(* cominfo_ent that a communicator's entry is not in grpinfo_lst, and what *)
(* utfslist's links take for granted.                                      *)
EntriesOwned ==
  IsInjective(grpfree \o grplst \o [i \in DOMAIN comlst |-> coment[comlst[i]].grp])

(* The layer's copy of a group is what the library's group is, members and *)
(* order, for every group made from communicators of all ranks: through    *)
(* any sequence of calls, with handles the library uses again.             *)
GroupsTrue ==
  \A g \in AllGroups : Held(g) /\ Listed(g) /\ mgrp[g].pure => Ranks(g) = mgrp[g].ranks

(* No entry outlives its group: a handle the library may give out again is *)
(* not found in the list, where it would be taken for the new group.       *)
EntriesLive ==
  \A g \in Groups :
    Cardinality({i \in DOMAIN grplst : grpent[grplst[i]].grp = g}) <= mgrp[g].users
=============================================================================
