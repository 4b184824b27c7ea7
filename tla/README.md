# A TLA+ verification of UTF

UTF is a user-level communication library for the Tofu interconnect: messages
between ranks (`src/src/base`), barriers and reductions over virtual barrier
gates (`src/src/vbg`), and a layer that puts the latter under MPI
(`src/src/mpi_vbg`). This directory holds TLA+ models of its protocols, the TLC
configurations that check them, and proofs checked by TLAPS. `PROJECT.json`
relates every definition to the lines it models and lists runs, mutants,
hazards, findings and theorems.

Paths below are relative to the repository's own `src/`.

## 1. The system

### 1.1 Eager protocol (`base/utf_msg.c`, `utf_engine.c`, `utf_progress.c`)

*State.* A rank has send controls (`utf_scntr[]`), one per destination, each
with a ring of message slots (`micur`, `mient`), a state and the number of
packets it has put into its receive ring at the peer; receive rings
(`utf_egr_rbuf`) which other ranks write into, with a counter other ranks
decrement to get a ring; per ring a receive control (`utf_rcntr[]`); what it
knows of its peers' rings (`utf_egrmgt`); two hardware queues, the TCQ
(completions of piggyback puts) and the MRQ (all other notices), and a count of
the completions it is owed.

*Operations.* `utf_send` prepares a message in a slot, starts the control if it
was idle, and while slots or controls are short runs `utf_progress` inside
itself. `utf_progress` handles TCQ completions, peeks every ring that was given
out, hands a packet to the receive engine, sends a *ring reset* to the sender
once the ring is used up, and polls the MRQ if nothing arrived.
`utf_sendengine` is the state machine of a control; it is run by whatever
completion or notice comes for it.

*Interaction.* Only through remote puts, remote fetch-and-adds and notices.

*Hard.* Each rank is single-threaded, but progress nests inside sends and
remote writes land between any two instructions. Rings are bounded, the reset
must not overtake the consumer; the engine does not look at which event it runs
for; a call the hardware refuses (`BUSY`) polls completions that belong to
others.

*Correct if* each pair of ranks has a reliable FIFO channel of whole messages,
no put lands on an unread packet, no two ranks share a ring, and every send that
was accepted completes.

### 1.2 Receiving (`utf_recv`, `utf_recvengine`, `utf_wait`, requests)

*State.* The lists of posted receives and of unexpected messages, a pool of
requests shared by sends and receives with two counters, a list of rendezvous
transfers in progress, and at the sender a pool of rendezvous entries.
*Operations.* Post a receive, handle a first or a later packet, start and
finish remote gets, notify the sender, wait. *Hard.* Posting and arriving race
and each side looks at the other's list; messages of several packets are taken
over half-way; gets complete by sender only, not by request; requests are freed
by three parties. *Correct if* receives get the messages in order and whole,
nothing is lost, a sender's buffer is released after the last get, and no
request is freed while referred to.

### 1.3 Soft barrier (`vbg/utf_bg_barrier_sm.c`)

*State.* In shared memory, per start gate and process, a sequence word and a
data buffer; per process the number of its collective and its place in a
binomial tree. *Operations.* Start a collective; poll it: gather along the tree,
the manager of the node performs the collective of the interconnect and
publishes the outcome in slot 0. *Hard.* Slots are reused by the next
collective while slow processes still read; sequence words are all that
separates two collectives; gates are reused by other groups. *Correct if*
nobody leaves before everybody entered and each contribution counts once.

### 1.4 Operands (`vbg/utf_bg_barrier.c`, `.h`)

The interconnect reduces vectors of unsigned 64-bit words with SUM, MAX, MAXLOC
and bitwise operations. MIN, signed integers, reals, pairs of value and
location, logical operations and bytes are mapped onto those and back, in six
words that are never cleared between calls. *Correct if* the user gets what the
operation's definition says for every type.

### 1.5 MPI layer (`mpi_vbg/mpi_utf.c`, `commgroup.c`)

MPI hides the members of groups, so the layer keeps copies of the ranks of
every group and communicator in two tables with free lists, found by handle,
and decides per collective between gates and the MPI library. *Hard.* Handles
are reused, the library counts references, entries are found by handle only.
*Correct if* the copies are true, no entry is used twice, none outlives its
object.

### 1.6 Barrier gates (`vbg/utf_bg_alloc.c`, `utf_bg_init.c`, `utf_bg_free.c`)

*State.* Gates belong to the TNIs of a node and are few: start gates, and relay
gates that pass signals on. A process keeps the gates of each of its groups, the
TNI it will try next, and whether its first allocation failed; the processes of a
node share the header of a region of memory (`manager_info`, `next_tni_id`).
*Operations.* `utf_bg_alloc` sorts the members into nodes and axes, lays a
butterfly network over them and takes gates; what it learned is exchanged by the
caller; `utf_bg_init` connects the gates, or gives them back if any member had
none; barriers; `utf_bg_free`. *Hard.* Every member computes the network on its
own; axes whose length is no power of two, boxes with missing nodes and nodes with
several processes need extra gates; some members may find no gate; a gate is used
again by the next group while slow processes are still with the last one.
*Correct if* the two ends of every connection agree, a barrier over the gates is a
barrier, all members agree whether the group has gates, no gate is in two groups
and no signal reaches the wrong one.

### 1.7 Start and end (`base/utf_procmap.c`, `utf_init.c`, `utf_mem.c`)

*State.* The map of the job's processes, the queues each one has, the shared
segments of a node (the library's table of queues, the user's memory), registered
memory, and counts of calls. *Operations.* `utf_init` (nested calls count), the
handshake by which the leader of a node makes a segment, the others attach and
count themselves, and the leader removes the key; `utf_fence`; `utf_shm_init`;
`utf_finalize`. *Hard.* The count is kept in the segment's first word, which belongs
to the user, too, and followers do not wait for the leader; all keys are equal (`ftok` of a path that does not exist),
so segments of library and user and of an earlier, killed job meet under one key;
PMIx may fail. *Correct if* whoever may send finds its peers' memory registered,
processes of a node share each segment and nothing else, a fence is a barrier, and
a job comes to its end.

The fence is `PMIx_Fence`; the repository brings a stand-in for the simulator
(`tool/new-sim-utofu/src/pmix-tsim`) with two files, used in turn, into which each
rank writes one of four markers.

### 1.8 Other parts

One-sided operations for the libfabric provider: branches of the engine whose
callers are elsewhere. Chain mode: declared, without code. Debugging, timers,
tools, experiments.

## 2. Modules

| module | models | composes |
|---|---|---|
| `UtfChannel` | abstract: a reliable FIFO channel per pair of ranks | |
| `UtfEager` | 1.1 | refines `UtfChannel` |
| `UtfEagerInv` | inductive invariants of `UtfEager` | |
| `UtfEagerProofs`, `UtfEagerRingProofs`, `UtfEagerWindowProofs`, `UtfEagerFifoProofs`, `UtfEagerEventProofs` | theorems about `UtfEager` | |
| `UtfRecv` | 1.2; its input is what `UtfChannel` promises | |
| `UtfRecvInv` | inductive invariants of `UtfRecv` | |
| `UtfRecvProofs`, `UtfRecvOrderProofs` | theorems about `UtfRecv` | |
| `UtfCollective` | abstract: a sequence of barriers and reductions | |
| `UtfBarrierSM` | 1.3 | refines `UtfCollective` |
| `UtfReduce` | 1.4 | |
| `UtfComm` | 1.5 | |
| `UtfButterfly` | 1.6: the network a group's members compute | |
| `UtfNetwork` | a barrier through such a network, gate by gate | `UtfButterfly` |
| `UtfGates` | 1.6: groups made, used and freed by processes at their own pace | `UtfButterfly`; refines `UtfCollective` |
| `UtfFence` | the fence over two files | |
| `UtfStart` | 1.7 | `UtfFence` |
| `UtfStartProofs` | theorems about `UtfStart` | |
| `MCUtf...` | instances for TLC | |

### `UtfEager`

One process per rank with a program counter `pc`: `user` outside the library,
`sendtcq`, `alloc`, `send` inside `utf_send`, `prep`, `tcq`, `scan`, `mrq`
inside `utf_progress`, `abort`. Nested progress is the same code with a pending
send (`pend`) to come back to. Steps:

| action | code |
|---|---|
| `SendCall`, `SendAlloc`, `SendRetry`, `SendPost` | `utf_send`: TCQ first, a control for the destination, wait for a slot, prepare the message and start an idle control |
| `ProgressCall` | entry of `utf_progress` |
| `TcqStep`, `TcqEnd` | `utf_tcqprogress`: one completion, the engine on its control; the end of the loop |
| `ScanPkt`, `ScanNone`, `ScanEnd` | the loop over rings: one packet with the receive engine, the advance, the wipe and the ring reset; a ring without one; the end |
| `MrqLclPut`, `MrqLclArmw`, `MrqRecvReset`, `MrqNone` | the cases of `utf_mrqprogress` |
| `NetPut`, `NetAdd` | the interconnect |

A message is the sequence of its packets; the four types differ in number of
packets and in which completion they cause. Puts of one rank to another are
ordered (the code asks for it), nothing else is.

### `UtfRecv`

One receiving rank and its sources. `Post` (a source sends), `Recv` (a queued
message is found, or the receive is queued), `Progress` (a first packet for a
posted receive, one for nobody, a later packet, a get completed), `NetGet`,
`RndzDone` (at the sender), `WaitRecv`, `WaitCmplRecv`, and for the rank's own
sends, which use the same pool, `Send`, `EngineDone`, `WaitSend`. Receives have a
size: a rendezvous message is cut to it in the last get (`rget_continue`), an eager
message is assumed to fit, which is the caller's part.

### `UtfBarrierSM`

A step is one access to shared memory or one call of the interconnect: `Start`,
`Store`, `Signal`, `Look`, `Combine`, `LoopEnd`, `CommStart`, `PollManager`,
`Notify`, `PollWorker`, `Fetch`; `Regroup` frees the group and allocates the
next. Data is a bag of contributions, so that counting one twice or taking one
of another collective shows.

### `UtfReduce`

Two processes, on one node or on two, call the same collectives one after
another. `Start` writes the operands over what `idata` held, `Complete` reduces
the words and converts them back. Words, integers and reals have few bits but
the layout of the real types (sign, exponent, mantissa), so that zeros of both
signs, infinities and NaNs occur; sums of reals are done in the long format and
rounded to the nearest real, ties to even, on the way back.

### `UtfComm`

The tables of one process beside the objects of the MPI library (external), one
action per wrapper. `coment[n].bg` is two things in the code, the gates of an
entry and the link of the next, because `cominfo_entarray` is declared with
the type of the smaller group entries; so it is in the model.

### `UtfButterfly`, `UtfNetwork`, `UtfGates`

`UtfButterfly` has no state: from the coordinates of a group's members it defines,
as `make_axes_and_intra_node_infos`, `make_butterfly_network` and
`set_local_vbg` do, each member's rows of sends and receives, the optimized
sequence, the gates and to which gate of which member each is connected.
`UtfNetwork` lets the members of one group enter a barrier in any order and
propagates signals to the end. `UtfGates` is the life of groups: `utf_bg_alloc`,
`utf_bg_init`, `Sync` (the barrier of the MPI library that ends `MPI_Init`),
`utf_barrier`, `Post`, `utf_poll_barrier`, `utf_bg_free`, `MPI_Finalize` per
process and `Fire` for a relay gate, each gate counting signals from its local and
its remote source. What `PMPI_Alltoall` exchanges is available once all members
have called it. Gates of the interconnect (`utofu_alloc_vbg` and what a gate does)
are external.

### `UtfFence`, `UtfStart`

`UtfFence` is `fbarrier`: a process reads the file's bytes, writes its marker in a
step of its own, and then reads the file again and again until it finds as many markers as
there are processes. `UtfStart` runs a program of calls in every process, one step
per access to shared memory, per system call and per PMIx call. `NextJob` ends a
job at its end or anywhere before (a killed job): processes detach, segments that
still have their key stay. The head of a segment, in which the handshake counts, is
the first word of what the user gets: `Store` may write it (`Words` is what programs
store there). The leader's reset of the head and its `IPC_RMID` are one step
(`Remove`): nobody reads the head between the two, and who needs the key may as well
come before both.

## 3. Runs

Every run is a `.cfg` of the same name.

| run | module | checks | result |
|---|---|---|---|
| `EagerPair` | `MCUtfEager` | `TypeOK` `PipeInv` `OneEvent` `MinfWindow`, `FifoLive` `EventuallyRetired` | holds |
| `EagerCrowd` | `MCUtfEager` | `RoomExclusive` `NoAbort`, `FifoSafe` | holds |
| `EagerFanOut` | `MCUtfEager` | `ResetAddressed` | violated |
| `RecvMatch` | `MCUtfRecv` | `NoMissedMatch` `Delivered` `NothingLost` `RndzReleased` `InOrder` | holds |
| `RecvLive` | `MCUtfRecv` | `PoolSound`, `RecvCompletes` | holds |
| `SoftBarrier` | `MCUtfBarrier` | `TypeOK`, `Collective` `EveryoneLeaves` | holds |
| `SoftRegroup` | `MCUtfBarrier` | `WorkerWaits` | violated |
| `ReduceOperands` | `MCUtfReduce` | `IntegersCorrect` `RealCorrect` `RealSumCorrect` `LocatedCorrect` `PackedCorrect` | holds |
| `CommTables` | `MCUtfComm` | `EntriesOwned` `GroupsTrue` `EntriesLive` | holds |
| `GateShapes` | `MCUtfNetwork` | `Connected` `BarrierExact` | holds |
| `GateJobs` | `MCUtfGates` | `GatesOwned` `NoSignalAstray` `SameBuffer`, `BarrierCorrect` `AllDone` | holds |
| `StartJobs` | `MCUtfStart` | `PeersReady` `SameSegment` `LeaderWaits` `NoAbort` `FenceExact`, `AllEnd` | holds |

`PoolSound`, `GatesOwned` and `SameSegment` contain the type invariants of their
modules; `GatesOwned` also says that the members of a group agree whether it has
gates.

### Bounds, and why they are enough

* `EagerPair`: a ring of 2 packets, 2 message slots and 3 messages, each of 1
  or 3 packets. The ring fills and is reset several times, also in the middle
  of a message, the slots wrap around, and `utf_send` has to wait for a slot.
  Three types are used; a buffered message differs from a rendezvous request
  in nothing this module tells apart (one packet, a local-put notice) but the
  state its completion leads to.
* `EagerCrowd`: rings of one packet, so that every packet needs a reset; two
  ranks ask rank 0 for rings while one of them also asks the other, for whom it
  has no control left (the path on which `utf_send` gives up), with `BUSY` answers
  anywhere: all orders of three fetch-and-adds.
* `RecvMatch`: two sources, two tags, messages of two packets and of three gets,
  exact and full wildcard receives with room for two parts, so that the last get
  is cut off. Two messages of a source show an order; `ThreeSent` limits the second
  source to one, which is enough for a message that must not be taken for another
  source's. The pool has requests for everything.
* `RecvLive`: one source and a pool of five requests, which two posted
  receives, two unexpected messages and a send use up.
* `SoftBarrier`: with five processes the tree has three levels and a rank
  without a pair on the first, whose sum is taken up two levels later; a second
  node makes the interconnect's collective wait; a
  group does two collectives, so that a slow process can meet the next one,
  and is then replaced by another on any gate, the same or a second one.
  Sequence words: see *Findings*, `SoftRegroup`, for the group of one
  collective.
* `ReduceOperands`: words of 6 bits and small types of 3 keep every boundary
  the conversions have (sign bits, shifts of a small type to the top of a
  word, flags across the end of a word); two calls in a row, as what one
  leaves in `idata` is all the next one can find.
* `CommTables`: four entries, three groups besides the empty one and one
  communicator besides `MPI_COMM_WORLD`; handles are reused. Four ranks reach
  the minimum size of a barrier over gates.

* `GateShapes`: lines of up to seven nodes, planes and boxes with an axis of up
  to five, each with and without its last node, one to three processes per node,
  ranks by node or round the nodes: every case of the butterfly (powers of two,
  remainders of one, two and three, an axis of length 1, a zone shared by two axes).
* `GateJobs`: six processes in six jobs that differ in placement and in the number
  of gates: enough, too few for the first group, too few for the second on some
  nodes, just enough for a group to take the gates of a freed one, gates within
  nodes over two TNIs, and shared memory within a node with a manager that changes
  from group to group. Two barriers per group, so that signals of the second can
  meet the first. `Synced = TRUE`: the job starts with `MPI_Init`.
* `StartJobs`: three processes, all on one node or one apart, so that leader and
  follower of a node and a node of one occur; nested `utf_init`; user memory, in which
  the program stores after a fence, the number of processes into the first word
  (`Words`), given back and asked for again; five fences, more than there are
  markers; a first job killed at any step and a
  second one, in which the process manager's `PMIx_Resolve_nodes` comes first and
  the user's memory may be smaller than, or as large as, the library's.

Deadlock checking is off in the `Recv` runs, in `ReduceOperands` and in
`CommTables`, where the application may stop calling, in `GateShapes`, `GateJobs`
and `StartJobs`, which come to an end, and in `SoftBarrier`, where `EveryoneLeaves`
says more; the eager runs and `SoftRegroup` check it, as a rank can always call
`utf_progress`.

### Fairness

The library has no thread: it advances only while the application calls it.
Liveness is therefore stated for applications that keep polling, which is what
`utf_wait` does. `UtfEager` has weak fairness of a rank's call of
`utf_progress`, of the steps inside the library (a running call goes on), and of
the interconnect; strong fairness of finding something in the TCQ and in the
MRQ, because a poll that comes too early finds nothing and the queue is polled
only in some calls, over and over. `UtfRecv` has weak fairness of handling what
is there and of the interconnect; there is none for the application's calls.
`UtfBarrierSM` has weak fairness of each process's poll, as
`mpi_bg_poll_barrier` and `mpi_bg_poll_reduce` loop until completion; none for
starting a collective. `UtfGates` and `UtfStart` have weak fairness of each
process, whose program goes on by itself, polling included (`mpi_bg_poll_barrier`,
the loops of `utf_shm_init_internal` and `fbarrier`); `UtfGates` also of the relay
gates. That a job is killed is never forced; `AllEnd` speaks of the last one.

## 4. Proofs

`ConstAssumption` of `UtfEager` is all that is assumed of it where nothing else is
said: at least one rank, one control, one slot and one packet, in-place messages of
more than one packet. Nothing bounds ranks, rings, messages or destinations. TLC
checked every inductive invariant before it was proved.

**`TypeCorrect`** (`UtfEagerProofs`): `Spec => []TypeOK`. `TypeOK` alone is not
inductive: that the index of a control or of a slot stays in its array needs to
know that a control in use has a destination, which state a control waiting for
a reset goes back to (`ControlOK`), and that a rank inside `utf_send` has the
destination and, past the allocation, the control it needs (`CallOK`). `TypeInv`
is their conjunction. A first group of lemmas types the operators (`NextEntry`,
`Transmit`, the engine), then there is one lemma per action and `TypeNext` puts
them together.

**`RoomsExclusive`** (`UtfEagerProofs`): `Spec => []RoomExclusive`. The
grant of a ring is a fetch-and-add whose answer travels; the property speaks of
the rings a rank knows it has, the induction needs those on the way as well.
`RoomInv` says that all rings granted by a rank, known or on the way, are
different and above its counter; `ControlInv` that a request and its answer
belong to a control in use for that destination. Most actions leave grants and
controls' owners alone (`RoomKept`, `ControlKept`, and the `...Stable` lemmas);
`SendAlloc`, `SendPost`, `NetAdd` and `MrqLclArmw` have lemmas of their own.

**`RingsKeepPackets`** (`UtfEagerRingProofs`): `Solo => Spec => []RingInv`, for
rings of any size. `Solo` says that every rank has one control or one destination;
the code sends every reset notice to control 0 (finding `EagerFanOut`), and without
`Solo` the statement is false. `RingInv` says where the packets are that sender and
receiver have counted: the slots between the receiver's and the sender's position
hold exactly the packets put and those on the way follow them, and the sender, the
receiver and the notices agree which of the two is to begin the ring again. Its
induction needs that no second control of the rank uses the same ring
(`OneControl`) and that no other rank was given it, which is `RoomInv`.

**`WindowsExact`** (`UtfEagerWindowProofs`): `Spec => []MinfWindow`. `micur` and
`mient` run around and are set back to 0 in one case; `WindowInv` ties both to the
number of messages posted and retired, so that the slots between them hold the
messages between the two counts in order and all others are empty.

**`PipeHolds`**, **`ChannelImplemented`** (`UtfEagerFifoProofs`):
`Solo => Spec => []PipeInv` and `Solo => Spec => FifoSafe`, where `FifoSafe` is the
specification of `UtfChannel` (without its fairness) under the refinement mapping.
`PipeInv` joins rings and windows with `StreamInv`: the
packets of the posted messages, one after the other, are what the receiver
has taken, then what lies in its ring or is on its way, then what the sender has
not put yet. The posting of a message maps to the channel's send, the receive of a
message's last packet to its delivery, and every other step to a stutter, with the
retirement of a slot in between.

**`OneEventEach`** (`UtfEagerEventProofs`): `ToqBusy = FALSE => Spec => []OneEvent`.
`EventInv` counts the events of a rank (puts and adds in flight, completions,
notices), each bound to the control that waits for it; a control in a waiting
state has exactly one, and `tcq_count` is the number of completions still owed. With
`BUSY` answers the code loses completions (see *Findings*), and "exactly one" becomes
"at most one", which is what `EventInv` then says.

**`NoAborts`** (`UtfEagerEventProofs`): `EnoughRings => Spec => []NoAbort`, with
`BUSY` answers too. Each `abort()` and assertion of the send engine is excluded by
one of the invariants above, the one for want of a ring by `AskInv`: a rank asks
another once, and the counter is what it was at the start less the ranks served.
`EnoughRings` (as many rings as senders) is needed because the code aborts otherwise.

**`PoolsSound`** (`UtfRecvProofs`): `Spec => []PoolSound`, assuming
`RecvAssumption`: arguments and messages have their types, limits are positive,
eager messages fit the receives. `PoolInv` gives every request one life: who
may refer to it (the free list, a list of receives or messages, a ring, a get,
the send engine, the application), in which combinations, and what state and
type it has then (`Role`); that nobody refers to one twice (`Distinct`); and that
the counters are the numbers of requests off the free list by type (`Counts`).
Every action changes the role of one request: the lemmas on lists say what it does
to the sets of requests, and `RolesStep` leaves all others alone.

**`MatchesMeet`** (`UtfRecvProofs`): `Spec => []NoMissedMatch`. A receive is posted
only when the search of the queued messages found none, and the other way round
(`ExpFirst`, `UexpFirst`); lists lose entries but an entry never changes.

**`MessagesDelivered`** (`UtfRecvProofs`):
`Spec /\ [][~ PacketDropped]_vars => []Delivered`, for any number of sources, sizes,
requests and calls. `DataInv` follows a message from its source to the user: the
packets in a ring follow each other without a gap and the first one is what the
ring's request waits for (`Stream`); a message being filled, a queued one, a posted
receive and a message being got each have exactly the parts that their counter says,
in the library's buffer or in the user's (`Fill`, `Queued`, `Posted`, `Got`); a
receive is with one of them or has everything that fits (`DoneRecvs`). A notice of a
completed get says only from which source it comes: it is counted for the right
request because the gets of a source are in the order of `utf_rget_proglst`, those
that have landed come first and are as many as the notices (`Gets`, `Ordered`), so
that the first request `find_rget_msgreq` meets is one of them (`RgetLanded`). Every
step touches one request and at most the receive that waits for it; `DataStep` says
that all others keep what they have. `PacketDropped` is the step in which the engine
has no request for a packet and the packet is gone: the rest of its message is then
taken for the start of one, and a later receive gets parts of two messages. TLC finds
that with one request for receives and two packets per message, so the condition
cannot be left out; nothing else is asked of the limits.

**`SendersReleased`** (`UtfRecvProofs`):
`Spec /\ [][~ PacketDropped]_vars => []RndzReleased`. A notice names a message only by
its position in `utf_rndz_pool`, which the next message uses again as soon as
`utf_rndz_done` has put it back. `RndzInv` says that a position is free or that of
one message (`Positions`); that while the sender has not been told, one packet in the
ring (`OnWay`) or one request that waits for a receive or is got (`Placed`) has it;
and that the sender is told, and its request done, only of messages that a receive
has whole (`Told`). A packet's position goes to the request that takes the packet
(`TakesOver`), the request's to the notice (`Reports`); `DataInv` gives that the
message is all there by then, and that each get belongs to a request that has not
reported. The condition is `DataInv`'s; on small instances TLC finds no violation of
`RndzReleased` with dropped packets either.

**`MessagesKept`** (`UtfRecvProofs`):
`Spec /\ [][~ PacketDropped]_vars /\ [][~ RunsOut]_vars => []NothingLost`. `LostInv` says
that the first packet of a message is in its ring, or that the message is queued or
with a receive, and that a posted receive has none: a later packet finds its request
in `urp`, so it is with the first that the engine takes the message over. The other
ways to abort are excluded by the earlier invariants: the request of a get that has
landed is on the progress list (`DataInv`), and the position of a notice is its
message's (`RndzInv`). `RunsOut` is a step whose allocation of a request or of a
position finds nothing and aborts. It has to be a condition: the code's limits on
send requests, receive requests and positions each admit one more than the limit,
and the pools have room for the limits alone (hazard at `utf_msgmacros.h:62`).

**`ReceivesInOrder`** (`UtfRecvOrderProofs`):
`Spec /\ [][~ PacketDropped]_vars => []InOrder`, wildcards included. `InOrder` counts:
up to a receive, as many receives are like it as messages would fit. It follows
(`OrderCounts`) from what `OrderInv` says of single messages: a message is with one
receive (`Once`), which it fits (`Matched`); receives that are alike have got
messages in their order, and no earlier message that would fit is with nobody
(`InTurn`). For a step to keep that, the queue has a source's messages in their
order (`QueueLine`), a ring's come after all that were queued or received
(`RingLine`), the posted receives are in the order of the calls and include every
receive that waits (`PostLine`), and no message is both queued and received
(`Apart`). A receive that takes the first queued message that fits then takes the
least one, since nothing less is in the ring (`RingLine`) and everything is
somewhere (`LostInv`); receives like it do not wait, or the two would have met
(`NoMissedMatch`). A packet that meets the first posted receive that fits is the
mirror image (`QueuedIsNext`, `PostedIsNext`). Without the condition the statement
is false, as TLC finds with one request for receives: the message of a dropped packet is
skipped. An allocation may fail: the rank has then aborted (`LostOrStopped`).

**`FencesExact`** (`UtfStartProofs`): `Spec => []FenceExact`, for any number of
processes, fences and jobs. A marker says only which of four fences it is from, a
file is written again two fences later. `FenceInv` says that nobody leaves a fence
before everybody has written its marker (`Written`), so that processes are less
than two fences apart; that each byte of the two files is the last marker its
process wrote there (`Bytes`), which by that distance is the one of this fence or
of the one before the last and never of four fences ago (`ByteTells`); and that a
marker seen before writing one's own was really there (`Seen`). `StartAssumption`
and the assumption of `UtfFence` that the processes are numbered from 0 are used.

**`QueuesApart`** (`UtfStartProofs`): `utf_tni_select` gives two processes of a
node different queues, for every number of processes up to the table's 48.

**`SegmentsShared`**, **`OnlyLeftoversAbort`**, **`LeadersWait`** (`UtfStartProofs`):
`FirstWordSafe => (Spec => []SameSegment)`, and the same for `NoAbort` and
`LeaderWaits`, for any nodes and jobs. `FirstWordSafe` is a condition on programs:
they leave the first word of their memory alone (`Words = {}`), or every store of
theirs has a `utf_fence` between `utf_shm_init` and itself (`StoresFenced`). It
cannot be left out: in a program that stores as soon as it has its memory the
handshake may end early and another process abort, or never end, or wipe the store
(*Findings*). The repository's users of `utf_shm_init` are of these kinds:
the header of the gates' buffer reserves the word (`ul`,
`vbg/utf_bg_internal.h:137`), and in `mpitest/src/shmem.c` the first rank, a leader
and so out of the handshake, clears the word and everybody uses it after a barrier
(there MPI's).
Every segment of every job has the same key, so it is a matter of time which one
`shmget` finds. `ShmInv` says whose a segment with the key is (`KeyWhy`): its
node's leader's, which is between `shmget` and `IPC_RMID`, or a killed job's that
no leader of this job has touched yet; there is one per node (`KeyOne`). Followers
attach between the leader's `PMIx_Put` and `IPC_RMID` only, since the leader is past
the first before they find its value and waits for their count before the second
(`Counting`, `Heads`: the head is one more than the number of followers that have
counted themselves). A fenced store finds nobody in the handshake (`StoresFree`):
everybody has come to the fence, by `Passed` below, and so is past its
`utf_shm_init`. `WordInv` says that a segment with its key has had no such store, and
that after the first one the word is what was stored. `LocalInv` relates a process's place in its program to what it
has called and is attached to. `ProgramsAssumption` is what callers owe the library:
shared memory after `utf_init`, no store after `utf_shm_finalize`, no
`utf_finalize` without its `utf_init`.

**`PeersFound`** (`UtfStartProofs`):
`FirstWordSafe /\ OneLife => (Spec => []PeersReady)`. `Passed` counts the fences of
a program (a `utf_init` that finds the library not in use, the last `utf_finalize`, each
`utf_fence`): `ntimes` is their number before a process's place. `Ready` says what a
process has from its registration of memory and its entry in the table up to its
teardown. A process in use is past the fence of the first `utf_init`, so by `Written`
everybody has come to it; were anyone past the fence of the last `utf_finalize`, the
process in use would have come to that and not be in use. `PlacesAssumption` bounds
the processes of a node by the table's 48. `OneLife` says that no `utf_init` follows
the last `utf_finalize`: without it the statement is false, because `notfirst` keeps
the second life from getting queues (*Findings*).

Only model-checked: everything else, in particular the refinements of
`UtfCollective` (`Collective`, `BarrierCorrect`), and the properties of `UtfComm` and
`UtfGates`; of `UtfRecv` and `UtfStart` only the liveness properties `RecvCompletes`
and `AllEnd`. Liveness and fairness are out of the prover's reach. `UtfReduce` and
`UtfButterfly` compute with powers of two and folds, of which only parts can be
proved.

## 5. Findings

* **`EagerFanOut`**: a ring reset is addressed by the header's `sidx`, which the
  sender never sets (`base/utf_msg.c:95`). A rank with two destinations gets the
  reset of the second on the control of the first.
* **`SoftRegroup`**: sequence words survive their group, numbers start at 0
  again (`vbg/utf_bg_alloc.c:550`): the first barrier of a new group may let a
  worker through.

Seen while modelling, modelled as the code has it, and without a run of their own:

*Messages.* A completion polled inside a transmit call that was refused is returned
as the call's result; three callers ignore it (`include/utf_errmacros.h:57`) and
its send never completes: with `ToqBusy` `EventuallyRetired` fails. `utf_recv` on a
message of which some packets are still to come never copies it to the user
(`base/utf_msg.c:223`), and `utf_waitcmpl` takes such a request for done;
`Delivered` leaves these receives out. The request limits admit one request too many
(`count > limit`); a packet that finds no request is dropped though the comment
says it is to be handled later, and the next one of its message is taken for the
start of a message; wildcard receives compare a source with a tag. With
more than one control and destination per rank `RingInv` fails for the reason of
`EagerFanOut`.

*Operands and MPI.* Ties of MAXLOC and MINLOC of small types are decided by stale
bytes; a logical reduction of 0 elements never meets the end of its loop
(`vbg/utf_bg_barrier.c:736`); the overlapping entries of `cominfo_entarray`, by
which the first `MPI_Comm_dup` takes the gates away from `MPI_COMM_WORLD`;
`MPI_Comm_free` looks for a handle that has already been set to `MPI_COMM_NULL`,
and would unlink a communicator's entry from the list of groups;
`MPI_Comm_split` asks for gates of 0 ranks; `MPI_Comm_create` copies the old
communicator's ranks and gates; `MPI_Comm_group` has no table to look in when the
gates are disabled.

*Gates.* `MPI_Init_thread` has no barrier after the gates are connected and does not
look whether they are disabled: with `Synced = FALSE` `NoSignalAstray` fails.
`mpi_bg_init` does not look at what `utf_bg_init` returns. `manager_info` has one
entry per process: two groups allocated before the first is initialised overwrite
each other's (`SameBuffer`).

*Start.* The handshake of `utf_shm_init` counts in a word that is the user's already
(`base/utf_procmap.c:422`): where the comment has the leader "wait for other
processes' progress", a program that stores there before everybody is back from the
call can end the wait early, so that a process that has not attached aborts, or keep
it from ending, or lose its store to the leader's reset. With three processes on a
node, the program `init`, `shm_init`, `store`, `fence`, `finalize` and `Words = {3}`
TLC finds `LeaderWaits` violated. A job killed inside `utf_shm_init` with a user segment smaller than the
table of queues leaves a key under which the next job's leader fails (the one
exception of `NoAbort`); two jobs on one node at a time would share it. If PMIx fails,
`utf_get_peers` stores through the null pointers `utf_init` passes
(`base/utf_procmap.c:348`); errors of `PMIx_Fence` are ignored; the static `notfirst`
keeps a second `utf_init` after the last `utf_finalize` from getting queues again.
In the simulator's PMIx a get that finds a file still empty may return the last
key's value, which stays in the buffer, and what is put as `PMIX_LOCAL` reaches
nobody, so that it runs one process per node.

## 6. Not modelled

* One-sided operations, libfabric paths, chain mode, debugging, timers, tools:
  section 1.8 and the notes in `PROJECT.json`; PMIx's put and get, but for the set
  of keys published.
* Failures of uTofu calls other than `BUSY` and a shortage of gates, eager messages
  larger than the receiver's buffer, the count of 0 in a logical reduction.
* Weak memory: shared-memory accesses are in program order, as the barriers in
  the reductions make them; `utf_poll_barrier_sm` has none.
* The padding of `SHORT_INT`; the choice of axes and of shared memory or gates from
  the environment.
* Two collectives at once in one process (the poll state is one global).

## 7. Plan

1. Theorems about `UtfComm` (`EntriesOwned`, `EntriesLive`).
2. Theorems about `UtfGates` (`GatesOwned`) and the sequence words of `UtfBarrierSM`.
3. The safety part of the refinement of `UtfCollective`, and that `UtfStart`'s
   fences implement it.
4. Failures of the interconnect in `UtfBarrierSM`; overlapping groups in
   `UtfGates`.
