# C-Stabilizer: TLA+ models, model checks and proofs

C-Stabilizer (`src/`) is the Eunomia service in C++. Vnodes send it batches of
labels, each with a timestamp, and heartbeats: promises not to send anything
older. It orders the labels of all vnodes by timestamp and passes on those that
no vnode can undercut any more. This directory holds TLA+ modules translated
from the code, TLC configurations for small instances, and TLAPS proofs for
every instance.

## 1. The system

    vnodes --TCP--> SocketManager --OnData--> ServerAPI::Decode        receiver thread
                                                  |
                             IncreaseQueueSize, producer -> intermediate queue
                                                  v
                             intermediate -> consumer queue, DecreaseQueueSize
                                                  |
    label receiver <--TCP-- DoPossibleBatchDelivery <-- processQ       processing thread

    main(): starts and configures both threads, then sleeps

| Component | State | Operations | What makes it correct |
|---|---|---|---|
| Stabilizer core, `ProcessingThread` | `m_heartbeat`, `m_storage` (multimap), `deletedList`, `m_processed`, `m_socketfd` | `processQ`: `InsertBatchLabels`, `UpdateHeartbeatTable`, `GetStableTimestamp`, `DeletePossibleLabels`, `DoPossibleBatchDelivery` | labels leave in timestamp order; none lost or repeated; none withheld; the label receiver gets a prefix of that order |
| Hand-off, `QueueSizeCondition` and the threads' loops | `m_iObectSize`, a mutex, one condition variable, three queues | `IncreaseQueueSize`, `DecreaseQueueSize`, push, poll | exact counter, no underflow, no lost wakeup, FIFO, back-pressure is lifted |
| Linked queues, `EventQueueFrame` | heads, tails, packets, `m_mutexQueueHolder` | `AddToProducerQueue`, `PushToIntermediateQueue`, `PollFromIntermediateQueue`, `PollFromConsumerQueue` | no dangling pointer, no leak, FIFO |
| Start-up, `main` | settings of both threads | start, configure | no setting is used before it is written |
| Framing, `ServerAPI` over `ClientData` | a receive buffer per client | `OnData`, `Decode`, `GetPayLoadLength`, `ProcessedSocketData`, `Append`, `DeleteFromStart` | the messages sent are the messages decoded, however TCP cuts the stream |
| Event loop, `SocketManager::ReadSockets`, `Server`, `Client` | `m_ptrServerTypes`, `lst_ConnectedClients`, epoll | accept, read, hang-up, error paths | no socket is stranded, callbacks once and in order |
| Output path, `SendToClient`, `Client`, `Server` | `m_SendBuffer`, `b_IsBuffered`, `set_OnReadyToSendClients`, `set_DiconClients` | `Send`, `SendToAllClients`, `SendToClient`, the `EPOLLOUT` branch, the two loops after the events | what is sent arrives once and in full although `write()` is partial; a failed write leads to `OnDisconnect` |
| Timer wheel, `Run`, `FireAll`, `Timer` | `set_Timers`, `lst_FireAll`, `m_ptrTimers`, free ids, `ui_CurrentPos`, `ui_TotalDeviation` | `CreateTimer`, `~Timer`, `AddToTimerList`, `AddToCorrectSlot`, `Run`, `FireAll` | an id names one timer; no timer is forgotten; none fires early |
| `ThreadToken`, `Timer_Q`, `CreateClient`, `Detach`, `AttachClient` | - | never called | - |

The hard behaviours: messages of several vnodes interleave; two threads share
three queues and one condition variable without locking two of the queues; the
threads run before they are configured; sockets are edge triggered and peers
act between any two system calls; TCP cuts the stream anywhere; the label
receiver may go away between a request and its reply; `it--` in
`DeletePossibleLabels` is undefined on an empty multimap; the wheel's position
is moved by what was decided before a callback ran, and wraps. The program
itself never sends to its clients and has one timer; the output path and the
wheel are library code, modelled with an application (external) that uses them
as their interface allows. `PROJECT.json` lists
each hazard at its line with the properties that watch it.

## 2. Modules

**ProcessingThread.tla** - the loop of `processQ`, one action per step:
`TakeMessage`, `InsertBatchLabels` (one label per step), `Stabilise`
(`UpdateHeartbeatTable`, `GetStableTimestamp`, `DeletePossibleLabels`),
`SkipDelivery` / `WriteBatch` / `ReadReply` (`DoPossibleBatchDelivery`) and
`Report`. `m_storage` is a sequence in map order; `MultimapInsert` puts a label
behind those with the same timestamp. Labels carry their sender and number, so
that losses and repetitions can be seen; the code pushes the bare value.
Vnodes and the label receiver are external: vnodes keep their promises (the
code relies on it), the label receiver answers or closes at any time. It
answers a batch with `ReplyPieces` pieces and `read()` returns one of them, so
that batches may be under way (`wire`) before earlier ones are answered.
`Init` allows a connection that was never made, because `main` only prints the
status. The undefined `it--` kills the process exactly when `m_storage` is
empty; the build is `-O0`, where the decrement is carried out and reads through
a null pointer on an empty tree and is harmless otherwise. A write to a
connection that is gone may kill the process (SIGPIPE is not handled).

**OrderedDelivery.tla** - the abstract specification of the whole service, with
no queue, table or thread: partitions send labels and promise a bound; labels
that no promise allows to be undercut are released, in timestamp order, each
once, those of one partition in the order they were sent. `Service` in
`ProcessingThread` maps `stabilised` to `released` and the vnodes' last
heartbeats to the promises.

**Channel.tla** - the abstract specification of the hand-off: a bounded FIFO in
which everything given is taken, in order, once.

**HandOff.tla** - the receiver thread (`Decode` from the point where a message
has been parsed) and the processing thread (`StartProcesser`), with critical
sections as steps and condition waiting in two steps; spurious wakeups are
allowed. The counter is unsigned (`UAdd`, `USub` wrap at `SizeModulus`).
`ImplementsChannel` maps `admitted`/`processed` to the channel's
`given`/`taken`.

**EventQueueFrame.tla** - the same queues at the level of pointers, every
assignment a step, deleted packets allocated again. What is on a list is
`Reach`, the least set that holds the head and is closed under `m_ptrNext`. It
implements `Channel` as well.

**MultiplexerServer.tla** - extends `HandOff` with the main thread: the calls
of `main()` in their order. `m_ignoreMsgCount` starts with any value, as the
constructor of `ServerAPI` leaves it.

**FrameDecoder.tla** - clients (external) append frames to their `stream`;
`OnData` gets a chunk of any length of it, then one step per round of `Decode`.
A byte is a pair of kind and meaning; a field or a label is one byte. `strtok`
becomes `Nth(Tokens(data, kind), n)`, the n-th place with a byte of that kind.
What `Decode` does with a parsed message is in `HandOff`. A chunk of
one byte makes `OnData` look at the byte before `z_ReadBuff`, the top byte of a
pointer and never a CR. `Telnet` and `DocumentedOrder` describe what a client
sends.

**SocketManager.tla** - `ReadSockets`, one action per system call and its
consequences, with the kernel's ready list and the peers as external actions.
Sending is part of it: `Send` is `Client::Send` in any callback (or timer) the
application has, `SendToClient` goes on from there write by write and returns
to where it was called (`back`), `OutEvent` to `WriteDone` are the `EPOLLOUT`
branch, `ReadyToSend` and `Disconnect` the loops over the two sets. Data is
counted in units. A connection whose peer is reset can end the process
(`WriteKills`), because nobody ignores SIGPIPE. `OnDisconnect` after a hang-up
or a failed read runs inside one step; it cannot send to the client it reports.

**TimerWheel.tla** - `Run` and `FireAll`, one box per step, with `OnTimer` and
`ReadSockets` as the points where the application creates and deletes timers.
The first loop of `FireAll` is `CollectBox`, box by box, and `CollectDone`; the
second one is what `Run` does with a slot (`Boxes`).
`Timer` objects are addresses that may be used again. How long a pass, the
callbacks or `epoll_wait` take is any number of milliseconds up to
`MaxElapsed`. The position is unsigned (`PosModulus`). `left` and `togo` are
history: the positions until a timer may fire and until its box comes up.

**Stabilizer.tla** - the whole service from the decoded message on: it
instantiates `HandOff` and `ProcessingThread` side by side and joins their
actions where the code is one piece (`Decode` sends, `TakeMessage` polls the
consumer queue, `EndMessage` deletes the packet). `Waiting` is the refinement
mapping: what lies in the receiver thread's hand and the three queues is the
queue `processQ` sees.

`MC*.tla` give constants their values. The modules `*Proofs.tla` hold the
theorems: `ProcessingThreadProofs`, `StabilizerProofs`, `HandOffProofs`,
`MultiplexerServerProofs`, `EventQueueFrameProofs`, `SocketManagerProofs`,
`TimerWheelProofs` and `FrameDecoderProofs`, each for the module it is named
after. Definitions called `Mut...` are
wrong on purpose: each is a version
of the definition after it that a slip in the code could produce, and the
property it belongs to fails with it. They are not part of any specification.
The last section of `ProcessingThread`, `SocketManager`, `EventQueueFrame`,
`TimerWheel` and `FrameDecoder` holds what their proofs need beside the
properties, so that TLC can check it.

## 3. Model checking

| Run | Instance | Shows |
|---|---|---|
| `stabilise` | 2 vnodes, timestamps 0..1, 4 messages of 0 to 2 labels, 3 labels per vnode, delivery size 1, replies in 2 pieces | `StabilisedInOrder`, `ReceivedIsPrefix`, `NoLabelLost`, `NothingStableWithheld`, `StableNeverRegresses`; `DiesOnlyOnBrokenPipe`: while messages carry labels the undefined decrement is never fatal; the refinement of `OrderedDelivery` |
| `stabilizer` | capacity 25 bytes (two packets), 4 messages of 1 label, the first ignored, fairness | the refinement of `ProcessingThread` by the composition, `NoLabelLost` across the queues, `StableLabelsLeave`, `StableLabelsReachReceiver` end to end |
| `handoff` | capacity 50 bytes, 7 messages, 3 values of the ignore count | `SizeIsExact`, `WaitsForAReason`, `FifoExactlyOnce`, the refinement of `Channel` with its liveness, `ReceiverComesBack` |
| `startup` | 6 messages, ignore 2, field starts at 0, 2 or 3 | `ConfiguredBeforeUse`; `main` and its threads refine `HandOff` |
| `startup_ignore` | same | violated: see findings |
| `queues` | 3 packets, 5 messages | `NoDanglingPointer`, `EachPacketInOnePlace`, the refinement of `Channel` |
| `frames` | 2 clients, 0 to 2 frames of 2 lengths, every cut, buffer of two short frames | `FramesDecoded`, `BufferFits` |
| `frames_telnet`, `frames_order` | 1 client | violated: see findings |
| `event_loop` | 3 connections, 2 descriptors, 2 events per wait, 2 read turns, 2 units received per connection and 2 sent, socket buffers of 1 (symmetry) | `NothingStranded`, `CallbacksInOrder`, `NoCallAfterDisconnect` |
| `event_loop_live` | 2 connections, fairness | `DataArrives`, `DisconnectReported`, `SentDataLeaves` |
| `timers` | the heartbeat timer and one more, one-shot or repeated, intervals of 1 and of a whole turn, 4 slots, positions modulo 8, up to 3 ms between looks at the clock | `IdsSound`, `NotOverlooked`, `NeverEarly`, `EveryTimerFires` |

Every run also has the module's type invariant where it has one; `MaxLabels`,
`MaxMessages`, `MaxSent`, `MaxAppend`, `MaxTimerID` and `MaxElapsed` are bounds,
all other constants stand for something in the code.

Why the bounds are enough. Out-of-order stabilisation needs
two partitions, a label, and a heartbeat of each that are apart: three messages;
the fourth lets a heartbeat be overwritten twice and a second batch be
delivered. Two labels in a message and two timestamps give labels of equal
timestamps within a batch, between batches and between vnodes. A delivery size
of 1 makes both outcomes of the size test happen, and a second piece of a reply
lets a batch go out unanswered. In `stabilizer` two packets fill the capacity,
so both threads come to wait. The capacity 50 is, like
50000, no multiple of 24, so the last packet let in exceeds it; seven messages
fill the queues twice. Three packets for five messages force addresses to be
used again, which a dangling pointer needs. Read
turns that cover the kernel's buffer are the proportion the code relies on
(1024 * 15000 bytes of reading against 500000 of buffer), stated as
`SocketAssumption`; two descriptors for three connections reach exhaustion, and
two units into a socket buffer of one make writes partial. In `timers` an
interval of a turn is split, one more id than the table holds makes it grow, the
position wraps after two turns, and three ms between two looks at the clock make
the deviation reach over several slots.

Deadlock is checked for `handoff`, `queues` and `timers`, where somebody can
always move. The others stop when the bounded number of messages is used up or
the process has died, and say `CHECK_DEADLOCK FALSE`.

Fairness. A thread that can move eventually does (weak fairness on each
thread's steps): the operating system's scheduler gives that. In `queues` a
thread asking for a mutex that is free again and again gets it (strong fairness
on the two lock steps). In `stabilizer` a label receiver that is connected
answers; otherwise `processQ` blocks in `read()` for good, and the property
says so by excluding a receiver that left. In `event_loop_live` a connected peer
reads what it is sent (`PeerTakes`); in `timers` only the thread itself is fair.
Vnodes, peers and arriving messages
are never assumed to do anything, and nobody counts on spurious wakeups.

### Findings

1. `startup_ignore` - README.md:18 promises that the first messages are
   ignored; `main` starts the receiver thread before it sets the count, and the
   field is uninitialized until then.
2. `frames_telnet` - the comment at `ServerAPI.cpp:211` says the line end is
   removed; it is removed only at the end of a chunk. Two lines in one chunk
   leave a CR LF in front of the second frame, and that client is stuck.
3. `frames_order` - the comment at `ServerAPI.cpp:209` puts the heartbeat
   before the partition id; the code reads them the other way round.

Noted while modelling, with no document that says otherwise: a timer created
while `ReadSockets` runs, or waiting where `ui_CurrentPos` wraps, can be passed
over and fires a turn of the wheel later (`NotOverlooked` names both cases);
a client dropped while it is read stays on `lst_ConnectedClients`, and
`SendToAllClients` fills its buffer for good (`SocketManager.cpp:542`); a heartbeat
without labels that meets an empty `m_storage` ends the process
(`ProcessingThread.cpp:161`; the model's `stabilise` run takes this path); the
last data of a peer that closes right after sending is dropped
(`SocketManager.cpp:494`).

## 4. Proofs

`ProcessingThreadProofs.tla`, for every value of the constants that satisfies
`ConstantsAssumption` (at least one partition; vnodes use registered ids):

- `TypeCorrect`: `Spec => []TypeOK`.
- `LabelsStabilisedInOrder`: `Spec => []StabilisedInOrder`. That property is
  not inductive: a step could insert an old label. The strengthening `OrderInv`
  adds `PromisesKept` (each message, queued or being processed, is not older
  than the heartbeats its vnode sent before it, and the table is not ahead of
  the vnode) and `StableBelowTheRest` (every stable label is at most every
  heartbeat in the table and at most every label in `m_storage`, which is in
  order). One lemma per action: `SendKeepsOrder`, `TakeKeepsOrder`,
  `InsertKeepsOrderInv`, `StabiliseKeepsOrder`. They rest on lemmas about the
  operators: `MinIsLeast`, `FirstAboveStops`, `StableIsLeast`,
  `MultimapInsertIsSeq`, `InsertKeepsOrder`, `CutStorage`.
- `StableTimestampMonotonic`: `Spec => StableNeverRegresses`, from the same
  invariant.
- `NothingWithheld`: `Spec => []NothingStableWithheld`, by itself inductive
  beside `OrderInv`: `StabiliseEffect` says what the deletion loop leaves behind.
- `SurvivesLabels`: `Spec => []DiesOnlyOnBrokenPipe`. The strengthening is
  `StorageFilled`: once a label of the message is inserted, `m_storage` is not
  empty, so the iterator `DeletePossibleLabels` decrements is a real one.
- `ReceiverGetsPrefix`: `Spec => []ReceivedIsPrefix`, inductive beside `TypeOK`.
  What is on the wire is a sequence of batches, so the proof needs what
  `FlattenSeq` does when a batch is written (`FlattenAppend`) or read
  (`FlattenHeadTail`). It is recursive; `ConcatenationExists` and
  `ConcatenationUnique` get by without induction by looking at the least index
  at which the claim would fail. `PrefixOfConcat` covers the connection that
  closes with batches on the wire.
- `LabelsKept`: `Spec => []NoLabelLost`. The property counts labels by their
  numbers, so the strengthening `LabelInv` says how numbers are given and kept:
  every number up to `labelCount` is the number of a label that is queued,
  being inserted, in `m_storage` or stable (`NumbersKept`), and no label is in
  two of these places (`LabelsNumbered`, `NumbersInOrder`, `InsertedOnce`).
- `ProcessQImplementsService`: `Spec => ImplementsOrderedDelivery`. A vnode's
  message is a step of the abstract partitions, `Stabilise` releases labels, all
  else is a stutter. `LabelInv` also carries what only the refinement needs: labels of
  one partition with equal timestamps stand in `m_storage` as they were sent,
  and a partition nobody sends for has promised nothing (`SilentPartitions`).

`HandOffProofs.tla`, for every value of the constants that satisfies
`HandOffAssumption` (a capacity of at least one byte, and a counter wide enough
for the capacity and one packet more):

- `TypeCorrect`: `Spec => []TypeOK`. The width of `m_iObectSize` is the
  interesting part: `DecreaseQueueSize` subtracts without looking, and stays
  above zero only because the counter covers the packets `processQ` has taken
  (`OwedIsThere`).
- `CounterIsExact`: `Spec => []SizeIsExact`.
- `NoLostWakeup`: `Spec => []WaitsForAReason`. A counter of zero means that
  nothing is on its way (`NothingOutstanding`), hence no packet is queued behind
  a sleeping processing thread.
- `OrderIsKept`: `Spec => []FifoExactlyOnce`; every move between queues is an
  instance of associativity (`Regroup`) or of `HeadThenTail`.
- `HandOffIsChannel`: `Spec => ImplementsChannel`, the safety half of the
  refinement the run `handoff` checks. `IncreaseQueueSize` maps to `Put`
  (`OnTheirWay`: the counter bounds what is between `admitted` and `processed`),
  `Process` to `Take` (`InHandIsNext`), everything else to a stutter.

All five come from one inductive invariant, `TypeOK /\ HandOffInv`. Its parts
need each other: the types need the counter exact, waiting needs it to speak for
the queues, and the refinement needs `Counted` (a packet in hand has been
counted by `l_iProcessedMsg`) on top.

`StabilizerProofs.tla`, from the assumptions on the constants of both parts:

- `QueuesAreFifo`: `Spec => ImplementsProcessingThread`. Its argument is
  `ArrivalOrder`: read one after the other, the consumer, intermediate and
  producer queue hold ascending numbers of messages that have arrived. Each
  hand-off step only moves the boundaries between them (`Waiting` does not
  change) or takes or adds at the ends.
- `FifoIsNoObstacle`: the composition conjoins the two threads' actions with a
  condition on `Waiting`; this theorem says that the hand-off's steps bring the
  condition about by themselves, so that joining them has removed no behaviour.
- `LabelsKeptEndToEnd`, `ServiceOrdersLabels`, `ServiceKeepsThreadInvariants`,
  `ServiceKeepsHandOffInvariants`: as the composition implements both parts,
  their theorems hold of it. They are cited through instances
  (`Thread == INSTANCE ProcessingThreadProofs`), not proved again.

`MultiplexerServerProofs.tla`, from `HandOffAssumption` and `MuxAssumption` (the
configured ignore count is one of the values considered): `MuxTypeCorrect`,
`SettingsBeforeUse` (`MuxSpec => []ConfiguredBeforeUse`) and `StartUpIsHandOff`.
`StartInv` says which settings are written at each call of `main` and that
nothing has arrived before the receiver thread is started, which is the last
but one call; a packet in `processQ`'s hand therefore finds all settings written.

`EventQueueFrameProofs.tla`, for any finite set of packets and any number of
messages (`FrameAssumption`):

- `FrameTypeCorrect`, `PointersSafe` (`NoDanglingPointer`), `NoPacketLost`
  (`EachPacketInOnePlace`), from the inductive invariant `TypeOK /\ FrameInv`.
  `FrameInv` numbers the packets on their way one after the other (`Numbered`)
  and says for each list which interval of numbers it links in order (`List`),
  with the cases of each half-done splice; the stale tail that
  `PollFromConsumerQueue` leaves behind has to be nobody's business
  (`ConsumerList`).
- `QueuesImplementFifo`: `Spec => ImplementsFifo`, the safety part of
  `ImplementsChannel`.

Following a list is not an induction here: `Reach` is a least set, so
`ReachAppend` and `ReachFrom` are shown by naming a closed set.

`SocketManagerProofs.tla`, for any number of connections and any buffer sizes,
as long as i_ReadTurns reads empty a full socket buffer (`SocketAssumption`):

- `SocketTypeCorrect`, `CallbackOrder` (`CallbacksInOrder`), `NoClientStranded`
  (`NothingStranded`) and `DisconnectIsLast` (`NoCallAfterDisconnect`), from the
  inductive invariant `TypeOK /\ CallbacksInOrder /\ LoopInv`. `NothingStranded`
  says that whoever has something to do will be looked at; `LoopInv` says
  where in the loop that is going to be: a client with something to read is on the ready list, has
  an event in hand or is the one being read (`SeenTo`), the read loop's turns
  left suffice for what is left to read (`TurnsSuffice`), a client with unsent data has
  asked for `EPOLLOUT` and is in `b_IsBuffered` (`UnsentWaits`), and
  the events in hand are one per socket and never premature (`Events`).

`TimerWheelProofs.tla`, for every size of the wheel and of the id table, every
interval and any time a pass may take (`TimerAssumption`: intervals are at least
a millisecond, the wheel is longer than the longest wait, its size divides the
range of the unsigned position, and no pass takes half of that range):

- `WheelTypeCorrect`, `IdsAreSound` (`IdsSound`), `NothingOverlooked`
  (`NotOverlooked`) and `NoneFiresEarly` (`NeverEarly`), from the inductive
  invariant `WheelSafe`, which is `TypeOK /\ IdsSound /\ WheelInv`. `WheelInv`
  relates the wheel to the clock: what a timer has to wait is at most what its
  slot is ahead and its `ui_NextFire` (`DueInTime`; for a box that `FireAll` has
  taken out, the deviation takes the place of the slot), a box that is not
  passed over has exactly as far to go as its slot, and the poll interval ends
  before the first of them (`OnTrack`). `DeviationBounded` keeps the unsigned
  deviation from wrapping, `IdsInTable` makes the ids of a grown table new ones.

The proofs go through `Inner`, the same invariant about sets of boxes instead of
indices into slots (`InnerIs`). `Sound...` lemmas say what an action does to ids,
boxes and objects apart from where the boxes are, `PopRow` and `PushRow` move a
box between the slots, `lst_FireAll` and the hand, `Positions` and `AheadAfter`
do the arithmetic modulo the wheel and modulo the position's range, and there is
one lemma per action.

`FrameDecoderProofs.tla`, for any clients, messages with at least one label and
buffer sizes (`DecoderAssumption`), as long as no client ends its frames with
CR LF (`~Telnet`):

- `DecoderTypeCorrect` (`TypeOK`), `BufferHoldsTheRest` (`BufferFits`), and
  `DecodesWhatArrived` (`FramesDecoded`), the last for clients that use the
  code's order of the fields (`~DocumentedOrder`). The two conditions are what
  `frames_telnet` and `frames_order` show to be needed: without them
  `FramesDecoded` is false. All three come from the inductive
  invariant `TypeOK /\ DecoderInv`, which says for each client that its stream
  is made of the frames of what it sent, each ending at its `#` (`MadeOf`), that
  the first frames are decoded, and that the buffer holds exactly what has
  arrived of the rest, less than a frame unless `Decode` is at work
  (`DecodedInOrder`).

`AnotherFrame` shows that sending keeps `MadeOf`. `PayLoadIsRead` is the
parser: the n-th field and the n-th label of a frame's payload are those of the
message, for any number of labels; it counts the places before a token, so no
induction over the payload is needed. `RoundDecodes` and `ProgressDecoded` are
a round of `Decode`, `RoundOrSettled` says that without a whole frame in the
buffer the next frame has not arrived, and `SettledIsComplete` turns that into
the count of `FramesDecoded`.

Only model-checked. The prover has no fairness: all liveness properties
(`StableLabelsLeave`, `StableLabelsReachReceiver`, `ReceiverComesBack`,
`DataArrives`, `DisconnectReported`, `SentDataLeaves`, `EveryTimerFires`) and
the fairness part of `ImplementsFairChannel` (`handoff`) and of `ImplementsChannel`
(`queues`). Every invariant and action property of a passing run is a theorem.

## 5. Not modelled

- Malformed input: frames without labels, non-numeric fields, `strtoul` reading
  a leading 0 as octal. The framing model has well-formed fields only.
- Partition ids outside `1..clientcount`: their row in `m_heartbeat` holds every
  label back once they fall silent. Which ids vnodes use is configured outside
  this repository.
- `CreateClient`, `Detach`, `AttachClient`, deleting a `Client` or `Server`
  (`AddToDeletedClientSet`, `AddToDeletedServerSet`): the client side of the
  library and the release of descriptors. The program never calls them, so no
  reachable state shows how they are meant to be combined with the loop.
- In the wheel: a clock that steps back, intervals of 0, deletion of the
  heartbeat timer (private to `SocketManager`), `SetIsRemovedTimer` (no caller).
- `ThreadToken`, `Timer_Q`, `AddToProducerQueueWithLock`, `set_ActiveClients`:
  never used. Logging: output only.
- What is inside a byte stream and an event loop at once: `FrameDecoder` takes
  chunks of any length, which is all that `SocketManager` delivers.

## 6. Plan

Done: the core, hand-off, queues, start-up, framing, event loop with its output
path, timer wheel, the composition, the abstract specifications `Channel` and
`OrderedDelivery`, and the proofs of section 4. No modelling is left open that
the code gives a faithful answer to.

The proofs now cover every safety property of the passing runs. What stays with
TLC stays there for a reason given in section 4. A candidate for more is the
decoder for telnet clients that send one line per chunk, which needs a restriction on
how TCP cuts the stream that the code cannot ask for.
