# wifi-speaker: TLA+ models and proofs

The repository is a wireless loudspeaker. A PC program (`WIN32/build/TestPA`)
records what the PC plays and sends it over TCP; an ESP32 (`ESP32/main` and three
components of its own) receives it and plays it on the built-in DAC. Everything
else in the tree, ESP-IDF below `ESP32/components` and PortAudio below `WIN32`, is
vendored. This directory models the program's own code, 1,460 lines of C and C++,
at the places where it is hard to test: tasks and an interrupt handler that share
memory without locks, busy-waits, blocking calls made while something is held,
and loops that retry.

## The system and its hard parts

| part | state | operations | what is hard |
|---|---|---|---|
| block ring, `main/data_buffer.c` | 5 blocks of 5120 bytes with a flag and a counter `used`, two indices, `buffer_used` | `buffer_write_data`, `buffer_read_data`, `getBufferPercent` | no lock; busy-waits on flags; one counter with two meanings, which each task also resets in the block it moves to |
| receiver, `main/tcp_perf.c` | `render_status`, the socket, the parser's position | `audio_thread`, `prcess_character` | the player is started from the writer's loop; frames have no marker; ends of connections |
| TCP server, `main/tcp_perf.c` | server socket, the listener's variable `client`, descriptors, tasks | `listen_tcp_server`, `audio_thread`, `prcess_character` | a parameter passed by address; several connections and players on one ring; tasks that spin at high priority |
| Wi-Fi and start-up, `main/tcp_perf.c`, `main/master.c` | the link, the event queue, `WIFI_CONNECTED_BIT` | `wifi_init_sta`, `event_handler`, `app_main`, `error_handle` | events handled long after the link has changed again; only the program makes the driver try again |
| renderer, `components/audio_render` | `sample_rate`, the driver's queue of DMA buffers | `render_samples`, `render_audio` | task against interrupt handler; unlimited retry; integer widths; formats |
| FIFO, `components/fifo` | memory, two positions, `fifoFill`, two semaphores and a mutex | `spiRamFifoWrite`, `spiRamFifoRead`, `spiRamFifoReset`, `spiRamFifoFill` | loads outside the mutex; lost wake-ups; a reset that blocks with the mutex held |
| player, `components/audio_player` | `command`, `decoder_status` | `audio_stream_consumer`, `audio_player_stop` | starts and restarts of the decoder task |
| PC sender, `TestPA.cpp` | one frame buffer, `data_state`, `threadSyncFlag` | `recordCallback`, `threadFunctionSendData`, `main` | a callback and a thread share one buffer without waiting for each other |

How they interact: `recordCallback` -> buffer -> `threadFunctionSendData` -> TCP ->
`audio_thread` -> block ring -> `prcess_character` -> `render_samples` -> DMA buffers
-> DAC. An earlier path, `audio_stream_consumer` -> FIFO -> `render_audio` ->
`render_samples`, is still compiled, but its call is commented out
(`tcp_perf.c:157`) and so is the FIFO's initialisation (`master.c:37`). The models
`SpiRamFifo` and `AudioPlayer` are about that path and say nothing of what the
firmware does today.

Correct means: bytes come out of the ring and of the FIFO as they went in; copies
stay inside their buffers; nobody waits for ever; the parser stays in step;
playback starts; each frame is heard once; what is lost is at least announced;
each connection has one task, a new client is answered and a lost link is joined
again.

## Modules

| module | models | extends |
|---|---|---|
| `BlockRing` | what the ring promises, a queue of full blocks | |
| `DataBuffer` | the block ring | refines `BlockRing` |
| `DataBufferProofs`, `DataBufferFifoProofs` | theorems about it | `DataBuffer` |
| `Receiver`, `MCReceiver` | one connection: both tasks, running on the ring | `DataBuffer` |
| `ReceiverProofs` | theorems about them | `Receiver`, `DataBufferFifoProofs` |
| `WifiLink` | the station and its events | |
| `TcpServer` | the listener, its connections, their tasks, and the ring as a number of full blocks | |
| `Speaker` | start-up, and all tasks together on two cores | `WifiLink`, `TcpServer` |
| `SpeakerProofs` | theorems about station and server | `Speaker` |
| `RenderSamples`, `MCRenderSamples` | `render_samples`, the driver's queue and interrupt handler, the hardware | |
| `RenderSamplesProofs` | theorems about them | `RenderSamples` |
| `ByteFifo` | what the FIFO promises, a bounded queue | |
| `SpiRamFifo` | the FIFO | refines `ByteFifo` |
| `SpiRamFifoProofs` | theorems about it | `SpiRamFifo` |
| `AudioPlayer` | consumer and `render_audio`, on the FIFO | `SpiRamFifo` |
| `AudioPlayerProofs` | theorems about them | `AudioPlayer`, `SpiRamFifoProofs` |
| `Sender` | the PC program | |
| `SenderProofs` | theorems about it | `Sender` |

Definitions have the names of the functions and variables they stand for.
Definitions that begin with "Mutant:" in their comment are not part of a
specification: they are the wrong versions of the definition below them with
which each property has been seen to fail.

**DataBuffer.** The two functions are mirror images, so each step is written once
for a task `t`, with `Own(t)` the flag it waits for. Every load and store of a
variable that both tasks touch is a step: `Test` (the busy-wait and the length
test), `Copy`/`Load`/`Store` (the short case, lines 39-41 and 68-70),
`Remain`/`Fill`/`Hand`/`Enter`/`CountLoad`/`CountStore` (the case that ends the
block, 43-53 and 72-83). A byte is its position in the stream. `clobbered` records
that `Enter` (lines 52 and 81) has reset a counter that the other task still
needed. The data race on the flags is modelled for a build in which each
iteration of a busy-wait loads the flag, as `-Og` in `sdkconfig` does. `BlockRing` is
the abstract queue of full blocks; `ImplementsRing` maps it to the blocks from the
read index on.

**Receiver.** `Recv`, `StartPlayer` and `CloseClient` are `audio_thread`'s loop
around the ring's writer steps; `ReadCommand`, `Switch` and `ReadPayload` are
`prcess_character`'s around its reader steps. One byte of `DataBuffer` stands for a
word of four: every read and the block length are multiples of four. What is read
is looked up in `Stream`, or is arbitrary when the word is not of the expected
kind. `StreamAssumption` says what a sender's stream is: frames of a command, a
length and that many words, a header having the header's length, cut off anywhere.
`PeerEnds` is the network. After the peer's close lwIP's `recv` returns 0 once: the
close is posted to the connection's mailbox once and `netconn_recv_data` leaves the
mailbox valid (`lwip/api/api_lib.c:484-489`), so that the next `recv` waits for ever,
as no timeout is set (`api_msg.c:679`, `sys_arch.c:299-303`). The socket goes from
"eof" to "ended" with the 0. A connection that breaks, even then, makes `recv` return
-1; that lwIP may return a 0 before it is left out, it changes nothing.

**WifiLink.** `wifi_init_sta` starts the driver; the driver (`GetAddress`, `Lose`) moves
the link and posts an event; `event_handler` takes one event, in order and at any
time later. `esp_wifi_connect` is the move to "trying". Joining and being given an
address are one step, because `event_handler` does nothing in between. An address
that DHCP delivers after the link has been lost is not modelled, which is why
`SignalledWhenUp` is stated in one direction only. `wifi_init_sta`'s `ESP_ERROR_CHECK`s
abort the program and are left out.

**TcpServer.** `Listen`, `Accept` and `CreateThread` are `listen_tcp_server`; `client` is
its local variable, which a new task reads through its pointer only in
`ReadClient`. `Receive`, `ReceiveNothing`, `Exit` and `Write` are `audio_thread`;
`prcess_character` is the player as far as the ring notices it, one block at a time.
The ring is the length of `BlockRing`'s queue; that `DataBuffer` implements such a
queue is shown for one writer and one reader only, and for more the model keeps to
the count: a block is filled when there is room and taken when there is one. What
several writers or readers do to offsets, indices and contents is not modelled:
nothing in the code orders their accesses. `accept` fails for a peer that is gone
and when lwIP has no descriptor left; both end in `error_handle`. `recv` after the
peer's close is as in `Receiver`: 0 once (`ReceiveNothing`), then it waits. On the loss
of the link lwIP does not abort connections, so a task in `recv` stays there. `Exit` is
taken when `close` returns, that is, when lwIP's task has deleted the connection;
before that the task holds its descriptor as it does in `recv`, and nothing that the
model shows tells the two apart. `getBufferPercent` computes from `buffer_used`, which
is the number of full blocks only as long as one task counts: once a player or a second
connection does too, updates are lost, `counter` is "drifted" and the test for the start
of playback may see any level (`BufferUsed`). `Knock`, `Answer` and `Hangup` are the
network and lwIP's task.

**Speaker.** `app_main`, and every task with what the others leave unchanged. Nothing
reaches the speaker without an address. See "Fairness" for the cores.

**RenderSamples.** `Call` is `render_samples` up to its loop, including the divisions
that come before the test of the depth, `Push` a turn of the loop with
`i2s_push_sample`, `PlayFrame` and `PlayLast` the hardware, which plays all buffers
round and round, with the interrupt at the end of each. Sample k has the k-th
smallest value of its type, so the DAC must be given k; this makes the conversion
part of the order property. The number of bytes of a sample is
truncated to 8 bits as in the code. The width of a sample is the constant `Half`, half the
number of its values (2^15 in the program, 16 in the run). That a stop and start of the unit (a new sample rate)
begins again at the first descriptor is an assumption about the hardware.

**SpiRamFifo, ByteFifo.** Sections under the mutex are one step; the loads of
`fifoFill` and `fifoWpos` outside it (82 and 83, 122 and 123) are steps of their own,
which covers a compiler that keeps both loads of a pair and one that joins them. A
reset between 122 and 123 makes the piece as long as the memory; `buffLen` then ends
below 0. The branch that waits for data (91-96) ends in a state without successor,
because `NoUnderrun` shows that it is never entered.

**AudioPlayer.** `StartDecoder` is the rest of `audio_stream_consumer` after its write,
the `Decoder...` actions are `render_audio`. What `render_samples` does there is
left out. `SetStatus` stands for the three functions that set `player_status`.

**Sender.** `Callback`, `CallbackCopy` and `CallbackDone` are `recordCallback`, cut where
the thread may look at the shared variables; `Poll`, `SendPiece`, `SendReturns` and
`Lower` are the thread's loop, `SendPiece` and `SendReturns` being its `send`, which blocks
for as long as the speaker does not read.

## Runs

| run | bounds | shows |
|---|---|---|
| `ring` | 3 blocks of 2 bytes, calls of 0-3 bytes, 8 bytes; 376,296 states | `RingContiguous`, `NoMutualSpin`, `NoSharedBlock`, `CopiesStayInBlock`; the stream is intact (`FifoUnlessClobbered`, `CopiesWithinRequest`) until a counter reset goes astray; `ImplementsRing`, `WriteCompletes`, `BlocksDrain` |
| `ring_return` | 2 blocks | **violated**: a read that ends with a block returns 0 |
| `receiver` | 3 blocks of 2 words, chunks of 1-2, 7 words; 174,449 states | `StartedBeforeFull`, `LevelIsExact`, `ParserInSync`, `ResetIsClosed`, `StartedBlocksDrain` |
| `receiver_eof` | the same | **violated**: an ordinary close is never noticed |
| `receiver_header` | the same | **violated**: a reset that goes astray makes the parser misread a header |
| `speaker` | 2 descriptors, 2 connections' tasks, 2 players, 3 blocks, 2 cores; 712,622 states | `ServedByOne`, `SignalledWhenUp`, `ClientIsAnswered`, `BrokenIsReleased`, `TriesAgain` |
| `render` | 3 DMA buffers of 2 frames, calls of 0-2 frames, 9 frames, two rates, three bad depths; 1,078,014 states | `HeardInOrder`, `QueueIsRecent`, `FullMeansUnderflow`, `RenderReturns` |
| `render_mono` | the same with mono | **violated**: the stride of mono is that of stereo |
| `fifo` | 4 bytes, pieces of 2, calls of 0-3, 7 bytes; 131,566 states | `FillIsDistance`, `PiecesFit`, `NoUnderrun`, `ImplementsQueue`, `FullWriterWakes` |
| `player` | FIFO of 4, calls of 0-2, 8 bytes; 215,832 states | `ResetFindsToken`, `StartsBeforeFull`, `ConsumerWakes` |
| `player_restart` | the same | **violated**: the decoder is never started again |
| `sender` | payloads of 2 pieces, 4 frames; 33,359 states | `TornIsAnnounced`, `LostIsAnnounced`, `FrameIsPickedUp`, `ThreadStartIsSeen` |

The bounds are chosen so that what matters happens: each ring is filled, wraps
and is used again (8 bytes in a ring of 6, 9 frames in DMA memory of 6, 7 bytes in
a FIFO of 4); calls are smaller than, equal to and larger than a block or a piece;
with three blocks the indices can be equal, adjacent and apart. In `render` more
than one full round is heard without an underflow before the bound is met. In
`speaker` two connections are enough for the pointer to be read too late, for the
descriptors to run out, for a second player and for every mixture of spinning
tasks that takes two cores; it has no other bound, and no deadlock.
`CHECK_DEADLOCK FALSE` is set in the other runs because the inputs are bounded, and
because the player's consumer and a receiver without a player really do stop.

### What the violated runs show

* `buffer_read_data` leaves its loop and returns 0 when a request ends exactly
  with a block (`data_buffer.c:85`), although it has delivered everything. The
  callers compare the value with what they asked for and log an error.
* `current->used = 0` at lines 52 and 81 is executed for a block that the other
  task may be working in. If the writer catches up with the reader (or the
  reverse), an offset is lost, and from then on command, length and payload are
  mixed up. `FifoUnlessClobbered` and `ParserInSync` show that nothing else does
  this.
* `recv` returning 0 is passed on as data of length 0 (`tcp_perf.c:153`), and the next
  `recv` waits for ever: the task and the descriptor of a connection that its peer has
  closed stay, until the network breaks the connection.
* Mono buffers are read with a stride of two samples (`audio_render.c:163`).
* `decoder_status` is never reset (`audio_player.c:56`, the path that is not in
  use), so a stream that runs dry once stops the player for good.

### What the conditions of the `speaker` properties say

Each of them is needed: without it TLC finds a behaviour that the firmware has.

* `ServedByOne` holds unless `accept` returns again (or fails) before the task
  created for the last connection has read `client`. Then two tasks have the same
  descriptor and another has none (`tcp_perf.c:139`).
* `ClientIsAnswered` holds unless as many tasks spin as there are cores. That takes
  a player on an empty ring (23) and a second player, or the listener after one
  failed `accept` (20). lwIP's task (18) then never runs, and the speaker is deaf
  until it is reset. The task of a connection that was closed does not count: it
  waits in `recv`.
* `BrokenIsReleased` holds unless the task is waiting for room in the ring, the
  descriptor has gone astray, or as many tasks spin as there are cores: `close` waits
  for lwIP's task, which is built without core locking (`lwipopts.h:466`,
  `sockets.c:833-870`, `api_lib.c:147-169`).
* `TriesAgain` holds unless a player spins, which may be on the core to which the
  event task is pinned, or the cores are taken, because the system's own event
  handlers wait for lwIP's task.

### Fairness

A FreeRTOS task that is not blocked keeps taking steps: the tasks are not pinned
and there are two cores, so two busy-waiting tasks (the receiver and the player)
do not starve each other. Hence weak fairness of each task's steps. The player
and `render_audio` never stop asking for data. The DMA hardware never stops
playing. A Windows thread that polls keeps running, a PortAudio callback that has
been entered ends, and `main` wakes from its sleep. Nothing is assumed of the
network, of further calls by the user of a component, or of further recorded
buffers. In particular `send` on a connection that is up may never return: the
sending thread's fairness covers its other steps and a `send` on a broken connection,
and `FrameIsPickedUp` has as its premise that the thread is again and again outside of
`send`.

In `Speaker` priorities matter. FreeRTOS runs the ready tasks of the highest
priorities and lets tasks of equal priority take turns; `prcess_character` has 23,
`listen_tcp_server`, `audio_thread` and the event task 20, lwIP's task 18. A task that
waits by spinning never yields downwards, so weak fairness of a task's steps is
assumed only while the tasks that spin above it leave it a core. For the listener and
the connections' tasks that is `SpinningPlayers < CORES` where they do not call lwIP;
where they do (`socket`, `bind`, `listen`, `accept`, the `recv` that takes a close, `close`)
they wait for its task and need `Spinning < CORES`, as that task does (`ListenerRuns`,
`ThreadRuns`). The event task, which ESP-IDF pins to one core, needs in addition that
no player spins. A task that does not spin blocks before long (in `recv`, `accept` or the
wait for a DMA buffer). `app_main` and the player need no fairness there, and nothing is
assumed of the network, the radio or the clients. That tasks of equal priority take
turns is what FreeRTOS promises; a comment in ESP-IDF's scheduler doubts it for two
cores (`freertos/tasks.c:2758-2764`). It matters only while a player and the listener
both spin.

## Proofs

Every invariant and every action property that a passing run checks, and both
refinements, are also proved, for every value of the constants that the
assumptions allow: any number and length of blocks, DMA buffers, pieces,
descriptors and tasks, any size of the calls and any length of the input.

| module | theorem | property | inductive invariant |
|---|---|---|---|
| `DataBufferProofs` | `TypeCorrect` | `TypeOK` | `IInv` |
| | `RingStaysContiguous` | `RingContiguous` | `IInv` |
| | `BlocksAreExclusive` | `NoSharedBlock` | `IInv` |
| | `TasksNeverDeadlock` | `NoMutualSpin` | `IInv` |
| | `CopiesAreBounded` | `CopiesStayInBlock` | `IInv` |
| | `RingIsImplemented` | `ImplementsRing` | `IInv` |
| `DataBufferFifoProofs` | `StreamIsFifo` | `FifoUnlessClobbered` | `IInv`, `FifoInv` |
| | `CopiesMatchRequests` | `CopiesWithinRequest` | `IInv`, `FifoInv` |
| `ReceiverProofs` | `ReceiverTypes` | `ReceiverTypeOK` | `IInv`, `Control`, `Supply` |
| | `PlayerStartsInTime` | `StartedBeforeFull` | and `Stock` |
| | `LevelIsExactBeforePlay` | `LevelIsExact` | and `Stock` |
| | `PlayerStaysInSync` | `ParserInSync` | and `FifoInv`, `InSync` |
| `SpeakerProofs` | `SpeakerTypes` | `SpeakerTypeOK` | `WifiInv`, `TcpInv` |
| | `UpIsSignalled` | `SignalledWhenUp` | `WifiInv` |
| | `FewEvents` | at most two events wait | `WifiInv` |
| | `OneTaskPerConnection` | `ServedByOne` | `TcpInv` |
| `RenderSamplesProofs` | `TypeCorrect` | `TypeOK` | `TypeOK` |
| | `QueueFollowsHardware` | `QueueIsRecent` | `QInv` |
| | `FullQueueIsUnderflow` | `FullMeansUnderflow` | `QInv` |
| | `StereoIsHeardInOrder` | `HeardInOrder`, if `StereoOnly` | `HInv` |
| `SpiRamFifoProofs` | `TypeCorrect` | `TypeOK` | `IInv` |
| | `FillAgrees` | `FillIsDistance` | `IInv` |
| | `PiecesAreBounded` | `PiecesFit` | `IInv` |
| | `ReadsAreCovered` | `NoUnderrun` | `IInv` |
| | `QueueIsImplemented` | `ImplementsQueue` | `IInv` |
| `AudioPlayerProofs` | `ResetNeverHangs` | `ResetFindsToken` | `IInv`, `Decoder` |
| | `ConsumerBlocksOnlyWithDecoder` | `StartsBeforeFull` | `IInv`, `Room` |
| `SenderProofs` | `TornFramesAreAnnounced` | `TornIsAnnounced` | `SInv` |
| | `LostFramesAreAnnounced` | `LostIsAnnounced` | `SInv` |

None of the properties is inductive alone, and TLC has checked the invariants
that were found for them before they were proved. In each module the lemma for
one step has a step per action and, below it, one per conjunct that the action
can disturb.

**The ring.** `IInv == TypeOK /\ RingContiguous /\ Owns /\ Bounds`. That the tasks
do not share a block needs that a task past its busy-wait owns its block (`Owns`:
the flag of its block is the one it waited for, and stays so, because only the
owner changes it). That a copy stays inside the block needs bounds on the pairs of
values that were loaded at different times (`Bounds`): the other task can only lower
`used` meanwhile, to 0, and every bound survives that. `RingContiguous` needs `Owns`
when an index moves on. In the refinement `Hand` is `Put` or `Take` of `BlockRing`, and
every other step leaves the queue alone.

**The bytes in the ring.** While no reset has gone astray, `used` is the position of
the task that the flag gives the block to, up to what that task has copied and not
added yet (`Off`). Then the writer is ahead of the reader by exactly the full blocks
(`Positions`), each full block holds the bytes of its place in the stream (`Filled`)
and the writer's block those of its beginning (`Filling`). The counter is 0 in
a block that neither task is in, and in one just entered (`Resets`).

**The receiver** does to the ring nothing but call its two functions, so the
invariants of the ring carry over. Before there is a player only the writer moves
(`Stock`): it fills the blocks from the first one on, and because a chunk is at most a
block long, one chunk completes at most one block. Together with the threshold of
51 % this leaves a free block whenever there are three or more, which is
what `ReceiverAssumption` requires. `InSync` follows the parser: the word after what it
has asked for is always the one that the frames of the stream have there.

**Station and server.** The driver posts nothing between losing the link and the
handler's `esp_wifi_connect`, so link and queue are in one of a few shapes
(`LinkShape`); hence also that no more than two events wait, which no run states. For
the server: as long as nothing went astray, only one new task at a time has yet to
read `client`, and none while the next one is about to be created (`OneHandOver`).

**The renderer.** Seen from the buffer that is played, the queue holds the buffers
that are furthest ahead, in order (`Queued`), and the one that is being filled comes
right before them (`Current`); a buffer is late only if it meets one of these. The
handler tests for a full queue before it appends, so it notices only the former: the
next buffer is in the queue just when all but the one being played are
(`FullMeansUnderflow`). A buffer that is reached while it is being refilled it does not
notice, and `late` covers both. How
many frames ago a frame was pushed follows from that distance (`Behind`), and with it
the sample it must hold (`Streamed`) and what was heard so far (`HeardSoFar`).
`ToDacFacts` proves that the conversion is the shift of the range, for every width and
with the overflow of the intermediate `short`. `StereoOnly` is a hypothesis of the
theorem: every format that gets past the tests has two channels. It is what the
`render` run has, and what `TestPA` sends (`TestPA.cpp:288`); with mono the `render_mono` run is violated.

**The FIFO.** A piece that was sized before the mutex was taken still fits, because in
between only a reset changes `fifoWpos`, to 0 (`WriterKnows`), and it is no matter
that it may then be longer than the caller's data; what a read still wants
is in the FIFO, because the writer only adds to it and the reading task itself is
the one that resets (`ReaderKnows`). `Distance` is `FillIsDistance` without the modulo.

**The player.** There is one life of `render_audio`, and its single reset is the only
one that takes `semCanRead` (`Decoder`). Until there is a decoder, what is left of a
write fits, and no reset can lengthen a piece (`Room`). The first attempt at this proof failed for a good reason: with
a chunk of exactly half the FIFO the property is false, because the percentage is
rounded down (200 bytes, 101 of them in use, are "50 %", and a chunk of 100 then
blocks). `PlayerAssumption` now says what is needed: whatever is rounded to at most
50 % leaves room for a chunk. It holds for the FIFO's 128,000 bytes
(`spiram_fifo.c:45`) with chunks of 1,024 (`tcp_perf.c:147`), and in the runs.

**The sender.** `data_state` is raised only at the end of a callback, so a callback
that runs while it is raised began while it was raised, and was announced
(`Announces`). From the time the thread begins to send, every frame that gets into the
buffer is therefore an announced one, and at most one value that it meets is not
(`OneUnannounced`); a frame that was not announced is in the buffer alone until it
has been sent (`NotLost`).

The assumptions are the named ones of the modules, which TLC evaluates in the runs;
beyond types they are the two just mentioned (`ReceiverAssumption`: three blocks,
chunks of at most a block; `PlayerAssumption`), `StreamAssumption`, and in
`RenderAssumption` that the samples of a run are numbered within the range of a `short`,
which is a bound of the model. The theorems need no fairness.

Only model-checked: liveness, that is `WriteCompletes`, `BlocksDrain`, `ResetIsClosed`,
`StartedBlocksDrain`, `ClientIsAnswered`, `BrokenIsReleased`, `TriesAgain`,
`RenderReturns`, `FullWriterWakes`, `ConsumerWakes`, `FrameIsPickedUp` and
`ThreadStartIsSeen` (fairness and ENABLED are out of the prover's reach).

## Not modelled

`wifi_init_softap` and the access point's events (never started), the socket
helpers (they only log, or have no caller), `init_hardware` (not called),
`AudioIO.cpp` (queries of PortAudio's device list), `MTSClient.cpp` and the old copies
of `TestPA.cpp` (not part of the program), the exit of the PC program, and the
vendored libraries beyond what the modules take from them. ESP-IDF and PortAudio
are more than 99 % of the lines of the tree; of the program's own 1,460 lines the
models translate about 850, and the rest is declarations, logging, commented-out
code and the parts just named.

Not stated as properties:

* more bytes returned by `spiRamFifoRead` than asked for if `fifoFill` grows between
  two loads (82, 83), and more bytes taken by `spiRamFifoWrite` than the caller has if
  a reset comes between two others (122, 123);
* the division by zero for a header without channels, or with a depth below 8 or one
  whose bytes are a multiple of 256 (`RenderSamples` goes to "trap");
* the stop command that the first call forgets (`audio_player.c:38`);
* where `buffer_used` drifts once several tasks count: it is read again only by a later
  connection, which may then start its player early, late or never (`TcpServer` allows
  all three, and its properties hold in each);
* a peer that vanishes without closing: `recv` has no timeout, so its task and
  descriptor stay.

## Plan

1. Done: all modules above, their runs, and the proofs of every safety property
   that the runs check.
2. Safety lemmas behind the liveness properties, where the prover can help: for
   instance that a writer which waits for room always faces a full ring whose
   reader can take a step.
3. `HeardInOrder` in terms of the underflows that `late` stands for, so that the
   theorem says from which sample on the order is lost.
