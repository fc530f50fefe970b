# PhonePostMix in TLA+

PhonePostMix is an audio plugin that serves a web page from inside the host and
streams the mix to it over a WebSocket, so that a phone becomes a monitor.
These modules model the parts of it that threads, sockets and clocks make hard
to test, check them with TLC on small instances, and prove with TLAPS what
matters most about the core. Every definition names in `PROJECT.json` ("map")
the lines it stands for; paths are relative to the directory that holds `tla/`.

## The system

```
host audio thread         message thread            network
 processBlock              start stop prepare         |
      |                    setSettings                |
      v                        |                acceptor thread
 AudioRingBuffer               v                      | one per client
      |                   StreamEngine                v
      +--> streaming thread ---broadcast---> Connection queue --> writer --> browser
           (packets, keepalive)                                              |
                                                     app.js: handlePacket -> ring -> pull
```

| component | state | operations | who meets whom |
|---|---|---|---|
| `AudioRingBuffer.h` | `juce::AbstractFifo` indices, storage, channel count, overruns | prepare, release, write, read | audio thread writes while the streaming thread reads, no lock |
| `StreamEngine.cpp` | settings, epoch, discontinuity flag, sequence, sample clock, transport flag, clients | start, stop, setSettings, prepare, release, pushAudio, run, sendPacket, session messages | message, audio, streaming and connection threads share atomics and `stateMutex` |
| `StreamServer.cpp`, acceptor and lifecycle | vector of connections, `connectionsMutex`, listening socket, flags | start, stop, accept, reap, broadcast, disconnect | four kinds of thread take one lock; threads are joined under it |
| `StreamServer.cpp`, connection | queue with byte limit, upgraded/finished flags, parser | enqueue, drainQueue, writeAll, pumpIncoming, handleHttp | broadcasts against the connection's own writer |
| `WebSocketProtocol.cpp`, `HttpMessage.cpp`, `WirePacket.cpp`, `Sha1.h` | parser buffers | encode, decode | called by one thread each |
| `PluginProcessor.cpp`, `PluginEditor.cpp` | saved settings | host callbacks, buttons | call the engine |
| `web/app.js`, session | playing, socket, timer, awaits | LISTEN, STOP, connect, onclose, timer | handlers interleave at awaits and events |
| `web/app.js`, playback | ring, resampler phase, priming, concealment | handlePacket, pull | packets arrive against the output clock |

What is hard: the ring without locks; settings, epoch and flag stored one after
the other while packets are built from them; stopping four kinds of thread that
hold and need one lock; a queue that drops while it is being written; a page
whose handlers outlive what they belong to; a playback position that has to
stay on a clock while packets come late or never. `PROJECT.json` lists each
hazard at its line with the properties that watch it, or why none does.

What makes each part correct:

* the ring: the two threads never share a slot, nothing is cut or overwritten,
  and what is read is what was written, in order;
* the engine: a listener can place every packet in time, every session and every
  change starts with a discontinuity, every change reaches the listeners, and the
  stream never falls silent while it runs;
* the server: stop ends every thread it started and returns; a broadcast never
  meets a destroyed connection; client callbacks come in pairs;
* the queue: order, exact accounting, control frames never dropped, oldest
  audio dropped first and no more of it than necessary;
* the page: while it listens it is connected or about to be, it shows the
  truth, and what it plays is what the clock says;
* all of it together: whatever is dropped on the way, what the page has in its
  ring belongs together and is what the host played;
* the plugin: a project opened again is what was saved, and streams again; what
  is deferred does not outlive the instance it was deferred for.

## Modules

**AudioFifo** says what the ring promises: a FIFO of frames with the
channel mapping of the source. **AudioRing** is the ring itself: start and end
index, storage, and for each thread a program counter, so that the test of the
free space, the second reading of the indices by `fifo.write`, each copied frame
and the publication of the index are separate steps. `AbstractFifo` is external
and modelled from its use. `ImplementsFifo` is the refinement: the frames between
the published indices are the abstract FIFO. Modules named `..._proofs` hold the
proofs about the module they extend; see Proofs.

**ClientQueue** is one connection's queue and writer. A frame is its number, its
size and whether it may be dropped. `Offer` is the test of `upgraded`, `Enqueue` the
push and the drop loop under `queueMutex`; `Pop`, `WriteSome` and `WriteFails` are
drainQueue and writeAll; `PumpPing` puts a pong into the queue. A failing write
stands for the exit flag, the deadline and a lost peer.

**StreamServer** has the threads: message, streaming, acceptor and one per
connection, with `connectionsMutex` as a variable. Each critical section has a
step that takes the lock and one that gives it back, with the joins in between.
The parts of the engine that start and stop the server, and its list of clients,
are here too.

**Connection** is one connection's thread from the first byte of its request to
`Finish`: the request head (`ReadHead`), the choice of the answer (`Decide`),
writeAll with its deadline (`WriteSome`, `WriteFails`, `Tick`), and the loop of
drainQueue (`Pop`, `Drained`) and pumpIncoming (`PumpReads` ...). `WriteReturns` is
what each caller of writeAll does with the result. The peer may read, stall, come
back or leave. Of the queue it has the length only; ClientQueue has its order, and
StreamServer the callbacks and the lock around it.

**FrameParser** is push and nextFrame. The client's bytes are the positions of a
stream of frames; `incoming` holds the positions from `base` on, so that compaction
and the parser's place are exact, and a payload is the number of its frame.
`Origins`, `Held`, `Violates` and `Completes` say what a stream means, looking at the
whole of it and not at the parser. What it shares by name with Connection carries a
prefix.

**StreamEngine** has the streaming thread's round as one step per load and store
of a shared atomic (`GetSettings` ... `BuildPacket`), the message thread's calls
likewise, and the audio thread. A packet is built, with the exchange of the flag, in
`BuildPacket` and broadcast in `BroadcastPacket`: the streaming thread holds no lock in
between. The ring is a number of frames. `snap` holds the
locals of a round. Time is `Tick`, which ages the last packet up to the keepalive
interval. What session messages say is left out: hello and config are broadcasts
of StreamServer.

**ReceiverSession** is the page's button, its sockets and its reconnect timer. A
handler is one step; `startListening` is three, split at its awaits
(`StartSuspended`, `ContextResumes`, `WakeLockSettles`), with counters of the
calls suspended there. `Closed` is onclose of whichever socket, as in the code.

**Playback** is the page's ring from `handlePacket` to `pull`. `OutputBlock` folds
`OutputFrame` over a block; the inner loop of pull, which consumes frames while
phase >= 1, is its closed form (`frames`). The ratio of the sample rates is
Step / Unit. The host's sound card and the page's are two clocks of one speed: `lead`
is the time from the next packet's production to the next block, it starts anywhere, and
`SenderTurn` and `BlockDue` let each go on when its time has come, so that blocks fall
into packets wherever the sizes and the start put them. A packet is any number of
frames that is shorter than a block, as in the code (256, 512 or 1024 against 4096).
`Target` is targetFrames() as a whole number (the code's can have a fraction, which the
cut drops and the test for the start rounds up). `accepted`, `late` and `steady` are history.
What it shares by name with ReceiverSession carries a prefix, so that one module can
extend both.

**PacketStream** is the engine's promise to listeners: sequence, sample clock,
descriptions and the restart flag, with nothing of threads, ring and time. Its
sender may look at each part of the configuration at a different moment (`loaded`
stays behind part by part), because the engine does. `ImplementsPacketStream` in
StreamEngine is the refinement; `loaded` is the round's `snap` as far as it has been
filled, `stage` the message thread's place in a reconfiguration.

**WireCodec** is writeSamples and the page's decode, on exact fractions, byte by
byte for the integer formats.

**EndToEnd** composes: it EXTENDS PacketStream for the engine (in its place stands
what StreamEngine has been shown to implement) and WireCodec for the payload, and
adds one client's queue with the drop policy of ClientQueue, the session messages,
a connection that breaks with part of the queue delivered, and `handlePacket`,
`handleControl`, `ringPush` and `onclose` of the page. Drops happen between any two
steps, because the queue is full or what was queued is lost. `outgoing` is a packet that
is built and not yet broadcast; the flag's store and the config message of another thread
can fall before its broadcast. The queue counts audio frames: that control frames take
room from audio is in ClientQueue only. `number`, `last`, `missed`, `swayed` and a
packet's `overtaken` are history.

**Plugin** is the processor and its editor. The host's thread saves and restores
one engine call at a time (`hpc`), message handlers that read and write back are
two steps (`push`, `starting`), deferred starts are counted by the instance they
belong to (`posted`, `expired`). The project file survives its instance. `choice` and
`staleBoxes` are history: which box has changed, and whether a restore came before or
after pushSettingsToEngine read the settings.

## Runs

| run | what it asks | bounds |
|---|---|---|
| ring | no shared slot, nothing cut, ready frames stable, refinement of AudioFifo | rings of 4 slots mono and 3 stereo, so every block wraps somewhere; blocks and reads up to 3; 5 tagged frames; prepare and release in any idle moment |
| queue | accounting, order, drop policy | limit of three audio frames, 8 frames: overflow occurs with audio only, mixed, and with control frames that crowd audio out |
| server | lifecycle safety, stop returns | 3 connections over 2 sessions: one reaped, one served, one being accepted |
| connection | torn writes, stalled and departed peers, ends | heads that end before, at and within a read of the limit, or never; items of 2 units into a buffer of 3, a queue of 2, a deadline of one tick: writes are cut by a full buffer, by the deadline, by either side's close |
| parser | messages of a stream whatever its cuts, bounded buffer | 4 frames of 9 kinds, 1 to 4 bytes a read: three fragments with a ping between, all three forms of the length, every violation; a threshold of 3 bytes, so that the buffer is compacted many times |
| engine | refinement of PacketStream, the stream goes on, changes arrive | 3 calls of the message thread: start, stop, start or a change between any two steps; packets of 1 and 2 frames in a ring of 2, so it is empty, short and full; sequence modulo 2, clock modulo 3 |
| session | served, strays, status, settling | 5 clicks (two stops between overlapping starts), 2 failures, 3 sockets: StraysComeFromStops says that no more can be in use |
| playback | clock, delay, capacity | 20 packets of 2 frames (4 units of time) against blocks of 4 output frames (12 units) in any phase; the target is exactly two blocks, the floor, and leaves 6 units for delay; up to 4 packets on their way, so packets are late by more than that and come in bursts, and up to 6 missed blocks, so the ring overflows and is cut |
| end_to_end | one description, one stretch of the clock, losses, samples | 4 packets through a queue of 2 into a ring of 3, so both drop, and a packet that was overtaken can have two behind it; the number wraps at the third; 2 of reconfiguration, hello and break in any mix; three formats, mono and stereo; samples at, between and beyond the ends of the scale |
| plugin | deferred starts, round trip, boxes | 2 deferred starts, 2 events of the user or the machine, saves, restores, openings and instances without bound; a port that is taken or free, an address that is present or not, a packet size that no box shows; the two events are enough for two changes of a box, with restores before, within and after each |
| engine_scratch, playback_recovery | one statement of the docs each, refuted | see below |

Deadlock checking is off where a bound on calls, clicks or frames ends every
behaviour, or the system may rest when streaming is stopped. The ring's run has
it on: its threads can always go on.

Each property of a passing run has a mutant: a plausible bug in one mapped
definition with which TLC finds the property violated.

### Fairness

* StreamServer: every thread is scheduled (weak fairness per thread). Nothing is
  assumed of who gets `connectionsMutex` next: stop joins the streaming thread
  before it needs the lock, so no broadcast competes for ever. A connection
  asked to exit does so because its polls have a timeout, whatever its peer does:
  EndsWhenOver of Connection checks that.
* StreamEngine: the threads run and the clock goes on. The host owes no audio and
  the user no call.
* Connection: its thread runs and the clock goes on; the peer owes nothing: it
  may stall for ever or read just enough to keep the connection.
* ReceiverSession: the browser settles promises, fires timers and reports what
  becomes of a socket. Clicks, failures and the network's return have no fairness.
* Plugin: a restore that has begun and a handler that has begun come to their end,
  and a posted message is dispatched. The host owes no save and the user no click.
* ClientQueue, FrameParser, AudioRing, Playback and EndToEnd have safety properties
  only.

### What the code does differently from its documents

Two runs end in a violation, each of one sentence of the repository:

* **playback_recovery** (a bug): `resampler.phase` grows during an underrun, and
  later frames are consumed at once to catch up. That is right for late audio
  (StaysOnClock), but audio that never comes leaves a debt that normal delivery
  cannot repay. In the run two packets, a block's worth, are lost; from then on every
  packet is on time, and still each block ends in concealment until something resets the
  ring - all of it once more than a block is missing. The run waits 20 blocks;
  each of them leaves the fill and the debt where they were, so the 5 s of
  TESTING.md:78 make no difference. With the drift correction that the model leaves
  out, at most 7e-5, about 3 frames a second are gained back.
* **engine_scratch**: `prepare` can change the ring's channel count between the
  sizing of `scratch` and `ring.read` (AudioRingBuffer.h:125-126).

Also seen while modelling, without a run of their own:

* a packet can carry a new `configEpoch` without the discontinuity flag, because the
  epoch is raised first (StreamEngine.cpp:141-142, 232-233, against 294 and 330;
  protocol.md:208 says that the first packet carries it). PacketStream says exactly
  this much: a description may be new before the restart is due;
* a packet that is built when the discontinuity flag is raised can be queued after the
  config message that announces the change (StreamEngine.cpp:142-143 and 233-234 between
  330 and 349). It carries no flag and the old clock, and perhaps the new description.
  If the next packet, which carries the flag, is then dropped, the old one stays in the
  page's ring in front of the new stretch of the clock, where protocol.md:179 and 339 ask
  for a flush. OnePacketBeforeRestart says that this packet is alone and first;
* "two blocks is the floor: one for the block in flight, one for the jitter"
  (app.js:151), and the margin against jitter is "target - blockDuration"
  (app.js:145-146). Playback starts as soon as the target is reached, in the middle of a
  packet and of a block, so the margin is smaller by a packet and a frame: with a context
  of 44.1 kHz, a stream of 48 kHz and packets of 512 frames the floor of 186 ms absorbs
  82 ms of delay, where a block is 93 ms. At 8, 16 and 32 kHz two blocks are a whole
  number of milliseconds, and the floor has nothing to spare. DelayWithinTargetAbsorbed
  states the margin that is there, for delays counted from the time at which a packet is
  complete by the host's clock;
* "drop the oldest audio, never the newest" (StreamServer.cpp:75-77): when control frames
  alone take the room, the audio frame that is pushed is the one that is dropped. It is
  then the only audio there is, so it is the oldest as well, and DropsOldestOnly, which
  counts the frame pushed among those that a step can drop, says that nothing newer
  stays and that it would not have fitted;
* a hello goes to every client and, unlike a config, does not reset the ring
  (app.js:440-443). One that was built before a change and is queued after it makes
  the page believe an old channel count or rate, and until the next packet corrects
  it the ring can hold frames of two (protocol.md:210-215 makes the packet header
  authoritative). RingOfOneDescription excepts this with `swayed`;
* getStateInformation saves the address in use and not the one that was chosen
  (PluginProcessor.cpp:118). Before the first start the list of addresses is empty, so
  a project that is opened and saved without streaming loses its address, and one
  that is saved on another network replaces it. SaveKeepsRestored excepts this;
* a project that was streaming and is saved between its restore and the deferred
  start is saved as not streaming (PluginProcessor.cpp:119, against the comment at
  141); a later restore of a project that was not streaming does not take back the
  deferred start of the one before;
* the editor reads the format and packet boxes only when it opens: after a restore,
  a change of one box puts the other setting back to what its box shows, and a
  packet size that no box shows becomes 512 with a change of the format. A restore that
  falls between pushSettingsToEngine's reading and its storing (PluginEditor.cpp:136-142)
  is lost: port, latency and the other box's setting are back to what they were before
  it. BoxChangesOneThing holds in all of these cases: it says exactly which setting may
  have which value, and that the chosen one always has the value chosen;
* a restored port has no effect on an engine that runs, and addresses are looked up
  at a start only, so the QR code can show an address that is gone;
* PLAN-risks.md:525 wants a project that was streaming to reopen not connected; the
  code starts it;
* a session message is built from `hostPlaying` before the lock that orders it, so one
  built before a change of the transport can be queued after the one that announced
  it, and nothing corrects it (StreamEngine.cpp:277-278);
* StreamServer.cpp:16 calls a client gone that cannot be written to for 5 s; the
  deadline counts from the start of a frame, whatever progress is made;
* while broadcasts come faster than the peer reads, drainQueue does not return and a
  ping is not answered (protocol.md:85 gives no time for it);
* a refusal's body is written although its head was not (StreamServer.cpp:174-175);
* an overrun discards audio before it is numbered, so sequence numbers do not show
  it, against AudioRingBuffer.h:25-26 and DEVELOPMENT.md:158-160;
* `setSettings` stores the settings before it raises the epoch, so two packets of
  one epoch can have different formats (protocol.md:166; the page compares formats
  too and is not misled);
* WirePacket.h:40 calls the silence flag synthesised silence, but real audio carries
  it while the transport is stopped, and keepalive packets carry it while the host
  plays (protocol.md:180);
* `prepare` resets the ring while the streaming thread runs (AudioRingBuffer.h:59);
* StreamServer.h:32-35 describes a shutdown that closes the listening socket first;
  stop joins the acceptor first, as its own comment explains;
* the clamp of the drift correction, and the resynchronisation after five seconds at
  it, cannot be reached: |2e-5 * err + 1e-6 * integral| <= 9e-5 for a fill of at most
  three targets and an integral of at most 50, against 2e-3;
* after STOP the page reconnects by itself (the close event schedules it), and a
  STOP and LISTEN in quick succession leave a second connection that feeds the
  same ring. StraysComeFromStops bounds how many there can be.

## Proofs

Each module of proofs extends the module it is about, Receiver_proofs the two of the
page and Connection_proofs the two of a connection. Everything below holds for every
value of the constants that satisfies the assumptions named, which TLC evaluates on the
runs' values.

**AudioRing_proofs** (assumptions: `BoundsAssumption`, `ShapesAssumption`):
`TypeCorrect`, `NoOverlap` (ClaimsDisjoint, the absence of a data race on the storage),
`NoSilentCut` (BlockClaimedWhole) and `ReadyFramesAreStable`. ClaimsDisjoint is not
inductive: it speaks of two claims, each computed from an index that the other
thread has moved since. The inductive invariant `ClaimInv` ties each claim to the
index that only its own thread moves, and bounds its length by the free or ready
frames of the present moment. The other thread's commit can only raise that bound
(`CommitWriteGrows`, `CommitReadShrinks`); two claims that start at opposite ends of
the ready frames and are no longer than free and ready cannot meet.

In the same module is `OutComesWhatWentIn`, the refinement Spec => ImplementsFifo.
`DataInv` adds to ClaimInv what the two threads have done inside their claims: which
samples are already the source's (`Copied`), and how much of what is ready is already
in the destination (`Fetched`). WriteCommit is then `Accept` of the whole block,
ReadCommit is `Take` of what was fetched, and every step between them leaves the
queue alone, because the frames in it are ready and ready frames are stable.

**StreamServer_proofs** (`ConnsAssumption`: a connection is not one of the names of the
other lock holders; `MaxStartsAssumption`): `EveryThreadIsReachable`,
`NothingOutlivesStop`, `BroadcastsMeetNoDeadClient` and `ListenerHearsInTurn`, for any
number of connections. `ServerInv` has five parts beside the types: where stop stands
determines which thread and which socket is left (`Phases`); what the acceptor holds
by itself (`AcceptorHolds`); every thread begun and not destroyed is in the vector or
in stop's copy (`VectorHolds`); the order of socket and finished flag (`FlagsFollow`);
the upgraded flag remembers what the listener was told (`ListenerFollows`).

**StreamEngine_proofs** (`ParametersAssumption`): `ImplementsPromise`, the refinement Spec =>
ImplementsPacketStream. `EngineInv` says that the counters continue the last packet
unless a restart is due, and that start finds no thread and leaves the flag raised
(`Continues`, `StartsFresh`). Five kinds of step are steps of the promise, a round
without a packet looks at the configuration again, and the rest is not seen.

**Receiver_proofs** has two parts. The session (`SessionAssumption`): `NeverWaitsForNothing` and `StraysBounded`,
for any number of sockets and clicks. The strengthening is that suspended calls and
stops are counted by clicks, and that a close is of the current socket or of a stray.

The buffer (`PlaybackAssumption`: the target is two blocks or more, a packet is shorter
than a block by a frame at least, an output frame is not longer than a packet):
`DelayAbsorbed` (DelayWithinTargetAbsorbed), `OnClock` (StaysOnClock) and
`PlaybackTypeCorrect`, for every packet and block size, ratio, target and phase. The
assumption on packets is that of every size of the code at every pair of rates but
1024 frames with an output some four times as fast as the stream (44.1 or 48 to 192 kHz). An output
frame moves the read position on by `Step`, whether audio is there or not
(`FramePlayed`); a block, by induction over sets of numbers (`FromZeroOn`), by a
block's duration (`BlockPlayed`). DelayWithinTargetAbsorbed is far from inductive: it
counts underruns, and says nothing of what there is to play. `AheadInv` weighs the
audio ahead of the read position, the packets on their way and the lead: their sum is
changed by no step of either clock, since a turn of the sender adds a packet and takes
its duration from the lead, and a block does the reverse. It starts at the target less a
packet and a frame (`Reserve`) at least, a lost packet or one that is overdue apart, and a
cut, which leaves the target and a packet, does not bring it below. When a block is due
and no packet on its way is overdue, what is ahead is therefore a block.

**EndToEnd_proofs** (`RingAssumption`: the cut leaves less than its limit;
`SequenceAssumption`: half the range of the sequence number is more than the packets
of the run; `PacketAssumption` and `SignalAssumption`, the types of packets and
signal): `RingBelongsTogether`, `LossesAreCounted`, `OldPacketsFlushed` (OnePacketBeforeRestart),
`FaithfullyHeard`, `EndToEndTypeCorrect` and `SenderIsPacketStream`. The first needs
only what fits between the ring and the page's belief (`RingFitsStream`), whoever
sends. The losses follow from the order of the numbers in the queue, which dropping and
breaking only thin out (`InOrder`, `QueueThinned`), and from the sequence numbers of two
packets giving their distance (`LossBetween`). For the rest the inductive invariant
(`EndToEndInv`) follows a packet through the system: what the sender is about to say
(`SenderInv`), that every payload in the queue is the encoding of frames that were
played (`QueueInv`), what the page has decoded (`PageInv`), and which restarts of the
sample clock the page has still to be told of (`RestartInv`): the engine owes a config
message, or every audio frame of an older origin, the place on the clock where its packet
number would be zero, is followed by one, which is a control frame and cannot be dropped.
The packet under construction is the exception: it may be of the older origin with the
message already queued. Then everything older is still in front of the message
(`Clean`), so that after the broadcast it is the only one behind it, and marked as
overtaken (`Settled`). HeardFaithfully then is a fact about the
codec: decoding an encoded sample is within half a step of it, for every format.
`SenderIsPacketStream` refines the composition's sender to the promise that
StreamEngine implements.

**Connection_proofs** has two parts. The thread (`SizesAssumption`, `RequestsAssumption`):
`NothingFollowsTornWrite` (NothingAfterTornWrite) and `TypeCorrect`, for every request,
send buffer, queue and deadline. Two facts make them inductive: a head that is still
being read is within its limit (`HeadWithinLimit`), and a thread whose write failed is
leaving, or writes the body that follows an error head (`TornIsLeaving`).

The parser (`FramesAssumption`, `LimitsAssumption`): `MessagesAreRead`
(MessagesAreTheStreams) and `ParserTypeCorrect`, with the bound of the buffer, for every
set of frames, stream, read size, payload limit and threshold. `ParserInv` says that some
number n of frames has been taken (`ParsedTo`): the parser is where frame n + 1 begins,
the messages returned are those that the first n frames complete, `assembly` is what they
leave open, and while the parser waits, frame n + 1 cannot be judged yet. Where a frame
begins is the recursive function `BytesOf`, whose steps and growth are proved by induction
over sets of numbers (`BytesStep`, `BytesGrow`). What one more frame changes in the
reading of the stream (`OriginsNext`, `HeldNext`) is then what each action does.

**ClientQueue_proofs** (`SizesAssumption`): `Accounted` (EveryFrameAccounted), `InOrder`
(DeliveredInOrder), `OldestDropped` (DropsOldestOnly) and `TypeCorrect`, for every frame
size, limit and number of frames. What enqueue leaves is the recursive function
`Erased`; what it has after k erasures is proved by induction over sets of numbers
(`FromZeroOn`): while there was audio, the frame just pushed included, each erasure cuts
the oldest audio frame (`Cut`),
and the number of erasures chosen is the least that brings the queue to its limit.
`Bytes` is stated over places, so that a frame in or out changes it by its size. The
strengthening is `ControlInv`: a control frame is outstanding as a control frame. That
its number is outstanding is not enough, since the number alone could be that of audio,
which may be dropped.

**Plugin_proofs** (`PluginAssumption`): `ReopenedIsKept` (SaveKeepsRestored),
`OneBoxOneSetting` (BoxChangesOneThing) and `TypeCorrect`, for any projects, networks,
ports and boxes. `RestoredInv` says what an untouched instance does (nothing) and, of one
that was only restored, that it has what was restored and has started, is about to start
or has failed to; `BoxesInv` that between the choice of an entry and the engine's
setSettings the other box shows what was read, unless it was out of date already, and
that what was read is what the settings are, unless a restore has overtaken it.

The modules that declare types also prove them (`TypeCorrect`).

Every invariant and action property of a passing run, and each refinement, is a theorem.
Only model-checked are the liveness properties (StopTerminates, StreamMovesOn,
ChangeReachesListeners, EndsWhenOver, StreamSettles, RestoredStreams), which rest on
fairness and ENABLED, out of the prover's reach; and what a recursive definition computes
is proved here for each by hand, since the library's induction theorems take an operator.

## Not modelled

The text of HTTP heads, the writer of server frames, the byte offsets of the packet
header, the SHA-1 digest, PPM_AUTOSTART, layout, meters and status text of the editor,
the QR code, the pairing token, `hostPlaying` in session messages, what a client
reports of itself, the wake lock, the drift correction, moving the buffer slider,
`tools/listen.js`. `configEpoch` is unbounded in the models and has 16 bits in the
packet: it comes round after 65536 reconfigurations.
`PROJECT.json` gives the reason for each. Memory ordering is sequentially consistent
throughout: the ring's indices are `std::atomic` inside `AbstractFifo`.

## Plan

1. Done: the ring, the queue, the connection, the frame parser, the server's threads,
   the engine and its promise, the codec, the page, the composition of engine, queue
   and page, the plugin's saved state and editor.
2. Done: the proofs above, every safety property among them.
3. Models: the wake lock in ReceiverSession; `hostPlaying` through session messages;
   a packet size of zero or above 65535 after a restore.
