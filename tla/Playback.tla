------------------------------ MODULE Playback ------------------------------
(***************************************************************************)
(* src/web/app.js: the jitter buffer of the receiver page, from a packet's *)
(* arrival to the output block.  Both are handlers of one JavaScript       *)
(* thread.  The ring is its fill; sound and numbers are in EndToEnd, and   *)
(* the drift correction, which the gains of updateDrift keep below a       *)
(* ten-thousandth, is left out.                                            *)
(* phase counts in Unit parts of a frame, and each output frame advances   *)
(* it by Step parts: sampleRate / ctx.sampleRate = Step / Unit.            *)
(*                                                                         *)
(* Two clocks that run at the same speed give turns: a packet is produced  *)
(* every PacketFrames * Unit of time, and the page's sound card asks for a *)
(* block every BlockFrames * Step.  In between the network delivers what   *)
(* it likes, and the sender drops what the network does not take.          *)
(***************************************************************************)
EXTENDS Integers, Sequences, FiniteSets

CONSTANTS
    PacketFrames, BlockFrames,  \* frames of a packet and of an output block
    Step, Unit,                 \* the resampling ratio
    Target, RingFrames,         \* targetFrames(), RING_FRAMES
    Patience,                   \* blocks after which a listener expects audio again
    MaxFlight,                  \* bound on the packets on their way
    MaxPackets, MaxLosses, MaxStalls, MaxResets   \* bounds on what happens

\* The target is two blocks or more: refreshFloor.  A packet is shorter than a block
\* by a frame at least (256, 512 or 1024 frames against 4096, unless the page's
\* sound card is some four times as fast as the host's), and an output frame is not
\* longer than a packet.
ASSUME PlaybackAssumption ==
    /\ {PacketFrames, BlockFrames, Step, Unit} \subseteq Nat \ {0}
    /\ Target \in Nat /\ Target * Unit >= 2 * (BlockFrames * Step)
    /\ (PacketFrames + 1) * Unit <= BlockFrames * Step
    /\ Step <= PacketFrames * Unit
    /\ RingFrames \in Nat /\ RingFrames > 4 * Target
    /\ {Patience, MaxFlight, MaxPackets, MaxLosses, MaxStalls, MaxResets} \subseteq Nat

\* The durations of a packet and of a block
Packet == PacketFrames * Unit
Block == BlockFrames * Step

VARIABLES
    isPlaying,  \* playing (ReceiverSession has a variable of that name)
    buf,        \* ringFill(), resampler, conceal and stats.underruns
    flight,     \* of each packet sent and not yet delivered: is it a restart (external)
    lead,       \* how long the next packet is produced before the next block is due
    packets, losses, stalls, resets,  \* counters for the bounds
    accepted,   \* frames pushed and not discarded since ringReset (history)
    late,       \* a packet was overdue or never came (history)
    steady      \* blocks played with no packet on its way, up to Patience (history)

bounds == <<packets, losses, stalls, resets>>
playbackVars == <<isPlaying, buf, flight, lead, bounds, accepted, late, steady>>

Lesser(a, b) == IF a < b THEN a ELSE b
Greater(a, b) == IF a < b THEN b ELSE a

PlaybackInit ==
    /\ isPlaying = TRUE
    /\ buf = [fill |-> 0, primed |-> FALSE, phase |-> 0, conceal |-> FALSE,
              underruns |-> 0, emitted |-> 0]
    /\ flight = <<>>
    /\ lead \in -Packet .. Block
    /\ packets = 0 /\ losses = 0 /\ stalls = 0 /\ resets = 0
    /\ accepted = 0 /\ late = FALSE /\ steady = 0

-----------------------------------------------------------------------------
(* The sender and the network *)

\* The sender's turn: a packet's worth of audio has been played by the host.
SenderTurn ==
    /\ lead >= 0 /\ packets < MaxPackets
    /\ packets' = packets + 1 /\ lead' = lead - Packet

\* restart: the packet carries the discontinuity flag, or a description the
\* receiver does not have.
Send(restart) ==
    /\ SenderTurn
    /\ Len(flight) < MaxFlight
    /\ restart => resets < MaxResets
    /\ resets' = resets + (IF restart THEN 1 ELSE 0)
    /\ flight' = Append(flight, restart)
    /\ UNCHANGED <<isPlaying, buf, losses, stalls, accepted, late, steady>>

\* The host does not call processBlock: there is no packet in this turn.
HostPauses ==
    /\ SenderTurn
    /\ losses < MaxLosses /\ losses' = losses + 1
    /\ late' = TRUE /\ steady' = 0
    /\ UNCHANGED <<isPlaying, buf, flight, stalls, resets, accepted>>

\* The sender's queue drops its oldest packet, a restart with it.
SenderDrops ==
    /\ flight # <<>>
    /\ losses < MaxLosses /\ losses' = losses + 1
    /\ flight' = Tail(flight)
    /\ late' = TRUE /\ steady' = 0
    /\ UNCHANGED <<isPlaying, buf, lead, packets, stalls, resets, accepted>>

-----------------------------------------------------------------------------
(* The receiver *)

\* ringReset: concealment is not part of it.
Emptied(b) == [b EXCEPT !.fill = 0, !.primed = FALSE, !.phase = 0, !.emitted = 0]

\* ringPush: beyond three times the target the ring is cut to the target.
Overflows(fill) == fill + PacketFrames > Lesser(RingFrames - 2, 3 * Target)

\* Mutant: the cut keeps the frames it should discard.
PushUncut(fill) == fill + PacketFrames
Pushed(fill) == (IF Overflows(fill) THEN Target ELSE fill) + PacketFrames

\* handlePacket
HandlePacket ==
    /\ flight # <<>>
    /\ LET b == IF Head(flight) THEN Emptied(buf) ELSE buf
       IN  /\ buf' = [b EXCEPT !.fill = Pushed(b.fill)]
           /\ accepted' = (IF Head(flight) THEN 0 ELSE accepted) + Pushed(b.fill) - b.fill
    /\ flight' = Tail(flight)
    /\ UNCHANGED <<isPlaying, lead, bounds, late, steady>>

\* Mutant: playback starts as soon as there is anything to play.
ReadyAtOnce(b) == b.fill >= 2
ReadyToStart(b) == b.fill >= Target /\ b.fill >= 2

\* Mutant: an underrun holds the read position instead of leaving it to the clock.
AdvanceHeld(b, frames) ==
    [b EXCEPT !.fill = @ - frames,
              !.phase = Lesser(@ - frames * Unit, Unit - 1) + Step,
              !.emitted = @ + 1]

\* The read position moves on by whole frames, then the phase by one output frame.
Advance(b, frames) ==
    [b EXCEPT !.fill = @ - frames, !.phase = @ - frames * Unit + Step, !.emitted = @ + 1]

\* One output frame of pull: the loop consumes frames while phase >= 1 and two
\* are buffered, and conceals when it has to stop early.
OutputFrame(b) ==
    LET seeded == IF b.primed THEN b
                  ELSE [b EXCEPT !.primed = TRUE, !.phase = 0, !.fill = @ - 1]
        due == seeded.phase \div Unit
        frames == Lesser(due, Greater(seeded.fill - 1, 0))
        starved == frames < due
    IN  [Advance(seeded, frames) EXCEPT
            !.conceal = starved \/ (@ /\ frames = 0),
            !.underruns = @ + (IF starved /\ (frames > 0 \/ ~b.conceal) THEN 1 ELSE 0)]

OutputBlock(b) ==
    LET after[i \in 0 .. BlockFrames] ==
            IF i = 0 THEN b
            ELSE IF after[i - 1].primed \/ ReadyToStart(after[i - 1])
                 THEN OutputFrame(after[i - 1])
                 ELSE after[i - 1]
    IN  after[BlockFrames]

BlockDue == lead <= 0 /\ lead' = lead + Block

\* What the target leaves for the network: less a block, a packet and a frame
Allowance == (Target - 1) * Unit - Packet - Block

\* The oldest packet on its way was produced longer ago than that.
Overdue == flight # <<>> /\ lead + Len(flight) * Packet > Allowance

\* pull: silence while the page is not playing
Pull ==
    /\ BlockDue
    /\ buf' = IF isPlaying THEN OutputBlock(buf) ELSE buf
    /\ late' = (late \/ Overdue)
    /\ steady' = IF isPlaying /\ flight = <<>> THEN Lesser(steady + 1, Patience) ELSE 0
    /\ UNCHANGED <<isPlaying, flight, bounds, accepted>>

\* The page is in the background or busy: a block is not asked for.
PullMissed ==
    /\ BlockDue
    /\ stalls < MaxStalls /\ stalls' = stalls + 1
    /\ steady' = 0
    /\ UNCHANGED <<isPlaying, buf, flight, packets, losses, resets, accepted, late>>

Reset ==
    /\ resets < MaxResets /\ resets' = resets + 1
    /\ buf' = Emptied(buf) /\ accepted' = 0
    /\ steady' = 0

\* onclose, with what was on its way, until the page is connected again
Reconnect ==
    /\ Reset
    /\ flight' = <<>>
    /\ UNCHANGED <<isPlaying, lead, packets, losses, stalls, late>>

\* A config message; the packets that follow have nothing new to say.
HandleConfig ==
    /\ Reset
    /\ UNCHANGED <<isPlaying, flight, lead, packets, losses, stalls, late>>

\* stopListening; the page reconnects by itself and packets keep coming.
StopPlayback ==
    /\ isPlaying /\ isPlaying' = FALSE
    /\ Reset
    /\ flight' = <<>>
    /\ UNCHANGED <<lead, packets, losses, stalls, late>>

StartPlayback ==
    /\ ~isPlaying /\ isPlaying' = TRUE
    /\ UNCHANGED <<buf, flight, lead, bounds, accepted, late, steady>>

-----------------------------------------------------------------------------
PlaybackNext ==
    \/ \E restart \in BOOLEAN : Send(restart)
    \/ HostPauses \/ SenderDrops
    \/ HandlePacket
    \/ Pull \/ PullMissed
    \/ Reconnect \/ HandleConfig
    \/ StopPlayback \/ StartPlayback

PlaybackSpec == PlaybackInit /\ [][PlaybackNext]_playbackVars

-----------------------------------------------------------------------------
(* Properties *)

\* The ring holds no more than the cut leaves.
PlaybackTypeOK ==
    /\ {isPlaying, late} \subseteq BOOLEAN /\ lead \in -Packet .. Block
    /\ buf \in [fill : 0 .. 3 * Target, primed : BOOLEAN, phase : Nat, conceal : BOOLEAN,
                underruns : Nat, emitted : Nat]
    /\ flight \in Seq(BOOLEAN) /\ accepted \in Nat
    /\ packets \in 0 .. MaxPackets /\ losses \in 0 .. MaxLosses
    /\ stalls \in 0 .. MaxStalls /\ resets \in 0 .. MaxResets
    /\ steady \in 0 .. Patience

\* Playback stays on the output clock: whatever the order of bursts, underruns
\* and late packets, the place that is played is the place reached by the
\* output frames counted since playback started.  Audio that comes late is
\* skipped; it never adds to the latency.
StaysOnClock ==
    buf.primed => buf.fill * Unit - buf.phase = (accepted - 1) * Unit - buf.emitted * Step

\* What app.js:141-151 says of the target, less the packet and the frame that it
\* forgets: a target of two blocks or more absorbs every delay of up to the target
\* less one block, one packet and one frame.  Unless a packet is older than that when
\* a block is pulled, or never comes, there is no underrun - whatever the phase of the
\* two clocks, and not after a restart, a stop, or the cut of an overfull ring either.
DelayWithinTargetAbsorbed == ~late => buf.underruns = 0

\* TESTING.md:78: after the network was away, audio recovers within 5 s with no
\* page reload.  Once every packet has come on time for that long, audio plays.
AudioRecovers == steady >= Patience => ~buf.conceal

=============================================================================
