---------------------------- MODULE StreamEngine ----------------------------
(***************************************************************************)
(* src/src/core/StreamEngine.cpp: the streaming thread that turns the ring *)
(* into packets, the audio thread that fills the ring, and the message     *)
(* thread that starts, stops, prepares and reconfigures while both run.    *)
(* Every load and store of a shared atomic, and every critical section of  *)
(* stateMutex, is a step of its own.                                       *)
(*                                                                         *)
(* The ring is seen as in AudioFifo, and of its frames only their number.  *)
(* Sample rate and channel count are announced alike and stand together in *)
(* channels.                                                               *)
(***************************************************************************)
EXTENDS Integers

CONSTANTS
    SettingsSet,  \* Settings: records of a format and of framesPerPacket
    ChannelSet,   \* what prepare may be called with
    Capacity,     \* frames that the prepared ring can hold
    Quarter,      \* silenceKeepaliveMs, in ticks of the clock
    MaxCalls,     \* bound on the calls of the message thread
    SeqMod,       \* sequence is kept modulo SeqMod
    ClockMod      \* sampleClock is kept modulo ClockMod

ASSUME ParametersAssumption ==
    /\ SettingsSet \subseteq [format : STRING, frames : Nat \ {0}] /\ SettingsSet # {}
    /\ ChannelSet \subseteq Nat \ {0} /\ 1 \in ChannelSet /\ 2 \in ChannelSet
    /\ Capacity \in Nat /\ Quarter \in Nat /\ MaxCalls \in Nat
    /\ SeqMod \in Nat \ {0, 1} /\ ClockMod \in Nat \ {0, 1}

VARIABLES
    settings, channels,       \* settings, currentChannels
    epoch, pending,           \* configEpoch, discontinuityPending
    serverUp, serverRunning,  \* the StreamServer accepts; serverRunning
    hostPlaying,              \* hostPlaying
    ring,                     \* its channel count, 0 when released, and frames ready
    mpc, preparing, calls,    \* message thread: its step, inside prepare, calls so far
    tpc, texit,               \* streaming thread and its exit flag
    snap,                     \* its locals of one round of run; age: ticks since `now`
    scratch,                  \* scratch.size()
    quiet,                    \* ticks since lastPacketTimeMs, up to Quarter
    sequence, sampleClock,    \* sequence, sampleClock
    packet,                   \* the last packet built
    fresh                     \* no packet has been built since start (history)

shared == <<settings, channels, epoch, pending, serverUp, serverRunning>>
audio == <<hostPlaying, ring>>
message == <<mpc, preparing, calls>>
stream == <<tpc, texit, snap, scratch, quiet, sequence, sampleClock, packet, fresh>>
vars == <<shared, audio, message, stream>>

DefaultSettings == CHOOSE s \in SettingsSet : TRUE
NoSnap == [settings |-> DefaultSettings, channels |-> 1, playing |-> FALSE,
           epoch |-> 0, silence |-> FALSE, age |-> 0]
NoPacket == [epoch |-> 0, channels |-> 1, settings |-> DefaultSettings,
             discontinuity |-> FALSE, silence |-> FALSE,
             sequence |-> SeqMod - 1, sampleClock |-> 0]

Init ==
    /\ settings = DefaultSettings /\ channels = 2
    /\ epoch = 0 /\ pending = TRUE
    /\ serverUp = FALSE /\ serverRunning = FALSE
    /\ hostPlaying = FALSE
    /\ ring = [channels |-> 0, frames |-> 0]
    /\ mpc = "idle" /\ preparing = FALSE /\ calls = 0
    /\ tpc = "none" /\ texit = FALSE /\ snap = NoSnap /\ scratch = 0
    /\ quiet = 0 /\ sequence = 0 /\ sampleClock = 0
    /\ packet = NoPacket /\ fresh = FALSE

-----------------------------------------------------------------------------
(* The message thread *)

Call ==
    /\ mpc = "idle" /\ calls < MaxCalls
    /\ calls' = calls + 1

\* start: the server accepts before serverRunning and discontinuityPending
\* are set and the thread exists.  A start that finds no port changes nothing.
StartServer ==
    /\ ~serverRunning /\ Call
    /\ serverUp' = TRUE /\ mpc' = "setRunning"
    /\ UNCHANGED <<settings, channels, epoch, pending, serverRunning, audio, preparing,
                   stream>>

StartSetRunning ==
    /\ mpc = "setRunning"
    /\ serverRunning' = TRUE /\ mpc' = "startPending"
    /\ UNCHANGED <<settings, channels, epoch, pending, serverUp, audio, preparing,
                   calls, stream>>

\* Mutant: start leaves the flag as the last session left it.
StartPendingForgets ==
    /\ mpc = "startPending"
    /\ mpc' = "startThread"
    /\ UNCHANGED <<shared, audio, preparing, calls, stream>>

StartPending ==
    /\ mpc = "startPending"
    /\ pending' = TRUE /\ mpc' = "startThread"
    /\ UNCHANGED <<settings, channels, epoch, serverUp, serverRunning, audio, preparing,
                   calls, stream>>

StartThread ==
    /\ mpc = "startThread"
    /\ tpc' = "init" /\ texit' = FALSE /\ fresh' = TRUE
    /\ mpc' = "idle"
    /\ UNCHANGED <<shared, audio, preparing, calls, snap, scratch, quiet, sequence,
                   sampleClock, packet>>

StopBegin ==
    /\ serverRunning /\ Call
    /\ serverRunning' = FALSE /\ texit' = TRUE /\ mpc' = "joinThread"
    /\ UNCHANGED <<settings, channels, epoch, pending, serverUp, audio, preparing, tpc,
                   snap, scratch, quiet, sequence, sampleClock, packet, fresh>>

\* The thread is joined, then the server with its connection threads.
StopEnd ==
    /\ mpc = "joinThread" /\ tpc = "exited"
    /\ tpc' = "none" /\ serverUp' = FALSE
    /\ mpc' = "idle"
    /\ UNCHANGED <<settings, channels, epoch, pending, serverRunning, audio, preparing,
                   calls, texit, snap, scratch, quiet, sequence, sampleClock, packet,
                   fresh>>

\* setSettings: compare and replace under stateMutex
SetSettings(s) ==
    /\ Call
    /\ settings' = s
    /\ mpc' = IF s # settings THEN "bumpEpoch" ELSE "idle"
    /\ UNCHANGED <<channels, epoch, pending, serverUp, serverRunning, audio, preparing,
                   stream>>

\* prepare: the host has stopped calling processBlock, not the streaming thread.
Prepare(n) ==
    /\ Call
    /\ channels' = n /\ preparing' = TRUE
    /\ mpc' = "ringPrepare"
    /\ UNCHANGED <<settings, epoch, pending, serverUp, serverRunning, audio, stream>>

\* ring.prepare runs from here to the end of RingPrepared
RingPrepare ==
    /\ mpc = "ringPrepare"
    /\ ring' = [ring EXCEPT !.channels = channels]
    /\ mpc' = "ringReset"
    /\ UNCHANGED <<shared, hostPlaying, preparing, calls, stream>>

RingPrepared ==
    /\ mpc = "ringReset"
    /\ ring' = [ring EXCEPT !.frames = 0]
    /\ mpc' = "bumpEpoch"
    /\ UNCHANGED <<shared, hostPlaying, preparing, calls, stream>>

Release ==
    /\ Call
    /\ ring' = [channels |-> 0, frames |-> 0]
    /\ UNCHANGED <<shared, hostPlaying, preparing, mpc, stream>>

BumpEpoch ==
    /\ mpc = "bumpEpoch"
    /\ epoch' = epoch + 1
    /\ mpc' = "setPending"
    /\ UNCHANGED <<settings, channels, pending, serverUp, serverRunning, audio,
                   preparing, calls, stream>>

SetPending ==
    /\ mpc = "setPending"
    /\ pending' = TRUE
    /\ mpc' = "idle" /\ preparing' = FALSE
    /\ UNCHANGED <<settings, channels, epoch, serverUp, serverRunning, audio, calls,
                   stream>>

-----------------------------------------------------------------------------
(* The audio thread: the host calls processBlock after prepareToPlay and     *)
(* before releaseResources                                                   *)

Processing == ~preparing /\ ring.channels > 0

SetHostPlaying ==
    /\ Processing
    /\ hostPlaying' = ~hostPlaying
    /\ UNCHANGED <<shared, ring, message, stream>>

\* Mutant: write does not ask for room.
PushUntested ==
    /\ Processing
    /\ serverRunning
    /\ ring' = [ring EXCEPT !.frames = @ + 1]
    /\ UNCHANGED <<shared, hostPlaying, message, stream>>

\* pushAudio of one frame: not while stopped, and discarded when it has no room
PushAudio ==
    /\ Processing
    /\ serverRunning /\ ring.frames < Capacity
    /\ ring' = [ring EXCEPT !.frames = @ + 1]
    /\ UNCHANGED <<shared, hostPlaying, message, stream>>

-----------------------------------------------------------------------------
(* The streaming thread: run *)

ThreadOnly == UNCHANGED <<shared, message, hostPlaying>>

RunInit ==
    /\ tpc = "init"
    /\ quiet' = 0
    /\ tpc' = "top"
    /\ ThreadOnly
    /\ UNCHANGED <<ring, texit, snap, scratch, sequence, sampleClock, packet, fresh>>

RunTop ==
    /\ tpc = "top"
    /\ tpc' = IF texit THEN "exited" ELSE "getSettings"
    /\ ThreadOnly
    /\ UNCHANGED <<ring, texit, snap, scratch, quiet, sequence, sampleClock, packet,
                   fresh>>

\* Mutant: the settings of the last packet are kept while the epoch is the same.
GetSettingsByEpoch ==
    /\ tpc = "getSettings"
    /\ snap' = [NoSnap EXCEPT !.settings = IF packet.epoch = epoch THEN packet.settings
                                           ELSE settings]
    /\ tpc' = "getChannels"
    /\ ThreadOnly
    /\ UNCHANGED <<ring, texit, scratch, quiet, sequence, sampleClock, packet, fresh>>

GetSettings ==
    /\ tpc = "getSettings"
    /\ snap' = [NoSnap EXCEPT !.settings = settings]
    /\ tpc' = "getChannels"
    /\ ThreadOnly
    /\ UNCHANGED <<ring, texit, scratch, quiet, sequence, sampleClock, packet, fresh>>

Larger(a, b) == IF a < b THEN b ELSE a

GetChannels ==
    /\ tpc = "getChannels"
    /\ snap' = [snap EXCEPT !.channels = channels]
    /\ scratch' = Larger(scratch, snap.settings.frames * channels)
    /\ tpc' = "getPlaying"
    /\ ThreadOnly
    /\ UNCHANGED <<ring, texit, quiet, sequence, sampleClock, packet, fresh>>

GetPlaying ==
    /\ tpc = "getPlaying"
    /\ snap' = [snap EXCEPT !.playing = hostPlaying]
    /\ tpc' = "getEpoch"
    /\ ThreadOnly
    /\ UNCHANGED <<ring, texit, scratch, quiet, sequence, sampleClock, packet, fresh>>

GetEpoch ==
    /\ tpc = "getEpoch"
    /\ snap' = [snap EXCEPT !.epoch = epoch]
    /\ tpc' = "check"
    /\ ThreadOnly
    /\ UNCHANGED <<ring, texit, scratch, quiet, sequence, sampleClock, packet, fresh>>

\* Mutant: any audio at all is enough to start a packet.
HaveSomeAudio == ring.channels > 0 /\ ring.frames > 0
HaveAudio == ring.channels > 0 /\ ring.frames >= snap.settings.frames

CheckRing ==
    /\ tpc = "check"
    /\ HaveAudio
    /\ tpc' = "read"
    /\ ThreadOnly
    /\ UNCHANGED <<ring, texit, snap, scratch, quiet, sequence, sampleClock, packet,
                   fresh>>

\* No audio, and a packet went out less than a quarter of a second ago: wait
Wait ==
    /\ tpc = "check"
    /\ ~HaveAudio /\ quiet < Quarter
    /\ tpc' = "top" /\ snap' = NoSnap
    /\ ThreadOnly
    /\ UNCHANGED <<ring, texit, scratch, quiet, sequence, sampleClock, packet, fresh>>

Synthesise ==
    /\ tpc = "check"
    /\ ~HaveAudio /\ quiet >= Quarter
    /\ snap' = [snap EXCEPT !.silence = TRUE]
    /\ tpc' = "send"
    /\ ThreadOnly
    /\ UNCHANGED <<ring, texit, scratch, quiet, sequence, sampleClock, packet, fresh>>

\* ring.read into scratch; fewer frames than asked for starts the round again.
ReadRing ==
    /\ tpc = "read"
    /\ LET asked == snap.settings.frames
           ready == IF ring.channels > 0 THEN ring.frames ELSE 0
           n == IF ready < asked THEN ready ELSE asked
       IN  /\ ring' = [ring EXCEPT !.frames = @ - n]
           /\ IF n < asked
              THEN tpc' = "top" /\ snap' = NoSnap
              ELSE tpc' = "send" /\ snap' = [snap EXCEPT !.silence = ~snap.playing]
    /\ ThreadOnly
    /\ UNCHANGED <<texit, scratch, quiet, sequence, sampleClock, packet, fresh>>

PacketClock == IF pending THEN 0 ELSE sampleClock

\* sendPacket up to broadcastBinary: discontinuityPending.exchange, and the packet
BuildPacket ==
    /\ tpc = "send"
    /\ sequence' = (sequence + 1) % SeqMod
    /\ pending' = FALSE
    /\ sampleClock' = (PacketClock + snap.settings.frames) % ClockMod
    /\ packet' = [epoch |-> snap.epoch, channels |-> snap.channels,
                  settings |-> snap.settings, discontinuity |-> pending,
                  silence |-> snap.silence, sequence |-> sequence,
                  sampleClock |-> PacketClock]
    /\ fresh' = FALSE
    /\ tpc' = "broadcast" /\ snap' = [NoSnap EXCEPT !.age = snap.age]
    /\ UNCHANGED <<settings, channels, epoch, serverUp, serverRunning, audio, message,
                   texit, scratch, quiet>>

\* broadcastBinary, under the lock of the server, and lastPacketTimeMs = now
BroadcastPacket ==
    /\ tpc = "broadcast"
    /\ quiet' = snap.age
    /\ tpc' = "top" /\ snap' = NoSnap
    /\ ThreadOnly
    /\ UNCHANGED <<ring, texit, scratch, sequence, sampleClock, packet, fresh>>

RunStep ==
    \/ RunInit \/ RunTop
    \/ GetSettings \/ GetChannels \/ GetPlaying \/ GetEpoch
    \/ CheckRing \/ Wait \/ Synthesise \/ ReadRing
    \/ BuildPacket \/ BroadcastPacket

Smaller(a, b) == IF a < b THEN a ELSE b

\* getMillisecondCounter moves on, whatever the thread is doing
Tick ==
    /\ tpc # "none"
    /\ quiet' = Smaller(quiet + 1, Quarter)
    /\ snap' = IF tpc \in {"read", "send", "broadcast"}
               THEN [snap EXCEPT !.age = Smaller(snap.age + 1, Quarter)]
               ELSE snap
    /\ UNCHANGED <<shared, audio, message, tpc, texit, scratch, sequence, sampleClock,
                   packet, fresh>>

-----------------------------------------------------------------------------
MessageStep ==
    \/ StartSetRunning \/ StartPending \/ StartThread \/ StopEnd
    \/ RingPrepare \/ RingPrepared
    \/ BumpEpoch \/ SetPending

Next ==
    \/ StartServer \/ StopBegin \/ Release
    \/ \E s \in SettingsSet : SetSettings(s)
    \/ \E n \in ChannelSet : Prepare(n)
    \/ MessageStep
    \/ SetHostPlaying \/ PushAudio
    \/ RunStep \/ Tick

\* Threads are scheduled and time passes; the host owes no audio and the user
\* no call.
Spec == Init /\ [][Next]_vars
        /\ WF_vars(MessageStep) /\ WF_vars(RunStep) /\ WF_vars(Tick)

-----------------------------------------------------------------------------
(* Properties *)

Snaps == [settings : SettingsSet, channels : ChannelSet, playing : BOOLEAN, epoch : Nat,
          silence : BOOLEAN, age : 0 .. Quarter]
Packets == [settings : SettingsSet, channels : ChannelSet, epoch : Nat,
            discontinuity : BOOLEAN, silence : BOOLEAN,
            sequence : 0 .. SeqMod - 1, sampleClock : 0 .. ClockMod - 1]

TypeOK ==
    /\ settings \in SettingsSet /\ channels \in ChannelSet /\ epoch \in Nat
    /\ pending \in BOOLEAN /\ serverUp \in BOOLEAN /\ serverRunning \in BOOLEAN
    /\ hostPlaying \in BOOLEAN /\ preparing \in BOOLEAN
    /\ texit \in BOOLEAN /\ fresh \in BOOLEAN
    /\ ring \in [channels : Nat, frames : 0 .. Capacity]
    /\ mpc \in {"idle", "setRunning", "startPending", "startThread", "joinThread",
                "ringPrepare", "ringReset", "bumpEpoch", "setPending"}
    /\ calls \in 0 .. MaxCalls
    /\ tpc \in {"none", "init", "top", "getSettings", "getChannels", "getPlaying",
                "getEpoch", "check", "read", "send", "broadcast", "exited"}
    /\ snap \in Snaps /\ scratch \in Nat /\ quiet \in 0 .. Quarter
    /\ sequence \in 0 .. SeqMod - 1 /\ sampleClock \in 0 .. ClockMod - 1
    /\ packet \in Packets

\* What of the round's description has been loaded is in snap; the rest will be
\* what it is now.
EpochLoaded == tpc \in {"check", "read", "send"}
ChannelsLoaded == EpochLoaded \/ tpc \in {"getPlaying", "getEpoch"}
SettingsLoaded == ChannelsLoaded \/ tpc = "getChannels"

Promise == INSTANCE PacketStream WITH
    stage <- IF mpc \in {"ringPrepare", "ringReset", "bumpEpoch"} THEN "changed"
             ELSE IF mpc = "setPending" THEN "raised" ELSE "idle",
    loaded <- [settings |-> IF SettingsLoaded THEN snap.settings ELSE settings,
               channels |-> IF ChannelsLoaded THEN snap.channels ELSE channels,
               epoch |-> IF EpochLoaded THEN snap.epoch ELSE epoch]

\* A listener can place every packet: sequence and sample clock go on, or the
\* packet says that they restart - across any interleaving of reconfigurations
\* and of stop and start with the streaming thread, which loads settings,
\* channels, epoch and flag one by one, while one flag serves start, prepare and
\* setSettings.  What else PacketStream promises, it says itself.
ImplementsPacketStream == Promise!Spec

\* The streaming thread never stays silent: with audio, without audio, with the
\* ring released or half full, another packet follows until stop is called.
StreamMovesOn == <>[](tpc # "none" /\ ~texit) => []<><<BroadcastPacket>>_vars

\* A reconfiguration reaches the listeners: when the stream goes on and the
\* settings are left alone, every packet from some time on has the current
\* format, packet size, channel count and epoch.
ChangeReachesListeners ==
    <>[]serverRunning =>
        <>[]( /\ packet.settings = settings /\ packet.channels = channels
              /\ packet.epoch = epoch )

\* AudioRingBuffer.h:125-126: the destination of read must have room for
\* maxFrames * getNumChannels() floats.
ReadFitsScratch == tpc = "read" => snap.settings.frames * ring.channels <= scratch

=============================================================================
