------------------------ MODULE StreamEngine_proofs ------------------------
(***************************************************************************)
(* Proofs about StreamEngine for any settings, channel counts, capacity    *)
(* and moduli: its types, and that it implements PacketStream.             *)
(*                                                                         *)
(* EngineInv adds to the types what links the thread's counters to the     *)
(* packet that went out last (Continues), and that a session begins with   *)
(* the flag raised because no thread is there to lower it (StartsFresh).   *)
(***************************************************************************)
EXTENDS StreamEngine, TLAPS

\* The counters are those of the last packet moved on, or the clock is about to
\* restart.
Continues ==
    /\ sequence = (packet.sequence + 1) % SeqMod
    /\ pending \/ sampleClock = (packet.sampleClock + packet.settings.frames) % ClockMod

\* There is no streaming thread until start has raised the flag and created it.
StartsFresh ==
    /\ ~serverRunning /\ mpc # "joinThread" => tpc = "none"
    /\ mpc \in {"setRunning", "startPending", "startThread"} => tpc = "none"
    /\ mpc \in {"startPending", "startThread"} => serverRunning
    /\ mpc = "startThread" => pending

EngineInv == TypeOK /\ Continues /\ StartsFresh

-----------------------------------------------------------------------------
(* The inductive invariant *)

LEMMA DefaultIsASetting == DefaultSettings \in SettingsSet
BY ParametersAssumption DEF DefaultSettings

LEMMA NoSnapTyped == NoSnap \in Snaps
BY ParametersAssumption, DefaultIsASetting DEF NoSnap, Snaps

LEMMA SettingsTyped == \A s \in SettingsSet : s.frames \in Nat \ {0}
BY ParametersAssumption

LEMMA InitEngineInv == Init => EngineInv
<1> SUFFICES ASSUME Init
             PROVE  EngineInv
  OBVIOUS
<1> USE ParametersAssumption, DefaultIsASetting
<1>1. snap \in Snaps
  BY DEF Init, NoSnap, Snaps
<1>2. packet \in Packets
  BY DEF Init, NoPacket, Packets
<1>3. /\ calls \in 0 .. MaxCalls /\ quiet \in 0 .. Quarter
      /\ sequence \in 0 .. SeqMod - 1 /\ sampleClock \in 0 .. ClockMod - 1
      /\ ring \in [channels : Nat, frames : 0 .. Capacity]
  BY DEF Init
<1>4. TypeOK
  BY <1>1, <1>2, <1>3 DEF Init, TypeOK
<1>5. Continues
  BY DEF Init, Continues, NoPacket
<1>6. StartsFresh
  BY DEF Init, StartsFresh
<1> QED
  BY <1>4, <1>5, <1>6 DEF EngineInv

\* The message thread keeps the types and does not touch the stream's counters.
LEMMA MessageKeeps ==
    ASSUME EngineInv,
           \/ StartServer \/ StopBegin \/ Release \/ MessageStep
           \/ \E s \in SettingsSet : SetSettings(s)
           \/ \E n \in ChannelSet : Prepare(n)
    PROVE  EngineInv'
<1> USE ParametersAssumption DEF EngineInv, TypeOK, Continues, StartsFresh, shared, audio,
                                 message, stream
<1>1. CASE StartServer
  BY <1>1 DEF StartServer, Call
<1>2. CASE StopBegin
  <2>1. TypeOK'
    <3>1. texit' \in BOOLEAN /\ fresh' \in BOOLEAN /\ serverRunning' \in BOOLEAN
      BY <1>2, Zenon DEF StopBegin
    <3> QED
      BY <1>2, <3>1 DEF StopBegin, Call
  <2>2. Continues'
    BY <1>2 DEF StopBegin, Call
  <2>3. StartsFresh'
    BY <1>2 DEF StopBegin, Call
  <2> QED
    BY <2>1, <2>2, <2>3
<1>3. CASE Release
  BY <1>3 DEF Release, Call
<1>4. ASSUME NEW s \in SettingsSet, SetSettings(s)
      PROVE  EngineInv'
  BY <1>4 DEF SetSettings, Call
<1>5. ASSUME NEW n \in ChannelSet, Prepare(n)
      PROVE  EngineInv'
  BY <1>5 DEF Prepare, Call
<1>6. CASE StartSetRunning
  BY <1>6 DEF StartSetRunning
<1>7. CASE StartPending
  BY <1>7 DEF StartPending
<1>8. CASE StartThread
  <2>1. TypeOK'
    <3>1. texit' \in BOOLEAN /\ fresh' \in BOOLEAN
      BY <1>8, Zenon DEF StartThread
    <3> QED
      BY <1>8, <3>1 DEF StartThread
  <2>2. Continues'
    BY <1>8 DEF StartThread
  <2>3. StartsFresh'
    BY <1>8 DEF StartThread
  <2> QED
    BY <2>1, <2>2, <2>3
<1>9. CASE StopEnd
  BY <1>9 DEF StopEnd
<1>10. CASE RingPrepare
  BY <1>10 DEF RingPrepare
<1>11. CASE RingPrepared
  BY <1>11 DEF RingPrepared
<1>12. CASE BumpEpoch
  BY <1>12 DEF BumpEpoch
<1>13. CASE SetPending
  BY <1>13 DEF SetPending
<1> QED
  BY <1>1, <1>2, <1>3, <1>4, <1>5, <1>6, <1>7, <1>8, <1>9, <1>10, <1>11, <1>12, <1>13
     DEF MessageStep

LEMMA AudioKeeps ==
    ASSUME EngineInv, SetHostPlaying \/ PushAudio \/ Tick
    PROVE  EngineInv'
<1> USE ParametersAssumption DEF EngineInv, TypeOK, Continues, StartsFresh, shared, audio,
                                 message, stream
<1>1. CASE SetHostPlaying
  BY <1>1 DEF SetHostPlaying
<1>2. CASE PushAudio
  BY <1>2 DEF PushAudio
<1>3. CASE Tick
  BY <1>3 DEF Tick, Smaller, Snaps
<1> QED
  BY <1>1, <1>2, <1>3

LEMMA RunKeeps ==
    ASSUME EngineInv, RunStep
    PROVE  EngineInv'
<1> USE ParametersAssumption DEF EngineInv, TypeOK, Continues, StartsFresh, shared, audio,
                                 message, stream, ThreadOnly
<1>1. CASE RunInit
  BY <1>1 DEF RunInit
<1>2. CASE RunTop
  BY <1>2 DEF RunTop
<1>3. CASE GetSettings
  <2>1. TypeOK'
    <3>1. snap' \in Snaps
      BY <1>3, NoSnapTyped DEF GetSettings, Snaps
    <3> QED
      BY <1>3, <3>1 DEF GetSettings
  <2>2. Continues'
    BY <1>3 DEF GetSettings, NoSnap, Snaps
  <2>3. StartsFresh'
    BY <1>3 DEF GetSettings, NoSnap, Snaps
  <2> QED
    BY <2>1, <2>2, <2>3
<1>4. CASE GetChannels
  BY <1>4 DEF GetChannels, Larger, Snaps
<1>5. CASE GetPlaying
  BY <1>5 DEF GetPlaying, Snaps
<1>6. CASE GetEpoch
  BY <1>6 DEF GetEpoch, Snaps
<1>7. CASE CheckRing
  BY <1>7 DEF CheckRing
<1>8. CASE Wait
  BY <1>8, DefaultIsASetting DEF Wait, NoSnap, Snaps
<1>9. CASE Synthesise
  BY <1>9 DEF Synthesise, Snaps
<1>10. CASE ReadRing
  <2>1. TypeOK'
    <3>1. snap' \in Snaps
      BY <1>10, NoSnapTyped DEF ReadRing, Snaps
    <3>2. ring' \in [channels : Nat, frames : 0 .. Capacity]
      BY <1>10, SettingsTyped DEF ReadRing, Snaps
    <3>3. tpc' \in {"top", "send"}
      BY <1>10 DEF ReadRing
    <3> QED
      BY <1>10, <3>1, <3>2, <3>3 DEF ReadRing
  <2>2. Continues'
    BY <1>10, DefaultIsASetting DEF ReadRing, NoSnap, Snaps
  <2>3. StartsFresh'
    BY <1>10, DefaultIsASetting DEF ReadRing, NoSnap, Snaps
  <2> QED
    BY <2>1, <2>2, <2>3
<1>11. CASE BuildPacket
  <2>1. TypeOK'
    <3>1. packet' \in Packets
      BY <1>11 DEF BuildPacket, PacketClock, Snaps, Packets
    <3>2. sequence' \in 0 .. SeqMod - 1 /\ sampleClock' \in 0 .. ClockMod - 1
      BY <1>11, SettingsTyped DEF BuildPacket, PacketClock, Snaps
    <3>3. snap' \in Snaps /\ quiet' \in 0 .. Quarter
      BY <1>11, NoSnapTyped DEF BuildPacket, Snaps
    <3>4. pending' \in BOOLEAN /\ fresh' \in BOOLEAN
      BY <1>11, Zenon DEF BuildPacket
    <3> QED
      BY <1>11, <3>1, <3>2, <3>3, <3>4 DEF BuildPacket
  <2>2. Continues'
    BY <1>11, DefaultIsASetting DEF BuildPacket, PacketClock, NoSnap, Snaps, Packets
  <2>3. StartsFresh'
    BY <1>11, DefaultIsASetting DEF BuildPacket, PacketClock, NoSnap, Snaps, Packets
  <2> QED
    BY <2>1, <2>2, <2>3
<1>12. CASE BroadcastPacket
  <2>1. TypeOK'
    <3>1. snap' \in Snaps /\ quiet' \in 0 .. Quarter
      BY <1>12, NoSnapTyped DEF BroadcastPacket, Snaps
    <3> QED
      BY <1>12, <3>1 DEF BroadcastPacket
  <2>2. Continues'
    BY <1>12, DefaultIsASetting DEF BroadcastPacket, NoSnap, Snaps
  <2>3. StartsFresh'
    BY <1>12, DefaultIsASetting DEF BroadcastPacket, NoSnap, Snaps
  <2> QED
    BY <2>1, <2>2, <2>3
<1> QED
  BY <1>1, <1>2, <1>3, <1>4, <1>5, <1>6, <1>7, <1>8, <1>9, <1>10, <1>11, <1>12 DEF RunStep

LEMMA NextEngineInv == EngineInv /\ [Next]_vars => EngineInv'
<1> SUFFICES ASSUME EngineInv, [Next]_vars
             PROVE  EngineInv'
  OBVIOUS
<1>1. CASE UNCHANGED vars
  BY <1>1 DEF EngineInv, TypeOK, Continues, StartsFresh, vars, shared, audio, message, stream
<1>2. CASE Next
  BY <1>2, MessageKeeps, AudioKeeps, RunKeeps DEF Next
<1> QED
  BY <1>1, <1>2

\* The inductive invariant, for any settings, channel counts and moduli.
THEOREM EngineInvHolds == Spec => []EngineInv
BY InitEngineInv, NextEngineInv, PTL DEF Spec

\* Every variable keeps its type: no packet has a description that was never
\* set, and the ring never holds more than its capacity.
THEOREM TypeCorrect == Spec => []TypeOK
BY EngineInvHolds, PTL DEF EngineInv

-----------------------------------------------------------------------------
(* StreamEngine implements PacketStream.  Five kinds of step are steps of the *)
(* promise; a round that ends without a packet looks at the configuration     *)
(* again; every other step the promise does not see.                          *)

USE DEF Promise!vars, Promise!config

LEMMA InitPromise == Init => Promise!Init
<1> SUFFICES ASSUME Init
             PROVE  Promise!Init
  OBVIOUS
<1>1. packet \in Promise!Packets
  BY ParametersAssumption, DefaultIsASetting DEF Init, NoPacket, Promise!Packets
<1> QED
  BY <1>1, ParametersAssumption, DefaultIsASetting
     DEF Init, Promise!Init, Promise!Current, SettingsLoaded, ChannelsLoaded, EpochLoaded

LEMMA SetSettingsPromised ==
    ASSUME EngineInv, NEW s \in SettingsSet, SetSettings(s)
    PROVE  [Promise!Next]_Promise!vars
<1> USE DEF SetSettings, Call, SettingsLoaded, ChannelsLoaded, EpochLoaded, stream
<1>1. CASE s = settings
  BY <1>1
<1>2. CASE s # settings
  <2>1. Promise!Change(s, channels)
    BY <1>2 DEF Promise!Change, Promise!MayStayBehind
  <2> QED
    BY <2>1 DEF EngineInv, TypeOK, Promise!Next
<1> QED
  BY <1>1, <1>2

LEMMA PreparePromised ==
    ASSUME EngineInv, NEW n \in ChannelSet, Prepare(n)
    PROVE  [Promise!Next]_Promise!vars
<1>1. Promise!Change(settings, n)
  BY DEF Prepare, Call, SettingsLoaded, ChannelsLoaded, EpochLoaded, stream,
         Promise!Change, Promise!MayStayBehind
<1> QED
  BY <1>1 DEF EngineInv, TypeOK, Promise!Next

LEMMA BumpEpochPromised ==
    ASSUME EngineInv, BumpEpoch
    PROVE  Promise!RaiseEpoch
BY DEF BumpEpoch, SettingsLoaded, ChannelsLoaded, EpochLoaded, stream,
       Promise!RaiseEpoch, Promise!MayStayBehind

LEMMA RestartPromised ==
    ASSUME EngineInv, SetPending \/ StartPending
    PROVE  Promise!RequireRestart
BY DEF SetPending, StartPending, SettingsLoaded, ChannelsLoaded, EpochLoaded, stream,
       Promise!RequireRestart

LEMMA StartThreadPromised ==
    ASSUME EngineInv, StartThread
    PROVE  Promise!Begin
BY DEF EngineInv, StartsFresh, StartThread, SettingsLoaded, ChannelsLoaded, EpochLoaded,
       shared, Promise!Begin

LEMMA SendPromised ==
    ASSUME EngineInv, BuildPacket
    PROVE  Promise!Send
<1> USE DEF EngineInv, BuildPacket, SettingsLoaded, ChannelsLoaded, EpochLoaded
<1>1. PacketClock = IF pending THEN 0
                    ELSE (packet.sampleClock + packet.settings.frames) % ClockMod
  BY DEF Continues, PacketClock
<1>2. packet' = [settings |-> snap.settings, channels |-> snap.channels,
                 epoch |-> snap.epoch, discontinuity |-> pending,
                 silence |-> snap.silence,
                 sequence |-> (packet.sequence + 1) % SeqMod,
                 sampleClock |-> IF pending THEN 0
                                 ELSE (packet.sampleClock + packet.settings.frames)
                                          % ClockMod]
  BY <1>1 DEF Continues
<1>3. snap.silence \in BOOLEAN
  BY DEF TypeOK, Snaps
<1>4. UNCHANGED Promise!config
  BY DEF message
<1> QED
  BY <1>2, <1>3, <1>4 DEF Promise!Send, Promise!Current

LEMMA RoundEndPromised ==
    ASSUME EngineInv, Wait \/ ReadRing
    PROVE  [Promise!Next]_Promise!vars
<1> USE DEF SettingsLoaded, ChannelsLoaded, EpochLoaded, ThreadOnly, shared, message
<1>1. CASE Wait
  BY <1>1 DEF Wait, Promise!Next, Promise!LookAgain, Promise!Current
<1>2. CASE ReadRing /\ tpc' = "top"
  BY <1>2 DEF ReadRing, Promise!Next, Promise!LookAgain, Promise!Current
<1>3. CASE ReadRing /\ tpc' = "send"
  BY <1>3 DEF EngineInv, TypeOK, Snaps, ReadRing
<1> QED
  BY <1>1, <1>2, <1>3 DEF ReadRing

LEMMA LoadPromised ==
    ASSUME EngineInv, GetSettings \/ GetChannels \/ GetPlaying \/ GetEpoch
    PROVE  UNCHANGED Promise!vars
<1> USE DEF EngineInv, TypeOK, Snaps, SettingsLoaded, ChannelsLoaded, EpochLoaded,
            ThreadOnly, shared, message
<1>1. CASE GetSettings
  BY <1>1 DEF GetSettings, NoSnap
<1>2. CASE GetChannels
  BY <1>2 DEF GetChannels
<1>3. CASE GetPlaying
  BY <1>3 DEF GetPlaying
<1>4. CASE GetEpoch
  BY <1>4 DEF GetEpoch
<1> QED
  BY <1>1, <1>2, <1>3, <1>4

LEMMA UnseenByPromise ==
    ASSUME EngineInv,
           \/ StartServer \/ StopBegin \/ Release
           \/ StartSetRunning \/ StopEnd \/ RingPrepare \/ RingPrepared
           \/ SetHostPlaying \/ PushAudio \/ Tick
           \/ RunInit \/ RunTop \/ CheckRing \/ Synthesise \/ BroadcastPacket
    PROVE  UNCHANGED Promise!vars
<1> USE DEF SettingsLoaded, ChannelsLoaded, EpochLoaded, ThreadOnly, shared, audio,
            message, stream, Call
<1>1. CASE StartServer \/ StopBegin \/ Release
  BY <1>1 DEF StartServer, StopBegin, Release
<1>2. CASE StartSetRunning \/ StopEnd
  BY <1>2 DEF StartSetRunning, StopEnd
<1>3. CASE RingPrepare \/ RingPrepared
  BY <1>3 DEF RingPrepare, RingPrepared
<1>4. CASE SetHostPlaying \/ PushAudio
  BY <1>4 DEF SetHostPlaying, PushAudio
<1>5. CASE Tick
  BY <1>5 DEF EngineInv, TypeOK, Snaps, Tick
<1>6. CASE RunInit \/ RunTop \/ CheckRing
  BY <1>6 DEF RunInit, RunTop, CheckRing
<1>7. CASE Synthesise
  BY <1>7 DEF EngineInv, TypeOK, Snaps, Synthesise
<1>8. CASE BroadcastPacket
  BY <1>8 DEF BroadcastPacket
<1> QED
  BY <1>1, <1>2, <1>3, <1>4, <1>5, <1>6, <1>7, <1>8

LEMMA NextPromised == EngineInv /\ [Next]_vars => [Promise!Next]_Promise!vars
<1> SUFFICES ASSUME EngineInv, [Next]_vars
             PROVE  [Promise!Next]_Promise!vars
  OBVIOUS
<1>1. CASE UNCHANGED vars
  BY <1>1 DEF vars, shared, message, stream, SettingsLoaded, ChannelsLoaded, EpochLoaded
<1>2. CASE \/ \E s \in SettingsSet : SetSettings(s)
           \/ \E n \in ChannelSet : Prepare(n)
  BY <1>2, SetSettingsPromised, PreparePromised
<1>3. CASE BumpEpoch \/ SetPending \/ StartPending \/ StartThread \/ BuildPacket
  BY <1>3, BumpEpochPromised, RestartPromised, StartThreadPromised, SendPromised
     DEF Promise!Next
<1>4. CASE Wait \/ ReadRing
  BY <1>4, RoundEndPromised
<1>5. CASE GetSettings \/ GetChannels \/ GetPlaying \/ GetEpoch
  BY <1>5, LoadPromised
<1>6. CASE \/ StartServer \/ StopBegin \/ Release
           \/ StartSetRunning \/ StopEnd \/ RingPrepare \/ RingPrepared
           \/ SetHostPlaying \/ PushAudio \/ Tick
           \/ RunInit \/ RunTop \/ CheckRing \/ Synthesise \/ BroadcastPacket
  BY <1>6, UnseenByPromise
<1> QED
  BY <1>1, <1>2, <1>3, <1>4, <1>5, <1>6, Zenon DEF Next, MessageStep, RunStep

\* StreamEngine implements PacketStream: every packet is numbered, timed and
\* described as the promise says, whatever the three threads do between its
\* loads.
THEOREM ImplementsPromise == Spec => ImplementsPacketStream
BY InitPromise, EngineInvHolds, NextPromised, PTL
   DEF Spec, ImplementsPacketStream, Promise!Spec

=============================================================================
