------------------------------ MODULE EndToEnd ------------------------------
(***************************************************************************)
(* From the engine to the ring of one page: PacketStream sends, a queue of *)
(* src/src/core/StreamServer.cpp drops the oldest audio when it is full,   *)
(* session messages of the engine stand between the packets, connections   *)
(* break and come back, and src/web/app.js decides from each packet's      *)
(* header, its flag and the messages whether what it has still belongs to  *)
(* what comes.  Threads, partial writes, bytes in the queue and the output *)
(* clock are in StreamEngine, StreamServer, ClientQueue and Playback.      *)
(***************************************************************************)
EXTENDS PacketStream, WireCodec, FiniteSets, FiniteSetsExt, Functions

CONSTANTS
    Signal,       \* the frames the host plays, in turn: a left and a right sample each
    Queued,       \* how many packets a queue holds
    Target, Most, \* of the page's ring, in packets: what the cut leaves, the cut's limit
    MaxPackets, MaxEvents   \* bounds on packets; on reconfigurations, hellos and breaks together

ASSUME RingAssumption == Target \in Nat /\ Most \in Nat /\ Target < Most

\* The sequence number, 32 bits wide, may wrap once; half its range is more than
\* all the packets of a run.
ASSUME SequenceAssumption ==
    /\ MaxPackets \in Nat /\ Queued \in Nat
    /\ SeqMod \in Nat /\ SeqMod >= 3 /\ SeqMod > 2 * MaxPackets

\* A packet carries one frame of the signal, and the sample clock, 64 bits wide,
\* does not come round in a run.
ASSUME PacketAssumption ==
    /\ \A s \in SettingsSet : s.frames = 1 /\ s.format \in Formats
    /\ ChannelSet \subseteq {1, 2}
    /\ ClockMod \in Nat /\ ClockMod > MaxPackets
    /\ MaxEvents \in Nat

ASSUME SignalAssumption ==
    Signal \in Seq([num : Int, den : Nat \ {0}] \X [num : Int, den : Nat \ {0}]) \ {<<>>}

VARIABLES
    sent,      \* packets that were broadcast
    outgoing,  \* "none", or a packet is built and not yet broadcast: "built", and
               \* "overtaken" once a config message has gone before it (history)
    announce,  \* a reconfiguration has still to broadcast its config message
    hello,     \* channels in a hello that is built and not queued, as a set
    hellos,    \* hellos built
    link,      \* "up", "lost": not yet seen by the page, or "down"
    breaks,    \* how often it was lost
    queue,     \* what was broadcast and not yet handled
    stream,    \* stream: what the page believes
    ring,      \* the page's ring, a record per packet
    lastSeq, lost,   \* of stats
    last, missed,    \* the last packet handled, 0 when there is none; those missed (history)
    swayed     \* a hello has changed stream since the ring was reset (history)

sender == <<sent, outgoing, announce, hello, hellos>>
network == <<link, breaks, queue>>
page == <<stream, ring, lastSeq, lost, last, missed, swayed>>
allVars == <<vars, sender, network, page>>

NoStream == [epoch |-> -1, channels |-> 2, format |-> "pcm16"]

\* The sequence numbers are about to wrap.
EndToEndInit ==
    /\ packet \in {p \in [settings : SettingsSet, channels : {2}, epoch : {0},
                          discontinuity : {FALSE}, silence : {FALSE},
                          sequence : {SeqMod - 3}, sampleClock : {0}] :
                      p.settings.format = "pcm16"}
    /\ settings = packet.settings /\ channels = packet.channels
    /\ Init
    /\ sent = 0 /\ outgoing = "none" /\ announce = FALSE /\ hello = {} /\ hellos = 0
    /\ link = "down" /\ breaks = 0 /\ queue = <<>>
    /\ stream = NoStream /\ ring = <<>> /\ lastSeq = -1 /\ lost = 0
    /\ last = 0 /\ missed = 0 /\ swayed = FALSE

-----------------------------------------------------------------------------
(* The engine's side *)

MayHappen ==
    (IF stage = "changed" THEN epoch + 1 ELSE epoch) + hellos + breaks < MaxEvents

\* prepare or setSettings, up to the flag
Reconfigure ==
    /\ \/ /\ MayHappen /\ ~announce
          /\ \E s \in SettingsSet, n \in ChannelSet :
                /\ s # settings => n = channels
                /\ Change(s, n)
          /\ UNCHANGED announce
       \/ RaiseEpoch /\ UNCHANGED announce
       \/ stage = "raised" /\ RequireRestart /\ announce' = TRUE
    /\ UNCHANGED <<sent, outgoing, hello, hellos, network, page>>

Seqs == INSTANCE SequencesExt

Droppables(q) == {i \in DOMAIN q : q[i].type = "audio"}

\* enqueue: audio that is too much pushes the oldest audio out.
Enqueued(q, message) ==
    LET grown == Append(q, message)
        audio == Droppables(grown)
    IN  IF Cardinality(audio) > Queued THEN Seqs!RemoveAt(grown, Min(audio)) ELSE grown

Broadcast(message) == queue' = IF link = "up" THEN Enqueued(queue, message) ELSE queue

\* sendPacket, up to broadcastBinary: the streaming thread holds no lock
BuildPacket ==
    /\ outgoing = "none" /\ sent < MaxPackets
    /\ Send /\ ~packet'.silence
    /\ outgoing' = "built"
    /\ UNCHANGED <<sent, announce, hello, hellos, network, page>>

\* A packet carries one frame of the signal.
BroadcastPacket ==
    /\ outgoing # "none" /\ outgoing' = "none"
    /\ sent' = sent + 1
    /\ LET frame == Signal[(sent' % Len(Signal)) + 1]
       IN  Broadcast([type |-> "audio", header |-> packet, number |-> sent',
                      overtaken |-> outgoing = "overtaken",
                      payload |-> writeFrame(SubSeq(frame, 1, packet.channels),
                                             packet.settings.format)])
    /\ UNCHANGED <<vars, announce, hello, hellos, link, breaks, page>>

\* broadcastConfig, by the thread that reconfigures
BroadcastConfig ==
    /\ announce /\ announce' = FALSE
    /\ Broadcast([type |-> "config", channels |-> channels])
    /\ outgoing' = IF outgoing = "none" THEN "none" ELSE "overtaken"
    /\ UNCHANGED <<vars, sent, hello, hellos, link, breaks, page>>

\* streamClientConnected of this client or of another: every client gets the
\* message, which is built before the lock that orders it in the queues.
BuildHello ==
    /\ hello = {} /\ MayHappen
    /\ hello' = {channels} /\ hellos' = hellos + 1
    /\ UNCHANGED <<vars, sent, outgoing, announce, network, page>>

BroadcastHello ==
    /\ \E n \in hello : Broadcast([type |-> "hello", channels |-> n])
    /\ hello' = {}
    /\ UNCHANGED <<vars, sent, outgoing, announce, hellos, link, breaks, page>>

\* stop, which joins the streaming thread and then disconnects every client, and a
\* later start
Restart ==
    /\ link # "up" /\ stage = "idle" /\ ~pending /\ outgoing = "none"
    /\ RequireRestart
    /\ UNCHANGED <<sender, network, page>>

-----------------------------------------------------------------------------
(* The connection *)

\* Of what was queued only what has reached the peer is left.
Break ==
    /\ link = "up" /\ MayHappen
    /\ link' = "lost" /\ breaks' = breaks + 1
    /\ \E n \in 0 .. Len(queue) : queue' = SubSeq(queue, 1, n)
    /\ UNCHANGED <<vars, sender, page>>

Connect ==
    /\ link = "down" /\ link' = "up"
    /\ UNCHANGED <<vars, sender, breaks, queue, page>>

-----------------------------------------------------------------------------
(* The page *)

\* ringReset
Reset == ring' = <<>> /\ swayed' = FALSE

\* onclose
Closed ==
    /\ link = "lost" /\ queue = <<>>
    /\ link' = "down"
    /\ Reset
    /\ UNCHANGED <<vars, sender, breaks, queue, stream, lastSeq, lost, last, missed>>

Receive(type) ==
    /\ queue # <<>> /\ Head(queue).type = type
    /\ queue' = Tail(queue)
    /\ UNCHANGED <<vars, sender, link, breaks>>

Described(header) == [epoch |-> header.epoch, channels |-> header.channels,
                      format |-> header.settings.format]

\* Mutant: the epoch alone says whether the stream is the one the page knows.
SameEpoch(header) == header.epoch = stream.epoch
SameStream(header) == Described(header) = stream

\* Mutant: the ring is not cut.
PushedUncut(r, frame) == Append(r, frame)
\* ringPush: a ring that would pass the limit is cut to the target first.
Pushed(r, frame) ==
    Append(IF Len(r) + 1 > Most THEN SubSeq(r, Len(r) - Target + 1, Len(r)) ELSE r, frame)

\* Mutant: every new number is a loss of the ones before it.
LossOff(delta) == delta
\* The packets missing before one whose number is delta ahead
Loss(delta) == IF delta = 0 \/ delta > SeqMod \div 2 THEN 0 ELSE delta - 1

handlePacket ==
    /\ Receive("audio")
    /\ LET message == Head(queue)
           header == message.header
           keep == SameStream(header) /\ ~header.discontinuity
       IN  /\ stream' = Described(header)
           /\ ring' = Pushed(IF keep THEN ring ELSE <<>>,
                        [header |-> header, number |-> message.number,
                         overtaken |-> message.overtaken,
                         heard |-> decode(message.payload, header.settings.format,
                                          header.channels)])
           /\ swayed' = (keep /\ swayed)
           /\ lost' = IF lastSeq >= 0 THEN lost + Loss((header.sequence - lastSeq) % SeqMod)
                      ELSE lost
           /\ lastSeq' = header.sequence
           /\ missed' = IF last = 0 THEN 0 ELSE missed + message.number - last - 1
           /\ last' = message.number

\* Mutant: a config message is taken like a hello.
handleConfigKeeps ==
    /\ Receive("config")
    /\ stream' = [stream EXCEPT !.channels = Head(queue).channels]
    /\ UNCHANGED <<ring, lastSeq, lost, last, missed, swayed>>
\* handleControl
handleConfig ==
    /\ Receive("config")
    /\ stream' = [stream EXCEPT !.channels = Head(queue).channels]
    /\ Reset
    /\ UNCHANGED <<lastSeq, lost, last, missed>>

handleHello ==
    /\ Receive("hello")
    /\ stream' = [stream EXCEPT !.channels = Head(queue).channels]
    /\ swayed' = (swayed \/ stream' # stream)
    /\ UNCHANGED <<ring, lastSeq, lost, last, missed>>

\* pull has used up a packet.
Play ==
    /\ ring # <<>> /\ ring' = Tail(ring)
    /\ UNCHANGED <<vars, sender, network, stream, lastSeq, lost, last, missed, swayed>>

-----------------------------------------------------------------------------
EndToEndNext ==
    \/ Reconfigure \/ BuildPacket \/ BroadcastPacket \/ BroadcastConfig
    \/ BuildHello \/ BroadcastHello \/ Restart
    \/ Break \/ Connect \/ Closed
    \/ handlePacket \/ handleConfig \/ handleHello \/ Play

EndToEndSpec == EndToEndInit /\ [][EndToEndNext]_allVars

-----------------------------------------------------------------------------
(* Properties *)

MessageOK(message) ==
    \/ /\ message.type = "audio" /\ message.header \in Packets
       /\ message.number \in 1 .. sent /\ message.overtaken \in BOOLEAN
       /\ Len(message.payload) =
             message.header.channels * bytesPerSample(message.header.settings.format)
    \/ message.type \in {"config", "hello"} /\ message.channels \in ChannelSet

\* The types, and the queue and the ring are within their limits.
EndToEndTypeOK ==
    /\ settings \in SettingsSet /\ channels \in ChannelSet /\ epoch \in 0 .. MaxEvents
    /\ stage \in {"idle", "changed", "raised"} /\ {pending, fresh} \subseteq BOOLEAN
    /\ packet \in Packets /\ sent \in 0 .. MaxPackets
    /\ outgoing \in {"none", "built", "overtaken"} /\ {announce, swayed} \subseteq BOOLEAN
    /\ hello \subseteq ChannelSet /\ hellos \in 0 .. MaxEvents
    /\ link \in {"up", "lost", "down"} /\ breaks \in 0 .. MaxEvents
    /\ (\A message \in Range(queue) : MessageOK(message))
    /\ Cardinality(Droppables(queue)) <= Queued
    /\ stream \in [epoch : -1 .. MaxEvents, channels : ChannelSet, format : Formats]
    /\ Len(ring) <= Most
    /\ lastSeq \in -1 .. SeqMod - 1 /\ {lost, last, missed} \subseteq 0 .. sent

\* protocol.md:210-215: what is in the ring is of one description, by the headers
\* alone, whichever packets were dropped - of one epoch and format always, and of
\* one channel count and rate unless a hello has told the page of another, which
\* it takes for its own without a reset.
RingOfOneDescription ==
    \A i, j \in DOMAIN ring :
        LET a == ring[i].header b == ring[j].header
        IN  /\ a.epoch = b.epoch /\ a.settings.format = b.settings.format
            /\ a.channels = b.channels \/ swayed

\* protocol.md:179, a restart of the sample clock flushes what the page has: when
\* the packet that was marked with it is dropped, the config message does it, which
\* is never dropped.  Of what was sent before the restart at most one packet stays:
\* the one that was built when the flag was raised and queued after the message, and
\* that is the first in the ring.  All others are as far apart by the clock as by
\* their numbers, unless a message is still to come, or a close.
OnePacketBeforeRestart ==
    \/ announce \/ link = "lost"
    \/ \E i \in DOMAIN queue : queue[i].type = "config"
    \/ \A i \in 1 .. Len(ring) - 1 :
          \/ i = 1 /\ ring[i].overtaken
          \/ (ring[i + 1].header.sampleClock - ring[i].header.sampleClock) % ClockMod
                 = ring[i + 1].number - ring[i].number

\* The losses shown to the user are the packets missing between the first and
\* the last one handled, over drops, lost connections, restarts of the stream
\* and the wrap of the number.
LossesCounted == lost = missed

\* Whatever format, channel count and message is under way, a frame in the ring
\* is the frame that was played: each sample to within half a step, overs clipped
\* and not wrapped, mono on both sides.
HeardFaithfully ==
    \A i \in DOMAIN ring :
        LET played == Signal[(ring[i].number % Len(Signal)) + 1]
            format == ring[i].header.settings.format
            right == IF ring[i].header.channels > 1 THEN 2 ELSE 1
        IN  /\ Faithful(played[1], ring[i].heard[1], format)
            /\ Faithful(played[right], ring[i].heard[2], format)
=============================================================================
