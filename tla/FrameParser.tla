----------------------------- MODULE FrameParser -----------------------------
(***************************************************************************)
(* src/src/core/WebSocketProtocol.cpp: the incremental parser of one       *)
(* connection's incoming frames, with the loop of                          *)
(* Connection::pumpIncoming around it (src/src/core/StreamServer.cpp).     *)
(*                                                                         *)
(* The client's bytes are the positions 0 .. Total - 1 of a stream of      *)
(* frames.  incoming holds the positions base .. base + size - 1, so that  *)
(* what push discards and where nextFrame looks is what it is in the code, *)
(* and a payload is the number of the frame that carried it.               *)
(***************************************************************************)
EXTENDS Integers, SequencesExt

CONSTANTS
    Frames,          \* what a client may send: [fin, opcode, masked, ext, size]
    StreamLength,    \* bound on the frames of the stream
    ReadSize,        \* bytes that one read from the socket can return
    maxPayloadSize,
    Threshold        \* parsed bytes that push tolerates in front: 4096

\* "reserved" is any of 3 to 7, which the parser takes for data.
Opcodes == {"continuation", "text", "binary", "reserved", "close", "ping", "pong"}

\* ext: the bytes of extended length; size: of payload
ASSUME FramesAssumption ==
    Frames \subseteq [fin : BOOLEAN, opcode : Opcodes, masked : BOOLEAN,
                      ext : {0, 2, 8}, size : Nat]
ASSUME LimitsAssumption ==
    /\ {maxPayloadSize, Threshold} \subseteq Nat
    /\ {StreamLength, ReadSize} \subseteq Nat \ {0}

VARIABLES
    stream,                \* the frames the client sends
    base, size, consumed,  \* incoming's first position and size(), consumed
    assembling, assemblyOpcode,
    assembly,              \* the frames whose payloads it holds, in order
    errored,
    pump,                  \* pumpIncoming: "read", "parse", or "ended" for good
    messages               \* what nextFrame has returned (history)

buffer == <<base, size, consumed>>
fragments == <<assembling, assemblyOpcode, assembly>>
parserVars == <<stream, buffer, fragments, errored, pump, messages>>

IsControl(f) == f.opcode \in {"close", "ping", "pong"}
IsData(f) == f.opcode \in {"text", "binary", "reserved"}

HeaderLength(f) == 2 + f.ext
FrameLength(f) == HeaderLength(f) + (IF f.masked THEN 4 ELSE 0) + f.size

\* The bytes of the first n frames of the stream s
BytesOf(s, n) ==
    LET bytes[i \in 0 .. n] == IF i = 0 THEN 0 ELSE bytes[i - 1] + FrameLength(s[i])
    IN  bytes[n]

Begin(k) == BytesOf(stream, k - 1)
Total == BytesOf(stream, StreamLength)

\* The payload of a set of frames
PayloadSize(s, parts) == MapThenSumSet(LAMBDA i : s[i].size, parts)

ParserInit ==
    /\ stream \in [1 .. StreamLength -> Frames]
    /\ base = 0 /\ size = 0 /\ consumed = 0
    /\ assembling = FALSE /\ assemblyOpcode = "binary" /\ assembly = <<>>
    /\ errored = FALSE /\ pump = "read" /\ messages = <<>>

-----------------------------------------------------------------------------
(* push *)

\* Mutant: the prefix is dropped only when nothing follows it.
CompactedWhenEmpty ==
    IF consumed > 0 /\ consumed = size
    THEN [base |-> base + size, size |-> 0, consumed |-> 0]
    ELSE [base |-> base, size |-> size, consumed |-> consumed]

Compacted ==
    IF (consumed > 0 /\ consumed = size) \/ consumed > Threshold
    THEN [base |-> base + consumed, size |-> size - consumed, consumed |-> 0]
    ELSE [base |-> base, size |-> size, consumed |-> consumed]

\* The socket is ready: one read, whatever it returns, goes to push.
Push(n) ==
    /\ pump = "read" /\ ~errored
    /\ base + size + n <= Total
    /\ base' = Compacted.base
    /\ size' = Compacted.size + n
    /\ consumed' = Compacted.consumed
    /\ pump' = "parse"
    /\ UNCHANGED <<stream, fragments, errored, messages>>

-----------------------------------------------------------------------------
(* nextFrame *)

available == size - consumed

\* The frame k at the parser's position, its length read in full
AtFrame(k) ==
    /\ pump = "parse"
    /\ Begin(k) = base + consumed
    /\ available >= HeaderLength(stream[k])

\* Not even a length: the next read continues.
NeedHeader ==
    /\ pump = "parse"
    /\ \A k \in 1 .. StreamLength : ~AtFrame(k)
    /\ pump' = "read"
    /\ UNCHANGED <<stream, buffer, fragments, errored, messages>>

Admissible(f) == f.masked /\ f.size <= maxPayloadSize

\* fail, after which pumpIncoming returns false and the connection ends
Fail == errored' = TRUE /\ pump' = "ended"

FailHeader(k) ==
    /\ AtFrame(k) /\ ~Admissible(stream[k])
    /\ Fail
    /\ UNCHANGED <<stream, buffer, fragments, messages>>

NeedPayload(k) ==
    /\ AtFrame(k) /\ Admissible(stream[k])
    /\ available < FrameLength(stream[k])
    /\ pump' = "read"
    /\ UNCHANGED <<stream, buffer, fragments, errored, messages>>

Take(k) ==
    /\ AtFrame(k) /\ Admissible(stream[k])
    /\ available >= FrameLength(stream[k])
    /\ consumed' = consumed + FrameLength(stream[k])
    /\ UNCHANGED <<stream, base, size>>

Return(opcode, parts) ==
    messages' = Append(messages, [opcode |-> opcode, parts |-> parts])

\* Mutant: a control frame ends the message it interrupts.
TakeControlEnds(k) ==
    /\ IsControl(stream[k]) /\ Take(k)
    /\ Return(stream[k].opcode, <<k>>)
    /\ pump' = IF stream[k].opcode = "close" THEN "ended" ELSE pump
    /\ assembling' = FALSE
    /\ UNCHANGED <<assemblyOpcode, assembly, errored>>

TakeControl(k) ==
    /\ IsControl(stream[k]) /\ Take(k)
    /\ Return(stream[k].opcode, <<k>>)
    /\ pump' = IF stream[k].opcode = "close" THEN "ended" ELSE pump
    /\ UNCHANGED <<fragments, errored>>

FailContinuation(k) ==
    /\ stream[k].opcode = "continuation" /\ ~assembling /\ Take(k)
    /\ Fail
    /\ UNCHANGED <<fragments, messages>>

Joined(k) == Append(assembly, k)

Continue(k) ==
    /\ stream[k].opcode = "continuation" /\ assembling /\ Take(k)
    /\ UNCHANGED assemblyOpcode
    /\ IF PayloadSize(stream, ToSet(Joined(k))) > maxPayloadSize
       THEN /\ Fail /\ assembly' = Joined(k)
            /\ UNCHANGED <<assembling, messages>>
       ELSE /\ UNCHANGED <<errored, pump>>
            /\ assembling' = ~stream[k].fin
            /\ IF stream[k].fin
               THEN Return(assemblyOpcode, Joined(k)) /\ assembly' = <<>>
               ELSE assembly' = Joined(k) /\ UNCHANGED messages

TakeWhole(k) ==
    /\ IsData(stream[k]) /\ stream[k].fin /\ Take(k)
    /\ Return(stream[k].opcode, <<k>>)
    /\ UNCHANGED <<fragments, errored, pump>>

TakeFirst(k) ==
    /\ IsData(stream[k]) /\ ~stream[k].fin /\ Take(k)
    /\ assembling' = TRUE /\ assemblyOpcode' = stream[k].opcode /\ assembly' = <<k>>
    /\ UNCHANGED <<errored, pump, messages>>

NextFrame(k) ==
    \/ FailHeader(k) \/ NeedPayload(k)
    \/ TakeControl(k) \/ FailContinuation(k) \/ Continue(k) \/ TakeWhole(k) \/ TakeFirst(k)

ParserNext ==
    \/ \E n \in 1 .. ReadSize : Push(n)
    \/ NeedHeader
    \/ \E k \in 1 .. StreamLength : NextFrame(k)

ParserSpec == ParserInit /\ [][ParserNext]_parserVars

-----------------------------------------------------------------------------
(* What a stream s means, without a parser *)

\* The unfinished message that frame k finds: its first frame, if there is one
Origins(s, k) ==
    {j \in 1 .. k - 1 :
        /\ IsData(s[j]) /\ ~s[j].fin
        /\ \A i \in j + 1 .. k - 1 :
              /\ IsData(s[i]) => s[i].fin
              /\ s[i].opcode = "continuation" => ~s[i].fin}

\* What that message has so far
Held(s, k) ==
    Origins(s, k) \cup {i \in 1 .. k - 1 : /\ s[i].opcode = "continuation"
                                           /\ \A j \in Origins(s, k) : j < i}

Violates(s, k) ==
    \/ ~Admissible(s[k])
    \/ /\ s[k].opcode = "continuation"
       /\ Origins(s, k) = {} \/ PayloadSize(s, Held(s, k) \cup {k}) > maxPayloadSize

LastFrame(s, k) == Violates(s, k) \/ s[k].opcode = "close"

Completes(s, k) == ~Violates(s, k) /\ (IsControl(s[k]) \/ s[k].fin)

\* The opcode and the frames of the message that k completes
OpcodeOf(s, k) ==
    IF s[k].opcode = "continuation" THEN s[Max(Origins(s, k))].opcode ELSE s[k].opcode
PartsOf(s, k) ==
    IF s[k].opcode = "continuation" THEN Held(s, k) \cup {k} ELSE {k}

\* The bytes after which k can be judged: of a bad header, no more than the length
Judged(k) ==
    base + size >= Begin(k) + IF Admissible(stream[k]) THEN FrameLength(stream[k])
                              ELSE HeaderLength(stream[k])

Reached == {k \in 1 .. StreamLength :
               Judged(k) /\ \A j \in 1 .. k - 1 : ~LastFrame(stream, j)}

-----------------------------------------------------------------------------
(* Properties *)

\* seq is the numbers of S in ascending order.
Ascends(seq, S) ==
    /\ {seq[i] : i \in DOMAIN seq} = S
    /\ \A i, j \in DOMAIN seq : i < j => seq[i] < seq[j]

\* A message is known by the frame that completes it.
Completing(message) == Last(message.parts)

\* The types, and the bound of the buffer: a connection that lives long, or
\* announces more than it sends, keeps no more than the tolerated prefix, one
\* read and one unfinished frame of the admitted size.
ParserTypeOK ==
    /\ size < Threshold + 14 + maxPayloadSize + ReadSize
    /\ stream \in [1 .. StreamLength -> Frames]
    /\ base \in 0 .. Total /\ size \in 0 .. Total - base /\ consumed \in 0 .. size
    /\ assembling \in BOOLEAN /\ assemblyOpcode \in Opcodes
    /\ assembly \in Seq(1 .. StreamLength)
    /\ errored \in BOOLEAN /\ pump \in {"read", "parse", "ended"}
    /\ messages \in Seq([opcode : Opcodes, parts : Seq(1 .. StreamLength)])

\* However the network cuts the stream, as soon as the bytes read so far are
\* parsed the caller has seen exactly the messages those bytes complete, each
\* with its own parts and opcode: fragments joined around control frames,
\* nothing from or after a frame that breaks the protocol or closes.
MessagesAreTheStreams ==
    pump # "parse" =>
        /\ Ascends([i \in DOMAIN messages |-> Completing(messages[i])],
                   {k \in Reached : Completes(stream, k)})
        /\ \A i \in DOMAIN messages :
              LET k == Completing(messages[i])
              IN  /\ messages[i].opcode = OpcodeOf(stream, k)
                  /\ Ascends(messages[i].parts, PartsOf(stream, k))
        /\ errored = \E k \in Reached : Violates(stream, k)
        /\ (pump = "ended") = \E k \in Reached : LastFrame(stream, k)

=============================================================================
