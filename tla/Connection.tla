----------------------------- MODULE Connection -----------------------------
(***************************************************************************)
(* StreamServer::Connection (src/src/core/StreamServer.cpp): the thread of *)
(* one connection from the first byte of its request to finish, against a  *)
(* peer that sends, reads, stalls or leaves, broadcasts into its queue and *)
(* a disconnect.                                                           *)
(*                                                                         *)
(* A request is what handleHttp tells apart; of the queue, whose order and *)
(* drop policy ClientQueue has, only its length is kept; everything that   *)
(* is written has ItemSize units.                                          *)
(***************************************************************************)
EXTENDS Integers

CONSTANTS
    Requests,   \* records of kind, known (the token, or the asset) and length
    MaxHead,    \* maxRequestHeadBytes
    Chunk,      \* what one read can return
    ItemSize,   \* units of a response or frame
    Room,       \* units that the send buffer holds
    QueueCap,   \* frames in the queue when it starts to drop
    Deadline    \* writeDeadlineMs, in ticks of the clock

ASSUME RequestsAssumption ==
    Requests \subseteq [kind : {"upgrade", "page", "garbage"}, known : BOOLEAN,
                        length : Nat \ {0}]
ASSUME SizesAssumption == {MaxHead, Chunk, ItemSize, Room, QueueCap, Deadline} \subseteq Nat \ {0}

VARIABLES
    request,      \* what the peer is asking for
    cpc,          \* where the thread is
    head,         \* bytes of the request head read so far
    item, sent,   \* what writeAll is writing, units of it written
    age,          \* ticks since that writeAll began, no further than Deadline + 1
    torn,         \* some write has failed (history)
    upgraded, queue,
    exit, open,   \* the thread's exit flag; this side's socket is open
    peer,         \* "reads", "stalled" or "closed"
    room,         \* units that the send buffer has room for
    asked         \* the client's frame that waits to be read

write == <<item, sent, age>>
peers == <<peer, room, asked>>
vars == <<request, cpc, head, write, torn, upgraded, queue, exit, open, peers>>

Init ==
    /\ request \in Requests
    /\ cpc = "head" /\ head = 0
    /\ item = "none" /\ sent = 0 /\ age = 0 /\ torn = FALSE
    /\ upgraded = FALSE /\ queue = 0
    /\ exit = FALSE /\ open = TRUE
    /\ peer = "reads" /\ room = Room /\ asked = "none"

Goto(pc) == cpc' = pc

-----------------------------------------------------------------------------
(* handleHttp: the request head *)

\* Mutant: the head may grow until its end arrives.
AfterReadUnlimited == IF head' >= request.length THEN "decide" ELSE "head"

AfterRead ==
    IF head' >= request.length THEN "decide"
    ELSE IF head' > MaxHead THEN "finish" ELSE "head"

ReadHead(n) ==
    /\ cpc = "head" /\ ~exit /\ open
    /\ head + n <= request.length
    /\ head' = head + n
    /\ Goto(AfterRead)
    /\ UNCHANGED <<request, write, torn, upgraded, queue, exit, open, peers>>

HangsUp == ~open \/ peer = "closed"

\* A part of a request is no request.
HeadEnds ==
    /\ cpc = "head"
    /\ exit \/ HangsUp
    /\ Goto("finish")
    /\ UNCHANGED <<request, head, write, torn, upgraded, queue, exit, open, peers>>

StartWrite(i) ==
    /\ item' = i /\ sent' = 0 /\ age' = 0
    /\ Goto("write")

Parsed == request.kind # "garbage"
IsWebSocketUpgrade == request.kind = "upgrade"
Authorized == request.known
HasAsset == request.known

Decide ==
    /\ cpc = "decide"
    /\ \/ ~Parsed /\ Goto("finish") /\ UNCHANGED write
       \/ Parsed /\ IsWebSocketUpgrade /\ Authorized /\ StartWrite("accept")
       \/ Parsed /\ IsWebSocketUpgrade /\ ~Authorized /\ StartWrite("denial")
       \/ Parsed /\ ~IsWebSocketUpgrade /\ HasAsset /\ StartWrite("assetHead")
       \/ Parsed /\ ~IsWebSocketUpgrade /\ ~HasAsset /\ StartWrite("notFound")
    /\ UNCHANGED <<request, head, torn, upgraded, queue, exit, open, peers>>

-----------------------------------------------------------------------------
(* writeAll, and what its callers do with the result *)

\* performUpgrade: upgraded once the peer has its answer
Accepted == upgraded' = TRUE /\ Goto("serve") /\ UNCHANGED write

\* Mutant: performUpgrade does not look at the result.
WriteReturnsAccept(ok) ==
    \/ item = "accept" /\ Accepted
    \/ /\ item # "accept"
       /\ Goto(IF item = "frame" /\ ok THEN "drain" ELSE "finish")
       /\ UNCHANGED <<write, upgraded>>

WriteReturns(ok) ==
    \/ item = "accept" /\ ok /\ Accepted
    \/ item = "frame" /\ ok /\ Goto("drain") /\ UNCHANGED <<write, upgraded>>
    \/ item = "assetHead" /\ ok /\ StartWrite("asset") /\ UNCHANGED upgraded
    \/ item \in {"denial", "notFound"} /\ StartWrite("errorBody") /\ UNCHANGED upgraded
    \/ /\ item \in {"asset", "errorBody"} \/ (~ok /\ item \in {"accept", "frame", "assetHead"})
       /\ Goto("finish") /\ UNCHANGED <<write, upgraded>>

Stopped == exit \/ ~open

\* Mutant: the deadline is looked at when the socket has become writable.
ExpiredIfReady == age > Deadline /\ room > 0
Expired == age > Deadline

WriteSome(n) ==
    /\ cpc = "write" /\ ~Stopped /\ ~Expired
    /\ n <= room /\ sent + n <= ItemSize
    /\ room' = room - n
    /\ IF sent + n = ItemSize
       THEN WriteReturns(TRUE)
       ELSE sent' = sent + n /\ UNCHANGED <<cpc, item, age, upgraded>>
    /\ UNCHANGED <<request, head, torn, queue, exit, open, peer, asked>>

WriteFails ==
    /\ cpc = "write"
    /\ Stopped \/ Expired \/ peer = "closed"
    /\ torn' = TRUE
    /\ WriteReturns(FALSE)
    /\ UNCHANGED <<request, head, queue, exit, open, peers>>

-----------------------------------------------------------------------------
(* run: the loop of drainQueue and pumpIncoming *)

ServeTop ==
    /\ cpc = "serve"
    /\ Goto(IF exit THEN "finish" ELSE "drain")
    /\ UNCHANGED <<request, head, write, torn, upgraded, queue, exit, open, peers>>

Pop ==
    /\ cpc = "drain" /\ queue > 0
    /\ queue' = queue - 1
    /\ StartWrite("frame")
    /\ UNCHANGED <<request, head, torn, upgraded, exit, open, peers>>

Drained ==
    /\ cpc = "drain" /\ queue = 0
    /\ Goto("pump")
    /\ UNCHANGED <<request, head, write, torn, upgraded, queue, exit, open, peers>>

Smaller(a, b) == IF a < b THEN a ELSE b

\* enqueue; a full queue drops a frame for the new one.
Enqueued == Smaller(queue + 1, QueueCap)

\* One read, and the frame in it: a ping is answered through the queue, and an
\* error of the parser ends the connection as "close" does.
PumpReads ==
    /\ cpc = "pump" /\ open /\ asked # "none"
    /\ asked' = "none"
    /\ queue' = IF asked = "ping" THEN Enqueued ELSE queue
    /\ Goto(IF asked = "close" THEN "finish" ELSE "serve")
    /\ UNCHANGED <<request, head, write, torn, upgraded, exit, open, peer, room>>

PumpIdle ==
    /\ cpc = "pump" /\ asked = "none" /\ ~HangsUp
    /\ Goto("serve")
    /\ UNCHANGED <<request, head, write, torn, upgraded, queue, exit, open, peers>>

PumpEnds ==
    /\ cpc = "pump" /\ (asked = "none" \/ ~open) /\ HangsUp
    /\ Goto("finish")
    /\ UNCHANGED <<request, head, write, torn, upgraded, queue, exit, open, peers>>

Finish ==
    /\ cpc = "finish"
    /\ upgraded' = FALSE /\ open' = FALSE
    /\ Goto("done")
    /\ UNCHANGED <<request, head, write, torn, queue, exit, peers>>

ConnectionStep ==
    \/ \E n \in 1 .. Chunk : ReadHead(n)
    \/ HeadEnds \/ Decide
    \/ \E n \in 1 .. ItemSize : WriteSome(n)
    \/ WriteFails
    \/ ServeTop \/ Pop \/ Drained \/ PumpReads \/ PumpIdle \/ PumpEnds
    \/ Finish

-----------------------------------------------------------------------------
(* The other threads *)

Broadcast ==
    /\ upgraded
    /\ queue' = Enqueued
    /\ UNCHANGED <<request, cpc, head, write, torn, upgraded, exit, open, peers>>

\* disconnect: the flag, then the socket
Signal ==
    /\ ~exit /\ cpc # "done"
    /\ exit' = TRUE
    /\ UNCHANGED <<request, cpc, head, write, torn, upgraded, queue, open, peers>>

CloseSocket ==
    /\ exit /\ open
    /\ open' = FALSE
    /\ UNCHANGED <<request, cpc, head, write, torn, upgraded, queue, exit, peers>>

-----------------------------------------------------------------------------
(* The peer and the clock *)

PeerReads ==
    /\ peer = "reads" /\ room < Room
    /\ room' = Room
    /\ UNCHANGED <<request, cpc, head, write, torn, upgraded, queue, exit, open, peer, asked>>

PeerSends(frame) ==
    /\ peer = "reads" /\ upgraded /\ asked = "none"
    /\ asked' = frame
    /\ UNCHANGED <<request, cpc, head, write, torn, upgraded, queue, exit, open, peer, room>>

\* Out of range and back, or gone
PeerBecomes(p) ==
    /\ peer # "closed" /\ peer # p /\ cpc # "done"
    /\ peer' = p
    /\ UNCHANGED <<request, cpc, head, write, torn, upgraded, queue, exit, open, room, asked>>

Tick ==
    /\ cpc = "write" /\ age <= Deadline
    /\ age' = age + 1
    /\ UNCHANGED <<request, cpc, head, item, sent, torn, upgraded, queue, exit, open, peers>>

Next ==
    \/ ConnectionStep
    \/ Broadcast \/ Signal \/ CloseSocket
    \/ PeerReads \/ Tick
    \/ \E frame \in {"ping", "text", "close"} : PeerSends(frame)
    \/ \E p \in {"reads", "stalled", "closed"} : PeerBecomes(p)

\* The thread is scheduled and time passes; the peer owes nothing.
Spec == Init /\ [][Next]_vars /\ WF_vars(ConnectionStep) /\ WF_vars(Tick)

-----------------------------------------------------------------------------
(* Properties *)

\* The types, and the bounds of what a peer can make the thread keep: a head is
\* no longer than its limit and one read, whether its end comes late or never.
TypeOK ==
    /\ request \in Requests
    /\ cpc \in {"head", "decide", "write", "serve", "drain", "pump", "finish", "done"}
    /\ head \in 0 .. MaxHead + Chunk
    /\ item \in {"none", "accept", "denial", "notFound", "errorBody", "assetHead", "asset",
                 "frame"}
    /\ sent \in 0 .. ItemSize - 1 /\ age \in 0 .. Deadline + 1
    /\ queue \in 0 .. QueueCap
    /\ torn \in BOOLEAN /\ upgraded \in BOOLEAN /\ exit \in BOOLEAN /\ open \in BOOLEAN
    /\ peer \in {"reads", "stalled", "closed"} /\ room \in 0 .. Room
    /\ asked \in {"none", "ping", "text", "close"}

\* Nothing follows what was not written to its end: no frame or page after a
\* partial one, whatever ended the write and although the peer may read again.
\* Except the bodies of 403 and 404, whose callers ignore the head's result.
NothingAfterTornWrite == [][torn /\ room' < room => item = "errorBody"]_vars

\* A connection that is over ends, wherever it is - in the head, in a write,
\* between frames - and its thread with it: when its server disconnects it, when
\* its peer has left, and when its peer has gone away without closing, as long as
\* there are frames for it, since the write that stalls gives up.
EndsWhenOver ==
    /\ (exit \/ peer = "closed") ~> (cpc = "done")
    /\ <>[](peer = "stalled") /\ []<>(queue > 0) => <>(cpc = "done")

=============================================================================
