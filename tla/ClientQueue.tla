---------------------------- MODULE ClientQueue ----------------------------
(***************************************************************************)
(* One connection's outgoing queue and its writer, from                    *)
(* src/src/core/StreamServer.cpp: enqueue (by whichever thread holds       *)
(* connectionsMutex, and by the connection's own thread for a pong), the   *)
(* drop policy, drainQueue and writeAll with its partial writes, and what  *)
(* pumpIncoming adds to the queue.  A frame is a number in the order of    *)
(* enqueueing, whether it may be dropped, and its size.                    *)
(***************************************************************************)
EXTENDS Integers, Sequences, FiniteSets

CONSTANTS
    AudioSize,      \* bytes of a binary frame
    ControlSize,    \* bytes of a text or pong frame
    QueueLimit,     \* queueLimitBytes
    MaxFrames       \* bound on the frames ever enqueued

ASSUME SizesAssumption ==
    /\ AudioSize \in Nat \ {0} /\ ControlSize \in Nat \ {0}
    /\ QueueLimit \in Nat /\ MaxFrames \in Nat

VARIABLES
    upgraded,     \* upgraded
    queue,        \* queue
    queuedBytes,  \* queuedBytes
    drops,        \* owner.drops
    next,         \* number of the next frame
    caller,       \* the broadcast that is past its test of upgraded, or none
    cpc,          \* connection thread: drain, write, pump, finish or done
    writing,      \* the frame popped by drainQueue, or none
    sent,         \* bytes of it already accepted by the socket
    wire,         \* the frames the peer received whole, in order (history)
    controls      \* numbers of the control frames enqueued (history)

vars == <<upgraded, queue, queuedBytes, drops, next, caller, cpc, writing, sent,
          wire, controls>>

Frames == {f \in [id : Nat, droppable : BOOLEAN, size : {AudioSize, ControlSize}] :
              f.size = IF f.droppable THEN AudioSize ELSE ControlSize}
None == [id |-> 0, droppable |-> FALSE, size |-> 0]

Frame(droppable) ==
    [id |-> next, droppable |-> droppable,
     size |-> IF droppable THEN AudioSize ELSE ControlSize]

Init ==
    /\ upgraded = TRUE
    /\ queue = <<>> /\ queuedBytes = 0 /\ drops = 0
    /\ next = 1 /\ caller = None
    /\ cpc = "drain" /\ writing = None /\ sent = 0 /\ wire = <<>> /\ controls = {}

-----------------------------------------------------------------------------
Seqs == INSTANCE SequencesExt

IsDroppable(frame) == frame.droppable

\* Mutant: the newest audio frame goes first, the one just pushed before all others.
ErasedNewest(q, k) ==
    LET after[i \in 0 .. k] ==
            IF i = 0 THEN q
            ELSE Seqs!Reverse(Seqs!RemoveFirstMatch(Seqs!Reverse(after[i - 1]), IsDroppable))
    IN  after[k]

\* The queue after the oldest audio frame has been erased k times
Erased(q, k) ==
    LET after[i \in 0 .. k] ==
            IF i = 0 THEN q ELSE Seqs!RemoveFirstMatch(after[i - 1], IsDroppable)
    IN  after[k]

\* Where in q is audio
Droppables(q) == {i \in DOMAIN q : IsDroppable(q[i])}

\* Mutant: a control frame at the front ends the search for audio to drop.
SettledAtControl(q, bytes) ==
    \/ bytes <= QueueLimit
    \/ Len(q) <= 1
    \/ ~IsDroppable(Head(q))

\* The loop of enqueue stops: the bytes fit, one frame is left, or all that is
\* left may not be dropped.
Settled(q, bytes) ==
    \/ bytes <= QueueLimit
    \/ Len(q) <= 1
    \/ Droppables(q) = {}

Least(S) == CHOOSE k \in S : \A j \in S : k <= j

\* enqueue under queueMutex: push, then drop from the front
Push(frame) ==
    LET q == Append(queue, frame)
        bytes == queuedBytes + frame.size
        k == Least({ j \in 0 .. Len(q) :
                         Settled(Erased(q, j), bytes - j * AudioSize) })
    IN  /\ queue' = Erased(q, k)
        /\ queuedBytes' = bytes - k * AudioSize
        /\ drops' = drops + k
        /\ next' = next + 1
        /\ controls' = IF frame.droppable THEN controls ELSE controls \cup {frame.id}

\* broadcastBinary or broadcastText reaches this connection: upgraded is
\* tested before queueMutex is taken.
Offer(droppable) ==
    /\ caller = None
    /\ upgraded
    /\ next <= MaxFrames
    /\ caller' = Frame(droppable)
    /\ UNCHANGED <<upgraded, queue, queuedBytes, drops, next, cpc, writing, sent, wire, controls>>

\* Frames are numbered where they enter the queue: a pong may come between.
Enqueue ==
    /\ caller # None
    /\ Push([caller EXCEPT !.id = next])
    /\ caller' = None
    /\ UNCHANGED <<upgraded, cpc, writing, sent, wire>>

-----------------------------------------------------------------------------
\* Mutant: what is popped stays in the count.
PopUncounted ==
    /\ cpc = "drain" /\ queue # <<>>
    /\ writing' = Head(queue) /\ queue' = Tail(queue)
    /\ sent' = 0 /\ cpc' = "write"
    /\ UNCHANGED <<upgraded, queuedBytes, drops, next, caller, wire, controls>>

\* Mutant: the newest frame is written first.
PopNewest ==
    /\ cpc = "drain" /\ queue # <<>>
    /\ writing' = Seqs!Last(queue) /\ queue' = Seqs!Front(queue)
    /\ queuedBytes' = queuedBytes - Seqs!Last(queue).size
    /\ sent' = 0 /\ cpc' = "write"
    /\ UNCHANGED <<upgraded, drops, next, caller, wire, controls>>

\* drainQueue: pop the front under the lock, to be written without it
Pop ==
    /\ cpc = "drain" /\ queue # <<>>
    /\ writing' = Head(queue)
    /\ queue' = Tail(queue)
    /\ queuedBytes' = queuedBytes - Head(queue).size
    /\ sent' = 0
    /\ cpc' = "write"
    /\ UNCHANGED <<upgraded, drops, next, caller, wire, controls>>

Drained ==
    /\ cpc = "drain" /\ queue = <<>>
    /\ cpc' = "pump"
    /\ UNCHANGED <<upgraded, queue, queuedBytes, drops, next, caller, writing, sent, wire, controls>>

\* writeAll: the socket takes some of the rest; with the last byte the frame
\* is through and drainQueue looks for the next one.
WriteSome(k) ==
    /\ cpc = "write"
    /\ sent + k <= writing.size
    /\ IF sent + k = writing.size
       THEN /\ wire' = Append(wire, writing)
            /\ writing' = None /\ sent' = 0
            /\ cpc' = "drain"
       ELSE /\ sent' = sent + k
            /\ UNCHANGED <<wire, writing, cpc>>
    /\ UNCHANGED <<upgraded, queue, queuedBytes, drops, next, caller, controls>>

\* writeAll gives up: exit requested, deadline passed, or the socket failed
WriteFails ==
    /\ cpc = "write"
    /\ cpc' = "finish"
    /\ UNCHANGED <<upgraded, queue, queuedBytes, drops, next, caller, writing, sent, wire, controls>>

\* pumpIncoming finds a ping
PumpPing ==
    /\ cpc = "pump"
    /\ next <= MaxFrames
    /\ Push(Frame(FALSE))
    /\ UNCHANGED <<upgraded, caller, cpc, writing, sent, wire>>

\* pumpIncoming has no further frame, or only frames it ignores
PumpIdle ==
    /\ cpc = "pump"
    /\ cpc' = "drain"
    /\ UNCHANGED <<upgraded, queue, queuedBytes, drops, next, caller, writing, sent, wire, controls>>

\* A close frame, a parse error, a read that fails, or exit requested
PumpEnds ==
    /\ cpc = "pump"
    /\ cpc' = "finish"
    /\ UNCHANGED <<upgraded, queue, queuedBytes, drops, next, caller, writing, sent, wire, controls>>

Finish ==
    /\ cpc = "finish"
    /\ upgraded' = FALSE
    /\ cpc' = "done"
    /\ UNCHANGED <<queue, queuedBytes, drops, next, caller, writing, sent, wire, controls>>

Next ==
    \/ \E droppable \in BOOLEAN : Offer(droppable)
    \/ Enqueue
    \/ Pop \/ Drained
    \/ \E k \in 1 .. AudioSize + ControlSize : WriteSome(k)
    \/ WriteFails
    \/ PumpPing \/ PumpIdle \/ PumpEnds
    \/ Finish

Spec == Init /\ [][Next]_vars

-----------------------------------------------------------------------------
(* Properties *)

\* The types; over the limit only with a single frame, or with nothing that
\* may be dropped.
TypeOK ==
    /\ upgraded \in BOOLEAN
    /\ queue \in Seq(Frames) /\ wire \in Seq(Frames)
    /\ queuedBytes \in Nat /\ drops \in Nat
    /\ next \in 1 .. MaxFrames + 2
    /\ caller \in Frames \cup {None} /\ writing \in Frames \cup {None}
    /\ cpc \in {"drain", "write", "pump", "finish", "done"}
    /\ sent \in Nat /\ (sent > 0 => sent < writing.size)
    /\ queuedBytes > QueueLimit => Len(queue) = 1 \/ Droppables(queue) = {}

Outstanding == wire \o (IF writing = None THEN <<>> ELSE <<writing>>) \o queue

\* The peer sees the frames in the order they were enqueued, with gaps but
\* without repetition or overtaking, and the frame in the writer and those
\* queued continue that order.
DeliveredInOrder ==
    \A i, j \in DOMAIN Outstanding : i < j => Outstanding[i].id < Outstanding[j].id

Numbers(q) == { q[i].id : i \in DOMAIN q }

Bytes(q) == AudioSize * Cardinality(Droppables(q))
               + ControlSize * Cardinality(DOMAIN q \ Droppables(q))

\* queuedBytes, an unsigned counter kept in three places by two threads, is the
\* size of what is queued: it cannot wrap or drift until a short queue is cut.
\* Every frame enqueued is delivered, being written, queued, or dropped and
\* counted, and no control frame is ever among the dropped ("Control frames are
\* never dropped"), whatever the writer does between two enqueues.
EveryFrameAccounted ==
    /\ queuedBytes = Bytes(queue)
    /\ next - 1 = Len(Outstanding) + drops
    /\ controls \subseteq Numbers(Outstanding)

\* The numbers of the frames that a step drops: of those that were queued and of the
\* one that it pushes
Dropped == (Numbers(queue) \cup (next .. next' - 1)) \ Numbers(Outstanding')

\* "Drop the oldest audio, never the newest", and no more of it than it takes: a frame
\* that a step drops is older than any audio left, and would not have fitted.  So the
\* frame that is pushed is not dropped in place of one that waits; it goes only with
\* all the audio there is, when control frames alone take the room.
DropsOldestOnly ==
    [][ \A n \in Dropped :
          /\ queuedBytes' + AudioSize > QueueLimit
          /\ \A j \in Droppables(queue') : n < queue'[j].id ]_vars

=============================================================================
