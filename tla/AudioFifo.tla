----------------------------- MODULE AudioFifo -----------------------------
(***************************************************************************)
(* What src/src/core/AudioRingBuffer.h promises its two users, with no     *)
(* indices and no steps in the middle of a copy: a bounded FIFO of whole   *)
(* frames.  The audio thread's block goes in whole or is discarded whole   *)
(* and counted; the streaming thread takes frames out in order.  One frame *)
(* of the storage stays unused.  AudioRing implements this module.         *)
(***************************************************************************)
EXTENDS Integers, Sequences

CONSTANTS
    Tags,        \* source frames are numbered modulo Tags, to tell them apart
    MaxBlock,    \* the largest block processBlock may hand over
    MaxRead,     \* the most frames one read asks for (framesPerPacket)
    MaxOverruns, \* bound on the overrun counter
    SourceWidths,\* channel counts a source block may have
    Shapes       \* <<channels, frames>> pairs that prepare may be called with

VARIABLES channels, size, queue, got, overruns, tag

vars == <<channels, size, queue, got, overruns, tag>>

\* The value of channel ch of the source frame numbered t, in a ring of more
\* channels than the source: the last source channel is duplicated.
SourceSample(t, ch, width) == [tag |-> t, ch |-> IF ch < width THEN ch ELSE width - 1]

SourceFrame(t, chans, width) == [ch \in 0 .. chans - 1 |-> SourceSample(t, ch, width)]

SourceBlock(t, n, chans, width) ==
    [i \in 1 .. n |-> SourceFrame((t + i - 1) % Tags, chans, width)]

Init ==
    /\ channels = 0 /\ size = 1
    /\ queue = <<>> /\ got = <<>>
    /\ overruns = 0 /\ tag = 0

Accept(n, width) ==
    /\ channels > 0
    /\ Len(queue) + n <= size - 1
    /\ queue' = queue \o SourceBlock(tag, n, channels, width)
    /\ tag' = (tag + n) % Tags
    /\ UNCHANGED <<channels, size, got, overruns>>

Discard(n) ==
    /\ channels = 0 \/ Len(queue) + n > size - 1
    /\ overruns < MaxOverruns
    /\ overruns' = overruns + 1
    /\ tag' = (tag + n) % Tags
    /\ UNCHANGED <<channels, size, queue, got>>

Take(k) ==
    /\ k <= Len(queue)
    /\ got' = SubSeq(queue, 1, k)
    /\ queue' = SubSeq(queue, k + 1, Len(queue))
    /\ UNCHANGED <<channels, size, overruns, tag>>

TakeNothing ==
    /\ queue = <<>>
    /\ got' = <<>>
    /\ UNCHANGED <<channels, size, queue, overruns, tag>>

Prepare(shape) ==
    /\ channels' = shape[1] /\ size' = shape[2]
    /\ queue' = <<>> /\ overruns' = 0
    /\ UNCHANGED <<got, tag>>

Release ==
    /\ channels' = 0 /\ size' = 1
    /\ queue' = <<>>
    /\ UNCHANGED <<got, overruns, tag>>

Next ==
    \/ \E n \in 1 .. MaxBlock : Discard(n) \/ \E w \in SourceWidths : Accept(n, w)
    \/ \E k \in 1 .. MaxRead : Take(k)
    \/ TakeNothing
    \/ \E shape \in Shapes : Prepare(shape)
    \/ Release

Spec == Init /\ [][Next]_vars

=============================================================================
