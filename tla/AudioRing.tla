----------------------------- MODULE AudioRing -----------------------------
(***************************************************************************)
(* The single-producer single-consumer ring of                             *)
(* src/src/core/AudioRingBuffer.h over juce::AbstractFifo.  The audio      *)
(* thread (write) and the streaming thread (read) each read the two        *)
(* indices, copy, and publish their own index; every one of those is a     *)
(* step, so the two threads interleave inside the copies: the writer       *)
(* between the channels of a region, the reader between its two regions.   *)
(* prepare and release run while both are idle, as the class demands of    *)
(* its caller; module StreamEngine models the caller.                      *)
(***************************************************************************)
EXTENDS Integers, Sequences

CONSTANTS
    Tags,        \* source frames are numbered modulo Tags, to tell them apart
    MaxBlock,    \* the largest block processBlock may hand over
    MaxRead,     \* the most frames one read asks for (framesPerPacket)
    MaxOverruns, \* bound on the overrun counter
    SourceWidths,\* channel counts a source block may have
    Shapes       \* <<channels, frames>> pairs that prepare may be called with

ASSUME BoundsAssumption ==
    /\ Tags \in Nat \ {0}
    /\ MaxBlock \in Nat
    /\ MaxRead \in Nat
    /\ MaxOverruns \in Nat

\* prepare's own assertion, and a source block has a channel
ASSUME ShapesAssumption ==
    /\ Shapes \subseteq (Nat \ {0}) \X (Nat \ {0})
    /\ SourceWidths \subseteq Nat \ {0}

VARIABLES
    channels,  \* channels
    size,      \* fifo's bufferSize
    storage,   \* storage, one function of channels per frame
    vs, ve,    \* fifo's validStart and validEnd
    overruns,  \* overruns
    tag,       \* number of the next source frame
    wpc,       \* audio thread: idle, claim (space was found), copy
    wsrc,      \* its source block: length and channel count
    wclaim,    \* fifo.write's scope
    wat,       \* the region and channel to copy next
    rpc,       \* streaming thread: idle, claim (frames were found), copy
    rlen,      \* numFrames of the read
    rclaim,    \* fifo.read's scope
    rat,       \* the region to copy next
    dest,      \* the destination while it is being filled
    got        \* what the last read returned

shape == <<channels, size>>
writer == <<wpc, wsrc, wclaim, wat>>
reader == <<rpc, rlen, rclaim, rat, dest, got>>
vars == <<channels, size, storage, vs, ve, overruns, tag, writer, reader>>

-----------------------------------------------------------------------------
(* juce::AbstractFifo *)

NumReady == IF ve >= vs THEN ve - vs ELSE size - (vs - ve)
FreeSpace == size - NumReady - 1

\* The scope that a claim of n slots from index i gives: its second block
\* starts at slot 0.
Claim(i, n) == LET first == IF n < size - i THEN n ELSE size - i
               IN  [start |-> i, block1 |-> first, block2 |-> n - first]

NoClaim == [start |-> 0, block1 |-> 0, block2 |-> 0]

Wrapped(i) == IF i >= size THEN i - size ELSE i

\* The slots of a claim, region by region
Region1(c) == c.start .. c.start + c.block1 - 1
Region2(c) == 0 .. c.block2 - 1
Slots(c) == Region1(c) \cup Region2(c)

-----------------------------------------------------------------------------
Sample(t, ch, width) == [tag |-> t, ch |-> IF ch < width THEN ch ELSE width - 1]
Silence == [tag |-> -1, ch |-> 0]
NoSource == [len |-> 0, width |-> 1]

Init ==
    /\ channels = 0 /\ size = 1 /\ storage = <<>>
    /\ vs = 0 /\ ve = 0
    /\ overruns = 0 /\ tag = 0
    /\ wpc = "idle" /\ wsrc = NoSource /\ wclaim = NoClaim
    /\ wat = [region |-> 1, ch |-> 0]
    /\ rpc = "idle" /\ rlen = 0 /\ rclaim = NoClaim /\ rat = 1
    /\ dest = <<>> /\ got = <<>>

\* Mutant: prepare without fifo.reset, the indices of the old ring survive.
PrepareKeepsIndices(sh) ==
    /\ wpc = "idle" /\ rpc = "idle"
    /\ channels' = sh[1] /\ size' = sh[2]
    /\ storage' = [i \in 0 .. sh[2] - 1 |-> [ch \in 0 .. sh[1] - 1 |-> Silence]]
    /\ overruns' = 0
    /\ UNCHANGED <<vs, ve, tag, writer, reader>>

Prepare(sh) ==
    /\ wpc = "idle" /\ rpc = "idle"
    /\ channels' = sh[1] /\ size' = sh[2]
    /\ storage' = [i \in 0 .. sh[2] - 1 |-> [ch \in 0 .. sh[1] - 1 |-> Silence]]
    /\ vs' = 0 /\ ve' = 0 /\ overruns' = 0
    /\ UNCHANGED <<tag, writer, reader>>

Release ==
    /\ wpc = "idle" /\ rpc = "idle"
    /\ channels' = 0 /\ size' = 1 /\ storage' = <<>>
    /\ vs' = 0 /\ ve' = 0
    /\ UNCHANGED <<overruns, tag, writer, reader>>

-----------------------------------------------------------------------------
(* The audio thread's write *)

\* The block does not fit: it is discarded whole and counted.
WriteDiscard(n) ==
    /\ wpc = "idle"
    /\ channels <= 0 \/ FreeSpace < n
    /\ overruns < MaxOverruns
    /\ overruns' = overruns + 1
    /\ tag' = (tag + n) % Tags
    /\ UNCHANGED <<shape, storage, vs, ve, writer, reader>>

\* Mutant: write trusts fifo.write to refuse what does not fit.
WriteUntested(n, width) ==
    /\ wpc = "idle" /\ channels > 0
    /\ wpc' = "claim"
    /\ wsrc' = [len |-> n, width |-> width]
    /\ UNCHANGED <<shape, storage, vs, ve, overruns, tag, wclaim, wat, reader>>

WriteFits(n, width) ==
    /\ wpc = "idle"
    /\ channels > 0 /\ FreeSpace >= n
    /\ wpc' = "claim"
    /\ wsrc' = [len |-> n, width |-> width]
    /\ UNCHANGED <<shape, storage, vs, ve, overruns, tag, wclaim, wat, reader>>

\* fifo.write: the indices are read a second time, and the claim is cut to
\* the free space that this second reading finds.
WriteClaim ==
    /\ wpc = "claim"
    /\ wpc' = "copy"
    /\ wclaim' = Claim(ve, IF wsrc.len < FreeSpace THEN wsrc.len ELSE FreeSpace)
    /\ wat' = [region |-> 1, ch |-> 0]
    /\ UNCHANGED <<shape, storage, vs, ve, overruns, tag, wsrc, reader>>

\* The two calls of copyRegion: where each starts, the slots it fills, and
\* where it starts in the source.
RegionStart == IF wat.region = 1 THEN wclaim.start ELSE 0

\* Mutant: the second call is given the first block's length.
RegionSlotsOfFirst ==
    IF wat.region = 1 THEN Region1(wclaim) ELSE 0 .. wclaim.block1 - 1
RegionSlots == IF wat.region = 1 THEN Region1(wclaim) ELSE Region2(wclaim)

\* Mutant: both calls copy from the start of the source.
SourceStartOfFirst == 0
SourceStart == IF wat.region = 1 THEN 0 ELSE wclaim.block1

\* copyRegion, one channel of it
WriteCopy ==
    /\ wpc = "copy" /\ wat.region <= 2
    /\ storage' = [i \in DOMAIN storage |->
           IF i \in RegionSlots
           THEN [storage[i] EXCEPT ![wat.ch] =
                    Sample((tag + SourceStart + i - RegionStart) % Tags, wat.ch, wsrc.width)]
           ELSE storage[i]]
    /\ wat' = IF wat.ch + 1 < channels
              THEN [wat EXCEPT !.ch = wat.ch + 1]
              ELSE [region |-> wat.region + 1, ch |-> 0]
    /\ UNCHANGED <<shape, vs, ve, overruns, tag, wpc, wsrc, wclaim, reader>>

\* The scope ends: finishedWrite publishes the new end.
WriteCommit ==
    /\ wpc = "copy" /\ wat.region = 3
    /\ ve' = Wrapped(ve + wclaim.block1 + wclaim.block2)
    /\ tag' = (tag + wsrc.len) % Tags
    /\ wpc' = "idle" /\ wsrc' = NoSource /\ wclaim' = NoClaim
    /\ wat' = [region |-> 1, ch |-> 0]
    /\ UNCHANGED <<shape, storage, vs, overruns, reader>>

-----------------------------------------------------------------------------
(* The streaming thread's read *)

ReadNothing ==
    /\ rpc = "idle"
    /\ channels <= 0 \/ NumReady = 0
    /\ got' = <<>>
    /\ UNCHANGED <<shape, storage, vs, ve, overruns, tag, writer,
                   rpc, rlen, rclaim, rat, dest>>

ReadFinds(maxFrames) ==
    /\ rpc = "idle"
    /\ channels > 0 /\ NumReady > 0
    /\ rpc' = "claim"
    /\ rlen' = IF maxFrames < NumReady THEN maxFrames ELSE NumReady
    /\ UNCHANGED <<shape, storage, vs, ve, overruns, tag, writer, rclaim, rat, dest, got>>

\* Mutant: the slots are handed back to the writer before they are copied.
ReadClaimGivesBack ==
    /\ rpc = "claim"
    /\ rpc' = "copy"
    /\ rclaim' = Claim(vs, IF rlen < NumReady THEN rlen ELSE NumReady)
    /\ vs' = Wrapped(vs + rlen)
    /\ rat' = 1
    /\ UNCHANGED <<shape, storage, ve, overruns, tag, writer, rlen, dest, got>>

ReadClaim ==
    /\ rpc = "claim"
    /\ rpc' = "copy"
    /\ rclaim' = Claim(vs, IF rlen < NumReady THEN rlen ELSE NumReady)
    /\ rat' = 1
    /\ UNCHANGED <<shape, storage, vs, ve, overruns, tag, writer, rlen, dest, got>>

\* One memcpy: dest is interleaved, a region's frames follow the other's.
ReadCopy ==
    /\ rpc = "copy" /\ rat <= 2
    /\ dest' = IF rat = 1
               THEN [i \in 1 .. rclaim.block1 |-> storage[rclaim.start + i - 1]]
               ELSE dest \o [i \in 1 .. rclaim.block2 |-> storage[i - 1]]
    /\ rat' = rat + 1
    /\ UNCHANGED <<shape, storage, vs, ve, overruns, tag, writer, rpc, rlen, rclaim, got>>

ReadCommit ==
    /\ rpc = "copy" /\ rat = 3
    /\ vs' = Wrapped(vs + rclaim.block1 + rclaim.block2)
    /\ got' = dest
    /\ rpc' = "idle" /\ rlen' = 0 /\ rclaim' = NoClaim /\ rat' = 1 /\ dest' = <<>>
    /\ UNCHANGED <<shape, storage, ve, overruns, tag, writer>>

-----------------------------------------------------------------------------
Next ==
    \/ \E sh \in Shapes : Prepare(sh)
    \/ Release
    \/ \E n \in 1 .. MaxBlock : WriteDiscard(n)
    \/ \E n \in 1 .. MaxBlock, width \in SourceWidths : WriteFits(n, width)
    \/ WriteClaim
    \/ WriteCopy
    \/ WriteCommit
    \/ ReadNothing
    \/ \E maxFrames \in 1 .. MaxRead : ReadFinds(maxFrames)
    \/ ReadClaim
    \/ ReadCopy
    \/ ReadCommit

Spec == Init /\ [][Next]_vars

-----------------------------------------------------------------------------
(* Properties *)

Claims == [start : Nat, block1 : Nat, block2 : Nat]

\* The types, with the indices inside the ring.
TypeOK ==
    /\ channels \in Nat /\ size \in Nat \ {0}
    /\ vs \in 0 .. size - 1 /\ ve \in 0 .. size - 1
    /\ overruns \in 0 .. MaxOverruns /\ tag \in 0 .. Tags - 1
    /\ wpc \in {"idle", "claim", "copy"} /\ rpc \in {"idle", "claim", "copy"}
    /\ wsrc \in [len : 0 .. MaxBlock, width : Nat \ {0}]
    /\ wclaim \in Claims /\ rclaim \in Claims
    /\ wat \in [region : 1 .. 3, ch : Nat] /\ rat \in 1 .. 3
    /\ rlen \in 0 .. MaxRead

\* The slots that hold audio ready to be read
ReadySlots == IF ve >= vs THEN vs .. ve - 1 ELSE (vs .. size - 1) \cup (0 .. ve - 1)

\* No lock guards the storage: that the slots the audio thread is writing and
\* the slots the streaming thread is reading never overlap is what makes the
\* ring free of data races, whatever the two threads' relative speed.
ClaimsDisjoint ==
    wpc = "copy" /\ rpc = "copy" => Slots(wclaim) \cap Slots(rclaim) = {}

\* The free space is tested before fifo.write reads the indices again and cuts
\* the claim to what it finds: a block that passed the test is never cut
\* (write returns true and the tail of the block would be lost without count).
BlockClaimedWhole ==
    wpc = "copy" => wclaim.block1 + wclaim.block2 = wsrc.len

\* A frame that is ready to be read is never written again before the reader
\* takes it ("discards the incoming block rather than overwriting data the
\* consumer is mid-read on").
ReadyFramesStable ==
    [][wpc # "idle" => \A i \in ReadySlots : storage'[i] = storage[i]]_vars

\* What has been published and not yet taken, in order
Contents == [k \in 1 .. NumReady |-> storage[Wrapped(vs + k - 1)]]

Abstract == INSTANCE AudioFifo WITH queue <- Contents

\* Seen through Contents, every step of the two threads is a step of the
\* bounded FIFO of whole frames or no step at all: frames come out in the
\* order they went in, none torn between channels, none twice, and a block is
\* counted as an overrun only when the FIFO really has no room for it.
ImplementsFifo == Abstract!Spec

=============================================================================
