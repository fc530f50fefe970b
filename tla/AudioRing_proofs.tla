-------------------------- MODULE AudioRing_proofs --------------------------
(***************************************************************************)
(* Proofs about AudioRing for every ring shape, block size and read size.  *)
(*                                                                         *)
(* ClaimsDisjoint and BlockClaimedWhole are not inductive: they speak of   *)
(* the two claims alone, while each claim was computed from an index that  *)
(* the other thread has moved since.  ClaimInv ties each claim to its own  *)
(* thread's index, which only that thread moves, and bounds its length by  *)
(* the free or ready frames of NOW.  The other thread's commit can only    *)
(* raise that bound: CommitWriteGrows and CommitReadShrinks.               *)
(***************************************************************************)
EXTENDS AudioRing, SequenceTheorems, TLAPS

\* The audio thread's claim starts at the published end and is no longer than
\* the free space; before the claim, the block it tested still fits.
WriterInv ==
    /\ wpc \in {"claim", "copy"} => wsrc.len <= FreeSpace
    /\ wpc = "copy" => wclaim = Claim(ve, wsrc.len)

\* The streaming thread's claim starts at the published start and is no longer
\* than what is ready; before the claim, the frames it counted are still there.
ReaderInv ==
    /\ rpc \in {"claim", "copy"} => rlen <= NumReady
    /\ rpc = "copy" => rclaim = Claim(vs, rlen)

\* A prepared ring has a frame of storage for every index, and no thread is at
\* work in a released one.
StorageInv ==
    /\ channels > 0 => DOMAIN storage = 0 .. size - 1
    /\ wpc # "idle" \/ rpc # "idle" => channels > 0

ClaimInv == TypeOK /\ WriterInv /\ ReaderInv /\ StorageInv

-----------------------------------------------------------------------------
(* Facts about the indices *)

\* What a wrapped index is: still inside the ring.
LEMMA WrappedInRing ==
    ASSUME TypeOK, NEW i \in 0 .. size - 1, NEW n \in 0 .. size
    PROVE  Wrapped(i + n) \in 0 .. size - 1
BY DEF TypeOK, Wrapped

\* A ring of size slots holds between none and size - 1 frames.
LEMMA ReadyBounds ==
    ASSUME TypeOK
    PROVE  NumReady \in 0 .. size - 1 /\ FreeSpace \in 0 .. size - 1
BY DEF TypeOK, NumReady, FreeSpace

\* Publishing n written frames adds n to what is ready.
LEMMA CommitWriteGrows ==
    ASSUME TypeOK, NEW n \in 0 .. FreeSpace, ve' = Wrapped(ve + n),
           UNCHANGED <<size, vs>>
    PROVE  NumReady' = NumReady + n
BY DEF TypeOK, NumReady, FreeSpace, Wrapped

\* Publishing n read frames takes n from what is ready.
LEMMA CommitReadShrinks ==
    ASSUME TypeOK, NEW n \in 0 .. NumReady, vs' = Wrapped(vs + n),
           UNCHANGED <<size, ve>>
    PROVE  NumReady' = NumReady - n
BY DEF TypeOK, NumReady, Wrapped

\* A claim is of as many slots as were asked for, split at the end of the ring.
LEMMA ClaimLength ==
    ASSUME TypeOK, NEW i \in 0 .. size - 1, NEW n \in 0 .. size - 1
    PROVE  /\ Claim(i, n) \in Claims
           /\ Claim(i, n).block1 + Claim(i, n).block2 = n
BY DEF TypeOK, Claim, Claims

-----------------------------------------------------------------------------
LEMMA InitClaimInv == Init => ClaimInv
BY BoundsAssumption
   DEF Init, ClaimInv, TypeOK, WriterInv, ReaderInv, StorageInv, NoClaim, NoSource, Claims

LEMMA NextClaimInv == ClaimInv /\ [Next]_vars => ClaimInv'
<1> SUFFICES ASSUME ClaimInv, [Next]_vars PROVE ClaimInv'
  OBVIOUS
<1> USE DEF ClaimInv
<1>0. /\ NumReady \in 0 .. size - 1 /\ FreeSpace \in 0 .. size - 1
      /\ FreeSpace = size - 1 - NumReady
  BY ReadyBounds DEF FreeSpace, TypeOK, NumReady
<1>s. StorageInv'
  BY ShapesAssumption
     DEF StorageInv, TypeOK, Next, vars, shape, writer, reader, Prepare, Release,
         WriteDiscard, WriteFits, WriteClaim, WriteCopy, WriteCommit,
         ReadNothing, ReadFinds, ReadClaim, ReadCopy, ReadCommit
<1>1. ASSUME NEW sh \in Shapes, Prepare(sh) PROVE ClaimInv'
  BY <1>1, <1>s, ShapesAssumption, BoundsAssumption
     DEF Prepare, TypeOK, WriterInv, ReaderInv, writer, reader
<1>2. CASE Release
  BY <1>2, <1>s DEF Release, TypeOK, WriterInv, ReaderInv, writer, reader
<1>3. ASSUME NEW n \in 1 .. MaxBlock, WriteDiscard(n) PROVE ClaimInv'
  BY <1>3, <1>s, BoundsAssumption
     DEF WriteDiscard, TypeOK, WriterInv, ReaderInv, writer, reader, shape,
         NumReady, FreeSpace, Claim
<1>4. ASSUME NEW n \in 1 .. MaxBlock, NEW width \in SourceWidths, WriteFits(n, width)
      PROVE ClaimInv'
  BY <1>4, <1>s, BoundsAssumption, ShapesAssumption
     DEF WriteFits, TypeOK, WriterInv, ReaderInv, reader, shape,
         NumReady, FreeSpace, Claim
<1>5. CASE WriteClaim
  <2>1. wclaim' = Claim(ve, wsrc.len)
    BY <1>5, <1>0 DEF WriteClaim, WriterInv, TypeOK
  <2>2. wclaim' \in Claims
    BY <2>1, <1>0, <1>5, ClaimLength DEF TypeOK, WriteClaim, WriterInv
  <2> QED
    BY <1>5, <1>s, <2>1, <2>2
       DEF WriteClaim, TypeOK, WriterInv, ReaderInv, reader, shape,
           NumReady, FreeSpace, Claim
<1>6. CASE WriteCopy
  BY <1>6, <1>s DEF WriteCopy, TypeOK, WriterInv, ReaderInv, reader, shape,
              NumReady, FreeSpace, Claim
<1>7. CASE WriteCommit
  <2>1. wclaim.block1 + wclaim.block2 = wsrc.len
    BY <1>7, <1>0, ClaimLength DEF WriteCommit, WriterInv, TypeOK
  <2>2. ve' = Wrapped(ve + wsrc.len)
    BY <1>7, <2>1, ve + wclaim.block1 + wclaim.block2 = ve + (wclaim.block1 + wclaim.block2)
       DEF WriteCommit, TypeOK, Claims
  <2>3. NumReady' = NumReady + wsrc.len
    BY <1>7, <2>2, CommitWriteGrows DEF WriteCommit, WriterInv, TypeOK, shape
  <2>4. ve' \in 0 .. size - 1
    BY <1>7, <2>2, <1>0, WrappedInRing DEF WriteCommit, WriterInv, TypeOK
  <2>5. TypeOK'
    BY <1>7, <2>4, BoundsAssumption
       DEF WriteCommit, TypeOK, shape, reader, NoSource, NoClaim, Claims
  <2>6. WriterInv'
    BY <1>7 DEF WriteCommit, WriterInv
  <2>7. ReaderInv'
    BY <1>7, <2>3, <1>0 DEF WriteCommit, ReaderInv, reader, shape, Claim, TypeOK
  <2> QED
    BY <1>s, <2>5, <2>6, <2>7
<1>8. CASE ReadNothing
  BY <1>8, <1>s DEF ReadNothing, TypeOK, WriterInv, ReaderInv, writer, shape,
              NumReady, FreeSpace, Claim
<1>9. ASSUME NEW m \in 1 .. MaxRead, ReadFinds(m) PROVE ClaimInv'
  BY <1>9, <1>s, <1>0, BoundsAssumption
     DEF ReadFinds, TypeOK, WriterInv, ReaderInv, writer, shape,
         NumReady, FreeSpace, Claim
<1>10. CASE ReadClaim
  <2>1. rclaim' = Claim(vs, rlen)
    BY <1>10, <1>0 DEF ReadClaim, ReaderInv, TypeOK
  <2>2. rclaim' \in Claims
    BY <2>1, <1>0, <1>10, ClaimLength DEF TypeOK, ReadClaim, ReaderInv
  <2> QED
    BY <1>10, <1>s, <2>1, <2>2
       DEF ReadClaim, TypeOK, WriterInv, ReaderInv, writer, shape,
           NumReady, FreeSpace, Claim
<1>11. CASE ReadCopy
  BY <1>11, <1>s DEF ReadCopy, TypeOK, WriterInv, ReaderInv, writer, shape,
               NumReady, FreeSpace, Claim
<1>12. CASE ReadCommit
  <2>1. rclaim.block1 + rclaim.block2 = rlen
    BY <1>12, <1>0, ClaimLength DEF ReadCommit, ReaderInv, TypeOK
  <2>2. vs' = Wrapped(vs + rlen)
    BY <1>12, <2>1, vs + rclaim.block1 + rclaim.block2 = vs + (rclaim.block1 + rclaim.block2)
       DEF ReadCommit, TypeOK, Claims
  <2>3. NumReady' = NumReady - rlen
    BY <1>12, <2>2, CommitReadShrinks DEF ReadCommit, ReaderInv, TypeOK, shape
  <2>4. vs' \in 0 .. size - 1
    BY <1>12, <2>2, <1>0, WrappedInRing DEF ReadCommit, ReaderInv, TypeOK
  <2>5. TypeOK'
    BY <1>12, <2>4, BoundsAssumption
       DEF ReadCommit, TypeOK, shape, writer, NoClaim, Claims
  <2>6. ReaderInv'
    BY <1>12 DEF ReadCommit, ReaderInv
  <2>7. FreeSpace' >= FreeSpace
    BY <1>12, <2>3, <1>0 DEF ReadCommit, FreeSpace, shape, TypeOK
  <2>8. WriterInv'
    BY <1>12, <2>7, <1>0, <2>3, <2>5 DEF ReadCommit, WriterInv, writer, shape, Claim, TypeOK, FreeSpace
  <2> QED
    BY <1>s, <2>5, <2>6, <2>8
<1>13. CASE UNCHANGED vars
  BY <1>13, <1>s DEF vars, shape, writer, reader, TypeOK, WriterInv, ReaderInv,
               NumReady, FreeSpace, Claim
<1> QED
  BY <1>1, <1>2, <1>3, <1>4, <1>5, <1>6, <1>7, <1>8, <1>9, <1>10, <1>11,
     <1>12, <1>13 DEF Next

\* Both threads' claims stay tied to their own index and within the frames
\* that are free, or ready, now.
THEOREM ClaimsFollowIndices == Spec => []ClaimInv
BY InitClaimInv, NextClaimInv, PTL DEF Spec

-----------------------------------------------------------------------------
\* The free slots start at ve, the ready ones at vs: a claim of free slots and
\* a claim of ready slots have no slot in common.
LEMMA FreeAndReadyApart ==
    ASSUME TypeOK, NEW w \in 0 .. FreeSpace, NEW r \in 0 .. NumReady
    PROVE  Slots(Claim(ve, w)) \cap Slots(Claim(vs, r)) = {}
BY DEF TypeOK, NumReady, FreeSpace, Slots, Region1, Region2, Claim

\* A claim of free slots has no slot in common with those ready to be read.
LEMMA FreeNotReady ==
    ASSUME TypeOK, NEW w \in 0 .. FreeSpace
    PROVE  Slots(Claim(ve, w)) \cap ReadySlots = {}
BY DEF TypeOK, NumReady, FreeSpace, ReadySlots, Slots, Region1, Region2, Claim

LEMMA ClaimInvDisjoint == ClaimInv => ClaimsDisjoint
BY FreeAndReadyApart, ReadyBounds
   DEF ClaimInv, ClaimsDisjoint, WriterInv, ReaderInv, TypeOK

LEMMA ClaimInvWhole == ClaimInv => BlockClaimedWhole
BY ClaimLength, ReadyBounds DEF ClaimInv, BlockClaimedWhole, WriterInv, TypeOK

LEMMA WriteCopyKeepsReady ==
    ASSUME ClaimInv, WriteCopy, NEW i \in ReadySlots
    PROVE  storage'[i] = storage[i]
<1>1. i \in DOMAIN storage
  BY DEF ClaimInv, TypeOK, StorageInv, ReadySlots, WriteCopy
<1>2. i \notin Slots(wclaim)
  BY FreeNotReady DEF ClaimInv, WriterInv, TypeOK, WriteCopy
<1>3. i \notin RegionSlots
  BY <1>2 DEF Slots, RegionSlots
<1> QED
  BY <1>1, <1>3, Zenon DEF WriteCopy

LEMMA NextKeepsReady ==
    ClaimInv /\ [Next]_vars =>
        [wpc # "idle" => \A i \in ReadySlots : storage'[i] = storage[i]]_vars
<1> SUFFICES ASSUME ClaimInv, Next, wpc # "idle", NEW i \in ReadySlots
             PROVE  storage'[i] = storage[i]
  OBVIOUS
<1>1. CASE WriteCopy
  BY <1>1, WriteCopyKeepsReady
<1>2. CASE storage' = storage
  BY <1>2
<1>3. WriteCopy \/ storage' = storage
  BY DEF Next, Prepare, Release, WriteDiscard, WriteFits, WriteClaim, WriteCommit,
         ReadNothing, ReadFinds, ReadClaim, ReadCopy, ReadCommit
<1> QED
  BY <1>1, <1>2, <1>3

\* The types of every variable, and both indices inside the ring, for every
\* sequence of prepare, release, write and read.
THEOREM TypeCorrect == Spec => []TypeOK
BY ClaimsFollowIndices, PTL DEF ClaimInv

\* The audio thread never writes a slot that the streaming thread is reading,
\* however their steps interleave and whatever the ring's size.
THEOREM NoOverlap == Spec => []ClaimsDisjoint
BY ClaimsFollowIndices, ClaimInvDisjoint, PTL

\* A block for which write() returned true has a slot for every frame, though
\* the space was measured twice.
THEOREM NoSilentCut == Spec => []BlockClaimedWhole
BY ClaimsFollowIndices, ClaimInvWhole, PTL

\* No step between a test for space and the commit changes a frame that is
\* ready to be read.
THEOREM ReadyFramesAreStable == Spec => ReadyFramesStable
BY ClaimsFollowIndices, NextKeepsReady, PTL DEF Spec, ReadyFramesStable

-----------------------------------------------------------------------------
(* AudioRing implements AudioFifo.  The FIFO's queue is Contents, the frames *)
(* between the two indices.  Only the commits may change it, and then by     *)
(* exactly the block copied, or the frames taken.  ClaimInv says where the   *)
(* two threads are at work; DataInv adds what they have done there: which    *)
(* samples of the claim already are the source's (Copied), and how much of   *)
(* what is ready the destination already holds (Fetched).                    *)

\* A slot of a prepared ring holds a whole frame; a released ring has one slot.
FramesInv ==
    /\ \A i \in 0 .. size - 1 :
           channels > 0 => storage[i] = [ch \in 0 .. channels - 1 |-> storage[i][ch]]
    /\ channels = 0 => size = 1
    /\ wpc # "idle" => wsrc.len \in 1 .. MaxBlock /\ wsrc.width \in SourceWidths
    /\ rpc # "idle" => rlen \in 1 .. MaxRead

\* Frame k of the block, in channel ch, has been copied.
Copied(k, ch) ==
    LET region == IF k < wclaim.block1 THEN 1 ELSE 2
    IN  wat.region > region \/ (wat.region = region /\ ch < wat.ch)

WrittenInv ==
    wpc = "copy" =>
        /\ wat.ch \in 0 .. channels - 1
        /\ wat.region = 3 => wat.ch = 0
        /\ \A k \in 0 .. wsrc.len - 1, ch \in 0 .. channels - 1 :
               Copied(k, ch) => storage[Wrapped(ve + k)][ch]
                                    = Sample((tag + k) % Tags, ch, wsrc.width)

\* The number of frames the reader has fetched
Fetched == IF rat = 1 THEN 0 ELSE IF rat = 2 THEN rclaim.block1 ELSE rlen

ReadInv ==
    rpc = "copy" /\ rat > 1 =>
        dest = [k \in 1 .. Fetched |-> storage[Wrapped(vs + k - 1)]]

DataInv == FramesInv /\ WrittenInv /\ ReadInv

-----------------------------------------------------------------------------
(* Facts about sequences *)

LEMMA FunctionIsSeq ==
    ASSUME NEW S, NEW n \in Nat, NEW f \in [1 .. n -> S]
    PROVE  f \in Seq(S) /\ Len(f) = n
<1>1. f \in Seq(S)
  BY SeqDef
<1>2. Len(f) \in Nat /\ DOMAIN f = 1 .. Len(f)
  BY <1>1, LenProperties
<1>3. 1 .. n = 1 .. Len(f)
  BY <1>2
<1> QED
  BY <1>1, <1>2, <1>3

LEMMA ConcatIs ==
    ASSUME NEW S, NEW f \in Seq(S), NEW g \in Seq(S), NEW h \in Seq(S),
           Len(h) = Len(f) + Len(g),
           \A k \in 1 .. Len(f) : h[k] = f[k],
           \A k \in 1 .. Len(g) : h[Len(f) + k] = g[k]
    PROVE  h = f \o g
<1>1. /\ f \o g \in Seq(S) /\ Len(f \o g) = Len(h)
      /\ \A k \in 1 .. Len(h) :
             (f \o g)[k] = IF k <= Len(f) THEN f[k] ELSE g[k - Len(f)]
  BY ConcatProperties
<1>2. Len(f) \in Nat /\ Len(g) \in Nat
  BY LenProperties
<1>3. ASSUME NEW k \in 1 .. Len(h) PROVE h[k] = (f \o g)[k]
  <2>1. CASE k <= Len(f)
    BY <1>1, <1>2, <2>1
  <2>2. CASE k > Len(f)
    <3>1. k - Len(f) \in 1 .. Len(g) /\ Len(f) + (k - Len(f)) = k
      BY <1>2, <2>2
    <3> QED
      BY <1>1, <2>2, <3>1
  <2> QED
    BY <1>2, <2>1, <2>2
<1> QED
  BY <1>1, <1>3, SeqEqual

LEMMA SubSeqIs ==
    ASSUME NEW S, NEW f \in Seq(S), NEW g \in Seq(S), NEW a \in Nat, NEW b \in 0 .. Len(f),
           a <= b, Len(g) = b - a,
           \A k \in 1 .. b - a : g[k] = f[a + k]
    PROVE  SubSeq(f, a + 1, b) = g
<1>1. \A i \in a + 1 .. b : f[i] \in S
  BY ElementOfSeq, LenProperties
<1>2. /\ SubSeq(f, a + 1, b) \in Seq(S)
      /\ Len(SubSeq(f, a + 1, b)) = b - a
      /\ \A i \in 1 .. b - a : SubSeq(f, a + 1, b)[i] = f[a + i]
  BY <1>1, SubSeqProperties
<1> QED
  BY <1>2, SeqEqual

-----------------------------------------------------------------------------
(* Facts about the slots *)

LEMMA ReadyIsReady ==
    ASSUME TypeOK, NEW k \in 1 .. NumReady
    PROVE  Wrapped(vs + k - 1) \in ReadySlots /\ Wrapped(vs + k - 1) \in 0 .. size - 1
BY DEF TypeOK, NumReady, Wrapped, ReadySlots

\* Where a claim of n slots from ve puts frame k of the block
LEMMA ClaimSlots ==
    ASSUME TypeOK, NEW n \in 0 .. size - 1, NEW k \in 0 .. n - 1
    PROVE  LET c == Claim(ve, n)
           IN  /\ k < c.block1 => Wrapped(ve + k) = c.start + k
               /\ k >= c.block1 => Wrapped(ve + k) = k - c.block1
               /\ Wrapped(ve + k) \in 0 .. size - 1
BY DEF TypeOK, Claim, Wrapped

-----------------------------------------------------------------------------
(* DataInv is inductive, given ClaimInv *)

LEMMA InitDataInv == Init => DataInv
BY DEF Init, DataInv, FramesInv, WrittenInv, ReadInv

LEMMA ClaimedWhole ==
    ASSUME ClaimInv
    PROVE  /\ wpc = "copy" => /\ wsrc.len \in 0 .. size - 1
                              /\ wclaim = Claim(ve, wsrc.len)
                              /\ wclaim.block1 + wclaim.block2 = wsrc.len
           /\ rpc = "copy" => /\ rlen \in 0 .. size - 1
                              /\ rclaim = Claim(vs, rlen)
                              /\ rclaim.block1 + rclaim.block2 = rlen
BY ReadyBounds, ClaimLength DEF ClaimInv, TypeOK, WriterInv, ReaderInv

LEMMA WriteCopyFrames ==
    ASSUME ClaimInv, FramesInv, WrittenInv, WriteCopy, NEW i \in 0 .. size - 1
    PROVE  /\ storage'[i] = [ch \in 0 .. channels - 1 |-> storage'[i][ch]]
           /\ \A ch \in 0 .. channels - 1 :
                  storage'[i][ch] =
                      IF i \in RegionSlots /\ ch = wat.ch
                      THEN Sample((tag + SourceStart + i - RegionStart) % Tags, ch, wsrc.width)
                      ELSE storage[i][ch]
<1>1. channels > 0 /\ i \in DOMAIN storage
  BY DEF ClaimInv, StorageInv, WriteCopy, TypeOK
<1>2. storage[i] = [ch \in 0 .. channels - 1 |-> storage[i][ch]]
  BY <1>1 DEF FramesInv
<1>3. storage'[i] =
        IF i \in RegionSlots
        THEN [storage[i] EXCEPT ![wat.ch] =
                 Sample((tag + SourceStart + i - RegionStart) % Tags, wat.ch, wsrc.width)]
        ELSE storage[i]
  BY <1>1, Zenon DEF WriteCopy
<1> DEFINE s == Sample((tag + SourceStart + i - RegionStart) % Tags, wat.ch, wsrc.width)
<1> HIDE DEF s
<1>4. CASE i \in RegionSlots
  <2>1. storage'[i] = [storage[i] EXCEPT ![wat.ch] = s]
    BY <1>3, <1>4 DEF s
  <2> QED
    BY <1>2, <1>4, <2>1 DEF s
<1>5. CASE i \notin RegionSlots
  <2>1. storage'[i] = storage[i]
    BY <1>3, <1>5
  <2> QED
    BY <1>2, <1>5, <2>1
<1> QED
  BY <1>4, <1>5

LEMMA NextFramesInv ==
    ASSUME ClaimInv, FramesInv, WrittenInv, [Next]_vars
    PROVE  FramesInv'
<1> USE DEF FramesInv
<1>1. ASSUME NEW sh \in Shapes, Prepare(sh) PROVE FramesInv'
  BY <1>1, ShapesAssumption DEF Prepare, writer, reader
<1>2. CASE Release
  BY <1>2 DEF Release, writer, reader
<1>3. CASE WriteCopy
  <2>1. \A i \in 0 .. size - 1 : storage'[i] = [ch \in 0 .. channels - 1 |-> storage'[i][ch]]
    BY <1>3, WriteCopyFrames
  <2>2. UNCHANGED <<channels, size, wpc, wsrc, rpc, rlen>>
    BY <1>3 DEF WriteCopy, shape, reader
  <2> QED
    BY <2>1, <2>2
<1>4. ASSUME NEW n \in 1 .. MaxBlock, NEW width \in SourceWidths,
             WriteFits(n, width)
      PROVE  FramesInv'
  BY <1>4 DEF WriteFits, shape, reader
<1>5. CASE WriteClaim \/ WriteCommit
  BY <1>5 DEF WriteClaim, WriteCommit, shape, reader
<1>6. CASE ReadNothing \/ ReadClaim \/ ReadCopy \/ ReadCommit
  BY <1>6 DEF ReadNothing, ReadClaim, ReadCopy, ReadCommit, shape, writer
<1>7. ASSUME NEW m \in 1 .. MaxRead, ReadFinds(m) PROVE FramesInv'
  <2>1. rlen' \in 1 .. MaxRead
    BY <1>7, ReadyBounds, BoundsAssumption DEF ReadFinds, ClaimInv, TypeOK
  <2> QED
    BY <1>7, <2>1 DEF ReadFinds, shape, writer
<1>8. CASE UNCHANGED vars
  BY <1>8 DEF vars, shape, writer, reader
<1>9. ASSUME NEW n \in 1 .. MaxBlock, WriteDiscard(n) PROVE FramesInv'
  BY <1>9 DEF WriteDiscard, shape, writer, reader
<1> QED
  <2> HIDE DEF FramesInv
  <2> QED
    BY <1>1, <1>2, <1>3, <1>4, <1>5, <1>6, <1>7, <1>8, <1>9 DEF Next

\* A copy of one channel of one region: the samples it adds are the source's,
\* those copied before stay.
LEMMA WriteCopyWrites ==
    ASSUME ClaimInv, FramesInv, WrittenInv, WriteCopy
    PROVE  WrittenInv'
<1>0. /\ wpc = "copy" /\ wpc' = "copy"
      /\ UNCHANGED <<channels, size, vs, ve, tag, wsrc, wclaim>>
      /\ wat.region \in {1, 2} /\ wat.ch \in 0 .. channels - 1
      /\ channels \in Nat /\ channels > 0
  BY DEF WriteCopy, shape, ClaimInv, TypeOK, WrittenInv
<1>1. wat'.ch \in 0 .. channels - 1 /\ (wat'.region = 3 => wat'.ch = 0)
  BY <1>0 DEF WriteCopy, ClaimInv, TypeOK
<1>2. ASSUME NEW k \in 0 .. wsrc.len - 1, NEW ch \in 0 .. channels - 1, Copied(k, ch)'
      PROVE  storage'[Wrapped(ve + k)][ch] = Sample((tag + k) % Tags, ch, wsrc.width)
  <2> DEFINE i == Wrapped(ve + k)
  <2>1. /\ k < wclaim.block1 => i = wclaim.start + k
        /\ k >= wclaim.block1 => i = k - wclaim.block1
        /\ i \in 0 .. size - 1
    BY <1>0, ClaimedWhole, ClaimSlots DEF ClaimInv
  <2>2. storage'[i][ch] =
            IF i \in RegionSlots /\ ch = wat.ch
            THEN Sample((tag + SourceStart + i - RegionStart) % Tags, ch, wsrc.width)
            ELSE storage[i][ch]
    BY <1>0, <2>1, WriteCopyFrames
  <2>3. /\ wclaim.block1 \in Nat /\ wclaim.block2 \in Nat /\ wclaim.start \in Nat
        /\ wclaim.block1 + wclaim.block2 = wsrc.len
    BY <1>0, ClaimedWhole DEF ClaimInv, TypeOK, Claims
  <2>4. wsrc.len \in Nat /\ tag \in Nat
    BY BoundsAssumption DEF ClaimInv, TypeOK
  <2>5. CASE Copied(k, ch)
    <3>1. storage[i][ch] = Sample((tag + k) % Tags, ch, wsrc.width)
      BY <1>0, <2>5 DEF WrittenInv
    <3>2. CASE wat.region = 1
      <4>1. k < wclaim.block1 /\ ch < wat.ch
        BY <3>2, <2>5, <2>4 DEF Copied
      <4> QED
        BY <2>2, <3>1, <4>1
    <3>3. CASE wat.region = 2
      <4>1. CASE k < wclaim.block1
        <5>1. i \notin RegionSlots
          BY <3>3, <4>1, <2>1, <2>3, <1>0, ClaimedWhole
             DEF RegionSlots, Region2, Claim, ClaimInv, TypeOK
        <5> QED
          BY <2>2, <3>1, <5>1
      <4>2. CASE k >= wclaim.block1
        <5>1. ch < wat.ch
          BY <3>3, <4>2, <2>3, <2>4, <2>5 DEF Copied
        <5> QED
          BY <2>2, <3>1, <5>1
      <4> QED
        BY <4>1, <4>2, <2>3
    <3> QED
      BY <1>0, <3>2, <3>3
  <2>6. CASE ~Copied(k, ch)
    <3>1. ch = wat.ch /\ wat.region = IF k < wclaim.block1 THEN 1 ELSE 2
      BY <1>0, <1>2, <2>6 DEF Copied, WriteCopy, ClaimInv, TypeOK
    <3>2. CASE k < wclaim.block1
      <4>1. i \in RegionSlots /\ tag + SourceStart + i - RegionStart = tag + k
        BY <2>1, <2>3, <2>4, <3>1, <3>2
           DEF RegionSlots, Region1, SourceStart, RegionStart
      <4> QED
        BY <2>2, <3>1, <4>1
    <3>3. CASE k >= wclaim.block1
      <4>1. i \in RegionSlots /\ tag + SourceStart + i - RegionStart = tag + k
        <5>1. wat.region = 2 /\ i = k - wclaim.block1 /\ k \in Nat /\ k < wsrc.len
          BY <2>1, <2>3, <2>4, <3>1, <3>3
        <5>2. RegionSlots = 0 .. wclaim.block2 - 1 /\ SourceStart = wclaim.block1 /\ RegionStart = 0
          BY <5>1 DEF RegionSlots, Region2, SourceStart, RegionStart
        <5> HIDE DEF i
        <5>3. i \in 0 .. wclaim.block2 - 1
          BY <5>1, <3>3, <2>3
        <5>4. tag + SourceStart + i - RegionStart
                  = tag + wclaim.block1 + (k - wclaim.block1) - 0
          BY <5>1, <5>2, Zenon
        <5>5. tag + wclaim.block1 + (k - wclaim.block1) - 0 = tag + k
          BY <2>3, <2>4
        <5> QED
          BY <5>2, <5>3, <5>4, <5>5, Zenon
      <4> QED
        BY <2>2, <3>1, <4>1
    <3> QED
      BY <3>2, <3>3, <2>3
  <2> QED
    BY <2>5, <2>6
<1> QED
  BY <1>0, <1>1, <1>2 DEF WrittenInv, Wrapped, Copied

LEMMA NextWrittenInv ==
    ASSUME ClaimInv, FramesInv, WrittenInv, [Next]_vars
    PROVE  WrittenInv'
<1>1. CASE WriteCopy
  BY <1>1, WriteCopyWrites
<1>2. CASE WriteClaim
  <2>1. /\ wat'.ch = 0 /\ wat'.region = 1 /\ channels' = channels
        /\ channels \in Nat /\ channels > 0
    BY <1>2 DEF WriteClaim, shape, ClaimInv, TypeOK, StorageInv
  <2>2. \A k, ch \in Nat : ~Copied(k, ch)'
    BY <2>1 DEF Copied
  <2> QED
    BY <2>1, <2>2 DEF WrittenInv
<1>3. CASE wpc' # "copy"
  BY <1>3 DEF WrittenInv
<1>4. CASE UNCHANGED <<channels, size, storage, ve, tag, wpc, wsrc, wclaim, wat>>
  BY <1>4 DEF WrittenInv, Wrapped, Copied
<1>5. \/ WriteCopy \/ WriteClaim \/ wpc' # "copy"
      \/ UNCHANGED <<channels, size, storage, ve, tag, wpc, wsrc, wclaim, wat>>
  BY DEF Next, vars, shape, writer, Prepare, Release, WriteDiscard, WriteFits, WriteCommit,
         ReadNothing, ReadFinds, ReadClaim, ReadCopy, ReadCommit
<1> QED
  BY <1>1, <1>2, <1>3, <1>4, <1>5

\* A read's claim of r slots from vs: where its frame k is
LEMMA ReadClaimSlots ==
    ASSUME TypeOK, NEW n \in 0 .. size - 1, NEW k \in 1 .. n
    PROVE  LET c == Claim(vs, n)
           IN  /\ k <= c.block1 => Wrapped(vs + k - 1) = c.start + k - 1
               /\ k > c.block1 => Wrapped(vs + k - 1) = k - c.block1 - 1
BY DEF TypeOK, Claim, Wrapped

LEMMA ReadCopyFetches ==
    ASSUME ClaimInv, ReadInv, ReadCopy
    PROVE  ReadInv'
<1>0. /\ rpc = "copy" /\ UNCHANGED <<size, storage, vs, rlen, rclaim>>
      /\ rat \in {1, 2} /\ rat' = rat + 1
      /\ rclaim = Claim(vs, rlen) /\ rlen \in 0 .. size - 1
      /\ rclaim.block1 + rclaim.block2 = rlen
      /\ rclaim.block1 \in Nat /\ rclaim.block2 \in Nat
  BY ClaimedWhole DEF ReadCopy, shape, ClaimInv, TypeOK, Claims
<1> DEFINE frame(k) == storage[Wrapped(vs + k - 1)]
<1>1. CASE rat = 1
  <2>1. dest' = [k \in 1 .. rclaim.block1 |-> storage[rclaim.start + k - 1]]
    BY <1>1 DEF ReadCopy
  <2>2. \A k \in 1 .. rclaim.block1 : Wrapped(vs + k - 1) = rclaim.start + k - 1
    BY <1>0, ReadClaimSlots DEF ClaimInv
  <2>3. dest' = [k \in 1 .. rclaim.block1 |-> frame(k)]
    BY <2>1, <2>2
  <2>4. rat' = 2
    BY <1>0, <1>1
  <2> QED
    BY <1>0, <2>3, <2>4 DEF ReadInv, Fetched, Wrapped
<1>2. CASE rat = 2
  <2> DEFINE S == {storage[i] : i \in 0 .. size - 1}
             second == [k \in 1 .. rclaim.block2 |-> storage[k - 1]]
             whole == [k \in 1 .. rlen |-> frame(k)]
  <2>1. dest' = dest \o second /\ dest = [k \in 1 .. rclaim.block1 |-> frame(k)]
    BY <1>0, <1>2 DEF ReadCopy, ReadInv, Fetched
  <2>2. \A k \in 1 .. rlen : Wrapped(vs + k - 1) \in 0 .. size - 1
    <3> TAKE k \in 1 .. rlen
    <3>1. k \in 1 .. NumReady
      BY <1>0, ReadyBounds DEF ClaimInv, ReaderInv
    <3> QED
      BY <3>1, ReadyIsReady DEF ClaimInv
  <2>3. \A k \in 1 .. rclaim.block2 : Wrapped(vs + (rclaim.block1 + k) - 1) = k - 1
    <3> TAKE k \in 1 .. rclaim.block2
    <3>1. rclaim.block1 + k \in 1 .. rlen /\ rclaim.block1 + k > rclaim.block1
      BY <1>0
    <3>2. (rclaim.block1 + k) - rclaim.block1 - 1 = k - 1
      BY <1>0
    <3> QED
      BY <1>0, <3>1, <3>2, ReadClaimSlots DEF ClaimInv
  <2>4. /\ dest \in [1 .. rclaim.block1 -> S]
        /\ whole \in [1 .. rlen -> S]
    BY <1>0, <2>1, <2>2
  <2>5. second \in [1 .. rclaim.block2 -> S]
    <3>1. \A k \in 1 .. rclaim.block2 : k - 1 \in 0 .. size - 1
      <4> TAKE k \in 1 .. rclaim.block2
      <4>1. rclaim.block1 + k \in 1 .. rlen
        BY <1>0
      <4> QED
        BY <4>1, <2>2, <2>3
    <3> QED
      BY <3>1
  <2>6. \A k \in 1 .. rclaim.block1 : whole[k] = dest[k]
    BY <1>0, <2>1
  <2>7. \A k \in 1 .. rclaim.block2 : whole[rclaim.block1 + k] = second[k]
    BY <1>0, <2>3
  <2>8. dest' = whole
    <3> HIDE DEF S, second, whole
    <3>1. /\ dest \in Seq(S) /\ Len(dest) = rclaim.block1
          /\ second \in Seq(S) /\ Len(second) = rclaim.block2
          /\ whole \in Seq(S) /\ Len(whole) = rlen
      <4>1. dest \in Seq(S) /\ Len(dest) = rclaim.block1
        BY <1>0, <2>4, FunctionIsSeq
      <4>2. second \in Seq(S) /\ Len(second) = rclaim.block2
        BY <1>0, <2>5, FunctionIsSeq
      <4>3. rlen \in Nat
        BY <1>0
      <4>4. whole \in Seq(S) /\ Len(whole) = rlen
        BY <4>3, <2>4, FunctionIsSeq
      <4> QED
        BY <4>1, <4>2, <4>4
    <3>2. Len(whole) = Len(dest) + Len(second)
      BY <1>0, <3>1
    <3>3. \A k \in 1 .. Len(dest) : whole[k] = dest[k]
      BY <2>6, <3>1
    <3>4. \A k \in 1 .. Len(second) : whole[Len(dest) + k] = second[k]
      BY <2>7, <3>1
    <3>5. whole = dest \o second
      BY <3>1, <3>2, <3>3, <3>4, ConcatIs
    <3> QED
      BY <2>1, <3>5
  <2>9. rat' = 3
    BY <1>0, <1>2
  <2> QED
    BY <1>0, <2>8, <2>9 DEF ReadInv, Fetched, Wrapped
<1> QED
  BY <1>0, <1>1, <1>2

LEMMA NextReadInv ==
    ASSUME ClaimInv, ReadInv, [Next]_vars
    PROVE  ReadInv'
<1>1. CASE ReadCopy
  BY <1>1, ReadCopyFetches
<1>2. CASE WriteCopy
  <2>1. UNCHANGED <<size, vs, rpc, rlen, rclaim, rat, dest>>
    BY <1>2 DEF WriteCopy, shape, reader
  <2>2. ASSUME rpc = "copy", rat > 1 PROVE Fetched \in Nat /\ Fetched <= NumReady
    BY <2>2, ClaimedWhole, ReadyBounds DEF Fetched, ClaimInv, ReaderInv, TypeOK, Claims
  <2>3. ASSUME rpc = "copy", rat > 1, NEW k \in 1 .. Fetched
        PROVE  storage'[Wrapped(vs + k - 1)] = storage[Wrapped(vs + k - 1)]
    <3>1. k \in 1 .. NumReady
      BY <2>2, <2>3, ReadyBounds DEF ClaimInv
    <3> QED
      BY <1>2, <3>1, ReadyIsReady, WriteCopyKeepsReady DEF ClaimInv
  <2> QED
    BY <2>1, <2>3 DEF ReadInv, Fetched, Wrapped
<1>3. CASE rpc' # "copy" \/ rat' = 1
  BY <1>3 DEF ReadInv
<1>4. CASE UNCHANGED <<size, storage, vs, rpc, rlen, rclaim, rat, dest>>
  BY <1>4 DEF ReadInv, Fetched, Wrapped
<1>5. \/ ReadCopy \/ WriteCopy \/ rpc' # "copy" \/ rat' = 1
      \/ UNCHANGED <<size, storage, vs, rpc, rlen, rclaim, rat, dest>>
  BY DEF Next, vars, shape, reader, Prepare, Release, WriteDiscard, WriteFits, WriteClaim,
         WriteCommit, ReadNothing, ReadFinds, ReadClaim, ReadCommit
<1> QED
  BY <1>1, <1>2, <1>3, <1>4, <1>5

\* What the two threads have copied is the source's, and the ring's.
THEOREM CopiesAreFaithful == Spec => [](ClaimInv /\ DataInv)
<1>1. Init => DataInv
  BY InitDataInv
<1>2. ClaimInv /\ DataInv /\ [Next]_vars => DataInv'
  BY NextFramesInv, NextWrittenInv, NextReadInv DEF DataInv
<1> QED
  BY <1>1, <1>2, ClaimsFollowIndices, PTL DEF Spec

-----------------------------------------------------------------------------
(* The FIFO seen through Contents *)

\* The frames a ring of this storage may hold
RingFrames == {storage[i] : i \in 0 .. size - 1}

LEMMA ContentsIsSeq ==
    TypeOK => Contents \in Seq(RingFrames) /\ Len(Contents) = NumReady
<1> SUFFICES ASSUME TypeOK
             PROVE  Contents \in Seq(RingFrames) /\ Len(Contents) = NumReady
  OBVIOUS
<1>1. NumReady \in Nat
  BY ReadyBounds
<1>2. \A k \in 1 .. NumReady : Wrapped(vs + k - 1) \in 0 .. size - 1
  BY ReadyIsReady
<1>3. Contents \in [1 .. NumReady -> RingFrames]
  BY <1>2 DEF Contents, RingFrames
<1> QED
  BY <1>1, <1>3, FunctionIsSeq

LEMMA NothingReady == TypeOK /\ NumReady = 0 => Contents = <<>>
BY ContentsIsSeq, EmptySeq

\* Both, of the state that a step ends in
LEMMA ContentsAfter ==
    /\ (TypeOK => Contents \in Seq(RingFrames) /\ Len(Contents) = NumReady)'
    /\ (TypeOK /\ NumReady = 0 => Contents = <<>>)'
BY ContentsIsSeq, NothingReady, PTL

\* Whoever moves no index and touches no ready frame leaves the queue as it is.
LEMMA ContentsKept ==
    ASSUME TypeOK, UNCHANGED <<size, vs, ve>>, \A i \in ReadySlots : storage'[i] = storage[i]
    PROVE  Contents' = Contents
<1>1. NumReady' = NumReady
  BY DEF NumReady
<1>2. \A k \in 1 .. NumReady : storage'[Wrapped(vs + k - 1)] = storage[Wrapped(vs + k - 1)]
  BY ReadyIsReady
<1> QED
  BY <1>1, <1>2 DEF Contents, Wrapped

\* The frames behind the published end are the next places of the queue, and
\* taking r frames moves every place by r.
LEMMA NextPlaces ==
    ASSUME TypeOK, NEW k \in 1 .. FreeSpace
    PROVE  Wrapped(vs + (NumReady + k) - 1) = Wrapped(ve + (k - 1))
BY DEF TypeOK, NumReady, FreeSpace, Wrapped

LEMMA PlacesMove ==
    ASSUME TypeOK, NEW r \in 0 .. NumReady, NEW k \in 1 .. NumReady - r
    PROVE  Wrapped(Wrapped(vs + r) + k - 1) = Wrapped(vs + (r + k) - 1)
BY DEF TypeOK, NumReady, Wrapped

-----------------------------------------------------------------------------
(* Each step of AudioRing is a step of AudioFifo or leaves its state alone *)

LEMMA InitFifo == Init => Abstract!Init
<1> SUFFICES ASSUME Init PROVE Abstract!Init
  OBVIOUS
<1>1. TypeOK /\ NumReady = 0
  BY InitClaimInv DEF ClaimInv, Init, NumReady
<1> QED
  BY <1>1, NothingReady DEF Init, Abstract!Init

\* write's block, published, is a whole block of the source at the queue's end.
LEMMA CommitAccepts ==
    ASSUME ClaimInv, DataInv, WriteCommit
    PROVE  Abstract!Accept(wsrc.len, wsrc.width)
<1> DEFINE n == wsrc.len
           block == Abstract!SourceBlock(tag, n, channels, wsrc.width)
<1>0. /\ TypeOK /\ TypeOK' /\ wpc = "copy" /\ wat.region = 3
      /\ n \in 1 .. FreeSpace /\ NumReady \in Nat /\ channels > 0
      /\ UNCHANGED <<channels, size, storage, vs, got, overruns>>
  BY NextClaimInv, ReadyBounds
     DEF WriteCommit, Next, ClaimInv, DataInv, FramesInv, WriterInv, StorageInv, TypeOK,
         shape, reader
<1>1. NumReady' = NumReady + n
  <2>1. wclaim.block1 + wclaim.block2 = n /\ wclaim \in Claims
    BY <1>0, ClaimedWhole DEF TypeOK
  <2>2. ve + wclaim.block1 + wclaim.block2 = ve + n
    BY <1>0, <2>1 DEF TypeOK, Claims
  <2>3. ve' = Wrapped(ve + n)
    BY <2>2 DEF WriteCommit
  <2> QED
    BY <1>0, <2>3, CommitWriteGrows
<1>2. /\ Contents \in Seq(RingFrames) /\ Len(Contents) = NumReady
      /\ Contents' \in Seq(RingFrames) /\ Len(Contents') = NumReady + n
  <2>1. RingFrames' = RingFrames
    BY <1>0 DEF RingFrames
  <2> QED
    BY <1>0, <1>1, <2>1, ContentsIsSeq, ContentsAfter
<1>3. \A k \in 1 .. NumReady : Contents'[k] = Contents[k]
  BY <1>0, <1>1 DEF Contents, Wrapped
<1>4. ASSUME NEW k \in 1 .. n
      PROVE  /\ Contents'[NumReady + k] = block[k]
             /\ block[k] \in RingFrames
  <2> DEFINE i == Wrapped(ve + (k - 1))
  <2>1. k - 1 \in 0 .. n - 1 /\ i \in 0 .. size - 1
    BY <1>0, ClaimedWhole, ClaimSlots
  <2>2. Contents'[NumReady + k] = storage[i]
    <3>1. NumReady + k \in 1 .. NumReady'
      BY <1>0, <1>1
    <3>2. Wrapped(vs + (NumReady + k) - 1) = i
      <4>1. k \in 1 .. FreeSpace
        BY <1>0, ReadyBounds
      <4> QED
        BY <1>0, <4>1, NextPlaces
    <3> QED
      BY <1>0, <3>1, <3>2 DEF Contents, Wrapped
  <2>3. \A ch \in 0 .. channels - 1 :
            storage[i][ch] = Sample((tag + (k - 1)) % Tags, ch, wsrc.width)
    BY <1>0, <2>1 DEF DataInv, WrittenInv, Copied, TypeOK
  <2>4. storage[i] = [ch \in 0 .. channels - 1 |-> storage[i][ch]]
    BY <1>0, <2>1 DEF DataInv, FramesInv
  <2>5. tag + k - 1 = tag + (k - 1)
    BY <1>0, BoundsAssumption DEF TypeOK
  <2>6. block[k] = [ch \in 0 .. channels - 1 |->
                        Sample((tag + (k - 1)) % Tags, ch, wsrc.width)]
    BY <2>5 DEF Abstract!SourceBlock, Abstract!SourceFrame, Abstract!SourceSample, Sample
  <2>7. storage[i] = block[k]
    BY <2>3, <2>4, <2>6
  <2> QED
    BY <2>1, <2>2, <2>7 DEF RingFrames
<1>5. block \in Seq(RingFrames) /\ Len(block) = n
  <2>1. block \in [1 .. n -> RingFrames]
    BY <1>4 DEF Abstract!SourceBlock
  <2>2. n \in Nat
    BY <1>0
  <2> HIDE DEF block, n
  <2> QED
    BY <2>1, <2>2, FunctionIsSeq
<1>6. Contents' = Contents \o block
  <2> HIDE DEF block, n
  <2>1. Len(Contents') = Len(Contents) + Len(block)
    BY <1>2, <1>5
  <2>2. \A k \in 1 .. Len(Contents) : Contents'[k] = Contents[k]
    BY <1>2, <1>3
  <2>3. \A k \in 1 .. Len(block) : Contents'[Len(Contents) + k] = block[k]
    BY <1>2, <1>4, <1>5
  <2> QED
    BY <1>2, <1>5, <2>1, <2>2, <2>3, ConcatIs
<1>7. Len(Contents) + n <= size - 1
  BY <1>0, <1>2 DEF FreeSpace, TypeOK
<1> QED
  BY <1>0, <1>6, <1>7 DEF Abstract!Accept, WriteCommit

\* read's frames, given back, are the queue's first.
LEMMA CommitTakes ==
    ASSUME ClaimInv, DataInv, ReadCommit
    PROVE  rlen \in 1 .. MaxRead /\ Abstract!Take(rlen)
<1>0. /\ TypeOK /\ TypeOK' /\ rpc = "copy" /\ rat = 3
      /\ rlen \in 1 .. MaxRead /\ rlen \in 1 .. NumReady /\ NumReady \in Nat
      /\ UNCHANGED <<channels, size, storage, ve, overruns, tag>> /\ got' = dest
  BY NextClaimInv, ReadyBounds
     DEF ReadCommit, Next, ClaimInv, DataInv, FramesInv, ReaderInv, TypeOK, shape, writer
<1>1. vs' = Wrapped(vs + rlen)
  <2>1. rclaim.block1 + rclaim.block2 = rlen /\ rclaim \in Claims
    BY <1>0, ClaimedWhole DEF TypeOK
  <2>2. vs + rclaim.block1 + rclaim.block2 = vs + rlen
    BY <1>0, <2>1 DEF TypeOK, Claims
  <2> QED
    BY <2>2 DEF ReadCommit
<1>2. NumReady' = NumReady - rlen
  BY <1>0, <1>1, CommitReadShrinks
<1>3. /\ Contents \in Seq(RingFrames) /\ Len(Contents) = NumReady
      /\ Contents' \in Seq(RingFrames) /\ Len(Contents') = NumReady - rlen
  <2>1. RingFrames' = RingFrames
    BY <1>0 DEF RingFrames
  <2> QED
    BY <1>0, <1>2, <2>1, ContentsIsSeq, ContentsAfter
<1>4. dest \in Seq(RingFrames) /\ Len(dest) = rlen
  <2>1. dest = [k \in 1 .. rlen |-> storage[Wrapped(vs + k - 1)]]
    BY <1>0 DEF DataInv, ReadInv, Fetched
  <2>2. \A k \in 1 .. rlen : Wrapped(vs + k - 1) \in 0 .. size - 1
    BY <1>0, ReadyIsReady
  <2>3. dest \in [1 .. rlen -> RingFrames] /\ rlen \in Nat
    BY <1>0, <2>1, <2>2 DEF RingFrames
  <2> QED
    BY <2>3, FunctionIsSeq
<1>5. dest = SubSeq(Contents, 1, rlen)
  <2>1. \A k \in 1 .. rlen - 0 : dest[k] = Contents[0 + k]
    BY <1>0 DEF DataInv, ReadInv, Fetched, Contents
  <2>2. 0 \in Nat /\ rlen \in 0 .. Len(Contents) /\ 0 <= rlen /\ Len(dest) = rlen - 0
    BY <1>0, <1>3, <1>4
  <2>3. SubSeq(Contents, 0 + 1, rlen) = dest
    BY <1>3, <1>4, <2>1, <2>2, SubSeqIs
  <2> QED
    BY <2>3
<1>6. Contents' = SubSeq(Contents, rlen + 1, Len(Contents))
  <2>1. ASSUME NEW k \in 1 .. NumReady - rlen
        PROVE  Contents'[k] = Contents[rlen + k]
    <3>1. Wrapped(Wrapped(vs + rlen) + k - 1) = Wrapped(vs + (rlen + k) - 1)
      BY <1>0, PlacesMove
    <3>2. Contents'[k] = storage[Wrapped(Wrapped(vs + rlen) + k - 1)]
      BY <1>0, <1>1, <1>2 DEF Contents, Wrapped
    <3>3. Contents[rlen + k] = storage[Wrapped(vs + (rlen + k) - 1)]
      BY <1>0 DEF Contents
    <3> QED
      BY <3>1, <3>2, <3>3
  <2>2. /\ rlen \in Nat /\ Len(Contents) \in 0 .. Len(Contents) /\ rlen <= Len(Contents)
        /\ Len(Contents') = Len(Contents) - rlen
        /\ \A k \in 1 .. Len(Contents) - rlen : Contents'[k] = Contents[rlen + k]
    BY <1>0, <1>3, <2>1
  <2> QED
    BY <1>3, <2>2, SubSeqIs
<1>7. rlen <= Len(Contents)
  BY <1>0, <1>3
<1> QED
  BY <1>0, <1>5, <1>6, <1>7 DEF Abstract!Take

LEMMA NextFifo == ClaimInv /\ DataInv /\ [Next]_vars => [Abstract!Next]_Abstract!vars
<1> SUFFICES ASSUME ClaimInv, DataInv, [Next]_vars
             PROVE  [Abstract!Next]_Abstract!vars
  OBVIOUS
<1> USE DEF Abstract!vars
<1>0. TypeOK /\ TypeOK' /\ Len(Contents) = NumReady /\ NumReady \in Nat
  BY NextClaimInv, ContentsIsSeq, ReadyBounds DEF ClaimInv
<1>1. ASSUME NEW sh \in Shapes, Prepare(sh) PROVE Abstract!Prepare(sh)
  <2>1. NumReady' = 0
    BY <1>1 DEF Prepare, NumReady
  <2> QED
    BY <1>0, <1>1, <2>1, ContentsAfter DEF Prepare, reader, Abstract!Prepare
<1>2. CASE Release
  <2>1. NumReady' = 0
    BY <1>2 DEF Release, NumReady
  <2>2. Abstract!Release
    BY <1>0, <1>2, <2>1, ContentsAfter DEF Release, reader, Abstract!Release
  <2> QED
    BY <2>2 DEF Abstract!Next
<1>3. ASSUME NEW n \in 1 .. MaxBlock, WriteDiscard(n) PROVE Abstract!Discard(n)
  <2>1. Contents' = Contents
    BY <1>0, <1>3, ContentsKept DEF WriteDiscard, shape
  <2>2. channels = 0 \/ Len(Contents) + n > size - 1
    BY <1>0, <1>3 DEF WriteDiscard, FreeSpace, TypeOK
  <2> QED
    BY <1>3, <2>1, <2>2 DEF WriteDiscard, shape, reader, Abstract!Discard
<1>4. CASE WriteCommit
  <2>1. wsrc.len \in 1 .. MaxBlock /\ wsrc.width \in SourceWidths
    BY <1>4 DEF WriteCommit, DataInv, FramesInv
  <2> QED
    BY <1>4, <2>1, CommitAccepts DEF Abstract!Next
<1>5. CASE ReadCommit
  BY <1>5, CommitTakes DEF Abstract!Next
<1>6. CASE ReadNothing
  <2>1. NumReady = 0
    BY <1>0, <1>6 DEF ReadNothing, DataInv, FramesInv, TypeOK, NumReady
  <2>2. Contents' = Contents
    BY <1>0, <1>6, ContentsKept DEF ReadNothing, shape
  <2>3. Abstract!TakeNothing
    BY <1>0, <1>6, <2>1, <2>2, NothingReady DEF ReadNothing, shape, Abstract!TakeNothing
  <2> QED
    BY <2>3 DEF Abstract!Next
<1>7. CASE WriteCopy
  <2>1. Contents' = Contents
    BY <1>0, <1>7, ContentsKept, WriteCopyKeepsReady DEF WriteCopy, shape
  <2> QED
    BY <1>7, <2>1 DEF WriteCopy, shape, reader
<1>8. CASE UNCHANGED <<shape, storage, vs, ve, got, overruns, tag>>
  <2>1. Contents' = Contents
    BY <1>0, <1>8, ContentsKept DEF shape
  <2> QED
    BY <1>8, <2>1 DEF shape
<1>9. \/ \E sh \in Shapes : Prepare(sh)
      \/ Release
      \/ \E n \in 1 .. MaxBlock : WriteDiscard(n)
      \/ WriteCommit \/ ReadCommit \/ ReadNothing \/ WriteCopy
      \/ UNCHANGED <<shape, storage, vs, ve, got, overruns, tag>>
  <2>1. CASE \E n \in 1 .. MaxBlock, width \in SourceWidths : WriteFits(n, width)
    BY <2>1 DEF WriteFits, reader
  <2>2. CASE WriteClaim
    BY <2>2 DEF WriteClaim, reader
  <2>3. CASE \E maxFrames \in 1 .. MaxRead : ReadFinds(maxFrames)
    BY <2>3 DEF ReadFinds
  <2>4. CASE ReadClaim \/ ReadCopy
    BY <2>4 DEF ReadClaim, ReadCopy
  <2>5. CASE UNCHANGED vars
    BY <2>5 DEF vars, shape, writer, reader
  <2> QED
    BY <2>1, <2>2, <2>3, <2>4, <2>5, Zenon DEF Next
<1>10. CASE \E sh \in Shapes : Prepare(sh)
  BY <1>1, <1>10 DEF Abstract!Next
<1>11. CASE \E n \in 1 .. MaxBlock : WriteDiscard(n)
  BY <1>3, <1>11 DEF Abstract!Next
<1> QED
  BY <1>2, <1>4, <1>5, <1>6, <1>7, <1>8, <1>9, <1>10, <1>11

\* AudioRing implements AudioFifo: whole frames come out once, in the order in
\* which they went in, from a ring of any size that two threads share without
\* a lock.
THEOREM OutComesWhatWentIn == Spec => ImplementsFifo
BY InitFifo, CopiesAreFaithful, NextFifo, PTL DEF Spec, ImplementsFifo, Abstract!Spec

=============================================================================
