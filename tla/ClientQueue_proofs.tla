------------------------- MODULE ClientQueue_proofs -------------------------
(***************************************************************************)
(* What is proved of one connection's outgoing queue, for every size of    *)
(* the frames, every limit and every bound on their number.                *)
(*                                                                         *)
(* Erased is a recursive function, so what enqueue leaves is proved by     *)
(* induction on the number of erasures, carried out on sets of numbers     *)
(* (FromZeroOn): as long as there was audio, each erasure cuts the oldest  *)
(* audio frame (Cut).  Bytes counts places, so a frame in or out changes   *)
(* it by the frame's size (BytesAppend, BytesWithout).  The invariant then *)
(* relates what is ahead of the queue, the queue and the counters.         *)
(***************************************************************************)
EXTENDS ClientQueue, SequenceTheorems, FiniteSetTheorems, WellFoundedInduction, TLAPS

-----------------------------------------------------------------------------
(* Natural numbers, by sets                                                  *)

\* A set of numbers has a least one.
LEMMA LeastNumber ==
    ASSUME NEW S, S \subseteq Nat, S # {}
    PROVE  Least(S) \in S /\ \A y \in S : Least(S) <= y
<1> DEFINE R == OpToRel(<, Nat)
<1>1. IsWellFoundedOn(R, Nat)
  BY NatLessThanWellFounded DEF OpToRel
<1> HIDE DEF R
<1>2. PICK x \in S : \A y \in S : ~ (<<y, x>> \in R)
  BY <1>1, WFMin, Zenon
<1>3. \A y \in S : <<y, x>> \in Nat \X Nat
  OBVIOUS
<1>4. \A y \in S : ~ (y < x)
  BY <1>2, <1>3 DEF R, OpToRel
<1>5. \A y \in S : x <= y
  BY <1>4
<1> QED
  BY <1>5, Zenon DEF Least

\* A set of numbers that has zero and with each number the next has them all.
LEMMA FromZeroOn ==
    ASSUME NEW S, 0 \in S, \A n \in Nat : n \in S => n + 1 \in S
    PROVE  Nat \subseteq S
<1> DEFINE T == Nat \ S
<1>1. SUFFICES ASSUME T # {} PROVE FALSE
  OBVIOUS
<1>2. T \subseteq Nat
  OBVIOUS
<1> DEFINE m == Least(T)
<1>3. m \in T /\ \A y \in T : m <= y
  BY <1>1, <1>2, LeastNumber
<1> HIDE DEF m
<1>4. m \in Nat /\ m # 0 /\ m \notin S
  BY <1>3
<1>5. m - 1 \in Nat /\ m - 1 + 1 = m /\ ~(m <= m - 1)
  BY <1>4
<1>6. m - 1 \in S
  BY <1>3, <1>5
<1> QED
  BY <1>4, <1>5, <1>6

-----------------------------------------------------------------------------
(* The recursion of Erased                                                   *)

EraseOnce(q) == Seqs!RemoveFirstMatch(q, IsDroppable)

\* g is how q goes from erasure to erasure.
Goes(g, q, k) == g = [i \in 0 .. k |-> IF i = 0 THEN q ELSE EraseOnce(g[i - 1])]

\* The recursion of Erased defines a function, however far it goes.
LEMMA GoesExists ==
    ASSUME NEW q, NEW k \in Nat
    PROVE  \E g : Goes(g, q, k)
<1> DEFINE S == {n \in Nat : \E g : Goes(g, q, n)}
<1>1. 0 \in S
  <2> DEFINE g == [i \in 0 .. 0 |-> q]
  <2>1. g = [i \in 0 .. 0 |-> IF i = 0 THEN q ELSE EraseOnce(g[i - 1])]
    OBVIOUS
  <2>2. Goes(g, q, 0)
    BY <2>1, Zenon DEF Goes
  <2> QED
    BY <2>2
<1>2. ASSUME NEW n \in Nat, n \in S
      PROVE  n + 1 \in S
  <2>1. PICK g : Goes(g, q, n)
    BY <1>2
  <2> DEFINE h == [i \in 0 .. n + 1 |-> IF i = n + 1 THEN EraseOnce(g[n]) ELSE g[i]]
  <2>2. g = [i \in 0 .. n |-> IF i = 0 THEN q ELSE EraseOnce(g[i - 1])]
    BY <2>1, Zenon DEF Goes
  <2>3. \A i \in 0 .. n + 1 : h[i] = IF i = 0 THEN q ELSE EraseOnce(h[i - 1])
    <3>1. ASSUME NEW i \in 0 .. n + 1
          PROVE  h[i] = IF i = 0 THEN q ELSE EraseOnce(h[i - 1])
      <4>1. CASE i = n + 1
        <5>1. h[i] = EraseOnce(g[n]) /\ h[i - 1] = g[n] /\ i # 0
          BY <4>1
        <5> QED
          BY <5>1
      <4>2. CASE i \in 1 .. n
        <5>1. h[i] = g[i] /\ h[i - 1] = g[i - 1] /\ i # 0 /\ i \in 0 .. n
          BY <4>2
        <5> HIDE DEF h
        <5>2. g[i] = EraseOnce(g[i - 1])
          BY <2>2, <5>1
        <5> QED
          BY <5>1, <5>2
      <4>3. CASE i = 0
        <5>1. h[0] = g[0] /\ 0 \in 0 .. n
          OBVIOUS
        <5> QED
          BY <2>2, <4>3, <5>1
      <4> QED
        BY <4>1, <4>2, <4>3
    <3> QED
      BY <3>1
  <2>4. h = [i \in 0 .. n + 1 |-> h[i]]
    OBVIOUS
  <2> HIDE DEF h
  <2>5. h = [i \in 0 .. n + 1 |-> IF i = 0 THEN q ELSE EraseOnce(h[i - 1])]
    BY <2>3, <2>4
  <2>6. Goes(h, q, n + 1)
    BY <2>5, Zenon DEF Goes
  <2> QED
    BY <2>6
<1> HIDE DEF S
<1>3. Nat \subseteq S
  BY <1>1, <1>2, FromZeroOn
<1> QED
  BY <1>3 DEF S

\* Erased is the last value of such a function.
LEMMA ErasedGoes ==
    ASSUME NEW q, NEW k \in Nat
    PROVE  \E g : Goes(g, q, k) /\ Erased(q, k) = g[k]
<1> DEFINE g == CHOOSE f : f = [i \in 0 .. k |-> IF i = 0 THEN q ELSE Seqs!RemoveFirstMatch(f[i - 1], IsDroppable)]
<1>1. g = CHOOSE f : Goes(f, q, k)
  BY Zenon DEF Goes, EraseOnce
<1>2. Erased(q, k) = g[k]
  BY Zenon DEF Erased
<1> HIDE DEF g
<1>3. Goes(g, q, k)
  BY <1>1, GoesExists, Zenon
<1> QED
  BY <1>2, <1>3
\* What g and h say of the same place is the same, however far they go.
LEMMA GoesAgree ==
    ASSUME NEW q, NEW k \in Nat, NEW l \in Nat, NEW g, NEW h, Goes(g, q, k), Goes(h, q, l)
    PROVE  \A i \in Nat : i <= k /\ i <= l => g[i] = h[i]
<1> DEFINE S == {n \in Nat : n <= k /\ n <= l => g[n] = h[n]}
<1>0. /\ g = [i \in 0 .. k |-> IF i = 0 THEN q ELSE EraseOnce(g[i - 1])]
      /\ h = [i \in 0 .. l |-> IF i = 0 THEN q ELSE EraseOnce(h[i - 1])]
  BY Zenon DEF Goes
<1>1. 0 \in S
  BY <1>0
<1>2. ASSUME NEW n \in Nat, n \in S
      PROVE  n + 1 \in S
  <2>1. SUFFICES ASSUME n + 1 <= k, n + 1 <= l
                 PROVE  g[n + 1] = h[n + 1]
    OBVIOUS
  <2>2. n + 1 \in 0 .. k /\ n + 1 \in 0 .. l /\ n + 1 # 0 /\ n + 1 - 1 = n
    BY <2>1
  <2>3. g[n] = h[n]
    BY <1>2, <2>1
  <2>4. g[n + 1] = EraseOnce(g[n])
    BY <1>0, <2>2
  <2>5. h[n + 1] = EraseOnce(h[n])
    BY <1>0, <2>2
  <2> QED
    BY <2>3, <2>4, <2>5
<1> HIDE DEF S
<1>3. Nat \subseteq S
  BY <1>1, <1>2, FromZeroOn
<1> QED
  BY <1>3 DEF S

\* Erased, one erasure at a time.
LEMMA ErasedStep ==
    ASSUME NEW q, NEW k \in Nat
    PROVE  Erased(q, 0) = q /\ Erased(q, k + 1) = EraseOnce(Erased(q, k))
<1>1. Erased(q, 0) = q
  <2>1. PICK g : Goes(g, q, 0) /\ Erased(q, 0) = g[0]
    BY ErasedGoes
  <2>2. g = [i \in 0 .. 0 |-> IF i = 0 THEN q ELSE EraseOnce(g[i - 1])]
    BY <2>1, Zenon DEF Goes
  <2> QED
    BY <2>1, <2>2
<1>2. PICK g : Goes(g, q, k) /\ Erased(q, k) = g[k]
  BY ErasedGoes
<1>3. k + 1 \in Nat
  OBVIOUS
<1>4. PICK h : Goes(h, q, k + 1) /\ Erased(q, k + 1) = h[k + 1]
  BY <1>3, ErasedGoes, Zenon
<1>5. g[k] = h[k]
  BY <1>2, <1>3, <1>4, GoesAgree
<1>6. h[k + 1] = EraseOnce(h[k])
  <2>1. h = [i \in 0 .. k + 1 |-> IF i = 0 THEN q ELSE EraseOnce(h[i - 1])]
    BY <1>4, Zenon DEF Goes
  <2>2. k + 1 \in 0 .. k + 1 /\ k + 1 # 0 /\ k + 1 - 1 = k
    OBVIOUS
  <2> QED
    BY <2>1, <2>2
<1> QED
  BY <1>1, <1>2, <1>4, <1>5, <1>6

-----------------------------------------------------------------------------
(* A queue less one of its frames                                            *)

\* r is q without the frame at place m.
Without(r, q, m) ==
    /\ r \in Seq(Frames)
    /\ Len(r) = Len(q) - 1
    /\ \A i \in 1 .. Len(q) - 1 : r[i] = q[IF i < m THEN i ELSE i + 1]

\* Popping the front leaves the queue without it.
LEMMA TailWithout ==
    ASSUME NEW q \in Seq(Frames), q # <<>>
    PROVE  Without(Tail(q), q, 1)
<1>1. Len(q) \in Nat /\ Len(q) # 0
  OBVIOUS
<1>2. Tail(q) \in Seq(Frames) /\ Len(Tail(q)) = Len(q) - 1
      /\ \A i \in 1 .. Len(q) - 1 : Tail(q)[i] = q[i + 1]
  BY HeadTailProperties
<1> QED
  BY <1>1, <1>2 DEF Without

\* Removing at a place leaves the queue without it.
LEMMA RemoveAtWithout ==
    ASSUME NEW q \in Seq(Frames), NEW m \in 1 .. Len(q)
    PROVE  Without(Seqs!RemoveAt(q, m), q, m)
<1> DEFINE r == Seqs!RemoveAt(q, m)
           a == SubSeq(q, 1, m - 1)
           b == SubSeq(q, m + 1, Len(q))
<1>1. Len(q) \in Nat /\ m \in Int /\ 1 <= m /\ m <= Len(q)
  OBVIOUS
<1>2. /\ a \in Seq(Frames) /\ Len(a) = m - 1
      /\ \A i \in 1 .. m - 1 : a[i] = q[i]
  BY <1>1, SubSeqProperties
<1>3. /\ b \in Seq(Frames) /\ Len(b) = Len(q) - m
      /\ \A i \in 1 .. Len(q) - m : b[i] = q[m + i]
  BY <1>1, SubSeqProperties
<1>4. r = a \o b
  BY DEF Seqs!RemoveAt
<1> HIDE DEF a, b, r
<1>5. /\ r \in Seq(Frames) /\ Len(r) = Len(q) - 1
      /\ \A i \in 1 .. Len(q) - 1 : r[i] = IF i <= m - 1 THEN a[i] ELSE b[i - (m - 1)]
  <2>1. /\ r \in Seq(Frames) /\ Len(r) = Len(a) + Len(b)
        /\ \A i \in 1 .. Len(a) + Len(b) : r[i] = IF i <= Len(a) THEN a[i] ELSE b[i - Len(a)]
    BY <1>2, <1>3, <1>4, ConcatProperties
  <2>2. Len(a) + Len(b) = Len(q) - 1
    BY <1>1, <1>2, <1>3
  <2> QED
    BY <1>2, <2>1, <2>2
<1>6. ASSUME NEW i \in 1 .. Len(q) - 1
      PROVE  r[i] = q[IF i < m THEN i ELSE i + 1]
  <2>1. CASE i < m
    BY <1>1, <1>2, <1>5, <2>1
  <2>2. CASE i >= m
    <3>1. i - (m - 1) \in 1 .. Len(q) - m /\ m + (i - (m - 1)) = i + 1
      BY <1>1, <2>2
    <3>2. r[i] = b[i - (m - 1)]
      BY <1>1, <1>5, <2>2
    <3> QED
      BY <1>3, <2>2, <3>1, <3>2
  <2> QED
    BY <1>1, <2>1, <2>2
<1>7. Without(r, q, m)
  BY <1>5, <1>6, Zenon DEF Without
<1> QED
  BY <1>7 DEF r

\* The oldest audio goes; with none, nothing does.
LEMMA EraseOnceWithout ==
    ASSUME NEW q \in Seq(Frames)
    PROVE  /\ Droppables(q) = {} => EraseOnce(q) = q
           /\ Droppables(q) # {} =>
                 \E m \in Droppables(q) :
                    /\ \A i \in Droppables(q) : m <= i
                    /\ Without(EraseOnce(q), q, m)
<1> DEFINE D == {i \in 1 .. Len(q) : IsDroppable(q[i])}
<1>0. Len(q) \in Nat /\ DOMAIN q = 1 .. Len(q)
  BY LenProperties
<1>1. D = Droppables(q)
  BY <1>0 DEF Droppables
<1>2. EraseOnce(q) = IF \E i \in 1 .. Len(q) : IsDroppable(q[i])
                     THEN Seqs!RemoveAt(q, Seqs!SelectInSeq(q, IsDroppable)) ELSE q
  BY Zenon DEF EraseOnce, Seqs!RemoveFirstMatch
<1>3. Seqs!SelectInSeq(q, IsDroppable) = IF D # {} THEN Seqs!Min(D) ELSE 0
  BY Zenon DEF Seqs!SelectInSeq
<1>4. ASSUME D = {} PROVE EraseOnce(q) = q
  BY <1>2, <1>4
<1>5. ASSUME D # {}
      PROVE  \E m \in D : (\A i \in D : m <= i) /\ Without(EraseOnce(q), q, m)
  <2> DEFINE m == Seqs!Min(D)
  <2>1. D \subseteq Nat
    OBVIOUS
  <2>2. m = Least(D)
    BY Zenon DEF Least, Seqs!Min
  <2>3. m \in D /\ \A i \in D : m <= i
    BY <1>5, <2>1, <2>2, LeastNumber
  <2>4. EraseOnce(q) = Seqs!RemoveAt(q, m)
    BY <1>2, <1>3, <1>5
  <2> HIDE DEF m
  <2>5. Without(Seqs!RemoveAt(q, m), q, m)
    <3>1. m \in 1 .. Len(q)
      BY <2>3
    <3> QED
      BY <3>1, RemoveAtWithout
  <2> QED
    BY <2>3, <2>4, <2>5, Zenon
<1> QED
  BY <1>1, <1>4, <1>5, Zenon
-----------------------------------------------------------------------------
(* Bytes: what a queue weighs                                                *)

\* One more, or one fewer, of the same size.
LEMMA Times ==
    ASSUME NEW a \in Int, NEW x \in Int
    PROVE  a * x \in Int /\ a * (x + 1) = a * x + a /\ a * (x - 1) = a * x - a
OBVIOUS

\* A queue's places, with audio and without, and its bytes from their numbers.
LEMMA BytesCounted ==
    ASSUME NEW q \in Seq(Frames)
    PROVE  /\ DOMAIN q = 1 .. Len(q) /\ Len(q) \in Nat
           /\ IsFiniteSet(Droppables(q))
           /\ Cardinality(Droppables(q)) \in 0 .. Len(q)
           /\ Bytes(q) = AudioSize * Cardinality(Droppables(q))
                            + ControlSize * (Len(q) - Cardinality(Droppables(q)))
           /\ Bytes(q) \in Nat
<1> DEFINE D == Droppables(q)
           d == Cardinality(Droppables(q))
<1>1. DOMAIN q = 1 .. Len(q) /\ Len(q) \in Nat
  BY LenProperties
<1>2. IsFiniteSet(1 .. Len(q)) /\ Cardinality(1 .. Len(q)) = Len(q)
  BY <1>1, FS_Interval
<1>3. D \in SUBSET (1 .. Len(q))
  BY <1>1 DEF Droppables
<1>4. IsFiniteSet(D) /\ d <= Len(q)
  BY <1>2, <1>3, FS_Subset
<1>5. d \in Nat
  BY <1>4, FS_CardinalityType
<1>6. (1 .. Len(q)) \cap D = D
  BY <1>3
<1>7. Cardinality((1 .. Len(q)) \ D) = Len(q) - d
  <2>1. Cardinality((1 .. Len(q)) \ D)
           = Cardinality(1 .. Len(q)) - Cardinality((1 .. Len(q)) \cap D)
    BY <1>2, FS_Difference, Zenon
  <2> QED
    BY <1>2, <1>6, <2>1, Zenon
<1>8. Bytes(q) = AudioSize * d + ControlSize * (Len(q) - d)
  BY <1>1, <1>7 DEF Bytes
<1>9. AudioSize * d \in Nat /\ ControlSize * (Len(q) - d) \in Nat
  <2>1. \A a, x \in Nat : a * x \in Nat
    OBVIOUS
  <2>2. AudioSize \in Nat /\ ControlSize \in Nat /\ Len(q) - d \in Nat
    BY <1>1, <1>4, <1>5, SizesAssumption
  <2> QED
    BY <1>5, <2>1, <2>2
<1> QED
  BY <1>1, <1>4, <1>5, <1>8, <1>9

\* A frame appended adds its size.
LEMMA BytesAppend ==
    ASSUME NEW q \in Seq(Frames), NEW f \in Frames
    PROVE  Append(q, f) \in Seq(Frames) /\ Bytes(Append(q, f)) = Bytes(q) + f.size
<1> DEFINE r == Append(q, f)
           n == Len(q)
<1>1. /\ r \in Seq(Frames) /\ Len(r) = n + 1 /\ r[n + 1] = f
      /\ \A i \in 1 .. n : r[i] = q[i]
  BY AppendProperties
<1>2. /\ DOMAIN q = 1 .. n /\ n \in Nat /\ IsFiniteSet(Droppables(q))
      /\ Cardinality(Droppables(q)) \in 0 .. n
      /\ Bytes(q) = AudioSize * Cardinality(Droppables(q))
                       + ControlSize * (n - Cardinality(Droppables(q)))
  BY BytesCounted
<1>3. /\ DOMAIN r = 1 .. n + 1
      /\ Bytes(r) = AudioSize * Cardinality(Droppables(r))
                       + ControlSize * ((n + 1) - Cardinality(Droppables(r)))
  <2>1. /\ DOMAIN r = 1 .. Len(r)
        /\ Bytes(r) = AudioSize * Cardinality(Droppables(r))
                         + ControlSize * (Len(r) - Cardinality(Droppables(r)))
    BY <1>1, BytesCounted, Zenon
  <2>2. Len(r) = n + 1
    BY <1>1
  <2> HIDE DEF r, n
  <2>3. DOMAIN r = 1 .. n + 1
    BY <2>1, <2>2, Zenon
  <2>4. Bytes(r) = AudioSize * Cardinality(Droppables(r))
                      + ControlSize * ((n + 1) - Cardinality(Droppables(r)))
    BY <2>1, <2>2, Zenon
  <2> QED
    BY <2>3, <2>4, Zenon
<1>4. f.size = (IF f.droppable THEN AudioSize ELSE ControlSize) /\ f.droppable \in BOOLEAN
  BY DEF Frames
<1> HIDE DEF r, n
<1> DEFINE d == Cardinality(Droppables(q))
<1>5. AudioSize \in Int /\ ControlSize \in Int /\ d \in Int /\ n \in Int
  BY <1>2, SizesAssumption
<1>6. CASE f.droppable
  <2>1. Droppables(r) = Droppables(q) \cup {n + 1}
    BY <1>1, <1>2, <1>3, <1>6 DEF Droppables, IsDroppable
  <2>2. n + 1 \notin Droppables(q)
    BY <1>2 DEF Droppables
  <2>3. Cardinality(Droppables(r)) = d + 1
    BY <1>2, <2>1, <2>2, FS_AddElement
  <2> HIDE DEF d
  <2>4. Bytes(r) = AudioSize * (d + 1) + ControlSize * (n - d)
    <3>1. (n + 1) - (d + 1) = n - d
      BY <1>5
    <3> QED
      BY <1>3, <2>3, <3>1
  <2>5. AudioSize * (d + 1) = AudioSize * d + AudioSize
    BY <1>5, Times
  <2>6. Bytes(q) = AudioSize * d + ControlSize * (n - d) /\ f.size = AudioSize
    BY <1>2, <1>4, <1>6 DEF d
  <2>7. AudioSize * d \in Int /\ ControlSize * (n - d) \in Int
    BY <1>5
  <2>8. Bytes(r) = Bytes(q) + f.size
    BY <1>5, <2>4, <2>5, <2>6, <2>7
  <2> QED
    BY <1>1, <2>8 DEF r
<1>7. CASE ~f.droppable
  <2>1. Droppables(r) = Droppables(q)
    BY <1>1, <1>2, <1>3, <1>7 DEF Droppables, IsDroppable
  <2> HIDE DEF d
  <2>2. Bytes(r) = AudioSize * d + ControlSize * ((n - d) + 1)
    <3>1. (n + 1) - d = (n - d) + 1
      BY <1>5
    <3> QED
      BY <1>3, <2>1, <3>1 DEF d
  <2>3. n - d \in Int
    BY <1>5
  <2>4. ControlSize * ((n - d) + 1) = ControlSize * (n - d) + ControlSize
    BY <1>5, <2>3, Times
  <2>5. Bytes(q) = AudioSize * d + ControlSize * (n - d) /\ f.size = ControlSize
    BY <1>2, <1>4, <1>7 DEF d
  <2>6. AudioSize * d \in Int /\ ControlSize * (n - d) \in Int
    BY <1>5
  <2>7. Bytes(r) = Bytes(q) + f.size
    BY <1>5, <2>2, <2>4, <2>5, <2>6
  <2> QED
    BY <1>1, <2>7 DEF r
<1> QED
  BY <1>4, <1>6, <1>7

\* What is left has audio where the queue had it, but for the place that went.
LEMMA DroppablesWithout ==
    ASSUME NEW q \in Seq(Frames), NEW m \in 1 .. Len(q), NEW r, Without(r, q, m)
    PROVE  Cardinality(Droppables(r)) = Cardinality(Droppables(q) \ {m})
<1> DEFINE n == Len(q)
           shift == [i \in Droppables(r) |-> IF i < m THEN i ELSE i + 1]
           T == Droppables(q) \ {m}
<1>1. /\ DOMAIN q = 1 .. n /\ n \in Nat /\ IsFiniteSet(Droppables(q))
  BY BytesCounted
<1>2. r \in Seq(Frames) /\ Len(r) = n - 1
      /\ \A i \in 1 .. n - 1 : r[i] = q[IF i < m THEN i ELSE i + 1]
  BY DEF Without
<1>3. DOMAIN r = 1 .. n - 1
  BY <1>2, LenProperties
<1> HIDE DEF n
<1>m. m \in Int /\ 1 <= m /\ m <= n
  BY DEF n
<1>4. Droppables(r) \subseteq 1 .. n - 1 /\ Droppables(q) \subseteq 1 .. n
  BY <1>1, <1>3 DEF Droppables
<1>5. \A i \in Droppables(r) : shift[i] \in T
  <2>1. ASSUME NEW i \in Droppables(r) PROVE shift[i] \in T
    <3>1. i \in 1 .. n - 1 /\ shift[i] = IF i < m THEN i ELSE i + 1
      BY <1>4
    <3> HIDE DEF shift
    <3>2. shift[i] \in 1 .. n /\ shift[i] # m
      BY <1>1, <1>m, <3>1
    <3>3. r[i] = q[shift[i]]
      BY <1>2, <3>1
    <3>4. IsDroppable(r[i])
      BY DEF Droppables
    <3> QED
      BY <1>1, <3>2, <3>3, <3>4 DEF Droppables
  <2> QED
    BY <2>1
<1>6. shift \in Injection(Droppables(r), T)
  <2>1. shift \in [Droppables(r) -> T]
    BY <1>5
  <2>2. \A i, j \in Droppables(r) : shift[i] = shift[j] => i = j
    <3>1. ASSUME NEW i \in Droppables(r), NEW j \in Droppables(r), shift[i] = shift[j]
          PROVE  i = j
      <4>1. shift[i] = (IF i < m THEN i ELSE i + 1) /\ shift[j] = IF j < m THEN j ELSE j + 1
        OBVIOUS
      <4>2. i \in Int /\ j \in Int
        BY <1>4
      <4>3. (IF i < m THEN i ELSE i + 1) = (IF j < m THEN j ELSE j + 1)
        BY <3>1, <4>1, Zenon
      <4> HIDE DEF shift
      <4> QED
        BY <1>m, <4>2, <4>3
    <3> QED
      BY <3>1, Zenon
  <2> QED
    BY <2>1, <2>2, Zenon DEF Injection, IsInjective
<1>7. \A k \in T : \E i \in Droppables(r) : shift[i] = k
  <2>1. ASSUME NEW k \in T PROVE \E i \in Droppables(r) : shift[i] = k
    <3> DEFINE i == IF k < m THEN k ELSE k - 1
    <3>1. k \in 1 .. n /\ k # m /\ IsDroppable(q[k])
      BY <1>4 DEF Droppables
    <3>2. i \in 1 .. n - 1 /\ (IF i < m THEN i ELSE i + 1) = k
      BY <1>1, <1>m, <3>1
    <3> HIDE DEF i
    <3>3. r[i] = q[k]
      BY <1>2, <3>2
    <3>4. i \in Droppables(r)
      BY <1>3, <3>1, <3>2, <3>3 DEF Droppables
    <3> QED
      BY <3>2, <3>4
  <2> QED
    BY <2>1
<1>8. shift \in Surjection(Droppables(r), T)
  <2>1. shift \in [Droppables(r) -> T]
    BY <1>5
  <2> QED
    BY <1>7, <2>1, Zenon DEF Surjection
<1>9. IsFiniteSet(T)
  BY <1>1, FS_RemoveElement
<1> HIDE DEF shift, T
<1>10. Cardinality(Droppables(r)) = Cardinality(T)
  BY <1>6, <1>8, <1>9, FS_Injection
<1> QED
  BY <1>10 DEF T

\* A frame taken out of the queue takes its size.
LEMMA BytesWithout ==
    ASSUME NEW q \in Seq(Frames), NEW m \in 1 .. Len(q), NEW r, Without(r, q, m)
    PROVE  Bytes(r) = Bytes(q) - q[m].size
<1> DEFINE n == Len(q)
           d == Cardinality(Droppables(q))
           c == Cardinality(Droppables(r))
<1>1. /\ DOMAIN q = 1 .. n /\ n \in Nat /\ IsFiniteSet(Droppables(q))
      /\ d \in 0 .. n
      /\ Bytes(q) = AudioSize * d + ControlSize * (n - d)
  BY BytesCounted
<1>2. r \in Seq(Frames) /\ Len(r) = n - 1
  BY DEF Without
<1>3. c \in 0 .. n - 1 /\ Bytes(r) = AudioSize * c + ControlSize * (n - 1 - c)
  BY <1>2, BytesCounted
<1>4. c = IF m \in Droppables(q) THEN d - 1 ELSE d
  <2>1. c = Cardinality(Droppables(q) \ {m})
    BY DroppablesWithout
  <2>2. Cardinality(Droppables(q) \ {m}) = IF m \in Droppables(q) THEN d - 1 ELSE d
    BY <1>1, FS_RemoveElement, Zenon
  <2> QED
    BY <2>1, <2>2, Zenon
<1>5. q[m] \in Frames
  BY ElementOfSeq
<1>6. q[m].size = IF m \in Droppables(q) THEN AudioSize ELSE ControlSize
  BY <1>1, <1>5 DEF Frames, Droppables, IsDroppable
<1> HIDE DEF n, d, c
<1>7. AudioSize \in Int /\ ControlSize \in Int /\ d \in Int /\ n \in Int /\ n - d \in Int
      /\ AudioSize * d \in Int /\ ControlSize * (n - d) \in Int
  BY <1>1, SizesAssumption
<1>8. CASE m \in Droppables(q)
  <2>1. AudioSize * (d - 1) = AudioSize * d - AudioSize
    BY <1>7, Times
  <2>2. n - 1 - (d - 1) = n - d
    BY <1>7
  <2> QED
    BY <1>1, <1>3, <1>4, <1>6, <1>7, <1>8, <2>1, <2>2
<1>9. CASE m \notin Droppables(q)
  <2>1. ControlSize * ((n - d) - 1) = ControlSize * (n - d) - ControlSize
    BY <1>7, Times
  <2>2. n - 1 - d = (n - d) - 1
    BY <1>7
  <2> QED
    BY <1>1, <1>3, <1>4, <1>6, <1>7, <1>9, <2>1, <2>2
<1> QED
  BY <1>8, <1>9
-----------------------------------------------------------------------------
(* What the drop policy leaves of a queue                                    *)

FramesOf(q) == {q[i] : i \in 1 .. Len(q)}

\* The frames of q are in the order of their numbers.
Ordered(q) == \A i, j \in 1 .. Len(q) : i < j => q[i].id < q[j].id

\* f is older than any audio in q.
BeforeAudio(f, q) == \A g \in FramesOf(q) : g.droppable => f.id < g.id

\* e is q without its j oldest audio frames.
Cut(e, q, j) ==
    /\ e \in Seq(Frames) /\ Len(e) = Len(q) - j
    /\ Bytes(e) = Bytes(q) - j * AudioSize
    /\ Ordered(e)
    /\ FramesOf(e) \subseteq FramesOf(q)
    /\ \A f \in FramesOf(q) \ FramesOf(e) : f.droppable /\ BeforeAudio(f, e)

\* Taking out a frame keeps the order and the other frames.
LEMMA WithoutFrames ==
    ASSUME NEW q \in Seq(Frames), Ordered(q), NEW m \in 1 .. Len(q), NEW r, Without(r, q, m)
    PROVE  /\ Ordered(r)
           /\ FramesOf(r) \subseteq FramesOf(q)
           /\ FramesOf(q) \subseteq FramesOf(r) \cup {q[m]}
           /\ \A g \in FramesOf(r) : \E i \in 1 .. Len(q) : g = q[i] /\ i # m
<1>1. /\ Len(q) \in Nat /\ m \in Int /\ 1 <= m /\ m <= Len(q)
      /\ Len(r) = Len(q) - 1
      /\ \A i \in 1 .. Len(q) - 1 : r[i] = q[IF i < m THEN i ELSE i + 1]
  BY DEF Without
<1>2. Ordered(r)
  <2>1. ASSUME NEW i \in 1 .. Len(r), NEW j \in 1 .. Len(r), i < j
        PROVE  r[i].id < r[j].id
    <3> DEFINE x == IF i < m THEN i ELSE i + 1
               y == IF j < m THEN j ELSE j + 1
    <3>1. x \in 1 .. Len(q) /\ y \in 1 .. Len(q) /\ x < y
      BY <1>1, <2>1
    <3>2. r[i] = q[x] /\ r[j] = q[y]
      BY <1>1
    <3> HIDE DEF x, y
    <3> QED
      BY <3>1, <3>2 DEF Ordered
  <2> QED
    BY <2>1 DEF Ordered
<1>3. ASSUME NEW g \in FramesOf(r)
      PROVE  \E i \in 1 .. Len(q) : g = q[i] /\ i # m
  <2>1. PICK i \in 1 .. Len(r) : g = r[i]
    BY DEF FramesOf
  <2> DEFINE x == IF i < m THEN i ELSE i + 1
  <2>2. x \in 1 .. Len(q) /\ x # m /\ g = q[x]
    BY <1>1, <2>1
  <2> QED
    BY <2>2
<1>4. FramesOf(r) \subseteq FramesOf(q)
  BY <1>3 DEF FramesOf
<1>5. ASSUME NEW f \in FramesOf(q), f # q[m]
      PROVE  f \in FramesOf(r)
  <2>1. PICK i \in 1 .. Len(q) : f = q[i]
    BY DEF FramesOf
  <2> DEFINE x == IF i < m THEN i ELSE i - 1
  <2>2. i # m
    BY <1>5, <2>1
  <2>3. x \in 1 .. Len(r) /\ (IF x < m THEN x ELSE x + 1) = i
    BY <1>1, <2>2
  <2> HIDE DEF x
  <2>4. f = r[x]
    BY <1>1, <2>1, <2>3
  <2> QED
    BY <2>3, <2>4 DEF FramesOf
<1> QED
  BY <1>2, <1>3, <1>4, <1>5

\* Erasing once more cuts the oldest audio frame that is left.
LEMMA CutAgain ==
    ASSUME NEW q \in Seq(Frames), NEW j \in Nat, NEW e, Cut(e, q, j), Droppables(e) # {}
    PROVE  Cut(EraseOnce(e), q, j + 1)
<1> DEFINE r == EraseOnce(e)
<1>1. /\ e \in Seq(Frames) /\ Len(e) = Len(q) - j
      /\ Bytes(e) = Bytes(q) - j * AudioSize
      /\ Ordered(e) /\ FramesOf(e) \subseteq FramesOf(q)
      /\ \A f \in FramesOf(q) \ FramesOf(e) : f.droppable /\ BeforeAudio(f, e)
  BY Zenon DEF Cut
<1>2. PICK m \in Droppables(e) : (\A i \in Droppables(e) : m <= i) /\ Without(r, e, m)
  BY <1>1, EraseOnceWithout
<1>3. DOMAIN e = 1 .. Len(e) /\ Len(e) \in Nat /\ Len(q) \in Nat
      /\ Bytes(q) \in Nat /\ Bytes(e) \in Nat
  BY <1>1, BytesCounted
<1>4. m \in 1 .. Len(e) /\ e[m].droppable
  BY <1>3 DEF Droppables, IsDroppable
<1> HIDE DEF r
<1>5. r \in Seq(Frames) /\ Len(r) = Len(e) - 1
  BY <1>2 DEF Without
<1>6. Len(r) = Len(q) - (j + 1)
  BY <1>1, <1>3, <1>5
<1>7. Bytes(r) = Bytes(q) - (j + 1) * AudioSize
  <2>1. Bytes(r) = Bytes(e) - e[m].size
    BY <1>1, <1>2, <1>4, BytesWithout
  <2>2. e[m] \in Frames
    BY <1>1, <1>4, ElementOfSeq
  <2>3. e[m].size = AudioSize
    BY <1>4, <2>2 DEF Frames
  <2>4. AudioSize \in Int
    BY SizesAssumption
  <2>5. (j + 1) * AudioSize = j * AudioSize + AudioSize /\ j * AudioSize \in Int
    BY <2>4
  <2> QED
    BY <1>1, <1>3, <2>1, <2>3, <2>4, <2>5
<1>8. /\ Ordered(r) /\ FramesOf(r) \subseteq FramesOf(e)
      /\ FramesOf(e) \subseteq FramesOf(r) \cup {e[m]}
      /\ \A g \in FramesOf(r) : \E i \in 1 .. Len(e) : g = e[i] /\ i # m
  BY <1>1, <1>2, <1>4, WithoutFrames
<1>9. ASSUME NEW f \in FramesOf(q) \ FramesOf(r)
      PROVE  f.droppable /\ BeforeAudio(f, r)
  <2>1. CASE f \notin FramesOf(e)
    <3>1. f.droppable /\ BeforeAudio(f, e)
      BY <1>1, <2>1
    <3> QED
      BY <1>8, <3>1 DEF BeforeAudio
  <2>2. CASE f \in FramesOf(e)
    <3>1. f = e[m]
      BY <1>8, <1>9, <2>2
    <3>2. ASSUME NEW g \in FramesOf(r), g.droppable
          PROVE  f.id < g.id
      <4>1. PICK i \in 1 .. Len(e) : g = e[i] /\ i # m
        BY <1>8
      <4>2. i \in Droppables(e)
        BY <1>3, <3>2, <4>1 DEF Droppables, IsDroppable
      <4>3. m < i
        BY <1>2, <1>3, <1>4, <4>1, <4>2
      <4> QED
        BY <1>1, <1>4, <3>1, <4>1, <4>3 DEF Ordered
    <3> QED
      BY <1>4, <3>1, <3>2, Zenon DEF BeforeAudio
  <2> QED
    BY <2>1, <2>2
<1>10. FramesOf(r) \subseteq FramesOf(q)
  BY <1>1, <1>8
<1>11. Cut(r, q, j + 1)
  BY <1>5, <1>6, <1>7, <1>8, <1>9, <1>10, Zenon DEF Cut
<1> QED
  BY <1>11 DEF r

\* A queue from which nothing has been erased.
LEMMA NotCut ==
    ASSUME NEW q \in Seq(Frames), Ordered(q)
    PROVE  Cut(q, q, 0)
<1>1. Bytes(q) \in Nat /\ Len(q) \in Nat /\ AudioSize \in Int
  BY BytesCounted, SizesAssumption
<1>2. Bytes(q) = Bytes(q) - 0 * AudioSize /\ Len(q) = Len(q) - 0
  BY <1>1
<1>3. \A f \in FramesOf(q) \ FramesOf(q) : f.droppable /\ BeforeAudio(f, q)
  OBVIOUS
<1>4. FramesOf(q) \subseteq FramesOf(q)
  OBVIOUS
<1> QED
  BY <1>2, <1>3, <1>4, Zenon DEF Cut

\* As long as there was audio to erase, Erased has cut a frame each time.
LEMMA ErasedCut ==
    ASSUME NEW q \in Seq(Frames), Ordered(q), NEW k \in Nat,
           \A i \in Nat : i < k => Droppables(Erased(q, i)) # {}
    PROVE  Cut(Erased(q, k), q, k)
<1> DEFINE S == {n \in Nat : n <= k => Cut(Erased(q, n), q, n)}
<1>1. 0 \in S
  <2>1. 0 \in Nat /\ Erased(q, 0) = q
    BY ErasedStep
  <2>2. Cut(Erased(q, 0), q, 0)
    BY <2>1, NotCut
  <2> QED
    BY <2>2
<1>2. ASSUME NEW n \in Nat, n \in S
      PROVE  n + 1 \in S
  <2>1. SUFFICES ASSUME n + 1 <= k
                 PROVE  Cut(Erased(q, n + 1), q, n + 1)
    OBVIOUS
  <2>2. n <= k /\ n < k
    BY <2>1
  <2>3. Cut(Erased(q, n), q, n) /\ Droppables(Erased(q, n)) # {}
    BY <1>2, <2>2
  <2>4. Cut(EraseOnce(Erased(q, n)), q, n + 1)
    BY <2>3, CutAgain
  <2> QED
    BY <2>4, ErasedStep
<1> HIDE DEF S
<1>3. Nat \subseteq S
  BY <1>1, <1>2, FromZeroOn
<1>4. k \in S
  BY <1>3
<1> QED
  BY <1>4 DEF S

\* The loop of enqueue ends, with a frame left, and the last frame it dropped
\* would not have fitted.
LEMMA DropsEnough ==
    ASSUME NEW q \in Seq(Frames), Ordered(q), q # <<>>, NEW k,
           k = Least({j \in 0 .. Len(q) : Settled(Erased(q, j), Bytes(q) - j * AudioSize)})
    PROVE  /\ k \in Nat
           /\ Cut(Erased(q, k), q, k)
           /\ Settled(Erased(q, k), Bytes(q) - k * AudioSize)
           /\ Len(Erased(q, k)) >= 1
           /\ k > 0 => Bytes(q) - k * AudioSize + AudioSize > QueueLimit
<1> DEFINE Done(j) == Settled(Erased(q, j), Bytes(q) - j * AudioSize)
           S == {j \in 0 .. Len(q) : Done(j)}
<1>0. Len(q) \in Nat /\ Bytes(q) \in Nat /\ Len(q) # 0
  BY BytesCounted, EmptySeq
<1>1. ASSUME NEW j \in Nat, \A i \in Nat : i < j => ~Done(i)
      PROVE  Cut(Erased(q, j), q, j)
  <2>1. \A i \in Nat : i < j => Droppables(Erased(q, i)) # {}
    BY <1>1 DEF Settled
  <2> QED
    BY <2>1, ErasedCut
<1>2. S # {}
  <2>1. SUFFICES ASSUME \A i \in 0 .. Len(q) : ~Done(i) PROVE FALSE
    OBVIOUS
  <2> DEFINE n == Len(q)
  <2>2. \A i \in Nat : i < n => ~Done(i)
    BY <1>0, <2>1
  <2> HIDE DEF Done
  <2>3. Cut(Erased(q, n), q, n)
    BY <1>0, <1>1, <2>2
  <2>4. Len(Erased(q, n)) <= 1
    BY <1>0, <2>3 DEF Cut
  <2>5. Done(n)
    BY <2>4 DEF Done, Settled
  <2> QED
    BY <1>0, <2>1, <2>5
<1>3. S \subseteq Nat
  BY <1>0
<1>4. k \in S /\ \A y \in S : k <= y
  BY <1>2, <1>3, LeastNumber
<1>5. k \in Nat /\ k <= Len(q) /\ Done(k)
  BY <1>0, <1>4
<1>6. \A i \in Nat : i < k => ~Done(i)
  <2>1. ASSUME NEW i \in Nat, i < k, Done(i) PROVE FALSE
    <3>1. i \in 0 .. Len(q)
      BY <1>0, <1>5, <2>1
    <3>2. i \in S
      BY <2>1, <3>1
    <3> HIDE DEF S
    <3> QED
      BY <1>4, <1>5, <2>1, <3>2
  <2> QED
    BY <2>1
<1> HIDE DEF S, Done
<1>7. Cut(Erased(q, k), q, k)
  BY <1>1, <1>5, <1>6
<1>8. CASE k = 0
  <2>1. Erased(q, k) = q
    BY <1>8, ErasedStep
  <2>2. Len(Erased(q, k)) >= 1
    BY <1>0, <2>1
  <2> QED
    BY <1>5, <1>7, <1>8, <2>2 DEF Done
<1>9. CASE k # 0
  <2> DEFINE p == k - 1
  <2>0. k \in Nat
    BY <1>5
  <2>1. p \in Nat /\ p < k
    BY <1>9, <2>0
  <2> HIDE DEF p
  <2>i. \A i \in Nat : i < p => i < k
    BY <2>0, <2>1
  <2>2. ~Done(p) /\ Cut(Erased(q, p), q, p)
    BY <1>1, <1>6, <2>1, <2>i
  <2>3. ~(Bytes(q) - p * AudioSize <= QueueLimit) /\ ~(Len(Erased(q, p)) <= 1)
    BY <2>2 DEF Done, Settled
  <2>4. Len(Erased(q, p)) = Len(q) - p /\ Len(Erased(q, k)) = Len(q) - k
    BY <1>7, <2>2 DEF Cut
  <2>5. Len(Erased(q, k)) >= 1
    BY <1>0, <2>0, <2>3, <2>4 DEF p
  <2>6. AudioSize \in Int /\ QueueLimit \in Int
    BY SizesAssumption
  <2>7. p * AudioSize = k * AudioSize - AudioSize /\ k * AudioSize \in Int
    BY <2>0, <2>6 DEF p
  <2>8. Bytes(q) - k * AudioSize + AudioSize > QueueLimit
    BY <1>0, <2>3, <2>6, <2>7
  <2> QED
    BY <1>5, <1>7, <2>5, <2>8 DEF Done
<1> QED
  BY <1>8, <1>9
-----------------------------------------------------------------------------
(* The frames outstanding                                                    *)

\* Two queues, one behind the other.
LEMMA ConcatFrames ==
    ASSUME NEW s \in Seq(Frames), NEW t \in Seq(Frames)
    PROVE  /\ s \o t \in Seq(Frames) /\ Len(s \o t) = Len(s) + Len(t)
           /\ FramesOf(s \o t) = FramesOf(s) \cup FramesOf(t)
           /\ Ordered(s \o t) <=> /\ Ordered(s) /\ Ordered(t)
                                  /\ \A f \in FramesOf(s), g \in FramesOf(t) : f.id < g.id
<1> DEFINE o == s \o t
           n == Len(s)
           l == Len(t)
<1>1. /\ o \in Seq(Frames) /\ Len(o) = n + l
      /\ \A i \in 1 .. n + l : o[i] = IF i <= n THEN s[i] ELSE t[i - n]
  BY ConcatProperties
<1>2. n \in Nat /\ l \in Nat
  OBVIOUS
<1> HIDE DEF o, n, l
<1>3. \A i \in 1 .. n : i \in 1 .. Len(o) /\ o[i] = s[i]
  BY <1>1, <1>2
<1>4. \A i \in 1 .. l : n + i \in 1 .. Len(o) /\ o[n + i] = t[i]
  <2>1. ASSUME NEW i \in 1 .. l PROVE n + i \in 1 .. Len(o) /\ o[n + i] = t[i]
    <3>1. n + i \in 1 .. n + l /\ ~(n + i <= n) /\ (n + i) - n = i
      BY <1>2
    <3> QED
      BY <1>1, <3>1
  <2> QED
    BY <2>1
<1>5. ASSUME NEW i \in 1 .. Len(o)
      PROVE  (i \in 1 .. n /\ o[i] = s[i]) \/ (i - n \in 1 .. l /\ o[i] = t[i - n])
  <2>1. i \in 1 .. n \/ (i - n \in 1 .. l /\ ~(i <= n))
    BY <1>1, <1>2
  <2> QED
    BY <1>1, <2>1
<1>6. FramesOf(o) = FramesOf(s) \cup FramesOf(t)
  <2>1. FramesOf(o) \subseteq FramesOf(s) \cup FramesOf(t)
    BY <1>5 DEF FramesOf, n, l
  <2>2. FramesOf(s) \subseteq FramesOf(o)
    BY <1>3 DEF FramesOf, n
  <2>3. FramesOf(t) \subseteq FramesOf(o)
    BY <1>4 DEF FramesOf, l
  <2> QED
    BY <2>1, <2>2, <2>3
<1>7. ASSUME Ordered(o)
      PROVE  /\ Ordered(s) /\ Ordered(t)
             /\ \A f \in FramesOf(s), g \in FramesOf(t) : f.id < g.id
  <2>1. Ordered(s)
    BY <1>3, <1>7 DEF Ordered, n
  <2>2. ASSUME NEW i \in 1 .. l, NEW j \in 1 .. l, i < j PROVE t[i].id < t[j].id
    <3>1. n + i < n + j
      BY <1>2, <2>2
    <3> QED
      BY <1>4, <1>7, <3>1 DEF Ordered
  <2>3. ASSUME NEW f \in FramesOf(s), NEW g \in FramesOf(t) PROVE f.id < g.id
    <3>1. PICK i \in 1 .. n : f = s[i]
      BY DEF FramesOf, n
    <3>2. PICK j \in 1 .. l : g = t[j]
      BY DEF FramesOf, l
    <3>3. i < n + j
      BY <1>2
    <3> QED
      BY <1>3, <1>4, <1>7, <3>1, <3>2, <3>3 DEF Ordered
  <2> QED
    BY <2>1, <2>2, <2>3 DEF Ordered, l
<1>8. ASSUME Ordered(s), Ordered(t),
             \A f \in FramesOf(s), g \in FramesOf(t) : f.id < g.id
      PROVE  Ordered(o)
  <2>1. ASSUME NEW i \in 1 .. Len(o), NEW j \in 1 .. Len(o), i < j
        PROVE  o[i].id < o[j].id
    <3>1. CASE i \in 1 .. n /\ j \in 1 .. n
      BY <1>3, <1>8, <2>1, <3>1 DEF Ordered, n
    <3>2. CASE i - n \in 1 .. l /\ j - n \in 1 .. l
      <4>1. o[i] = t[i - n] /\ o[j] = t[j - n] /\ i - n < j - n
        <5>1. n + (i - n) = i /\ n + (j - n) = j
          BY <1>2
        <5> QED
          BY <1>2, <1>4, <2>1, <3>2, <5>1
      <4> QED
        BY <1>8, <3>2, <4>1 DEF Ordered, l
    <3>3. CASE i \in 1 .. n /\ j - n \in 1 .. l
      <4>1. n + (j - n) = j
        BY <1>2
      <4>2. o[i] = s[i] /\ o[j] = t[j - n]
        BY <1>3, <1>4, <3>3, <4>1
      <4>3. o[i] \in FramesOf(s) /\ o[j] \in FramesOf(t)
        BY <3>3, <4>2 DEF FramesOf, n, l
      <4> QED
        BY <1>8, <4>3
    <3>4. i \in 1 .. n \/ i - n \in 1 .. l
      BY <1>5
    <3>5. j \in 1 .. n \/ j - n \in 1 .. l
      BY <1>5
    <3>6. ~(i - n \in 1 .. l /\ j \in 1 .. n)
      BY <1>2, <2>1
    <3> QED
      BY <3>1, <3>2, <3>3, <3>4, <3>5, <3>6
  <2> QED
    BY <2>1 DEF Ordered
<1>9. Ordered(o) <=> /\ Ordered(s) /\ Ordered(t)
                     /\ \A f \in FramesOf(s), g \in FramesOf(t) : f.id < g.id
  BY <1>7, <1>8
<1> QED
  BY <1>1, <1>6, <1>9 DEF o, n, l

\* A queue of one frame.
LEMMA OneFrame ==
    ASSUME NEW f \in Frames
    PROVE  /\ <<f>> \in Seq(Frames) /\ Len(<<f>>) = 1
           /\ FramesOf(<<f>>) = {f} /\ Ordered(<<f>>)
BY DEF FramesOf, Ordered

\* The empty queue.
LEMMA NoFrame ==
    /\ <<>> \in Seq(Frames) /\ Len(<<>>) = 0 /\ FramesOf(<<>>) = {} /\ Ordered(<<>>)
    /\ Droppables(<<>>) = {} /\ Bytes(<<>>) = 0
<1>1. <<>> \in Seq(Frames) /\ Len(<<>>) = 0 /\ FramesOf(<<>>) = {} /\ Ordered(<<>>)
  BY DEF FramesOf, Ordered
<1>2. DOMAIN <<>> = {} /\ Droppables(<<>>) = {}
  BY DEF Droppables
<1>3. Cardinality({}) = 0
  BY FS_EmptySet, Zenon
<1>4. {} \ {} = {}
  OBVIOUS
<1>5. Bytes(<<>>) = AudioSize * 0 + ControlSize * 0
  BY <1>2, <1>3, <1>4, Zenon DEF Bytes
<1>6. AudioSize \in Int /\ ControlSize \in Int
  BY SizesAssumption
<1> QED
  BY <1>1, <1>2, <1>5, <1>6

\* The frame being written, as a sequence, and what is before the queue.
Held(v) == IF v = None THEN <<>> ELSE <<v>>

\* It is a sequence of frames.
LEMMA HeldFrames ==
    ASSUME NEW v \in Frames \cup {None}
    PROVE  Held(v) \in Seq(Frames)
BY OneFrame, NoFrame DEF Held

\* No frame is of size zero.
LEMMA NoneIsNoFrame == None \notin Frames
BY SizesAssumption DEF Frames, None

\* A queue is its front and then the rest.
LEMMA HeadThenTail ==
    ASSUME NEW q \in Seq(Frames), q # <<>>
    PROVE  Head(q) \in Frames /\ <<Head(q)>> \o Tail(q) = q
<1>1. Len(q) \in Nat /\ Len(q) >= 1 /\ Head(q) = q[1]
  OBVIOUS
<1>2. Head(q) \in Frames
  BY HeadTailProperties
<1>3. 1 \in 1 .. Len(q) /\ Len(q) \in 1 .. Len(q)
  BY <1>1
<1>4. SubSeq(q, 1, Len(q)) = <<q[1]>> \o SubSeq(q, 1 + 1, Len(q))
  BY <1>3, SubSeqRecursiveFirst
<1>5. Tail(q) = SubSeq(q, 2, Len(q)) /\ SubSeq(q, 1, Len(q)) = q
  BY TailIsSubSeq, SubSeqFull
<1> QED
  BY <1>1, <1>2, <1>4, <1>5
-----------------------------------------------------------------------------
(* The invariant                                                             *)

Types ==
    /\ upgraded \in BOOLEAN
    /\ queue \in Seq(Frames) /\ wire \in Seq(Frames)
    /\ drops \in Nat
    /\ next \in 1 .. MaxFrames + 2
    /\ caller \in Frames \cup {None}
    /\ caller # None => next <= MaxFrames + 1
    /\ cpc \in {"drain", "write", "pump", "finish", "done"}

\* What the connection's thread holds, by where it stands.
WriterInv ==
    /\ writing \in Frames \cup {None}
    /\ sent \in Nat /\ (sent > 0 => sent < writing.size)
    /\ cpc = "write" => writing # None
    /\ cpc \in {"drain", "pump"} => writing = None

\* The frames outstanding are in order, and older than the next one.
OrderInv ==
    /\ Ordered(Outstanding)
    /\ \A f \in FramesOf(Outstanding) : f.id < next

\* Each control frame enqueued is outstanding, as a control frame.
ControlInv ==
    \A c \in controls : \E f \in FramesOf(Outstanding) : f.id = c /\ ~f.droppable

\* Over the limit only with one frame, or without audio.
LimitInv == queuedBytes > QueueLimit => Len(queue) = 1 \/ Droppables(queue) = {}

ClientQueueInv ==
    /\ Types
    /\ WriterInv
    /\ OrderInv
    /\ ControlInv
    /\ LimitInv
    /\ EveryFrameAccounted

\* Outstanding is what is ahead of the queue and then the queue.
Ahead == wire \o Held(writing)

\* The definition of Outstanding, by these two parts.
LEMMA OutstandingIs == Outstanding = Ahead \o queue
BY Zenon DEF Outstanding, Ahead, Held

\* What is ahead of the queue is a sequence of frames.
LEMMA AheadFrames ==
    ASSUME Types, WriterInv
    PROVE  Ahead \in Seq(Frames)
<1>1. Held(writing) \in Seq(Frames)
  BY HeldFrames DEF WriterInv
<1> QED
  BY <1>1, ConcatProperties DEF Types, Ahead

\* Numbers, by the frames instead of their places.
LEMMA NumbersAre ==
    ASSUME NEW q \in Seq(Frames)
    PROVE  Numbers(q) = {f.id : f \in FramesOf(q)}
<1>1. DOMAIN q = 1 .. Len(q)
  BY LenProperties
<1> QED
  BY <1>1 DEF Numbers, FramesOf

\* The invariant holds of a connection just upgraded.
LEMMA InitInv == Init => ClientQueueInv
<1> SUFFICES ASSUME Init PROVE ClientQueueInv
  OBVIOUS
<1>1. /\ upgraded = TRUE /\ queue = <<>> /\ queuedBytes = 0 /\ drops = 0
      /\ next = 1 /\ caller = None /\ cpc = "drain" /\ writing = None /\ sent = 0
      /\ wire = <<>> /\ controls = {}
  BY DEF Init
<1>2. Outstanding = <<>>
  <2>1. Outstanding = (<<>> \o <<>>) \o <<>>
    BY <1>1, Zenon DEF Outstanding
  <2>2. <<>> \o <<>> = <<>>
    BY NoFrame, ConcatEmptySeq, Zenon
  <2> QED
    BY <2>1, <2>2, Zenon
<1>3. Types
  BY <1>1, NoFrame, SizesAssumption DEF Types
<1>4. WriterInv
  BY <1>1 DEF WriterInv
<1>5. OrderInv
  BY <1>2, NoFrame, Zenon DEF OrderInv
<1>c. ControlInv
  BY <1>1 DEF ControlInv
<1>6. LimitInv
  BY <1>1, NoFrame DEF LimitInv
<1>7. EveryFrameAccounted
  BY <1>1, <1>2, NoFrame DEF EveryFrameAccounted
<1> QED
  BY <1>3, <1>4, <1>5, <1>c, <1>6, <1>7 DEF ClientQueueInv

\* Where the loop of enqueue stops over the limit with a frame left.
LEMMA SettledOverLimit ==
    ASSUME NEW e \in Seq(Frames), Len(e) >= 1, NEW x \in Int, Settled(e, x)
    PROVE  x > QueueLimit => Len(e) = 1 \/ Droppables(e) = {}
<1> DEFINE n == Len(e)
<1>1. n \in Nat /\ n >= 1
  OBVIOUS
<1> HIDE DEF n
<1>2. n <= 1 => n = 1
  BY <1>1
<1>3. x > QueueLimit => ~(x <= QueueLimit)
  BY SizesAssumption
<1> QED
  BY <1>2, <1>3, Zenon DEF n, Settled

\* What enqueue does to the invariant, whoever calls it, and which frames go.
LEMMA PushStep ==
    ASSUME Types, WriterInv, OrderInv, ControlInv, LimitInv, EveryFrameAccounted,
           NEW f \in Frames, f.id = next, Push(f), UNCHANGED <<writing, wire>>
    PROVE  /\ queue' \in Seq(Frames) /\ drops' \in Nat /\ next' = next + 1
           /\ OrderInv' /\ ControlInv' /\ LimitInv' /\ EveryFrameAccounted'
           /\ \A g \in (FramesOf(queue) \cup {f}) \ FramesOf(queue') :
                 /\ queuedBytes' + AudioSize > QueueLimit
                 /\ BeforeAudio(g, queue')
           /\ FramesOf(queue') \subseteq FramesOf(Outstanding')
<1> DEFINE q == Append(queue, f)
           bytes == queuedBytes + f.size
           k == Least({j \in 0 .. Len(q) : Settled(Erased(q, j), bytes - j * AudioSize)})
           e == Erased(q, k)
<1>1. /\ queue' = e /\ queuedBytes' = bytes - k * AudioSize
      /\ drops' = drops + k /\ next' = next + 1
      /\ controls' = IF f.droppable THEN controls ELSE controls \cup {f.id}
  BY Zenon DEF Push
<1>2. /\ queue \in Seq(Frames) /\ wire \in Seq(Frames) /\ drops \in Nat /\ next \in Nat
  BY SizesAssumption DEF Types
<1>3. /\ Ahead \in Seq(Frames) /\ Outstanding = Ahead \o queue
  BY AheadFrames, OutstandingIs
<1>4. /\ Outstanding \in Seq(Frames) /\ Len(Outstanding) = Len(Ahead) + Len(queue)
      /\ FramesOf(Outstanding) = FramesOf(Ahead) \cup FramesOf(queue)
      /\ Ordered(Ahead) /\ Ordered(queue)
      /\ \A g \in FramesOf(Ahead), h \in FramesOf(queue) : g.id < h.id
      /\ \A g \in FramesOf(Ahead) \cup FramesOf(queue) : g.id < next
  BY <1>2, <1>3, ConcatFrames DEF OrderInv
<1>5. /\ queuedBytes = Bytes(queue)
      /\ next - 1 = Len(Outstanding) + drops
      /\ controls \subseteq Numbers(Outstanding)
  BY DEF EveryFrameAccounted
<1>6. /\ q \in Seq(Frames) /\ Bytes(q) = bytes
  BY <1>2, <1>5, BytesAppend
<1>7. q # <<>> /\ Len(q) = Len(queue) + 1
  BY <1>2, AppendProperties
<1>8. /\ FramesOf(q) = FramesOf(queue) \cup {f} /\ Ordered(q)
  <2>1. q = queue \o <<f>>
    BY <1>2, AppendIsConcat
  <2>2. \A g \in FramesOf(queue), h \in {f} : g.id < h.id
    BY <1>4
  <2> HIDE DEF q
  <2>3. <<f>> \in Seq(Frames) /\ FramesOf(<<f>>) = {f} /\ Ordered(<<f>>)
    BY OneFrame
  <2> QED
    BY <1>2, <1>4, <2>1, <2>2, <2>3, ConcatFrames
<1> HIDE DEF q, bytes
<1>9. /\ k \in Nat
      /\ Cut(e, q, k)
      /\ Settled(e, bytes - k * AudioSize)
      /\ Len(e) >= 1
      /\ k > 0 => bytes - k * AudioSize + AudioSize > QueueLimit
  BY <1>6, <1>7, <1>8, DropsEnough
<1>10. k = 0 => e = q
  BY ErasedStep
<1> HIDE DEF k, e
<1>11. /\ e \in Seq(Frames) /\ Len(e) = Len(q) - k
       /\ Bytes(e) = Bytes(q) - k * AudioSize
       /\ Ordered(e) /\ FramesOf(e) \subseteq FramesOf(q)
       /\ \A g \in FramesOf(q) \ FramesOf(e) : g.droppable /\ BeforeAudio(g, e)
  BY <1>9, Zenon DEF Cut
<1>12. Ahead' = Ahead /\ Outstanding' = Ahead \o e
  <2>1. Ahead' = Ahead
    BY Zenon DEF Ahead, Held
  <2>2. Outstanding' = Ahead' \o queue'
    BY Zenon DEF Outstanding, Ahead, Held
  <2> QED
    BY <1>1, <2>1, <2>2, Zenon
<1>13. /\ Ahead \o e \in Seq(Frames) /\ Len(Ahead \o e) = Len(Ahead) + Len(e)
       /\ FramesOf(Ahead \o e) = FramesOf(Ahead) \cup FramesOf(e)
       /\ Ordered(Ahead \o e)
  <2>1. \A g \in FramesOf(Ahead), h \in FramesOf(q) : g.id < h.id
    BY <1>4, <1>8
  <2>2. \A g \in FramesOf(Ahead), h \in FramesOf(e) : g.id < h.id
    BY <1>11, <2>1
  <2> QED
    BY <1>3, <1>4, <1>11, <2>2, ConcatFrames
<1>14. OrderInv'
  <2>1. \A g \in FramesOf(Ahead) \cup FramesOf(e) : g.id < next'
    <3>1. \A g \in FramesOf(Ahead) \cup FramesOf(queue) : g.id < next + 1
      <4>1. ASSUME NEW g \in FramesOf(Ahead) \cup FramesOf(queue)
            PROVE  g.id < next + 1
        <5>1. g \in FramesOf(Outstanding)
          BY <1>4
        <5>2. g.id \in Nat
          BY <1>4, <5>1, ElementOfSeq DEF FramesOf, Frames
        <5> QED
          BY <1>2, <1>4, <5>2
      <4> QED
        BY <4>1
    <3>2. f.id < next + 1
      BY <1>2
    <3> QED
      BY <1>1, <1>8, <1>11, <3>1, <3>2
  <2> QED
    BY <1>12, <1>13, <2>1, Zenon DEF OrderInv
<1>15. LimitInv'
  <2>1. bytes - k * AudioSize > QueueLimit => Len(e) = 1 \/ Droppables(e) = {}
    <3>1. bytes \in Int /\ k * AudioSize \in Int
      BY <1>6, <1>9, BytesCounted, SizesAssumption
    <3>2. bytes - k * AudioSize \in Int
      BY <3>1
    <3> QED
      BY <1>9, <1>11, <3>2, SettledOverLimit
  <2> QED
    BY <1>1, <2>1, Zenon DEF LimitInv
<1>c. ControlInv'
  <2>1. FramesOf(Outstanding') = FramesOf(Ahead) \cup FramesOf(e)
    BY <1>12, <1>13
  <2>2. ASSUME NEW c \in controls'
        PROVE  \E g \in FramesOf(Outstanding') : g.id = c /\ ~g.droppable
    <3>1. PICK g \in FramesOf(Ahead) \cup FramesOf(q) : g.id = c /\ ~g.droppable
      BY <1>1, <1>4, <1>8, <2>2 DEF ControlInv
    <3>2. g \in FramesOf(Ahead) \cup FramesOf(e)
      BY <1>11, <3>1
    <3> QED
      BY <2>1, <3>1, <3>2
  <2> QED
    BY <2>2, Zenon DEF ControlInv
<1>16. EveryFrameAccounted'
  <2>1. queuedBytes' = Bytes(queue')
    BY <1>1, <1>6, <1>11
  <2>2. next' - 1 = Len(Outstanding') + drops'
    <3>1. Len(Ahead) \in Nat /\ Len(queue) \in Nat
      BY <1>2, <1>3, LenProperties
    <3> QED
      BY <1>1, <1>2, <1>4, <1>5, <1>7, <1>9, <1>11, <1>12, <1>13, <3>1
  <2>3. controls' \subseteq Numbers(Outstanding')
    <3>1. Numbers(Outstanding') = {g.id : g \in FramesOf(Outstanding')}
      BY <1>12, <1>13, NumbersAre
    <3> QED
      BY <1>c, <3>1 DEF ControlInv
  <2> QED
    BY <2>1, <2>2, <2>3, Zenon DEF EveryFrameAccounted
<1>17. ASSUME NEW g \in (FramesOf(queue) \cup {f}) \ FramesOf(queue')
       PROVE  /\ queuedBytes' + AudioSize > QueueLimit
              /\ BeforeAudio(g, queue')
  <2>1. g \in FramesOf(q) \ FramesOf(e)
    BY <1>1, <1>8, <1>17
  <2>2. k > 0
    BY <1>9, <1>10, <2>1
  <2> QED
    BY <1>1, <1>9, <1>11, <2>1, <2>2
<1> QED
  BY <1>1, <1>2, <1>9, <1>11, <1>12, <1>13, <1>14, <1>c, <1>15, <1>16, <1>17
\* A step that leaves the queue alone, and the frames outstanding.
LEMMA QueueUntouched ==
    ASSUME OrderInv, ControlInv, LimitInv, EveryFrameAccounted,
           UNCHANGED <<queue, queuedBytes, drops, next, controls>>,
           Outstanding' = Outstanding
    PROVE  OrderInv' /\ ControlInv' /\ LimitInv' /\ EveryFrameAccounted'
<1>1. OrderInv' /\ ControlInv'
  BY DEF OrderInv, ControlInv
<1>2. LimitInv'
  BY DEF LimitInv
<1>3. EveryFrameAccounted'
  BY DEF EveryFrameAccounted
<1> QED
  BY <1>1, <1>2, <1>3

\* What broadcast and pumpIncoming hand to enqueue is a frame.
LEMMA FrameIsFrame ==
    ASSUME Types, NEW droppable \in BOOLEAN
    PROVE  Frame(droppable) \in Frames /\ Frame(droppable).id = next
BY SizesAssumption DEF Types, Frame, Frames

\* So it is when it gets its number in the queue.
LEMMA NumberedIsFrame ==
    ASSUME Types, caller # None
    PROVE  [caller EXCEPT !.id = next] \in Frames /\ [caller EXCEPT !.id = next].id = next
<1>1. caller \in Frames /\ next \in Nat
  BY SizesAssumption DEF Types
<1> QED
  BY <1>1 DEF Frames

\* Popping a frame to write it leaves the frames outstanding the same.
LEMMA PopOutstanding ==
    ASSUME Types, WriterInv, Pop
    PROVE  /\ Outstanding' = Outstanding
           /\ Head(queue) \in Frames /\ Without(queue', queue, 1)
<1>1. /\ cpc = "drain" /\ queue # <<>>
      /\ writing' = Head(queue) /\ queue' = Tail(queue) /\ wire' = wire
  BY DEF Pop
<1>2. writing = None
  BY <1>1 DEF WriterInv
<1>3. queue \in Seq(Frames) /\ wire \in Seq(Frames)
  BY DEF Types
<1>4. Head(queue) \in Frames /\ <<Head(queue)>> \o Tail(queue) = queue
  BY <1>1, <1>3, HeadThenTail
<1>5. Head(queue) # None
  BY <1>4, NoneIsNoFrame
<1>6. Tail(queue) \in Seq(Frames)
  BY <1>1, <1>3, HeadTailProperties
<1>7. Outstanding' = (wire \o <<Head(queue)>>) \o Tail(queue)
  BY <1>1, <1>5, Zenon DEF Outstanding
<1>8. (wire \o <<Head(queue)>>) \o Tail(queue) = wire \o (<<Head(queue)>> \o Tail(queue))
  BY <1>3, <1>4, <1>6, OneFrame, ConcatAssociative
<1>9. Outstanding = (wire \o <<>>) \o queue
  BY <1>2, Zenon DEF Outstanding
<1>10. wire \o <<>> = wire
  BY <1>3, ConcatEmptySeq
<1>11. Without(queue', queue, 1)
  BY <1>1, <1>3, TailWithout
<1> QED
  BY <1>4, <1>7, <1>8, <1>9, <1>10, <1>11, Zenon

\* So does the last byte of the frame written.
LEMMA WrittenOutstanding ==
    ASSUME Types, WriterInv, cpc = "write",
           wire' = Append(wire, writing), writing' = None, queue' = queue
    PROVE  wire' \in Seq(Frames) /\ Outstanding' = Outstanding
<1>1. writing \in Frames /\ wire \in Seq(Frames) /\ writing # None
  BY DEF Types, WriterInv
<1>2. Append(wire, writing) = wire \o <<writing>> /\ Append(wire, writing) \in Seq(Frames)
  BY <1>1, AppendIsConcat, AppendProperties
<1>3. Append(wire, writing) \o <<>> = Append(wire, writing)
  BY <1>2, ConcatEmptySeq
<1>4. Outstanding' = (Append(wire, writing) \o <<>>) \o queue
  BY Zenon DEF Outstanding
<1>5. Outstanding = (wire \o <<writing>>) \o queue
  BY <1>1, Zenon DEF Outstanding
<1> QED
  BY <1>2, <1>3, <1>4, <1>5

\* So does a step that touches none of the three.
LEMMA SameOutstanding ==
    ASSUME UNCHANGED <<wire, writing, queue>>
    PROVE  Outstanding' = Outstanding
BY Zenon DEF Outstanding

\* Every step keeps the invariant.
LEMMA StepInv ==
    ASSUME ClientQueueInv, [Next]_vars
    PROVE  ClientQueueInv'
<1>0. Types /\ WriterInv /\ OrderInv /\ ControlInv /\ LimitInv /\ EveryFrameAccounted
  BY DEF ClientQueueInv
<1>q. queue \in Seq(Frames) /\ next \in Int /\ next >= 1 /\ MaxFrames \in Nat
  BY <1>0, SizesAssumption DEF Types
<1>1. ASSUME NEW droppable \in BOOLEAN, Offer(droppable)
      PROVE  ClientQueueInv'
  <2>1. OrderInv' /\ ControlInv' /\ LimitInv' /\ EveryFrameAccounted'
    BY <1>0, <1>1, QueueUntouched, SameOutstanding DEF Offer
  <2>2. Types'
    <3>1. Frame(droppable) \in Frames
      BY <1>0, FrameIsFrame
    <3> QED
      BY <1>0, <1>1, <1>q, <3>1 DEF Types, Offer
  <2>3. WriterInv'
    BY <1>0, <1>1 DEF WriterInv, Offer
  <2> QED
    BY <2>1, <2>2, <2>3 DEF ClientQueueInv
<1>2. CASE Enqueue
  <2> DEFINE f == [caller EXCEPT !.id = next]
  <2>0. /\ caller # None /\ Push(f) /\ caller' = None
        /\ UNCHANGED <<upgraded, cpc, writing, sent, wire>>
    BY <1>2, Zenon DEF Enqueue
  <2>1. f \in Frames /\ f.id = next
    BY <1>0, <2>0, NumberedIsFrame
  <2> HIDE DEF f
  <2>2. /\ queue' \in Seq(Frames) /\ drops' \in Nat /\ next' = next + 1
        /\ OrderInv' /\ ControlInv' /\ LimitInv' /\ EveryFrameAccounted'
    BY <1>0, <2>0, <2>1, PushStep
  <2>3. Types'
    BY <1>0, <1>q, <2>0, <2>2 DEF Types
  <2>4. WriterInv'
    BY <1>0, <2>0 DEF WriterInv
  <2> QED
    BY <2>2, <2>3, <2>4 DEF ClientQueueInv
<1>3. CASE Pop
  <2>0. /\ Outstanding' = Outstanding /\ Head(queue) \in Frames /\ Without(queue', queue, 1)
    BY <1>0, <1>3, PopOutstanding
  <2>1. /\ queue # <<>> /\ writing' = Head(queue) /\ sent' = 0 /\ cpc' = "write"
        /\ queuedBytes' = queuedBytes - Head(queue).size
        /\ UNCHANGED <<upgraded, drops, next, caller, wire, controls>>
    BY <1>3 DEF Pop
  <2>2. queue' \in Seq(Frames)
    BY <2>0 DEF Without
  <2>3. Types'
    BY <1>0, <2>1, <2>2 DEF Types
  <2>4. WriterInv'
    <3>1. Head(queue) # None
      BY <2>0, NoneIsNoFrame
    <3> QED
      BY <2>0, <2>1, <3>1 DEF WriterInv
  <2>5. OrderInv' /\ ControlInv'
    BY <1>0, <2>0, <2>1 DEF OrderInv, ControlInv
  <2>6. 1 \in 1 .. Len(queue) /\ Head(queue) = queue[1]
    BY <1>q, <2>1
  <2>7. queuedBytes' = Bytes(queue')
    <3>1. Bytes(queue') = Bytes(queue) - queue[1].size
      BY <1>q, <2>0, <2>6, BytesWithout
    <3> QED
      BY <1>0, <2>1, <2>6, <3>1 DEF EveryFrameAccounted
  <2>8. EveryFrameAccounted'
    BY <1>0, <2>0, <2>1, <2>7 DEF EveryFrameAccounted
  <2>9. LimitInv'
    <3>1. CASE Len(queue) = 1
      <4>1. Len(queue') = 0
        BY <2>0, <3>1 DEF Without
      <4>2. Droppables(queue') = {}
        BY <2>2, <4>1, BytesCounted DEF Droppables
      <4> QED
        BY <4>2 DEF LimitInv
    <3>2. CASE Droppables(queue) = {}
      <4>1. ASSUME NEW i \in Droppables(queue') PROVE FALSE
        <5>1. i \in 1 .. Len(queue') /\ IsDroppable(queue'[i])
          BY <2>2, BytesCounted DEF Droppables
        <5>2. Len(queue') = Len(queue) - 1 /\ Len(queue) \in Nat /\ i \in Int /\ 1 <= i
          BY <1>q, <2>0, <5>1 DEF Without
        <5>3. queue'[i] = queue[i + 1] /\ i + 1 \in 1 .. Len(queue)
          BY <2>0, <5>1, <5>2 DEF Without
        <5>4. i + 1 \in Droppables(queue)
          BY <1>q, <5>1, <5>3, BytesCounted DEF Droppables
        <5> QED
          BY <3>2, <5>4
      <4> QED
        BY <4>1 DEF LimitInv
    <3>3. CASE queuedBytes <= QueueLimit
      <4>1. queuedBytes \in Nat /\ Head(queue).size \in Nat /\ QueueLimit \in Nat
        BY <1>0, <1>q, <2>0, BytesCounted, SizesAssumption DEF EveryFrameAccounted, Frames
      <4>2. queuedBytes' <= QueueLimit /\ queuedBytes' \in Int
        BY <2>1, <3>3, <4>1
      <4>3. ~(queuedBytes' > QueueLimit)
        BY <4>1, <4>2
      <4> QED
        BY <4>3 DEF LimitInv
    <3>4. queuedBytes \in Nat /\ QueueLimit \in Nat
      BY <1>0, <1>q, BytesCounted, SizesAssumption DEF EveryFrameAccounted
    <3>5. queuedBytes <= QueueLimit \/ queuedBytes > QueueLimit
      BY <3>4
    <3> QED
      BY <1>0, <3>1, <3>2, <3>3, <3>5 DEF LimitInv
  <2> QED
    BY <2>3, <2>4, <2>5, <2>8, <2>9 DEF ClientQueueInv
<1>4. CASE Drained
  <2>1. OrderInv' /\ ControlInv' /\ LimitInv' /\ EveryFrameAccounted'
    BY <1>0, <1>4, QueueUntouched, SameOutstanding DEF Drained
  <2>2. Types' /\ WriterInv'
    BY <1>0, <1>4 DEF Types, WriterInv, Drained
  <2> QED
    BY <2>1, <2>2 DEF ClientQueueInv
<1>5. ASSUME NEW k \in 1 .. AudioSize + ControlSize, WriteSome(k)
      PROVE  ClientQueueInv'
  <2>0. /\ cpc = "write" /\ sent + k <= writing.size
        /\ UNCHANGED <<upgraded, queue, queuedBytes, drops, next, caller, controls>>
    BY <1>5 DEF WriteSome
  <2>1. CASE sent + k = writing.size
    <3>1. /\ wire' = Append(wire, writing) /\ writing' = None /\ sent' = 0 /\ cpc' = "drain"
      BY <1>5, <2>1 DEF WriteSome
    <3>2. wire' \in Seq(Frames) /\ Outstanding' = Outstanding
      BY <1>0, <2>0, <3>1, WrittenOutstanding
    <3>3. OrderInv' /\ ControlInv' /\ LimitInv' /\ EveryFrameAccounted'
      BY <1>0, <2>0, <3>2, QueueUntouched
    <3>4. Types'
      BY <1>0, <2>0, <3>1, <3>2 DEF Types
    <3>5. WriterInv'
      BY <3>1 DEF WriterInv
    <3> QED
      BY <3>3, <3>4, <3>5 DEF ClientQueueInv
  <2>2. CASE sent + k # writing.size
    <3>1. sent' = sent + k /\ UNCHANGED <<wire, writing, cpc>>
      BY <1>5, <2>2 DEF WriteSome
    <3>2. OrderInv' /\ ControlInv' /\ LimitInv' /\ EveryFrameAccounted'
      BY <1>0, <2>0, <3>1, QueueUntouched, SameOutstanding
    <3>3. Types'
      BY <1>0, <2>0, <3>1 DEF Types
    <3>4. WriterInv'
      <4>1. writing \in Frames /\ sent \in Nat /\ AudioSize \in Nat /\ ControlSize \in Nat
        BY <1>0, <2>0, SizesAssumption DEF WriterInv
      <4>2. writing.size \in Nat /\ k \in Nat /\ k >= 1
        BY <4>1, SizesAssumption DEF Frames
      <4>3. sent + k \in Nat /\ sent + k < writing.size
        BY <2>0, <2>2, <4>1, <4>2
      <4> QED
        BY <1>0, <2>0, <3>1, <4>3 DEF WriterInv
    <3> QED
      BY <3>2, <3>3, <3>4 DEF ClientQueueInv
  <2> QED
    BY <2>1, <2>2
<1>6. CASE WriteFails
  <2>1. OrderInv' /\ ControlInv' /\ LimitInv' /\ EveryFrameAccounted'
    BY <1>0, <1>6, QueueUntouched, SameOutstanding DEF WriteFails
  <2>2. Types' /\ WriterInv'
    BY <1>0, <1>6 DEF Types, WriterInv, WriteFails
  <2> QED
    BY <2>1, <2>2 DEF ClientQueueInv
<1>7. CASE PumpPing
  <2> DEFINE f == Frame(FALSE)
  <2>0. /\ next <= MaxFrames /\ Push(f)
        /\ UNCHANGED <<upgraded, caller, cpc, writing, sent, wire>>
    BY <1>7, Zenon DEF PumpPing
  <2>1. f \in Frames /\ f.id = next
    BY <1>0, FrameIsFrame
  <2> HIDE DEF f
  <2>2. /\ queue' \in Seq(Frames) /\ drops' \in Nat /\ next' = next + 1
        /\ OrderInv' /\ ControlInv' /\ LimitInv' /\ EveryFrameAccounted'
    BY <1>0, <2>0, <2>1, PushStep
  <2>3. Types'
    BY <1>0, <1>q, <2>0, <2>2 DEF Types
  <2>4. WriterInv'
    BY <1>0, <2>0 DEF WriterInv
  <2> QED
    BY <2>2, <2>3, <2>4 DEF ClientQueueInv
<1>8. CASE PumpIdle
  <2>1. OrderInv' /\ ControlInv' /\ LimitInv' /\ EveryFrameAccounted'
    BY <1>0, <1>8, QueueUntouched, SameOutstanding DEF PumpIdle
  <2>2. Types' /\ WriterInv'
    BY <1>0, <1>8 DEF Types, WriterInv, PumpIdle
  <2> QED
    BY <2>1, <2>2 DEF ClientQueueInv
<1>9. CASE PumpEnds
  <2>1. OrderInv' /\ ControlInv' /\ LimitInv' /\ EveryFrameAccounted'
    BY <1>0, <1>9, QueueUntouched, SameOutstanding DEF PumpEnds
  <2>2. Types' /\ WriterInv'
    BY <1>0, <1>9 DEF Types, WriterInv, PumpEnds
  <2> QED
    BY <2>1, <2>2 DEF ClientQueueInv
<1>10. CASE Finish
  <2>1. OrderInv' /\ ControlInv' /\ LimitInv' /\ EveryFrameAccounted'
    BY <1>0, <1>10, QueueUntouched, SameOutstanding DEF Finish
  <2>2. Types' /\ WriterInv'
    BY <1>0, <1>10 DEF Types, WriterInv, Finish
  <2> QED
    BY <2>1, <2>2 DEF ClientQueueInv
<1>11. CASE UNCHANGED vars
  <2>1. OrderInv' /\ ControlInv' /\ LimitInv' /\ EveryFrameAccounted'
    BY <1>0, <1>11, QueueUntouched, SameOutstanding DEF vars
  <2>2. Types' /\ WriterInv'
    BY <1>0, <1>11 DEF Types, WriterInv, vars
  <2> QED
    BY <2>1, <2>2 DEF ClientQueueInv
<1> QED
  BY <1>1, <1>2, <1>3, <1>4, <1>5, <1>6, <1>7, <1>8, <1>9, <1>10, <1>11 DEF Next
\* The invariant holds of every behaviour.
THEOREM QueueInvariant == Spec => []ClientQueueInv
<1>1. Init => ClientQueueInv
  BY InitInv
<1>2. ClientQueueInv /\ [Next]_vars => ClientQueueInv'
  BY StepInv
<1> QED
  BY <1>1, <1>2, PTL DEF Spec

-----------------------------------------------------------------------------
(* The theorems                                                              *)

\* The types of the queue and of its writer, whatever the sizes and the limit;
\* after enqueue the queue is over the limit only with a single frame left, or
\* with control frames only, and the writer never makes it otherwise.
THEOREM TypeCorrect == Spec => []TypeOK
<1>1. ASSUME ClientQueueInv PROVE TypeOK
  <2>1. Types /\ WriterInv /\ LimitInv /\ EveryFrameAccounted
    BY <1>1 DEF ClientQueueInv
  <2>2. queuedBytes \in Nat
    BY <2>1, BytesCounted DEF Types, EveryFrameAccounted
  <2> QED
    BY <2>1, <2>2 DEF TypeOK, Types, WriterInv, LimitInv
<1> QED
  BY <1>1, QueueInvariant, PTL

\* The frames outstanding are a sequence of frames.
LEMMA OutstandingIsSequence ==
    ASSUME ClientQueueInv
    PROVE  Outstanding \in Seq(Frames)
<1>1. Ahead \in Seq(Frames) /\ queue \in Seq(Frames)
  BY AheadFrames DEF ClientQueueInv, Types
<1> QED
  BY <1>1, ConcatProperties, OutstandingIs

\* What the peer has received, what is being written and what is queued are in
\* the order of enqueueing, however drops, partial writes, pongs and broadcasts
\* fall between each other.
THEOREM InOrder == Spec => []DeliveredInOrder
<1>1. ASSUME ClientQueueInv PROVE DeliveredInOrder
  <2>1. DOMAIN Outstanding = 1 .. Len(Outstanding)
    BY <1>1, OutstandingIsSequence, LenProperties
  <2>2. Ordered(Outstanding)
    BY <1>1 DEF ClientQueueInv, OrderInv
  <2> QED
    BY <2>1, <2>2, Zenon DEF DeliveredInOrder, Ordered
<1> QED
  BY <1>1, QueueInvariant, PTL

\* queuedBytes is the size of what is queued; every frame enqueued is received,
\* being written, queued or counted as dropped; a control frame is never dropped.
THEOREM Accounted == Spec => []EveryFrameAccounted
<1>1. ASSUME ClientQueueInv PROVE EveryFrameAccounted
  BY <1>1 DEF ClientQueueInv
<1> QED
  BY <1>1, QueueInvariant, PTL

\* In terms of the queue: what a step drops is older than any audio left, and would
\* not have fitted.
LEMMA StepDrops ==
    ASSUME ClientQueueInv, [Next]_vars, NEW n \in Dropped
    PROVE  /\ queuedBytes' + AudioSize > QueueLimit
           /\ \A h \in FramesOf(queue') : h.droppable => n < h.id
<1>0. Types /\ WriterInv /\ OrderInv /\ ControlInv /\ LimitInv /\ EveryFrameAccounted
  BY DEF ClientQueueInv
<1>1. queue \in Seq(Frames) /\ next \in Nat
  BY <1>0 DEF Types
<1>2. /\ n \in {f.id : f \in FramesOf(queue)} \/ n \in next .. next' - 1
      /\ n \notin Numbers(Outstanding')
  BY <1>1, NumbersAre DEF Dropped
<1>3. Numbers(Outstanding') = {f.id : f \in FramesOf(Outstanding')}
  <2>1. ClientQueueInv'
    BY StepInv
  <2>2. Types' /\ WriterInv'
    BY <2>1 DEF ClientQueueInv
  <2>3. wire' \in Seq(Frames) /\ queue' \in Seq(Frames) /\ Held(writing') \in Seq(Frames)
    BY <2>2, HeldFrames DEF Types, WriterInv
  <2>4. wire' \o Held(writing') \in Seq(Frames)
    BY <2>3, ConcatProperties
  <2>5. (wire' \o Held(writing')) \o queue' \in Seq(Frames)
    BY <2>3, <2>4, ConcatProperties
  <2>6. Outstanding' = (wire' \o Held(writing')) \o queue'
    BY Zenon DEF Outstanding, Held
  <2> QED
    BY <2>5, <2>6, NumbersAre
<1>4. ASSUME next' = next PROVE Outstanding' # Outstanding
  <2>1. PICK g \in FramesOf(queue) : g.id = n
    BY <1>1, <1>2, <1>4
  <2>2. Ahead \in Seq(Frames)
    BY <1>0, AheadFrames
  <2>3. FramesOf(Ahead \o queue) = FramesOf(Ahead) \cup FramesOf(queue)
    BY <1>1, <2>2, ConcatFrames
  <2>4. g \in FramesOf(Outstanding)
    BY <2>1, <2>3, OutstandingIs
  <2>5. g \notin FramesOf(Outstanding')
    BY <1>2, <1>3, <2>1
  <2> QED
    BY <2>4, <2>5
<1>7. ASSUME NEW f \in Frames, f.id = next, Push(f), UNCHANGED <<writing, wire>>
      PROVE  /\ queuedBytes' + AudioSize > QueueLimit
             /\ \A h \in FramesOf(queue') : h.droppable => n < h.id
  <2>1. /\ \A g \in (FramesOf(queue) \cup {f}) \ FramesOf(queue') :
              queuedBytes' + AudioSize > QueueLimit /\ BeforeAudio(g, queue')
        /\ FramesOf(queue') \subseteq FramesOf(Outstanding')
        /\ next' = next + 1
    BY <1>0, <1>7, PushStep
  <2>2. PICK g \in FramesOf(queue) \cup {f} : g.id = n
    <3>1. n \in next .. next' - 1 => n = next
      BY <1>1, <2>1
    <3> QED
      BY <1>2, <1>7, <3>1
  <2>3. g \notin FramesOf(queue')
    BY <1>2, <1>3, <2>1, <2>2
  <2> QED
    BY <2>1, <2>2, <2>3 DEF BeforeAudio
<1>8. CASE Enqueue
  <2> DEFINE f == [caller EXCEPT !.id = next]
  <2>1. caller # None /\ Push(f) /\ UNCHANGED <<writing, wire>>
    BY <1>8, Zenon DEF Enqueue
  <2>2. f \in Frames /\ f.id = next
    BY <1>0, <2>1, NumberedIsFrame
  <2> HIDE DEF f
  <2> QED
    BY <1>7, <2>1, <2>2
<1>9. CASE PumpPing
  <2> DEFINE f == Frame(FALSE)
  <2>1. Push(f) /\ UNCHANGED <<writing, wire>>
    BY <1>9, Zenon DEF PumpPing
  <2>2. f \in Frames /\ f.id = next
    BY <1>0, FrameIsFrame
  <2> HIDE DEF f
  <2> QED
    BY <1>7, <2>1, <2>2
<1>10. CASE Pop
  <2>1. next' = next
    BY <1>10 DEF Pop
  <2> QED
    BY <1>0, <1>4, <1>10, <2>1, PopOutstanding
<1>11. ASSUME NEW k \in 1 .. AudioSize + ControlSize, WriteSome(k)
       PROVE  next' = next /\ Outstanding' = Outstanding
  <2>1. cpc = "write" /\ queue' = queue /\ next' = next
    BY <1>11 DEF WriteSome
  <2>2. CASE sent + k = writing.size
    BY <1>0, <1>11, <2>1, <2>2, WrittenOutstanding DEF WriteSome
  <2>3. CASE sent + k # writing.size
    BY <1>11, <2>1, <2>3, SameOutstanding DEF WriteSome
  <2> QED
    BY <2>2, <2>3
<1>12. CASE \/ \E droppable \in BOOLEAN : Offer(droppable)
            \/ Drained \/ WriteFails \/ PumpIdle \/ PumpEnds \/ Finish \/ UNCHANGED vars
  <2>1. UNCHANGED <<wire, writing, queue, next>>
    BY <1>12 DEF Offer, Drained, WriteFails, PumpIdle, PumpEnds, Finish, vars
  <2> QED
    BY <1>4, <2>1, SameOutstanding
<1> QED
  BY <1>4, <1>8, <1>9, <1>10, <1>11, <1>12 DEF Next

\* No step drops audio while older audio stays - the frame that it pushes included -
\* or more of it than it takes.
THEOREM OldestDropped == Spec => DropsOldestOnly
<1> DEFINE A == \A n \in Dropped :
          /\ queuedBytes' + AudioSize > QueueLimit
          /\ \A j \in Droppables(queue') : n < queue'[j].id
<1>1. ASSUME ClientQueueInv, [Next]_vars PROVE A
  <2>1. SUFFICES ASSUME NEW n \in Dropped
                 PROVE  /\ queuedBytes' + AudioSize > QueueLimit
                        /\ \A j \in Droppables(queue') : n < queue'[j].id
    OBVIOUS
  <2>2. /\ queuedBytes' + AudioSize > QueueLimit
        /\ \A h \in FramesOf(queue') : h.droppable => n < h.id
    BY <1>1, <2>1, StepDrops
  <2>3. ClientQueueInv'
    BY <1>1, StepInv
  <2>4. queue' \in Seq(Frames)
    BY <2>3 DEF ClientQueueInv, Types
  <2>5. DOMAIN queue' = 1 .. Len(queue')
    BY <2>4, LenProperties
  <2>6. \A j \in Droppables(queue') : queue'[j] \in FramesOf(queue') /\ queue'[j].droppable
    BY <2>5 DEF Droppables, FramesOf, IsDroppable
  <2> QED
    BY <2>2, <2>6
<1>2. ClientQueueInv /\ [Next]_vars => [A]_vars
  BY <1>1
<1> QED
  BY <1>2, QueueInvariant, PTL DEF Spec, DropsOldestOnly

=============================================================================
