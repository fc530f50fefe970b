------------------------- MODULE Connection_proofs -------------------------
(***************************************************************************)
(* Proofs about one connection, in two parts: its thread (Connection), for *)
(* every set of requests, read and write size, send buffer, queue and      *)
(* deadline; and the parser of what the client sends (FrameParser), for    *)
(* every set of frames, stream, read size and limit.                       *)
(*                                                                         *)
(* The thread: two facts make the types and NothingAfterTornWrite          *)
(* inductive.  A thread that still reads the head has not passed its       *)
(* limit, and one that has failed to write is on its way out, or writes    *)
(* the body of an error.                                                   *)
(*                                                                         *)
(* The parser: its position is the beginning of some frame n + 1, and the  *)
(* messages returned and the message left open are what the first n frames *)
(* say.  How a frame changes what the stream says so far (OriginsNext,     *)
(* HeldNext) is what the parser does with it.                              *)
(***************************************************************************)
EXTENDS Connection, FrameParser, WellFoundedInduction, TLAPS

HeadWithinLimit == cpc = "head" => head <= MaxHead

TornIsLeaving ==
    torn => cpc \in {"finish", "done"} \/ (cpc = "write" /\ item = "errorBody")

ConnectionInv == TypeOK /\ HeadWithinLimit /\ TornIsLeaving

-----------------------------------------------------------------------------
LEMMA Sizes ==
    /\ MaxHead \in Nat \ {0} /\ Chunk \in Nat \ {0} /\ ItemSize \in Nat \ {0}
    /\ Room \in Nat \ {0} /\ QueueCap \in Nat \ {0} /\ Deadline \in Nat \ {0}
BY SizesAssumption

LEMMA InitConnection == Init => ConnectionInv
<1> SUFFICES ASSUME Init PROVE ConnectionInv
  OBVIOUS
<1>1. /\ torn \in BOOLEAN /\ upgraded \in BOOLEAN /\ exit \in BOOLEAN /\ open \in BOOLEAN
      /\ ~torn
  BY DEF Init
<1>2. TypeOK
  BY <1>1, Sizes DEF Init, TypeOK
<1> QED
  BY <1>1, <1>2, Sizes DEF Init, ConnectionInv, HeadWithinLimit, TornIsLeaving

LEMMA EnqueuedFits ==
    ASSUME queue \in 0 .. QueueCap
    PROVE  Enqueued \in 0 .. QueueCap
BY Sizes DEF Enqueued, Smaller

\* Reading the head, choosing the answer
LEMMA HeadKeeps ==
    ASSUME ConnectionInv, (\E n \in 1 .. Chunk : ReadHead(n)) \/ HeadEnds \/ Decide
    PROVE  ConnectionInv'
<1> USE DEF ConnectionInv, Goto
<1>1. ASSUME NEW n \in 1 .. Chunk, ReadHead(n) PROVE ConnectionInv'
  <2>1. request.length \in Nat
    BY RequestsAssumption DEF TypeOK
  <2>2. head' = head + n /\ cpc' = AfterRead /\ cpc = "head" /\ head \in Nat /\ head <= MaxHead
    BY <1>1 DEF ReadHead, HeadWithinLimit, TypeOK
  <2>3. head' \in 0 .. MaxHead + Chunk
    BY <2>2, Sizes
  <2>4. cpc' \in {"decide", "finish", "head"} /\ (cpc' = "head" => head' <= MaxHead)
    BY <2>1, <2>2, <2>3, Sizes DEF AfterRead
  <2>5. ~torn
    BY <2>2 DEF TornIsLeaving
  <2>6. UNCHANGED <<request, item, sent, age, torn, upgraded, queue, exit, open,
                    peer, room, asked>>
    BY <1>1 DEF ReadHead, write, peers
  <2>7. TypeOK'
    BY <2>3, <2>4, <2>6 DEF TypeOK
  <2> QED
    BY <2>4, <2>5, <2>6, <2>7 DEF HeadWithinLimit, TornIsLeaving
<1>2. CASE HeadEnds
  BY <1>2 DEF HeadEnds, write, peers, TypeOK, HeadWithinLimit, TornIsLeaving
<1>3. CASE Decide
  <2>1. /\ UNCHANGED <<request, head, torn, upgraded, queue, exit, open, peer, room, asked>>
        /\ cpc = "decide" /\ cpc' \in {"finish", "write"}
    BY <1>3 DEF Decide, StartWrite, peers
  <2>2. \/ UNCHANGED <<item, sent, age>>
        \/ /\ item' \in {"accept", "denial", "assetHead", "notFound"}
           /\ sent' = 0 /\ age' = 0
    BY <1>3 DEF Decide, StartWrite, write
  <2>3. ~torn
    BY <2>1 DEF TornIsLeaving
  <2>4. TypeOK'
    BY <2>1, <2>2, Sizes DEF TypeOK
  <2> QED
    BY <2>1, <2>3, <2>4 DEF HeadWithinLimit, TornIsLeaving
<1> QED
  BY <1>1, <1>2, <1>3

\* What the callers of writeAll do with its result
LEMMA WriteReturnsKeeps ==
    ASSUME TypeOK, cpc = "write", NEW ok \in BOOLEAN, WriteReturns(ok)
    PROVE  /\ cpc' \in {"serve", "drain", "write", "finish"}
           /\ item' \in {"none", "accept", "denial", "notFound", "errorBody", "assetHead",
                         "asset", "frame"}
           /\ sent' \in 0 .. ItemSize - 1 /\ age' \in 0 .. Deadline + 1
           /\ upgraded' \in BOOLEAN
           /\ ~ok => cpc' = "finish" \/ (cpc' = "write" /\ item' = "errorBody")
           /\ item = "errorBody" => cpc' = "finish"
<1>1. CASE item = "accept" /\ ok /\ Accepted
  BY <1>1 DEF Accepted, Goto, write, TypeOK
<1>2. CASE item = "frame" /\ ok /\ Goto("drain") /\ UNCHANGED <<write, upgraded>>
  BY <1>2 DEF Goto, write, TypeOK
<1>3. CASE item = "assetHead" /\ ok /\ StartWrite("asset") /\ UNCHANGED upgraded
  BY <1>3, Sizes DEF StartWrite, Goto, TypeOK
<1>4. CASE item \in {"denial", "notFound"} /\ StartWrite("errorBody") /\ UNCHANGED upgraded
  BY <1>4, Sizes DEF StartWrite, Goto, TypeOK
<1>5. CASE Goto("finish") /\ UNCHANGED <<write, upgraded>>
  BY <1>5 DEF Goto, write, TypeOK
<1> QED
  BY <1>1, <1>2, <1>3, <1>4, <1>5 DEF WriteReturns

LEMMA WriteKeeps ==
    ASSUME ConnectionInv, (\E n \in 1 .. ItemSize : WriteSome(n)) \/ WriteFails
    PROVE  ConnectionInv'
<1> USE DEF ConnectionInv
<1>1. ASSUME NEW n \in 1 .. ItemSize, WriteSome(n) PROVE ConnectionInv'
  <2>1. /\ cpc = "write" /\ room' = room - n /\ n <= room /\ sent + n <= ItemSize
        /\ UNCHANGED <<request, head, torn, queue, exit, open, peer, asked>>
    BY <1>1 DEF WriteSome
  <2>2. room' \in 0 .. Room
    BY <2>1, Sizes DEF TypeOK
  <2>3. torn => item = "errorBody"
    BY <2>1 DEF TornIsLeaving
  <2>4. CASE sent + n = ItemSize
    <3>1. WriteReturns(TRUE)
      BY <1>1, <2>4 DEF WriteSome
    <3>2. /\ cpc' \in {"serve", "drain", "write", "finish"}
          /\ item' \in {"none", "accept", "denial", "notFound", "errorBody", "assetHead",
                        "asset", "frame"}
          /\ sent' \in 0 .. ItemSize - 1 /\ age' \in 0 .. Deadline + 1
          /\ upgraded' \in BOOLEAN
          /\ item = "errorBody" => cpc' = "finish"
      BY <2>1, <3>1, WriteReturnsKeeps
    <3>3. TypeOK'
      BY <2>1, <2>2, <3>2 DEF TypeOK
    <3> QED
      BY <2>1, <2>3, <3>2, <3>3 DEF HeadWithinLimit, TornIsLeaving
  <2>5. CASE sent + n # ItemSize
    <3>1. sent' = sent + n /\ UNCHANGED <<cpc, item, age, upgraded>>
      BY <1>1, <2>5 DEF WriteSome
    <3>2. sent' \in 0 .. ItemSize - 1
      BY <2>1, <2>5, <3>1, Sizes DEF TypeOK
    <3>3. TypeOK'
      BY <2>1, <2>2, <3>1, <3>2 DEF TypeOK
    <3> QED
      BY <2>1, <3>1, <3>3 DEF HeadWithinLimit, TornIsLeaving
  <2> QED
    BY <2>4, <2>5
<1>2. CASE WriteFails
  <2>1. /\ cpc = "write" /\ torn' = TRUE /\ WriteReturns(FALSE)
        /\ UNCHANGED <<request, head, queue, exit, open, peer, room, asked>>
    BY <1>2 DEF WriteFails, peers
  <2>2. /\ cpc' \in {"serve", "drain", "write", "finish"}
        /\ item' \in {"none", "accept", "denial", "notFound", "errorBody", "assetHead",
                      "asset", "frame"}
        /\ sent' \in 0 .. ItemSize - 1 /\ age' \in 0 .. Deadline + 1
        /\ upgraded' \in BOOLEAN
        /\ cpc' = "finish" \/ (cpc' = "write" /\ item' = "errorBody")
    BY <2>1, WriteReturnsKeeps
  <2>3. torn' \in BOOLEAN
    BY <2>1
  <2>4. TypeOK'
    BY <2>1, <2>2, <2>3 DEF TypeOK
  <2> QED
    BY <2>2, <2>4 DEF HeadWithinLimit, TornIsLeaving
<1> QED
  BY <1>1, <1>2

\* The loop of drainQueue and pumpIncoming, and finish
LEMMA ServeKeeps ==
    ASSUME ConnectionInv,
           ServeTop \/ Pop \/ Drained \/ PumpReads \/ PumpIdle \/ PumpEnds \/ Finish
    PROVE  ConnectionInv'
<1> USE DEF ConnectionInv, Goto, HeadWithinLimit, TornIsLeaving
<1>1. CASE ServeTop
  BY <1>1 DEF ServeTop, write, peers, TypeOK
<1>2. CASE Pop
  <2>1. queue' \in 0 .. QueueCap /\ 0 \in 0 .. ItemSize - 1 /\ 0 \in 0 .. Deadline + 1
    BY <1>2, Sizes DEF Pop, TypeOK
  <2> QED
    BY <1>2, <2>1 DEF Pop, StartWrite, peers, TypeOK
<1>3. CASE Drained
  BY <1>3 DEF Drained, write, peers, TypeOK
<1>4. CASE PumpReads
  <2>1. queue' \in 0 .. QueueCap
    BY <1>4, EnqueuedFits DEF PumpReads, TypeOK
  <2> QED
    BY <1>4, <2>1 DEF PumpReads, write, TypeOK
<1>5. CASE PumpIdle \/ PumpEnds
  BY <1>5 DEF PumpIdle, PumpEnds, write, peers, TypeOK
<1>6. CASE Finish
  <2>1. upgraded' \in BOOLEAN /\ open' \in BOOLEAN
    BY <1>6 DEF Finish
  <2> QED
    BY <1>6, <2>1 DEF Finish, write, peers, TypeOK
<1> QED
  BY <1>1, <1>2, <1>3, <1>4, <1>5, <1>6

\* The other threads, the peer and the clock
LEMMA OthersKeep ==
    ASSUME ConnectionInv,
           \/ Broadcast \/ Signal \/ CloseSocket \/ PeerReads \/ Tick
           \/ \E frame \in {"ping", "text", "close"} : PeerSends(frame)
           \/ \E p \in {"reads", "stalled", "closed"} : PeerBecomes(p)
    PROVE  ConnectionInv'
<1> USE DEF ConnectionInv, HeadWithinLimit, TornIsLeaving
<1>1. CASE Broadcast
  <2>1. queue' \in 0 .. QueueCap
    BY <1>1, EnqueuedFits DEF Broadcast, TypeOK
  <2> QED
    BY <1>1, <2>1 DEF Broadcast, write, peers, TypeOK
<1>2. CASE Signal
  <2>1. exit' \in BOOLEAN
    BY <1>2 DEF Signal
  <2> QED
    BY <1>2, <2>1 DEF Signal, write, peers, TypeOK
<1>3. CASE CloseSocket
  <2>1. open' \in BOOLEAN
    BY <1>3 DEF CloseSocket
  <2> QED
    BY <1>3, <2>1 DEF CloseSocket, write, peers, TypeOK
<1>4. CASE PeerReads
  BY <1>4, Sizes DEF PeerReads, write, TypeOK
<1>5. CASE Tick
  <2>1. age' \in 0 .. Deadline + 1
    BY <1>5, Sizes DEF Tick, TypeOK
  <2> QED
    BY <1>5, <2>1 DEF Tick, peers, TypeOK
<1>6. CASE \E frame \in {"ping", "text", "close"} : PeerSends(frame)
  BY <1>6 DEF PeerSends, write, TypeOK
<1>7. CASE \E p \in {"reads", "stalled", "closed"} : PeerBecomes(p)
  BY <1>7 DEF PeerBecomes, write, TypeOK
<1> QED
  BY <1>1, <1>2, <1>3, <1>4, <1>5, <1>6, <1>7

LEMMA NextConnection == ConnectionInv /\ [Next]_vars => ConnectionInv'
<1> SUFFICES ASSUME ConnectionInv, [Next]_vars PROVE ConnectionInv'
  OBVIOUS
<1>1. CASE UNCHANGED vars
  BY <1>1 DEF vars, write, peers, ConnectionInv, TypeOK, HeadWithinLimit, TornIsLeaving
<1> QED
  BY <1>1, HeadKeeps, WriteKeeps, ServeKeeps, OthersKeep DEF Next, ConnectionStep

\* The inductive invariant, for every request and every behaviour of the peer.
THEOREM ConnectionInvHolds == Spec => []ConnectionInv
BY InitConnection, NextConnection, PTL DEF Spec

\* Every variable keeps its type; the head that a peer makes the thread keep is
\* no longer than the limit and one read.
THEOREM TypeCorrect == Spec => []TypeOK
BY ConnectionInvHolds, PTL DEF ConnectionInv

-----------------------------------------------------------------------------
\* Only a write takes room from the send buffer.
LEMMA NextWritesWhole ==
    ConnectionInv /\ [Next]_vars => [torn /\ room' < room => item = "errorBody"]_vars
<1> SUFFICES ASSUME ConnectionInv, Next, torn, room' < room
             PROVE  item = "errorBody"
  OBVIOUS
<1>1. CASE \E n \in 1 .. ItemSize : WriteSome(n)
  BY <1>1 DEF WriteSome, ConnectionInv, TornIsLeaving
<1>2. CASE PeerReads
  BY <1>2, Sizes DEF PeerReads, ConnectionInv, TypeOK
<1>3. CASE room' = room
  BY <1>3 DEF ConnectionInv, TypeOK
<1>4. (\E n \in 1 .. ItemSize : WriteSome(n)) \/ PeerReads \/ room' = room
  <2>1. CASE (\E n \in 1 .. Chunk : ReadHead(n)) \/ HeadEnds \/ Decide \/ WriteFails
    BY <2>1 DEF ReadHead, HeadEnds, Decide, WriteFails, peers
  <2>2. CASE ServeTop \/ Pop \/ Drained \/ PumpReads \/ PumpIdle \/ PumpEnds \/ Finish
    BY <2>2 DEF ServeTop, Pop, Drained, PumpReads, PumpIdle, PumpEnds, Finish, peers
  <2>3. CASE Broadcast \/ Signal \/ CloseSocket \/ Tick
    BY <2>3 DEF Broadcast, Signal, CloseSocket, Tick, peers
  <2>4. CASE \/ \E frame \in {"ping", "text", "close"} : PeerSends(frame)
             \/ \E p \in {"reads", "stalled", "closed"} : PeerBecomes(p)
    BY <2>4 DEF PeerSends, PeerBecomes
  <2> QED
    BY <2>1, <2>2, <2>3, <2>4 DEF Next, ConnectionStep
<1> QED
  BY <1>1, <1>2, <1>3, <1>4

\* After a write that failed half way the peer gets nothing more, but for the
\* body of an error page, whatever made it fail and however the peer goes on.
THEOREM NothingFollowsTornWrite == Spec => NothingAfterTornWrite
BY ConnectionInvHolds, NextWritesWhole, PTL DEF Spec, NothingAfterTornWrite

-----------------------------------------------------------------------------
(* The parser: natural numbers, by sets *)

\* The least of a set of numbers.
Least(S) == CHOOSE k \in S : \A j \in S : k <= j

\* A set of numbers has a least one.
LEMMA LeastNumber ==
    ASSUME NEW S, S \subseteq Nat, S # {}
    PROVE  Least(S) \in S /\ \A y \in S : Least(S) <= y
<1> DEFINE R == OpToRel(<, Nat)
<1>1. IsWellFoundedOn(R, Nat)
  BY NatLessThanWellFounded DEF OpToRel
<1> HIDE DEF R
<1>2. PICK x \in S : \A y \in S : ~ (<<y, x>> \in R)
  BY <1>1, WFMin, Zenon
<1>3. \A y \in S : <<y, x>> \in Nat \X Nat
  OBVIOUS
<1>4. \A y \in S : ~ (y < x)
  BY <1>2, <1>3 DEF R, OpToRel
<1>5. \A y \in S : x <= y
  BY <1>4
<1> QED
  BY <1>5, Zenon DEF Least

\* A set of numbers that has zero and with each number the next has them all.
LEMMA FromZeroOn ==
    ASSUME NEW S, 0 \in S, \A n \in Nat : n \in S => n + 1 \in S
    PROVE  Nat \subseteq S
<1> DEFINE T == Nat \ S
<1>1. SUFFICES ASSUME T # {} PROVE FALSE
  OBVIOUS
<1>2. T \subseteq Nat
  OBVIOUS
<1> DEFINE m == Least(T)
<1>3. m \in T /\ \A y \in T : m <= y
  BY <1>1, <1>2, LeastNumber
<1> HIDE DEF m
<1>4. m \in Nat /\ m # 0 /\ m \notin S
  BY <1>3
<1>5. m - 1 \in Nat /\ m - 1 + 1 = m /\ ~(m <= m - 1)
  BY <1>4
<1>6. m - 1 \in S
  BY <1>3, <1>5
<1> QED
  BY <1>4, <1>5, <1>6

-----------------------------------------------------------------------------
(* Where the frames begin *)

\* g[i] is the bytes of the first i frames of s, for up to n of them.
Counts(g, s, n) == g = [i \in 0 .. n |-> IF i = 0 THEN 0 ELSE g[i - 1] + FrameLength(s[i])]

\* The recursion of BytesOf defines a function, however far it goes.
LEMMA CountsExists ==
    ASSUME NEW s, NEW n \in Nat
    PROVE  \E g : Counts(g, s, n)
<1> DEFINE S == {m \in Nat : \E g : Counts(g, s, m)}
<1>1. 0 \in S
  <2> DEFINE g == [i \in 0 .. 0 |-> 0]
  <2>1. g = [i \in 0 .. 0 |-> IF i = 0 THEN 0 ELSE g[i - 1] + FrameLength(s[i])]
    OBVIOUS
  <2>2. Counts(g, s, 0)
    BY <2>1, Zenon DEF Counts
  <2> QED
    BY <2>2
<1>2. ASSUME NEW m \in Nat, m \in S
      PROVE  m + 1 \in S
  <2>1. PICK g : Counts(g, s, m)
    BY <1>2
  <2> DEFINE h == [i \in 0 .. m + 1 |-> IF i = m + 1 THEN g[m] + FrameLength(s[i]) ELSE g[i]]
  <2>2. g = [i \in 0 .. m |-> IF i = 0 THEN 0 ELSE g[i - 1] + FrameLength(s[i])]
    BY <2>1, Zenon DEF Counts
  <2>3. \A i \in 0 .. m + 1 : h[i] = IF i = 0 THEN 0 ELSE h[i - 1] + FrameLength(s[i])
    <3>1. ASSUME NEW i \in 0 .. m + 1
          PROVE  h[i] = IF i = 0 THEN 0 ELSE h[i - 1] + FrameLength(s[i])
      <4>1. CASE i = m + 1
        <5>1. h[i] = g[m] + FrameLength(s[i]) /\ h[i - 1] = g[m] /\ i # 0
          BY <4>1
        <5> QED
          BY <5>1
      <4>2. CASE i \in 1 .. m
        <5>1. h[i] = g[i] /\ h[i - 1] = g[i - 1] /\ i # 0 /\ i \in 0 .. m
          BY <4>2
        <5> HIDE DEF h
        <5>2. g[i] = g[i - 1] + FrameLength(s[i])
          BY <2>2, <5>1
        <5> QED
          BY <5>1, <5>2
      <4>3. CASE i = 0
        <5>1. h[0] = g[0] /\ 0 \in 0 .. m
          OBVIOUS
        <5> QED
          BY <2>2, <4>3, <5>1
      <4> QED
        BY <4>1, <4>2, <4>3
    <3> QED
      BY <3>1
  <2>4. h = [i \in 0 .. m + 1 |-> h[i]]
    OBVIOUS
  <2> HIDE DEF h
  <2>5. h = [i \in 0 .. m + 1 |-> IF i = 0 THEN 0 ELSE h[i - 1] + FrameLength(s[i])]
    BY <2>3, <2>4
  <2>6. Counts(h, s, m + 1)
    BY <2>5, Zenon DEF Counts
  <2> QED
    BY <2>6
<1> HIDE DEF S
<1>3. Nat \subseteq S
  BY <1>1, <1>2, FromZeroOn
<1> QED
  BY <1>3 DEF S

\* BytesOf is the last value of such a function.
LEMMA BytesAreCounted ==
    ASSUME NEW s, NEW n \in Nat
    PROVE  \E g : Counts(g, s, n) /\ BytesOf(s, n) = g[n]
<1> DEFINE g == CHOOSE f : f = [i \in 0 .. n |-> IF i = 0 THEN 0 ELSE f[i - 1] + FrameLength(s[i])]
<1>1. g = CHOOSE f : Counts(f, s, n)
  BY Zenon DEF Counts
<1>2. BytesOf(s, n) = g[n]
  BY Zenon DEF BytesOf
<1> HIDE DEF g
<1>3. Counts(g, s, n)
  BY <1>1, CountsExists, Zenon
<1> QED
  BY <1>2, <1>3

\* What g and h count for the same frame is the same, however far they go.
LEMMA CountsAgree ==
    ASSUME NEW s, NEW k \in Nat, NEW l \in Nat, NEW g, NEW h, Counts(g, s, k), Counts(h, s, l)
    PROVE  \A i \in Nat : i <= k /\ i <= l => g[i] = h[i]
<1> DEFINE S == {m \in Nat : m <= k /\ m <= l => g[m] = h[m]}
<1>0. /\ g = [i \in 0 .. k |-> IF i = 0 THEN 0 ELSE g[i - 1] + FrameLength(s[i])]
      /\ h = [i \in 0 .. l |-> IF i = 0 THEN 0 ELSE h[i - 1] + FrameLength(s[i])]
  BY Zenon DEF Counts
<1>1. 0 \in S
  BY <1>0
<1>2. ASSUME NEW m \in Nat, m \in S
      PROVE  m + 1 \in S
  <2>1. SUFFICES ASSUME m + 1 <= k, m + 1 <= l
                 PROVE  g[m + 1] = h[m + 1]
    OBVIOUS
  <2>2. m + 1 \in 0 .. k /\ m + 1 \in 0 .. l /\ m + 1 # 0 /\ (m + 1) - 1 = m
    BY <2>1
  <2>3. g[m] = h[m]
    BY <1>2, <2>1
  <2>4. g[m + 1] = g[m] + FrameLength(s[m + 1])
    BY <1>0, <2>2
  <2>5. h[m + 1] = h[m] + FrameLength(s[m + 1])
    BY <1>0, <2>2
  <2> QED
    BY <2>3, <2>4, <2>5
<1> HIDE DEF S
<1>3. Nat \subseteq S
  BY <1>1, <1>2, FromZeroOn
<1> QED
  BY <1>3 DEF S

\* BytesOf, one frame at a time.
LEMMA BytesStep ==
    ASSUME NEW s, NEW n \in Nat
    PROVE  BytesOf(s, 0) = 0 /\ BytesOf(s, n + 1) = BytesOf(s, n) + FrameLength(s[n + 1])
<1>1. BytesOf(s, 0) = 0
  <2>1. PICK g : Counts(g, s, 0) /\ BytesOf(s, 0) = g[0]
    BY BytesAreCounted
  <2>2. g = [i \in 0 .. 0 |-> IF i = 0 THEN 0 ELSE g[i - 1] + FrameLength(s[i])]
    BY <2>1, Zenon DEF Counts
  <2> QED
    BY <2>1, <2>2
<1>2. PICK g : Counts(g, s, n) /\ BytesOf(s, n) = g[n]
  BY BytesAreCounted
<1>3. n + 1 \in Nat
  OBVIOUS
<1>4. PICK h : Counts(h, s, n + 1) /\ BytesOf(s, n + 1) = h[n + 1]
  BY <1>3, BytesAreCounted, Zenon
<1>5. g[n] = h[n]
  BY <1>2, <1>3, <1>4, CountsAgree
<1>6. h[n + 1] = h[n] + FrameLength(s[n + 1])
  <2>1. h = [i \in 0 .. n + 1 |-> IF i = 0 THEN 0 ELSE h[i - 1] + FrameLength(s[i])]
    BY <1>4, Zenon DEF Counts
  <2>2. n + 1 \in 0 .. n + 1 /\ n + 1 # 0 /\ (n + 1) - 1 = n
    OBVIOUS
  <2> QED
    BY <2>1, <2>2
<1> QED
  BY <1>1, <1>2, <1>4, <1>5, <1>6

Streams == [1 .. StreamLength -> Frames]

LEMMA Limits ==
    /\ maxPayloadSize \in Nat /\ Threshold \in Nat /\ ReadSize \in Nat /\ StreamLength \in Nat
    /\ StreamLength >= 1 /\ ReadSize >= 1
BY LimitsAssumption

\* The bounds of a frame's length, header and mask included.
LEMMA FrameIs ==
    ASSUME NEW f \in Frames
    PROVE  /\ f.fin \in BOOLEAN /\ f.masked \in BOOLEAN
           /\ f.opcode \in Opcodes /\ f.size \in Nat
           /\ HeaderLength(f) \in 2 .. 10
           /\ FrameLength(f) \in Nat /\ FrameLength(f) >= HeaderLength(f)
           /\ Admissible(f) => FrameLength(f) <= 14 + maxPayloadSize
<1>1. /\ f.fin \in BOOLEAN /\ f.masked \in BOOLEAN
      /\ f.opcode \in Opcodes /\ f.size \in Nat /\ f.ext \in {0, 2, 8}
  BY FramesAssumption
<1>2. HeaderLength(f) \in 2 .. 10
  BY <1>1 DEF HeaderLength
<1>3. (IF f.masked THEN 4 ELSE 0) \in {0, 4}
  BY <1>1
<1> DEFINE mask == IF f.masked THEN 4 ELSE 0
<1>4. FrameLength(f) = HeaderLength(f) + mask + f.size
  BY DEF FrameLength
<1> HIDE DEF mask
<1>5. mask \in {0, 4}
  BY <1>3 DEF mask
<1>6. FrameLength(f) \in Nat /\ FrameLength(f) >= HeaderLength(f)
  BY <1>1, <1>2, <1>4, <1>5
<1>7. Admissible(f) => FrameLength(f) <= 14 + maxPayloadSize
  BY <1>1, <1>2, <1>4, <1>5, Limits DEF Admissible
<1> QED
  BY <1>1, <1>2, <1>6, <1>7

LEMMA BytesAre ==
    ASSUME NEW s \in Streams
    PROVE  \A n \in 0 .. StreamLength : BytesOf(s, n) \in Nat
<1> DEFINE S == {n \in Nat : n <= StreamLength => BytesOf(s, n) \in Nat}
<1>1. 0 \in S
  BY BytesStep
<1>2. ASSUME NEW n \in Nat, n \in S
      PROVE  n + 1 \in S
  <2>1. SUFFICES ASSUME n + 1 <= StreamLength
                 PROVE  BytesOf(s, n + 1) \in Nat
    OBVIOUS
  <2>2. n + 1 \in 1 .. StreamLength /\ n <= StreamLength
    BY <2>1, Limits
  <2>3. FrameLength(s[n + 1]) \in Nat
    BY <2>2, FrameIs DEF Streams
  <2>4. BytesOf(s, n) \in Nat
    BY <1>2, <2>2
  <2> QED
    BY <2>3, <2>4, BytesStep
<1> HIDE DEF S
<1>3. Nat \subseteq S
  BY <1>1, <1>2, FromZeroOn
<1> QED
  BY <1>3, Limits DEF S

\* Later frames begin later, each after the whole of those before it.
LEMMA BytesGrow ==
    ASSUME NEW s \in Streams, NEW i \in 0 .. StreamLength, NEW j \in 0 .. StreamLength, i < j
    PROVE  BytesOf(s, i) + FrameLength(s[i + 1]) <= BytesOf(s, j)
<1> DEFINE S == {d \in Nat : (i + 1) + d <= StreamLength =>
                    BytesOf(s, i) + FrameLength(s[i + 1]) <= BytesOf(s, (i + 1) + d)}
<1>0. i \in Nat /\ BytesOf(s, i) \in Nat /\ i + 1 \in 1 .. StreamLength
      /\ FrameLength(s[i + 1]) \in Nat
  BY BytesAre, FrameIs, Limits DEF Streams
<1>1. 0 \in S
  <2>1. BytesOf(s, (i + 1) + 0) = BytesOf(s, i) + FrameLength(s[i + 1])
    <3>1. (i + 1) + 0 = i + 1
      BY <1>0
    <3> QED
      BY <1>0, <3>1, BytesStep
  <2> QED
    BY <1>0, <2>1
<1>2. ASSUME NEW d \in Nat, d \in S
      PROVE  d + 1 \in S
  <2>1. SUFFICES ASSUME (i + 1) + (d + 1) <= StreamLength
                 PROVE  BytesOf(s, i) + FrameLength(s[i + 1]) <= BytesOf(s, (i + 1) + (d + 1))
    OBVIOUS
  <2> DEFINE e == (i + 1) + d
  <2>2. /\ e \in Nat /\ e \in 0 .. StreamLength /\ e + 1 \in 1 .. StreamLength
        /\ (i + 1) + (d + 1) = e + 1
    BY <1>0, <2>1, Limits
  <2>3. BytesOf(s, i) + FrameLength(s[i + 1]) <= BytesOf(s, e)
    BY <1>2, <2>2, Limits
  <2> HIDE DEF e
  <2>4. FrameLength(s[e + 1]) \in Nat /\ BytesOf(s, e) \in Nat
    BY <2>2, FrameIs, BytesAre DEF Streams
  <2>5. BytesOf(s, e + 1) = BytesOf(s, e) + FrameLength(s[e + 1])
    BY <2>2, BytesStep
  <2> QED
    BY <1>0, <2>2, <2>3, <2>4, <2>5
<1> HIDE DEF S
<1>3. Nat \subseteq S
  BY <1>1, <1>2, FromZeroOn
<1>4. j - (i + 1) \in Nat /\ (i + 1) + (j - (i + 1)) = j /\ j <= StreamLength
  BY Limits
<1>5. j - (i + 1) \in S
  BY <1>3, <1>4
<1> QED
  BY <1>4, <1>5 DEF S

-----------------------------------------------------------------------------
(* Numbers in ascending order                                                *)

LEMMA AscendsOne ==
    ASSUME NEW k \in Nat
    PROVE  Ascends(<<k>>, {k})
BY DEF Ascends

\* A number above all the others comes last.
LEMMA AscendsAppend ==
    ASSUME NEW T, T \subseteq Nat, NEW q \in Seq(T), NEW S, NEW k \in Nat,
           Ascends(q, S), \A j \in S : j < k
    PROVE  Ascends(Append(q, k), S \cup {k})
<1> DEFINE r == Append(q, k)
<1>1. /\ Len(q) \in Nat /\ DOMAIN q = 1 .. Len(q) /\ DOMAIN r = 1 .. Len(q) + 1
      /\ r[Len(q) + 1] = k
      /\ \A i \in 1 .. Len(q) : r[i] = q[i]
  OBVIOUS
<1>2. /\ \A i \in 1 .. Len(q) : q[i] \in S
      /\ \A j \in S : \E i \in 1 .. Len(q) : q[i] = j
      /\ \A i, j \in 1 .. Len(q) : i < j => q[i] < q[j]
  BY <1>1 DEF Ascends
<1> HIDE DEF r
<1>3. \A i, j \in DOMAIN r : i < j => r[i] < r[j]
  <2>1. SUFFICES ASSUME NEW i \in DOMAIN r, NEW j \in DOMAIN r, i < j
                 PROVE  r[i] < r[j]
    OBVIOUS
  <2>2. i \in 1 .. Len(q) /\ r[i] = q[i] /\ q[i] \in S
    BY <1>1, <1>2, <2>1
  <2>3. CASE j = Len(q) + 1
    BY <1>1, <2>2, <2>3
  <2>4. CASE j \in 1 .. Len(q)
    BY <1>1, <1>2, <2>1, <2>2, <2>4
  <2> QED
    BY <1>1, <2>3, <2>4
<1>4. {r[i] : i \in DOMAIN r} = S \cup {k}
  <2>1. ASSUME NEW x, x \in {r[i] : i \in DOMAIN r}
        PROVE  x \in S \cup {k}
    BY <1>1, <1>2, <2>1
  <2>2. ASSUME NEW x \in S
        PROVE  x \in {r[i] : i \in DOMAIN r}
    <3>1. PICK i \in 1 .. Len(q) : q[i] = x
      BY <1>2
    <3>2. i \in DOMAIN r /\ r[i] = x
      BY <1>1, <3>1
    <3> QED
      BY <3>2
  <2>3. k \in {r[i] : i \in DOMAIN r}
    BY <1>1
  <2> QED
    BY <2>1, <2>2, <2>3
<1> QED
  BY <1>3, <1>4 DEF Ascends, r

-----------------------------------------------------------------------------
(* The reading of a stream, one frame at a time                              *)

\* A frame that begins a fragmented message, and one that leaves open what is open.
Starts(f) == IsData(f) /\ ~f.fin
Passes(f) == (IsData(f) => f.fin) /\ (f.opcode = "continuation" => ~f.fin)

LEMMA OriginsAre ==
    ASSUME NEW s, NEW k
    PROVE  Origins(s, k) =
               {j \in 1 .. k - 1 : Starts(s[j]) /\ \A i \in j + 1 .. k - 1 : Passes(s[i])}
BY Zenon DEF Origins, Starts, Passes

\* At most one message is unfinished at a time.
LEMMA OneOrigin ==
    ASSUME NEW s, NEW k \in Nat, NEW i \in Origins(s, k), NEW j \in Origins(s, k)
    PROVE  i = j
<1>1. \A a, b \in Origins(s, k) : ~(a < b)
  <2>1. SUFFICES ASSUME NEW a \in Origins(s, k), NEW b \in Origins(s, k), a < b
                 PROVE  FALSE
    OBVIOUS
  <2>2. Passes(s[b]) /\ Starts(s[b])
    BY <2>1, OriginsAre
  <2> QED
    BY <2>2, Zenon DEF Passes, Starts
<1>2. i \in 1 .. k - 1 /\ j \in 1 .. k - 1
  BY OriginsAre
<1> QED
  BY <1>1, <1>2

\* What frame k does to the unfinished message.
LEMMA OriginsNext ==
    ASSUME NEW s, NEW k \in Nat, k >= 1
    PROVE  /\ Origins(s, k) \subseteq 1 .. k - 1
           /\ Passes(s[k]) /\ ~Starts(s[k]) => Origins(s, k + 1) = Origins(s, k)
           /\ ~Passes(s[k]) /\ ~Starts(s[k]) => Origins(s, k + 1) = {}
           /\ ~Passes(s[k]) /\ Starts(s[k]) => Origins(s, k + 1) = {k}
<1>1. \A j : j \in Origins(s, k) <=>
             j \in 1 .. k - 1 /\ Starts(s[j]) /\ \A i \in j + 1 .. k - 1 : Passes(s[i])
  BY OriginsAre
<1>2. \A j : j \in Origins(s, k + 1) <=>
             j \in 1 .. k /\ Starts(s[j]) /\ \A i \in j + 1 .. k : Passes(s[i])
  <2>1. (k + 1) - 1 = k
    OBVIOUS
  <2> QED
    BY <2>1, OriginsAre
<1>3. \A j \in 1 .. k - 1 :
         (\A i \in j + 1 .. k : Passes(s[i])) <=>
         (Passes(s[k]) /\ \A i \in j + 1 .. k - 1 : Passes(s[i]))
  OBVIOUS
<1>4. \A j \in 1 .. k : j = k \/ j \in 1 .. k - 1
  OBVIOUS
<1>5. \A j \in 1 .. k - 1 : j \in 1 .. k
  OBVIOUS
<1>6. ASSUME Passes(s[k]), ~Starts(s[k]), NEW j
      PROVE  j \in Origins(s, k + 1) <=> j \in Origins(s, k)
  BY <1>1, <1>2, <1>3, <1>4, <1>5, <1>6, Zenon
<1>7. ASSUME ~Passes(s[k]), NEW j \in Origins(s, k + 1)
      PROVE  j = k
  BY <1>2, <1>3, <1>4, <1>7, Zenon
<1>8. ASSUME Starts(s[k])
      PROVE  k \in Origins(s, k + 1)
  <2>1. k \in 1 .. k /\ k + 1 .. k = {}
    OBVIOUS
  <2> QED
    BY <1>2, <1>8, <2>1
<1>9. ~Starts(s[k]) => k \notin Origins(s, k + 1)
  BY <1>2
<1> QED
  BY <1>1, <1>6, <1>7, <1>8, <1>9

\* The parts that the unfinished message has, likewise.
LEMMA HeldIs ==
    ASSUME NEW s, NEW k \in Nat
    PROVE  \A i : i \in Held(s, k) <=>
               \/ i \in Origins(s, k)
               \/ i \in 1 .. k - 1 /\ s[i].opcode = "continuation" /\ \A j \in Origins(s, k) : j < i
BY Zenon DEF Held

LEMMA HeldBefore ==
    ASSUME NEW s, NEW k \in Nat, k >= 1
    PROVE  Held(s, k) \subseteq 1 .. k - 1
BY HeldIs, OriginsNext

LEMMA HeldNext ==
    ASSUME NEW s, NEW k \in Nat, k >= 1
    PROVE  /\ Passes(s[k]) /\ ~Starts(s[k]) /\ s[k].opcode # "continuation"
                  => Held(s, k + 1) = Held(s, k)
           /\ Passes(s[k]) /\ ~Starts(s[k]) /\ s[k].opcode = "continuation"
                  => Held(s, k + 1) = Held(s, k) \cup {k}
           /\ ~Passes(s[k]) /\ Starts(s[k]) => Held(s, k + 1) = {k}
<1>1. \A i : i \in Held(s, k + 1) <=>
               \/ i \in Origins(s, k + 1)
               \/ i \in 1 .. k /\ s[i].opcode = "continuation" /\ \A j \in Origins(s, k + 1) : j < i
  <2>1. (k + 1) - 1 = k /\ k + 1 \in Nat
    OBVIOUS
  <2> QED
    BY <2>1, HeldIs
<1>2. \A i : i \in 1 .. k <=> i = k \/ i \in 1 .. k - 1
  OBVIOUS
<1>3. \A j \in Origins(s, k) : j < k
  BY OriginsNext
<1>4. ASSUME Passes(s[k]), ~Starts(s[k])
      PROVE  \A i : i \in Held(s, k + 1) <=>
                    i \in Held(s, k) \/ (i = k /\ s[k].opcode = "continuation")
  <2>1. Origins(s, k + 1) = Origins(s, k)
    BY <1>4, OriginsNext
  <2> QED
    BY <1>1, <1>2, <1>3, <2>1, HeldIs, Zenon
<1>5. ASSUME ~Passes(s[k]), Starts(s[k])
      PROVE  Held(s, k + 1) = {k}
  <2>1. Origins(s, k + 1) = {k}
    BY <1>5, OriginsNext
  <2>2. \A i \in 1 .. k : ~(k < i)
    OBVIOUS
  <2> QED
    BY <1>1, <2>1, <2>2
<1> QED
  BY <1>4, <1>5

\* What a frame of each kind does to the unfinished message.
LEMMA Kinds ==
    ASSUME NEW f
    PROVE  /\ IsControl(f) => Passes(f) /\ ~Starts(f) /\ f.opcode # "continuation"
           /\ IsData(f) /\ f.fin => Passes(f) /\ ~Starts(f) /\ f.opcode # "continuation"
           /\ IsData(f) /\ ~f.fin => ~Passes(f) /\ Starts(f) /\ f.opcode # "continuation"
           /\ IsData(f) => ~IsControl(f) /\ f.opcode # "close"
           /\ f.opcode = "continuation" =>
                 /\ ~Starts(f) /\ ~IsControl(f) /\ f.opcode # "close"
                 /\ Passes(f) = ~f.fin
<1>1. /\ IsControl(f) => f.opcode \in {"close", "ping", "pong"}
      /\ IsData(f) => f.opcode \in {"text", "binary", "reserved"}
      /\ f.opcode = "close" => IsControl(f)
  BY Zenon DEF IsControl, IsData
<1>2. /\ IsControl(f) => ~IsData(f) /\ f.opcode # "continuation"
      /\ IsData(f) => ~IsControl(f) /\ f.opcode # "continuation" /\ f.opcode # "close"
      /\ f.opcode = "continuation" => ~IsData(f) /\ ~IsControl(f) /\ f.opcode # "close"
  BY <1>1
<1> QED
  BY <1>2, Zenon DEF Passes, Starts

\* The frames up to n neither break the protocol nor close.
Clear(s, n) == \A j \in 1 .. n : ~LastFrame(s, j)

\* The message is the one that its last frame completes.
IsMessage(s, message) ==
    /\ message.opcode = OpcodeOf(s, Completing(message))
    /\ Ascends(message.parts, PartsOf(s, Completing(message)))

\* The messages are those that the first n frames complete.
Told(s, told, n) ==
    /\ Ascends([i \in DOMAIN told |-> Completing(told[i])], {k \in 1 .. n : Completes(s, k)})
    /\ \A i \in DOMAIN told : IsMessage(s, told[i])

\* assembling, assemblyOpcode and assembly are what the first n frames left open.
Assembles(s, unfinished, opcode, parts, n) ==
    /\ unfinished = (Origins(s, n + 1) # {})
    /\ unfinished => /\ Ascends(parts, Held(s, n + 1))
                     /\ \E j \in Origins(s, n + 1) : opcode = s[j].opcode

LEMMA NotTold ==
    ASSUME NEW s, NEW told, NEW n \in Nat, Told(s, told, n), ~Completes(s, n + 1)
    PROVE  Told(s, told, n + 1)
<1>1. {k \in 1 .. n + 1 : Completes(s, k)} = {k \in 1 .. n : Completes(s, k)}
  OBVIOUS
<1> QED
  BY <1>1, Zenon DEF Told

LEMMA TellOne ==
    ASSUME NEW s, NEW T, NEW told \in Seq(T), NEW n \in Nat, Told(s, told, n),
           NEW message, Completes(s, n + 1),
           Completing(message) = n + 1, IsMessage(s, message)
    PROVE  Told(s, Append(told, message), n + 1)
<1> DEFINE all == Append(told, message)
           before == [i \in DOMAIN told |-> Completing(told[i])]
           after == [i \in DOMAIN all |-> Completing(all[i])]
           S == {k \in 1 .. n : Completes(s, k)}
<1>1. /\ Len(told) \in Nat /\ DOMAIN told = 1 .. Len(told) /\ DOMAIN all = 1 .. Len(told) + 1
      /\ all[Len(told) + 1] = message
      /\ \A i \in 1 .. Len(told) : all[i] = told[i]
  <2>1. \A U : \A q \in Seq(U) : \A x :
            /\ Len(q) \in Nat /\ DOMAIN q = 1 .. Len(q) /\ DOMAIN Append(q, x) = 1 .. Len(q) + 1
            /\ Append(q, x)[Len(q) + 1] = x
            /\ \A i \in 1 .. Len(q) : Append(q, x)[i] = q[i]
    OBVIOUS
  <2> QED
    BY <2>1
<1>2. Ascends(before, S) /\ \A i \in DOMAIN told : IsMessage(s, told[i])
  BY Zenon DEF Told
<1> HIDE DEF all
<1>3. /\ DOMAIN before = 1 .. Len(told) /\ DOMAIN after = 1 .. Len(told) + 1
      /\ after[Len(told) + 1] = n + 1
      /\ \A i \in 1 .. Len(told) : after[i] = before[i]
  BY <1>1
<1>4. S \subseteq Nat /\ \A j \in S : j < n + 1
  OBVIOUS
<1>5. {k \in 1 .. n + 1 : Completes(s, k)} = S \cup {n + 1}
  OBVIOUS
<1>7. \A i \in 1 .. Len(told) : before[i] \in S
  BY <1>2, <1>3, Zenon DEF Ascends
<1> HIDE DEF S
<1>8. before = [i \in 1 .. Len(told) |-> before[i]] /\ after = [i \in 1 .. Len(told) + 1 |-> after[i]]
  BY <1>1
<1> HIDE DEF before, after
<1>9. before \in Seq(S)
  BY <1>1, <1>7, <1>8
<1>10. Len(before) = Len(told)
  BY <1>1, <1>3, <1>9
<1>11. after = Append(before, n + 1)
  <2> DEFINE r == Append(before, n + 1)
  <2>1. /\ r = [i \in 1 .. Len(told) + 1 |-> r[i]]
        /\ r[Len(told) + 1] = n + 1
        /\ \A i \in 1 .. Len(told) : r[i] = before[i]
    BY <1>1, <1>9, <1>10
  <2> HIDE DEF r
  <2>2. \A i \in 1 .. Len(told) + 1 : i \in 1 .. Len(told) \/ i = Len(told) + 1
    BY <1>1
  <2>3. \A i \in 1 .. Len(told) + 1 : after[i] = r[i]
    BY <1>3, <2>1, <2>2
  <2>4. after = r
    BY <1>8, <2>1, <2>3
  <2> QED
    BY <2>4 DEF r
<1>12. Ascends(after, S \cup {n + 1})
  <2>1. n + 1 \in Nat
    OBVIOUS
  <2> QED
    BY <1>2, <1>4, <1>9, <1>11, <2>1, AscendsAppend
<1>13. \A i \in DOMAIN all : IsMessage(s, all[i])
  <2>1. \A i \in 1 .. Len(told) + 1 : i \in 1 .. Len(told) \/ i = Len(told) + 1
    BY <1>1
  <2> QED
    BY <1>1, <1>2, <2>1
<1>14. Told(s, all, n + 1)
  BY <1>5, <1>12, <1>13, Zenon DEF Told, after
<1> QED
  BY <1>14 DEF all

-----------------------------------------------------------------------------
(* The invariant                                                             *)

\* pump ended at frame m: the last one taken, or the next one, whose header is bad.
EndedAt(m, n) ==
    /\ m = n \/ (m = n + 1 /\ Violates(stream, m))
    /\ Clear(stream, m - 1) /\ LastFrame(stream, m) /\ Judged(m)
    /\ errored = Violates(stream, m)

\* The first n frames have been taken, and all that they say has been done.
ParsedTo(n) ==
    /\ base + consumed = BytesOf(stream, n)
    /\ Told(stream, messages, n)
    /\ pump # "ended" => /\ Clear(stream, n) /\ errored = FALSE
                         /\ Assembles(stream, assembling, assemblyOpcode, assembly, n)
    /\ pump = "ended" => \E m \in 1 .. StreamLength : EndedAt(m, n)
    /\ pump = "read" /\ n < StreamLength => ~Judged(n + 1)

ParserInv == ParserTypeOK /\ \E n \in 0 .. StreamLength : ParsedTo(n)

Message == [opcode : Opcodes, parts : Seq(1 .. StreamLength)]

LEMMA ParserTypes ==
    ASSUME ParserTypeOK
    PROVE  /\ stream \in Streams /\ messages \in Seq(Message)
           /\ base \in Nat /\ size \in Nat /\ consumed \in Nat /\ consumed <= size
           /\ base + size <= Total /\ Total \in Nat
           /\ assembling \in BOOLEAN /\ assemblyOpcode \in Opcodes
           /\ assembly \in Seq(1 .. StreamLength)
           /\ errored \in BOOLEAN /\ pump \in {"read", "parse", "ended"}
<1>1. /\ stream \in Streams /\ messages \in Seq(Message)
      /\ assembling \in BOOLEAN /\ assemblyOpcode \in Opcodes
      /\ assembly \in Seq(1 .. StreamLength)
      /\ errored \in BOOLEAN /\ pump \in {"read", "parse", "ended"}
      /\ base \in 0 .. Total /\ size \in 0 .. Total - base /\ consumed \in 0 .. size
  BY Zenon DEF ParserTypeOK, Streams, Message
<1>2. Total \in Nat
  BY <1>1, BytesAre, Limits DEF Total
<1> QED
  BY <1>1, <1>2

LEMMA ParserInitInv == ParserInit => ParserInv
<1> SUFFICES ASSUME ParserInit PROVE ParserInv
  OBVIOUS
<1>1. /\ stream \in Streams
      /\ base = 0 /\ size = 0 /\ consumed = 0
      /\ assembling = FALSE /\ assemblyOpcode = "binary" /\ assembly = <<>>
      /\ errored = FALSE /\ pump = "read" /\ messages = <<>>
  BY Zenon DEF ParserInit, Streams
<1>2. BytesOf(stream, 0) = 0 /\ Total \in Nat
  BY <1>1, BytesStep, BytesAre, Limits DEF Total
<1>3. ParserTypeOK
  <2>1. <<>> \in Seq(1 .. StreamLength)
    OBVIOUS
  <2>2. <<>> \in Seq([opcode : Opcodes, parts : Seq(1 .. StreamLength)])
    OBVIOUS
  <2>3. /\ size < Threshold + 14 + maxPayloadSize + ReadSize
        /\ base \in 0 .. Total /\ size \in 0 .. Total - base /\ consumed \in 0 .. size
    BY <1>1, <1>2, Limits
  <2>4. "binary" \in Opcodes /\ "read" \in {"read", "parse", "ended"}
    BY DEF Opcodes
  <2>5. FALSE \in BOOLEAN
    OBVIOUS
  <2> QED
    BY <1>1, <2>1, <2>2, <2>3, <2>4, <2>5, Zenon DEF ParserTypeOK, Streams
<1>4. ParsedTo(0)
  <2>1. base + consumed = BytesOf(stream, 0)
    BY <1>1, <1>2
  <2>2. Told(stream, messages, 0)
    <3>1. DOMAIN messages = {}
      BY <1>1
    <3>2. {k \in 1 .. 0 : Completes(stream, k)} = {}
      OBVIOUS
    <3>3. Ascends([i \in {} |-> Completing(messages[i])], {})
      BY DEF Ascends
    <3> QED
      BY <3>1, <3>2, <3>3, Zenon DEF Told
  <2>3. Clear(stream, 0)
    BY DEF Clear
  <2>4. Assembles(stream, assembling, assemblyOpcode, assembly, 0)
    <3>1. 1 .. 1 - 1 = {} /\ 0 + 1 = 1
      OBVIOUS
    <3>2. Origins(stream, 0 + 1) = {}
      BY <3>1, OriginsAre
    <3>3. ~assembling
      BY <1>1
    <3> QED
      BY <1>1, <3>2, <3>3, Zenon DEF Assembles
  <2>5. ~Judged(0 + 1)
    <3>1. stream[1] \in Frames
      BY <1>1, Limits DEF Streams
    <3>2. HeaderLength(stream[1]) \in 2 .. 10 /\ FrameLength(stream[1]) \in Nat
          /\ FrameLength(stream[1]) >= HeaderLength(stream[1])
      BY <3>1, FrameIs
    <3>3. Begin(1) = 0
      BY <1>2 DEF Begin
    <3> QED
      BY <1>1, <3>2, <3>3 DEF Judged
  <2>6. pump # "ended"
    BY <1>1
  <2> QED
    BY <1>1, <2>1, <2>2, <2>3, <2>4, <2>5, <2>6, Zenon DEF ParsedTo
<1> QED
  BY <1>3, <1>4, Limits DEF ParserInv

\* The place of the parser is the beginning of one frame only.
LEMMA AtNext ==
    ASSUME ParserTypeOK, NEW n \in 0 .. StreamLength, ParsedTo(n),
           NEW k \in 1 .. StreamLength, AtFrame(k)
    PROVE  k = n + 1
<1>1. stream \in Streams /\ k - 1 \in 0 .. StreamLength /\ (k - 1) + 1 = k
  BY ParserTypes, Limits
<1>2. BytesOf(stream, k - 1) = BytesOf(stream, n)
  BY DEF AtFrame, ParsedTo, Begin
<1>3. ASSUME NEW i \in 0 .. StreamLength, NEW j \in 0 .. StreamLength, i < j
      PROVE  BytesOf(stream, i) # BytesOf(stream, j)
  <2>1. i + 1 \in 1 .. StreamLength
    BY <1>3, Limits
  <2>2. stream[i + 1] \in Frames
    BY <1>1, <2>1 DEF Streams
  <2>3. FrameLength(stream[i + 1]) \in Nat /\ FrameLength(stream[i + 1]) >= 2
    BY <2>2, FrameIs
  <2>4. BytesOf(stream, i) \in Nat /\ BytesOf(stream, j) \in Nat
    BY <1>1, BytesAre
  <2> QED
    BY <1>1, <1>3, <2>3, <2>4, BytesGrow
<1> QED
  BY <1>1, <1>2, <1>3

\* Of a frame that is not taken yet the buffer holds no more than its header, or
\* less than the whole of a frame that is admitted.
LEMMA AheadBounded ==
    ASSUME ParserTypeOK, NEW n \in 0 .. StreamLength, ParsedTo(n), pump = "read"
    PROVE  available < 14 + maxPayloadSize
<1>1. /\ stream \in Streams /\ base \in Nat /\ size \in Nat /\ consumed \in Nat
      /\ base + size <= Total
      /\ BytesOf(stream, n) \in Nat
      /\ base + consumed = BytesOf(stream, n)
  BY ParserTypes, BytesAre DEF ParsedTo
<1>2. CASE n = StreamLength
  BY <1>1, <1>2, Limits DEF Total, available
<1>3. CASE n < StreamLength
  <2>1. ~Judged(n + 1)
    BY <1>3 DEF ParsedTo
  <2>2. n + 1 \in 1 .. StreamLength /\ (n + 1) - 1 = n
    BY <1>3, Limits
  <2> DEFINE f == stream[n + 1]
  <2>3. f \in Frames
    BY <1>1, <2>2 DEF Streams
  <2> HIDE DEF f
  <2>4. ~(base + size >= BytesOf(stream, n) + IF Admissible(f) THEN FrameLength(f) ELSE HeaderLength(f))
    BY <2>1, <2>2, Zenon DEF Judged, Begin, f
  <2>5. /\ HeaderLength(f) \in 2 .. 10 /\ FrameLength(f) \in Nat
        /\ Admissible(f) => FrameLength(f) <= 14 + maxPayloadSize
    BY <2>3, FrameIs
  <2> QED
    BY <1>1, <2>4, <2>5, Limits DEF available
<1> QED
  BY <1>2, <1>3, Limits

-----------------------------------------------------------------------------
(* The steps                                                                 *)

\* One read: what push leaves is at most the tolerated prefix, what could not be
\* parsed yet, and the bytes that came.
LEMMA PushKeeps ==
    ASSUME ParserTypeOK, NEW n \in 0 .. StreamLength, ParsedTo(n),
           NEW m \in 1 .. ReadSize, Push(m)
    PROVE  ParserInv'
<1>1. /\ pump = "read" /\ base + size + m <= Total
      /\ base' = Compacted.base /\ size' = Compacted.size + m /\ consumed' = Compacted.consumed
      /\ pump' = "parse"
      /\ stream' = stream /\ assembling' = assembling /\ assemblyOpcode' = assemblyOpcode
      /\ assembly' = assembly /\ errored' = errored /\ messages' = messages
  BY Zenon DEF Push, fragments
<1>2. /\ base \in Nat /\ size \in Nat /\ consumed \in Nat /\ consumed <= size /\ m \in Nat
      /\ m <= ReadSize /\ Total \in Nat
  BY ParserTypes, Limits
<1>3. size - consumed < 14 + maxPayloadSize
  BY <1>1, AheadBounded DEF available
<1>4. /\ base' \in Nat /\ size' \in Nat /\ consumed' \in Nat /\ consumed' <= size'
      /\ base' + consumed' = base + consumed /\ base' + size' = base + size + m
      /\ size' < Threshold + 14 + maxPayloadSize + ReadSize
  <2>1. CASE (consumed > 0 /\ consumed = size) \/ consumed > Threshold
    <3>1. /\ Compacted.base = base + consumed /\ Compacted.size = size - consumed
          /\ Compacted.consumed = 0
      BY <2>1 DEF Compacted
    <3> QED
      BY <1>1, <1>2, <1>3, <3>1, Limits
  <2>2. CASE ~((consumed > 0 /\ consumed = size) \/ consumed > Threshold)
    <3>1. /\ Compacted.base = base /\ Compacted.size = size /\ Compacted.consumed = consumed
      BY <2>2 DEF Compacted
    <3> QED
      BY <1>1, <1>2, <1>3, <2>2, <3>1, Limits
  <2> QED
    BY <2>1, <2>2
<1>5. ParserTypeOK'
  <2>1. Total' = Total
    BY <1>1 DEF Total
  <2>2. base' \in 0 .. Total' /\ size' \in 0 .. Total' - base' /\ consumed' \in 0 .. size'
    BY <1>1, <1>2, <1>4, <2>1
  <2>3. pump' \in {"read", "parse", "ended"}
    BY <1>1
  <2> QED
    BY <1>1, <1>4, <2>2, <2>3, Zenon DEF ParserTypeOK
<1>6. ParsedTo(n)'
  <2>1. base' + consumed' = BytesOf(stream', n)
    BY <1>1, <1>4 DEF ParsedTo
  <2>2. Told(stream', messages', n)
    BY <1>1, Zenon DEF ParsedTo
  <2>3. /\ pump # "ended" /\ pump' # "ended" /\ pump' # "read"
    BY <1>1
  <2>4. /\ Clear(stream', n) /\ errored' = FALSE
        /\ Assembles(stream', assembling', assemblyOpcode', assembly', n)
    BY <1>1, <2>3, Zenon DEF ParsedTo
  <2> QED
    BY <2>1, <2>2, <2>3, <2>4, Zenon DEF ParsedTo
<1> QED
  BY <1>5, <1>6, Zenon DEF ParserInv

\* The parser stops before a frame that is not there in full, and reads on.
LEMMA WaitKeeps ==
    ASSUME ParserTypeOK, NEW n \in 0 .. StreamLength, ParsedTo(n),
           NeedHeader \/ \E k \in 1 .. StreamLength : NeedPayload(k)
    PROVE  ParserInv'
<1>1. /\ pump = "parse" /\ pump' = "read"
      /\ stream' = stream /\ base' = base /\ size' = size /\ consumed' = consumed
      /\ assembling' = assembling /\ assemblyOpcode' = assemblyOpcode
      /\ assembly' = assembly /\ errored' = errored /\ messages' = messages
  BY Zenon DEF NeedHeader, NeedPayload, AtFrame, buffer, fragments
<1>2. /\ stream \in Streams /\ base \in Nat /\ size \in Nat /\ consumed \in Nat
      /\ base + consumed = BytesOf(stream, n) /\ BytesOf(stream, n) \in Nat
  BY ParserTypes, BytesAre DEF ParsedTo
<1>3. ASSUME n < StreamLength
      PROVE  ~Judged(n + 1)
  <2> DEFINE k == n + 1
             f == stream[k]
  <2>1. k \in 1 .. StreamLength /\ k - 1 = n
    BY <1>3, Limits
  <2>2. f \in Frames
    BY <1>2, <2>1 DEF Streams
  <2> HIDE DEF f
  <2>3. HeaderLength(f) \in Nat /\ FrameLength(f) \in Nat /\ FrameLength(f) >= HeaderLength(f)
    BY <2>2, FrameIs
  <2>4. \/ available < HeaderLength(f)
        \/ Admissible(f) /\ available < FrameLength(f)
    <3>1. CASE NeedHeader
      <4>1. ~AtFrame(k)
        BY <2>1, <3>1, Zenon DEF NeedHeader
      <4>2. Begin(k) = base + consumed
        BY <1>2, <2>1 DEF Begin
      <4>3. ~(available >= HeaderLength(f))
        BY <1>1, <4>1, <4>2, Zenon DEF AtFrame, f
      <4> QED
        BY <1>2, <2>3, <4>3 DEF available
    <3>2. CASE \E i \in 1 .. StreamLength : NeedPayload(i)
      <4>1. PICK i \in 1 .. StreamLength : NeedPayload(i)
        BY <3>2
      <4>2. AtFrame(i) /\ Admissible(stream[i]) /\ available < FrameLength(stream[i])
        BY <4>1, Zenon DEF NeedPayload
      <4>3. i = k
        BY <4>2, AtNext
      <4> QED
        BY <4>2, <4>3, Zenon DEF f
    <3> QED
      BY <3>1, <3>2
  <2>5. Judged(k) = (base + size >= BytesOf(stream, n)
                         + IF Admissible(f) THEN FrameLength(f) ELSE HeaderLength(f))
    BY <2>1, Zenon DEF Judged, Begin, f
  <2>6. ~(base + size >= BytesOf(stream, n)
                         + IF Admissible(f) THEN FrameLength(f) ELSE HeaderLength(f))
    BY <1>2, <2>3, <2>4 DEF available
  <2> QED
    BY <2>5, <2>6, Zenon
<1>4. ParserTypeOK'
  <2>1. Total' = Total
    BY <1>1 DEF Total
  <2>2. pump' \in {"read", "parse", "ended"}
    BY <1>1
  <2> QED
    BY <1>1, <2>1, <2>2, Zenon DEF ParserTypeOK
<1>5. ParsedTo(n)'
  <2>1. base' + consumed' = BytesOf(stream', n)
    BY <1>1, <1>2
  <2>2. Told(stream', messages', n)
    BY <1>1, Zenon DEF ParsedTo
  <2>3. /\ pump # "ended" /\ pump' # "ended"
    BY <1>1
  <2>4. /\ Clear(stream', n) /\ errored' = FALSE
        /\ Assembles(stream', assembling', assemblyOpcode', assembly', n)
    BY <1>1, <2>3, Zenon DEF ParsedTo
  <2>5. n < StreamLength => ~Judged(n + 1)'
    <3>1. Judged(n + 1)' = Judged(n + 1)
      BY <1>1, Zenon DEF Judged, Begin
    <3> QED
      BY <1>3, <3>1, Zenon
  <2> QED
    BY <2>1, <2>2, <2>3, <2>4, <2>5, Zenon DEF ParsedTo
<1> QED
  BY <1>4, <1>5, Zenon DEF ParserInv

\* A bad header ends the parser before its frame.
LEMMA FailHeaderKeeps ==
    ASSUME ParserTypeOK, NEW n \in 0 .. StreamLength, ParsedTo(n),
           NEW k \in 1 .. StreamLength, FailHeader(k)
    PROVE  ParserInv'
<1>1. /\ AtFrame(k) /\ ~Admissible(stream[k])
      /\ errored' = TRUE /\ pump' = "ended"
      /\ stream' = stream /\ base' = base /\ size' = size /\ consumed' = consumed
      /\ assembling' = assembling /\ assemblyOpcode' = assemblyOpcode
      /\ assembly' = assembly /\ messages' = messages
  BY Zenon DEF FailHeader, Fail, buffer, fragments
<1>2. /\ stream \in Streams /\ base \in Nat /\ size \in Nat /\ consumed \in Nat
      /\ base + consumed = BytesOf(stream, n) /\ BytesOf(stream, n) \in Nat
  BY ParserTypes, BytesAre DEF ParsedTo
<1>3. k = n + 1 /\ k - 1 = n
  BY <1>1, AtNext
<1>4. stream[k] \in Frames
  BY <1>2 DEF Streams
<1>5. HeaderLength(stream[k]) \in Nat
  BY <1>4, FrameIs
<1>6. pump # "ended" /\ pump = "parse" /\ Begin(k) = base + consumed
      /\ available >= HeaderLength(stream[k])
  BY <1>1 DEF AtFrame
<1>7. Judged(k)
  <2>1. base + size >= Begin(k) + HeaderLength(stream[k])
    BY <1>2, <1>5, <1>6 DEF available
  <2> QED
    BY <1>1, <2>1 DEF Judged
<1>8. Violates(stream, k) = TRUE /\ LastFrame(stream, k)
  BY <1>1, Zenon DEF Violates, LastFrame
<1>9. ParserTypeOK'
  <2>1. Total' = Total
    BY <1>1 DEF Total
  <2>2. pump' \in {"read", "parse", "ended"} /\ errored' \in BOOLEAN
    BY <1>1
  <2> QED
    BY <1>1, <2>1, <2>2, Zenon DEF ParserTypeOK
<1>10. ParsedTo(n)'
  <2>1. base' + consumed' = BytesOf(stream', n)
    BY <1>1, <1>2
  <2>2. Told(stream', messages', n)
    BY <1>1, Zenon DEF ParsedTo
  <2>3. pump' = "ended" /\ pump' # "read"
    BY <1>1
  <2>4. Judged(k)'
    BY <1>1, <1>7, Zenon DEF Judged, Begin
  <2>5. Clear(stream', k - 1)
    BY <1>1, <1>3, <1>6, Zenon DEF ParsedTo
  <2>6. EndedAt(k, n)'
    BY <1>1, <1>3, <1>8, <2>4, <2>5, Zenon DEF EndedAt
  <2> QED
    BY <2>1, <2>2, <2>3, <2>6, Zenon DEF ParsedTo
<1> QED
  BY <1>9, <1>10, Zenon DEF ParserInv

\* A frame that is there in full is taken; what is left to show of the action
\* that takes it is what becomes of the messages and of the unfinished one.
LEMMA TakenIs ==
    ASSUME ParserTypeOK, NEW n \in 0 .. StreamLength, ParsedTo(n),
           NEW k \in 1 .. StreamLength, Take(k)
    PROVE  /\ k = n + 1 /\ k \in Nat /\ k >= 1 /\ n \in Nat /\ pump = "parse"
           /\ Admissible(stream[k]) /\ Judged(k)
           /\ Clear(stream, n) /\ errored = FALSE
           /\ Told(stream, messages, n)
           /\ Assembles(stream, assembling, assemblyOpcode, assembly, n)
           /\ stream' = stream /\ base' = base /\ size' = size
           /\ consumed' \in Nat /\ consumed' <= size
           /\ base' + consumed' = BytesOf(stream, k)
<1>1. /\ AtFrame(k) /\ Admissible(stream[k])
      /\ available >= FrameLength(stream[k])
      /\ consumed' = consumed + FrameLength(stream[k])
      /\ stream' = stream /\ base' = base /\ size' = size
  BY Zenon DEF Take
<1>2. /\ stream \in Streams /\ base \in Nat /\ size \in Nat /\ consumed \in Nat
      /\ base + consumed = BytesOf(stream, n) /\ BytesOf(stream, n) \in Nat
  BY ParserTypes, BytesAre DEF ParsedTo
<1>3. k = n + 1 /\ k \in Nat /\ k >= 1 /\ k - 1 = n /\ n \in Nat
  BY <1>1, AtNext
<1>4. stream[k] \in Frames
  BY <1>2 DEF Streams
<1>5. FrameLength(stream[k]) \in Nat
  BY <1>4, FrameIs
<1>6. pump = "parse" /\ pump # "ended" /\ Begin(k) = base + consumed
  BY <1>1 DEF AtFrame
<1>7. consumed' \in Nat /\ consumed' <= size
  BY <1>1, <1>2, <1>5 DEF available
<1>8. Judged(k)
  <2>1. base + size >= Begin(k) + FrameLength(stream[k])
    BY <1>1, <1>2, <1>5, <1>6 DEF available
  <2> QED
    BY <1>1, <2>1 DEF Judged
<1>9. base' + consumed' = BytesOf(stream, k)
  <2>1. BytesOf(stream, n + 1) = BytesOf(stream, n) + FrameLength(stream[n + 1])
    BY <1>3, BytesStep
  <2> QED
    BY <1>1, <1>2, <1>3, <1>5, <2>1
<1>10. /\ Clear(stream, n) /\ errored = FALSE /\ Told(stream, messages, n)
       /\ Assembles(stream, assembling, assemblyOpcode, assembly, n)
  BY <1>6, Zenon DEF ParsedTo
<1> QED
  BY <1>1, <1>3, <1>6, <1>7, <1>8, <1>9, <1>10, Zenon

LEMMA TakenKeeps ==
    ASSUME ParserTypeOK, NEW n \in 0 .. StreamLength, ParsedTo(n),
           NEW k \in 1 .. StreamLength, Take(k),
           messages' \in Seq(Message), assembling' \in BOOLEAN,
           assemblyOpcode' \in Opcodes, assembly' \in Seq(1 .. StreamLength),
           Told(stream, messages', k),
           \/ /\ pump' = "parse" /\ errored' = FALSE /\ ~LastFrame(stream, k)
              /\ Assembles(stream, assembling', assemblyOpcode', assembly', k)
           \/ /\ pump' = "ended" /\ errored' = Violates(stream, k) /\ LastFrame(stream, k)
    PROVE  ParserInv'
<1>1. /\ k = n + 1 /\ k \in Nat /\ k >= 1 /\ pump = "parse" /\ Judged(k)
      /\ Clear(stream, n)
      /\ stream' = stream /\ base' = base /\ size' = size
      /\ consumed' \in Nat /\ consumed' <= size
      /\ base' + consumed' = BytesOf(stream, k)
  BY TakenIs, Zenon
<1>2. k - 1 = n /\ k \in 0 .. StreamLength
  BY <1>1
<1>3. ParserTypeOK'
  <2>1. Total' = Total
    BY <1>1 DEF Total
  <2>2. consumed' \in 0 .. size'
    BY <1>1, ParserTypes
  <2>3. pump' \in {"read", "parse", "ended"}
    OBVIOUS
  <2>4. errored' \in BOOLEAN
    BY DEF Violates
  <2> QED
    BY <1>1, <2>1, <2>2, <2>3, <2>4, Zenon DEF ParserTypeOK, Message
<1>4. ParsedTo(k)'
  <2>1. base' + consumed' = BytesOf(stream', k)
    BY <1>1, Zenon
  <2>2. Told(stream', messages', k)
    BY <1>1, Zenon
  <2>3. pump' # "read"
    OBVIOUS
  <2>4. CASE /\ pump' = "parse" /\ errored' = FALSE /\ ~LastFrame(stream, k)
             /\ Assembles(stream, assembling', assemblyOpcode', assembly', k)
    <3>1. Clear(stream, k)
      <4>1. \A j \in 1 .. k : j = k \/ j \in 1 .. n
        BY <1>1
      <4> QED
        BY <1>1, <2>4, <4>1, Zenon DEF Clear
    <3>2. pump' # "ended"
      BY <2>4
    <3>3. /\ Clear(stream', k) /\ errored' = FALSE
          /\ Assembles(stream', assembling', assemblyOpcode', assembly', k)
      BY <1>1, <2>4, <3>1, Zenon
    <3> QED
      BY <2>1, <2>2, <2>3, <3>2, <3>3, Zenon DEF ParsedTo
  <2>5. CASE pump' = "ended" /\ errored' = Violates(stream, k) /\ LastFrame(stream, k)
    <3>1. Judged(k)'
      BY <1>1, Zenon DEF Judged, Begin
    <3>2. EndedAt(k, k)'
      BY <1>1, <1>2, <2>5, <3>1, Zenon DEF EndedAt
    <3> QED
      BY <2>1, <2>2, <2>3, <2>5, <3>2, Zenon DEF ParsedTo
  <2> QED
    BY <2>4, <2>5
<1> QED
  BY <1>2, <1>3, <1>4, Zenon DEF ParserInv

\* A message of one frame.
LEMMA WholeMessage ==
    ASSUME NEW s, NEW k \in 1 .. StreamLength, s[k].opcode \in Opcodes,
           s[k].opcode # "continuation",
           NEW message, message = [opcode |-> s[k].opcode, parts |-> <<k>>]
    PROVE  message \in Message /\ Completing(message) = k /\ IsMessage(s, message)
<1>1. <<k>> \in Seq(1 .. StreamLength) /\ Last(<<k>>) = k /\ k \in Nat
  BY DEF Last
<1>2. message.opcode = s[k].opcode /\ message.parts = <<k>> /\ message \in Message
  BY <1>1 DEF Message
<1>3. Completing(message) = k
  BY <1>1, <1>2 DEF Completing
<1>4. OpcodeOf(s, k) = s[k].opcode /\ PartsOf(s, k) = {k}
  BY Zenon DEF OpcodeOf, PartsOf
<1>5. Ascends(<<k>>, {k})
  BY <1>1, AscendsOne
<1> QED
  BY <1>2, <1>3, <1>4, <1>5, Zenon DEF IsMessage

\* Control frames are returned at once and leave the unfinished message alone.
LEMMA ControlKeeps ==
    ASSUME ParserTypeOK, NEW n \in 0 .. StreamLength, ParsedTo(n),
           NEW k \in 1 .. StreamLength, TakeControl(k)
    PROVE  ParserInv'
<1> DEFINE message == [opcode |-> stream[k].opcode, parts |-> <<k>>]
<1>1. /\ IsControl(stream[k]) /\ Take(k)
      /\ messages' = Append(messages, message)
      /\ pump' = IF stream[k].opcode = "close" THEN "ended" ELSE pump
      /\ assembling' = assembling /\ assemblyOpcode' = assemblyOpcode
      /\ assembly' = assembly /\ errored' = errored
  BY Zenon DEF TakeControl, Return, fragments
<1> HIDE DEF message
<1>2. /\ k = n + 1 /\ k \in Nat /\ k >= 1 /\ n \in Nat /\ pump = "parse"
      /\ Admissible(stream[k]) /\ errored = FALSE
      /\ Told(stream, messages, n)
      /\ Assembles(stream, assembling, assemblyOpcode, assembly, n)
  BY <1>1, TakenIs, Zenon
<1>3. /\ stream \in Streams /\ messages \in Seq(Message) /\ assembling \in BOOLEAN
      /\ assemblyOpcode \in Opcodes /\ assembly \in Seq(1 .. StreamLength)
  BY ParserTypes
<1>4. stream[k] \in Frames /\ stream[k].opcode \in Opcodes
  BY <1>3, FrameIs DEF Streams
<1>5. /\ Passes(stream[k]) /\ ~Starts(stream[k]) /\ stream[k].opcode # "continuation"
  BY <1>1, Kinds, Zenon
<1>6. Violates(stream, k) = FALSE /\ Completes(stream, k)
  BY <1>1, <1>2, <1>5, Zenon DEF Violates, Completes
<1>7. message \in Message /\ Completing(message) = k /\ IsMessage(stream, message)
  BY <1>4, <1>5, WholeMessage DEF message
<1>8. messages' \in Seq(Message)
  BY <1>1, <1>3, <1>7
<1>9. Told(stream, messages', k)
  BY <1>1, <1>2, <1>3, <1>6, <1>7, TellOne
<1>10. Assembles(stream, assembling', assemblyOpcode', assembly', k)
  <2>1. Origins(stream, k + 1) = Origins(stream, k) /\ Held(stream, k + 1) = Held(stream, k)
    BY <1>2, <1>5, OriginsNext, HeldNext
  <2> QED
    BY <1>1, <1>2, <2>1, Zenon DEF Assembles
<1>11. CASE stream[k].opcode = "close"
  <2>1. pump' = "ended" /\ errored' = Violates(stream, k) /\ LastFrame(stream, k)
    BY <1>1, <1>2, <1>6, <1>11, Zenon DEF LastFrame
  <2> QED
    BY <1>1, <1>3, <1>8, <1>9, <2>1, TakenKeeps, Zenon
<1>12. CASE stream[k].opcode # "close"
  <2>1. pump' = "parse" /\ errored' = FALSE /\ ~LastFrame(stream, k)
    BY <1>1, <1>2, <1>6, <1>12, Zenon DEF LastFrame
  <2> QED
    BY <1>1, <1>3, <1>8, <1>9, <1>10, <2>1, TakenKeeps, Zenon
<1> QED
  BY <1>11, <1>12

\* A message of one frame, which leaves an unfinished one alone as well.
LEMMA WholeKeeps ==
    ASSUME ParserTypeOK, NEW n \in 0 .. StreamLength, ParsedTo(n),
           NEW k \in 1 .. StreamLength, TakeWhole(k)
    PROVE  ParserInv'
<1> DEFINE message == [opcode |-> stream[k].opcode, parts |-> <<k>>]
<1>1. /\ IsData(stream[k]) /\ stream[k].fin /\ Take(k)
      /\ messages' = Append(messages, message)
      /\ assembling' = assembling /\ assemblyOpcode' = assemblyOpcode
      /\ assembly' = assembly /\ errored' = errored /\ pump' = pump
  BY Zenon DEF TakeWhole, Return, fragments
<1> HIDE DEF message
<1>2. /\ k = n + 1 /\ k \in Nat /\ k >= 1 /\ n \in Nat /\ pump = "parse"
      /\ Admissible(stream[k]) /\ errored = FALSE
      /\ Told(stream, messages, n)
      /\ Assembles(stream, assembling, assemblyOpcode, assembly, n)
  BY <1>1, TakenIs, Zenon
<1>3. /\ stream \in Streams /\ messages \in Seq(Message) /\ assembling \in BOOLEAN
      /\ assemblyOpcode \in Opcodes /\ assembly \in Seq(1 .. StreamLength)
  BY ParserTypes
<1>4. stream[k] \in Frames /\ stream[k].opcode \in Opcodes
  BY <1>3, FrameIs DEF Streams
<1>5. /\ Passes(stream[k]) /\ ~Starts(stream[k]) /\ stream[k].opcode # "continuation"
      /\ stream[k].opcode # "close"
  BY <1>1, Kinds, Zenon
<1>6. ~Violates(stream, k) /\ Completes(stream, k) /\ ~LastFrame(stream, k)
  BY <1>1, <1>2, <1>5, Zenon DEF Violates, Completes, LastFrame
<1>7. message \in Message /\ Completing(message) = k /\ IsMessage(stream, message)
  BY <1>4, <1>5, WholeMessage DEF message
<1>8. messages' \in Seq(Message)
  BY <1>1, <1>3, <1>7
<1>9. Told(stream, messages', k)
  BY <1>1, <1>2, <1>3, <1>6, <1>7, TellOne
<1>10. Assembles(stream, assembling', assemblyOpcode', assembly', k)
  <2>1. Origins(stream, k + 1) = Origins(stream, k) /\ Held(stream, k + 1) = Held(stream, k)
    BY <1>2, <1>5, OriginsNext, HeldNext
  <2> QED
    BY <1>1, <1>2, <2>1, Zenon DEF Assembles
<1>11. pump' = "parse" /\ errored' = FALSE
  BY <1>1, <1>2
<1> QED
  BY <1>1, <1>3, <1>6, <1>8, <1>9, <1>10, <1>11, TakenKeeps, Zenon

\* The first frame of a fragmented message; one that was open is forgotten.
LEMMA FirstKeeps ==
    ASSUME ParserTypeOK, NEW n \in 0 .. StreamLength, ParsedTo(n),
           NEW k \in 1 .. StreamLength, TakeFirst(k)
    PROVE  ParserInv'
<1>1. /\ IsData(stream[k]) /\ ~stream[k].fin /\ Take(k)
      /\ messages' = messages
      /\ assembling' = TRUE /\ assemblyOpcode' = stream[k].opcode
      /\ assembly' = <<k>> /\ errored' = errored /\ pump' = pump
  BY Zenon DEF TakeFirst
<1>2. /\ k = n + 1 /\ k \in Nat /\ k >= 1 /\ n \in Nat /\ pump = "parse"
      /\ Admissible(stream[k]) /\ errored = FALSE
      /\ Told(stream, messages, n)
  BY <1>1, TakenIs, Zenon
<1>3. /\ stream \in Streams /\ messages \in Seq(Message)
  BY ParserTypes
<1>4. stream[k] \in Frames /\ stream[k].opcode \in Opcodes
  BY <1>3, FrameIs DEF Streams
<1>5. /\ ~Passes(stream[k]) /\ Starts(stream[k]) /\ stream[k].opcode # "continuation"
      /\ stream[k].opcode # "close" /\ ~IsControl(stream[k])
  BY <1>1, Kinds, Zenon
<1>6. ~Completes(stream, k) /\ ~LastFrame(stream, k)
  BY <1>1, <1>2, <1>5, Zenon DEF Violates, Completes, LastFrame
<1>7. Told(stream, messages', k)
  BY <1>1, <1>2, <1>6, NotTold
<1>8. Assembles(stream, assembling', assemblyOpcode', assembly', k)
  <2>1. Origins(stream, k + 1) = {k} /\ Held(stream, k + 1) = {k}
    BY <1>2, <1>5, OriginsNext, HeldNext
  <2>2. Ascends(<<k>>, {k})
    BY <1>2, AscendsOne
  <2>3. {k} # {} /\ k \in {k}
    OBVIOUS
  <2> QED
    BY <1>1, <2>1, <2>2, <2>3, Zenon DEF Assembles
<1>9. /\ pump' = "parse" /\ errored' = FALSE /\ assembling' \in BOOLEAN
      /\ assemblyOpcode' \in Opcodes
  BY <1>1, <1>2, <1>4
<1>10. assembly' \in Seq(1 .. StreamLength) /\ messages' \in Seq(Message)
  BY <1>1, <1>3
<1> QED
  BY <1>1, <1>6, <1>7, <1>8, <1>9, <1>10, TakenKeeps, Zenon

\* Nothing to continue.
LEMMA FailContinuationKeeps ==
    ASSUME ParserTypeOK, NEW n \in 0 .. StreamLength, ParsedTo(n),
           NEW k \in 1 .. StreamLength, FailContinuation(k)
    PROVE  ParserInv'
<1>1. /\ stream[k].opcode = "continuation" /\ ~assembling /\ Take(k)
      /\ errored' = TRUE /\ pump' = "ended" /\ messages' = messages
      /\ assembling' = assembling /\ assemblyOpcode' = assemblyOpcode
      /\ assembly' = assembly
  BY Zenon DEF FailContinuation, Fail, fragments
<1>2. /\ k = n + 1 /\ n \in Nat
      /\ Told(stream, messages, n)
      /\ Assembles(stream, assembling, assemblyOpcode, assembly, n)
  BY <1>1, TakenIs, Zenon
<1>3. /\ messages \in Seq(Message) /\ assembling \in BOOLEAN
      /\ assemblyOpcode \in Opcodes /\ assembly \in Seq(1 .. StreamLength)
  BY ParserTypes
<1>4. Origins(stream, k) = {}
  BY <1>1, <1>2, Zenon DEF Assembles
<1>5. Violates(stream, k) = TRUE /\ LastFrame(stream, k) /\ ~Completes(stream, k)
  BY <1>1, <1>4, Zenon DEF Violates, LastFrame, Completes
<1>6. Told(stream, messages', k)
  BY <1>1, <1>2, <1>5, NotTold
<1>7. errored' = Violates(stream, k)
  BY <1>1, <1>5, Zenon
<1> QED
  BY <1>1, <1>3, <1>5, <1>6, <1>7, TakenKeeps, Zenon

\* The next part of the unfinished message, which may be its last, or too much.
LEMMA ContinueKeeps ==
    ASSUME ParserTypeOK, NEW n \in 0 .. StreamLength, ParsedTo(n),
           NEW k \in 1 .. StreamLength, Continue(k)
    PROVE  ParserInv'
<1>1. /\ stream[k].opcode = "continuation" /\ assembling /\ Take(k)
      /\ assemblyOpcode' = assemblyOpcode
  BY Zenon DEF Continue
<1>2. /\ k = n + 1 /\ k \in Nat /\ k >= 1 /\ n \in Nat /\ pump = "parse"
      /\ Admissible(stream[k]) /\ errored = FALSE
      /\ Told(stream, messages, n)
      /\ Assembles(stream, assembling, assemblyOpcode, assembly, n)
  BY <1>1, TakenIs, Zenon
<1>3. /\ stream \in Streams /\ messages \in Seq(Message)
      /\ assemblyOpcode \in Opcodes /\ assembly \in Seq(1 .. StreamLength)
  BY ParserTypes
<1>4. stream[k] \in Frames /\ stream[k].fin \in BOOLEAN
  BY <1>3, FrameIs DEF Streams
<1>5. /\ ~Starts(stream[k]) /\ ~IsControl(stream[k]) /\ stream[k].opcode # "close"
      /\ Passes(stream[k]) = ~stream[k].fin
  BY <1>1, Kinds, Zenon
<1>6. /\ Origins(stream, k) # {} /\ Ascends(assembly, Held(stream, k))
      /\ \E j \in Origins(stream, k) : assemblyOpcode = stream[j].opcode
  BY <1>1, <1>2, Zenon DEF Assembles
<1> DEFINE parts == Joined(k)
<1>7. parts = Append(assembly, k)
  BY DEF Joined
<1>8. parts \in Seq(1 .. StreamLength) /\ Last(parts) = k
  BY <1>3, <1>7 DEF Last
<1> HIDE DEF parts
<1>9. Ascends(parts, Held(stream, k) \cup {k})
  <2>1. \A j \in Held(stream, k) : j < k
    BY <1>2, HeldBefore
  <2>2. 1 .. StreamLength \subseteq Nat
    OBVIOUS
  <2> QED
    BY <1>2, <1>3, <1>6, <1>7, <2>1, <2>2, AscendsAppend
<1>10. ToSet(parts) = Held(stream, k) \cup {k}
  BY <1>9, Zenon DEF Ascends, ToSet
<1> DEFINE much == PayloadSize(stream, ToSet(parts)) > maxPayloadSize
<1>11. /\ much => LastFrame(stream, k) /\ Violates(stream, k) = TRUE /\ ~Completes(stream, k)
       /\ ~much => ~Violates(stream, k)
  BY <1>1, <1>2, <1>6, <1>10, Zenon DEF Violates, LastFrame, Completes
<1>12. /\ much => /\ errored' = TRUE /\ pump' = "ended" /\ assembly' = parts
                  /\ assembling' = assembling /\ messages' = messages
       /\ ~much => /\ errored' = errored /\ pump' = pump
                   /\ assembling' = ~stream[k].fin
                   /\ stream[k].fin => /\ messages' = Append(messages, [opcode |-> assemblyOpcode, parts |-> parts])
                                       /\ assembly' = <<>>
                   /\ ~stream[k].fin => assembly' = parts /\ messages' = messages
  BY Zenon DEF Continue, Fail, Return, parts
<1> HIDE DEF much
<1>13. CASE much
  <2>1. Told(stream, messages', k)
    BY <1>2, <1>11, <1>12, <1>13, NotTold
  <2>2. /\ pump' = "ended" /\ errored' = Violates(stream, k) /\ LastFrame(stream, k)
    BY <1>11, <1>12, <1>13, Zenon
  <2>3. /\ assembling' \in BOOLEAN /\ assembly' \in Seq(1 .. StreamLength)
        /\ messages' \in Seq(Message)
    BY <1>3, <1>8, <1>12, <1>13, ParserTypes, Zenon
  <2> QED
    BY <1>1, <1>3, <2>1, <2>2, <2>3, TakenKeeps, Zenon
<1>14. CASE ~much /\ ~stream[k].fin
  <2>1. ~Completes(stream, k) /\ ~LastFrame(stream, k)
    BY <1>5, <1>11, <1>14, Zenon DEF Completes, LastFrame
  <2>2. Told(stream, messages', k)
    BY <1>2, <1>12, <1>14, <2>1, NotTold
  <2>3. Passes(stream[k])
    BY <1>5, <1>14, Zenon
  <2>4. Origins(stream, k + 1) = Origins(stream, k) /\ Held(stream, k + 1) = Held(stream, k) \cup {k}
    BY <1>1, <1>2, <1>5, <2>3, OriginsNext, HeldNext
  <2>5. assembling' = TRUE /\ assembly' = parts
    BY <1>12, <1>14, Zenon
  <2>6. Assembles(stream, assembling', assemblyOpcode', assembly', k)
    BY <1>1, <1>6, <1>9, <2>4, <2>5, Zenon DEF Assembles
  <2>7. pump' = "parse" /\ errored' = FALSE
    BY <1>2, <1>12, <1>14, Zenon
  <2>8. /\ assembling' \in BOOLEAN /\ assembly' \in Seq(1 .. StreamLength)
        /\ messages' \in Seq(Message)
    BY <1>3, <1>8, <1>12, <1>14, <2>5, Zenon
  <2> QED
    BY <1>1, <1>3, <2>1, <2>2, <2>6, <2>7, <2>8, TakenKeeps, Zenon
<1>15. CASE ~much /\ stream[k].fin
  <2> DEFINE message == [opcode |-> assemblyOpcode, parts |-> parts]
  <2>1. ~Violates(stream, k) /\ Completes(stream, k) /\ ~LastFrame(stream, k)
    BY <1>5, <1>11, <1>15, Zenon DEF Completes, LastFrame
  <2>2. message.opcode = assemblyOpcode /\ message.parts = parts /\ message \in Message
    BY <1>3, <1>8 DEF Message
  <2>3. messages' = Append(messages, message)
    BY <1>12, <1>15, Zenon
  <2> HIDE DEF message
  <2>4. Completing(message) = k
    BY <1>8, <2>2, Zenon DEF Completing
  <2>5. OpcodeOf(stream, k) = assemblyOpcode
    <3>1. PICK j \in Origins(stream, k) : assemblyOpcode = stream[j].opcode
      BY <1>6
    <3>2. Origins(stream, k) = {j} /\ j \in Nat
      BY <1>2, <3>1, OneOrigin, OriginsNext
    <3>3. Max({j}) = j
      BY <3>2 DEF Max
    <3> QED
      BY <1>1, <3>1, <3>2, <3>3, Zenon DEF OpcodeOf
  <2>6. PartsOf(stream, k) = Held(stream, k) \cup {k}
    BY <1>1, Zenon DEF PartsOf
  <2>7. IsMessage(stream, message)
    BY <1>9, <2>2, <2>4, <2>5, <2>6, Zenon DEF IsMessage
  <2>8. Told(stream, messages', k)
    BY <1>2, <1>3, <2>1, <2>3, <2>4, <2>7, TellOne
  <2>9. assembling' = FALSE /\ assembly' = <<>>
    BY <1>12, <1>15, Zenon
  <2>10. Assembles(stream, assembling', assemblyOpcode', assembly', k)
    <3>1. ~Passes(stream[k])
      BY <1>5, <1>15, Zenon
    <3>2. Origins(stream, k + 1) = {}
      BY <1>2, <1>5, <3>1, OriginsNext
    <3> QED
      BY <2>9, <3>2, Zenon DEF Assembles
  <2>11. pump' = "parse" /\ errored' = FALSE
    BY <1>2, <1>12, <1>15, Zenon
  <2>12. <<>> \in Seq(1 .. StreamLength)
    OBVIOUS
  <2>13. messages' \in Seq(Message)
    BY <1>3, <2>2, <2>3
  <2>14. assembling' \in BOOLEAN /\ assembly' \in Seq(1 .. StreamLength)
    BY <2>9, <2>12, Zenon
  <2> QED
    BY <1>1, <1>3, <2>1, <2>8, <2>10, <2>11, <2>13, <2>14, TakenKeeps, Zenon
<1> QED
  BY <1>13, <1>14, <1>15

LEMMA ParserStepInv == ParserInv /\ [ParserNext]_parserVars => ParserInv'
<1> SUFFICES ASSUME ParserInv, [ParserNext]_parserVars PROVE ParserInv'
  OBVIOUS
<1>1. ParserTypeOK
  BY DEF ParserInv
<1>2. PICK n \in 0 .. StreamLength : ParsedTo(n)
  BY DEF ParserInv
<1>3. ASSUME NEW m \in 1 .. ReadSize, Push(m)
      PROVE  ParserInv'
  BY <1>1, <1>2, <1>3, PushKeeps
<1>4. CASE NeedHeader
  BY <1>1, <1>2, <1>4, WaitKeeps
<1>5. ASSUME NEW k \in 1 .. StreamLength, NextFrame(k)
      PROVE  ParserInv'
  <2>1. CASE FailHeader(k)
    BY <1>1, <1>2, <2>1, FailHeaderKeeps
  <2>2. CASE NeedPayload(k)
    BY <1>1, <1>2, <2>2, WaitKeeps
  <2>3. CASE TakeControl(k)
    BY <1>1, <1>2, <2>3, ControlKeeps
  <2>4. CASE FailContinuation(k)
    BY <1>1, <1>2, <2>4, FailContinuationKeeps
  <2>5. CASE Continue(k)
    BY <1>1, <1>2, <2>5, ContinueKeeps
  <2>6. CASE TakeWhole(k)
    BY <1>1, <1>2, <2>6, WholeKeeps
  <2>7. CASE TakeFirst(k)
    BY <1>1, <1>2, <2>7, FirstKeeps
  <2> QED
    BY <1>5, <2>1, <2>2, <2>3, <2>4, <2>5, <2>6, <2>7, Zenon DEF NextFrame
<1>6. CASE UNCHANGED parserVars
  <2>1. /\ stream' = stream /\ base' = base /\ size' = size /\ consumed' = consumed
        /\ assembling' = assembling /\ assemblyOpcode' = assemblyOpcode
        /\ assembly' = assembly /\ errored' = errored /\ pump' = pump
        /\ messages' = messages
    BY <1>6, Zenon DEF parserVars, buffer, fragments
  <2>2. ParserTypeOK'
    <3>1. Total' = Total
      BY <2>1 DEF Total
    <3> QED
      BY <1>1, <2>1, <3>1, Zenon DEF ParserTypeOK
  <2>3. ParsedTo(n)'
    <3>1. \A k : Judged(k)' = Judged(k)
      BY <2>1, Zenon DEF Judged, Begin
    <3>2. \A m : EndedAt(m, n)' = EndedAt(m, n)
      BY <2>1, <3>1, Zenon DEF EndedAt
    <3> QED
      BY <1>2, <2>1, <3>1, <3>2, Zenon DEF ParsedTo
  <2> QED
    BY <2>2, <2>3, Zenon DEF ParserInv
<1> QED
  BY <1>3, <1>4, <1>5, <1>6, Zenon DEF ParserNext

-----------------------------------------------------------------------------
(* The parser's theorems                                                     *)

\* The inductive invariant, for every stream and every way to cut it.
THEOREM ParserInvariant == ParserSpec => []ParserInv
BY ParserInitInv, ParserStepInv, PTL DEF ParserSpec

\* The buffer keeps no more than the prefix that push tolerates, one read, and
\* one unfinished frame of the admitted size.
THEOREM ParserTypeCorrect == ParserSpec => []ParserTypeOK
BY ParserInvariant, PTL DEF ParserInv

\* The frames that can be judged are those that have been parsed.
LEMMA ReachedIs ==
    ASSUME ParserTypeOK, NEW n \in 0 .. StreamLength, ParsedTo(n)
    PROVE  /\ pump = "read" => Reached = 1 .. n
           /\ \A m \in 1 .. StreamLength : EndedAt(m, n) => Reached = 1 .. m
<1>1. /\ stream \in Streams /\ base \in Nat /\ size \in Nat /\ consumed \in Nat
      /\ consumed <= size /\ base + consumed = BytesOf(stream, n) /\ n \in Nat
      /\ \A i \in 0 .. StreamLength : BytesOf(stream, i) \in Nat
  BY ParserTypes, BytesAre DEF ParsedTo
<1>2. ASSUME NEW k \in 1 .. StreamLength
      PROVE  /\ k - 1 \in 0 .. StreamLength /\ (k - 1) + 1 = k
             /\ HeaderLength(stream[k]) \in 2 .. 10 /\ FrameLength(stream[k]) \in Nat
             /\ FrameLength(stream[k]) >= HeaderLength(stream[k])
  <2>1. stream[k] \in Frames
    BY <1>1 DEF Streams
  <2> QED
    BY <2>1, FrameIs, Limits
<1>3. ASSUME NEW k \in 1 .. StreamLength, k <= n
      PROVE  Judged(k)
  <2>1. BytesOf(stream, k - 1) + FrameLength(stream[k]) <= BytesOf(stream, n)
    BY <1>1, <1>2, <1>3, BytesGrow
  <2>2. BytesOf(stream, k - 1) \in Nat /\ BytesOf(stream, n) \in Nat
    BY <1>1, <1>2
  <2> QED
    BY <1>1, <1>2, <2>1, <2>2 DEF Judged, Begin
<1>4. ASSUME NEW k \in 1 .. StreamLength, n < StreamLength, ~Judged(n + 1), n < k
      PROVE  ~Judged(k)
  <2>1. CASE k = n + 1
    BY <1>4, <2>1
  <2>2. CASE n + 1 < k
    <3>1. n + 1 \in 1 .. StreamLength /\ (n + 1) - 1 = n /\ n < k - 1
      BY <1>1, <1>4, <2>2, Limits
    <3>2. BytesOf(stream, n) + FrameLength(stream[n + 1]) <= BytesOf(stream, k - 1)
      BY <1>1, <1>2, <3>1, BytesGrow
    <3>3. ~(base + size >= BytesOf(stream, n)
              + IF Admissible(stream[n + 1]) THEN FrameLength(stream[n + 1])
                ELSE HeaderLength(stream[n + 1]))
      BY <1>4, <3>1, Zenon DEF Judged, Begin
    <3>4. base + size < BytesOf(stream, k - 1)
      BY <1>1, <1>2, <3>1, <3>2, <3>3
    <3> QED
      BY <1>1, <1>2, <3>4 DEF Judged, Begin
  <2> QED
    BY <1>1, <1>4, <2>1, <2>2
<1>5. ASSUME pump = "read"
      PROVE  Reached = 1 .. n
  <2>1. Clear(stream, n) /\ (n < StreamLength => ~Judged(n + 1))
    BY <1>5 DEF ParsedTo
  <2>2. ASSUME NEW k \in 1 .. n
        PROVE  k \in Reached
    <3>1. k \in 1 .. StreamLength /\ k <= n /\ \A j \in 1 .. k - 1 : j \in 1 .. n
      BY <1>1, Limits
    <3> QED
      BY <1>3, <2>1, <3>1 DEF Reached, Clear
  <2>3. ASSUME NEW k \in Reached
        PROVE  k \in 1 .. n
    <3>1. k \in 1 .. StreamLength /\ Judged(k)
      BY DEF Reached
    <3> QED
      BY <1>1, <1>4, <2>1, <3>1, Limits
  <2> QED
    BY <2>2, <2>3
<1>6. ASSUME NEW m \in 1 .. StreamLength, EndedAt(m, n)
      PROVE  Reached = 1 .. m
  <2>1. /\ m = n \/ m = n + 1
        /\ Clear(stream, m - 1) /\ LastFrame(stream, m) /\ Judged(m)
    BY <1>6 DEF EndedAt
  <2>2. ASSUME NEW k \in 1 .. m
        PROVE  k \in Reached
    <3>1. k \in 1 .. StreamLength /\ (k = m \/ k <= n) /\ \A j \in 1 .. k - 1 : j \in 1 .. m - 1
      BY <1>1, <2>1, Limits
    <3> QED
      BY <1>3, <2>1, <3>1 DEF Reached, Clear
  <2>3. ASSUME NEW k \in Reached, ~(k \in 1 .. m)
        PROVE  FALSE
    <3>1. k \in 1 .. StreamLength /\ m \in 1 .. k - 1
      BY <2>3 DEF Reached
    <3> QED
      BY <2>1, <3>1 DEF Reached
  <2> QED
    BY <2>2, <2>3
<1> QED
  BY <1>5, <1>6

\* However the network cuts the stream, what the parser has returned when it
\* has no more to parse is what the bytes read so far say, and it has failed or
\* ended exactly where they do (FrameParser::nextFrame).
THEOREM MessagesAreRead == ParserSpec => []MessagesAreTheStreams
<1>1. ParserInv => MessagesAreTheStreams
  <2> SUFFICES ASSUME ParserInv, pump # "parse"
               PROVE  /\ \E m \in 0 .. StreamLength :
                            Reached = 1 .. m /\ Told(stream, messages, m)
                      /\ errored = \E k \in Reached : Violates(stream, k)
                      /\ (pump = "ended") = \E k \in Reached : LastFrame(stream, k)
    BY Zenon DEF MessagesAreTheStreams, Told, IsMessage
  <2>1. ParserTypeOK
    BY DEF ParserInv
  <2>2. PICK n \in 0 .. StreamLength : ParsedTo(n)
    BY DEF ParserInv
  <2>3. Told(stream, messages, n)
    BY <2>2 DEF ParsedTo
  <2>4. CASE pump = "read"
    <3>1. Reached = 1 .. n
      BY <2>1, <2>2, <2>4, ReachedIs
    <3>2. pump # "ended" /\ Clear(stream, n) /\ errored = FALSE
      BY <2>2, <2>4 DEF ParsedTo
    <3>3. \A k \in 1 .. n : ~LastFrame(stream, k) /\ ~Violates(stream, k)
      BY <3>2, Zenon DEF Clear, LastFrame
    <3> QED
      BY <2>3, <3>1, <3>2, <3>3, Zenon
  <2>5. CASE pump = "ended"
    <3>1. PICK m \in 1 .. StreamLength : EndedAt(m, n)
      BY <2>2, <2>5, Zenon DEF ParsedTo
    <3>2. Reached = 1 .. m
      BY <2>1, <2>2, <3>1, ReachedIs
    <3>3. /\ m = n \/ (m = n + 1 /\ Violates(stream, m))
          /\ Clear(stream, m - 1) /\ LastFrame(stream, m)
          /\ errored = Violates(stream, m)
      BY <3>1, Zenon DEF EndedAt
    <3>4. Told(stream, messages, m)
      <4>1. CASE m = n
        BY <2>3, <4>1
      <4>2. CASE m = n + 1 /\ Violates(stream, m)
        <5>1. ~Completes(stream, n + 1) /\ n \in Nat
          BY <4>2 DEF Completes
        <5> QED
          BY <2>3, <4>2, <5>1, NotTold
      <4> QED
        BY <3>3, <4>1, <4>2
    <3>5. m \in 0 .. StreamLength /\ m \in 1 .. m
      OBVIOUS
    <3>6. \A k \in 1 .. m : k = m \/ k \in 1 .. m - 1
      OBVIOUS
    <3>7. \A k \in 1 .. m - 1 : ~Violates(stream, k)
      BY <3>3, Zenon DEF Clear, LastFrame
    <3>8. errored = \E k \in Reached : Violates(stream, k)
      <4>1. (\E k \in Reached : Violates(stream, k)) <=> Violates(stream, m)
        BY <3>2, <3>5, <3>6, <3>7, Zenon
      <4>2. Violates(stream, m) \in BOOLEAN
        BY DEF Violates
      <4> QED
        BY <3>3, <4>1, <4>2, Zenon
    <3>9. (pump = "ended") = \E k \in Reached : LastFrame(stream, k)
      BY <2>5, <3>2, <3>3, <3>5, Zenon
    <3> QED
      BY <3>2, <3>4, <3>5, <3>8, <3>9, Zenon
  <2> QED
    BY <2>1, <2>4, <2>5, ParserTypes
<1> QED
  BY <1>1, ParserInvariant, PTL

=============================================================================
