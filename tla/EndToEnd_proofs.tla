-------------------------- MODULE EndToEnd_proofs --------------------------
(***************************************************************************)
(* Proofs about the composition EndToEnd, for every signal of a left and a *)
(* right sample a frame, every queue length, ring size and set of settings.*)
(***************************************************************************)
EXTENDS EndToEnd, SequenceTheorems, FiniteSetTheorems, WellFoundedInduction, TLAPS

-----------------------------------------------------------------------------
(* Facts about sequences                                                     *)

IsSequence(s) == Len(s) \in Nat /\ s = [i \in 1 .. Len(s) |-> s[i]]

(* Facts about sequences *)

LEMMA ElementsOf ==
    ASSUME NEW s, IsSequence(s)
    PROVE  s \in Seq({s[i] : i \in 1 .. Len(s)})
<1> DEFINE S == {s[i] : i \in 1 .. Len(s)}
<1>1. s \in [1 .. Len(s) -> S]
  BY DEF IsSequence
<1> QED
  BY <1>1, SeqDef DEF IsSequence

LEMMA SeqIsSequence ==
    ASSUME NEW S, NEW s \in Seq(S)
    PROVE  IsSequence(s)
BY LenProperties DEF IsSequence

LEMMA AppendIsSequence ==
    ASSUME NEW s, NEW e, IsSequence(s)
    PROVE  /\ IsSequence(Append(s, e))
           /\ Len(Append(s, e)) = Len(s) + 1
           /\ \A i \in 1 .. Len(s) : Append(s, e)[i] = s[i]
           /\ Append(s, e)[Len(s) + 1] = e
<1> DEFINE S == {s[i] : i \in 1 .. Len(s)} \cup {e}
<1>1. s \in [1 .. Len(s) -> S] /\ Len(s) \in Nat /\ e \in S
  BY DEF IsSequence
<1> HIDE DEF S
<1>2. s \in Seq(S)
  BY <1>1, SeqDef
<1>3. /\ Append(s, e) \in Seq(S)
      /\ Len(Append(s, e)) = Len(s) + 1
      /\ \A i \in 1 .. Len(s) : Append(s, e)[i] = s[i]
      /\ Append(s, e)[Len(s) + 1] = e
  BY <1>1, <1>2, AppendProperties
<1> QED
  BY <1>3, SeqIsSequence

LEMMA SubSeqIsSequence ==
    ASSUME NEW s, IsSequence(s), NEW a \in 1 .. Len(s) + 1, NEW b \in 0 .. Len(s), a <= b + 1
    PROVE  /\ IsSequence(SubSeq(s, a, b))
           /\ Len(SubSeq(s, a, b)) = b - a + 1
           /\ \A i \in 1 .. b - a + 1 : SubSeq(s, a, b)[i] = s[a + i - 1]
<1> DEFINE S == {s[i] : i \in 1 .. Len(s)}
<1>1. \A i \in a .. b : s[i] \in S
  BY DEF IsSequence
<1>2. a \in Int /\ b \in Int
  BY DEF IsSequence
<1> HIDE DEF S
<1>3. /\ SubSeq(s, a, b) \in Seq(S)
      /\ Len(SubSeq(s, a, b)) = IF a <= b THEN b - a + 1 ELSE 0
      /\ \A i \in 1 .. b - a + 1 : SubSeq(s, a, b)[i] = s[a + i - 1]
  BY <1>1, <1>2, SubSeqProperties
<1>4. Len(SubSeq(s, a, b)) = b - a + 1
  BY <1>2, <1>3
<1> QED
  BY <1>3, <1>4, SeqIsSequence

LEMMA TailIsSequence ==
    ASSUME NEW s, IsSequence(s), s # <<>>
    PROVE  /\ IsSequence(Tail(s)) /\ Len(Tail(s)) = Len(s) - 1
           /\ \A i \in 1 .. Len(s) - 1 : Tail(s)[i] = s[i + 1]
BY ElementsOf, HeadTailProperties, SeqIsSequence

LEMMA ConcatIsSequence ==
    ASSUME NEW s, NEW t, IsSequence(s), IsSequence(t)
    PROVE  /\ IsSequence(s \o t) /\ Len(s \o t) = Len(s) + Len(t)
           /\ \A i \in 1 .. Len(s) : (s \o t)[i] = s[i]
           /\ \A i \in 1 .. Len(t) : (s \o t)[Len(s) + i] = t[i]
<1> DEFINE S == {s[i] : i \in 1 .. Len(s)} \cup {t[i] : i \in 1 .. Len(t)}
<1>1. Len(s) \in Nat /\ Len(t) \in Nat /\ s \in [1 .. Len(s) -> S] /\ t \in [1 .. Len(t) -> S]
  BY DEF IsSequence
<1> HIDE DEF S
<1>2. s \in Seq(S) /\ t \in Seq(S)
  BY <1>1, SeqDef
<1>3. /\ s \o t \in Seq(S) /\ Len(s \o t) = Len(s) + Len(t)
      /\ \A i \in 1 .. Len(s) + Len(t) :
            (s \o t)[i] = IF i <= Len(s) THEN s[i] ELSE t[i - Len(s)]
  BY <1>2, ConcatProperties
<1>4. \A i \in 1 .. Len(s) : (s \o t)[i] = s[i]
  BY <1>1, <1>3
<1>5. ASSUME NEW i \in 1 .. Len(t) PROVE (s \o t)[Len(s) + i] = t[i]
  <2>1. Len(s) + i \in 1 .. Len(s) + Len(t) /\ ~(Len(s) + i <= Len(s)) /\ Len(s) + i - Len(s) = i
    BY <1>1
  <2> QED
    BY <1>3, <2>1
<1> QED
  BY <1>3, <1>4, <1>5, SeqIsSequence

LEMMA EmptyIsSequence == IsSequence(<<>>) /\ Len(<<>>) = 0
BY EmptySeq, SeqIsSequence

LEMMA PairIsSequence ==
    ASSUME NEW S, NEW frame \in S \X S
    PROVE  IsSequence(frame) /\ Len(frame) = 2 /\ frame[1] \in S /\ frame[2] \in S
<1>1. PICK a \in S, b \in S : frame = <<a, b>>
  OBVIOUS
<1>2. <<a, b>> \in Seq(S) /\ Len(<<a, b>>) = 2 /\ <<a, b>>[1] = a /\ <<a, b>>[2] = b
  OBVIOUS
<1> QED
  BY <1>1, <1>2, SeqIsSequence

-----------------------------------------------------------------------------
(* What the page has in its ring                                             *)

\* What is in the ring fits what the page believes of the stream: but for the
\* channels, once a hello has changed them.
RingFitsStream ==
    /\ IsSequence(ring)
    /\ stream = [epoch |-> stream.epoch, channels |-> stream.channels, format |-> stream.format]
    /\ swayed \in BOOLEAN
    /\ \A i \in 1 .. Len(ring) :
          /\ ring[i].header.epoch = stream.epoch
          /\ ring[i].header.settings.format = stream.format
          /\ ring[i].header.channels = stream.channels \/ swayed

(* The page's ring                                                           *)

\* ringPush keeps the newest of what is there, in order, and adds the packet,
\* within the limit.
LEMMA PushedShifts ==
    ASSUME NEW r, IsSequence(r), NEW p
    PROVE  /\ IsSequence(Pushed(r, p)) /\ Len(Pushed(r, p)) \in 1 .. Most
           /\ Pushed(r, p)[Len(Pushed(r, p))] = p
           /\ \A i \in 1 .. Len(Pushed(r, p)) - 1 :
                  LET k == i + (Len(r) + 1 - Len(Pushed(r, p)))
                  IN  k \in 1 .. Len(r) /\ Pushed(r, p)[i] = r[k]
<1> DEFINE cut == IF Len(r) + 1 > Most THEN SubSeq(r, Len(r) - Target + 1, Len(r)) ELSE r
<1>0. Len(r) \in Nat /\ Target \in Nat /\ Most \in Nat /\ Target < Most
  BY RingAssumption DEF IsSequence
<1>1. /\ IsSequence(cut) /\ Len(cut) < Most
      /\ \A i \in 1 .. Len(cut) : /\ i + (Len(r) - Len(cut)) \in 1 .. Len(r)
                                 /\ cut[i] = r[i + (Len(r) - Len(cut))]
  <2>1. CASE Len(r) + 1 > Most
    <3> DEFINE a == Len(r) - Target + 1
    <3>1. /\ a \in 1 .. Len(r) + 1 /\ Len(r) \in 0 .. Len(r) /\ a <= Len(r) + 1
          /\ Len(r) - a + 1 = Target
      BY <1>0, <2>1
    <3> HIDE DEF a
    <3>2. /\ IsSequence(SubSeq(r, a, Len(r)))
          /\ Len(SubSeq(r, a, Len(r))) = Target
          /\ \A i \in 1 .. Target : SubSeq(r, a, Len(r))[i] = r[a + i - 1]
      BY <3>1, SubSeqIsSequence
    <3>3. \A i \in 1 .. Target : i + (a - 1) \in 1 .. Len(r) /\ i + (a - 1) = a + i - 1
      BY <1>0, <3>1
    <3>4. cut = SubSeq(r, a, Len(r)) /\ a - 1 \in Nat
      BY <2>1, <3>1 DEF a
    <3> HIDE DEF cut
    <3>5. IsSequence(cut) /\ Len(cut) = Target
      BY <3>2, <3>4
    <3>6. a - 1 = Len(r) - Len(cut)
      BY <1>0, <3>1, <3>5
    <3>7. \A i \in 1 .. Len(cut) : i + (a - 1) \in 1 .. Len(r) /\ cut[i] = r[i + (a - 1)]
      BY <3>2, <3>3, <3>4, <3>5
    <3> QED
      BY <1>0, <3>5, <3>6, <3>7
  <2>2. CASE ~(Len(r) + 1 > Most)
    <3>1. cut = r /\ Len(cut) < Most
      BY <1>0, <2>2
    <3>2. Len(r) - Len(cut) = 0 /\ \A i \in 1 .. Len(cut) : i + 0 = i
      BY <1>0, <3>1
    <3> QED
      BY <3>1, <3>2
  <2> QED
    BY <2>1, <2>2
<1>2. Pushed(r, p) = Append(cut, p)
  BY DEF Pushed
<1> HIDE DEF cut
<1>3. /\ IsSequence(Append(cut, p)) /\ Len(Append(cut, p)) = Len(cut) + 1
      /\ \A i \in 1 .. Len(cut) : Append(cut, p)[i] = cut[i]
      /\ Append(cut, p)[Len(cut) + 1] = p
  BY <1>1, AppendIsSequence
<1>4. Len(cut) \in Nat /\ Len(Pushed(r, p)) = Len(cut) + 1
  BY <1>1, <1>2, <1>3 DEF IsSequence
<1>5. \A i \in 1 .. Len(Pushed(r, p)) - 1 : i \in 1 .. Len(cut)
  BY <1>4
<1>6. Len(Pushed(r, p)) \in 1 .. Most /\ Len(r) + 1 - Len(Pushed(r, p)) = Len(r) - Len(cut)
  BY <1>0, <1>1, <1>4
<1> QED
  BY <1>1, <1>2, <1>3, <1>4, <1>5, <1>6

\* What handlePacket pushes, and what it pushes it to
Kept == SameStream(Head(queue).header) /\ ~Head(queue).header.discontinuity
Arrived == [header |-> Head(queue).header, number |-> Head(queue).number,
            overtaken |-> Head(queue).overtaken,
            heard |-> decode(Head(queue).payload, Head(queue).header.settings.format,
                             Head(queue).header.channels)]

LEMMA PacketPushed ==
    ASSUME handlePacket, IsSequence(ring)
    PROVE  /\ IsSequence(ring') /\ Len(ring') \in 1 .. Most
           /\ ring'[Len(ring')] = Arrived
           /\ \E o \in Int : \A i \in 1 .. Len(ring') - 1 :
                  Kept /\ i + o \in 1 .. Len(ring) /\ ring'[i] = ring[i + o]
<1> DEFINE old == IF Kept THEN ring ELSE <<>>
<1>1. ring' = Pushed(old, Arrived)
  BY DEF handlePacket, Kept, Arrived
<1>2. IsSequence(old) /\ (~Kept => Len(old) = 0) /\ (Kept => old = ring)
  BY EmptyIsSequence
<1> HIDE DEF old
<1>3. /\ IsSequence(ring') /\ Len(ring') \in 1 .. Most
      /\ ring'[Len(ring')] = Arrived
  BY <1>1, <1>2, PushedShifts
<1>4. \A i \in 1 .. Len(ring') - 1 :
         /\ i + (Len(old) + 1 - Len(ring')) \in 1 .. Len(old)
         /\ ring'[i] = old[i + (Len(old) + 1 - Len(ring'))]
  BY <1>1, <1>2, PushedShifts
<1>5. \A i \in 1 .. Len(ring') - 1 : Kept
  <2>1. Len(old) = 0 => 1 .. Len(old) = {}
    OBVIOUS
  <2> QED
    BY <1>2, <1>4, <2>1, Zenon
<1> DEFINE o == Len(old) + 1 - Len(ring')
<1>6. o \in Int
  BY <1>2, <1>3 DEF IsSequence
<1>7. \A i \in 1 .. Len(ring') - 1 : Kept /\ i + o \in 1 .. Len(ring) /\ ring'[i] = ring[i + o]
  BY <1>2, <1>4, <1>5
<1> HIDE DEF o
<1> QED
  BY <1>3, <1>6, <1>7

LEMMA InitRingFits == EndToEndInit => RingFitsStream
<1> SUFFICES ASSUME EndToEndInit PROVE RingFitsStream
  OBVIOUS
<1>1. ring = <<>> /\ stream = NoStream
  BY DEF EndToEndInit
<1>2. IsSequence(ring) /\ Len(ring) = 0
  BY <1>1, EmptyIsSequence
<1>3. swayed \in BOOLEAN
  BY DEF EndToEndInit
<1> QED
  BY <1>1, <1>2, <1>3 DEF RingFitsStream, NoStream

LEMMA ResetRingFits ==
    ASSUME Reset,
           stream' = [epoch |-> stream'.epoch, channels |-> stream'.channels,
                      format |-> stream'.format]
    PROVE  RingFitsStream'
<1>1. ring' = <<>>
  BY DEF Reset
<1>2. IsSequence(ring') /\ Len(ring') = 0
  BY <1>1, EmptyIsSequence
<1>3. swayed' \in BOOLEAN
  BY DEF Reset
<1> QED
  BY <1>2, <1>3 DEF RingFitsStream, IsSequence

LEMMA PacketRingFits ==
    ASSUME RingFitsStream, handlePacket
    PROVE  RingFitsStream'
<1> DEFINE header == Head(queue).header
<1>1. /\ stream' = Described(header) /\ swayed' = (Kept /\ swayed)
      /\ ring' = Pushed(IF Kept THEN ring ELSE <<>>, Arrived)
  BY DEF handlePacket, Kept, Arrived
<1>2. swayed' \in BOOLEAN
  BY <1>1, Zenon
<1>3. /\ stream'.epoch = header.epoch /\ stream'.format = header.settings.format
      /\ stream'.channels = header.channels
      /\ stream' = [epoch |-> stream'.epoch, channels |-> stream'.channels,
                     format |-> stream'.format]
  BY <1>1 DEF Described
<1>4. IsSequence(ring') /\ Len(ring') \in 1 .. Most /\ ring'[Len(ring')] = Arrived
  BY PacketPushed DEF RingFitsStream
<1>5. PICK o \in Int : \A i \in 1 .. Len(ring') - 1 :
                           Kept /\ i + o \in 1 .. Len(ring) /\ ring'[i] = ring[i + o]
  BY PacketPushed DEF RingFitsStream
<1>6. Arrived.header = header
  BY DEF Arrived
<1>7. Kept => stream' = stream /\ (swayed => swayed')
  BY <1>1 DEF Kept, SameStream
<1> HIDE DEF header
<1>8. ASSUME NEW i \in 1 .. Len(ring')
      PROVE  /\ ring'[i].header.epoch = stream'.epoch
             /\ ring'[i].header.settings.format = stream'.format
             /\ ring'[i].header.channels = stream'.channels \/ swayed'
  <2>1. CASE i = Len(ring')
    BY <1>3, <1>4, <1>6, <2>1
  <2>2. CASE i \in 1 .. Len(ring') - 1
    BY <1>5, <1>7, <2>2 DEF RingFitsStream
  <2> QED
    BY <1>4, <2>1, <2>2
<1> QED
  BY <1>2, <1>3, <1>4, <1>8 DEF RingFitsStream, IsSequence

LEMMA NextRingFits == RingFitsStream /\ [EndToEndNext]_allVars => RingFitsStream'
<1> SUFFICES ASSUME RingFitsStream, [EndToEndNext]_allVars
             PROVE  RingFitsStream'
  OBVIOUS
<1>1. CASE handlePacket
  BY <1>1, PacketRingFits
<1>2. CASE handleConfig
  <2>1. stream' = [stream EXCEPT !.channels = Head(queue).channels]
    BY <1>2 DEF handleConfig
  <2>2. stream' = [epoch |-> stream'.epoch, channels |-> stream'.channels,
                   format |-> stream'.format]
    BY <2>1 DEF RingFitsStream
  <2> QED
    BY <1>2, <2>2, ResetRingFits DEF handleConfig
<1>3. CASE Closed
  BY <1>3, ResetRingFits DEF Closed, RingFitsStream
<1>4. CASE handleHello
  <2>1. /\ stream' = [stream EXCEPT !.channels = Head(queue).channels]
        /\ swayed' = (swayed \/ stream' # stream) /\ ring' = ring
    BY <1>4 DEF handleHello
  <2>2. /\ stream' = [epoch |-> stream'.epoch, channels |-> stream'.channels,
                      format |-> stream'.format]
        /\ stream'.epoch = stream.epoch /\ stream'.format = stream.format
    BY <2>1 DEF RingFitsStream
  <2>3. swayed' \in BOOLEAN
    BY <2>1, Zenon
  <2>4. swayed' \/ (stream' = stream /\ swayed' = swayed)
    BY <2>1 DEF RingFitsStream
  <2> QED
    BY <2>1, <2>2, <2>3, <2>4 DEF RingFitsStream
<1>5. CASE Play
  <2>1. /\ IsSequence(ring') /\ Len(ring') = Len(ring) - 1
        /\ \A i \in 1 .. Len(ring) - 1 : ring'[i] = ring[i + 1]
    BY <1>5, TailIsSequence DEF Play, RingFitsStream
  <2>2. Len(ring) \in Nat /\ \A i \in 1 .. Len(ring') : i + 1 \in 1 .. Len(ring)
    BY <2>1 DEF RingFitsStream, IsSequence
  <2> QED
    BY <1>5, <2>1, <2>2 DEF Play, RingFitsStream
<1>6. CASE UNCHANGED <<stream, ring, swayed>>
  BY <1>6 DEF RingFitsStream
<1>7. \/ handlePacket \/ handleConfig \/ Closed \/ handleHello \/ Play
      \/ UNCHANGED <<stream, ring, swayed>>
  <2>1. CASE Reconfigure \/ BuildPacket \/ BroadcastPacket \/ BroadcastConfig
    BY <2>1 DEF Reconfigure, BuildPacket, BroadcastPacket, BroadcastConfig, page
  <2>2. CASE BuildHello \/ BroadcastHello \/ Restart
    BY <2>2 DEF BuildHello, BroadcastHello, Restart, page
  <2>3. CASE Break \/ Connect
    BY <2>3 DEF Break, Connect, page
  <2>4. CASE UNCHANGED allVars
    BY <2>4 DEF allVars, page
  <2> QED
    BY <2>1, <2>2, <2>3, <2>4 DEF EndToEndNext
<1> QED
  BY <1>1, <1>2, <1>3, <1>4, <1>5, <1>6, <1>7

LEMMA RingFitsDescribed == RingFitsStream => RingOfOneDescription
BY DEF RingFitsStream, RingOfOneDescription, IsSequence

\* What is in the page's ring belongs together, by the headers alone: whatever
\* was dropped, broken off, announced late or said by a hello meanwhile.
THEOREM RingBelongsTogether == EndToEndSpec => []RingOfOneDescription
<1>1. EndToEndSpec => []RingFitsStream
  BY InitRingFits, NextRingFits, PTL DEF EndToEndSpec
<1> QED
  BY <1>1, RingFitsDescribed, PTL

-----------------------------------------------------------------------------
(* The count of the losses.  Packets are known by their numbers, and by the  *)
(* sequence number that SeqNo gives each.                                    *)

\* The run begins three packets before the sequence number wraps.
SeqNo(n) == IF n < 3 THEN SeqMod - 3 + n ELSE n - 3

Audio(message) == message.type = "audio"

\* The audio in q is of packets after the l-th up to the s-th, in their order.
InOrder(q, l, s) ==
    /\ IsSequence(q)
    /\ \A i \in 1 .. Len(q) : Audio(q[i]) =>
           q[i].number \in l + 1 .. s /\ q[i].header.sequence = SeqNo(q[i].number)
    /\ \A i, j \in 1 .. Len(q) : i < j /\ Audio(q[i]) /\ Audio(q[j]) =>
           q[i].number < q[j].number

\* The number of the last packet that was built
Made == IF outgoing = "none" THEN sent ELSE sent + 1

CountInv ==
    /\ sent \in 0 .. MaxPackets /\ Made \in 0 .. MaxPackets
    /\ packet.sequence = SeqNo(Made)
    /\ last \in 0 .. sent /\ InOrder(queue, last, sent)
    /\ lost \in Nat /\ lost = missed
    /\ IF last = 0 THEN lastSeq = -1 /\ lost = 0 ELSE lastSeq = SeqNo(last)

\* A set of numbers has a least one.
LEMMA LeastNumber ==
    ASSUME NEW S, S \subseteq Nat, S # {}
    PROVE  Min(S) \in S
<1> DEFINE R == OpToRel(<, Nat)
<1>1. IsWellFoundedOn(R, Nat)
  BY NatLessThanWellFounded DEF OpToRel
<1> HIDE DEF R
<1>2. PICK x \in S : \A y \in S : ~ (<<y, x>> \in R)
  BY <1>1, WFMin, Zenon
<1>3. \A y \in S : <<y, x>> \in Nat \X Nat
  OBVIOUS
<1>4. \A y \in S : ~ (y < x)
  BY <1>2, <1>3 DEF R, OpToRel
<1>5. \A y \in S : x <= y
  BY <1>4
<1> QED
  BY <1>5, Zenon DEF Min

\* The next packet's sequence number is the next.
LEMMA SeqNoNext ==
    ASSUME NEW n \in 0 .. MaxPackets, n < MaxPackets
    PROVE  (SeqNo(n) + 1) % SeqMod = SeqNo(n + 1)
<1> USE SequenceAssumption
<1>1. CASE n = 2
  <2>1. SeqNo(n) + 1 = SeqMod /\ SeqNo(n + 1) = 0
    BY <1>1 DEF SeqNo
  <2>2. SeqMod % SeqMod = 0
    OBVIOUS
  <2> QED
    BY <2>1, <2>2
<1>2. CASE n # 2
  <2>1. SeqNo(n) + 1 = SeqNo(n + 1) /\ SeqNo(n + 1) \in 0 .. SeqMod - 1
    BY <1>2 DEF SeqNo
  <2> HIDE DEF SeqNo
  <2> QED
    BY <2>1
<1> QED
  BY <1>1, <1>2

\* From the sequence numbers of two packets the page finds how many were
\* between them.
LEMMA LossBetween ==
    ASSUME NEW a \in 0 .. MaxPackets, NEW b \in a + 1 .. MaxPackets
    PROVE  Loss((SeqNo(b) - SeqNo(a)) % SeqMod) = b - a - 1
<1> USE SequenceAssumption
<1> DEFINE d == SeqNo(b) - SeqNo(a)
<1>1. d = b - a \/ d = b - a - SeqMod
  BY DEF SeqNo
<1>2. b - a \in 1 .. SeqMod - 1 /\ 2 * (b - a) < SeqMod
  OBVIOUS
<1> HIDE DEF d
<1>3. d % SeqMod = b - a
  <2>1. CASE d = b - a
    BY <1>2, <2>1
  <2>2. CASE d = b - a - SeqMod
    <3> DEFINE x == b - a - SeqMod
    <3>1. x \in Int /\ -SeqMod < x /\ x < 0 /\ x + SeqMod = b - a
      BY <1>2
    <3> HIDE DEF x
    <3>2. x % SeqMod = x + SeqMod
      BY <3>1
    <3> QED
      BY <2>2, <3>1, <3>2 DEF x
  <2> QED
    BY <1>1, <2>1, <2>2
<1>4. ~(b - a > SeqMod \div 2) /\ b - a # 0
  BY <1>2
<1> QED
  BY <1>3, <1>4 DEF Loss, d

-----------------------------------------------------------------------------
(* What becomes of a queue, by places: r holds the messages of q at them.    *)

Thins(r, q, place) ==
    /\ IsSequence(q) /\ IsSequence(r)
    /\ place \in [1 .. Len(r) -> 1 .. Len(q)]
    /\ \A i \in 1 .. Len(r) : r[i] = q[place[i]]
    /\ \A i, j \in 1 .. Len(r) : i < j => place[i] < place[j]

LEMMA RemoveAtThins ==
    ASSUME NEW q, IsSequence(q), NEW m \in 1 .. Len(q)
    PROVE  \E place :
              /\ Thins(Seqs!RemoveAt(q, m), q, place)
              /\ \A i \in 1 .. Len(Seqs!RemoveAt(q, m)) : place[i] # m
              /\ \A k \in 1 .. Len(q) : k # m =>
                     \E i \in 1 .. Len(Seqs!RemoveAt(q, m)) : place[i] = k
<1> DEFINE S == {q[i] : i \in 1 .. Len(q)}
           a == SubSeq(q, 1, m - 1)
           b == SubSeq(q, m + 1, Len(q))
           r == a \o b
<1>1. Len(q) \in Nat
  BY DEF IsSequence
<1>2. /\ a \in Seq(S) /\ Len(a) = m - 1
      /\ \A i \in 1 .. m - 1 : a[i] = q[i]
  BY <1>1, SubSeqProperties
<1>3. /\ b \in Seq(S) /\ Len(b) = Len(q) - m
      /\ \A i \in 1 .. Len(q) - m : b[i] = q[m + i]
  BY <1>1, SubSeqProperties
<1> HIDE DEF a, b, S
<1>4. /\ r \in Seq(S) /\ Len(r) = Len(q) - 1
      /\ \A i \in 1 .. Len(q) - 1 : r[i] = IF i <= m - 1 THEN a[i] ELSE b[i - (m - 1)]
  <2>1. /\ r \in Seq(S) /\ Len(r) = Len(a) + Len(b)
        /\ \A i \in 1 .. Len(a) + Len(b) : r[i] = IF i <= Len(a) THEN a[i] ELSE b[i - Len(a)]
    BY <1>2, <1>3, ConcatProperties
  <2>2. Len(a) + Len(b) = Len(q) - 1
    BY <1>1, <1>2, <1>3
  <2> QED
    BY <1>2, <2>1, <2>2
<1> HIDE DEF r
<1> DEFINE place == [i \in 1 .. Len(q) - 1 |-> IF i < m THEN i ELSE i + 1]
<1>5. place \in [1 .. Len(r) -> 1 .. Len(q)]
  BY <1>1, <1>4
<1>6. ASSUME NEW i \in 1 .. Len(r) PROVE r[i] = q[place[i]]
  <2>1. CASE i < m
    BY <1>1, <1>2, <1>4, <2>1
  <2>2. CASE i >= m
    <3>1. i - (m - 1) \in 1 .. Len(q) - m /\ m + (i - (m - 1)) = i + 1 /\ i \in 1 .. Len(q) - 1
      BY <1>1, <1>4, <2>2
    <3>2. r[i] = b[i - (m - 1)]
      BY <1>4, <2>2, <3>1
    <3> QED
      BY <1>3, <2>2, <3>1, <3>2
  <2> QED
    BY <2>1, <2>2
<1>7. \A i, j \in 1 .. Len(r) : i < j => place[i] < place[j]
  BY <1>1, <1>4
<1>8. IsSequence(r)
  BY <1>4, SeqIsSequence
<1>9. \A i \in 1 .. Len(r) : place[i] # m
  BY <1>1, <1>4
<1>10. ASSUME NEW k \in 1 .. Len(q), k # m
       PROVE  \E i \in 1 .. Len(r) : place[i] = k
  <2> DEFINE i == IF k < m THEN k ELSE k - 1
  <2>1. i \in 1 .. Len(r) /\ place[i] = k
    BY <1>1, <1>4, <1>10
  <2> QED
    BY <2>1
<1> HIDE DEF place
<1>11. Thins(r, q, place)
  BY <1>5, <1>6, <1>7, <1>8 DEF Thins
<1> QED
  BY <1>9, <1>10, <1>11 DEF r, a, b, Seqs!RemoveAt

LEMMA CutThins ==
    ASSUME NEW q, IsSequence(q), NEW n \in 0 .. Len(q)
    PROVE  \E place : Thins(SubSeq(q, 1, n), q, place)
<1> DEFINE r == SubSeq(q, 1, n)
           place == [i \in 1 .. n |-> i]
<1>1. Len(q) \in Nat
  BY DEF IsSequence
<1>2. 1 \in 1 .. Len(q) + 1 /\ 1 <= n + 1 /\ n - 1 + 1 = n
  BY <1>1
<1>3. IsSequence(r) /\ Len(r) = n /\ \A i \in 1 .. n : r[i] = q[i]
  BY <1>1, <1>2, SubSeqIsSequence
<1> HIDE DEF r
<1>4. place \in [1 .. Len(r) -> 1 .. Len(q)]
  BY <1>1, <1>3
<1>5. /\ \A i \in 1 .. Len(r) : r[i] = q[place[i]]
      /\ \A i, j \in 1 .. Len(r) : i < j => place[i] < place[j]
  BY <1>3
<1> HIDE DEF place
<1>6. Thins(r, q, place)
  BY <1>3, <1>4, <1>5 DEF Thins
<1> QED
  BY <1>6 DEF r

LEMMA TailThins ==
    ASSUME NEW q, IsSequence(q), q # <<>>
    PROVE  \E place : Thins(Tail(q), q, place)
<1> DEFINE r == Tail(q)
           place == [i \in 1 .. Len(r) |-> i + 1]
<1>1. /\ IsSequence(r) /\ Len(r) = Len(q) - 1 /\ Len(q) \in Nat /\ Len(r) \in Nat
      /\ \A i \in 1 .. Len(q) - 1 : r[i] = q[i + 1]
  BY TailIsSequence DEF IsSequence
<1> HIDE DEF r
<1>2. place \in [1 .. Len(r) -> 1 .. Len(q)]
  BY <1>1
<1>3. /\ \A i \in 1 .. Len(r) : r[i] = q[place[i]]
      /\ \A i, j \in 1 .. Len(r) : i < j => place[i] < place[j]
  BY <1>1
<1> HIDE DEF place
<1>4. Thins(r, q, place)
  BY <1>1, <1>2, <1>3 DEF Thins
<1> QED
  BY <1>4 DEF r

(* The audio of a queue is counted.                                          *)

LEMMA DroppablesFinite ==
    ASSUME NEW q, IsSequence(q)
    PROVE  /\ Droppables(q) = {i \in 1 .. Len(q) : Audio(q[i])}
           /\ IsFiniteSet(Droppables(q)) /\ Cardinality(Droppables(q)) \in Nat
<1>1. DOMAIN q = 1 .. Len(q) /\ Len(q) \in Nat
  BY DEF IsSequence
<1>2. Droppables(q) = {i \in 1 .. Len(q) : Audio(q[i])}
  BY <1>1 DEF Droppables, Audio
<1>3. IsFiniteSet(1 .. Len(q))
  BY <1>1, FS_Interval
<1>4. IsFiniteSet(Droppables(q))
  BY <1>2, <1>3, FS_Subset
<1> QED
  BY <1>2, <1>4, FS_CardinalityType

\* enqueue: the message is at the end of the queue, and it may be that an audio
\* message is no longer in it.
LEMMA EnqueuedIs ==
    ASSUME NEW q, IsSequence(q), NEW m
    PROVE  \/ Enqueued(q, m) = Append(q, m)
           \/ \E k \in 1 .. Len(Append(q, m)) :
                 /\ Audio(Append(q, m)[k])
                 /\ Enqueued(q, m) = Seqs!RemoveAt(Append(q, m), k)
<1> DEFINE g == Append(q, m)
           A == Droppables(g)
<1>1. IsSequence(g)
  BY AppendIsSequence
<1> HIDE DEF g
<1>2. /\ A = {i \in 1 .. Len(g) : Audio(g[i])} /\ Queued \in Nat /\ Len(g) \in Nat
  BY <1>1, DroppablesFinite, SequenceAssumption DEF IsSequence
<1>3. Enqueued(q, m) = IF Cardinality(A) > Queued THEN Seqs!RemoveAt(g, Min(A)) ELSE g
  BY DEF Enqueued, g
<1> HIDE DEF A
<1>4. CASE Cardinality(A) > Queued
  <2>1. A # {}
    <3>1. SUFFICES ASSUME A = {} PROVE FALSE
      OBVIOUS
    <3>2. Cardinality(A) = 0
      BY <3>1, FS_EmptySet, Zenon
    <3> QED
      BY <1>2, <1>4, <3>2
  <2>2. Min(A) \in A
    <3>1. A \subseteq Nat
      BY <1>2
    <3> QED
      BY <2>1, <3>1, LeastNumber, Zenon
  <2> QED
    BY <1>2, <1>3, <1>4, <2>2 DEF g
<1> QED
  BY <1>3, <1>4 DEF g

-----------------------------------------------------------------------------
(* What becomes of a queue that is in order                                  *)

LEMMA QueueAppend ==
    ASSUME NEW q, NEW l \in Nat, NEW s \in Nat, NEW t \in Nat, InOrder(q, l, s), s <= t,
           NEW m,
           Audio(m) => m.number \in l + 1 .. t /\ m.number > s /\ m.header.sequence = SeqNo(m.number)
    PROVE  InOrder(Append(q, m), l, t)
<1> DEFINE r == Append(q, m)
<1>1. /\ Len(q) \in Nat /\ IsSequence(r) /\ Len(r) = Len(q) + 1
      /\ \A i \in 1 .. Len(q) : r[i] = q[i]
      /\ r[Len(q) + 1] = m
  BY AppendIsSequence DEF InOrder, IsSequence
<1> HIDE DEF r
<1>2. \A i \in 1 .. Len(r) : i \in 1 .. Len(q) \/ i = Len(q) + 1
  BY <1>1
<1>3. ASSUME NEW i \in 1 .. Len(r), Audio(r[i])
      PROVE  r[i].number \in l + 1 .. t /\ r[i].header.sequence = SeqNo(r[i].number)
  <2>1. CASE i \in 1 .. Len(q)
    BY <1>1, <1>3, <2>1 DEF InOrder
  <2>2. CASE i = Len(q) + 1
    BY <1>1, <1>3, <2>2
  <2> QED
    BY <1>2, <2>1, <2>2
<1>4. ASSUME NEW i \in 1 .. Len(r), NEW j \in 1 .. Len(r), i < j, Audio(r[i]), Audio(r[j])
      PROVE  r[i].number < r[j].number
  <2>1. i \in 1 .. Len(q)
    BY <1>1, <1>4
  <2>2. CASE j \in 1 .. Len(q)
    BY <1>1, <1>4, <2>1, <2>2 DEF InOrder
  <2>3. CASE j = Len(q) + 1
    <3>1. r[i].number \in l + 1 .. s /\ r[j].number > s /\ r[j].number \in l + 1 .. t
      BY <1>1, <1>4, <2>1, <2>3 DEF InOrder
    <3> QED
      BY <3>1
  <2> QED
    BY <1>2, <2>2, <2>3
<1> QED
  BY <1>1, <1>3, <1>4 DEF InOrder, r

LEMMA QueueThinned ==
    ASSUME NEW q, NEW l, NEW s, InOrder(q, l, s), NEW r, NEW place, Thins(r, q, place)
    PROVE  InOrder(r, l, s)
<1>1. \A i \in 1 .. Len(r) : place[i] \in 1 .. Len(q)
  BY DEF Thins
<1>2. ASSUME NEW i \in 1 .. Len(r), Audio(r[i])
      PROVE  r[i].number \in l + 1 .. s /\ r[i].header.sequence = SeqNo(r[i].number)
  <2>1. r[i] = q[place[i]] /\ place[i] \in 1 .. Len(q)
    BY <1>1 DEF Thins
  <2> QED
    BY <1>2, <2>1 DEF InOrder
<1>3. ASSUME NEW i \in 1 .. Len(r), NEW j \in 1 .. Len(r), i < j, Audio(r[i]), Audio(r[j])
      PROVE  r[i].number < r[j].number
  <2>1. /\ r[i] = q[place[i]] /\ r[j] = q[place[j]]
        /\ place[i] \in 1 .. Len(q) /\ place[j] \in 1 .. Len(q) /\ place[i] < place[j]
    BY <1>1, <1>3 DEF Thins
  <2> QED
    BY <1>3, <2>1 DEF InOrder
<1> QED
  BY <1>2, <1>3 DEF InOrder, Thins

\* The first message is taken: what follows is of later packets.
LEMMA QueueTail ==
    ASSUME NEW q, NEW l \in Nat, NEW s \in Nat, InOrder(q, l, s), q # <<>>
    PROVE  /\ InOrder(Tail(q), l, s)
           /\ Audio(Head(q)) =>
                 /\ Head(q).number \in l + 1 .. s
                 /\ Head(q).header.sequence = SeqNo(Head(q).number)
                 /\ InOrder(Tail(q), Head(q).number, s)
<1> DEFINE r == Tail(q)
<1>1. IsSequence(q) /\ q \in Seq({q[i] : i \in 1 .. Len(q)})
  BY ElementsOf DEF InOrder
<1>2. /\ IsSequence(r) /\ Len(r) = Len(q) - 1
      /\ \A i \in 1 .. Len(q) - 1 : r[i] = q[i + 1]
  BY <1>1, TailIsSequence
<1>3. Len(r) \in Nat /\ Len(q) \in Nat /\ Len(q) >= 1 /\ Head(q) = q[1]
  BY <1>1, <1>2, HeadTailProperties DEF IsSequence
<1>4. InOrder(r, l, s)
  BY <1>1, TailThins, QueueThinned
<1> HIDE DEF r
<1>5. ASSUME Audio(Head(q))
      PROVE  /\ Head(q).number \in l + 1 .. s
             /\ Head(q).header.sequence = SeqNo(Head(q).number)
             /\ InOrder(r, Head(q).number, s)
  <2>1. /\ Head(q).number \in l + 1 .. s
        /\ Head(q).header.sequence = SeqNo(Head(q).number)
    BY <1>3, <1>5 DEF InOrder
  <2>2. ASSUME NEW i \in 1 .. Len(r), Audio(r[i])
        PROVE  r[i].number \in Head(q).number + 1 .. s
    <3>1. 1 \in 1 .. Len(q) /\ i + 1 \in 1 .. Len(q) /\ 1 < i + 1 /\ r[i] = q[i + 1]
      BY <1>2, <1>3
    <3>2. q[1].number < q[i + 1].number /\ q[i + 1].number \in l + 1 .. s
      BY <1>3, <1>5, <2>2, <3>1 DEF InOrder
    <3>3. Head(q).number < r[i].number /\ r[i].number \in l + 1 .. s
      BY <1>3, <3>1, <3>2
    <3> QED
      BY <2>1, <3>3
  <2> QED
    BY <1>4, <2>1, <2>2 DEF InOrder
<1> QED
  BY <1>4, <1>5 DEF r

\* enqueue, whether or not it pushes the oldest audio out
LEMMA QueueEnqueued ==
    ASSUME NEW q, NEW l \in Nat, NEW s \in Nat, NEW t \in Nat, InOrder(q, l, s), s <= t,
           NEW m,
           Audio(m) => m.number \in l + 1 .. t /\ m.number > s /\ m.header.sequence = SeqNo(m.number)
    PROVE  InOrder(Enqueued(q, m), l, t)
<1> DEFINE grown == Append(q, m)
<1>1. InOrder(grown, l, t)
  BY QueueAppend
<1>2. \/ Enqueued(q, m) = grown
      \/ \E k \in 1 .. Len(grown) : Audio(grown[k]) /\ Enqueued(q, m) = Seqs!RemoveAt(grown, k)
  BY EnqueuedIs DEF InOrder
<1> HIDE DEF grown
<1>3. ASSUME NEW k \in 1 .. Len(grown)
      PROVE  InOrder(Seqs!RemoveAt(grown, k), l, t)
  <2>0. IsSequence(grown)
    BY <1>1 DEF InOrder
  <2>1. PICK place : Thins(Seqs!RemoveAt(grown, k), grown, place)
    BY <2>0, RemoveAtThins
  <2> QED
    BY <1>1, <2>1, QueueThinned
<1> QED
  BY <1>1, <1>2, <1>3

-----------------------------------------------------------------------------
LEMMA InitCount == EndToEndInit => CountInv
<1> SUFFICES ASSUME EndToEndInit PROVE CountInv
  OBVIOUS
<1>1. /\ queue = <<>> /\ sent = 0 /\ last = 0 /\ lost = 0 /\ missed = 0 /\ lastSeq = -1
      /\ Made = 0
  BY DEF EndToEndInit, Made
<1>2. packet.sequence = SeqNo(0)
  BY SequenceAssumption DEF EndToEndInit, SeqNo
<1>3. IsSequence(queue) /\ Len(queue) = 0
  BY <1>1, EmptyIsSequence
<1>4. InOrder(queue, 0, 0)
  BY <1>3 DEF InOrder
<1> QED
  BY <1>1, <1>2, <1>4, SequenceAssumption DEF CountInv

LEMMA BuildCounted ==
    ASSUME CountInv, BuildPacket
    PROVE  CountInv'
<1> USE SequenceAssumption
<1>0. /\ sent \in 0 .. MaxPackets /\ sent < MaxPackets /\ Made = sent /\ Made' = sent + 1
      /\ UNCHANGED <<sent, queue, last, lost, missed, lastSeq>>
  BY DEF CountInv, BuildPacket, Made, network, page
<1>1. packet'.sequence = SeqNo(Made')
  <2>1. packet'.sequence = (packet.sequence + 1) % SeqMod
    BY DEF BuildPacket, Send
  <2> QED
    BY <1>0, <2>1, SeqNoNext DEF CountInv
<1>2. Made' \in 0 .. MaxPackets
  BY <1>0
<1> QED
  BY <1>0, <1>1, <1>2 DEF CountInv, InOrder, IsSequence

LEMMA SendCounted ==
    ASSUME CountInv, BroadcastPacket
    PROVE  CountInv'
<1> USE SequenceAssumption
<1>0. /\ sent \in 0 .. MaxPackets /\ Made = sent + 1 /\ Made \in 0 .. MaxPackets
      /\ sent' = sent + 1 /\ Made' = sent'
      /\ last \in 0 .. sent /\ InOrder(queue, last, sent)
      /\ UNCHANGED <<packet, last, lost, missed, lastSeq>>
  BY DEF CountInv, BroadcastPacket, Made, vars, page
<1>1. packet.sequence = SeqNo(sent')
  BY <1>0 DEF CountInv
<1>2. InOrder(queue', last, sent')
  <2> DEFINE frame == Signal[(sent' % Len(Signal)) + 1]
             m == [type |-> "audio", header |-> packet, number |-> sent',
                   overtaken |-> outgoing = "overtaken",
                   payload |-> writeFrame(SubSeq(frame, 1, packet.channels),
                                          packet.settings.format)]
  <2>1. queue' = IF link = "up" THEN Enqueued(queue, m) ELSE queue
    BY DEF BroadcastPacket, Broadcast
  <2>2. m.number = sent' /\ m.header = packet
    OBVIOUS
  <2> HIDE DEF m
  <2>3. last \in Nat /\ sent \in Nat /\ sent' \in Nat /\ sent <= sent'
        /\ sent' \in last + 1 .. sent' /\ sent' > sent
    BY <1>0
  <2>4. InOrder(Enqueued(queue, m), last, sent')
    BY <1>0, <1>1, <2>2, <2>3, QueueEnqueued
  <2>5. InOrder(queue, last, sent')
    BY <1>0, <2>3 DEF InOrder
  <2> QED
    BY <2>1, <2>4, <2>5
<1>3. sent' \in 0 .. MaxPackets /\ last \in 0 .. sent'
  BY <1>0
<1> QED
  BY <1>0, <1>1, <1>2, <1>3 DEF CountInv

\* A message that is no audio leaves the order as it is.
LEMMA MessageCounted ==
    ASSUME CountInv, NEW m, ~Audio(m), Broadcast(m),
           UNCHANGED <<sent, Made, packet, last, lost, missed, lastSeq>>
    PROVE  CountInv'
<1>1. last \in Nat /\ sent \in Nat /\ sent <= sent /\ InOrder(queue, last, sent)
  BY SequenceAssumption DEF CountInv
<1>2. InOrder(Enqueued(queue, m), last, sent)
  BY <1>1, QueueEnqueued
<1>3. InOrder(queue', last, sent)
  BY <1>1, <1>2 DEF Broadcast
<1> QED
  BY <1>3 DEF CountInv

\* The page takes the first message, of whatever type.
LEMMA ReceiveKeepsOrder ==
    ASSUME CountInv, NEW type, Receive(type)
    PROVE  /\ InOrder(queue', last, sent)
           /\ type = "audio" =>
                 /\ Head(queue).number \in last + 1 .. sent
                 /\ Head(queue).header.sequence = SeqNo(Head(queue).number)
                 /\ InOrder(queue', Head(queue).number, sent)
<1>1. /\ queue # <<>> /\ Head(queue).type = type /\ queue' = Tail(queue)
      /\ last \in Nat /\ sent \in Nat /\ InOrder(queue, last, sent)
  BY SequenceAssumption DEF Receive, CountInv
<1>2. /\ InOrder(Tail(queue), last, sent)
      /\ Audio(Head(queue)) =>
            /\ Head(queue).number \in last + 1 .. sent
            /\ Head(queue).header.sequence = SeqNo(Head(queue).number)
            /\ InOrder(Tail(queue), Head(queue).number, sent)
  BY <1>1, QueueTail
<1> QED
  BY <1>1, <1>2 DEF Audio

LEMMA PacketCounted ==
    ASSUME CountInv, handlePacket
    PROVE  CountInv'
<1> USE SequenceAssumption
<1> DEFINE n == Head(queue).number
<1>1. /\ n \in last + 1 .. sent /\ InOrder(queue', n, sent)
      /\ Head(queue).header.sequence = SeqNo(n)
  BY ReceiveKeepsOrder DEF handlePacket
<1>2. /\ UNCHANGED <<sent, Made, packet>>
      /\ lost' = IF lastSeq >= 0 THEN lost + Loss((Head(queue).header.sequence - lastSeq) % SeqMod)
                 ELSE lost
      /\ lastSeq' = Head(queue).header.sequence
      /\ missed' = IF last = 0 THEN 0 ELSE missed + n - last - 1
      /\ last' = n
  BY DEF handlePacket, Receive, vars, sender, Made
<1> HIDE DEF n
<1>3. /\ sent \in 0 .. MaxPackets /\ last \in 0 .. sent
      /\ lost \in Nat /\ lost = missed
  BY DEF CountInv
<1>4. n \in 1 .. sent /\ lastSeq' = SeqNo(n)
  BY <1>1, <1>2, <1>3
<1>5. lost' \in Nat /\ lost' = missed'
  <2>1. CASE last = 0
    <3>1. lastSeq = -1 /\ lost = 0
      BY <2>1 DEF CountInv
    <3> QED
      BY <1>2, <2>1, <3>1
  <2>2. CASE last # 0
    <3>1. lastSeq = SeqNo(last) /\ SeqNo(last) >= 0
      BY <1>3, <2>2 DEF CountInv, SeqNo
    <3>2. last \in 0 .. MaxPackets /\ n \in last + 1 .. MaxPackets
      BY <1>1, <1>3
    <3>3. Loss((SeqNo(n) - SeqNo(last)) % SeqMod) = n - last - 1
      BY <3>2, LossBetween
    <3>4. lost' = lost + (n - last - 1)
      BY <1>1, <1>2, <3>1, <3>3
    <3>5. missed' = lost + (n - last - 1)
      BY <1>2, <1>3, <1>4, <2>2
    <3> QED
      BY <1>3, <3>2, <3>4, <3>5
  <2> QED
    BY <2>1, <2>2
<1> QED
  BY <1>1, <1>2, <1>3, <1>4, <1>5 DEF CountInv

LEMMA NextCount == CountInv /\ [EndToEndNext]_allVars => CountInv'
<1> SUFFICES ASSUME CountInv, [EndToEndNext]_allVars
             PROVE  CountInv'
  OBVIOUS
<1>1. CASE BuildPacket \/ BroadcastPacket
  BY <1>1, BuildCounted, SendCounted
<1>2. CASE handlePacket
  BY <1>2, PacketCounted
<1>3. CASE BroadcastConfig
  <2> DEFINE m == [type |-> "config", channels |-> channels]
  <2>1. ~Audio(m)
    BY DEF Audio
  <2> QED
    BY <1>3, <2>1, MessageCounted DEF BroadcastConfig, vars, page, Made
<1>4. CASE BroadcastHello
  <2>1. PICK n \in hello : Broadcast([type |-> "hello", channels |-> n])
    BY <1>4 DEF BroadcastHello
  <2>2. ~Audio([type |-> "hello", channels |-> n])
    BY DEF Audio
  <2> QED
    BY <1>4, <2>1, <2>2, MessageCounted DEF BroadcastHello, vars, page, Made
<1>5. CASE handleConfig \/ handleHello
  <2>1. InOrder(queue', last, sent)
    BY <1>5, ReceiveKeepsOrder DEF handleConfig, handleHello
  <2>2. UNCHANGED <<sent, Made, packet, last, lost, missed, lastSeq>>
    BY <1>5 DEF handleConfig, handleHello, Receive, vars, sender, Made
  <2> QED
    BY <2>1, <2>2 DEF CountInv
<1>6. CASE Break
  <2>1. PICK n \in 0 .. Len(queue) : queue' = SubSeq(queue, 1, n)
    BY <1>6 DEF Break
  <2>2. InOrder(queue, last, sent) /\ IsSequence(queue)
    BY DEF CountInv, InOrder
  <2>3. PICK place : Thins(queue', queue, place)
    BY <2>1, <2>2, CutThins
  <2>4. InOrder(queue', last, sent)
    BY <2>2, <2>3, QueueThinned
  <2>5. UNCHANGED <<sent, Made, packet, last, lost, missed, lastSeq>>
    BY <1>6 DEF Break, vars, sender, page, Made
  <2> QED
    BY <2>4, <2>5 DEF CountInv
<1>7. CASE UNCHANGED <<queue, sent, Made, packet, last, lost, missed, lastSeq>>
  BY <1>7 DEF CountInv, InOrder, IsSequence
<1>8. \/ BuildPacket \/ BroadcastPacket \/ handlePacket \/ BroadcastConfig
      \/ BroadcastHello \/ handleConfig \/ handleHello \/ Break
      \/ UNCHANGED <<queue, sent, Made, packet, last, lost, missed, lastSeq>>
  <2>1. CASE Reconfigure
    BY <2>1 DEF Reconfigure, Change, RaiseEpoch, RequireRestart, network, page, Made
  <2>2. CASE Restart
    BY <2>2 DEF Restart, RequireRestart, sender, network, page, Made
  <2>3. CASE BuildHello \/ Connect
    BY <2>3 DEF BuildHello, Connect, vars, sender, network, page, Made
  <2>4. CASE Closed \/ Play
    BY <2>4 DEF Closed, Play, vars, sender, network, Made
  <2>5. CASE UNCHANGED allVars
    BY <2>5 DEF allVars, vars, sender, network, page, Made
  <2> QED
    BY <2>1, <2>2, <2>3, <2>4, <2>5 DEF EndToEndNext
<1> QED
  BY <1>1, <1>2, <1>3, <1>4, <1>5, <1>6, <1>7, <1>8

\* The losses that the page shows are the packets it missed, whatever the
\* queue dropped and the breaks cost, and over the wrap of the number.
THEOREM LossesAreCounted == EndToEndSpec => []LossesCounted
<1>1. EndToEndSpec => []CountInv
  BY InitCount, NextCount, PTL DEF EndToEndSpec
<1>2. CountInv => LossesCounted
  BY DEF CountInv, LossesCounted
<1> QED
  BY <1>1, <1>2, PTL

-----------------------------------------------------------------------------
(* The types of the composition, and what travels through it                 *)

\* The sender.  Reconfigurations that have begun are counted before the epoch
\* is raised.
SenderInv ==
    /\ settings \in SettingsSet /\ channels \in ChannelSet
    /\ stage \in {"idle", "changed", "raised"}
    /\ pending \in BOOLEAN /\ fresh \in BOOLEAN /\ announce \in BOOLEAN
    /\ packet \in Packets /\ packet.epoch <= MaxEvents
    /\ loaded \in [settings : SettingsSet, channels : ChannelSet, epoch : 0 .. MaxEvents]
    /\ hello \subseteq ChannelSet /\ link \in {"up", "lost", "down"}
    /\ outgoing \in {"none", "built", "overtaken"}
    /\ epoch \in Nat /\ hellos \in Nat /\ breaks \in Nat
    /\ (IF stage = "changed" THEN epoch + 1 ELSE epoch) + hellos + breaks <= MaxEvents

LEMMA InitSender == EndToEndInit => SenderInv
<1> SUFFICES ASSUME EndToEndInit PROVE SenderInv
  OBVIOUS
<1>1. /\ settings \in SettingsSet /\ channels \in ChannelSet /\ epoch = 0
      /\ stage = "idle" /\ pending = TRUE /\ fresh = FALSE /\ announce = FALSE
      /\ packet \in Packets /\ packet.epoch = 0 /\ loaded = Current
      /\ hello = {} /\ hellos = 0 /\ link = "down" /\ breaks = 0 /\ outgoing = "none"
  BY DEF EndToEndInit, Init
<1>2. loaded \in [settings : SettingsSet, channels : ChannelSet, epoch : 0 .. MaxEvents]
  BY <1>1, PacketAssumption DEF Current
<1>3. pending \in BOOLEAN /\ fresh \in BOOLEAN /\ announce \in BOOLEAN
  BY <1>1
<1> QED
  BY <1>1, <1>2, <1>3, PacketAssumption DEF SenderInv

\* What is looked at is of a configuration that was current, and so is what stays
\* behind.
LEMMA BehindKeepsType ==
    ASSUME SenderInv, MayStayBehind,
           settings' \in SettingsSet, channels' \in ChannelSet, epoch' \in 0 .. MaxEvents
    PROVE  loaded' \in [settings : SettingsSet, channels : ChannelSet, epoch : 0 .. MaxEvents]
<1>1. /\ loaded.settings \in SettingsSet /\ loaded.channels \in ChannelSet
      /\ loaded.epoch \in 0 .. MaxEvents
  BY DEF SenderInv
<1> QED
  BY <1>1 DEF MayStayBehind

LEMMA ReconfigureKeepsSender ==
    ASSUME SenderInv, Reconfigure
    PROVE  SenderInv'
<1> USE PacketAssumption
<1>0. UNCHANGED <<sent, outgoing, hello, hellos, link, breaks>>
  BY DEF Reconfigure, network
<1>1. CASE /\ MayHappen /\ UNCHANGED announce
           /\ \E s \in SettingsSet, n \in ChannelSet : Change(s, n)
  <2>1. /\ settings' \in SettingsSet /\ channels' \in ChannelSet
        /\ stage = "idle" /\ stage' = "changed" /\ MayStayBehind
        /\ UNCHANGED <<epoch, pending, packet, fresh>>
    BY <1>1 DEF Change
  <2>2. epoch + hellos + breaks < MaxEvents
    BY <1>1, <2>1 DEF MayHappen
  <2>3. epoch' \in 0 .. MaxEvents /\ epoch + 1 + hellos + breaks <= MaxEvents
    BY <2>1, <2>2 DEF SenderInv
  <2>4. loaded' \in [settings : SettingsSet, channels : ChannelSet, epoch : 0 .. MaxEvents]
    BY <2>1, <2>3, BehindKeepsType
  <2> QED
    BY <1>0, <1>1, <2>1, <2>3, <2>4 DEF SenderInv
<1>2. CASE RaiseEpoch /\ UNCHANGED announce
  <2>1. /\ stage = "changed" /\ stage' = "raised" /\ epoch' = epoch + 1 /\ MayStayBehind
        /\ UNCHANGED <<settings, channels, pending, packet, fresh>>
    BY <1>2 DEF RaiseEpoch
  <2>2. epoch' \in 0 .. MaxEvents /\ epoch' + hellos + breaks <= MaxEvents
    BY <2>1 DEF SenderInv
  <2>3. loaded' \in [settings : SettingsSet, channels : ChannelSet, epoch : 0 .. MaxEvents]
    BY <2>1, <2>2, BehindKeepsType DEF SenderInv
  <2> QED
    BY <1>0, <1>2, <2>1, <2>2, <2>3 DEF SenderInv
<1>3. CASE stage = "raised" /\ RequireRestart /\ announce' = TRUE
  BY <1>0, <1>3 DEF RequireRestart, SenderInv
<1> QED
  BY <1>1, <1>2, <1>3 DEF Reconfigure

LEMMA BuildKeepsSender ==
    ASSUME SenderInv, BuildPacket, sent \in Nat
    PROVE  SenderInv'
<1> USE PacketAssumption, SequenceAssumption
<1>1. /\ pending' = FALSE /\ fresh' = FALSE /\ loaded' = Current
      /\ outgoing' = "built"
      /\ UNCHANGED <<settings, channels, epoch, stage, announce, hello, hellos, link, breaks>>
  BY DEF BuildPacket, Send, config, network
<1>2. packet' \in Packets /\ packet'.epoch <= MaxEvents
  <2>1. PICK silence \in BOOLEAN :
          packet' = [settings |-> loaded.settings, channels |-> loaded.channels,
                     epoch |-> loaded.epoch, discontinuity |-> pending,
                     silence |-> silence,
                     sequence |-> (packet.sequence + 1) % SeqMod,
                     sampleClock |->
                        IF pending THEN 0
                        ELSE (packet.sampleClock + packet.settings.frames) % ClockMod]
    BY DEF BuildPacket, Send
  <2>2. /\ loaded.settings \in SettingsSet /\ loaded.channels \in ChannelSet
        /\ loaded.epoch \in 0 .. MaxEvents /\ pending \in BOOLEAN
        /\ packet.sequence \in 0 .. SeqMod - 1 /\ packet.sampleClock \in 0 .. ClockMod - 1
        /\ packet.settings \in SettingsSet
    BY DEF SenderInv, Packets
  <2>3. packet.settings.frames = 1
    BY <2>2
  <2>4. (packet.sequence + 1) % SeqMod \in 0 .. SeqMod - 1
    BY <2>2
  <2>5. (packet.sampleClock + packet.settings.frames) % ClockMod \in 0 .. ClockMod - 1
    BY <2>2, <2>3
  <2>6. (IF pending THEN 0 ELSE (packet.sampleClock + packet.settings.frames) % ClockMod)
           \in 0 .. ClockMod - 1
    BY <2>5
  <2> QED
    BY <2>1, <2>2, <2>4, <2>6 DEF Packets
<1>3. loaded' \in [settings : SettingsSet, channels : ChannelSet, epoch : 0 .. MaxEvents]
  BY <1>1 DEF Current, SenderInv
<1> QED
  BY <1>1, <1>2, <1>3 DEF SenderInv

LEMMA NextSender == SenderInv /\ sent \in Nat /\ [EndToEndNext]_allVars => SenderInv'
<1> SUFFICES ASSUME SenderInv, sent \in Nat, [EndToEndNext]_allVars
             PROVE  SenderInv'
  OBVIOUS
<1> USE PacketAssumption
<1>1. CASE Reconfigure
  BY <1>1, ReconfigureKeepsSender
<1>2. CASE BuildPacket
  BY <1>2, BuildKeepsSender
<1>11. CASE BroadcastPacket
  BY <1>11 DEF BroadcastPacket, SenderInv, vars, config
<1>3. CASE BroadcastConfig
  BY <1>3 DEF BroadcastConfig, SenderInv, vars, config
<1>4. CASE BuildHello
  BY <1>4 DEF BuildHello, SenderInv, MayHappen, vars, config, network
<1>5. CASE BroadcastHello
  BY <1>5 DEF BroadcastHello, SenderInv, vars, config
<1>6. CASE Restart
  BY <1>6 DEF Restart, RequireRestart, SenderInv, sender, network
<1>7. CASE Break
  BY <1>7 DEF Break, SenderInv, MayHappen, vars, config, sender
<1>8. CASE Connect \/ Closed
  BY <1>8 DEF Connect, Closed, SenderInv, vars, config, sender
<1>9. CASE UNCHANGED <<vars, sender, link, breaks>>
  BY <1>9 DEF SenderInv, vars, config, sender
<1>10. CASE handlePacket \/ handleConfig \/ handleHello \/ Play \/ UNCHANGED allVars
  <2>1. UNCHANGED <<vars, sender, link, breaks>>
    BY <1>10 DEF handlePacket, handleConfig, handleHello, Receive, Play, allVars, network
  <2> QED
    BY <1>9, <2>1
<1> QED
  BY <1>1, <1>2, <1>3, <1>4, <1>5, <1>6, <1>7, <1>8, <1>10, <1>11 DEF EndToEndNext

-----------------------------------------------------------------------------
(* The queue: its audio is the encoding of what is played, and is counted.   *)

\* What is played in packet n
Played(n) == Signal[(n % Len(Signal)) + 1]

\* A message of the queue, whose audio is the encoding of what is played
Genuine(message) ==
    \/ /\ Audio(message)
       /\ message.header \in Packets /\ message.header.epoch <= MaxEvents
       /\ message.number \in Nat /\ message.overtaken \in BOOLEAN
       /\ message.payload = writeFrame(SubSeq(Played(message.number), 1, message.header.channels),
                                       message.header.settings.format)
    \/ message.type \in {"config", "hello"} /\ message.channels \in ChannelSet

QueueInv ==
    /\ \A i \in 1 .. Len(queue) : Genuine(queue[i])
    /\ Cardinality(Droppables(queue)) <= Queued

\* What thins a queue to messages of a set of places leaves no more audio than
\* the set has places.
LEMMA ThinnedCount ==
    ASSUME NEW q, NEW r, NEW place, Thins(r, q, place),
           NEW T, T \subseteq Droppables(q),
           \A i \in 1 .. Len(r) : Audio(r[i]) => place[i] \in T
    PROVE  Cardinality(Droppables(r)) <= Cardinality(T)
<1> DEFINE D == Droppables(r)
           f == [i \in D |-> place[i]]
<1>1. /\ D = {i \in 1 .. Len(r) : Audio(r[i])}
      /\ IsFiniteSet(T)
  BY DroppablesFinite, FS_Subset DEF Thins
<1>2. Len(r) \in Nat /\ \A i \in 1 .. Len(r) : place[i] \in 1 .. Len(q)
  BY DEF Thins, IsSequence
<1> HIDE DEF D
<1>3. f \in [D -> T]
  BY <1>1
<1>4. ASSUME NEW i \in D, NEW j \in D, f[i] = f[j] PROVE i = j
  <2>1. i \in 1 .. Len(r) /\ j \in 1 .. Len(r) /\ place[i] = place[j]
    BY <1>1, <1>4
  <2>2. ~(i < j) /\ ~(j < i)
    BY <1>2, <2>1 DEF Thins
  <2> QED
    BY <1>2, <2>1, <2>2
<1>5. f \in Injection(D, T)
  BY <1>3, <1>4 DEF Injection, IsInjective
<1>6. Cardinality(D) <= Cardinality(T)
  BY <1>1, <1>5, FS_Injection
<1> QED
  BY <1>6 DEF D

LEMMA ThinnedKeepsLimit ==
    ASSUME NEW q, NEW r, NEW place, Thins(r, q, place), Cardinality(Droppables(q)) <= Queued
    PROVE  Cardinality(Droppables(r)) <= Queued
<1>1. IsSequence(q) /\ IsSequence(r) /\ Queued \in Nat
  BY SequenceAssumption DEF Thins
<1>2. \A i \in 1 .. Len(r) : Audio(r[i]) => place[i] \in Droppables(q)
  BY <1>1, DroppablesFinite DEF Thins
<1>3. Cardinality(Droppables(r)) <= Cardinality(Droppables(q))
  BY <1>2, ThinnedCount
<1> QED
  BY <1>1, <1>3, DroppablesFinite

\* The audio of a queue stays within the limit.
LEMMA EnqueuedKeepsLimit ==
    ASSUME NEW q, IsSequence(q), NEW m, Cardinality(Droppables(q)) <= Queued
    PROVE  Cardinality(Droppables(Enqueued(q, m))) <= Queued
<1> DEFINE g == Append(q, m)
           A == Droppables(g)
<1>1. /\ IsSequence(g) /\ Len(g) = Len(q) + 1 /\ Len(q) \in Nat
      /\ \A i \in 1 .. Len(q) : g[i] = q[i]
  BY AppendIsSequence DEF IsSequence
<1> HIDE DEF g
<1>2. /\ A = {i \in 1 .. Len(g) : Audio(g[i])} /\ IsFiniteSet(A) /\ Cardinality(A) \in Nat
      /\ Droppables(q) = {i \in 1 .. Len(q) : Audio(q[i])} /\ IsFiniteSet(Droppables(q))
      /\ Cardinality(Droppables(q)) \in Nat /\ Queued \in Nat
  BY <1>1, DroppablesFinite, SequenceAssumption
<1>3. Enqueued(q, m) = IF Cardinality(A) > Queued THEN Seqs!RemoveAt(g, Min(A)) ELSE g
  BY DEF Enqueued, g
<1>4. Cardinality(A) <= Queued + 1
  <2>1. A \subseteq Droppables(q) \cup {Len(g)}
    <3> HIDE DEF A
    <3> QED
      BY <1>1, <1>2
  <2>2. /\ IsFiniteSet(Droppables(q) \cup {Len(g)})
        /\ Cardinality(Droppables(q) \cup {Len(g)}) =
              IF Len(g) \in Droppables(q) THEN Cardinality(Droppables(q))
              ELSE Cardinality(Droppables(q)) + 1
    BY <1>2, FS_AddElement
  <2>3. Cardinality(A) <= Cardinality(Droppables(q) \cup {Len(g)})
    BY <2>1, <2>2, FS_Subset
  <2> HIDE DEF A
  <2> QED
    BY <1>2, <2>2, <2>3
<1> HIDE DEF A
<1>5. CASE Cardinality(A) > Queued
  <2> DEFINE k == Min(A)
             r == Seqs!RemoveAt(g, k)
  <2>1. k \in A
    <3>1. A # {}
      <4>1. SUFFICES ASSUME A = {} PROVE FALSE
        OBVIOUS
      <4>2. Cardinality(A) = 0
        BY <4>1, FS_EmptySet, Zenon
      <4> QED
        BY <1>2, <1>5, <4>2
    <3>2. A \subseteq Nat
      BY <1>1, <1>2
    <3> QED
      BY <3>1, <3>2, LeastNumber, Zenon
  <2> HIDE DEF k
  <2>2. k \in 1 .. Len(g)
    BY <1>2, <2>1
  <2>3. PICK place : /\ Thins(r, g, place)
                     /\ \A i \in 1 .. Len(r) : place[i] # k
    BY <1>1, <2>2, RemoveAtThins
  <2> HIDE DEF r
  <2>4. \A i \in 1 .. Len(r) : Audio(r[i]) => place[i] \in A \ {k}
    BY <1>2, <2>3 DEF Thins
  <2>5. Cardinality(Droppables(r)) <= Cardinality(A \ {k})
    BY <1>1, <2>3, <2>4, ThinnedCount DEF A
  <2>6. Cardinality(A \ {k}) = Cardinality(A) - 1
    BY <1>2, <2>1, FS_RemoveElement
  <2>7. Cardinality(Droppables(r)) \in Nat
    BY <2>3, DroppablesFinite DEF Thins
  <2>8. Enqueued(q, m) = r
    BY <1>3, <1>5 DEF r, k
  <2> QED
    BY <1>2, <1>4, <2>5, <2>6, <2>7, <2>8
<1>6. CASE ~(Cardinality(A) > Queued)
  <2>1. Enqueued(q, m) = g
    BY <1>3, <1>6
  <2>2. Cardinality(Droppables(g)) <= Queued
    BY <1>2, <1>6 DEF A
  <2> QED
    BY <2>1, <2>2
<1> QED
  BY <1>5, <1>6

LEMMA InitQueue == EndToEndInit => QueueInv
<1> SUFFICES ASSUME EndToEndInit PROVE QueueInv
  OBVIOUS
<1>1. queue = <<>> /\ IsSequence(queue) /\ Len(queue) = 0
  BY EmptyIsSequence DEF EndToEndInit
<1>2. Droppables(queue) = {}
  BY <1>1, DroppablesFinite
<1>3. Cardinality(Droppables(queue)) = 0
  BY <1>2, FS_EmptySet, Zenon
<1> QED
  BY <1>1, <1>3, SequenceAssumption DEF QueueInv

\* What thins the queue keeps its messages as they are.
LEMMA ThinnedQueue ==
    ASSUME QueueInv, NEW place, Thins(queue', queue, place)
    PROVE  QueueInv'
<1>1. Cardinality(Droppables(queue)) <= Queued
  BY DEF QueueInv
<1>2. Cardinality(Droppables(queue')) <= Queued
  BY <1>1, ThinnedKeepsLimit
<1>3. \A i \in 1 .. Len(queue') : Genuine(queue'[i])
  BY DEF Thins, QueueInv
<1>4. QueueInv' <=> /\ \A i \in 1 .. Len(queue') : Genuine(queue'[i])
                    /\ Cardinality(Droppables(queue')) <= Queued
  BY DEF QueueInv, Genuine, Audio, Played, Droppables
<1> QED
  BY <1>2, <1>3, <1>4

LEMMA BroadcastKeepsQueue ==
    ASSUME QueueInv, IsSequence(queue), NEW m, Genuine(m), Broadcast(m)
    PROVE  QueueInv'
<1> DEFINE e == Enqueued(queue, m)
           g == Append(queue, m)
<1>1. /\ Cardinality(Droppables(e)) <= Queued
      /\ \/ e = g
         \/ \E k \in 1 .. Len(g) : e = Seqs!RemoveAt(g, k)
  BY EnqueuedIs, EnqueuedKeepsLimit DEF QueueInv
<1>2. /\ IsSequence(g) /\ Len(g) = Len(queue) + 1 /\ Len(queue) \in Nat
      /\ \A i \in 1 .. Len(queue) : g[i] = queue[i]
      /\ g[Len(queue) + 1] = m
  BY AppendIsSequence DEF IsSequence
<1> HIDE DEF e, g
<1>3. \A i \in 1 .. Len(g) : Genuine(g[i])
  <2>1. \A i \in 1 .. Len(g) : i \in 1 .. Len(queue) \/ i = Len(queue) + 1
    BY <1>2
  <2> QED
    BY <1>2, <2>1 DEF QueueInv
<1>4. \A i \in 1 .. Len(e) : Genuine(e[i])
  <2>1. ASSUME NEW k \in 1 .. Len(g), e = Seqs!RemoveAt(g, k)
        PROVE  \A i \in 1 .. Len(e) : Genuine(e[i])
    <3>1. PICK place : Thins(Seqs!RemoveAt(g, k), g, place)
      BY <1>2, RemoveAtThins
    <3> QED
      BY <1>3, <2>1, <3>1 DEF Thins
  <2> QED
    BY <1>1, <1>3, <2>1
<1>5. queue' = e \/ queue' = queue
  BY DEF Broadcast, e
<1>6. QueueInv' <=> /\ \A i \in 1 .. Len(queue') : Genuine(queue'[i])
                    /\ Cardinality(Droppables(queue')) <= Queued
  BY DEF QueueInv, Genuine, Audio, Played, Droppables
<1> QED
  BY <1>1, <1>4, <1>5, <1>6 DEF QueueInv

LEMMA NextQueue ==
    SenderInv /\ SenderInv' /\ CountInv /\ QueueInv /\ [EndToEndNext]_allVars => QueueInv'
<1> SUFFICES ASSUME SenderInv, SenderInv', CountInv, QueueInv, [EndToEndNext]_allVars
             PROVE  QueueInv'
  OBVIOUS
<1>0. IsSequence(queue) /\ sent \in Nat
  BY SequenceAssumption DEF CountInv, InOrder
<1>1. CASE BroadcastPacket
  <2> DEFINE late == outgoing = "overtaken"
             m == [type |-> "audio", header |-> packet, number |-> sent',
                   overtaken |-> late,
                   payload |-> writeFrame(SubSeq(Played(sent'), 1, packet.channels),
                                          packet.settings.format)]
  <2>1. Broadcast(m) /\ sent' = sent + 1
    BY <1>1 DEF BroadcastPacket, Played
  <2>2. packet \in Packets /\ packet.epoch <= MaxEvents /\ late \in BOOLEAN
    BY DEF SenderInv, Packets
  <2> HIDE DEF late
  <2>3. Genuine(m)
    BY <1>0, <2>1, <2>2 DEF Genuine, Audio
  <2> HIDE DEF m
  <2> QED
    BY <1>0, <2>1, <2>3, BroadcastKeepsQueue
<1>2. CASE BroadcastConfig
  <2> DEFINE m == [type |-> "config", channels |-> channels]
  <2>1. Broadcast(m) /\ Genuine(m)
    BY <1>2 DEF BroadcastConfig, Genuine, SenderInv
  <2> HIDE DEF m
  <2> QED
    BY <1>0, <2>1, BroadcastKeepsQueue
<1>3. CASE BroadcastHello
  <2>1. PICK n \in hello : Broadcast([type |-> "hello", channels |-> n])
    BY <1>3 DEF BroadcastHello
  <2>2. Genuine([type |-> "hello", channels |-> n])
    BY DEF Genuine, SenderInv
  <2> QED
    BY <1>0, <2>1, <2>2, BroadcastKeepsQueue
<1>4. CASE Break
  <2>1. PICK n \in 0 .. Len(queue) : queue' = SubSeq(queue, 1, n)
    BY <1>4 DEF Break
  <2>2. PICK place : Thins(queue', queue, place)
    BY <1>0, <2>1, CutThins
  <2> QED
    BY <2>2, ThinnedQueue
<1>5. CASE handlePacket \/ handleConfig \/ handleHello
  <2>1. queue # <<>> /\ queue' = Tail(queue)
    BY <1>5 DEF handlePacket, handleConfig, handleHello, Receive
  <2>2. PICK place : Thins(queue', queue, place)
    BY <1>0, <2>1, TailThins
  <2> QED
    BY <2>2, ThinnedQueue
<1>6. CASE UNCHANGED queue
  BY <1>6 DEF QueueInv, Genuine, Audio, Played, Droppables
<1>7. CASE \/ Reconfigure \/ BuildPacket \/ BuildHello \/ Restart \/ Connect \/ Closed \/ Play
           \/ UNCHANGED allVars
  <2>1. UNCHANGED queue
    BY <1>7 DEF Reconfigure, BuildPacket, BuildHello, Restart, Connect, Closed, Play, network, allVars
  <2> QED
    BY <1>6, <2>1
<1> QED
  BY <1>1, <1>2, <1>3, <1>4, <1>5, <1>7 DEF EndToEndNext

-----------------------------------------------------------------------------
(* The page                                                                  *)

\* A packet of the ring, with what the page has made of its bytes
Decoded(p) ==
    /\ p.header \in Packets /\ p.number \in Nat
    /\ p.heard = decode(writeFrame(SubSeq(Played(p.number), 1, p.header.channels),
                                   p.header.settings.format),
                        p.header.settings.format, p.header.channels)

PageInv ==
    /\ stream \in [epoch : -1 .. MaxEvents, channels : ChannelSet, format : Formats]
    /\ Len(ring) <= Most
    /\ \A i \in 1 .. Len(ring) : Decoded(ring[i])
    /\ missed <= last

LEMMA FirstIsGenuine ==
    ASSUME QueueInv, IsSequence(queue), NEW type, Receive(type)
    PROVE  Genuine(Head(queue)) /\ Head(queue).type = type
<1>1. queue # <<>> /\ Head(queue).type = type
  BY DEF Receive
<1>2. Len(queue) >= 1 /\ Len(queue) \in Nat /\ Head(queue) = queue[1]
  BY <1>1, ElementsOf, EmptySeq, HeadTailProperties DEF IsSequence
<1> QED
  BY <1>1, <1>2 DEF QueueInv

LEMMA InitPage == EndToEndInit => PageInv
<1> SUFFICES ASSUME EndToEndInit PROVE PageInv
  OBVIOUS
<1>1. /\ stream = NoStream /\ ring = <<>> /\ missed = 0 /\ last = 0
      /\ channels = 2 /\ channels \in ChannelSet
  BY DEF EndToEndInit, Init
<1>2. Len(ring) = 0
  BY <1>1, EmptyIsSequence
<1>3. "pcm16" \in Formats
  BY DEF Formats
<1>4. stream \in [epoch : -1 .. MaxEvents, channels : ChannelSet, format : Formats]
  BY <1>1, <1>3, PacketAssumption DEF NoStream
<1> QED
  BY <1>1, <1>2, <1>4, RingAssumption DEF PageInv

LEMMA PacketKeepsPage ==
    ASSUME QueueInv, CountInv, RingFitsStream, PageInv, handlePacket
    PROVE  PageInv'
<1> DEFINE m == Head(queue)
<1>0. IsSequence(queue) /\ IsSequence(ring)
  BY DEF CountInv, InOrder, RingFitsStream
<1>1. /\ m.header \in Packets /\ m.header.epoch <= MaxEvents /\ m.number \in Nat
      /\ m.payload = writeFrame(SubSeq(Played(m.number), 1, m.header.channels),
                                m.header.settings.format)
  <2>1. Genuine(m) /\ m.type = "audio"
    BY <1>0, FirstIsGenuine DEF handlePacket
  <2> QED
    BY <2>1 DEF Genuine
<1>2. /\ IsSequence(ring') /\ Len(ring') \in 1 .. Most
      /\ ring'[Len(ring')] = Arrived
  BY <1>0, PacketPushed
<1>3. Decoded(Arrived)
  BY <1>1 DEF Decoded, Arrived
<1>4. PICK o \in Int : \A i \in 1 .. Len(ring') - 1 :
                           i + o \in 1 .. Len(ring) /\ ring'[i] = ring[i + o]
  BY <1>0, PacketPushed
<1>5. \A i \in 1 .. Len(ring') : Decoded(ring'[i])
  <2>1. \A i \in 1 .. Len(ring') : i = Len(ring') \/ i \in 1 .. Len(ring') - 1
    BY <1>2
  <2> QED
    BY <1>2, <1>3, <1>4, <2>1 DEF PageInv
<1>6. stream' \in [epoch : -1 .. MaxEvents, channels : ChannelSet, format : Formats]
  <2>1. stream' = [epoch |-> m.header.epoch, channels |-> m.header.channels,
                   format |-> m.header.settings.format]
    BY DEF handlePacket, Described
  <2>2. /\ m.header.epoch \in Nat /\ m.header.channels \in ChannelSet
        /\ m.header.settings \in SettingsSet
    BY <1>1 DEF Packets
  <2>3. m.header.settings.format \in Formats
    BY <2>2, PacketAssumption
  <2>4. m.header.epoch \in -1 .. MaxEvents
    BY <1>1, <2>2, PacketAssumption
  <2> HIDE DEF m
  <2> QED
    BY <2>1, <2>2, <2>3, <2>4
<1>7. missed' <= last'
  <2>1. missed' = (IF last = 0 THEN 0 ELSE missed + m.number - last - 1) /\ last' = m.number
    BY DEF handlePacket
  <2>2. m.number \in last + 1 .. sent
    BY ReceiveKeepsOrder DEF handlePacket
  <2>3. last \in Nat /\ sent \in Nat /\ missed \in Nat /\ missed <= last
    BY SequenceAssumption DEF CountInv, PageInv
  <2> HIDE DEF m
  <2> QED
    BY <2>1, <2>2, <2>3
<1> QED
  BY <1>2, <1>5, <1>6, <1>7 DEF PageInv, Decoded, Played

LEMMA NextPage ==
    QueueInv /\ CountInv /\ RingFitsStream /\ PageInv /\ [EndToEndNext]_allVars => PageInv'
<1> SUFFICES ASSUME QueueInv, CountInv, RingFitsStream, PageInv, [EndToEndNext]_allVars
             PROVE  PageInv'
  OBVIOUS
<1>0. IsSequence(queue) /\ IsSequence(ring)
  BY DEF CountInv, InOrder, RingFitsStream
<1>1. CASE handlePacket
  BY <1>1, PacketKeepsPage
<1>2. ASSUME NEW type \in {"config", "hello"}, Receive(type)
      PROVE  [stream EXCEPT !.channels = Head(queue).channels]
                 \in [epoch : -1 .. MaxEvents, channels : ChannelSet, format : Formats]
  <2>1. Genuine(Head(queue)) /\ Head(queue).type = type
    BY <1>0, <1>2, FirstIsGenuine
  <2>2. Head(queue).channels \in ChannelSet
    BY <2>1 DEF Genuine, Audio
  <2> DEFINE n == Head(queue).channels
  <2> HIDE DEF n
  <2>3. n \in ChannelSet
    BY <2>2 DEF n
  <2>4. [stream EXCEPT !.channels = n]
            \in [epoch : -1 .. MaxEvents, channels : ChannelSet, format : Formats]
    BY <2>3 DEF PageInv
  <2> QED
    BY <2>4 DEF n
<1>3. CASE handleConfig
  <2>1. stream' = [stream EXCEPT !.channels = Head(queue).channels] /\ ring' = <<>>
        /\ UNCHANGED <<last, missed>> /\ Receive("config")
    BY <1>3 DEF handleConfig, Reset
  <2>2. stream' \in [epoch : -1 .. MaxEvents, channels : ChannelSet, format : Formats]
    BY <1>2, <2>1
  <2>3. Len(ring') = 0
    BY <2>1, EmptyIsSequence
  <2> QED
    BY <2>1, <2>2, <2>3, RingAssumption DEF PageInv
<1>4. CASE handleHello
  <2>1. stream' = [stream EXCEPT !.channels = Head(queue).channels]
        /\ UNCHANGED <<ring, last, missed>> /\ Receive("hello")
    BY <1>4 DEF handleHello
  <2>2. stream' \in [epoch : -1 .. MaxEvents, channels : ChannelSet, format : Formats]
    BY <1>2, <2>1
  <2> QED
    BY <2>1, <2>2 DEF PageInv, Decoded, Played
<1>5. CASE Closed
  <2>1. ring' = <<>> /\ UNCHANGED <<stream, last, missed>>
    BY <1>5 DEF Closed, Reset
  <2>2. Len(ring') = 0
    BY <2>1, EmptyIsSequence
  <2> QED
    BY <2>1, <2>2, RingAssumption DEF PageInv
<1>6. CASE Play
  <2>1. /\ Len(ring') = Len(ring) - 1 /\ Len(ring) \in Nat
        /\ \A i \in 1 .. Len(ring) - 1 : ring'[i] = ring[i + 1]
        /\ UNCHANGED <<stream, last, missed>>
    BY <1>0, <1>6, TailIsSequence DEF Play, IsSequence
  <2>2. \A i \in 1 .. Len(ring') : i + 1 \in 1 .. Len(ring)
    BY <2>1
  <2>3. Len(ring') <= Most
    BY <2>1, RingAssumption DEF PageInv
  <2> QED
    BY <2>1, <2>2, <2>3 DEF PageInv, Decoded, Played
<1>7. CASE UNCHANGED <<stream, ring, last, missed>>
  BY <1>7 DEF PageInv, Decoded, Played
<1>8. \/ handlePacket \/ handleConfig \/ handleHello \/ Closed \/ Play
      \/ UNCHANGED <<stream, ring, last, missed>>
  <2>1. CASE Reconfigure \/ BuildPacket \/ BroadcastPacket \/ BroadcastConfig
    BY <2>1 DEF Reconfigure, BuildPacket, BroadcastPacket, BroadcastConfig, page
  <2>2. CASE BuildHello \/ BroadcastHello \/ Restart
    BY <2>2 DEF BuildHello, BroadcastHello, Restart, page
  <2>3. CASE Break \/ Connect
    BY <2>3 DEF Break, Connect, page
  <2>4. CASE UNCHANGED allVars
    BY <2>4 DEF allVars, page
  <2> QED
    BY <2>1, <2>2, <2>3, <2>4 DEF EndToEndNext
<1> QED
  BY <1>1, <1>3, <1>4, <1>5, <1>6, <1>7, <1>8

-----------------------------------------------------------------------------
(* Restarts of the sample clock.  The packets between two restarts have the  *)
(* same origin: the number of the packet whose clock is zero.                *)

Origin(p) == p.number - p.header.sampleClock

\* The origin of the next packet, and of the one that is not yet broadcast
NextOrigin == IF pending THEN Made + 1 ELSE Made - packet.sampleClock
BuiltOrigin == (sent + 1) - packet.sampleClock

Config(message) == message.type = "config"

\* Behind the first n messages of q, and the ring r before them, nothing is left of
\* what the page had before the last config message.
Clean(q, n, r) ==
    /\ \A k \in 1 .. n : Audio(q[k]) => \E j \in k + 1 .. n : Config(q[j])
    /\ (\E j \in 1 .. n : Config(q[j])) \/ Len(r) = 0

\* Audio of an older origin is followed by a config message, or was overtaken by one
\* and will be the first in the ring.
Settled(q, r, origin) ==
    \A i \in 1 .. Len(q) :
        Audio(q[i]) /\ Origin(q[i]) # origin =>
            \/ \E j \in i + 1 .. Len(q) : Config(q[j])
            \/ q[i].overtaken /\ Clean(q, i - 1, r)

RingSettled(r, origin) ==
    \A i \in 1 .. Len(r) : Origin(r[i]) = origin \/ (i = 1 /\ r[i].overtaken)

\* What is in the ring is older than what is to come and each packet is than the
\* next.  All of it but for a first one that was overtaken is of the next packet's
\* origin, or the page will still be told.
RestartInv ==
    /\ packet.sampleClock <= Made
    /\ link = "down" => queue = <<>> /\ ring = <<>>
    /\ \A i \in 1 .. Len(ring) : ring[i].number \in 1 .. last
    /\ \A i, j \in 1 .. Len(ring) : i < j => ring[i].number < ring[j].number
    /\ announce \/ (outgoing = "built" => BuiltOrigin = NextOrigin)
    /\ \/ announce \/ link = "lost"
       \/ /\ Settled(queue, ring, NextOrigin)
          /\ (\E j \in 1 .. Len(queue) : Config(queue[j])) \/ RingSettled(ring, NextOrigin)
          /\ outgoing = "none" \/ BuiltOrigin = NextOrigin \/ Clean(queue, Len(queue), ring)

LEMMA CleanThinned ==
    ASSUME NEW q, NEW e, NEW place, Thins(e, q, place), NEW r,
           \A k \in 1 .. Len(q) : Config(q[k]) => \E i \in 1 .. Len(e) : place[i] = k,
           NEW n \in 0 .. Len(q), NEW m \in 0 .. Len(e),
           \A i \in 1 .. Len(e) : i <= m <=> place[i] <= n,
           Clean(q, n, r)
    PROVE  Clean(e, m, r)
<1>0. /\ Len(q) \in Nat /\ Len(e) \in Nat
      /\ \A i \in 1 .. Len(e) : place[i] \in 1 .. Len(q) /\ e[i] = q[place[i]]
      /\ \A i, j \in 1 .. Len(e) : i < j => place[i] < place[j]
  BY DEF Thins, IsSequence
<1>1. ASSUME NEW k \in 1 .. m, Audio(e[k])
      PROVE  \E j \in k + 1 .. m : Config(e[j])
  <2>1. k \in 1 .. Len(e) /\ place[k] \in 1 .. n /\ Audio(q[place[k]])
    BY <1>0, <1>1
  <2>2. PICK j \in place[k] + 1 .. n : Config(q[j])
    BY <2>1 DEF Clean
  <2>3. j \in 1 .. Len(q) /\ place[k] < j /\ j <= n
    BY <1>0, <2>1, <2>2
  <2>4. PICK i \in 1 .. Len(e) : place[i] = j
    BY <2>2, <2>3
  <2>5. i # k /\ ~(i < k) /\ i <= m
    BY <1>0, <2>1, <2>3, <2>4
  <2>6. i \in k + 1 .. m
    BY <1>0, <2>1, <2>4, <2>5
  <2>7. Config(e[i])
    BY <1>0, <2>2, <2>4
  <2> QED
    BY <2>6, <2>7
<1>2. ASSUME NEW j \in 1 .. n, Config(q[j])
      PROVE  \E i \in 1 .. m : Config(e[i])
  <2>1. j \in 1 .. Len(q)
    BY <1>0
  <2>2. PICK i \in 1 .. Len(e) : place[i] = j
    BY <1>2, <2>1
  <2>3. i \in 1 .. m /\ Config(e[i])
    BY <1>0, <1>2, <2>1, <2>2
  <2> QED
    BY <2>3
<1> QED
  BY <1>1, <1>2 DEF Clean

\* Where config messages stay, what thins a queue leaves it settled.
LEMMA SettledThinned ==
    ASSUME NEW q, NEW e, NEW place, Thins(e, q, place), NEW r, NEW origin,
           Settled(q, r, origin),
           \A k \in 1 .. Len(q) : Config(q[k]) => \E i \in 1 .. Len(e) : place[i] = k
    PROVE  Settled(e, r, origin)
<1>1. SUFFICES ASSUME NEW i \in 1 .. Len(e), Audio(e[i]), Origin(e[i]) # origin
               PROVE  \/ \E j \in i + 1 .. Len(e) : Config(e[j])
                      \/ e[i].overtaken /\ Clean(e, i - 1, r)
  BY DEF Settled
<1>2. /\ e[i] = q[place[i]] /\ place[i] \in 1 .. Len(q) /\ Len(q) \in Nat /\ Len(e) \in Nat
      /\ \A k \in 1 .. Len(e) : place[k] \in 1 .. Len(q)
      /\ \A k, j \in 1 .. Len(e) : k < j => place[k] < place[j]
  BY DEF Thins, IsSequence
<1>3. \/ \E k \in place[i] + 1 .. Len(q) : Config(q[k])
      \/ q[place[i]].overtaken /\ Clean(q, place[i] - 1, r)
  BY <1>1, <1>2 DEF Settled
<1>4. CASE \E k \in place[i] + 1 .. Len(q) : Config(q[k])
  <2>1. PICK k \in place[i] + 1 .. Len(q) : Config(q[k])
    BY <1>4
  <2>2. k \in 1 .. Len(q) /\ place[i] < k
    BY <1>2
  <2>3. PICK j \in 1 .. Len(e) : place[j] = k
    BY <2>1, <2>2
  <2>4. Config(e[j])
    BY <2>1, <2>3 DEF Thins
  <2>5. i # j /\ ~(j < i)
    BY <1>2, <2>2, <2>3
  <2>6. j \in i + 1 .. Len(e)
    BY <1>2, <2>5
  <2> QED
    BY <2>4, <2>6
<1>5. CASE q[place[i]].overtaken /\ Clean(q, place[i] - 1, r)
  <2>1. /\ place[i] - 1 \in 0 .. Len(q) /\ i - 1 \in 0 .. Len(e)
    BY <1>2
  <2>2. ASSUME NEW k \in 1 .. Len(e) PROVE k <= i - 1 <=> place[k] <= place[i] - 1
    <3>1. /\ k < i => place[k] < place[i]
          /\ i < k => place[i] < place[k]
          /\ place[k] \in 1 .. Len(q)
      BY <1>2
    <3>2. k = i => place[k] = place[i]
      OBVIOUS
    <3> QED
      BY <1>2, <3>1, <3>2
  <2>3. Clean(e, i - 1, r)
    BY <1>5, <2>1, <2>2, CleanThinned
  <2> QED
    BY <1>2, <1>5, <2>3
<1> QED
  BY <1>3, <1>4, <1>5

\* The page takes the first message: a config message empties the ring, and none
\* but audio fills an empty one.
LEMMA CleanTail ==
    ASSUME NEW q, IsSequence(q), q # <<>>, NEW n \in 1 .. Len(q), NEW r, NEW t, Clean(q, n, r),
           Config(Head(q)) => Len(t) = 0,
           ~Audio(Head(q)) /\ Len(r) = 0 => Len(t) = 0
    PROVE  Clean(Tail(q), n - 1, t)
<1> DEFINE e == Tail(q)
<1>1. /\ Len(e) = Len(q) - 1 /\ Len(q) \in Nat /\ Head(q) = q[1]
      /\ \A i \in 1 .. Len(q) - 1 : e[i] = q[i + 1]
  BY TailIsSequence, ElementsOf, HeadTailProperties DEF IsSequence
<1> HIDE DEF e
<1>2. ASSUME NEW j \in 2 .. n, Config(q[j])
      PROVE  j - 1 \in 1 .. n - 1 /\ Config(e[j - 1])
  <2>1. j - 1 \in 1 .. Len(q) - 1 /\ j - 1 + 1 = j
    BY <1>1
  <2>2. e[j - 1] = q[j]
    BY <1>1, <2>1
  <2> QED
    BY <1>1, <1>2, <2>2
<1>3. ASSUME NEW k \in 1 .. n - 1, Audio(e[k])
      PROVE  \E j \in k + 1 .. n - 1 : Config(e[j])
  <2>1. k + 1 \in 1 .. n /\ Audio(q[k + 1])
    BY <1>1, <1>3
  <2>2. PICK j \in (k + 1) + 1 .. n : Config(q[j])
    BY <2>1 DEF Clean
  <2>3. j \in 2 .. n /\ j - 1 \in k + 1 .. n - 1
    BY <1>1
  <2> QED
    BY <1>2, <2>2, <2>3
<1>4. (\E j \in 1 .. n - 1 : Config(e[j])) \/ Len(t) = 0
  <2>1. CASE Audio(q[1])
    <3>1. PICK j \in 1 + 1 .. n : Config(q[j])
      BY <1>1, <2>1 DEF Clean
    <3> QED
      BY <1>2, <3>1
  <2>2. CASE ~Audio(q[1])
    <3>1. CASE \E j \in 1 .. n : Config(q[j])
      <4>1. PICK j \in 1 .. n : Config(q[j])
        BY <3>1
      <4>2. CASE j = 1
        BY <1>1, <4>1, <4>2
      <4>3. CASE j # 1
        <5>1. j \in 2 .. n
          BY <4>3
        <5> QED
          BY <1>2, <4>1, <5>1
      <4> QED
        BY <4>2, <4>3
    <3>2. CASE Len(r) = 0
      BY <1>1, <2>2, <3>2
    <3> QED
      BY <3>1, <3>2 DEF Clean
  <2> QED
    BY <2>1, <2>2
<1> QED
  BY <1>3, <1>4 DEF Clean, e

LEMMA SettledTail ==
    ASSUME NEW q, IsSequence(q), q # <<>>, NEW r, NEW t, NEW origin, Settled(q, r, origin),
           Config(Head(q)) => Len(t) = 0,
           ~Audio(Head(q)) /\ Len(r) = 0 => Len(t) = 0
    PROVE  Settled(Tail(q), t, origin)
<1> DEFINE e == Tail(q)
<1>1. /\ IsSequence(e) /\ Len(e) = Len(q) - 1 /\ Len(q) \in Nat /\ Len(e) \in Nat
      /\ \A i \in 1 .. Len(q) - 1 : e[i] = q[i + 1]
  BY TailIsSequence DEF IsSequence
<1> HIDE DEF e
<1>2. SUFFICES ASSUME NEW i \in 1 .. Len(e), Audio(e[i]), Origin(e[i]) # origin
               PROVE  \/ \E j \in i + 1 .. Len(e) : Config(e[j])
                      \/ e[i].overtaken /\ Clean(e, i - 1, t)
  BY DEF Settled, e
<1>3. i + 1 \in 1 .. Len(q) /\ e[i] = q[i + 1] /\ i \in 1 .. Len(q) /\ (i + 1) - 1 = i
  BY <1>1
<1>4. \/ \E k \in (i + 1) + 1 .. Len(q) : Config(q[k])
      \/ q[i + 1].overtaken /\ Clean(q, i, r)
  BY <1>2, <1>3 DEF Settled
<1>5. CASE \E k \in (i + 1) + 1 .. Len(q) : Config(q[k])
  <2>1. PICK k \in (i + 1) + 1 .. Len(q) : Config(q[k])
    BY <1>5
  <2>2. k - 1 \in i + 1 .. Len(e) /\ e[k - 1] = q[k]
    BY <1>1
  <2> QED
    BY <2>1, <2>2
<1>6. CASE q[i + 1].overtaken /\ Clean(q, i, r)
  <2>1. Clean(e, i - 1, t)
    BY <1>3, <1>6, CleanTail DEF e
  <2> QED
    BY <1>3, <1>6, <2>1
<1> QED
  BY <1>4, <1>5, <1>6

\* A config message settles all before it; other messages leave settled what is,
\* when they are no audio of an older origin, or audio that was overtaken.
LEMMA SettledAppended ==
    ASSUME NEW q, IsSequence(q), NEW r, NEW m, NEW origin,
           \/ Config(m)
           \/ /\ Settled(q, r, origin)
              /\ Audio(m) /\ Origin(m) # origin => m.overtaken /\ Clean(q, Len(q), r)
    PROVE  /\ Settled(Append(q, m), r, origin)
           /\ (Config(m) \/ \E j \in 1 .. Len(q) : Config(q[j])) =>
                  \E j \in 1 .. Len(Append(q, m)) : Config(Append(q, m)[j])
           /\ Config(m) \/ (~Audio(m) /\ Clean(q, Len(q), r)) =>
                  Clean(Append(q, m), Len(Append(q, m)), r)
<1> DEFINE g == Append(q, m)
<1>1. /\ IsSequence(g) /\ Len(g) = Len(q) + 1 /\ Len(q) \in Nat /\ Len(g) \in Nat
      /\ \A i \in 1 .. Len(q) : g[i] = q[i]
      /\ g[Len(g)] = m
  BY AppendIsSequence DEF IsSequence
<1> HIDE DEF g
<1>2. Config(m) => ~Audio(m)
  BY DEF Config, Audio
<1>3. ASSUME NEW n \in 0 .. Len(q), Clean(q, n, r) PROVE Clean(g, n, r)
  <2>1. \A k \in 1 .. n : k \in 1 .. Len(q) /\ g[k] = q[k]
    BY <1>1
  <2>2. \A k \in 1 .. n : \A j \in k + 1 .. n : j \in 1 .. n
    OBVIOUS
  <2> QED
    BY <1>3, <2>1, <2>2 DEF Clean
<1>4. Settled(g, r, origin)
  <2>1. SUFFICES ASSUME NEW i \in 1 .. Len(g), Audio(g[i]), Origin(g[i]) # origin
                 PROVE  \/ \E j \in i + 1 .. Len(g) : Config(g[j])
                        \/ g[i].overtaken /\ Clean(g, i - 1, r)
    BY DEF Settled
  <2>2. CASE Config(m)
    <3>1. i # Len(g)
      BY <1>1, <1>2, <2>1, <2>2
    <3>2. Len(g) \in i + 1 .. Len(g)
      BY <1>1, <3>1
    <3> QED
      BY <1>1, <2>2, <3>2
  <2>3. CASE /\ Settled(q, r, origin)
             /\ Audio(m) /\ Origin(m) # origin => m.overtaken /\ Clean(q, Len(q), r)
    <3>1. CASE i = Len(g)
      <4>1. m.overtaken /\ Clean(q, Len(q), r)
        BY <1>1, <2>1, <2>3, <3>1
      <4>2. i - 1 = Len(q) /\ Len(q) \in 0 .. Len(q)
        BY <1>1, <3>1
      <4>3. Clean(g, i - 1, r)
        BY <1>3, <4>1, <4>2
      <4> QED
        BY <1>1, <3>1, <4>1, <4>3
    <3>2. CASE i # Len(g)
      <4>1. i \in 1 .. Len(q) /\ g[i] = q[i] /\ i - 1 \in 0 .. Len(q)
        BY <1>1, <3>2
      <4>2. \/ \E j \in i + 1 .. Len(q) : Config(q[j])
            \/ q[i].overtaken /\ Clean(q, i - 1, r)
        BY <2>1, <2>3, <4>1 DEF Settled
      <4>3. \A j \in i + 1 .. Len(q) : j \in i + 1 .. Len(g) /\ g[j] = q[j]
        BY <1>1, <4>1
      <4> QED
        BY <1>3, <4>1, <4>2, <4>3
    <3> QED
      BY <3>1, <3>2
  <2> QED
    BY <2>2, <2>3
<1>5. (Config(m) \/ \E j \in 1 .. Len(q) : Config(q[j])) =>
          \E j \in 1 .. Len(g) : Config(g[j])
  <2>1. Len(g) \in 1 .. Len(g) /\ \A j \in 1 .. Len(q) : j \in 1 .. Len(g)
    BY <1>1
  <2> QED
    BY <1>1, <2>1
<1>6. ASSUME Config(m) PROVE Clean(g, Len(g), r)
  <2>1. Len(g) \in 1 .. Len(g) /\ Config(g[Len(g)])
    BY <1>1, <1>6
  <2>2. ASSUME NEW k \in 1 .. Len(g), Audio(g[k]) PROVE \E j \in k + 1 .. Len(g) : Config(g[j])
    <3>1. k # Len(g)
      BY <1>1, <1>2, <1>6, <2>2
    <3>2. Len(g) \in k + 1 .. Len(g)
      BY <1>1, <3>1
    <3> QED
      BY <2>1, <3>2
  <2> QED
    BY <2>1, <2>2 DEF Clean
<1>7. ASSUME ~Audio(m), Clean(q, Len(q), r) PROVE Clean(g, Len(g), r)
  <2>1. ASSUME NEW k \in 1 .. Len(g), Audio(g[k]) PROVE \E j \in k + 1 .. Len(g) : Config(g[j])
    <3>1. k # Len(g)
      BY <1>1, <1>7, <2>1
    <3>2. k \in 1 .. Len(q) /\ g[k] = q[k]
      BY <1>1, <3>1
    <3>3. PICK j \in k + 1 .. Len(q) : Config(q[j])
      BY <1>7, <2>1, <3>2 DEF Clean
    <3>4. j \in 1 .. Len(q) /\ j \in k + 1 .. Len(g)
      BY <1>1, <3>2
    <3> QED
      BY <1>1, <3>3, <3>4
  <2>2. (\E j \in 1 .. Len(g) : Config(g[j])) \/ Len(r) = 0
    BY <1>5, <1>7 DEF Clean
  <2> QED
    BY <2>1, <2>2 DEF Clean
<1> QED
  BY <1>4, <1>5, <1>6, <1>7 DEF g

LEMMA SettledEnqueued ==
    ASSUME NEW q, IsSequence(q), NEW r, NEW m, NEW origin,
           \/ Config(m)
           \/ /\ Settled(q, r, origin)
              /\ Audio(m) /\ Origin(m) # origin => m.overtaken /\ Clean(q, Len(q), r)
    PROVE  /\ Settled(Enqueued(q, m), r, origin)
           /\ (Config(m) \/ \E j \in 1 .. Len(q) : Config(q[j])) =>
                  \E j \in 1 .. Len(Enqueued(q, m)) : Config(Enqueued(q, m)[j])
           /\ Config(m) \/ (~Audio(m) /\ Clean(q, Len(q), r)) =>
                  Clean(Enqueued(q, m), Len(Enqueued(q, m)), r)
<1> DEFINE g == Append(q, m)
           e == Enqueued(q, m)
<1>1. /\ Settled(g, r, origin)
      /\ (Config(m) \/ \E j \in 1 .. Len(q) : Config(q[j])) => \E j \in 1 .. Len(g) : Config(g[j])
      /\ Config(m) \/ (~Audio(m) /\ Clean(q, Len(q), r)) => Clean(g, Len(g), r)
  BY SettledAppended
<1>2. \/ e = g
      \/ \E k \in 1 .. Len(g) : Audio(g[k]) /\ e = Seqs!RemoveAt(g, k)
  BY EnqueuedIs
<1>3. IsSequence(g)
  BY AppendIsSequence
<1> HIDE DEF g, e
<1>4. ASSUME NEW k \in 1 .. Len(g), Audio(g[k]), e = Seqs!RemoveAt(g, k)
      PROVE  /\ Settled(e, r, origin)
             /\ (\E j \in 1 .. Len(g) : Config(g[j])) => \E j \in 1 .. Len(e) : Config(e[j])
             /\ Clean(g, Len(g), r) => Clean(e, Len(e), r)
  <2>1. PICK place :
           /\ Thins(e, g, place)
           /\ \A n \in 1 .. Len(g) : n # k => \E i \in 1 .. Len(e) : place[i] = n
    BY <1>3, <1>4, RemoveAtThins
  <2>2. \A n \in 1 .. Len(g) : Config(g[n]) => \E i \in 1 .. Len(e) : place[i] = n
    BY <1>4, <2>1 DEF Audio, Config
  <2>3. Settled(e, r, origin)
    BY <1>1, <2>1, <2>2, SettledThinned
  <2>4. ASSUME NEW j \in 1 .. Len(g), Config(g[j])
        PROVE  \E i \in 1 .. Len(e) : Config(e[i])
    <3>1. PICK i \in 1 .. Len(e) : place[i] = j
      BY <2>2, <2>4
    <3> QED
      BY <2>1, <2>4, <3>1 DEF Thins
  <2>5. ASSUME Clean(g, Len(g), r) PROVE Clean(e, Len(e), r)
    <3>1. /\ Len(g) \in 0 .. Len(g) /\ Len(e) \in 0 .. Len(e)
          /\ \A i \in 1 .. Len(e) : i <= Len(e) <=> place[i] <= Len(g)
      BY <2>1 DEF Thins, IsSequence
    <3> QED
      BY <2>1, <2>2, <2>5, <3>1, CleanThinned
  <2> QED
    BY <2>3, <2>4, <2>5
<1> QED
  BY <1>1, <1>2, <1>4 DEF e

LEMMA EmptySettled ==
    ASSUME NEW q, NEW r, Len(q) = 0, Len(r) = 0, NEW origin
    PROVE  Settled(q, r, origin) /\ RingSettled(r, origin) /\ Clean(q, Len(q), r)
BY DEF Settled, RingSettled, Clean

\* RestartInv of the next state, with its parts applied to the primed variables
LEMMA RestartNext ==
    RestartInv' <=>
        /\ packet'.sampleClock <= Made'
        /\ link' = "down" => queue' = <<>> /\ ring' = <<>>
        /\ \A i \in 1 .. Len(ring') : ring'[i].number \in 1 .. last'
        /\ \A i, j \in 1 .. Len(ring') : i < j => ring'[i].number < ring'[j].number
        /\ announce' \/ (outgoing' = "built" => BuiltOrigin' = NextOrigin')
        /\ \/ announce' \/ link' = "lost"
           \/ /\ Settled(queue', ring', NextOrigin')
              /\ \/ \E j \in 1 .. Len(queue') : Config(queue'[j])
                 \/ RingSettled(ring', NextOrigin')
              /\ \/ outgoing' = "none" \/ BuiltOrigin' = NextOrigin'
                 \/ Clean(queue', Len(queue'), ring')
BY DEF RestartInv, Settled, RingSettled, Clean, Origin, Audio, Config

LEMMA InitRestart == EndToEndInit => RestartInv
<1> SUFFICES ASSUME EndToEndInit PROVE RestartInv
  OBVIOUS
<1>1. /\ packet.sampleClock = 0 /\ Made = 0 /\ queue = <<>> /\ ring = <<>>
      /\ Len(queue) = 0 /\ Len(ring) = 0 /\ outgoing = "none"
  BY EmptyIsSequence DEF EndToEndInit, Made
<1> QED
  BY <1>1, EmptySettled DEF RestartInv

\* The engine counts the clock on from one restart to the next.
LEMMA BuildKeepsOrigin ==
    ASSUME SenderInv, CountInv, RestartInv, BuildPacket
    PROVE  /\ NextOrigin' = NextOrigin /\ packet'.sampleClock <= Made'
           /\ BuiltOrigin' = NextOrigin'
<1> USE PacketAssumption
<1>1. /\ sent \in 0 .. MaxPackets /\ sent < MaxPackets /\ Made = sent /\ Made' = sent + 1
      /\ sent' = sent /\ pending' = FALSE
      /\ packet'.sampleClock = IF pending THEN 0
                               ELSE (packet.sampleClock + packet.settings.frames) % ClockMod
  BY DEF BuildPacket, Send, CountInv, Made
<1>2. /\ packet.sampleClock \in 0 .. ClockMod - 1 /\ packet.sampleClock <= sent
      /\ packet.settings.frames = 1 /\ pending \in BOOLEAN
  BY <1>1 DEF SenderInv, Packets, RestartInv
<1>3. MaxPackets \in Nat
  BY SequenceAssumption
<1>4. CASE pending
  BY <1>1, <1>2, <1>3, <1>4 DEF NextOrigin, BuiltOrigin
<1>5. CASE ~pending
  <2>1. packet.sampleClock + 1 \in 0 .. ClockMod - 1
    BY <1>1, <1>2, <1>3
  <2>2. packet'.sampleClock = packet.sampleClock + 1
    BY <1>1, <1>2, <1>5, <2>1
  <2> QED
    BY <1>1, <1>2, <1>3, <1>5, <2>2 DEF NextOrigin, BuiltOrigin
<1> QED
  BY <1>4, <1>5

LEMMA BuildKeepsRestart ==
    ASSUME SenderInv, CountInv, RestartInv, BuildPacket
    PROVE  RestartInv'
<1>1. /\ NextOrigin' = NextOrigin /\ packet'.sampleClock <= Made'
      /\ BuiltOrigin' = NextOrigin' /\ UNCHANGED <<announce, link, queue, ring, last>>
  BY BuildKeepsOrigin DEF BuildPacket, network, page
<1> QED
  BY <1>1 DEF RestartInv, Settled, RingSettled, Clean, Origin, Audio, Config

\* What the restarts of the clock, the queue and the ring have in common is left.
LEMMA QuietKeepsRestart ==
    ASSUME RestartInv,
           UNCHANGED <<packet, sent, outgoing, pending, link, queue, ring, last, announce>>
    PROVE  RestartInv'
BY DEF RestartInv, NextOrigin, BuiltOrigin, Made, Settled, RingSettled, Clean, Origin, Audio,
       Config

\* With nothing in the queue and the ring there is nothing to tell.
LEMMA EmptyKeepsRestart ==
    ASSUME queue' = <<>>, ring' = <<>>, packet'.sampleClock <= Made',
           announce' \/ (outgoing' = "built" => BuiltOrigin' = NextOrigin')
    PROVE  RestartInv'
<1>1. Len(queue') = 0 /\ Len(ring') = 0
  BY EmptyIsSequence
<1>2. /\ Settled(queue', ring', NextOrigin') /\ RingSettled(ring', NextOrigin')
      /\ Clean(queue', Len(queue'), ring')
  BY <1>1, EmptySettled
<1> QED
  BY <1>1, <1>2, RestartNext

LEMMA ReconfigureKeepsRestart ==
    ASSUME RestartInv, Reconfigure
    PROVE  RestartInv'
<1>0. UNCHANGED <<sent, outgoing, link, queue, ring, last>> /\ packet.sampleClock <= Made
  BY DEF Reconfigure, network, page, RestartInv
<1>1. CASE (\E s \in SettingsSet, n \in ChannelSet : Change(s, n)) /\ UNCHANGED announce
  <2>1. UNCHANGED <<pending, packet>>
    BY <1>1 DEF Change
  <2> QED
    BY <1>0, <1>1, <2>1, QuietKeepsRestart
<1>2. CASE RaiseEpoch /\ UNCHANGED announce
  <2>1. UNCHANGED <<pending, packet>>
    BY <1>2 DEF RaiseEpoch
  <2> QED
    BY <1>0, <1>2, <2>1, QuietKeepsRestart
<1>3. CASE RequireRestart /\ announce' = TRUE
  <2>1. UNCHANGED packet /\ Made' = Made
    BY <1>0, <1>3 DEF RequireRestart, Made
  <2> QED
    BY <1>0, <1>3, <2>1 DEF RestartInv
<1> QED
  BY <1>1, <1>2, <1>3 DEF Reconfigure

\* A message is queued that keeps the queue settled, and settles it when the page
\* would not be told otherwise.
LEMMA BroadcastKeepsRestart ==
    ASSUME CountInv, RestartInv, NEW m, Broadcast(m), UNCHANGED <<link, ring, last>>,
           link \in {"up", "lost", "down"},
           packet'.sampleClock <= Made', NextOrigin' = NextOrigin,
           announce => announce' \/ Config(m),
           announce' \/ (outgoing' = "built" => BuiltOrigin' = NextOrigin'),
           ~announce /\ ~Config(m) /\ link = "up" =>
               (Audio(m) /\ Origin(m) # NextOrigin =>
                    m.overtaken /\ Clean(queue, Len(queue), ring)),
           \/ outgoing' = "none" \/ Config(m)
           \/ ~Audio(m) /\ outgoing' = outgoing /\ BuiltOrigin' = BuiltOrigin
    PROVE  RestartInv'
<1> DEFINE e == Enqueued(queue, m)
<1>0. IsSequence(queue)
  BY DEF CountInv, InOrder
<1>1. /\ packet'.sampleClock <= Made'
      /\ link' = "down" => queue' = <<>> /\ ring' = <<>>
      /\ \A i \in 1 .. Len(ring') : ring'[i].number \in 1 .. last'
      /\ \A i, j \in 1 .. Len(ring') : i < j => ring'[i].number < ring'[j].number
  BY DEF RestartInv, Broadcast
<1>2. CASE link = "lost" \/ announce'
  BY <1>1, <1>2 DEF RestartInv
<1>3. CASE link = "down"
  BY <1>1, <1>3, EmptyKeepsRestart
<1>4. CASE link = "up" /\ ~announce'
  <2>1. queue' = e
    BY <1>4 DEF Broadcast
  <2>2. \/ Config(m)
        \/ /\ Settled(queue, ring, NextOrigin) /\ ~announce
           /\ Audio(m) /\ Origin(m) # NextOrigin =>
                  m.overtaken /\ Clean(queue, Len(queue), ring)
    BY <1>4 DEF RestartInv
  <2>3. /\ Settled(e, ring, NextOrigin)
        /\ (Config(m) \/ \E j \in 1 .. Len(queue) : Config(queue[j])) =>
               \E j \in 1 .. Len(e) : Config(e[j])
        /\ Config(m) \/ (~Audio(m) /\ Clean(queue, Len(queue), ring)) =>
               Clean(e, Len(e), ring)
    BY <1>0, <2>2, SettledEnqueued
  <2> HIDE DEF e
  <2>4. (\E j \in 1 .. Len(queue') : Config(queue'[j])) \/ RingSettled(ring', NextOrigin')
    BY <1>4, <2>1, <2>2, <2>3 DEF RestartInv
  <2>5. Settled(queue', ring', NextOrigin')
    BY <2>1, <2>3
  <2>6. outgoing' = "none" \/ BuiltOrigin' = NextOrigin' \/ Clean(queue', Len(queue'), ring')
    <3>1. CASE Config(m)
      BY <2>1, <2>3, <3>1
    <3>2. CASE ~Audio(m) /\ outgoing' = outgoing /\ BuiltOrigin' = BuiltOrigin /\ ~Config(m)
      <4>1. outgoing = "none" \/ BuiltOrigin = NextOrigin \/ Clean(queue, Len(queue), ring)
        BY <1>4, <3>2 DEF RestartInv
      <4> QED
        BY <2>1, <2>3, <3>2, <4>1
    <3> QED
      BY <3>1, <3>2
  <2> QED
    BY <1>1, <2>4, <2>5, <2>6, RestartNext
<1> QED
  BY <1>2, <1>3, <1>4

\* A message that the page takes from the queue, and with it the ring or nothing.
LEMMA MessageKeepsRestart ==
    ASSUME CountInv, RestartInv, NEW type, Receive(type), type # "audio", UNCHANGED last,
           \/ ring' = <<>>
           \/ UNCHANGED ring /\ type # "config"
    PROVE  RestartInv'
<1>0. /\ IsSequence(queue) /\ queue # <<>> /\ queue' = Tail(queue)
      /\ Head(queue).type = type /\ link # "down"
      /\ UNCHANGED <<packet, sent, outgoing, pending, announce, link>>
  BY DEF CountInv, InOrder, RestartInv, Receive, vars, sender
<1>1. /\ NextOrigin' = NextOrigin /\ BuiltOrigin' = BuiltOrigin /\ Made' = Made
      /\ packet'.sampleClock <= Made'
      /\ announce' \/ (outgoing' = "built" => BuiltOrigin' = NextOrigin')
  BY <1>0 DEF NextOrigin, BuiltOrigin, Made, RestartInv
<1>2. /\ Len(queue) \in Nat /\ Len(queue) >= 1 /\ Len(queue') = Len(queue) - 1
      /\ \A i \in 1 .. Len(queue) - 1 : queue'[i] = queue[i + 1]
      /\ Head(queue) = queue[1]
  BY <1>0, TailIsSequence, ElementsOf, EmptySeq, HeadTailProperties DEF IsSequence
<1>3. /\ \A i \in 1 .. Len(ring') : ring'[i].number \in 1 .. last'
      /\ \A i, j \in 1 .. Len(ring') : i < j => ring'[i].number < ring'[j].number
  <2>1. CASE ring' = <<>>
    <3>1. Len(ring') = 0
      BY <2>1, EmptyIsSequence
    <3> QED
      BY <3>1
  <2>2. CASE UNCHANGED ring
    BY <2>2 DEF RestartInv
  <2> QED
    BY <2>1, <2>2
<1>4. CASE announce \/ link = "lost"
  BY <1>0, <1>1, <1>3, <1>4, RestartNext
<1>5. CASE ~(announce \/ link = "lost")
  <2>1. ~Audio(Head(queue)) /\ (Config(Head(queue)) => ring' = <<>>)
    BY <1>0 DEF Audio, Config
  <2>2. (ring' = <<>> => Len(ring') = 0) /\ (Len(ring) = 0 => Len(ring') = 0)
    BY EmptyIsSequence
  <2>3. Settled(queue', ring', NextOrigin')
    <3>1. Settled(queue, ring, NextOrigin)
      BY <1>5 DEF RestartInv
    <3> QED
      BY <1>0, <1>1, <2>1, <2>2, <3>1, SettledTail
  <2>4. outgoing' = "none" \/ BuiltOrigin' = NextOrigin' \/ Clean(queue', Len(queue'), ring')
    <3>1. outgoing = "none" \/ BuiltOrigin = NextOrigin \/ Clean(queue, Len(queue), ring)
      BY <1>5 DEF RestartInv
    <3>2. Len(queue) \in 1 .. Len(queue)
      BY <1>2
    <3>3. Clean(queue, Len(queue), ring) => Clean(queue', Len(queue'), ring')
      BY <1>0, <1>2, <2>1, <2>2, <3>2, CleanTail
    <3> QED
      BY <1>0, <1>1, <3>1, <3>3
  <2>5. (\E j \in 1 .. Len(queue') : Config(queue'[j])) \/ RingSettled(ring', NextOrigin')
    <3>1. CASE ring' = <<>>
      BY <2>2, <3>1 DEF RingSettled
    <3>2. CASE UNCHANGED ring /\ type # "config"
      <4>1. ASSUME NEW j \in 1 .. Len(queue), Config(queue[j])
            PROVE  \E k \in 1 .. Len(queue') : Config(queue'[k])
        <5>1. j # 1
          BY <1>0, <1>2, <3>2, <4>1 DEF Config
        <5>2. j - 1 \in 1 .. Len(queue') /\ queue'[j - 1] = queue[j]
          BY <1>2, <5>1
        <5> QED
          BY <4>1, <5>2
      <4>2. (\E j \in 1 .. Len(queue) : Config(queue[j])) \/ RingSettled(ring, NextOrigin)
        BY <1>5 DEF RestartInv
      <4> QED
        BY <1>1, <3>2, <4>1, <4>2
    <3> QED
      BY <3>1, <3>2
  <2> QED
    BY <1>0, <1>1, <1>3, <2>3, <2>4, <2>5, RestartNext
<1> QED
  BY <1>4, <1>5

LEMMA PacketKeepsRestart ==
    ASSUME CountInv, RingFitsStream, RestartInv, handlePacket
    PROVE  RestartInv'
<1> DEFINE m == Head(queue)
<1>0. /\ IsSequence(queue) /\ IsSequence(ring) /\ last \in Nat /\ sent \in Nat
      /\ queue # <<>> /\ queue' = Tail(queue) /\ m.type = "audio"
      /\ last' = m.number /\ link # "down"
      /\ UNCHANGED <<packet, sent, outgoing, pending, announce, link>>
  <2>1. link # "down"
    BY DEF RestartInv, handlePacket, Receive
  <2> QED
    BY <2>1, SequenceAssumption
       DEF CountInv, InOrder, RingFitsStream, handlePacket, Receive, vars, sender
<1>1. m.number \in last + 1 .. sent
  BY ReceiveKeepsOrder DEF handlePacket
<1>2. /\ IsSequence(ring') /\ Len(ring') \in 1 .. Most
      /\ ring'[Len(ring')] = Arrived
  BY <1>0, PacketPushed
<1>3. PICK o \in Int : \A i \in 1 .. Len(ring') - 1 :
                           i + o \in 1 .. Len(ring) /\ ring'[i] = ring[i + o]
  BY <1>0, PacketPushed
<1>4. /\ Arrived.number = last' /\ Origin(Arrived) = Origin(m)
      /\ Arrived.overtaken = m.overtaken
  BY <1>0 DEF Arrived, Origin
<1>5. ASSUME NEW i \in 1 .. Len(ring') PROVE ring'[i].number \in 1 .. last'
  <2>1. CASE i = Len(ring')
    BY <1>0, <1>1, <1>2, <1>4, <2>1
  <2>2. CASE i \in 1 .. Len(ring') - 1
    <3>1. ring'[i].number \in 1 .. last
      BY <1>3, <2>2 DEF RestartInv
    <3> QED
      BY <1>0, <1>1, <3>1
  <2> QED
    BY <1>2, <2>1, <2>2
<1>6. ASSUME NEW i \in 1 .. Len(ring'), NEW j \in 1 .. Len(ring'), i < j
      PROVE  ring'[i].number < ring'[j].number
  <2>1. i \in 1 .. Len(ring') - 1 /\ i + o \in 1 .. Len(ring) /\ ring'[i] = ring[i + o]
    BY <1>2, <1>3, <1>6
  <2>2. CASE j = Len(ring')
    <3>1. ring'[i].number \in 1 .. last
      BY <2>1 DEF RestartInv
    <3> QED
      BY <1>0, <1>1, <1>2, <1>4, <2>2, <3>1
  <2>3. CASE j \in 1 .. Len(ring') - 1
    <3>1. j + o \in 1 .. Len(ring) /\ ring'[j] = ring[j + o] /\ i + o < j + o
      BY <1>2, <1>3, <1>6, <2>3
    <3> QED
      BY <2>1, <3>1 DEF RestartInv
  <2> QED
    BY <1>2, <2>2, <2>3
<1>7. /\ NextOrigin' = NextOrigin /\ BuiltOrigin' = BuiltOrigin /\ Made' = Made
      /\ packet'.sampleClock <= Made'
      /\ announce' \/ (outgoing' = "built" => BuiltOrigin' = NextOrigin')
  BY <1>0 DEF NextOrigin, BuiltOrigin, Made, RestartInv
<1>8. CASE announce \/ link = "lost"
  BY <1>0, <1>5, <1>6, <1>7, <1>8, RestartNext
<1>9. CASE ~(announce \/ link = "lost")
  <2>1. /\ Settled(queue, ring, NextOrigin)
        /\ (\E j \in 1 .. Len(queue) : Config(queue[j])) \/ RingSettled(ring, NextOrigin)
        /\ outgoing = "none" \/ BuiltOrigin = NextOrigin \/ Clean(queue, Len(queue), ring)
    BY <1>9 DEF RestartInv
  <2>2. /\ Len(queue) \in Nat /\ Len(queue) >= 1 /\ m = queue[1]
        /\ Len(queue') = Len(queue) - 1
        /\ \A i \in 1 .. Len(queue) - 1 : queue'[i] = queue[i + 1]
    BY <1>0, TailIsSequence, ElementsOf, EmptySeq, HeadTailProperties DEF IsSequence
  <2>3. Audio(m) /\ ~Config(m)
    BY <1>0 DEF Audio, Config
  <2>4. Settled(queue', ring', NextOrigin')
    BY <1>0, <1>7, <2>1, <2>3, SettledTail
  <2>5. outgoing' = "none" \/ BuiltOrigin' = NextOrigin' \/ Clean(queue', Len(queue'), ring')
    <3>1. Len(queue) \in 1 .. Len(queue)
      BY <2>2
    <3>2. Clean(queue, Len(queue), ring) => Clean(queue', Len(queue'), ring')
      BY <1>0, <2>2, <2>3, <3>1, CleanTail
    <3> QED
      BY <1>0, <1>7, <2>1, <3>2
  <2>6. ASSUME NEW j \in 1 .. Len(queue), Config(queue[j])
        PROVE  \E k \in 1 .. Len(queue') : Config(queue'[k])
    <3>1. j # 1
      BY <2>2, <2>3, <2>6
    <3>2. j - 1 \in 1 .. Len(queue') /\ queue'[j - 1] = queue[j]
      BY <2>2, <3>1
    <3> QED
      BY <2>6, <3>2
  <2>7. ASSUME ~ \E k \in 1 .. Len(queue') : Config(queue'[k])
        PROVE  RingSettled(ring', NextOrigin)
    <3>1. ~ \E j \in 1 .. Len(queue) : Config(queue[j])
      BY <2>6, <2>7
    <3>2. RingSettled(ring, NextOrigin)
      BY <2>1, <3>1
    <3>3. Origin(m) = NextOrigin \/ (m.overtaken /\ Len(ring) = 0)
      <4>1. \A j \in 1 + 1 .. Len(queue) : j \in 1 .. Len(queue)
        BY <2>2
      <4>2. 1 \in 1 .. Len(queue) /\ Audio(queue[1])
        BY <2>2, <2>3
      <4>3. \A j \in 1 .. 1 - 1 : FALSE
        OBVIOUS
      <4>4. \/ Origin(queue[1]) = NextOrigin
            \/ \E j \in 1 + 1 .. Len(queue) : Config(queue[j])
            \/ queue[1].overtaken /\ Clean(queue, 1 - 1, ring)
        BY <2>1, <4>2 DEF Settled
      <4>5. Clean(queue, 1 - 1, ring) => Len(ring) = 0
        BY <4>3 DEF Clean
      <4> QED
        BY <2>2, <3>1, <4>1, <4>4, <4>5
    <3>4. SUFFICES ASSUME NEW i \in 1 .. Len(ring')
                   PROVE  Origin(ring'[i]) = NextOrigin \/ (i = 1 /\ ring'[i].overtaken)
      BY DEF RingSettled
    <3>5. CASE i = Len(ring')
      <4>1. ring'[i] = Arrived
        BY <1>2, <3>5
      <4>2. CASE Origin(m) = NextOrigin
        <5>1. Origin(ring'[i]) = Origin(Arrived)
          BY <4>1 DEF Origin
        <5> QED
          BY <1>4, <4>2, <5>1
      <4>3. CASE m.overtaken /\ Len(ring) = 0
        <5>1. Len(ring') = 1
          <6>1. SUFFICES ASSUME Len(ring') # 1 PROVE FALSE
            OBVIOUS
          <6>2. 1 \in 1 .. Len(ring') - 1
            <7>1. Len(ring') \in Nat /\ Len(ring') >= 1
              BY <1>2, RingAssumption
            <7> QED
              BY <6>1, <7>1
          <6>3. 1 + o \in 1 .. Len(ring)
            BY <1>3, <6>2
          <6> QED
            BY <4>3, <6>3
        <5> QED
          BY <1>4, <3>5, <4>1, <4>3, <5>1
      <4> QED
        BY <3>3, <4>2, <4>3
    <3>6. CASE i # Len(ring')
      <4>1. i \in 1 .. Len(ring') - 1 /\ 1 \in 1 .. Len(ring') - 1
        BY <1>2, <3>6, RingAssumption
      <4>2. i + o \in 1 .. Len(ring) /\ ring'[i] = ring[i + o] /\ 1 + o >= 1
        BY <1>3, <4>1
      <4>3. i + o = 1 => i = 1
        BY <4>1, <4>2
      <4>4. Origin(ring[i + o]) = NextOrigin \/ (i + o = 1 /\ ring[i + o].overtaken)
        BY <3>2, <4>2 DEF RingSettled
      <4> QED
        BY <4>2, <4>3, <4>4
    <3> QED
      BY <3>5, <3>6
  <2> HIDE DEF m
  <2> QED
    BY <1>0, <1>5, <1>6, <1>7, <2>4, <2>5, <2>7, RestartNext
<1> QED
  BY <1>8, <1>9

LEMMA PlayKeepsRestart ==
    ASSUME RingFitsStream, RestartInv, Play
    PROVE  RestartInv'
<1>1. /\ Len(ring') = Len(ring) - 1 /\ Len(ring) \in Nat
      /\ \A i \in 1 .. Len(ring) - 1 : ring'[i] = ring[i + 1]
      /\ UNCHANGED <<packet, sent, outgoing, pending, announce, link, queue, last>>
      /\ ring # <<>>
  BY TailIsSequence DEF Play, RingFitsStream, IsSequence, vars, sender, network
<1>2. \A i \in 1 .. Len(ring') : /\ i + 1 \in 1 .. Len(ring) /\ ring'[i] = ring[i + 1]
                                /\ i + 1 # 1
  BY <1>1
<1>3. Len(ring) # 0
  BY <1>1, EmptySeq DEF RingFitsStream, IsSequence
<1>4. /\ NextOrigin' = NextOrigin /\ BuiltOrigin' = BuiltOrigin /\ Made' = Made
      /\ packet'.sampleClock <= Made' /\ link # "down"
      /\ announce' \/ (outgoing' = "built" => BuiltOrigin' = NextOrigin')
  BY <1>1 DEF NextOrigin, BuiltOrigin, Made, RestartInv
<1>5. \A i \in 1 .. Len(ring') : ring'[i].number \in 1 .. last'
  BY <1>1, <1>2 DEF RestartInv
<1>6. ASSUME NEW i \in 1 .. Len(ring'), NEW j \in 1 .. Len(ring'), i < j
      PROVE  ring'[i].number < ring'[j].number
  <2>1. i + 1 < j + 1
    BY <1>1, <1>6
  <2> QED
    BY <1>2, <2>1 DEF RestartInv
<1>7. CASE announce \/ link = "lost"
  BY <1>1, <1>4, <1>5, <1>6, <1>7, RestartNext
<1>8. CASE ~(announce \/ link = "lost")
  <2>1. ASSUME NEW n, Clean(queue, n, ring) PROVE Clean(queue, n, ring')
    BY <1>3, <2>1 DEF Clean
  <2>2. Settled(queue, ring, NextOrigin) => Settled(queue, ring', NextOrigin)
    BY <2>1 DEF Settled
  <2>3. RingSettled(ring, NextOrigin) => RingSettled(ring', NextOrigin)
    BY <1>2 DEF RingSettled
  <2> QED
    BY <1>1, <1>4, <1>5, <1>6, <1>8, <2>1, <2>2, <2>3, RestartNext DEF RestartInv
<1> QED
  BY <1>7, <1>8

LEMMA NextRestart ==
    SenderInv /\ CountInv /\ RingFitsStream /\ RestartInv
        /\ [EndToEndNext]_allVars => RestartInv'
<1> SUFFICES ASSUME SenderInv, CountInv, RingFitsStream, RestartInv,
                    [EndToEndNext]_allVars
             PROVE  RestartInv'
  OBVIOUS
<1>0. /\ link \in {"up", "lost", "down"} /\ packet.sampleClock <= Made
      /\ announce \/ (outgoing = "built" => BuiltOrigin = NextOrigin)
      /\ outgoing \in {"none", "built", "overtaken"}
  BY DEF SenderInv, RestartInv
<1>1. CASE Reconfigure
  BY <1>1, ReconfigureKeepsRestart
<1>2. CASE BuildPacket
  BY <1>2, BuildKeepsRestart
<1>3. CASE BroadcastPacket
  <2>1. PICK payload :
          Broadcast([type |-> "audio", header |-> packet, number |-> sent',
                     overtaken |-> outgoing = "overtaken", payload |-> payload])
    BY <1>3 DEF BroadcastPacket
  <2> DEFINE o == outgoing = "overtaken"
  <2> HIDE DEF o
  <2> DEFINE m == [type |-> "audio", header |-> packet, number |-> sent',
                   overtaken |-> o, payload |-> payload]
  <2>2. /\ outgoing' = "none" /\ sent' = sent + 1 /\ outgoing # "none"
        /\ UNCHANGED <<link, ring, last, announce, packet, pending>>
    BY <1>3 DEF BroadcastPacket, page, vars
  <2>3. Made' = Made
    BY <2>2 DEF Made
  <2>4. NextOrigin' = NextOrigin /\ packet'.sampleClock <= Made'
    BY <1>0, <2>2, <2>3 DEF NextOrigin
  <2>5. Audio(m) /\ ~Config(m) /\ Origin(m) = BuiltOrigin /\ m.overtaken = o
    <3>1. m.number = sent + 1 /\ m.header = packet /\ m.type = "audio"
      BY <2>2
    <3>2. m.overtaken = o
      OBVIOUS
    <3> HIDE DEF m
    <3>3. Audio(m) /\ ~Config(m)
      BY <3>1 DEF Audio, Config
    <3>4. Origin(m) = BuiltOrigin
      BY <3>1 DEF Origin, BuiltOrigin
    <3> QED
      BY <3>2, <3>3, <3>4
  <2>6. Broadcast(m)
    BY <2>1 DEF o
  <2> HIDE DEF m
  <2>7. ASSUME ~announce, link = "up", Origin(m) # NextOrigin
        PROVE  m.overtaken /\ Clean(queue, Len(queue), ring)
    <3>1. outgoing # "built" /\ outgoing = "overtaken"
      BY <1>0, <2>2, <2>5, <2>7
    <3>2. m.overtaken
      BY <2>5, <3>1 DEF o
    <3>3. Clean(queue, Len(queue), ring)
      BY <2>2, <2>5, <2>7 DEF RestartInv
    <3> QED
      BY <3>2, <3>3
  <2>8. outgoing' # "built"
    BY <2>2
  <2> QED
    BY <1>0, <2>2, <2>4, <2>5, <2>6, <2>7, <2>8, BroadcastKeepsRestart
<1>4. CASE BroadcastConfig
  <2> DEFINE m == [type |-> "config", channels |-> channels]
  <2>1. /\ Broadcast(m) /\ UNCHANGED <<link, ring, last, packet, sent, pending>>
        /\ outgoing' # "built" /\ Config(m) /\ ~Audio(m)
        /\ outgoing' = "none" <=> outgoing = "none"
    BY <1>4 DEF BroadcastConfig, vars, page, Audio, Config
  <2> HIDE DEF m
  <2>2. NextOrigin' = NextOrigin /\ packet'.sampleClock <= Made'
    BY <1>0, <2>1 DEF NextOrigin, Made
  <2> QED
    BY <1>0, <2>1, <2>2, BroadcastKeepsRestart
<1>5. CASE BroadcastHello
  <2>1. PICK n \in hello : Broadcast([type |-> "hello", channels |-> n])
    BY <1>5 DEF BroadcastHello
  <2> DEFINE m == [type |-> "hello", channels |-> n]
  <2>2. /\ Broadcast(m)
        /\ UNCHANGED <<link, ring, last, packet, sent, outgoing, pending, announce>>
        /\ ~Audio(m) /\ ~Config(m)
    BY <1>5, <2>1 DEF BroadcastHello, vars, page, Audio, Config
  <2> HIDE DEF m
  <2>3. /\ NextOrigin' = NextOrigin /\ BuiltOrigin' = BuiltOrigin
        /\ packet'.sampleClock <= Made'
    BY <1>0, <2>2 DEF NextOrigin, BuiltOrigin, Made
  <2> QED
    BY <1>0, <2>2, <2>3, BroadcastKeepsRestart
<1>6. CASE Restart
  <2>1. /\ UNCHANGED <<packet, sent, outgoing, announce, link, queue, ring, last>>
        /\ link # "up" /\ outgoing = "none"
    BY <1>6 DEF Restart, RequireRestart, sender, network, page
  <2>2. packet'.sampleClock <= Made' /\ outgoing' # "built"
    BY <1>0, <2>1 DEF Made
  <2>3. CASE link = "lost"
    BY <2>1, <2>2, <2>3, RestartNext DEF RestartInv
  <2>4. CASE link = "down"
    <3>1. queue' = <<>> /\ ring' = <<>>
      BY <2>1, <2>4 DEF RestartInv
    <3> QED
      BY <2>2, <3>1, EmptyKeepsRestart
  <2> QED
    BY <1>0, <2>1, <2>3, <2>4
<1>7. CASE Break \/ Connect \/ Closed
  <2>1. UNCHANGED <<packet, sent, outgoing, pending, announce>>
    BY <1>7 DEF Break, Connect, Closed, vars, sender
  <2>2. /\ NextOrigin' = NextOrigin /\ BuiltOrigin' = BuiltOrigin
        /\ packet'.sampleClock <= Made'
        /\ announce' \/ (outgoing' = "built" => BuiltOrigin' = NextOrigin')
    BY <1>0, <2>1 DEF NextOrigin, BuiltOrigin, Made
  <2>3. CASE Break
    <3>1. UNCHANGED <<ring, last>> /\ link' = "lost"
      BY <2>3 DEF Break, page
    <3> QED
      BY <2>2, <3>1, RestartNext DEF RestartInv
  <2>4. CASE Connect \/ Closed
    <3>1. queue' = <<>> /\ ring' = <<>>
      BY <2>4 DEF Connect, Closed, Reset, RestartInv, page
    <3> QED
      BY <2>2, <3>1, EmptyKeepsRestart
  <2> QED
    BY <1>7, <2>3, <2>4
<1>8. CASE handlePacket
  BY <1>8, PacketKeepsRestart
<1>9. CASE handleConfig
  BY <1>9, MessageKeepsRestart DEF handleConfig, Reset
<1>10. CASE handleHello
  BY <1>10, MessageKeepsRestart DEF handleHello
<1>11. CASE Play
  BY <1>11, PlayKeepsRestart
<1>12. CASE BuildHello \/ UNCHANGED allVars
  <2>1. UNCHANGED <<packet, sent, outgoing, pending, link, queue, ring, last, announce>>
    BY <1>12 DEF BuildHello, allVars, vars, sender, network, page
  <2> QED
    BY <2>1, QuietKeepsRestart
<1> QED
  BY <1>1, <1>2, <1>3, <1>4, <1>5, <1>6, <1>7, <1>8, <1>9, <1>10, <1>11, <1>12
     DEF EndToEndNext

-----------------------------------------------------------------------------
(* Samples on the wire                                                       *)

Sample == [num : Int, den : Nat \ {0}]

LEMMA Euclid ==
    ASSUME NEW a \in Int, NEW b \in Nat \ {0}
    PROVE  /\ a \div b \in Int /\ a % b \in 0 .. b - 1
           /\ a = b * (a \div b) + (a % b)
BY SMT

LEMMA FactorLess ==
    ASSUME NEW d \in Nat \ {0}, NEW v \in Int, NEW w \in Int, d * v < d * w
    PROVE  v < w
<1>1. CASE v >= w
  <2>1. PICK k \in Nat : v = w + k
    <3>1. v - w \in Nat /\ v = w + (v - w)
      BY <1>1
    <3> QED
      BY <3>1
  <2>2. d * v = d * w + d * k /\ d * k \in Nat /\ d * w \in Int
    BY <2>1
  <2> QED
    BY <2>2
<1> QED
  BY <1>1

LEMMA Clamped ==
    ASSUME NEW x \in Sample
    PROVE  /\ Clamp(x) \in Sample
           /\ -Clamp(x).den <= Clamp(x).num /\ Clamp(x).num <= Clamp(x).den
           /\ x.num > 0 => Clamp(x).num > 0
           /\ x.num < 0 => Clamp(x).num < 0
           /\ Clamp(x).den = x.den
<1>1. x.num \in Int /\ x.den \in Nat /\ x.den > 0
  BY DEF Sample
<1>2. CASE x.num > x.den
  <2>1. Clamp(x) = [num |-> x.den, den |-> x.den]
    BY <1>1, <1>2 DEF Clamp
  <2> QED
    BY <1>1, <1>2, <2>1 DEF Sample
<1>3. CASE x.num < -x.den
  <2>1. Clamp(x) = [num |-> -x.den, den |-> x.den]
    BY <1>1, <1>3 DEF Clamp
  <2> QED
    BY <1>1, <1>3, <2>1 DEF Sample
<1>4. CASE ~(x.num > x.den) /\ ~(x.num < -x.den)
  <2>1. Clamp(x) = x
    BY <1>4 DEF Clamp
  <2> QED
    BY <1>1, <1>4, <2>1 DEF Sample
<1> QED
  BY <1>2, <1>3, <1>4

\* The nearest number of steps to n / d of a scale s, halves away from zero
LEMMA Nearest ==
    ASSUME NEW n \in Nat, NEW d \in Nat \ {0}, NEW s \in Nat, n <= d
    PROVE  LET v == (2 * n * s + d) \div (2 * d)
           IN  /\ v \in 0 .. s
               /\ 2 * (n * s - v * d) <= d /\ -d <= 2 * (n * s - v * d)
<1> DEFINE a == 2 * n * s + d
           b == 2 * d
           v == a \div b
           r == a % b
           ns == n * s
           vd == v * d
           ds == d * s
<1>1. a \in Nat /\ b \in Nat \ {0} /\ ns \in Nat /\ ds \in Nat
  OBVIOUS
<1>2. v \in Int /\ r \in 0 .. b - 1 /\ a = b * v + r
  <2> HIDE DEF a, b
  <2> QED
    BY <1>1, Euclid
<1>3. a = 2 * ns + d /\ b * v = 2 * vd /\ vd \in Int
  <2>1. a = 2 * ns + d
    BY SMT
  <2> HIDE DEF v
  <2> QED
    BY <1>2, <2>1
<1>4. ns <= ds
  <2>1. PICK k \in Nat : d = n + k
    <3>1. d - n \in Nat /\ d = n + (d - n)
      OBVIOUS
    <3> QED
      BY <3>1
  <2>2. d * s = n * s + k * s /\ k * s \in Nat
    BY <2>1
  <2> QED
    BY <1>1, <2>2
<1>5. v >= 0
  <2>1. b * (-1) < b * v
    BY <1>1, <1>2, <1>3
  <2> HIDE DEF v, b
  <2>2. -1 < v
    BY <1>1, <1>2, <2>1, FactorLess
  <2> QED
    BY <1>2, <2>2
<1>6. v <= s
  <2>1. b * (s + 1) = 2 * ds + 2 * d
    BY SMT
  <2>2. b * v < b * (s + 1)
    <3> HIDE DEF v, ns, ds, vd, r, a
    <3> QED
      BY <1>1, <1>2, <1>3, <1>4, <2>1
  <2> HIDE DEF v, b
  <2>3. v < s + 1
    BY <1>1, <1>2, <2>2, FactorLess
  <2> QED
    BY <1>2, <2>3
<1>7. 2 * (ns - vd) = r - d
  <2> HIDE DEF v, ns, ds, vd, r, a
  <2> QED
    BY <1>1, <1>2, <1>3
<1>8. 2 * (ns - vd) <= d /\ -d <= 2 * (ns - vd)
  <2>1. r <= 2 * d - 1 /\ r >= 0 /\ r \in Int
    BY <1>1, <1>2
  <2> HIDE DEF v, ns, vd, r
  <2> QED
    BY <1>1, <1>3, <1>7, <2>1
<1> HIDE DEF v, vd, ns
<1>9. v \in 0 .. s
  BY <1>2, <1>5, <1>6
<1> QED
  BY <1>8, <1>9 DEF v, ns, vd

LEMMA Rounded ==
    ASSUME NEW x \in Sample, NEW s \in Nat, -x.den <= x.num, x.num <= x.den
    PROVE  LET v == LRound(x, s)
           IN  /\ v \in -s .. s
               /\ 2 * (x.num * s - v * x.den) <= x.den
               /\ -x.den <= 2 * (x.num * s - v * x.den)
               /\ x.num >= 0 => v >= 0
               /\ x.num < 0 => v <= 0
<1>0. x.num \in Int /\ x.den \in Nat \ {0}
  BY DEF Sample
<1>1. CASE x.num >= 0
  <2> DEFINE v == (2 * x.num * s + x.den) \div (2 * x.den)
  <2>0. x.num \in Nat
    BY <1>0, <1>1
  <2>1. /\ v \in 0 .. s
        /\ 2 * (x.num * s - v * x.den) <= x.den /\ -x.den <= 2 * (x.num * s - v * x.den)
    BY <1>0, <2>0, Nearest, Zenon
  <2>2. LRound(x, s) = v
    BY <1>1 DEF LRound
  <2> HIDE DEF v
  <2> QED
    BY <1>0, <1>1, <2>1, <2>2
<1>2. CASE x.num < 0
  <2> DEFINE n == -x.num
             w == (2 * n * s + x.den) \div (2 * x.den)
  <2>1. n \in Nat /\ n <= x.den
    BY <1>0, <1>2
  <2>2. 2 * n * s = -2 * x.num * s
    BY <1>0
  <2>3. LRound(x, s) = -w
    BY <1>0, <1>2, <2>2 DEF LRound
  <2> HIDE DEF n
  <2>4. /\ w \in 0 .. s
        /\ 2 * (n * s - w * x.den) <= x.den /\ -x.den <= 2 * (n * s - w * x.den)
    BY <1>0, <2>1, Nearest
  <2> HIDE DEF w
  <2>5. n * s = -(x.num * s) /\ (-w) * x.den = -(w * x.den) /\ w \in Int
        /\ x.num * s \in Int /\ w * x.den \in Int
    BY <1>0, <2>4 DEF n
  <2> QED
    BY <1>0, <1>2, <2>3, <2>4, <2>5
<1> QED
  BY <1>0, <1>1, <1>2

LEMMA TwoBytes ==
    ASSUME NEW v \in Int, -32768 <= v, v <= 32767, NEW bytes, NEW offset,
           bytes[offset + 1] = v % 256, bytes[offset + 2] = (v \div 256) % 256
    PROVE  getInt16(bytes, offset) = v
<1> DEFINE q == v \div 256
           r == v % 256
<1>1. q \in Int /\ r \in 0 .. 255 /\ v = 256 * q + r
  BY SMT
<1> HIDE DEF q, r
<1>2. q \in -128 .. 127
  BY <1>1, SMT
<1>3. q % 256 = IF q >= 0 THEN q ELSE q + 256
  BY <1>2, SMT
<1>4. r + 256 * (q % 256) = IF v >= 0 THEN v ELSE v + 65536
  BY <1>1, <1>2, <1>3, SMT
<1>5. bytes[offset + 1] + 256 * bytes[offset + 2] = IF v >= 0 THEN v ELSE v + 65536
  BY <1>4, SMT DEF q, r
<1> QED
  BY <1>5, SMT DEF getInt16

LEMMA ThreeBytes ==
    ASSUME NEW v \in Int, -8388608 <= v, v <= 8388607, NEW bytes, NEW offset,
           bytes[offset + 1] = v % 256, bytes[offset + 2] = (v \div 256) % 256,
           bytes[offset + 3] = (v \div 65536) % 256
    PROVE  int24(bytes, offset) = v
<1> DEFINE q == v \div 256
           r == v % 256
           p == q \div 256
           m == q % 256
<1>1. q \in Int /\ r \in 0 .. 255 /\ v = 256 * q + r
  BY SMT
<1> HIDE DEF q, r
<1>2. p \in Int /\ m \in 0 .. 255 /\ q = 256 * p + m
  BY <1>1, SMT
<1> HIDE DEF p, m
<1>3. p \in -128 .. 127
  BY <1>1, <1>2, SMT
<1>4. p % 256 = IF p >= 0 THEN p ELSE p + 256
  BY <1>3, SMT
<1>5. v \div 65536 = p
  BY <1>1, <1>2, SMT
<1>6. r + 256 * m + 65536 * (p % 256) = IF v >= 0 THEN v ELSE v + 16777216
  BY <1>1, <1>2, <1>3, <1>4, SMT
<1>7. bytes[offset + 1] + 256 * bytes[offset + 2] + 65536 * bytes[offset + 3]
         = IF v >= 0 THEN v ELSE v + 16777216
  BY <1>5, <1>6, SMT DEF q, r, m
<1> QED
  BY <1>7, SMT DEF int24

\* A float is four bytes, each known by the float and its place.
LEMMA FloatBytes ==
    ASSUME NEW x
    PROVE  LET bytes == writeSample(x, "float32")
           IN  /\ IsSequence(bytes) /\ Len(bytes) = 4
               /\ \A i \in 1 .. 4 : bytes[i] = [float |-> x, place |-> i]
<1> DEFINE bytes == [i \in 1 .. 4 |-> [float |-> x, place |-> i]]
<1>1. Len(bytes) = 4 /\ bytes = [i \in 1 .. Len(bytes) |-> bytes[i]]
      /\ \A i \in 1 .. 4 : bytes[i] = [float |-> x, place |-> i]
  BY SMT
<1>2. writeSample(x, "float32") = bytes
  BY DEF writeSample
<1> QED
  BY <1>1, <1>2, SMT DEF IsSequence

LEMMA LittleEndianLength ==
    ASSUME NEW v, NEW width \in {2, 3}
    PROVE  IsSequence(writeLittleEndian(v, width)) /\ Len(writeLittleEndian(v, width)) = width
<1> DEFINE bytes == writeLittleEndian(v, width)
<1>1. bytes = [i \in 1 .. width |-> (v \div 256 ^ (i - 1)) % 256]
  BY Zenon DEF writeLittleEndian
<1> HIDE DEF bytes
<1>2. Len(bytes) = width /\ bytes = [i \in 1 .. Len(bytes) |-> bytes[i]]
  BY <1>1, SMT
<1>3. IsSequence(bytes)
  BY <1>2 DEF IsSequence
<1> QED
  BY <1>2, <1>3 DEF bytes

LEMMA LittleEndian ==
    ASSUME NEW v \in Int, NEW width \in {2, 3}
    PROVE  LET bytes == writeLittleEndian(v, width)
           IN  /\ bytes[1] = v % 256 /\ bytes[2] = (v \div 256) % 256
               /\ width = 3 => bytes[3] = (v \div 65536) % 256
<1> DEFINE bytes == writeLittleEndian(v, width)
<1>1. bytes = [i \in 1 .. width |-> (v \div 256 ^ (i - 1)) % 256]
  BY Zenon DEF writeLittleEndian
<1> HIDE DEF bytes
<1>2. 256 ^ (1 - 1) = 1 /\ 256 ^ (2 - 1) = 256 /\ 256 ^ (3 - 1) = 65536 /\ v \div 1 = v
  BY SMT
<1>3. bytes[1] = (v \div 256 ^ (1 - 1)) % 256 /\ bytes[2] = (v \div 256 ^ (2 - 1)) % 256
  BY <1>1, SMT
<1>4. width = 3 => bytes[3] = (v \div 256 ^ (3 - 1)) % 256
  BY <1>1, SMT
<1>5. /\ bytes[1] = v % 256 /\ bytes[2] = (v \div 256) % 256
      /\ width = 3 => bytes[3] = (v \div 65536) % 256
  BY <1>2, <1>3, <1>4, SMT
<1> QED
  BY <1>5, SMT DEF bytes

\* The bytes of a sample say, at any place of a payload, what a listener may
\* expect of it.
LEMMA SampleReadsBack ==
    ASSUME NEW x \in Sample, NEW format \in Formats, NEW all, NEW offset \in Nat,
           \A i \in 1 .. bytesPerSample(format) : all[offset + i] = writeSample(x, format)[i]
    PROVE  Faithful(x, decodeSample(all, offset, format), format)
<1> DEFINE bytes == writeSample(x, format)
           c == Clamp(x)
           v == LRound(c, Scale(format))
<1>1. CASE format = "float32"
  <2>1. bytesPerSample(format) = 4 /\ decodeSample(all, offset, format) = float32(all, offset)
    BY <1>1 DEF bytesPerSample, decodeSample
  <2>2. \A i \in 1 .. 4 : all[offset + i] = [float |-> x, place |-> i]
    BY <1>1, <2>1, FloatBytes
  <2>3. all[offset + 1] = [float |-> x, place |-> 1]
    BY <2>2
  <2>4. float32(all, offset) = x
    BY <2>2, <2>3, SMT DEF float32
  <2> QED
    BY <1>1, <2>1, <2>4 DEF Faithful
<1>2. CASE format # "float32"
  <2>1. /\ c \in Sample /\ -c.den <= c.num /\ c.num <= c.den /\ c.den = x.den
        /\ x.num > 0 => c.num > 0
        /\ x.num < 0 => c.num < 0
    BY Clamped, Zenon
  <2> DEFINE s == Scale(format)
  <2>2. \/ format = "pcm16" /\ s = 32767 /\ bytesPerSample(format) = 2
        \/ format = "pcm24" /\ s = 8388607 /\ bytesPerSample(format) = 3
    BY <1>2, SMT DEF Formats, Scale, bytesPerSample
  <2>3. s \in Nat
    BY <2>2, SMT
  <2> HIDE DEF c, s
  <2>4. /\ v \in -s .. s
        /\ 2 * (c.num * s - v * c.den) <= c.den /\ -c.den <= 2 * (c.num * s - v * c.den)
        /\ c.num >= 0 => v >= 0
        /\ c.num < 0 => v <= 0
    BY <2>1, <2>3, Rounded, Zenon DEF s
  <2>5. bytes = writeLittleEndian(v, bytesPerSample(format))
    BY <1>2, Zenon DEF writeSample, c
  <2> HIDE DEF v, bytes
  <2>6. v \in Int /\ -s <= v /\ v <= s
    BY <2>3, <2>4, SMT
  <2>7. decodeSample(all, offset, format) = [num |-> v, den |-> s]
    <3>1. CASE format = "pcm16"
      <4>1. bytesPerSample(format) = 2 /\ s = 32767 /\ -32768 <= v /\ v <= 32767
        BY <2>2, <2>6, <3>1, SMT
      <4>2. bytes[1] = v % 256 /\ bytes[2] = (v \div 256) % 256
        <5>1. bytes = writeLittleEndian(v, 2)
          BY <2>5, <4>1
        <5>2. /\ writeLittleEndian(v, 2)[1] = v % 256
              /\ writeLittleEndian(v, 2)[2] = (v \div 256) % 256
          BY <2>6, LittleEndian, SMT
        <5> QED
          BY <5>1, <5>2
      <4>3. all[offset + 1] = bytes[1] /\ all[offset + 2] = bytes[2]
        BY <4>1, SMT DEF bytes
      <4>4. getInt16(all, offset) = v
        BY <2>6, <4>1, <4>2, <4>3, TwoBytes, SMT
      <4> QED
        BY <3>1, <4>1, <4>4, SMT DEF decodeSample
    <3>2. CASE format = "pcm24"
      <4>1. bytesPerSample(format) = 3 /\ s = 8388607 /\ -8388608 <= v /\ v <= 8388607
        BY <2>2, <2>6, <3>2, SMT
      <4>2. bytes[1] = v % 256 /\ bytes[2] = (v \div 256) % 256 /\ bytes[3] = (v \div 65536) % 256
        <5>1. bytes = writeLittleEndian(v, 3)
          BY <2>5, <4>1
        <5>2. /\ writeLittleEndian(v, 3)[1] = v % 256
              /\ writeLittleEndian(v, 3)[2] = (v \div 256) % 256
              /\ writeLittleEndian(v, 3)[3] = (v \div 65536) % 256
          BY <2>6, LittleEndian, SMT
        <5> QED
          BY <5>1, <5>2, SMT
      <4>3. all[offset + 1] = bytes[1] /\ all[offset + 2] = bytes[2] /\ all[offset + 3] = bytes[3]
        BY <4>1, SMT DEF bytes
      <4>4. int24(all, offset) = v
        BY <2>6, <4>1, <4>2, <4>3, ThreeBytes, SMT
      <4> QED
        BY <3>2, <4>1, <4>4, SMT DEF decodeSample
    <3> QED
      BY <2>2, <3>1, <3>2
  <2>8. 2 * Distance(c, [num |-> v, den |-> s]) <= x.den
    <3> DEFINE d == c.num * s - v * c.den
    <3>1. Distance(c, [num |-> v, den |-> s]) = IF d < 0 THEN -d ELSE d
      BY DEF Distance
    <3>2. d \in Int /\ c.den \in Nat
      BY <2>1, <2>3, <2>6 DEF Sample
    <3>3. 2 * d <= c.den /\ -c.den <= 2 * d
      BY <2>4
    <3> HIDE DEF d
    <3> QED
      BY <2>1, <3>1, <3>2, <3>3
  <2>9. (x.num > 0 => v >= 0) /\ (x.num < 0 => v <= 0)
    <3>1. c.num \in Int
      BY <2>1 DEF Sample
    <3> QED
      BY <2>1, <2>4, <3>1
  <2> QED
    BY <1>2, <2>7, <2>8, <2>9 DEF Faithful, s, c
<1> QED
  BY <1>1, <1>2

LEMMA SampleBytes ==
    ASSUME NEW x \in Sample, NEW format \in Formats
    PROVE  /\ IsSequence(writeSample(x, format))
           /\ Len(writeSample(x, format)) = bytesPerSample(format)
           /\ bytesPerSample(format) \in Nat
<1>1. CASE format = "float32"
  BY <1>1, FloatBytes DEF bytesPerSample
<1>2. CASE format # "float32"
  <2> DEFINE v == LRound(Clamp(x), Scale(format))
             width == bytesPerSample(format)
  <2>1. width \in {2, 3}
    BY <1>2 DEF Formats, bytesPerSample
  <2>2. v \in Int
    <3>1. Scale(format) \in Nat
      BY SMT DEF Scale
    <3>2. v \in -Scale(format) .. Scale(format)
      BY <3>1, Clamped, Rounded, Zenon
    <3> HIDE DEF v
    <3> QED
      BY <3>1, <3>2
  <2>3. writeSample(x, format) = writeLittleEndian(v, width)
    BY <1>2, Zenon DEF writeSample
  <2> HIDE DEF v, width
  <2>4. IsSequence(writeLittleEndian(v, width)) /\ Len(writeLittleEndian(v, width)) = width
    BY <2>1, LittleEndianLength
  <2> QED
    BY <2>1, <2>3, <2>4 DEF width
<1> QED
  BY <1>1, <1>2

\* A frame is written and read: one channel goes to both sides.
LEMMA FrameReadsBack ==
    ASSUME NEW frame \in Sample \X Sample, NEW format \in Formats, NEW n \in {1, 2}
    PROVE  LET payload == writeFrame(SubSeq(frame, 1, n), format)
               heard == decode(payload, format, n)
               right == IF n > 1 THEN 2 ELSE 1
           IN  /\ Len(payload) = n * bytesPerSample(format)
               /\ Faithful(frame[1], heard[1], format)
               /\ Faithful(frame[right], heard[2], format)
<1> DEFINE cut == SubSeq(frame, 1, n)
           payload == writeFrame(cut, format)
           width == bytesPerSample(format)
           a == writeSample(frame[1], format)
           b == writeSample(frame[2], format)
<1>1. IsSequence(frame) /\ Len(frame) = 2 /\ frame[1] \in Sample /\ frame[2] \in Sample
  BY PairIsSequence
<1>2. IsSequence(cut) /\ Len(cut) = n /\ \A i \in 1 .. n : cut[i] = frame[i]
  <2>1. /\ 1 \in 1 .. Len(frame) + 1 /\ n \in 0 .. Len(frame) /\ 1 <= n + 1 /\ n - 1 + 1 = n
        /\ \A i \in 1 .. n : 1 + i - 1 = i
    BY <1>1
  <2>2. /\ IsSequence(SubSeq(frame, 1, n)) /\ Len(SubSeq(frame, 1, n)) = n - 1 + 1
        /\ \A i \in 1 .. n - 1 + 1 : SubSeq(frame, 1, n)[i] = frame[1 + i - 1]
    BY <1>1, <2>1, SubSeqIsSequence
  <2> QED
    BY <2>1, <2>2
<1> HIDE DEF cut
<1>3. /\ IsSequence(a) /\ IsSequence(b) /\ Len(a) = width /\ Len(b) = width /\ width \in Nat
  BY <1>1, SampleBytes
<1>4. decode(payload, format, n) =
         <<decodeSample(payload, 0, format),
           decodeSample(payload, IF n > 1 THEN width ELSE 0, format)>>
  BY Zenon DEF decode
<1>5. CASE n = 1
  <2>1. payload = a
    BY <1>2, <1>5 DEF writeFrame
  <2> HIDE DEF payload
  <2>2. \A i \in 1 .. width : payload[0 + i] = a[i]
    BY <1>3, <2>1
  <2>3. Faithful(frame[1], decodeSample(payload, 0, format), format)
    BY <1>1, <2>2, SampleReadsBack
  <2>4. Len(payload) = n * width
    BY <1>3, <1>5, <2>1
  <2> QED
    BY <1>4, <1>5, <2>3, <2>4 DEF payload, cut
<1>6. CASE n = 2
  <2>1. payload = a \o b
    BY <1>2, <1>6 DEF writeFrame
  <2>2. /\ Len(a \o b) = Len(a) + Len(b)
        /\ \A i \in 1 .. Len(a) : (a \o b)[i] = a[i]
        /\ \A i \in 1 .. Len(b) : (a \o b)[Len(a) + i] = b[i]
    BY <1>3, ConcatIsSequence
  <2> HIDE DEF payload
  <2>3. /\ \A i \in 1 .. width : payload[0 + i] = a[i]
        /\ \A i \in 1 .. width : payload[width + i] = b[i]
    BY <1>3, <2>1, <2>2
  <2>4. /\ Faithful(frame[1], decodeSample(payload, 0, format), format)
        /\ Faithful(frame[2], decodeSample(payload, width, format), format)
    BY <1>1, <1>3, <2>3, SampleReadsBack
  <2>5. Len(payload) = n * width
    BY <1>3, <1>6, <2>1, <2>2
  <2> QED
    BY <1>4, <1>6, <2>4, <2>5 DEF payload, cut
<1> QED
  BY <1>5, <1>6

LEMMA PlayedIsFrame ==
    ASSUME NEW n \in Nat
    PROVE  Played(n) \in Sample \X Sample
<1>1. Signal \in Seq(Sample \X Sample) /\ Signal # <<>>
  BY SignalAssumption DEF Sample
<1>2. Len(Signal) \in Nat \ {0}
  BY <1>1, EmptySeq, LenProperties
<1>3. (n % Len(Signal)) + 1 \in 1 .. Len(Signal)
  BY <1>2
<1> QED
  BY <1>1, <1>3, ElementOfSeq DEF Played

LEMMA PacketIsPlayable ==
    ASSUME NEW header \in Packets
    PROVE  header.settings.format \in Formats /\ header.channels \in {1, 2}
BY PacketAssumption DEF Packets

-----------------------------------------------------------------------------
(* The inductive invariant, and what follows from it                         *)

\* What holds of the sender, the queue and the page together, from step to step
EndToEndInv ==
    /\ RingFitsStream /\ CountInv /\ SenderInv /\ QueueInv /\ PageInv /\ RestartInv

\* Whatever is reconfigured, dropped, broken off or announced late, the sender,
\* the queue and the page fit each other: this is the inductive invariant.
THEOREM EndToEndInvariant == EndToEndSpec => []EndToEndInv
<1>1. EndToEndInit => EndToEndInv
  BY InitRingFits, InitCount, InitSender, InitQueue, InitPage, InitRestart DEF EndToEndInv
<1>2. EndToEndInv /\ [EndToEndNext]_allVars => EndToEndInv'
  <2> SUFFICES ASSUME EndToEndInv, [EndToEndNext]_allVars PROVE EndToEndInv'
    OBVIOUS
  <2>1. RingFitsStream /\ CountInv /\ SenderInv /\ QueueInv /\ PageInv /\ RestartInv
    BY DEF EndToEndInv
  <2>2. sent \in Nat
    BY <2>1, SequenceAssumption DEF CountInv
  <2>3. RingFitsStream' /\ CountInv' /\ SenderInv'
    BY <2>1, <2>2, NextRingFits, NextCount, NextSender
  <2>4. QueueInv' /\ PageInv' /\ RestartInv'
    BY <2>1, <2>3, NextQueue, NextPage, NextRestart
  <2> QED
    BY <2>3, <2>4 DEF EndToEndInv
<1> QED
  BY <1>1, <1>2, PTL DEF EndToEndSpec

LEMMA InvIsTyped == EndToEndInv => EndToEndTypeOK
<1> SUFFICES ASSUME EndToEndInv PROVE EndToEndTypeOK
  OBVIOUS
<1> USE PacketAssumption, SequenceAssumption
<1>1. /\ settings \in SettingsSet /\ channels \in ChannelSet
      /\ stage \in {"idle", "changed", "raised"} /\ packet \in Packets
      /\ hello \subseteq ChannelSet /\ link \in {"up", "lost", "down"}
      /\ outgoing \in {"none", "built", "overtaken"}
  BY DEF EndToEndInv, SenderInv
<1>2. epoch \in 0 .. MaxEvents /\ hellos \in 0 .. MaxEvents /\ breaks \in 0 .. MaxEvents
  BY DEF EndToEndInv, SenderInv
<1>3. {pending, fresh} \subseteq BOOLEAN /\ {announce, swayed} \subseteq BOOLEAN
  BY DEF EndToEndInv, SenderInv, RingFitsStream
<1>4. sent \in 0 .. MaxPackets /\ last \in 0 .. sent
  BY DEF EndToEndInv, CountInv
<1>5. ASSUME NEW message \in Range(queue) PROVE MessageOK(message)
  <2>1. IsSequence(queue)
    BY DEF EndToEndInv, CountInv, InOrder
  <2>2. PICK i \in 1 .. Len(queue) : message = queue[i]
    BY <2>1 DEF Range, IsSequence
  <2>3. Genuine(message)
    BY <2>2 DEF EndToEndInv, QueueInv
  <2>4. CASE Audio(message)
    <3>1. message.number \in 1 .. sent
      <4>1. message.number \in last + 1 .. sent
        BY <2>2, <2>4 DEF EndToEndInv, CountInv, InOrder
      <4> QED
        BY <1>4, <4>1
    <3>2. /\ message.header \in Packets /\ message.number \in Nat
          /\ message.payload = writeFrame(SubSeq(Played(message.number), 1,
                                                 message.header.channels),
                                          message.header.settings.format)
      BY <2>3, <2>4 DEF Genuine, Audio
    <3>3. Len(message.payload) =
             message.header.channels * bytesPerSample(message.header.settings.format)
      <4> DEFINE frame == Played(message.number)
                 header == message.header
      <4>1. /\ frame \in Sample \X Sample
            /\ header.settings.format \in Formats /\ header.channels \in {1, 2}
            /\ message.payload = writeFrame(SubSeq(frame, 1, header.channels),
                                            header.settings.format)
        BY <3>2, PacketIsPlayable, PlayedIsFrame
      <4> HIDE DEF frame, header
      <4>2. Len(message.payload) = header.channels * bytesPerSample(header.settings.format)
        BY <4>1, FrameReadsBack
      <4> QED
        BY <4>2 DEF header
    <3>4. message.overtaken \in BOOLEAN
      BY <2>3, <2>4 DEF Genuine, Audio
    <3> QED
      BY <2>4, <3>1, <3>2, <3>3, <3>4 DEF MessageOK, Audio
  <2>5. CASE ~Audio(message)
    BY <2>3, <2>5 DEF Genuine, MessageOK
  <2> QED
    BY <2>4, <2>5
<1>6. Cardinality(Droppables(queue)) <= Queued
  BY DEF EndToEndInv, QueueInv
<1>7. /\ stream \in [epoch : -1 .. MaxEvents, channels : ChannelSet, format : Formats]
      /\ Len(ring) <= Most
  BY DEF EndToEndInv, PageInv
<1>8. lastSeq \in -1 .. SeqMod - 1
  BY <1>4 DEF EndToEndInv, CountInv, SeqNo
<1>9. {lost, last, missed} \subseteq 0 .. sent
  BY <1>4 DEF EndToEndInv, CountInv, PageInv
<1> QED
  BY <1>1, <1>2, <1>3, <1>4, <1>5, <1>6, <1>7, <1>8, <1>9 DEF EndToEndTypeOK

\* The types, whole payloads, and the limits of the queue and of the ring
THEOREM EndToEndTypeCorrect == EndToEndSpec => []EndToEndTypeOK
BY EndToEndInvariant, InvIsTyped, PTL

LEMMA InvKeepsOnePacket == EndToEndInv => OnePacketBeforeRestart
<1> SUFFICES ASSUME EndToEndInv, ~announce, link # "lost",
                    ~ \E i \in DOMAIN queue : queue[i].type = "config",
                    NEW i \in 1 .. Len(ring) - 1, ~(i = 1 /\ ring[i].overtaken)
             PROVE  (ring[i + 1].header.sampleClock - ring[i].header.sampleClock) % ClockMod
                        = ring[i + 1].number - ring[i].number
  BY DEF OnePacketBeforeRestart
<1>1. Len(ring) \in Nat /\ DOMAIN queue = 1 .. Len(queue)
  BY DEF EndToEndInv, RingFitsStream, CountInv, InOrder, IsSequence
<1>2. i \in 1 .. Len(ring) /\ i + 1 \in 1 .. Len(ring) /\ i < i + 1
  BY <1>1
<1>3. Origin(ring[i]) = NextOrigin /\ Origin(ring[i + 1]) = NextOrigin
  <2>1. RingSettled(ring, NextOrigin)
    BY <1>1 DEF EndToEndInv, RestartInv, Config
  <2>2. i + 1 # 1
    BY <1>1
  <2> QED
    BY <1>2, <2>1, <2>2 DEF RingSettled
<1>4. /\ ring[i].number \in 1 .. last /\ ring[i + 1].number \in 1 .. last
      /\ ring[i].number < ring[i + 1].number
  BY <1>2 DEF EndToEndInv, RestartInv
<1>5. last \in 0 .. sent /\ sent \in 0 .. MaxPackets
  BY DEF EndToEndInv, CountInv
<1>6. ring[i].header.sampleClock \in 0 .. ClockMod - 1
      /\ ring[i + 1].header.sampleClock \in 0 .. ClockMod - 1
  <2>1. Decoded(ring[i]) /\ Decoded(ring[i + 1])
    BY <1>2 DEF EndToEndInv, PageInv
  <2> QED
    BY <2>1 DEF Decoded, Packets
<1>7. ClockMod \in Nat /\ MaxPackets \in Nat /\ MaxPackets < ClockMod
  BY PacketAssumption, SequenceAssumption
<1> DEFINE d == ring[i + 1].number - ring[i].number
<1>8. ring[i + 1].header.sampleClock - ring[i].header.sampleClock = d
  <2>1. ring[i].number - ring[i].header.sampleClock
            = ring[i + 1].number - ring[i + 1].header.sampleClock
    BY <1>3 DEF Origin
  <2>2. /\ ring[i].number \in Int /\ ring[i + 1].number \in Int
        /\ ring[i].header.sampleClock \in Int /\ ring[i + 1].header.sampleClock \in Int
    BY <1>4, <1>5, <1>6, <1>7
  <2> QED
    BY <2>1, <2>2
<1>9. d \in 0 .. ClockMod - 1
  BY <1>4, <1>5, <1>7
<1> HIDE DEF d
<1>10. d % ClockMod = d
  BY <1>7, <1>9
<1> QED
  BY <1>8, <1>10 DEF d

\* However the restart of the clock falls between the steps of the streaming thread,
\* and though the packet that was marked with it may have been dropped, no packet of
\* before it stays in the ring but a first one that the config message overtook.
THEOREM OldPacketsFlushed == EndToEndSpec => []OnePacketBeforeRestart
BY EndToEndInvariant, InvKeepsOnePacket, PTL

LEMMA InvIsFaithful == EndToEndInv => HeardFaithfully
<1> SUFFICES ASSUME EndToEndInv, NEW i \in DOMAIN ring
             PROVE  LET played == Signal[(ring[i].number % Len(Signal)) + 1]
                        format == ring[i].header.settings.format
                        right == IF ring[i].header.channels > 1 THEN 2 ELSE 1
                    IN  /\ Faithful(played[1], ring[i].heard[1], format)
                        /\ Faithful(played[right], ring[i].heard[2], format)
  BY DEF HeardFaithfully
<1>1. i \in 1 .. Len(ring)
  BY DEF EndToEndInv, RingFitsStream, IsSequence
<1>2. Decoded(ring[i])
  BY <1>1 DEF EndToEndInv, PageInv
<1> DEFINE header == ring[i].header
           frame == Played(ring[i].number)
<1>3. /\ header.settings.format \in Formats /\ header.channels \in {1, 2}
      /\ frame \in Sample \X Sample
      /\ ring[i].heard = decode(writeFrame(SubSeq(frame, 1, header.channels),
                                           header.settings.format),
                                header.settings.format, header.channels)
  BY <1>2, PacketIsPlayable, PlayedIsFrame DEF Decoded
<1>4. frame = Signal[(ring[i].number % Len(Signal)) + 1]
  BY DEF Played
<1> HIDE DEF frame, header
<1>5. /\ Faithful(frame[1], ring[i].heard[1], header.settings.format)
      /\ Faithful(frame[IF header.channels > 1 THEN 2 ELSE 1], ring[i].heard[2],
                  header.settings.format)
  BY <1>3, FrameReadsBack
<1> QED
  BY <1>4, <1>5 DEF header

\* Each frame of the ring is the frame that was played in its packet, to within
\* half a step of its format, for every sample value.
THEOREM FaithfullyHeard == EndToEndSpec => []HeardFaithfully
BY EndToEndInvariant, InvIsFaithful, PTL
-----------------------------------------------------------------------------
\* The sender of the composition is the engine's promise and no other: to every
\* step of the network and of the page it stutters.
THEOREM SenderIsPacketStream == EndToEndSpec => Spec
<1>1. EndToEndInit => Init
  BY DEF EndToEndInit
<1>2. [EndToEndNext]_allVars => [Next]_vars
  <2> SUFFICES ASSUME [EndToEndNext]_allVars PROVE [Next]_vars
    OBVIOUS
  <2>1. CASE Reconfigure
    BY <2>1 DEF Reconfigure, Next
  <2>2. CASE BuildPacket
    BY <2>2 DEF BuildPacket, Next
  <2>3. CASE Restart
    BY <2>3 DEF Restart, Next
  <2>4. CASE BroadcastPacket \/ BroadcastConfig \/ BuildHello \/ BroadcastHello
    BY <2>4 DEF BroadcastPacket, BroadcastConfig, BuildHello, BroadcastHello
  <2>5. CASE Break \/ Connect \/ Closed \/ Play
    BY <2>5 DEF Break, Connect, Closed, Play
  <2>6. CASE handlePacket \/ handleConfig \/ handleHello
    BY <2>6 DEF handlePacket, handleConfig, handleHello, Receive
  <2>7. CASE UNCHANGED allVars
    BY <2>7 DEF allVars
  <2> QED
    BY <2>1, <2>2, <2>3, <2>4, <2>5, <2>6, <2>7 DEF EndToEndNext
<1> QED
  BY <1>1, <1>2, PTL DEF EndToEndSpec, Spec
=============================================================================
