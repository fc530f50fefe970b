-------------------------- MODULE Receiver_proofs --------------------------
(***************************************************************************)
(* Proofs about the receiver page, in two parts: its session with the      *)
(* server (ReceiverSession), for any number of sockets, clicks, lost       *)
(* connections and overlapping calls of startListening; and its buffer     *)
(* (Playback), for every packet and block size, resampling ratio and       *)
(* target that PlaybackAssumption allows, whatever the two clocks' phase.  *)
(*                                                                         *)
(* The session: ListeningIsServed is inductive once the types are known.   *)
(* StraysComeFromStops needs it: a new socket leaves no stray behind only  *)
(* because the socket that closed was the current one or a stray itself.   *)
(*                                                                         *)
(* The buffer: one output frame moves the read position on by Step,        *)
(* whether audio is there or not (FramePlayed), and a block is BlockFrames *)
(* of them (BlockPlayed).  The invariant weighs the audio ahead of the     *)
(* read position together with the packets on their way and with the time  *)
(* that the next packet is produced before the next block is due: no turn  *)
(* of the two clocks and no arrival changes that sum.                      *)
(***************************************************************************)
EXTENDS ReceiverSession, Playback,
        FiniteSetTheorems, SequenceTheorems, WellFoundedInduction, TLAPS

\* Every suspended call of startListening and every stop began with a click.
ClicksCounted == resuming + locking + stops <= clicks

SessionInv ==
    /\ TypeOK
    /\ ClicksCounted
    /\ ListeningIsServed
    /\ StraysComeFromStops

-----------------------------------------------------------------------------
(* The types and the count of clicks *)

\* A handler takes at most one click, and what it starts or stops it takes from
\* that click or from a call already under way.
LEMMA NextCounted ==
    ASSUME TypeOK, ClicksCounted, [Next]_vars
    PROVE  /\ resuming' \in 0 .. MaxClicks /\ locking' \in 0 .. MaxClicks
           /\ clicks' \in 0 .. MaxClicks /\ stops' \in 0 .. MaxClicks
           /\ ClicksCounted'
<1> DEFINE Counts == <<resuming, locking, clicks, stops>>
<1>0. /\ resuming \in 0 .. MaxClicks /\ locking \in 0 .. MaxClicks
      /\ clicks \in 0 .. MaxClicks /\ stops \in 0 .. MaxClicks
  BY DEF TypeOK
<1> USE SessionAssumption, <1>0 DEF ClicksCounted
<1>1. CASE UNCHANGED Counts
  BY <1>1
<1>2. CASE StartSuspended
  BY <1>2 DEF StartSuspended, Click
<1>3. CASE StartRunning
  BY <1>3 DEF StartRunning, Click, Resumed
<1>4. CASE StopListening
  BY <1>4 DEF StopListening, Click, start
<1>5. CASE ContextResumes
  BY <1>5 DEF ContextResumes, Resumed, world
<1>6. CASE WakeLockSettles
  BY <1>6 DEF WakeLockSettles, world
<1>7. CASE TimerFires \/ NetworkLost \/ NetworkBack \/ UNCHANGED vars
  BY <1>1, <1>7 DEF TimerFires, NetworkLost, NetworkBack, vars, start, world
<1>8. ASSUME NEW s \in Sockets, Opened(s) \/ CloseEvent(s) \/ ServerEnds(s)
      PROVE  UNCHANGED Counts
  BY <1>8 DEF Opened, CloseEvent, ServerEnds, Closed, start, world
<1> QED
  BY <1>1, <1>2, <1>3, <1>4, <1>5, <1>6, <1>7, <1>8 DEF Next

\* Connecting, or not connecting, leaves a socket and its states in order.
LEMMA ConnectTyped ==
    ASSUME TypeOK, Connect \/ UNCHANGED link
    PROVE  /\ socket' \in Sockets \cup {NoSocket}
           /\ conn' \in [Sockets -> {"connecting", "open", "closing", "closed"}]
           /\ status' \in {"idle", "connecting", "live", "error"}
<1>1. CASE UNCHANGED link
  BY <1>1 DEF TypeOK, link
<1>2. CASE NewSocket
  BY <1>2 DEF TypeOK, NewSocket
<1> QED
  BY <1>1, <1>2 DEF Connect

LEMMA NextTypeOK ==
    ASSUME TypeOK, ClicksCounted, [Next]_vars
    PROVE  TypeOK'
<1>0. /\ resuming' \in 0 .. MaxClicks /\ locking' \in 0 .. MaxClicks
      /\ clicks' \in 0 .. MaxClicks /\ stops' \in 0 .. MaxClicks
  BY NextCounted
<1>01. /\ playing \in BOOLEAN /\ timer \in BOOLEAN /\ nodes \in 0 .. 1
       /\ socket \in Sockets \cup {NoSocket}
       /\ conn \in [Sockets -> {"connecting", "open", "closing", "closed"}]
       /\ status \in {"idle", "connecting", "live", "error"}
  BY DEF TypeOK
<1>02. drops \in 0 .. MaxDrops /\ MaxDrops \in Nat
  BY SessionAssumption DEF TypeOK
<1>1. CASE StartSuspended \/ StopListening
  <2>1. UNCHANGED <<nodes, drops, retry, wakeLockApi, reachable>>
    BY <1>1 DEF StartSuspended, StopListening, start
  <2>2. /\ playing' \in BOOLEAN /\ socket' \in Sockets \cup {NoSocket}
        /\ conn' \in [Sockets -> {"connecting", "open", "closing", "closed"}]
        /\ status' \in {"idle", "connecting", "live", "error"}
    <3>1. CASE StartSuspended
      BY <1>01, <3>1 DEF StartSuspended, link
    <3>2. CASE StopListening
      BY <1>01, <3>2 DEF StopListening
    <3> QED
      BY <1>1, <3>1, <3>2
  <2> QED
    BY <1>0, <2>1, <2>2 DEF TypeOK, retry
<1>2. CASE StartRunning \/ ContextResumes \/ WakeLockSettles \/ TimerFires
  <2>1. UNCHANGED <<drops, reconnectDelay, wakeLockApi, reachable>>
    BY <1>2 DEF StartRunning, ContextResumes, WakeLockSettles, TimerFires, retry, world
  <2>2. Connect \/ UNCHANGED link
    <3>1. CASE Resumed
      BY <3>1 DEF Resumed, Listen, link
    <3>2. CASE WakeLockSettles \/ TimerFires
      BY <3>2 DEF WakeLockSettles, TimerFires, Listen
    <3> QED
      BY <1>2, <3>1, <3>2 DEF StartRunning, ContextResumes
  <2>3. playing' \in BOOLEAN /\ nodes' \in 0 .. 1 /\ timer' \in BOOLEAN
    <3>1. CASE Resumed /\ UNCHANGED retry
      <4>1. nodes' \in 0 .. 1
        BY <1>01, <3>1 DEF Resumed
      <4>2. playing' = playing \/ playing' = TRUE
        BY <3>1 DEF Resumed, Listen
      <4> QED
        BY <1>01, <3>1, <4>1, <4>2 DEF retry
    <3>2. CASE WakeLockSettles
      BY <1>01, <3>2 DEF WakeLockSettles, Listen, retry
    <3>3. CASE TimerFires
      BY <1>01, <3>3 DEF TimerFires, start
    <3> QED
      BY <1>2, <3>1, <3>2, <3>3 DEF StartRunning, ContextResumes
  <2> QED
    BY <1>0, <2>1, <2>2, <2>3, ConnectTyped DEF TypeOK
<1>3. ASSUME NEW s \in Sockets, Opened(s)
      PROVE  TypeOK'
  BY <1>0, <1>3 DEF TypeOK, Opened, start, world
<1>4. ASSUME NEW s \in Sockets, CloseEvent(s) \/ ServerEnds(s)
      PROVE  TypeOK'
  <2>1. Closed(s) /\ UNCHANGED <<wakeLockApi, reachable>>
    BY <1>4 DEF CloseEvent, ServerEnds, world
  <2>2. reconnectDelay' \in {500, 1000, 2000, 4000, 5000}
    BY <2>1 DEF TypeOK, Closed, ScheduleReconnect, Backoff
  <2>3. drops' \in 0 .. MaxDrops
    BY <1>02, <1>4 DEF CloseEvent, ServerEnds, world
  <2> QED
    BY <1>0, <2>1, <2>2, <2>3 DEF TypeOK, Closed, ScheduleReconnect, start
<1>5. CASE NetworkLost \/ NetworkBack
  <2>1. drops' \in 0 .. MaxDrops
    <3>1. CASE NetworkLost
      BY <1>02, <3>1 DEF NetworkLost
    <3>2. CASE NetworkBack
      BY <1>02, <3>2 DEF NetworkBack
    <3> QED
      BY <1>5, <3>1, <3>2
  <2>2. UNCHANGED <<playing, start, link, retry, wakeLockApi>> /\ reachable' \in BOOLEAN
    BY <1>5 DEF NetworkLost, NetworkBack
  <2> QED
    BY <1>0, <2>1, <2>2 DEF TypeOK, start, link, retry
<1>6. CASE UNCHANGED vars
  BY <1>6 DEF TypeOK, vars, start, link, retry, world
<1> QED
  BY <1>1, <1>2, <1>3, <1>4, <1>5, <1>6 DEF Next

-----------------------------------------------------------------------------
(* The page never waits for nothing *)

LEMMA NextServed ==
    ASSUME TypeOK, ListeningIsServed, [Next]_vars
    PROVE  ListeningIsServed'
<1> USE SessionAssumption DEF TypeOK, ListeningIsServed, start, link, retry, world
<1>1. ASSUME Connect, UNCHANGED timer, playing' => playing \/ socket' # NoSocket
      PROVE  ListeningIsServed'
  BY <1>1 DEF Connect, NewSocket
<1>2. CASE StartRunning \/ ContextResumes
  BY <1>1, <1>2 DEF StartRunning, ContextResumes, Resumed, Listen, Connect, NewSocket
<1>3. CASE StopListening
  BY <1>3 DEF StopListening
<1>4. CASE WakeLockSettles \/ TimerFires
  BY <1>4 DEF WakeLockSettles, TimerFires, Listen, Connect, NewSocket
<1>5. ASSUME NEW s \in Sockets, Opened(s)
      PROVE  ListeningIsServed'
  BY <1>5 DEF Opened
<1>6. ASSUME NEW s \in Sockets, Closed(s)
      PROVE  ListeningIsServed'
  BY <1>6 DEF Closed, ScheduleReconnect
<1>7. CASE UNCHANGED <<playing, link, timer>>
  BY <1>7
<1>8. ASSUME NEW s \in Sockets, CloseEvent(s) \/ ServerEnds(s)
      PROVE  ListeningIsServed'
  BY <1>6, <1>8 DEF CloseEvent, ServerEnds
<1>9. CASE StartSuspended \/ NetworkLost \/ NetworkBack \/ UNCHANGED vars
  BY <1>7, <1>9 DEF StartSuspended, NetworkLost, NetworkBack, vars
<1> QED
  BY <1>2, <1>3, <1>4, <1>5, <1>8, <1>9 DEF Next


-----------------------------------------------------------------------------
(* At most one stray for each stop *)

LEMMA StraysFinite == IsFiniteSet(Strays) /\ Cardinality(Strays) \in Nat
BY SessionAssumption, FS_Subset, FS_CardinalityType DEF Strays

LEMMA FewerStrays ==
    ASSUME TypeOK, StraysComeFromStops, Strays' \subseteq Strays, stops' = stops
    PROVE  StraysComeFromStops'
<1>1. Cardinality(Strays') <= Cardinality(Strays)
  BY StraysFinite, FS_Subset
<1>2. Cardinality(Strays') \in Nat
  BY StraysFinite, FS_Subset, FS_CardinalityType
<1> QED
  BY <1>1, <1>2, StraysFinite DEF TypeOK, StraysComeFromStops

LEMMA NextStrays ==
    ASSUME TypeOK, ListeningIsServed, StraysComeFromStops, [Next]_vars
    PROVE  StraysComeFromStops'
<1> USE SessionAssumption
<1>0. /\ socket \in Sockets \cup {NoSocket} /\ stops \in Nat
      /\ conn \in [Sockets -> {"connecting", "open", "closing", "closed"}]
  BY DEF TypeOK
<1>1. CASE UNCHANGED <<socket, conn, stops>>
  BY <1>1, FewerStrays DEF Strays
<1>2. CASE Connect /\ UNCHANGED stops
  BY <1>0, <1>2, FewerStrays DEF Strays, Connect, NewSocket, link
<1>3. CASE StopListening
  <2>1. socket \in Sockets => Strays' = Strays \cup {socket}
    BY <1>0, <1>3 DEF StopListening, ListeningIsServed, Strays
  <2>2. socket = NoSocket => Strays' = Strays
    BY <1>0, <1>3 DEF StopListening, Strays
  <2>0. Cardinality(Strays \cup {socket}) =
            IF socket \in Strays THEN Cardinality(Strays) ELSE Cardinality(Strays) + 1
    BY StraysFinite, FS_AddElement
  <2>3. Cardinality(Strays') <= Cardinality(Strays) + 1
    BY <1>0, <2>0, <2>1, <2>2, StraysFinite
  <2>4. Cardinality(Strays') \in Nat
    BY <1>0, <2>1, <2>2, StraysFinite, FS_AddElement, FS_CardinalityType
  <2> QED
    BY <1>0, <1>3, <2>3, <2>4, StraysFinite DEF StopListening, StraysComeFromStops
<1>4. ASSUME NEW s \in Sockets, Opened(s)
      PROVE  StraysComeFromStops'
  BY <1>0, <1>4, FewerStrays DEF Opened, Strays, world
<1>5. ASSUME NEW s \in Sockets, Closed(s), conn[s] # "closed", UNCHANGED stops
      PROVE  StraysComeFromStops'
  <2>1. CASE socket = s \/ socket = NoSocket
    BY <1>0, <1>5, <2>1, FewerStrays DEF Closed, Strays
  <2>2. CASE socket # s /\ socket # NoSocket
    <3>1. s \in Strays /\ socket \notin Strays
      BY <1>0, <1>5, <2>2 DEF Strays
    <3>2. Strays' = (Strays \ {s}) \cup {socket}
      BY <1>0, <1>5, <2>2 DEF Closed, Strays, ListeningIsServed
    <3>3. IsFiniteSet(Strays \ {s}) /\ Cardinality(Strays \ {s}) = Cardinality(Strays) - 1
      BY <3>1, StraysFinite, FS_RemoveElement
    <3>4. Cardinality((Strays \ {s}) \cup {socket}) = Cardinality(Strays \ {s}) + 1
      BY <3>1, <3>3, FS_AddElement
    <3>5. Cardinality(Strays') = Cardinality(Strays)
      BY <3>2, <3>3, <3>4, StraysFinite
    <3> QED
      BY <1>5, <3>5 DEF StraysComeFromStops
  <2> QED
    BY <2>1, <2>2
<1>6. ASSUME NEW s \in Sockets, CloseEvent(s) \/ ServerEnds(s)
      PROVE  StraysComeFromStops'
  BY <1>5, <1>6 DEF CloseEvent, ServerEnds, world
<1>7. CASE StartSuspended \/ NetworkLost \/ NetworkBack \/ UNCHANGED vars
  BY <1>1, <1>7 DEF StartSuspended, NetworkLost, NetworkBack, vars, link, world
<1>8. CASE StartRunning \/ ContextResumes \/ WakeLockSettles \/ TimerFires
  <2>1. UNCHANGED stops
    BY <1>8 DEF StartRunning, ContextResumes, WakeLockSettles, TimerFires, world
  <2>2. CASE Resumed
    BY <1>1, <1>2, <2>1, <2>2 DEF Resumed, Listen, link
  <2>3. CASE WakeLockSettles \/ TimerFires
    BY <1>2, <2>1, <2>3 DEF WakeLockSettles, TimerFires, Listen
  <2> QED
    BY <1>8, <2>2, <2>3 DEF StartRunning, ContextResumes
<1> QED
  BY <1>3, <1>4, <1>6, <1>7, <1>8 DEF Next

-----------------------------------------------------------------------------
(* The whole specification *)

LEMMA InitSessionInv == Init => SessionInv
<1> SUFFICES ASSUME Init
             PROVE  SessionInv
  OBVIOUS
<1> USE SessionAssumption
<1>1. TypeOK
  <2>1. /\ resuming \in 0 .. MaxClicks /\ locking \in 0 .. MaxClicks /\ nodes \in 0 .. 1
        /\ clicks \in 0 .. MaxClicks /\ drops \in 0 .. MaxDrops /\ stops \in 0 .. MaxClicks
    BY DEF Init
  <2> QED
    BY <2>1, Zenon DEF Init, TypeOK
<1>2. ClicksCounted
  BY DEF Init, ClicksCounted
<1>3. ListeningIsServed
  BY DEF Init, ListeningIsServed
<1>4. Strays = {}
  BY DEF Init, Strays
<1>5. StraysComeFromStops
  BY <1>4, FS_EmptySet DEF Init, StraysComeFromStops
<1> QED
  BY <1>1, <1>2, <1>3, <1>5 DEF SessionInv

LEMMA NextSessionInv == SessionInv /\ [Next]_vars => SessionInv'
BY NextTypeOK, NextCounted, NextServed, NextStrays DEF SessionInv

\* The inductive invariant, for any number of sockets, clicks and failures.
THEOREM SessionInvHolds == Spec => []SessionInv
BY InitSessionInv, NextSessionInv, PTL DEF Spec

\* Every variable of the page keeps its type; the retry delay takes its five
\* values only.
THEOREM TypeCorrect == Spec => []TypeOK
BY SessionInvHolds, PTL DEF SessionInv

\* While the page says STOP it has a connection or a timer that will make one,
\* and it says "connected" only while a connection is open.
THEOREM NeverWaitsForNothing == Spec => []ListeningIsServed
BY SessionInvHolds, PTL DEF SessionInv

\* However startListening is entered again, closed and retried, the connections
\* that the page has lost sight of are no more than the stops.
THEOREM StraysBounded == Spec => []StraysComeFromStops
BY SessionInvHolds, PTL DEF SessionInv

-----------------------------------------------------------------------------
(* The buffer: numbers                                                       *)

\* The least of a set of numbers.
Least(S) == CHOOSE k \in S : \A j \in S : k <= j

\* A set of numbers has a least one.
LEMMA LeastNumber ==
    ASSUME NEW S, S \subseteq Nat, S # {}
    PROVE  Least(S) \in S /\ \A y \in S : Least(S) <= y
<1> DEFINE R == OpToRel(<, Nat)
<1>1. IsWellFoundedOn(R, Nat)
  BY NatLessThanWellFounded DEF OpToRel
<1> HIDE DEF R
<1>2. PICK x \in S : \A y \in S : ~ (<<y, x>> \in R)
  BY <1>1, WFMin, Zenon
<1>3. \A y \in S : <<y, x>> \in Nat \X Nat
  OBVIOUS
<1>4. \A y \in S : ~ (y < x)
  BY <1>2, <1>3 DEF R, OpToRel
<1>5. \A y \in S : x <= y
  BY <1>4
<1> QED
  BY <1>5, Zenon DEF Least

\* A set of numbers that has zero and with each number the next has them all.
LEMMA FromZeroOn ==
    ASSUME NEW S, 0 \in S, \A n \in Nat : n \in S => n + 1 \in S
    PROVE  Nat \subseteq S
<1> DEFINE T == Nat \ S
<1>1. SUFFICES ASSUME T # {} PROVE FALSE
  OBVIOUS
<1>2. T \subseteq Nat
  OBVIOUS
<1> DEFINE m == Least(T)
<1>3. m \in T /\ \A y \in T : m <= y
  BY <1>1, <1>2, LeastNumber
<1> HIDE DEF m
<1>4. m \in Nat /\ m # 0 /\ m \notin S
  BY <1>3
<1>5. m - 1 \in Nat /\ m - 1 + 1 = m /\ ~(m <= m - 1)
  BY <1>4
<1>6. m - 1 \in S
  BY <1>3, <1>5
<1> QED
  BY <1>4, <1>5, <1>6

\* Multiplication distributes; the steps below cite it rather than find it.
LEMMA Times ==
    ASSUME NEW a \in Int, NEW b \in Int, NEW x \in Int
    PROVE  /\ a * x \in Int
           /\ (a + b) * x = a * x + b * x
           /\ (a - b) * x = a * x - b * x
           /\ 1 * x = x /\ 0 * x = 0
OBVIOUS

\* What a buffer that has just started is worth: the target without the frame that
\* primes it, less the packet that is about to be produced.
Reserve == (Target - 1) * Unit - Packet

\* What the assumption says in parts of a frame: the reserve lasts for a block.
LEMMA Durations ==
    /\ PacketFrames \in Nat /\ BlockFrames \in Nat /\ Step \in Nat /\ Unit \in Nat
    /\ PacketFrames >= 1 /\ BlockFrames >= 1 /\ Step >= 1 /\ Unit >= 1
    /\ Packet \in Nat /\ Block \in Nat /\ Step <= Packet
    /\ Target \in Nat /\ Target >= PacketFrames
    /\ Target * Unit \in Nat /\ (Target - 1) * Unit = Target * Unit - Unit
    /\ Reserve \in Nat /\ Reserve = (Target * Unit - Unit) - Packet
    /\ Allowance \in Nat /\ Allowance = Reserve - Block
<1>1. /\ PacketFrames \in Nat /\ BlockFrames \in Nat /\ Step \in Nat /\ Unit \in Nat
      /\ PacketFrames >= 1 /\ BlockFrames >= 1 /\ Step >= 1 /\ Unit >= 1
      /\ Target \in Nat
  BY PlaybackAssumption
<1>2. \A a, x \in Nat : a * x \in Nat
  OBVIOUS
<1>3. Packet \in Nat /\ Block \in Nat /\ Target * Unit \in Nat
  BY <1>1, <1>2 DEF Packet, Block
<1>4. (PacketFrames + 1) * Unit = Packet + Unit /\ (Target - 1) * Unit = Target * Unit - Unit
  BY <1>1, Times DEF Packet
<1>5. /\ Target * Unit >= 2 * Block /\ (PacketFrames + 1) * Unit <= Block
      /\ Step <= Packet
  BY PlaybackAssumption DEF Packet, Block
<1>6. Target * Unit >= Block + Block /\ Packet + Unit <= Block
  BY <1>3, <1>4, <1>5
<1>7. Target >= PacketFrames
  <2>1. SUFFICES ASSUME Target < PacketFrames PROVE FALSE
    BY <1>1
  <2>2. PacketFrames - Target \in Nat /\ PacketFrames = Target + (PacketFrames - Target)
    BY <1>1, <2>1
  <2>3. (PacketFrames - Target) * Unit \in Nat
    BY <1>1, <1>2, <2>2
  <2>4. Packet = Target * Unit + (PacketFrames - Target) * Unit
    BY <1>1, <2>2, Times DEF Packet
  <2> QED
    BY <1>1, <1>3, <1>6, <2>3, <2>4
<1>8. Reserve = (Target * Unit - Unit) - Packet /\ Allowance = Reserve - Block
  BY <1>4 DEF Reserve, Allowance
<1>9. Reserve \in Nat /\ Allowance \in Nat
  BY <1>1, <1>3, <1>6, <1>8
<1> QED
  BY <1>1, <1>3, <1>4, <1>5, <1>7, <1>8, <1>9

-----------------------------------------------------------------------------
(* One output frame                                                          *)

\* The values of buf.
Buffers == [fill : 0 .. 3 * Target, primed : BOOLEAN, phase : Nat, conceal : BOOLEAN,
            underruns : Nat, emitted : Nat]

\* A buffer as pull sees it: the first output frame primes it.
Seeded(b) == IF b.primed THEN b
             ELSE [b EXCEPT !.primed = TRUE, !.phase = 0, !.fill = @ - 1]

\* What is buffered ahead of the read position, in parts of a frame.
Ahead(b) == b.fill * Unit - b.phase

\* pull plays from the buffer: it does already, or there is enough to start.
Plays(b) == b.primed \/ ReadyToStart(b)

\* Priming takes the first frame as the one that is read from.
LEMMA SeededIs ==
    ASSUME NEW b \in Buffers, Plays(b)
    PROVE  /\ Seeded(b) \in Buffers /\ Seeded(b).primed
           /\ Seeded(b).fill <= b.fill
           /\ Seeded(b).emitted = b.emitted /\ Seeded(b).underruns = b.underruns
           /\ Seeded(b).conceal = b.conceal
           /\ b.primed => Seeded(b) = b
           /\ ~b.primed => Seeded(b).phase = 0 /\ Seeded(b).fill = b.fill - 1
<1>1. Target \in Nat
  BY Durations
<1>2. CASE b.primed
  BY <1>1, <1>2 DEF Seeded, Buffers
<1>3. CASE ~b.primed
  <2>1. Seeded(b) = [fill |-> b.fill - 1, primed |-> TRUE, phase |-> 0,
                     conceal |-> b.conceal, underruns |-> b.underruns, emitted |-> b.emitted]
    BY <1>3 DEF Seeded, Buffers
  <2>2. b.fill \in 0 .. 3 * Target /\ b.fill >= 2
    BY <1>3 DEF Plays, ReadyToStart, Buffers
  <2>3. b.fill - 1 \in 0 .. 3 * Target /\ b.fill - 1 <= b.fill
    BY <1>1, <2>2
  <2> QED
    BY <1>3, <2>1, <2>3 DEF Buffers
<1> QED
  BY <1>2, <1>3

\* One output frame moves the read position on by Step, whatever it consumes;
\* with audio ahead of the position it consumes what is due.
LEMMA FramePlayed ==
    ASSUME NEW b \in Buffers, Plays(b), NEW r, r = OutputFrame(b)
    PROVE  /\ r \in Buffers /\ r.primed /\ r.fill <= b.fill
           /\ r.emitted = b.emitted + 1
           /\ Ahead(r) = Ahead(Seeded(b)) - Step
           /\ Ahead(Seeded(b)) > 0 => r.underruns = b.underruns /\ r.phase < Unit + Step
<1> DEFINE s == Seeded(b)
           due == s.phase \div Unit
           frames == Lesser(due, Greater(s.fill - 1, 0))
           starved == frames < due
           more == IF starved /\ (frames > 0 \/ ~b.conceal) THEN 1 ELSE 0
<1>0. Unit \in Nat /\ Unit >= 1 /\ Step \in Nat /\ Target \in Nat
  BY Durations
<1>1. r = [Advance(s, frames) EXCEPT
              !.conceal = starved \/ (@ /\ frames = 0),
              !.underruns = @ + more]
  BY Zenon DEF OutputFrame, Seeded
<1>2. /\ s \in Buffers /\ s.primed /\ s.fill <= b.fill
      /\ s.emitted = b.emitted /\ s.underruns = b.underruns
  BY SeededIs
<1> HIDE DEF s, more
<1>3. /\ s = [fill |-> s.fill, primed |-> s.primed, phase |-> s.phase, conceal |-> s.conceal,
              underruns |-> s.underruns, emitted |-> s.emitted]
      /\ s.fill \in 0 .. 3 * Target /\ s.fill \in Nat /\ s.phase \in Nat /\ s.underruns \in Nat
      /\ s.emitted \in Nat /\ s.conceal \in BOOLEAN
  BY <1>0, <1>2 DEF Buffers
<1>4. due \in Nat /\ due * Unit <= s.phase /\ s.phase < due * Unit + Unit
  <2>1. \A p, u \in Nat : u >= 1 =>
            /\ p \div u \in Nat
            /\ p = u * (p \div u) + (p % u) /\ (p % u) \in Nat /\ (p % u) < u
    OBVIOUS
  <2>2. due \in Nat /\ s.phase = Unit * due + (s.phase % Unit)
        /\ (s.phase % Unit) \in Nat /\ (s.phase % Unit) < Unit
    BY <1>0, <1>3, <2>1
  <2> DEFINE rest == s.phase % Unit
  <2>3. due \in Nat /\ s.phase = Unit * due + rest /\ rest \in Nat /\ rest < Unit
    BY <2>2
  <2> HIDE DEF due, rest
  <2>4. Unit * due = due * Unit /\ due * Unit \in Int
    BY <1>0, <2>3
  <2> QED
    BY <1>0, <1>3, <2>3, <2>4
<1> HIDE DEF due
<1>5. /\ frames \in Nat /\ frames <= due /\ frames <= s.fill
      /\ due < s.fill => frames = due
  BY <1>3, <1>4 DEF Lesser, Greater
<1> HIDE DEF frames
<1>6. /\ frames * Unit \in Nat /\ frames * Unit <= s.phase
      /\ (s.fill - frames) * Unit = s.fill * Unit - frames * Unit
      /\ s.fill * Unit \in Int
  <2>1. due - frames \in Nat /\ due = frames + (due - frames)
    BY <1>4, <1>5
  <2>2. \A a, x \in Nat : a * x \in Nat
    OBVIOUS
  <2>3. frames * Unit \in Nat /\ (due - frames) * Unit \in Nat
    BY <1>0, <1>5, <2>1, <2>2
  <2>4. due * Unit = frames * Unit + (due - frames) * Unit
    BY <1>0, <1>5, <2>1, Times
  <2>5. (s.fill - frames) * Unit = s.fill * Unit - frames * Unit /\ s.fill * Unit \in Int
    BY <1>0, <1>3, <1>5, Times
  <2> QED
    BY <1>3, <1>4, <2>3, <2>4, <2>5
<1>7. r = [fill |-> s.fill - frames, primed |-> s.primed,
           phase |-> s.phase - frames * Unit + Step,
           conceal |-> starved \/ (s.conceal /\ frames = 0),
           underruns |-> s.underruns + more, emitted |-> s.emitted + 1]
  BY <1>1, <1>3 DEF Advance
<1>8. more \in Nat /\ (due < s.fill => more = 0)
  BY <1>4, <1>5 DEF more
<1>9. r \in Buffers
  <2>1. s.fill - frames \in 0 .. 3 * Target
    BY <1>0, <1>3, <1>5
  <2>2. s.phase - frames * Unit + Step \in Nat
    BY <1>0, <1>3, <1>6
  <2>3. (starved \/ (s.conceal /\ frames = 0)) \in BOOLEAN
    OBVIOUS
  <2>4. s.underruns + more \in Nat /\ s.emitted + 1 \in Nat
    BY <1>3, <1>8
  <2> HIDE DEF starved
  <2> QED
    BY <1>2, <1>7, <2>1, <2>2, <2>3, <2>4 DEF Buffers
<1>10. r.fill <= b.fill
  <2>1. r.fill = s.fill - frames /\ b.fill \in Nat
    BY <1>0, <1>7 DEF Buffers
  <2> QED
    BY <1>2, <1>3, <1>5, <2>1
<1>11. Ahead(r) = Ahead(s) - Step
  <2>1. r.fill = s.fill - frames /\ r.phase = s.phase - frames * Unit + Step
    BY <1>7
  <2>2. Ahead(r) = (s.fill * Unit - frames * Unit) - (s.phase - frames * Unit + Step)
    BY <1>6, <2>1 DEF Ahead
  <2> QED
    BY <1>0, <1>3, <1>6, <2>2 DEF Ahead
<1>12. ASSUME Ahead(s) > 0
       PROVE  r.underruns = b.underruns /\ r.phase < Unit + Step
  <2>1. due * Unit < s.fill * Unit
    BY <1>0, <1>3, <1>4, <1>6, <1>12 DEF Ahead
  <2>2. due < s.fill
    <3>1. SUFFICES ASSUME due >= s.fill PROVE FALSE
      BY <1>3, <1>4
    <3>2. due - s.fill \in Nat /\ due = s.fill + (due - s.fill)
      BY <1>3, <1>4, <3>1
    <3>3. \A a, x \in Nat : a * x \in Nat
      OBVIOUS
    <3>4. (due - s.fill) * Unit \in Nat
      BY <1>0, <3>2, <3>3
    <3>5. due * Unit = s.fill * Unit + (due - s.fill) * Unit
      BY <1>0, <1>3, <3>2, Times
    <3> QED
      BY <1>6, <2>1, <3>4, <3>5
  <2>3. more = 0 /\ frames = due
    BY <1>5, <1>8, <2>2
  <2>4. r.underruns = s.underruns + 0 /\ r.phase = s.phase - due * Unit + Step
    BY <1>7, <2>3
  <2> QED
    BY <1>0, <1>2, <1>3, <1>4, <2>4
<1>13. r.primed /\ r.emitted = b.emitted + 1
  BY <1>2, <1>7
<1> QED
  BY <1>9, <1>10, <1>11, <1>12, <1>13 DEF s
-----------------------------------------------------------------------------
(* An output block                                                           *)

\* What pull does with a buffer for one output frame.
Played(b) == IF b.primed \/ ReadyToStart(b) THEN OutputFrame(b) ELSE b

\* g is how b goes from output frame to output frame.
Goes(g, b, k) == g = [i \in 0 .. k |-> IF i = 0 THEN b ELSE Played(g[i - 1])]

\* The recursion of OutputBlock defines a function, however long the block.
LEMMA GoesExists ==
    ASSUME NEW b, NEW k \in Nat
    PROVE  \E g : Goes(g, b, k)
<1> DEFINE S == {n \in Nat : \E g : Goes(g, b, n)}
<1>1. 0 \in S
  <2> DEFINE g == [i \in 0 .. 0 |-> b]
  <2>1. g = [i \in 0 .. 0 |-> IF i = 0 THEN b ELSE Played(g[i - 1])]
    OBVIOUS
  <2>2. Goes(g, b, 0)
    BY <2>1, Zenon DEF Goes
  <2> QED
    BY <2>2
<1>2. ASSUME NEW n \in Nat, n \in S
      PROVE  n + 1 \in S
  <2>1. PICK g : Goes(g, b, n)
    BY <1>2
  <2> DEFINE h == [i \in 0 .. n + 1 |-> IF i = n + 1 THEN Played(g[n]) ELSE g[i]]
  <2>2. g = [i \in 0 .. n |-> IF i = 0 THEN b ELSE Played(g[i - 1])]
    BY <2>1, Zenon DEF Goes
  <2>3. \A i \in 0 .. n + 1 : h[i] = IF i = 0 THEN b ELSE Played(h[i - 1])
    <3>1. ASSUME NEW i \in 0 .. n + 1
          PROVE  h[i] = IF i = 0 THEN b ELSE Played(h[i - 1])
      <4>1. CASE i = n + 1
        <5>1. h[i] = Played(g[n]) /\ h[i - 1] = g[n] /\ i # 0
          BY <4>1
        <5> QED
          BY <5>1
      <4>2. CASE i \in 1 .. n
        <5>1. h[i] = g[i] /\ h[i - 1] = g[i - 1] /\ i # 0 /\ i \in 0 .. n
          BY <4>2
        <5> HIDE DEF h
        <5>2. g[i] = Played(g[i - 1])
          BY <2>2, <5>1
        <5> QED
          BY <5>1, <5>2
      <4>3. CASE i = 0
        <5>1. h[0] = g[0] /\ 0 \in 0 .. n
          OBVIOUS
        <5> QED
          BY <2>2, <4>3, <5>1
      <4> QED
        BY <4>1, <4>2, <4>3
    <3> QED
      BY <3>1
  <2>4. h = [i \in 0 .. n + 1 |-> h[i]]
    OBVIOUS
  <2> HIDE DEF h
  <2>5. h = [i \in 0 .. n + 1 |-> IF i = 0 THEN b ELSE Played(h[i - 1])]
    BY <2>3, <2>4
  <2>6. Goes(h, b, n + 1)
    BY <2>5, Zenon DEF Goes
  <2> QED
    BY <2>6
<1> HIDE DEF S
<1>3. Nat \subseteq S
  BY <1>1, <1>2, FromZeroOn
<1> QED
  BY <1>3 DEF S

\* OutputBlock is the last value of such a function.
LEMMA OutputBlockGoes ==
    ASSUME NEW b
    PROVE  \E g : Goes(g, b, BlockFrames) /\ OutputBlock(b) = g[BlockFrames]
<1> DEFINE g == CHOOSE f : f = [i \in 0 .. BlockFrames |->
                                   IF i = 0 THEN b
                                   ELSE IF f[i - 1].primed \/ ReadyToStart(f[i - 1])
                                        THEN OutputFrame(f[i - 1])
                                        ELSE f[i - 1]]
<1>1. g = CHOOSE f : Goes(f, b, BlockFrames)
  BY Zenon DEF Goes, Played
<1>2. OutputBlock(b) = g[BlockFrames]
  BY Zenon DEF OutputBlock
<1> HIDE DEF g
<1>3. BlockFrames \in Nat
  BY Durations
<1>4. Goes(g, b, BlockFrames)
  BY <1>1, <1>3, GoesExists, Zenon
<1> QED
  BY <1>2, <1>4

\* c is what n output frames leave of the buffer b: the read position has moved
\* by n steps; and if that leaves a step's audio ahead, nothing was missing.
PlayedFrom(c, b, n) ==
    /\ c \in Buffers /\ Plays(c)
    /\ c.fill <= b.fill
    /\ c.emitted = b.emitted + n
    /\ Ahead(Seeded(c)) = Ahead(Seeded(b)) - n * Step
    /\ n > 0 => c.primed
    /\ Ahead(Seeded(b)) - n * Step + Step > 0 =>
          c.underruns = b.underruns /\ (n > 0 => c.phase < Unit + Step)

\* A whole block, one output frame after the other.
LEMMA BlockPlayed ==
    ASSUME NEW b \in Buffers, Plays(b)
    PROVE  PlayedFrom(OutputBlock(b), b, BlockFrames)
<1>1. PICK g : Goes(g, b, BlockFrames) /\ OutputBlock(b) = g[BlockFrames]
  BY OutputBlockGoes
<1>2. g = [i \in 0 .. BlockFrames |-> IF i = 0 THEN b ELSE Played(g[i - 1])]
  BY <1>1, Zenon DEF Goes
<1>3. BlockFrames \in Nat /\ Step \in Nat /\ Step >= 1 /\ Unit \in Nat
  BY Durations
<1>m. ASSUME NEW c \in Buffers
      PROVE  Ahead(c) \in Int /\ c.fill \in Nat /\ c.emitted \in Nat
  <2>1. Target \in Nat
    BY Durations
  <2>2. c.fill \in Nat /\ c.phase \in Int /\ c.emitted \in Nat
    BY <2>1 DEF Buffers
  <2>3. c.fill * Unit \in Int
    BY <1>3, <2>2
  <2> QED
    BY <2>2, <2>3 DEF Ahead
<1>s. Seeded(b) \in Buffers
  BY SeededIs
<1> DEFINE S == {n \in Nat : n <= BlockFrames => PlayedFrom(g[n], b, n)}
<1>4. 0 \in S
  <2>1. g[0] = b
    BY <1>2, <1>3
  <2>2. Ahead(Seeded(b)) \in Int /\ b.emitted \in Nat /\ b.fill \in Nat /\ 0 * Step = 0
    BY <1>3, <1>m, <1>s
  <2>3. b.fill <= b.fill /\ b.emitted = b.emitted + 0 /\ Ahead(Seeded(b)) = Ahead(Seeded(b)) - 0 * Step
    BY <2>2
  <2>4. ~(0 > 0)
    OBVIOUS
  <2>5. PlayedFrom(b, b, 0)
    BY <2>3, <2>4, Zenon DEF PlayedFrom
  <2> QED
    BY <2>1, <2>5
<1>5. ASSUME NEW n \in Nat, n \in S
      PROVE  n + 1 \in S
  <2>1. SUFFICES ASSUME n + 1 <= BlockFrames
                 PROVE  PlayedFrom(g[n + 1], b, n + 1)
    OBVIOUS
  <2> DEFINE c == g[n]
             r == g[n + 1]
  <2>2. n <= BlockFrames /\ n + 1 \in 0 .. BlockFrames /\ n + 1 # 0 /\ n + 1 - 1 = n
    BY <1>3, <2>1
  <2>3. PlayedFrom(c, b, n)
    BY <1>5, <2>2
  <2>4. r = Played(c)
    BY <1>2, <2>2
  <2> HIDE DEF c, r
  <2>5. /\ c \in Buffers /\ Plays(c) /\ c.fill <= b.fill /\ c.emitted = b.emitted + n
        /\ Ahead(Seeded(c)) = Ahead(Seeded(b)) - n * Step
        /\ Ahead(Seeded(b)) - n * Step + Step > 0 => c.underruns = b.underruns
    BY <2>3, Zenon DEF PlayedFrom
  <2>6. r = OutputFrame(c)
    BY <2>4, <2>5 DEF Played, Plays
  <2>7. /\ r \in Buffers /\ r.primed /\ r.fill <= c.fill /\ r.emitted = c.emitted + 1
        /\ Ahead(r) = Ahead(Seeded(c)) - Step
        /\ Ahead(Seeded(c)) > 0 => r.underruns = c.underruns /\ r.phase < Unit + Step
    BY <2>5, <2>6, FramePlayed
  <2>8. Plays(r) /\ Seeded(r) = r
    BY <2>7 DEF Plays, Seeded
  <2>9. (n + 1) * Step = n * Step + Step /\ n * Step \in Int
    BY <1>3, Times
  <2>10. Ahead(Seeded(b)) \in Int /\ b.emitted \in Nat
    BY <1>m, <1>s
  <2>11. r.emitted = b.emitted + (n + 1)
    BY <2>5, <2>7, <2>10
  <2>12. Ahead(Seeded(r)) = Ahead(Seeded(b)) - (n + 1) * Step
    BY <1>3, <2>5, <2>7, <2>8, <2>9, <2>10
  <2>13. ASSUME Ahead(Seeded(b)) - (n + 1) * Step + Step > 0
         PROVE  r.underruns = b.underruns /\ r.phase < Unit + Step
    <3>1. Ahead(Seeded(c)) > 0 /\ Ahead(Seeded(b)) - n * Step + Step > 0
      BY <1>3, <2>5, <2>9, <2>10, <2>13
    <3> QED
      BY <2>5, <2>7, <3>1
  <2>f. r.fill <= b.fill
    BY <1>m, <2>5, <2>7
  <2>14. PlayedFrom(r, b, n + 1)
    BY <2>f, <2>7, <2>8, <2>11, <2>12, <2>13, Zenon DEF PlayedFrom
  <2> QED
    BY <2>14 DEF r
<1> HIDE DEF S
<1>6. Nat \subseteq S
  BY <1>4, <1>5, FromZeroOn
<1>7. BlockFrames \in S
  BY <1>3, <1>6
<1>8. PlayedFrom(g[BlockFrames], b, BlockFrames)
  BY <1>3, <1>7 DEF S
<1> QED
  BY <1>1, <1>8

\* A buffer that is not ready stays as it is.
LEMMA BlockWaits ==
    ASSUME NEW b, ~Plays(b)
    PROVE  OutputBlock(b) = b
<1>1. PICK g : Goes(g, b, BlockFrames) /\ OutputBlock(b) = g[BlockFrames]
  BY OutputBlockGoes
<1>2. g = [i \in 0 .. BlockFrames |-> IF i = 0 THEN b ELSE Played(g[i - 1])]
  BY <1>1, Zenon DEF Goes
<1>3. BlockFrames \in Nat
  BY Durations
<1> DEFINE S == {n \in Nat : n <= BlockFrames => g[n] = b}
<1>4. 0 \in S
  BY <1>2, <1>3
<1>5. ASSUME NEW n \in Nat, n \in S
      PROVE  n + 1 \in S
  <2>1. SUFFICES ASSUME n + 1 <= BlockFrames
                 PROVE  g[n + 1] = b
    OBVIOUS
  <2>2. n <= BlockFrames /\ n + 1 \in 0 .. BlockFrames /\ n + 1 # 0 /\ n + 1 - 1 = n
    BY <1>3, <2>1
  <2>3. g[n] = b
    BY <1>5, <2>2
  <2>4. g[n + 1] = Played(g[n])
    BY <1>2, <2>2
  <2> QED
    BY <2>3, <2>4 DEF Played, Plays
<1> HIDE DEF S
<1>6. Nat \subseteq S
  BY <1>4, <1>5, FromZeroOn
<1>7. BlockFrames \in S
  BY <1>3, <1>6
<1> QED
  BY <1>1, <1>3, <1>7 DEF S
-----------------------------------------------------------------------------
(* The invariant                                                             *)

\* The types, one variable at a time.
PlaybackTypes ==
    /\ isPlaying \in BOOLEAN /\ late \in BOOLEAN /\ lead \in -Packet .. Block
    /\ buf \in Buffers
    /\ flight \in Seq(BOOLEAN) /\ accepted \in Nat
    /\ packets \in 0 .. MaxPackets /\ losses \in 0 .. MaxLosses
    /\ stalls \in 0 .. MaxStalls /\ resets \in 0 .. MaxResets
    /\ steady \in 0 .. Patience

\* They are PlaybackTypeOK.
LEMMA TypesAre == PlaybackTypes <=> PlaybackTypeOK
<1>1. {isPlaying, late} \subseteq BOOLEAN <=> isPlaying \in BOOLEAN /\ late \in BOOLEAN
  BY Zenon
<1> QED
  BY <1>1, Zenon DEF PlaybackTypes, PlaybackTypeOK, Buffers

\* Frames pushed are buffered or played, and before playback starts all of them
\* are buffered; from then on the read position is where the clock says.
ClockInv ==
    /\ accepted >= buf.fill
    /\ IF buf.primed
       THEN Ahead(buf) = (accepted - 1) * Unit - buf.emitted * Step
       ELSE buf.emitted = 0 /\ accepted = buf.fill

\* As long as nothing was late, what is ahead of the read position, what is on its way
\* and the lead make up the reserve.
AheadInv ==
    ~late =>
        /\ buf.underruns = 0
        /\ buf.primed =>
              /\ buf.phase < Unit + Step
              /\ Ahead(buf) + (Len(flight) * Packet + lead) >= Reserve

\* All of it: inductive.
PlaybackInv == PlaybackTypes /\ ClockInv /\ AheadInv

\* The fields of a buffer are numbers, and so is what is ahead.
LEMMA BufferFields ==
    ASSUME NEW b \in Buffers
    PROVE  /\ b.fill \in Nat /\ b.fill <= 3 * Target
           /\ b.phase \in Nat /\ b.emitted \in Nat /\ b.underruns \in Nat
           /\ b.fill * Unit \in Int /\ b.emitted * Step \in Int
           /\ Ahead(b) \in Int
<1>1. Target \in Nat /\ Unit \in Nat /\ Step \in Nat
  BY Durations
<1>2. b.fill \in Nat /\ b.fill <= 3 * Target /\ b.phase \in Nat /\ b.emitted \in Nat
      /\ b.underruns \in Nat
  BY <1>1 DEF Buffers
<1>3. b.fill * Unit \in Int /\ b.emitted * Step \in Int
  BY <1>1, <1>2
<1> QED
  BY <1>2, <1>3 DEF Ahead

\* ringReset leaves a buffer that has nothing and has not started.
LEMMA EmptiedIs ==
    ASSUME NEW b \in Buffers
    PROVE  /\ Emptied(b) \in Buffers /\ ~Emptied(b).primed
           /\ Emptied(b).fill = 0 /\ Emptied(b).emitted = 0
           /\ Emptied(b).underruns = b.underruns
<1> DEFINE off == FALSE
           c == [b EXCEPT !.fill = 0]
           d == [c EXCEPT !.primed = off]
           e == [d EXCEPT !.phase = 0]
<1>1. Emptied(b) = [e EXCEPT !.emitted = 0]
  BY Zenon DEF Emptied
<1>2. off \in BOOLEAN /\ ~off
  OBVIOUS
<1>3. c = [fill |-> 0, primed |-> b.primed, phase |-> b.phase, conceal |-> b.conceal,
           underruns |-> b.underruns, emitted |-> b.emitted]
  BY DEF Buffers
<1> HIDE DEF off, c
<1>4. d = [fill |-> 0, primed |-> off, phase |-> b.phase, conceal |-> b.conceal,
           underruns |-> b.underruns, emitted |-> b.emitted]
  BY <1>3
<1> HIDE DEF d
<1>5. e = [fill |-> 0, primed |-> off, phase |-> 0, conceal |-> b.conceal,
           underruns |-> b.underruns, emitted |-> b.emitted]
  BY <1>4
<1> HIDE DEF e
<1>6. Emptied(b) = [fill |-> 0, primed |-> off, phase |-> 0, conceal |-> b.conceal,
                    underruns |-> b.underruns, emitted |-> 0]
  BY <1>1, <1>5
<1>7. 0 \in 0 .. 3 * Target
  BY PlaybackAssumption
<1> QED
  BY <1>2, <1>6, <1>7 DEF Buffers

\* ringPush adds the packet, to all that there is or to what the cut leaves.
LEMMA PushedIs ==
    ASSUME NEW fill \in 0 .. 3 * Target
    PROVE  /\ Pushed(fill) \in 0 .. 3 * Target /\ Pushed(fill) \in Nat
           /\ Pushed(fill) = fill + PacketFrames \/ Pushed(fill) = Target + PacketFrames
<1>1. /\ Target \in Nat /\ PacketFrames \in Nat /\ Target >= PacketFrames
      /\ RingFrames \in Nat
  BY Durations, PlaybackAssumption
<1>2. Lesser(RingFrames - 2, 3 * Target) <= 3 * Target
      /\ Lesser(RingFrames - 2, 3 * Target) \in Int
  BY <1>1 DEF Lesser
<1>3. CASE Overflows(fill)
  <2>1. Pushed(fill) = Target + PacketFrames
    BY <1>3 DEF Pushed
  <2> QED
    BY <1>1, <2>1
<1>4. CASE ~Overflows(fill)
  <2>1. Pushed(fill) = fill + PacketFrames
    BY <1>4 DEF Pushed
  <2>2. fill + PacketFrames <= 3 * Target
    BY <1>1, <1>2, <1>4 DEF Overflows
  <2> QED
    BY <1>1, <2>1, <2>2
<1> QED
  BY <1>3, <1>4

\* With a different fill, the same place is played from.
LEMMA FillChanged ==
    ASSUME NEW b \in Buffers, NEW n \in 0 .. 3 * Target, NEW c, c = [b EXCEPT !.fill = n]
    PROVE  /\ c \in Buffers /\ c.fill = n
           /\ c.primed = b.primed /\ c.phase = b.phase
           /\ c.emitted = b.emitted /\ c.underruns = b.underruns
<1>1. c = [fill |-> n, primed |-> b.primed, phase |-> b.phase, conceal |-> b.conceal,
           underruns |-> b.underruns, emitted |-> b.emitted]
  BY DEF Buffers
<1> QED
  BY <1>1 DEF Buffers

\* The invariant holds of a page that has just begun to listen.
LEMMA InitInv == PlaybackInit => PlaybackInv
<1> SUFFICES ASSUME PlaybackInit PROVE PlaybackInv
  OBVIOUS
<1>1. /\ isPlaying = TRUE /\ late = FALSE /\ flight = <<>> /\ lead \in -Packet .. Block
      /\ buf = [fill |-> 0, primed |-> FALSE, phase |-> 0, conceal |-> FALSE,
                underruns |-> 0, emitted |-> 0]
      /\ packets = 0 /\ losses = 0 /\ stalls = 0 /\ resets = 0 /\ accepted = 0 /\ steady = 0
  BY DEF PlaybackInit
<1>2. PlaybackTypes
  <2>1. buf \in Buffers
    BY <1>1, Durations DEF Buffers
  <2>2. Patience \in Nat /\ MaxPackets \in Nat /\ MaxLosses \in Nat /\ MaxStalls \in Nat
        /\ MaxResets \in Nat
    BY PlaybackAssumption
  <2>3. isPlaying \in BOOLEAN /\ late \in BOOLEAN
    BY <1>1, Zenon
  <2>4. flight \in Seq(BOOLEAN) /\ accepted \in Nat
    BY <1>1
  <2>5. /\ packets \in 0 .. MaxPackets /\ losses \in 0 .. MaxLosses
        /\ stalls \in 0 .. MaxStalls /\ resets \in 0 .. MaxResets
        /\ steady \in 0 .. Patience
    BY <1>1, <2>2
  <2> QED
    BY <1>1, <2>1, <2>3, <2>4, <2>5, Zenon DEF PlaybackTypes
<1>3. ClockInv /\ AheadInv
  BY <1>1 DEF ClockInv, AheadInv
<1> QED
  BY <1>2, <1>3 DEF PlaybackInv

-----------------------------------------------------------------------------
(* The steps                                                                 *)

\* One more packet on its way, and the next one is as much later.
LEMMA SendStep ==
    ASSUME PlaybackInv, NEW restart \in BOOLEAN, Send(restart)
    PROVE  PlaybackInv'
<1>1. PlaybackTypes /\ ClockInv /\ AheadInv
  BY DEF PlaybackInv
<1>2. /\ lead >= 0 /\ packets < MaxPackets /\ packets' = packets + 1 /\ lead' = lead - Packet
      /\ restart => resets < MaxResets
      /\ resets' = resets + (IF restart THEN 1 ELSE 0)
      /\ flight' = Append(flight, restart)
      /\ UNCHANGED <<isPlaying, buf, losses, stalls, accepted, late, steady>>
  BY DEF Send, SenderTurn
<1>3. MaxPackets \in Nat /\ MaxResets \in Nat /\ Packet \in Nat /\ Block \in Nat
      /\ lead \in -Packet .. Block
  BY <1>1, PlaybackAssumption, Durations DEF PlaybackTypes
<1>4. flight' \in Seq(BOOLEAN) /\ Len(flight') = Len(flight) + 1 /\ Len(flight) \in Nat
  BY <1>1, <1>2, AppendProperties, LenProperties DEF PlaybackTypes
<1>l. lead' \in -Packet .. Block
  BY <1>2, <1>3
<1>5. PlaybackTypes'
  BY <1>1, <1>2, <1>3, <1>4, <1>l DEF PlaybackTypes
<1>6. ClockInv'
  BY <1>1, <1>2 DEF ClockInv
<1>7. AheadInv'
  <2>1. Len(flight') * Packet = Len(flight) * Packet + Packet
        /\ Len(flight) * Packet \in Int
    BY <1>3, <1>4, Times
  <2>2. Ahead(buf') = Ahead(buf)
    BY <1>2
  <2>4. Len(flight') * Packet + lead' = Len(flight) * Packet + lead
    BY <1>2, <1>3, <2>1
  <2> QED
    BY <1>1, <1>2, <2>2, <2>4 DEF AheadInv
<1> QED
  BY <1>5, <1>6, <1>7 DEF PlaybackInv

\* A packet arrives: the ring grows by it, is cut first, or starts again.
LEMMA HandleStep ==
    ASSUME PlaybackInv, HandlePacket
    PROVE  PlaybackInv'
<1>1. PlaybackTypes /\ ClockInv /\ AheadInv
  BY DEF PlaybackInv
<1> DEFINE b == IF Head(flight) THEN Emptied(buf) ELSE buf
           n == Pushed(b.fill)
           a == IF Head(flight) THEN 0 ELSE accepted
<1>2. /\ flight # <<>> /\ buf' = [b EXCEPT !.fill = n]
      /\ accepted' = a + n - b.fill /\ flight' = Tail(flight)
      /\ UNCHANGED <<isPlaying, lead, packets, losses, stalls, resets, late, steady>>
  BY Zenon DEF HandlePacket, bounds
<1>b. /\ Head(flight) => b = Emptied(buf) /\ a = 0
      /\ ~Head(flight) => b = buf /\ a = accepted
      /\ n = Pushed(b.fill)
  OBVIOUS
<1> HIDE DEF a, b, n
<1>3. buf \in Buffers /\ flight \in Seq(BOOLEAN) /\ accepted \in Nat
  BY <1>1 DEF PlaybackTypes
<1>4. Head(flight) \in BOOLEAN /\ flight' \in Seq(BOOLEAN)
      /\ Len(flight') = Len(flight) - 1 /\ Len(flight) \in Nat
  BY <1>2, <1>3, HeadTailProperties, LenProperties
<1>5. b \in Buffers /\ b.underruns = buf.underruns
  BY <1>3, <1>b, EmptiedIs
<1>6. b.fill \in Nat /\ b.fill \in 0 .. 3 * Target
  BY <1>5, Durations DEF Buffers
<1>7. n \in 0 .. 3 * Target /\ n \in Nat
      /\ (n = b.fill + PacketFrames \/ n = Target + PacketFrames)
  BY <1>6, <1>b, PushedIs
<1>8. /\ buf' \in Buffers /\ buf'.fill = n
      /\ buf'.primed = b.primed /\ buf'.phase = b.phase
      /\ buf'.emitted = b.emitted /\ buf'.underruns = b.underruns
  BY <1>2, <1>5, <1>7, FillChanged
<1>9. /\ a \in Nat /\ a >= b.fill
      /\ b.primed => ~Head(flight) /\ b = buf /\ a = accepted
      /\ ~b.primed => b.emitted = 0 /\ a = b.fill
  <2>1. CASE Head(flight)
    <3>1. /\ b = Emptied(buf) /\ a = 0
          /\ ~b.primed /\ b.fill = 0 /\ b.emitted = 0
      BY <1>3, <1>b, <2>1, EmptiedIs, Zenon
    <3>2. a \in Nat /\ a >= b.fill /\ a = b.fill
      BY <3>1
    <3> QED
      BY <3>1, <3>2, Zenon
  <2>2. CASE ~Head(flight)
    BY <1>1, <1>3, <1>b, <2>2 DEF ClockInv
  <2> QED
    BY <2>1, <2>2
<1>10. accepted' \in Nat /\ accepted' >= n /\ accepted' = a + n - b.fill
  <2>1. a \in Nat /\ a >= b.fill
    BY <1>9, Zenon
  <2>2. accepted' = a + n - b.fill
    BY <1>2
  <2> QED
    BY <1>6, <1>7, <2>1, <2>2
<1>11. PlaybackTypes'
  BY <1>1, <1>2, <1>4, <1>8, <1>10 DEF PlaybackTypes
<1>u. Unit \in Nat /\ Unit >= 1 /\ Step \in Nat /\ Step <= Packet /\ Packet \in Nat /\ Target \in Nat
      /\ PacketFrames \in Nat /\ Target * Unit \in Nat
      /\ Reserve = (Target * Unit - Unit) - Packet
      /\ lead \in Int /\ lead >= -Packet
  BY <1>1, Durations DEF PlaybackTypes
<1>12. ClockInv'
  <2>1. CASE b.primed
    <3>1. Ahead(buf) = (accepted - 1) * Unit - buf.emitted * Step
          /\ b = buf /\ a = accepted /\ buf'.primed
      BY <1>1, <1>8, <1>9, <2>1 DEF ClockInv
    <3>2. /\ n * Unit \in Int /\ buf.fill * Unit \in Int /\ buf.emitted * Step \in Int
          /\ (accepted - 1) * Unit \in Int
      BY <1>3, <1>7, <1>u, BufferFields
    <3>3. ((accepted - 1) + (n - buf.fill)) * Unit
             = (accepted - 1) * Unit + (n * Unit - buf.fill * Unit)
      <4>0. accepted - 1 \in Int /\ n \in Int /\ buf.fill \in Int /\ n - buf.fill \in Int
            /\ Unit \in Int
        BY <1>3, <1>6, <1>7, <1>u, <3>1
      <4>1. ((accepted - 1) + (n - buf.fill)) * Unit
               = (accepted - 1) * Unit + (n - buf.fill) * Unit
        BY <4>0, Times
      <4>2. (n - buf.fill) * Unit = n * Unit - buf.fill * Unit
        BY <4>0, Times
      <4> QED
        BY <4>1, <4>2
    <3>4. accepted' - 1 = (accepted - 1) + (n - buf.fill)
      BY <1>3, <1>6, <1>7, <1>10, <3>1
    <3>5. Ahead(buf') = n * Unit - buf.phase /\ buf'.emitted = buf.emitted
          /\ Ahead(buf) = buf.fill * Unit - buf.phase /\ buf.phase \in Int
      BY <1>3, <1>8, <3>1, BufferFields DEF Ahead
    <3>6. Ahead(buf') = (accepted' - 1) * Unit - buf'.emitted * Step
      <4>1. (accepted' - 1) * Unit = (accepted - 1) * Unit + (n * Unit - buf.fill * Unit)
        BY <3>3, <3>4
      <4>2. buf'.emitted * Step = buf.emitted * Step
        BY <3>5
      <4> QED
        BY <3>1, <3>2, <3>5, <4>1, <4>2
    <3> QED
      BY <1>8, <1>10, <3>1, <3>6 DEF ClockInv
  <2>2. CASE ~b.primed
    <3>1. accepted' = n /\ buf'.emitted = 0 /\ ~buf'.primed
      <4>1. b.emitted = 0 /\ a = b.fill /\ a \in Nat
        BY <1>9, <2>2, Zenon
      <4>2. accepted' = n
        BY <1>6, <1>7, <1>10, <4>1
      <4> QED
        BY <1>8, <2>2, <4>1, <4>2, Zenon
    <3> QED
      BY <1>8, <1>10, <3>1 DEF ClockInv
  <2> QED
    BY <2>1, <2>2
<1>13. AheadInv'
  <2>1. SUFFICES ASSUME ~late
                 PROVE  /\ buf'.underruns = 0
                        /\ buf'.primed =>
                              /\ buf'.phase < Unit + Step
                              /\ Ahead(buf') + (Len(flight') * Packet + lead) >= Reserve
    BY <1>2 DEF AheadInv
  <2>2. buf'.underruns = 0
    BY <1>1, <1>5, <1>8, <2>1 DEF AheadInv
  <2>3. ASSUME buf'.primed
        PROVE  /\ buf'.phase < Unit + Step
               /\ Ahead(buf') + (Len(flight') * Packet + lead) >= Reserve
    <3>1. b = buf /\ buf.primed /\ buf'.phase = buf.phase
      BY <1>8, <1>9, <2>3
    <3>2. /\ buf.phase < Unit + Step
          /\ Ahead(buf) + (Len(flight) * Packet + lead) >= Reserve
      BY <1>1, <2>1, <3>1 DEF AheadInv
    <3>3. /\ Len(flight') * Packet = Len(flight) * Packet - Packet
          /\ Len(flight) * Packet \in Int
      BY <1>4, <1>u, Times
    <3>4. Len(flight') * Packet >= 0
      <4>1. Len(flight') \in Nat
        BY <1>4, LenProperties
      <4>2. \A x, y \in Nat : x * y >= 0
        OBVIOUS
      <4> QED
        BY <1>u, <4>1, <4>2
    <3>5. Ahead(buf') = n * Unit - buf.phase /\ Ahead(buf) = buf.fill * Unit - buf.phase
          /\ buf.phase \in Int /\ buf.fill * Unit \in Int /\ Ahead(buf) \in Int
      BY <1>3, <1>8, <3>1, BufferFields DEF Ahead
    <3>6. CASE n = b.fill + PacketFrames
      <4>1. n * Unit = buf.fill * Unit + Packet
        BY <1>6, <1>u, <3>1, <3>6, Times DEF Packet
      <4>2. Ahead(buf') + (Len(flight') * Packet + lead)
               = Ahead(buf) + (Len(flight) * Packet + lead)
        BY <1>u, <3>3, <3>5, <4>1
      <4> QED
        BY <3>1, <3>2, <4>2
    <3>7. CASE n = Target + PacketFrames
      <4>1. n * Unit = Target * Unit + Packet
        BY <1>u, <3>7, Times DEF Packet
      <4>2. Ahead(buf') = (Target * Unit + Packet) - buf.phase
        BY <3>5, <4>1
      <4>3. Len(flight') * Packet \in Int
        BY <1>u, <3>3
      <4>4. Ahead(buf') + (Len(flight') * Packet + lead) >= Reserve
        BY <1>u, <3>2, <3>4, <3>5, <4>2, <4>3
      <4> QED
        BY <3>1, <3>2, <4>4
    <3> QED
      BY <1>7, <3>6, <3>7
  <2> QED
    BY <2>2, <2>3
<1> QED
  BY <1>11, <1>12, <1>13 DEF PlaybackInv

\* No packet in its turn, or one that is dropped: from then on packets are late.
LEMMA LossStep ==
    ASSUME PlaybackInv, HostPauses \/ SenderDrops
    PROVE  PlaybackInv'
<1>1. PlaybackTypes /\ ClockInv /\ AheadInv
  BY DEF PlaybackInv
<1>2. /\ late' = TRUE /\ losses < MaxLosses /\ losses' = losses + 1 /\ steady' = 0
      /\ UNCHANGED <<isPlaying, buf, stalls, resets, accepted>>
  BY Zenon DEF HostPauses, SenderDrops
<1>3. MaxPackets \in Nat /\ MaxLosses \in Nat /\ Patience \in Nat
  BY PlaybackAssumption
<1>4. lead' \in -Packet .. Block /\ packets' \in 0 .. MaxPackets /\ flight' \in Seq(BOOLEAN)
  <2>1. CASE HostPauses
    <3>1. /\ lead >= 0 /\ lead' = lead - Packet
          /\ packets < MaxPackets /\ packets' = packets + 1 /\ flight' = flight
      BY <2>1 DEF HostPauses, SenderTurn
    <3>2. lead' \in -Packet .. Block
      <4>1. lead \in -Packet .. Block /\ Packet \in Nat /\ Block \in Nat
        BY <1>1, Durations DEF PlaybackTypes
      <4> QED
        BY <3>1, <4>1
    <3> QED
      BY <1>1, <1>3, <3>1, <3>2 DEF PlaybackTypes
  <2>2. CASE SenderDrops
    <3>1. flight # <<>> /\ flight' = Tail(flight) /\ lead' = lead /\ packets' = packets
      BY <2>2 DEF SenderDrops
    <3>2. flight' \in Seq(BOOLEAN)
      BY <1>1, <3>1, HeadTailProperties DEF PlaybackTypes
    <3> QED
      BY <1>1, <3>1, <3>2 DEF PlaybackTypes
  <2> QED
    BY <2>1, <2>2
<1>5. late' \in BOOLEAN
  BY <1>2, Zenon
<1>6. /\ losses' \in 0 .. MaxLosses /\ steady' \in 0 .. Patience
      /\ isPlaying' \in BOOLEAN /\ buf' \in Buffers /\ accepted' \in Nat
      /\ stalls' \in 0 .. MaxStalls /\ resets' \in 0 .. MaxResets
  BY <1>1, <1>2, <1>3 DEF PlaybackTypes
<1>7. PlaybackTypes'
  BY <1>4, <1>5, <1>6, Zenon DEF PlaybackTypes
<1>8. ClockInv'
  BY <1>1, <1>2 DEF ClockInv
<1>9. AheadInv'
  BY <1>2 DEF AheadInv
<1> QED
  BY <1>7, <1>8, <1>9 DEF PlaybackInv

\* A block that is not asked for leaves more ahead than there was.
LEMMA MissStep ==
    ASSUME PlaybackInv, PullMissed
    PROVE  PlaybackInv'
<1>1. PlaybackTypes /\ ClockInv /\ AheadInv
  BY DEF PlaybackInv
<1>2. /\ lead <= 0 /\ lead' = lead + Block /\ stalls < MaxStalls /\ stalls' = stalls + 1
      /\ steady' = 0
      /\ UNCHANGED <<isPlaying, buf, flight, packets, losses, resets, accepted, late>>
  BY DEF PullMissed, BlockDue
<1>3. MaxStalls \in Nat /\ Patience \in Nat
  BY PlaybackAssumption
<1>l. lead \in -Packet .. Block /\ Packet \in Nat /\ Block \in Nat
  BY <1>1, Durations DEF PlaybackTypes
<1>4. lead' \in -Packet .. Block /\ lead' >= lead
  BY <1>2, <1>l
<1>5. stalls' \in 0 .. MaxStalls /\ steady' \in 0 .. Patience
  BY <1>1, <1>2, <1>3 DEF PlaybackTypes
<1>6. PlaybackTypes'
  BY <1>1, <1>2, <1>4, <1>5 DEF PlaybackTypes
<1>7. ClockInv'
  BY <1>1, <1>2 DEF ClockInv
<1>8. AheadInv'
  <2>1. Ahead(buf) \in Int /\ Len(flight) * Packet \in Int
    <3>1. Len(flight) \in Nat
      BY <1>1, LenProperties DEF PlaybackTypes
    <3> QED
      BY <1>1, <1>l, <3>1, BufferFields, Times DEF PlaybackTypes
  <2>2. Ahead(buf') = Ahead(buf) /\ Len(flight') * Packet = Len(flight) * Packet
    BY <1>2
  <2>3. Reserve \in Nat
    BY Durations
  <2>4. Ahead(buf) + (Len(flight) * Packet + lead) >= Reserve
           => Ahead(buf') + (Len(flight') * Packet + lead') >= Reserve
    BY <1>2, <1>l, <2>1, <2>2, <2>3
  <2> QED
    BY <1>1, <1>2, <2>4 DEF AheadInv
<1> QED
  BY <1>6, <1>7, <1>8 DEF PlaybackInv

\* A ring that is emptied has nothing to keep up with.
LEMMA ResetStep ==
    ASSUME PlaybackInv, Reset, flight' = <<>> \/ flight' = flight,
           isPlaying' \in BOOLEAN,
           UNCHANGED <<lead, packets, losses, stalls, late>>
    PROVE  PlaybackInv'
<1>1. PlaybackTypes /\ ClockInv /\ AheadInv
  BY DEF PlaybackInv
<1>2. /\ resets < MaxResets /\ resets' = resets + 1
      /\ buf' = Emptied(buf) /\ accepted' = 0 /\ steady' = 0
  BY DEF Reset
<1>3. MaxResets \in Nat /\ Patience \in Nat
  BY PlaybackAssumption
<1>4. /\ buf' \in Buffers /\ ~buf'.primed /\ buf'.fill = 0 /\ buf'.emitted = 0
      /\ buf'.underruns = buf.underruns
  BY <1>1, <1>2, EmptiedIs DEF PlaybackTypes
<1>5. flight' \in Seq(BOOLEAN)
  <2>1. flight \in Seq(BOOLEAN)
    BY <1>1 DEF PlaybackTypes
  <2>2. <<>> \in Seq(BOOLEAN)
    OBVIOUS
  <2> QED
    BY <2>1, <2>2, Zenon
<1>6. /\ resets' \in 0 .. MaxResets /\ steady' \in 0 .. Patience /\ accepted' \in Nat
  BY <1>1, <1>2, <1>3 DEF PlaybackTypes
<1>7. /\ lead' \in -Packet .. Block /\ late' \in BOOLEAN
      /\ packets' \in 0 .. MaxPackets /\ losses' \in 0 .. MaxLosses /\ stalls' \in 0 .. MaxStalls
  BY <1>1 DEF PlaybackTypes
<1>8. PlaybackTypes'
  BY <1>4, <1>5, <1>6, <1>7, Zenon DEF PlaybackTypes
<1>9. ClockInv'
  <2>1. accepted' >= buf'.fill /\ accepted' = buf'.fill
    BY <1>2, <1>4
  <2> QED
    BY <1>4, <2>1, Zenon DEF ClockInv
<1>10. AheadInv'
  BY <1>1, <1>4, Zenon DEF AheadInv
<1> QED
  BY <1>8, <1>9, <1>10 DEF PlaybackInv

\* The sound card takes a block: what is ahead lasts, and the clock moves on.
LEMMA PullStep ==
    ASSUME PlaybackInv, Pull
    PROVE  PlaybackInv'
<1>1. PlaybackTypes /\ ClockInv /\ AheadInv
  BY DEF PlaybackInv
<1>2. /\ lead <= 0 /\ lead' = lead + Block
      /\ buf' = IF isPlaying THEN OutputBlock(buf) ELSE buf
      /\ late' = (late \/ Overdue)
      /\ steady' = IF isPlaying /\ flight = <<>> THEN Lesser(steady + 1, Patience) ELSE 0
      /\ UNCHANGED <<isPlaying, flight, packets, losses, stalls, resets, accepted>>
  BY Zenon DEF Pull, BlockDue, bounds
<1>3. /\ buf \in Buffers /\ flight \in Seq(BOOLEAN) /\ accepted \in Nat
      /\ Len(flight) \in Nat
  BY <1>1, LenProperties DEF PlaybackTypes
<1>u. /\ BlockFrames \in Nat /\ BlockFrames > 0 /\ Unit \in Nat /\ Unit >= 1
      /\ Step \in Nat /\ Step >= 1 /\ Packet \in Nat /\ Block \in Nat
      /\ Target \in Nat /\ Target * Unit \in Nat
      /\ Reserve \in Nat /\ Reserve = (Target * Unit - Unit) - Packet
      /\ Allowance \in Nat /\ Allowance = Reserve - Block
  BY Durations
<1>b. Block = BlockFrames * Step
  BY DEF Block
<1>l. lead \in -Packet .. Block
  BY <1>1 DEF PlaybackTypes
<1>4. steady' \in 0 .. Patience
  <2>1. Patience \in Nat /\ steady \in 0 .. Patience
    BY <1>1, PlaybackAssumption DEF PlaybackTypes
  <2>2. Lesser(steady + 1, Patience) \in 0 .. Patience /\ 0 \in 0 .. Patience
    BY <2>1 DEF Lesser
  <2> QED
    BY <1>2, <2>2, Zenon
<1>5. lead' \in -Packet .. Block /\ late' \in BOOLEAN
  <2>1. lead' \in -Packet .. Block
    BY <1>2, <1>l, <1>u
  <2>2. Overdue \in BOOLEAN
    BY DEF Overdue
  <2> QED
    BY <1>1, <1>2, <2>1, <2>2, Zenon DEF PlaybackTypes
<1> DEFINE onTheWay == Len(flight) * Packet
<1>w. onTheWay \in Nat
  <2>1. \A a, x \in Nat : a * x \in Nat
    OBVIOUS
  <2> QED
    BY <1>3, <1>u, <2>1
<1>6. ASSUME ~late'
      PROVE  ~late /\ onTheWay + lead <= Allowance
  <2>1. ~late /\ ~Overdue
    BY <1>2, <1>6, Zenon
  <2>2. CASE flight = <<>>
    <3>1. Len(flight) = 0
      BY <2>2
    <3>2. onTheWay = 0
      BY <1>u, <3>1
    <3> HIDE DEF onTheWay
    <3> QED
      BY <1>2, <1>l, <1>u, <2>1, <3>2
  <2>3. CASE flight # <<>>
    <3>1. ~(lead + onTheWay > Allowance)
      BY <2>1, <2>3 DEF Overdue
    <3> HIDE DEF onTheWay
    <3> QED
      BY <1>l, <1>u, <1>w, <2>1, <3>1
  <2> QED
    BY <2>2, <2>3
<1>7. ASSUME buf' \in Buffers, ClockInv', AheadInv'
      PROVE  PlaybackInv'
  <2>1. PlaybackTypes'
    BY <1>1, <1>2, <1>4, <1>5, <1>7 DEF PlaybackTypes
  <2> QED
    BY <1>7, <2>1 DEF PlaybackInv
<1>8. ASSUME buf' = buf, buf.primed => ~isPlaying
      PROVE  PlaybackInv'
  <2>1. ClockInv'
    BY <1>1, <1>2, <1>8 DEF ClockInv
  <2>2. AheadInv'
    <3>1. Ahead(buf) \in Int /\ Ahead(buf') = Ahead(buf)
          /\ Len(flight') * Packet = onTheWay
      BY <1>2, <1>3, <1>8, BufferFields
    <3> HIDE DEF onTheWay
    <3>2. Ahead(buf) + (onTheWay + lead) >= Reserve
            => Ahead(buf') + (Len(flight') * Packet + lead') >= Reserve
      BY <1>2, <1>l, <1>u, <1>w, <3>1
    <3>3. ~late' => ~late
      BY <1>6
    <3>4. ~late /\ buf.primed =>
             buf.phase < Unit + Step /\ Ahead(buf) + (onTheWay + lead) >= Reserve
      BY <1>1 DEF AheadInv, onTheWay
    <3>5. ~late => buf.underruns = 0
      BY <1>1 DEF AheadInv
    <3> QED
      BY <1>8, <3>2, <3>3, <3>4, <3>5 DEF AheadInv
  <2> QED
    BY <1>3, <1>7, <1>8, <2>1, <2>2
<1>9. CASE ~isPlaying
  BY <1>2, <1>8, <1>9
<1>10. CASE isPlaying /\ ~Plays(buf)
  <2>1. buf' = buf /\ ~buf.primed
    BY <1>2, <1>10, BlockWaits DEF Plays
  <2> QED
    BY <1>8, <2>1
<1>11. CASE isPlaying /\ Plays(buf)
  <2> DEFINE s == Seeded(buf)
  <2>1. PlayedFrom(buf', buf, BlockFrames)
    BY <1>2, <1>3, <1>11, BlockPlayed
  <2>2. /\ s \in Buffers
        /\ s.emitted = buf.emitted
        /\ buf.primed => s = buf
        /\ ~buf.primed => s.phase = 0 /\ s.fill = buf.fill - 1
    BY <1>3, <1>11, SeededIs
  <2> HIDE DEF s
  <2>3. /\ Ahead(s) \in Int /\ buf.fill \in Nat /\ buf.fill * Unit \in Int
        /\ buf.emitted \in Nat /\ buf.emitted * Step \in Int
        /\ (accepted - 1) * Unit \in Int
    BY <1>3, <1>u, <2>2, BufferFields
  <2>4. /\ buf' \in Buffers /\ buf'.primed /\ buf'.fill <= buf.fill
        /\ buf'.emitted = buf.emitted + BlockFrames
        /\ Ahead(buf') = Ahead(s) - Block
        /\ Ahead(s) - Block + Step > 0 =>
              buf'.underruns = buf.underruns /\ buf'.phase < Unit + Step
    <3>1. /\ buf' \in Buffers /\ buf'.primed /\ buf'.fill <= buf.fill
          /\ buf'.emitted = buf.emitted + BlockFrames
          /\ Ahead(Seeded(buf')) = Ahead(s) - BlockFrames * Step
          /\ Ahead(s) - BlockFrames * Step + Step > 0 =>
                buf'.underruns = buf.underruns /\ buf'.phase < Unit + Step
      BY <1>u, <2>1 DEF PlayedFrom, s
    <3>2. Seeded(buf') = buf'
      BY <3>1 DEF Seeded
    <3> QED
      BY <1>b, <3>1, <3>2, Zenon
  <2>5. Ahead(s) = (accepted - 1) * Unit - buf.emitted * Step
    <3>1. CASE buf.primed
      BY <1>1, <2>2, <3>1 DEF ClockInv
    <3>2. CASE ~buf.primed
      <4>1. s.phase = 0 /\ s.fill = accepted - 1 /\ buf.emitted = 0
        BY <1>1, <2>2, <3>2 DEF ClockInv
      <4>2. buf.emitted * Step = 0
        BY <1>u, <4>1
      <4> QED
        BY <2>3, <4>1, <4>2 DEF Ahead
    <3> QED
      BY <3>1, <3>2
  <2>6. ClockInv'
    <3>1. (buf.emitted + BlockFrames) * Step = buf.emitted * Step + Block
      BY <1>b, <1>u, <2>3, Times
    <3>2. Ahead(buf') = (accepted - 1) * Unit - buf'.emitted * Step
      BY <1>u, <2>3, <2>4, <2>5, <3>1
    <3>3. accepted >= buf'.fill
      <4>1. buf'.fill \in Nat /\ accepted >= buf.fill
        BY <1>1, <2>4, BufferFields DEF ClockInv
      <4> QED
        BY <1>3, <2>3, <2>4, <4>1
    <3> QED
      BY <1>2, <2>4, <3>2, <3>3 DEF ClockInv
  <2>7. AheadInv'
    <3> HIDE DEF onTheWay
    <3>1. SUFFICES ASSUME ~late'
                   PROVE  /\ buf'.underruns = 0 /\ buf'.phase < Unit + Step
                          /\ Ahead(buf') + (onTheWay + lead') >= Reserve
      BY <1>2, <2>4 DEF AheadInv, onTheWay
    <3>2. ~late /\ buf.underruns = 0 /\ onTheWay + lead <= Allowance
      BY <1>1, <1>6, <3>1 DEF AheadInv
    <3>3. Ahead(s) + (onTheWay + lead) >= Reserve
      <4>1. CASE buf.primed
        BY <1>1, <2>2, <3>2, <4>1 DEF AheadInv, onTheWay
      <4>2. CASE ~buf.primed
        <5>1. buf.fill >= Target /\ s.phase = 0 /\ s.fill = buf.fill - 1
          BY <1>11, <2>2, <4>2 DEF Plays, ReadyToStart
        <5>2. s.fill * Unit = ((buf.fill - Target) * Unit + Target * Unit) - Unit
          <6>1. s.fill = ((buf.fill - Target) + Target) - 1
            BY <1>u, <2>3, <5>1
          <6>2. (((buf.fill - Target) + Target) - 1) * Unit
                  = ((buf.fill - Target) + Target) * Unit - Unit
            BY <1>u, <2>3, Times
          <6>3. ((buf.fill - Target) + Target) * Unit = (buf.fill - Target) * Unit + Target * Unit
            BY <1>u, <2>3, Times
          <6> QED
            BY <6>1, <6>2, <6>3, Zenon
        <5>3. (buf.fill - Target) * Unit \in Nat
          <6>1. buf.fill - Target \in Nat
            BY <1>u, <2>3, <5>1
          <6>2. \A x, y \in Nat : x * y \in Nat
            OBVIOUS
          <6> QED
            BY <1>u, <6>1, <6>2
        <5>4. Ahead(s) = s.fill * Unit - 0
          BY <5>1 DEF Ahead
        <5> QED
          BY <1>l, <1>u, <1>w, <2>3, <5>2, <5>3, <5>4
      <4> QED
        BY <4>1, <4>2
    <3>4. Ahead(s) >= Block
      BY <1>l, <1>u, <1>w, <2>3, <3>2, <3>3
    <3>5. Ahead(s) - Block + Step > 0
      BY <1>u, <2>3, <3>4
    <3>6. Ahead(buf') + (onTheWay + lead') >= Reserve
      BY <1>2, <1>l, <1>u, <1>w, <2>3, <2>4, <3>3
    <3> QED
      BY <2>4, <3>2, <3>5, <3>6
  <2> QED
    BY <1>7, <2>4, <2>6, <2>7
<1> QED
  BY <1>9, <1>10, <1>11

\* Every step keeps the invariant.
LEMMA StepInv == PlaybackInv /\ [PlaybackNext]_playbackVars => PlaybackInv'
<1> SUFFICES ASSUME PlaybackInv, [PlaybackNext]_playbackVars PROVE PlaybackInv'
  OBVIOUS
<1>1. ASSUME NEW restart \in BOOLEAN, Send(restart)
      PROVE  PlaybackInv'
  BY <1>1, SendStep
<1>2. CASE HostPauses \/ SenderDrops
  BY <1>2, LossStep
<1>3. CASE HandlePacket
  BY <1>3, HandleStep
<1>4. CASE Pull
  BY <1>4, PullStep
<1>5. CASE PullMissed
  BY <1>5, MissStep
<1>6. isPlaying \in BOOLEAN
  BY DEF PlaybackInv, PlaybackTypes
<1>7. CASE Reconnect
  <2>1. /\ Reset /\ flight' = <<>> /\ isPlaying' = isPlaying
        /\ UNCHANGED <<lead, packets, losses, stalls, late>>
    BY <1>7, Zenon DEF Reconnect
  <2>2. isPlaying' \in BOOLEAN
    BY <1>6, <2>1, Zenon
  <2> QED
    BY <2>1, <2>2, ResetStep
<1>8. CASE HandleConfig
  <2>1. /\ Reset /\ flight' = flight /\ isPlaying' = isPlaying
        /\ UNCHANGED <<lead, packets, losses, stalls, late>>
    BY <1>8, Zenon DEF HandleConfig
  <2>2. isPlaying' \in BOOLEAN
    BY <1>6, <2>1, Zenon
  <2> QED
    BY <2>1, <2>2, ResetStep
<1>9. CASE StopPlayback
  <2>1. /\ Reset /\ flight' = <<>> /\ isPlaying' = FALSE
        /\ UNCHANGED <<lead, packets, losses, stalls, late>>
    BY <1>9, Zenon DEF StopPlayback
  <2>2. isPlaying' \in BOOLEAN
    BY <2>1, Zenon
  <2> QED
    BY <2>1, <2>2, ResetStep
<1>10. CASE StartPlayback
  <2>1. /\ isPlaying' = TRUE
        /\ UNCHANGED <<buf, flight, lead, packets, losses, stalls, resets,
                       accepted, late, steady>>
    BY <1>10, Zenon DEF StartPlayback, bounds
  <2>2. isPlaying' \in BOOLEAN
    BY <2>1, Zenon
  <2> QED
    BY <2>1, <2>2 DEF PlaybackInv, PlaybackTypes, ClockInv, AheadInv, Ahead
<1>11. CASE UNCHANGED playbackVars
  BY <1>11 DEF PlaybackInv, PlaybackTypes, ClockInv, AheadInv, Ahead, playbackVars, bounds
<1> QED
  BY <1>1, <1>2, <1>3, <1>4, <1>5, <1>7, <1>8, <1>9, <1>10, <1>11, Zenon DEF PlaybackNext

-----------------------------------------------------------------------------
(* The theorems                                                              *)

\* The invariant holds in every state of every behaviour.
THEOREM PlaybackInvariant == PlaybackSpec => []PlaybackInv
<1> QED
  BY InitInv, StepInv, PTL DEF PlaybackSpec

\* The state has the types declared for it; in particular the ring never holds
\* more than three times the target, whatever burst arrives (ringPush).
THEOREM PlaybackTypeCorrect == PlaybackSpec => []PlaybackTypeOK
<1>1. PlaybackInv => PlaybackTypeOK
  BY TypesAre, Zenon DEF PlaybackInv
<1> QED
  BY <1>1, PlaybackInvariant, PTL

\* Whatever the order of bursts, underruns, cuts and late packets, the place
\* that pull plays is the one the output clock has reached: a packet that comes
\* late is skipped and adds nothing to the latency.
THEOREM OnClock == PlaybackSpec => []StaysOnClock
<1>1. PlaybackInv => StaysOnClock
  BY Zenon DEF PlaybackInv, ClockInv, Ahead, StaysOnClock
<1> QED
  BY <1>1, PlaybackInvariant, PTL

\* As long as every packet comes within what the target leaves beside a block, a packet
\* and a frame, pull never underruns: at the start, after every reset and after every
\* cut of an overfull ring, at every ratio and in every phase of the two clocks.
THEOREM DelayAbsorbed == PlaybackSpec => []DelayWithinTargetAbsorbed
<1>1. PlaybackInv => DelayWithinTargetAbsorbed
  BY Zenon DEF PlaybackInv, AheadInv, DelayWithinTargetAbsorbed
<1> QED
  BY <1>1, PlaybackInvariant, PTL

=============================================================================
