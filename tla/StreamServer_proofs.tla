------------------------ MODULE StreamServer_proofs ------------------------
(***************************************************************************)
(* Proofs about StreamServer for any number of connections and sessions.   *)
(*                                                                         *)
(* NoOrphanThread and its companions are not inductive: whether a          *)
(* connection's thread is in the vector depends on where the acceptor is   *)
(* and on how far stop has come.  ServerInv says which of the other        *)
(* threads can exist at each place of stop (Phases), what the acceptor     *)
(* holds at each of its places (AcceptorHolds), whose vector a connection  *)
(* is in at each place of its thread (VectorHolds), and what its flags and *)
(* the listener say there (FlagsFollow, ListenerFollows).                  *)
(***************************************************************************)
EXTENDS StreamServer, TLAPS

\* stop joins the streaming thread first, then the acceptor, then the
\* connections; the listening socket outlives the acceptor.
Phases ==
    /\ mpc \in {"starting", "config", "joinStream"} => running
    /\ mpc \in {"joinAcceptor", "swap", "disconnect"} => ~running
    /\ apc = "none" <=> (mpc \in {"swap", "disconnect"} \/ (mpc = "idle" /\ ~running))
    /\ spc = "none" <=> (~running \/ mpc = "starting")
    /\ listening = IF running \/ mpc = "joinAcceptor" THEN "open"
                   ELSE IF mpc = "idle" THEN "none" ELSE "closed"

\* The acceptor holds a connection of its own only between accepting it and
\* beginning its thread, and destroys others only under the lock.
AcceptorHolds ==
    /\ apc \notin {"lock", "reap", "begin"} => accepted = {}
    /\ apc = "begin" => accepted \subseteq connections
    /\ apc # "reap" => reaping = {}
    /\ reaping \subseteq connections
    /\ \A c \in Conns : c \in accepted <=> cpc[c] = "new"
    /\ \A c \in reaping : cpc[c] \in {"returning", "returned"}

\* A thread that was begun and not yet destroyed is in the vector or in stop's
\* copy of it; a destroyed one leaves the vector before the lock is released.
VectorHolds ==
    /\ \A c \in Conns : cpc[c] \notin {"unborn", "new", "deleted"} =>
          c \in connections \cup toClose
    /\ \A c \in connections : cpc[c] # "unborn" /\ (cpc[c] = "deleted" => apc = "reap")
    /\ \A c \in toClose : cpc[c] \notin {"unborn", "new", "deleted"}
    /\ mpc # "disconnect" => toClose = {}
    /\ ~running /\ mpc \notin {"joinAcceptor", "swap"} => connections = {}
    /\ joining \subseteq toClose
    /\ \A c \in toClose \ joining : cpc[c] = "returned"

\* The socket is closed before the finished flag is raised.
FlagsFollow ==
    \A c \in Conns :
        /\ finished[c] <=> cpc[c] \in {"returning", "returned", "deleted"}
        /\ open[c] => cpc[c] \notin {"unborn", "flag", "returning", "returned", "deleted"}

\* The upgraded flag remembers, until finish takes it, that the listener was
\* told of the client.
ListenerFollows ==
    \A c \in Conns :
        /\ cpc[c] \in {"unborn", "new", "head", "switch"} => ~upgraded[c]
        /\ cpc[c] \in {"connected", "helloLock", "hello", "serve"} => upgraded[c]
        /\ cpc[c] \in {"unborn", "new", "head", "switch", "connected"} => told[c] = "nothing"
        /\ cpc[c] \in {"helloLock", "hello", "serve", "disconnected"} => told[c] = "connected"
        /\ cpc[c] = "finish" => told[c] = IF upgraded[c] THEN "connected" ELSE "nothing"
        /\ cpc[c] \in {"close", "flag", "returning", "returned", "deleted"} =>
              told[c] # "connected"
        /\ c \in clients <=> told[c] = "connected"

ServerInv ==
    /\ TypeOK
    /\ Phases
    /\ AcceptorHolds
    /\ VectorHolds
    /\ FlagsFollow
    /\ ListenerFollows

-----------------------------------------------------------------------------
(* One lemma per thread: its steps preserve ServerInv *)

USE DEF acceptor, conn, stream, message, engine, server, Others

\* The message thread: starting, reconfiguring and each step of stop.
LEMMA MessageKeeps ==
    ASSUME ServerInv,
           Start \/ StartFails \/ ConfigLock \/ StopBegin
           \/ StartStream \/ ConfigUnlock \/ StopJoinStream
           \/ StopJoinAcceptor \/ StopSwap \/ StopEnd
           \/ \E c \in Conns : StopDisconnect(c) \/ StopJoinConnection(c)
    PROVE  ServerInv'
<1> USE ConnsAssumption DEF ServerInv, TypeOK, Phases, AcceptorHolds, VectorHolds,
                              FlagsFollow, ListenerFollows
<1>1. CASE Start
  <2>1. starts' \in 0 .. MaxStarts
    BY <1>1, MaxStartsAssumption DEF Start
  <2> QED
    BY <1>1, <2>1 DEF Start
<1>2. CASE StartFails
  <2>1. starts' \in 0 .. MaxStarts
    BY <1>2, MaxStartsAssumption DEF StartFails
  <2> QED
    BY <1>2, <2>1 DEF StartFails
<1>3. CASE ConfigLock
  BY <1>3 DEF ConfigLock
<1>4. CASE StopBegin
  BY <1>4 DEF StopBegin
<1>5. CASE StartStream
  <2>1. TypeOK'
    BY <1>5 DEF StartStream
  <2>2. Phases'
    BY <1>5 DEF StartStream
  <2>3. AcceptorHolds'
    BY <1>5 DEF StartStream
  <2>4. VectorHolds'
    BY <1>5 DEF StartStream
  <2>5. FlagsFollow'
    BY <1>5 DEF StartStream
  <2>6. ListenerFollows'
    BY <1>5 DEF StartStream
  <2> QED
    BY <2>1, <2>2, <2>3, <2>4, <2>5, <2>6
<1>6. CASE ConfigUnlock
  BY <1>6 DEF ConfigUnlock
<1>7. CASE StopJoinStream
  <2>1. TypeOK'
    BY <1>7 DEF StopJoinStream
  <2>2. Phases'
    BY <1>7 DEF StopJoinStream
  <2>3. AcceptorHolds'
    BY <1>7 DEF StopJoinStream
  <2>4. VectorHolds'
    BY <1>7 DEF StopJoinStream
  <2>5. FlagsFollow'
    BY <1>7 DEF StopJoinStream
  <2>6. ListenerFollows'
    BY <1>7 DEF StopJoinStream
  <2> QED
    BY <2>1, <2>2, <2>3, <2>4, <2>5, <2>6
<1>8. CASE StopJoinAcceptor
  BY <1>8 DEF StopJoinAcceptor
<1>9. CASE StopSwap
  <2>1. TypeOK'
    BY <1>9 DEF StopSwap
  <2>2. Phases'
    BY <1>9 DEF StopSwap
  <2>3. AcceptorHolds'
    BY <1>9 DEF StopSwap
  <2>4. VectorHolds'
    BY <1>9 DEF StopSwap
  <2>5. FlagsFollow'
    BY <1>9 DEF StopSwap
  <2>6. ListenerFollows'
    BY <1>9 DEF StopSwap
  <2> QED
    BY <2>1, <2>2, <2>3, <2>4, <2>5, <2>6
<1>10. CASE StopEnd
  <2>1. TypeOK'
    BY <1>10 DEF StopEnd
  <2>2. Phases'
    BY <1>10 DEF StopEnd
  <2>3. AcceptorHolds'
    BY <1>10 DEF StopEnd
  <2>4. VectorHolds'
    BY <1>10 DEF StopEnd
  <2>5. FlagsFollow'
    BY <1>10 DEF StopEnd
  <2>6. ListenerFollows'
    BY <1>10 DEF StopEnd
  <2> QED
    BY <2>1, <2>2, <2>3, <2>4, <2>5, <2>6
<1>11. ASSUME NEW c \in Conns, StopDisconnect(c)
      PROVE  ServerInv'
  BY <1>11 DEF StopDisconnect
<1>12. ASSUME NEW c \in Conns, StopJoinConnection(c)
      PROVE  ServerInv'
  BY <1>12 DEF StopJoinConnection
<1> QED
  BY <1>1, <1>2, <1>3, <1>4, <1>5, <1>6, <1>7, <1>8, <1>9, <1>10, <1>11, <1>12

\* The acceptor: accepting, reaping, pushing and beginning.
LEMMA AcceptorKeeps ==
    ASSUME ServerInv,
           AcceptorTop \/ AcceptorPolled \/ AcceptLock \/ AcceptPush
           \/ AcceptBegin
           \/ \E c \in Conns : Accept(c) \/ AcceptReap(c)
    PROVE  ServerInv'
<1> USE ConnsAssumption DEF ServerInv, TypeOK, Phases, AcceptorHolds, VectorHolds,
                              FlagsFollow, ListenerFollows
<1>1. CASE AcceptorTop
  BY <1>1 DEF AcceptorTop
<1>2. CASE AcceptorPolled
  BY <1>2 DEF AcceptorPolled
<1>3. CASE AcceptLock
  BY <1>3 DEF AcceptLock
<1>4. CASE AcceptPush
  <2>1. TypeOK'
    BY <1>4 DEF AcceptPush
  <2>2. Phases'
    BY <1>4 DEF AcceptPush
  <2>3. AcceptorHolds'
    BY <1>4 DEF AcceptPush
  <2>4. VectorHolds'
    BY <1>4 DEF AcceptPush
  <2>5. FlagsFollow'
    BY <1>4 DEF AcceptPush
  <2>6. ListenerFollows'
    BY <1>4 DEF AcceptPush
  <2> QED
    BY <2>1, <2>2, <2>3, <2>4, <2>5, <2>6
<1>5. CASE AcceptBegin
  BY <1>5 DEF AcceptBegin
<1>6. ASSUME NEW c \in Conns, Accept(c)
      PROVE  ServerInv'
  BY <1>6 DEF Accept
<1>7. ASSUME NEW c \in Conns, AcceptReap(c)
      PROVE  ServerInv'
  <2>1. TypeOK'
    BY <1>7 DEF AcceptReap
  <2>2. Phases'
    BY <1>7 DEF AcceptReap
  <2>3. AcceptorHolds'
    BY <1>7 DEF AcceptReap
  <2>4. VectorHolds'
    BY <1>7 DEF AcceptReap
  <2>5. FlagsFollow'
    BY <1>7 DEF AcceptReap
  <2>6. ListenerFollows'
    BY <1>7 DEF AcceptReap
  <2> QED
    BY <2>1, <2>2, <2>3, <2>4, <2>5, <2>6
<1> QED
  BY <1>1, <1>2, <1>3, <1>4, <1>5, <1>6, <1>7

\* A connection's thread, from the request head to its return.
LEMMA ConnectionKeeps ==
    ASSUME ServerInv, NEW c \in Conns,
           HttpEnds(c) \/ UpgradeWritten(c) \/ ServeEnds(c)
           \/ Upgrade(c) \/ Connected(c) \/ HelloLock(c)
           \/ HelloUnlock(c) \/ FinishExchange(c) \/ Disconnected(c)
           \/ FinishClose(c) \/ FinishFlag(c) \/ Return(c)
    PROVE  ServerInv'
<1> USE ConnsAssumption DEF ServerInv, TypeOK, Phases, AcceptorHolds, VectorHolds,
                              FlagsFollow, ListenerFollows, Goto
<1>1. CASE HttpEnds(c)
  BY <1>1 DEF HttpEnds
<1>2. CASE UpgradeWritten(c)
  BY <1>2 DEF UpgradeWritten
<1>3. CASE ServeEnds(c)
  BY <1>3 DEF ServeEnds
<1>4. CASE Upgrade(c)
  BY <1>4 DEF Upgrade
<1>5. CASE Connected(c)
  BY <1>5 DEF Connected
<1>6. CASE HelloLock(c)
  BY <1>6 DEF HelloLock
<1>7. CASE HelloUnlock(c)
  BY <1>7 DEF HelloUnlock
<1>8. CASE FinishExchange(c)
  BY <1>8 DEF FinishExchange
<1>9. CASE Disconnected(c)
  BY <1>9 DEF Disconnected
<1>10. CASE FinishClose(c)
  BY <1>10 DEF FinishClose
<1>11. CASE FinishFlag(c)
  BY <1>11 DEF FinishFlag
<1>12. CASE Return(c)
  BY <1>12 DEF Return
<1> QED
  BY <1>1, <1>2, <1>3, <1>4, <1>5, <1>6, <1>7, <1>8, <1>9, <1>10, <1>11, <1>12

\* The streaming thread: its broadcasts and its exit.
LEMMA StreamKeeps ==
    ASSUME ServerInv,
           StreamTop \/ BroadcastLock \/ BroadcastUnlock
    PROVE  ServerInv'
<1> USE ConnsAssumption DEF ServerInv, TypeOK, Phases, AcceptorHolds, VectorHolds,
                              FlagsFollow, ListenerFollows
<1>1. CASE StreamTop
  BY <1>1 DEF StreamTop
<1>2. CASE BroadcastLock
  BY <1>2 DEF BroadcastLock
<1>3. CASE BroadcastUnlock
  BY <1>3 DEF BroadcastUnlock
<1> QED
  BY <1>1, <1>2, <1>3

-----------------------------------------------------------------------------
(* The whole specification *)

LEMMA InitServerInv == Init => ServerInv
<1> SUFFICES ASSUME Init
             PROVE  ServerInv
  OBVIOUS
<1> USE DEF Init
<1>1. TypeOK
  <2>1. starts \in 0 .. MaxStarts
    BY MaxStartsAssumption
  <2>2. /\ \A c \in Conns : (mutex = c) = (cpc[c] = "hello")
        /\ mutex \notin {"message", "acceptor", "stream"}
    BY ConnsAssumption
  <2> QED
    BY <2>1, <2>2 DEF TypeOK
<1>2. Phases
  BY DEF Phases
<1>3. AcceptorHolds /\ VectorHolds
  BY DEF AcceptorHolds, VectorHolds
<1>4. FlagsFollow /\ ListenerFollows
  BY DEF FlagsFollow, ListenerFollows
<1> QED
  BY <1>1, <1>2, <1>3, <1>4 DEF ServerInv

LEMMA NextServerInv == ServerInv /\ [Next]_vars => ServerInv'
<1> SUFFICES ASSUME ServerInv, [Next]_vars
             PROVE  ServerInv'
  OBVIOUS
<1>1. CASE Start \/ StartFails \/ ConfigLock \/ StopBegin
  BY <1>1, MessageKeeps
<1>2. CASE MessageStep
  BY <1>2, MessageKeeps DEF MessageStep
<1>3. CASE AcceptorStep \/ \E c \in Conns : Accept(c)
  BY <1>3, AcceptorKeeps DEF AcceptorStep
<1>4. ASSUME NEW c \in Conns,
             HttpEnds(c) \/ UpgradeWritten(c) \/ ServeEnds(c) \/ ConnectionStep(c)
      PROVE  ServerInv'
  BY <1>4, ConnectionKeeps DEF ConnectionStep
<1>5. CASE StreamStep
  BY <1>5, StreamKeeps DEF StreamStep
<1>6. CASE UNCHANGED vars
  BY <1>6 DEF vars, ServerInv, TypeOK, Phases, AcceptorHolds, VectorHolds, FlagsFollow,
              ListenerFollows
<1> QED
  BY <1>1, <1>2, <1>3, <1>4, <1>5, <1>6 DEF Next

\* The inductive invariant, for any number of connections and of sessions.
THEOREM ServerInvHolds == Spec => []ServerInv
BY InitServerInv, NextServerInv, PTL DEF Spec

\* Every variable keeps its type and connectionsMutex is held by the one thread
\* whose place says so.
THEOREM TypeCorrect == Spec => []TypeOK
BY ServerInvHolds, PTL DEF ServerInv

LEMMA InvNoOrphan == ServerInv => NoOrphanThread
<1> SUFFICES ASSUME VectorHolds, NEW c \in Conns, Alive(c)
             PROVE  c \in connections \cup toClose
  BY DEF ServerInv, NoOrphanThread
<1> QED
  BY DEF VectorHolds, Alive

\* Whatever thread runs for a connection, stop can find it: it is in the vector,
\* in stop's copy, or in the acceptor's hands.
THEOREM EveryThreadIsReachable == Spec => []NoOrphanThread
BY ServerInvHolds, InvNoOrphan, PTL

LEMMA InvStopLeavesNothing == ServerInv => StopLeavesNothing
<1> SUFFICES ASSUME ServerInv
             PROVE  StopLeavesNothing
  OBVIOUS
<1>0. TypeOK /\ Phases /\ AcceptorHolds /\ VectorHolds /\ FlagsFollow /\ ListenerFollows
  BY DEF ServerInv
<1>1. apc # "none" => listening = "open"
  BY <1>0 DEF Phases, TypeOK
<1> SUFFICES ASSUME mpc = "idle", ~running
             PROVE  /\ apc = "none" /\ spc = "none" /\ listening = "none" /\ mutex = "free"
                    /\ \A c \in Conns : cpc[c] \in {"unborn", "deleted"} /\ ~open[c]
                    /\ clients = {}
  BY <1>1 DEF StopLeavesNothing
<1>2. apc = "none" /\ spc = "none" /\ listening = "none"
  BY <1>0 DEF Phases
<1>3. ASSUME NEW c \in Conns
      PROVE  cpc[c] \in {"unborn", "deleted"}
  BY <1>0, <1>2 DEF AcceptorHolds, VectorHolds
<1>4. \A c \in Conns : ~open[c]
  BY <1>0, <1>3 DEF FlagsFollow
<1>5. clients = {}
  BY <1>0, <1>3 DEF ListenerFollows, TypeOK
<1>6. mutex = "free"
  BY <1>0, <1>2, <1>3 DEF TypeOK
<1> QED
  BY <1>2, <1>3, <1>4, <1>5, <1>6

\* Whenever stop has returned, no thread, no open socket, no listener and no
\* client of the session is left; and the acceptor never polls a closed listener.
THEOREM NothingOutlivesStop == Spec => []StopLeavesNothing
BY ServerInvHolds, InvStopLeavesNothing, PTL

LEMMA InvBroadcast == ServerInv => BroadcastMeetsLiveOnly
BY ConnsAssumption
   DEF ServerInv, TypeOK, AcceptorHolds, VectorHolds, BroadcastMeetsLiveOnly

\* No broadcast, from whichever of the three kinds of thread, walks over a
\* connection that is destroyed or being destroyed.
THEOREM BroadcastsMeetNoDeadClient == Spec => []BroadcastMeetsLiveOnly
BY ServerInvHolds, InvBroadcast, PTL

-----------------------------------------------------------------------------
(* What the listener is told *)

LEMMA InvClientsLive ==
    ServerInv => \A c \in clients : Alive(c) /\ told[c] = "connected"
BY DEF ServerInv, TypeOK, ListenerFollows, Alive

LEMMA InvFinishedGone ==
    ServerInv => \A c \in Conns : finished[c] => told[c] # "connected" /\ c \notin clients
BY DEF ServerInv, TypeOK, FlagsFollow, ListenerFollows

\* Only Connected and Disconnected tell the listener anything, and each finds
\* there what the other one left.
LEMMA NextTellsInTurn ==
    ServerInv /\ [Next]_vars =>
        [ \A c \in Conns : told'[c] # told[c] =>
            \/ told[c] = "nothing" /\ told'[c] = "connected"
            \/ told[c] = "connected" /\ told'[c] = "disconnected" ]_vars
<1> SUFFICES ASSUME ServerInv, Next, NEW c \in Conns, told'[c] # told[c]
             PROVE  \/ told[c] = "nothing" /\ told'[c] = "connected"
                    \/ told[c] = "connected" /\ told'[c] = "disconnected"
  OBVIOUS
<1> told \in [Conns -> {"nothing", "connected", "disconnected"}]
  BY DEF ServerInv, TypeOK
<1>1. ListenerFollows
  BY DEF ServerInv
<1>2. told' = told \/ \E d \in Conns : Connected(d) \/ Disconnected(d)
  BY DEF Next, Start, StartFails, ConfigLock, StopBegin, MessageStep, StartStream,
         ConfigUnlock, StopJoinStream, StopJoinAcceptor, StopSwap, StopDisconnect,
         StopJoinConnection, StopEnd, Accept, AcceptorStep, AcceptorTop, AcceptorPolled,
         AcceptLock, AcceptReap, AcceptPush, AcceptBegin, HttpEnds, UpgradeWritten,
         ServeEnds, ConnectionStep, Upgrade, HelloLock, HelloUnlock, FinishExchange,
         FinishClose, FinishFlag, Return, StreamStep, StreamTop, BroadcastLock,
         BroadcastUnlock
<1>3. PICK d \in Conns : Connected(d) \/ Disconnected(d)
  BY <1>2
<1>4. CASE Connected(d)
  BY <1>1, <1>4 DEF Connected, Goto, ListenerFollows
<1>5. CASE Disconnected(d)
  BY <1>1, <1>5 DEF Disconnected, Goto, ListenerFollows
<1> QED
  BY <1>3, <1>4, <1>5

\* The listener hears of a client once when it comes and once when it goes, and
\* the engine's list never keeps one whose thread is gone.
THEOREM ListenerHearsInTurn == Spec => CallbacksPaired
BY ServerInvHolds, InvClientsLive, InvFinishedGone, NextTellsInTurn, PTL
   DEF Spec, CallbacksPaired

=============================================================================
