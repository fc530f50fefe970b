---------------------------- MODULE StreamServer ----------------------------
(***************************************************************************)
(* Threads and shutdown of src/src/core/StreamServer.cpp, with the parts   *)
(* of src/src/core/StreamEngine.cpp that start and stop it: the acceptor   *)
(* thread, one thread per connection, the streaming thread that broadcasts *)
(* to all of them, and the message thread that starts, reconfigures and    *)
(* stops the whole.  connectionsMutex is explicit: it is taken by all four *)
(* kinds of thread, and by the acceptor around joining other threads.      *)
(* What travels in the queues is in ClientQueue.                           *)
(***************************************************************************)
EXTENDS Integers, FiniteSets

CONSTANTS
    Conns,      \* the connections ever accepted: their ids are never reused
    MaxStarts   \* bound on how often streaming is started

\* Connections hold connectionsMutex under their own id.
ASSUME ConnsAssumption == Conns \cap {"free", "message", "acceptor", "stream"} = {}

ASSUME MaxStartsAssumption == MaxStarts \in Nat

VARIABLES
    running,      \* running
    listening,    \* listeningSocket: none, open or closed
    connections,  \* connections, those in the vector
    toClose,      \* stop's local copy of it
    mutex,        \* the holder of connectionsMutex, or "free"
    apc, aexit,   \* the acceptor thread, "none" when there is no Acceptor, and its exit flag
    accepted,     \* the connection it has constructed and not begun, as a set
    reaping,      \* the finished connections it is destroying
    cpc, cexit,   \* each connection's thread, and its exit flag
    upgraded, finished, open,   \* each connection's flags and socket
    spc, sexit,   \* the streaming thread, "none" when it does not run
    mpc, joining, \* the message thread, and the connections it is joining
    starts,       \* how often start has been called
    clients,      \* StreamEngine's clients
    told          \* what the listener was told of each connection (history)

acceptor == <<apc, aexit, accepted, reaping>>
conn == <<cpc, cexit, upgraded, finished, open>>
stream == <<spc, sexit>>
message == <<mpc, joining, starts>>
engine == <<clients, told>>
server == <<running, listening, connections, toClose>>
vars == <<server, mutex, acceptor, conn, stream, message, engine>>

Init ==
    /\ running = FALSE /\ listening = "none"
    /\ connections = {} /\ toClose = {} /\ mutex = "free"
    /\ apc = "none" /\ aexit = FALSE /\ accepted = {} /\ reaping = {}
    /\ cpc = [c \in Conns |-> "unborn"] /\ cexit = [c \in Conns |-> FALSE]
    /\ upgraded = [c \in Conns |-> FALSE] /\ finished = [c \in Conns |-> FALSE]
    /\ open = [c \in Conns |-> FALSE]
    /\ spc = "none" /\ sexit = FALSE
    /\ mpc = "idle" /\ joining = {} /\ starts = 0
    /\ clients = {} /\ told = [c \in Conns |-> "nothing"]

-----------------------------------------------------------------------------
(* The message thread: StreamEngine start and stop *)

\* A port was free: the acceptor runs before the streaming thread does.
Start ==
    /\ mpc = "idle" /\ ~running /\ starts < MaxStarts
    /\ starts' = starts + 1
    /\ listening' = "open" /\ running' = TRUE
    /\ apc' = "top" /\ aexit' = FALSE
    /\ mpc' = "starting"
    /\ UNCHANGED <<connections, toClose, mutex, accepted, reaping, conn, stream,
                   joining, engine>>

\* None of the ports was free: the socket is reset and start returns false.
StartFails ==
    /\ mpc = "idle" /\ ~running /\ starts < MaxStarts
    /\ starts' = starts + 1
    /\ UNCHANGED <<server, mutex, acceptor, conn, stream, mpc, joining, engine>>

StartStream ==
    /\ mpc = "starting"
    /\ spc' = "run" /\ sexit' = FALSE
    /\ mpc' = "idle"
    /\ UNCHANGED <<server, mutex, acceptor, conn, joining, starts, engine>>

\* broadcastConfig, from setSettings or prepare
ConfigLock ==
    /\ mpc = "idle" /\ running /\ mutex = "free"
    /\ mutex' = "message" /\ mpc' = "config"
    /\ UNCHANGED <<server, acceptor, conn, stream, joining, starts, engine>>

\* Mutant: the lock is left behind.
ConfigUnlockForgets ==
    /\ mpc = "config" /\ mpc' = "idle"
    /\ UNCHANGED <<server, mutex, acceptor, conn, stream, joining, starts, engine>>

ConfigUnlock ==
    /\ mpc = "config"
    /\ mutex' = "free" /\ mpc' = "idle"
    /\ UNCHANGED <<server, acceptor, conn, stream, joining, starts, engine>>

StopBegin ==
    /\ mpc = "idle" /\ running
    /\ sexit' = TRUE
    /\ mpc' = "joinStream"
    /\ UNCHANGED <<server, mutex, acceptor, conn, spc, joining, starts, engine>>

StopJoinStream ==
    /\ mpc = "joinStream" /\ spc = "exited"
    /\ spc' = "none"
    /\ running' = FALSE
    /\ aexit' = TRUE
    /\ mpc' = "joinAcceptor"
    /\ UNCHANGED <<listening, connections, toClose, mutex, apc, accepted, reaping,
                   conn, sexit, joining, starts, engine>>

\* Mutant: stop goes on without waiting for the acceptor.
StopSkipsAcceptor ==
    /\ mpc = "joinAcceptor"
    /\ listening' = "closed"
    /\ mpc' = "swap"
    /\ UNCHANGED <<running, connections, toClose, mutex, acceptor, conn, stream, joining,
                   starts, engine>>

StopJoinAcceptor ==
    /\ mpc = "joinAcceptor" /\ apc = "exited"
    /\ apc' = "none"
    /\ listening' = "closed"
    /\ mpc' = "swap"
    /\ UNCHANGED <<running, connections, toClose, mutex, aexit, accepted, reaping,
                   conn, stream, joining, starts, engine>>

\* toClose.swap(connections), the only part of stop under the lock
StopSwap ==
    /\ mpc = "swap" /\ mutex = "free"
    /\ toClose' = connections /\ connections' = {}
    /\ joining' = connections
    /\ mpc' = "disconnect"
    /\ UNCHANGED <<running, listening, mutex, acceptor, conn, stream, starts, engine>>

\* disconnect: raise the exit flag and close the socket, then join
StopDisconnect(c) ==
    /\ mpc = "disconnect" /\ c \in joining
    /\ \A d \in joining : ~cexit[d]
    /\ cexit' = [cexit EXCEPT ![c] = TRUE]
    /\ open' = [open EXCEPT ![c] = FALSE]
    /\ UNCHANGED <<server, mutex, acceptor, cpc, upgraded, finished, stream, message, engine>>

StopJoinConnection(c) ==
    /\ mpc = "disconnect" /\ c \in joining /\ cexit[c]
    /\ cpc[c] \in {"new", "returned"}
    /\ joining' = joining \ {c}
    /\ UNCHANGED <<server, mutex, acceptor, conn, stream, mpc, starts, engine>>

\* toClose.clear() destroys the connections; StreamEngine then forgets them.
StopEnd ==
    /\ mpc = "disconnect" /\ joining = {}
    /\ cpc' = [c \in Conns |-> IF c \in toClose THEN "deleted" ELSE cpc[c]]
    /\ toClose' = {}
    /\ listening' = "none"
    /\ clients' = {}
    /\ mpc' = "idle"
    /\ UNCHANGED <<running, connections, mutex, acceptor, cexit, upgraded, finished,
                   open, stream, joining, starts, told>>

-----------------------------------------------------------------------------
(* The acceptor thread *)

\* while (! threadShouldExit()), then one poll of the listener: exit may be
\* requested between the test and the accept.
AcceptorTop ==
    /\ apc = "top"
    /\ apc' = IF aexit THEN "exited" ELSE "poll"
    /\ UNCHANGED <<server, mutex, aexit, accepted, reaping, conn, stream, message, engine>>

\* Nothing was pending, or accept failed; or select on the listener failed
AcceptorPolled ==
    /\ apc = "poll"
    /\ apc' \in {"top", "exited"}
    /\ UNCHANGED <<server, mutex, aexit, accepted, reaping, conn, stream, message, engine>>

Accept(c) ==
    /\ apc = "poll"
    /\ cpc[c] = "unborn"
    /\ cpc' = [cpc EXCEPT ![c] = "new"]
    /\ open' = [open EXCEPT ![c] = TRUE]
    /\ accepted' = {c}
    /\ apc' = "lock"
    /\ UNCHANGED <<server, mutex, aexit, reaping, cexit, upgraded, finished,
                   stream, message, engine>>

\* Mutant: the vector is pruned without the lock.
AcceptWithoutLock ==
    /\ apc = "lock"
    /\ mutex' = "acceptor"
    /\ reaping' = { c \in connections : finished[c] }
    /\ apc' = "reap"
    /\ UNCHANGED <<server, aexit, accepted, conn, stream, message, engine>>

\* Mutant: what is not upgraded counts as finished.
AcceptReapsPending ==
    /\ apc = "lock" /\ mutex = "free"
    /\ mutex' = "acceptor"
    /\ reaping' = { c \in connections : ~upgraded[c] }
    /\ apc' = "reap"
    /\ UNCHANGED <<server, aexit, accepted, conn, stream, message, engine>>

AcceptLock ==
    /\ apc = "lock" /\ mutex = "free"
    /\ mutex' = "acceptor"
    /\ reaping' = { c \in connections : finished[c] }
    /\ apc' = "reap"
    /\ UNCHANGED <<server, aexit, accepted, conn, stream, message, engine>>

\* Under the lock a finished connection is destroyed; its destructor joins
\* its thread.
AcceptReap(c) ==
    /\ apc = "reap" /\ c \in reaping
    /\ cpc[c] = "returned"
    /\ cpc' = [cpc EXCEPT ![c] = "deleted"]
    /\ reaping' = reaping \ {c}
    /\ UNCHANGED <<server, mutex, apc, aexit, accepted, cexit, upgraded, finished,
                   open, stream, message, engine>>

\* Mutant: a connection accepted during stop is begun but not kept.
AcceptPushUnlessExit ==
    /\ apc = "reap" /\ reaping = {}
    /\ connections' = { c \in connections : cpc[c] # "deleted" }
                         \cup (IF aexit THEN {} ELSE accepted)
    /\ mutex' = "free"
    /\ apc' = "begin"
    /\ UNCHANGED <<running, listening, toClose, aexit, accepted, reaping, conn,
                   stream, message, engine>>

AcceptPush ==
    /\ apc = "reap" /\ reaping = {}
    /\ connections' = { c \in connections : cpc[c] # "deleted" } \cup accepted
    /\ mutex' = "free"
    /\ apc' = "begin"
    /\ UNCHANGED <<running, listening, toClose, aexit, accepted, reaping, conn,
                   stream, message, engine>>

AcceptBegin ==
    /\ apc = "begin"
    /\ cpc' = [c \in Conns |-> IF c \in accepted THEN "head" ELSE cpc[c]]
    /\ accepted' = {}
    /\ apc' = "top"
    /\ UNCHANGED <<server, mutex, aexit, reaping, cexit, upgraded, finished, open,
                   stream, message, engine>>

-----------------------------------------------------------------------------
(* A connection's thread *)

Goto(c, from, to) == cpc[c] = from /\ cpc' = [cpc EXCEPT ![c] = to]

Others == <<server, acceptor, stream, message>>

\* handleHttp ends without an upgrade: an asset, 404 or 403 written, a bad
\* head, the peer gone, the socket closed, or exit requested
HttpEnds(c) ==
    /\ Goto(c, "head", "finish")
    /\ UNCHANGED <<Others, mutex, cexit, upgraded, finished, open, engine>>

\* performUpgrade has written the 101 response
UpgradeWritten(c) ==
    /\ ~cexit[c] /\ open[c]
    /\ Goto(c, "head", "switch")
    /\ UNCHANGED <<Others, mutex, cexit, upgraded, finished, open, engine>>

Upgrade(c) ==
    /\ Goto(c, "switch", "connected")
    /\ upgraded' = [upgraded EXCEPT ![c] = TRUE]
    /\ UNCHANGED <<Others, mutex, cexit, finished, open, engine>>

\* streamClientConnected: into the client list, then the hello is broadcast
Connected(c) ==
    /\ Goto(c, "connected", "helloLock")
    /\ clients' = clients \cup {c}
    /\ told' = [told EXCEPT ![c] = "connected"]
    /\ UNCHANGED <<Others, mutex, cexit, upgraded, finished, open>>

HelloLock(c) ==
    /\ mutex = "free"
    /\ Goto(c, "helloLock", "hello")
    /\ mutex' = c
    /\ UNCHANGED <<Others, cexit, upgraded, finished, open, engine>>

HelloUnlock(c) ==
    /\ Goto(c, "hello", "serve")
    /\ mutex' = "free"
    /\ UNCHANGED <<Others, cexit, upgraded, finished, open, engine>>

\* The drain and pump loop ends: close frame, error, dead peer or exit
ServeEnds(c) ==
    /\ Goto(c, "serve", "finish")
    /\ UNCHANGED <<Others, mutex, cexit, upgraded, finished, open, engine>>

\* Mutant: the listener is told of every connection that ends.
FinishTellsAll(c) ==
    /\ Goto(c, "finish", "disconnected")
    /\ upgraded' = [upgraded EXCEPT ![c] = FALSE]
    /\ UNCHANGED <<Others, mutex, cexit, finished, open, engine>>

\* finish: upgraded.exchange(false) decides whether the listener is told
FinishExchange(c) ==
    /\ Goto(c, "finish", IF upgraded[c] THEN "disconnected" ELSE "close")
    /\ upgraded' = [upgraded EXCEPT ![c] = FALSE]
    /\ UNCHANGED <<Others, mutex, cexit, finished, open, engine>>

Disconnected(c) ==
    /\ Goto(c, "disconnected", "close")
    /\ clients' = clients \ {c}
    /\ told' = [told EXCEPT ![c] = "disconnected"]
    /\ UNCHANGED <<Others, mutex, cexit, upgraded, finished, open>>

FinishClose(c) ==
    /\ Goto(c, "close", "flag")
    /\ open' = [open EXCEPT ![c] = FALSE]
    /\ UNCHANGED <<Others, mutex, cexit, upgraded, finished, engine>>

FinishFlag(c) ==
    /\ Goto(c, "flag", "returning")
    /\ finished' = [finished EXCEPT ![c] = TRUE]
    /\ UNCHANGED <<Others, mutex, cexit, upgraded, open, engine>>

Return(c) ==
    /\ Goto(c, "returning", "returned")
    /\ UNCHANGED <<Others, mutex, cexit, upgraded, finished, open, engine>>

-----------------------------------------------------------------------------
(* The streaming thread: broadcastBinary and broadcastText *)

\* The exit flag is tested once per packet, before the wait for the lock.
StreamTop ==
    /\ spc = "run"
    /\ spc' = IF sexit THEN "exited" ELSE "lock"
    /\ UNCHANGED <<server, mutex, acceptor, conn, sexit, message, engine>>

BroadcastLock ==
    /\ spc = "lock" /\ mutex = "free"
    /\ mutex' = "stream" /\ spc' = "broadcast"
    /\ UNCHANGED <<server, acceptor, conn, sexit, message, engine>>

BroadcastUnlock ==
    /\ spc = "broadcast"
    /\ mutex' = "free" /\ spc' = "run"
    /\ UNCHANGED <<server, acceptor, conn, sexit, message, engine>>

-----------------------------------------------------------------------------
MessageStep ==
    \/ StartStream
    \/ ConfigUnlock
    \/ StopJoinStream \/ StopJoinAcceptor \/ StopSwap
    \/ \E c \in Conns : StopDisconnect(c) \/ StopJoinConnection(c)
    \/ StopEnd

AcceptorStep ==
    \/ AcceptorTop \/ AcceptorPolled
    \/ AcceptLock
    \/ \E c \in Conns : AcceptReap(c)
    \/ AcceptPush \/ AcceptBegin

ConnectionStep(c) ==
    \/ Upgrade(c) \/ Connected(c) \/ HelloLock(c) \/ HelloUnlock(c)
    \/ FinishExchange(c) \/ Disconnected(c) \/ FinishClose(c) \/ FinishFlag(c)
    \/ Return(c)

StreamStep == StreamTop \/ BroadcastLock \/ BroadcastUnlock

Next ==
    \/ Start \/ StartFails \/ ConfigLock \/ StopBegin
    \/ MessageStep
    \/ \E c \in Conns : Accept(c)
    \/ AcceptorStep
    \/ \E c \in Conns :
          HttpEnds(c) \/ UpgradeWritten(c) \/ ServeEnds(c) \/ ConnectionStep(c)
    \/ StreamStep

\* Every thread that has something to do is scheduled; of connectionsMutex only
\* that a waiter which alone wants it gets it.  A peer owes nothing: a connection
\* waiting for one leaves its loop only once exit is requested, because every
\* wait on a socket is a poll with a timeout.
Fairness ==
    /\ WF_vars(MessageStep)
    /\ WF_vars(AcceptorStep)
    /\ WF_vars(StreamStep)
    /\ \A c \in Conns :
          /\ WF_vars(ConnectionStep(c))
          /\ WF_vars((HttpEnds(c) \/ ServeEnds(c)) /\ cexit[c])

Spec == Init /\ [][Next]_vars /\ Fairness

-----------------------------------------------------------------------------
(* Properties *)

Alive(c) == cpc[c] \notin {"unborn", "new", "returned", "deleted"}

\* The types, and the lock is held by the one thread whose place says so.
TypeOK ==
    /\ running \in BOOLEAN /\ listening \in {"none", "open", "closed"}
    /\ connections \subseteq Conns /\ toClose \subseteq Conns
    /\ mutex \in {"free", "message", "acceptor", "stream"} \cup Conns
    /\ (mutex = "message") = (mpc = "config")
    /\ (mutex = "acceptor") = (apc = "reap")
    /\ (mutex = "stream") = (spc = "broadcast")
    /\ \A c \in Conns : (mutex = c) = (cpc[c] = "hello")
    /\ apc \in {"none", "top", "poll", "lock", "reap", "begin", "exited"} /\ aexit \in BOOLEAN
    /\ accepted \subseteq Conns /\ reaping \subseteq Conns
    /\ cpc \in [Conns -> {"unborn", "new", "head", "switch", "connected", "helloLock",
                          "hello", "serve", "finish", "disconnected", "close", "flag",
                          "returning", "returned", "deleted"}]
    /\ cexit \in [Conns -> BOOLEAN] /\ upgraded \in [Conns -> BOOLEAN]
    /\ finished \in [Conns -> BOOLEAN] /\ open \in [Conns -> BOOLEAN]
    /\ spc \in {"none", "run", "lock", "broadcast", "exited"} /\ sexit \in BOOLEAN
    /\ mpc \in {"idle", "starting", "config", "joinStream", "joinAcceptor", "swap",
                "disconnect"}
    /\ joining \subseteq Conns /\ starts \in 0 .. MaxStarts
    /\ clients \subseteq Conns
    /\ told \in [Conns -> {"nothing", "connected", "disconnected"}]

\* No thread is out of reach of stop: whichever connection runs is in the
\* vector, or in the copy that stop is working through.
NoOrphanThread ==
    \A c \in Conns : Alive(c) => c \in connections \cup toClose \cup accepted

\* When stop has returned nothing of the session is left: no thread, no open
\* socket, no client in the engine's list ("Stops accepting, disconnects every
\* client and joins all threads").  On the way there the acceptor never polls a
\* listener that is closed: closing it earlier would set off JUCE's connection to
\* itself and leak the descriptor.
StopLeavesNothing ==
    /\ mpc = "idle" /\ ~running =>
          /\ apc = "none" /\ spc = "none" /\ listening = "none" /\ mutex = "free"
          /\ \A c \in Conns : cpc[c] \in {"unborn", "deleted"} /\ ~open[c]
          /\ clients = {}
    /\ apc \notin {"none", "exited"} => listening = "open"

\* The listener hears of a client once when it comes and once when it goes, and
\* of nobody else: the editor's list never keeps a client whose thread is gone.
CallbacksPaired ==
    /\ [](\A c \in clients : Alive(c) /\ told[c] = "connected")
    /\ [](\A c \in Conns : finished[c] => told[c] # "connected" /\ c \notin clients)
    /\ [][ \A c \in Conns : told'[c] # told[c] =>
              \/ told[c] = "nothing" /\ told'[c] = "connected"
              \/ told[c] = "connected" /\ told'[c] = "disconnected" ]_vars

\* A broadcast walks the vector under the lock; it never meets a connection
\* that the acceptor has destroyed or whose destructor is waiting to join.
BroadcastMeetsLiveOnly ==
    \/ spc = "broadcast" \/ mpc = "config"
    \/ \E c \in Conns : cpc[c] = "hello"
    => reaping = {} /\ \A c \in connections : cpc[c] # "deleted"

\* stop comes to an end: the joins wait for threads that need the lock, the
\* lock is held by a thread that joins others, and no peer has to answer.
StopTerminates == (mpc = "joinStream") ~> (mpc = "idle")

=============================================================================
