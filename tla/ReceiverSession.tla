-------------------------- MODULE ReceiverSession --------------------------
(***************************************************************************)
(* src/web/app.js: the LISTEN / STOP button and the connection of the      *)
(* receiver page.  JavaScript runs one handler at a time, so a handler is  *)
(* one step, except startListening, which is suspended at its two awaits   *)
(* and can be entered again meanwhile.  The handlers of a socket do not    *)
(* test which socket they belong to.                                       *)
(*                                                                         *)
(* The browser's WebSocket is external: close() leads to a close event     *)
(* later, and a lost connection to a close event without warning.  The     *)
(* wake lock itself, the meters and the volume are left out.               *)
(***************************************************************************)
EXTENDS Integers, FiniteSets

CONSTANTS
    Sockets,    \* WebSocket objects; a closed one may stand for a new one
    NoSocket,   \* null
    MaxClicks,  \* bound on clicks on the button
    MaxDrops    \* bound on losses of the network and on connections ended by the server

ASSUME SessionAssumption ==
    /\ NoSocket \notin Sockets /\ IsFiniteSet(Sockets)
    /\ MaxClicks \in Nat /\ MaxDrops \in Nat

VARIABLES
    playing,         \* playing
    nodes,           \* script processors created: node is null or not
    wakeLockApi,     \* caps.wakeLock
    resuming,        \* calls of startListening suspended at ctx.resume()
    locking,         \* calls of startListening suspended at wakeLock.request()
    socket,          \* socket
    conn,            \* state of each WebSocket object
    timer,           \* reconnectTimer is set
    reconnectDelay,  \* reconnectDelay, in milliseconds
    status,          \* the kind last given to setStatus
    reachable,       \* the server can be reached (external)
    clicks, drops,   \* counters for the bounds
    stops            \* calls of stopListening (history)

start == <<nodes, resuming, locking>>
link == <<socket, conn, status>>
retry == <<timer, reconnectDelay>>
world == <<wakeLockApi, reachable, clicks, drops, stops>>
vars == <<playing, start, link, retry, world>>

Init ==
    /\ playing = FALSE /\ nodes = 0
    /\ wakeLockApi \in BOOLEAN
    /\ resuming = 0 /\ locking = 0
    /\ socket = NoSocket /\ conn = [s \in Sockets |-> "closed"]
    /\ timer = FALSE /\ reconnectDelay = 500
    /\ status = "idle"
    /\ reachable = TRUE
    /\ clicks = 0 /\ drops = 0 /\ stops = 0

-----------------------------------------------------------------------------
\* connect
NewSocket ==
    \E s \in Sockets :
        /\ conn[s] = "closed"
        /\ socket' = s
        /\ conn' = [conn EXCEPT ![s] = "connecting"]
        /\ status' = "connecting"

\* Mutant: connect does not ask whether there is a socket.
ConnectUnguarded == NewSocket
Connect ==
    \/ socket # NoSocket /\ UNCHANGED link
    \/ socket = NoSocket /\ NewSocket

\* The rest of startListening, after the last await
Listen == playing' = TRUE /\ Connect

\* The rest of startListening, after ctx is running
Resumed ==
    /\ nodes' = IF nodes = 0 THEN 1 ELSE nodes
    /\ \/ wakeLockApi /\ locking' = locking + 1 /\ UNCHANGED <<playing, link>>
       \/ ~wakeLockApi /\ Listen /\ UNCHANGED locking

Click == clicks < MaxClicks /\ clicks' = clicks + 1

\* startListening, when ctx.state is not "running" and when it is
StartSuspended ==
    /\ ~playing /\ Click
    /\ resuming' = resuming + 1
    /\ UNCHANGED <<playing, nodes, locking, link, retry, wakeLockApi, reachable, drops, stops>>

StartRunning ==
    /\ ~playing /\ Click
    /\ Resumed
    /\ UNCHANGED <<resuming, retry, wakeLockApi, reachable, drops, stops>>

ContextResumes ==
    /\ resuming > 0
    /\ resuming' = resuming - 1
    /\ Resumed
    /\ UNCHANGED <<retry, world>>

WakeLockSettles ==
    /\ locking > 0
    /\ locking' = locking - 1
    /\ Listen
    /\ UNCHANGED <<nodes, resuming, retry, world>>

\* stopListening: the reconnect timer keeps running
StopListening ==
    /\ playing /\ Click
    /\ playing' = FALSE
    /\ conn' = [s \in Sockets |-> IF s = socket THEN "closing" ELSE conn[s]]
    /\ socket' = NoSocket
    /\ status' = "idle"
    /\ stops' = stops + 1
    /\ UNCHANGED <<start, retry, wakeLockApi, reachable, drops>>

-----------------------------------------------------------------------------
Opened(s) ==
    /\ conn[s] = "connecting" /\ reachable
    /\ conn' = [conn EXCEPT ![s] = "open"]
    /\ reconnectDelay' = 500
    /\ status' = "live"
    /\ UNCHANGED <<playing, start, socket, timer, world>>

\* Mutant: the delay is doubled and never limited.
BackoffUnlimited == 2 * reconnectDelay
Backoff == IF 2 * reconnectDelay < 5000 THEN 2 * reconnectDelay ELSE 5000

ScheduleReconnect ==
    /\ timer' = TRUE
    /\ reconnectDelay' = IF timer THEN reconnectDelay ELSE Backoff

\* Mutant: onclose forgets to clear socket.
ClosedKeepsSocket(s) ==
    /\ conn' = [conn EXCEPT ![s] = "closed"]
    /\ status' = "error"
    /\ ScheduleReconnect
    /\ UNCHANGED <<playing, start, socket>>

\* Mutant: only a connection that was open is tried again.
ClosedRetriesOpenOnly(s) ==
    /\ conn' = [conn EXCEPT ![s] = "closed"]
    /\ socket' = NoSocket
    /\ status' = "error"
    /\ IF conn[s] = "open" THEN ScheduleReconnect ELSE UNCHANGED <<timer, reconnectDelay>>
    /\ UNCHANGED <<playing, start>>

Closed(s) ==
    /\ conn' = [conn EXCEPT ![s] = "closed"]
    /\ socket' = NoSocket
    /\ status' = "error"
    /\ ScheduleReconnect
    /\ UNCHANGED <<playing, start>>

CloseEvent(s) ==
    /\ \/ conn[s] = "closing"
       \/ conn[s] \in {"connecting", "open"} /\ ~reachable
    /\ Closed(s)
    /\ UNCHANGED world

\* The server refuses or ends a connection although it can be reached.
ServerEnds(s) ==
    /\ conn[s] \in {"connecting", "open"} /\ reachable
    /\ drops < MaxDrops /\ drops' = drops + 1
    /\ Closed(s)
    /\ UNCHANGED <<wakeLockApi, reachable, clicks, stops>>

TimerFires ==
    /\ timer
    /\ timer' = FALSE
    /\ Connect
    /\ UNCHANGED <<playing, start, reconnectDelay, world>>

NetworkLost ==
    /\ reachable /\ drops < MaxDrops
    /\ reachable' = FALSE /\ drops' = drops + 1
    /\ UNCHANGED <<playing, start, link, retry, wakeLockApi, clicks, stops>>

NetworkBack ==
    /\ ~reachable
    /\ reachable' = TRUE
    /\ UNCHANGED <<playing, start, link, retry, wakeLockApi, clicks, drops, stops>>

-----------------------------------------------------------------------------
Next ==
    \/ StartSuspended \/ StartRunning \/ StopListening
    \/ ContextResumes \/ WakeLockSettles
    \/ \E s \in Sockets : Opened(s) \/ CloseEvent(s) \/ ServerEnds(s)
    \/ TimerFires
    \/ NetworkLost \/ NetworkBack

\* The browser settles its promises, fires its timers and reports what becomes
\* of a socket.  The user need not click and the network need not come back.
Spec ==
    /\ Init /\ [][Next]_vars
    /\ WF_vars(ContextResumes) /\ WF_vars(WakeLockSettles) /\ WF_vars(TimerFires)
    /\ \A s \in Sockets : WF_vars(Opened(s)) /\ WF_vars(CloseEvent(s))

-----------------------------------------------------------------------------
(* Properties *)

TypeOK ==
    /\ playing \in BOOLEAN /\ wakeLockApi \in BOOLEAN
    /\ timer \in BOOLEAN /\ reachable \in BOOLEAN
    /\ nodes \in 0 .. 1
    /\ resuming \in 0 .. MaxClicks /\ locking \in 0 .. MaxClicks
    /\ socket \in Sockets \cup {NoSocket}
    /\ conn \in [Sockets -> {"connecting", "open", "closing", "closed"}]
    /\ reconnectDelay \in {500, 1000, 2000, 4000, 5000}
    /\ status \in {"idle", "connecting", "live", "error"}
    /\ clicks \in 0 .. MaxClicks /\ drops \in 0 .. MaxDrops /\ stops \in 0 .. MaxClicks

\* While the page says STOP it has a connection that is being made or in use,
\* or a timer that will make one: no order of clicks, awaits, close events and
\* timers leaves it waiting for nothing.  And it says "connected" only while a
\* connection is open, although every socket's handlers write the same status.
ListeningIsServed ==
    /\ playing => socket # NoSocket \/ timer
    /\ socket # NoSocket => conn[socket] \in {"connecting", "open"}
    /\ status = "live" => \E s \in Sockets : conn[s] = "open"

\* A connection that the page no longer refers to, and which keeps feeding the
\* ring, exists at most once for each STOP: entering startListening again
\* during its awaits, retries and server failures leave none.
Strays == {s \in Sockets : conn[s] # "closed" /\ s # socket}
StraysComeFromStops == Cardinality(Strays) <= stops

\* protocol.md step 7: on disconnect, reconnect with backoff.  When the server
\* stays reachable and the user leaves the page listening, the page ends up
\* with an open connection, and says so.
StreamSettles ==
    <>[](playing /\ reachable) =>
        <>[](socket # NoSocket /\ conn[socket] = "open" /\ status = "live")

=============================================================================
