------------------------------- MODULE Plugin -------------------------------
(***************************************************************************)
(* src/src/plugin: the processor's saved state and its deferred start, the *)
(* editor, and what they ask of the engine.  The host saves and restores   *)
(* on a thread of its own, one engine call at a time; clicks, boxes, the   *)
(* editor's timer and deferred starts are the message thread's.  A project *)
(* is reopened in an instance that need not be the one that saved it.      *)
(* Audio, the server's threads and clients are in the other modules.       *)
(***************************************************************************)
EXTENDS Integers, Sequences, Functions, FiniteSetsExt

CONSTANTS
    DefaultSettings,   \* a record of format, frames, port and latency
    Projects,          \* what a project file may hold when it is first opened
    BoxFormats, BoxFrames,  \* the entries of the two boxes
    Networks,          \* sequences of addresses, the most useful first
    Ports, PortRange,  \* portSearchRange
    NoAddress, None,
    MaxPosted, MaxEvents   \* bounds on deferred starts; on user actions and other events

Settings == [format : BoxFormats, frames : Int, port : Int, latency : Int]
Addresses == {NoAddress} \cup {p.address : p \in Projects} \cup UNION {Range(n) : n \in Networks}
Saved == [settings : Settings, address : Addresses, streaming : BOOLEAN]

\* The state being saved, after getSettings and after getPreferredAddress
Drafts == [settings : Settings] \cup [settings : Settings, address : Addresses]
Editors == [format : BoxFormats, frames : BoxFrames,
            list : Networks \cup {<<>>}, address : Addresses,
            url : {None} \cup [address : Addresses, port : Ports \cup {0}]]

\* Which box has changed, and what became of the boxes and settings (see choice)
Changes == [box : {"format", "frames"}, stale : BOOLEAN, overtaken : BOOLEAN]

\* The boxes have entries for every format, and for the default packet.
ASSUME PluginAssumption ==
    /\ BoxFrames \subseteq Int
    /\ DefaultSettings \in Settings /\ DefaultSettings.frames \in BoxFrames
    /\ Projects \subseteq Saved
    /\ Networks \subseteq Seq(Addresses)
    /\ Ports \subseteq Nat \ {0}
    /\ {MaxPosted, MaxEvents} \subseteq Nat
    /\ None \notin Settings \cup Saved \cup Drafts \cup Editors \cup Changes

VARIABLES
    project,     \* the saved state
    hpc, draft,  \* the host's place in a save or restore; the state being saved
    alive,       \* there is an instance
    settings, preferredAddress, addresses, running, boundPort,  \* of its engine
    startFailed,
    posted, expired,  \* deferred starts of this instance; of destroyed ones
    editor,      \* None, or its boxes, its address list and its URL
    push,        \* None, or what pushSettingsToEngine is about to change
    starting,    \* "no", or what calls the start that is under way: "click" or "deferred"
    network, free,    \* addresses of the machine, ports nobody uses (external)
    events,      \* for the bound
    untouched,   \* of this instance, by restores and by the user (history)
    restored,    \* the project restored, as long as nothing else is done, or None (history)
    staleBoxes,  \* settings were restored since the boxes were filled or pushed (history)
    choice       \* None, or the box that changed, whether the boxes were stale then, and
                 \* whether settings were restored since they were read (history)

engine == <<settings, preferredAddress, addresses, running, boundPort>>
hostVars == <<project, hpc, draft>>
world == <<network, free, events>>
message == <<push, starting>>
history == <<untouched, restored, staleBoxes, choice>>
vars == <<hostVars, alive, engine, startFailed, posted, expired, editor, message, world, history>>

Fresh ==
    /\ settings' = DefaultSettings /\ preferredAddress' = NoAddress
    /\ addresses' = <<>> /\ running' = FALSE /\ boundPort' = 0
    /\ startFailed' = FALSE

Init ==
    /\ project \in Projects
    /\ hpc = "idle" /\ draft = None
    /\ alive = FALSE
    /\ settings = DefaultSettings /\ preferredAddress = NoAddress
    /\ addresses = <<>> /\ running = FALSE /\ boundPort = 0 /\ startFailed = FALSE
    /\ posted = 0 /\ expired = 0
    /\ editor = None /\ push = None /\ starting = "no"
    /\ network \in Networks /\ free = Ports /\ events = 0
    /\ untouched = TRUE /\ restored = None /\ staleBoxes = FALSE /\ choice = None

-----------------------------------------------------------------------------
(* The engine *)

\* getPreferredAddress: the chosen one as long as the list has it, else the first
PreferredAddress(list, preferred) ==
    IF preferred \in Range(list) THEN preferred
    ELSE IF list = <<>> THEN NoAddress ELSE list[1]

Candidates == free \cap (settings.port .. settings.port + PortRange - 1)

\* startStreaming.  start returns at once when the engine runs; else it looks the
\* addresses up before it binds a port.
StartStreaming(caller) ==
    \/ running /\ startFailed' = FALSE /\ UNCHANGED <<engine, starting>>
    \/ /\ ~running
       /\ addresses' = network
       /\ starting' = caller
       /\ UNCHANGED <<settings, preferredAddress, running, boundPort, startFailed>>

StopStreaming ==
    /\ running' = FALSE /\ boundPort' = 0 /\ startFailed' = FALSE
    /\ UNCHANGED <<settings, preferredAddress, addresses>>

-----------------------------------------------------------------------------
(* The host *)

\* The message thread is between two handlers.
Idle == push = None /\ starting = "no"

HostIs(place, next) == alive /\ hpc = place /\ hpc' = next

CreateProcessor ==
    /\ ~alive /\ alive' = TRUE
    /\ Fresh
    /\ UNCHANGED <<hostVars, posted, expired, editor, message, world, history>>

\* The destructor stops the engine; what is deferred finds its token expired.
DestroyProcessor ==
    /\ alive /\ hpc = "idle" /\ Idle
    /\ alive' = FALSE /\ editor' = None
    /\ Fresh
    /\ expired' = expired + posted /\ posted' = 0
    /\ untouched' = TRUE /\ restored' = None /\ staleBoxes' = FALSE
    /\ UNCHANGED <<hostVars, message, world, choice>>

\* setStateInformation: setSettings, setPreferredAddress, callAsync
RestoreSettings ==
    /\ HostIs("idle", "restoreAddress")
    /\ posted + expired < MaxPosted
    /\ settings' = project.settings
    /\ staleBoxes' = (editor # None)
    /\ choice' = IF choice = None THEN None ELSE [choice EXCEPT !.overtaken = TRUE]
    /\ untouched' = FALSE /\ restored' = IF untouched THEN project ELSE None
    /\ UNCHANGED <<project, draft, alive, preferredAddress, addresses, running, boundPort,
                   startFailed, posted, expired, editor, message, world>>

RestoreAddress ==
    /\ HostIs("restoreAddress", "restorePost")
    /\ preferredAddress' = project.address
    /\ UNCHANGED <<project, draft, alive, settings, addresses, running, boundPort,
                   startFailed, posted, expired, editor, message, world, history>>

\* Mutant: the engine is asked whether it streams, and not the project.
StreamedNow == running
Streamed == project.streaming

RestorePost ==
    /\ HostIs("restorePost", "idle")
    /\ posted' = IF Streamed THEN posted + 1 ELSE posted
    /\ UNCHANGED <<project, draft, alive, engine, startFailed, expired, editor, message, world,
                   history>>

\* Mutant: the port in use is saved, and not the preferred one.
SavedSettingsBound == IF running THEN [settings EXCEPT !.port = boundPort] ELSE settings
SavedSettings == settings

\* getStateInformation: getSettings, getPreferredAddress, isRunning
SaveSettings ==
    /\ HostIs("idle", "saveAddress")
    /\ draft' = [settings |-> SavedSettings]
    /\ UNCHANGED <<project, alive, engine, startFailed, posted, expired, editor, message, world,
                   history>>

SaveAddress ==
    /\ HostIs("saveAddress", "saveStreaming")
    /\ draft' = [settings |-> draft.settings,
                 address |-> PreferredAddress(addresses, preferredAddress)]
    /\ UNCHANGED <<project, alive, engine, startFailed, posted, expired, editor, message, world,
                   history>>

SaveStreaming ==
    /\ HostIs("saveStreaming", "idle")
    /\ project' = [settings |-> draft.settings, address |-> draft.address,
                   streaming |-> running]
    /\ draft' = None
    /\ UNCHANGED <<alive, engine, startFailed, posted, expired, editor, message, world, history>>

Happens == events < MaxEvents /\ events' = events + 1

-----------------------------------------------------------------------------
(* The message thread *)

\* refreshFromEngine, at the end of a handler; the address box selects again
\* only when the list has changed.
Refreshed(boxes) ==
    LET address == PreferredAddress(addresses', preferredAddress')
    IN  [boxes EXCEPT
            !.address = IF addresses' # boxes.list THEN address ELSE @,
            !.list = addresses',
            !.url = IF address = NoAddress \/ ~running' THEN None
                    ELSE [address |-> address, port |-> boundPort']]

ByUser ==
    /\ editor # None /\ Idle
    /\ Happens
    /\ untouched' = FALSE /\ restored' = None
    /\ UNCHANGED <<hostVars, alive, posted, expired, network, free, staleBoxes>>

Click ==
    /\ ByUser
    /\ \/ running /\ StopStreaming /\ editor' = Refreshed(editor) /\ UNCHANGED starting
       \/ ~running /\ StartStreaming("click") /\ UNCHANGED editor
    /\ UNCHANGED <<push, choice>>

\* The rest of start and startStreaming, and the refresh after a click
FinishStart ==
    /\ starting # "no" /\ starting' = "no"
    /\ running' = (Candidates # {})
    /\ boundPort' = IF Candidates = {} THEN 0 ELSE Min(Candidates)
    /\ startFailed' = ~running'
    /\ UNCHANGED <<hostVars, alive, settings, preferredAddress, addresses, posted, expired, push,
                   world, history>>
    /\ editor' = IF starting = "click" THEN Refreshed(editor) ELSE editor

ChooseAddress(a) ==
    /\ ByUser /\ a \in Range(editor.list)
    /\ preferredAddress' = a
    /\ UNCHANGED <<settings, addresses, running, boundPort, startFailed, message, choice>>
    /\ editor' = Refreshed([editor EXCEPT !.address = a])

\* A box changes and pushSettingsToEngine reads the settings.
ReadSettings(box) ==
    /\ ByUser
    /\ push' = settings
    /\ choice' = [box |-> box, stale |-> staleBoxes, overtaken |-> FALSE]
    /\ UNCHANGED <<engine, startFailed, starting>>

ChooseFormat(f) ==
    /\ ReadSettings("format") /\ f # editor.format
    /\ editor' = [editor EXCEPT !.format = f]

ChooseFrames(n) ==
    /\ ReadSettings("frames") /\ n # editor.frames
    /\ editor' = [editor EXCEPT !.frames = n]

\* Mutant: the box of formats is not looked at.
PushedFramesOnly == [push EXCEPT !.frames = editor.frames]
Pushed == [push EXCEPT !.format = editor.format, !.frames = editor.frames]

\* The rest of pushSettingsToEngine
PushSettings ==
    /\ push # None /\ push' = None
    /\ settings' = Pushed
    /\ staleBoxes' = FALSE /\ choice' = None
    /\ UNCHANGED <<hostVars, alive, preferredAddress, addresses, running, boundPort,
                   startFailed, posted, expired, editor, starting, world, untouched, restored>>

OpenEditor ==
    /\ alive /\ editor = None /\ Idle
    /\ UNCHANGED <<hostVars, alive, engine, startFailed, posted, expired, message, world, untouched,
                   restored, choice>>
    /\ editor' = Refreshed([format |-> settings.format,
                            frames |-> IF settings.frames \in BoxFrames THEN settings.frames
                                       ELSE DefaultSettings.frames,
                            list |-> <<>>, address |-> NoAddress, url |-> None])
    /\ staleBoxes' = FALSE

\* The host may close the window at any time.
CloseEditor ==
    /\ editor # None /\ Idle
    /\ editor' = None
    /\ UNCHANGED <<hostVars, alive, engine, startFailed, posted, expired, message, world, history>>

timerCallback ==
    /\ editor # None /\ Idle
    /\ UNCHANGED <<hostVars, alive, engine, startFailed, posted, expired, message, world, history>>
    /\ editor' = Refreshed(editor)

DeferredStart ==
    /\ posted > 0 /\ Idle
    /\ posted' = posted - 1
    /\ StartStreaming("deferred")
    /\ UNCHANGED <<hostVars, alive, expired, editor, push, world, history>>

\* Mutant: the lambda does not look at its token.
DeferredTooLateStarts ==
    /\ expired > 0 /\ Idle
    /\ expired' = expired - 1
    /\ StartStreaming("deferred")
    /\ UNCHANGED <<hostVars, alive, posted, editor, push, world, history>>
DeferredTooLate ==
    /\ expired > 0 /\ Idle
    /\ expired' = expired - 1
    /\ UNCHANGED <<hostVars, alive, engine, startFailed, posted, editor, message, world, history>>

\* Interfaces come and go, other programs take ports and give them back.
WorldChanges ==
    /\ Happens
    /\ \/ network' \in Networks /\ UNCHANGED free
       \/ free' \in SUBSET Ports /\ UNCHANGED network
    /\ UNCHANGED <<hostVars, alive, engine, startFailed, posted, expired, editor, message, history>>

-----------------------------------------------------------------------------
Host ==
    \/ RestoreSettings \/ RestoreAddress \/ RestorePost
    \/ SaveSettings \/ SaveAddress \/ SaveStreaming
    \/ CreateProcessor \/ DestroyProcessor

Message ==
    \/ Click \/ timerCallback \/ OpenEditor \/ CloseEditor
    \/ \E a \in UNION {Range(n) : n \in Networks} : ChooseAddress(a)
    \/ \E f \in BoxFormats : ChooseFormat(f)
    \/ \E n \in BoxFrames : ChooseFrames(n)
    \/ PushSettings \/ FinishStart \/ DeferredStart \/ DeferredTooLate

Next == Host \/ Message \/ WorldChanges

\* A restore that has begun comes to its end, and so does a handler; a message
\* that is posted is dispatched.
Fairness ==
    /\ WF_vars(RestoreAddress) /\ WF_vars(RestorePost)
    /\ WF_vars(PushSettings) /\ WF_vars(FinishStart) /\ WF_vars(DeferredStart)

Spec == Init /\ [][Next]_vars /\ Fairness

-----------------------------------------------------------------------------
(* Properties *)

\* The types.  And no engine runs without its processor: a start that was
\* deferred and outlived it does nothing.  A failed start is shown only while
\* nothing streams, however starts, deferred or not, and stops follow each other.
TypeOK ==
    /\ {alive, running, startFailed, staleBoxes} \subseteq BOOLEAN
    /\ hpc \in {"idle", "restoreAddress", "restorePost", "saveAddress", "saveStreaming"}
    /\ (draft = None) = (hpc \notin {"saveAddress", "saveStreaming"})
    /\ project \in Saved /\ restored \in Saved \cup {None}
    /\ settings \in Settings /\ push \in Settings \cup {None}
    /\ preferredAddress \in Addresses /\ editor \in Editors \cup {None}
    /\ network \in Networks /\ free \subseteq Ports
    /\ addresses \in Networks \cup {<<>>} /\ boundPort \in Ports \cup {0}
    /\ posted + expired \in 0 .. MaxPosted
    /\ choice \in Changes \cup {None}
    /\ push # None \/ starting = "click" => editor # None
    /\ starting \in {"no", "click", "deferred"} /\ (starting # "no" => alive /\ ~running)
    /\ editor # None => alive
    /\ running => alive /\ boundPort # 0 /\ ~startFailed
    /\ untouched \in BOOLEAN /\ events \in 0 .. MaxEvents

\* "Reopening a project that was streaming should stream again": every restore
\* of such a project leads to a running engine or to a failure that is shown,
\* unless the processor goes first.
RestoredStreams ==
    hpc = "restoreAddress" /\ project.streaming ~> running \/ startFailed \/ ~alive

\* Opening a project and saving it again keeps what it says, with nobody having
\* touched anything: the settings always; streaming unless its start has not
\* come to its end or has failed; the address if the last start has seen it.
SaveKeepsRestored ==
    [][ restored # None =>
          /\ (SaveSettings => draft'.settings = restored.settings)
          /\ (SaveAddress /\ restored.address \in Range(addresses) =>
                draft'.address = restored.address)
          /\ (SaveStreaming /\ project'.streaming # restored.streaming =>
                restored.streaming /\ (posted > 0 \/ starting # "no" \/ startFailed)) ]_vars

\* Choosing an entry of one box gives that setting the value chosen and leaves
\* every other as it was when the choice is stored, although pushSettingsToEngine
\* writes both boxes over what it has read.  A restore that comes between the
\* reading and the storing is lost as a whole: the others are then as they were
\* read.  The setting of the other box alone may be one that was neither read nor
\* restored: what its box shows, if the boxes were already older than a restore
\* or have no entry for what was read.
BoxChangesOneThing ==
    [][ push # None /\ push' = None =>
          \A field \in DOMAIN settings :
             \/ field = choice.box /\ settings'[field] = editor[field]
             \/ /\ field # choice.box
                /\ settings'[field] = IF choice.overtaken THEN push[field] ELSE settings[field]
             \/ /\ field \in {"format", "frames"} \ {choice.box}
                /\ settings'[field] = editor[field]
                /\ choice.stale \/ (field = "frames" /\ push.frames \notin BoxFrames) ]_vars

=============================================================================
