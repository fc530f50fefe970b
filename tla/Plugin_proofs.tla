--------------------------- MODULE Plugin_proofs ---------------------------
(***************************************************************************)
(* The processor's saved state, its deferred start and the editor, for any *)
(* projects, networks, ports and boxes: the types, that a project opened   *)
(* and saved again is kept, and that a box changes one setting.            *)
(*                                                                         *)
(* The invariant is a conjunction of five parts, one for each actor and    *)
(* two about the history; a step that leaves the variables of a part alone *)
(* leaves the part alone (HostStays and the lemmas after it).              *)
(***************************************************************************)
EXTENDS Plugin, SequenceTheorems, WellFoundedInduction, TLAPS

-----------------------------------------------------------------------------
(* The invariant                                                             *)

\* The host is in the middle of setStateInformation.
Restoring == hpc \in {"restoreAddress", "restorePost"}
NothingStarted == ~running /\ posted = 0 /\ starting = "no"

\* The host: what it has of a state that it is saving, and room for the start
\* that a restore under way may post.
HostInv ==
    /\ project \in Saved
    /\ hpc \in {"idle", "restoreAddress", "restorePost", "saveAddress", "saveStreaming"}
    /\ hpc = "saveAddress" => draft \in [settings : Settings]
    /\ hpc = "saveStreaming" => draft \in [settings : Settings, address : Addresses]
    /\ hpc \notin {"saveAddress", "saveStreaming"} => draft = None
    /\ posted \in Nat /\ expired \in Nat /\ posted + expired <= MaxPosted
    /\ Restoring => posted + expired < MaxPosted

\* The engine runs in an instance, on a port, and not while it is being started.
EngineInv ==
    /\ alive \in BOOLEAN /\ running \in BOOLEAN /\ startFailed \in BOOLEAN
    /\ settings \in Settings /\ preferredAddress \in Addresses
    /\ addresses \in Networks \cup {<<>>} /\ boundPort \in Ports \cup {0}
    /\ network \in Networks /\ free \in SUBSET Ports /\ events \in 0 .. MaxEvents
    /\ starting \in {"no", "click", "deferred"}
    /\ starting # "no" => alive /\ ~running
    /\ running => alive /\ boundPort # 0 /\ ~startFailed

\* The editor is open as long as one of its handlers runs.
EditorInv ==
    /\ editor \in Editors \cup {None} /\ push \in Settings \cup {None}
    /\ push # None \/ starting = "click" => editor # None
    /\ editor # None => alive

\* An instance that nobody has touched does nothing; one that was only restored
\* has what was restored, and has started, is about to start or has failed to.
RestoredInv ==
    /\ untouched \in BOOLEAN /\ restored \in Saved \cup {None}
    /\ ~alive => untouched
    /\ untouched => restored = None /\ push = None /\ NothingStarted /\ ~Restoring
    /\ restored # None =>
          /\ push = None /\ settings = restored.settings
          /\ hpc # "restoreAddress" => preferredAddress = restored.address
          /\ Restoring => restored = project /\ NothingStarted
          /\ ~Restoring /\ restored.streaming =>
                running \/ posted > 0 \/ starting # "no" \/ startFailed
          /\ ~Restoring /\ ~restored.streaming => NothingStarted

\* What the boxes show, for which there is an entry, is in the settings.
Shows(boxes, in) ==
    /\ boxes.format = in.format
    /\ in.frames \in BoxFrames => boxes.frames = in.frames

\* The same of the box that has not changed.
OtherShows(boxes, in, box) ==
    /\ box = "frames" => boxes.format = in.format
    /\ box = "format" /\ in.frames \in BoxFrames => boxes.frames = in.frames

\* Boxes that are not older than a restore show the settings.  While a change is
\* pushed, the other box shows what pushSettingsToEngine has read, and that is
\* what the settings are unless a restore has overtaken it.
BoxesInv ==
    /\ staleBoxes \in BOOLEAN /\ choice \in Changes \cup {None}
    /\ push # None <=> choice # None
    /\ editor # None /\ ~staleBoxes /\ push = None => Shows(editor, settings)
    /\ push # None =>
          /\ choice.stale \/ OtherShows(editor, push, choice.box)
          /\ choice.overtaken \/ push = settings

\* All of it: inductive.
PluginInv == HostInv /\ EngineInv /\ EditorInv /\ RestoredInv /\ BoxesInv

\* A step that leaves the host's variables alone leaves its invariant alone.
LEMMA HostStays ==
    ASSUME HostInv, UNCHANGED <<project, hpc, draft, posted, expired>>
    PROVE  HostInv'
BY DEF HostInv, Restoring

\* The same for the engine.
LEMMA EngineStays ==
    ASSUME EngineInv,
           UNCHANGED <<alive, running, startFailed, settings, preferredAddress, addresses,
                       boundPort, network, free, events, starting>>
    PROVE  EngineInv'
BY DEF EngineInv

\* The same for the editor.
LEMMA EditorStays ==
    ASSUME EditorInv, UNCHANGED <<editor, push, starting, alive>>
    PROVE  EditorInv'
BY DEF EditorInv

\* The same for what was restored.
LEMMA RestoredStays ==
    ASSUME RestoredInv,
           UNCHANGED <<untouched, restored, alive, push, running, posted, starting, hpc,
                       settings, preferredAddress, project, startFailed>>
    PROVE  RestoredInv'
BY Zenon DEF RestoredInv, NothingStarted, Restoring

\* The same for the boxes.
LEMMA BoxesStay ==
    ASSUME BoxesInv, UNCHANGED <<staleBoxes, choice, editor, push, settings>>
    PROVE  BoxesInv'
BY Zenon DEF BoxesInv

-----------------------------------------------------------------------------
(* What the operators return                                                 *)

\* What is assumed, one constant at a time.
LEMMA Constants ==
    /\ NoAddress \in Addresses /\ None \notin Settings /\ None \notin Saved
    /\ None \notin [settings : Settings] /\ None \notin [settings : Settings, address : Addresses]
    /\ None \notin Editors /\ None \notin Changes
    /\ DefaultSettings \in Settings /\ DefaultSettings.frames \in BoxFrames
    /\ BoxFrames \subseteq Int /\ Projects \subseteq Saved /\ Ports \subseteq Nat \ {0}
    /\ MaxPosted \in Nat /\ MaxEvents \in Nat
BY PluginAssumption DEF Addresses, Drafts

\* The address that is shown and saved is one of the list's, or none.
LEMMA PreferredAddressIs ==
    ASSUME NEW list \in Networks \cup {<<>>}, NEW preferred \in Addresses
    PROVE  /\ PreferredAddress(list, preferred) \in Addresses
           /\ preferred \in Range(list) => PreferredAddress(list, preferred) = preferred
<1>1. list # <<>> => list[1] \in Addresses
  <2>1. ASSUME list # <<>> PROVE list[1] \in Addresses
    <3>1. list \in Seq(Addresses)
      BY <2>1, PluginAssumption
    <3>2. Len(list) \in Nat /\ Len(list) # 0
      BY <2>1, <3>1, LenProperties, EmptySeq
    <3>3. 1 \in 1 .. Len(list)
      BY <3>2
    <3> QED
      BY <3>1, <3>3, ElementOfSeq
  <2> QED
    BY <2>1
<1> QED
  BY <1>1, Constants, Zenon DEF PreferredAddress

\* A refreshed editor is one, with the boxes that it had.
LEMMA RefreshedIs ==
    ASSUME NEW boxes \in Editors, EngineInv'
    PROVE  /\ Refreshed(boxes) \in Editors
           /\ Refreshed(boxes).format = boxes.format /\ Refreshed(boxes).frames = boxes.frames
<1> DEFINE address == PreferredAddress(addresses', preferredAddress')
           shown == IF addresses' # boxes.list THEN address ELSE boxes.address
           url == IF address = NoAddress \/ ~running' THEN None
                  ELSE [address |-> address, port |-> boundPort']
           c == [boxes EXCEPT !.address = shown]
           d == [c EXCEPT !.list = addresses']
           e == [d EXCEPT !.url = url]
<1>1. /\ addresses' \in Networks \cup {<<>>} /\ preferredAddress' \in Addresses
      /\ boundPort' \in Ports \cup {0}
  BY DEF EngineInv
<1>2. address \in Addresses
  BY <1>1, PreferredAddressIs
<1>3. boxes = [format |-> boxes.format, frames |-> boxes.frames, list |-> boxes.list,
               address |-> boxes.address, url |-> boxes.url]
      /\ boxes.format \in BoxFormats /\ boxes.frames \in BoxFrames /\ boxes.address \in Addresses
  BY DEF Editors
<1>4. Refreshed(boxes) = e
  BY <1>3, Zenon DEF Refreshed
<1>5. shown \in Addresses
  BY <1>2, <1>3
<1>6. url \in {None} \cup [address : Addresses, port : Ports \cup {0}]
  <2> HIDE DEF address
  <2>1. [address |-> address, port |-> boundPort'] \in [address : Addresses, port : Ports \cup {0}]
    BY <1>1, <1>2
  <2> QED
    BY <2>1, Zenon
<1> HIDE DEF address, shown, url
<1>7. c = [format |-> boxes.format, frames |-> boxes.frames, list |-> boxes.list,
           address |-> shown, url |-> boxes.url]
  BY <1>3
<1> HIDE DEF c
<1>8. d = [format |-> boxes.format, frames |-> boxes.frames, list |-> addresses',
           address |-> shown, url |-> boxes.url]
  BY <1>7
<1> HIDE DEF d
<1>9. e = [format |-> boxes.format, frames |-> boxes.frames, list |-> addresses',
           address |-> shown, url |-> url]
  BY <1>8
<1> HIDE DEF e
<1> QED
  BY <1>1, <1>3, <1>4, <1>5, <1>6, <1>9 DEF Editors

\* The port that start binds is one of the machine's.
LEMMA LeastPort ==
    ASSUME Candidates # {}, free \in SUBSET Ports
    PROVE  Min(Candidates) \in Ports /\ Min(Candidates) # 0
<1>1. Candidates \subseteq Ports
  BY DEF Candidates
<1>2. Ports \subseteq Nat \ {0}
  BY Constants
<1>3. Candidates \subseteq Nat
  BY <1>1, <1>2
<1> DEFINE C == Candidates
<1> HIDE DEF C
<1>4. \E x \in C : \A y \in C : x <= y
  <2> DEFINE R == OpToRel(<, Nat)
  <2>1. IsWellFoundedOn(R, Nat)
    BY NatLessThanWellFounded DEF OpToRel
  <2> HIDE DEF R
  <2>2. C \subseteq Nat /\ C # {}
    BY <1>3 DEF C
  <2>3. PICK x \in C : \A y \in C : ~ (<<y, x>> \in R)
    BY <2>1, <2>2, WFMin, Zenon
  <2>4. \A y \in C : <<y, x>> \in Nat \X Nat
    BY <2>2
  <2>5. \A y \in C : ~ (y < x)
    BY <2>3, <2>4 DEF R, OpToRel
  <2> QED
    BY <2>2, <2>5
<1>5. Min(C) \in C
  BY <1>4, Zenon DEF Min
<1> QED
  BY <1>1, <1>2, <1>5 DEF C

-----------------------------------------------------------------------------
(* The steps of the host                                                     *)

\* The invariant holds before there is an instance.
LEMMA InitInv == Init => PluginInv
<1> SUFFICES ASSUME Init PROVE PluginInv
  OBVIOUS
<1>1. /\ project \in Projects /\ hpc = "idle" /\ draft = None /\ alive = FALSE
      /\ settings = DefaultSettings /\ preferredAddress = NoAddress
      /\ addresses = <<>> /\ running = FALSE /\ boundPort = 0 /\ startFailed = FALSE
      /\ posted = 0 /\ expired = 0 /\ editor = None /\ push = None /\ starting = "no"
      /\ network \in Networks /\ free = Ports /\ events = 0
      /\ untouched = TRUE /\ restored = None /\ staleBoxes = FALSE /\ choice = None
  BY DEF Init
<1>2. HostInv
  BY <1>1, Constants DEF HostInv, Restoring
<1>3. EngineInv
  <2>1. events \in 0 .. MaxEvents
    BY <1>1, Constants
  <2> QED
    BY <1>1, <2>1, Constants, Zenon DEF EngineInv
<1>4. EditorInv
  BY <1>1, Zenon DEF EditorInv
<1>5. RestoredInv
  BY <1>1, Zenon DEF RestoredInv, NothingStarted, Restoring
<1>6. BoxesInv
  BY <1>1, Zenon DEF BoxesInv
<1> QED
  BY <1>2, <1>3, <1>4, <1>5, <1>6 DEF PluginInv

\* A new instance has its defaults, and nobody has touched it.
LEMMA CreateStep ==
    ASSUME PluginInv, CreateProcessor
    PROVE  PluginInv'
<1>1. HostInv /\ EngineInv /\ EditorInv /\ RestoredInv /\ BoxesInv
  BY DEF PluginInv
<1>2. /\ ~alive /\ alive' = TRUE
      /\ settings' = DefaultSettings /\ preferredAddress' = NoAddress
      /\ addresses' = <<>> /\ running' = FALSE /\ boundPort' = 0 /\ startFailed' = FALSE
      /\ UNCHANGED <<project, hpc, draft, posted, expired, editor, push, starting,
                    network, free, events, untouched, restored, staleBoxes, choice>>
  BY Zenon DEF CreateProcessor, Fresh, hostVars, message, world, history
<1>3. untouched /\ editor = None /\ starting = "no" /\ push = None
  BY <1>1, <1>2, Zenon DEF RestoredInv, NothingStarted, EditorInv
<1>4. HostInv'
  BY <1>1, <1>2, HostStays
<1>5. EngineInv'
  BY <1>1, <1>2, <1>3, Constants, Zenon DEF EngineInv
<1>6. EditorInv'
  BY <1>1, <1>2, <1>3, Zenon DEF EditorInv
<1>7. RestoredInv'
  BY <1>1, <1>2, <1>3, Zenon DEF RestoredInv, NothingStarted, Restoring
<1>8. BoxesInv'
  BY <1>1, <1>2, <1>3, Zenon DEF BoxesInv
<1> QED
  BY <1>4, <1>5, <1>6, <1>7, <1>8 DEF PluginInv

\* With the instance goes all that it was doing; its posted starts are expired.
LEMMA DestroyStep ==
    ASSUME PluginInv, DestroyProcessor
    PROVE  PluginInv'
<1>1. HostInv /\ EngineInv /\ EditorInv /\ RestoredInv /\ BoxesInv
  BY DEF PluginInv
<1>2. /\ hpc = "idle" /\ push = None /\ starting = "no"
      /\ alive' = FALSE /\ editor' = None
      /\ settings' = DefaultSettings /\ preferredAddress' = NoAddress
      /\ addresses' = <<>> /\ running' = FALSE /\ boundPort' = 0 /\ startFailed' = FALSE
      /\ expired' = expired + posted /\ posted' = 0
      /\ untouched' = TRUE /\ restored' = None /\ staleBoxes' = FALSE
      /\ UNCHANGED <<project, hpc, draft, push, choice, starting, network, free, events>>
  BY Zenon DEF DestroyProcessor, Fresh, Idle, hostVars, message, world
<1>4. HostInv'
  <2>1. /\ posted' \in Nat /\ expired' \in Nat /\ posted' + expired' <= MaxPosted
    BY <1>1, <1>2, Constants DEF HostInv
  <2>2. ~Restoring'
    BY <1>2 DEF Restoring
  <2> QED
    BY <1>1, <1>2, <2>1, <2>2, Zenon DEF HostInv
<1>5. EngineInv'
  BY <1>1, <1>2, Constants, Zenon DEF EngineInv
<1>6. EditorInv'
  BY <1>1, <1>2, Zenon DEF EditorInv
<1>7. RestoredInv'
  BY <1>1, <1>2, Zenon DEF RestoredInv, NothingStarted, Restoring
<1>8. BoxesInv'
  BY <1>1, <1>2, Zenon DEF BoxesInv
<1> QED
  BY <1>4, <1>5, <1>6, <1>7, <1>8 DEF PluginInv

\* A restore that falls into a change overtakes it, and does nothing else to it.
LEMMA OvertakenIs ==
    ASSUME NEW c \in Changes
    PROVE  /\ [c EXCEPT !.overtaken = TRUE] \in Changes
           /\ [c EXCEPT !.overtaken = TRUE].box = c.box
           /\ [c EXCEPT !.overtaken = TRUE].stale = c.stale
           /\ [c EXCEPT !.overtaken = TRUE].overtaken
<1> DEFINE on == TRUE
<1>1. on \in BOOLEAN
  OBVIOUS
<1> HIDE DEF on
<1> DEFINE d == [c EXCEPT !.overtaken = on]
<1>2. c = [box |-> c.box, stale |-> c.stale, overtaken |-> c.overtaken]
      /\ c.box \in {"format", "frames"} /\ c.stale \in BOOLEAN
  BY DEF Changes
<1>3. d = [box |-> c.box, stale |-> c.stale, overtaken |-> on]
  BY <1>2
<1>4. d \in Changes /\ d.box = c.box /\ d.stale = c.stale /\ d.overtaken = on
  BY <1>1, <1>2, <1>3 DEF Changes
<1>5. d = [c EXCEPT !.overtaken = TRUE]
  BY Zenon DEF on
<1>6. on
  BY Zenon DEF on
<1> QED
  BY <1>4, <1>5, <1>6, Zenon

\* Of an untouched instance, what is restored is all that it has.
LEMMA RestoreSettingsStep ==
    ASSUME PluginInv, RestoreSettings
    PROVE  PluginInv'
<1>1. HostInv /\ EngineInv /\ EditorInv /\ RestoredInv /\ BoxesInv
  BY DEF PluginInv
<1>2. /\ alive /\ hpc = "idle" /\ hpc' = "restoreAddress"
      /\ posted + expired < MaxPosted
      /\ settings' = project.settings
      /\ staleBoxes' = (editor # None)
      /\ choice' = IF choice = None THEN None ELSE [choice EXCEPT !.overtaken = TRUE]
      /\ untouched' = FALSE /\ restored' = IF untouched THEN project ELSE None
      /\ UNCHANGED <<project, draft, alive, preferredAddress, addresses, running, boundPort,
                    startFailed, posted, expired, editor, push, starting, network, free, events>>
  BY Zenon DEF RestoreSettings, HostIs, message, world
<1>3. project \in Saved /\ project.settings \in Settings
  BY <1>1 DEF HostInv, Saved
<1>4. HostInv'
  BY <1>1, <1>2 DEF HostInv, Restoring
<1>5. EngineInv'
  BY <1>1, <1>2, <1>3, Zenon DEF EngineInv
<1>6. EditorInv'
  BY <1>1, <1>2, EditorStays
<1>7. RestoredInv'
  <2>1. CASE untouched
    <3>1. restored' = project
      BY <1>2, <2>1, Zenon
    <3>2. push = None /\ NothingStarted
      BY <1>1, <2>1, Zenon DEF RestoredInv
    <3> QED
      BY <1>1, <1>2, <1>3, <3>1, <3>2, Zenon DEF RestoredInv, NothingStarted, Restoring
  <2>2. CASE ~untouched
    <3>1. restored' = None
      BY <1>2, <2>2, Zenon
    <3> QED
      BY <1>1, <1>2, <3>1, Zenon DEF RestoredInv
  <2> QED
    BY <2>1, <2>2
<1>8. BoxesInv'
  <2>1. staleBoxes' \in BOOLEAN /\ (editor' # None => staleBoxes')
    <3>1. (editor # None) \in BOOLEAN
      OBVIOUS
    <3> QED
      BY <1>2, <3>1, Zenon
  <2>2. CASE choice = None
    <3>1. choice' = None /\ push' = None
      BY <1>1, <1>2, <2>2, Zenon DEF BoxesInv
    <3> QED
      BY <2>1, <3>1, Zenon DEF BoxesInv
  <2>3. CASE choice # None
    <3>1. choice \in Changes /\ push # None /\ push' = push /\ editor' = editor
      BY <1>1, <1>2, <2>3, Zenon DEF BoxesInv
    <3>2. choice' \in Changes /\ choice'.box = choice.box /\ choice'.stale = choice.stale
          /\ choice'.overtaken
      BY <1>2, <2>3, <3>1, OvertakenIs, Zenon
    <3>3. choice' # None
      BY <3>2, Constants, Zenon
    <3>4. choice'.stale \/ OtherShows(editor', push', choice'.box)
      BY <1>1, <3>1, <3>2, Zenon DEF BoxesInv
    <3> QED
      BY <2>1, <3>1, <3>2, <3>3, <3>4, Zenon DEF BoxesInv
  <2> QED
    BY <2>2, <2>3
<1> QED
  BY <1>4, <1>5, <1>6, <1>7, <1>8 DEF PluginInv

\* The address follows the settings.
LEMMA RestoreAddressStep ==
    ASSUME PluginInv, RestoreAddress
    PROVE  PluginInv'
<1>1. HostInv /\ EngineInv /\ EditorInv /\ RestoredInv /\ BoxesInv
  BY DEF PluginInv
<1>2. /\ hpc = "restoreAddress" /\ hpc' = "restorePost"
      /\ preferredAddress' = project.address
      /\ UNCHANGED <<project, draft, alive, settings, addresses, running, boundPort,
                    startFailed, posted, expired, editor, push, starting, network, free, events,
                    untouched, restored, staleBoxes, choice>>
  BY Zenon DEF RestoreAddress, HostIs, message, world, history
<1>3. project.address \in Addresses
  BY <1>1 DEF HostInv, Saved
<1>4. HostInv'
  BY <1>1, <1>2 DEF HostInv, Restoring
<1>5. EngineInv'
  BY <1>1, <1>2, <1>3, Zenon DEF EngineInv
<1>6. EditorInv'
  BY <1>1, <1>2, EditorStays
<1>7. RestoredInv'
  BY <1>1, <1>2, Zenon DEF RestoredInv, NothingStarted, Restoring
<1>8. BoxesInv'
  BY <1>1, <1>2, BoxesStay
<1> QED
  BY <1>4, <1>5, <1>6, <1>7, <1>8 DEF PluginInv

\* A project that was streaming posts its start, for which there is room.
LEMMA RestorePostStep ==
    ASSUME PluginInv, RestorePost
    PROVE  PluginInv'
<1>1. HostInv /\ EngineInv /\ EditorInv /\ RestoredInv /\ BoxesInv
  BY DEF PluginInv
<1>2. /\ hpc = "restorePost" /\ hpc' = "idle"
      /\ posted' = IF project.streaming THEN posted + 1 ELSE posted
      /\ UNCHANGED <<project, draft, alive, settings, preferredAddress, addresses, running,
                    boundPort, startFailed, expired, editor, push, starting, network, free,
                    events, untouched, restored, staleBoxes, choice>>
  BY Zenon DEF RestorePost, Streamed, HostIs, message, world, history, engine
<1>3. posted \in Nat /\ expired \in Nat /\ posted + expired < MaxPosted
  BY <1>1, <1>2 DEF HostInv, Restoring
<1>4. /\ posted' \in Nat /\ posted' + expired' <= MaxPosted
      /\ project.streaming => posted' > 0
      /\ ~project.streaming => posted' = posted
  <2>1. CASE project.streaming
    <3>1. posted' = posted + 1 /\ expired' = expired
      BY <1>2, <2>1
    <3>2. posted' \in Nat /\ posted' + expired' <= MaxPosted /\ posted' > 0
      BY <1>3, <3>1, Constants
    <3> QED
      BY <2>1, <3>2, Zenon
  <2>2. CASE ~project.streaming
    <3>1. posted' = posted /\ expired' = expired
      BY <1>2, <2>2
    <3>2. posted' \in Nat /\ posted' + expired' <= MaxPosted
      BY <1>3, <3>1, Constants
    <3> QED
      BY <2>2, <3>1, <3>2, Zenon
  <2> QED
    BY <2>1, <2>2
<1>5. HostInv'
  <2>1. project' \in Saved /\ draft' = None /\ expired' \in Nat
    BY <1>1, <1>2 DEF HostInv
  <2> QED
    BY <1>2, <1>4, <2>1, Zenon DEF HostInv, Restoring
<1>6. EngineInv'
  BY <1>1, <1>2, EngineStays
<1>7. EditorInv'
  BY <1>1, <1>2, EditorStays
<1>8. RestoredInv'
  BY <1>1, <1>2, <1>4, Zenon DEF RestoredInv, NothingStarted, Restoring
<1>9. BoxesInv'
  BY <1>1, <1>2, BoxesStay
<1> QED
  BY <1>5, <1>6, <1>7, <1>8, <1>9 DEF PluginInv

\* A save reads, and at its end replaces the project.
LEMMA SaveStep ==
    ASSUME PluginInv, SaveSettings \/ SaveAddress \/ SaveStreaming
    PROVE  PluginInv'
<1>1. HostInv /\ EngineInv /\ EditorInv /\ RestoredInv /\ BoxesInv
  BY DEF PluginInv
<1>2. /\ UNCHANGED <<alive, settings, preferredAddress, addresses, running,
                    boundPort, startFailed, posted, expired, editor, push, starting, network,
                    free, events, untouched, restored, staleBoxes, choice>>
      /\ ~Restoring /\ ~Restoring' /\ hpc # "restoreAddress"
  BY Zenon DEF SaveSettings, SaveAddress, SaveStreaming, HostIs, message, world, history, engine,
               Restoring
<1>3. HostInv'
  <2>0. posted' \in Nat /\ expired' \in Nat /\ posted' + expired' <= MaxPosted
    BY <1>1, <1>2 DEF HostInv
  <2>1. CASE SaveSettings
    <3>1. hpc' = "saveAddress" /\ draft' = [settings |-> settings] /\ project' = project
      BY <2>1 DEF SaveSettings, HostIs, SavedSettings
    <3>2. draft' \in [settings : Settings]
      BY <1>1, <3>1 DEF EngineInv
    <3> QED
      BY <1>1, <1>2, <2>0, <3>1, <3>2, Zenon DEF HostInv
  <2>2. CASE SaveAddress
    <3>1. /\ hpc = "saveAddress" /\ hpc' = "saveStreaming" /\ project' = project
          /\ draft' = [settings |-> draft.settings,
                       address |-> PreferredAddress(addresses, preferredAddress)]
      BY <2>2 DEF SaveAddress, HostIs
    <3>2. draft.settings \in Settings
      BY <1>1, <3>1 DEF HostInv
    <3>3. PreferredAddress(addresses, preferredAddress) \in Addresses
      BY <1>1, PreferredAddressIs DEF EngineInv
    <3>4. draft' \in [settings : Settings, address : Addresses]
      BY <3>1, <3>2, <3>3
    <3> QED
      BY <1>1, <1>2, <2>0, <3>1, <3>4, Zenon DEF HostInv
  <2>3. CASE SaveStreaming
    <3>1. /\ hpc = "saveStreaming" /\ hpc' = "idle" /\ draft' = None
          /\ project' = [settings |-> draft.settings, address |-> draft.address,
                         streaming |-> running]
      BY <2>3 DEF SaveStreaming, HostIs
    <3>2. draft.settings \in Settings /\ draft.address \in Addresses
      BY <1>1, <3>1 DEF HostInv
    <3>3. running \in BOOLEAN
      BY <1>1 DEF EngineInv
    <3>4. project' \in Saved
      BY <3>1, <3>2, <3>3 DEF Saved
    <3> QED
      BY <1>1, <1>2, <2>0, <3>1, <3>4, Zenon DEF HostInv
  <2> QED
    BY <2>1, <2>2, <2>3
<1>4. EngineInv'
  BY <1>1, <1>2, EngineStays
<1>5. EditorInv'
  BY <1>1, <1>2, EditorStays
<1>6. RestoredInv'
  BY <1>1, <1>2, Zenon DEF RestoredInv, NothingStarted
<1>7. BoxesInv'
  BY <1>1, <1>2, BoxesStay
<1> QED
  BY <1>3, <1>4, <1>5, <1>6, <1>7 DEF PluginInv

-----------------------------------------------------------------------------
(* The steps of the message thread                                           *)

\* A click or a choice: the instance is no longer what was restored.
LEMMA ByUserIs ==
    ASSUME PluginInv, ByUser
    PROVE  /\ editor # None /\ editor \in Editors /\ push = None /\ starting = "no" /\ alive
           /\ untouched' = FALSE /\ restored' = None
           /\ events' \in 0 .. MaxEvents
           /\ UNCHANGED <<project, hpc, draft, alive, posted, expired, network, free, staleBoxes>>
           /\ HostInv' /\ RestoredInv'
<1>1. HostInv /\ EngineInv /\ EditorInv /\ RestoredInv /\ BoxesInv
  BY DEF PluginInv
<1>2. /\ editor # None /\ push = None /\ starting = "no"
      /\ events < MaxEvents /\ events' = events + 1
      /\ untouched' = FALSE /\ restored' = None
      /\ UNCHANGED <<project, hpc, draft, alive, posted, expired, network, free, staleBoxes>>
  BY Zenon DEF ByUser, Idle, Happens, hostVars
<1>3. editor \in Editors /\ alive
  BY <1>1, <1>2, Zenon DEF EditorInv
<1>4. events' \in 0 .. MaxEvents
  <2>1. events \in 0 .. MaxEvents
    BY <1>1 DEF EngineInv
  <2> QED
    BY <1>2, <2>1, Constants
<1>5. HostInv'
  BY <1>1, <1>2, HostStays
<1>6. RestoredInv'
  BY <1>2, <1>3, Zenon DEF RestoredInv
<1> QED
  BY <1>2, <1>3, <1>4, <1>5, <1>6, Zenon

\* A click stops the engine, or begins to start it.
LEMMA ClickStep ==
    ASSUME PluginInv, Click
    PROVE  PluginInv'
<1>1. HostInv /\ EngineInv /\ EditorInv /\ RestoredInv /\ BoxesInv
  BY DEF PluginInv
<1>2. ByUser /\ push' = push /\ choice' = choice
  BY DEF Click
<1>3. /\ editor # None /\ editor \in Editors /\ push = None /\ starting = "no" /\ alive
      /\ events' \in 0 .. MaxEvents
      /\ UNCHANGED <<alive, network, free, staleBoxes>>
      /\ HostInv' /\ RestoredInv'
  BY <1>2, ByUserIs, Zenon
<1>4. CASE /\ running /\ running' = FALSE /\ boundPort' = 0 /\ startFailed' = FALSE
           /\ UNCHANGED <<settings, preferredAddress, addresses, starting>>
           /\ editor' = Refreshed(editor)
  <2>1. EngineInv'
    BY <1>1, <1>3, <1>4, Zenon DEF EngineInv
  <2>2. /\ editor' \in Editors
        /\ editor'.format = editor.format /\ editor'.frames = editor.frames
    BY <1>3, <1>4, <2>1, RefreshedIs
  <2>3. editor' # None
    BY <2>2, Constants, Zenon
  <2>4. EditorInv'
    BY <1>2, <1>3, <1>4, <2>2, <2>3, Zenon DEF EditorInv
  <2>5. BoxesInv'
    BY <1>1, <1>2, <1>3, <1>4, <2>2, <2>3, Zenon DEF BoxesInv, Shows, OtherShows
  <2> QED
    BY <1>3, <2>1, <2>4, <2>5 DEF PluginInv
<1>5. CASE /\ ~running /\ addresses' = network /\ starting' = "click"
           /\ UNCHANGED <<settings, preferredAddress, running, boundPort, startFailed, editor>>
  <2>1. EngineInv'
    BY <1>1, <1>3, <1>5, Zenon DEF EngineInv
  <2>2. EditorInv'
    BY <1>1, <1>2, <1>3, <1>5, Zenon DEF EditorInv
  <2>3. BoxesInv'
    BY <1>1, <1>2, <1>3, <1>5, BoxesStay
  <2> QED
    BY <1>3, <2>1, <2>2, <2>3 DEF PluginInv
<1> QED
  BY <1>4, <1>5, Zenon DEF Click, StopStreaming, StartStreaming

\* A start ends with a port bound or with a failure.
LEMMA FinishStartStep ==
    ASSUME PluginInv, FinishStart
    PROVE  PluginInv'
<1>1. HostInv /\ EngineInv /\ EditorInv /\ RestoredInv /\ BoxesInv
  BY DEF PluginInv
<1>2. /\ starting # "no" /\ starting' = "no"
      /\ running' = (Candidates # {})
      /\ boundPort' = IF Candidates = {} THEN 0 ELSE Min(Candidates)
      /\ startFailed' = ~running'
      /\ UNCHANGED <<project, hpc, draft, alive, settings, preferredAddress, addresses, posted,
                    expired, push, network, free, events, untouched, restored, staleBoxes, choice>>
      /\ editor' = IF starting = "click" THEN Refreshed(editor) ELSE editor
  BY Zenon DEF FinishStart, hostVars, world, history
<1>3. HostInv'
  BY <1>1, <1>2, HostStays
<1>4. EngineInv'
  <2>0. free \in SUBSET Ports /\ alive
    BY <1>1, <1>2, Zenon DEF EngineInv
  <2>1. boundPort' \in Ports \cup {0} /\ (running' => boundPort' # 0)
    <3>1. CASE Candidates = {}
      BY <1>2, <3>1, Zenon
    <3>2. CASE Candidates # {}
      BY <1>2, <2>0, <3>2, LeastPort, Zenon
    <3> QED
      BY <3>1, <3>2
  <2> QED
    BY <1>1, <1>2, <2>0, <2>1, Zenon DEF EngineInv
<1>5. /\ editor' \in Editors \cup {None} /\ (editor # None => editor' # None)
      /\ editor = None => editor' = None
      /\ editor # None => editor'.format = editor.format /\ editor'.frames = editor.frames
  <2>1. CASE starting = "click"
    <3>1. editor # None /\ editor \in Editors
      BY <1>1, <2>1, Zenon DEF EditorInv
    <3>2. /\ editor' \in Editors
          /\ editor'.format = editor.format /\ editor'.frames = editor.frames
      BY <1>2, <1>4, <2>1, <3>1, RefreshedIs
    <3> QED
      BY <3>1, <3>2, Constants, Zenon
  <2>2. CASE starting # "click"
    BY <1>1, <1>2, <2>2, Zenon DEF EditorInv
  <2> QED
    BY <2>1, <2>2
<1>6. EditorInv'
  BY <1>1, <1>2, <1>5, Zenon DEF EditorInv
<1>7. RestoredInv'
  BY <1>1, <1>2, Zenon DEF RestoredInv, NothingStarted, Restoring
<1>8. BoxesInv'
  BY <1>1, <1>2, <1>5, Zenon DEF BoxesInv, Shows, OtherShows
<1> QED
  BY <1>3, <1>4, <1>6, <1>7, <1>8 DEF PluginInv

\* The address chosen is one of those listed.
LEMMA ChooseAddressStep ==
    ASSUME PluginInv, NEW a, ChooseAddress(a)
    PROVE  PluginInv'
<1>1. HostInv /\ EngineInv /\ EditorInv /\ RestoredInv /\ BoxesInv
  BY DEF PluginInv
<1>2. /\ ByUser /\ a \in Range(editor.list) /\ preferredAddress' = a
      /\ UNCHANGED <<settings, addresses, running, boundPort, startFailed, push, starting, choice>>
      /\ editor' = Refreshed([editor EXCEPT !.address = a])
  BY Zenon DEF ChooseAddress, message
<1>3. /\ editor # None /\ editor \in Editors /\ push = None /\ starting = "no" /\ alive
      /\ events' \in 0 .. MaxEvents
      /\ UNCHANGED <<alive, network, free, staleBoxes>>
      /\ HostInv' /\ RestoredInv'
  BY <1>2, ByUserIs, Zenon
<1>4. a \in Addresses
  <2>1. editor.list \in Networks \cup {<<>>}
    BY <1>3 DEF Editors
  <2>2. CASE editor.list \in Networks
    BY <1>2, <2>2, Zenon DEF Addresses
  <2>3. CASE editor.list = <<>>
    <3>1. a \in {<<>>[i] : i \in DOMAIN <<>>}
      BY <1>2, <2>3, Zenon DEF Range
    <3>2. DOMAIN <<>> = {}
      BY EmptySeq
    <3> QED
      BY <3>1, <3>2, Zenon
  <2> QED
    BY <2>1, <2>2, <2>3
<1>5. EngineInv'
  BY <1>1, <1>2, <1>3, <1>4, Zenon DEF EngineInv
<1> DEFINE c == [editor EXCEPT !.address = a]
<1>6. c \in Editors /\ c.format = editor.format /\ c.frames = editor.frames
  BY <1>3, <1>4 DEF Editors
<1>c. editor' = Refreshed(c)
  BY <1>2, Zenon
<1> HIDE DEF c
<1>7. /\ editor' \in Editors
      /\ editor'.format = editor.format /\ editor'.frames = editor.frames
  BY <1>c, <1>5, <1>6, RefreshedIs
<1>8. editor' # None
  BY <1>7, Constants, Zenon
<1>9. EditorInv'
  BY <1>2, <1>3, <1>7, <1>8, Zenon DEF EditorInv
<1>10. BoxesInv'
  BY <1>1, <1>2, <1>3, <1>7, <1>8, Zenon DEF BoxesInv, Shows, OtherShows
<1> QED
  BY <1>3, <1>5, <1>9, <1>10 DEF PluginInv

\* One box changes, and the settings are read.
LEMMA ChooseStep ==
    ASSUME PluginInv,
           \/ \E f \in BoxFormats : ChooseFormat(f)
           \/ \E n \in BoxFrames : ChooseFrames(n)
    PROVE  PluginInv'
<1> DEFINE off == FALSE
<1>off. off \in BOOLEAN
  OBVIOUS
<1> HIDE DEF off
<1>1. HostInv /\ EngineInv /\ EditorInv /\ RestoredInv /\ BoxesInv
  BY DEF PluginInv
<1>2. /\ ByUser /\ push' = settings
      /\ UNCHANGED <<settings, preferredAddress, addresses, running, boundPort, startFailed, starting>>
      /\ \E box \in {"format", "frames"} :
            choice' = [box |-> box, stale |-> staleBoxes, overtaken |-> FALSE]
  BY Zenon DEF ChooseFormat, ChooseFrames, ReadSettings, engine
<1>3. /\ editor # None /\ editor \in Editors /\ push = None /\ starting = "no" /\ alive
      /\ events' \in 0 .. MaxEvents
      /\ UNCHANGED <<alive, network, free, staleBoxes>>
      /\ HostInv' /\ RestoredInv'
  BY <1>2, ByUserIs, Zenon
<1>4. settings \in Settings
  BY <1>1 DEF EngineInv
<1> DEFINE change(box) == [box |-> box, stale |-> staleBoxes, overtaken |-> off]
<1>c. /\ \A box \in {"format", "frames"} :
            /\ change(box) \in Changes
            /\ change(box).box = box /\ change(box).stale = staleBoxes
      /\ \E box \in {"format", "frames"} : choice' = change(box)
      /\ \A f \in BoxFormats : ChooseFormat(f) => choice' = change("format")
      /\ \A n \in BoxFrames : ChooseFrames(n) => choice' = change("frames")
  <2>1. staleBoxes \in BOOLEAN
    BY <1>1 DEF BoxesInv
  <2>2. \A box \in {"format", "frames"} :
            /\ change(box) \in Changes
            /\ change(box).box = box /\ change(box).stale = staleBoxes
    BY <1>off, <2>1 DEF Changes
  <2> QED
    BY <1>2, <2>2, Zenon DEF ChooseFormat, ChooseFrames, ReadSettings, off
<1> HIDE DEF change
<1>5. /\ editor' \in Editors
      /\ choice' \in Changes /\ choice'.stale = staleBoxes
      /\ choice'.box = "frames" => editor'.format = editor.format
      /\ choice'.box = "format" => editor'.frames = editor.frames
  <2>1. ASSUME NEW f \in BoxFormats, ChooseFormat(f)
        PROVE  editor' \in Editors /\ editor'.frames = editor.frames
               /\ choice'.box = "format"
    <3>1. editor' = [editor EXCEPT !.format = f]
      BY <2>1 DEF ChooseFormat
    <3>2. choice'.box = "format"
      BY <1>c, <2>1, Zenon
    <3>3. editor' \in Editors /\ editor'.frames = editor.frames
      BY <1>3, <3>1 DEF Editors
    <3> QED
      BY <3>2, <3>3
  <2>2. ASSUME NEW n \in BoxFrames, ChooseFrames(n)
        PROVE  editor' \in Editors /\ editor'.format = editor.format
               /\ choice'.box = "frames"
    <3>1. editor' = [editor EXCEPT !.frames = n]
      BY <2>2 DEF ChooseFrames
    <3>2. choice'.box = "frames"
      BY <1>c, <2>2, Zenon
    <3>3. editor' \in Editors /\ editor'.format = editor.format
      BY <1>3, <3>1 DEF Editors
    <3> QED
      BY <3>2, <3>3
  <2>3. choice' \in Changes /\ choice'.stale = staleBoxes
    BY <1>c, Zenon
  <2>4. "format" # "frames"
    OBVIOUS
  <2> QED
    BY <2>1, <2>2, <2>3, <2>4, Zenon
<1>6. editor' # None /\ push' # None /\ push' \in Settings /\ choice' # None
  BY <1>2, <1>4, <1>5, Constants, Zenon
<1>7. EngineInv'
  BY <1>1, <1>2, <1>3, Zenon DEF EngineInv
<1>8. EditorInv'
  BY <1>2, <1>3, <1>5, <1>6, Zenon DEF EditorInv
<1>9. BoxesInv'
  <2>1. staleBoxes \/ Shows(editor, settings)
    BY <1>1, <1>3, Zenon DEF BoxesInv
  <2>2. choice'.stale \/ OtherShows(editor', push', choice'.box)
    BY <1>2, <1>5, <2>1, Zenon DEF Shows, OtherShows
  <2>3. push' = settings' /\ staleBoxes' \in BOOLEAN
    BY <1>1, <1>2, <1>3, Zenon DEF BoxesInv
  <2> QED
    BY <1>5, <1>6, <2>2, <2>3, Zenon DEF BoxesInv
<1> QED
  BY <1>3, <1>7, <1>8, <1>9 DEF PluginInv

\* What pushSettingsToEngine sets: what it read, and the two boxes.
LEMMA PushedIs ==
    ASSUME push \in Settings, editor \in Editors
    PROVE  /\ Pushed \in Settings
           /\ Pushed.format = editor.format /\ Pushed.frames = editor.frames
           /\ Pushed.port = push.port /\ Pushed.latency = push.latency
<1>1. /\ push = [format |-> push.format, frames |-> push.frames,
                 port |-> push.port, latency |-> push.latency]
      /\ push.port \in Int /\ push.latency \in Int
  BY DEF Settings
<1>2. editor.format \in BoxFormats /\ editor.frames \in Int
  BY Constants DEF Editors
<1> DEFINE c == [push EXCEPT !.format = editor.format]
<1>3. Pushed = [c EXCEPT !.frames = editor.frames]
  BY Zenon DEF Pushed
<1>4. c = [format |-> editor.format, frames |-> push.frames,
           port |-> push.port, latency |-> push.latency]
  BY <1>1
<1> HIDE DEF c
<1>5. Pushed = [format |-> editor.format, frames |-> editor.frames,
                port |-> push.port, latency |-> push.latency]
  BY <1>3, <1>4
<1> QED
  BY <1>1, <1>2, <1>5 DEF Settings

\* The settings are again what the boxes show.
LEMMA PushSettingsStep ==
    ASSUME PluginInv, PushSettings
    PROVE  PluginInv'
<1>1. HostInv /\ EngineInv /\ EditorInv /\ RestoredInv /\ BoxesInv
  BY DEF PluginInv
<1>2. /\ push # None /\ push' = None /\ settings' = Pushed
      /\ UNCHANGED <<project, hpc, draft, alive, preferredAddress, addresses, running, boundPort,
                    startFailed, posted, expired, editor, starting, network, free, events,
                    untouched, restored>>
      /\ staleBoxes' = FALSE /\ choice' = None
  BY Zenon DEF PushSettings, hostVars, world
<1>3. push \in Settings /\ editor # None /\ editor \in Editors
  BY <1>1, <1>2, Zenon DEF EditorInv
<1>4. /\ settings' \in Settings
      /\ settings'.format = editor.format /\ settings'.frames = editor.frames
  BY <1>2, <1>3, PushedIs
<1>5. HostInv'
  BY <1>1, <1>2, HostStays
<1>6. EngineInv'
  BY <1>1, <1>2, <1>4, Zenon DEF EngineInv
<1>7. EditorInv'
  BY <1>1, <1>2, Zenon DEF EditorInv
<1>8. RestoredInv'
  BY <1>1, <1>2, Zenon DEF RestoredInv
<1>9. BoxesInv'
  <2>1. staleBoxes' = FALSE /\ choice' = None /\ push' = None /\ editor' = editor
    BY <1>2, Zenon
  <2> QED
    BY <1>4, <2>1, Zenon DEF BoxesInv, Shows
<1> QED
  BY <1>5, <1>6, <1>7, <1>8, <1>9 DEF PluginInv

\* The boxes of a new editor show the settings.
LEMMA OpenEditorStep ==
    ASSUME PluginInv, OpenEditor
    PROVE  PluginInv'
<1>1. HostInv /\ EngineInv /\ EditorInv /\ RestoredInv /\ BoxesInv
  BY DEF PluginInv
<1> DEFINE boxes == [format |-> settings.format,
                     frames |-> IF settings.frames \in BoxFrames THEN settings.frames
                                ELSE DefaultSettings.frames,
                     list |-> <<>>, address |-> NoAddress, url |-> None]
<1>2. /\ alive /\ editor = None /\ push = None /\ starting = "no"
      /\ UNCHANGED <<project, hpc, draft, alive, settings, preferredAddress, addresses, running,
                    boundPort, startFailed, posted, expired, push, starting, network, free,
                    events, untouched, restored, choice>>
      /\ editor' = Refreshed(boxes)
      /\ staleBoxes' = FALSE
  BY Zenon DEF OpenEditor, Idle, hostVars, engine, world, message
<1>3. EngineInv'
  BY <1>1, <1>2, EngineStays
<1>4. /\ boxes \in Editors /\ boxes.format = settings.format
      /\ settings.frames \in BoxFrames => boxes.frames = settings.frames
  <2>1. settings.format \in BoxFormats
    BY <1>1 DEF EngineInv, Settings
  <2> QED
    BY <2>1, Constants DEF Editors
<1> HIDE DEF boxes
<1>5. /\ editor' \in Editors /\ editor'.format = settings.format
      /\ settings.frames \in BoxFrames => editor'.frames = settings.frames
  BY <1>2, <1>3, <1>4, RefreshedIs
<1>6. HostInv'
  BY <1>1, <1>2, HostStays
<1>7. EditorInv'
  BY <1>1, <1>2, <1>5, Constants, Zenon DEF EditorInv
<1>8. RestoredInv'
  BY <1>1, <1>2, RestoredStays
<1>9. BoxesInv'
  <2>1. staleBoxes' = FALSE /\ push' = None /\ settings' = settings
    BY <1>2
  <2>2. choice' = None
    BY <1>1, <1>2, Zenon DEF BoxesInv
  <2> QED
    BY <1>5, <2>1, <2>2, Zenon DEF BoxesInv, Shows
<1> QED
  BY <1>3, <1>6, <1>7, <1>8, <1>9 DEF PluginInv

\* Without an editor there is nothing to show.
LEMMA CloseEditorStep ==
    ASSUME PluginInv, CloseEditor
    PROVE  PluginInv'
<1>1. HostInv /\ EngineInv /\ EditorInv /\ RestoredInv /\ BoxesInv
  BY DEF PluginInv
<1>2. /\ push = None /\ starting = "no" /\ editor' = None
      /\ UNCHANGED <<project, hpc, draft, alive, settings, preferredAddress, addresses, running,
                    boundPort, startFailed, posted, expired, push, starting, network, free,
                    events, untouched, restored, staleBoxes, choice>>
  BY Zenon DEF CloseEditor, Idle, hostVars, engine, world, message, history
<1>3. HostInv' /\ EngineInv' /\ RestoredInv'
  BY <1>1, <1>2, HostStays, EngineStays, RestoredStays
<1>4. EditorInv'
  BY <1>1, <1>2, Zenon DEF EditorInv
<1>5. BoxesInv'
  BY <1>1, <1>2, Zenon DEF BoxesInv
<1> QED
  BY <1>3, <1>4, <1>5 DEF PluginInv

\* The timer's refresh leaves the boxes of format and packet alone.
LEMMA TimerStep ==
    ASSUME PluginInv, timerCallback
    PROVE  PluginInv'
<1>1. HostInv /\ EngineInv /\ EditorInv /\ RestoredInv /\ BoxesInv
  BY DEF PluginInv
<1>2. /\ editor # None /\ push = None /\ starting = "no" /\ editor' = Refreshed(editor)
      /\ UNCHANGED <<project, hpc, draft, alive, settings, preferredAddress, addresses, running,
                    boundPort, startFailed, posted, expired, push, starting, network, free,
                    events, untouched, restored, staleBoxes, choice>>
  BY Zenon DEF timerCallback, Idle, hostVars, engine, world, message, history
<1>3. HostInv' /\ EngineInv' /\ RestoredInv'
  BY <1>1, <1>2, HostStays, EngineStays, RestoredStays
<1>4. editor \in Editors
  BY <1>1, <1>2, Zenon DEF EditorInv
<1>5. /\ editor' \in Editors
      /\ editor'.format = editor.format /\ editor'.frames = editor.frames
  BY <1>2, <1>3, <1>4, RefreshedIs
<1>6. editor' # None
  BY <1>5, Constants, Zenon
<1>7. EditorInv'
  BY <1>1, <1>2, <1>5, <1>6, Zenon DEF EditorInv
<1>8. BoxesInv'
  BY <1>1, <1>2, <1>5, <1>6, Zenon DEF BoxesInv, Shows, OtherShows
<1> QED
  BY <1>3, <1>7, <1>8 DEF PluginInv

\* A deferred start finds the engine running, or begins.
LEMMA DeferredStartStep ==
    ASSUME PluginInv, DeferredStart
    PROVE  PluginInv'
<1>1. HostInv /\ EngineInv /\ EditorInv /\ RestoredInv /\ BoxesInv
  BY DEF PluginInv
<1>2. /\ posted > 0 /\ push = None /\ starting = "no" /\ posted' = posted - 1
      /\ UNCHANGED <<project, hpc, draft, alive, settings, preferredAddress, running, boundPort,
                    expired, editor, push, network, free, events, untouched, restored, staleBoxes, choice>>
      /\ \/ running /\ startFailed' = FALSE /\ UNCHANGED <<addresses, starting>>
         \/ /\ ~running /\ addresses' = network /\ starting' = "deferred"
            /\ startFailed' = startFailed
  BY Zenon DEF DeferredStart, StartStreaming, Idle, hostVars, engine, world, history
<1>3. posted # 0 /\ posted' \in Nat /\ posted' + expired <= MaxPosted
      /\ (Restoring => posted' + expired < MaxPosted)
  BY <1>1, <1>2, Constants DEF HostInv
<1>4. ~untouched /\ alive /\ (restored # None => ~Restoring)
  BY <1>1, <1>3, Zenon DEF RestoredInv, NothingStarted
<1>5. HostInv'
  BY <1>1, <1>2, <1>3, Zenon DEF HostInv, Restoring
<1>6. EngineInv'
  BY <1>1, <1>2, <1>4, Zenon DEF EngineInv
<1>7. EditorInv'
  BY <1>1, <1>2, Zenon DEF EditorInv
<1>8. RestoredInv'
  <2>1. restored # None => restored.streaming
    BY <1>1, <1>3, <1>4, Zenon DEF RestoredInv, NothingStarted
  <2>2. running' \/ starting' # "no"
    BY <1>2, Zenon
  <2> QED
    BY <1>1, <1>2, <1>4, <2>1, <2>2, Zenon DEF RestoredInv, Restoring
<1>9. BoxesInv'
  BY <1>1, <1>2, BoxesStay
<1> QED
  BY <1>5, <1>6, <1>7, <1>8, <1>9 DEF PluginInv

\* A start that is too late is one fewer.
LEMMA DeferredTooLateStep ==
    ASSUME PluginInv, DeferredTooLate
    PROVE  PluginInv'
<1>1. HostInv /\ EngineInv /\ EditorInv /\ RestoredInv /\ BoxesInv
  BY DEF PluginInv
<1>2. /\ expired > 0 /\ expired' = expired - 1
      /\ UNCHANGED <<project, hpc, draft, alive, settings, preferredAddress, addresses, running,
                    boundPort, startFailed, posted, editor, push, starting, network, free,
                    events, untouched, restored, staleBoxes, choice>>
  BY Zenon DEF DeferredTooLate, hostVars, engine, world, message, history
<1>3. HostInv'
  <2>1. expired' \in Nat /\ posted + expired' <= MaxPosted
        /\ (Restoring => posted + expired' < MaxPosted)
    BY <1>1, <1>2, Constants DEF HostInv
  <2> QED
    BY <1>1, <1>2, <2>1, Zenon DEF HostInv, Restoring
<1>4. EngineInv' /\ EditorInv' /\ RestoredInv' /\ BoxesInv'
  BY <1>1, <1>2, EngineStays, EditorStays, RestoredStays, BoxesStay
<1> QED
  BY <1>3, <1>4 DEF PluginInv

\* The machine's addresses and ports change.
LEMMA WorldStep ==
    ASSUME PluginInv, WorldChanges
    PROVE  PluginInv'
<1>1. HostInv /\ EngineInv /\ EditorInv /\ RestoredInv /\ BoxesInv
  BY DEF PluginInv
<1>2. /\ events < MaxEvents /\ events' = events + 1
      /\ \/ network' \in Networks /\ free' = free
         \/ free' \in SUBSET Ports /\ network' = network
      /\ UNCHANGED <<project, hpc, draft, alive, settings, preferredAddress, addresses, running,
                    boundPort, startFailed, posted, expired, editor, push, starting,
                    untouched, restored, staleBoxes, choice>>
  BY Zenon DEF WorldChanges, Happens, hostVars, engine, message, history
<1>3. HostInv' /\ EditorInv' /\ RestoredInv' /\ BoxesInv'
  BY <1>1, <1>2, HostStays, EditorStays, RestoredStays, BoxesStay
<1>4. EngineInv'
  <2>1. events' \in 0 .. MaxEvents
    BY <1>1, <1>2, Constants DEF EngineInv
  <2> QED
    BY <1>1, <1>2, <2>1, Zenon DEF EngineInv
<1> QED
  BY <1>3, <1>4 DEF PluginInv

\* Every step keeps the invariant.
LEMMA StepInv == PluginInv /\ [Next]_vars => PluginInv'
<1> SUFFICES ASSUME PluginInv, [Next]_vars PROVE PluginInv'
  OBVIOUS
<1>1. CASE Host
  BY <1>1, CreateStep, DestroyStep, RestoreSettingsStep, RestoreAddressStep, RestorePostStep,
     SaveStep, Zenon DEF Host
<1>2. CASE Message
  <2>1. ASSUME NEW a \in UNION {Range(n) : n \in Networks}, ChooseAddress(a)
        PROVE  PluginInv'
    BY <2>1, ChooseAddressStep
  <2> QED
    BY <1>2, <2>1, ClickStep, TimerStep, OpenEditorStep, CloseEditorStep, ChooseStep,
       PushSettingsStep, FinishStartStep, DeferredStartStep, DeferredTooLateStep, Zenon DEF Message
<1>3. CASE WorldChanges
  BY <1>3, WorldStep
<1>4. CASE UNCHANGED vars
  <2>1. UNCHANGED <<project, hpc, draft, alive, settings, preferredAddress, addresses, running,
                    boundPort, startFailed, posted, expired, editor, push, starting,
                    network, free, events, untouched, restored, staleBoxes, choice>>
    BY <1>4, Zenon DEF vars, hostVars, engine, message, world, history
  <2>2. HostInv /\ EngineInv /\ EditorInv /\ RestoredInv /\ BoxesInv
    BY DEF PluginInv
  <2>3. HostInv' /\ EngineInv' /\ EditorInv' /\ RestoredInv' /\ BoxesInv'
    BY <2>1, <2>2, HostStays, EngineStays, EditorStays, RestoredStays, BoxesStay
  <2> QED
    BY <2>3 DEF PluginInv
<1> QED
  BY <1>1, <1>2, <1>3, <1>4, Zenon DEF Next

-----------------------------------------------------------------------------
(* The theorems                                                              *)

\* The invariant holds in every state of every behaviour.
THEOREM PluginInvariant == Spec => []PluginInv
<1> QED
  BY InitInv, StepInv, PTL DEF Spec

\* The state has the types declared for it; no engine runs, is started or has
\* an editor without its processor, and a failed start is shown only while
\* nothing streams (the weak pointer in the lambda of setStateInformation).
THEOREM TypeCorrect == Spec => []TypeOK
<1>1. PluginInv => TypeOK
  <2> SUFFICES ASSUME PluginInv PROVE TypeOK
    OBVIOUS
  <2>1. HostInv /\ EngineInv /\ EditorInv /\ RestoredInv /\ BoxesInv
    BY DEF PluginInv
  <2>2. {alive, running, startFailed, staleBoxes} \subseteq BOOLEAN
    BY <2>1, Zenon DEF EngineInv, BoxesInv
  <2>3. (draft = None) = (hpc \notin {"saveAddress", "saveStreaming"})
    BY <2>1, Constants, Zenon DEF HostInv
  <2>4. posted + expired \in 0 .. MaxPosted
    BY <2>1, Constants DEF HostInv
  <2>5. free \subseteq Ports
    BY <2>1, Zenon DEF EngineInv
  <2> QED
    BY <2>1, <2>2, <2>3, <2>4, <2>5, Zenon
       DEF HostInv, EngineInv, EditorInv, RestoredInv, BoxesInv, TypeOK
<1> QED
  BY <1>1, PluginInvariant, PTL

\* A project that is opened and saved again keeps its settings, its address once
\* a start has seen it, and whether it streams, whatever the order in which the
\* calls of setStateInformation and getStateInformation meet the deferred start.
THEOREM ReopenedIsKept == Spec => SaveKeepsRestored
<1> DEFINE Kept ==
        restored # None =>
          /\ (SaveSettings => draft'.settings = restored.settings)
          /\ (SaveAddress /\ restored.address \in Range(addresses) =>
                draft'.address = restored.address)
          /\ (SaveStreaming /\ project'.streaming # restored.streaming =>
                restored.streaming /\ (posted > 0 \/ starting # "no" \/ startFailed))
<1>1. PluginInv => [Kept]_vars
  <2> SUFFICES ASSUME PluginInv, restored # None PROVE Kept
    OBVIOUS
  <2>1. HostInv /\ EngineInv /\ RestoredInv /\ restored \in Saved
    BY Zenon DEF PluginInv, RestoredInv
  <2>2. ASSUME SaveSettings
        PROVE  draft'.settings = restored.settings
    <3>1. draft' = [settings |-> settings]
      BY <2>2 DEF SaveSettings, SavedSettings
    <3>2. settings = restored.settings
      BY <2>1, Zenon DEF RestoredInv
    <3> QED
      BY <3>1, <3>2
  <2>3. ASSUME SaveAddress, restored.address \in Range(addresses)
        PROVE  draft'.address = restored.address
    <3>1. /\ hpc = "saveAddress"
          /\ draft' = [settings |-> draft.settings,
                       address |-> PreferredAddress(addresses, preferredAddress)]
      BY <2>3 DEF SaveAddress, HostIs
    <3>2. preferredAddress = restored.address
      BY <2>1, <3>1, Zenon DEF RestoredInv
    <3>3. PreferredAddress(addresses, preferredAddress) = restored.address
      BY <2>3, <3>2, Zenon DEF PreferredAddress
    <3> QED
      BY <3>1, <3>3
  <2>4. ASSUME SaveStreaming, project'.streaming # restored.streaming
        PROVE  restored.streaming /\ (posted > 0 \/ starting # "no" \/ startFailed)
    <3>1. /\ hpc = "saveStreaming"
          /\ project' = [settings |-> draft.settings, address |-> draft.address,
                         streaming |-> running]
      BY <2>4, Zenon DEF SaveStreaming, HostIs
    <3>2. project'.streaming = running
      BY <3>1
    <3>3. ~Restoring
      BY <3>1 DEF Restoring
    <3>4. restored.streaming \in BOOLEAN /\ running \in BOOLEAN
      BY <2>1 DEF Saved, EngineInv
    <3>5. CASE restored.streaming
      <4>1. ~running
        BY <2>4, <3>2, <3>4, <3>5, Zenon
      <4> QED
        BY <2>1, <3>3, <3>5, <4>1, Zenon DEF RestoredInv
    <3>6. CASE ~restored.streaming
      <4>1. ~running
        BY <2>1, <3>3, <3>6, Zenon DEF RestoredInv, NothingStarted
      <4> QED
        BY <2>4, <3>2, <3>4, <3>6, <4>1, Zenon
    <3> QED
      BY <3>5, <3>6
  <2> QED
    BY <2>2, <2>3, <2>4, Zenon
<1> QED
  BY <1>1, PluginInvariant, PTL DEF SaveKeepsRestored

\* Choosing an entry of one box gives that setting the value chosen and leaves
\* every other alone, although pushSettingsToEngine writes both boxes over what it
\* has read; a restore in between is lost as a whole, and only a box that was
\* already out of date, or has no entry for what was read, changes another setting.
THEOREM OneBoxOneSetting == Spec => BoxChangesOneThing
<1> DEFINE One ==
        push # None /\ push' = None =>
          \A field \in DOMAIN settings :
             \/ field = choice.box /\ settings'[field] = editor[field]
             \/ /\ field # choice.box
                /\ settings'[field] = IF choice.overtaken THEN push[field] ELSE settings[field]
             \/ /\ field \in {"format", "frames"} \ {choice.box}
                /\ settings'[field] = editor[field]
                /\ choice.stale \/ (field = "frames" /\ push.frames \notin BoxFrames)
<1>1. PluginInv /\ [Next]_vars => [One]_vars
  <2> DEFINE before(field) == IF choice.overtaken THEN push[field] ELSE settings[field]
             Right(field) ==
               \/ field = choice.box /\ settings'[field] = editor[field]
               \/ field # choice.box /\ settings'[field] = before(field)
               \/ /\ field \in {"format", "frames"} \ {choice.box}
                  /\ settings'[field] = editor[field]
                  /\ choice.stale \/ (field = "frames" /\ push.frames \notin BoxFrames)
  <2> SUFFICES ASSUME PluginInv, Next, push # None, push' = None,
                      NEW field \in DOMAIN settings
               PROVE  Right(field)
    BY Zenon
  <2>1. EngineInv /\ EditorInv /\ BoxesInv
    BY DEF PluginInv
  <2>2. /\ push \in Settings /\ editor \in Editors /\ settings \in Settings
        /\ choice \in Changes
        /\ choice.stale \/ OtherShows(editor, push, choice.box)
        /\ choice.overtaken \/ push = settings
    BY <2>1, Zenon DEF EditorInv, EngineInv, BoxesInv
  <2>3. /\ choice.box \in {"format", "frames"}
        /\ field \in {"format", "frames", "port", "latency"}
    BY <2>2 DEF Changes, Settings
  <2>4. settings' = Pushed
    <3>1. CASE Host
      <4>1. push' = push
        BY <3>1, Zenon DEF Host, RestoreSettings, RestoreAddress, RestorePost, SaveSettings,
           SaveAddress, SaveStreaming, CreateProcessor, DestroyProcessor, message
      <4> QED
        BY <4>1, Zenon
    <3>2. CASE WorldChanges
      <4>1. push' = push
        BY <3>2, Zenon DEF WorldChanges, message
      <4> QED
        BY <4>1, Zenon
    <3>3. CASE Message
      <4>1. CASE Idle \/ FinishStart
        <5>1. push' = push
          BY <4>1, Zenon DEF Idle, FinishStart
        <5> QED
          BY <5>1, Zenon
      <4>2. PushSettings \/ Idle \/ FinishStart
        BY <3>3, Zenon DEF Message, Click, ByUser, timerCallback, OpenEditor, CloseEditor,
           ChooseAddress, ChooseFormat, ChooseFrames, ReadSettings, DeferredStart,
           DeferredTooLate
      <4>3. CASE PushSettings
        BY <4>3, Zenon DEF PushSettings
      <4> QED
        BY <4>1, <4>2, <4>3
    <3> QED
      BY <3>1, <3>2, <3>3, Zenon DEF Next
  <2>5. /\ settings'["format"] = editor["format"] /\ settings'["frames"] = editor["frames"]
        /\ settings'["port"] = push["port"] /\ settings'["latency"] = push["latency"]
    BY <2>2, <2>4, PushedIs
  <2>6. before(field) = push[field]
    BY <2>2, Zenon
  <2>7. CASE field = choice.box
    BY <2>3, <2>5, <2>7, Zenon
  <2>8. CASE field # choice.box /\ field \in {"port", "latency"}
    BY <2>5, <2>6, <2>8, Zenon
  <2>9. CASE field # choice.box /\ field \in {"format", "frames"}
    <3>1. settings'[field] = editor[field] /\ field \in {"format", "frames"} \ {choice.box}
      BY <2>5, <2>9, Zenon
    <3>2. CASE choice.stale
      BY <3>1, <3>2, Zenon
    <3>3. CASE field = "frames" /\ push.frames \notin BoxFrames
      BY <3>1, <3>3, Zenon
    <3>4. CASE ~choice.stale /\ ~(field = "frames" /\ push.frames \notin BoxFrames)
      <4>1. editor[field] = push[field]
        BY <2>2, <2>3, <2>9, <3>4 DEF OtherShows
      <4> QED
        BY <2>6, <2>9, <3>1, <4>1, Zenon
    <3> QED
      BY <3>2, <3>3, <3>4, Zenon
  <2> QED
    BY <2>3, <2>7, <2>8, <2>9, Zenon
<1> QED
  BY <1>1, PluginInvariant, PTL DEF Spec, BoxChangesOneThing

=============================================================================
