---------------------------- MODULE PacketStream ----------------------------
(***************************************************************************)
(* What StreamEngine promises to whoever listens, with nothing of the ring,*)
(* the threads' places, the clock or the server: packets are numbered one  *)
(* by one; the sample clock runs on unless a packet says that it restarts; *)
(* a packet is described by values that were current when the packet before*)
(* was sent or since, though not all at one moment; every reconfiguration  *)
(* raises the epoch and then makes the next packet a restart; so is the    *)
(* first packet of a session.                                              *)
(*                                                                         *)
(* StreamEngine implements it; EndToEnd has it as its sender.              *)
(***************************************************************************)
EXTENDS Integers

CONSTANTS SettingsSet, ChannelSet, SeqMod, ClockMod   \* as in StreamEngine

VARIABLES
    settings, channels, epoch,   \* the current configuration
    stage,     \* of a reconfiguration: "idle", "changed" or "raised" (the epoch)
    pending,   \* a restart is due
    loaded,    \* the description that the next packet will have
    packet,    \* the last packet: it is sent when it is built and numbered
    fresh      \* no packet yet in this session

config == <<settings, channels, epoch, stage>>
vars == <<config, pending, loaded, packet, fresh>>

Packets == [settings : SettingsSet, channels : ChannelSet, epoch : Nat,
            discontinuity : BOOLEAN, silence : BOOLEAN,
            sequence : 0 .. SeqMod - 1, sampleClock : 0 .. ClockMod - 1]

Current == [settings |-> settings, channels |-> channels, epoch |-> epoch]

Init ==
    /\ settings \in SettingsSet /\ channels \in ChannelSet /\ epoch = 0
    /\ stage = "idle" /\ pending = TRUE
    /\ loaded = Current
    /\ packet \in Packets /\ fresh = FALSE

\* The sender looks at each part of the configuration at a moment of its own:
\* a part that has been looked at stays behind when the configuration changes.
MayStayBehind ==
    loaded' \in [settings : {loaded.settings, settings'},
                 channels : {loaded.channels, channels'},
                 epoch : {loaded.epoch, epoch'}]

Change(s, n) ==
    /\ stage = "idle" /\ stage' = "changed"
    /\ settings' = s /\ channels' = n
    /\ UNCHANGED <<epoch, pending, packet, fresh>>
    /\ MayStayBehind

RaiseEpoch ==
    /\ stage = "changed" /\ stage' = "raised"
    /\ epoch' = epoch + 1
    /\ UNCHANGED <<settings, channels, pending, packet, fresh>>
    /\ MayStayBehind

\* The end of a reconfiguration, or of a start
RequireRestart ==
    /\ stage \in {"idle", "raised"} /\ stage' = "idle"
    /\ pending' = TRUE
    /\ UNCHANGED <<settings, channels, epoch, loaded, packet, fresh>>

Begin ==
    /\ pending
    /\ fresh' = TRUE
    /\ UNCHANGED <<config, pending, loaded, packet>>

\* A round of the sender ends without a packet.
LookAgain ==
    /\ loaded' = Current
    /\ UNCHANGED <<config, pending, packet, fresh>>

Send ==
    /\ \E silence \in BOOLEAN :
          packet' = [settings |-> loaded.settings, channels |-> loaded.channels,
                     epoch |-> loaded.epoch, discontinuity |-> pending,
                     silence |-> silence,
                     sequence |-> (packet.sequence + 1) % SeqMod,
                     sampleClock |->
                        IF pending THEN 0
                        ELSE (packet.sampleClock + packet.settings.frames) % ClockMod]
    /\ pending' = FALSE /\ fresh' = FALSE
    /\ loaded' = Current
    /\ UNCHANGED config

Next ==
    \/ \E s \in SettingsSet, n \in ChannelSet : Change(s, n)
    \/ RaiseEpoch \/ RequireRestart \/ Begin
    \/ LookAgain \/ Send

Spec == Init /\ [][Next]_vars
=============================================================================
