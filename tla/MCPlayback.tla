----------------------------- MODULE MCPlayback -----------------------------
(* Packets of two frames, three frames in for two out, four out in a block,    *)
(* and a target of two blocks exactly, which is the floor.                    *)
EXTENDS Playback

=============================================================================
