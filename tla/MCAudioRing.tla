---------------------------- MODULE MCAudioRing ----------------------------
(* A mono source into mono and stereo rings, and a stereo source into both. *)
EXTENDS AudioRing

MCShapes == {<<2, 3>>, <<1, 4>>}
MCSourceWidths == {1, 2}

=============================================================================
