--------------------------- MODULE MCStreamEngine ---------------------------
(* Two packet sizes with two formats, and mono and stereo.  A packet takes one *)
(* or two frames of a ring of two: it can be empty, half full and full.        *)
EXTENDS StreamEngine

MCSettings == {[format |-> "pcm16", frames |-> 2], [format |-> "float32", frames |-> 1]}
MCChannels == {1, 2}

=============================================================================
