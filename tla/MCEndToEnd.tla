----------------------------- MODULE MCEndToEnd -----------------------------
(* Samples at both ends of the scale and beyond, and between two steps.      *)
EXTENDS EndToEnd

MCSettings == {[format |-> f, frames |-> 1] : f \in {"pcm16", "pcm24", "float32"}}
MCChannels == {1, 2}

Eighths(n) == [num |-> n, den |-> 8]
MCSignal == << <<Eighths(9), Eighths(-9)>>, <<Eighths(-1), Eighths(3)>>,
               <<Eighths(-8), Eighths(8)>> >>
=============================================================================
