--------------------------- MODULE MCClientQueue ---------------------------
(* A limit of three audio frames, or of one and the control frames that      *)
(* crowd it out; a broadcast may come between any two steps of the writer.   *)
EXTENDS ClientQueue

=============================================================================
