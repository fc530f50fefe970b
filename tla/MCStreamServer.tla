--------------------------- MODULE MCStreamServer ---------------------------
(* Three connections over two sessions: one can be finished and reaped while *)
(* a second is served and a third is being accepted.  No symmetry, for the   *)
(* sake of the liveness property.                                            *)
EXTENDS StreamServer

CONSTANTS c1, c2, c3

MCConns == {c1, c2, c3}

=============================================================================
