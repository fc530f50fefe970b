---------------------------- MODULE MCConnection ----------------------------
(* Every kind of request, and heads that end at the limit, within a read of it *)
(* and far beyond.                                                             *)
EXTENDS Connection

MCRequests ==
    [kind : {"upgrade", "page"}, known : BOOLEAN, length : {3}]
        \cup [kind : {"upgrade"}, known : {TRUE}, length : {5, 9}]
        \cup [kind : {"garbage"}, known : {FALSE}, length : {2}]

=============================================================================
