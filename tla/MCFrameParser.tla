---------------------------- MODULE MCFrameParser ----------------------------
(* Fragments, interrupting control frames, all three forms of the length, and *)
(* each violation: no mask, too long, too long together, nothing to continue. *)
EXTENDS FrameParser

MCFrame(fin, opcode, ext, size_) ==
    [fin |-> fin, opcode |-> opcode, masked |-> TRUE, ext |-> ext, size |-> size_]

MCFrames ==
    { MCFrame(FALSE, "text", 0, 1), MCFrame(FALSE, "binary", 2, 2),
      MCFrame(FALSE, "continuation", 0, 1), MCFrame(TRUE, "continuation", 8, 1),
      MCFrame(TRUE, "reserved", 0, 2), MCFrame(TRUE, "ping", 0, 1), MCFrame(TRUE, "close", 0, 0),
      MCFrame(TRUE, "binary", 2, 4),
      [MCFrame(TRUE, "text", 0, 1) EXCEPT !.masked = FALSE] }

=============================================================================
