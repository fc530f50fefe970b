------------------------- MODULE MCReceiverSession -------------------------
(* Five clicks allow two stops between starts that overlap, so that up to two *)
(* stray connections and a current one exist: three sockets are enough.       *)
EXTENDS ReceiverSession

=============================================================================
