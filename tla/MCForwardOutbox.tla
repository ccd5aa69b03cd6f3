--------------------------- MODULE MCForwardOutbox ---------------------------
(* Instances of ForwardOutbox for TLC. *)
EXTENDS ForwardOutbox
==============================================================================
