--------------------------- MODULE MCMessageQueue ---------------------------
(***************************************************************************)
(* MessageQueue for TLC: producers are model values.                       *)
(***************************************************************************)
EXTENDS MessageQueue
=============================================================================
