--------------------------- MODULE MCMessageQueue ---------------------------
(* MessageQueue on a ring that grows twice (1 -> 2 -> 3, the second growth  *)
(* cut by MaxCapacity) and then drops its oldest message.                   *)
EXTENDS MessageQueue
=============================================================================
