--------------------------- MODULE MCMessageQueue ---------------------------
(***************************************************************************)
(* Two producers of two items and three consumers: two sleepers and a late *)
(* caller that may steal the item of a notified one.                       *)
(***************************************************************************)
EXTENDS MessageQueue
=============================================================================
