-------------------------- MODULE MCBoundedTryQueue -------------------------
(***************************************************************************)
(* Two threads of three calls on a queue of two: it fills up, refuses,     *)
(* drains, and both threads race for the last place and the last element.  *)
(***************************************************************************)
EXTENDS BoundedTryQueue
=============================================================================
