--------------------------- MODULE MCRwSemaphore ----------------------------
(***************************************************************************)
(* Three users of the lock and a count of up to three readers: the         *)
(* smallest instance where two readers race a writer and a fourth reader   *)
(* would overflow.                                                         *)
(***************************************************************************)
EXTENDS RwSemaphore

=============================================================================
