---------------------------- MODULE MCLruCacheV2 ----------------------------
(***************************************************************************)
(* Four keys over a cache of three and two values.  With more keys than    *)
(* room, and room for three, an eviction, a hit in the middle and a failed *)
(* load follow each other in every order.                                  *)
(***************************************************************************)
EXTENDS LruCacheV2
=============================================================================
