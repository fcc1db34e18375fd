---------------------------- MODULE MCSafeAssign ----------------------------
(***************************************************************************)
(* The test's pair of opposite assignments and its self-assignment, and a  *)
(* third object that closes a circle of three.  Vectors of two elements    *)
(* can be half copied.                                                     *)
(***************************************************************************)
EXTENDS SafeAssign, TLC

CONSTANTS t1, t2, t3, t4, t5, a, b, c

MCLhs == t1 :> a @@ t2 :> b @@ t3 :> b @@ t4 :> c @@ t5 :> a
MCRhs == t1 :> b @@ t2 :> a @@ t3 :> c @@ t4 :> a @@ t5 :> a
=============================================================================
