--------------------------- MODULE MCSutterStack ----------------------------
(***************************************************************************)
(* Two stacks of up to three elements and arrays that start with one: each *)
(* grows once, is copied while full and while not, and shrinks again.      *)
(***************************************************************************)
EXTENDS SutterStack, TLC

\* Neither the objects nor the values are told apart.
Symmetry == Permutations(Stacks) \cup Permutations(Values)
=============================================================================
