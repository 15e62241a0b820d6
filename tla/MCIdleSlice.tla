----------------------------- MODULE MCIdleSlice ------------------------------
(***************************************************************************)
(* IdleSlice for TLC: connections and setters may be swapped.              *)
(***************************************************************************)
EXTENDS IdleSlice, TLC

Symmetry == Permutations(Conn) \cup Permutations(Setter)
==============================================================================
