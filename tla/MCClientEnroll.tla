--------------------------- MODULE MCClientEnroll ---------------------------
(***************************************************************************)
(* ClientEnroll for TLC: the authorities are interchangeable.              *)
(***************************************************************************)
EXTENDS ClientEnroll, TLC

Symmetry == Permutations(Authorities)
=============================================================================
