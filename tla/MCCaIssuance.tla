---------------------------- MODULE MCCaIssuance ----------------------------
(* Model checking of CaIssuance.  Keys, requests and permits are told apart *)
(* by equality only, so they may be permuted; issuances, serials and        *)
(* quarantines are ordered by their names and may not.                      *)
EXTENDS CaIssuance, TLC

Symmetry == Permutations(Keys) \cup Permutations(Csrs) \cup Permutations(Permits)
=============================================================================
