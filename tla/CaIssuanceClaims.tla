-------------------------- MODULE CaIssuanceClaims --------------------------
(***************************************************************************)
(* What the documentation of the certificate authority says of issuance,   *)
(* as a property of CaIssuance that a run refutes; README.md tells the     *)
(* trace.                                                                  *)
(***************************************************************************)
EXTENDS MCCaIssuance

\* "pre-commit or inconsistent state fails closed and never causes a second
\* certificate to be issued", while what is committed is finished
\* (crates/azihsm-ca/README.md): no key has two committed issuances.
OneCommitPerKey ==
  \A i, j \in Ids :
    files[i].commit = "final" /\ files[j].commit = "final" /\ meta[i].key = meta[j].key
      => i = j
=============================================================================
