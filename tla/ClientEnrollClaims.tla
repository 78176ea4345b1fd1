------------------------- MODULE ClientEnrollClaims -------------------------
(***************************************************************************)
(* What the documentation of the client says of a create that was          *)
(* interrupted, as a property of ClientEnroll that a run refutes;          *)
(* README.md tells the trace.                                              *)
(***************************************************************************)
EXTENDS MCClientEnroll

\* create is run again and again, and nobody else touches the key or the
\* authority.  It may be interrupted anywhere, though not for ever, and does not
\* stand still.
Creating ==
  Create \/ Recover \/ Admit \/ Open \/ Finalize \/ Csr \/ \E f \in Files : Publish(f)

PersistentSpec ==
  /\ Init /\ [][Creating \/ Stop]_vars
  /\ <>[][Creating]_vars /\ WF_vars(Creating)

\* "If interruption occurs before request metadata is complete, rerun the exact
\* `create` command" (docs/azihsm-ca-demo.md): what has a staging record gets its
\* request, unless the provider failed the key or the numbers ran out.
RerunCompletes ==
  Final("staging") ~> Final("request") \/ Final("failed") \/ fresh = MaxFresh
=============================================================================
