---------------------------- MODULE CertRegister ----------------------------
(***************************************************************************)
(* What the enrollment service promises a caller, without files, crashes   *)
(* or recovery: an idempotency key is bound once, to one certificate       *)
(* issued for one signing request, and every answer given for that key     *)
(* hands out that certificate for that request.  A key that is bound is    *)
(* bound for ever.                                                         *)
(***************************************************************************)
CONSTANTS
  Keys,      \* idempotency keys
  Csrs,      \* certificate signing requests
  Ids,       \* issuance identifiers
  Nobody     \* the value of a key that is not bound

VARIABLES
  bound,     \* [Keys -> the request and issuance a key is bound to]
  answers    \* the certificates handed out so far

regVars == <<bound, answers>>

Bindings == [csr : Csrs, id : Ids]

\* 201 is the answer to the request that created the certificate, 200 a replay.
Answers == [key : Keys, csr : Csrs, id : Ids, status : {200, 201}]

RInit ==
  /\ bound = [k \in Keys |-> Nobody]
  /\ answers = {}

\* An issuance takes effect: a key that has no certificate gets one.
Bind(k, c, i) ==
  /\ bound[k] = Nobody
  /\ bound' = [bound EXCEPT ![k] = [csr |-> c, id |-> i]]
  /\ UNCHANGED answers

\* A caller is given the certificate of its key, and only for the request
\* that the key is bound to.
Hand(k, status) ==
  /\ bound[k] # Nobody
  /\ answers' = answers \cup
       {[key |-> k, csr |-> bound[k].csr, id |-> bound[k].id, status |-> status]}
  /\ UNCHANGED bound

RNext ==
  \/ \E k \in Keys, c \in Csrs, i \in Ids : Bind(k, c, i)
  \/ \E k \in Keys, status \in {200, 201} : Hand(k, status)

RSpec == RInit /\ [][RNext]_regVars
=============================================================================
