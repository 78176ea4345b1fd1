---------------------------- MODULE RootCeremony ----------------------------
(***************************************************************************)
(* What initialization promises an operator, without files, crashes or     *)
(* reconciliation: the parameters of one root are drawn, only those are    *)
(* signed, one of the signed roots is published, and the ceremony ends     *)
(* once, as initialized with a root or as abandoned before there were any  *)
(* parameters.  The end goes on record once, and only a root whose         *)
(* ceremony is on record is served.                                        *)
(***************************************************************************)
EXTENDS Sequences

CONSTANTS
  Params,       \* root parameters
  Sigs,         \* what signing the same bytes twice may return
  Nobody        \* no parameters, and no root

VARIABLES
  drawn,        \* the parameters of the root
  certs,        \* the roots that were signed
  published,    \* the root of the authority
  outcome,      \* how the ceremony ended
  record,       \* what the audit log says of it
  served        \* the root that was loaded for serving

cerVars == <<drawn, certs, published, outcome, record, served>>

Certs == [tbs : Params, sig : Sigs]

RInit ==
  /\ drawn = Nobody /\ certs = {} /\ published = Nobody
  /\ outcome = "open" /\ record = <<>> /\ served = Nobody

Draw(p) ==
  /\ outcome = "open" /\ drawn = Nobody /\ drawn' = p
  /\ UNCHANGED <<certs, published, outcome, record, served>>

Sign(c) ==
  /\ outcome = "open" /\ published = Nobody
  /\ c.tbs = drawn /\ certs' = certs \cup {c}
  /\ UNCHANGED <<drawn, published, outcome, record, served>>

Publish(c) ==
  /\ outcome = "open" /\ published = Nobody
  /\ c \in certs /\ published' = c
  /\ UNCHANGED <<drawn, certs, outcome, record, served>>

Conclude ==
  /\ outcome = "open"
  /\ \/ published # Nobody /\ outcome' = "authority_initialized"
     \/ drawn = Nobody /\ outcome' = "init_abandoned"
  /\ UNCHANGED <<drawn, certs, published, record, served>>

Record ==
  /\ outcome # "open" /\ record = <<>> /\ record' = <<outcome>>
  /\ UNCHANGED <<drawn, certs, published, outcome, served>>

Serve ==
  /\ record = <<"authority_initialized">> /\ served' = published
  /\ UNCHANGED <<drawn, certs, published, outcome, record>>

Leave ==
  /\ served' = Nobody
  /\ UNCHANGED <<drawn, certs, published, outcome, record>>

RNext ==
  \/ \E p \in Params : Draw(p)
  \/ \E c \in Certs : Sign(c) \/ Publish(c)
  \/ Conclude \/ Record \/ Serve \/ Leave

RSpec == RInit /\ [][RNext]_cerVars
=============================================================================
