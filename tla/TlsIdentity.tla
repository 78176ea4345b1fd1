----------------------------- MODULE TlsIdentity -----------------------------
(***************************************************************************)
(* The identity of the TLS server over its restarts: certificate           *)
(* generations in the state directory, renewal, selection and pruning      *)
(* (crates/azihsm-tls-server/src/identity.rs:147).                         *)
(*                                                                         *)
(* Generation 0 is the directory itself, filled by the enrollment that     *)
(* created the identity (module ClientEnroll); the others are directories  *)
(* under renewals/.  A certificate is its authority, when it becomes valid *)
(* and its expiry; with it is recorded which authority the metadata named. *)
(* The authority answers as CertRegister has it: an idempotency key is     *)
(* bound to one certificate, and the server always presents the same key.  *)
(***************************************************************************)
EXTENDS Integers, FiniteSets

CONSTANTS
  Renewals,      \* operation identifiers of renewals
  Authorities,   \* authorities that may serve at the URL
  Nobody,        \* no certificate, no authority
  LeafLife,      \* how long a certificate is valid
  ClockSkew,     \* by how much a certificate is dated back
  MaxCacheAge,   \* how close to its expiry a certificate is to be renewed
  Retained,      \* how many candidates pruning keeps
  MaxFaults,     \* bound: faults of the file system
  Horizon        \* bound: where the clock of the model stops

ASSUME Numbers ==
  /\ Renewals \subseteq Nat \ {0} /\ {LeafLife, ClockSkew, MaxCacheAge, MaxFaults, Horizon} \subseteq Nat
  /\ Retained \in Nat \ {0}
ASSUME RenewalsAreFinite == IsFiniteSet(Renewals)

Gens == {0} \cup Renewals
Leaves == [auth : Authorities, nb : (0 - ClockSkew)..Horizon, na : 0..(Horizon + LeafLife)]

ASSUME NobodyElse == Nobody \notin Leaves \cup Authorities

VARIABLES
  now,      \* the clock
  auth,     \* who serves at the URL
  issued,   \* the certificate each authority has bound to our key
  request,  \* request-metadata.json is there
  gen,      \* each generation: its files, its certificate, when that was
            \* verified, its selection.json
  pc,       \* where the program is
  prog,     \* its locals: when it began, how it got its certificate, the
            \* candidates, the authority of the metadata and of the root and
            \* the certificate it was given, the generation it writes or serves
  faults

disk == <<request, gen>>
ca   == <<auth, issued>>
vars == <<now, ca, disk, pc, prog, faults>>

\* A directory is partial without issuance-metadata.json, and damaged with it
\* but without one of the certificates.
GenStates == {"absent", "partial", "complete", "damaged", "quarantined"}
GenTypes == [st : GenStates, leaf : Leaves \cup {Nobody}, id : Authorities \cup {Nobody},
             at : 0..Horizon, sel : {"absent", "torn", "final"}]

Bare(s) == [st |-> s, leaf |-> Nobody, id |-> Nobody, at |-> 0, sel |-> "absent"]
Filled(l, a, t) == [st |-> "complete", leaf |-> l, id |-> a, at |-> t, sel |-> "absent"]

Fresh == [began |-> now, outcome |-> "none", cands |-> {}, meta |-> Nobody,
          root |-> Nobody, offer |-> Nobody, target |-> 0]
Idle == [Fresh EXCEPT !.began = 0]

Init ==
  /\ now = 0 /\ auth \in Authorities
  /\ issued = [a \in Authorities |-> Nobody]
  /\ request = FALSE /\ gen = [g \in Gens |-> Bare("absent")]
  /\ pc = "off" /\ prog = Idle /\ faults = 0

Fault == faults < MaxFaults /\ faults' = faults + 1

-----------------------------------------------------------------------------
(* The candidates.                                                         *)

With(s) == {g \in Gens : gen[g].st = s}
Partials == With("partial") \cap Renewals

ValidAt(l, t) == l.nb <= t /\ t <= l.na

\* candidate_order: expiry, then verification time, then operation.
Before(g, h) ==
  \/ gen[g].leaf.na < gen[h].leaf.na
  \/ /\ gen[g].leaf.na = gen[h].leaf.na
     /\ gen[g].at < gen[h].at \/ (gen[g].at = gen[h].at /\ g < h)

Last(S) == CHOOSE g \in S : \A h \in S \ {g} : Before(h, g)

\* The candidates that come after all but n of S.
Newest(S, n) == {g \in S : Cardinality({h \in S : Before(g, h)}) < n}

Loaded == {g \in With("complete") : ValidAt(gen[g].leaf, prog.began)}

\* Variant: what is to be renewed is rejected.
RejectedNear ==
  {g \in With("complete") \cap Renewals : gen[g].leaf.na - prog.began <= MaxCacheAge}

Rejected == (With("complete") \cup With("damaged")) \cap (Renewals \ Loaded)

\* cache_state
Current(S) == S # {} /\ gen[Last(S)].leaf.na - prog.began > MaxCacheAge

-----------------------------------------------------------------------------
(* prepare_server_identity.                                                *)

Goto(next) == pc' = next /\ UNCHANGED prog
Exit == pc' = "off" /\ prog' = Idle

\* The state lock is taken and the time is read, once.
Launch ==
  /\ pc = "off" /\ prog' = Fresh /\ pc' = IF request THEN "load" ELSE "create"
  /\ UNCHANGED <<now, ca, disk, faults>>

\* show runs the same load, which quarantines what it rejects.
Show ==
  /\ pc = "off" /\ request /\ prog' = [Fresh EXCEPT !.outcome = "show"] /\ pc' = "load"
  /\ UNCHANGED <<now, ca, disk, faults>>

\* The authority binds our key, the first time it is asked.
Bind ==
  issued' = IF issued[auth] = Nobody
            THEN [issued EXCEPT ![auth] =
                    [auth |-> auth, nb |-> now - ClockSkew, na |-> now + LeafLife]]
            ELSE issued

\* artifacts::create: to its end, with the metadata of any authority; or up to and
\* with the request, answered or not, or not even that.  (One that left its staging
\* record is refused from then on, as ClientEnroll has it; here it may yet succeed.)
Create ==
  /\ pc = "create"
  /\ \/ /\ Bind /\ ValidAt(issued'[auth], now) /\ request' = TRUE
        /\ \E a \in Authorities : gen' = [gen EXCEPT ![0] = Filled(issued'[auth], a, now)]
        /\ prog' = [prog EXCEPT !.outcome = "created"] /\ pc' = "load"
     \/ request' = TRUE /\ (Bind \/ UNCHANGED issued) /\ Exit /\ UNCHANGED gen
     \/ Exit /\ UNCHANGED <<issued, disk>>
  /\ UNCHANGED <<now, auth, faults>>

\* load_candidates, and what is done with them: rejected renewals are renamed
\* (or not), a rejected base stays.  Two partial renewals end the program.
Load ==
  /\ pc \in {"load", "reload"}
  /\ IF Cardinality(Partials) > 1
     THEN Exit /\ UNCHANGED <<gen, faults>>
     ELSE /\ \/ /\ gen' = [g \in Gens |-> IF g \in Rejected THEN Bare("quarantined") ELSE gen[g]]
                /\ UNCHANGED faults
             \/ Rejected # {} /\ Fault /\ UNCHANGED gen
          /\ CASE prog.outcome = "show" -> Exit
               [] prog.outcome = "none" /\ ~Current(Loaded) ->
                    pc' = "ask" /\ prog' = [prog EXCEPT !.cands = Loaded]
               [] OTHER -> pc' = "select" /\ prog' = [prog EXCEPT !.cands = Loaded]
  /\ UNCHANGED <<now, ca, request>>

\* The authority is unavailable: the cached certificate will do, if there is one.
FallBack ==
  IF prog.cands # {}
  THEN pc' = "select" /\ prog' = [prog EXCEPT !.meta = Nobody, !.root = Nobody]
  ELSE Exit

Unavailable ==
  /\ pc \in {"ask", "root", "enroll"} /\ FallBack
  /\ UNCHANGED <<now, ca, disk, faults>>

\* Readiness and metadata.
Metadata ==
  /\ pc = "ask" /\ pc' = "root" /\ prog' = [prog EXCEPT !.meta = auth]
  /\ UNCHANGED <<now, ca, disk, faults>>

\* The root.  With a cached certificate, both it and the metadata must be those
\* of that certificate; without one, they are not compared.
Root ==
  /\ pc = "root"
  /\ IF /\ prog.cands # {}
        /\ LET cached == gen[Last(prog.cands)] IN
             prog.meta # cached.id \/ auth # cached.leaf.auth
     THEN Exit
     ELSE pc' = "enroll" /\ prog' = [prog EXCEPT !.root = auth]
  /\ UNCHANGED <<now, ca, disk, faults>>

Accepted(l) == pc' = "mkdir" /\ prog' = [prog EXCEPT !.offer = l, !.root = Nobody]

\* Variant: the certificate is not verified against the root that was fetched.
EnrollUnverified ==
  /\ pc = "enroll" /\ Bind
  /\ \/ ValidAt(issued'[auth], prog.began) /\ Accepted(issued'[auth])
     \/ FallBack
  /\ UNCHANGED <<now, auth, disk, faults>>

\* The authority of this moment answers for our key; the answer may get lost,
\* and must verify against the root fetched before.
Enroll ==
  /\ pc = "enroll" /\ Bind
  /\ \/ IF auth = prog.root /\ ValidAt(issued'[auth], prog.began)
        THEN Accepted(issued'[auth]) ELSE Exit
     \/ FallBack
  /\ UNCHANGED <<now, auth, disk, faults>>

Begin(g) ==
  /\ gen[g].st = "absent" /\ gen' = [gen EXCEPT ![g] = Bare("partial")]
  /\ pc' = "publish" /\ prog' = [prog EXCEPT !.target = g]

\* pending_renewal and ensure_directory: a renewal that broke off is found, and
\* its directory cannot be created again.
MakeDirectory ==
  /\ pc = "mkdir"
  /\ IF Partials # {} THEN Exit /\ UNCHANGED gen ELSE \E g \in Renewals : Begin(g)
  /\ UNCHANGED <<now, ca, request, faults>>

\* Intent, root, leaf and issuance metadata, in this order.
Publish ==
  /\ pc = "publish" /\ pc' = "reload"
  /\ prog' = [prog EXCEPT !.outcome = "renewed", !.meta = Nobody, !.offer = Nobody,
                          !.cands = {}, !.target = 0]
  /\ gen' = [gen EXCEPT ![prog.target] = Filled(prog.offer, prog.meta, prog.began)]
  /\ UNCHANGED <<now, ca, request, faults>>

Best == Last(prog.cands)

\* The last candidate; a selection.json that was cut short stays in the way.
Select ==
  /\ pc = "select"
  /\ IF prog.cands = {} \/ gen[Best].sel = "torn"
     THEN Exit /\ UNCHANGED <<gen, faults>>
     ELSE \/ /\ gen' = [gen EXCEPT ![Best].sel = "final"] /\ UNCHANGED faults
             /\ pc' = "prune" /\ prog' = [prog EXCEPT !.target = Best]
          \/ gen[Best].sel = "absent" /\ Fault /\ Exit /\ gen' = [gen EXCEPT ![Best].sel = "torn"]
  /\ UNCHANGED <<now, ca, request>>

\* Variant: what was kept of the candidates is not left out.
PrunableAll == prog.cands

\* prune_generations keeps the last three candidates and the selected one.
Prunable == prog.cands \ (Newest(prog.cands, Retained) \cup {prog.target})

\* A removal that fails leaves what it did not get to: of the base in the order
\* of its files, of a renewal in any.
Prune(g) ==
  /\ pc = "prune" /\ g \in Prunable
  /\ \/ gen' = [gen EXCEPT ![g] = Bare("absent")] /\ UNCHANGED faults
     \/ /\ Fault
        /\ \E left \in {"damaged"} \cup (IF g = 0 THEN {} ELSE {"partial"}) :
             gen' = [gen EXCEPT ![g] = Bare(left)]
  /\ prog' = [prog EXCEPT !.cands = @ \ {g}]
  /\ UNCHANGED <<now, ca, request, pc>>

\* server::run looks at the expiry again.
Serve ==
  /\ pc = "prune" /\ Prunable = {}
  /\ IF now < gen[prog.target].leaf.na
     THEN pc' = "serving" /\ prog' = [Idle EXCEPT !.target = prog.target] ELSE Exit
  /\ UNCHANGED <<now, ca, disk, faults>>

\* An error anywhere, also an answer of the authority that is not what it must
\* be; the death of the process; the end of serving.
Stop == pc # "off" /\ Exit /\ UNCHANGED <<now, ca, disk, faults>>

-----------------------------------------------------------------------------
(* The authority and the clock.                                            *)

Replaced ==
  /\ auth' \in Authorities \ {auth}
  /\ UNCHANGED <<now, issued, disk, pc, prog, faults>>

Tick ==
  /\ now < Horizon /\ now' = now + 1
  /\ pc = "serving" => now < gen[prog.target].leaf.na
  /\ UNCHANGED <<ca, disk, pc, prog, faults>>

Next ==
  \/ Launch \/ Show \/ Create \/ Load \/ Unavailable \/ Metadata \/ Root \/ Enroll
  \/ MakeDirectory \/ Publish \/ Select \/ Serve \/ Stop \/ Replaced \/ Tick
  \/ \E g \in Gens : Prune(g)

Spec == Init /\ [][Next]_vars

-----------------------------------------------------------------------------
(* Properties.                                                             *)

\* The types; only a complete generation has a certificate, a program that
\* writes a generation has one to write, and the generation it has settled on
\* stays on disk, selected, while it prunes and serves.
TypeOK ==
  /\ now \in 0..Horizon /\ auth \in Authorities
  /\ issued \in [Authorities -> Leaves \cup {Nobody}] /\ request \in BOOLEAN
  /\ gen \in [Gens -> GenTypes]
  /\ \A g \in Gens : gen[g].leaf # Nobody <=> gen[g].st = "complete"
  /\ pc \in {"off", "create", "load", "ask", "root", "enroll", "mkdir", "publish",
             "reload", "select", "prune", "serving"}
  /\ prog \in [began : 0..Horizon, outcome : {"none", "show", "created", "renewed"},
               cands : SUBSET Gens, meta : Authorities \cup {Nobody},
               root : Authorities \cup {Nobody}, offer : Leaves \cup {Nobody},
               target : Gens]
  /\ pc \in {"mkdir", "publish"} => prog.offer # Nobody
  /\ pc \in {"prune", "serving"} =>
       gen[prog.target].st = "complete" /\ gen[prog.target].sel = "final"
  /\ faults \in 0..MaxFaults

Whole(g) == gen[g].st = "complete" /\ ValidAt(gen[g].leaf, now)

\* All valid generations of a directory hold one certificate: another authority
\* at the URL is noticed, also when it comes between two requests of a renewal,
\* and the same one has no other certificate for the key.
OneCertificate == \A g, h \in Gens : Whole(g) /\ Whole(h) => gen[g].leaf = gen[h].leaf

\* Neither quarantine nor pruning, finished or broken off, of a start, of show or
\* of several, costs the directory the validity it has.
ValidityIsKept ==
  [][\A g \in Gens : Whole(g) =>
       \E h \in Gens : gen'[h].st = "complete" /\ gen'[h].leaf.na >= gen[g].leaf.na]_vars
=============================================================================
