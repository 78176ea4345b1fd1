-------------------------- MODULE TlsIdentityProofs --------------------------
(***************************************************************************)
(* What the state directory of the TLS server keeps over any number of     *)
(* starts, renewals, authorities at the URL, faults and expiries.          *)
(***************************************************************************)
EXTENDS TlsIdentity, FiniteSetTheorems, WellFoundedInduction, TLAPS

-----------------------------------------------------------------------------
(* The last of the candidates.                                             *)

LEMMA LeastNat ==
  ASSUME NEW T \in SUBSET Nat, T # {}
  PROVE  \E x \in T : \A y \in T : x <= y
PROOF
  <1> DEFINE Less == {ss \in Nat \X Nat : ss[1] < ss[2]}
  <1>1. IsWellFoundedOn(Less, Nat)
    <2>1. OpToRel(<, Nat) = Less
      BY DEF OpToRel
    <2> QED BY <2>1, NatLessThanWellFounded
  <1>2. PICK x \in T : \A y \in T : ~(<<y, x>> \in Less)
    BY <1>1, WFMin
  <1>3. \A y \in T : x <= y
    <2> TAKE y \in T
    <2>1. <<y, x>> \in Nat \X Nat /\ ~(y < x)
      BY <1>2
    <2> QED BY <2>1
  <1> QED BY <1>3

\* Expiry, verification time and operation order any two candidates.
Ordered == gen \in [Gens -> GenTypes] /\ \A g \in Gens : gen[g].st = "complete" => gen[g].leaf \in Leaves

LEMMA BeforeIsTotal ==
  ASSUME Ordered, NEW S \in SUBSET With("complete")
  PROVE  /\ \A g, h \in S : g # h => (Before(g, h) <=> ~Before(h, g))
         /\ \A g, h, k \in S : Before(g, h) /\ Before(h, k) => Before(g, k)
         /\ \A g \in S : ~Before(g, g)
PROOF
  <1>1. \A g \in S : g \in Nat /\ gen[g].leaf.na \in Nat /\ gen[g].at \in Nat
    BY Numbers DEF Ordered, With, Gens, GenTypes, Leaves
  <1> QED BY <1>1 DEF Before

\* So a set of them has a last element, although it is only known to be finite:
\* the one that the fewest come after.
LEMMA LastIsLast ==
  ASSUME Ordered, NEW S \in SUBSET With("complete"), S # {}
  PROVE  Last(S) \in S /\ \A h \in S \ {Last(S)} : Before(h, Last(S))
PROOF
  <1> DEFINE Up(g) == {h \in S : Before(g, h)}
  <1>1. IsFiniteSet(S)
    <2>1. IsFiniteSet({0} \cup Renewals)
      BY RenewalsAreFinite, FS_Singleton, FS_Union
    <2>2. S \subseteq {0} \cup Renewals
      BY DEF With, Gens
    <2> QED BY <2>1, <2>2, FS_Subset
  <1>2. \A g \in S : IsFiniteSet(Up(g)) /\ Cardinality(Up(g)) \in Nat
    BY <1>1, FS_Subset, FS_CardinalityType
  <1> DEFINE Counts == {Cardinality(Up(g)) : g \in S}
  <1>3. PICK n \in Counts : \A m \in Counts : n <= m
    <2>1. Counts \in SUBSET Nat /\ Counts # {}
      <3> HIDE DEF Up
      <3> QED BY <1>2
    <2> HIDE DEF Counts
    <2> QED BY <2>1, LeastNat
  <1>4. PICK g \in S : Cardinality(Up(g)) = n
    BY <1>3
  <1>5. ASSUME NEW h \in S, Before(g, h) PROVE FALSE
    <2>1. Up(h) \subseteq Up(g) /\ h \in Up(g) /\ h \notin Up(h)
      BY <1>5, BeforeIsTotal
    <2>2. Cardinality(Up(h)) < Cardinality(Up(g))
      <3>1. Up(h) # Up(g)
        BY <2>1
      <3> HIDE DEF Up
      <3> QED BY <1>2, <2>1, <3>1, FS_Subset
    <2>3. n <= Cardinality(Up(h))
      BY <1>3
    <2> QED BY <1>2, <1>4, <2>2, <2>3
  <1>6. \A h \in S \ {g} : Before(h, g)
    BY <1>5, BeforeIsTotal
  <1> QED BY <1>6 DEF Last

-----------------------------------------------------------------------------
(* The inductive invariant.                                                *)

\* The generations that have not expired at t hold one certificate.
Unexpired(l, t) == t <= l.na
OneAt(t) ==
  \A g, h \in With("complete") :
    Unexpired(gen[g].leaf, t) /\ Unexpired(gen[h].leaf, t) => gen[g].leaf = gen[h].leaf

Preparing == {"create", "load", "ask", "root", "enroll", "mkdir", "publish", "reload", "select", "prune"}
Asking    == {"ask", "root", "enroll", "mkdir", "publish"}

\* No certificate on the disk is of the future; of the time since the program
\* began is at most the one it has just created.
Dated ==
  /\ \A g \in With("complete") : gen[g].leaf.nb <= now
  /\ pc \in Preparing =>
       \A g \in With("complete") :
         gen[g].leaf.nb <= prog.began \/ (g = 0 /\ prog.outcome = "created")
  /\ pc \in Asking => prog.outcome = "none"

\* Certificates are those that authorities have bound to the key.
Issued ==
  /\ \A a \in Authorities : issued[a] # Nobody => issued[a].auth = a
  /\ \A g \in With("complete") : gen[g].leaf = issued[gen[g].leaf.auth]
  /\ request \/ With("complete") = {}
  /\ pc \in Preparing => (request <=> pc # "create")

\* The program works on what was valid when it began, which is no less than what
\* is valid now; a certificate it has accepted is that of all of those.
Prepared ==
  /\ prog.began <= now
  /\ OneAt(now) /\ (pc \in Preparing => OneAt(prog.began))
  /\ pc \in Asking => prog.cands = Loaded
  /\ pc \in {"select", "prune"} => prog.cands \subseteq With("complete")
  /\ pc = "enroll" /\ prog.cands # {} => gen[Last(prog.cands)].leaf.auth = prog.root
  /\ pc \in {"mkdir", "publish"} =>
       /\ prog.offer = issued[prog.offer.auth] /\ prog.offer.nb <= prog.began
       /\ \A g \in Loaded : gen[g].leaf = prog.offer
  /\ pc = "publish" => gen[prog.target].st = "partial"
  /\ pc = "prune" => \A c \in prog.cands : gen[c].leaf.na <= gen[prog.target].leaf.na

Inv == TypeOK /\ Issued /\ Prepared /\ Dated

\* What the types say of the numbers and the certificates.
LEMMA Facts ==
  ASSUME TypeOK
  PROVE  /\ Ordered /\ now \in Nat /\ prog.began \in 0..Horizon /\ Horizon \in Nat
         /\ LeafLife \in Nat /\ prog.cands \subseteq Gens /\ prog.target \in Gens
         /\ \A g \in Gens : gen[g] \in GenTypes /\ (gen[g].st = "complete" => gen[g].leaf \in Leaves)
         /\ \A l \in Leaves : l.auth \in Authorities /\ l.na \in Nat /\ l.nb \in Int
         /\ \A a \in Authorities : issued[a] = Nobody \/ issued[a] \in Leaves
         /\ \A l \in Leaves, t, u \in Nat : t <= u /\ Unexpired(l, u) => Unexpired(l, t)
PROOF
  <1>1. /\ Horizon \in Nat /\ LeafLife \in Nat /\ ClockSkew \in Nat
    BY Numbers
  <1>2. \A g \in Gens : gen[g] \in GenTypes /\ (gen[g].st = "complete" => gen[g].leaf \in Leaves)
    BY NobodyElse DEF TypeOK, GenTypes
  <1>3. Ordered
    BY <1>2 DEF Ordered, TypeOK
  <1>4. \A l \in Leaves : l.auth \in Authorities /\ l.na \in Nat /\ l.nb \in Int
    BY <1>1 DEF Leaves
  <1>5. prog.began \in 0..Horizon /\ prog.cands \subseteq Gens /\ prog.target \in Gens
    BY DEF TypeOK
  <1>6. now \in Nat /\ \A a \in Authorities : issued[a] = Nobody \/ issued[a] \in Leaves
    BY DEF TypeOK
  <1>7. \A l \in Leaves, t, u \in Nat : t <= u /\ Unexpired(l, u) => Unexpired(l, t)
    BY <1>4 DEF Unexpired
  <1> QED BY <1>1, <1>2, <1>3, <1>4, <1>5, <1>6, <1>7

\* What was valid when the program began includes what is valid now.
LEMMA OneNow ==
  ASSUME TypeOK, prog.began <= now, OneAt(prog.began)
  PROVE  OneAt(now)
PROOF
  BY Facts DEF OneAt, With

LEMMA InitInv == Init => Inv
PROOF
  <1> SUFFICES ASSUME Init PROVE Inv
    OBVIOUS
  <1>1. Idle = [began |-> 0, outcome |-> "none", cands |-> {}, meta |-> Nobody,
                root |-> Nobody, offer |-> Nobody, target |-> 0]
    BY DEF Idle, Fresh
  <1>2. TypeOK
    <2>1. 0 \in 0..Horizon /\ 0 \in 0..MaxFaults /\ 0 \in Gens
      BY Numbers DEF Gens
    <2>2. Bare("absent") \in GenTypes
      BY <2>1 DEF Bare, GenTypes, GenStates
    <2>3. Bare("absent").leaf = Nobody /\ Bare("absent").st = "absent"
      BY DEF Bare
    <2>4. gen \in [Gens -> GenTypes] /\ \A g \in Gens : gen[g] = Bare("absent")
      BY <2>2 DEF Init
    <2> QED BY <1>1, <2>1, <2>3, <2>4 DEF Init, TypeOK
  <1>3. With("complete") = {}
    BY DEF Init, With, Bare
  <1> QED BY <1>1, <1>2, <1>3, Numbers
          DEF Init, Inv, Issued, Prepared, Dated, OneAt, Preparing, Asking

-----------------------------------------------------------------------------
(* The steps.                                                              *)

Progs == [began : 0..Horizon, outcome : {"none", "show", "created", "renewed"},
          cands : SUBSET Gens, meta : Authorities \cup {Nobody},
          root : Authorities \cup {Nobody}, offer : Leaves \cup {Nobody}, target : Gens]

LEMMA IdleIs ==
  ASSUME TypeOK
  PROVE  /\ Idle \in Progs /\ Idle.began = 0 /\ Idle.cands = {}
         /\ Fresh \in Progs /\ Fresh.began = now /\ Fresh.cands = {}
PROOF
  BY Facts, Numbers DEF Idle, Fresh, Progs, Gens, TypeOK

\* Time goes on, and no certificate is added: all are of the past.
LEMMA StillDated ==
  ASSUME Inv, now' \in Nat, now <= now',
         \A g \in Gens : gen'[g].st = "complete" =>
           gen[g].st = "complete" /\ gen'[g].leaf = gen[g].leaf,
         pc' \in Preparing =>
           pc \in Preparing /\ prog'.began = prog.began /\ prog'.outcome = prog.outcome,
         pc' \in Asking => prog'.outcome = "none"
  PROVE  Dated'
PROOF
  <1>1. \A g \in With("complete")' : g \in With("complete") /\ gen'[g].leaf = gen[g].leaf
    BY DEF With
  <1>2. \A g \in With("complete") : gen[g].leaf.nb <= now /\ gen[g].leaf.nb \in Int
    BY Facts DEF Inv, Dated, With
  <1>3. now \in Nat
    BY Facts DEF Inv
  <1>4. \A g \in With("complete")' : gen'[g].leaf.nb <= now'
    BY <1>1, <1>2, <1>3
  <1>5. pc' \in Preparing =>
          \A g \in With("complete")' :
            gen'[g].leaf.nb <= prog'.began \/ (g = 0 /\ prog'.outcome = "created")
    BY <1>1 DEF Inv, Dated
  <1> QED BY <1>4, <1>5 DEF Dated

\* The program ends; the directory and the certificates are as they were.
LEMMA Exits ==
  ASSUME Inv, Exit, UNCHANGED <<now, auth, issued, request, gen>>, faults' \in 0..MaxFaults
  PROVE  Inv'
PROOF
  <1> USE Facts, IdleIs DEF Inv, Exit
  <1>1. TypeOK'
    BY DEF TypeOK, Progs
  <1>2. Issued'
    BY DEF Issued, With, Preparing
  <1>3. Prepared'
    BY DEF Prepared, OneAt, With, Preparing, Asking
  <1>4. Dated'
    BY StillDated DEF Preparing, Asking
  <1> QED BY <1>1, <1>2, <1>3, <1>4

LEMMA LaunchInv == ASSUME Inv, Launch \/ Show PROVE Inv'
PROOF
  <1> USE Facts, IdleIs DEF Inv
  <1>1. /\ UNCHANGED <<now, auth, issued, request, gen, faults>>
        /\ pc' \in {"create", "load"} /\ (pc' = "create" <=> ~request)
        /\ prog' = Fresh \/ prog' = [Fresh EXCEPT !.outcome = "show"]
    BY DEF Launch, Show, ca, disk, TypeOK
  <1>2. prog' \in Progs /\ prog'.began = now /\ prog'.cands = {}
    BY <1>1 DEF Progs
  <1>3. TypeOK'
    BY <1>1, <1>2 DEF TypeOK, Progs
  <1>4. Issued'
    BY <1>1 DEF Issued, With, Preparing
  <1>5. Prepared'
    BY <1>1, <1>2 DEF Prepared, OneAt, With, Preparing, Asking
  <1>6. Dated'
    BY <1>1, <1>2 DEF Dated, With, Asking
  <1> QED BY <1>3, <1>4, <1>5, <1>6

\* The authority binds the key once, so that no certificate it has given changes.
LEMMA Binds ==
  ASSUME Inv, Bind
  PROVE  /\ issued' \in [Authorities -> Leaves \cup {Nobody}]
         /\ issued'[auth] \in Leaves /\ issued'[auth].auth = auth
         /\ \A a \in Authorities : issued'[a] # Nobody => issued'[a].auth = a
         /\ \A a \in Authorities : issued[a] # Nobody => issued'[a] = issued[a]
PROOF
  <1> USE Facts DEF Inv
  <1> DEFINE New == [auth |-> auth, nb |-> now - ClockSkew, na |-> now + LeafLife]
  <1>1. New \in Leaves /\ New.auth = auth /\ auth \in Authorities
    BY Numbers DEF Leaves, TypeOK
  <1>2. issued \in [Authorities -> Leaves \cup {Nobody}]
    BY DEF TypeOK
  <1>3. CASE issued[auth] = Nobody
    <2>1. issued' = [issued EXCEPT ![auth] = New]
      BY <1>3 DEF Bind
    <2> HIDE DEF New
    <2> QED BY <1>1, <1>2, <1>3, <2>1, NobodyElse DEF Issued
  <1>4. CASE issued[auth] # Nobody
    BY <1>1, <1>2, <1>4 DEF Bind, Issued
  <1> QED BY <1>3, <1>4

\* Hence the certificates on the disk are still those of their authorities.
LEMMA StillIssued ==
  ASSUME Inv, Bind, gen' = gen, request' = request \/ request',
         pc' \in Preparing => pc' # "create" /\ request'
  PROVE  Issued'
PROOF
  <1>1. \A g \in With("complete") : gen[g].leaf \in Leaves /\ gen[g].leaf = issued[gen[g].leaf.auth]
    BY Facts DEF Inv, Issued, With
  <1>2. \A g \in With("complete") : gen[g].leaf = issued'[gen[g].leaf.auth]
    BY <1>1, Binds, Facts, NobodyElse DEF Inv
  <1> QED BY <1>2, Binds DEF Issued, With, Inv

LEMMA CreateInv == ASSUME Inv, Create PROVE Inv'
PROOF
  <1> USE Facts, IdleIs DEF Inv
  <1>0. pc = "create" /\ With("complete") = {} /\ UNCHANGED <<now, auth, faults>>
    BY DEF Create, Issued, Preparing
  <1>1. CASE Exit /\ UNCHANGED gen
    <2>1. Bind \/ issued' = issued
      BY <1>1 DEF Create, disk
    <2>2. request' = request \/ request'
      BY <1>1 DEF Create, disk
    <2>3. TypeOK'
      <3>1. issued' \in [Authorities -> Leaves \cup {Nobody}]
        BY <2>1, Binds DEF TypeOK
      <3>2. request' \in BOOLEAN
        BY DEF Create, disk, TypeOK
      <3> QED BY <1>0, <1>1, <3>1, <3>2 DEF TypeOK, Exit, Progs
    <2>4. Issued'
      BY <1>0, <1>1, <2>1, <2>2, StillIssued DEF Issued, With, Preparing, Exit
    <2>5. Prepared'
      BY <1>0, <1>1 DEF Prepared, OneAt, With, Preparing, Asking, Exit
    <2>6. Dated'
      BY <1>0, <1>1, StillDated DEF Exit, Preparing, Asking
    <2> QED BY <2>3, <2>4, <2>5, <2>6
  <1>2. CASE ~(Exit /\ UNCHANGED gen)
    <2>1. /\ Bind /\ request' = TRUE /\ ValidAt(issued'[auth], now)
          /\ \E a \in Authorities : gen' = [gen EXCEPT ![0] = Filled(issued'[auth], a, now)]
          /\ prog' = [prog EXCEPT !.outcome = "created"] /\ pc' = "load"
      BY <1>2 DEF Create, disk
    <2> DEFINE l == issued'[auth]
    <2>0. PICK a \in Authorities : gen' = [gen EXCEPT ![0] = Filled(l, a, now)]
      BY <2>1
    <2>2. Filled(l, a, now) \in GenTypes /\ Filled(l, a, now).st = "complete"
          /\ Filled(l, a, now).leaf = l /\ l # Nobody
      BY <2>1, Binds, NobodyElse DEF Filled, GenTypes, GenStates, TypeOK
    <2>3. gen'[0] = Filled(l, a, now) /\ \A g \in Gens \ {0} : gen'[g] = gen[g]
      BY <2>0 DEF TypeOK, Gens
    <2>4. /\ prog' \in Progs /\ prog'.began = prog.began /\ prog'.cands = prog.cands
      BY <2>1 DEF TypeOK, Progs
    <2>5. TypeOK'
      <3>1. gen' \in [Gens -> GenTypes]
        BY <2>0, <2>2 DEF TypeOK
      <3>2. \A g \in Gens : gen'[g].leaf # Nobody <=> gen'[g].st = "complete"
        BY <2>2, <2>3 DEF TypeOK
      <3> QED BY <1>0, <2>1, <2>4, <3>1, <3>2, Binds DEF TypeOK, Progs
    <2>6. With("complete")' = {0}
      BY <1>0, <2>2, <2>3 DEF With, Gens
    <2>7. Issued'
      BY <2>1, <2>2, <2>3, <2>6, Binds DEF Issued
    <2>8. Prepared'
      BY <1>0, <2>1, <2>4, <2>6 DEF Prepared, OneAt, Preparing, Asking
    <2>9. Dated'
      <3>1. prog'.outcome = "created" /\ pc' = "load"
        BY <2>1 DEF TypeOK
      <3> QED BY <1>0, <2>1, <2>2, <2>3, <2>6, <3>1 DEF Dated, Asking, ValidAt
    <2> QED BY <2>5, <2>7, <2>8, <2>9
  <1> QED BY <1>1, <1>2

\* The candidates are loaded; what is quarantined was not valid any more.
LEMMA LoadInv == ASSUME Inv, Load PROVE Inv'
PROOF
  <1> USE Facts DEF Inv
  <1>1. CASE Exit /\ gen' = gen
    <2>1. faults' \in 0..MaxFaults
      BY Numbers DEF Load, Fault, TypeOK
    <2> QED BY <1>1, <2>1, Exits DEF Load, ca
  <1>2. CASE ~(Exit /\ gen' = gen)
    <2>1. /\ UNCHANGED <<now, auth, issued, request>> /\ pc \in {"load", "reload"}
          /\ \/ gen' = [g \in Gens |-> IF g \in Rejected THEN Bare("quarantined") ELSE gen[g]]
             \/ gen' = gen
          /\ \/ Exit
             \/ /\ pc' \in {"ask", "select"} /\ prog' = [prog EXCEPT !.cands = Loaded]
                /\ pc' = "ask" => prog.outcome = "none"
      BY <1>2 DEF Load, ca
    <2>2. Bare("quarantined") \in GenTypes /\ Bare("quarantined").leaf = Nobody
          /\ Bare("quarantined").st = "quarantined"
      BY Numbers DEF Bare, GenTypes, GenStates
    <2>3. /\ gen' \in [Gens -> GenTypes]
          /\ \A g \in Gens : gen'[g] = gen[g] \/ (g \in Rejected /\ gen'[g] = Bare("quarantined"))
      BY <2>1, <2>2 DEF TypeOK
    <2>4. faults' \in 0..MaxFaults
      BY Numbers DEF Load, Fault, TypeOK
    <2>5. /\ Loaded \in SUBSET Gens /\ Loaded \subseteq With("complete")
          /\ \A g \in Loaded : gen'[g] = gen[g]
      BY <2>3 DEF Loaded, With, Rejected
    <2>6. prog' \in Progs /\ (Exit \/ (prog'.began = prog.began /\ prog'.cands = Loaded))
      BY <2>1, <2>5, IdleIs DEF TypeOK, Progs, Exit
    <2>7. TypeOK'
      <3>1. \A g \in Gens : gen'[g].leaf # Nobody <=> gen'[g].st = "complete"
        BY <2>2, <2>3 DEF TypeOK
      <3>2. pc' \in {"off", "ask", "select"}
        BY <2>1 DEF Exit
      <3> QED BY <2>1, <2>3, <2>4, <2>6, <3>1, <3>2 DEF TypeOK, Progs
    <2>8. \A g \in Gens : gen'[g].st = "complete" => gen[g].st = "complete" /\ gen'[g] = gen[g]
      BY <2>2, <2>3
    <2>9. Issued'
      BY <2>1, <2>8 DEF Issued, With, Preparing, Exit
    <2>10. Prepared'
      <3>1. CASE Exit
        BY <2>1, <2>8, <3>1, IdleIs DEF Prepared, OneAt, With, Preparing, Asking, Exit
      <3>2. CASE ~Exit
        <4>1. /\ pc' \in {"ask", "select"} /\ prog'.began = prog.began /\ prog'.cands = Loaded
              /\ now' = now
          BY <2>1, <2>6, <3>2
        <4>2. OneAt(now)' /\ OneAt(prog.began)'
          BY <2>1, <2>8, <4>1 DEF Prepared, OneAt, With, Preparing
        <4>3. Loaded' = Loaded
          BY <2>5, <2>8, <4>1 DEF Loaded, With
        <4>4. Loaded \subseteq With("complete")'
          BY <2>5 DEF With
        <4> QED BY <4>1, <4>2, <4>3, <4>4 DEF Prepared, Asking
      <3> QED BY <3>1, <3>2
    <2>11. Dated'
      <3>1. Exit \/ (prog'.began = prog.began /\ prog'.outcome = prog.outcome)
        BY <2>1 DEF TypeOK
      <3> QED BY <2>1, <2>8, <3>1, StillDated DEF Exit, Preparing, Asking
    <2> QED BY <2>7, <2>9, <2>10, <2>11
  <1> QED BY <1>1, <1>2

\* The authority does not answer.
LEMMA FallsBack ==
  ASSUME Inv, pc \in {"ask", "root", "enroll"}, FallBack, UNCHANGED <<now, auth, request, gen, faults>>,
         issued' = issued \/ Bind
  PROVE  Inv'
PROOF
  <1> USE Facts, IdleIs DEF Inv
  <1>1. issued' \in [Authorities -> Leaves \cup {Nobody}]
    BY Binds DEF TypeOK
  <1>2. \/ Exit
        \/ pc' = "select" /\ prog' = [prog EXCEPT !.meta = Nobody, !.root = Nobody]
    BY DEF FallBack
  <1>3. prog' \in Progs /\ (Exit \/ (prog'.began = prog.began /\ prog'.cands = prog.cands))
    BY <1>2 DEF Exit, Progs, TypeOK
  <1>4. TypeOK'
    BY <1>1, <1>2, <1>3 DEF TypeOK, Progs, Exit
  <1>5. Issued'
    BY <1>2, StillIssued DEF Issued, With, Preparing, Exit
  <1>6. Prepared'
    <2>1. CASE Exit
      BY <2>1 DEF Prepared, OneAt, With, Preparing, Asking, Exit
    <2>2. CASE ~Exit
      BY <1>2, <1>3, <2>2 DEF Prepared, OneAt, With, Preparing, Asking, Loaded
    <2> QED BY <2>1, <2>2
  <1>7. Dated'
    <2>1. Exit \/ (prog'.began = prog.began /\ prog'.outcome = prog.outcome)
      BY <1>2 DEF TypeOK
    <2> QED BY <1>2, <2>1, StillDated DEF Exit, Preparing, Asking
  <1> QED BY <1>4, <1>5, <1>6, <1>7

\* Metadata and root: with candidates, the root is that of the last one.
LEMMA AskInv == ASSUME Inv, Metadata \/ Root \/ Unavailable PROVE Inv'
PROOF
  <1> USE Facts, IdleIs DEF Inv
  <1>1. CASE Unavailable
    BY <1>1, FallsBack DEF Unavailable, ca, disk
  <1>2. CASE Root /\ Exit
    BY <1>2, Exits DEF Root, ca, disk, TypeOK
  <1>3. CASE Metadata \/ (Root /\ ~Exit)
    <2>1. /\ UNCHANGED <<now, auth, issued, request, gen, faults>>
          /\ pc \in {"ask", "root"} /\ pc' \in {"root", "enroll"}
          /\ prog' = [prog EXCEPT !.meta = auth] \/ prog' = [prog EXCEPT !.root = auth]
      BY <1>3 DEF Metadata, Root, ca, disk
    <2>2. pc' = "enroll" =>
            /\ prog' = [prog EXCEPT !.root = auth]
            /\ prog.cands = {} \/ gen[Last(prog.cands)].leaf.auth = auth
      BY <1>3 DEF Metadata, Root
    <2>3. /\ prog' \in Progs /\ prog'.began = prog.began /\ prog'.cands = prog.cands
          /\ prog'.outcome = prog.outcome /\ (pc' = "enroll" => prog'.root = auth)
      BY <2>1, <2>2 DEF TypeOK, Progs
    <2>4. TypeOK'
      BY <2>1, <2>3 DEF TypeOK, Progs
    <2>5. Issued'
      BY <2>1 DEF Issued, With, Preparing
    <2>6. Prepared'
      <3>1. Loaded' = Loaded
        BY <2>1, <2>3 DEF Loaded, With
      <3>2. Last(prog.cands)' = Last(prog.cands)
        BY <2>1, <2>3 DEF Last, Before
      <3>3. OneAt(now)' /\ OneAt(prog.began)'
        BY <2>1, <2>3 DEF Prepared, OneAt, With, Preparing
      <3> QED BY <2>1, <2>2, <2>3, <3>1, <3>2, <3>3 DEF Prepared, Asking
    <2>7. Dated'
      <3>1. prog.outcome = "none"
        BY <2>1 DEF Dated, Asking
      <3> QED BY <2>1, <2>3, <3>1, StillDated DEF Preparing
    <2> QED BY <2>4, <2>5, <2>6, <2>7
  <1> QED BY <1>1, <1>2, <1>3

\* The certificate that is accepted is that of every candidate: the authority is
\* that of the last one, and has one for the key.
LEMMA EnrollInv == ASSUME Inv, Enroll PROVE Inv'
PROOF
  <1> USE Facts, IdleIs DEF Inv
  <1>0. pc = "enroll" /\ Bind /\ UNCHANGED <<now, auth, request, gen, faults>>
    BY DEF Enroll, disk
  <1>1. CASE FallBack
    BY <1>0, <1>1, FallsBack
  <1>2. CASE Exit
    <2>1. TypeOK'
      BY <1>0, <1>2, Binds DEF TypeOK, Exit, Progs
    <2>2. Issued'
      BY <1>0, <1>2, StillIssued DEF Exit, Preparing
    <2>3. Prepared'
      BY <1>0, <1>2 DEF Prepared, OneAt, With, Preparing, Asking, Exit
    <2>4. Dated'
      BY <1>0, <1>2, StillDated DEF Exit, Preparing, Asking
    <2> QED BY <2>1, <2>2, <2>3, <2>4
  <1>3. CASE ~FallBack /\ ~Exit
    <2> DEFINE l == issued'[auth]
    <2>1. /\ auth = prog.root /\ ValidAt(l, prog.began) /\ pc' = "mkdir"
          /\ prog' = [prog EXCEPT !.offer = l, !.root = Nobody]
      BY <1>3 DEF Enroll, Accepted
    <2>2. l \in Leaves /\ l.auth = auth /\ l = issued'[l.auth]
      BY <1>0, Binds
    <2>3. /\ prog' \in Progs /\ prog'.began = prog.began /\ prog'.cands = prog.cands
          /\ prog'.offer = l /\ prog'.outcome = prog.outcome
      BY <2>1, <2>2 DEF TypeOK, Progs
    <2>4. TypeOK'
      BY <1>0, <2>1, <2>2, <2>3, Binds, NobodyElse DEF TypeOK, Progs
    <2>5. Issued'
      BY <1>0, <2>1, StillIssued DEF Issued, Preparing
    <2>6. prog.cands = Loaded /\ Loaded \in SUBSET With("complete") /\ OneAt(prog.began)
      BY <1>0 DEF Prepared, Asking, Preparing, Loaded
    <2>7. ASSUME NEW g \in Loaded PROVE gen[g].leaf = l
      <3> DEFINE c == Last(prog.cands)
      <3>1. c \in Loaded
        BY <2>6, <2>7, LastIsLast
      <3>2. gen[c].leaf.auth = auth /\ gen[c].leaf \in Leaves /\ gen[c].leaf = issued[gen[c].leaf.auth]
        BY <1>0, <2>1, <2>6, <2>7, <3>1 DEF Prepared, Issued, With
      <3>3. gen[c].leaf = l
        BY <1>0, <3>2, Binds, NobodyElse
      <3>4. gen[g].leaf = gen[c].leaf
        BY <2>6, <2>7, <3>1 DEF OneAt, Loaded, ValidAt, Unexpired
      <3> QED BY <3>3, <3>4
    <2>8. Loaded' = Loaded
      BY <1>0, <2>3 DEF Loaded, With
    <2>9. OneAt(now)' /\ OneAt(prog.began)'
      BY <1>0, <2>3, <2>6 DEF Prepared, OneAt, With
    <2>10. Prepared'
      <3>1. l.nb <= prog.began
        BY <2>1 DEF ValidAt
      <3> QED BY <1>0, <2>1, <2>2, <2>3, <2>6, <2>7, <2>8, <2>9, <3>1 DEF Prepared, Asking
    <2>11. Dated'
      <3>1. prog.outcome = "none"
        BY <1>0 DEF Dated, Asking
      <3> QED BY <1>0, <2>1, <2>3, <3>1, StillDated DEF Preparing
    <2> QED BY <2>4, <2>5, <2>10, <2>11
  <1> QED BY <1>1, <1>2, <1>3

LEMMA MakeDirectoryInv == ASSUME Inv, MakeDirectory PROVE Inv'
PROOF
  <1> USE Facts, IdleIs DEF Inv
  <1>0. pc = "mkdir" /\ UNCHANGED <<now, auth, issued, request, faults>>
    BY DEF MakeDirectory, ca
  <1>1. CASE Exit /\ gen' = gen
    BY <1>0, <1>1, Exits DEF TypeOK
  <1>2. CASE ~(Exit /\ gen' = gen)
    <2>1. PICK g \in Renewals : Begin(g)
      BY <1>2 DEF MakeDirectory
    <2>2. Bare("partial") \in GenTypes /\ Bare("partial").leaf = Nobody
          /\ Bare("partial").st = "partial" /\ g \in Gens
      BY Numbers DEF Bare, GenTypes, GenStates, Gens
    <2>3. /\ gen[g].st = "absent" /\ gen' \in [Gens -> GenTypes] /\ gen'[g] = Bare("partial")
          /\ \A h \in Gens : h # g => gen'[h] = gen[h]
      BY <2>1, <2>2 DEF Begin, TypeOK
    <2>4. /\ prog' \in Progs /\ prog'.began = prog.began /\ prog'.cands = prog.cands
          /\ prog'.offer = prog.offer /\ prog'.target = g /\ pc' = "publish"
          /\ prog'.outcome = prog.outcome
      BY <2>1, <2>2 DEF Begin, TypeOK, Progs
    <2>5. TypeOK'
      <3>1. \A h \in Gens : gen'[h].leaf # Nobody <=> gen'[h].st = "complete"
        BY <2>2, <2>3 DEF TypeOK
      <3>2. prog'.offer # Nobody
        BY <1>0, <2>4 DEF TypeOK
      <3> QED BY <1>0, <2>3, <2>4, <3>1, <3>2 DEF TypeOK, Progs
    <2>6. \A h \in Gens : gen'[h].st = "complete" \/ gen[h].st = "complete" => gen'[h] = gen[h]
      BY <2>2, <2>3
    <2>7. Issued'
      BY <1>0, <2>4, <2>6 DEF Issued, With, Preparing
    <2>8. Prepared'
      <3>1. Loaded' = Loaded
        BY <2>4, <2>6 DEF Loaded, With
      <3>2. OneAt(now)' /\ OneAt(prog.began)'
        BY <1>0, <2>4, <2>6 DEF Prepared, OneAt, With, Preparing
      <3>3. \A h \in Loaded : gen'[h].leaf = prog.offer
        BY <1>0, <2>6 DEF Prepared, Loaded, With
      <3> QED BY <1>0, <2>2, <2>3, <2>4, <3>1, <3>2, <3>3 DEF Prepared, Asking
    <2>9. Dated'
      <3>1. prog.outcome = "none"
        BY <1>0 DEF Dated, Asking
      <3> QED BY <1>0, <2>4, <2>6, <3>1, StillDated DEF Preparing
    <2> QED BY <2>5, <2>7, <2>8, <2>9
  <1> QED BY <1>1, <1>2

\* The renewal is complete: one more generation with the certificate of all.
LEMMA PublishInv == ASSUME Inv, Publish PROVE Inv'
PROOF
  <1> USE Facts, IdleIs DEF Inv
  <1> DEFINE t == prog.target
  <1> DEFINE l == prog.offer
  <1> DEFINE New == Filled(l, prog.meta, prog.began)
  <1>1. /\ UNCHANGED <<now, auth, issued, request, faults>> /\ pc = "publish" /\ pc' = "reload"
        /\ prog' = [prog EXCEPT !.outcome = "renewed", !.meta = Nobody, !.offer = Nobody,
                                !.cands = {}, !.target = 0]
        /\ gen' = [gen EXCEPT ![t] = New]
    BY DEF Publish, ca
  <1>2. /\ l \in Leaves /\ l = issued[l.auth] /\ l.nb <= prog.began
        /\ \A g \in Loaded : gen[g].leaf = l
    BY <1>1 DEF TypeOK, Prepared
  <1>3. New \in GenTypes /\ New.st = "complete" /\ New.leaf = l /\ l # Nobody
    BY <1>2, NobodyElse DEF Filled, GenTypes, GenStates, TypeOK
  <1> HIDE DEF New
  <1>4. /\ gen' \in [Gens -> GenTypes] /\ gen'[t] = New /\ t \in Gens
        /\ \A g \in Gens : g # t => gen'[g] = gen[g]
    BY <1>1, <1>3 DEF TypeOK
  <1>5. prog' \in Progs /\ prog'.began = prog.began /\ prog'.cands = {}
        /\ prog'.outcome = "renewed" /\ prog.outcome = "none"
    BY <1>1, Numbers DEF TypeOK, Progs, Gens, Dated, Asking
  <1>6. TypeOK'
    <2>1. \A g \in Gens : gen'[g].leaf # Nobody <=> gen'[g].st = "complete"
      BY <1>3, <1>4 DEF TypeOK
    <2> QED BY <1>1, <1>4, <1>5, <2>1 DEF TypeOK, Progs
  <1>7. Issued'
    BY <1>1, <1>2, <1>3, <1>4 DEF Issued, With, Preparing
  <1>d. \A g \in With("complete") : gen[g].leaf.nb <= prog.began
    BY <1>1, <1>5 DEF Dated, Preparing
  <1>8. \A g \in Gens : gen'[g].st = "complete" /\ Unexpired(gen'[g].leaf, prog.began)
                          => gen'[g].leaf = l
    <2> TAKE g \in Gens
    <2>1. CASE g # t /\ gen[g].st = "complete" /\ Unexpired(gen[g].leaf, prog.began)
      <3>1. g \in Loaded
        BY <1>d, <2>1 DEF Loaded, With, ValidAt, Unexpired
      <3> QED BY <1>2, <1>4, <2>1, <3>1
    <2> QED BY <1>3, <1>4, <2>1
  <1>9. Prepared'
    <2>1. OneAt(prog.began)'
      BY <1>5, <1>8 DEF OneAt, With
    <2>2. TypeOK' /\ prog'.began <= now'
      BY <1>1, <1>5, <1>6 DEF Prepared
    <2>3. OneAt(now)'
      <3>1. \A g \in Gens : gen'[g].st = "complete" => gen'[g].leaf \in Leaves
        BY <1>2, <1>3, <1>4
      <3>2. \A g \in Gens : gen'[g].st = "complete" /\ Unexpired(gen'[g].leaf, now)
                              => Unexpired(gen'[g].leaf, prog.began)
        BY <3>1 DEF Prepared
      <3> QED BY <1>1, <1>8, <3>2 DEF OneAt, With
    <2> QED BY <1>1, <2>1, <2>2, <2>3 DEF Prepared, Asking
  <1>10. Dated'
    <2>1. \A g \in Gens : gen'[g].st = "complete" => gen'[g].leaf.nb <= prog.began
      BY <1>2, <1>3, <1>4, <1>d DEF With
    <2>2. \A g \in Gens : gen'[g].st = "complete" => gen'[g].leaf.nb \in Int
      BY <1>2, <1>3, <1>4
    <2>3. \A g \in Gens : gen'[g].st = "complete" => gen'[g].leaf.nb <= now
      BY <2>1, <2>2 DEF Prepared
    <2> QED BY <1>1, <1>5, <2>1, <2>3 DEF Dated, With, Asking
  <1> QED BY <1>6, <1>7, <1>9, <1>10

\* The last candidate is selected, or its selection is cut short.
LEMMA SelectInv == ASSUME Inv, Select PROVE Inv'
PROOF
  <1> USE Facts, IdleIs DEF Inv
  <1>0. pc = "select" /\ UNCHANGED <<now, auth, issued, request>>
    BY DEF Select, ca
  <1>1. CASE Exit /\ gen' = gen
    <2>1. faults' \in 0..MaxFaults
      BY Numbers DEF Select, Fault, TypeOK
    <2> QED BY <1>0, <1>1, <2>1, Exits
  <1>2. CASE ~(Exit /\ gen' = gen)
    <2>1. /\ prog.cands # {}
          /\ \/ /\ gen' = [gen EXCEPT ![Best].sel = "final"] /\ faults' = faults
                /\ pc' = "prune" /\ prog' = [prog EXCEPT !.target = Best]
             \/ Fault /\ Exit /\ gen' = [gen EXCEPT ![Best].sel = "torn"]
      BY <1>2 DEF Select
    <2>2. /\ prog.cands \in SUBSET With("complete") /\ Best \in prog.cands
          /\ \A h \in prog.cands \ {Best} : Before(h, Best)
      <3>1. prog.cands \in SUBSET With("complete")
        BY <1>0 DEF Prepared
      <3> QED BY <2>1, <3>1, LastIsLast DEF Best
    <2>3. Best \in Gens /\ gen[Best].st = "complete"
      BY <2>2 DEF With
    <2>4. /\ gen' \in [Gens -> GenTypes]
          /\ \A g \in Gens : gen'[g].st = gen[g].st /\ gen'[g].leaf = gen[g].leaf
          /\ ~Exit => gen'[Best].sel = "final"
      <3>1. ASSUME NEW to \in {"torn", "final"}, gen' = [gen EXCEPT ![Best].sel = to]
            PROVE  /\ gen' \in [Gens -> GenTypes] /\ gen'[Best].sel = to
                   /\ \A g \in Gens : gen'[g].st = gen[g].st /\ gen'[g].leaf = gen[g].leaf
        BY <2>3, <3>1 DEF TypeOK, GenTypes
      <3> QED BY <2>1, <3>1
    <2>5. faults' \in 0..MaxFaults
      BY <2>1, Numbers DEF Fault, TypeOK
    <2>6. /\ prog' \in Progs
          /\ Exit \/ (prog'.began = prog.began /\ prog'.cands = prog.cands /\ prog'.target = Best)
      BY <2>1, <2>3 DEF TypeOK, Progs, Exit
    <2>7. TypeOK'
      <3>1. CASE Exit
        BY <1>0, <2>4, <2>5, <2>6, <3>1 DEF TypeOK, Exit, Progs
      <3>2. CASE ~Exit
        BY <1>0, <2>1, <2>3, <2>4, <2>5, <2>6, <3>2 DEF TypeOK, Progs
      <3> QED BY <3>1, <3>2
    <2>8. Issued'
      BY <1>0, <2>1, <2>4 DEF Issued, With, Exit, Preparing
    <2>9. Prepared'
      <3>1. CASE Exit
        BY <1>0, <2>4, <3>1 DEF Prepared, OneAt, With, Preparing, Asking, Exit
      <3>2. CASE ~Exit
        <4>1. pc' = "prune"
          BY <2>1, <3>2
        <4>2. OneAt(now)' /\ OneAt(prog.began)'
          BY <1>0, <2>4, <2>6, <3>2 DEF Prepared, OneAt, With, Preparing
        <4>3. prog'.cands \subseteq With("complete")'
          BY <2>2, <2>4, <2>6, <3>2 DEF With
        <4>4. \A c \in prog.cands : gen[c].leaf.na <= gen[Best].leaf.na
          BY <2>2, <2>3 DEF Before, With
        <4>5. \A c \in prog'.cands : gen'[c].leaf.na <= gen'[prog'.target].leaf.na
          BY <2>2, <2>3, <2>4, <2>6, <3>2, <4>4 DEF With
        <4>6. prog'.began <= now'
          BY <1>0, <2>6, <3>2 DEF Prepared
        <4> QED BY <4>1, <4>2, <4>3, <4>5, <4>6 DEF Prepared, Asking
      <3> QED BY <3>1, <3>2
    <2>10. Dated'
      <3>1. Exit \/ (pc' = "prune" /\ prog'.began = prog.began /\ prog'.outcome = prog.outcome)
        BY <2>1 DEF TypeOK
      <3> QED BY <1>0, <2>4, <3>1, StillDated DEF Exit, Preparing, Asking
    <2> QED BY <2>7, <2>8, <2>9, <2>10
  <1> QED BY <1>1, <1>2

\* A generation that is pruned is not the selected one.
LEMMA PruneInv == ASSUME Inv, NEW g \in Gens, Prune(g) PROVE Inv'
PROOF
  <1> USE Facts, IdleIs DEF Inv
  <1>1. /\ UNCHANGED <<now, auth, issued, request, pc>> /\ pc = "prune"
        /\ g \in prog.cands /\ g # prog.target
        /\ prog' = [prog EXCEPT !.cands = prog.cands \ {g}]
        /\ \E left \in {"absent", "damaged", "partial"} : gen' = [gen EXCEPT ![g] = Bare(left)]
    BY DEF Prune, Prunable, ca
  <1>2. PICK left \in {"absent", "damaged", "partial"} : gen' = [gen EXCEPT ![g] = Bare(left)]
    BY <1>1
  <1>3. Bare(left) \in GenTypes /\ Bare(left).leaf = Nobody /\ Bare(left).st # "complete"
    BY Numbers DEF Bare, GenTypes, GenStates
  <1>4. gen' \in [Gens -> GenTypes] /\ gen'[g] = Bare(left)
        /\ \A h \in Gens : h # g => gen'[h] = gen[h]
    BY <1>2, <1>3 DEF TypeOK
  <1>5. /\ prog' \in Progs /\ prog'.began = prog.began /\ prog'.cands = prog.cands \ {g}
        /\ prog'.target = prog.target /\ prog'.offer = prog.offer
    BY <1>1 DEF TypeOK, Progs
  <1>6. faults' \in 0..MaxFaults
    BY Numbers DEF Prune, Fault, TypeOK
  <1>7. TypeOK'
    <2>1. \A h \in Gens : gen'[h].leaf # Nobody <=> gen'[h].st = "complete"
      BY <1>3, <1>4 DEF TypeOK
    <2> QED BY <1>1, <1>4, <1>5, <1>6, <2>1 DEF TypeOK, Progs
  <1>8. \A h \in Gens : gen'[h].st = "complete" => gen'[h] = gen[h]
    BY <1>3, <1>4
  <1>9. Issued'
    BY <1>1, <1>8 DEF Issued, With
  <1>10. Prepared'
    <2>1. OneAt(now)' /\ OneAt(prog.began)'
      BY <1>1, <1>5, <1>8 DEF Prepared, OneAt, With, Preparing
    <2>2. \A c \in prog'.cands : c \in Gens /\ c # g /\ gen'[c] = gen[c]
      BY <1>4, <1>5
    <2>3. prog'.cands \subseteq With("complete")'
      BY <1>1, <1>5, <2>2 DEF Prepared, With
    <2>4. \A c \in prog'.cands : gen'[c].leaf.na <= gen'[prog'.target].leaf.na
      BY <1>1, <1>4, <1>5, <2>2 DEF Prepared
    <2> QED BY <1>1, <1>5, <2>1, <2>3, <2>4 DEF Prepared, Asking
  <1>11. Dated'
    <2>1. prog'.outcome = prog.outcome
      BY <1>1 DEF TypeOK
    <2> QED BY <1>1, <1>5, <1>8, <2>1, StillDated DEF Asking
  <1> QED BY <1>7, <1>9, <1>10, <1>11

LEMMA NextInv == Inv /\ [Next]_vars => Inv'
PROOF
  <1> SUFFICES ASSUME Inv, [Next]_vars PROVE Inv'
    OBVIOUS
  <1> USE Facts, IdleIs
  <1>1. CASE Serve
    <2>1. CASE Exit
      BY <1>1, <2>1, Exits DEF Serve, ca, disk, Inv, TypeOK
    <2>2. CASE ~Exit
      <3>1. /\ UNCHANGED <<now, auth, issued, request, gen, faults>>
            /\ pc = "prune" /\ pc' = "serving" /\ prog' = [Idle EXCEPT !.target = prog.target]
        BY <1>1, <2>2 DEF Serve, ca, disk
      <3>2. prog' \in Progs /\ prog'.began = 0 /\ prog'.target = prog.target
        BY <3>1 DEF Progs, Inv
      <3>3. Dated'
        BY <3>1, StillDated DEF Inv, Preparing, Asking
      <3> QED BY <3>1, <3>2, <3>3
              DEF Inv, TypeOK, Progs, Issued, Prepared, OneAt, With, Preparing, Asking
    <2> QED BY <2>1, <2>2
  <1>2. CASE Stop
    BY <1>2, Exits DEF Stop, ca, disk, Inv, TypeOK
  <1>3. CASE Replaced
    <2>1. Last(prog.cands)' = Last(prog.cands) /\ Loaded' = Loaded
      BY <1>3 DEF Replaced, disk, Last, Before, Loaded, With
    <2>2. Dated'
      BY <1>3, StillDated DEF Replaced, disk, Inv, Dated
    <2> QED BY <1>3, <2>1, <2>2
            DEF Replaced, disk, Inv, TypeOK, Issued, Prepared, OneAt, With
  <1>4. CASE Tick
    <2>1. UNCHANGED <<auth, issued, request, gen, pc, prog, faults>> /\ now' = now + 1 /\ now < Horizon
      BY <1>4 DEF Tick, ca, disk
    <2>2. Last(prog.cands)' = Last(prog.cands) /\ Loaded' = Loaded
      BY <2>1 DEF Last, Before, Loaded, With
    <2>3. TypeOK' /\ prog.began <= now + 1
      BY <2>1 DEF Inv, TypeOK, Prepared
    <2>4. OneAt(now)'
      <3>1. \A g \in Gens : gen[g].st = "complete" /\ Unexpired(gen[g].leaf, now + 1)
                              => Unexpired(gen[g].leaf, now)
        BY DEF Inv, Unexpired
      <3> QED BY <2>1, <3>1 DEF Inv, Prepared, OneAt, With
    <2>5. Dated'
      BY <2>1, StillDated DEF Inv, Dated
    <2> QED BY <2>1, <2>2, <2>3, <2>4, <2>5 DEF Inv, Issued, Prepared, OneAt, With
  <1>5. CASE UNCHANGED vars
    <2>1. Last(prog.cands)' = Last(prog.cands) /\ Loaded' = Loaded
      BY <1>5 DEF vars, ca, disk, Last, Before, Loaded, With
    <2>2. Dated'
      BY <1>5, StillDated DEF vars, disk, Inv, Dated
    <2> QED BY <1>5, <2>1, <2>2 DEF vars, ca, disk, Inv, TypeOK, Issued, Prepared, OneAt, With
  <1> QED BY <1>1, <1>2, <1>3, <1>4, <1>5, LaunchInv, CreateInv, LoadInv, AskInv, EnrollInv,
             MakeDirectoryInv, PublishInv, SelectInv, PruneInv
          DEF Next

-----------------------------------------------------------------------------
(* Theorems.                                                               *)

\* The program never writes a generation that it has no certificate for, and the
\* generation it has settled on stays complete and selected while it serves.
THEOREM TypeCorrect == Spec => []TypeOK
PROOF
  <1>1. Inv => TypeOK
    BY DEF Inv
  <1> QED BY InitInv, NextInv, <1>1, PTL DEF Spec

\* The valid generations of a directory hold one certificate, whichever authority
\* serves at the URL at each request of each renewal (renew, load_candidates).
THEOREM OneCertificateAtATime == Spec => []OneCertificate
PROOF
  <1>1. Inv => OneCertificate
    BY DEF Inv, Prepared, OneAt, Unexpired, ValidAt, OneCertificate, Whole, With
  <1> QED BY InitInv, NextInv, <1>1, PTL DEF Spec

\* No quarantine and no pruning takes from the directory the certificate that is
\* valid longest (prune_generations, load_candidates).
THEOREM ValidityIsNeverLost == Spec => ValidityIsKept
PROOF
  <1>1. Inv /\ [Next]_vars =>
          [\A g \in Gens : Whole(g) =>
             \E h \in Gens : gen'[h].st = "complete" /\ gen'[h].leaf.na >= gen[g].leaf.na]_vars
    <2> SUFFICES ASSUME Inv, Next, NEW g \in Gens, Whole(g)
                 PROVE  \E h \in Gens : gen'[h].st = "complete" /\ gen'[h].leaf.na >= gen[g].leaf.na
      OBVIOUS
    <2> USE Facts DEF Inv
    <2>0. gen[g].st = "complete" /\ gen[g].leaf.na \in Nat
      BY DEF Whole
    <2>1. CASE gen'[g] = gen[g]
      BY <2>0, <2>1
    <2>2. CASE Create
      <3>1. With("complete") = {}
        BY <2>2 DEF Create, Issued, Preparing
      <3> QED BY <2>0, <3>1 DEF With
    <2>3. CASE Load
      <3>1. g \in With("complete") /\ pc \in Preparing /\ now <= gen[g].leaf.na
        BY <2>3 DEF Load, Whole, With, ValidAt, Preparing
      <3>2. prog.began <= gen[g].leaf.na
        BY <2>0, <3>1 DEF Prepared
      <3>3. g \in Loaded \/ g = 0
        BY <3>1, <3>2 DEF Loaded, Dated, ValidAt
      <3> QED BY <2>0, <2>1, <2>3, <3>3, Numbers DEF Load, Rejected
    <2>4. CASE MakeDirectory
      BY <2>0, <2>1, <2>4 DEF MakeDirectory, Begin, TypeOK
    <2>5. CASE Publish
      BY <2>0, <2>1, <2>5 DEF Publish, Prepared, TypeOK
    <2>6. CASE Select
      <3>1. ASSUME NEW to \in {"torn", "final"}, gen' = [gen EXCEPT ![Best].sel = to]
            PROVE  gen'[g].st = gen[g].st /\ gen'[g].leaf = gen[g].leaf
        BY <3>1 DEF TypeOK, GenTypes
      <3> QED BY <2>0, <2>1, <2>6, <3>1 DEF Select
    <2>7. CASE \E h \in Gens : Prune(h)
      <3>1. PICK h \in Gens : Prune(h)
        BY <2>7
      <3>2. /\ pc = "prune" /\ h \in prog.cands /\ h # prog.target
            /\ \A k \in Gens : k # h => gen'[k] = gen[k]
        BY <3>1 DEF Prune, Prunable, TypeOK
      <3>3. CASE h = g
        <4>1. /\ prog.target \in Gens /\ gen'[prog.target] = gen[prog.target]
              /\ gen[prog.target].st = "complete" /\ gen[prog.target].leaf.na >= gen[g].leaf.na
              /\ gen[prog.target].leaf.na \in Nat
          BY <3>2, <3>3, <2>0 DEF TypeOK, Prepared
        <4> QED BY <4>1
      <3> QED BY <2>1, <3>2, <3>3
    <2>8. CASE \/ Launch \/ Show \/ Unavailable \/ Metadata \/ Root \/ Enroll \/ Serve \/ Stop
               \/ Replaced \/ Tick
      BY <2>1, <2>8
         DEF Launch, Show, Unavailable, Metadata, Root, Enroll, Serve, Stop, Replaced, Tick, disk
    <2> QED BY <2>2, <2>3, <2>4, <2>5, <2>6, <2>7, <2>8 DEF Next
  <1> QED BY InitInv, NextInv, <1>1, PTL DEF Spec, ValidityIsKept
=============================================================================
