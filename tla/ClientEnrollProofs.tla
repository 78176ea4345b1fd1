-------------------------- MODULE ClientEnrollProofs --------------------------
(***************************************************************************)
(* What a client directory keeps over any number of commands, authorities, *)
(* other users of the key store, interruptions and failed publications,    *)
(* whatever a failed publication may leave.                                *)
(***************************************************************************)
EXTENDS ClientEnroll, TLAPS

-----------------------------------------------------------------------------
(* The inductive invariant.                                                *)

\* Where a command is, by what it knows and has done.
Making    == {"staging", "started", "failed", "recover", "open", "finalize"}
Keyed     == {"public_der", "public_pem", "csr"}
Signing   == {"csr_der", "csr_pem", "request"}
Enrolled  == {"clean", "reopen", "ready", "metadata", "root", "enroll", "verify", "root_der",
              "root_pem", "leaf_der", "leaf_pem", "chain", "vouch", "issuance"}
Answered  == {"verify", "root_der", "root_pem", "leaf_der", "leaf_pem", "chain", "vouch",
              "issuance"}
Removing  == {"inspect", "intent", "delete", "absent", "date", "record"}
Intending == {"delete", "absent", "date", "record"}
Places    == {"off"} \cup Making \cup Keyed \cup Signing \cup Enrolled \cup Removing

\* The locals that a place relies on.
Known ==
  /\ pc \in Places
  /\ pc \in Making \cup Keyed \cup Signing => my.idem \in Numbers
  /\ pc \in Keyed \cup Signing => my.spki \in 1..fresh
  /\ pc \in Signing => my.csr \in Csrs
  /\ pc \in {"root", "enroll"} \cup Answered => my.meta \in Authorities
  /\ pc \in {"enroll"} \cup Answered => my.root \in Authorities
  /\ pc \in Answered => my.leaf \in issued /\ my.leaf.csr = my.csr
  /\ pc \in Answered \ {"verify"} => my.leaf.auth = my.root
  /\ pc \in {"issuance", "record"} => my.at \in Numbers
  /\ pc = "intent" => my.op \in Numbers

\* The request is there before it is presented, its key was drawn, and whatever
\* was issued was issued for it.
Requested ==
  /\ Final("request") => Request.spki \in 1..fresh
  /\ Final("record") => Final("request")
  /\ pc \in Enrolled =>
       Final("request") /\ Request = [idem |-> my.idem, spki |-> my.spki, csr |-> my.csr]
  /\ \A l \in issued : Final("request") /\ l.idem = Request.idem /\ l.csr = Request.csr

\* Certificates are published in their order, and stay.
Holds(f, v) == Final(f) /\ file[f].by = v
InOrder ==
  /\ pc \in {"root_pem", "leaf_der", "leaf_pem", "chain", "vouch", "issuance"} =>
       Holds("root_der", my.root)
  /\ pc \in {"leaf_der", "leaf_pem", "chain", "vouch", "issuance"} => Final("root_pem")
  /\ pc \in {"leaf_pem", "chain", "vouch", "issuance"} => Holds("leaf_der", my.leaf)
  /\ pc \in {"chain", "vouch", "issuance"} => Final("leaf_pem")
  /\ pc \in {"vouch", "issuance"} => Final("chain")

\* A deletion is about the key of the request, and goes by the intent.
Deletion ==
  /\ pc \in Removing => Final("request") /\ my.spki = Request.spki
  /\ pc = "inspect" => my.op = Nobody \/ Holds("intent", my.op)
  /\ pc \in Intending => Holds("intent", my.op)
  /\ pc \in {"date", "record"} => key # Request.spki

Inv ==
  /\ TypeOK /\ key \in 1..fresh \cup {Nobody}
  /\ Known /\ Requested /\ InOrder /\ Vouched /\ Deletion /\ RecordIsTrue

-----------------------------------------------------------------------------
(* Files.                                                                  *)

LEMMA FilesAre ==
  Files = {"staging", "started", "failed", "public_der", "public_pem", "csr_der", "csr_pem",
           "request", "root_der", "root_pem", "leaf_der", "leaf_pem", "chain", "issuance",
           "intent", "record"}
PROOF
  BY DEF Files, Contents

\* The parts of TypeOK that a command does not change by going on.
FileTypes ==
  /\ DOMAIN file = Files
  /\ \A f \in Files : /\ file[f].st \in Slots!FileStates
                      /\ IF file[f].st \in {"staged", "final"} THEN file[f].by \in Contents[f]
                         ELSE file[f].by = Nobody

\* What the bytes of a file are made from, at the place where it is published.
LEMMA BytesFit ==
  ASSUME FileTypes', issued' \subseteq Leaves, fresh' \in 0..MaxFresh, Known', Requested',
         Deletion', pc' \in Files
  PROVE  Bytes(pc)' \in Contents[pc']
PROOF
  <1>1. 1..fresh' \subseteq Numbers
    BY Bounds DEF Numbers
  <1>2. pc' \in {"staging", "started", "failed"} => Bytes(pc)' \in Contents[pc']
    BY DEF Known, Making, Bytes, Contents
  <1>3. pc' \in {"public_der", "public_pem"} => Bytes(pc)' \in Contents[pc']
    BY <1>1 DEF Known, Keyed, Bytes, Contents
  <1>4. pc' \in {"csr_der", "csr_pem"} => Bytes(pc)' \in Contents[pc']
    BY DEF Known, Signing, Bytes, Contents
  <1>5. pc' = "request" => Bytes(pc)' \in Contents[pc']
    BY <1>1 DEF Known, Signing, Bytes, Contents
  <1>6. pc' \in {"root_der", "root_pem"} => Bytes(pc)' \in Contents[pc']
    BY DEF Known, Answered, Bytes, Contents
  <1>7. pc' \in {"leaf_der", "leaf_pem"} => Bytes(pc)' \in Contents[pc']
    BY DEF Known, Answered, Bytes, Contents
  <1>8. pc' \in {"chain", "issuance"} => Bytes(pc)' \in Contents[pc']
    <2>1. pc' \in Answered =>
            my'.meta \in Authorities /\ my'.root \in Authorities /\ my'.leaf \in Leaves
      BY DEF Known
    <2>2. pc' = "chain" => Bytes(pc)' \in [root : Authorities, leaf : Leaves]
      BY <2>1 DEF Answered, Bytes
    <2>3. pc' = "issuance" =>
            Bytes(pc)' \in [auth : Authorities, root : Authorities, leaf : Leaves, at : Numbers]
      BY <2>1 DEF Answered, Known, Bytes
    <2>4. /\ Contents["chain"] = [root : Authorities, leaf : Leaves]
          /\ Contents["issuance"] =
               [auth : Authorities, root : Authorities, leaf : Leaves, at : Numbers]
      BY DEF Contents
    <2> QED BY <2>2, <2>3, <2>4
  <1>9. pc' = "intent" => Bytes(pc)' \in Contents[pc']
    BY DEF Known, Bytes, Contents
  <1>10. pc' = "record" => Bytes(pc)' \in Contents[pc']
    <2>1. "intent" \in Files
      BY FilesAre
    <2>2. pc' = "record" => my'.op \in Numbers
      BY <2>1 DEF FileTypes, Deletion, Intending, Holds, Final, Contents
    <2> QED BY <2>2 DEF Known, Bytes, Contents
  <1> QED BY <1>2, <1>3, <1>4, <1>5, <1>6, <1>7, <1>8, <1>9, <1>10, FilesAre

\* A publication touches no other file, none that is published, and ends the
\* command or leaves its file published.
LEMMA PublishKeeps ==
  ASSUME TypeOK, NEW f \in Files, Publish(f)
  PROVE  /\ FileTypes'
         /\ \A g \in Files : g # f \/ Final(g) => file'[g] = file[g]
         /\ Final(f)' => file'[f].by = Bytes(f) \/ Final(f)
         /\ \/ pc' = "off" /\ my' = None
            \/ After[f] # "off" /\ pc' = After[f] /\ my' = my
                 /\ Final(f)' /\ file'[f].by = Bytes(f)
         /\ faults' \in 0..MaxFaults /\ UNCHANGED <<world, fresh>>
PROOF
  <1>1. /\ \A b : Slots!SlotOf("final", b) = [st |-> "final", by |-> b]
        /\ \A b : Slots!SlotOf("staged", b) = [st |-> "staged", by |-> b]
    BY DEF Slots!SlotOf
  <1>2. pc = f /\ Bytes(f) \in Contents[f]
    BY DEF Publish, TypeOK
  <1>3. CASE /\ Fitting(f) /\ file' = [file EXCEPT ![f] = Slots!SlotOf("final", Bytes(f))]
             /\ IF After[f] = "off" THEN Exit ELSE Goto(After[f])
             /\ UNCHANGED <<world, fresh, faults>>
    <2>1. Final(f) => file'[f] = file[f]
      BY <1>1, <1>3 DEF Fitting, Slots!FitsExactly, Slots!Fits, Final, TypeOK
    <2>2. FileTypes'
      BY <1>1, <1>2, <1>3 DEF FileTypes, TypeOK, Slots!FileStates
    <2> QED BY <1>1, <1>3, <2>1, <2>2 DEF TypeOK, Final, Exit, Goto
  <1>4. CASE ~Fitting(f) /\ Exit /\ UNCHANGED <<file, world, fresh, faults>>
    BY <1>4 DEF TypeOK, FileTypes, Exit, Final
  <1>5. CASE /\ Slots!Fits(file[f], Bytes(f)) /\ faults < MaxFaults /\ faults' = faults + 1
             /\ \E st \in Slots!Residues(file[f].st) :
                  file' = [file EXCEPT ![f] = Slots!SlotOf(st, Bytes(f))]
             /\ Exit /\ UNCHANGED <<world, fresh>>
    <2>1. PICK st \in Slots!Residues(file[f].st) :
            file' = [file EXCEPT ![f] = Slots!SlotOf(st, Bytes(f))]
      BY <1>5
    <2>2. st \in Slots!FileStates
      BY LeftoversAreStates DEF Slots!Residues, Slots!FileStates, TypeOK
    <2>3. file'[f] = [st |-> st, by |-> IF st \in {"staged", "final"} THEN Bytes(f) ELSE Nobody]
      BY <2>1 DEF TypeOK, Slots!SlotOf
    <2>4. ~Final(f)
      BY <1>1, <1>5 DEF Slots!Fits, Final
    <2>5. \A g \in Files : g # f => file'[g] = file[g]
      BY <2>1 DEF TypeOK
    <2>6. FileTypes'
      BY <1>2, <2>1, <2>2, <2>3, <2>5 DEF FileTypes, TypeOK
    <2>7. faults' \in 0..MaxFaults
      BY <1>5, Bounds DEF TypeOK
    <2> QED BY <1>5, <2>3, <2>4, <2>5, <2>6, <2>7 DEF Exit, Final
  <1> QED BY <1>3, <1>4, <1>5 DEF Publish

-----------------------------------------------------------------------------
(* The invariant.                                                          *)

\* The parts of the invariant that are about files, not about the place.
OfFiles ==
  /\ Final("request") => Request.spki \in 1..fresh
  /\ Final("record") => Final("request")
  /\ \A l \in issued : Final("request") /\ l.idem = Request.idem /\ l.csr = Request.csr
  /\ Vouched /\ RecordIsTrue

\* The parts that are about the place.
OfPlace ==
  /\ Known /\ InOrder /\ Deletion
  /\ pc \in Enrolled =>
       Final("request") /\ Request = [idem |-> my.idem, spki |-> my.spki, csr |-> my.csr]

WorldTypes ==
  /\ key \in 1..fresh \cup {Nobody} /\ auth \in Authorities /\ issued \subseteq Leaves
  /\ my \in Locals /\ fresh \in 0..MaxFresh /\ faults \in 0..MaxFaults

LEMMA InvParts == Inv <=> OfFiles /\ OfPlace /\ TypeOK /\ key \in 1..fresh \cup {Nobody}
PROOF
  BY DEF Inv, OfFiles, OfPlace, Requested

\* Put together, after a step.
LEMMA InvFromParts ==
  ASSUME FileTypes', WorldTypes', OfFiles', OfPlace'
  PROVE  Inv'
PROOF
  <1>1. Requested'
    BY DEF Requested, OfFiles, OfPlace
  <1>2. pc' \in Files => Bytes(pc)' \in Contents[pc']
    BY <1>1, BytesFit DEF WorldTypes, OfPlace
  <1>3. pc' \in Files \cup {"off", "recover", "open", "finalize", "csr", "clean", "reopen", "ready",
                            "metadata", "root", "enroll", "verify", "vouch", "inspect", "delete",
                            "absent", "date"}
    BY FilesAre DEF OfPlace, Known, Places, Making, Keyed, Signing, Enrolled, Removing
  <1>4. key' \in Numbers \cup {Nobody}
    BY Bounds DEF WorldTypes, Numbers
  <1>5. TypeOK'
    BY <1>2, <1>3, <1>4 DEF TypeOK, FileTypes, WorldTypes
  <1> QED BY <1>1, <1>5 DEF Inv, OfFiles, OfPlace, WorldTypes

LEMMA Types == Inv => FileTypes /\ WorldTypes /\ OfFiles /\ OfPlace
PROOF
  BY DEF Inv, TypeOK, FileTypes, WorldTypes, OfFiles, OfPlace, Requested

\* A command that is over relies on nothing.
LEMMA Off == ASSUME pc' = "off" PROVE OfPlace'
PROOF
  BY DEF OfPlace, Known, InOrder, Deletion, Places, Making, Keyed, Signing, Enrolled, Answered,
         Removing, Intending

LEMMA NoLocals == None \in Locals
PROOF
  BY DEF None, Locals

LEMMA InitInv == Init => Inv
PROOF
  <1> SUFFICES ASSUME Init PROVE Inv
    OBVIOUS
  <1>1. TypeOK /\ key = Nobody
    BY NoLocals, FilesAre, Bounds
       DEF Init, TypeOK, Slots!NoSlot, Slots!FileStates
  <1>2. \A f \in Files : ~Final(f)
    BY DEF Init, Final, Slots!NoSlot
  <1>3. OfFiles
    BY <1>2, FilesAre DEF Init, OfFiles, Vouched, RecordIsTrue
  <1>4. OfPlace
    BY DEF Init, OfPlace, Known, InOrder, Deletion, Places, Making, Keyed, Signing, Enrolled,
           Answered, Removing, Intending
  <1> QED BY <1>1, <1>3, <1>4, InvParts

-----------------------------------------------------------------------------
(* Publications.                                                           *)

LEMMA PublishFiles ==
  ASSUME Inv, NEW f \in Files, Publish(f)
  PROVE  FileTypes' /\ WorldTypes' /\ OfFiles'
PROOF
  <1> USE PublishKeeps, Types
  <1>t. TypeOK /\ pc = f
    BY DEF Inv, Publish
  <1>1. FileTypes' /\ WorldTypes'
    BY <1>t, NoLocals DEF WorldTypes, world
  <1>2. ASSUME NEW g \in Files, Final(g) PROVE file'[g] = file[g] /\ Final(g)'
    BY <1>t, <1>2 DEF Final
  <1>3. ASSUME NEW g \in Files, Final(g)', ~Final(g) PROVE g = pc /\ file'[g].by = Bytes(pc)
    BY <1>t, <1>3 DEF Final
  <1>4. Final("request")' =>
          \/ Request' = Request /\ Final("request")
          \/ pc = "request" /\ Request' = [idem |-> my.idem, spki |-> my.spki, csr |-> my.csr]
    <2>1. "request" \in Files
      BY FilesAre
    <2>2. CASE Final("request")
      BY <1>2, <2>1, <2>2 DEF Request
    <2>3. CASE Final("request")' /\ ~Final("request")
      <3>1. pc = "request" /\ file'["request"].by = Bytes(pc)
        BY <1>3, <2>1, <2>3
      <3> QED BY <3>1 DEF Request, Bytes
    <2> QED BY <2>2, <2>3
  <1>5. Final("request")' => Request'.spki \in 1..fresh'
    BY <1>t, <1>4 DEF OfFiles, OfPlace, Known, Signing
  <1>6. \A l \in issued' : Final("request")' /\ l.idem = Request'.idem /\ l.csr = Request'.csr
    BY <1>t, <1>2, FilesAre DEF OfFiles, world, Request
  <1>7. Vouched'
    <2>1. CASE Final("issuance")
      <3>1. Final("request")
        BY <2>1, <1>t DEF OfFiles, Vouched
      <3>2. \A g \in Certificates \cup {"issuance", "request"} :
              g \in Files /\ Final(g) /\ Final(g)' /\ file'[g] = file[g]
        BY <1>2, <2>1, <3>1, FilesAre DEF OfFiles, Vouched, Certificates
      <3> QED BY <1>t, <2>1, <3>2 DEF OfFiles, Vouched, world, Request, Certificates
    <2>2. CASE Final("issuance")' /\ ~Final("issuance")
      <3>1. pc = "issuance" /\ file'["issuance"].by =
              [auth |-> my.meta, root |-> my.root, leaf |-> my.leaf, at |-> my.at]
        BY <1>3, <2>2, FilesAre DEF Bytes
      <3>2. /\ \A g \in Certificates : g \in Files /\ Final(g) /\ Final(g)' /\ file'[g] = file[g]
            /\ file["root_der"].by = my.root /\ file["leaf_der"].by = my.leaf
            /\ my.leaf \in issued /\ my.leaf.auth = my.root
        BY <1>2, <3>1, FilesAre DEF OfPlace, InOrder, Holds, Certificates, Known, Answered
      <3>3. my.leaf.csr = Request'.csr
        BY <1>6, <1>t, <3>2 DEF world
      <3> QED BY <1>t, <3>1, <3>2, <3>3 DEF Vouched, world, Certificates
    <2>3. CASE ~Final("issuance")'
      BY <2>3 DEF Vouched
    <2> QED BY <2>1, <2>2, <2>3
  <1>8. RecordIsTrue' /\ (Final("record")' => Final("request")')
    <2>1. CASE Final("record")
      <3>1. \A g \in {"record", "request", "intent"} :
              g \in Files /\ Final(g) /\ Final(g)' /\ file'[g] = file[g]
        BY <1>2, <2>1, FilesAre DEF OfFiles, RecordIsTrue
      <3> QED BY <1>t, <2>1, <3>1 DEF OfFiles, RecordIsTrue, world, Request
    <2>2. CASE Final("record")' /\ ~Final("record")
      <3>1. pc = "record" /\ file'["record"].by = [op |-> my.op, at |-> my.at]
        BY <1>3, <2>2, FilesAre DEF Bytes
      <3>2. \A g \in {"request", "intent"} :
              g \in Files /\ Final(g) /\ Final(g)' /\ file'[g] = file[g]
        BY <1>2, <3>1, FilesAre DEF OfPlace, Deletion, Removing, Intending, Holds
      <3>3. key # Request.spki /\ file["intent"].by = my.op
        BY <3>1 DEF OfPlace, Deletion, Intending, Holds
      <3> QED BY <1>t, <3>1, <3>2, <3>3 DEF RecordIsTrue, world, Request
    <2>3. CASE ~Final("record")'
      BY <2>3 DEF RecordIsTrue
    <2> QED BY <2>1, <2>2, <2>3
  <1> QED BY <1>1, <1>5, <1>6, <1>7, <1>8 DEF OfFiles

LEMMA PublishInv == ASSUME Inv, NEW f \in Files, Publish(f) PROVE Inv'
PROOF
  <1> USE PublishKeeps, Types
  <1>t. TypeOK /\ pc = f
    BY DEF Inv, Publish
  <1>1. CASE pc' = "off"
    BY <1>1, Off, PublishFiles, InvFromParts
  <1>2. CASE pc' # "off"
    <2>1. /\ After[f] # "off" /\ pc' = After[f] /\ my' = my
          /\ Final(f)' /\ file'[f].by = Bytes(f) /\ UNCHANGED <<world, fresh>>
      BY <1>2, <1>t
    <2>2. \A g \in Files : Final(g) => file'[g] = file[g] /\ Final(g)'
      BY <1>t DEF Final
    <2>3. f \in {"staging", "started", "public_der", "public_pem", "csr_der", "csr_pem", "request",
                 "root_der", "root_pem", "leaf_der", "leaf_pem", "chain", "intent"}
      BY <2>1, FilesAre DEF After
    <2>4. Known'
      BY <1>t, <2>1, <2>3
         DEF OfPlace, Known, After, world, Places, Making, Keyed, Signing, Enrolled, Answered, Removing
    <2>5. InOrder'
      <3>1. \A g \in Certificates : g \in Files /\ (Final(g) => file'[g] = file[g] /\ Final(g)')
        BY <2>2, FilesAre DEF Certificates
      <3> QED BY <1>t, <2>1, <2>3, <3>1
              DEF OfPlace, InOrder, Holds, After, Bytes, Certificates
    <2>6. Deletion'
      <3>1. \A g \in {"request", "intent"} : Final(g) => file'[g] = file[g] /\ Final(g)'
        BY <2>2, FilesAre
      <3> QED BY <1>t, <2>1, <2>3, <3>1
              DEF OfPlace, Deletion, Removing, Intending, Holds, After, Bytes, Request, world
    <2>7. pc' \in Enrolled =>
            Final("request")' /\ Request' = [idem |-> my'.idem, spki |-> my'.spki, csr |-> my'.csr]
      <3>1. Final("request") => Request' = Request /\ Final("request")'
        BY <2>2, FilesAre DEF Request
      <3> QED BY <1>t, <2>1, <2>3, <3>1 DEF OfPlace, Enrolled, After, Bytes, Request
    <2>8. OfPlace'
      BY <2>4, <2>5, <2>6, <2>7 DEF OfPlace
    <2> QED BY <2>8, PublishFiles, InvFromParts
  <1> QED BY <1>1, <1>2

-----------------------------------------------------------------------------
(* The other steps.                                                        *)

\* A step that writes no file and leaves the key and the authority alone.
LEMMA Moves ==
  ASSUME Inv, UNCHANGED <<file, key, auth, faults>>, issued' \subseteq Leaves,
         fresh' \in fresh..MaxFresh, my' \in Locals,
         \A l \in issued' : Final("request") /\ l.idem = Request.idem /\ l.csr = Request.csr,
         issued \subseteq issued', OfPlace'
  PROVE  Inv'
PROOF
  <1> USE Types
  <1>0. fresh \in Nat /\ MaxFresh \in Nat
    BY Bounds DEF WorldTypes
  <1>1. fresh' \in 0..MaxFresh /\ 1..fresh \subseteq 1..fresh'
    BY <1>0
  <1>2. FileTypes' /\ WorldTypes'
    BY <1>1 DEF FileTypes, WorldTypes
  <1>3. OfFiles'
    BY <1>1 DEF OfFiles, Vouched, RecordIsTrue, Final, Request
  <1> QED BY <1>2, <1>3, InvFromParts

\* A step that changes nothing but where the command is and what it knows.
LEMMA MovesOnly ==
  ASSUME Inv, UNCHANGED <<file, world, faults>>, fresh' \in fresh..MaxFresh, my' \in Locals, OfPlace'
  PROVE  Inv'
PROOF
  BY Types, Moves DEF OfFiles, WorldTypes, world

LEMMA Ends ==
  ASSUME Inv, UNCHANGED <<file, world, faults>>, fresh' \in fresh..MaxFresh, Exit
  PROVE  Inv'
PROOF
  BY MovesOnly, Off, NoLocals DEF Exit

\* A number that is drawn is new, and in the bound.
LEMMA Draws ==
  ASSUME WorldTypes
  PROVE  /\ fresh \in fresh..MaxFresh
         /\ \A n : Draw(n) => n \in Numbers /\ n \in 1..fresh' /\ n \notin 1..fresh
                                /\ fresh' \in fresh..MaxFresh /\ fresh' \in Nat
PROOF
  BY Bounds DEF WorldTypes, Draw, Numbers

\* What is read from a file is what such a file is made from.
LEMMA Reads ==
  ASSUME FileTypes
  PROVE  /\ Final("staging") => file["staging"].by \in Numbers
         /\ Final("csr_der") => file["csr_der"].by \in Csrs
         /\ Final("request") => Request \in [idem : Numbers, spki : Numbers, csr : Csrs]
         /\ Final("intent") => file["intent"].by \in Numbers
         /\ file["record"].st = "staged" => file["record"].by \in [op : Numbers, at : Numbers]
PROOF
  <1>1. \A f \in Files : file[f].st \in {"staged", "final"} => file[f].by \in Contents[f]
    BY DEF FileTypes
  <1>2. /\ Contents["staging"] = Numbers /\ Contents["csr_der"] = Csrs
        /\ Contents["request"] = [idem : Numbers, spki : Numbers, csr : Csrs]
        /\ Contents["intent"] = Numbers /\ Contents["record"] = [op : Numbers, at : Numbers]
    BY DEF Contents
  <1>3. {"staging", "csr_der", "request", "intent", "record"} \subseteq Files
    BY FilesAre
  <1> QED BY <1>1, <1>2, <1>3 DEF Final, Request

\* create, up to the publication of its request.
LEMMA CreateInv ==
  ASSUME Inv, Create \/ Recover \/ Admit \/ Open \/ Csr
  PROVE  Inv'
PROOF
  <1> USE Types, Draws, Reads
  <1>1. CASE Create
    <2>1. PICK n \in Numbers : Draw(n) /\ my' = [None EXCEPT !.cmd = "create", !.idem = n]
      BY <1>1 DEF Create
    <2>2. my' \in Locals /\ my'.idem \in Numbers /\ pc' = "staging"
      BY <1>1, <2>1 DEF Create, None, Locals
    <2>3. OfPlace'
      BY <2>2 DEF OfPlace, Known, InOrder, Deletion, Places, Making, Keyed, Signing, Enrolled,
                  Answered, Removing, Intending
    <2> QED BY <1>1, <2>1, <2>2, <2>3, MovesOnly DEF Create
  <1>2. CASE Recover
    <2>1. my' \in Locals /\ my'.idem \in Numbers /\ pc' = "recover"
      BY <1>2 DEF Recover, None, Locals
    <2>2. OfPlace'
      BY <2>1 DEF OfPlace, Known, InOrder, Deletion, Places, Making, Keyed, Signing, Enrolled,
                  Answered, Removing, Intending
    <2> QED BY <1>2, <2>1, <2>2, MovesOnly DEF Recover
  <1>3. CASE Admit /\ ~Exit
    <2>1. my' = my /\ my.idem \in Numbers /\ pc' = "open"
      BY <1>3 DEF Admit, Goto, OfPlace, Known, Making
    <2>2. OfPlace'
      BY <2>1 DEF OfPlace, Known, InOrder, Deletion, Places, Making, Keyed, Signing, Enrolled,
                  Answered, Removing, Intending
    <2> QED BY <1>3, <2>1, <2>2, MovesOnly DEF Admit, WorldTypes
  <1>4. CASE Open /\ ~Exit
    <2>1. my' \in Locals /\ my'.idem = my.idem /\ my.idem \in Numbers
      BY <1>4, Bounds DEF Open, Goto, WorldTypes, Locals, OfPlace, Known, Making, Numbers
    <2>2. pc' = "started" \/ (pc' = "public_der" /\ my'.spki \in 1..fresh')
      BY <1>4 DEF Open, Goto, WorldTypes, Locals
    <2>3. OfPlace'
      BY <2>1, <2>2 DEF OfPlace, Known, InOrder, Deletion, Places, Making, Keyed, Signing,
                        Enrolled, Answered, Removing, Intending
    <2> QED BY <1>4, <2>1, <2>3, MovesOnly DEF Open
  <1>5. CASE Csr /\ ~Exit
    <2>1. /\ my.idem \in Numbers /\ my.spki \in 1..fresh /\ my.spki \in Numbers
      BY <1>5, Bounds DEF Csr, OfPlace, Known, Keyed, Numbers, WorldTypes
    <2>2. fresh' \in fresh..MaxFresh /\ fresh' \in Nat /\ my.spki \in 1..fresh'
      BY <1>5, <2>1 DEF Csr, WorldTypes
    <2>3. \E c \in Csrs : my' = [my EXCEPT !.csr = c]
      BY <1>5, <2>1 DEF Csr, Csrs
    <2>4. my' \in Locals /\ my'.idem = my.idem /\ my'.spki = my.spki /\ my'.csr \in Csrs
      BY <2>3 DEF WorldTypes, Locals
    <2>5. pc' \in {"csr_der", "request"}
      BY <1>5 DEF Csr
    <2>6. OfPlace'
      BY <2>1, <2>2, <2>4, <2>5 DEF OfPlace, Known, InOrder, Deletion, Places, Making, Keyed,
                                    Signing, Enrolled, Answered, Removing, Intending
    <2> QED BY <1>5, <2>2, <2>4, <2>6, MovesOnly DEF Csr
  <1>6. CASE (Admit \/ Open \/ Csr) /\ Exit
    BY <1>6, Ends DEF Admit, Open, Csr, WorldTypes
  <1> QED BY <1>1, <1>2, <1>3, <1>4, <1>5, <1>6

\* A key that is made was never the key of a request.
LEMMA KeyInv ==
  ASSUME Inv, Finalize \/ Meddle
  PROVE  Inv'
PROOF
  <1> USE Types, Draws
  <1>1. /\ UNCHANGED <<file, auth, issued, faults>> /\ fresh' \in fresh..MaxFresh
        /\ key' = key \/ key' = Nobody \/ (key' \in 1..fresh' /\ key' \notin 1..fresh)
    BY DEF Finalize, Meddle
  <1>2. fresh \in Nat /\ fresh' \in 0..MaxFresh /\ 1..fresh \subseteq 1..fresh'
    BY <1>1, Bounds DEF WorldTypes
  <1>3. key' \in 1..fresh' \cup {Nobody}
    BY <1>1, <1>2 DEF WorldTypes
  <1>4. Final("request") /\ key # Request.spki => key' # Request.spki
    BY <1>1, <1>2, NobodyIsNoNumber DEF OfFiles
  <1>5. OfFiles'
    BY <1>1, <1>2, <1>4 DEF OfFiles, Vouched, RecordIsTrue, Final, Request
  <1>6. FileTypes'
    BY <1>1 DEF FileTypes
  <1>7. CASE Finalize
    <2>1. my.idem \in Numbers /\ pc = "finalize"
      BY <1>7 DEF Finalize, OfPlace, Known, Making
    <2>2. \/ pc' = "public_der" /\ key' \in 1..fresh' /\ my' = [my EXCEPT !.spki = key']
          \/ pc' = "failed" /\ my' = my
      BY <1>7 DEF Finalize, Goto
    <2>3. key' \in 1..fresh' => key' \in Numbers
      BY <1>2, Bounds DEF Numbers
    <2>4. my' \in Locals /\ my'.idem = my.idem /\ (pc' = "public_der" => my'.spki \in 1..fresh')
      BY <2>2, <2>3 DEF WorldTypes, Locals
    <2>5. OfPlace'
      BY <2>1, <2>2, <2>4 DEF OfPlace, Known, InOrder, Deletion, Places, Making, Keyed, Signing,
                              Enrolled, Answered, Removing, Intending
    <2>6. WorldTypes'
      BY <1>1, <1>2, <1>3, <2>4 DEF WorldTypes
    <2> QED BY <1>5, <1>6, <2>5, <2>6, InvFromParts
  <1>8. CASE Meddle
    <2>1. pc' = pc /\ my' = my /\ UNCHANGED <<file, issued>>
      BY <1>8 DEF Meddle
    <2>2. Known' /\ InOrder'
      BY <1>2, <2>1 DEF OfPlace, Known, InOrder, Holds, Final
    <2>3. Deletion'
      BY <1>4, <2>1 DEF OfPlace, Deletion, Holds, Final, Request, Removing
    <2>4. OfPlace'
      BY <2>1, <2>2, <2>3 DEF OfPlace, Final, Request
    <2>5. WorldTypes'
      BY <1>1, <1>2, <1>3, <2>1 DEF WorldTypes
    <2> QED BY <1>5, <1>6, <2>4, <2>5, InvFromParts
  <1> QED BY <1>7, <1>8

\* The markers that are removed are not among the files that are relied on.
LEMMA CleanInv == ASSUME Inv, Clean PROVE Inv'
PROOF
  <1> USE Types
  <1>1. pc = "clean" /\ UNCHANGED <<world, fresh, faults>>
    BY DEF Clean
  <1>2. my' = my /\ pc' \in {"clean", "ready", "reopen"}
    BY <1>1 DEF Clean, Goto
  <1>3. file' = file \/ \E f \in {"started", "staging"} : file' = [file EXCEPT ![f] = Slots!NoSlot]
    BY DEF Clean, Goto
  <1>4. \A g \in Files \ {"started", "staging"} : file'[g] = file[g]
    BY <1>3 DEF FileTypes
  <1>5. FileTypes'
    BY <1>3 DEF FileTypes, Slots!NoSlot, Slots!FileStates
  <1>6. \A g \in Certificates \cup {"request", "issuance", "intent", "record"} : file'[g] = file[g]
    BY <1>4, FilesAre DEF Certificates
  <1>7. WorldTypes'
    BY <1>1, <1>2 DEF WorldTypes, world
  <1>8. OfFiles'
    BY <1>1, <1>6 DEF OfFiles, Vouched, RecordIsTrue, Final, Request, Certificates, world
  <1>9. OfPlace'
    BY <1>1, <1>2, <1>6
       DEF OfPlace, Known, InOrder, Deletion, Places, Making, Keyed, Signing, Enrolled, Answered,
           Removing, Intending, Final, Request
  <1> QED BY <1>5, <1>7, <1>8, <1>9, InvFromParts

\* retry and the enrollment.
LEMMA EnrollingInv ==
  ASSUME Inv, Enrolling
  PROVE  Inv'
PROOF
  <1> USE Types, Draws, Reads
  <1>p. \A l \in issued : Final("request") /\ l.idem = Request.idem /\ l.csr = Request.csr
    BY DEF OfFiles
  <1>1. CASE Retry
    <2>1. /\ Final("request") /\ pc' = "clean" /\ my' \in Locals
          /\ Request = [idem |-> my'.idem, spki |-> my'.spki, csr |-> my'.csr]
      BY <1>1 DEF Retry, None, Locals
    <2>2. OfPlace'
      BY <1>1, <2>1 DEF Retry, OfPlace, Known, InOrder, Deletion, Places, Making, Keyed, Signing,
                        Enrolled, Answered, Removing, Intending, Final, Request
    <2> QED BY <1>1, <2>1, <2>2, MovesOnly DEF Retry
  <1>2. CASE Reopen \/ Ready \/ Metadata \/ Root
    <2>1. CASE Exit
      BY <1>2, <2>1, Ends DEF Reopen, Ready, Metadata, Root, world, WorldTypes
    <2>2. CASE ~Exit
      <3>1. /\ UNCHANGED <<file, world, fresh, faults>>
            /\ pc \in {"reopen", "ready", "metadata", "root"}
            /\ pc' \in {"ready", "metadata", "root", "enroll"}
            /\ my'.idem = my.idem /\ my'.spki = my.spki /\ my'.csr = my.csr /\ my' \in Locals
            /\ pc' \in {"root", "enroll"} => my'.meta \in Authorities
            /\ pc' = "enroll" => my'.root \in Authorities
        BY <1>2, <2>2 DEF Reopen, Ready, Metadata, Root, Goto, WorldTypes, Locals, OfPlace, Known
      <3>2. OfPlace'
        BY <3>1 DEF OfPlace, Known, InOrder, Deletion, Places, Making, Keyed, Signing,
                    Enrolled, Answered, Removing, Intending, Final, Request, world
      <3> QED BY <3>1, <3>2, MovesOnly
    <2> QED BY <2>1, <2>2
  <1>3. CASE Enroll
    <2>1. /\ pc = "enroll" /\ UNCHANGED <<file, key, auth, fresh, faults>>
          /\ my.meta \in Authorities /\ my.root \in Authorities
          /\ Final("request") /\ Request = [idem |-> my.idem, spki |-> my.spki, csr |-> my.csr]
          /\ my.idem \in Numbers /\ my.csr \in Csrs
      BY <1>3 DEF Enroll, OfPlace, Known, Enrolled, Answered
    <2>2. issued' = issued \/ issued' = issued \cup {[auth |-> auth, idem |-> my.idem, csr |-> my.csr]}
      BY <1>3 DEF Enroll
    <2>3. /\ issued \subseteq issued' /\ issued' \subseteq Leaves
          /\ \A l \in issued' : l.idem = Request.idem /\ l.csr = Request.csr
      BY <1>p, <2>1, <2>2 DEF Leaves, WorldTypes
    <2>4. CASE Exit
      BY <2>1, <2>3, <2>4, Moves, Off, NoLocals DEF Exit
    <2>5. CASE ~Exit
      <3>1. PICK l \in issued' : l.csr = my.csr /\ pc' = "verify" /\ my' = [my EXCEPT !.leaf = l]
        BY <1>3, <2>5 DEF Enroll
      <3>2. /\ my' \in Locals /\ my'.leaf = l /\ my'.csr = my.csr /\ my'.idem = my.idem
            /\ my'.spki = my.spki /\ my'.meta = my.meta /\ my'.root = my.root
        BY <2>3, <3>1 DEF WorldTypes, Locals
      <3>3. OfPlace'
        BY <2>1, <3>1, <3>2 DEF OfPlace, Known, InOrder, Deletion, Places, Making, Keyed, Signing,
                                Enrolled, Answered, Removing, Intending, Final, Request
      <3> QED BY <2>1, <2>3, <3>2, <3>3, Moves
    <2> QED BY <2>4, <2>5
  <1>4. CASE Verify
    <2>1. CASE Exit
      BY <1>4, <2>1, Ends DEF Verify, WorldTypes
    <2>2. CASE ~Exit
      BY <1>4, <2>2, MovesOnly
         DEF Verify, Goto, OfPlace, Known, InOrder, Deletion, Places, Making, Keyed, Signing,
             Enrolled, Answered, Removing, Intending, Final, Request, world, WorldTypes
    <2> QED BY <2>1, <2>2
  <1>5. CASE Vouch
    <2>1. CASE Exit
      BY <1>5, <2>1, Ends DEF Vouch, WorldTypes
    <2>2. CASE ~Exit
      <3>1. /\ UNCHANGED <<file, world, faults>> /\ fresh' \in fresh..MaxFresh /\ fresh' \in Numbers
            /\ pc = "vouch" /\ pc' = "issuance" /\ my' = [my EXCEPT !.at = fresh']
        BY <1>5, <2>2 DEF Vouch
      <3>2. /\ my' \in Locals /\ my'.at \in Numbers /\ my'.leaf = my.leaf /\ my'.csr = my.csr
            /\ my'.idem = my.idem /\ my'.spki = my.spki /\ my'.meta = my.meta /\ my'.root = my.root
        BY <3>1 DEF WorldTypes, Locals
      <3>3. OfPlace'
        BY <3>1, <3>2 DEF OfPlace, Known, InOrder, Deletion, Places, Making, Keyed, Signing, Holds,
                          Enrolled, Answered, Removing, Intending, Final, Request, world
      <3> QED BY <3>1, <3>2, <3>3, MovesOnly
    <2> QED BY <2>1, <2>2
  <1> QED BY <1>1, <1>2, <1>3, <1>4, <1>5 DEF Enrolling

\* delete-key.
LEMMA DeletingInv ==
  ASSUME Inv, Deleting
  PROVE  Inv'
PROOF
  <1> USE Types, Draws, Reads
  <1>0. fresh \in fresh..MaxFresh
    OBVIOUS
  <1>1. CASE Exit /\ ~Delete
    <2>1. UNCHANGED <<file, auth, issued, faults>> /\ fresh' \in fresh..MaxFresh /\ pc' = "off"
      BY <1>0, <1>1 DEF Deleting, Inspect, Destroy, Absent, Date, Exit, Goto, world
    <2>2. key' = key
      BY <1>1, <2>1 DEF Deleting, Inspect, Destroy, Absent, Date, Goto, world
    <2> QED BY <1>1, <2>1, <2>2, Ends DEF world
  <1>2. CASE Delete
    <2>1. /\ Final("request") /\ pc' = "inspect" /\ my' \in Locals /\ my'.spki = Request.spki
          /\ my'.op = Nobody \/ Holds("intent", my'.op)
      BY <1>2 DEF Delete, Stored, None, Locals, Holds
    <2>2. OfPlace'
      BY <1>2, <2>1 DEF Delete, OfPlace, Known, InOrder, Deletion, Places, Making, Keyed, Signing,
                        Enrolled, Answered, Removing, Intending, Final, Request, Holds
    <2> QED BY <1>0, <1>2, <2>1, <2>2, MovesOnly DEF Delete
  <1>3. CASE Inspect /\ ~Exit
    <2>1. /\ UNCHANGED <<file, world, faults>> /\ fresh' \in fresh..MaxFresh
          /\ pc = "inspect" /\ Final("request") /\ my.spki = Request.spki
          /\ my.op = Nobody \/ Holds("intent", my.op)
      BY <1>0, <1>3 DEF Inspect, Goto, OfPlace, Deletion, Removing
    <2>2. \/ pc' = "intent" /\ fresh' \in Numbers /\ my' = [my EXCEPT !.op = fresh']
          \/ pc' \in {"delete", "absent"} /\ my' = my /\ my.op # Nobody
      BY <1>3 DEF Inspect, Goto
    <2>3. /\ my' \in Locals /\ my'.spki = my.spki /\ (pc' = "intent" => my'.op \in Numbers)
          /\ pc' # "intent" => my'.op = my.op
      BY <2>2 DEF WorldTypes, Locals
    <2>4. OfPlace'
      BY <2>1, <2>2, <2>3 DEF OfPlace, Known, InOrder, Deletion, Places, Making, Keyed, Signing,
                              Enrolled, Answered, Removing, Intending, Final, Request, Holds
    <2> QED BY <2>1, <2>3, <2>4, MovesOnly
  <1>4. CASE Destroy /\ ~Exit
    <2>1. /\ UNCHANGED <<file, auth, issued, fresh, faults>> /\ my' = my
          /\ pc = "delete" /\ pc' = "absent" /\ key = my.spki /\ key' = Nobody
      BY <1>4 DEF Destroy, Goto
    <2>2. OfPlace'
      BY <2>1 DEF OfPlace, Known, InOrder, Deletion, Places, Making, Keyed, Signing,
                  Enrolled, Answered, Removing, Intending, Final, Request, Holds
    <2>3. FileTypes' /\ WorldTypes'
      BY <2>1 DEF FileTypes, WorldTypes
    <2>4. Final("request") => Request.spki # Nobody
      BY NobodyIsNoNumber DEF Numbers
    <2>5. OfFiles'
      BY <2>1, <2>4 DEF OfFiles, Vouched, RecordIsTrue, Final, Request
    <2> QED BY <2>2, <2>3, <2>5, InvFromParts
  <1>5. CASE Absent /\ ~Exit
    <2>1. /\ UNCHANGED <<file, world, fresh, faults>> /\ my' = my
          /\ pc = "absent" /\ pc' = "date" /\ key = Nobody
      BY <1>5 DEF Absent, Goto
    <2>2. Final("request") => Request.spki # Nobody
      BY NobodyIsNoNumber DEF Numbers
    <2>3. OfPlace'
      BY <2>1, <2>2 DEF OfPlace, Known, InOrder, Deletion, Places, Making, Keyed, Signing, world,
                        Enrolled, Answered, Removing, Intending, Final, Request, Holds
    <2> QED BY <1>0, <2>1, <2>3, MovesOnly DEF WorldTypes
  <1>6. CASE Date /\ ~Exit
    <2>1. /\ UNCHANGED <<file, world, faults>> /\ fresh' \in fresh..MaxFresh
          /\ pc = "date" /\ pc' = "record" /\ \E n \in Numbers : my' = [my EXCEPT !.at = n]
      BY <1>0, <1>6 DEF Date
    <2>2. my' \in Locals /\ my'.at \in Numbers /\ my'.op = my.op /\ my'.spki = my.spki
      BY <2>1 DEF WorldTypes, Locals
    <2>3. OfPlace'
      BY <2>1, <2>2 DEF OfPlace, Known, InOrder, Deletion, Places, Making, Keyed, Signing, world,
                        Enrolled, Answered, Removing, Intending, Final, Request, Holds
    <2> QED BY <2>1, <2>2, <2>3, MovesOnly
  <1> QED BY <1>1, <1>2, <1>3, <1>4, <1>5, <1>6 DEF Deleting

LEMMA NextInv == Inv /\ [Next]_vars => Inv'
PROOF
  <1> SUFFICES ASSUME Inv, [Next]_vars PROVE Inv'
    OBVIOUS
  <1>1. CASE Stop
    BY <1>1, Ends, Types, Draws DEF Stop
  <1>2. CASE Replaced
    <2>1. OfPlace'
      BY <1>2, Types DEF Replaced, OfPlace, Known, InOrder, Deletion, Final, Request, Holds
    <2>2. FileTypes' /\ WorldTypes' /\ OfFiles'
      BY <1>2, Types
         DEF Replaced, FileTypes, WorldTypes, OfFiles, Vouched, RecordIsTrue, Final, Request
    <2> QED BY <2>1, <2>2, InvFromParts
  <1>3. CASE UNCHANGED vars
    <2>1. OfPlace'
      BY <1>3, Types DEF vars, world, OfPlace, Known, InOrder, Deletion, Final, Request, Holds
    <2> QED BY <1>3, <2>1, MovesOnly, Types, Draws DEF vars, WorldTypes
  <1> QED BY <1>1, <1>2, <1>3, CreateInv, KeyInv, CleanInv, EnrollingInv, DeletingInv, PublishInv
          DEF Next

-----------------------------------------------------------------------------
(* Theorems.                                                               *)

\* Files, locals and the world keep their types; in particular no file is ever
\* published whose contents could not be made (artifacts.rs, files.rs).
THEOREM TypeCorrect == Spec => []TypeOK
PROOF
  <1>1. Inv => TypeOK
    BY DEF Inv
  <1> QED BY InitInv, NextInv, <1>1, PTL DEF Spec

\* However commands broke off and were run again, every certificate that any
\* authority issues is for the one request of the directory (prepare_staging,
\* load_request, retry).
THEOREM OneRequestEver == Spec => []OneRequest
PROOF
  <1>1. Inv => OneRequest
    BY DEF Inv, Requested, Enrolled, OneRequest
  <1> QED BY InitInv, NextInv, <1>1, PTL DEF Spec

\* The issuance metadata are there last, and true of every certificate file
\* (enroll_and_publish).
THEOREM MetadataVouch == Spec => []Vouched
PROOF
  <1>1. Inv => Vouched
    BY DEF Inv
  <1> QED BY InitInv, NextInv, <1>1, PTL DEF Spec

\* A deletion record is true for ever: the key is gone, and no other program can
\* bring it back (run_deletion).
THEOREM RecordStaysTrue == Spec => []RecordIsTrue
PROOF
  <1>1. Inv => RecordIsTrue
    BY DEF Inv
  <1> QED BY InitInv, NextInv, <1>1, PTL DEF Spec

\* Only the key of the directory's request is deleted, and after the intent is
\* published (delete_matching_key).
THEOREM OnlyItsOwnKey == Spec => DeletesOwn
PROOF
  <1>1. Inv /\ [Next]_vars =>
          [pc' # pc /\ key # Nobody /\ key' = Nobody => Final("intent") /\ key = Request.spki]_vars
    <2> SUFFICES ASSUME Inv, Next, pc' # pc, key # Nobody, key' = Nobody
                 PROVE  Final("intent") /\ key = Request.spki
      OBVIOUS
    <2>1. Destroy
      BY DEF Next, Create, Recover, Admit, Open, Finalize, Csr, Clean, Stop, Enrolling, Retry, Reopen,
             Ready, Metadata, Root, Enroll, Verify, Vouch, Deleting, Delete, Inspect, Absent, Date,
             Publish, Meddle, Replaced, world
    <2> QED BY <2>1 DEF Destroy, Inv, Deletion, Removing, Intending, Holds
  <1> QED BY InitInv, NextInv, <1>1, PTL DEF Spec, DeletesOwn
=============================================================================
