---------------------------- MODULE ClientEnroll ----------------------------
(***************************************************************************)
(* One output directory of the enrollment client and the commands that     *)
(* work on it: create, retry and delete-key                                *)
(* (crates/azihsm-ca-client/src/artifacts.rs).                             *)
(*                                                                         *)
(* A command holds the state lock from its start to its end, so that one   *)
(* runs at a time; it ends where it meets an error and may die anywhere.   *)
(* The other actors are whoever else uses the key store under that name,   *)
(* and the authority at the URL, which answers as CertRegister has it and  *)
(* may be replaced by another.  Bytes are abstracted to what they were     *)
(* made from; a random value, a signature and a time are fresh numbers.    *)
(***************************************************************************)
EXTENDS Integers, FiniteSets

CONSTANTS
  Authorities,  \* authorities that may serve at the URL
  Nobody,       \* no key, no value
  Leftovers,    \* the states a failed publication may leave a new file in
  MaxFresh,     \* bound: fresh numbers drawn
  MaxFaults     \* bound: publications that fail

ASSUME Bounds == {MaxFresh, MaxFaults} \subseteq Nat
ASSUME LeftoversAreStates == Leftovers \subseteq {"absent", "empty", "torn", "staged", "final"}
ASSUME NobodyIsNoNumber == Nobody \notin Nat

Numbers == 1..MaxFresh
Csrs    == [spki : Numbers, sig : Numbers]
Leaves  == [auth : Authorities, idem : Numbers, csr : Csrs]

\* What the files are made from.
Contents ==
  [staging |-> Numbers, started |-> Numbers, failed |-> Numbers,
   public_der |-> Numbers, public_pem |-> Numbers, csr_der |-> Csrs, csr_pem |-> Csrs,
   request |-> [idem : Numbers, spki : Numbers, csr : Csrs],
   root_der |-> Authorities, root_pem |-> Authorities,
   leaf_der |-> Leaves, leaf_pem |-> Leaves,
   chain |-> [root : Authorities, leaf : Leaves],
   issuance |-> [auth : Authorities, root : Authorities, leaf : Leaves, at : Numbers],
   intent |-> Numbers, record |-> [op : Numbers, at : Numbers]]

Files == DOMAIN Contents
Certificates == {"root_der", "root_pem", "leaf_der", "leaf_pem", "chain"}

\* Admitted when create is run again.
Recoverable ==
  {"staging", "started", "failed", "public_der", "public_pem", "csr_der", "csr_pem"}

VARIABLES
  file,     \* each file of the directory, as a slot
  key,      \* the public key of the key under the name in the key store
  auth,     \* the authority at the URL
  issued,   \* certificates that authorities have issued
  pc,       \* where the command is: a file is the name of its publication
  my,       \* its locals
  fresh, faults

world == <<key, auth, issued>>
vars  == <<file, world, pc, my, fresh, faults>>

Slots == INSTANCE Slots WITH Ids <- UNION {Contents[f] : f \in Files}

Locals == [cmd : {"none", "create", "retry", "delete"},
           idem : Numbers \cup {Nobody}, spki : Numbers \cup {Nobody},
           csr : Csrs \cup {Nobody}, meta : Authorities \cup {Nobody},
           root : Authorities \cup {Nobody}, leaf : Leaves \cup {Nobody},
           op : Numbers \cup {Nobody}, at : Numbers \cup {Nobody}]
None == [cmd |-> "none", idem |-> Nobody, spki |-> Nobody, csr |-> Nobody,
         meta |-> Nobody, root |-> Nobody, leaf |-> Nobody, op |-> Nobody, at |-> Nobody]

Init ==
  /\ file = [f \in Files |-> Slots!NoSlot]
  /\ key = Nobody /\ auth \in Authorities /\ issued = {}
  /\ pc = "off" /\ my = None /\ fresh = 0 /\ faults = 0

Final(f)  == file[f].st = "final"
Exit      == pc' = "off" /\ my' = None
Goto(l)   == pc' = l /\ UNCHANGED my
Draw(n)   == fresh < MaxFresh /\ n = fresh + 1 /\ fresh' = n
Request   == file["request"].by

-----------------------------------------------------------------------------
(* Publication of a file: stage, then rename without replacement.          *)

Bytes(f) ==
  CASE f \in {"staging", "started", "failed"} -> my.idem
    [] f \in {"public_der", "public_pem"}     -> my.spki
    [] f \in {"csr_der", "csr_pem"}           -> my.csr
    [] f = "request"  -> [idem |-> my.idem, spki |-> my.spki, csr |-> my.csr]
    [] f \in {"root_der", "root_pem"}         -> my.root
    [] f \in {"leaf_der", "leaf_pem"}         -> my.leaf
    [] f = "chain"    -> [root |-> my.root, leaf |-> my.leaf]
    [] f = "issuance" -> [auth |-> my.meta, root |-> my.root, leaf |-> my.leaf, at |-> my.at]
    [] f = "intent"   -> my.op
    [] f = "record"   -> [op |-> my.op, at |-> my.at]

\* Where a command goes on after a publication.
After ==
  [staging |-> "open", started |-> "finalize", failed |-> "off",
   public_der |-> "public_pem", public_pem |-> "csr", csr_der |-> "csr_pem",
   csr_pem |-> "request", request |-> "clean",
   root_der |-> "root_pem", root_pem |-> "leaf_der", leaf_der |-> "leaf_pem",
   leaf_pem |-> "chain", chain |-> "vouch", issuance |-> "off",
   intent |-> "inspect", record |-> "off"]

Fitting(f) == Slots!FitsExactly(file[f], Bytes(f))

\* The file gets its name, or keeps it; or it holds other bytes and ends the
\* command; or the publication fails and leaves what it has done.
Publish(f) ==
  /\ pc = f
  /\ \/ /\ Fitting(f) /\ file' = [file EXCEPT ![f] = Slots!SlotOf("final", Bytes(f))]
        /\ IF After[f] = "off" THEN Exit ELSE Goto(After[f])
        /\ UNCHANGED faults
     \/ ~Fitting(f) /\ Exit /\ UNCHANGED <<file, faults>>
     \/ /\ Slots!Fits(file[f], Bytes(f)) /\ faults < MaxFaults /\ faults' = faults + 1
        /\ \E st \in Slots!Residues(file[f].st) :
             file' = [file EXCEPT ![f] = Slots!SlotOf(st, Bytes(f))]
        /\ Exit
  /\ UNCHANGED <<world, fresh>>

-----------------------------------------------------------------------------
(* create: the key and the request.                                        *)

\* prepare_staging in an empty directory: a new idempotency key.
Create ==
  /\ pc = "off" /\ \A f \in Files : file[f].st = "absent"
  /\ \E n \in Numbers : Draw(n) /\ my' = [None EXCEPT !.cmd = "create", !.idem = n]
  /\ pc' = "staging" /\ UNCHANGED <<file, world, faults>>

\* prepare_staging over the staging record of an earlier create.
Recover ==
  /\ pc = "off" /\ Final("staging") /\ pc' = "recover"
  /\ my' = [None EXCEPT !.cmd = "create", !.idem = file["staging"].by]
  /\ UNCHANGED <<file, world, fresh, faults>>

\* What a listing of the directory shows, pending files aside: the command has
\* opened the lock that it holds there.
Entries == {f \in Files : Final(f)} \cup {"state_lock"}

\* validate_recovery_entries: nothing but recoverable files.  A finalization
\* that failed is not tried again.
Admit ==
  /\ pc = "recover"
  /\ IF Entries \subseteq Recoverable /\ ~Final("failed") THEN Goto("open") ELSE Exit
  /\ UNCHANGED <<file, world, fresh, faults>>

\* The key is there: adopted if its finalization was begun here.  It is not:
\* one is made.
Open ==
  /\ pc = "open"
  /\ IF key = Nobody THEN Goto("started")
     ELSE IF Final("started")
     THEN pc' = "public_der" /\ my' = [my EXCEPT !.spki = key]
     ELSE Exit
  /\ UNCHANGED <<file, world, fresh, faults>>

\* NCryptFinalizeKey does not replace a key of that name.  What it reports as a
\* failure may have taken effect.
Finalize ==
  /\ pc = "finalize"
  /\ \/ /\ key = Nobody /\ Draw(key')
        /\ \/ pc' = "public_der" /\ my' = [my EXCEPT !.spki = key']
           \/ Goto("failed")
     \/ Goto("failed") /\ UNCHANGED <<key, fresh>>
  /\ UNCHANGED <<file, auth, issued, faults>>

\* load_or_create_csr: the file is used if there is one, and its PEM is then
\* not published; else a new signature is made.
Csr ==
  /\ pc = "csr"
  /\ IF ~Final("csr_der")
     THEN /\ Draw(fresh') /\ pc' = "csr_der"
          /\ my' = [my EXCEPT !.csr = [spki |-> my.spki, sig |-> fresh']]
     ELSE /\ UNCHANGED fresh
          /\ IF file["csr_der"].by.spki = my.spki
             THEN pc' = "request" /\ my' = [my EXCEPT !.csr = file["csr_der"].by]
             ELSE Exit
  /\ UNCHANGED <<file, world, faults>>

\* The recovery markers are removed, the finalization's first.
Clean ==
  /\ pc = "clean"
  /\ LET stale == {f \in {"started", "staging"} : Final(f)} IN
       IF stale = {}
       THEN Goto(IF my.cmd = "create" THEN "ready" ELSE "reopen") /\ UNCHANGED file
       ELSE /\ UNCHANGED <<pc, my>>
            /\ file' = [file EXCEPT ![IF "started" \in stale THEN "started" ELSE "staging"]
                                      = Slots!NoSlot]
  /\ UNCHANGED <<world, fresh, faults>>

-----------------------------------------------------------------------------
(* retry, and the enrollment that create and retry share.                  *)

\* The stored request, and the public key and CSR it names.
Stored ==
  /\ Final("request") /\ Final("public_der") /\ Final("csr_der")
  /\ file["public_der"].by = Request.spki /\ file["csr_der"].by = Request.csr

Retry ==
  /\ pc = "off" /\ Final("request") /\ pc' = "clean"
  /\ my' = [None EXCEPT !.cmd = "retry", !.idem = Request.idem, !.spki = Request.spki,
                        !.csr = Request.csr]
  /\ UNCHANGED <<file, world, fresh, faults>>

\* Variant: the CSR is built anew.
Rebuild ==
  /\ pc = "reopen" /\ Stored /\ key = Request.spki /\ pc' = "ready" /\ Draw(fresh')
  /\ my' = [my EXCEPT !.csr.sig = fresh']
  /\ UNCHANGED <<file, world, faults>>

\* The key under the name must be that of the request.
Reopen ==
  /\ pc = "reopen" /\ (IF Stored /\ key = Request.spki THEN Goto("ready") ELSE Exit)
  /\ UNCHANGED <<file, world, fresh, faults>>

Ready == pc = "ready" /\ Goto("metadata") /\ UNCHANGED <<file, world, fresh, faults>>

Metadata ==
  /\ pc = "metadata" /\ pc' = "root" /\ my' = [my EXCEPT !.meta = auth]
  /\ UNCHANGED <<file, world, fresh, faults>>

Root ==
  /\ pc = "root" /\ pc' = "enroll" /\ my' = [my EXCEPT !.root = auth]
  /\ UNCHANGED <<file, world, fresh, faults>>

\* Certificates of the idempotency key at the authority: one at most.
Bound == {l \in issued : l.auth = auth /\ l.idem = my.idem}

\* POST /v1/certificates: the key gets a certificate, or has one, which is
\* handed out for its own CSR only.  The answer may not arrive.
Enroll ==
  /\ pc = "enroll"
  /\ issued' = IF Bound = {} THEN issued \cup {[auth |-> auth, idem |-> my.idem, csr |-> my.csr]}
               ELSE issued
  /\ \/ \E l \in issued' :
          /\ l.auth = auth /\ l.idem = my.idem /\ l.csr = my.csr
          /\ pc' = "verify" /\ my' = [my EXCEPT !.leaf = l]
     \/ Exit
  /\ UNCHANGED <<file, key, auth, fresh, faults>>

\* Variant: the signature is not checked.
VerifyKeyOnly ==
  /\ pc = "verify"
  /\ IF my.leaf.csr.spki = my.spki THEN Goto("root_der") ELSE Exit
  /\ UNCHANGED <<file, world, fresh, faults>>

\* verify_chain: signed by the root, for the key and the names.
Verify ==
  /\ pc = "verify"
  /\ IF my.leaf.auth = my.root /\ my.leaf.csr.spki = my.spki THEN Goto("root_der") ELSE Exit
  /\ UNCHANGED <<file, world, fresh, faults>>

\* The issuance metadata: compared with the published ones, without the time.
Vouch ==
  /\ pc = "vouch"
  /\ IF Final("issuance") THEN Exit /\ UNCHANGED fresh
     ELSE /\ Draw(fresh') /\ pc' = "issuance" /\ my' = [my EXCEPT !.at = fresh']
  /\ UNCHANGED <<file, world, faults>>

-----------------------------------------------------------------------------
(* delete-key.                                                             *)

\* Variant: an intent is taken for a deletion.
DeleteTrusting ==
  /\ pc = "off" /\ Stored /\ ~Final("record")
  /\ pc' = IF Final("intent") THEN "date" ELSE "inspect"
  /\ my' = [None EXCEPT !.cmd = "delete", !.spki = Request.spki,
                        !.op = IF Final("intent") THEN file["intent"].by ELSE Nobody]
  /\ UNCHANGED <<file, world, fresh, faults>>

\* With a deletion record there is nothing left to do.
Delete ==
  /\ pc = "off" /\ Stored /\ ~Final("record")
  /\ pc' = "inspect"
  /\ my' = [None EXCEPT !.cmd = "delete", !.spki = Request.spki,
                        !.op = IF Final("intent") THEN file["intent"].by ELSE Nobody]
  /\ UNCHANGED <<file, world, fresh, faults>>

\* key_matches: another key under the name ends the command, and so does its
\* absence before the intent.
Inspect ==
  /\ pc = "inspect"
  /\ CASE key = my.spki /\ my.op = Nobody ->
            Draw(fresh') /\ pc' = "intent" /\ my' = [my EXCEPT !.op = fresh']
       [] key = my.spki /\ my.op # Nobody -> Goto("delete") /\ UNCHANGED fresh
       [] key = Nobody /\ my.op # Nobody -> Goto("absent") /\ UNCHANGED fresh
       [] OTHER -> Exit /\ UNCHANGED fresh
  /\ UNCHANGED <<file, world, faults>>

\* Variant: what inspection found is deleted, whatever it is now.
DestroyNamed ==
  /\ pc = "delete"
  /\ IF key # Nobody THEN key' = Nobody /\ Goto("absent") ELSE Exit /\ UNCHANGED key
  /\ UNCHANGED <<file, auth, issued, fresh, faults>>

\* delete_matching_key: opens the key and looks at it again.
Destroy ==
  /\ pc = "delete"
  /\ IF key = my.spki THEN key' = Nobody /\ Goto("absent") ELSE Exit /\ UNCHANGED key
  /\ UNCHANGED <<file, auth, issued, fresh, faults>>

\* require_absent
Absent ==
  /\ pc = "absent" /\ (IF key = Nobody THEN Goto("date") ELSE Exit)
  /\ UNCHANGED <<file, world, fresh, faults>>

\* The record that is pending is completed, if it can be read and is of this
\* deletion; else there is a new one.
Date ==
  /\ pc = "date"
  /\ CASE file["record"].st = "absent" ->
            Draw(fresh') /\ pc' = "record" /\ my' = [my EXCEPT !.at = fresh']
       [] file["record"].st = "staged" /\ file["record"].by.op = my.op ->
            pc' = "record" /\ my' = [my EXCEPT !.at = file["record"].by.at] /\ UNCHANGED fresh
       [] OTHER -> Exit /\ UNCHANGED fresh
  /\ UNCHANGED <<file, world, faults>>

-----------------------------------------------------------------------------

\* An error of the provider, the network or the authority; death.
Stop == pc # "off" /\ Exit /\ UNCHANGED <<file, world, fresh, faults>>

\* Another program makes or removes a key under the name.
Meddle ==
  /\ \/ key = Nobody /\ Draw(key')
     \/ key # Nobody /\ key' = Nobody /\ UNCHANGED fresh
  /\ UNCHANGED <<file, auth, issued, pc, my, faults>>

Replaced ==
  /\ auth' \in Authorities \ {auth}
  /\ UNCHANGED <<file, key, issued, pc, my, fresh, faults>>

Enrolling == Retry \/ Reopen \/ Ready \/ Metadata \/ Root \/ Enroll \/ Verify \/ Vouch
Deleting  == Delete \/ Inspect \/ Destroy \/ Absent \/ Date

Next ==
  \/ Create \/ Recover \/ Admit \/ Open \/ Finalize \/ Csr \/ Clean \/ Stop
  \/ Enrolling \/ Deleting \/ \E f \in Files : Publish(f)
  \/ Meddle \/ Replaced

Spec == Init /\ [][Next]_vars

-----------------------------------------------------------------------------
(* Properties.                                                             *)

TypeOK ==
  /\ DOMAIN file = Files
  /\ \A f \in Files : /\ file[f].st \in Slots!FileStates
                      /\ IF file[f].st \in {"staged", "final"} THEN file[f].by \in Contents[f]
                         ELSE file[f].by = Nobody
  /\ key \in Numbers \cup {Nobody} /\ auth \in Authorities /\ issued \subseteq Leaves
  /\ pc \in Files \cup {"off", "recover", "open", "finalize", "csr", "clean", "reopen", "ready",
                        "metadata", "root", "enroll", "verify", "vouch", "inspect", "delete",
                        "absent", "date"}
  /\ my \in Locals /\ fresh \in 0..MaxFresh /\ faults \in 0..MaxFaults
  /\ pc \in Files => Bytes(pc) \in Contents[pc]

\* Whatever broke off, retry presents the request that create has presented, with
\* its idempotency key: nothing is issued twice for the directory, and no key is
\* refused as bound to another CSR.
OneRequest ==
  pc = "enroll" => \A l \in issued : l.idem = my.idem /\ l.csr = my.csr

\* The issuance metadata vouch for the files: all certificates are published,
\* they are the ones an authority issued for the stored request, and belong to
\* the root that is published with them, over retries and other authorities.
Vouched ==
  Final("issuance") =>
    LET i == file["issuance"].by IN
      /\ \A f \in Certificates : Final(f)
      /\ file["root_der"].by = i.root /\ file["leaf_der"].by = i.leaf
      /\ i.leaf.auth = i.root /\ i.leaf \in issued /\ i.leaf.csr = Request.csr

\* The program deletes no key but the one of its directory, and none without an
\* intent, also when the name changes hands while it runs.
DeletesOwn ==
  [][pc' # pc /\ key # Nobody /\ key' = Nobody => Final("intent") /\ key = Request.spki]_vars

\* A deletion record says that the key is gone, and of which intent.
RecordIsTrue ==
  Final("record") => key # Request.spki /\ Final("intent")
                     /\ file["record"].by.op = file["intent"].by
=============================================================================
