------------------------------- MODULE CaInit -------------------------------
(***************************************************************************)
(* The life of a state directory until its authority serves: a fresh       *)
(* initialization, the reconciliation or the abandonment of one that broke *)
(* off, and the load of the result (crates/azihsm-ca/src/authority.rs:45,  *)
(* 111, 199, 634, 704).                                                    *)
(*                                                                         *)
(* Each is a process that holds authority.lock, so one runs at a time.  It *)
(* stops where it likes: by an I/O or provider error, or because it dies;  *)
(* what a publication leaves behind then is a state of Slots.  Names of    *)
(* keys are shared with other programs of the same user.  The marker       *)
(* state-format.json is published once, so a directory sees one operation. *)
(***************************************************************************)
EXTENDS Integers, Sequences

CONSTANTS
  Params,       \* root parameters: serial, reference time, authority id
  Sigs,         \* what signing the same bytes twice may return
  Nobody,       \* the owner of a file that has no contents
  Leftovers     \* the states a failed publication may leave a new file in

\* A signed root certificate.  It determines authority.json and the journal's
\* publication.json, as its parameters determine root-signing.json.
Roots == [tbs : Params, sig : Sigs]

INSTANCE Slots WITH Ids <- Roots

\* The journal of a run that succeeds, phase by phase, and what else may
\* follow a phase (validate_transitions).
Success ==
  <<"prepared", "finalize_started", "finalize_succeeded", "key_validated",
    "root_signing_prepared", "root_validated", "authority_published", "completed">>
Failures == {"finalize_failed", "finalize_unexpected"}

\* The phases from which on the key is finalized, the root may be signed, the
\* root is there, and the authority is.
Published == {"authority_published", "completed"}
Rooted    == {"root_validated"} \cup Published
Signing   == {"root_signing_prepared"} \cup Rooted
Owned     == {"finalize_succeeded", "key_validated"} \cup Signing
Abandoned == {"abandon_verified", "abandoned"}
Phases    == {"prepared", "finalize_started"} \cup Failures \cup Owned \cup Abandoned

LegalSteps ==
  {<<Success[n], Success[n + 1]>> : n \in 1..7}
    \cup {"finalize_started"} \X Failures
    \cup {"prepared", "finalize_started"} \X {"abandon_verified"}
    \cup {<<"abandon_verified", "abandoned">>}

Kinds == {"authority_initialized", "init_abandoned"}

\* The states of a file whose contents are one of S.
SlotsFor(S) ==
  {x \in [st : FileStates, by : S \cup {Nobody}] :
     IF x.st \in {"staged", "final"} THEN x.by \in S ELSE x.by = Nobody}

ASSUME LeftoverStates == Leftovers \subseteq FileStates
ASSUME NobodyIsNobody ==
  Nobody \notin Roots /\ Nobody \notin Params /\ Nobody \notin Phases /\ Nobody \notin Kinds

VARIABLES
  format,       \* state-format.json
  place,        \* where the journal directory of the operation is
  gens,         \* its generations, by sequence number
  gtail,        \* the staging file of the next generation
  intent,       \* its root-signing.json
  root,         \* its root.der
  pub,          \* its publication.json
  rootder,      \* root.der of the authority
  auth,         \* authority.json
  audit,        \* the audit records of the operation
  atail,        \* the staging file of the next audit record
  key,          \* who owns the named key
  pc,           \* where the running command is
  goal,         \* which command it is, or was
  result,       \* how the last command ended
  signed        \* every root the key ever signed

journal   == <<place, gens, gtail>>
material  == <<intent, root, pub>>
authority == <<rootder, auth>>
log       == <<audit, atail>>
run       == <<pc, goal, result>>
vars      == <<format, journal, material, authority, log, key, run, signed>>

Init ==
  /\ format = "absent"
  /\ place = "none" /\ gens = <<>> /\ gtail = NoSlot
  /\ intent = NoSlot /\ root = NoSlot /\ pub = NoSlot
  /\ rootder = NoSlot /\ auth = NoSlot
  /\ audit = <<>> /\ atail = NoSlot
  /\ key \in {"absent", "foreign"}
  /\ pc = "free" /\ goal = "none" /\ result = "none"
  /\ signed = {}

-----------------------------------------------------------------------------
(* How a command goes on and ends.                                         *)

\* What follows each step that succeeds.  fresh_init runs from mark to archive,
\* reconcile from intent, abandon from abandon_verified.
After ==
  [mark |-> "absent", absent |-> "mkdir", mkdir |-> "prepared",
   prepared |-> "create", create |-> "finalize_started",
   finalize_started |-> "finalize", finalize_succeeded |-> "key_validated",
   key_validated |-> "intent", intent |-> "root_signing_prepared",
   root_signing_prepared |-> "root", root |-> "publication",
   publication |-> "root_validated", root_validated |-> "root_der",
   root_der |-> "authority", authority |-> "authority_published",
   authority_published |-> "completed", completed |-> "audit", audit |-> "archive",
   abandon_verified |-> "abandoned", abandoned |-> "audit"]

Goto(next) == pc' = next /\ UNCHANGED <<goal, result>>
Finish(how) == pc' = "free" /\ result' = how /\ UNCHANGED goal
Continue(ok) == IF ok THEN Goto(After[pc]) ELSE Finish("broken")

\* The outcomes of durable_bytes for these bytes, and of giving a complete
\* staging file its name: success, or an error and one of its residues.
Tries(slot, who) ==
  {[to |-> SlotOf("final", who), ok |-> TRUE]}
    \cup {[to |-> SlotOf(st, who), ok |-> FALSE] : st \in Residues(slot.st)}

Has(phase) == \E n \in DOMAIN gens : gens[n] = phase
LastPhase == IF gens = <<>> THEN "none" ELSE gens[Len(gens)]

\* An error of the system or the provider, or the death of the process,
\* between two steps.
Stop ==
  /\ pc # "free" /\ Finish("broken")
  /\ UNCHANGED <<format, journal, material, authority, log, key, signed>>

\* Other programs create and delete a key of this name.
OtherPrograms ==
  /\ key # "ours" /\ key' \in {"absent", "foreign"}
  /\ UNCHANGED <<format, journal, material, authority, log, run, signed>>

-----------------------------------------------------------------------------
(* The start of each command.                                              *)

Commands == {"fresh", "reconcile", "abandon", "load"}

\* load_for_serve up to the journal: authority.json and root.der are there and
\* bind each other, and the key is the one they name.
Loadable ==
  /\ format = "final" /\ auth.st = "final"
  /\ rootder = SlotOf("final", auth.by) /\ key = "ours"

Begin(command) ==
  /\ pc = "free"
  /\ goal' = command
  /\ LET refused ==
           CASE command = "fresh" -> FALSE
             [] command = "load"  -> ~Loadable
             [] OTHER             -> format # "final"
     IN IF refused THEN pc' = "free" /\ result' = "refused"
        ELSE /\ pc' = IF command = "fresh" THEN "mark" ELSE "journal"
             /\ result' = "none"
  /\ UNCHANGED <<format, journal, material, authority, log, key, signed>>

\* fresh_init refuses whatever is not a fresh directory, then publishes the
\* marker, which nothing ever takes away again.
MarkFormat ==
  /\ pc = "mark"
  /\ IF \/ auth.st = "final" \/ rootder.st = "final" \/ place # "none"
        \/ audit # <<>> \/ format # "absent"
     THEN Finish("refused") /\ UNCHANGED format
     ELSE \/ format' = "final" /\ Continue(TRUE)
          \/ format' \in Residues(format) /\ Continue(FALSE)
  /\ UNCHANGED <<journal, material, authority, log, key, signed>>

RequireAbsent ==
  /\ pc = "absent"
  /\ IF key = "absent" THEN Continue(TRUE) ELSE Finish("refused")
  /\ UNCHANGED <<format, journal, material, authority, log, key, signed>>

MakeJournal ==
  /\ pc = "mkdir" /\ place' = "active" /\ Continue(TRUE)
  /\ UNCHANGED <<format, gens, gtail, material, authority, log, key, signed>>

\* The provider may refuse a name that is taken when the key is staged, or
\* only when it is finalized.
CreateStaged ==
  /\ pc = "create" /\ Continue(TRUE)
  /\ UNCHANGED <<format, journal, material, authority, log, key, signed>>

\* NCryptFinalizeKey never overwrites.  A failure says nothing of whose the
\* key is: the name may be taken, or free, or hold the key after all.
Finalize ==
  /\ pc = "finalize"
  /\ \/ key = "absent" /\ key' = "ours" /\ Goto("finalize_succeeded")
     \/ /\ key' \in {key} \cup (IF key = "absent" THEN {"ours"} ELSE {})
        /\ \E phase \in Failures : Goto(phase)
  /\ UNCHANGED <<format, journal, material, authority, log, signed>>

-----------------------------------------------------------------------------
(* The journal.                                                            *)

\* JournalWriter::append.  A reconciliation skips the phases already there.
Due(phase) ==
  goal = "reconcile" /\ phase \in Signing =>
    \E n \in 1..7 : Success[n] = LastPhase /\ Success[n + 1] = phase

AppendGeneration(phase) ==
  /\ pc = phase
  /\ IF Due(phase)
     THEN \E try \in Tries(gtail, phase) :
            /\ IF try.to.st = "final"
               THEN gens' = Append(gens, phase) /\ gtail' = NoSlot
               ELSE gens' = gens /\ gtail' = try.to
            /\ IF try.ok /\ phase \in Failures THEN Finish("refused") ELSE Continue(try.ok)
     ELSE /\ IF phase = "completed" /\ LastPhase # "completed"
             THEN Finish("refused") ELSE Continue(TRUE)
          /\ UNCHANGED <<gens, gtail>>
  /\ UNCHANGED <<format, place, material, authority, log, key, signed>>

LegalJournal(g) ==
  /\ g # <<>> /\ g[1] = "prepared"
  /\ \A n \in 1..Len(g) - 1 : <<g[n], g[n + 1]>> \in LegalSteps

\* validate_journal: an empty staging file is removed, a complete generation
\* gets its name, one that was cut short is an error; then the chain is read.
ValidateJournal ==
  /\ pc = "journal"
  /\ \/ /\ place \in {"active", "completed"} /\ gtail.st # "torn"
        /\ gtail' = NoSlot
        /\ gens' = IF gtail.st = "staged" THEN Append(gens, gtail.by) ELSE gens
        /\ \/ IF LegalJournal(gens') THEN Goto("judge") ELSE Finish("refused")
           \/ Finish("broken")
     \/ /\ place \notin {"active", "completed"} \/ gtail.st = "torn"
        /\ Finish("refused") /\ UNCHANGED <<gens, gtail>>
  /\ UNCHANGED <<format, place, material, authority, log, key, signed>>

\* reconcile: the journal documents success, and the key opens.
ReconcileAllowed == Has("finalize_succeeded") /\ key # "absent"

\* Phases that speak of success, of ambiguity or of an abandonment.
ForbidsAbandon ==
  {"finalize_succeeded", "finalize_unexpected", "key_validated", "root_validated",
   "authority_published", "completed", "abandon_verified", "abandoned"}

\* Variant: that the key is absent is not asked.
AbandonUnasked ==
  /\ \A phase \in ForbidsAbandon : ~Has(phase)
  /\ auth.st # "final" /\ rootder.st # "final" /\ audit = <<>> /\ place # "completed"

\* abandon: no such phase in the journal, nothing published, and the key absent.
AbandonAllowed ==
  /\ \A phase \in ForbidsAbandon : ~Has(phase)
  /\ auth.st # "final" /\ rootder.st # "final" /\ audit = <<>> /\ place # "completed"
  /\ key = "absent"

\* Variant: an active journal does not block the load.
LoadUnarchived == intent = SlotOf("final", rootder.by.tbs)

\* load_for_serve: the root is the one the signing intent reproduces; the scan
\* that follows refuses an active journal.
LoadAllowed == intent = SlotOf("final", rootder.by.tbs) /\ place # "active"

Judge ==
  /\ pc = "judge"
  /\ \/ goal = "reconcile" /\ ReconcileAllowed /\ Goto("intent")
     \/ goal = "abandon" /\ AbandonAllowed /\ Goto("abandon_verified")
     \/ goal = "load" /\ LoadAllowed /\ Finish("ok")
     \/ /\ Finish("refused")
        /\ CASE goal = "reconcile" -> ~ReconcileAllowed
             [] goal = "abandon"   -> ~AbandonAllowed
             [] OTHER              -> ~LoadAllowed
  /\ UNCHANGED <<format, journal, material, authority, log, key, signed>>

-----------------------------------------------------------------------------
(* The root and the authority.                                             *)

\* A complete staging file is taken as it is, after its bytes were validated.
Wanted(slot, fresh) == IF slot.st = "staged" THEN {slot.by} ELSE fresh

\* Variant: an empty staging file is as invalid as one that was cut short.
EmptyRefused ==
  \/ intent.st \in {"empty", "torn"}
  \/ intent.st = "absent" /\ goal = "reconcile" /\ LastPhase # "key_validated"

\* The signing intent: parameters are drawn at most until one set of them is
\* staged in full.
IntentRefused ==
  \/ intent.st = "torn"
  \/ intent.st = "absent" /\ goal = "reconcile" /\ LastPhase # "key_validated"

PublishIntent ==
  /\ pc = "intent"
  /\ \/ intent.st = "final" /\ Continue(TRUE) /\ UNCHANGED intent
     \/ intent.st # "final" /\ IntentRefused /\ Finish("refused") /\ UNCHANGED intent
     \/ /\ intent.st # "final" /\ ~IntentRefused
        /\ \E p \in Wanted(intent, Params) : \E try \in Tries(intent, p) :
             intent' = try.to /\ Continue(try.ok)
  /\ UNCHANGED <<format, journal, root, pub, authority, log, key, signed>>

\* Variant: reconciliation regenerates the root parameters.
AnyRoot == Roots

\* The roots that may be signed: the persisted bytes, and no others.
Signable == [tbs : {intent.by}, sig : Sigs]

\* ensure_journal_root: adopt what was staged, sign only when nothing was.
SignRoot ==
  /\ pc = "root"
  /\ \/ root.st = "final" /\ Continue(TRUE) /\ UNCHANGED <<root, signed>>
     \/ root.st = "torn" /\ Finish("refused") /\ UNCHANGED <<root, signed>>
     \/ /\ root.st \notin {"torn", "final"}
        /\ \E r \in Wanted(root, Signable) :
             /\ signed' = IF root.st = "staged" THEN signed ELSE signed \cup {r}
             /\ \E try \in Tries(root, r) : root' = try.to /\ Continue(try.ok)
  /\ UNCHANGED <<format, journal, intent, pub, authority, log, key>>

\* Variant: a reconciliation publishes a root it signed again.
PublishableAgain == IF goal = "reconcile" THEN Signable ELSE {root.by}

\* The root the publication record is about is the journal's.
Publishable == {root.by}

PublishPublication ==
  /\ pc = "publication"
  /\ \/ pub.st = "final" /\ Continue(TRUE) /\ UNCHANGED pub
     \/ pub.st = "torn" /\ Finish("refused") /\ UNCHANGED pub
     \/ /\ pub.st \notin {"torn", "final"}
        /\ \E r \in Wanted(pub, Publishable) : \E try \in Tries(pub, r) :
             pub' = try.to /\ Continue(try.ok)
  /\ UNCHANGED <<format, journal, intent, root, authority, log, key, signed>>

\* publish_init_transaction: root.der, then authority.json, each of them
\* exactly as the publication record has it, or an error.
PublishRootDer ==
  /\ pc = "root_der"
  /\ \/ rootder = SlotOf("final", pub.by) /\ Continue(TRUE) /\ UNCHANGED rootder
     \/ ~FitsExactly(rootder, pub.by) /\ Finish("refused") /\ UNCHANGED rootder
     \/ /\ Fits(rootder, pub.by)
        /\ \E try \in Tries(rootder, pub.by) : rootder' = try.to /\ Continue(try.ok)
  /\ UNCHANGED <<format, journal, material, auth, log, key, signed>>

PublishAuthority ==
  /\ pc = "authority"
  /\ \/ auth = SlotOf("final", pub.by) /\ Continue(TRUE) /\ UNCHANGED auth
     \/ ~FitsExactly(auth, pub.by) /\ Finish("refused") /\ UNCHANGED auth
     \/ /\ Fits(auth, pub.by)
        /\ \E try \in Tries(auth, pub.by) : auth' = try.to /\ Continue(try.ok)
  /\ UNCHANGED <<format, journal, material, rootder, log, key, signed>>

-----------------------------------------------------------------------------
(* The end of each command.                                                *)

Kind == IF goal = "abandon" THEN "init_abandoned" ELSE "authority_initialized"

\* Variant: a record is looked for only in a directory that was archived.
LoggedInArchive == place = "completed" /\ \E n \in DOMAIN audit : audit[n] = Kind

\* ensure_initialization_audit looks for its record first; abandon does not.
Logged == goal # "abandon" /\ \E n \in DOMAIN audit : audit[n] = Kind

LogOutcome ==
  /\ pc = "audit"
  /\ \/ Logged /\ Continue(TRUE) /\ UNCHANGED log
     \/ ~Logged /\ ~Fits(atail, Kind) /\ Finish("refused") /\ UNCHANGED log
     \/ /\ ~Logged /\ Fits(atail, Kind)
        /\ \E try \in Tries(atail, Kind) :
             /\ IF try.to.st = "final"
                THEN audit' = Append(audit, Kind) /\ atail' = NoSlot
                ELSE audit' = audit /\ atail' = try.to
             /\ Continue(try.ok)
  /\ UNCHANGED <<format, journal, material, authority, key, signed>>

\* archive_journal: a journal that is archived already is fine.
Archive ==
  /\ pc = "archive"
  /\ place' = IF goal = "abandon" THEN "abandoned" ELSE "completed"
  /\ Finish("ok")
  /\ UNCHANGED <<format, gens, gtail, material, authority, log, key, signed>>

Fresh == MarkFormat \/ RequireAbsent \/ MakeJournal \/ CreateStaged \/ Finalize
Resume == ValidateJournal \/ Judge
Establish ==
  PublishIntent \/ SignRoot \/ PublishPublication \/ PublishRootDer \/ PublishAuthority
Conclude == LogOutcome \/ Archive

Next ==
  \/ \E command \in Commands : Begin(command)
  \/ Fresh \/ Resume \/ Establish \/ Conclude
  \/ \E phase \in Phases : AppendGeneration(phase)
  \/ Stop \/ OtherPrograms

Spec == Init /\ [][Next]_vars

-----------------------------------------------------------------------------
(* Properties.                                                             *)

Places == {"mark", "absent", "mkdir", "create", "finalize", "intent", "root",
           "publication", "root_der", "authority", "audit", "archive"}

\* Every variable has its type (one invariant for the whole module).
TypeOK ==
  /\ format \in FileStates
  /\ place \in {"none", "active", "completed", "abandoned"}
  /\ gens \in Seq(Phases) /\ gtail \in SlotsFor(Phases)
  /\ intent \in SlotsFor(Params)
  /\ root \in Slot /\ pub \in Slot /\ rootder \in Slot /\ auth \in Slot
  /\ audit \in Seq(Kinds) /\ atail \in SlotsFor(Kinds)
  /\ key \in {"absent", "ours", "foreign"}
  /\ pc \in Places \cup Phases \cup {"free", "journal", "judge"}
  /\ goal \in Commands \cup {"none"}
  /\ result \in {"none", "ok", "refused", "broken"}
  /\ signed \subseteq Roots

\* What a generation of the journal vouches for.
Fact(phase) ==
  /\ phase \in Owned     => key = "ours"
  /\ phase \in Signing   => intent.st = "final"
  /\ phase \in Rooted    => root.st = "final" /\ pub.st = "final"
  /\ phase \in Published => rootder.st = "final" /\ auth.st = "final"
  /\ phase \in Abandoned => key # "ours"

\* Where the command is tells what is on disk: what the next generation will
\* vouch for, and what a step takes from the file before its own.  (The
\* strengthening that makes the safety theorems inductive.)
Vouched ==
  \A phase \in Phases : pc = phase \/ gtail.by = phase => Fact(phase)

Establishing ==
  /\ pc = "intent" => Fact("key_validated")
  /\ pc \in {"root", "publication"} => Fact("root_signing_prepared")
  /\ pc = "publication" => root.st = "final"
  /\ pc \in {"root_der", "authority"} => Fact("root_validated")
  /\ pc = "authority" => rootder = SlotOf("final", pub.by)

Starting ==
  /\ place = "none" => /\ gens = <<>> /\ gtail = NoSlot
                       /\ pc \in {"free", "mark", "absent", "mkdir", "journal"}
  /\ pc \in {"absent", "mkdir"} => place = "none"
  /\ pc \in {"absent", "mkdir", "prepared", "create", "finalize_started", "finalize"} =>
       gtail = NoSlot /\ \A phase \in Abandoned : ~Has(phase)

Placed == Vouched /\ Establishing /\ Starting

\* A generation of the journal is only there over facts that are on disk and
\* stay true, so that a command that resumes from it may rely on them; and one
\* operation never has both a key of ours and an abandonment.
JournalTellsTruth == \A phase \in Phases : Has(phase) => Fact(phase)

\* The key signs one certificate's bytes at most, those of the persisted
\* signing intent, however often initialization breaks off and is reconciled
\* ("Reconciliation never regenerates root parameters").
OneTbsSigned ==
  \A r \in signed : intent = SlotOf("final", r.tbs)

\* What is published of the root at its four places is one root, which the key
\* signed: each file was there before the next, with the same root.
OneRootPublished ==
  /\ root.st \in {"staged", "final"} => root.by \in signed
  /\ pub.st \in {"staged", "final"} => pub.by = root.by /\ root.st = "final"
  /\ rootder.st \in {"staged", "final"} => rootder.by = pub.by /\ pub.st = "final"
  /\ auth.st \in {"staged", "final"} => auth.by = rootder.by /\ rootder.st = "final"

\* An operation is archived when its outcome is on record, once: "Exactly one
\* initialization audit is verified before idempotent archival".
LoggedOnce ==
  /\ audit # <<>> => Has("completed") \/ Has("abandoned")
  /\ place = "completed" => audit = <<"authority_initialized">>
  /\ place = "abandoned" => audit = <<"init_abandoned">>

\* What loads for serving is initialized to the end: its journal is archived
\* as completed, its initialization is logged once, and all that is published
\* names one root, signed by the key that the journal documents as ours.
LoadedIsInitialized ==
  goal = "load" /\ result = "ok" =>
    /\ place = "completed" /\ gens = Success
    /\ audit = <<"authority_initialized">>
    /\ root = auth /\ pub = auth /\ rootder = auth
    /\ intent = SlotOf("final", auth.by.tbs)
    /\ key = "ours"

\* What a reconciliation may be refused for, its own errors apart.
Torn == \E x \in {gtail, intent, root, pub, rootder, auth, atail} : x.st = "torn"
Undocumented ==
  \/ format # "final" \/ place \notin {"active", "completed"}
  \/ ~Has("finalize_succeeded")
Unprepared == LastPhase = "finalize_succeeded" /\ intent.st # "final"

\* Reconciliation finishes what any crash left, however often it broke off
\* itself and also when there is nothing left to do, unless success is not
\* documented, a file was cut short, or the journal ends with the success.
RefusedForEvidence ==
  goal = "reconcile" /\ result = "refused" => Undocumented \/ Torn \/ Unprepared

-----------------------------------------------------------------------------
(* The refinement of RootCeremony.                                         *)

\* The ceremony ends with the generation of the journal that says so.
Outcome ==
  IF Has("completed") THEN "authority_initialized"
  ELSE IF Has("abandoned") THEN "init_abandoned" ELSE "open"

Ceremony == INSTANCE RootCeremony WITH
  drawn     <- IF intent.st = "final" THEN intent.by ELSE Nobody,
  certs     <- signed,
  published <- IF auth.st = "final" THEN auth.by ELSE Nobody,
  outcome   <- Outcome,
  record    <- audit,
  served    <- IF goal = "load" /\ result = "ok" THEN auth.by ELSE Nobody

\* However it breaks off and is taken up again, initialization is one ceremony:
\* nothing is drawn, signed or published after its end, it is abandoned only
\* before a signing intent, its end is logged once, and what loads is its root.
ImplementsCeremony == Ceremony!RSpec
=============================================================================
