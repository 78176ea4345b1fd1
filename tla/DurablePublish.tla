--------------------------- MODULE DurablePublish ---------------------------
(***************************************************************************)
(* How one durable file is written: by the authority (state.rs:            *)
(* durable_bytes, finalize_pending_publication; authority.rs:              *)
(* publish_exact_or_validate) and, by the same steps, by its client        *)
(* (azihsm-ca-client, files.rs: publish).  The bytes are staged under      *)
(* `.name.pending', flushed, read back, renamed, and the directory is      *)
(* flushed.  Every step may fail or be the process's last, and a later     *)
(* attempt, by the same transaction or by another, finds what it left.     *)
(* Attempts do not overlap: both programs hold a lock around them.         *)
(***************************************************************************)
EXTENDS Slots

ASSUME OwnerAssumption == Nobody \notin Ids

\* once: durable_bytes; exact: publish_exact_or_validate and the client's
\* publish; finish: finalize_pending_publication, by the scan.
Kinds == {"once", "exact", "finish"}

VARIABLES
  stage,     \* the staging file
  name,      \* whose bytes the final name holds, or Nobody
  synced,    \* the bytes were flushed since they were written
  pc,        \* where the attempt under way is
  who, kind, \* whose attempt it is, and of which kind
  told       \* the transactions that were told their bytes are published

vars == <<stage, name, synced, pc, who, kind, told>>

Init ==
  /\ stage = NoSlot /\ name = Nobody /\ synced = FALSE
  /\ pc = "idle" /\ who = Nobody /\ kind = "none"
  /\ told = {}

-----------------------------------------------------------------------------

Idle == pc' = "idle" /\ who' = Nobody /\ kind' = "none"
Step(from, to) == pc = from /\ pc' = to /\ UNCHANGED <<who, kind>>

\* The attempt fails, at a check or at an I/O error, or the process dies; what
\* it had done stays.
Stop ==
  /\ pc # "idle" /\ Idle
  /\ UNCHANGED <<stage, name, synced, told>>

\* A write that fails or dies half way.
CutShort ==
  /\ pc = "write" /\ Idle
  /\ stage' = SlotOf("torn", who) /\ synced' = FALSE
  /\ UNCHANGED <<name, told>>

Succeed ==
  /\ told' = told \cup {who} /\ Idle
  /\ UNCHANGED <<stage, name, synced>>

Begin(w, k) ==
  /\ pc = "idle"
  /\ k = "finish" => name = Nobody /\ stage = SlotOf("staged", w)
  /\ pc' = IF k = "finish" THEN "rename" ELSE "check"
  /\ who' = w /\ kind' = k
  /\ UNCHANGED <<stage, name, synced, told>>

\* No file has the final name.
Free == name = Nobody

\* publish_exact_or_validate takes a final file with its bytes for success;
\* any other final file is an error (Stop).
AcceptFinal ==
  /\ pc = "check" /\ kind = "exact" /\ name = who
  /\ Succeed

Check ==
  /\ Step("check", "stage") /\ Free
  /\ UNCHANGED <<stage, name, synced, told>>

\* Variant: any staging file but a complete one is replaced.
ReplaceableAll == stage.st # "staged"

Replaceable == stage.st = "empty"

\* An empty staging file is removed, one with these bytes is used as it is; a
\* staging file with other bytes is an error (Stop).
TakeStage ==
  /\ \/ /\ stage.st = "absent" \/ Replaceable
        /\ Step("stage", "create") /\ stage' = NoSlot
     \/ /\ stage = SlotOf("staged", who)
        /\ Step("stage", "reopen") /\ UNCHANGED stage
  /\ UNCHANGED <<name, synced, told>>

Create ==
  /\ Step("create", "write")
  /\ stage' = SlotOf("empty", who) /\ synced' = FALSE
  /\ UNCHANGED <<name, told>>

Write ==
  /\ Step("write", "sync")
  /\ stage' = SlotOf("staged", who)
  /\ UNCHANGED <<name, synced, told>>

Sync ==
  /\ Step("sync", "reopen") /\ synced' = TRUE
  /\ UNCHANGED <<stage, name, told>>

Reopen ==
  /\ Step("reopen", "rename") /\ stage = SlotOf("staged", who)
  /\ UNCHANGED <<stage, name, synced, told>>

\* Variant: the staging file is copied.
RenameCopies ==
  /\ Step("rename", "verify")
  /\ name' = stage.by
  /\ UNCHANGED <<stage, synced, told>>

Rename ==
  /\ Step("rename", "verify")
  /\ name' = stage.by /\ stage' = NoSlot
  /\ UNCHANGED <<synced, told>>

\* durable_bytes reads the file back; the scan only looks at what it is.
Verify ==
  /\ Step("verify", "flush") /\ name = who
  /\ UNCHANGED <<stage, name, synced, told>>

\* Some file systems refuse to flush a directory: that is no error.
Flush == pc = "flush" /\ Succeed

Next ==
  \/ \E w \in Ids, k \in Kinds : Begin(w, k)
  \/ AcceptFinal \/ Check \/ TakeStage \/ Create \/ Write \/ Sync \/ Reopen
  \/ Rename \/ Verify \/ Flush
  \/ Stop \/ CutShort

Spec == Init /\ [][Next]_vars

-----------------------------------------------------------------------------
(* Properties.                                                             *)

\* Every variable has its type.
TypeOK ==
  /\ stage \in Slot /\ stage.st # "final" /\ name \in Owners
  /\ synced \in BOOLEAN
  /\ pc \in {"idle", "check", "stage", "create", "write", "sync", "reopen",
             "rename", "verify", "flush"}
  /\ who \in Owners /\ kind \in Kinds \cup {"none"}
  /\ told \subseteq Ids

\* A file that has its final name leaves no staging file behind, whatever
\* attempts failed or died before it was published and after: a scan refuses a
\* directory with staging files (full_scan), so one left over would block
\* readiness for good.
NothingLeftStaged == name # Nobody => stage = NoSlot

\* What each attempt relies on.
Placed ==
  /\ pc # "idle" => who \in Ids
  /\ pc \in {"stage", "create", "write", "sync", "reopen", "rename"} => name = Nobody
  /\ pc \in {"rename", "sync"} => stage = SlotOf("staged", who)
  /\ pc = "create" => stage = NoSlot
  /\ pc = "write" => stage = SlotOf("empty", who)
  /\ pc \in {"verify", "flush"} => name = who
  /\ told \subseteq {name}

\* The file as a user sees it.
File == IF name # Nobody THEN SlotOf("final", name) ELSE stage

Abstract == INSTANCE Publication WITH slot <- File

\* The steps of durable_bytes are a publication: nothing published is replaced,
\* a staging file with other bytes is never touched, and success is reported
\* only for bytes that have the final name and will keep it.  That is so under the
\* locks of the callers: the attempts of the model do not overlap.
ImplementsPublication == Abstract!PSpec
=============================================================================
