----------------------------- MODULE CaIssuance -----------------------------
(***************************************************************************)
(* The issuance transaction of the certificate authority, with the         *)
(* directory it keeps: issue(), the startup and runtime scan that finishes *)
(* what a crash interrupted, and the offline quarantine of what it cannot  *)
(* finish (crates/azihsm-ca/src/authority.rs, state.rs).                   *)
(*                                                                         *)
(* Exactly one operation runs at a time.  While the server runs, its       *)
(* enrollment jobs and its readiness watcher take the issuance mutex; the  *)
(* offline commands need the file lock the server holds.  Every durable    *)
(* file is written by durable_bytes, whose steps DurablePublish.tla models *)
(* one by one; here a publication is one step that succeeds, or fails and  *)
(* leaves behind one of the states a fault or a crash in it can leave.     *)
(* The contents of a file are the issuance it belongs to: all bytes are    *)
(* functions of the intent, except the audit record, which also holds its  *)
(* place in the chain.                                                     *)
(***************************************************************************)
EXTENDS Slots, Integers, Sequences, FiniteSets

CONSTANTS
  Serials,      \* certificate serial numbers, ordered as their file names are
  Keys,         \* idempotency keys
  Csrs,         \* certificate signing requests
  Quars,        \* destinations of quarantines
  Permits,      \* jobs that may wait for the issuance mutex
  MaxFaults     \* how many I/O faults a behaviour may have

ASSUME IdsAssumption == Ids \subseteq Nat /\ Serials \subseteq Nat /\ Quars \subseteq Nat
ASSUME NobodyAssumption ==
  /\ Nobody \notin Ids /\ Nobody \notin Serials
  /\ Nobody \notin [key : Keys, csr : Csrs]
  /\ Nobody \notin [csr : Csrs, id : Ids]
ASSUME FaultAssumption == MaxFaults \in Nat

-----------------------------------------------------------------------------
(* The directory.  The states of a file are those of Slots.  Issuances are  *)
(* numbered in the order of their names, which is the directory's order;    *)
(* Nobody is also no request and no serial.                                 *)

\* The files of one issuance directory, in the order issue() writes them.
Artifacts == {"intent", "cert", "record", "commit", "complete", "marker"}

Requests == [key : Keys, csr : Csrs]

\* What the intent of an issuance says: what it is for, and its serial.
Metas == [key : Keys, csr : Csrs, serial : Serials]

\* Audit records: a certificate issued, or an issuance quarantined.
Events == [kind : {"issued"}, of : Ids] \cup [kind : {"quarantined"}, of : Quars]
Tails  == {x \in [st : FileStates, by : Events \cup {Nobody}] :
             x.st # "final" /\ (x.st = "staged" => x.by \in Events)}

Issued(i)      == [kind |-> "issued", of |-> i]
Quarantined(q) == [kind |-> "quarantined", of |-> q]

\* One entry of abandoned-issuances.  `pend' is the pending reservation that
\* the command decided to archive: memory of the command, not of the disk.
Entries ==
  [id : Ids, serial : Serials \cup {Nobody}, pend : Serials \cup {Nobody},
   prepared : BOOLEAN, original : BOOLEAN, copied : BOOLEAN, done : BOOLEAN]

\* Nobody is not an entry either: it stands for one that is not there.
ASSUME EntryAssumption == Nobody \notin Entries

VARIABLES
  dir,        \* [Ids -> {"none", "active", "moved"}]: issuances/<id>
  meta,       \* [Ids -> what the intent of the issuance says]
  files,      \* [Ids -> [Artifacts -> FileStates]]
  resv,       \* [Serials -> Slot]: serial-reservations/<serial>.json
  idem,       \* [Keys -> Slot]: idempotency/<key hash>.json
  audit,      \* the audit records, by sequence number
  tail,       \* the staging file of the next audit record
  quars,      \* [Quars -> Entries \cup {Nobody}]: abandoned-issuances/...
  mode,       \* who holds the file lock: nobody, the server, a command
  ready,      \* AppState.ready /\ ~AppState.readiness_pending
  alert,      \* the watcher woke up and wants the mutex for a scan
  waiting,    \* [Permits -> the admitted request that waits for the mutex]
  pc,         \* where the operation that holds the mutex is
  goal,       \* what it is for
  cur,        \* the issuance it is at
  ask,        \* the request it answers
  target,     \* the issuance a command is about
  entry,      \* the entry of abandoned-issuances a command writes
  answers,    \* the certificates handed out
  signed,     \* the issuances whose certificate the authority key signed
  faults      \* I/O faults so far

disk == <<dir, meta, files, resv, idem, audit, tail, quars>>
run  == <<mode, ready, alert, waiting, pc, goal, cur, ask, target, entry>>
hist == <<answers, signed, faults>>
vars == <<disk, run, hist>>

Blank == [f \in Artifacts |-> "absent"]

Init ==
  /\ dir = [i \in Ids |-> "none"]
  /\ meta = [i \in Ids |-> Nobody]
  /\ files = [i \in Ids |-> Blank]
  /\ resv = [s \in Serials |-> NoSlot]
  /\ idem = [k \in Keys |-> NoSlot]
  /\ audit = <<>>
  /\ tail = NoSlot
  /\ quars = [q \in Quars |-> Nobody]
  /\ mode = "down" /\ ready = FALSE /\ alert = FALSE
  /\ waiting = [p \in Permits |-> Nobody]
  /\ pc = "free" /\ goal = "none" /\ cur = Nobody /\ ask = Nobody
  /\ target = Nobody /\ entry = Nobody
  /\ answers = {} /\ signed = {} /\ faults = 0

-----------------------------------------------------------------------------
(* Faults, and how an operation goes on or ends.                           *)

Fault == faults < MaxFaults /\ faults' = faults + 1
NoFault == UNCHANGED faults

Goto(next) ==
  /\ pc' = next
  /\ UNCHANGED <<mode, ready, alert, waiting, goal, cur, ask, target, entry>>

\* The operation is over: a job or a scan releases the mutex, a command ends
\* and releases the file lock.
Done ==
  /\ pc' = "free" /\ goal' = "none" /\ cur' = Nobody /\ ask' = Nobody
  /\ target' = Nobody /\ entry' = Nobody
  /\ mode' = IF mode = "offline" THEN "down" ELSE mode
  /\ UNCHANGED <<ready, alert, waiting>>

\* The Err path.  A job is answered 503 and its server lives on; a failed scan
\* leaves readiness false; quarantine goes on without the scan it asked for.
Fails ==
  IF goal = "scan" /\ target # Nobody
  THEN /\ pc' = "qcheck" /\ goal' = "quarantine" /\ cur' = Nobody
       /\ UNCHANGED <<mode, ready, alert, waiting, ask, target, entry>>
  ELSE Done

Active == {i \in Ids : dir[i] = "active"}
First(S) == CHOOSE i \in S : \A j \in S : i <= j

\* Variant: only the last audit record is looked at.
LoggedLast(e) == audit # <<>> /\ audit[Len(audit)] = e

Logged(e) == \E n \in DOMAIN audit : audit[n] = e

-----------------------------------------------------------------------------
(* The server: start, readiness watcher, admission, crash.                 *)

\* serve: the authority loads, nothing is scanned yet, and the watcher's first
\* round is a scan.
Start ==
  /\ mode = "down"
  /\ mode' = "serving" /\ ready' = FALSE /\ alert' = TRUE
  /\ UNCHANGED <<disk, waiting, pc, goal, cur, ask, target, entry, hist>>

\* Variant: the watcher leaves readiness alone until its scan has a result.
WakeReady ==
  /\ mode = "serving" /\ ~alert /\ goal # "scan"
  /\ alert' = TRUE
  /\ UNCHANGED <<disk, mode, ready, waiting, pc, goal, cur, ask, target, entry, hist>>

\* The watcher wakes, because state changed or a minute has passed: readiness
\* is gone before it asks for the mutex.
Wake ==
  /\ mode = "serving" /\ ~alert /\ goal # "scan"
  /\ ready' = FALSE /\ alert' = TRUE
  /\ UNCHANGED <<disk, mode, waiting, pc, goal, cur, ask, target, entry, hist>>

BeginScan ==
  /\ mode = "serving" /\ alert /\ pc = "free"
  /\ alert' = FALSE /\ pc' = "pendings" /\ goal' = "scan"
  /\ UNCHANGED <<disk, mode, ready, waiting, cur, ask, target, entry, hist>>

\* The bound on requests: one whose key has no mapping yet needs room for one
\* more issuance than the jobs already admitted may create.
MayCreate(r) == r # Nobody /\ idem[r.key].st # "final"
Room(r) ==
  MayCreate(r) =>
    Cardinality({i \in Ids : dir[i] = "none"}) >
      Cardinality({p \in Permits : MayCreate(waiting[p])})
        + (IF pc = "lookup" /\ MayCreate(ask) THEN 1 ELSE 0)

\* enroll: readiness is looked at here and never again; the job then waits for
\* the mutex.  A caller whose deadline passes leaves its job behind, so the
\* job's fate does not depend on the caller.
Admit(p, r) ==
  /\ mode = "serving" /\ ready /\ waiting[p] = Nobody /\ Room(r)
  /\ waiting' = [waiting EXCEPT ![p] = r]
  /\ UNCHANGED <<disk, mode, ready, alert, pc, goal, cur, ask, target, entry, hist>>

Acquire(p) ==
  /\ pc = "free" /\ waiting[p] # Nobody
  /\ pc' = "lookup" /\ goal' = "issue" /\ ask' = waiting[p]
  /\ waiting' = [waiting EXCEPT ![p] = Nobody]
  /\ UNCHANGED <<disk, mode, ready, alert, cur, target, entry, hist>>

\* The process dies, at any point of any operation; the disk stays as it is.
Crash ==
  /\ mode # "down"
  /\ mode' = "down" /\ ready' = FALSE /\ alert' = FALSE
  /\ waiting' = [p \in Permits |-> Nobody]
  /\ pc' = "free" /\ goal' = "none" /\ cur' = Nobody /\ ask' = Nobody
  /\ target' = Nobody /\ entry' = Nobody
  /\ UNCHANGED <<disk, hist>>

-----------------------------------------------------------------------------
(* issue(): replay, recovery of a committed issuance, or a new one.         *)

Answer(i, status) ==
  answers' = answers \cup
    {[key |-> ask.key, csr |-> ask.csr, id |-> i, status |-> status]}

\* Variant: the key alone decides.
AnyRequest(i) == TRUE

\* The mapping and the intent name the hash of the request they are for.
SameRequest(i) == meta[i].csr = ask.csr

\* The key has its mapping: the request it is bound to gets the certificate,
\* any other is a conflict (409).  Nothing is finished on this path.
Replay ==
  /\ pc = "lookup" /\ idem[ask.key].st = "final"
  /\ LET i == idem[ask.key].by IN
       IF SameRequest(i) THEN Answer(i, 200) ELSE UNCHANGED answers
  /\ Done
  /\ UNCHANGED <<disk, signed, faults>>

\* Variant: only a committed issuance is found again.
MatchesCommitted(k) ==
  {i \in Active : files[i].commit = "final" /\ meta[i].key = k}

\* find_issuance_by_idempotency sees an issuance only by its final intent.
Matches(k) ==
  {i \in Active : files[i].intent = "final" /\ meta[i].key = k}

Unmapped == pc = "lookup" /\ idem[ask.key].st # "final"

\* The first match decides: committed and for this request, it is finished and
\* replayed; otherwise the request is refused and nothing is signed again.
Rejoin ==
  /\ Unmapped /\ Matches(ask.key) # {}
  /\ LET i == First(Matches(ask.key)) IN
       IF SameRequest(i) /\ files[i].commit = "final"
       THEN /\ pc' = "complete" /\ goal' = "replay" /\ cur' = i
            /\ UNCHANGED <<mode, ready, alert, waiting, ask, target, entry>>
       ELSE Done
  /\ UNCHANGED <<disk, hist>>

\* unique_serial: not reserved, not in a final intent here or in quarantine,
\* and not recorded by a quarantine.  A serial that only a staging file holds
\* is not seen.
SerialFree(s) ==
  /\ resv[s].st # "final"
  /\ \A i \in Ids : files[i].intent = "final" => meta[i].serial # s
  /\ \A q \in Quars : quars[q] # Nobody =>
       ~(quars[q].prepared /\ quars[q].serial = s)

Create ==
  /\ Unmapped /\ Matches(ask.key) = {}
  /\ \E i \in Ids, s \in Serials :
       /\ dir[i] = "none" /\ SerialFree(s)
       /\ dir' = [dir EXCEPT ![i] = "active"]
       /\ meta' = [meta EXCEPT ![i] =
                     [key |-> ask.key, csr |-> ask.csr, serial |-> s]]
       /\ cur' = i
  /\ pc' = "intent"
  /\ UNCHANGED <<files, resv, idem, audit, tail, quars, mode, ready, alert,
                 waiting, goal, ask, target, entry, hist>>

\* Variants: the certificate is signed before its serial is reserved; the
\* commit is published before the record it is about.
AfterUnreserved ==
  [intent |-> "sign", cert |-> "record", record |-> "commit",
   commit |-> "complete", complete |-> "mapping", marker |-> "next"]
AfterSwapped ==
  [intent |-> "reserve", cert |-> "commit", record |-> "complete",
   commit |-> "record", complete |-> "mapping", marker |-> "next"]

\* What follows the publication of each file.  "complete" and "marker" belong
\* to recover_issuance_commit, which issue() runs as its last part.
After ==
  [intent |-> "reserve", cert |-> "record", record |-> "commit",
   commit |-> "complete", complete |-> "mapping", marker |-> "next"]

Publish(f) ==
  /\ pc = f
  /\ \/ /\ files[cur][f] # "torn" /\ NoFault
        /\ files' = [files EXCEPT ![cur][f] = "final"]
        /\ Goto(After[f])
     \/ /\ files[cur][f] = "torn" /\ NoFault
        /\ Fails /\ UNCHANGED files
     \/ /\ files[cur][f] \notin {"torn", "final"} /\ Fault
        /\ \E st \in Residues(files[cur][f]) :
             files' = [files EXCEPT ![cur][f] = st]
        /\ Fails
  /\ UNCHANGED <<dir, meta, resv, idem, audit, tail, quars, answers, signed>>

Reserve ==
  LET s == meta[cur].serial IN
  /\ pc = "reserve"
  /\ \/ /\ NoFault
        /\ IF Fits(resv[s], cur)
           THEN resv' = [resv EXCEPT ![s] = SlotOf("final", cur)] /\ Goto("sign")
           ELSE UNCHANGED resv /\ Fails
     \/ /\ Fits(resv[s], cur) /\ Fault
        /\ \E st \in Residues(resv[s].st) :
             resv' = [resv EXCEPT ![s] = SlotOf(st, cur)]
        /\ Fails
  /\ UNCHANGED <<dir, meta, files, idem, audit, tail, quars, answers, signed>>

\* The key signs; the checks of the result may still refuse it.
Sign ==
  /\ pc = "sign"
  /\ signed' = signed \cup {cur}
  /\ \/ NoFault /\ Goto("cert")
     \/ Fault /\ Fails
  /\ UNCHANGED <<disk, answers>>

PublishMapping ==
  LET k == meta[cur].key IN
  /\ pc = "mapping"
  /\ \/ /\ FitsExactly(idem[k], cur) /\ NoFault
        /\ idem' = [idem EXCEPT ![k] = SlotOf("final", cur)]
        /\ Goto("audit")
     \/ /\ ~FitsExactly(idem[k], cur) /\ NoFault
        /\ Fails /\ UNCHANGED idem
     \/ /\ Fits(idem[k], cur) /\ Fault
        /\ \E st \in Residues(idem[k].st) :
             idem' = [idem EXCEPT ![k] = SlotOf(st, cur)]
        /\ Fails
  /\ UNCHANGED <<dir, meta, files, resv, audit, tail, quars, answers, signed>>

\* append_audit: the record takes the next place of the chain, by way of the
\* staging file of that place, which another record may already occupy.
Append1(e) ==
  \/ /\ Fits(tail, e) /\ NoFault
     /\ audit' = Append(audit, e) /\ tail' = NoSlot
  \/ /\ ~Fits(tail, e) /\ NoFault /\ UNCHANGED <<audit, tail>>
  \/ /\ Fits(tail, e) /\ Fault
     /\ \E st \in Residues(tail.st) :
          IF st = "final" THEN audit' = Append(audit, e) /\ tail' = NoSlot
                          ELSE audit' = audit /\ tail' = SlotOf(st, e)

\* ensure_issuance_audit: one record per issuance, whoever finishes it.
LogIssuance ==
  /\ pc = "audit"
  /\ \/ /\ Logged(Issued(cur)) /\ NoFault
        /\ Goto("marker") /\ UNCHANGED <<audit, tail>>
     \/ /\ ~Logged(Issued(cur)) /\ Append1(Issued(cur))
        /\ IF faults' = faults /\ audit' # audit THEN Goto("marker") ELSE Fails
  /\ UNCHANGED <<dir, meta, files, resv, idem, quars, answers, signed>>

\* The transaction is finished: 201 to the request that started it, 200 to the
\* one that found it committed.
Reply ==
  /\ pc = "next" /\ goal \in {"issue", "replay"}
  /\ IF goal = "issue" THEN Answer(cur, 201) ELSE Answer(idem[ask.key].by, 200)
  /\ Done
  /\ UNCHANGED <<disk, signed, faults>>

-----------------------------------------------------------------------------
(* full_scan: finish what is finished enough, refuse the rest.             *)

\* recover_pending_precommit_publications gives staged files their names, one
\* after the other.  First the intents: one that cannot be read ends the scan.
StagedIntents == {i \in Active : files[i].intent \in {"torn", "staged"}}

NameIntent ==
  /\ pc = "pendings" /\ StagedIntents # {}
  /\ LET i == First(StagedIntents) IN
       \/ /\ files[i].intent = "torn" /\ NoFault /\ Fails /\ UNCHANGED files
       \/ /\ files[i].intent = "staged" /\ NoFault /\ Goto("pendings")
          /\ files' = [files EXCEPT ![i].intent = "final"]
       \/ /\ files[i].intent = "staged" /\ Fault /\ Fails
          /\ \E st \in Residues("staged") : files' = [files EXCEPT ![i].intent = st]
  /\ UNCHANGED <<dir, meta, resv, idem, audit, tail, quars, answers, signed>>

\* Variant: a reservation that has its final name counts as staged.
StagedOrFinal == {s \in Serials : resv[s].st # "absent"}

\* Then the reservations: one that is not of a known intent ends the scan.
Staged == {s \in Serials : resv[s].st \in Pending}

BoundTo(i, s) ==
  resv[s] = SlotOf("staged", i) /\ files[i].intent = "final" /\ meta[i].serial = s

NameReservation ==
  /\ pc = "pendings" /\ StagedIntents = {} /\ Staged # {}
  /\ LET s == First(Staged) IN
       \/ /\ \A i \in Active : ~BoundTo(i, s)
          /\ NoFault /\ Fails /\ UNCHANGED resv
       \/ \E i \in Active :
            /\ BoundTo(i, s)
            /\ \/ /\ NoFault /\ Goto("pendings")
                  /\ resv' = [resv EXCEPT ![s] = SlotOf("final", i)]
               \/ /\ Fault /\ Fails
                  /\ \E st \in Residues("staged") : resv' = [resv EXCEPT ![s] = SlotOf(st, i)]
  /\ UNCHANGED <<dir, meta, files, idem, audit, tail, quars, answers, signed>>

\* Then nothing may be staged in an issuance directory.
StillStaged == \E i \in Active, f \in Artifacts : files[i][f] \in Pending

EndPendings ==
  /\ pc = "pendings" /\ StagedIntents = {} /\ Staged = {}
  /\ \/ NoFault /\ (IF StillStaged THEN Fails ELSE Goto("next"))
     \/ Fault /\ Fails
  /\ UNCHANGED <<disk, answers, signed>>

ScanPendings == NameIntent \/ NameReservation \/ EndPendings

\* validate_audit_chain
AuditValid ==
  \A m, n \in DOMAIN audit : audit[m] = audit[n] /\ audit[m].kind = "issued" => m = n

\* Variant: the scan looks at one issuance only.
UnvisitedFirst == IF cur = Nobody THEN Active ELSE {}

\* The scan validates the audit chain and visits the issuances in turn; each must
\* be committed, and is then finished by recover_issuance_commit.
Unvisited == {i \in Active : cur = Nobody \/ i > cur}

ScanNext ==
  /\ pc = "next" /\ goal = "scan"
  /\ IF cur = Nobody /\ ~AuditValid THEN Fails
     ELSE IF Unvisited = {} THEN Goto("validate")
     ELSE IF files[First(Unvisited)].commit = "final"
          THEN /\ pc' = "complete" /\ cur' = First(Unvisited)
               /\ UNCHANGED <<mode, ready, alert, waiting, goal, ask, target, entry>>
          ELSE Fails
  /\ UNCHANGED <<disk, hist>>

\* Variant: the quarantine must have archived the reservation as a pending one.
QuarantineHoldsPending(i, s) ==
  \E q \in Quars : /\ quars[q] # Nobody /\ quars[q].prepared /\ quars[q].done
                  /\ quars[q].id = i /\ quars[q].pend = s

\* The first finished quarantine of this issuance and serial must hold a copy
\* of the reservation.
QuarantineHolds(i, s) ==
  LET match == {q \in Quars : /\ quars[q] # Nobody
                              /\ quars[q].prepared /\ quars[q].done
                              /\ quars[q].id = i /\ quars[q].serial = s}
  IN match # {} /\ quars[First(match)].copied

ReservationsValid ==
  /\ \A s \in Serials : resv[s].st = "final" =>
       LET i == resv[s].by IN
         IF i \in Active /\ files[i].intent = "final"
         THEN meta[i].serial = s ELSE QuarantineHolds(i, s)
  /\ \A s, z \in Serials :
       resv[s].st = "final" /\ resv[z].st = "final" /\ resv[s].by = resv[z].by => s = z
  /\ \A i \in Active : \E s \in Serials : resv[s] = SlotOf("final", i)

IndexValid ==
  \A k \in Keys : idem[k].st = "final" =>
    LET i == idem[k].by IN
      i \in Active /\ files[i].commit = "final" /\ meta[i].key = k

QuarantinesWhole ==
  \A q \in Quars : quars[q] # Nobody =>
    quars[q].original /\ quars[q].prepared /\ quars[q].done

\* The end of the scan: readiness for the server, the next step for a command.
ScanValidate ==
  /\ pc = "validate"
  /\ IF ReservationsValid /\ IndexValid /\ AuditValid /\ QuarantinesWhole
     THEN IF mode = "serving"
          THEN /\ ready' = TRUE /\ pc' = "free" /\ goal' = "none" /\ cur' = Nobody
               /\ UNCHANGED <<mode, alert, waiting, ask, target, entry>>
          ELSE Fails    \* a command goes on, or is done, as it would have anyway
     ELSE Fails
  /\ UNCHANGED <<disk, hist>>

-----------------------------------------------------------------------------
(* The offline commands: inspect (no target) and quarantine-issuance.      *)

Free(q) == quars[q] = Nobody

\* The bound on quarantines: a command starts while an entry is left.
Command(i) ==
  /\ mode = "down" /\ (i # Nobody => \E q \in Quars : Free(q))
  /\ mode' = "offline" /\ pc' = "pendings" /\ goal' = "scan" /\ target' = i
  /\ UNCHANGED <<disk, ready, alert, waiting, cur, ask, entry, hist>>

\* What is known of the target: a source directory, an intent that can be
\* read, its final reservation, and the staged reservation that is its own by
\* content or by the serial of the intent, or that is the only one there is.
HasSource == target \in Active
IntentKnown == HasSource /\ files[target].intent \in {"staged", "final"}
Reserved == {s \in Serials : resv[s] = SlotOf("final", target)}

OwnStaged ==
  LET own == {s \in Staged : \/ resv[s] = SlotOf("staged", target)
                             \/ IntentKnown /\ meta[target].serial = s}
  IN IF own = {} /\ ~IntentKnown /\ Reserved = {} /\ HasSource
        /\ Cardinality(Staged) = 1
     THEN Staged ELSE own

\* Variant: whether the issuance is complete and mapped is not asked.
RefusedUnclear ==
  \/ Cardinality(Reserved) > 1 \/ Cardinality(OwnStaged) > 1
  \/ ~IntentKnown /\ Reserved = {} /\ OwnStaged = {} /\ ~HasSource

Refused ==
  \/ HasSource /\ files[target].complete = "final"
  \/ \E k \in Keys : idem[k] = SlotOf("final", target)
  \/ Cardinality(Reserved) > 1 \/ Cardinality(OwnStaged) > 1
  \/ IntentKnown /\ \E s \in Reserved : s # meta[target].serial
  \/ ~IntentKnown /\ Reserved = {} /\ OwnStaged = {} /\ ~HasSource
  \/ /\ HasSource /\ ~IntentKnown
     /\ \E f \in Artifacts : files[target][f] = "final"

Pick(S) == IF S = {} THEN Nobody ELSE First(S)

QuarantineSerial ==
  IF IntentKnown THEN meta[target].serial ELSE Pick(Reserved \cup OwnStaged)

\* Checks, then the destination directory.
QCheck ==
  /\ pc = "qcheck"
  /\ IF Refused THEN Done /\ UNCHANGED quars
     ELSE \E q \in {x \in Quars : Free(x)} :
            /\ quars' = [quars EXCEPT ![q] =
                 [id |-> target, serial |-> QuarantineSerial,
                  pend |-> Pick(OwnStaged), prepared |-> FALSE,
                  original |-> FALSE, copied |-> FALSE, done |-> FALSE]]
            /\ entry' = q /\ pc' = "qprepare"
            /\ UNCHANGED <<mode, ready, alert, waiting, goal, cur, ask, target>>
  /\ UNCHANGED <<dir, meta, files, resv, idem, audit, tail, hist>>

\* One write of the command inside its own entry: it succeeds, or fails and
\* has taken effect or not.
QWrite(field, next) ==
  \/ /\ NoFault /\ Goto(next)
     /\ quars' = [quars EXCEPT ![entry][field] = TRUE]
  \/ /\ Fault /\ Fails
     /\ \/ UNCHANGED quars
        \/ "final" \in Leftovers
             /\ quars' = [quars EXCEPT ![entry][field] = TRUE]

QPrepare ==
  /\ pc = "qprepare" /\ QWrite("prepared", "qmove")
  /\ UNCHANGED <<dir, meta, files, resv, idem, audit, tail, answers, signed>>

\* The source directory is renamed to `original', or an empty one is made.
QMove ==
  /\ pc = "qmove"
  /\ \/ /\ NoFault /\ Goto("qcopy")
        /\ dir' = IF HasSource THEN [dir EXCEPT ![target] = "moved"] ELSE dir
        /\ quars' = [quars EXCEPT ![entry].original = TRUE]
     \/ Fault /\ Fails /\ UNCHANGED <<dir, quars>>
  /\ UNCHANGED <<meta, files, resv, idem, audit, tail, answers, signed>>

\* The final reservation is copied; it also stays where it is.
QCopy ==
  /\ pc = "qcopy"
  /\ IF Reserved = {} THEN NoFault /\ Goto("qclear") /\ UNCHANGED quars
     ELSE QWrite("copied", "qclear")
  /\ UNCHANGED <<dir, meta, files, resv, idem, audit, tail, answers, signed>>

\* A staged reservation is copied, then removed.
QClear ==
  LET s == quars[entry].pend IN
  /\ pc = "qclear"
  /\ \/ /\ NoFault /\ Goto("qdone")
        /\ resv' = IF s = Nobody THEN resv ELSE [resv EXCEPT ![s] = NoSlot]
     \/ s # Nobody /\ Fault /\ Fails /\ UNCHANGED resv
  /\ UNCHANGED <<dir, meta, files, idem, audit, tail, quars, answers, signed>>

QDone ==
  /\ pc = "qdone" /\ QWrite("done", "qaudit")
  /\ UNCHANGED <<dir, meta, files, resv, idem, audit, tail, answers, signed>>

QAudit ==
  /\ pc = "qaudit" /\ Append1(Quarantined(entry)) /\ Done
  /\ UNCHANGED <<dir, meta, files, resv, idem, quars, answers, signed>>

-----------------------------------------------------------------------------

Issue ==
  \/ Replay \/ Rejoin \/ Create \/ Reserve \/ Sign \/ Reply
Recover == PublishMapping \/ LogIssuance \/ \E f \in Artifacts : Publish(f)
Scan == ScanPendings \/ ScanNext \/ ScanValidate
Quarantine == QCheck \/ QPrepare \/ QMove \/ QCopy \/ QClear \/ QDone \/ QAudit
Watch == Wake \/ BeginScan

\* Every step of whoever holds the mutex.
Work == Issue \/ Recover \/ Scan \/ Quarantine

Next ==
  \/ Work \/ Watch \/ Start \/ Crash
  \/ \E p \in Permits : Acquire(p) \/ \E r \in Requests : Admit(p, r)
  \/ \E i \in Ids \cup {Nobody} : Command(i)

Spec == Init /\ [][Next]_vars

\* The running threads go on: the watcher's loop, the jobs in the blocking
\* pool and the mutex they share.  Nobody promises that a request comes, that
\* the operator starts the server, or that it crashes.
FairSpec ==
  /\ Spec /\ WF_vars(Work) /\ WF_vars(Watch)
  /\ \A p \in Permits : WF_vars(Acquire(p))

-----------------------------------------------------------------------------
(* Properties.                                                             *)

AtIssuance == Artifacts \cup {"reserve", "sign", "mapping", "audit"}
AtEntry    == {"qprepare", "qmove", "qcopy", "qclear", "qdone", "qaudit"}

\* Every variable has its type (one invariant for the whole module).
DiskTypes ==
  /\ dir \in [Ids -> {"none", "active", "moved"}]
  /\ meta \in [Ids -> Metas \cup {Nobody}]
  /\ files \in [Ids -> [Artifacts -> FileStates]]
  /\ resv \in [Serials -> Slot]
  /\ idem \in [Keys -> Slot]
  /\ audit \in Seq(Events)
  /\ tail \in Tails
  /\ quars \in [Quars -> Entries \cup {Nobody}]

RunTypes ==
  /\ mode \in {"down", "serving", "offline"}
  /\ ready \in BOOLEAN /\ alert \in BOOLEAN
  /\ waiting \in [Permits -> Requests \cup {Nobody}]
  /\ pc \in AtIssuance \cup AtEntry
             \cup {"free", "lookup", "next", "pendings", "validate", "qcheck"}
  /\ goal \in {"none", "issue", "replay", "scan", "quarantine"}
  /\ cur \in Owners /\ target \in Owners
  /\ entry \in Quars \cup {Nobody}
  /\ ask \in Requests \cup {Nobody}

TypeOK ==
  /\ DiskTypes /\ RunTypes
  /\ answers \subseteq [key : Keys, csr : Csrs, id : Ids, status : {200, 201}]
  /\ signed \subseteq Ids
  /\ faults \in Nat

\* What the operation that holds the mutex may rely on, step after step: the
\* issuance it works at is the one of the request it answers; the serial is
\* reserved before the key signs; the mapping is there before the audit record
\* and the answer; what a quarantine is about to remove has no final name.
\* (The strengthening that makes the safety theorems inductive.)
Rejoined == goal \in {"issue", "replay"} /\ pc \in AtIssuance \cup {"next"}
Bound(i) == idem[meta[i].key] = SlotOf("final", i)

Based ==
  /\ \A i \in Ids : dir[i] # "none" => meta[i] \in Metas
  /\ \A i \in signed : dir[i] # "none"
  /\ \A k \in Keys : idem[k].st = "final" =>
       dir[idem[k].by] # "none" /\ meta[idem[k].by].key = k

Placed ==
  /\ Based
  /\ pc = "lookup" => ask \in Requests
  /\ pc \in {"pendings", "validate"} => goal = "scan"
  /\ pc \in AtIssuance \/ Rejoined => cur \in Ids /\ dir[cur] # "none"
  /\ Rejoined => /\ ask \in Requests
                 /\ meta[cur].key = ask.key /\ meta[cur].csr = ask.csr
  /\ pc = "sign" => resv[meta[cur].serial] = SlotOf("final", cur)
  /\ pc \in {"audit", "marker"} \/ (Rejoined /\ pc = "next") => Bound(cur)
  /\ pc = "qcheck" => target \in Ids
  /\ pc \in AtEntry => entry \in Quars /\ quars[entry] \in Entries
  /\ pc \in {"qprepare", "qmove", "qcopy", "qclear"} =>
       \A s \in Serials : quars[entry].pend = s => resv[s].st \in Pending

\* A certificate that was handed out was issued for exactly that key and
\* signing request, and stays the authority's answer: its key maps to it, it is
\* complete, and no quarantine ever takes it away (the idempotency contract of
\* POST /v1/certificates across retries, crashes and offline commands).
AnswersStand ==
  \A a \in answers :
    /\ idem[a.key] = SlotOf("final", a.id)
    /\ meta[a.id].key = a.key /\ meta[a.id].csr = a.csr
    /\ dir[a.id] = "active"
    /\ files[a.id].cert = "final" /\ files[a.id].complete = "final"

\* What the key signed is reserved for ever by the issuance it was signed for,
\* whatever failed or was quarantined since; so no serial is signed twice.
SignedIsReserved ==
  \A i \in signed : resv[meta[i].serial] = SlotOf("final", i)

\* A request whose signature still lies among the issuances is never signed
\* again: an incomplete issuance blocks its key until it is quarantined.
NoSecondSigning ==
  \A i, j \in signed :
    dir[i] = "active" /\ dir[j] = "active" /\ meta[i].key = meta[j].key => i = j

\* The order of publication that recovery relies on: each file implies the
\* earlier ones, the mapping implies COMPLETE, the audit record the mapping,
\* and the AUDIT marker the record.
Order == <<"intent", "cert", "record", "commit", "complete">>
PublishedInOrder ==
  \A i \in Ids :
    /\ \A n \in 2..5 :
         files[i][Order[n]] = "final" => files[i][Order[n-1]] = "final"
    /\ files[i].cert = "final" => i \in signed
    /\ \A k \in Keys : idem[k] = SlotOf("final", i) => files[i].complete = "final"
    /\ Logged(Issued(i)) => idem[meta[i].key] = SlotOf("final", i)
    /\ files[i].marker = "final" => Logged(Issued(i))

\* No event is recorded twice, whoever finishes an issuance and however often.
LoggedOnce == \A m, n \in DOMAIN audit : audit[m] = audit[n] => m = n

\* Nothing published is ever changed, replaced or taken back: not a file of an
\* issuance, not a reservation, not a mapping, not an audit record.
PublishedForEver ==
  [][ /\ \A i \in Ids, f \in Artifacts :
           files[i][f] = "final" => files'[i][f] = "final"
      /\ \A s \in Serials : resv[s].st = "final" => resv'[s] = resv[s]
      /\ \A k \in Keys : idem[k].st = "final" => idem'[k] = idem[k]
      /\ Len(audit) <= Len(audit') /\ \A n \in DOMAIN audit : audit'[n] = audit[n]
    ]_vars

\* Everything an issuance needs is published.
Finished(i) ==
  /\ \A f \in Artifacts : files[i][f] = "final"
  /\ idem[meta[i].key] = SlotOf("final", i)
  /\ resv[meta[i].serial] = SlotOf("final", i)
  /\ Logged(Issued(i))

\* Readiness is only ever gained over a directory in which every issuance is
\* finished and logged, and every quarantine is whole.
ReadyWhenSettled ==
  [][ ~ready /\ ready' =>
        (\A i \in Ids : dir[i] = "active" => Finished(i)) /\ QuarantinesWhole ]_vars

\* What stands in the way of a clean scan.
Uncommitted == \E i \in Active : files[i].commit # "final"
Partial     == ~QuarantinesWhole
StagedFile  == \E i \in Active, f \in Artifacts : files[i][f] \in Pending
StagedResv  == Staged # {}
StagedTail  == tail.st \in {"torn", "staged"}
TornMapping == \E k \in Keys : idem[k].st = "torn"

\* A scan of the running server is refused, and not by an I/O fault of its own.
ScanRefused ==
  goal = "scan" /\ mode = "serving" /\ mode' = "serving" /\ pc' = "free" /\ ~ready'
    /\ faults' = faults

\* A scan is refused only for evidence somebody can point at; a completed
\* quarantine, a used serial or a certificate issued again after a quarantine
\* never blocks readiness.  What a quarantine or a publication left when it broke
\* off is evidence, though the code might have finished it.
RefusedForEvidence ==
  [][ ScanRefused => \/ Uncommitted \/ Partial \/ StagedFile \/ StagedResv
                     \/ StagedTail \/ TornMapping ]_vars

\* While the server lives and nothing blocks the scan, what is committed gets
\* finished: the watcher takes readiness away before it asks for the mutex, so
\* no stream of requests can keep it from its scan.
CommittedGetsFinished ==
  \A i \in Ids :
    (mode = "serving" /\ dir[i] = "active" /\ files[i].commit = "final") ~>
      \/ Finished(i) \/ mode # "serving"
      \/ Uncommitted \/ Partial \/ StagedFile \/ StagedResv \/ StagedTail \/ TornMapping

\* The abstract register this module implements: a key is bound when its
\* mapping gets its final name, to the issuance the mapping names.
Binding ==
  [k \in Keys |->
     IF idem[k].st = "final"
     THEN [csr |-> meta[idem[k].by].csr, id |-> idem[k].by] ELSE Nobody]

Register == INSTANCE CertRegister WITH bound <- Binding

\* The authority keeps the promise of CertRegister: a key is bound once, to one
\* certificate for one request, and every answer hands out what its key is
\* bound to, across crashes, faults, retries, scans and quarantines.
ImplementsRegister == Register!RSpec
=============================================================================
