----------------------------- MODULE CaReadiness -----------------------------
(***************************************************************************)
(* Readiness of the server: the watcher thread with its directory watch,   *)
(* the two flags it writes, the requests that read them one after the      *)
(* other, and the jobs that compete with it for the issuance mutex         *)
(* (crates/azihsm-ca/src/http.rs:118, state.rs:297).  What is on the disk  *)
(* is abstracted to what a scan makes of it; CaIssuance has the scan.      *)
(***************************************************************************)
EXTENDS Integers

CONSTANTS
  Requests,     \* connections
  Permits,      \* blocking permits: at most so many jobs
  Nobody,       \* no caller, no holder
  MaxChanges,   \* bound: changes of the directory by others
  MaxFaults     \* bound: failures of the system, the provider or a job

ASSUME Bounds == MaxChanges \in Nat /\ MaxFaults \in Nat
ASSUME NobodyElse == Nobody \notin Requests \cup Permits
ASSUME WatcherElse == "watcher" \notin Permits \cup {Nobody}

VARIABLES
  disk,         \* the state directory, as a scan would find it
  unseen,       \* history: it changed since the last scan began
  saw,          \* what the scan under way may have read
  last,         \* history: how the last scan ended
  watch,        \* the overlapped read of the directory watch
  note,         \* what the system has recorded for its handle
  ready, pending,  \* the two flags
  thread,       \* where the watcher thread is
  event,        \* what woke it
  mutex, poisoned, \* the issuance mutex
  req,          \* where each request is
  job, caller,  \* the job of each permit, and who still waits for it
  stop,         \* the stop event
  changes, faults  \* counters of the bounds

state    == <<disk, unseen, saw>>
watching == <<watch, note>>
flags    == <<ready, pending>>
lock     == <<mutex, poisoned>>
serving  == <<req, job, caller>>
counts   == <<changes, faults>>
vars     == <<state, last, watching, flags, thread, event, lock, serving, stop, counts>>

Disks   == {"valid", "unfinished", "invalid"}
Threads == {"wait", "pending", "unready", "replace", "lock", "scan", "scanning",
            "check", "rescue", "clear", "raise", "stopped"}
Events  == {"timeout", "changed", "overflow", "error"}

\* serve(): the watch is registered, and the thread runs as if a timeout had
\* woken it, before the listener is there.
Init ==
  /\ disk \in Disks /\ unseen = TRUE /\ saw = {} /\ last = "none"
  /\ watch = "armed" /\ note = "none"
  /\ ready = FALSE /\ pending = TRUE
  /\ thread = "pending" /\ event = "timeout"
  /\ mutex = Nobody /\ poisoned = FALSE
  /\ req = [r \in Requests |-> "none"]
  /\ job = [p \in Permits |-> "none"] /\ caller = [p \in Permits |-> Nobody]
  /\ stop = FALSE /\ changes = 0 /\ faults = 0

Fault == faults < MaxFaults /\ faults' = faults + 1 /\ UNCHANGED changes
NoFault == UNCHANGED counts

\* The directory becomes v: a scan under way may see it, and the system records
\* it for the open handle, whether or not a read is armed.
Becomes(v) ==
  /\ disk' = v /\ unseen' = TRUE /\ saw' = saw \cup {v}
  /\ note' \in (IF note = "overflow" THEN {note} ELSE {"changed", "overflow"})
  /\ UNCHANGED watch

Change ==
  /\ changes < MaxChanges /\ changes' = changes + 1
  /\ \E v \in Disks : Becomes(v)
  /\ UNCHANGED <<last, flags, thread, event, lock, serving, stop, faults>>

-----------------------------------------------------------------------------
(* The watcher thread (ReadinessWatcher::start, DirectoryWatcher).         *)

\* DirectoryWatcher::wait with something to deliver.  After it the read is armed
\* again; when that fails the event is reset and nothing is armed, and when the
\* completion is an error or malformed the event stays signalled.
Deliver(result) ==
  /\ watch = "armed" /\ note # "none" /\ note' = "none"
  /\ \/ result = note /\ UNCHANGED watch /\ NoFault
     \/ result = "error" /\ watch' \in {"unarmed", "stuck"} /\ Fault

\* An event that stays signalled delivers the same error again.
DeliverAgain(result) ==
  watch = "stuck" /\ result = "error" /\ UNCHANGED watching /\ NoFault

Quiet == watch = "unarmed" \/ (watch = "armed" /\ note = "none")

\* A watch is registered anew, before the scan.  Registration also fails where
\* the tree is not what it must be.
Register == watch' = "armed" /\ note' = "none" /\ NoFault
RegisterFails == UNCHANGED watching /\ (Fault \/ (disk = "invalid" /\ NoFault))

Goto(next) == thread' = next /\ UNCHANGED event
Unlock == mutex' = Nobody /\ UNCHANGED poisoned

\* Variant: the stop event comes after the others.
WaitFirst ==
  /\ thread = "wait"
  /\ \/ event' = "timeout" /\ UNCHANGED watching /\ NoFault
     \/ \E e \in Events : event' = e /\ (Deliver(e) \/ DeliverAgain(e))
  /\ thread' = "pending"
  /\ UNCHANGED <<state, last, flags, lock, serving, stop>>

\* Variant: nothing is validated unless something was notified.
WaitForEvent ==
  /\ thread = "wait" /\ ~stop
  /\ \E e \in Events : event' = e /\ (Deliver(e) \/ DeliverAgain(e))
  /\ thread' = "pending"
  /\ UNCHANGED <<state, last, flags, lock, serving, stop>>

\* WaitForMultipleObjects for 60 seconds; the stop event comes first.
Wait ==
  /\ thread = "wait" /\ ~stop
  /\ \/ event' = "timeout" /\ UNCHANGED watching /\ NoFault
     \/ \E e \in Events : event' = e /\ (Deliver(e) \/ DeliverAgain(e))
  /\ thread' = "pending"
  /\ UNCHANGED <<state, last, flags, lock, serving, stop>>

StopWatcher ==
  /\ thread = "wait" /\ stop /\ Goto("stopped")
  /\ UNCHANGED <<state, last, watching, flags, lock, serving, stop, counts>>

MarkPending ==
  /\ thread = "pending" /\ pending' = TRUE /\ Goto("unready")
  /\ UNCHANGED <<state, last, watching, ready, lock, serving, stop, counts>>

\* Variant: only a scan that fails withdraws readiness.
UnreadyLater ==
  /\ thread = "unready"
  /\ Goto(IF event \in {"error", "overflow"} THEN "replace" ELSE "lock")
  /\ UNCHANGED <<state, last, watching, flags, lock, serving, stop, counts>>

Unready ==
  /\ thread = "unready" /\ ready' = FALSE
  /\ Goto(IF event \in {"error", "overflow"} THEN "replace" ELSE "lock")
  /\ UNCHANGED <<state, last, watching, pending, lock, serving, stop, counts>>

Replace ==
  /\ thread = "replace"
  /\ \/ Register /\ Goto("lock")
     \/ RegisterFails /\ Goto("wait")
  /\ UNCHANGED <<state, last, flags, lock, serving, stop>>

\* A poisoned mutex makes the thread skip its scan.
Lock ==
  /\ thread = "lock" /\ mutex = Nobody
  /\ IF poisoned THEN Goto("wait") /\ UNCHANGED mutex
                 ELSE Goto("scan") /\ mutex' = "watcher"
  /\ UNCHANGED <<state, last, watching, flags, poisoned, serving, stop, counts>>

BeginScan ==
  /\ thread = "scan" /\ Goto("scanning")
  /\ saw' = {disk} /\ unseen' = FALSE
  /\ UNCHANGED <<disk, last, watching, flags, lock, serving, stop, counts>>

\* What the scan finishes it writes, and gets notified of.
ScanPasses ==
  /\ thread = "scanning" /\ saw # {"invalid"}
  /\ last' = "ok" /\ Goto("check")
  /\ IF disk = "unfinished" THEN Becomes("valid") ELSE UNCHANGED <<state, watching>>
  /\ UNCHANGED <<flags, lock, serving, stop, counts>>

\* Variant: the decision that the state is invalid ends the wait for one.
ScanFailsDecided ==
  /\ thread = "scanning"
  /\ \/ "invalid" \in saw /\ NoFault
     \/ Fault
  /\ last' = "failed" /\ ready' = FALSE /\ pending' = FALSE /\ Goto("wait") /\ Unlock
  /\ UNCHANGED <<state, watching, serving, stop>>

\* An invalid state, or a provider that fails the known-answer test.
ScanFails ==
  /\ thread = "scanning"
  /\ \/ "invalid" \in saw /\ NoFault
     \/ Fault
  /\ last' = "failed" /\ ready' = FALSE /\ Goto("wait") /\ Unlock
  /\ UNCHANGED <<state, watching, pending, serving, stop>>

\* wait(0): readiness only when nothing was recorded since the scan began.
Check ==
  /\ thread = "check"
  /\ \/ Quiet /\ Goto("clear") /\ UNCHANGED watching /\ NoFault
     \/ Deliver("changed") /\ Goto("scan")
     \/ \E e \in {"overflow", "error"} : (Deliver(e) \/ DeliverAgain(e)) /\ Goto("rescue")
  /\ UNCHANGED <<state, last, flags, lock, serving, stop>>

\* Variant: the new watch is taken for the quiet one.
RescueQuiet ==
  /\ thread = "rescue"
  /\ \/ Register /\ Goto("check") /\ UNCHANGED lock
     \/ RegisterFails /\ Goto("wait") /\ Unlock
  /\ UNCHANGED <<state, last, flags, serving, stop>>

Rescue ==
  /\ thread = "rescue"
  /\ \/ Register /\ Goto("scan") /\ UNCHANGED lock
     \/ RegisterFails /\ Goto("wait") /\ Unlock
  /\ UNCHANGED <<state, last, flags, serving, stop>>

Clear ==
  /\ thread = "clear" /\ pending' = FALSE /\ Goto("raise")
  /\ UNCHANGED <<state, last, watching, ready, lock, serving, stop, counts>>

Raise ==
  /\ thread = "raise" /\ ready' = TRUE /\ Goto("wait") /\ Unlock
  /\ UNCHANGED <<state, last, watching, pending, serving, stop, counts>>

Watcher ==
  \/ Wait \/ StopWatcher \/ MarkPending \/ Unready \/ Replace \/ BeginScan
  \/ ScanPasses \/ ScanFails \/ Check \/ Rescue \/ Clear \/ Raise

-----------------------------------------------------------------------------
(* Requests and jobs.                                                      *)

Step(r, next) ==
  /\ req' = [req EXCEPT ![r] = next]
  /\ UNCHANGED <<state, last, watching, flags, thread, event, lock, job, caller, stop, counts>>

\* A connection is accepted and its deadline starts.
Arrive(r) == req[r] = "none" /\ ~stop /\ Step(r, "body")

\* The head is checked and the body collected, or refused.
Collect(r) == req[r] = "body" /\ \E next \in {"none", "ready"} : Step(r, next)

\* is_ready: one flag, then the other.
ReadReady(r) == req[r] = "ready" /\ Step(r, IF ready THEN "pending" ELSE "none")
ReadPending(r) == req[r] = "pending" /\ Step(r, IF pending THEN "none" ELSE "admit")

\* A request that reads is answered, one that enrolls may fail its checks, meet
\* the rate limiter or find no permit.
Dismiss(r) == req[r] = "admit" /\ Step(r, "none")

Spawn(r, p) ==
  /\ req[r] = "admit" /\ job[p] = "none"
  /\ req' = [req EXCEPT ![r] = "waiting"]
  /\ job' = [job EXCEPT ![p] = "queued"] /\ caller' = [caller EXCEPT ![p] = r]
  /\ UNCHANGED <<state, last, watching, flags, thread, event, lock, stop, counts>>

\* The deadline passes wherever the request is; its job goes on with its permit.
TimeOut(r) ==
  /\ req[r] # "none" /\ req' = [req EXCEPT ![r] = "none"]
  /\ caller' = [p \in Permits |-> IF caller[p] = r THEN Nobody ELSE caller[p]]
  /\ UNCHANGED <<state, last, watching, flags, thread, event, lock, job, stop, counts>>

\* The job ends: its permit is free, and whoever still waits is answered.
Ends(p) ==
  /\ job' = [job EXCEPT ![p] = "none"] /\ caller' = [caller EXCEPT ![p] = Nobody]
  /\ req' = [r \in Requests |-> IF r = caller[p] THEN "none" ELSE req[r]]

\* The job of a poisoned mutex ends with an error.
Take(p) ==
  /\ job[p] = "queued" /\ mutex = Nobody
  /\ IF poisoned THEN Ends(p) /\ UNCHANGED mutex
                 ELSE /\ job' = [job EXCEPT ![p] = "running"] /\ mutex' = p
                      /\ UNCHANGED <<req, caller>>
  /\ UNCHANGED <<state, last, watching, flags, thread, event, poisoned, stop, counts>>

\* issue() writes, or breaks off and leaves what it wrote.
Issue(p) ==
  /\ job[p] = "running"
  /\ \/ Becomes(disk) /\ NoFault
     \/ (\E v \in {"unfinished", "invalid"} : Becomes(v)) /\ Fault
  /\ Ends(p) /\ Unlock
  /\ UNCHANGED <<last, flags, thread, event, stop>>

Panic(p) ==
  /\ job[p] = "running" /\ Fault
  /\ Ends(p) /\ mutex' = Nobody /\ poisoned' = TRUE
  /\ UNCHANGED <<state, last, watching, flags, thread, event, stop>>

\* The listener has ended: the watcher is told, and joined.
Stop ==
  /\ ~stop /\ stop' = TRUE
  /\ UNCHANGED <<state, last, watching, flags, thread, event, lock, serving, counts>>

Request(r) ==
  \/ Arrive(r) \/ Collect(r) \/ ReadReady(r) \/ ReadPending(r) \/ Dismiss(r) \/ TimeOut(r)
  \/ \E p \in Permits : Spawn(r, p)

Next ==
  \/ Change \/ Watcher \/ Lock \/ Stop
  \/ \E r \in Requests : Request(r)
  \/ \E p \in Permits : Take(p) \/ Issue(p) \/ Panic(p)

Spec == Init /\ [][Next]_vars

\* The watcher thread runs, its 60 seconds pass, jobs end, and a thread that
\* waits for the mutex gets it among the others that do.
FairSpec ==
  Spec /\ WF_vars(Watcher) /\ SF_vars(Lock)
       /\ \A p \in Permits : SF_vars(Take(p)) /\ WF_vars(Issue(p))

-----------------------------------------------------------------------------
(* Properties.                                                             *)

TypeOK ==
  /\ disk \in Disks /\ unseen \in BOOLEAN /\ saw \subseteq Disks
  /\ last \in {"none", "ok", "failed"}
  /\ watch \in {"armed", "unarmed", "stuck"} /\ note \in {"none", "changed", "overflow"}
  /\ ready \in BOOLEAN /\ pending \in BOOLEAN
  /\ thread \in Threads /\ event \in Events
  /\ mutex \in {Nobody, "watcher"} \cup Permits /\ poisoned \in BOOLEAN
  /\ req \in [Requests -> {"none", "body", "ready", "pending", "admit", "waiting"}]
  /\ job \in [Permits -> {"none", "queued", "running"}]
  /\ caller \in [Permits -> Requests \cup {Nobody}]
  /\ stop \in BOOLEAN /\ changes \in 0..MaxChanges /\ faults \in 0..MaxFaults

\* Who holds the mutex, and what follows from where the thread is: the scan is
\* behind it when readiness is about to be announced.
Placed ==
  /\ mutex = "watcher" <=>
       thread \in {"scan", "scanning", "check", "rescue", "clear", "raise"}
  /\ \A p \in Permits : job[p] = "running" <=> mutex = p
  /\ thread \in {"check", "rescue", "clear", "raise"} => last = "ok"
  /\ thread \in {"unready", "replace", "lock", "scan", "scanning", "check", "rescue", "clear"} => pending
  /\ thread \in {"replace", "lock", "scan", "scanning", "check", "rescue", "clear", "raise"} => ~ready
  /\ pending \/ last = "ok"
  /\ ready => last = "ok"

\* No change is forgotten while the server is ready: it happened before the scan
\* that made it ready, or the watch has recorded it, or the thread is about to
\* withdraw readiness.  In particular one between the loss of a watch and its
\* replacement is scanned.
NoChangeForgotten ==
  ready /\ unseen => note # "none" \/ watch = "stuck" \/ thread \in {"pending", "unready"}

\* A request is only admitted while the last scan to end had found the state
\* valid, although it reads the two flags at two instants.
AdmittedOnValid ==
  [][\A r \in Requests : req[r] = "pending" /\ req'[r] = "admit" => last = "ok"]_vars

\* The server does not stay ready over a change that it has not scanned, whatever
\* notifications and watches are lost, unless it stops.
ChangeWithdraws == ready /\ unseen ~> ~ready \/ ~unseen \/ stop

\* Readiness comes back over a state that is valid.  A job that panicked poisons
\* the mutex and ends that for good, as the code has it.
ReadinessReturns == []<>(ready \/ disk = "invalid" \/ poisoned \/ stop)

\* The thread that is told to stop is joined, whatever jobs there are and wherever
\* it is, once the directory rests: the loop under the mutex scans again for each
\* change and does not look at the stop event.
StopJoins == stop ~> thread = "stopped"

\* Claim of crates/azihsm-ca/README.md:198: readiness needs a watched, quiescent
\* scan.
ReadyIsWatched == ready /\ thread = "wait" => watch # "unarmed"
=============================================================================
