# Verification of azihsm-tls

TLA+ modules, TLC configurations and TLAPS proofs for the Rust workspace in this
repository: a demonstration certificate authority whose key lives in an HSM
provider (`crates/azihsm-ca`), its enrollment client (`azihsm-ca-client`), the
key provider (`azihsm-ncrypt`) and a TLS server and client that use the
certificates (`azihsm-tls-server`, `azihsm-tls-client`).  All line numbers are
those of the sources at the commit beside this directory.

## 1. Inventory

| component | state it keeps | operations | hard behaviour | what makes it correct |
|---|---|---|---|---|
| Issuance transaction (`azihsm-ca/authority.rs`) | one directory per issuance (`intent.json`, `certificate.der`, `record.json`, `commit.json`, `COMPLETE`, `AUDIT`), `serial-reservations/`, `idempotency/`, `audit/` | `issue` | ten durable writes and a signature, a failure or a crash at each | a key is bound once; nothing is signed twice; what was answered stands |
| Scan (`full_scan`, `revalidate`, `load`) | none of its own | finish what is committed, refuse the rest | runs over whatever a crash left | readiness only over settled state; what is committed gets finished |
| Quarantine (`quarantine`) | `abandoned-issuances/<id>-<random>/` | move an unfinished issuance away | six steps and no journal to resume from | takes away nothing that was answered; keeps serials reserved |
| Durable publication (`state.rs` `durable_bytes`, client `files.rs` `publish`) | a final name and a staging name per file | stage, flush, read back, rename, flush the directory | attempts that broke off at any step, by this or another transaction | nothing published is replaced; success means published |
| HTTP server (`http.rs`) | two readiness flags, a directory watch, issuance mutex, permits | `enroll`, `status`, `certificate`, the readiness watcher | jobs outlive their caller, notifications get lost, the watcher competes for the mutex | no request is served on state found invalid; no change is forgotten; readiness comes back |
| Rate limiter (`http.rs`) | a global and a per-source token bucket | `allow_at`, `refill` | lazy refill by whole intervals, pruning of the table | as many tokens as time has earned |
| Initialization (`initialize`, `reconcile`, `abandon`) | a hash-chained journal of generations, root signing intent, journal root, publication | `init`, `--reconcile-intent`, `--abandon-intent` | a crash at each of some twenty steps; a key that exists or not | one root; only one TBS is ever signed; an authority only over a key of ours |
| Enrollment client (`artifacts.rs`) | key staging, CSR, request metadata, certificate files, deletion records | `create`, `retry`, `delete-key` | lost answers, crashes around a finalized key | the same request and key on each retry; a deletion deletes the right key once |
| TLS identity (`identity.rs`) | certificate generations, a selection, a pending renewal | prepare, renew, prune | a renewal that is answered with what it already has, by another authority, or breaks off | the valid generations are one certificate; no clean-up costs validity |
| TLS server (`server.rs`, `frame.rs`) | 64 permits, the drain deadline | accept, echo, shut down | deadlines racing expiry, signatures that block | nobody is served past the expiry; the key outlives its users |
| Key provider (`azihsm-ncrypt`) | keys by name | create staged, finalize, open, sign, delete | ambiguous failures of finalize | FFI; modelled by what its callers see |
| Bytes: certificate profile, CSR, policy, encodings, logging, CLI | none | conversions | none | functions of their input; not modelled |

How they interact: the server process holds the file lock `authority.lock` for
its whole life, its jobs and its watcher share one mutex; `init`, `inspect` and
`quarantine-issuance` are processes of their own that need the file lock.  The
client and the TLS server speak to the authority by `POST /v1/certificates`
with an idempotency key.  Every command of the client, and a TLS server from its
start to its end, holds a state lock on its directory.

`PROJECT.json` lists under `hazards` what is hard to test in this code, each
at the line where it bites, and the properties that cover it.

## 2. Modules

| module | models | extends / instantiates |
|---|---|---|
| `Slots` | the states of a durable file and what a failed publication leaves | |
| `Publication` | abstract: one file, written once, success only when written | `Slots` |
| `DurablePublish` | `durable_bytes`, `finalize_pending_publication`, `publish_exact_or_validate` step by step | `Slots`, implements `Publication` |
| `CertRegister` | abstract: what an idempotency key promises | |
| `CaIssuance` | server, jobs, watcher, scan, quarantine over the state directory | `Slots`, implements `CertRegister` |
| `RootCeremony` | abstract: one root is drawn, signed and published, or none; one end, on record once | |
| `CaInit` | `fresh_init`, `reconcile`, `abandon`, `load_for_serve` over one state directory | `Slots`, implements `RootCeremony` |
| `CaReadiness` | watcher thread, directory watch, readiness flags, requests, jobs, mutex | |
| `RateLimit` | the token buckets against buckets that are filled on time | |
| `ClientEnroll` | `create`, `retry`, `delete-key` over one output directory, key store and authority | `Slots` |
| `TlsIdentity` | `run` and `show` over one identity directory, its generations and its restarts | |
| `TlsServer` | `server::run`, the task of each connection, the release in `lib.rs` | |
| `MCCaIssuance`, `MCClientEnroll` | symmetry for TLC | the component |
| `CaIssuanceClaims` | a claim of the documentation | `CaIssuance` |
| `ClientEnrollClaims` | a claim of the documentation about an interrupted `create`, and a user who runs it again | `MCClientEnroll` |
| `*Proofs` (8) | theorems of the component they are named for | the component, TLAPS |

The modules meet at interfaces rather than in one product.  `Slots` is how every
module with durable files takes one publication, and `DurablePublish` shows that
a publication may be taken so.  `CertRegister` is what `CaIssuance` is shown to
implement; the authority in `ClientEnroll` (`Enroll`, `Bound`) and `TlsIdentity`
(`Enroll`, `Bind`) answers by it: one certificate per idempotency key, handed out
for its own CSR.  `CaReadiness` abstracts the disk to what the scan of
`CaIssuance` makes of it.  `TlsIdentity` starts where `ClientEnroll` has filled
the base directory, `TlsServer` where `TlsIdentity` has settled on a leaf.

### CaIssuance and the code

State.  `dir`, `files` and `meta` are `issuances/<id>/`: whether the directory
is there, the state of each file, and what the intent says.  `resv`, `idem`,
`audit`, `tail` and `quars` are the other directories.  A file is `absent`, has
only a staging file that is `empty`, `torn` or `staged` in full, or is `final`.
The bytes of a file are functions of the intent, so a slot that several
issuances may want to write (a reservation, a mapping, the next audit record)
carries its owner and a file inside the issuance carries none.  `mode` is the
file lock, `pc`, `goal`, `cur`, `ask`, `target`, `entry` are the operation that
holds the mutex: the program counter of `issue`, `full_scan` or `quarantine`
and its local variables.  `answers`, `signed` and `faults` are history.

Actions.  `Start`, `Wake`, `BeginScan`, `Admit`, `Acquire` and `Crash` are the
server (http.rs:121, 661, 692, 375, 463).  `Replay`, `Rejoin`, `Create`,
`Publish`, `Reserve`, `Sign` and `Reply` are `issue` (authority.rs:829);
`PublishMapping`, `LogIssuance` and `Publish` of COMPLETE and AUDIT are
`recover_issuance_commit` (1611), which `issue`, the replay of a committed
issuance and the scan all end in: `goal` says which, and where control goes
next.  `ScanPendings`, `ScanNext`, `ScanValidate` are `full_scan` (1380).
`ScanPendings` gives one staged intent (`NameIntent`) or one staged reservation
(`NameReservation`) its name at a time, in the order of the walk (1274), and ends
it (`EndPendings`), so a crash or a fault may fall between any two; `ScanNext`
refuses a bad audit chain (1392) before it visits the first issuance.
`QCheck` to `QAudit` are `quarantine` (997) line by line.

A publication is one step that succeeds, or fails by the rules of
`durable_bytes`, or fails by an I/O fault and leaves a residue; a crash inside
it is a fault followed by `Crash`.  That a publication may be taken as one such
step is what `DurablePublish` shows.

### DurablePublish and the code

State.  `stage` is the staging file `.name.pending`, `name` says whose bytes the
final name holds, `synced` whether they were flushed since they were written.
`pc`, `who` and `kind` are the attempt under way: which of the three callers it
is (`durable_bytes` alone, one that takes a final file with its bytes for
success, or the `finalize_pending_publication` of a scan) and for which
transaction.  `told` is history: who was told that its bytes are published.

Actions.  `Check`, `TakeStage`, `Create`, `Write`, `Sync`, `Reopen`, `Rename`,
`Verify`, `Flush` are the steps of `durable_bytes` (state.rs:1039) in their
order, and those of the client's `stage` and `publish` (files.rs:72).  `Stop` is
an error or a death at any of them, `CutShort` one in the middle of the write.
Attempts do not overlap, because every caller holds a lock: the authority's
mutex or file lock, the client's `state_lock`.  That is taken for granted, here
and in `PublishedForEver` of `CaIssuance`: `fs::rename` (state.rs:1087) replaces
on every platform, and that nothing but the lock keeps it from doing so is
outside of what these properties could show.

### CaInit and the code

State.  `format` is `state-format.json`.  `place` is where the journal directory
of the operation is, `gens` its generations (their phases), `gtail` the staging
file of the next one; `intent`, `root` and `pub` are `root-signing.json`,
`root.der` and `publication.json` in it.  `rootder` and `auth` are `root.der` and
`authority.json` of the authority, `audit` and `atail` the audit chain.  A root
is a record of its parameters and of its signature, because ECDSA may return
another signature for the same bytes; `publication.json` and `authority.json`
are functions of it.  `key` says who owns the named key in the provider.  `pc`,
`goal` and `result` are the command: `init`, `init --reconcile-intent`,
`init --abandon-intent`, or the load before serving.  `signed` is history.

Actions.  One action per publication or check, each with its own residues.
`MarkFormat` to `Finalize` are the first part of `fresh_init` (authority.rs:111),
`ValidateJournal` and `Judge` the common start of the other commands (1770; 199,
634, 744), `AppendGeneration` is `JournalWriter::append` (2523), `PublishIntent`
to `PublishAuthority` what `fresh_init` and `reconcile` share (232 to 314, 407,
569), `LogOutcome` and `Archive` the ends (1940, 1917).  `After` is the order of
steps.  `Stop` is any error between two steps that leaves no trace on disk, or
death; `OtherPrograms` creates and deletes a key of that name while it is not
ours.  The key is never deleted by this crate.  One operation per directory is
enough: the marker is published once and nothing removes it, so a second
`fresh_init` never reaches its journal (`MarkFormat` is modelled and refuses).

`RootCeremony` is what all of that amounts to for an operator, and what `CaInit`
is shown to implement: parameters are drawn when `root-signing.json` gets its
name, a root is published when `authority.json` does, and the ceremony ends with
the generation of the journal that says so (`completed` or `abandoned`), wherever
that is written or adopted from its staging file.  After the end nothing is
drawn, signed or published; it ends as abandoned only before any parameters; one
record of it is written; and a load serves its root, after that record.
`OneTbsSigned` is part of that, hence no property of its own in the run.

### CaReadiness and the code

State.  `disk` is the state directory as a scan would judge it: valid,
unfinished (a scan will finish it) or invalid.  `watch` and `note` are the
overlapped read of `DirectoryWatcher` (state.rs:297): armed, with an event that
stays signalled (`stuck`), or not armed at all; and what the system has recorded
for the handle, one change or an overflow.  `ready` and `pending` are the two
flags, `thread` and `event` the watcher thread, `mutex`, `poisoned` the issuance
mutex, `req`, `job`, `caller` the requests, the blocking jobs and who still
waits.  `unseen`, `saw` and `last` are history: a change since the last scan
began, what the scan may have read, how it ended.

Actions.  `Wait` to `Raise` are the loop of `ReadinessWatcher::start`
(http.rs:657) one lock, flag or system call at a time; `Deliver`,
`DeliverAgain`, `Register` and `RegisterFails` are `wait`, `arm`, `open` and
`register_replacement`.  `ReadReady` and `ReadPending` are the two loads of
`is_ready` (539).  `Spawn`, `Take`, `Issue`, `Panic` and `TimeOut` are a job and
the deadline that leaves it behind (375, 463).

### RateLimit and the code

`Allow` is `allow_at` with `refill` and `retain` (http.rs:799 to 836).  `ideal`
is history: a bucket that gets one token whenever a whole interval has passed
since it was made, and is spent when the program spends.  Time is in whole
units, the program's in nanoseconds; caps are at most 10 and so `u8` never
saturates.

### ClientEnroll and the code

State.  `file` holds a slot for each of the sixteen files of an output directory,
`key` the public key that the key store has under the name, whoever made it.
`pc` and `my` are the command under way and its locals; a file's name as `pc` is
its publication.  `auth` is who serves at the URL, `issued` what has been issued.
Random values, signatures and times are fresh numbers, so that "the same" and
"made again" differ.

Actions.  `Create`, `Recover` and `Admit` are `prepare_staging` (568): a new
directory, or one that has a staging record, whose listing `Admit` holds against
the names of `validate_recovery_entries` (811).  The listing has the lock file of
the command itself, so `Admit` always refuses, as the program does; `Open` and
`Csr` keep what `create` would do next.  `Open` and `Finalize` are the key of
`create` (51), `Csr` `load_or_create_csr` (632), `Clean` the removal of the
recovery markers, `Retry` and `Reopen` `retry` (165), `Ready` to `Vouch`
`enroll_and_publish` (698), `Delete` to `Date` `delete_key` and `run_deletion`
(280, 350), all in artifacts.rs.
`Publish` is every `publish` of a file: it succeeds, meets other bytes and ends
the command, or fails with a residue.  `Stop` is any error or death; `Meddle`
another program in the key store; `Replaced` another authority at the URL.

### TlsIdentity and the code

State.  `gen` has the base directory (0) and each renewal: whether it is absent,
partial, complete, damaged or quarantined, its certificate, when that was
verified, which authority its metadata name, and its `selection.json`.  `pc` and
`prog` are the program and its locals; `began` is the one reading of the clock
that a start works with.  A certificate is valid from `ClockSkew` before it was
issued (authority.rs:2114); with a skew of 0, as in the run, one that is issued
after the clock was read is not yet valid and the renewal is refused.

Actions.  `Launch`, `Show`, `Create`, `Load`, `Metadata`, `Root`, `Enroll`,
`MakeDirectory`, `Publish`, `Select`, `Prune`, `Serve` are `prepare_server_identity` and `show`
(identity.rs:147) in their order; `Load` includes the quarantine of what it
rejects; `Unavailable` is the fallback to the cached certificate.  `Metadata` and
`Root` are two requests, and another authority may come between them: with a
cached certificate `Root` compares both with it (324), without one the recorded
identifier may be of one authority and the root of another.  `Stop` is an
error or death anywhere, so a renewal may end before its files are there.

### TlsServer and the code

State.  `phase` and `drain` are `run` (server.rs:86), `conn` and `due` each
task of `serve_connection` with the deadline of what it waits for, `held` the key
session and the state lock of `lib.rs`.

Actions.  `Admit` to `TimeOut` are a task, `Start` to `Join` the loop and what
follows it, `Release` is `main_entry`.  `Sign` and `Signed` are the signature,
which blocks a thread in the provider: no timer and no abort reaches it.  Time
is a clock of whole units, and what a task can do without its client it does
before the clock moves (`Pressing`).  That is an assumption about the scheduler:
delays are shorter than a unit.

## 3. Runs

Bounds are in the `.cfg` files.  `MaxFaults` bounds faults only: crashes,
restarts, scans, commands and requests are unbounded wherever they leave nothing
to count, and `Leftovers` selects which residues a fault may leave.

| run | instance | what it shows |
|---|---|---|
| `issuance_faults` | 2 issuances, 2 serials, 2 keys, 2 requests, 2 jobs, 1 quarantine, 1 fault, every residue | what was answered stands, what was signed is reserved, publication keeps its order, and every behaviour is one of `CertRegister` |
| `issuance_liveness` | 1 key, 2 quarantines, 2 faults, fairness | a scan is refused only for evidence; what is committed gets finished although requests keep coming |
| `durable_publish` | 2 transactions, every residue | `durable_bytes` implements `Publication` and leaves nothing staged behind a published file |
| `ca_init` | 2 parameter sets, 2 signatures, every residue, faults and commands unbounded | one root of one signing, a journal that tells the truth, one record, and every behaviour is one of `RootCeremony` |
| `readiness` | 1 request, 1 job, 1 change, 2 faults, fairness | no change is forgotten, admission is on validated state, readiness comes back, the watcher is joined |
| `rate_limit` | 2 sources, caps 3 and 2, intervals 1 and 3, a table of 1, 14 units | lazy refill is exact, pruning is free |
| `client_enroll` | 2 authorities, 7 fresh numbers, 1 fault, every residue | one request per directory, metadata that vouch, deletion of the right key, recorded truly |
| `tls_identity` | 3 renewals, 2 authorities, 1 fault, 3 units | one certificate, and no clean-up that costs validity |
| `tls_server` | 3 clients, 2 permits, expiry at 6, fairness | nothing is served past the expiry, the drain cuts only what is overdue, the key outlives the tasks, the server stops |

Why these bounds.  Two issuances suffice for the interference the properties are
about: one issuance meets what another left (a staged audit record, a serial, a
key), and a key is issued again after a quarantine.  Two faults are needed where
a recovery must itself break off.  In `ca_init` two parameter sets and two
signatures tell a regenerated root from the persisted one; nothing else in
initialization is counted.  In `readiness` the losses that matter are a failed
delivery followed by a failed replacement, hence two faults; one change is
enough, because `unseen` and `note` do not count changes, and a second request
or job adds nothing that a request that comes back does not do.  In
`client_enroll` seven fresh numbers are one whole `create` (idempotency key,
key, CSR signature, time), a deletion (intent, record), and one number left for a
second time or a key of another program.  In `tls_identity` three renewals
are two that are kept or pruned and one that breaks off; three units let a leaf
of two be renewed, be superseded and expire.  In `tls_server` three clients for
two permits let one take the place of another while the drain has begun; expiry
6 leaves room for a handshake, a read and a write before a drain that ends
before the expiry, and the start at any instant up to the expiry gives every
drain that meets it.  In `rate_limit` the intervals do not divide each other or
the age of pruning, and 14 units give each bucket more intervals than its cap.

**Fairness.**  `CaIssuance`: weak fairness of the steps of whoever holds the
mutex (threads of a running process), of the watcher's loop (it wakes at least
every 60 seconds, http.rs:666) and of each waiting job (the mutex is handed to
blocked threads).  `CaReadiness`: weak fairness of the watcher's own steps and of
a running job, strong fairness of taking the mutex, for the watcher and for each
job: others hold it in between, but it is handed to those who block on it.
`MaxChanges` bounds the rescans of a directory that never rests, and `StopJoins`
and `ReadinessReturns` rest on it: the loop under the mutex (http.rs:693 to 737)
scans again for each change it is told of and never looks at the stop event, so
with changes for ever the thread need not be joined.  `TlsServer`:
weak fairness of the clock, of `run` and its successors, of a signature coming
back and of timers; strong fairness of noticing an announced shutdown between two
frames, since `select!` draws among the branches that are ready and a client that
keeps sending makes that branch ready again and again.  Nothing is assumed of
clients, operators, other programs and crashes.

### What the runs refute

Each run `claim_*` checks one sentence of the documentation and fails:

* `claim_one_commit`: publishing `COMPLETE` fails; the issuance is committed and
  would be finished by a scan, but quarantine accepts it (authority.rs:1022 looks
  for `COMPLETE` and the mapping only) and the key is issued a second
  certificate.
* `claim_ready_watched`: while the thread drains its notifications a completion
  is delivered but the read cannot be armed again (state.rs:375); registering a
  replacement fails once as well, and the thread goes on with the old watch,
  whose event nothing will signal.  The next timeout validates, takes the silence
  of the dead watch for quiescence and announces readiness.
* `claim_client_reruns`: `docs/azihsm-ca-demo.md:94` has the user run an
  interrupted `create` again.  `PersistentSpec` is such a user: nothing but
  `create` runs, it is interrupted, but not for ever.  Interrupted after
  `key-staging.json`, it is refused each time: the command has just created
  `.azihsm-state.lock` in the directory (workflow.rs:12, identity.rs:153,
  state_lock.rs:37), and `validate_recovery_entries` (artifacts.rs:832) knows
  seven names and pending files only, while `files::is_empty` exempts the lock
  file (files.rs:51).  The counterexample is a loop of `Recover` and `Admit`.
  With the lock file among the names the claim holds in this run, which breaks
  off between publications only.  (A CSR that was staged in full would then be
  the next thing in the way, since each run makes a new signature.)

### What the passing runs allow

The models reach the following, which no sentence of the documentation forbids
plainly enough.  Where it makes a scan or a reconciliation refuse, the two
`RefusedForEvidence` count it as evidence: they say that nothing else is in the
way, and would not object to these.

* A replay that finds the mapping (authority.rs:850) answers 200 before the
  audit record and `AUDIT` exist; the next scan writes them.
* A quarantine that broke off after creating its entry blocks every scan (1407),
  also when the issuance is quarantined again to the end.
* A complete staged post-commit file is refused by the scan (1347) before
  `recover_issuance_commit` would give it its name; a staged audit record keeps
  the next place of the chain from every other event (state.rs:1166).
* After `FinalizeSucceeded` without `KeyValidated`, `reconcile` (258) refuses and
  `abandon` must refuse; `abandon` run again after its first generation is
  refused by that generation (645).
* `init` publishes the format marker before it looks for the key (134), so a name
  that is taken spoils the directory.
* `durable_bytes` does not flush a staging file that it finds complete.
* An expired root leaves an empty issuance directory for each request (887),
  which the scan refuses.
* A job that panics poisons the mutex (http.rs:463): the server is up and never
  ready again, which `ReadinessReturns` exempts.
* A `create` that is to be resumed adopts whatever key has the name once
  `finalize-started.json` is there.  As resumption is always refused, no run of
  the program comes so far.
* A `delete-key` whose publication of `deletion-intent.json` breaks off when the
  staging file is complete makes an intent with a new identifier and time when it
  is run again (artifacts.rs:387); `stage` (files.rs:94) refuses the staging file,
  now and on each later run, and the key stays.  `docs/azihsm-ca-demo.md:149` has
  the user re-run an interrupted deletion for "a valid identity-bound intent".
* The client publishes `request.csr.pem` only in the run that made the CSR
  (artifacts.rs:641).  `delete-key` opens the key twice by its name (469); both
  looks compare the public key.
* A renewal of the TLS identity that broke off leaves its directory
  (identity.rs:694): every later renewal finds it and fails to create it.

## 4. Proofs

Every theorem holds for all values of the constants that the module's named
assumptions allow; TLC evaluates these in each run.  Each proof module has the
same argument: an inductive invariant `Inv`, `Init => Inv`, one lemma per action
or group of actions for `Inv /\ Next => Inv'`, and the temporal step by PTL.

`CaIssuanceProofs`: `TypeCorrect`, `PlacedAlways`, `SignedSerialsReserved`
(`[]SignedIsReserved`), `Refinement` (`ImplementsRegister`).  The invariant is
`TypeOK /\ Placed /\ SignedIsReserved`.  `SignedIsReserved` is not inductive
alone: that the serial is reserved when the key signs, and that a quarantine
removes only a reservation without a final name, are facts about where the
holder of the mutex is, and `Placed` states them.  `ImplementsRegister` needs
`Rejoined` and `Bound` of `Placed`: an answer is given for the request that the
current issuance was rejoined or created for, once its mapping is published.

The other properties of `CaIssuance` rest on a second, larger invariant, `Deep`
(`DeepInvariance`), each part of which says why one property is not inductive:

| part | what it adds | for |
|---|---|---|
| `Ordered` | which files precede which, and that at each place of `issue` or recovery the earlier ones are there | `AlwaysPublishedInOrder` |
| `Standing` | what is in the index, or on its way there, is active and complete, and a quarantine about to move has nothing complete as its target | `AnswersAlwaysStand` |
| `SignedOnce` | while an issuance is on its way to its signature, no active issuance of its key has one; what is signed has its intent, by which the next request finds it | `NeverSignedTwice` |
| `LoggedFresh` | an event that somebody is about to record is not on record | `AlwaysLoggedOnce` |
| `Held` | which actor may be where, by the file lock and the mutex | all |
| `Visited` | the scan leaves no unfinished issuance behind it | `ReadyOnlyWhenSettled` |
| `Owned`, `Archiving`, `Archived` | a reservation with bytes is of an issuance with an intent; what a quarantine has copied, by where it is, and that an entry that is done holds it | `ReadyOnlyWhenSettled`, `RefusesOnlyForEvidence` |

`NothingIsUnpublished` is an action property: each action is shown to keep
`Lasting`.  `RefusesOnlyForEvidence` goes through the places where a scan may
give up and finds the evidence there, or shows from `Deep` that it cannot.  TLC
checked every part as an invariant at the bounds of both issuance runs before it
was proved.

`DurablePublishProofs`: `NothingStagedLeft`, and, when every residue is allowed,
`PublicationRefined` (`ImplementsPublication`).

`CaInitProofs`: `TypeCorrect`, `OneSigning`, `OneRoot`, `TruthfulJournal`.  The
invariant is their conjunction with `Placed`.  `OneRootPublished` needs to know,
when a command that resumes skips to a later file, that the earlier ones are
there: the last generation of the journal vouches for it.  That in turn is kept
by `AppendGeneration` because where the command is implies what the generation
it is about to write vouches for, a staged generation included, since a reader
gives that one its name.

`OutcomeLoggedOnce` (`LoggedOnce`), `OnlyInitializedLoads` (`LoadedIsInitialized`)
and `ReconcilesUnlessEvidence` (`RefusedForEvidence`) need to know how far the
journal is, and rest on `DeepAlways`.  A fresh run is on a rung of the journal of
success, one that reconciles on it or further (`Climbing`); a journal that
documents a key of ours is a prefix of that journal, and what is staged is its
next generation (`Documented`); the audit log says what the journal says, once,
and an abandonment that comes to its record finds none (`Recorded`); `Concerned`
says which command is where.  That a reconciliation meets no record of an
abandonment, no journal that `validate_journal` refuses, no foreign root and no
missing intent, except in the cases `RefusedForEvidence` names, follows from
these.  `OneCeremony` (`ImplementsCeremony`) maps each step of each command to
one of `RootCeremony` or to none: what is left to show is that the ceremony is
open wherever something is drawn, signed or published (`StillOpen`), and that
the generation that ends it is written over the facts it needs
(`GenerationConcludes`).  TLC checked the invariant and the refinement with the
bounds of `ca_init` first.

`CaReadinessProofs`: `TypeCorrect`, `NothingForgotten` (`[]NoChangeForgotten`),
`AdmissionIsSound` (`AdmittedOnValid`).  The invariant is `TypeOK`, `Placed` (who
holds the mutex; which flags are up and how the last scan ended, by where the
thread is) and `Remembered`: an unseen change is recorded by the watch, or the
thread is at a place from which it scans before it can announce.  Admission is
sound although the flags are read at two instants because `~pending` alone
implies that the last scan passed: it is cleared only behind one, and a scan that
fails leaves it up.

`RateLimitProofs`: `LazyAgrees` (`[]LazyIsExact`), `PruningIsFree`
(`PrunedWereFull`), for any caps, intervals, sources and times.  The invariant
`Agrees` says that a bucket was last refilled a multiple of the interval after
its reference was made, and lacks the tokens of the whole intervals since.  Below
it are the arithmetic lemmas: division with remainder is unique, one more unit
completes an interval exactly when nothing remains, multiples of the interval
change no remainder.  `PruningIsFree` rests on `OldIsFull`, that cap times
interval is at most the age of pruning (3 times 6 seconds against 60).

`ClientEnrollProofs`: `TypeCorrect`, `OneRequestEver`, `MetadataVouch`,
`RecordStaysTrue`, `OnlyItsOwnKey` (`DeletesOwn`).  The invariant adds `Known`
(what the program holds in its locals, by where it is), `Requested` (an issued
certificate is for the stored request), `InOrder` (which files precede which) and
`Deletion` (what an intent or record implies of the key) to the properties.
Fresh numbers are never drawn twice, so a key that is gone does not come back:
the key under the name is at most `fresh`.

`TlsIdentityProofs`: `TypeCorrect`, `OneCertificateAtATime`
(`[]OneCertificate`), `ValidityIsNeverLost` (`ValidityIsKept`).  The invariant
adds `Issued` (a certificate on disk or in hand is the one its authority has
bound, while that is valid), `Prepared` (what the candidates, the root and the
offer of the program are) and `Dated` (no certificate on disk begins after the
clock, nor, but for one just created, after the reading the program works with).
That `Last` picks the last candidate is proved for
any finite set (`LastIsLast`), from a candidate with the fewest others after it.

`TlsServerProofs`: `TypeCorrect`, `NoServiceAfterExpiry`, `KeyIsReleasedLast`,
`DrainIsLongEnough` (`CutOnlyOverdue`).  The invariant is `TypeOK`, `Staged` (what
tasks there may be in each phase) and `Timely` (no deadline is more than its
timeout ahead, or than what is left of the drain).  `DrainIsLongEnough` rests on
`DrainCovers`: a drain is at least as long as a handshake or a write may take,
and all three are 10 seconds (server.rs:21).

Assumptions on constants are about what the modules use them for: bounds and
identifiers are natural numbers, `Nobody` is none of the values it stands for
the absence of (`NobodyAssumption`, `EntryAssumption`, `NobodyIsNobody` and their
like; the code has `Option` there), residues are states of a file, and the two
comparisons of the source's own numbers named above (`OldIsFull`, `DrainCovers`).

Only model-checked: liveness, which is out of the prover's reach
(`CommittedGetsFinished`, `ChangeWithdraws`, `ReadinessReturns`, `StopJoins`,
`Stops`).  Every invariant and every action property of a passing run is a
theorem, and so are the three refinements, that of `Publication` for the case
that every residue is allowed, which is the case of its run.

## 5. What is not modelled, and why

* Bytes: certificates, CSRs, names, hashes, PEM and JSON are functions of what
  they are made from; a hash that matches is the record it was made from.  So the
  parsers and validators (`csr.rs`, `cert`, `policy.rs`, `verify.rs`, most of the
  client's `http.rs` and `model.rs`, `frame.rs`'s encoding) appear as the decision they make.
* Changes of the directories by anything but these programs, except where the
  code reacts to them: the watched directory in `CaReadiness` and the key store.
  ACL checks and the refusal of foreign files are Windows calls without a state
  of ours.
* Expiry of the root.  `issue` against an expired root leaves an empty issuance
  directory; the model's `Create` followed by a crash leaves the same.  The check
  itself (887) is not there.
* The set of finished tasks in `server.rs` (101) grows until the loop ends; the
  model forgets a task that returned.
* Windows and NCrypt bindings, command lines, logging, `keytool`, the demo
  workflow and the TLS client: front ends and foreign functions without state of
  their own, or with one exchange at a time.

## 6. What is left

1. An abstract specification for `ClientEnroll` and one for `TlsIdentity`, of the
   kind of `RootCeremony`, with the refinements proved from the invariants that
   are there.
2. `ClientEnroll` and `TlsIdentity` as clients of one `CertRegister` with an
   explicit network, to drop the assumption that an answer is lost or arrives
   within one step.
3. The order of candidates and the frames as functions, checked over bounded
   inputs.
