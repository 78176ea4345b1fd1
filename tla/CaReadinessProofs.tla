-------------------------- MODULE CaReadinessProofs --------------------------
(***************************************************************************)
(* What the watcher and its flags keep at every step, for any number of    *)
(* requests, permits, changes of the directory and faults.                 *)
(***************************************************************************)
EXTENDS CaReadiness, TLAPS

\* From the start of a scan until readiness is withdrawn again, a change that
\* the scan may have missed is recorded by the system or an error is pending.
Remembered ==
  ( \/ thread \in {"scanning", "check", "clear", "raise"}
    \/ ready /\ thread \in {"wait", "stopped"} )
  => (unseen => note # "none" \/ watch = "stuck")

Inv == TypeOK /\ Placed /\ Remembered

-----------------------------------------------------------------------------
(* What the parts of a step do.                                            *)

\* A change is recorded, whatever it is.
LEMMA BecomesNotes ==
  ASSUME NEW v \in Disks, TypeOK, Becomes(v)
  PROVE  /\ disk' \in Disks /\ unseen' \in BOOLEAN /\ saw' \subseteq Disks
         /\ note' \in {"changed", "overflow"} /\ watch' = watch
PROOF
  BY DEF Becomes, TypeOK

\* A delivery and a registration leave the watch in one of its states.
LEMMA WatchTypes ==
  ASSUME TypeOK, \/ \E e \in Events : Deliver(e) \/ DeliverAgain(e)
                 \/ Register \/ RegisterFails
                 \/ UNCHANGED watching /\ NoFault
  PROVE  /\ watch' \in {"armed", "unarmed", "stuck"}
         /\ note' \in {"none", "changed", "overflow"}
         /\ changes' \in 0..MaxChanges /\ faults' \in 0..MaxFaults
PROOF
  BY Bounds DEF TypeOK, Deliver, DeliverAgain, Register, RegisterFails, Fault, NoFault,
                counts, watching

\* A job that ends leaves requests, permits and callers well typed.
LEMMA EndsTypes ==
  ASSUME TypeOK, NEW p \in Permits, Ends(p)
  PROVE  /\ req' \in [Requests -> {"none", "body", "ready", "pending", "admit", "waiting"}]
         /\ job' \in [Permits -> {"none", "queued", "running"}]
         /\ caller' \in [Permits -> Requests \cup {Nobody}]
         /\ \A q \in Permits : job'[q] = IF q = p THEN "none" ELSE job[q]
PROOF
  BY DEF TypeOK, Ends

-----------------------------------------------------------------------------
(* The invariant.                                                          *)

LEMMA InitInv == Init => Inv
PROOF
  <1> SUFFICES ASSUME Init PROVE Inv
    OBVIOUS
  <1>1. TypeOK
    <2>1. 0 \in 0..MaxChanges /\ 0 \in 0..MaxFaults
      BY Bounds
    <2> QED BY <2>1 DEF Init, TypeOK, Disks, Threads, Events
  <1>2. Placed
    BY WatcherElse, NobodyElse DEF Init, Placed
  <1>3. Remembered
    BY DEF Init, Remembered
  <1> QED BY <1>1, <1>2, <1>3 DEF Inv

\* The steps of the watcher thread.
LEMMA WatcherInv == Inv /\ Watcher => Inv'
PROOF
  <1> SUFFICES ASSUME Inv, Watcher PROVE Inv'
    OBVIOUS
  <1> USE WatcherElse, NobodyElse
      DEF Inv, state, flags, lock, serving, counts, watching, Goto, Unlock, NoFault
  <1>1. CASE Wait
    <2>1. TypeOK'
      BY <1>1, WatchTypes DEF Wait, TypeOK, Events, Threads
    <2> QED BY <1>1, <2>1 DEF Wait, TypeOK, Placed, Remembered
  <1>2. CASE StopWatcher
    BY <1>2 DEF StopWatcher, TypeOK, Placed, Remembered, Threads
  <1>3. CASE MarkPending
    BY <1>3 DEF MarkPending, TypeOK, Placed, Remembered, Threads
  <1>4. CASE Unready
    BY <1>4 DEF Unready, TypeOK, Placed, Remembered, Threads
  <1>5. CASE Replace
    <2>1. TypeOK'
      BY <1>5, WatchTypes DEF Replace, TypeOK, Threads
    <2> QED BY <1>5, <2>1 DEF Replace, Placed, Remembered
  <1>6. CASE BeginScan
    BY <1>6 DEF BeginScan, TypeOK, Placed, Remembered, Threads
  <1>7. CASE ScanPasses
    <2>1. TypeOK'
      BY <1>7, BecomesNotes DEF ScanPasses, TypeOK, Threads, Disks
    <2>2. Placed'
      BY <1>7 DEF ScanPasses, Becomes, Placed
    <2>3. Remembered'
      BY <1>7, BecomesNotes DEF ScanPasses, Remembered, Disks, TypeOK
    <2> QED BY <2>1, <2>2, <2>3
  <1>8. CASE ScanFails
    <2>1. TypeOK'
      <3>1. changes' \in 0..MaxChanges /\ faults' \in 0..MaxFaults
        BY <1>8, Bounds DEF ScanFails, Fault, TypeOK
      <3> QED BY <1>8, <3>1 DEF ScanFails, TypeOK, Threads
    <2> QED BY <1>8, <2>1 DEF ScanFails, TypeOK, Placed, Remembered
  <1>9. CASE Check
    <2>1. TypeOK'
      BY <1>9, WatchTypes DEF Check, TypeOK, Threads, Events
    <2>2. Placed'
      BY <1>9 DEF Check, Placed
    <2>3. Remembered'
      BY <1>9 DEF Check, Quiet, Remembered, Placed
    <2> QED BY <2>1, <2>2, <2>3
  <1>10. CASE Rescue
    <2>1. TypeOK'
      BY <1>10, WatchTypes DEF Rescue, TypeOK, Threads
    <2> QED BY <1>10, <2>1 DEF Rescue, TypeOK, Placed, Remembered
  <1>11. CASE Clear
    BY <1>11 DEF Clear, TypeOK, Placed, Remembered, Threads
  <1>12. CASE Raise
    BY <1>12 DEF Raise, TypeOK, Placed, Remembered, Threads
  <1> QED BY <1>1, <1>2, <1>3, <1>4, <1>5, <1>6, <1>7, <1>8, <1>9, <1>10, <1>11, <1>12
          DEF Watcher

\* The steps of requests.
LEMMA RequestInv == ASSUME NEW r \in Requests PROVE Inv /\ Request(r) => Inv'
PROOF
  <1> SUFFICES ASSUME Inv, Request(r) PROVE Inv'
    OBVIOUS
  <1> USE DEF Inv, state, flags, lock, watching, counts
  <1>1. ASSUME NEW next \in {"none", "body", "ready", "pending", "admit"}, Step(r, next)
        PROVE  Inv'
    BY <1>1 DEF Step, TypeOK, Placed, Remembered
  <1>2. CASE \E p \in Permits : Spawn(r, p)
    <2>1. PICK p \in Permits : Spawn(r, p)
      BY <1>2
    <2>2. TypeOK'
      BY <2>1 DEF Spawn, TypeOK
    <2>3. Placed'
      BY <2>1 DEF Spawn, TypeOK, Placed
    <2>4. Remembered'
      BY <2>1 DEF Spawn, Remembered
    <2> QED BY <2>2, <2>3, <2>4
  <1>3. CASE TimeOut(r)
    <2>1. TypeOK'
      BY <1>3 DEF TimeOut, TypeOK
    <2> QED BY <1>3, <2>1 DEF TimeOut, Placed, Remembered
  <1>4. CASE Arrive(r) \/ Collect(r) \/ ReadReady(r) \/ ReadPending(r) \/ Dismiss(r)
    BY <1>1, <1>4 DEF Arrive, Collect, ReadReady, ReadPending, Dismiss
  <1> QED BY <1>2, <1>3, <1>4 DEF Request

\* The steps of jobs.
LEMMA JobInv ==
  ASSUME NEW p \in Permits, Inv, Take(p) \/ Issue(p) \/ Panic(p)
  PROVE  Inv'
PROOF
  <1> USE WatcherElse, NobodyElse, Bounds
      DEF Inv, state, flags, lock, watching, counts, Unlock, NoFault
  <1>1. CASE Take(p)
    <2>1. CASE poisoned
      <3>1. TypeOK'
        BY <1>1, <2>1, EndsTypes DEF Take, TypeOK
      <3>2. Placed'
        BY <1>1, <2>1, EndsTypes DEF Take, TypeOK, Placed
      <3>3. Remembered'
        BY <1>1 DEF Take, Remembered
      <3> QED BY <3>1, <3>2, <3>3
    <2>2. CASE ~poisoned
      <3>1. TypeOK'
        BY <1>1, <2>2 DEF Take, TypeOK
      <3>2. Placed'
        BY <1>1, <2>2 DEF Take, TypeOK, Placed
      <3>3. Remembered'
        BY <1>1 DEF Take, Remembered
      <3> QED BY <3>1, <3>2, <3>3
    <2> QED BY <2>1, <2>2
  <1>2. CASE Issue(p)
    <2>1. PICK v \in Disks : Becomes(v)
      BY <1>2 DEF Issue, Disks, TypeOK
    <2>2. TypeOK'
      BY <1>2, <2>1, BecomesNotes, EndsTypes DEF Issue, Fault, TypeOK
    <2>3. Placed'
      BY <1>2, EndsTypes DEF Issue, TypeOK, Placed
    <2>4. Remembered'
      BY <2>1, BecomesNotes DEF Remembered
    <2> QED BY <2>2, <2>3, <2>4
  <1>3. CASE Panic(p)
    <2>1. TypeOK'
      BY <1>3, EndsTypes DEF Panic, Fault, TypeOK
    <2>2. Placed'
      BY <1>3, EndsTypes DEF Panic, TypeOK, Placed
    <2>3. Remembered'
      BY <1>3 DEF Panic, Remembered
    <2> QED BY <2>1, <2>2, <2>3
  <1> QED BY <1>1, <1>2, <1>3

LEMMA NextInv == Inv /\ [Next]_vars => Inv'
PROOF
  <1> SUFFICES ASSUME Inv, [Next]_vars PROVE Inv'
    OBVIOUS
  <1> USE DEF state, flags, lock, serving, counts, watching
  <1>1. CASE Change
    <2>1. PICK v \in Disks : Becomes(v)
      BY <1>1 DEF Change
    <2>2. TypeOK'
      BY <1>1, <2>1, BecomesNotes, Bounds DEF Change, Inv, TypeOK
    <2>3. Placed'
      BY <1>1 DEF Change, Inv, Placed
    <2>4. Remembered'
      BY <2>1, BecomesNotes DEF Inv, Remembered
    <2> QED BY <2>2, <2>3, <2>4 DEF Inv
  <1>2. CASE Watcher
    BY <1>2, WatcherInv
  <1>3. CASE Lock
    BY <1>3, WatcherElse, NobodyElse DEF Lock, Goto, Inv, TypeOK, Placed, Remembered, Threads
  <1>4. CASE Stop
    BY <1>4 DEF Stop, Inv, TypeOK, Placed, Remembered
  <1>5. CASE \E r \in Requests : Request(r)
    BY <1>5, RequestInv
  <1>6. CASE \E p \in Permits : Take(p) \/ Issue(p) \/ Panic(p)
    BY <1>6, JobInv
  <1>7. CASE UNCHANGED vars
    BY <1>7 DEF vars, Inv, TypeOK, Placed, Remembered
  <1> QED BY <1>1, <1>2, <1>3, <1>4, <1>5, <1>6, <1>7 DEF Next

-----------------------------------------------------------------------------
(* Theorems.                                                               *)

\* Every variable of the watcher and the requests keeps its type.
THEOREM TypeCorrect == Spec => []TypeOK
PROOF
  <1>1. Inv => TypeOK
    BY DEF Inv
  <1> QED BY InitInv, NextInv, <1>1, PTL DEF Spec

\* While the server is ready no change of its directory is forgotten, whatever
\* notifications and watches were lost (DirectoryWatcher, replace_watcher).
THEOREM NothingForgotten == Spec => []NoChangeForgotten
PROOF
  <1>1. Inv => NoChangeForgotten
    BY DEF Inv, TypeOK, Threads, Placed, Remembered, NoChangeForgotten
  <1> QED BY InitInv, NextInv, <1>1, PTL DEF Spec

\* is_ready reads two flags at two instants, and still admits a request only
\* while the last scan to end had found the state valid.
THEOREM AdmissionIsSound == Spec => AdmittedOnValid
PROOF
  <1>1. Inv /\ [Next]_vars =>
          [\A r \in Requests : req[r] = "pending" /\ req'[r] = "admit" => last = "ok"]_vars
    <2> SUFFICES ASSUME Inv, Next, NEW r \in Requests,
                        req[r] = "pending", req'[r] = "admit"
                 PROVE  last = "ok"
      OBVIOUS
    <2> USE DEF Inv, TypeOK
    <2>1. ASSUME NEW q \in Requests, NEW next, Step(q, next), next # "admit" PROVE FALSE
      BY <2>1 DEF Step
    <2>2. CASE \E q \in Requests : ReadPending(q)
      BY <2>2 DEF ReadPending, Step, Placed
    <2>3. CASE \E q \in Requests : Request(q)
      BY <2>1, <2>2, <2>3
         DEF Request, Arrive, Collect, ReadReady, Dismiss, TimeOut, Spawn
    <2>4. CASE \E p \in Permits : Take(p) \/ Issue(p) \/ Panic(p)
      BY <2>4 DEF Take, Issue, Panic, Ends
    <2>5. CASE Change \/ Watcher \/ Lock \/ Stop
      BY <2>5 DEF Change, Watcher, Lock, Stop, serving, Wait, StopWatcher, MarkPending, Unready,
                  Replace, BeginScan, ScanPasses, ScanFails, Check, Rescue, Clear, Raise
    <2> QED BY <2>3, <2>4, <2>5 DEF Next
  <1> QED BY InitInv, NextInv, <1>1, PTL DEF Spec, AdmittedOnValid
=============================================================================
