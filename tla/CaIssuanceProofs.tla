-------------------------- MODULE CaIssuanceProofs --------------------------
(***************************************************************************)
(* CaIssuance keeps all of its safety properties and implements            *)
(* CertRegister: for any number of issuances, serials, keys, requests,     *)
(* quarantines, permits and faults, and whatever a failed publication may  *)
(* leave.  Inv, at the beginning, is inductive by itself and enough for    *)
(* the types, the reservations and the refinement; Deep, at the end, adds  *)
(* in the order in which they rest on each other: the order of publication *)
(* (Ordered), that nothing published is lost (Lasting, of a step), what    *)
(* stands as the authority's answer (Standing), one signature for a key    *)
(* (SignedOnce), one record for an event (LoggedFresh), who holds the      *)
(* mutex for what (Held), what a scan has settled (Visited), and what a    *)
(* quarantine keeps (Owned, Archiving, Archived).                          *)
(***************************************************************************)
EXTENDS CaIssuance, WellFoundedInduction, TLAPS

\* The first of a set of names is one of them, and none is before it.
LEMMA FirstIsLeast ==
  ASSUME NEW S \in SUBSET Nat, NEW j \in S
  PROVE  First(S) \in S /\ First(S) <= j
PROOF
  <1> DEFINE Less == {ss \in Nat \X Nat : ss[1] < ss[2]}
  <1>1. IsWellFoundedOn(Less, Nat)
    <2>1. OpToRel(<, Nat) = Less
      BY DEF OpToRel
    <2> QED BY <2>1, NatLessThanWellFounded
  <1>2. PICK x \in S : \A y \in S : ~(<<y, x>> \in Less)
    BY <1>1, WFMin
  <1>3. \A y \in S : x <= y
    <2> TAKE y \in S
    <2>1. <<y, x>> \in Nat \X Nat /\ ~(y < x)
      BY <1>2
    <2> QED BY <2>1
  <1> QED BY <1>3 DEF First

\* The first of a non-empty set of names is one of them.
LEMMA FirstIsElement ==
  ASSUME NEW S \in SUBSET Nat, S # {}
  PROVE  First(S) \in S
PROOF
  <1>1. PICK j \in S : TRUE
    OBVIOUS
  <1> QED BY FirstIsLeast

-----------------------------------------------------------------------------
(* The inductive invariant, and what the shared parts of actions do to it.  *)

Inv == TypeOK /\ Placed /\ SignedIsReserved

\* What a failed publication leaves is a state of a file.
LEMMA ResidueType ==
  ASSUME NEW st \in FileStates, NEW r \in Residues(st)
  PROVE  r \in FileStates
PROOF
  BY LeftoversAssumption DEF Residues, FileStates

\* A file is written by an issuance, so it is that issuance's or nobody's.
LEMMA SlotOfType ==
  ASSUME NEW st \in FileStates, NEW who \in Ids
  PROVE  SlotOf(st, who) \in Slot
PROOF
  BY DEF SlotOf, Slot, Owners, FileStates

\* An operation that goes on keeps everything but its place.
LEMMA GotoTypes ==
  ASSUME RunTypes, NEW next, Goto(next),
         next \in AtIssuance \cup AtEntry
                   \cup {"free", "lookup", "next", "pendings", "validate", "qcheck"}
  PROVE  RunTypes'
PROOF
  BY DEF RunTypes, Goto

\* An operation that ends is nowhere.
LEMMA DoneTypes ==
  ASSUME RunTypes, Done
  PROVE  RunTypes' /\ pc' = "free"
PROOF
  BY DEF RunTypes, Done, Owners

\* One that fails is nowhere, or at the checks of a quarantine.
LEMMA FailsTypes ==
  ASSUME RunTypes, Fails
  PROVE  /\ RunTypes'
         /\ pc' = "free" \/ (pc' = "qcheck" /\ target' \in Ids)
PROOF
  <1>1. CASE goal = "scan" /\ target # Nobody
    BY <1>1 DEF Fails, RunTypes, Owners
  <1>2. CASE ~(goal = "scan" /\ target # Nobody)
    BY <1>2, DoneTypes DEF Fails
  <1> QED BY <1>1, <1>2

\* Nothing but Based is asked of an operation that is nowhere.
LEMMA EndPlaced ==
  ASSUME Based', pc' = "free" \/ (pc' = "qcheck" /\ target' \in Ids)
  PROVE  Placed'
PROOF
  BY DEF Placed, Rejoined, AtIssuance, AtEntry, Artifacts

\* What a step that leaves the disk and the signatures alone still has to show.
LEMMA DiskSame ==
  ASSUME Inv, UNCHANGED <<disk, signed>>
  PROVE  DiskTypes' /\ Based' /\ SignedIsReserved'
PROOF
  BY DEF Inv, TypeOK, DiskTypes, Placed, Based, SignedIsReserved, disk

-----------------------------------------------------------------------------
(* The server and the commands: start, watcher, admission, crash.           *)

\* The server's start, its watcher and a crash leave the disk alone.
LEMMA WatchInv ==
  ASSUME Inv, Start \/ Watch \/ Crash \/ \E i \in Ids \cup {Nobody} : Command(i)
  PROVE  Inv'
PROOF
  <1>1. UNCHANGED <<disk, hist>>
    BY DEF Start, Watch, Wake, BeginScan, Crash, Command
  <1>2. RunTypes'
    <2> USE DEF Inv, TypeOK, RunTypes, Owners
    <2>1. CASE Start
      BY <2>1 DEF Start
    <2>2. CASE Watch
      <3>1. ready' \in BOOLEAN /\ alert' \in BOOLEAN
        BY <2>2 DEF Watch, Wake, BeginScan
      <3>2. pc' \in {pc, "pendings"} /\ goal' \in {goal, "scan"}
        BY <2>2 DEF Watch, Wake, BeginScan
      <3>3. UNCHANGED <<mode, waiting, cur, ask, target, entry>>
        BY <2>2 DEF Watch, Wake, BeginScan
      <3> QED BY <3>1, <3>2, <3>3
    <2>3. CASE Crash
      BY <2>3 DEF Crash
    <2>4. CASE \E i \in Ids \cup {Nobody} : Command(i)
      BY <2>4 DEF Command
    <2> QED BY <2>1, <2>2, <2>3, <2>4
  <1>3. Placed'
    <2>1. Based' /\ Placed
      BY <1>1, DiskSame DEF Inv, hist
    <2>2. CASE Start \/ Wake
      BY <1>1, <2>1, <2>2 DEF Start, Wake, Placed, Rejoined, Bound, disk
    <2>3. CASE BeginScan \/ Crash \/ \E i \in Ids \cup {Nobody} : Command(i)
      BY <2>1, <2>3 DEF BeginScan, Crash, Command, Placed, Rejoined, AtIssuance,
                        AtEntry, Artifacts
    <2> QED BY <2>2, <2>3 DEF Watch
  <1> QED BY <1>1, <1>2, <1>3, DiskSame DEF Inv, TypeOK, hist

\* A job that gets the mutex has a request; a command has a target.
LEMMA AdmissionInv ==
  ASSUME Inv, NEW p \in Permits, Acquire(p) \/ \E r \in Requests : Admit(p, r)
  PROVE  Inv'
PROOF
  <1>1. UNCHANGED <<disk, hist>>
    BY DEF Acquire, Admit
  <1>2. RunTypes'
    BY DEF Inv, TypeOK, RunTypes, Acquire, Admit
  <1>3. Placed'
    <2>1. Based' /\ Placed
      BY <1>1, DiskSame DEF Inv, hist
    <2>2. CASE Acquire(p)
      BY <2>1, <2>2 DEF Acquire, Inv, TypeOK, RunTypes, Placed, Rejoined, AtIssuance,
                        AtEntry, Artifacts
    <2>3. CASE \E r \in Requests : Admit(p, r)
      BY <1>1, <2>1, <2>3 DEF Admit, Placed, Rejoined, Bound, disk
    <2> QED BY <2>2, <2>3
  <1> QED BY <1>1, <1>2, <1>3, DiskSame DEF Inv, TypeOK, hist

-----------------------------------------------------------------------------
(* issue().                                                                 *)

\* What the lookup knows: a request, and whose mapping its key has.
LEMMA LookupFacts ==
  ASSUME Inv, pc = "lookup"
  PROVE  /\ ask \in Requests /\ ask.key \in Keys /\ ask.csr \in Csrs
         /\ idem[ask.key].st = "final" => idem[ask.key].by \in Ids
PROOF
  BY DEF Inv, Placed, Requests, TypeOK, DiskTypes, Slot

\* A replay changes nothing but the answers.
LEMMA ReplayInv ==
  ASSUME Inv, Replay
  PROVE  Inv'
PROOF
  <1>1. UNCHANGED <<disk, signed, faults>> /\ Done
    BY DEF Replay
  <1>2. DiskTypes' /\ Based' /\ SignedIsReserved'
    BY <1>1, DiskSame
  <1>3. RunTypes' /\ Placed'
    BY <1>1, <1>2, DoneTypes, EndPlaced DEF Inv, TypeOK
  <1>4. answers' \subseteq [key : Keys, csr : Csrs, id : Ids, status : {200, 201}]
    BY LookupFacts DEF Replay, Answer, Inv, TypeOK
  <1> QED BY <1>1, <1>2, <1>3, <1>4 DEF Inv, TypeOK

\* The issuance found by its key is there, and is for that key.
LEMMA MatchIsActive ==
  ASSUME NEW k, Matches(k) # {}
  PROVE  /\ First(Matches(k)) \in Ids /\ dir[First(Matches(k))] = "active"
         /\ meta[First(Matches(k))].key = k
PROOF
  <1>1. Matches(k) \in SUBSET Nat
    BY IdsAssumption DEF Matches, Active
  <1> QED BY <1>1, FirstIsElement DEF Matches, Active

\* A committed issuance is rejoined only by the request it is for.
LEMMA RejoinInv ==
  ASSUME Inv, Rejoin
  PROVE  Inv'
PROOF
  <1> DEFINE i == First(Matches(ask.key))
  <1>1. UNCHANGED <<disk, hist>> /\ pc = "lookup" /\ Matches(ask.key) # {}
    BY DEF Rejoin, Unmapped
  <1>2. DiskTypes' /\ Based' /\ SignedIsReserved'
    BY <1>1, DiskSame DEF hist
  <1>3. i \in Ids /\ dir[i] = "active" /\ meta[i].key = ask.key
    BY <1>1, MatchIsActive
  <1>4. CASE SameRequest(i) /\ files[i].commit = "final"
    <2> HIDE DEF i
    <2>1. /\ pc' = "complete" /\ goal' = "replay" /\ cur' = i
          /\ UNCHANGED <<mode, ready, alert, waiting, ask, target, entry>>
      BY <1>4 DEF Rejoin, i
    <2>2. RunTypes'
      BY <2>1, <1>3 DEF RunTypes, Inv, TypeOK, Owners, AtIssuance, Artifacts
    <2>3. Placed'
      BY <1>1, <1>2, <1>3, <1>4, <2>1, LookupFacts
         DEF Placed, Rejoined, AtIssuance, AtEntry, Artifacts, SameRequest, disk
    <2> QED BY <1>1, <1>2, <2>2, <2>3 DEF Inv, TypeOK, hist
  <1>5. CASE ~(SameRequest(i) /\ files[i].commit = "final")
    <2>1. Done
      BY <1>5 DEF Rejoin
    <2> QED BY <1>1, <1>2, <2>1, DoneTypes, EndPlaced DEF Inv, TypeOK, hist
  <1> QED BY <1>4, <1>5

\* A new issuance takes a directory nobody has, so it disturbs no other.
LEMMA CreateInv ==
  ASSUME Inv, Create
  PROVE  Inv'
PROOF
  <1>1. PICK i \in Ids, s \in Serials :
          /\ dir[i] = "none"
          /\ dir' = [dir EXCEPT ![i] = "active"]
          /\ meta' = [meta EXCEPT ![i] = [key |-> ask.key, csr |-> ask.csr, serial |-> s]]
          /\ cur' = i
    BY DEF Create
  <1>2. /\ pc = "lookup" /\ pc' = "intent"
        /\ UNCHANGED <<files, resv, idem, audit, tail, quars, mode, ready, alert,
                       waiting, goal, ask, target, entry, hist>>
    BY DEF Create, Unmapped
  <1>3. [key |-> ask.key, csr |-> ask.csr, serial |-> s] \in Metas
    BY <1>2, LookupFacts DEF Metas
  <1>4. TypeOK'
    <2>1. DiskTypes'
      BY <1>1, <1>2, <1>3 DEF Inv, TypeOK, DiskTypes
    <2>2. RunTypes'
      BY <1>1, <1>2 DEF Inv, TypeOK, RunTypes, Owners, AtIssuance, Artifacts
    <2> QED BY <1>2, <2>1, <2>2 DEF Inv, TypeOK, hist
  <1>5. Based'
    BY <1>1, <1>2, <1>3 DEF Inv, TypeOK, DiskTypes, Slot, Placed, Based, hist
  <1>6. Placed'
    BY <1>1, <1>2, <1>5, LookupFacts
       DEF Inv, TypeOK, DiskTypes, Placed, Rejoined, AtIssuance, AtEntry, Artifacts
  <1>7. SignedIsReserved'
    BY <1>1, <1>2 DEF Inv, TypeOK, DiskTypes, Placed, Based, SignedIsReserved, hist
  <1> QED BY <1>4, <1>6, <1>7 DEF Inv

\* Only the files of the current issuance change, and no invariant but their
\* type speaks of them.
LEMMA PublishInv ==
  ASSUME Inv, NEW f \in Artifacts, Publish(f)
  PROVE  Inv'
PROOF
  <1>1. /\ pc = f /\ cur \in Ids
        /\ UNCHANGED <<dir, meta, resv, idem, audit, tail, quars, answers, signed>>
    BY DEF Publish, Inv, Placed, AtIssuance
  <1>2. files' \in [Ids -> [Artifacts -> FileStates]]
    <2>1. CASE UNCHANGED files
      BY <1>1, <2>1 DEF Inv, TypeOK, DiskTypes
    <2>2. CASE files' = [files EXCEPT ![cur][f] = "final"]
      BY <1>1, <2>2 DEF Inv, TypeOK, DiskTypes, FileStates
    <2>3. CASE \E st \in Residues(files[cur][f]) : files' = [files EXCEPT ![cur][f] = st]
      BY <1>1, <2>3, ResidueType DEF Inv, TypeOK, DiskTypes
    <2> QED BY <2>1, <2>2, <2>3 DEF Publish
  <1>3. DiskTypes'
    BY <1>1, <1>2 DEF Inv, TypeOK, DiskTypes
  <1>4. Based' /\ SignedIsReserved'
    BY <1>1 DEF Inv, Placed, Based, SignedIsReserved
  <1>5. RunTypes' /\ Placed'
    <2>1. CASE Fails
      BY <1>4, <2>1, FailsTypes, EndPlaced DEF Inv, TypeOK
    <2>2. CASE Goto(After[f])
      <3>1. After[f] \in AtIssuance \cup {"next"} /\ After[f] \notin {"sign", "audit", "marker"}
        BY DEF After, Artifacts, AtIssuance
      <3>2. RunTypes'
        BY <2>2, <3>1, GotoTypes DEF Inv, TypeOK
      <3>3. After[f] = "next" => f = "marker"
        BY DEF After, Artifacts
      <3>4. Placed'
        BY <1>1, <1>4, <2>2, <3>1, <3>3
           DEF Goto, Inv, Placed, Rejoined, Bound, AtIssuance, AtEntry, Artifacts
      <3> QED BY <3>2, <3>4
    <2> QED BY <2>1, <2>2 DEF Publish
  <1>6. faults' \in Nat
    BY DEF Publish, NoFault, Fault, Inv, TypeOK
  <1> QED BY <1>1, <1>3, <1>4, <1>5, <1>6 DEF Inv, TypeOK

\* A reservation that has its final name is never given to another issuance.
LEMMA ReserveInv ==
  ASSUME Inv, Reserve
  PROVE  Inv'
PROOF
  <1> DEFINE s == meta[cur].serial
  <1>1. /\ pc = "reserve" /\ cur \in Ids /\ s \in Serials
        /\ UNCHANGED <<dir, meta, files, idem, audit, tail, quars, answers, signed>>
    BY DEF Reserve, Inv, Placed, Based, AtIssuance, Metas
  <1>2. PICK r \in Slot :
          /\ resv' = [resv EXCEPT ![s] = r]
          /\ r = resv[s] \/ (Fits(resv[s], cur) /\ \E st \in FileStates : r = SlotOf(st, cur))
          /\ \/ Goto("sign") /\ r = SlotOf("final", cur)
             \/ Fails
    <2>1. resv \in [Serials -> Slot] /\ resv[s] \in Slot /\ resv[s].st \in FileStates
      BY <1>1 DEF Inv, TypeOK, DiskTypes, Slot
    <2>2. CASE UNCHANGED resv /\ Fails
      BY <2>1, <2>2
    <2>3. CASE /\ Fits(resv[s], cur) /\ Goto("sign")
               /\ resv' = [resv EXCEPT ![s] = SlotOf("final", cur)]
      BY <1>1, <2>3, SlotOfType DEF FileStates
    <2>4. CASE /\ Fits(resv[s], cur) /\ Fails
               /\ \E st \in Residues(resv[s].st) :
                    resv' = [resv EXCEPT ![s] = SlotOf(st, cur)]
      BY <1>1, <2>1, <2>4, SlotOfType, ResidueType
    <2> QED BY <2>2, <2>3, <2>4 DEF Reserve
  <1>3. DiskTypes'
    BY <1>1, <1>2 DEF Inv, TypeOK, DiskTypes
  <1>4. Based'
    BY <1>1 DEF Inv, Placed, Based
  <1>5. SignedIsReserved'
    <2>1. Fits(resv[s], cur) => resv[s].st # "final"
      BY DEF Fits, SlotOf
    <2>2. \A i \in signed : resv[meta[i].serial].st = "final"
      <3>1. \A i \in signed : SlotOf("final", i).st = "final"
        BY DEF SlotOf
      <3> QED BY <3>1 DEF Inv, SignedIsReserved
    <2> HIDE DEF s
    <2> QED BY <1>1, <1>2, <2>1, <2>2 DEF Inv, SignedIsReserved, TypeOK, DiskTypes
  <1>6. RunTypes' /\ Placed'
    <2>1. CASE Fails
      BY <1>4, <2>1, FailsTypes, EndPlaced DEF Inv, TypeOK
    <2>2. CASE Goto("sign") /\ resv' = [resv EXCEPT ![s] = SlotOf("final", cur)]
      <3>1. RunTypes'
        BY <2>2, GotoTypes DEF Inv, TypeOK, AtIssuance
      <3>2. resv'[s] = SlotOf("final", cur)
        BY <1>1, <2>2 DEF Inv, TypeOK, DiskTypes
      <3>3. Placed'
        BY <1>1, <1>4, <2>2, <3>2
           DEF Goto, Inv, Placed, Rejoined, AtIssuance, AtEntry, Artifacts
      <3> QED BY <3>1, <3>3
    <2> QED BY <1>2, <2>1, <2>2
  <1>7. faults' \in Nat
    BY DEF Reserve, NoFault, Fault, Inv, TypeOK
  <1> QED BY <1>1, <1>3, <1>5, <1>6, <1>7 DEF Inv, TypeOK

\* The serial is reserved when the key signs.
LEMMA SignInv ==
  ASSUME Inv, Sign
  PROVE  Inv'
PROOF
  <1>1. /\ pc = "sign" /\ cur \in Ids /\ dir[cur] # "none"
        /\ signed' = signed \cup {cur} /\ UNCHANGED <<disk, answers>>
        /\ resv[meta[cur].serial] = SlotOf("final", cur)
    BY DEF Sign, Inv, Placed, AtIssuance
  <1>2. DiskTypes' /\ Based' /\ SignedIsReserved'
    BY <1>1 DEF Inv, TypeOK, DiskTypes, Placed, Based, SignedIsReserved, disk
  <1>3. RunTypes' /\ Placed'
    <2>1. CASE Fails
      BY <1>2, <2>1, FailsTypes, EndPlaced DEF Inv, TypeOK
    <2>2. CASE Goto("cert")
      BY <1>1, <1>2, <2>2, GotoTypes
         DEF Goto, Inv, TypeOK, Placed, Rejoined, AtIssuance, AtEntry, Artifacts, disk
    <2> QED BY <2>1, <2>2 DEF Sign
  <1>4. faults' \in Nat
    BY DEF Sign, NoFault, Fault, Inv, TypeOK
  <1> QED BY <1>1, <1>2, <1>3, <1>4 DEF Inv, TypeOK

\* A mapping is never given to another issuance.
LEMMA PublishMappingSlot ==
  ASSUME Inv, PublishMapping
  PROVE  /\ cur \in Ids /\ dir[cur] # "none" /\ meta[cur].key \in Keys
         /\ \E r \in Slot :
              /\ idem' = [idem EXCEPT ![meta[cur].key] = r]
              /\ \/ r = idem[meta[cur].key]
                 \/ /\ idem[meta[cur].key].st # "final"
                    /\ \E st \in FileStates : r = SlotOf(st, cur)
              /\ \/ Goto("audit") /\ r = SlotOf("final", cur)
                 \/ Fails
PROOF
  <1> DEFINE k == meta[cur].key
  <1>1. cur \in Ids /\ dir[cur] # "none" /\ k \in Keys
    BY DEF PublishMapping, Inv, Placed, Based, AtIssuance, Metas
  <1>2. idem \in [Keys -> Slot] /\ idem[k] \in Slot /\ idem[k].st \in FileStates
    BY <1>1 DEF Inv, TypeOK, DiskTypes, Slot
  <1>3. Fits(idem[k], cur) => idem[k].st # "final"
    BY DEF Fits, SlotOf
  <1>4. CASE /\ FitsExactly(idem[k], cur) /\ Goto("audit")
             /\ idem' = [idem EXCEPT ![k] = SlotOf("final", cur)]
    <2>1. SlotOf("final", cur) \in Slot /\ "final" \in FileStates
      BY <1>1, SlotOfType DEF FileStates
    <2> QED BY <1>1, <1>3, <1>4, <2>1 DEF FitsExactly
  <1>5. CASE UNCHANGED idem /\ Fails
    BY <1>1, <1>2, <1>5
  <1>6. CASE /\ Fits(idem[k], cur) /\ Fails
             /\ \E st \in Residues(idem[k].st) : idem' = [idem EXCEPT ![k] = SlotOf(st, cur)]
    BY <1>1, <1>2, <1>3, <1>6, SlotOfType, ResidueType
  <1> QED BY <1>4, <1>5, <1>6 DEF PublishMapping

\* A mapping is published by the issuance that is for its key.
LEMMA PublishMappingInv ==
  ASSUME Inv, PublishMapping
  PROVE  Inv'
PROOF
  <1> DEFINE k == meta[cur].key
  <1>1. /\ pc = "mapping" /\ cur \in Ids /\ dir[cur] # "none" /\ k \in Keys
        /\ UNCHANGED <<dir, meta, files, resv, audit, tail, quars, answers, signed>>
    BY PublishMappingSlot DEF PublishMapping
  <1>2. PICK r \in Slot :
          /\ idem' = [idem EXCEPT ![k] = r]
          /\ r = idem[k] \/ \E st \in FileStates : r = SlotOf(st, cur)
          /\ (Goto("audit") /\ r = SlotOf("final", cur)) \/ Fails
    BY PublishMappingSlot
  <1>3. DiskTypes'
    BY <1>1, <1>2 DEF Inv, TypeOK, DiskTypes
  <1>4. Based' /\ SignedIsReserved'
    <2>1. r.st = "final" => r = idem[k] \/ r.by = cur
      BY <1>2 DEF SlotOf
    <2>2. \A x \in Keys : idem'[x].st = "final" => idem'[x] = idem[x] \/ (x = k /\ idem'[x].by = cur)
      BY <1>1, <1>2, <2>1 DEF Inv, TypeOK, DiskTypes
    <2>3. \A x \in Keys : idem'[x].st = "final" =>
            dir[idem'[x].by] # "none" /\ meta[idem'[x].by].key = x
      BY <1>1, <2>2 DEF Inv, Placed, Based
    <2> QED BY <1>1, <2>3 DEF Inv, Placed, Based, SignedIsReserved
  <1>5. RunTypes' /\ Placed'
    <2>1. CASE Fails
      BY <1>4, <2>1, FailsTypes, EndPlaced DEF Inv, TypeOK
    <2>2. CASE Goto("audit") /\ r = SlotOf("final", cur)
      <3>1. RunTypes'
        BY <2>2, GotoTypes DEF Inv, TypeOK, AtIssuance
      <3>2. Bound(cur)'
        BY <1>1, <1>2, <2>2 DEF Goto, Bound, Inv, TypeOK, DiskTypes
      <3>3. Placed'
        BY <1>1, <1>4, <2>2, <3>2
           DEF Goto, Inv, Placed, Rejoined, AtIssuance, AtEntry, Artifacts
      <3> QED BY <3>1, <3>3
    <2> QED BY <1>2, <2>1, <2>2
  <1>6. faults' \in Nat
    BY DEF PublishMapping, NoFault, Fault, Inv, TypeOK
  <1> QED BY <1>1, <1>3, <1>4, <1>5, <1>6 DEF Inv, TypeOK

\* The audit chain holds events, and its staging file one of them or nothing.
LEMMA AppendTypes ==
  ASSUME DiskTypes, NEW e \in Events, Append1(e)
  PROVE  audit' \in Seq(Events) /\ tail' \in Tails
PROOF
  <1>1. NoSlot \in Tails
    BY DEF NoSlot, Tails, FileStates
  <1>2. tail.st \in FileStates /\ tail \in Tails /\ audit \in Seq(Events)
    BY DEF DiskTypes, Tails
  <1>3. \A st \in FileStates : st # "final" => SlotOf(st, e) \in Tails
    BY DEF SlotOf, Tails, FileStates
  <1>4. Append(audit, e) \in Seq(Events)
    BY <1>2
  <1> QED BY <1>1, <1>2, <1>3, <1>4, ResidueType DEF Append1

\* An issuance is logged only once its key has its mapping.
LEMMA LogIssuanceInv ==
  ASSUME Inv, LogIssuance
  PROVE  Inv'
PROOF
  <1>1. /\ pc = "audit" /\ cur \in Ids /\ Bound(cur)
        /\ UNCHANGED <<dir, meta, files, resv, idem, quars, answers, signed>>
    BY DEF LogIssuance, Inv, Placed, AtIssuance
  <1>2. audit' \in Seq(Events) /\ tail' \in Tails
    <2>1. Issued(cur) \in Events
      BY <1>1 DEF Issued, Events
    <2>2. CASE UNCHANGED <<audit, tail>>
      BY <2>2 DEF Inv, TypeOK, DiskTypes
    <2>3. CASE Append1(Issued(cur))
      BY <2>1, <2>3, AppendTypes DEF Inv, TypeOK
    <2> QED BY <2>2, <2>3 DEF LogIssuance
  <1>3. DiskTypes' /\ Based' /\ SignedIsReserved'
    BY <1>1, <1>2 DEF Inv, TypeOK, DiskTypes, Placed, Based, SignedIsReserved
  <1>4. RunTypes' /\ Placed'
    <2>1. CASE Fails
      BY <1>3, <2>1, FailsTypes, EndPlaced DEF Inv, TypeOK
    <2>2. CASE Goto("marker")
      <3>1. RunTypes'
        BY <2>2, GotoTypes DEF Inv, TypeOK, AtIssuance, Artifacts
      <3>2. Placed'
        BY <1>1, <1>3, <2>2
           DEF Goto, Inv, Placed, Rejoined, Bound, AtIssuance, AtEntry, Artifacts
      <3> QED BY <3>1, <3>2
    <2> QED BY <2>1, <2>2 DEF LogIssuance
  <1>5. faults' \in Nat
    BY DEF LogIssuance, Append1, NoFault, Fault, Inv, TypeOK
  <1> QED BY <1>1, <1>3, <1>4, <1>5 DEF Inv, TypeOK

\* What is answered at the end of a transaction is what the key is bound to.
LEMMA ReplyFacts ==
  ASSUME Inv, Reply
  PROVE  /\ ask \in Requests /\ cur \in Ids /\ idem[ask.key] = SlotOf("final", cur)
         /\ meta[cur].csr = ask.csr
         /\ \E status \in {200, 201} : Answer(cur, status)
PROOF
  <1>1. Rejoined /\ pc = "next"
    BY DEF Reply, Rejoined
  <1>2. /\ ask \in Requests /\ cur \in Ids /\ meta[cur].key = ask.key
        /\ meta[cur].csr = ask.csr /\ Bound(cur)
    BY <1>1 DEF Inv, Placed
  <1>3. idem[ask.key] = SlotOf("final", cur) /\ idem[ask.key].by = cur
    BY <1>2 DEF Bound, SlotOf
  <1> QED BY <1>2, <1>3 DEF Reply

\* An answer names a certificate for the request it answers.
LEMMA ReplyInv ==
  ASSUME Inv, Reply
  PROVE  Inv'
PROOF
  <1>1. UNCHANGED <<disk, signed, faults>> /\ Done
    BY DEF Reply
  <1>2. DiskTypes' /\ Based' /\ SignedIsReserved'
    BY <1>1, DiskSame
  <1>3. RunTypes' /\ Placed'
    BY <1>1, <1>2, DoneTypes, EndPlaced DEF Inv, TypeOK
  <1>4. answers' \subseteq [key : Keys, csr : Csrs, id : Ids, status : {200, 201}]
    BY ReplyFacts DEF Answer, Requests, Inv, TypeOK
  <1> QED BY <1>1, <1>2, <1>3, <1>4 DEF Inv, TypeOK

-----------------------------------------------------------------------------
(* The scan.                                                                *)

\* The walk over the staging files gives one intent or one reservation its name,
\* unless that fails, and changes nothing else.
LEMMA PendingsFacts ==
  ASSUME Inv, ScanPendings
  PROVE  /\ pc = "pendings" /\ goal = "scan" /\ faults' \in Nat
         /\ UNCHANGED <<dir, meta, idem, audit, tail, quars, answers, signed>>
         /\ Fails \/ Goto("next") \/ Goto("pendings")
         /\ \/ UNCHANGED files
            \/ \E i \in Active, st \in FileStates :
                 /\ files[i].intent = "staged"
                 /\ files' = [files EXCEPT ![i].intent = st]
         /\ \/ UNCHANGED resv
            \/ \E s \in Serials, i \in Active, st \in FileStates :
                 /\ UNCHANGED files /\ BoundTo(i, s)
                 /\ resv' = [resv EXCEPT ![s] = SlotOf(st, i)]
PROOF
  <1>1. "final" \in FileStates /\ Residues("staged") \subseteq FileStates
    BY ResidueType DEF FileStates
  <1>2. pc = "pendings" => goal = "scan"
    BY DEF Inv, Placed
  <1>3. faults \in Nat
    BY DEF Inv, TypeOK
  <1>4. CASE NameIntent
    <2>1. /\ pc = "pendings" /\ (Fails \/ Goto("pendings"))
          /\ UNCHANGED <<dir, meta, resv, idem, audit, tail, quars, answers, signed>>
          /\ NoFault \/ Fault
      BY <1>4 DEF NameIntent
    <2>2. PICK i : i = First(StagedIntents)
      OBVIOUS
    <2>3. i \in Active
      <3>1. StagedIntents # {}
        BY <1>4 DEF NameIntent
      <3>2. StagedIntents \in SUBSET Nat
        BY IdsAssumption DEF StagedIntents, Active
      <3> QED BY <2>2, <3>1, <3>2, FirstIsElement DEF StagedIntents
    <2>4. \/ UNCHANGED files
          \/ /\ files[i].intent = "staged"
             /\ \E st \in FileStates : files' = [files EXCEPT ![i].intent = st]
      BY <1>1, <1>4, <2>2 DEF NameIntent
    <2>5. faults' \in Nat
      BY <1>3, <2>1 DEF NoFault, Fault
    <2>6. UNCHANGED files \/ \E n \in Active, st \in FileStates :
                               /\ files[n].intent = "staged"
                               /\ files' = [files EXCEPT ![n].intent = st]
      BY <2>3, <2>4
    <2> QED BY <1>2, <2>1, <2>5, <2>6
  <1>5. CASE NameReservation
    <2>1. /\ pc = "pendings" /\ (Fails \/ Goto("pendings"))
          /\ UNCHANGED <<dir, meta, files, idem, audit, tail, quars, answers, signed>>
          /\ NoFault \/ Fault
      BY <1>5 DEF NameReservation
    <2>2. PICK s : s = First(Staged)
      OBVIOUS
    <2>3. s \in Serials
      <3>1. Staged # {}
        BY <1>5 DEF NameReservation
      <3>2. Staged \in SUBSET Nat
        BY IdsAssumption DEF Staged
      <3> QED BY <2>2, <3>1, <3>2, FirstIsElement DEF Staged
    <2>4. \/ UNCHANGED resv
          \/ \E i \in Active, st \in FileStates :
               BoundTo(i, s) /\ resv' = [resv EXCEPT ![s] = SlotOf(st, i)]
      BY <1>1, <1>5, <2>2 DEF NameReservation
    <2>5. faults' \in Nat
      BY <1>3, <2>1 DEF NoFault, Fault
    <2>6. UNCHANGED resv \/ \E z \in Serials, i \in Active, st \in FileStates :
                               /\ UNCHANGED files /\ BoundTo(i, z)
                               /\ resv' = [resv EXCEPT ![z] = SlotOf(st, i)]
      BY <2>1, <2>3, <2>4
    <2> QED BY <1>2, <2>1, <2>5, <2>6
  <1>6. CASE EndPendings
    BY <1>2, <1>3, <1>6 DEF EndPendings, NoFault, Fault, disk
  <1> QED BY <1>4, <1>5, <1>6 DEF ScanPendings

\* A scan gives staged reservations their names; none that has one changes.
LEMMA PendingsKeepReservations ==
  ASSUME Inv, ScanPendings
  PROVE  /\ resv' \in [Serials -> Slot]
         /\ \A s \in Serials : resv[s].st = "final" => resv'[s] = resv[s]
PROOF
  <1>1. resv \in [Serials -> Slot]
    BY DEF Inv, TypeOK, DiskTypes
  <1>2. CASE UNCHANGED resv
    BY <1>1, <1>2
  <1>3. CASE \E s \in Serials, i \in Active, st \in FileStates :
               BoundTo(i, s) /\ resv' = [resv EXCEPT ![s] = SlotOf(st, i)]
    <2>1. PICK s \in Serials, i \in Active, st \in FileStates :
                 BoundTo(i, s) /\ resv' = [resv EXCEPT ![s] = SlotOf(st, i)]
      BY <1>3
    <2>2. SlotOf(st, i) \in Slot
      BY <2>1, SlotOfType DEF Active
    <2>3. resv[s].st # "final"
      BY <2>1 DEF BoundTo, SlotOf
    <2> QED BY <1>1, <2>1, <2>2, <2>3
  <1> QED BY <1>2, <1>3, PendingsFacts

\* The walk over the staging files keeps the invariant.
LEMMA ScanPendingsInv ==
  ASSUME Inv, ScanPendings
  PROVE  Inv'
PROOF
  <1>1. /\ pc = "pendings" /\ goal = "scan" /\ faults' \in Nat
        /\ UNCHANGED <<dir, meta, idem, audit, tail, quars, answers, signed>>
    BY PendingsFacts
  <1>2. files' \in [Ids -> [Artifacts -> FileStates]]
    <2>1. files \in [Ids -> [Artifacts -> FileStates]]
      BY DEF Inv, TypeOK, DiskTypes
    <2>2. CASE \E i \in Active, st \in FileStates : files' = [files EXCEPT ![i].intent = st]
      BY <2>1, <2>2 DEF Active, Artifacts
    <2> QED BY <2>1, <2>2, PendingsFacts
  <1>3. DiskTypes' /\ Based'
    BY <1>1, <1>2, PendingsKeepReservations DEF Inv, TypeOK, DiskTypes, Placed, Based
  <1>4. SignedIsReserved'
    <2>1. \A i \in signed : /\ meta[i].serial \in Serials
                            /\ SlotOf("final", i).st = "final"
      BY DEF Inv, TypeOK, Placed, Based, Metas, SlotOf
    <2> QED BY <1>1, <2>1, PendingsKeepReservations DEF Inv, SignedIsReserved
  <1>5. RunTypes' /\ Placed'
    <2>1. CASE Fails
      BY <1>3, <2>1, FailsTypes, EndPlaced DEF Inv, TypeOK
    <2>2. ASSUME NEW next \in {"next", "pendings"}, Goto(next)
          PROVE  RunTypes' /\ Placed'
      <3>1. RunTypes'
        BY <2>2, GotoTypes DEF Inv, TypeOK
      <3>2. Placed'
        BY <1>1, <1>3, <2>2
           DEF Goto, Placed, Rejoined, AtIssuance, AtEntry, Artifacts
      <3> QED BY <3>1, <3>2
    <2> QED BY <2>1, <2>2, PendingsFacts
  <1> QED BY <1>1, <1>3, <1>4, <1>5 DEF Inv, TypeOK

\* The scan visits issuances that are there.
LEMMA ScanNextInv ==
  ASSUME Inv, ScanNext
  PROVE  Inv'
PROOF
  <1>1. UNCHANGED <<disk, hist>> /\ pc = "next" /\ goal = "scan"
    BY DEF ScanNext
  <1>2. DiskTypes' /\ Based' /\ SignedIsReserved'
    BY <1>1, DiskSame DEF hist
  <1>3. CASE Goto("validate")
    BY <1>1, <1>2, <1>3, GotoTypes
       DEF Goto, Inv, TypeOK, Placed, Rejoined, AtIssuance, AtEntry, Artifacts, hist
  <1>4. CASE Unvisited # {} /\ pc' = "complete"
    <2>1. First(Unvisited) \in Unvisited
      <3>1. Unvisited \in SUBSET Nat
        BY IdsAssumption DEF Unvisited, Active
      <3> QED BY <1>4, <3>1, FirstIsElement
    <2>2. cur' = First(Unvisited)
          /\ UNCHANGED <<mode, ready, alert, waiting, goal, ask, target, entry>>
      BY <1>4 DEF ScanNext, Goto, Fails, Done
    <2>3. cur' \in Ids /\ dir[cur'] = "active"
      BY <2>1, <2>2 DEF Unvisited, Active
    <2>4. RunTypes'
      BY <1>4, <2>2, <2>3 DEF RunTypes, Inv, TypeOK, Owners, AtIssuance, Artifacts
    <2>5. Placed'
      BY <1>1, <1>2, <1>4, <2>2, <2>3
         DEF Placed, Rejoined, AtIssuance, AtEntry, Artifacts, disk
    <2> QED BY <1>1, <1>2, <2>4, <2>5 DEF Inv, TypeOK, hist
  <1>5. CASE Fails
    BY <1>1, <1>2, <1>5, FailsTypes, EndPlaced DEF Inv, TypeOK, hist
  <1> QED BY <1>3, <1>4, <1>5 DEF ScanNext

\* The end of the scan changes readiness only.
LEMMA ScanValidateInv ==
  ASSUME Inv, ScanValidate
  PROVE  Inv'
PROOF
  <1>1. UNCHANGED <<disk, hist>>
    BY DEF ScanValidate
  <1>2. DiskTypes' /\ Based' /\ SignedIsReserved'
    BY <1>1, DiskSame DEF hist
  <1>3. CASE /\ ready' = TRUE /\ pc' = "free" /\ goal' = "none" /\ cur' = Nobody
             /\ UNCHANGED <<mode, alert, waiting, ask, target, entry>>
    <2>1. RunTypes'
      BY <1>3 DEF RunTypes, Inv, TypeOK, Owners
    <2> QED BY <1>1, <1>2, <1>3, <2>1, EndPlaced DEF Inv, TypeOK, hist
  <1>4. CASE Fails
    BY <1>1, <1>2, <1>4, FailsTypes, EndPlaced DEF Inv, TypeOK, hist
  <1> QED BY <1>3, <1>4 DEF ScanValidate

-----------------------------------------------------------------------------
(* Quarantine.                                                              *)

\* What is picked from a set of serials is one of them, or nobody.
LEMMA PickType ==
  ASSUME NEW S \in SUBSET Serials
  PROVE  /\ Pick(S) \in Serials \cup {Nobody}
         /\ \A s \in Serials : Pick(S) = s => s \in S
PROOF
  <1>1. S # {} => First(S) \in S
    BY IdsAssumption, FirstIsElement
  <1> QED BY <1>1, NobodyAssumption DEF Pick

\* The entry of a quarantine is made once its checks have passed; what it will
\* remove is a reservation without a final name.
LEMMA QCheckInv ==
  ASSUME Inv, QCheck
  PROVE  Inv'
PROOF
  <1>1. /\ pc = "qcheck" /\ target \in Ids
        /\ UNCHANGED <<dir, meta, files, resv, idem, audit, tail, hist>>
    BY DEF QCheck, Inv, Placed
  <1>2. Based' /\ SignedIsReserved'
    BY <1>1 DEF Inv, Placed, Based, SignedIsReserved, hist
  <1>3. CASE Done /\ UNCHANGED quars
    <2>1. DiskTypes' 
      BY <1>1, <1>3 DEF Inv, TypeOK, DiskTypes
    <2> QED BY <1>1, <1>2, <1>3, <2>1, DoneTypes, EndPlaced DEF Inv, TypeOK, hist
  <1>4. CASE ~(Done /\ UNCHANGED quars)
    <2> DEFINE e == [id |-> target, serial |-> QuarantineSerial,
                     pend |-> Pick(OwnStaged), prepared |-> FALSE,
                     original |-> FALSE, copied |-> FALSE, done |-> FALSE]
    <2>1. PICK q \in Quars :
            /\ quars' = [quars EXCEPT ![q] = e]
            /\ entry' = q /\ pc' = "qprepare"
            /\ UNCHANGED <<mode, ready, alert, waiting, goal, cur, ask, target>>
      BY <1>4 DEF QCheck
    <2>2. OwnStaged \in SUBSET Serials /\ \A s \in OwnStaged : resv[s].st \in Pending
      BY DEF OwnStaged, Staged
    <2>3. QuarantineSerial \in Serials \cup {Nobody}
      <3>1. CASE IntentKnown
        BY <1>1, <3>1
           DEF QuarantineSerial, IntentKnown, HasSource, Active, Inv, Placed, Based, Metas
      <3>2. CASE ~IntentKnown
        <4>1. Reserved \cup OwnStaged \in SUBSET Serials
          BY <2>2 DEF Reserved
        <4> QED BY <3>2, <4>1, PickType DEF QuarantineSerial
      <3> QED BY <3>1, <3>2
    <2>4. e \in Entries /\ \A s \in Serials : e.pend = s => resv[s].st \in Pending
      BY <1>1, <2>2, <2>3, PickType DEF Entries
    <2> HIDE DEF e
    <2>5. quars' \in [Quars -> Entries \cup {Nobody}] /\ quars'[q] = e
      BY <2>1, <2>4 DEF Inv, TypeOK, DiskTypes
    <2>6. DiskTypes' /\ RunTypes'
      BY <1>1, <2>1, <2>5 DEF Inv, TypeOK, DiskTypes, RunTypes, AtEntry
    <2>7. Placed'
      BY <1>1, <1>2, <2>1, <2>4, <2>5
         DEF Placed, Rejoined, AtIssuance, AtEntry, Artifacts
    <2> QED BY <1>1, <1>2, <2>6, <2>7 DEF Inv, TypeOK, hist
  <1> QED BY <1>3, <1>4

\* A write inside the entry changes neither which reservation it is about nor
\* anything outside it.
LEMMA QWriteInv ==
  ASSUME Inv,
         UNCHANGED <<meta, files, resv, idem, audit, answers, signed>>,
         pc \in AtEntry, faults' \in Nat, tail' \in Tails,
         dir' \in [Ids -> {"none", "active", "moved"}],
         \A i \in Ids : dir'[i] = "none" <=> dir[i] = "none",
         quars' \in [Quars -> Entries \cup {Nobody}],
         quars'[entry] \in Entries /\ quars'[entry].pend = quars[entry].pend,
         \/ Fails
         \/ \E next \in AtEntry : Goto(next) /\ (pc = "qclear" => next = "qdone")
                                  /\ (pc \in {"qdone", "qaudit"} => next = "qaudit")
  PROVE  Inv'
PROOF
  <1>1. DiskTypes' /\ SignedIsReserved'
    BY DEF Inv, TypeOK, DiskTypes, SignedIsReserved
  <1>2. Based'
    BY DEF Inv, TypeOK, DiskTypes, Slot, Placed, Based
  <1>3. RunTypes' /\ Placed'
    <2>1. CASE Fails
      BY <1>2, <2>1, FailsTypes, EndPlaced DEF Inv, TypeOK
    <2>2. ASSUME NEW next \in AtEntry, Goto(next),
                 pc = "qclear" => next = "qdone",
                 pc \in {"qdone", "qaudit"} => next = "qaudit"
          PROVE  RunTypes' /\ Placed'
      <3>1. RunTypes'
        BY <2>2, GotoTypes DEF Inv, TypeOK
      <3>2. Placed'
        BY <1>2, <2>2
           DEF Goto, Inv, Placed, Rejoined, AtIssuance, AtEntry, Artifacts
      <3> QED BY <3>1, <3>2
    <2> QED BY <2>1, <2>2
  <1> QED BY <1>1, <1>3 DEF Inv, TypeOK

\* A write inside the entry leaves an entry.
LEMMA QWriteTypes ==
  ASSUME Inv, pc \in AtEntry,
         NEW field \in {"prepared", "copied", "done"}, NEW next, QWrite(field, next)
  PROVE  /\ quars' \in [Quars -> Entries \cup {Nobody}]
         /\ quars'[entry] \in Entries /\ quars'[entry].pend = quars[entry].pend
         /\ faults' \in Nat
         /\ Fails \/ Goto(next)
PROOF
  <1>1. entry \in Quars /\ quars[entry] \in Entries
    BY DEF Inv, Placed
  <1>2. CASE UNCHANGED quars
    BY <1>1, <1>2 DEF QWrite, NoFault, Fault, Inv, TypeOK, DiskTypes
  <1>3. CASE quars' = [quars EXCEPT ![entry][field] = TRUE]
    <2> DEFINE e == [quars[entry] EXCEPT ![field] = TRUE]
    <2>1. e \in Entries /\ e.pend = quars[entry].pend
      BY <1>1 DEF Entries
    <2>2. quars' = [quars EXCEPT ![entry] = e]
      BY <1>3
    <2> HIDE DEF e
    <2>3. quars \in [Quars -> Entries \cup {Nobody}]
      BY DEF Inv, TypeOK, DiskTypes
    <2>4. faults' \in Nat /\ (Fails \/ Goto(next))
      BY DEF QWrite, NoFault, Fault, Inv, TypeOK
    <2> QED BY <1>1, <2>1, <2>2, <2>3, <2>4
  <1> QED BY <1>2, <1>3 DEF QWrite

\* The intent of a quarantine is written inside its entry.
LEMMA QPrepareInv ==
  ASSUME Inv, QPrepare
  PROVE  Inv'
PROOF
  <1>1. QWrite("prepared", "qmove") /\ pc = "qprepare"
        /\ UNCHANGED <<dir, meta, files, resv, idem, audit, tail, answers, signed>>
    BY DEF QPrepare
  <1> QED BY <1>1, QWriteInv, QWriteTypes DEF AtEntry, Inv, TypeOK, DiskTypes

\* A moved issuance is still not a free directory.
LEMMA QMoveInv ==
  ASSUME Inv, QMove
  PROVE  Inv'
PROOF
  <1>1. /\ pc = "qmove" /\ entry \in Quars /\ quars[entry] \in Entries
        /\ UNCHANGED <<meta, files, resv, idem, audit, tail, answers, signed>>
    BY DEF QMove, Inv, Placed, AtEntry
  <1>2. faults' \in Nat
    BY DEF QMove, NoFault, Fault, Inv, TypeOK
  <1>3. /\ dir' \in [Ids -> {"none", "active", "moved"}]
        /\ \A i \in Ids : dir'[i] = "none" <=> dir[i] = "none"
    BY DEF QMove, HasSource, Active, Inv, TypeOK, DiskTypes
  <1>4. /\ quars' \in [Quars -> Entries \cup {Nobody}]
        /\ quars'[entry] \in Entries /\ quars'[entry].pend = quars[entry].pend
    <2>1. CASE UNCHANGED quars
      BY <1>1, <2>1 DEF Inv, TypeOK, DiskTypes
    <2>2. CASE quars' = [quars EXCEPT ![entry].original = TRUE]
      <3> DEFINE e == [quars[entry] EXCEPT !.original = TRUE]
      <3>1. e \in Entries /\ e.pend = quars[entry].pend
        BY <1>1 DEF Entries
      <3>2. quars' = [quars EXCEPT ![entry] = e]
        BY <2>2
      <3>3. quars \in [Quars -> Entries \cup {Nobody}]
        BY DEF Inv, TypeOK, DiskTypes
      <3> HIDE DEF e
      <3> QED BY <1>1, <3>1, <3>2, <3>3
    <2> QED BY <2>1, <2>2 DEF QMove
  <1>5. Fails \/ Goto("qcopy")
    BY DEF QMove
  <1> QED BY <1>1, <1>2, <1>3, <1>4, <1>5, QWriteInv DEF AtEntry, Inv, TypeOK, DiskTypes

\* A copied reservation also stays where it is.
LEMMA QCopyInv ==
  ASSUME Inv, QCopy
  PROVE  Inv'
PROOF
  <1>1. /\ pc = "qcopy" /\ entry \in Quars /\ quars[entry] \in Entries
        /\ UNCHANGED <<dir, meta, files, resv, idem, audit, tail, answers, signed>>
    BY DEF QCopy, Inv, Placed, AtEntry
  <1>2. CASE NoFault /\ Goto("qclear") /\ UNCHANGED quars
    BY <1>1, <1>2, QWriteInv DEF AtEntry, Inv, TypeOK, DiskTypes, NoFault
  <1>3. CASE QWrite("copied", "qclear")
    BY <1>1, <1>3, QWriteInv, QWriteTypes DEF AtEntry, Inv, TypeOK, DiskTypes
  <1> QED BY <1>2, <1>3 DEF QCopy

\* Only a reservation without a final name is removed: none a signature needs.
LEMMA QClearInv ==
  ASSUME Inv, QClear
  PROVE  Inv'
PROOF
  <1> DEFINE s == quars[entry].pend
  <1>1. /\ pc = "qclear" /\ quars[entry] \in Entries
        /\ s \in Serials \cup {Nobody}
        /\ UNCHANGED <<dir, meta, files, idem, audit, tail, quars, answers, signed>>
    BY DEF QClear, Inv, Placed, AtEntry, Entries
  <1>2. /\ resv' \in [Serials -> Slot]
        /\ \A z \in Serials : resv[z].st = "final" => resv'[z] = resv[z]
    <2>1. CASE UNCHANGED resv
      BY <2>1 DEF Inv, TypeOK, DiskTypes
    <2>2. CASE s \in Serials /\ resv' = [resv EXCEPT ![s] = NoSlot]
      <3>1. NoSlot \in Slot
        BY DEF NoSlot, Slot, Owners, FileStates
      <3>2. resv[s].st # "final"
        BY <1>1, <2>2 DEF Inv, Placed, Pending
      <3> QED BY <2>2, <3>1, <3>2 DEF Inv, TypeOK, DiskTypes
    <2> QED BY <1>1, <2>1, <2>2 DEF QClear
  <1>3. DiskTypes' /\ Based'
    BY <1>1, <1>2 DEF Inv, TypeOK, DiskTypes, Placed, Based
  <1>4. SignedIsReserved'
    <2>1. \A i \in signed : /\ meta[i].serial \in Serials
                            /\ SlotOf("final", i).st = "final"
      BY DEF Inv, TypeOK, Placed, Based, Metas, SlotOf
    <2> QED BY <1>1, <1>2, <2>1 DEF Inv, SignedIsReserved
  <1>5. RunTypes' /\ Placed'
    <2>1. CASE Fails
      BY <1>3, <2>1, FailsTypes, EndPlaced DEF Inv, TypeOK
    <2>2. CASE Goto("qdone")
      BY <1>1, <1>3, <2>2, GotoTypes
         DEF Goto, Inv, TypeOK, Placed, Rejoined, AtIssuance, AtEntry, Artifacts
    <2> QED BY <2>1, <2>2 DEF QClear
  <1>6. faults' \in Nat
    BY DEF QClear, NoFault, Fault, Inv, TypeOK
  <1> QED BY <1>1, <1>3, <1>4, <1>5, <1>6 DEF Inv, TypeOK

\* The last record of a quarantine is written inside its entry.
LEMMA QDoneInv ==
  ASSUME Inv, QDone
  PROVE  Inv'
PROOF
  <1>1. QWrite("done", "qaudit") /\ pc = "qdone"
        /\ UNCHANGED <<dir, meta, files, resv, idem, audit, tail, answers, signed>>
    BY DEF QDone
  <1> QED BY <1>1, QWriteInv, QWriteTypes DEF AtEntry, Inv, TypeOK, DiskTypes

\* The audit record of a quarantine touches no issuance.
LEMMA QAuditInv ==
  ASSUME Inv, QAudit
  PROVE  Inv'
PROOF
  <1>1. /\ pc = "qaudit" /\ entry \in Quars /\ Done
        /\ UNCHANGED <<dir, meta, files, resv, idem, quars, answers, signed>>
    BY DEF QAudit, Inv, Placed, AtEntry
  <1>2. audit' \in Seq(Events) /\ tail' \in Tails
    <2>1. Quarantined(entry) \in Events
      BY <1>1 DEF Quarantined, Events
    <2> QED BY <2>1, AppendTypes DEF QAudit, Inv, TypeOK
  <1>3. DiskTypes' /\ Based' /\ SignedIsReserved'
    BY <1>1, <1>2 DEF Inv, TypeOK, DiskTypes, Placed, Based, SignedIsReserved
  <1>4. RunTypes' /\ Placed'
    BY <1>1, <1>3, DoneTypes, EndPlaced DEF Inv, TypeOK
  <1>5. faults' \in Nat
    BY DEF QAudit, Append1, NoFault, Fault, Inv, TypeOK
  <1> QED BY <1>1, <1>3, <1>4, <1>5 DEF Inv, TypeOK

-----------------------------------------------------------------------------
(* The invariant, and the theorems.                                         *)

\* The empty directory satisfies the invariant.
LEMMA InitInv == Init => Inv
PROOF
  <1> SUFFICES ASSUME Init PROVE Inv
    OBVIOUS
  <1>1. NoSlot \in Slot /\ NoSlot \in Tails /\ NoSlot.st = "absent"
    BY DEF NoSlot, Slot, Tails, Owners, FileStates
  <1>2. DiskTypes
    BY <1>1 DEF Init, DiskTypes, Blank, FileStates
  <1>3. RunTypes
    BY DEF Init, RunTypes, Owners
  <1>4. Placed
    BY <1>1 DEF Init, Placed, Based, Rejoined, AtIssuance, AtEntry, Artifacts
  <1> QED BY <1>2, <1>3, <1>4 DEF Inv, TypeOK, SignedIsReserved, Init

\* Every step keeps the invariant.
LEMMA NextInv == Inv /\ [Next]_vars => Inv'
PROOF
  <1> SUFFICES ASSUME Inv, [Next]_vars PROVE Inv'
    OBVIOUS
  <1>1. CASE UNCHANGED vars
    BY <1>1 DEF vars, disk, run, hist, Inv, TypeOK, DiskTypes, RunTypes, Placed, Based,
                Rejoined, Bound, SignedIsReserved
  <1>2. CASE Start \/ Watch \/ Crash \/ \E i \in Ids \cup {Nobody} : Command(i)
    BY <1>2, WatchInv
  <1>3. CASE \E p \in Permits : Acquire(p) \/ \E r \in Requests : Admit(p, r)
    BY <1>3, AdmissionInv
  <1>4. CASE Issue
    BY <1>4, ReplayInv, RejoinInv, CreateInv, ReserveInv, SignInv, ReplyInv DEF Issue
  <1>5. CASE Recover
    BY <1>5, PublishMappingInv, LogIssuanceInv, PublishInv DEF Recover
  <1>6. CASE Scan
    BY <1>6, ScanPendingsInv, ScanNextInv, ScanValidateInv DEF Scan
  <1>7. CASE Quarantine
    BY <1>7, QCheckInv, QPrepareInv, QMoveInv, QCopyInv, QClearInv, QDoneInv, QAuditInv
       DEF Quarantine
  <1> QED BY <1>1, <1>2, <1>3, <1>4, <1>5, <1>6, <1>7 DEF Next, Work

\* The invariant holds in every behaviour of the authority: across jobs, scans,
\* quarantines, faults and crashes.
THEOREM Invariance == Spec => []Inv
PROOF
  BY InitInv, NextInv, PTL DEF Spec

\* Every variable keeps its type.
THEOREM TypeCorrect == Spec => []TypeOK
PROOF
  <1>1. Inv => TypeOK
    BY DEF Inv
  <1> QED BY <1>1, Invariance, PTL

\* Whoever holds the mutex is at an issuance that exists, for the request that
\* started it; the serial is reserved before the key signs, the mapping is there
\* before the audit record and the answer, and a quarantine removes no reservation
\* that has its final name.
THEOREM PlacedAlways == Spec => []Placed
PROOF
  <1>1. Inv => Placed
    BY DEF Inv
  <1> QED BY <1>1, Invariance, PTL

\* Whatever the authority key signed has its serial reserved for ever by the
\* issuance it was signed for: no failure, crash, scan or quarantine releases it.
THEOREM SignedSerialsReserved == Spec => []SignedIsReserved
PROOF
  <1>1. Inv => SignedIsReserved
    BY DEF Inv
  <1> QED BY <1>1, Invariance, PTL

-----------------------------------------------------------------------------
(* The refinement of CertRegister.                                          *)

\* A step that changes no mapping and no intent of an existing issuance binds
\* nothing.
LEMMA BindingSame ==
  ASSUME Inv, UNCHANGED idem,
         \A i \in Ids : dir[i] # "none" => meta'[i] = meta[i]
  PROVE  Binding' = Binding
PROOF
  <1>1. \A k \in Keys : idem[k].st = "final" =>
          idem[k].by \in Ids /\ dir[idem[k].by] # "none"
    BY DEF Inv, TypeOK, DiskTypes, Slot, Placed, Based
  <1> QED BY <1>1 DEF Binding

\* A request is answered with what its key is bound to.
LEMMA AnswerHands ==
  ASSUME NEW i, NEW status \in {200, 201}, ask.key \in Keys, Answer(i, status),
         idem[ask.key].st = "final", idem[ask.key].by = i, meta[i].csr = ask.csr,
         i \in Ids, ask.csr \in Csrs, Binding' = Binding
  PROVE  Register!Hand(ask.key, status)
PROOF
  <1>1. Binding[ask.key] = [csr |-> ask.csr, id |-> i]
    BY DEF Binding
  <1>2. [csr |-> ask.csr, id |-> i] # Nobody
    BY NobodyAssumption
  <1> QED BY <1>1, <1>2 DEF Register!Hand, Answer

\* A replay hands out what the key is bound to.
LEMMA ReplayHands ==
  ASSUME Inv, Replay
  PROVE  [Register!RNext]_(Register!regVars)
PROOF
  <1>1. Binding' = Binding
    BY BindingSame DEF Replay, disk
  <1>2. CASE UNCHANGED answers
    BY <1>1, <1>2 DEF Register!regVars
  <1>3. CASE SameRequest(idem[ask.key].by) /\ Answer(idem[ask.key].by, 200)
    <2>1. Register!Hand(ask.key, 200)
      BY <1>1, <1>3, LookupFacts, AnswerHands DEF Replay, SameRequest
    <2> QED BY <2>1, LookupFacts DEF Replay, Register!RNext
  <1> QED BY <1>2, <1>3 DEF Replay

\* The end of a transaction hands out what the key is bound to.
LEMMA ReplyHands ==
  ASSUME Inv, Reply
  PROVE  [Register!RNext]_(Register!regVars)
PROOF
  <1>1. Binding' = Binding
    BY BindingSame DEF Reply, disk
  <1>2. ask.key \in Keys /\ ask.csr \in Csrs
    BY ReplyFacts DEF Requests
  <1>3. idem[ask.key].st = "final" /\ idem[ask.key].by = cur
    BY ReplyFacts DEF SlotOf
  <1>4. PICK status \in {200, 201} : Answer(cur, status)
    BY ReplyFacts
  <1>5. Register!Hand(ask.key, status)
    BY <1>1, <1>2, <1>3, <1>4, ReplyFacts, AnswerHands
  <1> QED BY <1>2, <1>5 DEF Register!RNext

\* The mapping that gets its final name binds its key; one that had it stays.
LEMMA MappingBinds ==
  ASSUME Inv, PublishMapping
  PROVE  [Register!RNext]_(Register!regVars)
PROOF
  <1> DEFINE k == meta[cur].key
             c == meta[cur].csr
  <1>1. /\ cur \in Ids /\ k \in Keys /\ c \in Csrs
        /\ UNCHANGED <<meta, dir, answers>>
    BY PublishMappingSlot DEF PublishMapping, Inv, Placed, Based, Metas
  <1>2. PICK r \in Slot :
          /\ idem' = [idem EXCEPT ![k] = r]
          /\ \/ r = idem[k]
             \/ (idem[k].st # "final" /\ \E st \in FileStates : r = SlotOf(st, cur))
    BY PublishMappingSlot
  <1>3. idem \in [Keys -> Slot]
    BY DEF Inv, TypeOK, DiskTypes
  <1> HIDE DEF k, c
  <1>4. CASE r = idem[k] \/ (r.st # "final" /\ idem[k].st # "final")
    <2>1. Binding' = Binding
      BY <1>1, <1>2, <1>3, <1>4 DEF Binding
    <2> QED BY <1>1, <2>1 DEF Register!regVars
  <1>5. CASE r # idem[k] /\ r.st = "final"
    <2>1. idem[k].st # "final" /\ r.by = cur
      BY <1>2, <1>5 DEF SlotOf
    <2>2. Binding[k] = Nobody
      BY <1>1, <2>1 DEF Binding
    <2>3. Binding' = [Binding EXCEPT ![k] = [csr |-> c, id |-> cur]]
      BY <1>1, <1>2, <1>3, <1>5, <2>1 DEF Binding, c
    <2>4. Register!Bind(k, c, cur)
      BY <1>1, <2>2, <2>3 DEF Register!Bind
    <2> QED BY <1>1, <2>4 DEF Register!RNext
  <1>6. r = idem[k] \/ idem[k].st # "final"
    BY <1>2
  <1> QED BY <1>4, <1>5, <1>6

\* Every other step leaves bindings and answers alone.
LEMMA OthersStutter ==
  ASSUME Inv, [Next]_vars, ~Replay, ~Reply, ~PublishMapping
  PROVE  UNCHANGED Register!regVars
PROOF
  <1>1. UNCHANGED answers /\ UNCHANGED idem
    <2>1. CASE UNCHANGED vars
      BY <2>1 DEF vars, disk, hist
    <2>2. CASE Start \/ Watch \/ Crash \/ \E i \in Ids \cup {Nobody} : Command(i)
      BY <2>2 DEF Start, Watch, Wake, BeginScan, Crash, Command, disk, hist
    <2>3. CASE \E p \in Permits : Acquire(p) \/ \E r \in Requests : Admit(p, r)
      BY <2>3 DEF Acquire, Admit, disk, hist
    <2>4. CASE Issue
      BY <2>4 DEF Issue, Rejoin, Create, Reserve, Sign, disk, hist
    <2>5. CASE Recover
      BY <2>5 DEF Recover, LogIssuance, Publish
    <2>6. CASE Scan
      BY <2>6, PendingsFacts DEF Scan, ScanNext, ScanValidate, disk, hist
    <2>7. CASE Quarantine
      BY <2>7 DEF Quarantine, QCheck, QPrepare, QMove, QCopy, QClear, QDone, QAudit, hist
    <2> QED BY <2>1, <2>2, <2>3, <2>4, <2>5, <2>6, <2>7 DEF Next, Work
  <1>2. \A i \in Ids : dir[i] # "none" => meta'[i] = meta[i]
    <2>1. CASE Create
      <3>1. PICK i \in Ids, s \in Serials :
              /\ dir[i] = "none"
              /\ meta' = [meta EXCEPT ![i] =
                            [key |-> ask.key, csr |-> ask.csr, serial |-> s]]
        BY <2>1 DEF Create
      <3> QED BY <3>1 DEF Inv, TypeOK, DiskTypes
    <2>2. CASE ~Create
      <3>1. UNCHANGED meta
        <4>1. CASE UNCHANGED vars
          BY <4>1 DEF vars, disk
        <4>2. CASE Start \/ Watch \/ Crash \/ \E i \in Ids \cup {Nobody} : Command(i)
          BY <4>2 DEF Start, Watch, Wake, BeginScan, Crash, Command, disk
        <4>3. CASE \E p \in Permits : Acquire(p) \/ \E r \in Requests : Admit(p, r)
          BY <4>3 DEF Acquire, Admit, disk
        <4>4. CASE Issue
          BY <2>2, <4>4 DEF Issue, Rejoin, Reserve, Sign, disk
        <4>5. CASE Recover
          BY <4>5 DEF Recover, LogIssuance, Publish
        <4>6. CASE Scan
          BY <4>6, PendingsFacts DEF Scan, ScanNext, ScanValidate, disk
        <4>7. CASE Quarantine
          BY <4>7 DEF Quarantine, QCheck, QPrepare, QMove, QCopy, QClear, QDone, QAudit
        <4> QED BY <4>1, <4>2, <4>3, <4>4, <4>5, <4>6, <4>7 DEF Next, Work
      <3> QED BY <3>1
    <2> QED BY <2>1, <2>2
  <1>3. Binding' = Binding
    BY <1>1, <1>2, BindingSame
  <1> QED BY <1>1, <1>3 DEF Register!regVars

\* The authority implements the register: a key is bound once, to a certificate
\* issued for one request, and every answer, new or replayed, hands out what its
\* key is bound to.
THEOREM Refinement == Spec => ImplementsRegister
PROOF
  <1>1. Init => Register!RInit
    BY DEF Init, Register!RInit, Binding, NoSlot
  <1>2. Inv /\ [Next]_vars => [Register!RNext]_(Register!regVars)
    BY ReplayHands, ReplyHands, MappingBinds, OthersStutter
  <1> QED BY <1>1, <1>2, Invariance, PTL DEF Spec, ImplementsRegister, Register!RSpec

-----------------------------------------------------------------------------
(* What the steps do, for the invariants below.                             *)

\* The steps that leave the disk and the signatures alone.
Quiet ==
  \/ UNCHANGED vars
  \/ Start \/ Watch \/ Crash \/ \E i \in Ids \cup {Nobody} : Command(i)
  \/ \E p \in Permits : Acquire(p) \/ \E r \in Requests : Admit(p, r)
  \/ Replay \/ Rejoin \/ Reply \/ ScanNext \/ ScanValidate

\* The steps that write.
Writing ==
  \/ Create \/ (\E f \in Artifacts : Publish(f)) \/ Reserve \/ Sign
  \/ PublishMapping \/ LogIssuance \/ ScanPendings \/ Quarantine

\* Every step is one or the other.
LEMMA StepKinds ==
  ASSUME [Next]_vars
  PROVE  Quiet \/ Writing
PROOF
  BY DEF Next, Work, Issue, Recover, Scan, Quiet, Writing

\* An operation that fails is nowhere, or at the checks of a quarantine.
LEMMA FailsAway ==
  ASSUME Fails
  PROVE  pc' \in {"free", "qcheck"} /\ cur' = Nobody
PROOF
  BY DEF Fails, Done

\* A quiet step stays where it is, gets where nothing is relied on, or comes to
\* an active issuance that is committed.
LEMMA QuietSteps ==
  ASSUME Inv, Quiet
  PROVE  /\ UNCHANGED <<disk, signed>>
         /\ \/ UNCHANGED <<pc, goal, cur, ask, target, entry>>
            \/ pc' \in {"free", "lookup", "pendings", "validate", "qcheck"}
            \/ /\ pc' = "complete" /\ cur' \in Ids
               /\ dir[cur'] = "active" /\ files[cur'].commit = "final"
PROOF
  <1>1. CASE UNCHANGED vars
    BY <1>1 DEF vars, hist, run
  <1>2. CASE Start \/ Watch \/ Crash \/ \E i \in Ids \cup {Nobody} : Command(i)
    BY <1>2 DEF Start, Watch, Wake, BeginScan, Crash, Command, hist
  <1>3. CASE \E p \in Permits : Acquire(p) \/ \E r \in Requests : Admit(p, r)
    BY <1>3 DEF Acquire, Admit, hist
  <1>4. CASE Replay \/ Reply
    BY <1>4 DEF Replay, Reply, Done
  <1>5. CASE Rejoin
    <2>1. UNCHANGED <<disk, signed>> /\ Matches(ask.key) # {}
      BY <1>5 DEF Rejoin, hist
    <2>2. /\ First(Matches(ask.key)) \in Ids
          /\ dir[First(Matches(ask.key))] = "active"
      BY <2>1, MatchIsActive
    <2> QED BY <1>5, <2>1, <2>2 DEF Rejoin, Done
  <1>6. CASE ScanNext
    <2>1. UNCHANGED <<disk, signed>>
      BY <1>6 DEF ScanNext, hist
    <2>2. CASE Fails \/ Goto("validate")
      BY <2>1, <2>2, FailsAway DEF Goto
    <2>3. CASE ~(Fails \/ Goto("validate"))
      <3>1. /\ Unvisited # {} /\ pc' = "complete" /\ cur' = First(Unvisited)
            /\ files[First(Unvisited)].commit = "final"
        BY <1>6, <2>3 DEF ScanNext
      <3>2. Unvisited \in SUBSET Nat
        BY IdsAssumption DEF Unvisited, Active
      <3>3. cur' \in Unvisited
        BY <3>1, <3>2, FirstIsElement
      <3> QED BY <2>1, <3>1, <3>3 DEF Unvisited, Active
    <2> QED BY <2>2, <2>3
  <1>7. CASE ScanValidate
    BY <1>7, FailsAway DEF ScanValidate, hist
  <1> QED BY <1>1, <1>2, <1>3, <1>4, <1>5, <1>6, <1>7 DEF Quiet

\* An append to the chain adds its record or none.
LEMMA AppendAudit ==
  ASSUME NEW e, Append1(e)
  PROVE  audit' = audit \/ audit' = Append(audit, e)
PROOF
  BY DEF Append1

\* A longer chain records what it did, and the new record.
LEMMA AppendLogged ==
  ASSUME Inv, NEW e \in Events, audit' = audit \/ audit' = Append(audit, e)
  PROVE  /\ \A x : Logged(x) => Logged(x)'
         /\ \A x : Logged(x)' => Logged(x) \/ (x = e /\ audit' # audit)
         /\ audit' = Append(audit, e) => Logged(e)'
PROOF
  <1>1. audit \in Seq(Events)
    BY DEF Inv, TypeOK, DiskTypes
  <1>2. CASE audit' = audit
    <2>1. Append(audit, e) # audit
      BY <1>1
    <2> QED BY <1>2, <2>1 DEF Logged
  <1>3. CASE audit' = Append(audit, e)
    <2>1. /\ DOMAIN audit' = DOMAIN audit \cup {Len(audit) + 1}
          /\ \A n \in DOMAIN audit : audit'[n] = audit[n]
          /\ audit'[Len(audit) + 1] = e
          /\ audit' # audit
      BY <1>1, <1>3
    <2> QED BY <2>1, Zenon DEF Logged
  <1> QED BY <1>2, <1>3

\* A publication changes one file of the current issuance: it has its final
\* name and the operation goes on, or the operation fails.
LEMMA PublishShape ==
  ASSUME Inv, NEW f \in Artifacts, Publish(f)
  PROVE  /\ pc = f /\ cur \in Ids
         /\ UNCHANGED <<dir, meta, resv, idem, audit, tail, quars, answers, signed>>
         /\ \E st \in FileStates :
              /\ files' = [files EXCEPT ![cur][f] = st]
              /\ files[cur][f] = "final" => st = "final"
              /\ Fails \/ (st = "final" /\ Goto(After[f]))
PROOF
  <1>1. /\ pc = f /\ cur \in Ids
        /\ UNCHANGED <<dir, meta, resv, idem, audit, tail, quars, answers, signed>>
    BY DEF Publish, Inv, Placed, AtIssuance
  <1>2. files \in [Ids -> [Artifacts -> FileStates]] /\ files[cur][f] \in FileStates
    BY <1>1 DEF Inv, TypeOK, DiskTypes
  <1>3. CASE files' = [files EXCEPT ![cur][f] = "final"] /\ Goto(After[f])
    BY <1>1, <1>3 DEF FileStates
  <1>4. CASE UNCHANGED files /\ Fails
    <2>1. files' = [files EXCEPT ![cur][f] = files[cur][f]]
      BY <1>2, <1>4
    <2> QED BY <1>1, <1>2, <1>4, <2>1
  <1>5. CASE /\ files[cur][f] # "final" /\ Fails
             /\ \E st \in Residues(files[cur][f]) : files' = [files EXCEPT ![cur][f] = st]
    BY <1>1, <1>2, <1>5, ResidueType
  <1> QED BY <1>3, <1>4, <1>5 DEF Publish

\* A scan of the staging files touches no file but intents, and takes no name
\* away.
LEMMA ScanPendingsShape ==
  ASSUME Inv, ScanPendings
  PROVE  /\ pc = "pendings" /\ goal = "scan"
         /\ UNCHANGED <<dir, meta, idem, audit, tail, quars, answers, signed>>
         /\ \A i \in Ids, f \in Artifacts :
              /\ f # "intent" => files'[i][f] = files[i][f]
              /\ files[i][f] = "final" => files'[i][f] = "final"
         /\ pc' \in {"free", "qcheck", "next", "pendings"}
         /\ pc' \in {"next", "pendings"} => UNCHANGED <<goal, cur>>
PROOF
  <1>1. \A i \in Ids, f \in Artifacts :
          /\ f # "intent" => files'[i][f] = files[i][f]
          /\ files[i][f] = "final" => files'[i][f] = "final"
    <2> SUFFICES ASSUME NEW n \in Active, NEW st \in FileStates,
                        files[n].intent = "staged",
                        files' = [files EXCEPT ![n].intent = st]
                 PROVE  \A i \in Ids, f \in Artifacts :
                          /\ f # "intent" => files'[i][f] = files[i][f]
                          /\ files[i][f] = "final" => files'[i][f] = "final"
      BY PendingsFacts
    <2> QED BY DEF Active, Inv, TypeOK, DiskTypes
  <1>2. /\ pc' \in {"free", "qcheck", "next", "pendings"}
        /\ pc' \in {"next", "pendings"} => UNCHANGED <<goal, cur>>
    BY PendingsFacts, FailsAway DEF Goto
  <1> QED BY <1>1, <1>2, PendingsFacts

\* A quarantine touches no file and no mapping; it moves its target away once,
\* and records itself at its end.
LEMMA QuarantineSteps ==
  ASSUME Inv, Quarantine
  PROVE  /\ UNCHANGED <<meta, files, idem, answers, signed>>
         /\ pc \in AtEntry \cup {"qcheck"}
         /\ pc' \in AtEntry \cup {"free", "qcheck"}
         /\ \A i \in Ids : dir'[i] # dir[i] =>
              pc = "qmove" /\ i = target /\ dir[i] = "active" /\ dir'[i] = "moved"
         /\ audit' # audit => pc = "qaudit" /\ audit' = Append(audit, Quarantined(entry))
PROOF
  <1>1. CASE QCheck
    BY <1>1 DEF QCheck, Done, hist, AtEntry
  <1>2. CASE QPrepare \/ QCopy \/ QDone
    BY <1>2, FailsAway DEF QPrepare, QCopy, QDone, QWrite, Goto, AtEntry
  <1>3. CASE QMove
    BY <1>3, FailsAway DEF QMove, HasSource, Active, Goto, AtEntry, Inv, TypeOK, DiskTypes
  <1>4. CASE QClear
    BY <1>4, FailsAway DEF QClear, Goto, AtEntry
  <1>5. CASE QAudit
    BY <1>5, AppendAudit DEF QAudit, Done, AtEntry
  <1> QED BY <1>1, <1>2, <1>3, <1>4, <1>5 DEF Quarantine

-----------------------------------------------------------------------------
(* The order of publication.                                                *)

\* What has its final name, or is on record, vouches for what comes before it.
InSequence(i) ==
  /\ files[i].cert = "final" => files[i].intent = "final" /\ i \in signed
  /\ files[i].record = "final" => files[i].cert = "final"
  /\ files[i].commit = "final" => files[i].record = "final"
  /\ files[i].complete = "final" => files[i].commit = "final"
  /\ \A k \in Keys : idem[k] = SlotOf("final", i) => files[i].complete = "final"
  /\ Logged(Issued(i)) => dir[i] # "none" /\ Bound(i)
  /\ files[i].marker = "final" => Logged(Issued(i))

\* What the operation relies on when it gets to each place: the steps before
\* it are done.
Prepared ==
  /\ pc \in {"reserve", "sign", "cert"} => files[cur].intent = "final"
  /\ pc = "cert" => cur \in signed
  /\ pc = "record" => files[cur].cert = "final"
  /\ pc = "commit" => files[cur].record = "final"
  /\ pc = "complete" => files[cur].commit = "final"
  /\ pc \in {"mapping", "audit", "marker"} \/ (Rejoined /\ pc = "next") =>
       files[cur].complete = "final"
  /\ pc = "marker" => Logged(Issued(cur))

Ordered == Prepared /\ \A i \in Ids : InSequence(i)

\* Where nothing is relied on, nothing is to be shown.
LEMMA AwayPrepared ==
  ASSUME pc' \notin AtIssuance \cup {"next"}
  PROVE  Prepared'
PROOF
  BY DEF Prepared, Rejoined, AtIssuance, Artifacts

\* The sequence is the published order of the property.
LEMMA OrderedPublished ==
  ASSUME Ordered
  PROVE  PublishedInOrder
PROOF
  <1> SUFFICES ASSUME NEW i \in Ids
               PROVE  /\ \A n \in 2..5 :
                           files[i][Order[n]] = "final" => files[i][Order[n-1]] = "final"
                      /\ files[i].cert = "final" => i \in signed
                      /\ \A k \in Keys :
                           idem[k] = SlotOf("final", i) => files[i].complete = "final"
                      /\ Logged(Issued(i)) => idem[meta[i].key] = SlotOf("final", i)
                      /\ files[i].marker = "final" => Logged(Issued(i))
    BY DEF PublishedInOrder
  <1>1. InSequence(i)
    BY DEF Ordered
  <1>2. ASSUME NEW n \in 2..5, files[i][Order[n]] = "final"
        PROVE  files[i][Order[n-1]] = "final"
    <2>1. n \in {2, 3, 4, 5}
      BY <1>2
    <2>2. /\ Order[1] = "intent" /\ Order[2] = "cert" /\ Order[3] = "record"
          /\ Order[4] = "commit" /\ Order[5] = "complete"
      BY DEF Order
    <2>3. CASE n = 2
      BY <1>1, <1>2, <2>2, <2>3 DEF InSequence
    <2>4. CASE n = 3
      BY <1>1, <1>2, <2>2, <2>4 DEF InSequence
    <2>5. CASE n = 4
      BY <1>1, <1>2, <2>2, <2>5 DEF InSequence
    <2>6. CASE n = 5
      BY <1>1, <1>2, <2>2, <2>6 DEF InSequence
    <2> QED BY <2>1, <2>3, <2>4, <2>5, <2>6
  <1> QED BY <1>1, <1>2 DEF InSequence, Bound

\* A quiet step comes at most to an issuance that is committed.
LEMMA QuietOrdered ==
  ASSUME Inv, Ordered, Quiet
  PROVE  Ordered'
PROOF
  <1>1. UNCHANGED <<dir, meta, files, idem, audit, signed>>
    BY QuietSteps DEF disk
  <1>2. \A i \in Ids : InSequence(i)'
    BY <1>1 DEF Ordered, InSequence, Bound, Logged
  <1>3. Prepared'
    <2>1. CASE UNCHANGED <<pc, goal, cur, ask, target, entry>>
      BY <1>1, <2>1 DEF Ordered, Prepared, Rejoined, Logged
    <2>2. CASE pc' \in {"free", "lookup", "pendings", "validate", "qcheck"}
      BY <2>2, AwayPrepared DEF AtIssuance, Artifacts
    <2>3. CASE pc' = "complete" /\ files[cur'].commit = "final"
      BY <1>1, <2>3 DEF Prepared
    <2> QED BY <2>1, <2>2, <2>3, QuietSteps
  <1> QED BY <1>2, <1>3 DEF Ordered

\* A new issuance was never logged.
LEMMA CreateOrdered ==
  ASSUME Inv, Ordered, Create
  PROVE  Ordered'
PROOF
  <1>1. PICK n \in Ids, s \in Serials :
          /\ dir[n] = "none"
          /\ dir' = [dir EXCEPT ![n] = "active"]
          /\ meta' = [meta EXCEPT ![n] = [key |-> ask.key, csr |-> ask.csr, serial |-> s]]
    BY DEF Create
  <1>2. pc' = "intent" /\ UNCHANGED <<files, idem, audit, signed>>
    BY DEF Create, hist
  <1>3. ASSUME NEW i \in Ids
        PROVE  InSequence(i)'
    <2>1. Logged(Issued(i)) => dir'[i] = dir[i] /\ meta'[i] = meta[i]
      BY <1>1 DEF Ordered, InSequence, Inv, TypeOK, DiskTypes
    <2>2. InSequence(i) /\ (Logged(Issued(i))' <=> Logged(Issued(i)))
      BY <1>2 DEF Ordered, Logged
    <2> QED BY <1>2, <2>1, <2>2 DEF InSequence, Bound
  <1>4. Prepared'
    BY <1>2 DEF Prepared
  <1> QED BY <1>3, <1>4 DEF Ordered

\* A file gets its final name only where the one before it has its own.
LEMMA PublishOrdered ==
  ASSUME Inv, Ordered, NEW f \in Artifacts, Publish(f)
  PROVE  Ordered'
PROOF
  <1>1. /\ pc = f /\ cur \in Ids
        /\ UNCHANGED <<dir, meta, idem, audit, signed>>
    BY PublishShape
  <1>2. PICK st \in FileStates :
          /\ files' = [files EXCEPT ![cur][f] = st]
          /\ files[cur][f] = "final" => st = "final"
          /\ Fails \/ (st = "final" /\ Goto(After[f]))
    BY PublishShape
  <1>3. /\ files \in [Ids -> [Artifacts -> FileStates]]
        /\ \A i \in Ids, g \in Artifacts :
             files'[i][g] = IF i = cur /\ g = f THEN st ELSE files[i][g]
    BY <1>1, <1>2 DEF Inv, TypeOK, DiskTypes
  <1>4. ASSUME NEW i \in Ids
        PROVE  InSequence(i)'
    <2>1. CASE i # cur
      BY <1>1, <1>3, <2>1 DEF Ordered, InSequence, Bound, Logged, Artifacts
    <2>2. CASE i = cur
      <3>1. InSequence(cur) /\ Prepared
        BY <1>1 DEF Ordered
      <3>2. \A g \in Artifacts : g # f => files'[cur][g] = files[cur][g]
        BY <1>1, <1>3
      <3>3. files'[cur][f] = st
        BY <1>1, <1>3
      <3>4. CASE f \in {"intent", "cert", "record"}
        BY <1>1, <1>2, <2>2, <3>1, <3>2, <3>3, <3>4
           DEF InSequence, Prepared, Bound, Logged, Artifacts
      <3>5. CASE f \in {"commit", "complete", "marker"}
        BY <1>1, <1>2, <2>2, <3>1, <3>2, <3>3, <3>5
           DEF InSequence, Prepared, Bound, Logged, Artifacts
      <3> QED BY <3>4, <3>5 DEF Artifacts
    <2> QED BY <2>1, <2>2
  <1>5. Prepared'
    <2>1. CASE Fails
      BY <2>1, FailsAway, AwayPrepared DEF AtIssuance, Artifacts
    <2>2. CASE st = "final" /\ Goto(After[f])
      <3>1. pc' = After[f] /\ cur' = cur /\ files'[cur][f] = "final"
        BY <1>1, <1>3, <2>2 DEF Goto
      <3>2. \A g \in Artifacts : files[cur][g] = "final" => files'[cur][g] = "final"
        BY <1>1, <1>3, <2>2
      <3>3. f = "marker" => files[cur].complete = "final"
        BY <1>1 DEF Ordered, Prepared
      <3> QED BY <1>1, <3>1, <3>2, <3>3 DEF Prepared, After, Artifacts
    <2> QED BY <1>2, <2>1, <2>2
  <1> QED BY <1>4, <1>5 DEF Ordered

\* The serial is reserved, and the key signs, after the intent.
LEMMA ReserveSignOrdered ==
  ASSUME Inv, Ordered, Reserve \/ Sign
  PROVE  Ordered'
PROOF
  <1>1. /\ UNCHANGED <<dir, meta, files, idem, audit>>
        /\ pc \in {"reserve", "sign"} /\ cur \in Ids
        /\ signed \subseteq signed'
        /\ pc = "sign" => cur \in signed'
        /\ Fails \/ Goto("sign") \/ (pc = "sign" /\ Goto("cert"))
    BY DEF Reserve, Sign, disk, Inv, Placed, AtIssuance
  <1>2. \A i \in Ids : InSequence(i)'
    BY <1>1 DEF Ordered, InSequence, Bound, Logged
  <1>3. Prepared'
    <2>1. CASE Fails
      BY <2>1, FailsAway, AwayPrepared DEF AtIssuance, Artifacts
    <2>2. CASE Goto("sign") \/ (pc = "sign" /\ Goto("cert"))
      BY <1>1, <2>2 DEF Goto, Ordered, Prepared
    <2> QED BY <1>1, <2>1, <2>2
  <1> QED BY <1>2, <1>3 DEF Ordered

\* A key gets its mapping to an issuance that is complete, and keeps it.
LEMMA PublishMappingOrdered ==
  ASSUME Inv, Ordered, PublishMapping
  PROVE  Ordered'
PROOF
  <1> DEFINE k == meta[cur].key
  <1>1. /\ pc = "mapping" /\ cur \in Ids /\ dir[cur] # "none" /\ k \in Keys
        /\ UNCHANGED <<dir, meta, files, audit, signed>>
    BY PublishMappingSlot DEF PublishMapping
  <1>2. PICK r \in Slot :
          /\ idem' = [idem EXCEPT ![k] = r]
          /\ r = idem[k] \/ (idem[k].st # "final" /\ \E st \in FileStates : r = SlotOf(st, cur))
          /\ (Goto("audit") /\ r = SlotOf("final", cur)) \/ Fails
    BY PublishMappingSlot
  <1>3. files[cur].complete = "final"
    BY <1>1 DEF Ordered, Prepared
  <1>4. \A x \in Keys : /\ x # k => idem'[x] = idem[x]
                        /\ idem[x].st = "final" => idem'[x] = idem[x]
                        /\ idem'[x] # idem[x] =>
                             \E st \in FileStates : idem'[x] = SlotOf(st, cur)
    BY <1>1, <1>2 DEF Inv, TypeOK, DiskTypes
  <1>5. \A i \in Ids, st \in FileStates : SlotOf("final", i) = SlotOf(st, cur) => i = cur
    BY DEF SlotOf, FileStates
  <1>6. ASSUME NEW i \in Ids
        PROVE  InSequence(i)'
    <2>1. \A x \in Keys : idem'[x] = SlotOf("final", i) => files[i].complete = "final"
      BY <1>3, <1>4, <1>5 DEF Ordered, InSequence
    <2>2. Logged(Issued(i)) => dir[i] # "none" /\ idem'[meta[i].key] = SlotOf("final", i)
      <3>1. SUFFICES ASSUME Logged(Issued(i))
                     PROVE  dir[i] # "none" /\ idem'[meta[i].key] = SlotOf("final", i)
        OBVIOUS
      <3>2. dir[i] # "none" /\ idem[meta[i].key] = SlotOf("final", i)
        BY <3>1 DEF Ordered, InSequence, Bound
      <3>3. meta[i].key \in Keys
        BY <3>2 DEF Inv, Placed, Based, Metas
      <3>4. idem[meta[i].key].st = "final"
        BY <3>2 DEF SlotOf
      <3> QED BY <1>4, <3>2, <3>3, <3>4
    <2>3. InSequence(i) /\ (Logged(Issued(i))' <=> Logged(Issued(i)))
      BY <1>1 DEF Ordered, Logged
    <2> HIDE DEF k
    <2> QED BY <1>1, <2>1, <2>2, <2>3 DEF InSequence, Bound
  <1>7. Prepared'
    <2>1. CASE Fails
      BY <2>1, FailsAway, AwayPrepared DEF AtIssuance, Artifacts
    <2>2. CASE Goto("audit")
      BY <1>1, <1>3, <2>2 DEF Goto, Prepared, Rejoined
    <2> QED BY <1>2, <2>1, <2>2
  <1> QED BY <1>6, <1>7 DEF Ordered

\* An issuance is on record once its key has its mapping; the marker follows.
LEMMA LogIssuanceOrdered ==
  ASSUME Inv, Ordered, LogIssuance
  PROVE  Ordered'
PROOF
  <1>1. /\ pc = "audit" /\ cur \in Ids /\ dir[cur] # "none" /\ Bound(cur)
        /\ UNCHANGED <<dir, meta, files, idem, signed>>
    BY DEF LogIssuance, Inv, Placed, AtIssuance
  <1>2. PICK e \in Events : e = Issued(cur)
    BY <1>1 DEF Issued, Events
  <1>3. audit' = audit \/ audit' = Append(audit, e)
    BY <1>2, AppendAudit DEF LogIssuance
  <1>4. /\ \A x : Logged(x) => Logged(x)'
        /\ \A x : Logged(x)' => Logged(x) \/ x = e
        /\ audit' = Append(audit, e) => Logged(e)'
    BY <1>3, AppendLogged
  <1>5. ASSUME NEW i \in Ids
        PROVE  InSequence(i)'
    <2>1. Issued(i) = e => i = cur
      BY <1>2 DEF Issued
    <2>2. /\ Logged(Issued(i)) => Logged(Issued(i))'
          /\ Logged(Issued(i))' => Logged(Issued(i)) \/ i = cur
      BY <1>4, <2>1
    <2> QED BY <1>1, <2>2 DEF Ordered, InSequence, Bound
  <1>6. Prepared'
    <2>1. CASE Fails
      BY <2>1, FailsAway, AwayPrepared DEF AtIssuance, Artifacts
    <2>2. CASE Goto("marker") /\ Logged(e)'
      <3>1. files[cur].complete = "final"
        BY <1>1 DEF Ordered, Prepared
      <3>2. cur' = cur /\ Issued(cur)' = e
        BY <1>2, <2>2 DEF Goto, Issued
      <3> QED BY <1>1, <2>2, <3>1, <3>2 DEF Goto, Prepared
    <2>3. Fails \/ (Goto("marker") /\ Logged(e)')
      BY <1>2, <1>3, <1>4 DEF LogIssuance
    <2> QED BY <2>1, <2>2, <2>3
  <1> QED BY <1>5, <1>6 DEF Ordered

\* The scan gives staged intents their names: nothing precedes an intent.
LEMMA ScanPendingsOrdered ==
  ASSUME Inv, Ordered, ScanPendings
  PROVE  Ordered'
PROOF
  <1>1. /\ pc = "pendings" /\ goal = "scan"
        /\ UNCHANGED <<dir, meta, idem, audit, signed>>
        /\ pc' \in {"free", "qcheck", "next", "pendings"} /\ (pc' = "next" => goal' = goal)
    BY ScanPendingsShape
  <1>2. ASSUME NEW i \in Ids
        PROVE  InSequence(i)'
    <2>1. /\ files[i].intent = "final" => files'[i].intent = "final"
          /\ files'[i].cert = files[i].cert /\ files'[i].record = files[i].record
          /\ files'[i].commit = files[i].commit /\ files'[i].complete = files[i].complete
          /\ files'[i].marker = files[i].marker
      BY ScanPendingsShape DEF Artifacts
    <2>2. InSequence(i) /\ (Logged(Issued(i))' <=> Logged(Issued(i)))
      BY <1>1 DEF Ordered, Logged
    <2> QED BY <1>1, <2>1, <2>2 DEF InSequence, Bound
  <1>3. Prepared'
    BY <1>1 DEF Prepared, Rejoined
  <1> QED BY <1>2, <1>3 DEF Ordered

\* A quarantine records itself and no issuance.
LEMMA QuarantineOrdered ==
  ASSUME Inv, Ordered, Quarantine
  PROVE  Ordered'
PROOF
  <1>1. /\ UNCHANGED <<meta, files, idem, signed>>
        /\ pc' \in AtEntry \cup {"free", "qcheck"}
        /\ \A i \in Ids : dir[i] # "none" => dir'[i] # "none"
    BY QuarantineSteps
  <1>2. \A i \in Ids : Logged(Issued(i))' <=> Logged(Issued(i))
    <2>1. CASE audit' = audit
      BY <2>1 DEF Logged
    <2>2. CASE audit' # audit
      <3>1. audit' = Append(audit, Quarantined(entry)) /\ pc = "qaudit"
        BY <2>2, QuarantineSteps
      <3>2. Quarantined(entry) \in Events
        BY <3>1 DEF Quarantined, Events, Inv, Placed, AtEntry
      <3>3. \A i \in Ids : Issued(i) # Quarantined(entry)
        BY DEF Issued, Quarantined
      <3> QED BY <3>1, <3>2, <3>3, AppendLogged
    <2> QED BY <2>1, <2>2
  <1>3. \A i \in Ids : InSequence(i)'
    BY <1>1, <1>2 DEF Ordered, InSequence, Bound
  <1>4. Prepared'
    BY <1>1, AwayPrepared DEF AtIssuance, Artifacts, AtEntry
  <1> QED BY <1>3, <1>4 DEF Ordered

\* Every step keeps the order.
LEMMA OrderedNext ==
  ASSUME Inv, Ordered, [Next]_vars
  PROVE  Ordered'
PROOF
  BY StepKinds, QuietOrdered, CreateOrdered, PublishOrdered, ReserveSignOrdered,
     PublishMappingOrdered, LogIssuanceOrdered, ScanPendingsOrdered, QuarantineOrdered
     DEF Writing

\* The empty directory is in order.
LEMMA OrderedInit == Init => Ordered
PROOF
  BY DEF Init, Ordered, Prepared, InSequence, Blank, Artifacts, NoSlot, SlotOf, Logged, Rejoined

-----------------------------------------------------------------------------
(* Nothing published is lost.                                               *)

\* Reservations, mappings and audit records that are published stay as they
\* are, and so does every final file; an issuance keeps its directory, if
\* perhaps not its place, and its intent.
Lasting ==
  /\ \A i \in Ids, f \in Artifacts : files[i][f] = "final" => files'[i][f] = "final"
  /\ \A s \in Serials : resv[s].st = "final" => resv'[s] = resv[s]
  /\ \A k \in Keys : idem[k].st = "final" => idem'[k] = idem[k]
  /\ Len(audit) <= Len(audit') /\ \A n \in DOMAIN audit : audit'[n] = audit[n]
  /\ \A i \in Ids : dir[i] # "none" => dir'[i] # "none" /\ meta'[i] = meta[i]
  /\ signed \subseteq signed'

\* A chain with at most one record more is the chain so far.
LEMMA AuditLasts ==
  ASSUME Inv, NEW e, audit' = audit \/ audit' = Append(audit, e)
  PROVE  Len(audit) <= Len(audit') /\ \A n \in DOMAIN audit : audit'[n] = audit[n]
PROOF
  <1>1. audit \in Seq(Events)
    BY DEF Inv, TypeOK, DiskTypes
  <1> QED BY <1>1

\* A step that leaves the audit chain and the reservations alone.
LEMMA SameLasts ==
  ASSUME Inv, UNCHANGED <<dir, meta, resv, idem, audit>>, signed \subseteq signed',
         \A i \in Ids, f \in Artifacts : files[i][f] = "final" => files'[i][f] = "final"
  PROVE  Lasting
PROOF
  <1>1. Len(audit) \in Nat
    BY DEF Inv, TypeOK, DiskTypes
  <1> QED BY <1>1 DEF Lasting

\* Only a staging file is replaced or removed by the steps of a quarantine.
LEMMA QuarantineLasts ==
  ASSUME Inv, Quarantine
  PROVE  Lasting
PROOF
  <1>1. /\ UNCHANGED <<meta, files, idem, signed>>
        /\ \A i \in Ids : dir[i] # "none" => dir'[i] # "none"
        /\ audit' = audit \/ audit' = Append(audit, Quarantined(entry))
    BY QuarantineSteps
  <1>2. Len(audit) <= Len(audit') /\ \A n \in DOMAIN audit : audit'[n] = audit[n]
    BY <1>1, AuditLasts
  <1>3. \A s \in Serials : resv[s].st = "final" => resv'[s] = resv[s]
    <2>1. CASE UNCHANGED resv
      BY <2>1
    <2>2. CASE QClear /\ resv' = [resv EXCEPT ![quars[entry].pend] = NoSlot]
      <3>1. \A s \in Serials : quars[entry].pend = s => resv[s].st # "final"
        BY <2>2 DEF QClear, Inv, Placed, Pending
      <3> QED BY <2>2, <3>1 DEF Inv, TypeOK, DiskTypes
    <2> QED BY <2>1, <2>2 DEF Quarantine, QCheck, QPrepare, QMove, QCopy, QClear, QDone, QAudit
  <1> QED BY <1>1, <1>2, <1>3 DEF Lasting

\* Every step lets what is published last.
LEMMA NothingLost ==
  ASSUME Inv, [Next]_vars
  PROVE  Lasting
PROOF
  <1>1. CASE Quiet
    BY <1>1, QuietSteps, SameLasts DEF disk
  <1>2. CASE Create
    <2>1. PICK n \in Ids, s \in Serials :
            /\ dir[n] = "none"
            /\ dir' = [dir EXCEPT ![n] = "active"]
            /\ meta' = [meta EXCEPT ![n] = [key |-> ask.key, csr |-> ask.csr, serial |-> s]]
      BY <1>2 DEF Create
    <2>2. \A i \in Ids : dir[i] # "none" => dir'[i] # "none" /\ meta'[i] = meta[i]
      BY <2>1 DEF Inv, TypeOK, DiskTypes
    <2>3. UNCHANGED <<files, resv, idem, audit, signed>>
      BY <1>2 DEF Create, hist
    <2>4. Len(audit) \in Nat
      BY DEF Inv, TypeOK, DiskTypes
    <2> QED BY <2>2, <2>3, <2>4 DEF Lasting
  <1>3. ASSUME NEW f \in Artifacts, Publish(f)
        PROVE  Lasting
    <2>1. cur \in Ids /\ UNCHANGED <<dir, meta, resv, idem, audit, signed>>
      BY <1>3, PublishShape
    <2>2. PICK st \in FileStates : /\ files' = [files EXCEPT ![cur][f] = st]
                                   /\ files[cur][f] = "final" => st = "final"
      BY <1>3, PublishShape
    <2>3. \A i \in Ids, g \in Artifacts : files[i][g] = "final" => files'[i][g] = "final"
      BY <2>1, <2>2 DEF Inv, TypeOK, DiskTypes
    <2> QED BY <2>1, <2>3, SameLasts
  <1>4. CASE Reserve
    <2>1. UNCHANGED <<dir, meta, files, idem, audit, signed>>
      BY <1>4 DEF Reserve
    <2>2. \A s \in Serials : resv[s].st = "final" => resv'[s] = resv[s]
      <3>1. Fits(resv[meta[cur].serial], cur) => resv[meta[cur].serial].st # "final"
        BY DEF Fits, SlotOf
      <3> QED BY <1>4, <3>1 DEF Reserve, Inv, TypeOK, DiskTypes
    <2>3. Len(audit) \in Nat
      BY DEF Inv, TypeOK, DiskTypes
    <2> QED BY <2>1, <2>2, <2>3 DEF Lasting
  <1>5. CASE Sign
    BY <1>5, SameLasts DEF Sign, disk
  <1>6. CASE PublishMapping
    <2>1. UNCHANGED <<dir, meta, files, resv, audit, signed>>
      BY <1>6 DEF PublishMapping
    <2>2. \A k \in Keys : idem[k].st = "final" => idem'[k] = idem[k]
      BY <1>6, PublishMappingSlot DEF Inv, TypeOK, DiskTypes
    <2>3. Len(audit) \in Nat
      BY DEF Inv, TypeOK, DiskTypes
    <2> QED BY <2>1, <2>2, <2>3 DEF Lasting
  <1>7. CASE LogIssuance
    <2>1. UNCHANGED <<dir, meta, files, resv, idem, signed>>
      BY <1>7 DEF LogIssuance
    <2>2. audit' = audit \/ audit' = Append(audit, Issued(cur))
      BY <1>7, AppendAudit DEF LogIssuance
    <2> QED BY <2>1, <2>2, AuditLasts DEF Lasting
  <1>8. CASE ScanPendings
    <2>1. UNCHANGED <<dir, meta, idem, audit, signed>>
      BY <1>8, ScanPendingsShape
    <2>2. \A s \in Serials : resv[s].st = "final" => resv'[s] = resv[s]
      BY <1>8, PendingsKeepReservations
    <2>3. Len(audit) \in Nat
      BY DEF Inv, TypeOK, DiskTypes
    <2> QED BY <1>8, <2>1, <2>2, <2>3, ScanPendingsShape DEF Lasting
  <1>9. CASE Quarantine
    BY <1>9, QuarantineLasts
  <1> QED BY <1>1, <1>2, <1>3, <1>4, <1>5, <1>6, <1>7, <1>8, <1>9, StepKinds DEF Writing

-----------------------------------------------------------------------------
(* What stays the authority's answer.                                       *)

\* Whatever is in the index, or on its way there, is active and complete; and
\* a quarantine that is about to move its target moves nothing complete.
Standing ==
  /\ pc \in AtIssuance \/ Rejoined => dir[cur] = "active"
  /\ \A k \in Keys : idem[k].st \in {"staged", "final"} =>
       /\ dir[idem[k].by] = "active" /\ files[idem[k].by].complete = "final"
       /\ meta[idem[k].by].key = k
  /\ pc \in {"qprepare", "qmove"} /\ HasSource => files[target].complete # "final"

\* Of the files, Standing asks only that what is complete stays so; of the
\* place, that the operation stays with its issuance or leaves.
LEMMA StandingKept ==
  ASSUME Inv, Standing, UNCHANGED <<dir, meta, idem>>,
         \A i \in Ids : files[i].complete = "final" => files'[i].complete = "final",
         pc \notin AtEntry,
         \/ pc' \in {"free", "lookup", "pendings", "validate", "qcheck"}
         \/ pc' = "next" /\ goal' = "scan"
         \/ pc' \in AtIssuance \cup {"next"} /\ cur' \in Ids /\ dir[cur'] = "active"
         \/ UNCHANGED <<pc, goal, cur, target>>
  PROVE  Standing'
PROOF
  <1>1. \A k \in Keys : idem[k].st \in {"staged", "final"} => idem[k].by \in Ids
    BY DEF Inv, TypeOK, DiskTypes, Slot
  <1> QED BY <1>1 DEF Standing, Rejoined, AtIssuance, AtEntry, Artifacts

\* An operation at an issuance goes on with it or fails.
LEMMA AtIssuanceStanding ==
  ASSUME Inv, Standing, pc \in AtIssuance, UNCHANGED <<dir, meta, idem>>,
         \A i \in Ids : files[i].complete = "final" => files'[i].complete = "final",
         Fails \/ \E next \in AtIssuance \cup {"next"} : Goto(next)
  PROVE  Standing'
PROOF
  <1>1. cur \in Ids /\ dir[cur] = "active" /\ pc \notin AtEntry
    BY DEF Inv, Placed, Standing, AtIssuance, AtEntry, Artifacts
  <1>2. CASE Fails
    BY <1>1, <1>2, FailsAway, StandingKept
  <1>3. CASE \E next \in AtIssuance \cup {"next"} : Goto(next)
    BY <1>1, <1>3, StandingKept DEF Goto
  <1> QED BY <1>2, <1>3

\* A new issuance is active, and in nobody's way.
LEMMA CreateStanding ==
  ASSUME Inv, Standing, Create
  PROVE  Standing'
PROOF
  <1>1. PICK n \in Ids, s \in Serials :
          /\ dir[n] = "none" /\ cur' = n
          /\ dir' = [dir EXCEPT ![n] = "active"]
          /\ meta' = [meta EXCEPT ![n] = [key |-> ask.key, csr |-> ask.csr, serial |-> s]]
    BY DEF Create
  <1>2. pc' = "intent" /\ UNCHANGED <<files, idem>>
    BY DEF Create
  <1>3. dir'[cur'] = "active"
    BY <1>1 DEF Inv, TypeOK, DiskTypes
  <1>4. ASSUME NEW k \in Keys, idem[k].st \in {"staged", "final"}
        PROVE  dir'[idem[k].by] = dir[idem[k].by] /\ meta'[idem[k].by] = meta[idem[k].by]
    BY <1>1, <1>4 DEF Standing, Inv, TypeOK, DiskTypes, Slot
  <1> QED BY <1>2, <1>3, <1>4 DEF Standing

\* The mapping that is published is that of the current issuance, complete.
LEMMA PublishMappingStanding ==
  ASSUME Inv, Ordered, Standing, PublishMapping
  PROVE  Standing'
PROOF
  <1> DEFINE k == meta[cur].key
  <1>1. /\ pc = "mapping" /\ cur \in Ids /\ k \in Keys
        /\ UNCHANGED <<dir, meta, files, audit, signed>>
    BY PublishMappingSlot DEF PublishMapping
  <1>2. PICK r \in Slot :
          /\ idem' = [idem EXCEPT ![k] = r]
          /\ r = idem[k] \/ \E st \in FileStates : r = SlotOf(st, cur)
          /\ Goto("audit") \/ Fails
    BY PublishMappingSlot
  <1>3. files[cur].complete = "final" /\ dir[cur] = "active"
    BY <1>1 DEF Ordered, Prepared, Standing, AtIssuance
  <1>4. r.st \in {"staged", "final"} => r = idem[k] \/ r.by = cur
    BY <1>2 DEF SlotOf
  <1>5. \A x \in Keys : idem'[x] = idem[x] \/ (x = k /\ idem'[x] = r)
    BY <1>1, <1>2 DEF Inv, TypeOK, DiskTypes
  <1>6. ASSUME NEW x \in Keys, idem'[x].st \in {"staged", "final"}
        PROVE  /\ dir[idem'[x].by] = "active" /\ files[idem'[x].by].complete = "final"
               /\ meta[idem'[x].by].key = x
    <2>1. CASE idem'[x] = idem[x]
      BY <1>6, <2>1 DEF Standing
    <2>2. CASE idem'[x] # idem[x]
      BY <1>3, <1>4, <1>5, <1>6, <2>2
    <2> QED BY <2>1, <2>2
  <1>7. pc' \in {"audit", "free", "qcheck"} /\ (pc' = "audit" => cur' = cur)
    BY <1>2, FailsAway DEF Goto
  <1> QED BY <1>1, <1>3, <1>6, <1>7 DEF Standing, Rejoined, AtIssuance, Artifacts

\* Where a quarantine goes: on with its entry, or away.
LEMMA EntryControl ==
  ASSUME Inv, Quarantine, ~QCheck
  PROVE  /\ pc \in AtEntry
         /\ \/ pc' \in {"free", "qcheck"}
            \/ /\ UNCHANGED <<goal, cur, ask, target, entry>>
               /\ \/ pc = "qprepare" /\ pc' = "qmove"
                  \/ pc = "qmove" /\ pc' = "qcopy"
                  \/ pc = "qcopy" /\ pc' = "qclear"
                  \/ pc = "qclear" /\ pc' = "qdone"
                  \/ pc = "qdone" /\ pc' = "qaudit"
PROOF
  <1>1. CASE QPrepare \/ QCopy \/ QDone
    BY <1>1, FailsAway DEF QPrepare, QCopy, QDone, QWrite, Goto, AtEntry
  <1>2. CASE QMove \/ QClear
    BY <1>2, FailsAway DEF QMove, QClear, Goto, AtEntry
  <1>3. CASE QAudit
    BY <1>3 DEF QAudit, Done, AtEntry
  <1> QED BY <1>1, <1>2, <1>3 DEF Quarantine

\* What is moved away is incomplete, so it is in no mapping.
LEMMA QuarantineStanding ==
  ASSUME Inv, Standing, Quarantine
  PROVE  Standing'
PROOF
  <1>1. /\ UNCHANGED <<meta, files, idem>>
        /\ pc' \in AtEntry \cup {"free", "qcheck"}
        /\ \A i \in Ids : dir'[i] # dir[i] =>
             pc = "qmove" /\ i = target /\ dir[i] = "active" /\ dir'[i] = "moved"
    BY QuarantineSteps
  <1>2. ASSUME NEW k \in Keys, idem[k].st \in {"staged", "final"}
        PROVE  dir'[idem[k].by] = dir[idem[k].by]
    <2>1. idem[k].by \in Ids
      BY <1>2 DEF Inv, TypeOK, DiskTypes, Slot
    <2>2. SUFFICES ASSUME dir'[idem[k].by] # dir[idem[k].by]
                   PROVE  FALSE
      OBVIOUS
    <2>3. pc = "qmove" /\ idem[k].by = target /\ HasSource
      BY <1>1, <2>1, <2>2 DEF HasSource, Active
    <2> QED BY <1>2, <2>3 DEF Standing
  <1>3. pc' \in {"qprepare", "qmove"} /\ HasSource' => files'[target'].complete # "final"
    <2>1. CASE QCheck
      <3>1. UNCHANGED <<dir, files>> /\ (pc' = "qprepare" => target' = target /\ ~Refused)
        BY <2>1 DEF QCheck, Done
      <3>2. pc' # "qmove"
        BY <2>1 DEF QCheck, Done
      <3> QED BY <3>1, <3>2 DEF Refused, HasSource, Active
    <2>2. CASE ~QCheck
      <3>1. pc' \in {"qprepare", "qmove"} => pc = "qprepare" /\ pc' = "qmove" /\ target' = target
        BY <2>2, EntryControl
      <3> QED BY <1>1, <3>1 DEF Standing, HasSource, Active
    <2> QED BY <2>1, <2>2
  <1>4. ~(pc' \in AtIssuance \/ Rejoined')
    BY <1>1 DEF Rejoined, AtIssuance, AtEntry, Artifacts
  <1> QED BY <1>1, <1>2, <1>3, <1>4 DEF Standing

\* Every step keeps what stands.
LEMMA StandingNext ==
  ASSUME Inv, Ordered, Standing, [Next]_vars
  PROVE  Standing'
PROOF
  <1>1. CASE Quiet
    <2>1. UNCHANGED <<dir, meta, files, idem>>
      BY <1>1, QuietSteps DEF disk
    <2>2. \A k \in Keys : idem[k].st \in {"staged", "final"} => idem[k].by \in Ids
      BY DEF Inv, TypeOK, DiskTypes, Slot
    <2> QED BY <1>1, <2>1, <2>2, QuietSteps
            DEF Standing, Rejoined, HasSource, Active, AtIssuance, Artifacts
  <1>2. CASE Create
    BY <1>2, CreateStanding
  <1>3. ASSUME NEW f \in Artifacts, Publish(f)
        PROVE  Standing'
    <2>1. After[f] \in AtIssuance \cup {"next"}
      BY DEF After, Artifacts, AtIssuance
    <2>2. /\ pc \in AtIssuance /\ UNCHANGED <<dir, meta, idem>>
          /\ Fails \/ Goto(After[f])
      BY <1>3, PublishShape DEF AtIssuance
    <2>3. \A i \in Ids : files[i].complete = "final" => files'[i].complete = "final"
      BY NothingLost DEF Lasting, Artifacts
    <2> QED BY <2>1, <2>2, <2>3, AtIssuanceStanding
  <1>4. CASE Reserve \/ Sign
    BY <1>4, AtIssuanceStanding DEF Reserve, Sign, disk, AtIssuance, Artifacts
  <1>5. CASE PublishMapping
    BY <1>5, PublishMappingStanding
  <1>6. CASE LogIssuance
    BY <1>6, AtIssuanceStanding DEF LogIssuance, AtIssuance, Artifacts
  <1>7. CASE ScanPendings
    <2>1. \A i \in Ids : files[i].complete = "final" => files'[i].complete = "final"
      BY NothingLost DEF Lasting, Artifacts
    <2>2. /\ UNCHANGED <<dir, meta, idem>> /\ pc \notin AtEntry
          /\ pc' \in {"free", "qcheck", "pendings"} \/ (pc' = "next" /\ goal' = "scan")
      BY <1>7, ScanPendingsShape DEF AtEntry
    <2> QED BY <2>1, <2>2, StandingKept
  <1>8. CASE Quarantine
    BY <1>8, QuarantineStanding
  <1> QED BY <1>1, <1>2, <1>3, <1>4, <1>5, <1>6, <1>7, <1>8, StepKinds DEF Writing

\* The empty directory has nothing that stands.
LEMMA StandingInit == Init => Standing
PROOF
  BY DEF Init, Standing, Rejoined, AtIssuance, Artifacts, NoSlot

\* What is handed out was handed out before, or its key is bound to it.
LEMMA AnswersBound ==
  ASSUME Inv, [Next]_vars, NEW a \in answers'
  PROVE  \/ a \in answers
         \/ /\ idem[a.key] = SlotOf("final", a.id)
            /\ meta[a.id].key = a.key /\ meta[a.id].csr = a.csr
PROOF
  <1>1. CASE Replay
    <2> DEFINE i == idem[ask.key].by
    <2>1. CASE UNCHANGED answers
      BY <2>1
    <2>2. CASE Answer(i, 200) /\ SameRequest(i)
      <3>1. /\ ask.key \in Keys /\ idem[ask.key].st = "final" /\ i \in Ids
            /\ idem[ask.key] \in Slot
        BY <1>1, LookupFacts DEF Replay, Inv, TypeOK, DiskTypes
      <3>2. idem[ask.key] = SlotOf("final", i) /\ meta[i].key = ask.key
        BY <3>1 DEF Slot, SlotOf, Inv, Placed, Based
      <3>3. a \in answers \/ (a.key = ask.key /\ a.csr = ask.csr /\ a.id = i)
        BY <2>2 DEF Answer
      <3> QED BY <2>2, <3>2, <3>3 DEF SameRequest
    <2> QED BY <1>1, <2>1, <2>2 DEF Replay
  <1>2. CASE Reply
    <2>1. PICK status \in {200, 201} : Answer(cur, status)
      BY <1>2, ReplyFacts
    <2>2. /\ idem[ask.key] = SlotOf("final", cur) /\ meta[cur].key = ask.key
          /\ meta[cur].csr = ask.csr
      BY <1>2, ReplyFacts DEF Reply, Inv, Placed, Rejoined
    <2>3. a \in answers \/ (a.key = ask.key /\ a.csr = ask.csr /\ a.id = cur)
      BY <2>1 DEF Answer
    <2> QED BY <2>2, <2>3
  <1>3. CASE ~Replay /\ ~Reply
    <2>1. CASE PublishMapping
      BY <2>1 DEF PublishMapping
    <2>2. CASE ~PublishMapping
      BY <1>3, <2>2, OthersStutter DEF Register!regVars
    <2> QED BY <2>1, <2>2
  <1> QED BY <1>1, <1>2, <1>3

\* What a key is bound to is active and complete, and the binding lasts.
LEMMA AnswersNext ==
  ASSUME Inv, Inv', Ordered', Standing', [Next]_vars, AnswersStand
  PROVE  AnswersStand'
PROOF
  <1> SUFFICES ASSUME NEW a \in answers'
               PROVE  /\ idem'[a.key] = SlotOf("final", a.id)
                      /\ meta'[a.id].key = a.key /\ meta'[a.id].csr = a.csr
                      /\ dir'[a.id] = "active"
                      /\ files'[a.id].cert = "final" /\ files'[a.id].complete = "final"
    BY DEF AnswersStand
  <1>1. /\ idem[a.key] = SlotOf("final", a.id)
        /\ meta[a.id].key = a.key /\ meta[a.id].csr = a.csr
    BY AnswersBound DEF AnswersStand
  <1>2. a.key \in Keys /\ a.id \in Ids
    BY DEF Inv, TypeOK
  <1>3. idem[a.key].st = "final" /\ idem[a.key].by = a.id
    BY <1>1 DEF SlotOf
  <1>4. dir[a.id] # "none"
    BY <1>2, <1>3 DEF Inv, Placed, Based
  <1>5. idem'[a.key] = idem[a.key] /\ meta'[a.id] = meta[a.id]
    BY <1>2, <1>3, <1>4, NothingLost DEF Lasting
  <1>6. dir'[a.id] = "active" /\ files'[a.id].complete = "final"
    BY <1>2, <1>3, <1>5 DEF Standing
  <1>7. files'[a.id].cert = "final"
    BY <1>2, <1>6 DEF Ordered, InSequence
  <1> QED BY <1>1, <1>5, <1>6, <1>7

-----------------------------------------------------------------------------
(* One signature for each key.                                              *)

\* While a new issuance is on its way to its signature, no active issuance of
\* its key has one; what is signed has its intent, by which it is found.
SignedOnce ==
  /\ NoSecondSigning
  /\ \A i \in signed : files[i].intent = "final"
  /\ pc \in {"intent", "reserve", "sign"} =>
       \A j \in signed : ~(dir[j] = "active" /\ meta[j].key = meta[cur].key)

\* Only a signature can break it, and an issuance that comes to be.
LEMMA SignedOnceKept ==
  ASSUME Inv, Inv', Lasting, SignedOnce, signed' = signed,
         \A i \in Ids : dir'[i] = "active" /\ i \in signed => dir[i] = "active",
         pc' \in {"intent", "reserve", "sign"} =>
           pc \in {"intent", "reserve", "sign"} /\ cur' = cur
  PROVE  SignedOnce'
PROOF
  <1>1. \A i \in signed : i \in Ids /\ meta'[i] = meta[i] /\ files'[i].intent = "final"
    BY DEF Inv, TypeOK, Placed, Based, Lasting, SignedOnce, Artifacts
  <1>2. NoSecondSigning'
    BY <1>1 DEF SignedOnce, NoSecondSigning
  <1>3. pc' \in {"intent", "reserve", "sign"} => meta'[cur'] = meta[cur]
    <2>1. pc \in {"intent", "reserve", "sign"} => cur \in Ids /\ dir[cur] # "none"
      BY DEF Inv, Placed, AtIssuance, Artifacts
    <2> QED BY <2>1 DEF Lasting
  <1> QED BY <1>1, <1>2, <1>3 DEF SignedOnce

\* Every step keeps it.
LEMMA SignedOnceNext ==
  ASSUME Inv, Inv', Ordered, Standing, SignedOnce, [Next]_vars
  PROVE  SignedOnce'
PROOF
  <1>1. Lasting
    BY NothingLost
  <1>2. CASE Quiet
    BY <1>1, <1>2, QuietSteps, SignedOnceKept DEF disk
  <1>3. CASE Create
    <2>1. PICK n \in Ids, s \in Serials :
            /\ dir[n] = "none" /\ cur' = n
            /\ dir' = [dir EXCEPT ![n] = "active"]
            /\ meta' = [meta EXCEPT ![n] = [key |-> ask.key, csr |-> ask.csr, serial |-> s]]
      BY <1>3 DEF Create
    <2>2. UNCHANGED <<files, signed>> /\ Matches(ask.key) = {}
      BY <1>3 DEF Create, hist
    <2>3. \A i \in signed : i \in Ids /\ i # n
      BY <2>1 DEF Inv, TypeOK, Placed, Based
    <2>4. \A i \in signed : dir'[i] = dir[i] /\ meta'[i] = meta[i]
      BY <2>1, <2>3 DEF Inv, TypeOK, DiskTypes
    <2>5. \A i \in signed : ~(dir[i] = "active" /\ meta[i].key = ask.key)
      BY <2>2, <2>3 DEF SignedOnce, Matches, Active
    <2>6. meta'[cur'].key = ask.key
      BY <2>1 DEF Inv, TypeOK, DiskTypes
    <2> QED BY <2>2, <2>4, <2>5, <2>6 DEF SignedOnce, NoSecondSigning
  <1>4. ASSUME NEW f \in Artifacts, Publish(f)
        PROVE  SignedOnce'
    <2>1. /\ pc = f /\ UNCHANGED <<dir, signed>>
          /\ Fails \/ Goto(After[f])
      BY <1>4, PublishShape
    <2>2. pc' \in {"intent", "reserve", "sign"} => pc = "intent" /\ cur' = cur
      BY <2>1, FailsAway DEF Goto, After, Artifacts
    <2> QED BY <1>1, <2>1, <2>2, SignedOnceKept
  <1>5. CASE Reserve
    BY <1>1, <1>5, FailsAway, SignedOnceKept DEF Reserve, Goto
  <1>6. CASE Sign
    <2>1. /\ pc = "sign" /\ signed' = signed \cup {cur} /\ UNCHANGED <<dir, meta, files>>
          /\ pc' \in {"free", "qcheck", "cert"}
      BY <1>6, FailsAway DEF Sign, disk, Goto
    <2>2. files[cur].intent = "final"
      BY <2>1 DEF Ordered, Prepared
    <2>3. \A j \in signed : ~(dir[j] = "active" /\ meta[j].key = meta[cur].key)
      BY <2>1 DEF SignedOnce
    <2> QED BY <2>1, <2>2, <2>3 DEF SignedOnce, NoSecondSigning
  <1>7. CASE PublishMapping \/ LogIssuance
    <2>1. /\ UNCHANGED <<dir, signed>>
          /\ pc' \in {"free", "qcheck", "audit", "marker"}
      BY <1>7, FailsAway DEF PublishMapping, LogIssuance, Goto
    <2> QED BY <1>1, <2>1, SignedOnceKept
  <1>8. CASE ScanPendings
    BY <1>1, <1>8, ScanPendingsShape, SignedOnceKept
  <1>9. CASE Quarantine
    <2>1. /\ UNCHANGED signed /\ pc' \in AtEntry \cup {"free", "qcheck"}
          /\ \A i \in Ids : dir'[i] = "active" => dir[i] = "active"
      BY <1>9, QuarantineSteps
    <2> QED BY <1>1, <2>1, SignedOnceKept DEF AtEntry
  <1> QED BY <1>2, <1>3, <1>4, <1>5, <1>6, <1>7, <1>8, <1>9, StepKinds DEF Writing

\* Nothing is signed yet.
LEMMA SignedOnceInit == Init => SignedOnce
PROOF
  BY DEF Init, SignedOnce, NoSecondSigning

-----------------------------------------------------------------------------
(* One record of each event.                                                *)

\* A quarantine is on record only once it has its entry, and not while it is
\* at work.
LoggedFresh ==
  /\ LoggedOnce
  /\ \A q \in Quars : Logged(Quarantined(q)) => quars[q] # Nobody
  /\ pc \in AtEntry => ~Logged(Quarantined(entry))

\* A record that was not in the chain is in it once.
LEMMA AppendOnce ==
  ASSUME Inv, LoggedOnce, NEW e, ~Logged(e),
         audit' = audit \/ audit' = Append(audit, e)
  PROVE  LoggedOnce'
PROOF
  <1>1. audit \in Seq(Events)
    BY DEF Inv, TypeOK, DiskTypes
  <1>2. CASE audit' = audit
    BY <1>2 DEF LoggedOnce
  <1>3. CASE audit' = Append(audit, e)
    <2>1. /\ DOMAIN audit' = DOMAIN audit \cup {Len(audit) + 1}
          /\ \A n \in DOMAIN audit : audit'[n] = audit[n]
          /\ audit'[Len(audit) + 1] = e
      BY <1>1, <1>3
    <2>2. \A n \in DOMAIN audit : audit[n] # e
      BY DEF Logged
    <2> QED BY <2>1, <2>2, Zenon DEF LoggedOnce
  <1> QED BY <1>2, <1>3

\* What a new entry of a quarantine says.
NewEntry ==
  [id |-> target, serial |-> QuarantineSerial, pend |-> Pick(OwnStaged),
   prepared |-> FALSE, original |-> FALSE, copied |-> FALSE, done |-> FALSE]

\* The flag of its entry that a quarantine sets at each place.
Flag == [qprepare |-> "prepared", qmove |-> "original", qcopy |-> "copied", qdone |-> "done"]

\* Entries change in two ways: a quarantine makes its own, or sets a flag of it.
LEMMA EntrySteps ==
  ASSUME Inv, [Next]_vars
  PROVE  \/ UNCHANGED quars
         \/ /\ QCheck /\ ~Refused /\ pc' = "qprepare" /\ target' = target
            /\ entry' \in Quars /\ quars[entry'] = Nobody
            /\ quars' = [quars EXCEPT ![entry'] = NewEntry]
         \/ /\ Quarantine /\ pc \in DOMAIN Flag
            /\ quars' = [quars EXCEPT ![entry] = [quars[entry] EXCEPT ![Flag[pc]] = TRUE]]
PROOF
  <1>1. CASE QCheck
    BY <1>1 DEF QCheck, Free, NewEntry
  <1>2. CASE QPrepare \/ QCopy \/ QDone
    <2>1. /\ QPrepare => Flag[pc] = "prepared" /\ pc \in DOMAIN Flag
          /\ QCopy => Flag[pc] = "copied" /\ pc \in DOMAIN Flag
          /\ QDone => Flag[pc] = "done" /\ pc \in DOMAIN Flag
      BY DEF Flag, QPrepare, QCopy, QDone
    <2>2. UNCHANGED quars \/ quars' = [quars EXCEPT ![entry][Flag[pc]] = TRUE]
      BY <1>2, <2>1 DEF QPrepare, QCopy, QDone, QWrite
    <2> QED BY <1>2, <2>1, <2>2 DEF Quarantine
  <1>3. CASE QMove
    <2>1. Flag[pc] = "original" /\ pc \in DOMAIN Flag
      BY <1>3 DEF Flag, QMove
    <2>2. UNCHANGED quars \/ quars' = [quars EXCEPT ![entry][Flag[pc]] = TRUE]
      BY <1>3, <2>1 DEF QMove
    <2> QED BY <1>3, <2>1, <2>2 DEF Quarantine
  <1>4. CASE QClear \/ QAudit
    BY <1>4 DEF QClear, QAudit
  <1>5. CASE Quiet
    BY <1>5, QuietSteps DEF disk
  <1>6. CASE Writing /\ ~Quarantine
    BY <1>6, ScanPendingsShape
       DEF Writing, Create, Publish, Reserve, Sign, PublishMapping, LogIssuance, disk
  <1> QED BY <1>1, <1>2, <1>3, <1>4, <1>5, <1>6, StepKinds DEF Quarantine

\* A flag that is set leaves the rest of the entry as it was.
LEMMA FlagSet ==
  ASSUME Inv, Quarantine, pc \in DOMAIN Flag,
         quars' = [quars EXCEPT ![entry] = [quars[entry] EXCEPT ![Flag[pc]] = TRUE]]
  PROVE  /\ entry \in Quars /\ quars[entry] \in Entries /\ quars'[entry] \in Entries
         /\ \A q \in Quars : q # entry => quars'[q] = quars[q]
         /\ quars'[entry].id = quars[entry].id /\ quars'[entry].serial = quars[entry].serial
         /\ quars'[entry].original = (IF pc = "qmove" THEN TRUE ELSE quars[entry].original)
         /\ quars'[entry].copied = (IF pc = "qcopy" THEN TRUE ELSE quars[entry].copied)
         /\ quars'[entry].done = (IF pc = "qdone" THEN TRUE ELSE quars[entry].done)
PROOF
  <1>1. pc \in {"qprepare", "qmove", "qcopy", "qdone"}
    BY DEF Flag
  <1>2. entry \in Quars /\ quars[entry] \in Entries
    BY <1>1 DEF Inv, Placed, AtEntry
  <1>3. quars \in [Quars -> Entries \cup {Nobody}]
    BY DEF Inv, TypeOK, DiskTypes
  <1>4. /\ \A q \in Quars : q # entry => quars'[q] = quars[q]
        /\ quars'[entry] = [quars[entry] EXCEPT ![Flag[pc]] = TRUE]
    BY <1>2, <1>3
  <1>5. /\ Flag[pc] \in {"prepared", "original", "copied", "done"}
        /\ Flag[pc] = "original" <=> pc = "qmove"
        /\ Flag[pc] = "copied" <=> pc = "qcopy"
        /\ Flag[pc] = "done" <=> pc = "qdone"
    BY <1>1 DEF Flag
  <1>6. PICK flag \in {"prepared", "original", "copied", "done"} : flag = Flag[pc]
    BY <1>5
  <1>7. PICK r \in Entries : r = quars[entry]
    BY <1>2
  <1>8. PICK t : t = quars'[entry]
    OBVIOUS
  <1>9. t = [r EXCEPT ![flag] = TRUE]
    BY <1>4, <1>6, <1>7, <1>8
  <1>10. /\ t \in Entries /\ t.id = r.id /\ t.serial = r.serial
         /\ t.original = (IF flag = "original" THEN TRUE ELSE r.original)
         /\ t.copied = (IF flag = "copied" THEN TRUE ELSE r.copied)
         /\ t.done = (IF flag = "done" THEN TRUE ELSE r.done)
    <2>1. CASE flag = "prepared"
      BY <1>9, <2>1 DEF Entries
    <2>2. CASE flag = "original"
      BY <1>9, <2>2 DEF Entries
    <2>3. CASE flag = "copied"
      BY <1>9, <2>3 DEF Entries
    <2>4. CASE flag = "done"
      BY <1>9, <2>4 DEF Entries
    <2> QED BY <2>1, <2>2, <2>3, <2>4
  <1> QED BY <1>2, <1>4, <1>5, <1>6, <1>7, <1>8, <1>10

\* An entry keeps what it says, and is done or has its original only by the
\* step that writes that.
LEMMA EntryLasts ==
  ASSUME Inv, Inv', [Next]_vars, NEW q \in Quars, quars[q] # Nobody
  PROVE  /\ quars'[q] # Nobody
         /\ quars'[q].id = quars[q].id /\ quars'[q].serial = quars[q].serial
         /\ quars[q].copied => quars'[q].copied
         /\ quars[q].original => quars'[q].original
         /\ quars'[q].original => quars[q].original \/ (QMove /\ q = entry)
         /\ quars'[q].done => quars[q].done \/ (QDone /\ q = entry)
PROOF
  <1>1. quars \in [Quars -> Entries \cup {Nobody}]
    BY DEF Inv, TypeOK, DiskTypes
  <1>2. CASE UNCHANGED quars
    BY <1>2
  <1>3. CASE /\ entry' \in Quars /\ quars[entry'] = Nobody
             /\ quars' = [quars EXCEPT ![entry'] = NewEntry]
    <2>1. q # entry'
      BY <1>3
    <2>2. quars'[q] = quars[q]
      BY <1>1, <1>3, <2>1
    <2> QED BY <2>2
  <1>4. CASE /\ Quarantine /\ pc \in DOMAIN Flag
             /\ quars' = [quars EXCEPT ![entry] = [quars[entry] EXCEPT ![Flag[pc]] = TRUE]]
    <2>1. CASE q # entry
      BY <1>4, <2>1, FlagSet
    <2>2. CASE q = entry
      <3>1. (pc = "qmove" => QMove) /\ (pc = "qdone" => QDone)
        BY <1>4 DEF Quarantine, QCheck, QPrepare, QMove, QCopy, QClear, QDone, QAudit
      <3> QED BY <1>4, <2>2, <3>1, FlagSet, EntryAssumption
    <2> QED BY <2>1, <2>2
  <1> QED BY <1>2, <1>3, <1>4, EntrySteps

\* Every step records a new event, or none.
LEMMA LoggedNext ==
  ASSUME Inv, Inv', LoggedFresh, [Next]_vars
  PROVE  LoggedFresh'
PROOF
  <1>1. \A q \in Quars : quars[q] # Nobody => quars'[q] # Nobody
    BY EntryLasts
  <1>2. CASE audit' = audit
    <2>1. LoggedOnce' /\ \A q \in Quars : Logged(Quarantined(q))' => quars'[q] # Nobody
      BY <1>1, <1>2 DEF LoggedFresh, LoggedOnce, Logged
    <2>2. ASSUME pc' \in AtEntry, Logged(Quarantined(entry))'
          PROVE  FALSE
      <3>1. PICK q \in Quars : q = entry'
        BY <2>2 DEF Inv, Placed
      <3>2. Logged(Quarantined(q))
        BY <1>2, <2>2, <3>1 DEF Logged, Quarantined
      <3>3. CASE QCheck
        <4>1. quars[q] = Nobody
          BY <2>2, <3>1, <3>3 DEF QCheck, Done, Free, AtEntry
        <4> QED BY <3>2, <4>1 DEF LoggedFresh
      <3>4. CASE Quarantine /\ ~QCheck
        <4>1. pc \in AtEntry /\ entry' = entry
          BY <2>2, <3>4, EntryControl DEF AtEntry
        <4> QED BY <3>1, <3>2, <4>1 DEF LoggedFresh
      <3>5. CASE Quiet
        <4>1. pc \in AtEntry /\ entry' = entry
          BY <2>2, <3>5, QuietSteps DEF AtEntry
        <4> QED BY <3>1, <3>2, <4>1 DEF LoggedFresh
      <3>6. CASE Writing /\ ~Quarantine
        <4>1. pc' \notin AtEntry
          <5>1. \A f \in Artifacts : After[f] \notin AtEntry
            BY DEF After, Artifacts, AtEntry
          <5> QED BY <3>6, <5>1, FailsAway, PublishShape, ScanPendingsShape
                  DEF Writing, Create, Reserve, Sign, PublishMapping, LogIssuance, Goto, AtEntry
        <4> QED BY <2>2, <4>1
      <3> QED BY <3>3, <3>4, <3>5, <3>6, StepKinds
    <2> QED BY <2>1, <2>2 DEF LoggedFresh
  <1>3. CASE audit' # audit
    <2>1. LogIssuance \/ QAudit
      <3>1. CASE Quiet
        BY <1>3, <3>1, QuietSteps DEF disk
      <3>2. CASE Writing
        BY <1>3, <3>2, QuarantineSteps, PublishShape, ScanPendingsShape
           DEF Writing, Create, Reserve, Sign, PublishMapping, Quarantine, QCheck, QPrepare,
               QMove, QCopy, QClear, QDone, disk, hist
      <3> QED BY <3>1, <3>2, StepKinds
    <2>2. PICK e \in Events : /\ audit' = Append(audit, e) /\ ~Logged(e)
                              /\ LogIssuance => e = Issued(cur)
                              /\ QAudit => e = Quarantined(entry)
      <3>1. CASE LogIssuance
        <4>1. ~Logged(Issued(cur)) /\ audit' = Append(audit, Issued(cur)) /\ ~QAudit
          BY <1>3, <3>1, AppendAudit DEF LogIssuance, QAudit
        <4>2. Issued(cur) \in Events
          BY <3>1 DEF LogIssuance, Inv, Placed, AtIssuance, Issued, Events
        <4> QED BY <4>1, <4>2
      <3>2. CASE QAudit
        <4>1. audit' = Append(audit, Quarantined(entry)) /\ ~LogIssuance
          BY <1>3, <3>2, AppendAudit DEF LogIssuance, QAudit
        <4>2. pc \in AtEntry /\ entry \in Quars
          BY <3>2 DEF QAudit, Inv, Placed, AtEntry
        <4>3. Quarantined(entry) \in Events /\ ~Logged(Quarantined(entry))
          BY <4>2 DEF Quarantined, Events, LoggedFresh
        <4> QED BY <4>1, <4>3
      <3> QED BY <2>1, <3>1, <3>2
    <2>3. LoggedOnce'
      BY <2>2, AppendOnce DEF LoggedFresh
    <2>4. ASSUME NEW q \in Quars, Logged(Quarantined(q))'
          PROVE  quars'[q] # Nobody
      <3>1. Logged(Quarantined(q)) \/ Quarantined(q) = e
        BY <2>2, <2>4, AppendLogged
      <3>2. CASE Logged(Quarantined(q))
        BY <1>1, <3>2 DEF LoggedFresh
      <3>3. CASE Quarantined(q) = e
        <4>1. QAudit /\ q = entry
          BY <2>1, <2>2, <3>3 DEF Quarantined, Issued
        <4>2. quars[q] \in Entries
          BY <4>1 DEF QAudit, Inv, Placed, AtEntry
        <4> QED BY <1>1, <4>2, EntryAssumption
      <3> QED BY <3>1, <3>2, <3>3
    <2>5. pc' \notin AtEntry
      BY <2>1, FailsAway DEF LogIssuance, QAudit, Done, Goto, AtEntry
    <2> QED BY <2>3, <2>4, <2>5 DEF LoggedFresh
  <1> QED BY <1>2, <1>3

\* Nothing is logged yet.
LEMMA LoggedInit == Init => LoggedFresh
PROOF
  BY DEF Init, LoggedFresh, LoggedOnce, Logged, AtEntry

-----------------------------------------------------------------------------
(* What a scan has visited.                                                 *)

\* Who holds the file lock and the mutex, and for what: jobs wait only while
\* the server lives, nobody is at an issuance before one was found, and only
\* the job that created an issuance is at the steps before its COMMIT.
Held ==
  /\ mode = "down" => pc = "free"
  /\ mode # "serving" => \A p \in Permits : waiting[p] = Nobody
  /\ pc \in {"free", "lookup", "pendings", "qcheck"} => cur = Nobody
  /\ pc = "free" => goal = "none"
  /\ pc \in {"lookup", "intent", "reserve", "sign", "cert", "record", "commit"} =>
       goal = "issue"
  /\ pc \in AtEntry \cup {"qcheck"} => goal = "quarantine"

\* An operation that goes on, in the order of issue().
LEMMA HeldOn ==
  ASSUME Held, pc # "free", NEW next, Goto(next),
         next \notin {"free", "lookup", "pendings", "intent", "qcheck"},
         next \in {"reserve", "sign", "cert", "record", "commit"} =>
           pc \in {"intent", "reserve", "sign", "cert", "record"},
         next \in AtEntry => pc \in AtEntry
  PROVE  Held'
PROOF
  BY DEF Held, Goto, AtEntry

\* An operation that ends, well or not.
LEMMA HeldOff ==
  ASSUME Held, Done \/ Fails
  PROVE  Held'
PROOF
  <1>1. CASE Done
    BY <1>1 DEF Held, Done, AtEntry
  <1>2. CASE Fails /\ ~Done
    BY <1>2 DEF Held, Fails, AtEntry
  <1> QED BY <1>1, <1>2

\* Every step keeps who holds what.
LEMMA HeldNext ==
  ASSUME Inv, Held, [Next]_vars
  PROVE  Held'
PROOF
  <1>1. CASE UNCHANGED vars
    BY <1>1 DEF vars, run, Held
  <1>2. CASE Start \/ Watch \/ Crash \/ \E i \in Ids \cup {Nobody} : Command(i)
    BY <1>2 DEF Start, Watch, Wake, BeginScan, Crash, Command, Held, AtEntry
  <1>3. CASE \E p \in Permits : Acquire(p) \/ \E r \in Requests : Admit(p, r)
    BY <1>3 DEF Acquire, Admit, Held, AtEntry
  <1>4. CASE Replay \/ Reply
    BY <1>4, HeldOff DEF Replay, Reply
  <1>5. CASE Rejoin \/ Create
    <2>1. CASE Done
      BY <2>1, HeldOff
    <2>2. CASE ~Done
      BY <1>5, <2>2 DEF Rejoin, Create, Unmapped, Held, AtEntry
    <2> QED BY <2>1, <2>2
  <1>6. ASSUME NEW f \in Artifacts, Publish(f)
        PROVE  Held'
    <2>1. pc = f /\ f # "free" /\ (Fails \/ Goto(After[f]))
      BY <1>6 DEF Publish, Artifacts
    <2>2. /\ After[f] \notin {"free", "lookup", "pendings", "intent", "qcheck"} \cup AtEntry
          /\ After[f] \in {"reserve", "sign", "cert", "record", "commit"} =>
               f \in {"intent", "reserve", "sign", "cert", "record"}
      BY DEF After, Artifacts, AtEntry
    <2> QED BY <2>1, <2>2, HeldOff, HeldOn
  <1>7. CASE Reserve \/ Sign \/ PublishMapping \/ LogIssuance
    <2>1. CASE Fails
      BY <2>1, HeldOff
    <2>2. CASE ~Fails
      BY <1>7, <2>2 DEF Reserve, Sign, PublishMapping, LogIssuance, Goto, Held, AtEntry
    <2> QED BY <2>1, <2>2
  <1>8. CASE ScanPendings \/ ScanNext \/ ScanValidate
    <2>1. CASE Fails
      BY <2>1, HeldOff
    <2>2. CASE ~Fails
      BY <1>8, <2>2, PendingsFacts DEF ScanNext, ScanValidate, Goto, Held, AtEntry
    <2> QED BY <2>1, <2>2
  <1>9. CASE Quarantine
    <2>1. CASE Fails \/ Done
      BY <2>1, HeldOff
    <2>2. CASE QCheck /\ ~Done
      BY <2>2 DEF QCheck, Held, AtEntry
    <2>3. CASE ~QCheck /\ ~Fails /\ ~Done
      BY <1>9, <2>3 DEF Quarantine, QPrepare, QMove, QCopy, QClear, QDone, QAudit, QWrite,
                        Goto, Held, AtEntry
    <2> QED BY <2>1, <2>2, <2>3
  <1> QED BY <1>1, <1>2, <1>3, <1>4, <1>5, <1>6, <1>7, <1>8, <1>9
          DEF Next, Work, Issue, Recover, Scan

\* Nobody holds anything yet.
LEMMA HeldInit == Init => Held
PROOF
  BY DEF Init, Held, AtEntry

\* Everything recovery does for an issuance is done.
Settled(i) ==
  /\ \A f \in Artifacts : files[i][f] = "final"
  /\ Bound(i)
  /\ Logged(Issued(i))

\* Whom the scan has been to.
Reached(i) ==
  \/ pc = "validate"
  \/ cur # Nobody /\ i < cur
  \/ cur # Nobody /\ i = cur /\ pc = "next"

\* A scan leaves no issuance behind that is not settled.
Visited ==
  goal = "scan" /\ pc \in AtIssuance \cup {"next", "validate"} =>
    \A i \in Active : Reached(i) => Settled(i)

\* What is settled stays settled.
LEMMA SettledLasts ==
  ASSUME Inv, Inv', Lasting, NEW i \in Ids, dir[i] # "none", Settled(i)
  PROVE  Settled(i)'
PROOF
  <1>1. \A f \in Artifacts : files'[i][f] = "final"
    BY DEF Lasting, Settled
  <1>2. Bound(i)'
    <2>1. meta[i].key \in Keys /\ meta'[i] = meta[i]
      BY DEF Inv, Placed, Based, Metas, Lasting
    <2>2. idem[meta[i].key] = SlotOf("final", i) /\ SlotOf("final", i).st = "final"
      BY DEF Settled, Bound, SlotOf
    <2> QED BY <2>1, <2>2 DEF Lasting, Bound
  <1>3. Logged(Issued(i))'
    <2>1. PICK n \in DOMAIN audit : audit[n] = Issued(i)
      BY DEF Settled, Logged
    <2>2. /\ audit \in Seq(Events) /\ audit' \in Seq(Events)
          /\ Len(audit) <= Len(audit')
      BY DEF Inv, TypeOK, DiskTypes, Lasting
    <2>3. n \in DOMAIN audit'
      BY <2>1, <2>2
    <2>4. audit'[n] = Issued(i)
      BY <2>1 DEF Lasting
    <2> QED BY <2>3, <2>4 DEF Logged, Issued
  <1> QED BY <1>1, <1>2, <1>3 DEF Settled

\* A step that goes on with the same issuance visits none but, at the marker,
\* that one.
LEMMA VisitedOn ==
  ASSUME Inv, Inv', Visited, [Next]_vars, UNCHANGED <<dir, goal, cur>>,
         pc \in AtIssuance \cup {"next", "validate"},
         pc' = "next" /\ goal = "scan" => pc = "next" \/ Settled(cur)',
         pc' = "validate" => pc = "validate"
  PROVE  Visited'
PROOF
  <1> SUFFICES ASSUME goal = "scan", NEW i \in Active, Reached(i)'
               PROVE  Settled(i)'
    BY DEF Visited, Active
  <1>1. i \in Ids /\ dir[i] # "none"
    BY DEF Active
  <1>2. CASE Reached(i)
    BY <1>1, <1>2, NothingLost, SettledLasts DEF Visited
  <1>3. CASE ~Reached(i)
    <2>1. pc' = "next" /\ pc # "next" /\ i = cur
      BY <1>3 DEF Reached
    <2> QED BY <2>1
  <1> QED BY <1>2, <1>3

\* The next visit is to the first issuance after the last one.
LEMMA ScanNextVisited ==
  ASSUME Inv, Inv', Visited, ScanNext
  PROVE  Visited'
PROOF
  <1>1. UNCHANGED <<disk, signed>> /\ goal = "scan" /\ pc = "next"
    BY DEF ScanNext, hist
  <1>2. \A i : Settled(i) => Settled(i)'
    BY <1>1 DEF Settled, Bound, Logged, disk
  <1>3. CASE Fails
    BY <1>3, FailsAway DEF Visited, AtIssuance, Artifacts
  <1>4. \A i \in Active : i \notin Unvisited => Settled(i)
    <2> SUFFICES ASSUME NEW i \in Active, i \notin Unvisited
                 PROVE  Settled(i)
      OBVIOUS
    <2>1. cur # Nobody /\ ~(i > cur)
      BY DEF Unvisited
    <2>2. i \in Nat /\ cur \in Nat
      BY <2>1, IdsAssumption DEF Active, Inv, TypeOK, RunTypes, Owners
    <2>3. Reached(i)
      BY <1>1, <2>1, <2>2 DEF Reached
    <2> QED BY <1>1, <2>3 DEF Visited
  <1>5. CASE Goto("validate") /\ Unvisited = {}
    BY <1>1, <1>2, <1>4, <1>5 DEF Visited, Goto, Active, disk
  <1>6. CASE Unvisited # {} /\ pc' = "complete" /\ cur' = First(Unvisited)
    <2>1. Unvisited \in SUBSET Nat
      BY IdsAssumption DEF Unvisited, Active
    <2> SUFFICES ASSUME NEW i \in Active, Reached(i)'
                 PROVE  Settled(i)
      BY <1>1, <1>2 DEF Visited, Active, disk
    <2>2. i < First(Unvisited)
      BY <1>6 DEF Reached
    <2>3. i \notin Unvisited
      <3> SUFFICES ASSUME i \in Unvisited PROVE FALSE
        OBVIOUS
      <3>1. First(Unvisited) \in Nat /\ i \in Nat /\ First(Unvisited) <= i
        BY <2>1, FirstIsLeast
      <3> QED BY <2>2, <3>1
    <2> QED BY <1>4, <2>3
  <1> QED BY <1>3, <1>5, <1>6 DEF ScanNext

\* At its marker an issuance is settled.
LEMMA MarkerSettles ==
  ASSUME Inv, Inv', Ordered, [Next]_vars, Publish("marker"), Goto("next")
  PROVE  Settled(cur)'
PROOF
  <1>1. /\ pc = "marker" /\ cur \in Ids
        /\ UNCHANGED <<dir, meta, idem, audit>>
    BY PublishShape DEF Artifacts
  <1>2. cur' = cur /\ pc' # "free" /\ pc' # "qcheck"
    BY DEF Goto
  <1>3. PICK st \in FileStates : /\ files' = [files EXCEPT ![cur]["marker"] = st]
                                 /\ Fails \/ st = "final"
    BY PublishShape DEF Artifacts
  <1>4. files'[cur]["marker"] = "final"
    <2>1. st = "final"
      BY <1>2, <1>3, FailsAway
    <2> QED BY <1>1, <1>3, <2>1 DEF Inv, TypeOK, DiskTypes, Artifacts
  <1>5. /\ files[cur].complete = "final" /\ files[cur].commit = "final"
        /\ files[cur].record = "final" /\ files[cur].cert = "final"
        /\ files[cur].intent = "final"
    BY <1>1 DEF Ordered, Prepared, InSequence
  <1>6. \A f \in Artifacts : files'[cur][f] = "final"
    BY <1>1, <1>4, <1>5, NothingLost DEF Lasting, Artifacts
  <1>7. Bound(cur) /\ Logged(Issued(cur))
    BY <1>1 DEF Inv, Placed, Ordered, Prepared
  <1> QED BY <1>1, <1>2, <1>6, <1>7 DEF Settled, Bound, Logged, Issued

\* Every step keeps what was visited.
LEMMA VisitedNext ==
  ASSUME Inv, Inv', Ordered, Held, Visited, [Next]_vars
  PROVE  Visited'
PROOF
  <1>1. CASE pc' \notin AtIssuance \cup {"next", "validate"} \/ goal' # "scan"
    BY <1>1 DEF Visited
  <1>2. CASE pc' \in AtIssuance \cup {"next", "validate"} /\ goal' = "scan"
    <2>1. CASE Quiet /\ ~ScanNext
      <3>1. UNCHANGED <<dir, goal, cur, pc>> /\ pc \in AtIssuance \cup {"next", "validate"}
        BY <1>2, <2>1, FailsAway
           DEF Quiet, vars, disk, run, Start, Watch, Wake, BeginScan, Crash, Command, Acquire,
               Admit, Replay, Reply, Rejoin, ScanValidate, Done, AtIssuance, Artifacts
      <3> QED BY <3>1, VisitedOn
    <2>2. CASE ScanNext
      BY <2>2, ScanNextVisited
    <2>3. CASE Create
      BY <1>2, <2>3 DEF Create, Unmapped, Held
    <2>4. ASSUME NEW f \in Artifacts, Publish(f)
          PROVE  Visited'
      <3>1. pc = f /\ UNCHANGED dir /\ Goto(After[f])
        BY <1>2, <2>4, PublishShape, FailsAway DEF AtIssuance, Artifacts
      <3>2. pc' = "next" => f = "marker"
        BY <3>1 DEF Goto, After, Artifacts
      <3>3. pc' = "next" => Settled(cur)'
        BY <2>4, <3>1, <3>2, MarkerSettles DEF Goto
      <3>4. pc' # "validate"
        BY <3>1 DEF Goto, After, Artifacts
      <3> QED BY <3>1, <3>3, <3>4, VisitedOn DEF Goto, AtIssuance
    <2>5. CASE Reserve \/ Sign \/ PublishMapping \/ LogIssuance
      <3>1. /\ UNCHANGED <<dir, goal, cur>> /\ pc \in AtIssuance
            /\ pc' \notin {"next", "validate"}
        BY <1>2, <2>5, FailsAway
           DEF Reserve, Sign, PublishMapping, LogIssuance, Goto, disk, AtIssuance, Artifacts
      <3> QED BY <3>1, VisitedOn
    <2>6. CASE ScanPendings
      <3>1. pc' = "next" /\ cur' = cur /\ pc = "pendings"
        BY <1>2, <2>6, ScanPendingsShape DEF AtIssuance, Artifacts
      <3>2. cur = Nobody
        BY <3>1 DEF Held
      <3> QED BY <3>1, <3>2 DEF Visited, Reached
    <2>7. CASE Quarantine
      BY <1>2, <2>7, QuarantineSteps DEF AtIssuance, AtEntry, Artifacts
    <2> QED BY <2>1, <2>2, <2>3, <2>4, <2>5, <2>6, <2>7, StepKinds DEF Writing
  <1> QED BY <1>1, <1>2

\* No scan is under way yet.
LEMMA VisitedInit == Init => Visited
PROOF
  BY DEF Init, Visited

-----------------------------------------------------------------------------
(* What readiness vouches for.                                              *)

\* Readiness is gained at the end of a scan, over what the scan found valid.
LEMMA ReadyByScan ==
  ASSUME Inv, [Next]_vars, ~ready, ready'
  PROVE  pc = "validate" /\ goal = "scan" /\ ReservationsValid /\ QuarantinesWhole
PROOF
  <1>1. CASE ScanValidate
    BY <1>1 DEF ScanValidate, Fails, Done, Inv, Placed
  <1>2. CASE Quiet /\ ~ScanValidate
    BY <1>2 DEF Quiet, vars, run, Start, Watch, Wake, BeginScan, Crash, Command, Acquire, Admit,
                Replay, Rejoin, Reply, ScanNext, Goto, Fails, Done
  <1>3. CASE Writing
    BY <1>3, PendingsFacts
            DEF Writing, Create, Publish, Reserve, Sign, PublishMapping, LogIssuance, Quarantine,
                QCheck, QPrepare, QMove, QCopy, QClear, QDone, QAudit, QWrite,
                Goto, Fails, Done
  <1> QED BY <1>1, <1>2, <1>3, StepKinds

\* Then every issuance is finished.
LEMMA ReadyIsSettled ==
  ASSUME Inv, Visited, [Next]_vars, ~ready, ready'
  PROVE  (\A i \in Ids : dir[i] = "active" => Finished(i)) /\ QuarantinesWhole
PROOF
  <1>1. pc = "validate" /\ goal = "scan" /\ ReservationsValid /\ QuarantinesWhole
    BY ReadyByScan
  <1>2. ASSUME NEW i \in Ids, dir[i] = "active"
        PROVE  Finished(i)
    <2>1. i \in Active /\ Settled(i)
      BY <1>1, <1>2 DEF Visited, Reached, Active
    <2>2. PICK s \in Serials : resv[s] = SlotOf("final", i)
      BY <1>1, <2>1 DEF ReservationsValid
    <2>3. resv[s].st = "final" /\ resv[s].by = i
      BY <2>2 DEF SlotOf
    <2>4. files[i].intent = "final"
      BY <2>1 DEF Settled, Artifacts
    <2>5. meta[i].serial = s
      BY <1>1, <2>1, <2>3, <2>4 DEF ReservationsValid
    <2> QED BY <2>1, <2>2, <2>5 DEF Settled, Bound, Finished
  <1> QED BY <1>1, <1>2

-----------------------------------------------------------------------------
(* What a quarantine keeps.                                                 *)

\* A reservation that has its bytes is of an issuance that has its intent.
Owned ==
  \A s \in Serials : resv[s].st \in {"staged", "final"} =>
    /\ dir[resv[s].by] # "none" /\ meta[resv[s].by].serial = s
    /\ files[resv[s].by].intent = "final"

\* Only an active issuance gets a reservation.
LEMMA ResvSteps ==
  ASSUME Inv, Ordered, Standing, [Next]_vars, NEW s \in Serials, resv'[s] # resv[s],
         resv'[s].st \in {"staged", "final"}
  PROVE  /\ pc \notin AtEntry
         /\ resv'[s].by \in Ids /\ dir[resv'[s].by] = "active"
         /\ meta[resv'[s].by].serial = s /\ files'[resv'[s].by].intent = "final"
PROOF
  <1>1. CASE Reserve
    <2> DEFINE z == meta[cur].serial
    <2>1. pc = "reserve" /\ cur \in Ids /\ UNCHANGED <<meta, files>>
      BY <1>1 DEF Reserve, Inv, Placed, AtIssuance
    <2>2. dir[cur] = "active" /\ files[cur].intent = "final"
      BY <2>1 DEF Standing, Ordered, Prepared, AtIssuance
    <2>3. PICK st : resv' = [resv EXCEPT ![z] = SlotOf(st, cur)]
      BY <1>1 DEF Reserve
    <2>4. s = z /\ resv'[s] = SlotOf(st, cur)
      BY <2>3 DEF Inv, TypeOK, DiskTypes
    <2>5. resv'[s].by = cur
      BY <2>4 DEF SlotOf
    <2> QED BY <2>1, <2>2, <2>4, <2>5 DEF AtEntry
  <1>2. CASE ScanPendings
    <2>1. PICK z \in Serials, i \in Active, st \in FileStates :
            /\ UNCHANGED files /\ BoundTo(i, z)
            /\ resv' = [resv EXCEPT ![z] = SlotOf(st, i)]
      BY <1>2, PendingsFacts
    <2>2. s = z /\ resv'[s] = SlotOf(st, i)
      BY <2>1 DEF Inv, TypeOK, DiskTypes
    <2>3. resv'[s].by = i
      BY <2>2 DEF SlotOf
    <2>4. pc = "pendings" /\ UNCHANGED meta
      BY <1>2, PendingsFacts
    <2> QED BY <2>1, <2>2, <2>3, <2>4 DEF BoundTo, Active, AtEntry
  <1>3. CASE Quarantine
    <2>1. QClear /\ resv' = [resv EXCEPT ![quars[entry].pend] = NoSlot]
      BY <1>3 DEF Quarantine, QCheck, QPrepare, QMove, QCopy, QClear, QDone, QAudit
    <2>2. resv'[s] = NoSlot
      BY <2>1 DEF Inv, TypeOK, DiskTypes
    <2> QED BY <2>2 DEF NoSlot
  <1>4. CASE Quiet
    BY <1>4, QuietSteps DEF disk
  <1>5. CASE Writing /\ ~Reserve /\ ~ScanPendings /\ ~Quarantine
    BY <1>5 DEF Writing, Create, Publish, Sign, PublishMapping, LogIssuance, disk
  <1> QED BY <1>1, <1>2, <1>3, <1>4, <1>5, StepKinds

\* Every step keeps whose reservations they are.
LEMMA OwnedNext ==
  ASSUME Inv, Ordered, Standing, Owned, [Next]_vars
  PROVE  Owned'
PROOF
  <1> SUFFICES ASSUME NEW s \in Serials, resv'[s].st \in {"staged", "final"}
               PROVE  /\ dir'[resv'[s].by] # "none" /\ meta'[resv'[s].by].serial = s
                      /\ files'[resv'[s].by].intent = "final"
    BY DEF Owned
  <1>1. CASE resv'[s] = resv[s]
    <2>1. resv[s].by \in Ids
      BY <1>1 DEF Inv, TypeOK, DiskTypes, Slot
    <2> QED BY <1>1, <2>1, NothingLost DEF Owned, Lasting, Artifacts
  <1>2. CASE resv'[s] # resv[s]
    BY <1>2, ResvSteps, NothingLost DEF Lasting
  <1> QED BY <1>1, <1>2

\* No reservation has its bytes yet.
LEMMA OwnedInit == Init => Owned
PROOF
  BY DEF Init, Owned, NoSlot

\* A quarantine at work writes the entry of its target, under the serial that
\* the target has reserved; it moves the target before it copies, and copies
\* the reservation before it is done.
Archiving ==
  /\ pc \in AtEntry =>
       /\ target \in Ids /\ dir[target] # "none" /\ quars[entry].id = target
       /\ \A s \in Serials : resv[s] = SlotOf("final", target) => quars[entry].serial = s
  /\ pc \in {"qcopy", "qclear", "qdone", "qaudit"} => quars[entry].original
  /\ pc \in {"qclear", "qdone", "qaudit"} /\ Reserved # {} => quars[entry].copied

\* Every serial that is reserved for an issuance in quarantine is in an entry,
\* and an entry that is done holds what it must.
Archived ==
  /\ \A q \in Quars : quars[q] # Nobody =>
       /\ quars[q].original => dir[quars[q].id] = "moved"
       /\ quars[q].done => quars[q].original
       /\ quars[q].done /\ (\E s \in Serials : resv[s] = SlotOf("final", quars[q].id)) =>
            quars[q].copied
  /\ \A i \in Ids, s \in Serials : dir[i] = "moved" /\ resv[s] = SlotOf("final", i) =>
       \E q \in Quars : quars[q] # Nobody /\ quars[q].id = i /\ quars[q].serial = s


\* The checks of a quarantine let only a known target pass, and its serial.
LEMMA CheckedTarget ==
  ASSUME Inv, Owned, QCheck, ~Refused
  PROVE  /\ target \in Ids /\ dir[target] # "none"
         /\ \A s \in Serials : resv[s] = SlotOf("final", target) => QuarantineSerial = s
PROOF
  <1>1. target \in Ids
    BY DEF QCheck, Inv, Placed
  <1>2. ASSUME NEW s \in Serials, NEW st \in {"staged", "final"}, resv[s] = SlotOf(st, target)
        PROVE  dir[target] # "none" /\ meta[target].serial = s
    <2>1. resv[s].st \in {"staged", "final"} /\ resv[s].by = target
      BY <1>2 DEF SlotOf
    <2> QED BY <2>1 DEF Owned
  <1>3. ~IntentKnown /\ (~HasSource \/ Reserved # {}) =>
          \A s \in OwnStaged : resv[s] = SlotOf("staged", target)
    BY DEF OwnStaged
  <1>4. dir[target] # "none"
    <2>1. CASE HasSource
      BY <2>1 DEF HasSource, Active
    <2>2. CASE ~HasSource
      <3>1. ~IntentKnown
        BY <2>2 DEF IntentKnown
      <3>2. PICK s \in Reserved \cup OwnStaged : TRUE
        BY <2>2, <3>1 DEF Refused
      <3>3. s \in Serials /\ (resv[s] = SlotOf("final", target) \/ resv[s] = SlotOf("staged", target))
        BY <1>3, <2>2, <3>1, <3>2 DEF Reserved, OwnStaged, Staged
      <3> QED BY <1>2, <3>3
    <2> QED BY <2>1, <2>2
  <1>5. ASSUME NEW s \in Serials, resv[s] = SlotOf("final", target)
        PROVE  QuarantineSerial = s
    <2>1. meta[target].serial = s
      BY <1>2, <1>5
    <2>2. CASE IntentKnown
      BY <2>1, <2>2 DEF QuarantineSerial
    <2>3. CASE ~IntentKnown
      <3>1. Reserved # {}
        BY <1>5 DEF Reserved
      <3>2. \A z \in Reserved \cup OwnStaged :
              z \in Serials /\ (resv[z] = SlotOf("final", target) \/ resv[z] = SlotOf("staged", target))
        BY <1>3, <2>3, <3>1 DEF Reserved, OwnStaged, Staged
      <3>3. \A z \in Reserved \cup OwnStaged : z = s
        BY <1>2, <2>1, <3>2
      <3>4. Reserved \cup OwnStaged \in SUBSET Nat /\ Reserved \cup OwnStaged # {}
        BY <3>1, <3>2, IdsAssumption
      <3>5. First(Reserved \cup OwnStaged) \in Reserved \cup OwnStaged
        BY <3>4, FirstIsElement
      <3> QED BY <2>3, <3>3, <3>4, <3>5 DEF QuarantineSerial, Pick
    <2> QED BY <2>2, <2>3
  <1> QED BY <1>1, <1>4, <1>5

\* Every step of a quarantine keeps what it is at; no other gets there.
LEMMA ArchivingNext ==
  ASSUME Inv, Inv', Ordered, Standing, Owned, Archiving, [Next]_vars
  PROVE  Archiving'
PROOF
  <1>1. \A s \in Serials :
          pc \in AtEntry /\ target' = target /\ target \in Ids /\ resv'[s] = SlotOf("final", target) =>
            resv[s] = SlotOf("final", target)
    <2> SUFFICES ASSUME NEW s \in Serials, pc \in AtEntry, target \in Ids,
                        resv'[s] = SlotOf("final", target), resv'[s] # resv[s]
                 PROVE  FALSE
      OBVIOUS
    <2>1. resv'[s].st = "final"
      BY DEF SlotOf
    <2> QED BY <2>1, ResvSteps
  <1>2. CASE pc' \notin AtEntry
    BY <1>2 DEF Archiving, AtEntry
  <1>3. CASE QCheck /\ pc' \in AtEntry
    <2>1. ~Refused
      BY <1>3 DEF QCheck, Done, AtEntry
    <2>2. PICK q \in Quars : /\ quars' = [quars EXCEPT ![q] = NewEntry] /\ entry' = q
                             /\ pc' = "qprepare" /\ UNCHANGED <<dir, resv, target>>
      BY <1>3, <2>1 DEF QCheck, NewEntry, Free
    <2>3. quars'[entry'] = NewEntry
      BY <2>2 DEF Inv, TypeOK, DiskTypes
    <2>4. quars'[entry'].id = target /\ quars'[entry'].serial = QuarantineSerial
      BY <2>3 DEF NewEntry
    <2> QED BY <1>3, <2>1, <2>2, <2>4, CheckedTarget DEF Archiving
  <1>4. CASE Quarantine /\ ~QCheck /\ pc' \in AtEntry
    <2>1. /\ pc \in AtEntry /\ UNCHANGED <<target, entry>>
          /\ \/ pc = "qprepare" /\ pc' = "qmove"
             \/ pc = "qmove" /\ pc' = "qcopy"
             \/ pc = "qcopy" /\ pc' = "qclear"
             \/ pc = "qclear" /\ pc' = "qdone"
             \/ pc = "qdone" /\ pc' = "qaudit"
      BY <1>4, EntryControl DEF AtEntry
    <2>2. /\ entry \in Quars /\ quars[entry] # Nobody
          /\ target \in Ids /\ dir[target] # "none" /\ quars[entry].id = target
          /\ \A s \in Serials : resv[s] = SlotOf("final", target) => quars[entry].serial = s
      BY <2>1, EntryAssumption DEF Inv, Placed, Archiving
    <2>3. /\ quars'[entry].id = target /\ quars'[entry].serial = quars[entry].serial
          /\ quars[entry].copied => quars'[entry].copied
          /\ quars[entry].original => quars'[entry].original
      BY <2>2, EntryLasts
    <2>4. dir'[target] # "none"
      BY <2>2, NothingLost DEF Lasting
    <2>5. pc' \in {"qcopy", "qclear", "qdone", "qaudit"} => quars'[entry].original
      <3>1. CASE pc = "qmove"
        <4>1. QMove /\ ~Fails
          BY <1>4, <2>1, <3>1, FailsAway
             DEF Quarantine, QCheck, QPrepare, QMove, QCopy, QClear, QDone, QAudit
        <4>2. quars' = [quars EXCEPT ![entry].original = TRUE]
          BY <4>1 DEF QMove
        <4>3. quars \in [Quars -> Entries \cup {Nobody}] /\ quars[entry] \in Entries
          BY <2>1 DEF Inv, TypeOK, DiskTypes, Placed
        <4> QED BY <2>2, <4>2, <4>3 DEF Entries
      <3>2. CASE pc # "qmove"
        BY <2>1, <2>3, <3>2 DEF Archiving
      <3> QED BY <3>1, <3>2
    <2>6. ASSUME pc' \in {"qclear", "qdone", "qaudit"}, NEW s \in Serials,
                 resv'[s] = SlotOf("final", target)
          PROVE  quars'[entry].copied
      <3>1. Reserved # {}
        BY <1>1, <2>1, <2>2, <2>6 DEF Reserved
      <3>2. CASE pc = "qcopy"
        <4>1. QCopy /\ ~Fails
          BY <1>4, <2>1, <3>2, FailsAway
             DEF Quarantine, QCheck, QPrepare, QMove, QCopy, QClear, QDone, QAudit
        <4>2. quars' = [quars EXCEPT ![entry]["copied"] = TRUE]
          BY <3>1, <4>1 DEF QCopy, QWrite
        <4>3. quars \in [Quars -> Entries \cup {Nobody}] /\ quars[entry] \in Entries
          BY <2>1 DEF Inv, TypeOK, DiskTypes, Placed
        <4> QED BY <2>2, <4>2, <4>3 DEF Entries
      <3>3. CASE pc # "qcopy"
        BY <2>1, <2>3, <2>6, <3>1, <3>3 DEF Archiving
      <3> QED BY <3>2, <3>3
    <2> QED BY <1>1, <2>1, <2>2, <2>3, <2>4, <2>5, <2>6 DEF Archiving, Reserved
  <1>5. CASE Quiet /\ pc' \in AtEntry
    <2>1. UNCHANGED <<pc, dir, resv, quars, target, entry>>
      BY <1>5, QuietSteps DEF AtEntry, disk
    <2> QED BY <2>1 DEF Archiving, Reserved
  <1>6. CASE Writing /\ ~Quarantine
    <2>1. \A f \in Artifacts : After[f] \notin AtEntry
      BY DEF After, Artifacts, AtEntry
    <2>2. pc' \notin AtEntry
      BY <1>6, <2>1, FailsAway, PublishShape, ScanPendingsShape
         DEF Writing, Create, Reserve, Sign, PublishMapping, LogIssuance, Goto, AtEntry
    <2> QED BY <1>2, <2>2
  <1> QED BY <1>2, <1>3, <1>4, <1>5, <1>6, StepKinds

\* Every step keeps what is archived.
LEMMA ArchivedNext ==
  ASSUME Inv, Inv', Ordered, Standing, Archiving, Archived, [Next]_vars
  PROVE  Archived'
PROOF
  <1>1. \A i \in Ids, s \in Serials :
          dir[i] = "moved" /\ resv'[s] = SlotOf("final", i) => resv[s] = SlotOf("final", i)
    <2> SUFFICES ASSUME NEW i \in Ids, NEW s \in Serials, dir[i] = "moved",
                        resv'[s] = SlotOf("final", i), resv'[s] # resv[s]
                 PROVE  FALSE
      OBVIOUS
    <2>1. resv'[s].st = "final" /\ resv'[s].by = i
      BY DEF SlotOf
    <2> QED BY <2>1, ResvSteps
  <1>2. \A i \in Ids : dir'[i] = "moved" => dir[i] = "moved" \/ (QMove /\ i = target)
    <2> SUFFICES ASSUME NEW i \in Ids, dir'[i] = "moved", dir[i] # "moved"
                 PROVE  QMove /\ i = target
      OBVIOUS
    <2>1. CASE Quiet
      BY <2>1, QuietSteps DEF disk
    <2>2. CASE Create
      BY <2>2 DEF Create, Inv, TypeOK, DiskTypes
    <2>3. CASE Quarantine
      BY <2>3, QuarantineSteps
         DEF Quarantine, QCheck, QPrepare, QMove, QCopy, QClear, QDone, QAudit
    <2>4. CASE Writing /\ ~Create /\ ~Quarantine
      BY <2>4, ScanPendingsShape
         DEF Writing, Publish, Reserve, Sign, PublishMapping, LogIssuance, disk
    <2> QED BY <2>1, <2>2, <2>3, <2>4, StepKinds
  <1>3. \A i \in Ids : dir[i] = "moved" => dir'[i] = "moved"
    <2>1. CASE Quiet
      BY <2>1, QuietSteps DEF disk
    <2>2. CASE Create
      BY <2>2 DEF Create, Inv, TypeOK, DiskTypes
    <2>3. CASE Quarantine
      BY <2>3, QuarantineSteps
    <2>4. CASE Writing /\ ~Create /\ ~Quarantine
      BY <2>4, ScanPendingsShape
         DEF Writing, Publish, Reserve, Sign, PublishMapping, LogIssuance, disk
    <2> QED BY <2>1, <2>2, <2>3, <2>4, StepKinds
  <1>4. \A q \in Quars : quars[q] # Nobody => quars[q].id \in Ids
    BY DEF Inv, TypeOK, DiskTypes, Entries
  <1>5. ASSUME NEW q \in Quars, quars'[q] # Nobody
        PROVE  /\ quars'[q].original => dir'[quars'[q].id] = "moved"
               /\ quars'[q].done => quars'[q].original
               /\ quars'[q].done /\ (\E s \in Serials : resv'[s] = SlotOf("final", quars'[q].id)) =>
                    quars'[q].copied
    <2>1. CASE quars[q] = Nobody
      <3>1. quars'[q] = NewEntry
        <4>1. \/ UNCHANGED quars
              \/ quars' = [quars EXCEPT ![entry'] = NewEntry]
              \/ /\ quars[entry] \in Entries /\ \A x \in Quars : x # entry => quars'[x] = quars[x]
          BY EntrySteps, FlagSet
        <4> QED BY <1>5, <2>1, <4>1, EntryAssumption DEF Inv, TypeOK, DiskTypes
      <3>2. ~quars'[q].original /\ ~quars'[q].done
        BY <3>1 DEF NewEntry
      <3> QED BY <3>2
    <2>2. CASE quars[q] # Nobody
      <3>1. /\ quars'[q].id = quars[q].id /\ quars[q].id \in Ids
            /\ quars[q].copied => quars'[q].copied
            /\ quars[q].original => quars'[q].original
            /\ quars'[q].original => quars[q].original \/ (QMove /\ q = entry)
            /\ quars'[q].done => quars[q].done \/ (QDone /\ q = entry)
        BY <1>4, <2>2, EntryLasts
      <3>2. quars'[q].original => dir'[quars'[q].id] = "moved"
        <4>1. CASE quars[q].original
          BY <1>3, <2>2, <3>1, <4>1 DEF Archived
        <4>2. CASE QMove /\ q = entry /\ quars'[q].original /\ ~quars[q].original
          <5>1. quars[q].id = target /\ target \in Ids /\ dir[target] # "none"
            BY <4>2 DEF QMove, Archiving, AtEntry
          <5>2. UNCHANGED quars \/ dir' = IF HasSource THEN [dir EXCEPT ![target] = "moved"] ELSE dir
            BY <4>2 DEF QMove
          <5>3. dir' = IF HasSource THEN [dir EXCEPT ![target] = "moved"] ELSE dir
            BY <4>2, <5>2
          <5> QED BY <3>1, <5>1, <5>3 DEF HasSource, Active, Inv, TypeOK, DiskTypes
        <4> QED BY <3>1, <4>1, <4>2
      <3>3. quars'[q].done => quars[q].original
        <4>1. QDone /\ q = entry => quars[q].original
          BY DEF QDone, Archiving
        <4> QED BY <2>2, <3>1, <4>1 DEF Archived
      <3>4. ASSUME quars'[q].done, NEW s \in Serials, resv'[s] = SlotOf("final", quars[q].id)
            PROVE  quars'[q].copied
        <4>1. resv[s] = SlotOf("final", quars[q].id)
          BY <1>1, <2>2, <3>1, <3>3, <3>4 DEF Archived
        <4>2. CASE quars[q].done
          BY <2>2, <3>1, <4>1, <4>2 DEF Archived
        <4>3. CASE QDone /\ q = entry
          BY <3>1, <4>1, <4>3 DEF QDone, Archiving, AtEntry, Reserved
        <4> QED BY <3>1, <3>4, <4>2, <4>3
      <3> QED BY <3>1, <3>2, <3>3, <3>4
    <2> QED BY <2>1, <2>2
  <1>6. ASSUME NEW i \in Ids, NEW s \in Serials, dir'[i] = "moved", resv'[s] = SlotOf("final", i)
        PROVE  \E q \in Quars : quars'[q] # Nobody /\ quars'[q].id = i /\ quars'[q].serial = s
    <2>1. PICK q \in Quars : quars[q] # Nobody /\ quars[q].id = i /\ quars[q].serial = s
      <3>1. CASE dir[i] = "moved"
        BY <1>1, <1>6, <3>1 DEF Archived
      <3>2. CASE QMove /\ i = target
        <4>1. entry \in Quars /\ quars[entry] # Nobody /\ resv[s] = SlotOf("final", target)
          BY <1>6, <3>2, EntryAssumption DEF QMove, Inv, Placed, AtEntry
        <4> QED BY <3>2, <4>1 DEF QMove, Archiving, AtEntry
      <3> QED BY <1>2, <1>6, <3>1, <3>2
    <2> QED BY <2>1, EntryLasts
  <1> QED BY <1>5, <1>6 DEF Archived

\* No quarantine has begun.
LEMMA ArchivedInit == Init => Archiving /\ Archived
PROOF
  BY DEF Init, Archiving, Archived, AtEntry

-----------------------------------------------------------------------------
(* Why a scan is refused.                                                   *)

\* What somebody can point at.
Evidence ==
  Uncommitted \/ Partial \/ StagedFile \/ StagedResv \/ StagedTail \/ TornMapping

\* The staging files: one that is left over is there to be seen.
LEMMA PendingsEvidence ==
  ASSUME Inv, ScanPendings, ScanRefused
  PROVE  Evidence
PROOF
  <1>1. faults' # faults + 1 /\ ~Goto("next") /\ ~Goto("pendings")
    BY DEF ScanRefused, Goto, Inv, TypeOK
  <1>2. CASE NameIntent
    <2>1. First(StagedIntents) \in StagedIntents
      <3>1. StagedIntents # {} /\ StagedIntents \in SUBSET Nat
        BY <1>2, IdsAssumption DEF NameIntent, StagedIntents, Active
      <3> QED BY <3>1, FirstIsElement
    <2> QED BY <2>1 DEF StagedIntents, Evidence, StagedFile, Artifacts, Pending
  <1>3. CASE NameReservation
    BY <1>3 DEF NameReservation, Evidence, StagedResv
  <1>4. CASE EndPendings
    <2>1. StillStaged
      BY <1>1, <1>4 DEF EndPendings, Fault
    <2> QED BY <2>1 DEF StillStaged, Evidence, StagedFile
  <1> QED BY <1>2, <1>3, <1>4 DEF ScanPendings

\* A file that cannot be published was left over by somebody.
LEMMA PublishEvidence ==
  ASSUME Inv, Standing, NEW f \in Artifacts, Publish(f), ScanRefused
  PROVE  Evidence
PROOF
  <1>1. faults' # faults + 1 /\ ~Goto(After[f])
    BY DEF ScanRefused, Goto, After, Artifacts, Inv, TypeOK
  <1>2. pc = f /\ files[cur][f] = "torn"
    BY <1>1 DEF Publish, Fault
  <1>3. cur \in Active
    BY <1>2 DEF Inv, Placed, Standing, AtIssuance, Active
  <1> QED BY <1>2, <1>3 DEF Evidence, StagedFile, Pending

\* The mapping of an issuance that is finished is never taken by another: what
\* is in its way is torn.
LEMMA MappingEvidence ==
  ASSUME Inv, Ordered, Standing, SignedOnce, PublishMapping, ScanRefused
  PROVE  Evidence
PROOF
  <1> DEFINE k == meta[cur].key
  <1>1. /\ pc = "mapping" /\ cur \in Ids /\ k \in Keys /\ idem[k] \in Slot
    <2>1. cur \in Ids /\ k \in Keys
      BY PublishMappingSlot
    <2> QED BY <2>1 DEF PublishMapping, Inv, TypeOK, DiskTypes
  <1>2. ~FitsExactly(idem[k], cur)
    <2>1. faults' # faults + 1 /\ ~Goto("audit")
      BY DEF ScanRefused, Goto, Inv, TypeOK
    <2> QED BY <2>1 DEF PublishMapping, Fault
  <1>3. idem[k].st = "torn" \/ (idem[k].st \in {"staged", "final"} /\ idem[k].by # cur)
    BY <1>1, <1>2 DEF FitsExactly, Fits, SlotOf, Slot, FileStates
  <1>4. ASSUME idem[k].st \in {"staged", "final"}, idem[k].by # cur
        PROVE  FALSE
    <2> DEFINE j == idem[k].by
    <2>1. j \in Ids /\ dir[j] = "active" /\ files[j].complete = "final" /\ meta[j].key = k
      BY <1>1, <1>4 DEF Standing, Slot
    <2>2. dir[cur] = "active" /\ files[cur].complete = "final"
      BY <1>1 DEF Standing, Ordered, Prepared, AtIssuance
    <2>3. InSequence(j) /\ InSequence(cur)
      BY <1>1, <2>1 DEF Ordered
    <2>4. j \in signed
      BY <2>1, <2>3 DEF InSequence
    <2>5. cur \in signed
      BY <2>2, <2>3 DEF InSequence
    <2>6. j = cur
      BY <2>1, <2>2, <2>4, <2>5 DEF SignedOnce, NoSecondSigning
    <2> QED BY <1>4, <2>6
  <1> QED BY <1>1, <1>3, <1>4 DEF Evidence, TornMapping

\* The place of the next audit record is occupied.
LEMMA LogEvidence ==
  ASSUME Inv, LogIssuance, ScanRefused
  PROVE  Evidence
PROOF
  <1>1. faults' # faults + 1 /\ ~Goto("marker") /\ faults' = faults
    BY DEF ScanRefused, Goto, Inv, TypeOK
  <1>2. audit' = audit /\ Append1(Issued(cur))
    BY <1>1 DEF LogIssuance
  <1>3. Append(audit, Issued(cur)) # audit
    BY DEF Inv, TypeOK, DiskTypes
  <1>4. ~Fits(tail, Issued(cur))
    BY <1>1, <1>2, <1>3 DEF Append1, Fault
  <1>5. tail.st \in FileStates /\ tail.st # "final" /\ tail.st \notin {"absent", "empty"}
    BY <1>4 DEF Fits, Inv, TypeOK, DiskTypes, Tails
  <1> QED BY <1>5 DEF Evidence, StagedTail, FileStates

\* Every reservation is of an active issuance with its serial, or archived in
\* full; every active issuance that is settled has its own.
LEMMA ReservationsHold ==
  ASSUME Inv, Ordered, Visited, Owned, Archived, QuarantinesWhole,
         pc = "validate", goal = "scan"
  PROVE  ReservationsValid
PROOF
  <1>1. ASSUME NEW s \in Serials, resv[s].st = "final"
        PROVE  LET i == resv[s].by IN
                 IF i \in Active /\ files[i].intent = "final"
                 THEN meta[i].serial = s ELSE QuarantineHolds(i, s)
    <2> DEFINE i == resv[s].by
    <2>1. i \in Ids /\ resv[s] = SlotOf("final", i) /\ dir[i] \in {"none", "active", "moved"}
      BY <1>1 DEF Inv, TypeOK, DiskTypes, Slot, SlotOf
    <2>2. dir[i] # "none" /\ meta[i].serial = s /\ files[i].intent = "final"
      BY <1>1 DEF Owned
    <2>3. CASE i \in Active
      BY <2>2, <2>3
    <2>4. CASE i \notin Active
      <3>1. dir[i] = "moved"
        BY <2>1, <2>2, <2>4 DEF Active
      <3> DEFINE match == {q \in Quars : /\ quars[q] # Nobody
                                         /\ quars[q].prepared /\ quars[q].done
                                         /\ quars[q].id = i /\ quars[q].serial = s}
      <3>2. PICK q \in Quars : quars[q] # Nobody /\ quars[q].id = i /\ quars[q].serial = s
        BY <2>1, <3>1 DEF Archived
      <3>3. q \in match
        BY <3>2 DEF QuarantinesWhole
      <3>4. match \in SUBSET Nat
        BY IdsAssumption
      <3>5. First(match) \in match
        BY <3>3, <3>4, FirstIsElement
      <3>6. quars[First(match)].copied
        BY <2>1, <3>5 DEF Archived
      <3>7. QuarantineHolds(i, s)
        BY <3>3, <3>6, Zenon DEF QuarantineHolds
      <3> QED BY <2>4, <3>7
    <2> QED BY <2>3, <2>4
  <1>2. \A s, z \in Serials :
          resv[s].st = "final" /\ resv[z].st = "final" /\ resv[s].by = resv[z].by => s = z
    BY DEF Owned
  <1>3. ASSUME NEW i \in Active
        PROVE  \E s \in Serials : resv[s] = SlotOf("final", i)
    <2>1. i \in Ids /\ dir[i] # "none" /\ Settled(i)
      BY DEF Visited, Reached, Active
    <2>2. i \in signed
      BY <2>1 DEF Settled, Artifacts, Ordered, InSequence
    <2>3. meta[i].serial \in Serials
      BY <2>1 DEF Inv, Placed, Based, Metas
    <2> QED BY <2>2, <2>3 DEF Inv, SignedIsReserved
  <1> QED BY <1>1, <1>2, <1>3 DEF ReservationsValid

\* The last checks find nothing but what somebody can point at.
LEMMA ValidateEvidence ==
  ASSUME Inv, Ordered, Standing, LoggedFresh, Visited, Owned, Archived,
         ScanValidate, ScanRefused
  PROVE  Evidence
PROOF
  <1> SUFFICES ASSUME QuarantinesWhole
               PROVE  FALSE
    BY DEF Evidence, Partial
  <1>1. pc = "validate" /\ goal = "scan"
    BY DEF ScanValidate, ScanRefused
  <1>2. ReservationsValid
    BY <1>1, ReservationsHold
  <1>3. IndexValid
    <2> SUFFICES ASSUME NEW k \in Keys, idem[k].st = "final"
                 PROVE  /\ idem[k].by \in Active /\ files[idem[k].by].commit = "final"
                        /\ meta[idem[k].by].key = k
      BY DEF IndexValid
    <2>1. idem[k].by \in Ids
      BY DEF Inv, TypeOK, DiskTypes, Slot
    <2>2. /\ dir[idem[k].by] = "active" /\ files[idem[k].by].complete = "final"
          /\ meta[idem[k].by].key = k
      BY DEF Standing
    <2> QED BY <2>1, <2>2 DEF Ordered, InSequence, Active
  <1>4. AuditValid
    BY DEF LoggedFresh, LoggedOnce, AuditValid
  <1> QED BY <1>2, <1>3, <1>4 DEF ScanValidate, ScanRefused

\* Every refusal has its evidence.
LEMMA RefusalEvidence ==
  ASSUME Inv, Ordered, Standing, SignedOnce, LoggedFresh, Held, Visited, Owned, Archived,
         [Next]_vars, ScanRefused
  PROVE  Evidence
PROOF
  <1>1. /\ goal = "scan" /\ mode = "serving" /\ mode' = "serving"
        /\ pc # "free" /\ pc' = "free"
        /\ pc \notin {"lookup", "intent", "reserve", "sign", "qcheck"} \cup AtEntry
    BY DEF ScanRefused, Held
  <1>2. CASE ScanNext
    <2>1. AuditValid
      BY DEF LoggedFresh, LoggedOnce, AuditValid
    <2>2. Unvisited # {} /\ files[First(Unvisited)].commit # "final"
      BY <1>1, <1>2, <2>1 DEF ScanNext, Goto
    <2>3. First(Unvisited) \in Unvisited
      BY <2>2, FirstIsElement, IdsAssumption DEF Unvisited, Active
    <2> QED BY <2>2, <2>3 DEF Evidence, Uncommitted, Unvisited
  <1>3. CASE ScanValidate
    BY <1>3, ValidateEvidence
  <1>4. CASE Quiet /\ ~ScanNext /\ ~ScanValidate
    BY <1>1, <1>4 DEF Quiet, vars, run, Start, Watch, Wake, BeginScan, Crash, Command, Acquire,
                      Admit, Replay, Rejoin, Unmapped, Reply
  <1>5. ASSUME NEW f \in Artifacts, Publish(f)
        PROVE  Evidence
    BY <1>5, PublishEvidence
  <1>6. CASE PublishMapping
    BY <1>6, MappingEvidence
  <1>7. CASE LogIssuance
    BY <1>7, LogEvidence
  <1>8. CASE ScanPendings
    BY <1>8, PendingsEvidence
  <1>9. CASE Create \/ Reserve \/ Sign
    BY <1>1, <1>9 DEF Create, Unmapped, Reserve, Sign
  <1>10. CASE Quarantine
    BY <1>1, <1>10, QuarantineSteps
  <1> QED BY <1>2, <1>3, <1>4, <1>5, <1>6, <1>7, <1>8, <1>9, <1>10, StepKinds DEF Writing

-----------------------------------------------------------------------------
(* The theorems.                                                            *)

\* All that a step of the authority may rely on.
Deep ==
  /\ Inv /\ Ordered /\ Standing /\ SignedOnce /\ LoggedFresh /\ Held /\ Visited
  /\ Owned /\ Archiving /\ Archived /\ AnswersStand

\* It holds at the start and is kept by every step.
THEOREM DeepInvariance == Spec => []Deep
PROOF
  <1>1. Init => Deep
    BY InitInv, OrderedInit, StandingInit, SignedOnceInit, LoggedInit, HeldInit, VisitedInit,
       OwnedInit, ArchivedInit DEF Deep, Init, AnswersStand
  <1>2. Deep /\ [Next]_vars => Deep'
    <2> SUFFICES ASSUME Deep, [Next]_vars PROVE Deep'
      OBVIOUS
    <2>1. Inv'
      BY NextInv DEF Deep
    <2>2. Ordered' /\ Held' /\ LoggedFresh'
      BY <2>1, OrderedNext, HeldNext, LoggedNext DEF Deep
    <2>3. Standing' /\ SignedOnce' /\ Owned'
      BY <2>1, StandingNext, SignedOnceNext, OwnedNext DEF Deep
    <2>4. Visited' /\ Archiving' /\ Archived'
      BY <2>1, VisitedNext, ArchivingNext, ArchivedNext DEF Deep
    <2>5. AnswersStand'
      BY <2>1, <2>2, <2>3, AnswersNext DEF Deep
    <2> QED BY <2>1, <2>2, <2>3, <2>4, <2>5 DEF Deep
  <1> QED BY <1>1, <1>2, PTL DEF Spec

\* What was handed out stays the authority's answer (POST /v1/certificates,
\* across retries, crashes and quarantines): the key is mapped to it, and it is
\* complete and where it was.
THEOREM AnswersAlwaysStand == Spec => []AnswersStand
PROOF
  BY DeepInvariance, PTL DEF Deep

\* No two signatures of one key lie among the issuances (issue() finds the
\* intent of the first before it makes a second).
THEOREM NeverSignedTwice == Spec => []NoSecondSigning
PROOF
  <1>1. Deep => NoSecondSigning
    BY DEF Deep, SignedOnce
  <1> QED BY <1>1, DeepInvariance, PTL

\* What has its final name vouches for what recovery takes to be before it.
THEOREM AlwaysPublishedInOrder == Spec => []PublishedInOrder
PROOF
  <1>1. Deep => PublishedInOrder
    BY OrderedPublished DEF Deep
  <1> QED BY <1>1, DeepInvariance, PTL

\* One audit record for each event, whoever finished it (ensure_issuance_audit,
\* append_audit after a quarantine).
THEOREM AlwaysLoggedOnce == Spec => []LoggedOnce
PROOF
  <1>1. Deep => LoggedOnce
    BY DEF Deep, LoggedFresh
  <1> QED BY <1>1, DeepInvariance, PTL

\* No step changes or takes back what was published.
THEOREM NothingIsUnpublished == Spec => PublishedForEver
PROOF
  <1>1. ASSUME Inv, [Next]_vars
        PROVE  [ /\ \A i \in Ids, f \in Artifacts :
                      files[i][f] = "final" => files'[i][f] = "final"
                 /\ \A s \in Serials : resv[s].st = "final" => resv'[s] = resv[s]
                 /\ \A k \in Keys : idem[k].st = "final" => idem'[k] = idem[k]
                 /\ Len(audit) <= Len(audit') /\ \A n \in DOMAIN audit : audit'[n] = audit[n]
               ]_vars
    BY <1>1, NothingLost DEF Lasting
  <1> QED BY <1>1, Invariance, PTL DEF Spec, PublishedForEver

\* The server becomes ready only over a directory in which every issuance is
\* finished and every quarantine is whole (full_scan, validate_reservations).
THEOREM ReadyOnlyWhenSettled == Spec => ReadyWhenSettled
PROOF
  <1>1. ASSUME Deep, [Next]_vars
        PROVE  [ ~ready /\ ready' =>
                   (\A i \in Ids : dir[i] = "active" => Finished(i)) /\ QuarantinesWhole ]_vars
    BY <1>1, ReadyIsSettled DEF Deep
  <1> QED BY <1>1, DeepInvariance, PTL DEF Spec, ReadyWhenSettled

\* A scan that refuses, and not for a fault of its own, has evidence: a used
\* serial, a finished quarantine or a certificate issued again is none.
THEOREM RefusesOnlyForEvidence == Spec => RefusedForEvidence
PROOF
  <1>1. ASSUME Deep, [Next]_vars
        PROVE  [ ScanRefused => \/ Uncommitted \/ Partial \/ StagedFile \/ StagedResv
                                \/ StagedTail \/ TornMapping ]_vars
    BY <1>1, RefusalEvidence DEF Deep, Evidence
  <1> QED BY <1>1, DeepInvariance, PTL DEF Spec, RefusedForEvidence
=============================================================================
