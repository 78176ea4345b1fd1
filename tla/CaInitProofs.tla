---------------------------- MODULE CaInitProofs ----------------------------
(***************************************************************************)
(* Whatever breaks off an initialization and however often it is taken up  *)
(* again: the key signs one certificate's bytes, one root is published,    *)
(* and the journal only vouches for what is on disk (Inv).  From how far   *)
(* the journal is at each place (Climbing), what it documents (Documented) *)
(* and what is on record of it (Recorded): the outcome is logged once,     *)
(* what loads is initialized to the end, and a reconciliation is refused   *)
(* only for evidence (Deep).  And so it is one ceremony (RootCeremony).    *)
(* For any parameters, signatures and leftovers of failed publications.    *)
(***************************************************************************)
EXTENDS CaInit, SequenceTheorems, TLAPS

Inv ==
  TypeOK /\ Placed /\ JournalTellsTruth /\ OneTbsSigned /\ OneRootPublished

-----------------------------------------------------------------------------
(* Files, steps of control, and facts.                                     *)

\* A publication leaves the file in one of its states, with the bytes it was
\* to have if it has any, and under its final name if it succeeded.
LEMMA TryShape ==
  ASSUME NEW S, NEW slot, slot.st \in FileStates, NEW who \in S,
         NEW try \in Tries(slot, who)
  PROVE  /\ try.to \in SlotsFor(S)
         /\ try.to.st \in {"staged", "final"} => try.to.by = who
         /\ try.to.st \notin {"staged", "final"} => try.to.by = Nobody
         /\ try.ok \in BOOLEAN
         /\ try.ok => try.to = SlotOf("final", who)
         /\ SlotOf("final", who).st = "final" /\ SlotOf("final", who).by = who
PROOF
  <1>1. Residues(slot.st) \subseteq FileStates
    BY LeftoverStates DEF Residues, FileStates
  <1>2. \A st \in FileStates : SlotOf(st, who) \in SlotsFor(S)
    BY DEF SlotOf, SlotsFor, FileStates
  <1>3. PICK st \in FileStates : try.to = SlotOf(st, who) /\ (try.ok => st = "final")
                                 /\ try.ok \in BOOLEAN
    <2>1. CASE try = [to |-> SlotOf("final", who), ok |-> TRUE]
      BY <2>1 DEF FileStates
    <2>2. CASE \E st \in Residues(slot.st) : try = [to |-> SlotOf(st, who), ok |-> FALSE]
      BY <1>1, <2>2
    <2> QED BY <2>1, <2>2 DEF Tries
  <1> QED BY <1>2, <1>3 DEF SlotOf

\* The slots of roots are those of Slots.
LEMMA RootSlots == Slot = SlotsFor(Roots)
PROOF
  BY DEF Slot, SlotsFor, Owners

\* A fact on disk stays one while files keep their final names and the key
\* its owner.
LEMMA FactStays ==
  ASSUME NEW phase, Fact(phase),
         (key = "ours") <=> (key' = "ours"),
         intent.st = "final" => intent'.st = "final",
         root.st = "final" => root'.st = "final",
         pub.st = "final" => pub'.st = "final",
         rootder.st = "final" => rootder'.st = "final",
         auth.st = "final" => auth'.st = "final"
  PROVE  Fact(phase)'
PROOF
  BY DEF Fact

\* Later phases vouch for all that earlier ones do.
LEMMA FactOrder ==
  /\ Published \subseteq Rooted /\ Rooted \subseteq Signing /\ Signing \subseteq Owned
  /\ Owned \subseteq Phases /\ Abandoned \subseteq Phases
  /\ Owned \cap Abandoned = {}
PROOF
  BY DEF Published, Rooted, Signing, Owned, Abandoned, Phases

\* What a step leaves alone when it only moves control, a name of the journal
\* directory, the key of other programs, or the marker.
Still == UNCHANGED <<gens, gtail, material, authority, log, signed>>

\* Such a step keeps every fact, and what is true of the files.
LEMMA StillFacts ==
  ASSUME Inv, Still, (key = "ours") <=> (key' = "ours")
  PROVE  /\ JournalTellsTruth' /\ OneTbsSigned' /\ OneRootPublished'
         /\ \A phase : Fact(phase) => Fact(phase)'
PROOF
  <1> USE DEF Inv, Still, material, authority
  <1>1. \A phase : Fact(phase) => Fact(phase)'
    BY DEF Fact
  <1>2. JournalTellsTruth'
    BY <1>1 DEF JournalTellsTruth, Has
  <1>3. OneTbsSigned' /\ OneRootPublished'
    BY DEF OneTbsSigned, OneRootPublished
  <1> QED BY <1>1, <1>2, <1>3

-----------------------------------------------------------------------------
(* Control.                                                                *)

\* The places where nothing is relied on, or only what is said here.
Nowhere == {"free", "mark", "journal", "judge", "audit", "archive"}

\* None of them is a phase, or a place where something is relied on.
LEMMA NowhereStrings ==
  ASSUME NEW x \in Nowhere
  PROVE  /\ x \notin Phases
         /\ x \notin {"intent", "root", "publication", "root_der", "authority", "absent",
                      "mkdir", "prepared", "create", "finalize_started", "finalize"}
PROOF
  BY DEF Nowhere, Phases, Owned, Signing, Rooted, Published, Failures, Abandoned

\* A command that ends, or gets to a place where nothing is relied on.
LEMMA NowherePlaced ==
  ASSUME Inv, pc' \in Nowhere, \A phase : Fact(phase) => Fact(phase)',
         gtail' \in {gtail, NoSlot},
         place' = "none" =>
           place = "none" /\ gens' = gens /\ pc' \in {"free", "mark", "journal"}
  PROVE  Placed'
PROOF
  <1>1. Vouched'
    BY NowhereStrings, NobodyIsNobody DEF Inv, Placed, Vouched, NoSlot
  <1>2. Establishing'
    BY NowhereStrings DEF Establishing
  <1>3. Starting'
    BY NowhereStrings DEF Inv, Placed, Starting
  <1> QED BY <1>1, <1>2, <1>3 DEF Placed

\* A command begins, ends, or another program takes or frees the name.
LEMMA IdleInv ==
  ASSUME Inv, Stop \/ OtherPrograms \/ \E command \in Commands : Begin(command)
  PROVE  Inv'
PROOF
  <1>1. Still /\ ((key = "ours") <=> (key' = "ours")) /\ place' = place
    BY DEF Inv, TypeOK, Stop, OtherPrograms, Begin, Still, journal
  <1>2. TypeOK'
    BY <1>1 DEF Inv, TypeOK, Stop, OtherPrograms, Begin, Finish, Still, material, authority, log,
                journal, run, Places
  <1>3. \A phase : Fact(phase) => Fact(phase)'
    BY <1>1, StillFacts
  <1>4. Placed'
    <2>1. CASE pc' \in {"free", "mark", "journal"}
      BY <1>1, <1>3, <2>1, NowherePlaced DEF Still, Nowhere
    <2>2. CASE pc' = pc
      BY <1>1, <1>3, <2>2 DEF Inv, Placed, Vouched, Establishing, Starting, Still, Has,
                              material, authority
    <2>3. pc' \in {"free", "mark", "journal"} \/ pc' = pc
      BY DEF Stop, OtherPrograms, Begin, Finish, run
    <2> QED BY <2>1, <2>2, <2>3
  <1> QED BY <1>1, <1>2, <1>4, StillFacts DEF Inv

-----------------------------------------------------------------------------
(* The steps of a fresh initialization up to the key.                      *)

\* The marker, the check of the name, the journal directory and the staged key.
LEMMA FreshInv ==
  ASSUME Inv, MarkFormat \/ RequireAbsent \/ MakeJournal \/ CreateStaged
  PROVE  Inv'
PROOF
  <1> USE DEF Finish, Continue, Goto, After
  <1>1. Still /\ key' = key
    BY DEF MarkFormat, RequireAbsent, MakeJournal, CreateStaged, Still, journal
  <1>2. TypeOK'
    <2>1. format' \in FileStates
      BY LeftoverStates DEF Inv, TypeOK, MarkFormat, RequireAbsent, MakeJournal, CreateStaged,
                            Residues, FileStates
    <2>2. pc' \in {"free", "absent", "mkdir", "prepared", "finalize_started"}
      BY DEF MarkFormat, RequireAbsent, MakeJournal, CreateStaged
    <2>3. place' \in {place, "active"} /\ goal' = goal
          /\ result' \in {result, "refused", "broken"}
      BY DEF MarkFormat, RequireAbsent, MakeJournal, CreateStaged, journal
    <2> QED BY <1>1, <2>1, <2>2, <2>3 DEF Inv, TypeOK, Still, material, authority, log,
                                          Places, Phases
  <1>3. \A phase : Fact(phase) => Fact(phase)'
    BY <1>1, StillFacts
  <1>4. Placed'
    <2>1. CASE pc' = "free"
      BY <1>1, <1>3, <2>1, NowherePlaced
      DEF Still, Nowhere, MarkFormat, RequireAbsent, MakeJournal, CreateStaged, journal
    <2>2. CASE pc' # "free"
      <3>1. pc' \in {"absent", "mkdir", "prepared", "finalize_started"}
        BY <2>2 DEF MarkFormat, RequireAbsent, MakeJournal, CreateStaged
      <3>2. Vouched'
        <4>1. \A phase \in {"prepared", "finalize_started"} : Fact(phase)'
          BY DEF Fact, Owned, Signing, Rooted, Published, Abandoned
        <4>2. "absent" \notin Phases /\ "mkdir" \notin Phases
          BY DEF Phases, Owned, Signing, Rooted, Published, Abandoned, Failures
        <4> QED BY <1>1, <1>3, <3>1, <4>1, <4>2 DEF Inv, Placed, Vouched, Still
      <3>3. Establishing'
        BY <3>1 DEF Establishing
      <3>4. Starting'
        <4>1. CASE MarkFormat
          BY <1>1, <2>2, <4>1 DEF MarkFormat, Inv, Placed, Starting, Still, Has, journal
        <4>2. CASE RequireAbsent
          BY <1>1, <2>2, <4>2 DEF RequireAbsent, Inv, Placed, Starting, Still, Has, journal
        <4>3. CASE MakeJournal
          BY <1>1, <2>2, <4>3 DEF MakeJournal, Inv, Placed, Starting, Still, Has
        <4>4. CASE CreateStaged
          BY <1>1, <2>2, <4>4 DEF CreateStaged, Inv, Placed, Starting, Still, Has, journal
        <4> QED BY <4>1, <4>2, <4>3, <4>4
      <3> QED BY <3>2, <3>3, <3>4 DEF Placed
    <2> QED BY <2>1, <2>2
  <1> QED BY <1>1, <1>2, <1>4, StillFacts DEF Inv

\* The key may become ours, while the journal has said nothing of it yet.
LEMMA FinalizeInv ==
  ASSUME Inv, Finalize
  PROVE  Inv'
PROOF
  <1>1. Still /\ place' = place /\ key' \in {key, "ours"}
    BY DEF Finalize, Still, journal
  <1>2. pc' \in {"finalize_succeeded"} \cup Failures /\ (pc' = "finalize_succeeded" => key' = "ours")
    BY DEF Finalize, Goto, Failures
  <1>3. TypeOK'
    <2>1. format' = format /\ goal' = goal /\ result' = result
      BY DEF Finalize, Goto
    <2>2. pc' \in Phases
      BY <1>2 DEF Phases, Owned
    <2> QED BY <1>1, <2>1, <2>2 DEF Inv, TypeOK, Still, material, authority, log
  <1>4. gtail = NoSlot /\ \A phase \in Abandoned : ~Has(phase)
    BY DEF Inv, Placed, Starting, Finalize
  <1>5. \A phase : phase \notin Abandoned /\ Fact(phase) => Fact(phase)'
    BY <1>1 DEF Fact, Still, material, authority
  <1>6. JournalTellsTruth'
    BY <1>1, <1>4, <1>5 DEF Inv, JournalTellsTruth, Has, Still
  <1>7. OneTbsSigned' /\ OneRootPublished'
    BY <1>1 DEF Inv, OneTbsSigned, OneRootPublished, Still, material, authority
  <1>8. Vouched'
    <2>1. Fact("finalize_succeeded")' <=> key' = "ours"
      BY DEF Fact, Owned, Signing, Rooted, Published, Abandoned
    <2>2. \A phase \in Failures : Fact(phase)'
      BY DEF Fact, Owned, Signing, Rooted, Published, Abandoned, Failures
    <2>3. \A phase \in Phases : gtail'.by # phase
      BY <1>1, <1>4, NobodyIsNobody DEF Still, NoSlot
    <2> QED BY <1>2, <2>1, <2>2, <2>3 DEF Vouched
  <1>9. Establishing' /\ Starting'
    <2>1. place # "none"
      BY DEF Inv, Placed, Starting, Finalize
    <2> QED BY <1>1, <1>2, <2>1 DEF Inv, Placed, Establishing, Starting, Still, Failures
  <1> QED BY <1>3, <1>6, <1>7, <1>8, <1>9 DEF Inv, Placed

-----------------------------------------------------------------------------
(* The journal.                                                            *)

\* What is read of the journal, or added to it, is vouched for already.
LEMMA GrownJournal ==
  ASSUME Inv, NEW phase \in Phases, Fact(phase), gens' \in {gens, Append(gens, phase)},
         UNCHANGED <<material, authority, signed, key>>
  PROVE  /\ gens' \in Seq(Phases)
         /\ JournalTellsTruth' /\ OneTbsSigned' /\ OneRootPublished'
         /\ \A x : Fact(x) => Fact(x)'
PROOF
  <1>1. gens' \in Seq(Phases)
    BY DEF Inv, TypeOK
  <1>2. \A x : Fact(x) => Fact(x)'
    BY DEF Fact, material, authority
  <1>3. \A n \in DOMAIN gens' : gens'[n] = phase \/ (n \in DOMAIN gens /\ gens'[n] = gens[n])
    BY DEF Inv, TypeOK
  <1>4. JournalTellsTruth'
    BY <1>2, <1>3 DEF Inv, JournalTellsTruth, Has
  <1>5. OneTbsSigned' /\ OneRootPublished'
    BY DEF Inv, OneTbsSigned, OneRootPublished, material, authority
  <1> QED BY <1>1, <1>2, <1>4, <1>5

\* The staged generation that a reader gives its name vouches for facts on disk.
LEMMA ValidateInv ==
  ASSUME Inv, ValidateJournal
  PROVE  Inv'
PROOF
  <1>1. UNCHANGED <<format, place, material, authority, log, key, signed>>
    BY DEF ValidateJournal
  <1>2. pc' \in {"judge", "free"} /\ goal' = goal /\ result' \in {result, "refused", "broken"}
        /\ (pc' = "judge" => place # "none")
    BY DEF ValidateJournal, Goto, Finish
  <1>3. CASE gens' = gens /\ gtail' \in {gtail, NoSlot}
    <2>1. Still \/ (gens' = gens /\ gtail' = NoSlot)
      BY <1>1, <1>3 DEF Still
    <2>2. \A phase : Fact(phase) => Fact(phase)'
      BY <1>1 DEF Fact, material, authority
    <2>3. JournalTellsTruth' /\ OneTbsSigned' /\ OneRootPublished'
      BY <1>1, <1>3, <2>2 DEF Inv, JournalTellsTruth, Has, OneTbsSigned, OneRootPublished,
                              material, authority
    <2>4. TypeOK'
      <3>1. gtail' \in SlotsFor(Phases)
        BY <1>3 DEF Inv, TypeOK, NoSlot, SlotsFor, FileStates
      <3> QED BY <1>1, <1>2, <1>3, <3>1 DEF Inv, TypeOK, material, authority, log
    <2>5. Placed'
      BY <1>1, <1>2, <1>3, <2>2, NowherePlaced DEF Nowhere
    <2> QED BY <2>3, <2>4, <2>5 DEF Inv
  <1>4. CASE ~(gens' = gens /\ gtail' \in {gtail, NoSlot})
    <2>1. gtail.st = "staged" /\ gtail' = NoSlot /\ gens' = Append(gens, gtail.by)
          /\ place # "none"
      BY <1>4 DEF ValidateJournal
    <2>2. gtail.by \in Phases
      BY <2>1 DEF Inv, TypeOK, SlotsFor
    <2>3. Fact(gtail.by)
      BY <2>2 DEF Inv, Placed, Vouched
    <2>4. /\ gens' \in Seq(Phases)
          /\ JournalTellsTruth' /\ OneTbsSigned' /\ OneRootPublished'
          /\ \A x : Fact(x) => Fact(x)'
      BY <1>1, <2>1, <2>2, <2>3, GrownJournal
    <2>5. TypeOK'
      <3>1. gtail' \in SlotsFor(Phases)
        BY <2>1 DEF NoSlot, SlotsFor, FileStates
      <3> QED BY <1>1, <1>2, <2>4, <3>1 DEF Inv, TypeOK, material, authority, log
    <2>6. Placed'
      BY <1>1, <1>2, <2>1, <2>4, NowherePlaced DEF Nowhere
    <2> QED BY <2>4, <2>5, <2>6 DEF Inv
  <1> QED BY <1>3, <1>4

\* Which steps lead to a generation, and which come after one.
LEMMA AfterPhase ==
  ASSUME NEW phase \in Phases, phase \notin Failures \cup {"finalize_started"}
  PROVE  \/ phase = "prepared" /\ After[phase] = "create"
         \/ phase = "finalize_succeeded" /\ After[phase] = "key_validated"
         \/ phase = "key_validated" /\ After[phase] = "intent"
         \/ phase = "root_signing_prepared" /\ After[phase] = "root"
         \/ phase = "root_validated" /\ After[phase] = "root_der"
         \/ phase = "authority_published" /\ After[phase] = "completed"
         \/ phase = "completed" /\ After[phase] = "audit"
         \/ phase = "abandon_verified" /\ After[phase] = "abandoned"
         \/ phase = "abandoned" /\ After[phase] = "audit"
PROOF
  BY DEF After, Phases, Owned, Signing, Rooted, Published, Abandoned, Failures

\* A generation is written where its facts hold; the next step may rely on them.
LEMMA AppendInv ==
  ASSUME Inv, NEW phase \in Phases, AppendGeneration(phase)
  PROVE  Inv'
PROOF
  <1>1. UNCHANGED <<format, place, material, authority, log, key, signed>> /\ pc = phase
    BY DEF AppendGeneration
  <1>2. Fact(phase)
    BY <1>1 DEF Inv, Placed, Vouched
  <1>3. /\ gens' \in {gens, Append(gens, phase)}
        /\ gtail' \in SlotsFor(Phases) /\ gtail'.by \in {gtail.by, phase, Nobody}
        /\ gtail = NoSlot /\ pc' # "free" => gtail' = NoSlot
    <2>1. CASE Due(phase)
      <3>1. PICK try \in Tries(gtail, phase) :
              /\ IF try.to.st = "final"
                 THEN gens' = Append(gens, phase) /\ gtail' = NoSlot
                 ELSE gens' = gens /\ gtail' = try.to
              /\ IF try.ok /\ phase \in Failures THEN Finish("refused") ELSE Continue(try.ok)
        BY <2>1 DEF AppendGeneration
      <3>2. gtail.st \in FileStates
        BY DEF Inv, TypeOK, SlotsFor
      <3>3. /\ try.to \in SlotsFor(Phases) /\ try.to.by \in {phase, Nobody}
            /\ try.ok => try.to.st = "final"
        BY <3>2, TryShape
      <3>4. NoSlot \in SlotsFor(Phases) /\ NoSlot.by = Nobody
        BY DEF NoSlot, SlotsFor, FileStates
      <3>5. ~try.ok => pc' = "free"
        BY <3>1 DEF Continue, Finish
      <3> QED BY <3>1, <3>3, <3>4, <3>5
    <2>2. CASE ~Due(phase)
      BY <2>2 DEF AppendGeneration, Inv, TypeOK
    <2> QED BY <2>1, <2>2
  <1>4. /\ gens' \in Seq(Phases)
        /\ JournalTellsTruth' /\ OneTbsSigned' /\ OneRootPublished'
        /\ \A x : Fact(x) => Fact(x)'
    BY <1>1, <1>2, <1>3, GrownJournal
  <1>5. goal' = goal /\ result' \in {result, "refused", "broken"}
        /\ (pc' = "free" \/ (phase \notin Failures /\ pc' = After[phase]))
    <2>1. CASE Due(phase)
      <3>1. PICK try \in Tries(gtail, phase) :
              IF try.ok /\ phase \in Failures THEN Finish("refused") ELSE Continue(try.ok)
        BY <2>1 DEF AppendGeneration
      <3> QED BY <1>1, <3>1 DEF Finish, Continue, Goto
    <2>2. CASE ~Due(phase)
      <3>1. phase \notin Failures
        BY <2>2 DEF Due, Signing, Rooted, Published, Failures
      <3> QED BY <1>1, <2>2, <3>1 DEF AppendGeneration, Finish, Continue, Goto
    <2> QED BY <2>1, <2>2
  <1>6. TypeOK'
    <2>1. pc' \in Places \cup Phases \cup {"free"}
      <3>1. CASE phase = "finalize_started"
        BY <1>5, <3>1 DEF After, Places
      <3>2. CASE phase # "finalize_started"
        BY <1>5, <3>2, AfterPhase DEF Places, Phases, Owned, Signing, Rooted, Abandoned, Published
      <3> QED BY <3>1, <3>2
    <2> QED BY <1>1, <1>3, <1>4, <1>5, <2>1 DEF Inv, TypeOK, material, authority, log
  <1>7. Vouched'
    <2>1. ASSUME NEW x \in Phases, gtail'.by = x PROVE Fact(x)'
      BY <1>2, <1>3, <1>4, <2>1, NobodyIsNobody DEF Inv, Placed, Vouched
    <2>2. ASSUME NEW x \in Phases, pc' = x PROVE Fact(x)'
      <3>1. CASE phase = "finalize_started"
        BY <1>5, <2>2, <3>1 DEF After, Phases, Owned, Signing, Rooted, Published, Abandoned,
                                Failures
      <3>2. CASE phase # "finalize_started"
        <4>1. \/ phase = "finalize_succeeded" /\ x = "key_validated"
              \/ phase = "authority_published" /\ x = "completed"
              \/ phase = "abandon_verified" /\ x = "abandoned"
          BY <1>5, <2>2, <3>2, AfterPhase DEF Phases, Owned, Signing, Rooted, Published,
                                              Abandoned, Failures
        <4>2. Fact(phase) => Fact(x)
          BY <4>1 DEF Fact, Owned, Signing, Rooted, Published, Abandoned
        <4> QED BY <1>2, <1>4, <4>2
      <3> QED BY <3>1, <3>2
    <2> QED BY <2>1, <2>2 DEF Vouched
  <1>8. Establishing'
    <2>1. CASE pc' \in {"intent", "root", "root_der"}
      <3>1. \/ phase = "key_validated" /\ pc' = "intent"
            \/ phase = "root_signing_prepared" /\ pc' = "root"
            \/ phase = "root_validated" /\ pc' = "root_der"
        <4>1. CASE phase = "finalize_started"
          BY <1>5, <2>1, <4>1 DEF After
        <4>2. CASE phase # "finalize_started"
          BY <1>5, <2>1, <4>2, AfterPhase
        <4> QED BY <4>1, <4>2
      <3> QED BY <1>2, <1>4, <3>1 DEF Establishing
    <2>2. CASE pc' \notin {"intent", "root", "root_der"}
      <3>1. pc' \notin {"publication", "authority"}
        <4>1. CASE phase = "finalize_started"
          BY <1>5, <4>1 DEF After
        <4>2. CASE phase # "finalize_started"
          BY <1>5, <4>2, AfterPhase
        <4> QED BY <4>1, <4>2
      <3> QED BY <2>2, <3>1 DEF Establishing
    <2> QED BY <2>1, <2>2
  <1>9. Starting'
    <2>1. place' # "none"
      BY <1>1 DEF Inv, Placed, Starting, Phases, Owned, Signing, Rooted, Published, Failures,
                  Abandoned
    <2>2. ASSUME pc' \in {"absent", "mkdir", "prepared", "create", "finalize_started",
                          "finalize"}
          PROVE  /\ pc' \notin {"absent", "mkdir"}
                 /\ gtail' = NoSlot /\ \A x \in Abandoned : ~Has(x)'
      <3>1. phase \in {"prepared", "finalize_started"} /\ pc' \in {"create", "finalize"}
        <4>1. CASE phase = "finalize_started"
          BY <1>5, <2>2, <4>1 DEF After
        <4>2. CASE phase # "finalize_started"
          BY <1>5, <2>2, <4>2, AfterPhase
        <4> QED BY <4>1, <4>2
      <3>2. gtail' = NoSlot
        BY <1>1, <1>3, <2>2, <3>1 DEF Inv, Placed, Starting
      <3>3. \A x \in Abandoned : ~Has(x) /\ x # phase
        BY <1>1, <3>1 DEF Inv, Placed, Starting, Abandoned
      <3>4. \A n \in DOMAIN gens' : gens'[n] = phase \/ (n \in DOMAIN gens /\ gens'[n] = gens[n])
        BY <1>3 DEF Inv, TypeOK
      <3> QED BY <3>1, <3>2, <3>3, <3>4 DEF Has
    <2> QED BY <2>1, <2>2 DEF Starting
  <1> QED BY <1>4, <1>6, <1>7, <1>8, <1>9 DEF Inv, Placed

\* What the judgement of the journal lets begin: signing under a key of ours,
\* or an abandonment where the key is absent.
LEMMA JudgeInv ==
  ASSUME Inv, Judge
  PROVE  Inv'
PROOF
  <1>1. Still /\ UNCHANGED <<format, place, key, goal>>
    BY DEF Judge, Goto, Finish, Still, journal
  <1>2. pc' \in {"free", "intent", "abandon_verified"}
        /\ result' \in {result, "ok", "refused"}
    BY DEF Judge, Goto, Finish
  <1>3. TypeOK'
    <2>1. pc' \in Places \cup Phases \cup {"free"}
      BY <1>2 DEF Places, Phases, Abandoned
    <2> QED BY <1>1, <1>2, <2>1 DEF Inv, TypeOK, Still, material, authority, log
  <1>4. \A phase : Fact(phase) => Fact(phase)'
    BY <1>1, StillFacts
  <1>5. Placed'
    <2>1. CASE pc' = "free"
      BY <1>1, <1>4, <2>1, NowherePlaced DEF Nowhere, Still
    <2>. place # "none"
      BY DEF Inv, Placed, Starting, Judge
    <2>2. CASE pc' = "intent"
      <3>1. Has("finalize_succeeded")
        BY <2>2 DEF Judge, ReconcileAllowed, Goto, Finish
      <3>2. key = "ours"
        BY <3>1, FactOrder DEF Inv, JournalTellsTruth, Fact, Owned
      <3>3. Fact("key_validated")
        BY <3>2 DEF Fact, Signing, Rooted, Published, Abandoned
      <3>4. Vouched'
        BY <1>1, <1>4, <2>2 DEF Inv, Placed, Vouched, Still, Phases, Owned, Signing, Rooted,
                                Published, Abandoned, Failures
      <3>5. Establishing' /\ Starting'
        BY <1>1, <1>4, <2>2, <3>3 DEF Inv, Placed, Establishing, Starting, Still
      <3> QED BY <3>4, <3>5 DEF Placed
    <2>3. CASE pc' = "abandon_verified"
      <3>1. key = "absent"
        BY <2>3 DEF Judge, AbandonAllowed, Goto, Finish
      <3>2. Fact("abandon_verified")
        BY <3>1 DEF Fact, Owned, Signing, Rooted, Published
      <3>3. Vouched'
        BY <1>1, <1>4, <2>3, <3>2 DEF Inv, Placed, Vouched, Still
      <3>4. Establishing' /\ Starting'
        BY <1>1, <2>3 DEF Inv, Placed, Establishing, Starting, Still
      <3> QED BY <3>3, <3>4 DEF Placed
    <2> QED BY <1>2, <2>1, <2>2, <2>3
  <1> QED BY <1>1, <1>3, <1>5, StillFacts DEF Inv

-----------------------------------------------------------------------------
(* The root and the authority.                                             *)

\* A step that publishes leaves the journal alone and goes on or ends.
LEMMA Established ==
  ASSUME Inv, NEW here \in {"intent", "root", "publication", "root_der", "authority"},
         pc = here, gens' = gens, gtail' = gtail, place' = place,
         \A phase : Fact(phase) => Fact(phase)',
         pc' = "free" \/ (pc' = After[here] /\ (After[here] \in Phases => Fact(After[here])'))
  PROVE  /\ JournalTellsTruth' /\ Vouched' /\ Starting'
         /\ pc' \in Places \cup Phases \cup {"free"}
PROOF
  <1>1. After[here] \in {"root_signing_prepared", "publication", "root_validated",
                         "authority", "authority_published"}
    BY DEF After
  <1>2. JournalTellsTruth'
    BY DEF Inv, JournalTellsTruth, Has
  <1>3. Vouched'
    <2>1. "free" \notin Phases
      BY DEF Phases, Owned, Signing, Rooted, Published, Abandoned, Failures
    <2> QED BY <2>1 DEF Inv, Placed, Vouched
  <1>4. Starting'
    <2>1. place # "none"
      BY DEF Inv, Placed, Starting
    <2> QED BY <1>1, <2>1 DEF Inv, Placed, Starting
  <1>5. pc' \in Places \cup Phases \cup {"free"}
    BY <1>1 DEF Places, Phases, Owned, Signing, Rooted, Published
  <1> QED BY <1>2, <1>3, <1>4, <1>5

\* The signing intent gets its name once, and before anything is signed.
LEMMA IntentInv ==
  ASSUME Inv, PublishIntent
  PROVE  Inv'
PROOF
  <1>1. UNCHANGED <<format, journal, root, pub, authority, log, key, signed>> /\ pc = "intent"
    BY DEF PublishIntent
  <1>2. /\ intent' \in SlotsFor(Params)
        /\ intent.st = "final" => intent' = intent
        /\ pc' = "free" \/ (pc' = After["intent"] /\ intent'.st = "final")
        /\ goal' = goal /\ result' \in {result, "refused", "broken"}
    <2>1. CASE intent' = intent /\ intent.st = "final" /\ Continue(TRUE)
      BY <1>1, <2>1 DEF Continue, Goto, Inv, TypeOK
    <2>2. CASE intent' = intent /\ Finish("refused")
      BY <2>2 DEF Finish, Inv, TypeOK
    <2>3. CASE intent.st # "final"
               /\ \E p \in Wanted(intent, Params) : \E try \in Tries(intent, p) :
                    intent' = try.to /\ Continue(try.ok)
      <3>0. PICK p \in Wanted(intent, Params) :
              \E try \in Tries(intent, p) : intent' = try.to /\ Continue(try.ok)
        BY <2>3
      <3>1. PICK try \in Tries(intent, p) : intent' = try.to /\ Continue(try.ok)
        BY <3>0
      <3>2. intent.st \in FileStates /\ p \in Params
        BY DEF Inv, TypeOK, SlotsFor, Wanted
      <3>3. try.to \in SlotsFor(Params) /\ (try.ok => try.to.st = "final") /\ try.ok \in BOOLEAN
        BY <3>2, TryShape
      <3> QED BY <1>1, <2>3, <3>1, <3>3 DEF Continue, Goto, Finish
    <2> QED BY <2>1, <2>2, <2>3 DEF PublishIntent
  <1>3. \A phase : Fact(phase) => Fact(phase)'
    BY <1>1, <1>2 DEF Fact, authority
  <1>4. intent'.st = "final" => Fact("root_signing_prepared")'
    BY <1>1 DEF Inv, Placed, Establishing, Fact, Signing, Rooted, Published, Abandoned, Owned
  <1>5. After["intent"] = "root_signing_prepared"
    BY DEF After
  <1>6. /\ JournalTellsTruth' /\ Vouched' /\ Starting'
        /\ pc' \in Places \cup Phases \cup {"free"}
    BY <1>1, <1>2, <1>3, <1>4, <1>5, Established DEF journal
  <1>7. TypeOK'
    BY <1>1, <1>2, <1>6 DEF Inv, TypeOK, journal, authority, log
  <1>8. Establishing'
    BY <1>2, <1>5 DEF Establishing
  <1>9. OneTbsSigned'
    BY <1>1, <1>2 DEF Inv, OneTbsSigned, SlotOf
  <1>10. OneRootPublished'
    BY <1>1 DEF Inv, OneRootPublished, authority
  <1> QED BY <1>6, <1>7, <1>8, <1>9, <1>10 DEF Inv, Placed

\* What is signed has the parameters of the final intent.
LEMMA SignInv ==
  ASSUME Inv, SignRoot
  PROVE  Inv'
PROOF
  <1>1. UNCHANGED <<format, journal, intent, pub, authority, log, key>> /\ pc = "root"
    BY DEF SignRoot
  <1>2. intent.st = "final" /\ intent.by \in Params /\ intent = SlotOf("final", intent.by)
    <2>1. intent.st = "final"
      BY <1>1 DEF Inv, Placed, Establishing, Fact, Signing
    <2> QED BY <2>1 DEF Inv, TypeOK, SlotsFor, SlotOf
  <1>3. /\ root' \in Slot /\ signed' \subseteq Roots
        /\ signed \subseteq signed' /\ \A r \in signed' \ signed : r.tbs = intent.by
        /\ root.st = "final" => root' = root
        /\ root'.st \in {"staged", "final"} => root'.by \in signed'
        /\ pc' = "free" \/ (pc' = After["root"] /\ root'.st = "final")
        /\ goal' = goal /\ result' \in {result, "refused", "broken"}
    <2>1. CASE root.st = "final" /\ Continue(TRUE) /\ UNCHANGED <<root, signed>>
      BY <1>1, <2>1 DEF Continue, Goto, Inv, TypeOK, OneRootPublished
    <2>2. CASE Finish("refused") /\ UNCHANGED <<root, signed>>
      BY <2>2 DEF Finish, Inv, TypeOK, OneRootPublished
    <2>3. CASE root.st \notin {"torn", "final"}
               /\ \E r \in Wanted(root, Signable) :
                    /\ signed' = IF root.st = "staged" THEN signed ELSE signed \cup {r}
                    /\ \E try \in Tries(root, r) : root' = try.to /\ Continue(try.ok)
      <3>1. PICK r \in Wanted(root, Signable) :
              /\ signed' = IF root.st = "staged" THEN signed ELSE signed \cup {r}
              /\ \E try \in Tries(root, r) : root' = try.to /\ Continue(try.ok)
        BY <2>3
      <3>2. PICK try \in Tries(root, r) : root' = try.to /\ Continue(try.ok)
        BY <3>1
      <3>3. root \in SlotsFor(Roots)
        BY RootSlots DEF Inv, TypeOK
      <3>4. r \in Roots /\ r \in signed' /\ (root.st # "staged" => r.tbs = intent.by)
        <4>1. CASE root.st = "staged"
          BY <3>1, <3>3, <4>1 DEF Wanted, SlotsFor, Inv, OneRootPublished
        <4>2. CASE root.st # "staged"
          BY <1>2, <3>1, <4>2 DEF Wanted, Signable, Roots
        <4> QED BY <4>1, <4>2
      <3>5. /\ try.to \in SlotsFor(Roots) /\ (try.ok => try.to.st = "final")
            /\ try.ok \in BOOLEAN
            /\ try.to.st \in {"staged", "final"} => try.to.by = r
        <4>1. root.st \in FileStates
          BY <3>3 DEF SlotsFor
        <4> QED BY <3>4, <4>1, TryShape
      <3>6. signed' \subseteq Roots /\ signed \subseteq signed'
            /\ \A x \in signed' \ signed : x.tbs = intent.by
        BY <3>1, <3>4 DEF Inv, TypeOK
      <3> QED BY <1>1, <2>3, <3>2, <3>4, <3>5, <3>6, RootSlots DEF Continue, Goto, Finish
    <2> QED BY <2>1, <2>2, <2>3 DEF SignRoot
  <1>4. \A phase : Fact(phase) => Fact(phase)'
    BY <1>1, <1>3 DEF Fact, authority
  <1>5. After["root"] = "publication" /\ "publication" \notin Phases
    BY DEF After, Phases, Owned, Signing, Rooted, Published, Abandoned, Failures
  <1>6. /\ JournalTellsTruth' /\ Vouched' /\ Starting'
        /\ pc' \in Places \cup Phases \cup {"free"}
    BY <1>1, <1>3, <1>4, <1>5, Established DEF journal
  <1>7. TypeOK'
    BY <1>1, <1>3, <1>6 DEF Inv, TypeOK, journal, authority, log
  <1>8. Establishing'
    BY <1>1, <1>3, <1>4, <1>5 DEF Inv, Placed, Establishing
  <1>9. OneTbsSigned'
    BY <1>1, <1>2, <1>3 DEF Inv, OneTbsSigned
  <1>10. OneRootPublished'
    BY <1>1, <1>3 DEF Inv, OneRootPublished, authority
  <1> QED BY <1>6, <1>7, <1>8, <1>9, <1>10 DEF Inv, Placed

\* What a try leaves of a file that holds a root or none.
LEMMA RootTry ==
  ASSUME NEW slot \in Slot, NEW who \in Roots, NEW try \in Tries(slot, who), Continue(try.ok)
  PROVE  /\ try.to \in Slot
         /\ try.to.st \in {"staged", "final"} => try.to.by = who
         /\ pc' = "free" \/ (pc' = After[pc] /\ try.to = SlotOf("final", who))
         /\ goal' = goal /\ result' \in {result, "broken"}
PROOF
  <1>1. slot.st \in FileStates
    BY RootSlots DEF SlotsFor
  <1> QED BY <1>1, TryShape, RootSlots DEF Continue, Goto, Finish

\* The publication record is about the journal's root.
LEMMA PublicationInv ==
  ASSUME Inv, PublishPublication
  PROVE  Inv'
PROOF
  <1>1. UNCHANGED <<format, journal, intent, root, authority, log, key, signed>>
        /\ pc = "publication"
    BY DEF PublishPublication
  <1>2. root.st = "final" /\ root.by \in Roots
    <2>1. root.st = "final"
      BY <1>1 DEF Inv, Placed, Establishing
    <2> QED BY <2>1, RootSlots DEF Inv, TypeOK, SlotsFor
  <1>3. /\ pub' \in Slot
        /\ pub.st = "final" => pub' = pub
        /\ pub'.st \in {"staged", "final"} => pub'.by = root.by
        /\ pc' = "free" \/ (pc' = After["publication"] /\ pub'.st = "final")
        /\ goal' = goal /\ result' \in {result, "refused", "broken"}
    <2>1. CASE pub.st = "final" /\ Continue(TRUE) /\ UNCHANGED pub
      BY <1>1, <2>1 DEF Continue, Goto, Inv, TypeOK, OneRootPublished
    <2>2. CASE Finish("refused") /\ UNCHANGED pub
      BY <2>2 DEF Finish, Inv, TypeOK, OneRootPublished
    <2>3. CASE pub.st \notin {"torn", "final"}
               /\ \E r \in Wanted(pub, Publishable) : \E try \in Tries(pub, r) :
                    pub' = try.to /\ Continue(try.ok)
      <3>0. PICK r \in Wanted(pub, Publishable) :
              \E try \in Tries(pub, r) : pub' = try.to /\ Continue(try.ok)
        BY <2>3
      <3>1. PICK try \in Tries(pub, r) : pub' = try.to /\ Continue(try.ok)
        BY <3>0
      <3>2. r = root.by
        BY DEF Wanted, Publishable, Inv, OneRootPublished
      <3>3. pub \in Slot /\ SlotOf("final", r).st = "final"
        BY DEF Inv, TypeOK, SlotOf
      <3> QED BY <1>1, <1>2, <2>3, <3>1, <3>2, <3>3, RootTry
    <2> QED BY <2>1, <2>2, <2>3 DEF PublishPublication
  <1>4. \A phase : Fact(phase) => Fact(phase)'
    BY <1>1, <1>3 DEF Fact, authority
  <1>5. After["publication"] = "root_validated"
    BY DEF After
  <1>6. pub'.st = "final" => Fact("root_validated")'
    BY <1>1, <1>2 DEF Inv, Placed, Establishing, Fact, Signing, Rooted, Published, Abandoned,
                      Owned
  <1>7. /\ JournalTellsTruth' /\ Vouched' /\ Starting'
        /\ pc' \in Places \cup Phases \cup {"free"}
    BY <1>1, <1>3, <1>4, <1>5, <1>6, Established DEF journal
  <1>8. TypeOK'
    BY <1>1, <1>3, <1>7 DEF Inv, TypeOK, journal, authority, log
  <1>9. Establishing'
    BY <1>3, <1>5 DEF Establishing
  <1>10. OneTbsSigned'
    BY <1>1 DEF Inv, OneTbsSigned
  <1>11. OneRootPublished'
    BY <1>1, <1>2, <1>3 DEF Inv, OneRootPublished, authority
  <1> QED BY <1>7, <1>8, <1>9, <1>10, <1>11 DEF Inv, Placed

\* root.der is the root of the publication record.
LEMMA RootDerInv ==
  ASSUME Inv, PublishRootDer
  PROVE  Inv'
PROOF
  <1>1. UNCHANGED <<format, journal, material, auth, log, key, signed>> /\ pc = "root_der"
    BY DEF PublishRootDer
  <1>2. pub.st = "final" /\ pub.by \in Roots
    <2>1. pub.st = "final"
      BY <1>1 DEF Inv, Placed, Establishing, Fact, Rooted
    <2> QED BY <2>1, RootSlots DEF Inv, TypeOK, SlotsFor
  <1>3. /\ rootder' \in Slot
        /\ rootder.st = "final" => rootder' = rootder
        /\ rootder'.st \in {"staged", "final"} => rootder'.by = pub.by
        /\ pc' = "free" \/ (pc' = After["root_der"] /\ rootder' = SlotOf("final", pub.by))
        /\ goal' = goal /\ result' \in {result, "refused", "broken"}
    <2>1. CASE rootder = SlotOf("final", pub.by) /\ Continue(TRUE) /\ UNCHANGED rootder
      BY <1>1, <2>1 DEF Continue, Goto, Inv, TypeOK, OneRootPublished
    <2>2. CASE Finish("refused") /\ UNCHANGED rootder
      BY <2>2 DEF Finish, Inv, TypeOK, OneRootPublished
    <2>3. CASE Fits(rootder, pub.by)
               /\ \E try \in Tries(rootder, pub.by) : rootder' = try.to /\ Continue(try.ok)
      <3>1. PICK try \in Tries(rootder, pub.by) : rootder' = try.to /\ Continue(try.ok)
        BY <2>3
      <3>2. rootder \in Slot /\ rootder.st # "final"
        BY <2>3 DEF Inv, TypeOK, Fits, SlotOf
      <3> QED BY <1>1, <1>2, <3>1, <3>2, RootTry
    <2> QED BY <2>1, <2>2, <2>3 DEF PublishRootDer
  <1>4. \A phase : Fact(phase) => Fact(phase)'
    BY <1>1, <1>3 DEF Fact, material
  <1>5. After["root_der"] = "authority" /\ "authority" \notin Phases
    BY DEF After, Phases, Owned, Signing, Rooted, Published, Abandoned, Failures
  <1>6. /\ JournalTellsTruth' /\ Vouched' /\ Starting'
        /\ pc' \in Places \cup Phases \cup {"free"}
    BY <1>1, <1>3, <1>4, <1>5, Established DEF journal
  <1>7. TypeOK'
    BY <1>1, <1>3, <1>6 DEF Inv, TypeOK, journal, material, log
  <1>8. Establishing'
    BY <1>1, <1>3, <1>4, <1>5 DEF Inv, Placed, Establishing, material, SlotOf
  <1>9. OneTbsSigned'
    BY <1>1 DEF Inv, OneTbsSigned, material
  <1>10. OneRootPublished'
    BY <1>1, <1>2, <1>3 DEF Inv, OneRootPublished, material
  <1> QED BY <1>6, <1>7, <1>8, <1>9, <1>10 DEF Inv, Placed

\* authority.json is the record's, once its root.der is there.
LEMMA AuthorityInv ==
  ASSUME Inv, PublishAuthority
  PROVE  Inv'
PROOF
  <1>1. UNCHANGED <<format, journal, material, rootder, log, key, signed>> /\ pc = "authority"
    BY DEF PublishAuthority
  <1>2. rootder.st = "final" /\ rootder.by = pub.by /\ pub.by \in Roots
    <2>1. rootder = SlotOf("final", pub.by) /\ pub.st = "final"
      BY <1>1 DEF Inv, Placed, Establishing, Fact, Rooted
    <2> QED BY <2>1, RootSlots DEF Inv, TypeOK, SlotsFor, SlotOf
  <1>3. /\ auth' \in Slot
        /\ auth.st = "final" => auth' = auth
        /\ auth'.st \in {"staged", "final"} => auth'.by = pub.by
        /\ pc' = "free" \/ (pc' = After["authority"] /\ auth'.st = "final")
        /\ goal' = goal /\ result' \in {result, "refused", "broken"}
    <2>1. CASE auth = SlotOf("final", pub.by) /\ Continue(TRUE) /\ UNCHANGED auth
      BY <1>1, <2>1 DEF Continue, Goto, Inv, TypeOK, SlotOf
    <2>2. CASE Finish("refused") /\ UNCHANGED auth
      BY <1>2, <2>2 DEF Finish, Inv, TypeOK, OneRootPublished
    <2>3. CASE Fits(auth, pub.by)
               /\ \E try \in Tries(auth, pub.by) : auth' = try.to /\ Continue(try.ok)
      <3>1. PICK try \in Tries(auth, pub.by) : auth' = try.to /\ Continue(try.ok)
        BY <2>3
      <3>2. auth \in Slot /\ auth.st # "final" /\ SlotOf("final", pub.by).st = "final"
        BY <2>3 DEF Inv, TypeOK, Fits, SlotOf
      <3> QED BY <1>1, <1>2, <3>1, <3>2, RootTry
    <2> QED BY <2>1, <2>2, <2>3 DEF PublishAuthority
  <1>4. \A phase : Fact(phase) => Fact(phase)'
    BY <1>1, <1>3 DEF Fact, material
  <1>5. After["authority"] = "authority_published"
    BY DEF After
  <1>6. auth'.st = "final" => Fact("authority_published")'
    BY <1>1, <1>2 DEF Inv, Placed, Establishing, Fact, Signing, Rooted, Published, Abandoned,
                      Owned, material
  <1>7. /\ JournalTellsTruth' /\ Vouched' /\ Starting'
        /\ pc' \in Places \cup Phases \cup {"free"}
    BY <1>1, <1>3, <1>4, <1>5, <1>6, Established DEF journal
  <1>8. TypeOK'
    BY <1>1, <1>3, <1>7 DEF Inv, TypeOK, journal, material, log
  <1>9. Establishing'
    BY <1>3, <1>5 DEF Establishing
  <1>10. OneTbsSigned'
    BY <1>1 DEF Inv, OneTbsSigned, material
  <1>11. OneRootPublished'
    BY <1>1, <1>2, <1>3 DEF Inv, OneRootPublished, material
  <1> QED BY <1>7, <1>8, <1>9, <1>10, <1>11 DEF Inv, Placed

\* The audit record and the archive change neither the root nor what is said
\* of it.
LEMMA ConcludeInv ==
  ASSUME Inv, Conclude
  PROVE  Inv'
PROOF
  <1>1. UNCHANGED <<format, gens, gtail, material, authority, key, signed>>
        /\ pc \in {"audit", "archive"}
    BY DEF Conclude, LogOutcome, Archive, journal
  <1>2. pc' \in {"free", "archive"} /\ goal' = goal
        /\ result' \in {result, "ok", "refused", "broken"}
    BY DEF Conclude, LogOutcome, Archive, Continue, Finish, Goto, After
  <1>3. place' \in {place, "completed", "abandoned"} /\ place' # "none"
    BY <1>1 DEF Conclude, LogOutcome, Archive, journal, Inv, Placed, Starting
  <1>4. audit' \in Seq(Kinds) /\ atail' \in SlotsFor(Kinds)
    <2>1. CASE UNCHANGED log
      BY <2>1 DEF Inv, TypeOK, log
    <2>2. CASE ~UNCHANGED log
      <3>1. PICK try \in Tries(atail, Kind) :
              IF try.to.st = "final"
              THEN audit' = Append(audit, Kind) /\ atail' = NoSlot
              ELSE audit' = audit /\ atail' = try.to
        BY <2>2 DEF Conclude, LogOutcome, Archive
      <3>2. atail.st \in FileStates /\ Kind \in Kinds
        BY DEF Inv, TypeOK, SlotsFor, Kind, Kinds
      <3>3. try.to \in SlotsFor(Kinds) /\ NoSlot \in SlotsFor(Kinds)
        BY <3>2, TryShape DEF NoSlot, SlotsFor, FileStates
      <3> QED BY <3>1, <3>2, <3>3 DEF Inv, TypeOK
    <2> QED BY <2>1, <2>2
  <1>5. TypeOK'
    BY <1>1, <1>2, <1>3, <1>4 DEF Inv, TypeOK, material, authority, Places
  <1>6. \A phase : Fact(phase) => Fact(phase)'
    BY <1>1 DEF Fact, material, authority
  <1>7. Placed'
    BY <1>1, <1>2, <1>3, <1>6, NowherePlaced DEF Nowhere
  <1>8. JournalTellsTruth' /\ OneTbsSigned' /\ OneRootPublished'
    BY <1>1, <1>6 DEF Inv, JournalTellsTruth, Has, OneTbsSigned, OneRootPublished, material,
                      authority
  <1> QED BY <1>5, <1>7, <1>8 DEF Inv

-----------------------------------------------------------------------------
(* The theorems.                                                           *)

\* An untouched directory vouches for nothing.
LEMMA InitInv == Init => Inv
PROOF
  <1> SUFFICES ASSUME Init PROVE Inv
    OBVIOUS
  <1>1. NoSlot.st = "absent" /\ NoSlot.by = Nobody
    BY DEF NoSlot
  <1>2. \A S : NoSlot \in SlotsFor(S)
    BY DEF NoSlot, SlotsFor, FileStates
  <1>3. TypeOK
    BY <1>2, RootSlots DEF Init, TypeOK, FileStates
  <1>4. Vouched
    <2>1. "free" \notin Phases
      BY DEF Phases, Owned, Signing, Rooted, Published, Abandoned, Failures
    <2> QED BY <1>1, <2>1, NobodyIsNobody DEF Init, Vouched
  <1>5. Establishing /\ Starting
    BY DEF Init, Establishing, Starting
  <1>6. JournalTellsTruth /\ OneTbsSigned /\ OneRootPublished
    BY <1>1 DEF Init, JournalTellsTruth, Has, OneTbsSigned, OneRootPublished
  <1> QED BY <1>3, <1>4, <1>5, <1>6 DEF Inv, Placed

\* Each step of each command keeps the invariant.
LEMMA NextInv == Inv /\ [Next]_vars => Inv'
PROOF
  <1> SUFFICES ASSUME Inv, [Next]_vars PROVE Inv'
    OBVIOUS
  <1>1. CASE UNCHANGED vars
    <2>1. Still /\ UNCHANGED <<format, place, key, pc, goal, result>>
      BY <1>1 DEF vars, Still, journal, run
    <2>2. \A phase : Fact(phase) => Fact(phase)'
      BY <2>1, StillFacts
    <2>3. TypeOK'
      BY <2>1 DEF Inv, TypeOK, Still, material, authority, log
    <2>4. Placed'
      BY <2>1, <2>2 DEF Inv, Placed, Vouched, Establishing, Starting, Still, Has, material,
                        authority
    <2> QED BY <2>1, <2>3, <2>4, StillFacts DEF Inv
  <1>2. CASE Stop \/ OtherPrograms \/ \E command \in Commands : Begin(command)
    BY <1>2, IdleInv
  <1>3. CASE Fresh
    BY <1>3, FreshInv, FinalizeInv DEF Fresh
  <1>4. CASE Resume
    BY <1>4, ValidateInv, JudgeInv DEF Resume
  <1>5. CASE Establish
    BY <1>5, IntentInv, SignInv, PublicationInv, RootDerInv, AuthorityInv DEF Establish
  <1>6. CASE Conclude
    BY <1>6, ConcludeInv
  <1>7. CASE \E phase \in Phases : AppendGeneration(phase)
    BY <1>7, AppendInv
  <1> QED BY <1>1, <1>2, <1>3, <1>4, <1>5, <1>6, <1>7 DEF Next

\* So it holds at every moment of every run.
LEMMA InvAlways == Spec => []Inv
PROOF
  BY InitInv, NextInv, PTL DEF Spec

\* Every variable keeps its type through any commands, crashes and errors.
THEOREM TypeCorrect == Spec => []TypeOK
PROOF
  <1>1. Inv => TypeOK
    BY DEF Inv
  <1> QED BY <1>1, InvAlways, PTL

\* The key signs the bytes of one certificate at most, those of the persisted
\* signing intent: reconciliation never regenerates root parameters.
THEOREM OneSigning == Spec => []OneTbsSigned
PROOF
  <1>1. Inv => OneTbsSigned
    BY DEF Inv
  <1> QED BY <1>1, InvAlways, PTL

\* The journal, the publication record, root.der and authority.json name one
\* root, and the key signed it.
THEOREM OneRoot == Spec => []OneRootPublished
PROOF
  <1>1. Inv => OneRootPublished
    BY DEF Inv
  <1> QED BY <1>1, InvAlways, PTL

\* The journal only vouches for what is on disk and for a key of ours, and an
\* abandonment only for a key that is not.
THEOREM TruthfulJournal == Spec => []JournalTellsTruth
PROOF
  <1>1. Inv => JournalTellsTruth
    BY DEF Inv
  <1> QED BY <1>1, InvAlways, PTL

-----------------------------------------------------------------------------
(* How far the journal has got.                                             *)

\* The journal is that of a run that succeeds, as far as it goes.
Ladder == Len(gens) <= 8 /\ \A n \in 1..Len(gens) : gens[n] = Success[n]

\* How many generations a run that succeeds has written at each place.
Rung ==
  [prepared |-> 0, create |-> 1, finalize_started |-> 1, finalize |-> 2,
   finalize_failed |-> 2, finalize_unexpected |-> 2, finalize_succeeded |-> 2,
   key_validated |-> 3, intent |-> 4, root_signing_prepared |-> 4,
   root |-> 5, publication |-> 5, root_validated |-> 5,
   root_der |-> 6, authority |-> 6, authority_published |-> 6,
   completed |-> 7, audit |-> 8, archive |-> 8]

\* What a longer journal holds.
LEMMA JournalGrows ==
  ASSUME Inv, NEW phase \in Phases, gens' = gens \/ gens' = Append(gens, phase)
  PROVE  /\ \A x : Has(x) => Has(x)'
         /\ \A x : Has(x)' => Has(x) \/ (x = phase /\ gens' = Append(gens, phase))
         /\ gens' = Append(gens, phase) => Has(phase)'
PROOF
  <1>1. gens \in Seq(Phases)
    BY DEF Inv, TypeOK
  <1>2. CASE gens' = gens
    <2>1. gens' # Append(gens, phase)
      BY <1>1, <1>2
    <2> QED BY <1>2, <2>1 DEF Has
  <1>3. CASE gens' = Append(gens, phase)
    <2>1. /\ DOMAIN gens' = DOMAIN gens \cup {Len(gens) + 1}
          /\ \A n \in DOMAIN gens : gens'[n] = gens[n]
          /\ gens'[Len(gens) + 1] = phase
      BY <1>1, <1>3
    <2> QED BY <1>3, <2>1, Zenon DEF Has
  <1> QED BY <1>2, <1>3

\* Where the phases of success are.
LEMMA Rungs ==
  /\ \A n \in 1..8 : Success[n] \in Phases
  /\ \A m, n \in 1..8 : Success[m] = Success[n] => m = n
  /\ \A n \in 1..8 : Success[n] \in Owned <=> n >= 3
  /\ Success[3] = "finalize_succeeded" /\ Success[4] = "key_validated"
  /\ Success[5] = "root_signing_prepared" /\ Success[6] = "root_validated"
  /\ Success[7] = "authority_published" /\ Success[8] = "completed"
  /\ Success[1] = "prepared" /\ Success[2] = "finalize_started"
PROOF
  <1>1. \A n \in 1..8 : n = 1 \/ n = 2 \/ n = 3 \/ n = 4 \/ n = 5 \/ n = 6 \/ n = 7 \/ n = 8
    OBVIOUS
  <1>2. /\ Success[1] = "prepared" /\ Success[2] = "finalize_started"
        /\ Success[3] = "finalize_succeeded" /\ Success[4] = "key_validated"
        /\ Success[5] = "root_signing_prepared" /\ Success[6] = "root_validated"
        /\ Success[7] = "authority_published" /\ Success[8] = "completed"
    BY DEF Success
  <1>3. \A m, n \in 1..8 : Success[m] = Success[n] => m = n
    BY <1>1, <1>2
  <1>4. \A n \in 1..8 : Success[n] \in Phases /\ (Success[n] \in Owned <=> n >= 3)
    BY <1>1, <1>2 DEF Phases, Owned, Signing, Rooted, Published, Abandoned, Failures
  <1> QED BY <1>2, <1>3, <1>4

\* A journal that goes as success does has a phase when it is long enough.
LEMMA LadderHas ==
  ASSUME Inv, Ladder
  PROVE  /\ \A n \in 1..8 : Has(Success[n]) <=> n <= Len(gens)
         /\ \A x : Has(x) => \E n \in 1..8 : n <= Len(gens) /\ x = Success[n]
         /\ Len(gens) \in 0..8
         /\ Len(gens) # 0 => LastPhase = Success[Len(gens)]
PROOF
  <1>1. gens \in Seq(Phases) /\ Len(gens) \in 0..8 /\ DOMAIN gens = 1..Len(gens)
    <2>1. gens \in Seq(Phases)
      BY DEF Inv, TypeOK
    <2>2. Len(gens) \in Nat /\ DOMAIN gens = 1..Len(gens)
      BY <2>1
    <2>3. Len(gens) <= 8
      BY DEF Ladder
    <2>4. \A k \in Nat : k <= 8 => k \in 0..8
      OBVIOUS
    <2>5. Len(gens) \in 0..8
      BY <2>2, <2>3, <2>4, Zenon
    <2> QED BY <2>1, <2>2, <2>5, Zenon
  <1>2. ASSUME NEW x, Has(x)
        PROVE  \E n \in 1..8 : n <= Len(gens) /\ x = Success[n]
    <2>1. PICK n \in 1..Len(gens) : gens[n] = x
      BY <1>1, <1>2 DEF Has
    <2>2. n \in 1..8 /\ n <= Len(gens) /\ x = Success[n]
      BY <1>1, <2>1 DEF Ladder
    <2> QED BY <2>2
  <1>3. ASSUME NEW n \in 1..8
        PROVE  Has(Success[n]) <=> n <= Len(gens)
    <2>1. CASE Has(Success[n])
      <3>1. PICK m \in 1..8 : m <= Len(gens) /\ Success[n] = Success[m]
        BY <1>2, <2>1
      <3> QED BY <2>1, <3>1, Rungs
    <2>2. CASE n <= Len(gens)
      BY <1>1, <2>2 DEF Ladder, Has
    <2> QED BY <2>1, <2>2
  <1>4. Len(gens) # 0 => LastPhase = Success[Len(gens)]
    BY <1>1 DEF LastPhase, Ladder
  <1> QED BY <1>1, <1>2, <1>3, <1>4

\* The next phase of success takes the journal one further.
LEMMA LadderGrows ==
  ASSUME Inv, Ladder, Len(gens) < 8, gens' = Append(gens, Success[Len(gens) + 1])
  PROVE  Ladder' /\ Len(gens') = Len(gens) + 1
PROOF
  <1>1. gens \in Seq(Phases) /\ Len(gens) \in 0..7
    <2>1. gens \in Seq(Phases)
      BY DEF Inv, TypeOK
    <2>2. Len(gens) \in Nat
      BY <2>1
    <2>3. \A k \in Nat : k < 8 => k \in 0..7
      OBVIOUS
    <2>4. Len(gens) \in 0..7
      BY <2>2, <2>3, Zenon
    <2> QED BY <2>1, <2>4, Zenon
  <1>2. /\ Len(gens') = Len(gens) + 1 /\ gens'[Len(gens) + 1] = Success[Len(gens) + 1]
        /\ \A n \in 1..Len(gens) : gens'[n] = gens[n]
    BY <1>1
  <1>3. \A n \in 1..Len(gens) : gens[n] = Success[n]
    BY DEF Ladder
  <1>4. \A n \in 1..Len(gens) + 1 : gens'[n] = Success[n]
    BY <1>1, <1>2, <1>3
  <1> QED BY <1>1, <1>2, <1>4 DEF Ladder

\* Such a journal is a legal one, once there is anything.
LEMMA LadderLegal ==
  ASSUME NEW g \in Seq(Phases), g # <<>>, Len(g) <= 8, \A n \in 1..Len(g) : g[n] = Success[n]
  PROVE  LegalJournal(g)
PROOF
  <1>1. Len(g) \in 1..8
    <2>1. Len(g) \in Nat /\ Len(g) # 0
      OBVIOUS
    <2>2. \A k \in Nat : k # 0 /\ k <= 8 => k \in 1..8
      OBVIOUS
    <2> QED BY <2>1, <2>2, Zenon
  <1>2. g[1] = "prepared"
    BY <1>1 DEF Success
  <1>3. ASSUME NEW n \in 1..Len(g) - 1
        PROVE  <<g[n], g[n + 1]>> \in LegalSteps
    <2>1. n \in 1..7 /\ g[n] = Success[n] /\ g[n + 1] = Success[n + 1]
      BY <1>1
    <2> QED BY <2>1 DEF LegalSteps
  <1> QED BY <1>2, <1>3 DEF LegalJournal

\* What writing a generation does: it is there and the command goes on or was
\* to end with it, or it may be there or staged and the command broke off, or
\* it need not be written.
LEMMA AppendShape ==
  ASSUME Inv, NEW phase \in Phases, AppendGeneration(phase)
  PROVE  /\ pc = phase
         /\ UNCHANGED <<format, place, material, authority, log, key, signed, goal>>
         /\ \/ gens' = Append(gens, phase) /\ gtail' = NoSlot /\ Due(phase)
            \/ /\ gens' = gens /\ pc' = "free" /\ result' = "broken" /\ Due(phase)
               /\ gtail' \in SlotsFor(Phases) /\ (gtail'.st = "staged" => gtail'.by = phase)
            \/ UNCHANGED <<gens, gtail>> /\ ~Due(phase)
         /\ \/ pc' = After[phase] /\ result' = result /\ phase \notin Failures
            \/ pc' = "free" /\ result' = "broken"
            \/ pc' = "free" /\ result' = "refused" /\ phase \in Failures
            \/ /\ pc' = "free" /\ result' = "refused" /\ ~Due(phase)
               /\ phase = "completed" /\ LastPhase # "completed"
PROOF
  <1>1. pc = phase /\ UNCHANGED <<format, place, material, authority, log, key, signed, goal>>
    BY DEF AppendGeneration, Continue, Goto, Finish
  <1>2. CASE Due(phase)
    <2>1. PICK try \in Tries(gtail, phase) :
            /\ IF try.to.st = "final"
               THEN gens' = Append(gens, phase) /\ gtail' = NoSlot
               ELSE gens' = gens /\ gtail' = try.to
            /\ IF try.ok /\ phase \in Failures THEN Finish("refused") ELSE Continue(try.ok)
      BY <1>2 DEF AppendGeneration
    <2>2. gtail.st \in FileStates
      BY DEF Inv, TypeOK, SlotsFor
    <2>3. /\ try.to \in SlotsFor(Phases) /\ try.ok \in BOOLEAN
          /\ try.to.st = "staged" => try.to.by = phase
          /\ try.ok => try.to.st = "final"
      BY <2>2, TryShape
    <2>4. CASE try.ok
      BY <1>1, <1>2, <2>1, <2>3, <2>4 DEF Continue, Goto, Finish
    <2>5. CASE ~try.ok
      BY <1>1, <1>2, <2>1, <2>3, <2>5 DEF Continue, Goto, Finish
    <2> QED BY <2>4, <2>5
  <1>3. CASE ~Due(phase)
    <2>1. phase \notin Failures
      BY <1>3 DEF Due, Signing, Rooted, Published, Failures
    <2> QED BY <1>1, <1>3, <2>1 DEF AppendGeneration, Continue, Goto, Finish
  <1> QED BY <1>2, <1>3

\* The places of a run that succeeds.
RungNames ==
  {"prepared", "create", "finalize_started", "finalize", "finalize_failed",
   "finalize_unexpected", "finalize_succeeded", "key_validated", "intent",
   "root_signing_prepared", "root", "publication", "root_validated", "root_der",
   "authority", "authority_published", "completed", "audit", "archive"}

\* Which command is where, and that what a load began with stays.
Concerned ==
  /\ pc # "free" => result = "none"
  /\ pc \in {"mark", "absent", "mkdir"} => goal = "fresh"
  /\ pc \in {"journal", "judge"} => goal \in {"reconcile", "abandon", "load"}
  /\ pc \in Abandoned => goal = "abandon"
  /\ pc \in RungNames =>
       goal \in {"fresh", "reconcile"} \/ (goal = "abandon" /\ pc \in {"audit", "archive"})
  /\ pc = "judge" => place \in {"active", "completed"}
  /\ pc \in {"journal", "judge"} /\ goal = "load" => Loadable

\* The places are those of one kind of run, or of none.
LEMMA RungDomain ==
  /\ RungNames \cap {"free", "mark", "absent", "mkdir", "journal", "judge"} = {}
  /\ RungNames \cap Abandoned = {}
  /\ Phases \subseteq (RungNames \ {"audit", "archive"}) \cup Abandoned
  /\ Abandoned \cap {"free", "mark", "absent", "mkdir", "journal", "judge"} = {}
PROOF
  BY DEF RungNames, Phases, Owned, Signing, Rooted, Published, Abandoned, Failures

\* Where each step leads.
LEMMA AfterSteps ==
  /\ After["mark"] = "absent" /\ After["absent"] = "mkdir" /\ After["mkdir"] = "prepared"
  /\ After["create"] = "finalize_started"
  /\ After["finalize_started"] = "finalize"
  /\ After["intent"] = "root_signing_prepared" /\ After["root"] = "publication"
  /\ After["publication"] = "root_validated" /\ After["root_der"] = "authority"
  /\ After["authority"] = "authority_published" /\ After["audit"] = "archive"
PROOF
  BY DEF After

\* Every step of a run that succeeds stays in it, and only generations count.
LEMMA RungAfter ==
  ASSUME NEW phase \in Phases \ (Failures \cup Abandoned)
  PROVE  /\ After[phase] \in RungNames
         /\ Rung[phase] \in 0..7 /\ phase = Success[Rung[phase] + 1]
         /\ Rung[After[phase]] = Rung[phase] + 1
PROOF
  <1>1. CASE phase = "finalize_started"
    BY <1>1 DEF After, Rung, RungNames, Success
  <1>2. CASE phase # "finalize_started"
    <2>1. \/ phase = "prepared" /\ After[phase] = "create"
          \/ phase = "finalize_succeeded" /\ After[phase] = "key_validated"
          \/ phase = "key_validated" /\ After[phase] = "intent"
          \/ phase = "root_signing_prepared" /\ After[phase] = "root"
          \/ phase = "root_validated" /\ After[phase] = "root_der"
          \/ phase = "authority_published" /\ After[phase] = "completed"
          \/ phase = "completed" /\ After[phase] = "audit"
      BY <1>2, AfterPhase DEF Abandoned
    <2> QED BY <2>1 DEF Rung, RungNames, Success
  <1> QED BY <1>1, <1>2

\* A step that publishes stays with its command, on the same rung.
LEMMA EstablishShape ==
  ASSUME Establish
  PROVE  /\ pc \in {"intent", "root", "publication", "root_der", "authority"}
         /\ UNCHANGED <<format, place, gens, gtail, log, key, goal>>
         /\ \/ pc' = After[pc] /\ result' = result
            \/ pc' = "free" /\ result' \in {"refused", "broken"}
         /\ intent' # intent => pc = "intent"
PROOF
  <1>1. CASE PublishIntent
    BY <1>1 DEF PublishIntent, Continue, Goto, Finish, journal
  <1>2. CASE SignRoot
    BY <1>2 DEF SignRoot, Continue, Goto, Finish, journal
  <1>3. CASE PublishPublication
    BY <1>3 DEF PublishPublication, Continue, Goto, Finish, journal
  <1>4. CASE PublishRootDer
    BY <1>4 DEF PublishRootDer, Continue, Goto, Finish, journal, material
  <1>5. CASE PublishAuthority
    BY <1>5 DEF PublishAuthority, Continue, Goto, Finish, journal, material
  <1> QED BY <1>1, <1>2, <1>3, <1>4, <1>5 DEF Establish

\* Every step keeps which command is where.
LEMMA ConcernedNext ==
  ASSUME Inv, Concerned, [Next]_vars
  PROVE  Concerned'
PROOF
  <1> USE RungDomain
  <1>1. CASE UNCHANGED vars
    BY <1>1 DEF vars, run, journal, authority, Concerned, Loadable
  <1>2. CASE Stop
    BY <1>2 DEF Stop, Finish, Concerned
  <1>3. CASE OtherPrograms
    BY <1>3 DEF OtherPrograms, run, journal, authority, Concerned, Loadable
  <1>4. ASSUME NEW command \in Commands, Begin(command)
        PROVE  Concerned'
    BY <1>4 DEF Begin, Commands, Concerned, Loadable, authority
  <1>5. CASE MarkFormat \/ RequireAbsent \/ MakeJournal \/ CreateStaged
    BY <1>5, AfterSteps
       DEF MarkFormat, RequireAbsent, MakeJournal, CreateStaged, Continue, Goto, Finish,
           Concerned, RungNames
  <1>6. CASE Finalize
    BY <1>6 DEF Finalize, Goto, Failures, Concerned, RungNames
  <1>7. CASE ValidateJournal
    BY <1>7 DEF ValidateJournal, Goto, Finish, Concerned, Loadable, authority
  <1>8. CASE Judge
    BY <1>8 DEF Judge, Goto, Finish, Concerned, RungNames, Abandoned
  <1>9. CASE Establish
    <2>1. /\ pc \in RungNames \ {"audit", "archive"} /\ goal' = goal
          /\ pc' = "free" \/ (pc' \in RungNames \ {"audit", "archive"} /\ result' = result)
      BY <1>9, EstablishShape, AfterSteps DEF RungNames
    <2> QED BY <2>1 DEF Concerned
  <1>10. CASE Conclude
    BY <1>10, AfterSteps DEF Conclude, LogOutcome, Archive, Continue, Goto, Finish, Concerned,
                             RungNames
  <1>11. ASSUME NEW phase \in Phases, AppendGeneration(phase)
         PROVE  Concerned'
    <2>1. /\ pc = phase /\ goal' = goal
          /\ pc' = "free" \/ (pc' = After[phase] /\ result' = result /\ phase \notin Failures)
      BY <1>11, AppendShape
    <2>2. CASE pc' = "free"
      BY <2>2 DEF Concerned
    <2>3. CASE phase \in Abandoned /\ pc' # "free"
      BY <2>1, <2>3 DEF Concerned, After, Abandoned, RungNames
    <2>4. CASE phase \notin Abandoned /\ pc' # "free"
      <3>1. phase \in RungNames \ {"audit", "archive"} /\ pc' \in RungNames /\ result' = result
        BY <2>1, <2>4, RungAfter
      <3> QED BY <2>1, <3>1 DEF Concerned
    <2> QED BY <2>2, <2>3, <2>4
  <1> QED BY <1>1, <1>2, <1>3, <1>4, <1>5, <1>6, <1>7, <1>8, <1>9, <1>10, <1>11
          DEF Next, Fresh, Resume

\* No command is anywhere yet.
LEMMA ConcernedInit == Init => Concerned
PROOF
  BY RungDomain DEF Init, Concerned

\* A run from the start is on its rung; one that reconciles is on it or further,
\* since it documents the success of the key; and signing begins over a key
\* that was validated.
Climbing ==
  /\ pc \in RungNames /\ goal = "fresh" => Ladder /\ Len(gens) = Rung[pc]
  /\ pc \in RungNames /\ goal = "reconcile" =>
       /\ Has("finalize_succeeded") /\ Rung[pc] >= 4
       /\ Len(gens) >= Rung[pc] \/ pc = "intent"
  /\ intent.st # "absent" => Has("key_validated")

\* A journal that documents the key is one of success, and what is staged is
\* the next of its generations.
Documented ==
  (\E phase \in Owned : Has(phase) \/ gtail = SlotOf("staged", phase)) =>
    Ladder /\ (gtail.st = "staged" => Len(gens) < 8 /\ gtail.by = Success[Len(gens) + 1])

\* A generation that is due is the next one.
LEMMA NextGeneration ==
  ASSUME Inv, Concerned, Climbing, Documented, NEW phase \in Phases \ Abandoned,
         AppendGeneration(phase)
  PROVE  /\ Ladder /\ goal \in {"fresh", "reconcile"} /\ Len(gens) >= Rung[phase]
         /\ goal = "fresh" => Len(gens) = Rung[phase] /\ Due(phase)
         /\ goal = "reconcile" => phase \notin Failures /\ phase \in Signing
         /\ phase \notin Failures /\ Due(phase) => Len(gens) < 8 /\ phase = Success[Len(gens) + 1]
         /\ phase \notin Failures /\ ~Due(phase) => Len(gens) >= Rung[phase] + 1
PROOF
  <1>1. pc = phase /\ phase \in RungNames \ {"audit", "archive", "intent"}
    <2>1. "intent" \notin Phases
      BY DEF Phases, Owned, Signing, Rooted, Published, Abandoned, Failures
    <2> QED BY <2>1, RungDomain DEF AppendGeneration
  <1>2. goal \in {"fresh", "reconcile"}
    BY <1>1 DEF Concerned
  <1>3. CASE goal = "fresh"
    <2>1. Ladder /\ Len(gens) = Rung[phase] /\ Due(phase)
      BY <1>1, <1>3 DEF Climbing, Due
    <2>2. phase \notin Failures => Rung[phase] \in 0..7 /\ phase = Success[Rung[phase] + 1]
      BY RungAfter
    <2>3. Len(gens) \in 0..8
      BY <2>1, LadderHas
    <2> QED BY <1>3, <2>1, <2>2, <2>3
  <1>4. CASE goal = "reconcile"
    <2>1. Has("finalize_succeeded") /\ Rung[phase] >= 4 /\ Len(gens) >= Rung[phase]
      BY <1>1, <1>4 DEF Climbing
    <2>2. Ladder
      BY <2>1 DEF Documented, Owned
    <2>3. phase \in {"root_signing_prepared", "root_validated", "authority_published", "completed"}
          /\ Rung[phase] \in 4..7 /\ phase = Success[Rung[phase] + 1]
      <3>1. phase \notin {"prepared", "finalize_started", "finalize_failed", "finalize_unexpected",
                          "finalize_succeeded", "key_validated"}
        BY <2>1 DEF Rung
      <3>2. phase \in {"root_signing_prepared", "root_validated", "authority_published", "completed"}
        BY <3>1 DEF Phases, Owned, Signing, Rooted, Published, Failures
      <3> QED BY <3>2 DEF Rung, Success
    <2>4. phase \in Signing /\ phase \notin Failures
      BY <2>3 DEF Signing, Rooted, Published, Failures
    <2>5. PICK k \in 0..8 : k = Len(gens) /\ (k # 0 => LastPhase = Success[k])
      BY <2>2, LadderHas
    <2>6. PICK r \in 4..7 : r = Rung[phase]
      BY <2>3
    <2>7. r <= k /\ k \in 4..8 /\ LastPhase = Success[k] /\ phase = Success[r + 1]
      BY <2>1, <2>3, <2>5, <2>6
    <2>8. CASE Due(phase)
      <3>1. PICK n \in 1..7 : Success[n] = LastPhase /\ Success[n + 1] = phase
        BY <1>4, <2>4, <2>8 DEF Due
      <3>2. n = k
        BY <2>7, <3>1, Rungs
      <3>3. k < 8 /\ phase = Success[k + 1]
        BY <3>1, <3>2
      <3> QED BY <1>4, <2>1, <2>2, <2>4, <2>5, <2>8, <3>3
    <2>9. CASE ~Due(phase)
      <3>1. k # r
        BY <2>7, <2>9 DEF Due
      <3>2. k >= r + 1
        BY <2>7, <3>1
      <3> QED BY <1>4, <2>1, <2>2, <2>4, <2>5, <2>6, <2>9, <3>2
    <2> QED BY <2>8, <2>9
  <1> QED BY <1>2, <1>3, <1>4

\* Where nothing of the journal, nor of the signing intent, changes.
LEMMA ClimbingKept ==
  ASSUME Inv, Climbing, UNCHANGED <<gens, intent, goal>>,
         pc' \notin RungNames \/ (pc \in RungNames /\ Rung[pc'] = Rung[pc] /\ pc \notin {"intent"})
           \/ pc' = pc
  PROVE  Climbing'
PROOF
  BY DEF Climbing, Ladder, Has

\* Every step keeps the rung.
LEMMA ClimbingNext ==
  ASSUME Inv, Concerned, Climbing, Documented, [Next]_vars
  PROVE  Climbing'
PROOF
  <1> USE RungDomain
  <1>1. CASE UNCHANGED vars \/ OtherPrograms
    BY <1>1, ClimbingKept DEF vars, run, journal, material, OtherPrograms
  <1>2. CASE Stop
    BY <1>2, ClimbingKept DEF Stop, Finish, journal, material
  <1>3. ASSUME NEW command \in Commands, Begin(command)
        PROVE  Climbing'
    <2>1. UNCHANGED <<gens, intent>> /\ pc' \notin RungNames
      BY <1>3 DEF Begin, journal, material
    <2> QED BY <2>1 DEF Climbing, Has
  <1>4. CASE MarkFormat \/ RequireAbsent
    <2>1. UNCHANGED <<gens, intent, goal>> /\ pc' \notin RungNames
      BY <1>4, AfterSteps DEF MarkFormat, RequireAbsent, Continue, Goto, Finish, journal, material
    <2> QED BY <2>1, ClimbingKept
  <1>5. CASE MakeJournal
    <2>1. /\ pc = "mkdir" /\ pc' = "prepared" /\ UNCHANGED <<gens, intent, goal>>
      BY <1>5, AfterSteps DEF MakeJournal, Continue, Goto, material
    <2>2. gens = <<>> /\ goal = "fresh"
      BY <2>1 DEF Concerned, Inv, Placed, Starting
    <2>3. Ladder' /\ Len(gens') = 0 /\ Rung["prepared"] = 0
      BY <2>1, <2>2 DEF Ladder, Rung
    <2> QED BY <2>1, <2>2, <2>3 DEF Climbing, Has
  <1>6. CASE CreateStaged
    <2>1. /\ pc = "create" /\ pc' = "finalize_started" /\ UNCHANGED <<gens, intent, goal>>
      BY <1>6, AfterSteps DEF CreateStaged, Continue, Goto, journal, material
    <2> QED BY <2>1, ClimbingKept DEF Rung, RungNames
  <1>7. CASE Finalize
    <2>1. /\ pc = "finalize" /\ pc' \in {"finalize_succeeded"} \cup Failures
          /\ UNCHANGED <<gens, intent, goal>>
      BY <1>7 DEF Finalize, Goto, journal, material
    <2>2. pc' \in {"finalize_succeeded", "finalize_failed", "finalize_unexpected"}
      BY <2>1 DEF Failures
    <2> QED BY <2>1, <2>2, ClimbingKept DEF Rung, RungNames
  <1>8. CASE ValidateJournal
    <2>1. /\ UNCHANGED intent /\ pc' \notin RungNames
          /\ gens' = gens \/ \E phase \in Phases : gens' = Append(gens, phase)
      BY <1>8 DEF ValidateJournal, Goto, Finish, material, Inv, TypeOK, SlotsFor
    <2>2. Has("key_validated") => Has("key_validated")'
      BY <2>1, JournalGrows DEF Phases
    <2> QED BY <2>1, <2>2 DEF Climbing
  <1>9. CASE Judge
    <2>1. UNCHANGED <<gens, intent, goal>> /\ pc' \in {"free", "abandon_verified", "intent"}
          /\ (pc' = "intent" => goal = "reconcile" /\ Has("finalize_succeeded"))
      BY <1>9 DEF Judge, Goto, Finish, ReconcileAllowed, journal, material
    <2>2. CASE pc' = "intent"
      <3>1. Rung["intent"] = 4
        BY DEF Rung
      <3> QED BY <2>1, <2>2, <3>1 DEF Climbing, Has
    <2>3. CASE pc' # "intent"
      BY <2>1, <2>3, ClimbingKept DEF Abandoned
    <2> QED BY <2>2, <2>3
  <1>10. CASE PublishIntent
    <2>1. /\ pc = "intent" /\ UNCHANGED <<gens, goal>>
          /\ pc' \in {"free", "root_signing_prepared"}
          /\ intent.st = "final" => UNCHANGED intent
          /\ intent' = intent \/ ~IntentRefused
          /\ pc' # "free" => intent.st = "final" \/ ~IntentRefused
      <3>1. CASE intent.st = "final"
        BY <1>10, <3>1, AfterSteps DEF PublishIntent, Continue, Goto, Finish, journal
      <3>2. CASE intent.st # "final"
        BY <1>10, <3>2, AfterSteps DEF PublishIntent, Continue, Goto, Finish, journal
      <3> QED BY <3>1, <3>2
    <2>2. intent.st # "absent" \/ ~IntentRefused => Has("key_validated")
      <3>1. CASE intent.st # "absent"
        BY <3>1 DEF Climbing
      <3>2. CASE intent.st = "absent" /\ ~IntentRefused
        <4>1. goal \in {"fresh", "reconcile"}
          BY <2>1 DEF Concerned, RungNames
        <4>2. CASE goal = "fresh"
          <5>1. Ladder /\ Len(gens) = 4
            BY <2>1, <4>2 DEF Climbing, RungNames, Rung
          <5> QED BY <5>1, LadderHas, Rungs
        <4>3. CASE goal = "reconcile"
          <5>1. LastPhase = "key_validated"
            BY <3>2, <4>3 DEF IntentRefused
          <5>2. gens # <<>>
            BY <5>1 DEF LastPhase
          <5>3. Len(gens) \in DOMAIN gens
            BY <5>2 DEF Inv, TypeOK
          <5> QED BY <5>1, <5>2, <5>3 DEF LastPhase, Has
        <4> QED BY <4>1, <4>2, <4>3
      <3> QED BY <3>1, <3>2
    <2>3. intent'.st # "absent" => Has("key_validated")'
      BY <2>1, <2>2 DEF Has
    <2>4. CASE pc' = "free"
      BY <2>3, <2>4 DEF Climbing
    <2>5. CASE pc' = "root_signing_prepared"
      <3>1. Has("key_validated")
        BY <2>1, <2>2, <2>5
      <3>2. Ladder
        BY <3>1 DEF Documented, Owned
      <3>3. Len(gens) >= 4
        BY <3>1, <3>2, LadderHas, Rungs
      <3>4. Rung["root_signing_prepared"] = 4 /\ Rung["intent"] = 4 /\ "intent" \in RungNames
        BY DEF Rung, RungNames
      <3> QED BY <2>1, <2>3, <2>5, <3>3, <3>4 DEF Climbing, Ladder, Has
    <2> QED BY <2>1, <2>4, <2>5
  <1>11. CASE Establish /\ ~PublishIntent
    <2>1. /\ pc \in {"root", "publication", "root_der", "authority"}
          /\ UNCHANGED <<gens, goal, intent>>
      BY <1>11, EstablishShape
         DEF Establish, SignRoot, PublishPublication, PublishRootDer, PublishAuthority
    <2>2. pc' = "free" \/ pc' = After[pc]
      BY <1>11, EstablishShape
    <2> QED BY <2>1, <2>2, AfterSteps, ClimbingKept DEF Rung, RungNames
  <1>12. CASE Conclude
    <2>1. UNCHANGED <<gens, goal, intent>> /\ (pc' = "free" \/ (pc = "audit" /\ pc' = "archive"))
      BY <1>12, AfterSteps DEF Conclude, LogOutcome, Archive, Continue, Goto, Finish, journal,
                               material
    <2> QED BY <2>1, ClimbingKept DEF Rung, RungNames
  <1>13. ASSUME NEW phase \in Phases, AppendGeneration(phase)
         PROVE  Climbing'
    <2>1. /\ pc = phase /\ UNCHANGED <<intent, goal>>
          /\ gens' = gens \/ gens' = Append(gens, phase)
          /\ pc' = "free" \/ (pc' = After[phase] /\ phase \notin Failures)
      BY <1>13, AppendShape DEF material
    <2>2. \A x : Has(x) => Has(x)'
      BY <2>1, JournalGrows
    <2>3. CASE pc' = "free"
      BY <2>1, <2>2, <2>3 DEF Climbing
    <2>4. CASE phase \in Abandoned /\ pc' # "free"
      <3>1. goal = "abandon"
        BY <2>1, <2>4 DEF Concerned
      <3> QED BY <2>1, <2>2, <3>1 DEF Climbing
    <2>5. CASE phase \notin Abandoned /\ pc' # "free"
      <3>1. /\ goal \in {"fresh", "reconcile"} /\ Ladder
            /\ goal = "fresh" => Len(gens) = Rung[phase] /\ Due(phase)
            /\ Len(gens) >= Rung[phase]
            /\ Due(phase) => Len(gens) < 8 /\ phase = Success[Len(gens) + 1]
            /\ ~Due(phase) => Len(gens) >= Rung[phase] + 1
        BY <1>13, <2>1, <2>5, NextGeneration
      <3>2. Rung[pc'] = Rung[phase] + 1 /\ Rung[phase] \in 0..7
        BY <2>1, <2>5, RungAfter
      <3>3. Due(phase) => gens' = Append(gens, phase)
        BY <1>13, <2>5, AppendShape
      <3>4. ~Due(phase) => gens' = gens
        BY <1>13, AppendShape
      <3>5. Due(phase) => Ladder' /\ Len(gens') = Len(gens) + 1
        BY <3>1, <3>3, LadderGrows
      <3>6. Len(gens) \in 0..8
        BY <3>1, LadderHas
      <3>7. Len(gens') >= Rung[pc'] /\ (goal = "fresh" => Ladder' /\ Len(gens') = Rung[pc'])
        BY <3>1, <3>2, <3>4, <3>5, <3>6
      <3>8. phase \in RungNames
        BY <2>5
      <3> QED BY <2>1, <2>2, <3>1, <3>2, <3>7, <3>8 DEF Climbing
    <2> QED BY <2>3, <2>4, <2>5
  <1> QED BY <1>1, <1>2, <1>3, <1>4, <1>5, <1>6, <1>7, <1>8, <1>9, <1>10, <1>11, <1>12, <1>13
          DEF Next, Fresh, Resume, Establish

\* What one generation more makes of a journal that documents the key.
LEMMA DocumentedGrows ==
  ASSUME Inv, Ladder, Len(gens) < 8, NEW phase, phase = Success[Len(gens) + 1],
         \/ gens' = Append(gens, phase) /\ gtail' = NoSlot
         \/ gens' = gens /\ (gtail'.st = "staged" => gtail'.by = phase)
  PROVE  Documented'
PROOF
  <1>1. CASE gens' = Append(gens, phase) /\ gtail' = NoSlot
    <2>1. Ladder' /\ gtail'.st # "staged"
      BY <1>1, LadderGrows DEF NoSlot
    <2> QED BY <2>1 DEF Documented
  <1>2. CASE gens' = gens /\ (gtail'.st = "staged" => gtail'.by = phase)
    BY <1>2 DEF Documented, Ladder
  <1> QED BY <1>1, <1>2

\* Every step keeps what the journal documents.
LEMMA DocumentedNext ==
  ASSUME Inv, Concerned, Climbing, Documented, [Next]_vars
  PROVE  Documented'
PROOF
  <1>1. CASE UNCHANGED <<gens, gtail>>
    BY <1>1 DEF Documented, Ladder, Has
  <1>2. CASE ValidateJournal
    <2>1. CASE gens' = gens /\ gtail' \in {gtail, NoSlot}
      <3>1. \A phase \in Owned : gtail' = SlotOf("staged", phase) => gtail = SlotOf("staged", phase)
        BY <2>1 DEF NoSlot, SlotOf
      <3>2. gtail'.st = "staged" => gtail' = gtail
        BY <2>1 DEF NoSlot
      <3> QED BY <2>1, <3>1, <3>2 DEF Documented, Ladder, Has
    <2>2. CASE ~(gens' = gens /\ gtail' \in {gtail, NoSlot})
      <3>1. gtail.st = "staged" /\ gtail' = NoSlot /\ gens' = Append(gens, gtail.by)
        BY <1>2, <2>2 DEF ValidateJournal
      <3>2. gtail.by \in Phases /\ gtail = SlotOf("staged", gtail.by)
        BY <3>1 DEF Inv, TypeOK, SlotsFor, SlotOf
      <3>3. gtail'.st # "staged"
        BY <3>1 DEF NoSlot
      <3>4. ASSUME NEW phase \in Owned, Has(phase)' \/ gtail' = SlotOf("staged", phase)
            PROVE  Has(phase) \/ gtail = SlotOf("staged", phase)
        <4>1. gtail' # SlotOf("staged", phase)
          BY <3>3 DEF SlotOf
        <4>2. Has(phase) \/ phase = gtail.by
          BY <3>1, <3>2, <3>4, <4>1, JournalGrows
        <4> QED BY <3>2, <4>2
      <3>5. ASSUME NEW phase \in Owned, Has(phase) \/ gtail = SlotOf("staged", phase)
            PROVE  Ladder'
        <4>1. Ladder /\ Len(gens) < 8 /\ gtail.by = Success[Len(gens) + 1]
          BY <3>1, <3>5 DEF Documented
        <4> QED BY <3>1, <4>1, LadderGrows
      <3> QED BY <3>3, <3>4, <3>5 DEF Documented
    <2> QED BY <2>1, <2>2
  <1>3. ASSUME NEW phase \in Phases, AppendGeneration(phase), ~UNCHANGED <<gens, gtail>>
        PROVE  Documented'
    <2>1. /\ pc = phase /\ Due(phase)
          /\ \/ gens' = Append(gens, phase) /\ gtail' = NoSlot
             \/ gens' = gens /\ (gtail'.st = "staged" => gtail'.by = phase)
      BY <1>3, AppendShape
    <2>2. Fact(phase)
      BY <2>1 DEF Inv, Placed, Vouched
    <2>3. CASE phase \notin Failures \cup Abandoned
      <3>1. Ladder /\ Len(gens) < 8 /\ phase = Success[Len(gens) + 1]
        BY <1>3, <2>1, <2>3, NextGeneration
      <3> QED BY <2>1, <3>1, DocumentedGrows
    <2>4. CASE phase \in Failures \cup Abandoned
      <3>1. \A x \in Owned : ~Has(x)
        <4>1. CASE phase \in Failures
          <5>1. phase \in Phases \ Abandoned
            BY <4>1 DEF Failures, Abandoned
          <5>2. goal = "fresh"
            BY <1>3, <4>1, <5>1, NextGeneration
          <5>3. Ladder /\ Len(gens) = Rung[phase]
            BY <1>3, <5>1, <5>2, NextGeneration
          <5>4. Rung[phase] = 2
            BY <4>1 DEF Failures, Rung
          <5>5. \A x : Has(x) => \E n \in 1..8 : n <= 2 /\ x = Success[n]
            BY <5>3, <5>4, LadderHas
          <5> QED BY <5>5, Rungs
        <4>2. CASE phase \in Abandoned
          BY <2>2, <4>2, FactOrder DEF Inv, JournalTellsTruth, Fact
        <4> QED BY <2>4, <4>1, <4>2
      <3>2. phase \notin Owned
        BY <2>4 DEF Failures, Abandoned, Owned, Signing, Rooted, Published
      <3>3. \A x \in Owned : ~Has(x)'
        BY <2>1, <3>1, <3>2, JournalGrows
      <3>4. \A x \in Owned : gtail' # SlotOf("staged", x)
        BY <2>1, <3>2 DEF SlotOf, NoSlot
      <3> QED BY <3>3, <3>4 DEF Documented
    <2> QED BY <2>3, <2>4
  <1>4. CASE Fresh \/ Judge \/ Conclude \/ Stop \/ OtherPrograms \/ UNCHANGED vars
             \/ \E command \in Commands : Begin(command)
    <2>1. UNCHANGED <<gens, gtail>>
      BY <1>4 DEF Fresh, MarkFormat, RequireAbsent, MakeJournal, CreateStaged, Finalize, Judge,
                  Conclude, LogOutcome, Archive, Stop, OtherPrograms, Begin, vars, journal
    <2> QED BY <1>1, <2>1
  <1>5. CASE Establish
    BY <1>1, <1>5, EstablishShape
  <1> QED BY <1>1, <1>2, <1>3, <1>4, <1>5 DEF Next, Resume

\* Success and abandonment exclude each other: of the first the key is ours.
LEMMA NotBoth ==
  ASSUME Inv
  PROVE  ~(Has("completed") /\ Has("abandoned"))
PROOF
  BY FactOrder DEF Inv, JournalTellsTruth, Fact, Owned, Signing, Rooted, Published, Abandoned

\* A run that has come to its audit record has completed its journal.
LEMMA CompletedAtAudit ==
  ASSUME Inv, Concerned, Climbing, Documented, pc \in {"audit", "archive"}, goal # "abandon"
  PROVE  Has("completed")
PROOF
  <1>1. goal \in {"fresh", "reconcile"} /\ pc \in RungNames /\ Rung[pc] = 8
    BY DEF Concerned, RungNames, Rung
  <1>2. Ladder /\ Len(gens) >= 8
    <2>1. CASE goal = "fresh"
      BY <1>1, <2>1 DEF Climbing, Ladder
    <2>2. CASE goal = "reconcile"
      <3>1. Has("finalize_succeeded") /\ Len(gens) >= 8
        BY <1>1, <2>2 DEF Climbing
      <3> QED BY <3>1 DEF Documented, Owned
    <2> QED BY <1>1, <2>1, <2>2
  <1> QED BY <1>2, LadderHas, Rungs

-----------------------------------------------------------------------------
(* The audit record of the outcome.                                         *)

\* The log says of the outcome what the journal says, once; an abandonment
\* that comes to its record finds none.
Recorded ==
  /\ audit \in {<<>>, <<"authority_initialized">>, <<"init_abandoned">>}
  /\ audit = <<"authority_initialized">> => Has("completed")
  /\ audit = <<"init_abandoned">> \/ atail.by = "init_abandoned" => Has("abandoned")
  /\ atail.st # "final"
  /\ pc \in {"audit", "archive"} /\ goal = "abandon" => Has("abandoned")
  /\ pc \in Abandoned \cup {"audit"} /\ goal = "abandon" => audit = <<>>
  /\ pc = "archive" => audit = <<Kind>>
  /\ place = "completed" => audit = <<"authority_initialized">>
  /\ place = "abandoned" => audit = <<"init_abandoned">>

\* Where no record is written and nothing archived.
LEMMA RecordedKept ==
  ASSUME Recorded, UNCHANGED log, place' \in {place, "active"},
         Has("completed") => Has("completed")', Has("abandoned") => Has("abandoned")',
         \/ pc' \notin Abandoned \cup {"audit", "archive"}
         \/ pc' = pc /\ goal' = goal
         \/ pc' \in Abandoned /\ goal' = goal /\ (goal = "abandon" => audit = <<>>)
         \/ /\ pc' = "audit" /\ goal' = goal
            /\ goal = "abandon" => audit = <<>> /\ Has("abandoned")'
  PROVE  Recorded'
PROOF
  <1>1. "audit" \notin Abandoned /\ "archive" \notin Abandoned
    BY DEF Abandoned
  <1> QED BY <1>1 DEF Recorded, log, Kind

\* The record of the outcome itself.
LEMMA LogOutcomeRecorded ==
  ASSUME Inv, Concerned, Climbing, Documented, Recorded, LogOutcome
  PROVE  Recorded'
PROOF
  <1>1. /\ pc = "audit" /\ UNCHANGED <<gens, place, goal>>
        /\ pc' \in {"free", "archive"}
    BY AfterSteps DEF LogOutcome, Continue, Goto, Finish, journal
  <1>2. "free" \notin Abandoned /\ "archive" \notin Abandoned
    BY DEF Abandoned
  <1>3. IF goal = "abandon" THEN Has("abandoned") /\ audit = <<>> ELSE Has("completed")
    BY <1>1, CompletedAtAudit DEF Recorded
  <1>4. audit \in {<<>>, <<"authority_initialized">>} /\ (goal = "abandon" => audit = <<>>)
    <2>1. Has("completed") => ~Has("abandoned")
      BY NotBoth
    <2> QED BY <1>3, <2>1 DEF Recorded
  <1>5. CASE Logged /\ Continue(TRUE) /\ UNCHANGED log
    <2>1. audit = <<"authority_initialized">> /\ goal # "abandon"
      BY <1>4, <1>5 DEF Logged
    <2> QED BY <1>1, <1>2, <1>5, <2>1 DEF Recorded, log, Kind, Has
  <1>6. CASE Finish("refused") /\ UNCHANGED log
    BY <1>1, <1>2, <1>6 DEF Recorded, log, Finish, Has
  <1>7. CASE /\ ~Logged /\ Fits(atail, Kind)
             /\ \E try \in Tries(atail, Kind) :
                  /\ IF try.to.st = "final"
                     THEN audit' = Append(audit, Kind) /\ atail' = NoSlot
                     ELSE audit' = audit /\ atail' = try.to
                  /\ Continue(try.ok)
    <2>1. PICK try \in Tries(atail, Kind) :
            /\ IF try.to.st = "final"
               THEN audit' = Append(audit, Kind) /\ atail' = NoSlot
               ELSE audit' = audit /\ atail' = try.to
            /\ Continue(try.ok)
      BY <1>7
    <2>2. atail.st \in FileStates /\ Kind \in Kinds
      BY DEF Inv, TypeOK, SlotsFor, Kind, Kinds
    <2>3. /\ try.to.by \in {Kind, Nobody} /\ try.ok \in BOOLEAN
          /\ try.ok => try.to.st = "final"
      BY <2>2, TryShape
    <2>4. audit = <<>>
      <3>1. audit = <<"authority_initialized">> => 1 \in DOMAIN audit /\ audit[1] = "authority_initialized"
        OBVIOUS
      <3> QED BY <1>4, <1>7, <3>1 DEF Logged, Kind
    <2>5. place \notin {"completed", "abandoned"}
      BY <2>4 DEF Recorded
    <2>6. Nobody # "init_abandoned"
      BY NobodyIsNobody DEF Kinds
    <2>7. CASE try.to.st = "final"
      <3>1. audit' = <<Kind>> /\ atail' = NoSlot
        BY <2>1, <2>4, <2>7
      <3> QED BY <1>1, <1>2, <1>3, <2>5, <2>6, <3>1 DEF Recorded, Kind, Has, NoSlot
    <2>8. CASE try.to.st # "final"
      <3>1. audit' = <<>> /\ atail' = try.to /\ pc' = "free"
        BY <2>1, <2>3, <2>4, <2>8 DEF Continue, Finish
      <3> QED BY <1>1, <1>2, <1>3, <2>3, <2>5, <2>6, <2>8, <3>1 DEF Recorded, Kind, Has
    <2> QED BY <2>7, <2>8
  <1> QED BY <1>5, <1>6, <1>7 DEF LogOutcome

\* Every step keeps what is on record.
LEMMA RecordedNext ==
  ASSUME Inv, Concerned, Climbing, Documented, Recorded, [Next]_vars
  PROVE  Recorded'
PROOF
  <1>1. \A x \in {"free", "mark", "absent", "mkdir", "journal", "judge", "intent"} :
          x \notin Abandoned \cup {"audit", "archive"}
    BY DEF Abandoned
  <1>2. CASE UNCHANGED vars \/ OtherPrograms
    BY <1>2, RecordedKept DEF vars, run, journal, OtherPrograms, Has
  <1>3. CASE Stop \/ \E command \in Commands : Begin(command)
    BY <1>1, <1>3, RecordedKept DEF Stop, Finish, Begin, journal, Has
  <1>4. CASE Fresh
    <2>1. /\ UNCHANGED <<gens, log>> /\ place' \in {place, "active"}
          /\ pc' \in {"free", "absent", "mkdir", "prepared", "finalize_started",
                      "finalize_succeeded"} \cup Failures
      BY <1>4, AfterSteps DEF Fresh, MarkFormat, RequireAbsent, MakeJournal, CreateStaged,
                              Finalize, Continue, Goto, Finish, journal
    <2>2. pc' \notin Abandoned \cup {"audit", "archive"}
      BY <2>1 DEF Abandoned, Failures
    <2> QED BY <2>1, <2>2, RecordedKept DEF Has
  <1>5. CASE ValidateJournal
    <2>1. /\ UNCHANGED <<log, place>> /\ pc' \in {"free", "judge"}
          /\ gens' = gens \/ \E phase \in Phases : gens' = Append(gens, phase)
      BY <1>5 DEF ValidateJournal, Goto, Finish, Inv, TypeOK, SlotsFor
    <2>2. \A x : Has(x) => Has(x)'
      BY <2>1, JournalGrows DEF Phases
    <2> QED BY <1>1, <2>1, <2>2, RecordedKept
  <1>6. CASE Judge
    <2>1. /\ UNCHANGED <<log, place, gens, goal>>
          /\ \/ pc' \in {"free", "intent"}
             \/ pc' = "abandon_verified" /\ audit = <<>>
      BY <1>6 DEF Judge, Goto, Finish, AbandonAllowed, journal
    <2>2. "abandon_verified" \in Abandoned
      BY DEF Abandoned
    <2> QED BY <1>1, <2>1, <2>2, RecordedKept DEF Has
  <1>7. CASE Establish
    <2>1. /\ UNCHANGED <<log, place, gens>>
          /\ pc' \in {"free", "root_signing_prepared", "publication", "root_validated",
                      "authority", "authority_published"}
      BY <1>7, EstablishShape, AfterSteps
    <2>2. pc' \notin Abandoned \cup {"audit", "archive"}
      BY <2>1 DEF Abandoned
    <2> QED BY <2>1, <2>2, RecordedKept DEF Has
  <1>8. CASE LogOutcome
    BY <1>8, LogOutcomeRecorded
  <1>9. CASE Archive
    <2>1. /\ pc = "archive" /\ pc' = "free" /\ UNCHANGED <<log, gens, goal>>
          /\ place' = IF goal = "abandon" THEN "abandoned" ELSE "completed"
      BY <1>9 DEF Archive, Finish
    <2>2. audit = <<Kind>>
      BY <2>1 DEF Recorded
    <2> QED BY <1>1, <2>1, <2>2 DEF Recorded, log, Kind, Has
  <1>10. ASSUME NEW phase \in Phases, AppendGeneration(phase)
         PROVE  Recorded'
    <2>1. /\ pc = phase /\ UNCHANGED <<log, place, goal>>
          /\ gens' = gens \/ gens' = Append(gens, phase)
          /\ pc' = "free" \/ (pc' = After[phase] /\ phase \notin Failures)
      BY <1>10, AppendShape
    <2>2. \A x : Has(x) => Has(x)'
      BY <2>1, JournalGrows
    <2>3. CASE pc' = "free"
      BY <1>1, <2>1, <2>2, <2>3, RecordedKept
    <2>4. CASE phase \in Abandoned /\ pc' # "free"
      <3>1. goal = "abandon" /\ audit = <<>>
        BY <2>1, <2>4 DEF Concerned, Recorded
      <3>2. \/ phase = "abandon_verified" /\ pc' = "abandoned"
            \/ phase = "abandoned" /\ pc' = "audit"
        BY <2>1, <2>4 DEF Abandoned, After
      <3>3. phase = "abandoned" => Has("abandoned")'
        <4>1. Due(phase)
          BY <3>1 DEF Due
        <4>2. gens' = Append(gens, phase)
          BY <1>10, <2>4, <4>1, AppendShape
        <4> QED BY <4>2, JournalGrows
      <3>4. "abandoned" \in Abandoned
        BY DEF Abandoned
      <3> QED BY <2>1, <2>2, <3>1, <3>2, <3>3, <3>4, RecordedKept
    <2>5. CASE phase \notin Abandoned /\ pc' # "free"
      <3>1. goal # "abandon"
        BY <2>1, <2>5, RungDomain DEF Concerned
      <3>2. pc' \in RungNames /\ pc' # "archive"
        <4>1. phase \notin Failures /\ pc' = After[phase]
          BY <2>1, <2>5
        <4>2. After[phase] # "archive"
          <5>1. CASE phase = "finalize_started"
            BY <5>1 DEF After
          <5>2. CASE phase # "finalize_started"
            BY <4>1, <5>2, AfterPhase
          <5> QED BY <5>1, <5>2
        <4> QED BY <2>5, <4>1, <4>2, RungAfter
      <3>3. pc' = "audit" \/ pc' \notin Abandoned \cup {"audit", "archive"}
        BY <3>2, RungDomain
      <3> QED BY <2>1, <2>2, <3>1, <3>3, RecordedKept
    <2> QED BY <2>3, <2>4, <2>5
  <1> QED BY <1>2, <1>3, <1>4, <1>5, <1>6, <1>7, <1>8, <1>9, <1>10 DEF Next, Resume, Conclude

-----------------------------------------------------------------------------
(* How a command begins and ends.                                           *)

\* No command is anywhere yet, and there is no journal.
LEMMA DeepInit == Init => Climbing /\ Documented /\ Recorded
PROOF
  <1> SUFFICES ASSUME Init PROVE Climbing /\ Documented /\ Recorded
    OBVIOUS
  <1>1. NoSlot.st = "absent" /\ NoSlot.by = Nobody /\ Nobody # "init_abandoned"
    BY NobodyIsNobody DEF NoSlot, Kinds
  <1>2. \A x : ~Has(x)
    BY DEF Init, Has
  <1>3. \A x : gtail # SlotOf("staged", x)
    BY <1>1 DEF Init, SlotOf
  <1>4. "free" \notin RungNames \cup Abandoned
    BY DEF RungNames, Abandoned
  <1>5. Climbing /\ Documented
    BY <1>1, <1>2, <1>3, <1>4 DEF Init, Climbing, Documented
  <1>6. Recorded
    BY <1>1, <1>4 DEF Init, Recorded
  <1> QED BY <1>5, <1>6

\* While no command runs, one begins or other programs do what they do.
LEMMA FromFree ==
  ASSUME pc = "free", [Next]_vars
  PROVE  UNCHANGED vars \/ OtherPrograms \/ \E command \in Commands : Begin(command)
PROOF
  <1>1. "free" \notin Phases
    BY DEF Phases, Owned, Signing, Rooted, Published, Abandoned, Failures
  <1>2. ~Establish /\ ~Stop
    BY EstablishShape DEF Stop
  <1> QED BY <1>1, <1>2 DEF Next, Fresh, MarkFormat, RequireAbsent, MakeJournal, CreateStaged,
        Finalize, Resume, ValidateJournal, Judge, Conclude, LogOutcome, Archive, AppendGeneration

\* Only a load that may and an archived journal end well.
LEMMA EndsWell ==
  ASSUME Inv, Concerned, pc # "free", [Next]_vars, result' = "ok"
  PROVE  \/ Archive
         \/ pc = "judge" /\ goal = "load" /\ LoadAllowed /\ Judge
PROOF
  <1>1. result # "ok"
    BY DEF Concerned
  <1>2. ~Stop /\ ~OtherPrograms /\ ~UNCHANGED vars
        /\ ~(\E command \in Commands : Begin(command))
    BY <1>1 DEF Stop, Finish, OtherPrograms, vars, run, Begin
  <1>3. ~Establish
    BY <1>1, EstablishShape
  <1>4. \A phase \in Phases : ~AppendGeneration(phase)
    BY <1>1, AppendShape
  <1>5. ~Fresh
    BY <1>1 DEF Fresh, MarkFormat, RequireAbsent, MakeJournal, CreateStaged, Finalize, Continue,
                Goto, Finish
  <1>6. ~ValidateJournal /\ ~LogOutcome
    BY <1>1 DEF ValidateJournal, LogOutcome, Continue, Goto, Finish
  <1>7. Judge => pc = "judge" /\ goal = "load" /\ LoadAllowed
    BY <1>1 DEF Judge, Goto, Finish
  <1> QED BY <1>2, <1>3, <1>4, <1>5, <1>6, <1>7 DEF Next, Resume, Conclude

-----------------------------------------------------------------------------
(* What loads.                                                              *)

\* A directory that is initialized to the end.
Initialized ==
  /\ place = "completed" /\ gens = Success
  /\ audit = <<"authority_initialized">>
  /\ root = auth /\ pub = auth /\ rootder = auth
  /\ intent = SlotOf("final", auth.by.tbs)
  /\ key = "ours"

\* What a load has asked when it ends well makes it one.
LEMMA LoadsInitialized ==
  ASSUME Inv, Concerned, Documented, Recorded, pc = "judge", goal = "load", LoadAllowed
  PROVE  Initialized
PROOF
  <1>1. /\ auth.st = "final" /\ rootder = SlotOf("final", auth.by) /\ key = "ours"
        /\ place = "completed" /\ intent = SlotOf("final", rootder.by.tbs)
    BY DEF Concerned, Loadable, LoadAllowed
  <1>2. audit = <<"authority_initialized">> /\ Has("completed")
    BY <1>1 DEF Recorded
  <1>3. gens = Success
    <2>1. Ladder
      BY <1>2 DEF Documented, Owned, Signing, Rooted, Published
    <2>2. Len(gens) = 8
      <3>1. 8 <= Len(gens) /\ Len(gens) \in 0..8
        BY <1>2, <2>1, LadderHas, Rungs
      <3>2. \A k \in 0..8 : 8 <= k => k = 8
        OBVIOUS
      <3> QED BY <3>1, <3>2, Zenon
    <2>3. gens \in Seq(Phases) /\ Success \in Seq(Phases) /\ Len(Success) = 8
      <3>1. gens \in Seq(Phases)
        BY DEF Inv, TypeOK
      <3>2. Success \in Seq(Phases) /\ Len(Success) = 8
        BY DEF Success, Phases, Owned, Signing, Rooted, Published
      <3> QED BY <3>1, <3>2
    <2>4. \A n \in 1..Len(gens) : gens[n] = Success[n]
      BY <2>1 DEF Ladder
    <2> QED BY <2>2, <2>3, <2>4, SeqEqual
  <1>4. root = auth /\ pub = auth /\ rootder = auth
    <2>1. /\ rootder.st = "final" /\ rootder.by = auth.by
          /\ pub.st = "final" /\ pub.by = auth.by /\ root.st = "final" /\ root.by = auth.by
      BY <1>1 DEF SlotOf, Inv, OneRootPublished
    <2>2. \A x, y \in Slot : x.st = y.st /\ x.by = y.by => x = y
      BY DEF Slot
    <2> QED BY <1>1, <2>1, <2>2 DEF Inv, TypeOK
  <1> QED BY <1>1, <1>2, <1>3, <1>4 DEF Initialized

\* Every step keeps what loading shows.
LEMMA LoadedNext ==
  ASSUME Inv, Concerned, Documented, Recorded, LoadedIsInitialized, [Next]_vars
  PROVE  LoadedIsInitialized'
PROOF
  <1> SUFFICES ASSUME goal' = "load", result' = "ok"
               PROVE  Initialized'
    BY DEF LoadedIsInitialized, Initialized
  <1>1. CASE pc = "free"
    <2>1. ~(\E command \in Commands : Begin(command))
      BY DEF Begin
    <2>2. UNCHANGED <<journal, material, authority, log, goal, result>>
          /\ (key' = key \/ key # "ours")
      BY <1>1, <2>1, FromFree DEF vars, run, OtherPrograms
    <2>3. Initialized
      BY <2>2 DEF LoadedIsInitialized, Initialized
    <2> QED BY <2>2, <2>3 DEF Initialized, journal, material, authority, log
  <1>2. CASE pc # "free"
    <2>1. ~Archive
      <3>1. pc = "archive" => goal \in {"fresh", "reconcile", "abandon"}
        BY DEF Concerned, RungNames
      <3> QED BY <3>1 DEF Archive, Finish
    <2>2. pc = "judge" /\ goal = "load" /\ LoadAllowed /\ Judge
      BY <1>2, <2>1, EndsWell
    <2>3. Initialized
      BY <2>2, LoadsInitialized
    <2>4. UNCHANGED <<journal, material, authority, log, key>>
      BY <2>2 DEF Judge
    <2> QED BY <2>3, <2>4 DEF Initialized, journal, material, authority, log
  <1> QED BY <1>1, <1>2

-----------------------------------------------------------------------------
(* What a reconciliation is refused for.                                    *)

\* A reason to refuse it.
Excused == Undocumented \/ Torn \/ Unprepared

\* The reasons are all on disk.
Evidence == <<format, place, gens, gtail, intent, root, pub, rootder, auth, atail>>

\* A step that leaves them alone leaves the reason.
LEMMA ExcusedStays ==
  ASSUME Excused, UNCHANGED Evidence
  PROVE  Excused'
PROOF
  <1>1. Torn => Torn'
    BY DEF Torn, Evidence
  <1>2. Undocumented => Undocumented'
    BY DEF Undocumented, Has, Evidence
  <1>3. Unprepared => Unprepared'
    BY DEF Unprepared, LastPhase, Evidence
  <1> QED BY <1>1, <1>2, <1>3 DEF Excused

\* A file cut short is one.
LEMMA TornExcuses ==
  ASSUME \/ gtail.st = "torn" \/ intent.st = "torn" \/ root.st = "torn" \/ pub.st = "torn"
         \/ rootder.st = "torn" \/ auth.st = "torn" \/ atail.st = "torn"
  PROVE  Excused
PROOF
  BY DEF Excused, Torn

\* What does not fit, and is not somebody else's, is cut short.
LEMMA Unfit ==
  ASSUME NEW S, NEW slot \in SlotsFor(S), NEW who,
         ~FitsExactly(slot, who), slot.st \in {"staged", "final"} => slot.by = who
  PROVE  slot.st = "torn"
PROOF
  <1>1. slot.st \in {"staged", "final"} => slot = SlotOf(slot.st, who)
    BY DEF SlotsFor, SlotOf
  <1> QED BY <1>1 DEF FitsExactly, Fits, SlotsFor, FileStates

\* A journal that is not legal does not document success.
LEMMA ValidateRefuses ==
  ASSUME Inv, Documented, ValidateJournal, result # "refused", result' = "refused"
  PROVE  Excused'
PROOF
  <1>1. CASE /\ place \notin {"active", "completed"} \/ gtail.st = "torn"
             /\ UNCHANGED <<gens, gtail>>
    <2>1. Excused
      BY <1>1, TornExcuses DEF Excused, Undocumented
    <2> QED BY <1>1, <2>1, ExcusedStays DEF ValidateJournal, Evidence, material, authority, log
  <1>2. CASE /\ gens' = IF gtail.st = "staged" THEN Append(gens, gtail.by) ELSE gens
             /\ ~LegalJournal(gens')
    <2>1. gens \in Seq(Phases) /\ (gtail.st = "staged" => gtail.by \in Phases
                                                       /\ gtail = SlotOf("staged", gtail.by))
      BY DEF Inv, TypeOK, SlotsFor, SlotOf
    <2>2. ~Has("finalize_succeeded")'
      <3> SUFFICES ASSUME Has("finalize_succeeded")'
                   PROVE  FALSE
        OBVIOUS
      <3>1. "finalize_succeeded" \in Owned
        BY DEF Owned
      <3>2. Has("finalize_succeeded") \/ gtail = SlotOf("staged", "finalize_succeeded")
        <4>1. CASE gtail.st = "staged"
          <5>1. gens' = Append(gens, gtail.by) /\ gtail.by \in Phases
            BY <1>2, <2>1, <4>1
          <5>2. Has("finalize_succeeded") \/ gtail.by = "finalize_succeeded"
            BY <5>1, JournalGrows
          <5> QED BY <2>1, <4>1, <5>2
        <4>2. CASE gtail.st # "staged"
          BY <1>2, <4>2 DEF Has
        <4> QED BY <4>1, <4>2
      <3>3. Ladder /\ (gtail.st = "staged" => Len(gens) < 8 /\ gtail.by = Success[Len(gens) + 1])
        BY <3>1, <3>2 DEF Documented
      <3>4. Ladder'
        BY <1>2, <3>3, LadderGrows DEF Ladder
      <3>5. gens' \in Seq(Phases) /\ gens' # <<>>
        <4>1. gens' \in Seq(Phases)
          BY <1>2, <2>1
        <4>2. gens' # <<>>
          BY DEF Has
        <4> QED BY <4>1, <4>2
      <3> QED BY <1>2, <3>4, <3>5, LadderLegal DEF Ladder
    <2> QED BY <2>2 DEF Excused, Undocumented
  <1> QED BY <1>1, <1>2 DEF ValidateJournal, Goto, Finish

\* A journal that documents success documents that the key is ours.
LEMMA JudgeRefuses ==
  ASSUME Inv, Judge, goal = "reconcile", result # "refused", result' = "refused"
  PROVE  Excused'
PROOF
  <1>1. ~ReconcileAllowed
    BY DEF Judge, Goto, Finish
  <1>2. "finalize_succeeded" \in Phases /\ "finalize_succeeded" \in Owned
    BY FactOrder DEF Owned
  <1>3. ~Has("finalize_succeeded")
    BY <1>1, <1>2 DEF ReconcileAllowed, Inv, JournalTellsTruth, Fact
  <1>4. Excused
    BY <1>3 DEF Excused, Undocumented
  <1> QED BY <1>4, ExcusedStays DEF Judge, Evidence, journal, material, authority, log

\* A generation that is not due is there.
LEMMA AppendRefuses ==
  ASSUME Inv, Concerned, Climbing, Documented, goal = "reconcile",
         NEW phase \in Phases, AppendGeneration(phase), result # "refused"
  PROVE  result' # "refused"
PROOF
  <1> SUFFICES ASSUME result' = "refused"
               PROVE  FALSE
    OBVIOUS
  <1>1. /\ pc = phase
        /\ \/ phase \in Failures
           \/ ~Due(phase) /\ phase = "completed" /\ LastPhase # "completed"
    BY AppendShape
  <1>2. phase \in Phases \ Abandoned
    BY <1>1 DEF Concerned
  <1>3. ~Due(phase) /\ phase = "completed" /\ LastPhase # "completed"
    BY <1>1, <1>2, NextGeneration
  <1>4. Ladder /\ Len(gens) >= 8
    <2>1. Rung["completed"] = 7 /\ "completed" \notin Failures
      BY DEF Rung, Failures
    <2>2. Ladder /\ Len(gens) >= Rung[phase] + 1
      BY <1>2, <1>3, <2>1, NextGeneration
    <2> QED BY <1>3, <2>1, <2>2
  <1>5. Len(gens) = 8
    <2>1. \A k \in 0..8 : k >= 8 => k = 8
      OBVIOUS
    <2> QED BY <1>4, <2>1, LadderHas, Zenon
  <1>6. LastPhase = Success[8]
    BY <1>4, <1>5, LadderHas
  <1> QED BY <1>3, <1>6, Rungs

\* The signing intent is there once its generation is, and before that it may
\* only be drawn right after the key was validated.
LEMMA IntentRefuses ==
  ASSUME Inv, Climbing, Documented, PublishIntent, goal = "reconcile",
         result # "refused", result' = "refused"
  PROVE  Excused'
PROOF
  <1>1. IntentRefused /\ intent.st # "final" /\ pc = "intent"
    BY DEF PublishIntent, Continue, Goto, Finish
  <1>2. Excused
    <2>1. CASE intent.st = "torn"
      BY <2>1, TornExcuses
    <2>2. CASE intent.st # "torn"
      <3>1. LastPhase # "key_validated"
        BY <1>1, <2>2 DEF IntentRefused
      <3>2. Has("finalize_succeeded")
        BY <1>1 DEF Climbing, RungNames
      <3>3. Ladder
        BY <3>2 DEF Documented, Owned
      <3>4. ~Has("root_signing_prepared")
        BY <1>1, FactOrder DEF Inv, JournalTellsTruth, Fact, Signing
      <3>5. 3 <= Len(gens) /\ ~(5 <= Len(gens)) /\ Len(gens) \in 0..8
        BY <3>2, <3>3, <3>4, LadderHas, Rungs
      <3>6. Len(gens) = 3 \/ Len(gens) = 4
        <4>1. \A k \in 0..8 : 3 <= k /\ ~(5 <= k) => k = 3 \/ k = 4
          OBVIOUS
        <4> QED BY <3>5, <4>1, Zenon
      <3>7. LastPhase = "finalize_succeeded"
        BY <3>1, <3>3, <3>6, LadderHas, Rungs
      <3> QED BY <1>1, <3>7 DEF Excused, Unprepared
    <2> QED BY <2>1, <2>2
  <1> QED BY <1>1, <1>2, ExcusedStays DEF PublishIntent, Evidence, journal, authority, log,
                                         Continue, Goto, Finish

\* What is there of the root is there with the one root.
LEMMA RootRefuses ==
  ASSUME Inv, SignRoot \/ PublishPublication \/ PublishRootDer \/ PublishAuthority,
         result # "refused", result' = "refused"
  PROVE  Excused'
PROOF
  <1> USE DEF Continue, Goto, Finish
  <1>1. CASE SignRoot
    <2>1. root.st = "torn" /\ UNCHANGED Evidence
      BY <1>1 DEF SignRoot, Evidence, journal, authority, log
    <2> QED BY <2>1, TornExcuses, ExcusedStays
  <1>2. CASE PublishPublication
    <2>1. pub.st = "torn" /\ UNCHANGED Evidence
      BY <1>2 DEF PublishPublication, Evidence, journal, authority, log
    <2> QED BY <2>1, TornExcuses, ExcusedStays
  <1>3. CASE PublishRootDer
    <2>1. ~FitsExactly(rootder, pub.by) /\ UNCHANGED Evidence
      BY <1>3 DEF PublishRootDer, Evidence, journal, material, log
    <2>2. rootder \in SlotsFor(Roots) /\ (rootder.st \in {"staged", "final"} => rootder.by = pub.by)
      BY RootSlots DEF Inv, TypeOK, OneRootPublished
    <2>3. rootder.st = "torn"
      BY <2>1, <2>2, Unfit
    <2> QED BY <2>1, <2>3, TornExcuses, ExcusedStays
  <1>4. CASE PublishAuthority
    <2>1. ~FitsExactly(auth, pub.by) /\ UNCHANGED Evidence /\ pc = "authority"
      BY <1>4 DEF PublishAuthority, Evidence, journal, material, log
    <2>2. rootder.by = pub.by
      BY <2>1 DEF Inv, Placed, Establishing, SlotOf
    <2>3. auth \in SlotsFor(Roots) /\ (auth.st \in {"staged", "final"} => auth.by = pub.by)
      BY <2>2, RootSlots DEF Inv, TypeOK, OneRootPublished
    <2>4. auth.st = "torn"
      BY <2>1, <2>3, Unfit
    <2> QED BY <2>1, <2>4, TornExcuses, ExcusedStays
  <1> QED BY <1>1, <1>2, <1>3, <1>4

\* The record of an abandonment is not in the way of one of success.
LEMMA LogRefuses ==
  ASSUME Inv, Concerned, Climbing, Documented, Recorded, LogOutcome, goal = "reconcile",
         result # "refused", result' = "refused"
  PROVE  Excused'
PROOF
  <1>1. /\ pc = "audit" /\ ~Fits(atail, "authority_initialized") /\ UNCHANGED Evidence
    BY DEF LogOutcome, Kind, Continue, Goto, Finish, Evidence, journal, material, authority, log
  <1>2. ~Has("abandoned")
    BY <1>1, CompletedAtAudit, NotBoth
  <1>3. atail \in SlotsFor(Kinds) /\ atail.st # "final" /\ atail.by # "init_abandoned"
    BY <1>2 DEF Inv, TypeOK, Recorded
  <1>4. atail.st = "staged" => atail.by = "authority_initialized"
    BY <1>3 DEF SlotsFor, Kinds
  <1>5. ~FitsExactly(atail, "authority_initialized")
    BY <1>1, <1>3 DEF FitsExactly, SlotOf
  <1>6. atail.st = "torn"
    BY <1>3, <1>4, <1>5, Unfit
  <1> QED BY <1>1, <1>6, TornExcuses, ExcusedStays

\* Every step of a reconciliation that refuses has a reason, which stays.
LEMMA RefusedNext ==
  ASSUME Inv, Concerned, Climbing, Documented, Recorded, RefusedForEvidence, [Next]_vars
  PROVE  RefusedForEvidence'
PROOF
  <1> SUFFICES ASSUME goal' = "reconcile", result' = "refused"
               PROVE  Excused'
    BY DEF RefusedForEvidence, Excused
  <1>1. CASE pc = "free"
    <2>1. CASE UNCHANGED vars \/ OtherPrograms
      <3>1. UNCHANGED <<goal, result>> /\ UNCHANGED Evidence
        BY <2>1 DEF vars, run, OtherPrograms, Evidence, journal, material, authority, log
      <3>2. Excused
        BY <3>1 DEF RefusedForEvidence, Excused
      <3> QED BY <3>1, <3>2, ExcusedStays
    <2>2. CASE \E command \in Commands : Begin(command)
      <3>1. format # "final" /\ UNCHANGED Evidence
        BY <2>2 DEF Begin, Evidence, journal, material, authority, log
      <3>2. Excused
        BY <3>1 DEF Excused, Undocumented
      <3> QED BY <3>1, <3>2, ExcusedStays
    <2> QED BY <1>1, <2>1, <2>2, FromFree
  <1>2. CASE pc # "free"
    <2>1. result # "refused"
      BY <1>2 DEF Concerned
    <2>2. ~(\E command \in Commands : Begin(command)) /\ ~UNCHANGED vars /\ ~OtherPrograms /\ ~Stop
      BY <1>2, <2>1 DEF Begin, vars, run, OtherPrograms, Stop, Finish
    <2>3. goal = "reconcile"
      BY <2>2, EstablishShape, AppendShape
      DEF Next, Fresh, MarkFormat, RequireAbsent, MakeJournal, CreateStaged, Finalize, Resume,
          ValidateJournal, Judge, Conclude, LogOutcome, Archive, Continue, Goto, Finish
    <2>4. ~Fresh /\ ~Archive
      <3>1. pc \notin {"mark", "absent"}
        BY <2>3 DEF Concerned
      <3> QED BY <2>1, <3>1 DEF Fresh, MarkFormat, RequireAbsent, MakeJournal, CreateStaged,
                                Finalize, Archive, Continue, Goto, Finish
    <2>5. \A phase \in Phases : ~AppendGeneration(phase)
      BY <2>1, <2>3, AppendRefuses
    <2> QED BY <2>1, <2>2, <2>3, <2>4, <2>5, ValidateRefuses, JudgeRefuses, IntentRefuses,
               RootRefuses, LogRefuses DEF Next, Resume, Establish, Conclude
  <1> QED BY <1>1, <1>2

-----------------------------------------------------------------------------
(* The theorems about journal, record and outcome.                          *)

\* All that is true of a directory between any two steps of any commands: how
\* far the journal is and what it documents, what is on record of it, and so
\* what loading shows and what a refusal is for.
Deep ==
  /\ Inv /\ Concerned /\ Climbing /\ Documented /\ Recorded
  /\ LoadedIsInitialized /\ RefusedForEvidence

\* It is true of an untouched directory, and every step of initialization,
\* reconciliation, abandonment and load keeps it, as do errors, crashes and
\* other programs.
THEOREM DeepAlways == Spec => []Deep
PROOF
  <1>1. Init => Deep
    <2>1. Init => goal = "none"
      BY DEF Init
    <2> QED BY <2>1, InitInv, ConcernedInit, DeepInit
            DEF Deep, LoadedIsInitialized, RefusedForEvidence
  <1>2. Deep /\ [Next]_vars => Deep'
    <2> SUFFICES ASSUME Deep, [Next]_vars
                 PROVE  Deep'
      OBVIOUS
    <2>1. Inv' /\ Concerned'
      BY NextInv, ConcernedNext DEF Deep
    <2>2. Climbing' /\ Documented'
      BY ClimbingNext, DocumentedNext DEF Deep
    <2>3. Recorded'
      BY RecordedNext DEF Deep
    <2>4. LoadedIsInitialized' /\ RefusedForEvidence'
      BY LoadedNext, RefusedNext DEF Deep
    <2> QED BY <2>1, <2>2, <2>3, <2>4 DEF Deep
  <1> QED BY <1>1, <1>2, PTL DEF Spec

\* An operation is archived when its outcome is on record, once, and it is on
\* record only when the journal has it.
THEOREM OutcomeLoggedOnce == Spec => []LoggedOnce
PROOF
  <1>1. Deep => LoggedOnce
    BY DEF Deep, Recorded, LoggedOnce
  <1> QED BY <1>1, DeepAlways, PTL

\* What loads for serving is initialized to the end: the journal is that of a
\* whole successful run and archived, its outcome is logged once, and the four
\* published files name the one root signed by a key of ours.
THEOREM OnlyInitializedLoads == Spec => []LoadedIsInitialized
PROOF
  <1>1. Deep => LoadedIsInitialized
    BY DEF Deep
  <1> QED BY <1>1, DeepAlways, PTL

\* A reconciliation is refused only for an undocumented success, a file that
\* was cut short, or a journal that ends with the success.
THEOREM ReconcilesUnlessEvidence == Spec => []RefusedForEvidence
PROOF
  <1>1. Deep => RefusedForEvidence
    BY DEF Deep
  <1> QED BY <1>1, DeepAlways, PTL

-----------------------------------------------------------------------------
(* The refinement of RootCeremony.                                          *)

\* A step that leaves everything the ceremony is about alone.
Aside == UNCHANGED <<gens, intent, auth, audit, signed, goal, result>>

\* Such a step is none of the ceremony.
LEMMA AsideStutters ==
  ASSUME Aside
  PROVE  UNCHANGED Ceremony!cerVars
PROOF
  BY DEF Aside, Ceremony!cerVars, Outcome, Has

\* A command that does not load, or does not end well, serves nothing.
LEMMA ServesNothing ==
  ASSUME UNCHANGED <<gens, intent, auth, audit, signed>>,
         ~(goal' = "load" /\ result' = "ok")
  PROVE  [Ceremony!RNext]_(Ceremony!cerVars)
PROOF
  <1>1. Ceremony!Leave
    BY DEF Ceremony!Leave, Outcome, Has
  <1> QED BY <1>1 DEF Ceremony!RNext

\* Between commands that load, nobody is served.
LEMMA Unserved ==
  ASSUME Deep, pc # "free"
  PROVE  ~(goal = "load" /\ result = "ok")
PROOF
  BY DEF Deep, Concerned

\* While the signing intent, or the authority, is not published and the key is
\* ours, the ceremony is open.
LEMMA StillOpen ==
  ASSUME Inv, key = "ours", intent.st # "final" \/ root.st # "final" \/ auth.st # "final"
  PROVE  Outcome = "open"
PROOF
  <1>1. ~Has("completed")
    BY FactOrder DEF Inv, JournalTellsTruth, Fact, Published, Rooted, Signing
  <1>2. ~Has("abandoned")
    BY FactOrder DEF Inv, JournalTellsTruth, Fact, Abandoned
  <1> QED BY <1>1, <1>2 DEF Outcome

\* A generation more ends the ceremony if it says so: the completion when the
\* authority is published, the abandonment when nothing was drawn.
LEMMA GenerationConcludes ==
  ASSUME Deep, NEW phase \in Phases, Fact(phase), gens' = Append(gens, phase),
         UNCHANGED <<intent, auth, audit, signed, goal>>,
         pc # "free", ~(goal' = "load" /\ result' = "ok")
  PROVE  [Ceremony!RNext]_(Ceremony!cerVars)
PROOF
  <1>1. /\ \A x : Has(x) => Has(x)'
        /\ \A x : Has(x)' => Has(x) \/ x = phase
        /\ Has(phase)'
    BY JournalGrows DEF Deep
  <1>2. ~(goal = "load" /\ result = "ok")
    BY Unserved
  <1>3. CASE Outcome' = Outcome
    BY <1>2, <1>3 DEF Ceremony!cerVars
  <1>4. CASE Outcome' # Outcome /\ phase = "completed"
    <2>1. auth.st = "final" /\ key = "ours"
      BY <1>4 DEF Fact, Owned, Signing, Rooted, Published
    <2>2. ~Has("abandoned")
      BY <2>1, FactOrder DEF Deep, Inv, JournalTellsTruth, Fact, Abandoned
    <2>3. Outcome = "open" /\ Outcome' = "authority_initialized"
      BY <1>1, <1>4, <2>2 DEF Outcome
    <2>4. auth.by # Nobody
      BY <2>1, NobodyIsNobody, RootSlots DEF Deep, Inv, TypeOK, SlotsFor
    <2>5. Ceremony!Conclude
      BY <1>2, <2>1, <2>3, <2>4 DEF Ceremony!Conclude
    <2> QED BY <2>5 DEF Ceremony!RNext
  <1>5. CASE Outcome' # Outcome /\ phase = "abandoned"
    <2>1. key # "ours"
      BY <1>5 DEF Fact, Abandoned
    <2>2. ~Has("completed") /\ ~Has("key_validated")
      BY <2>1, FactOrder DEF Deep, Inv, JournalTellsTruth, Fact, Owned, Signing, Rooted,
                             Published
    <2>3. intent.st # "final"
      BY <2>2 DEF Deep, Climbing
    <2>4. Outcome = "open" /\ Outcome' = "init_abandoned"
      BY <1>1, <1>5, <2>2 DEF Outcome
    <2>5. Ceremony!Conclude
      BY <1>2, <2>3, <2>4 DEF Ceremony!Conclude
    <2> QED BY <2>5 DEF Ceremony!RNext
  <1>6. CASE phase \notin {"completed", "abandoned"}
    <2>1. Outcome' = Outcome
      BY <1>1, <1>6 DEF Outcome
    <2> QED BY <1>3, <2>1
  <1> QED BY <1>3, <1>4, <1>5, <1>6

\* The signing intent is drawn while the ceremony is open.
LEMMA IntentDraws ==
  ASSUME Deep, PublishIntent
  PROVE  [Ceremony!RNext]_(Ceremony!cerVars)
PROOF
  <1>1. /\ pc = "intent" /\ UNCHANGED <<gens, auth, audit, signed, goal>>
        /\ ~(goal' = "load" /\ result' = "ok") /\ ~(goal = "load" /\ result = "ok")
    BY Unserved DEF PublishIntent, Continue, Goto, Finish, Deep, Concerned, journal, authority, log
  <1>2. Outcome' = Outcome
    BY <1>1 DEF Outcome, Has
  <1>3. CASE (intent.st = "final" /\ intent' = intent) \/ (intent.st # "final" /\ intent'.st # "final")
    BY <1>1, <1>2, <1>3 DEF Ceremony!cerVars
  <1>4. CASE intent.st # "final" /\ intent'.st = "final"
    <2>1. PICK p \in Wanted(intent, Params) : \E try \in Tries(intent, p) : intent' = try.to
      BY <1>4 DEF PublishIntent
    <2>2. p \in Params /\ intent.st \in FileStates
      BY <2>1 DEF Wanted, Deep, Inv, TypeOK, SlotsFor
    <2>3. intent'.by = p
      <3>1. PICK try \in Tries(intent, p) : intent' = try.to
        BY <2>1
      <3>2. p \in Params /\ intent.st \in FileStates /\ try \in Tries(intent, p)
        BY <2>2, <3>1
      <3>3. try.to \in SlotsFor(Params) /\ (try.to.st \in {"staged", "final"} => try.to.by = p)
        BY <3>2, TryShape
      <3> QED BY <1>4, <3>1, <3>3
    <2>4. key = "ours"
      BY <1>1 DEF Deep, Inv, Placed, Establishing, Fact, Owned
    <2>5. Outcome = "open"
      BY <1>4, <2>4, StillOpen DEF Deep
    <2>6. Ceremony!Draw(p)
      BY <1>1, <1>2, <1>4, <2>3, <2>5 DEF Ceremony!Draw
    <2> QED BY <2>2, <2>6 DEF Ceremony!RNext
  <1>5. intent.st = "final" => intent' = intent
    BY DEF PublishIntent
  <1> QED BY <1>3, <1>4, <1>5

\* The key signs what was drawn, before any root is published.
LEMMA RootSigns ==
  ASSUME Deep, SignRoot
  PROVE  [Ceremony!RNext]_(Ceremony!cerVars)
PROOF
  <1>1. /\ pc = "root" /\ UNCHANGED <<gens, intent, auth, audit, goal>>
        /\ ~(goal' = "load" /\ result' = "ok") /\ ~(goal = "load" /\ result = "ok")
    BY Unserved DEF SignRoot, Continue, Goto, Finish, Deep, Concerned, journal, authority, log
  <1>2. Outcome' = Outcome
    BY <1>1 DEF Outcome, Has
  <1>3. CASE signed' = signed
    BY <1>1, <1>2, <1>3 DEF Ceremony!cerVars
  <1>4. CASE signed' # signed
    <2>1. PICK r \in Wanted(root, Signable) :
            signed' = (IF root.st = "staged" THEN signed ELSE signed \cup {r})
      BY <1>4 DEF SignRoot
    <2>2. root.st # "final" /\ r \in Signable /\ signed' = signed \cup {r}
      BY <1>4, <2>1 DEF SignRoot, Wanted
    <2>3. key = "ours" /\ intent.st = "final" /\ intent.by \in Params
      BY <1>1 DEF Deep, Inv, Placed, Establishing, Fact, Owned, Signing, TypeOK, SlotsFor
    <2>4. r \in Ceremony!Certs /\ r.tbs = intent.by
      BY <2>2, <2>3 DEF Signable, Ceremony!Certs
    <2>5. auth.st # "final"
      BY <2>2 DEF Deep, Inv, OneRootPublished
    <2>6. Outcome = "open"
      BY <2>2, <2>3, StillOpen DEF Deep
    <2>7. Ceremony!Sign(r)
      BY <1>1, <1>2, <2>2, <2>3, <2>4, <2>5, <2>6 DEF Ceremony!Sign
    <2> QED BY <2>4, <2>7 DEF Ceremony!RNext
  <1> QED BY <1>3, <1>4

\* The authority that is published is of a root the key signed.
LEMMA AuthorityPublishes ==
  ASSUME Deep, PublishAuthority
  PROVE  [Ceremony!RNext]_(Ceremony!cerVars)
PROOF
  <1>1. /\ pc = "authority" /\ UNCHANGED <<gens, intent, audit, signed, goal>>
        /\ ~(goal' = "load" /\ result' = "ok") /\ ~(goal = "load" /\ result = "ok")
    BY Unserved DEF PublishAuthority, Continue, Goto, Finish, Deep, Concerned, journal, material, log
  <1>2. Outcome' = Outcome
    BY <1>1 DEF Outcome, Has
  <1>3. pub.st = "final" /\ pub.by \in signed /\ pub.by \in Roots /\ key = "ours"
    <2>1. Fact("root_validated")
      BY <1>1 DEF Deep, Inv, Placed, Establishing
    <2>2. pub.st = "final" /\ root.st = "final" /\ key = "ours"
      BY <2>1 DEF Fact, Owned, Signing, Rooted
    <2> QED BY <2>2 DEF Deep, Inv, OneRootPublished, TypeOK
  <1>4. /\ auth.st = "final" => auth' = auth
        /\ auth'.st = "final" => auth' = auth \/ auth'.by = pub.by
    <2>1. CASE auth' = auth
      BY <2>1
    <2>2. CASE auth' # auth
      <3>1. PICK try \in Tries(auth, pub.by) : auth' = try.to
        BY <2>2 DEF PublishAuthority
      <3>2. Fits(auth, pub.by)
        BY <2>2 DEF PublishAuthority
      <3>3. auth.st \in FileStates /\ auth.st # "final"
        BY <3>2 DEF Fits, SlotOf, Deep, Inv, TypeOK, Slot
      <3>4. try.to.st \in {"staged", "final"} => try.to.by = pub.by
        BY <1>3, <3>3, TryShape
      <3> QED BY <3>1, <3>3, <3>4
    <2> QED BY <2>1, <2>2
  <1>5. CASE auth' = auth \/ (auth.st # "final" /\ auth'.st # "final")
    BY <1>1, <1>2, <1>5 DEF Ceremony!cerVars
  <1>6. CASE auth.st # "final" /\ auth'.st = "final"
    <2>1. auth'.by = pub.by
      BY <1>4, <1>6
    <2>2. Outcome = "open"
      BY <1>3, <1>6, StillOpen DEF Deep
    <2>3. Ceremony!Publish(pub.by)
      BY <1>1, <1>2, <1>3, <1>6, <2>1, <2>2 DEF Ceremony!Publish
    <2>4. pub.by \in Ceremony!Certs
      BY <1>3 DEF Roots, Ceremony!Certs
    <2> QED BY <2>3, <2>4 DEF Ceremony!RNext
  <1> QED BY <1>4, <1>5, <1>6

\* The outcome goes on record once the journal has it.
LEMMA OutcomeRecorded ==
  ASSUME Deep, LogOutcome
  PROVE  [Ceremony!RNext]_(Ceremony!cerVars)
PROOF
  <1>1. /\ pc = "audit" /\ UNCHANGED <<gens, intent, auth, signed, goal>>
        /\ ~(goal' = "load" /\ result' = "ok") /\ ~(goal = "load" /\ result = "ok")
    BY Unserved DEF LogOutcome, Continue, Goto, Finish, Deep, Concerned, journal, material, authority
  <1>2. Outcome' = Outcome
    BY <1>1 DEF Outcome, Has
  <1>3. CASE audit' = audit
    BY <1>1, <1>2, <1>3 DEF Ceremony!cerVars
  <1>4. CASE audit' # audit
    <2>1. ~Logged /\ audit' = Append(audit, Kind)
      BY <1>4 DEF LogOutcome, log
    <2>2. IF goal = "abandon" THEN Has("abandoned") /\ audit = <<>> ELSE Has("completed")
      BY <1>1, CompletedAtAudit DEF Deep, Recorded
    <2>3. Outcome = Kind
      <3>1. ~(Has("completed") /\ Has("abandoned"))
        BY NotBoth DEF Deep
      <3> QED BY <2>2, <3>1 DEF Outcome, Kind
    <2>4. audit = <<>>
      <3>1. audit \in {<<>>, <<"authority_initialized">>} \/ Has("abandoned")
        BY DEF Deep, Recorded
      <3>2. audit = <<"authority_initialized">> =>
              1 \in DOMAIN audit /\ audit[1] = "authority_initialized"
        OBVIOUS
      <3>3. ~(Has("completed") /\ Has("abandoned"))
        BY NotBoth DEF Deep
      <3> QED BY <2>1, <2>2, <3>1, <3>2, <3>3 DEF Logged, Kind
    <2>5. Ceremony!Record
      <3>1. audit' = <<Outcome>> /\ Outcome # "open"
        BY <2>1, <2>3, <2>4 DEF Kind
      <3> QED BY <1>1, <1>2, <2>4, <3>1 DEF Ceremony!Record
    <2> QED BY <2>5 DEF Ceremony!RNext
  <1> QED BY <1>3, <1>4

\* What loads is served.
LEMMA JudgeServes ==
  ASSUME Deep, Judge
  PROVE  [Ceremony!RNext]_(Ceremony!cerVars)
PROOF
  <1>1. UNCHANGED <<gens, intent, auth, audit, signed, goal>> /\ pc = "judge"
    BY DEF Judge, Goto, Finish, journal, material, authority, log
  <1>2. CASE ~(goal' = "load" /\ result' = "ok")
    BY <1>1, <1>2, ServesNothing
  <1>3. CASE goal' = "load" /\ result' = "ok"
    <2>1. goal = "load" /\ LoadAllowed
      <3>1. result # "ok"
        BY <1>1 DEF Deep, Concerned
      <3> QED BY <1>1, <1>3, <3>1 DEF Judge, Goto, Finish
    <2>2. Initialized /\ auth.st = "final"
      BY <1>1, <2>1, LoadsInitialized DEF Deep, Concerned, Loadable
    <2>3. Ceremony!Serve
      BY <1>1, <1>3, <2>2 DEF Ceremony!Serve, Initialized, Outcome, Has
    <2> QED BY <2>3 DEF Ceremony!RNext
  <1> QED BY <1>2, <1>3

\* Whatever commands run, break off and are taken up again: initialization is
\* one ceremony.  Nothing is drawn, signed or published once it has ended, it
\* is abandoned only before anything was drawn, its end is logged once, and
\* what loads is its root.
THEOREM OneCeremony == Spec => ImplementsCeremony
PROOF
  <1>1. Init => Ceremony!RInit
    BY DEF Init, Ceremony!RInit, Outcome, Has, NoSlot
  <1>2. Deep /\ [Next]_vars => [Ceremony!RNext]_(Ceremony!cerVars)
    <2> SUFFICES ASSUME Deep, [Next]_vars
                 PROVE  [Ceremony!RNext]_(Ceremony!cerVars)
      OBVIOUS
    <2>1. CASE UNCHANGED vars \/ OtherPrograms
      <3>1. Aside
        BY <2>1 DEF vars, run, journal, material, authority, log, OtherPrograms, Aside
      <3> QED BY <3>1, AsideStutters
    <2>2. CASE Stop \/ \E command \in Commands : Begin(command)
      BY <2>2, ServesNothing DEF Stop, Finish, Begin, journal, material, authority, log
    <2>3. CASE Fresh \/ Archive
      <3>1. /\ UNCHANGED <<gens, intent, auth, audit, signed, goal>>
            /\ pc \in {"mark", "absent", "mkdir", "create", "finalize", "archive"}
        BY <2>3 DEF Fresh, MarkFormat, RequireAbsent, MakeJournal, CreateStaged, Finalize,
                    Archive, Continue, Goto, Finish, journal, material, authority, log
      <3>2. goal # "load"
        BY <3>1 DEF Deep, Concerned, RungNames
      <3> QED BY <3>1, <3>2, ServesNothing
    <2>4. CASE ValidateJournal
      <3>1. /\ UNCHANGED <<intent, auth, audit, signed, goal>> /\ pc = "journal"
            /\ result' # "ok"
        BY <2>4 DEF ValidateJournal, Goto, Finish, material, authority, log, Deep, Concerned
      <3>2. CASE gens' = gens
        BY <3>1, <3>2, ServesNothing
      <3>3. CASE gens' # gens
        <4>1. gtail.st = "staged" /\ gens' = Append(gens, gtail.by)
          BY <2>4, <3>3 DEF ValidateJournal
        <4>2. gtail.by \in Phases
          BY <4>1 DEF Deep, Inv, TypeOK, SlotsFor
        <4>3. Fact(gtail.by)
          BY <4>2 DEF Deep, Inv, Placed, Vouched
        <4> QED BY <3>1, <4>1, <4>2, <4>3, GenerationConcludes
      <3> QED BY <3>2, <3>3
    <2>5. CASE Judge
      BY <2>5, JudgeServes
    <2>6. CASE PublishIntent \/ SignRoot \/ PublishAuthority
      BY <2>6, IntentDraws, RootSigns, AuthorityPublishes
    <2>7. CASE PublishPublication \/ PublishRootDer
      <3>1. UNCHANGED <<gens, intent, auth, audit, signed, goal>> /\ pc # "free"
            /\ result' \in {result, "refused", "broken"}
        BY <2>7 DEF PublishPublication, PublishRootDer, Continue, Goto, Finish, journal,
                    material, authority, log
      <3>2. result # "ok"
        BY <3>1 DEF Deep, Concerned
      <3> QED BY <3>1, <3>2, ServesNothing
    <2>8. CASE LogOutcome
      BY <2>8, OutcomeRecorded
    <2>9. ASSUME NEW phase \in Phases, AppendGeneration(phase)
          PROVE  [Ceremony!RNext]_(Ceremony!cerVars)
      <3>1. /\ pc = phase /\ UNCHANGED <<intent, auth, audit, signed, goal>>
            /\ gens' = gens \/ gens' = Append(gens, phase)
            /\ result' \in {result, "broken", "refused"}
        BY <2>9, AppendShape DEF Deep, material, authority, log
      <3>2. pc # "free"
        BY <3>1, RungDomain DEF RungNames, Abandoned
      <3>3. result' # "ok"
        BY <3>1, <3>2 DEF Deep, Concerned
      <3>4. Fact(phase)
        BY <3>1 DEF Deep, Inv, Placed, Vouched
      <3> QED BY <3>1, <3>2, <3>3, <3>4, GenerationConcludes, ServesNothing
    <2> QED BY <2>1, <2>2, <2>3, <2>4, <2>5, <2>6, <2>7, <2>8, <2>9
            DEF Next, Resume, Establish, Conclude
  <1> QED BY <1>1, <1>2, DeepAlways, PTL DEF Spec, ImplementsCeremony, Ceremony!RSpec
=============================================================================
