----------------------- MODULE DurablePublishProofs -----------------------
(***************************************************************************)
(* What DurablePublish keeps at every step, for any number of              *)
(* transactions that write the same file.                                  *)
(***************************************************************************)
EXTENDS DurablePublish, TLAPS

Inv == TypeOK /\ Placed /\ NothingLeftStaged

\* What the constructors of a file's state give.
LEMMA SlotFacts ==
  ASSUME NEW w \in Ids
  PROVE  /\ NoSlot \in Slot /\ NoSlot.st = "absent"
         /\ \A st \in FileStates : SlotOf(st, w) \in Slot /\ SlotOf(st, w).st = st
         /\ SlotOf("staged", w).by = w /\ SlotOf("final", w).by = w
         /\ SlotOf("absent", w) = NoSlot
PROOF
  BY DEF NoSlot, Slot, SlotOf, Owners, FileStates

\* The file that is not there satisfies the invariant.
LEMMA InitInv == Init => Inv
PROOF
  <1> SUFFICES ASSUME Init PROVE Inv
    OBVIOUS
  <1>1. NoSlot \in Slot /\ NoSlot.st = "absent"
    BY DEF NoSlot, Slot, Owners, FileStates
  <1>2. TypeOK
    BY <1>1 DEF Init, TypeOK, Owners
  <1>3. Placed
    BY DEF Init, Placed
  <1> QED BY <1>2, <1>3 DEF Init, Inv, NothingLeftStaged

\* Every step keeps the invariant.
LEMMA NextInv == Inv /\ [Next]_vars => Inv'
PROOF
  <1> SUFFICES ASSUME Inv, [Next]_vars PROVE Inv'
    OBVIOUS
  <1> USE OwnerAssumption DEF Inv
  <1>1. ASSUME NEW w \in Ids, NEW k \in Kinds, Begin(w, k) PROVE Inv'
    BY <1>1 DEF Begin, Kinds, TypeOK, Placed, NothingLeftStaged, Owners
  <1>2. CASE AcceptFinal
    BY <1>2 DEF AcceptFinal, Succeed, Idle, TypeOK, Placed, NothingLeftStaged, Owners
  <1>3. CASE Check
    BY <1>3 DEF Check, Step, Free, TypeOK, Placed, NothingLeftStaged, Owners
  <1>4. CASE TakeStage
    <2>1. who \in Ids /\ name = Nobody
      BY <1>4 DEF TakeStage, Step, Placed
    <2> QED BY <1>4, <2>1, SlotFacts
            DEF TakeStage, Step, TypeOK, Placed, NothingLeftStaged, Owners
  <1>5. CASE Create
    <2>1. who \in Ids /\ name = Nobody /\ "empty" \in FileStates
      BY <1>5 DEF Create, Step, Placed, FileStates
    <2>2. stage' \in Slot /\ stage'.st # "final"
      BY <1>5, <2>1, SlotFacts DEF Create
    <2> QED BY <1>5, <2>1, <2>2
            DEF Create, Step, TypeOK, Placed, NothingLeftStaged, Owners
  <1>6. CASE Write
    <2>1. who \in Ids /\ name = Nobody /\ "staged" \in FileStates
      BY <1>6 DEF Write, Step, Placed, FileStates
    <2>2. stage' \in Slot /\ stage'.st # "final"
      BY <1>6, <2>1, SlotFacts DEF Write
    <2> QED BY <1>6, <2>1, <2>2
            DEF Write, Step, TypeOK, Placed, NothingLeftStaged, Owners
  <1>7. CASE Sync \/ Reopen
    BY <1>7 DEF Sync, Reopen, Step, TypeOK, Placed, NothingLeftStaged, Owners
  <1>8. CASE Rename
    <2>1. who \in Ids /\ stage.by = who /\ name = Nobody /\ told = {}
      BY <1>8, SlotFacts DEF Rename, Step, Placed, TypeOK
    <2> QED BY <1>8, <2>1, SlotFacts
            DEF Rename, Step, TypeOK, Placed, NothingLeftStaged, Owners
  <1>9. CASE Verify
    BY <1>9 DEF Verify, Step, TypeOK, Placed, NothingLeftStaged, Owners
  <1>10. CASE Flush
    BY <1>10 DEF Flush, Succeed, Idle, TypeOK, Placed, NothingLeftStaged, Owners
  <1>11. CASE Stop
    BY <1>11 DEF Stop, Idle, TypeOK, Placed, NothingLeftStaged, Owners
  <1>12. CASE CutShort
    <2>1. who \in Ids /\ name = Nobody /\ "torn" \in FileStates
      BY <1>12 DEF CutShort, Placed, FileStates
    <2>2. stage' \in Slot /\ stage'.st # "final"
      BY <1>12, <2>1, SlotFacts DEF CutShort
    <2> QED BY <1>12, <2>1, <2>2
            DEF CutShort, Idle, TypeOK, Placed, NothingLeftStaged, Owners
  <1>13. CASE UNCHANGED vars
    BY <1>13 DEF vars, TypeOK, Placed, NothingLeftStaged
  <1> QED BY <1>1, <1>2, <1>3, <1>4, <1>5, <1>6, <1>7, <1>8, <1>9, <1>10, <1>11,
          <1>12, <1>13 DEF Next

\* A staging file never survives the publication of its file, whatever
\* attempts failed before: nothing published blocks a later scan.
THEOREM NothingStagedLeft == Spec => []NothingLeftStaged
PROOF
  <1>1. Inv => NothingLeftStaged
    BY DEF Inv
  <1> QED BY <1>1, InitInv, NextInv, PTL DEF Spec

-----------------------------------------------------------------------------
(* The refinement.  What a step leaves must be among the residues that      *)
(* Publication knows, so every residue is allowed there.                    *)

\* A step that leaves the file and what was told alone is a stutter.
LEMMA Still ==
  UNCHANGED <<stage, name, told>> => UNCHANGED <<File, told>>
PROOF
  BY DEF File

\* A step that moves the file from one of its states to the next.
LEMMA Moves ==
  ASSUME Leftovers = FileStates, NEW w \in Ids,
         Fits(File, w), NEW st \in Residues(File.st), File' = SlotOf(st, w),
         UNCHANGED told
  PROVE  Abstract!PNext
PROOF
  BY DEF Abstract!PNext, Abstract!Advance, Abstract!Fits, Abstract!Residues,
         Abstract!SlotOf, Fits, Residues, SlotOf

\* A step that reports success.
LEMMA Tells ==
  ASSUME NEW w \in Ids, name = w, UNCHANGED <<stage, name>>, told' = told \cup {w}
  PROVE  Abstract!PNext
PROOF
  <1>1. File = SlotOf("final", w) /\ UNCHANGED File
    BY OwnerAssumption DEF File
  <1> QED BY <1>1 DEF Abstract!PNext, Abstract!Tell, Abstract!SlotOf, SlotOf

\* Every step is a step of Publication, or a stutter.
LEMMA StepRefines ==
  ASSUME Leftovers = FileStates, Inv, [Next]_vars
  PROVE  [Abstract!PNext]_<<File, told>>
PROOF
  <1> USE OwnerAssumption DEF Inv
  <1>1. CASE \/ \E w \in Ids, k \in Kinds : Begin(w, k)
             \/ Check \/ Sync \/ Reopen \/ Verify \/ Stop \/ UNCHANGED vars
    BY <1>1, Still DEF Begin, Check, Sync, Reopen, Verify, Stop, Step, vars
  <1>2. CASE AcceptFinal
    BY <1>2, Tells DEF AcceptFinal, Succeed, Placed
  <1>3. CASE Flush
    BY <1>3, Tells DEF Flush, Succeed, Placed
  <1>4. CASE TakeStage
    <2>1. who \in Ids /\ name = Nobody /\ File = stage /\ File' = stage'
      BY <1>4 DEF TakeStage, Step, Placed, File
    <2>2. CASE stage.st = "absent" \/ UNCHANGED stage
      BY <1>4, <2>1, <2>2 DEF TakeStage, TypeOK, Slot, NoSlot
    <2>3. CASE stage.st = "empty" /\ stage' = NoSlot
      <3>1. NoSlot = SlotOf("absent", who)
        BY DEF NoSlot, SlotOf
      <3>2. "absent" \in Residues(File.st) /\ Fits(File, who)
        BY <2>1, <2>3 DEF Residues, FileStates, Fits
      <3> QED BY <1>4, <2>1, <2>3, <3>1, <3>2, Moves DEF TakeStage
    <2> QED BY <1>4, <2>2, <2>3 DEF TakeStage, Replaceable
  <1>5. CASE Create
    <2>1. who \in Ids /\ File = NoSlot /\ File' = SlotOf("empty", who)
      BY <1>5 DEF Create, Step, Placed, File
    <2>2. "empty" \in Residues(File.st) /\ Fits(File, who)
      BY <2>1, SlotFacts DEF Residues, FileStates, Fits
    <2> QED BY <1>5, <2>1, <2>2, Moves DEF Create
  <1>6. CASE Write
    <2>1. who \in Ids /\ File = SlotOf("empty", who) /\ File' = SlotOf("staged", who)
      BY <1>6 DEF Write, Step, Placed, File
    <2>2. "staged" \in Residues(File.st) /\ Fits(File, who)
      BY <2>1, SlotFacts DEF Residues, FileStates, Fits
    <2> QED BY <1>6, <2>1, <2>2, Moves DEF Write
  <1>7. CASE CutShort
    <2>1. who \in Ids /\ File = SlotOf("empty", who) /\ File' = SlotOf("torn", who)
      BY <1>7 DEF CutShort, Placed, File
    <2>2. "torn" \in Residues(File.st) /\ Fits(File, who)
      BY <2>1, SlotFacts DEF Residues, FileStates, Fits
    <2> QED BY <1>7, <2>1, <2>2, Moves DEF CutShort
  <1>8. CASE Rename
    <2>1. who \in Ids /\ name = Nobody /\ stage = SlotOf("staged", who)
      BY <1>8 DEF Rename, Step, Placed
    <2>2. File = SlotOf("staged", who) /\ File' = SlotOf("final", who)
      BY <1>8, <2>1, SlotFacts DEF Rename, File
    <2>3. "final" \in Residues(File.st) /\ Fits(File, who)
      BY <2>2, SlotFacts DEF Residues, FileStates, Fits
    <2> QED BY <1>8, <2>1, <2>2, <2>3, Moves DEF Rename
  <1> QED BY <1>1, <1>2, <1>3, <1>4, <1>5, <1>6, <1>7, <1>8 DEF Next

\* The steps of durable_bytes are a publication, wherever they fail or die: no
\* published file is replaced, no staging file with other bytes is touched, and
\* success is reported only for bytes that keep the final name.
THEOREM PublicationRefined ==
  ASSUME Leftovers = FileStates
  PROVE  Spec => ImplementsPublication
PROOF
  <1>1. Init => Abstract!PInit
    BY DEF Init, Abstract!PInit, File, NoSlot, Abstract!NoSlot
  <1>2. Inv /\ [Next]_vars => [Abstract!PNext]_(Abstract!pubVars)
    BY StepRefines DEF Abstract!pubVars
  <1> QED BY <1>1, <1>2, InitInv, NextInv, PTL
          DEF Spec, ImplementsPublication, Abstract!PSpec
=============================================================================
