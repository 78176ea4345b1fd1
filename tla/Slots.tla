-------------------------------- MODULE Slots --------------------------------
(***************************************************************************)
(* A durable file of the authority, as far as the code can tell its states *)
(* apart: it is absent; or it has only a staging file `.name.pending' that *)
(* is empty, cut short (torn) or complete (staged); or it has its final    *)
(* name.  Bytes are abstracted to the transaction they belong to, because  *)
(* the code only ever asks whether a file holds exactly the bytes of the   *)
(* transaction at hand.                                                    *)
(***************************************************************************)
CONSTANTS
  Ids,          \* transactions: the issuances of the authority
  Nobody,       \* the owner of a file whose bytes are nobody's
  Leftovers     \* the states a failed publication may leave a new file in

ASSUME LeftoversAssumption ==
  Leftovers \subseteq {"absent", "empty", "torn", "staged", "final"}

FileStates == {"absent", "empty", "torn", "staged", "final"}
Pending    == {"empty", "torn", "staged"}

\* A file that several transactions may want to write: its state and, when
\* its bytes are complete, whose they are.
Owners == Ids \cup {Nobody}
Slot   == {x \in [st : FileStates, by : Owners] :
             IF x.st \in {"staged", "final"} THEN x.by \in Ids ELSE x.by = Nobody}
NoSlot == [st |-> "absent", by |-> Nobody]

\* Variant: a file that was cut short counts as its writer's.
TornSlotOf(st, who) == [st |-> st, by |-> IF st = "absent" THEN Nobody ELSE who]

SlotOf(st, who) ==
  [st |-> st, by |-> IF st \in {"staged", "final"} THEN who ELSE Nobody]

\* What a failed durable_bytes can leave where it found `st': nothing new, or
\* a staging file as far as it got, or the final name when only the checks
\* after the rename failed.  A complete staging file is never shortened.
Residues(st) ==
  {st} \cup (IF st = "staged" THEN Leftovers \cap {"final"} ELSE Leftovers)

\* durable_bytes may write `who's bytes: no final file, and a staging file
\* only if it is empty (it is replaced) or holds exactly these bytes.
Fits(slot, who) ==
  slot.st \in {"absent", "empty"} \/ slot = SlotOf("staged", who)

\* publish_exact_or_validate also accepts a final file with these bytes.
FitsExactly(slot, who) == Fits(slot, who) \/ slot = SlotOf("final", who)
==============================================================================
