----------------------------- MODULE Publication -----------------------------
(***************************************************************************)
(* One durable file as its users see it: a publication writes only where   *)
(* its bytes fit, whatever it leaves behind is one of the residues of what *)
(* it found, and it reports success only once the final name holds its     *)
(* bytes.  CaIssuance takes a publication as one step of this kind.        *)
(***************************************************************************)
EXTENDS Slots

VARIABLES
  slot,      \* the state of the file
  told       \* the transactions that were told their bytes are published

pubVars == <<slot, told>>

PInit == slot = NoSlot /\ told = {}

\* An attempt gets somewhere, and may end there.
Advance(w) ==
  /\ Fits(slot, w)
  /\ \E st \in Residues(slot.st) : slot' = SlotOf(st, w)
  /\ UNCHANGED told

Tell(w) ==
  /\ slot = SlotOf("final", w)
  /\ told' = told \cup {w}
  /\ UNCHANGED slot

PNext == \E w \in Ids : Advance(w) \/ Tell(w)

PSpec == PInit /\ [][PNext]_pubVars
==============================================================================
