------------------------------ MODULE BootSlots ------------------------------
(***************************************************************************)
(* The two BootState slots on a block device with a volatile write cache,  *)
(* and the older-slot-first commit that boot_selector.rs (commit_state)    *)
(* and sel4-generation-manager (StateSlots::commit) both perform: write    *)
(* the slot that is not selected, flush, read both slots back and require  *)
(* the new record to be the one a boot would select.                       *)
(*                                                                         *)
(* A completed write is visible to reads at once and durable only after a  *)
(* flush.  A power cut leaves each unflushed slot with its old bytes, its  *)
(* new bytes, or a mixture that decode refuses; so does a failed request,  *)
(* whose bytes may or may not have reached the medium.                     *)
(***************************************************************************)
EXTENDS BootState

VARIABLES
    media,      \* slot -> what the medium holds
    cache       \* slot -> a completed unflushed write, or None

device == <<media, cache>>

\* read_sector returns the newest completed write.
View(slot) == IF cache[slot] = None THEN media[slot] ELSE cache[slot]

SlotsSelectable == Selectable(View("A"), View("B"))

LiveSlot == SelectedSlot(View("A"), View("B"))

LiveState == SelectedState(View("A"), View("B"))

\* The record on the medium: None while no boot could select one.
DurableRecord ==
    IF Selectable(media["A"], media["B"])
    THEN SelectedState(media["A"], media["B"])
    ELSE None

\* What a boot that starts now, after a power cut now, could find.
Survives(slot) ==
    IF cache[slot] = None THEN {media[slot]} ELSE {media[slot], cache[slot], Damaged}

DeviceTypeOK ==
    /\ media \in [Slot -> Encoded \cup {Damaged}]
    /\ cache \in [Slot -> Encoded \cup {Damaged, None}]

WriteSlot(slot, state) ==
    /\ cache' = [cache EXCEPT ![slot] = Encode(state)]
    /\ UNCHANGED media

\* write_sector reported an error or timed out.
WriteSlotFails(slot, state) ==
    /\ \E bytes \in {View(slot), Encode(state), Damaged} :
           cache' = [cache EXCEPT ![slot] = bytes]
    /\ UNCHANGED media

Flush ==
    /\ media' = [slot \in Slot |-> View(slot)]
    /\ cache' = [slot \in Slot |-> None]

\* flush reported an error: the cache keeps what it had.
FlushFails == UNCHANGED device

\* The re-read after a commit of state to slot.
Committed(slot, state) ==
    /\ SlotsSelectable
    /\ LiveSlot = slot
    /\ LiveState = state

PowerCut ==
    /\ \E a \in Survives("A"), b \in Survives("B") :
           media' = [slot \in Slot |-> IF slot = "A" THEN a ELSE b]
    /\ cache' = [slot \in Slot |-> None]
=============================================================================
