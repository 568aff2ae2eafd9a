------------------------------ MODULE BootState ------------------------------
(***************************************************************************)
(* The BootState record of boot-contracts/src/bootstate.rs: the durable    *)
(* root of the boot chain, its encoding into a slot, its transitions, and  *)
(* the rule that selects the live record from two redundant slots.         *)
(*                                                                         *)
(* A slot holds an encoded record or Damaged, which stands for any bytes   *)
(* that decode refuses (bad magic, version, header, flags, reserved bytes  *)
(* or checksum).  state_root is carried by every transition and read by    *)
(* none, so the record leaves it out.                                      *)
(***************************************************************************)
EXTENDS Integers

CONSTANTS
    Identity,       \* generation identities (SHA-256 digests)
    Zero,           \* the all-zero digest
    None,           \* Option::None
    Damaged,        \* slot bytes that decode refuses
    MaxSequence     \* stands for u64::MAX

ASSUME BootStateAssumption ==
    /\ MaxSequence \in Nat
    /\ Zero \in Identity
    /\ None \notin Identity

Attempts == Nat

\* The in-memory record (struct BootState).
State == [ sequence : Nat,
           known_good : Identity,
           pending : Identity \cup {None},
           remaining_attempts : Attempts,
           generation_root : Identity,
           accepted_release_sequence : Nat ]

\* An encoded slot: the pending field is 32 bytes, zero when there is none.
Encoded == [ sequence : Nat,
             known_good : Identity,
             pending : Identity,
             remaining_attempts : Attempts,
             generation_root : Identity,
             accepted_release_sequence : Nat ]

Slot == {"A", "B"}

\* Mutant: the commit overwrites the live slot.
OtherIsSame(slot) == slot

Other(slot) == IF slot = "A" THEN "B" ELSE "A"

Valid(s) ==
    /\ s.sequence # MaxSequence
    /\ s.known_good # Zero
    /\ s.generation_root # Zero
    /\ s.pending = None => s.remaining_attempts = 0

\* encode: a caller first establishes Valid(s), which encode refuses without.
Encode(s) == [s EXCEPT !.pending = IF s.pending = None THEN Zero ELSE s.pending]

Unpacked(b) == [b EXCEPT !.pending = IF b.pending = Zero THEN None ELSE b.pending]

Decodable(b) == b # Damaged /\ Valid(Unpacked(b))

Decode(b) == Unpacked(b)

-----------------------------------------------------------------------------
(* next_sequence refuses to produce u64::MAX, and to overflow past it. *)

HasNextSequence(n) == n + 1 < MaxSequence

CanStage(s, attempts) == attempts # 0 /\ HasNextSequence(s.sequence)

StagePending(s, identity, attempts, root) ==
    [s EXCEPT !.sequence = @ + 1,
              !.pending = identity,
              !.remaining_attempts = attempts,
              !.generation_root = root]

CanConsume(s) ==
    /\ s.pending # None
    /\ s.remaining_attempts # 0
    /\ HasNextSequence(s.sequence)

ConsumePendingAttempt(s) ==
    [s EXCEPT !.sequence = @ + 1, !.remaining_attempts = @ - 1]

CanPromote(s, running, release) ==
    /\ s.pending = running
    /\ release > s.accepted_release_sequence
    /\ HasNextSequence(s.sequence)

PromotePending(s, running, release) ==
    [s EXCEPT !.sequence = @ + 1,
              !.known_good = running,
              !.pending = None,
              !.remaining_attempts = 0,
              !.accepted_release_sequence = release]

\* rollback_pending of a record with nothing pending returns it unchanged.
CanRollback(s) == s.pending = None \/ HasNextSequence(s.sequence)

RollbackPending(s) ==
    IF s.pending = None
    THEN s
    ELSE [s EXCEPT !.sequence = @ + 1, !.pending = None, !.remaining_attempts = 0]

-----------------------------------------------------------------------------
(* select_bootstate over the contents a and b of the two slots. *)

Conflicting(a, b) ==
    /\ Decodable(a) /\ Decodable(b)
    /\ Decode(a).sequence = Decode(b).sequence
    /\ Decode(a) # Decode(b)

Selectable(a, b) == (Decodable(a) \/ Decodable(b)) /\ ~Conflicting(a, b)

SelectedSlot(a, b) ==
    IF Decodable(a) /\ (Decodable(b) => Decode(a).sequence >= Decode(b).sequence)
    THEN "A"
    ELSE "B"

SelectedState(a, b) == Decode(IF SelectedSlot(a, b) = "A" THEN a ELSE b)
=============================================================================
