--------------------------- MODULE BootSlotsProofs ---------------------------
(***************************************************************************)
(* Lemmas about the BootState record and the rule that selects one of two  *)
(* slots, shared by the proofs about the boot selector and the generation  *)
(* manager.  An anchor is a slot that holds a record; a slot is stale if   *)
(* it is undecodable or older; a commit is one sequence newer.             *)
(***************************************************************************)
EXTENDS BootSlots, TLAPS

-----------------------------------------------------------------------------
(* The record and the selection rule. *)

\* Encoding a record whose pending digest is not zero loses nothing, and decode
\* accepts it exactly when validate does.
LEMMA EncodeDecode ==
    ASSUME NEW s \in State, s.pending # Zero, Damaged \notin Encoded, BootStateAssumption
    PROVE  /\ Encode(s) \in Encoded
           /\ Encode(s) # Damaged
           /\ Unpacked(Encode(s)) = s
           /\ Decodable(Encode(s)) <=> Valid(s)
  <1>1. Encode(s) \in Encoded
    BY DEF Encode, Encoded, State, BootStateAssumption
  <1>2. Encode(s) # Damaged
    BY <1>1
  <1>3. Unpacked(Encode(s)) = s
    BY DEF Encode, Unpacked, State, BootStateAssumption
  <1> QED BY <1>1, <1>2, <1>3 DEF Decodable

\* Decoding yields a record whose pending digest is not zero.
LEMMA DecodeType ==
    ASSUME NEW b \in Encoded, BootStateAssumption
    PROVE  Unpacked(b) \in State /\ Unpacked(b).pending # Zero
  BY DEF Unpacked, Encoded, State, BootStateAssumption

\* Two decodable slots never carry the same sequence.
Distinct(a, b) == Decodable(a) /\ Decodable(b) => Decode(a).sequence # Decode(b).sequence

\* Slot contents a boot on the record st would not select.
Stale(b, st) == Decodable(b) => Decode(b).sequence < st.sequence

Holds(b, st) == Decodable(b) /\ Decode(b) = st

\* The contents of slot, in a pair with x in s and y in the other slot.
Placed(s, slot, x, y) == IF slot = s THEN x ELSE y

\* select_bootstate over an anchor x in slot s and a stale y returns the anchor.
LEMMA SelectAnchor ==
    ASSUME NEW s \in Slot, NEW x, NEW st \in State, Holds(x, st),
           NEW y \in Encoded \cup {Damaged}, Stale(y, st), BootStateAssumption
    PROVE  LET a == Placed(s, "A", x, y)
               b == Placed(s, "B", x, y)
           IN /\ Distinct(a, b) /\ Selectable(a, b)
              /\ SelectedSlot(a, b) = s
              /\ SelectedState(a, b) = st
  <1>1. st.sequence \in Nat
    BY DEF State
  <1>2. y \in Encoded /\ Decodable(y) => Decode(y).sequence \in Nat
    BY DecodeType DEF State, Decode
  <1>3. Decodable(y) => y \in Encoded
    BY DEF Decodable
  <1>4. CASE s = "A"
    BY <1>1, <1>2, <1>3, <1>4
       DEF Placed, Holds, Stale, Distinct, Selectable, Conflicting, SelectedSlot, SelectedState
  <1>5. CASE s = "B"
    BY <1>1, <1>2, <1>3, <1>5
       DEF Placed, Holds, Stale, Distinct, Selectable, Conflicting, SelectedSlot, SelectedState
  <1> QED BY <1>4, <1>5 DEF Slot

\* ... and over an anchor x and a newer record ct in the other slot, ct.
LEMMA SelectCommit ==
    ASSUME NEW s \in Slot, NEW x, NEW st \in State, Holds(x, st),
           NEW y, NEW ct \in State, Holds(y, ct), ct.sequence = st.sequence + 1
    PROVE  LET a == Placed(s, "A", x, y)
               b == Placed(s, "B", x, y)
           IN /\ Distinct(a, b) /\ Selectable(a, b)
              /\ SelectedSlot(a, b) = Other(s)
              /\ SelectedState(a, b) = ct
  <1>1. st.sequence \in Nat /\ ct.sequence \in Nat
    BY DEF State
  <1>2. CASE s = "A"
    BY <1>1, <1>2
       DEF Placed, Holds, Distinct, Selectable, Conflicting, SelectedSlot, SelectedState, Other
  <1>3. CASE s = "B"
    BY <1>1, <1>3
       DEF Placed, Holds, Distinct, Selectable, Conflicting, SelectedSlot, SelectedState, Other
  <1> QED BY <1>2, <1>3 DEF Slot

\* What select_bootstate returns from a selectable pair with distinct sequences
\* is an anchor, and the other slot is stale.
LEMMA SelectionIsAnchor ==
    ASSUME NEW a \in Encoded \cup {Damaged}, NEW b \in Encoded \cup {Damaged},
           Selectable(a, b), Distinct(a, b), BootStateAssumption
    PROVE  /\ SelectedSlot(a, b) \in Slot
           /\ SelectedState(a, b) \in State
           /\ SelectedState(a, b).pending # Zero
           /\ Valid(SelectedState(a, b))
           /\ LET s == SelectedSlot(a, b)
              IN /\ Holds(Placed("A", s, a, b), SelectedState(a, b))
                 /\ Stale(Placed("A", Other(s), a, b), SelectedState(a, b))
  <1>1. /\ Decodable(a) => a \in Encoded
        /\ Decodable(b) => b \in Encoded
    BY DEF Decodable
  <1>2. /\ Decodable(a) => Unpacked(a) \in State /\ Unpacked(a).pending # Zero
        /\ Decodable(b) => Unpacked(b) \in State /\ Unpacked(b).pending # Zero
    BY <1>1, DecodeType
  <1>3. /\ Decodable(a) => Decode(a).sequence \in Nat
        /\ Decodable(b) => Decode(b).sequence \in Nat
    BY <1>2 DEF State, Decode
  <1>4. Decodable(a) \/ Decodable(b)
    BY DEF Selectable
  <1>5. CASE SelectedSlot(a, b) = "A"
    <2>1. Decodable(a)
      BY <1>4, <1>5 DEF SelectedSlot
    <2> QED BY <1>2, <1>3, <1>5, <2>1
            DEF SelectedState, SelectedSlot, Decode, Decodable, Holds, Stale, Placed, Other, Slot, Distinct
  <1>6. CASE SelectedSlot(a, b) = "B"
    <2>1. Decodable(b)
      BY <1>4, <1>6 DEF SelectedSlot
    <2> QED BY <1>2, <1>3, <1>6, <2>1
            DEF SelectedState, SelectedSlot, Decode, Decodable, Holds, Stale, Placed, Other, Slot, Distinct
  <1> QED BY <1>5, <1>6 DEF SelectedSlot

\* Replacing one field by a value of its type stays within State.
LEMMA FieldTypes ==
    ASSUME NEW st \in State
    PROVE  /\ \A n \in Nat : [st EXCEPT !.sequence = n] \in State
           /\ \A n \in Nat : [st EXCEPT !.remaining_attempts = n] \in State
           /\ \A n \in Nat : [st EXCEPT !.accepted_release_sequence = n] \in State
           /\ \A p \in Identity \cup {None} : [st EXCEPT !.pending = p] \in State
           /\ \A i \in Identity : [st EXCEPT !.known_good = i] \in State
           /\ \A i \in Identity : [st EXCEPT !.generation_root = i] \in State
  BY DEF State, Attempts

\* The transitions stay within the type.
LEMMA TransitionTypes ==
    ASSUME NEW st \in State
    PROVE  /\ CanConsume(st) => ConsumePendingAttempt(st) \in State
           /\ RollbackPending(st) \in State
           /\ \A running \in Identity, release \in Nat :
                  PromotePending(st, running, release) \in State
           /\ \A identity \in Identity, root \in Identity, attempts \in Nat :
                  StagePending(st, identity, attempts, root) \in State
  <1> DEFINE next == [st EXCEPT !.sequence = st.sequence + 1]
             clear == [next EXCEPT !.pending = None]
  <1>1. st.sequence \in Nat /\ st.remaining_attempts \in Nat
    BY DEF State, Attempts
  <1>2. next \in State
    BY <1>1, FieldTypes
  <1>3. clear \in State
    BY <1>2, FieldTypes
  <1>4. CanConsume(st) => ConsumePendingAttempt(st) \in State
    <2>1. CanConsume(st) => st.remaining_attempts - 1 \in Nat
      BY <1>1 DEF CanConsume
    <2> QED BY <1>2, <2>1, FieldTypes DEF ConsumePendingAttempt
  <1>5. RollbackPending(st) \in State
    BY <1>3, FieldTypes DEF RollbackPending
  <1>6. ASSUME NEW running \in Identity, NEW release \in Nat
        PROVE  PromotePending(st, running, release) \in State
    <2>1. [next EXCEPT !.known_good = running] \in State
      BY <1>2, FieldTypes
    <2>2. [[next EXCEPT !.known_good = running] EXCEPT !.pending = None] \in State
      BY <2>1, FieldTypes
    <2>3. [[[next EXCEPT !.known_good = running] EXCEPT !.pending = None]
              EXCEPT !.remaining_attempts = 0] \in State
      BY <2>2, FieldTypes
    <2> QED BY <2>3, FieldTypes DEF PromotePending
  <1>7. ASSUME NEW identity \in Identity, NEW root \in Identity, NEW attempts \in Nat
        PROVE  StagePending(st, identity, attempts, root) \in State
    <2>1. [next EXCEPT !.pending = identity] \in State
      BY <1>2, FieldTypes
    <2>2. [[next EXCEPT !.pending = identity] EXCEPT !.remaining_attempts = attempts] \in State
      BY <2>1, FieldTypes
    <2> QED BY <2>2, FieldTypes DEF StagePending
  <1> QED BY <1>4, <1>5, <1>6, <1>7

-----------------------------------------------------------------------------
(* The device. *)

\* No write waits in the cache.
Clean == cache = [slot \in Slot |-> None]
=============================================================================
