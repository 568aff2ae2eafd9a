------------------------- MODULE BootSelectorRefines -------------------------
(***************************************************************************)
(* Proof that the boot selector implements BootRecord, the one atomic      *)
(* durable record, for every value of the constants.                       *)
(*                                                                         *)
(* The refinement mapping reads the record off the medium (DurableRecord). *)
(* IInv says that record is the anchor's or the commit's; Durable adds     *)
(* that it never goes back: the target slot is stale on the medium until a *)
(* flush or a power cut puts the whole commit there.                       *)
(***************************************************************************)
EXTENDS BootSelectorProofs

\* The slot a boot of boot.selected commits to.
Target == Other(boot.selected.slot)

Durable ==
    boot # NoBoot =>
        /\ \/ Stale(media[Target], boot.selected.state)
           \/ Clean /\ commit # NoCommit /\ Holds(media[Target], commit.state)
        /\ phase = "write" => Stale(media[Target], boot.selected.state)
        /\ phase = "flush" => Holds(View(Target), commit.state)

\* What select reads at power-on leaves the slot it did not choose stale.
LEMMA PowerOnDurable ==
    ASSUME IInv, PowerOn, boot' # NoBoot, BootStateAssumption, SelectorAssumption
    PROVE  Durable'
  <1> DEFINE a == media["A"]
             b == media["B"]
  <1>1. /\ boot = NoBoot /\ Clean /\ Distinct(a, b) /\ Selectable(a, b)
        /\ UNCHANGED media
    BY DEF PowerOn, device, IInv, PhaseOK, Idle
  <1>2. a \in Encoded \cup {Damaged} /\ b \in Encoded \cup {Damaged}
    BY DEF IInv, TypeOK, DeviceTypeOK, Slot
  <1>3. LiveSlot = SelectedSlot(a, b) /\ LiveState = SelectedState(a, b)
    BY <1>1 DEF LiveSlot, LiveState, View, Clean, Slot
  <1>4. boot'.selected.slot = LiveSlot /\ boot'.selected.state = LiveState
    BY <1>1 DEF PowerOn
  <1>5. Stale(media[Other(LiveSlot)], LiveState)
    BY <1>1, <1>2, <1>3, SelectionIsAnchor DEF Placed, Slot, Other
  <1>6. phase' # "flush"
    BY DEF PowerOn, BeginCommit
  <1> QED BY <1>1, <1>4, <1>5, <1>6 DEF Durable, Target

\* A boot that is not committing has a stale target.
LEMMA StaleWithoutCommit ==
    ASSUME IInv, boot # NoBoot, commit = NoCommit
    PROVE  Stale(media[Target], boot.selected.state)
  <1>1. media[Target] \in Survives(Target)
    BY DEF Survives
  <1> QED BY <1>1 DEF IInv, Anchored, Target

\* Durable is preserved by every step.
LEMMA DurableStep ==
    ASSUME IInv, IInv', Durable, [Next]_vars, BootStateAssumption, SelectorAssumption
    PROVE  Durable'
  <1>1. CASE PowerOn
    BY <1>1, PowerOnDurable DEF Durable
  <1>2. CASE VerifyClosure \/ ServeRequest \/ ReportUnhealthy
    <2>1. /\ UNCHANGED <<media, cache, boot>> /\ boot # NoBoot /\ commit = NoCommit
          /\ phase' # "flush"
      BY <1>2 DEF VerifyClosure, ServeRequest, ReportUnhealthy, HealthCheck, BeginCommit,
                  device, IInv, PhaseOK
    <2>2. Stale(media[Target], boot.selected.state)
      BY <2>1, StaleWithoutCommit
    <2> QED BY <2>1, <2>2 DEF Durable, Target
  <1>3. CASE WriteCommit
    <2>1. /\ phase = "write" /\ phase' = "flush" /\ commit # NoCommit
          /\ UNCHANGED <<media, boot, commit>>
          /\ cache' = [cache EXCEPT ![commit.target] = Encode(commit.state)]
      BY <1>3 DEF WriteCommit, WriteSlot, IInv, PhaseOK
    <2>2. /\ boot # NoBoot /\ commit.target = Target /\ Target \in Slot
          /\ Encode(commit.state) \in Encoded /\ Holds(Encode(commit.state), commit.state)
      BY <2>1, CommitFacts DEF Target
    <2>3. cache'[Target] = Encode(commit.state) /\ Encode(commit.state) # None
      BY <2>1, <2>2 DEF IInv, TypeOK, DeviceTypeOK, SelectorAssumption
    <2>4. Target' = Target
      BY <2>1 DEF Target
    <2>5. View(Target)' = Encode(commit.state)
      BY <2>3, <2>4 DEF View
    <2> QED BY <2>1, <2>2, <2>4, <2>5 DEF Durable
  <1>4. CASE FlushCommit
    <2>1. /\ phase = "flush" /\ phase' = "reread" /\ commit # NoCommit
          /\ UNCHANGED <<boot, commit>>
          /\ media' = [slot \in Slot |-> View(slot)]
          /\ cache' = [slot \in Slot |-> None]
      BY <1>4 DEF FlushCommit, Flush, IInv, PhaseOK
    <2>2. boot # NoBoot /\ Target \in Slot /\ Target' = Target
      BY <2>1, CommitFacts DEF Target
    <2>3. media'[Target] = View(Target)
      BY <2>1, <2>2
    <2> QED BY <2>1, <2>2, <2>3 DEF Durable, Clean
  <1>5. CASE RereadCommit
    <2>1. phase' # "write" /\ phase' # "flush" /\ UNCHANGED <<media, cache>>
      BY <1>5 DEF RereadCommit, AfterCommit, device
    <2>2. CASE commit' = NoCommit
      <3>1. (boot # NoBoot)' => Stale(media[Target], boot.selected.state)'
        <4>1. media'[Target'] \in Survives(Target)'
          BY DEF Survives
        <4> QED BY <2>2, <4>1 DEF IInv, Anchored, Target
      <3> QED BY <2>1, <3>1 DEF Durable
    <2>3. CASE commit' # NoCommit
      <3>1. UNCHANGED <<boot, commit>>
        BY <1>5, <2>3 DEF RereadCommit
      <3> QED BY <2>1, <3>1 DEF Durable, Target, Clean
    <2> QED BY <2>2, <2>3
  <1>6. CASE TaskRetires \/ RetirementCompletes \/ RequiredFails
    BY <1>6 DEF TaskRetires, RetirementCompletes, RequiredFails, device, Durable, Target, Clean
  <1>7. CASE PowerLoss \/ Reset
    BY <1>7 DEF PowerLoss, Reset, Fresh, Durable
  <1>8. CASE DeviceFails
    <2>1. /\ phase' = "halted" /\ UNCHANGED <<boot, commit, media>>
          /\ phase = "write" \/ UNCHANGED cache
      BY <1>8 DEF DeviceFails, WriteSlotFails, FlushFails, device
    <2> QED BY <2>1 DEF Durable, Target, Clean
  <1>9. CASE UNCHANGED vars
    BY <1>9 DEF vars, Durable, Target, Clean, View
  <1> QED BY <1>1, <1>2, <1>3, <1>4, <1>5, <1>6, <1>7, <1>8, <1>9
          DEF Next, Select, Serve, Mishap

-----------------------------------------------------------------------------
(* The record on the medium. *)

\* In every state the medium alone selects a record.
LEMMA MediumSelects ==
    ASSUME IInv, BootStateAssumption, SelectorAssumption
    PROVE  /\ DurableRecord = SelectedState(media["A"], media["B"])
           /\ media["A"] \in Survives("A") /\ media["B"] \in Survives("B")
  <1>1. media["A"] \in Survives("A") /\ media["B"] \in Survives("B")
    BY DEF Survives
  <1>2. CASE boot = NoBoot
    BY <1>1, <1>2 DEF IInv, Idle, DurableRecord
  <1>3. CASE boot # NoBoot
    BY <1>1, <1>3, AftermathOfBoot DEF DurableRecord
  <1> QED BY <1>1, <1>2, <1>3

\* While the target is stale, it is the anchor's record.
LEMMA AnchorIsDurable ==
    ASSUME IInv, boot # NoBoot, Stale(media[Target], boot.selected.state),
           BootStateAssumption, SelectorAssumption
    PROVE  DurableRecord = boot.selected.state
  <1> DEFINE s == boot.selected.slot
             st == boot.selected.state
  <1>1. s \in Slot /\ st \in State
    BY DEF IInv, TypeOK, BootType, Selected
  <1>2. Holds(media[s], st)
    BY DEF IInv, Anchored
  <1>3. Target \in Slot /\ media[Target] \in Encoded \cup {Damaged}
    BY DEF Target, Other, Slot, IInv, TypeOK, DeviceTypeOK
  <1>4. /\ media["A"] = Placed(s, "A", media[s], media[Target])
        /\ media["B"] = Placed(s, "B", media[s], media[Target])
    BY <1>1 DEF Placed, Slot, Target, Other
  <1>5. SelectedState(media["A"], media["B"]) = st
    BY <1>1, <1>2, <1>3, <1>4, SelectAnchor
  <1> QED BY <1>5, MediumSelects

\* A commit that becomes durable is one transition of the abstract record.
LEMMA CommitIsRecordStep ==
    ASSUME IInv, commit # NoCommit, DurableRecord = boot.selected.state,
           DurableRecord' = commit.state, BootStateAssumption, SelectorAssumption
    PROVE  Record!Next
  <1> DEFINE st == boot.selected.state
             ct == commit.state
  <1>1. st \in State /\ st # None
    BY CommitFacts DEF SelectorAssumption
  <1>2. CASE CanConsume(st) /\ ct = ConsumePendingAttempt(st)
    <2>1. Record!Consume
      BY <1>1, <1>2 DEF Record!Consume, Record!CanConsume, Record!ConsumePendingAttempt,
         Record!HasNextSequence, CanConsume, ConsumePendingAttempt, HasNextSequence
    <2> QED BY <2>1 DEF Record!Next
  <1>3. CASE st.pending # None /\ CanRollback(st) /\ ct = RollbackPending(st)
    <2>1. Record!Rollback
      BY <1>1, <1>3 DEF Record!Rollback, Record!CanRollback, Record!RollbackPending,
         Record!HasNextSequence, CanRollback, RollbackPending, HasNextSequence
    <2> QED BY <2>1 DEF Record!Next
  <1>4. CASE /\ st.pending = Candidate
             /\ CanPromote(st, Candidate, ct.accepted_release_sequence)
             /\ ct = PromotePending(st, Candidate, ct.accepted_release_sequence)
    <2>1. Record!Promote
      BY <1>1, <1>4 DEF Record!Promote, Record!CanPromote, Record!PromotePending,
         Record!HasNextSequence, CanPromote, PromotePending, HasNextSequence
    <2> QED BY <2>1 DEF Record!Next
  <1> QED BY <1>2, <1>3, <1>4 DEF IInv, CommitOK, CommitStep

\* A flush makes the commit durable.
LEMMA FlushRefines ==
    ASSUME IInv, Durable, FlushCommit, BootStateAssumption, SelectorAssumption
    PROVE  Record!Next \/ UNCHANGED DurableRecord
  <1> DEFINE s == boot.selected.slot
             st == boot.selected.state
             ct == commit.state
  <1>1. /\ phase = "flush" /\ commit # NoCommit /\ UNCHANGED <<boot, commit>>
        /\ media' = [slot \in Slot |-> View(slot)]
    BY DEF FlushCommit, Flush, IInv, PhaseOK
  <1>2. /\ boot # NoBoot /\ s \in Slot /\ st \in State /\ ct \in State /\ Target \in Slot
        /\ s # Target
    BY <1>1, CommitFacts DEF Target
  <1>3. media'[s] = media[s] /\ media'[Target] = View(Target)
    BY <1>1, <1>2 DEF View, IInv, Anchored
  <1>4. Holds(media'[s], st) /\ Holds(media'[Target], ct) /\ ct.sequence = st.sequence + 1
    BY <1>1, <1>2, <1>3, CommitStepFacts DEF Durable, IInv, Anchored, CommitOK
  <1>5. /\ media'["A"] = Placed(s, "A", media'[s], media'[Target])
        /\ media'["B"] = Placed(s, "B", media'[s], media'[Target])
    BY <1>2 DEF Placed, Slot, Target, Other
  <1>6. DurableRecord' = ct
    <2>1. /\ Selectable(media'["A"], media'["B"])
          /\ SelectedState(media'["A"], media'["B"]) = ct
      BY <1>2, <1>4, <1>5, SelectCommit
    <2> QED BY <2>1 DEF DurableRecord
  <1>7. CASE Stale(media[Target], st)
    BY <1>1, <1>2, <1>6, <1>7, AnchorIsDurable, CommitIsRecordStep
  <1>8. CASE Clean
    <2>1. media' = media
      BY <1>1, <1>8 DEF Clean, View, IInv, TypeOK, DeviceTypeOK
    <2> QED BY <2>1 DEF DurableRecord
  <1> QED BY <1>2, <1>7, <1>8 DEF Durable

\* A power cut leaves the record as it was, or commits the write in the cache.
LEMMA FreshRefines ==
    ASSUME IInv, Durable, Fresh, BootStateAssumption, SelectorAssumption
    PROVE  Record!Next \/ UNCHANGED DurableRecord
  <1>1. PICK a \in Survives("A"), b \in Survives("B") :
            media' = [slot \in Slot |-> IF slot = "A" THEN a ELSE b]
    BY DEF Fresh, PowerCut
  <1>2. media'["A"] = a /\ media'["B"] = b
    BY <1>1 DEF Slot
  <1>3. CASE Clean
    <2>1. a = media["A"] /\ b = media["B"]
      BY <1>3 DEF Clean, Survives, Slot
    <2> QED BY <1>2, <2>1 DEF DurableRecord
  <1>4. CASE boot # NoBoot /\ Stale(media[Target], boot.selected.state)
    <2>1. DurableRecord = boot.selected.state
      BY <1>4, AnchorIsDurable
    <2>2. /\ Selectable(a, b)
          /\ \/ SelectedState(a, b) = boot.selected.state
             \/ commit # NoCommit /\ SelectedState(a, b) = commit.state
      BY <1>4, AftermathOfBoot
    <2>3. DurableRecord' = SelectedState(a, b)
      BY <1>2, <2>2 DEF DurableRecord
    <2> QED BY <2>1, <2>2, <2>3, CommitIsRecordStep
  <1> QED BY <1>3, <1>4 DEF Durable, IInv, Idle

\* Every step is a transition of the record or leaves it alone.
LEMMA StepRefines ==
    ASSUME IInv, Durable, [Next]_vars, BootStateAssumption, SelectorAssumption
    PROVE  Record!Next \/ UNCHANGED DurableRecord
  <1>1. CASE FlushCommit
    BY <1>1, FlushRefines
  <1>2. CASE PowerLoss \/ Reset
    BY <1>2, FreshRefines DEF PowerLoss, Reset
  <1>3. CASE UNCHANGED media
    BY <1>3 DEF DurableRecord
  <1> QED BY <1>1, <1>2, <1>3
          DEF Next, Select, Serve, Mishap, vars, device, PowerOn, VerifyClosure, WriteCommit,
              WriteSlot, RereadCommit, ServeRequest, ReportUnhealthy, TaskRetires,
              RetirementCompletes, RequiredFails, DeviceFails, WriteSlotFails, FlushFails

\* The built store is a genesis record.
LEMMA InitRefines ==
    ASSUME Init, BootStateAssumption, SelectorAssumption
    PROVE  DurableRecord \in {BuiltState(2, pending, attempts) :
                pending \in {None, Candidate}, attempts \in 0 .. MaxAttempts}
  <1>1. PICK pending \in {None, Candidate} :
            /\ Selectable(media["A"], media["B"])
            /\ SelectedState(media["A"], media["B"]) = BuiltState(2, pending, store.staged)
    BY BuiltStore
  <1>2. store.staged \in 0 .. MaxAttempts
    BY DEF Init
  <1> QED BY <1>1, <1>2 DEF DurableRecord

\* The boot selector, its two slots, its commits, and every power cut and
\* device error implement the atomic durable record.
THEOREM Refinement == Spec => RecordSpec
  <1>1. Init => Record!Init
    BY InitRefines, BootStateAssumption, SelectorAssumption DEF Record!Init
  <1>2. Init => Durable
    BY DEF Init, Durable
  <1>3. IInv /\ IInv' /\ Durable /\ [Next]_vars => Durable'
    BY DurableStep, BootStateAssumption, SelectorAssumption
  <1>4. IInv /\ Durable /\ [Next]_vars => [Record!Next]_DurableRecord
    BY StepRefines, BootStateAssumption, SelectorAssumption
  <1>5. Spec => []IInv
    BY Invariance
  <1> QED BY <1>1, <1>2, <1>3, <1>4, <1>5, PTL DEF Spec, RecordSpec, Record!Spec
=============================================================================
