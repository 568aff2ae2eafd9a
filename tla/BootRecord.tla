------------------------------ MODULE BootRecord ------------------------------
(***************************************************************************)
(* What the two slots promise: one durable BootState record that changes   *)
(* by whole transitions only.  The slots, their cache, the commit          *)
(* protocol, power cuts and device errors are invisible here; BootSelector *)
(* and GenerationManager implement this specification.                     *)
(***************************************************************************)
EXTENDS BootState

CONSTANTS
    Genesis,        \* records a store may start from
    Candidates,     \* what may be staged or promoted
    StageAttempts   \* attempt counts a stage may grant

VARIABLE record     \* the durable record, or None before genesis

Init == record \in {None} \cup Genesis

Create == record = None /\ record' \in Genesis

Stage ==
    /\ record # None
    /\ \E identity \in Candidates, attempts \in StageAttempts :
           /\ CanStage(record, attempts)
           /\ record' = StagePending(record, identity, attempts, record.generation_root)

Consume ==
    /\ record # None
    /\ CanConsume(record)
    /\ record' = ConsumePendingAttempt(record)

\* Promotion installs exactly the pending generation and accepts a later release.
Promote ==
    /\ record # None
    /\ record.pending \in Candidates
    /\ record' = PromotePending(record, record.pending, record'.accepted_release_sequence)
    /\ CanPromote(record, record.pending, record'.accepted_release_sequence)

Rollback ==
    /\ record # None
    /\ record.pending # None
    /\ CanRollback(record)
    /\ record' = RollbackPending(record)

Next == Create \/ Stage \/ Consume \/ Promote \/ Rollback

Spec == Init /\ [][Next]_record
=============================================================================
