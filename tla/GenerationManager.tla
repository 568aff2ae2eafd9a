-------------------------- MODULE GenerationManager --------------------------
(***************************************************************************)
(* sel4-generation-manager: the userspace service that owns the BootState  *)
(* slots of a running system.  It creates the genesis record when neither  *)
(* slot decodes, then serves one client's LIST, INSPECT, STAGE, SELECT and *)
(* ROLLBACK requests, each transition committed older-slot-first before    *)
(* its reply is sent.                                                      *)
(***************************************************************************)
EXTENDS BootSlots

CONSTANTS
    KNOWN_GOOD, CANDIDATE, GENERATION_ROOT, STAGE_ATTEMPTS,
    Unknown             \* an identity outside the closure

ASSUME ManagerAssumption ==
    /\ {KNOWN_GOOD, CANDIDATE, GENERATION_ROOT, Unknown} \subseteq Identity \ {Zero}
    /\ STAGE_ATTEMPTS \in Nat \ {0}
    /\ Damaged \notin Encoded /\ None \notin Encoded /\ None # Damaged
    /\ None \notin [target : Slot, state : State]

VARIABLES
    phase,      \* where the manager process is
    commit,     \* the record being written and the slot it goes to, or None
    reply,      \* the reply being sent, or None
    before,     \* history: the live record when the request was received
    acked       \* history: the record the last STATUS_OK transition reported

vars == <<media, cache, phase, commit, reply, before, acked>>

Op == {"LIST", "INSPECT", "STAGE", "SELECT", "ROLLBACK", "malformed"}

Status == {"OK", "BAD_REQUEST", "UNKNOWN_GENERATION", "NO_PENDING"}

Phase == {"off", "genesis", "flush_genesis", "serving",
          "write", "flush", "reread", "replying", "closed", "failed"}

TypeOK ==
    /\ DeviceTypeOK
    /\ phase \in Phase
    /\ commit \in {None} \cup [target : Slot, state : State]
    /\ reply \in {None} \cup [status : Status, identity : Identity \cup {None}]
    /\ before \in {None} \cup State
    /\ acked \in {None} \cup State

GenesisState ==
    [ sequence |-> 1,
      known_good |-> KNOWN_GOOD,
      pending |-> None,
      remaining_attempts |-> 0,
      generation_root |-> GENERATION_ROOT,
      accepted_release_sequence |-> 1 ]

\* A disk nobody wrote BootState to.
Init ==
    /\ media = [slot \in Slot |-> Damaged]
    /\ cache = [slot \in Slot |-> None]
    /\ phase = "off"
    /\ commit = None
    /\ reply = None
    /\ before = None
    /\ acked = None

-----------------------------------------------------------------------------
(* Startup. *)

Start ==
    /\ phase = "off"
    /\ phase' = IF SlotsSelectable THEN "serving"
                ELSE IF Conflicting(View("A"), View("B")) THEN "failed"
                ELSE "genesis"
    /\ UNCHANGED <<device, commit, reply, before, acked>>

WriteGenesis ==
    /\ phase = "genesis"
    /\ WriteSlot("A", GenesisState)
    /\ phase' = "flush_genesis"
    /\ UNCHANGED <<commit, reply, before, acked>>

\* StateSlots::write flushes; main does not read genesis back.
FlushGenesis ==
    /\ phase = "flush_genesis"
    /\ Flush
    /\ phase' = "serving"
    /\ UNCHANGED <<commit, reply, before, acked>>

-----------------------------------------------------------------------------
(* serve: one request, up to its reply or its first device write. *)

Answer(status, identity) ==
    /\ reply' = [status |-> status, identity |-> identity]
    /\ phase' = "replying"
    /\ UNCHANGED commit

\* Mutant: the reply is sent before the commit.
TransitionRepliesFirst(state, identity) ==
    /\ commit' = [target |-> Other(LiveSlot), state |-> state]
    /\ reply' = [status |-> "OK", identity |-> identity]
    /\ phase' = "replying"

\* StateSlots::commit encodes first; the reply is fixed now, sent after it.
Transition(state, identity) ==
    IF Valid(state)
    THEN /\ commit' = [target |-> Other(LiveSlot), state |-> state]
         /\ reply' = [status |-> "OK", identity |-> identity]
         /\ phase' = "write"
    ELSE /\ phase' = "failed"
         /\ UNCHANGED <<commit, reply>>

List == Answer("OK", LiveState.known_good)

Inspect(identity) ==
    IF identity \in {LiveState.known_good, CANDIDATE}
    THEN Answer("OK", identity)
    ELSE Answer("UNKNOWN_GENERATION", None)

Stage(identity) ==
    IF identity # CANDIDATE
    THEN Answer("UNKNOWN_GENERATION", None)
    ELSE IF CanStage(LiveState, STAGE_ATTEMPTS)
    THEN Transition(StagePending(LiveState, identity, STAGE_ATTEMPTS, GENERATION_ROOT), identity)
    ELSE Answer("BAD_REQUEST", None)

Confirm(identity) ==
    LET release == LiveState.accepted_release_sequence + 1
    IN IF CanPromote(LiveState, identity, release)
       THEN Transition(PromotePending(LiveState, identity, release), identity)
       ELSE Answer("UNKNOWN_GENERATION", None)

Rollback ==
    IF LiveState.pending = None
    THEN Answer("NO_PENDING", LiveState.known_good)
    ELSE IF CanRollback(LiveState)
    THEN Transition(RollbackPending(LiveState), LiveState.known_good)
    ELSE Answer("BAD_REQUEST", None)

\* The slots are read afresh for every request; bytes that are not a request
\* are refused before they are.
Serve(op, identity) ==
    /\ phase = "serving"
    /\ IF op = "malformed" \/ Conflicting(View("A"), View("B"))
       THEN Answer("BAD_REQUEST", None)
       ELSE IF ~SlotsSelectable
       THEN Answer("NO_PENDING", None)
       ELSE \/ op = "LIST" /\ List
            \/ op = "INSPECT" /\ Inspect(identity)
            \/ op = "STAGE" /\ Stage(identity)
            \/ op = "SELECT" /\ Confirm(identity)
            \/ op = "ROLLBACK" /\ Rollback
    /\ before' = IF SlotsSelectable THEN LiveState ELSE None
    /\ UNCHANGED <<device, acked>>

-----------------------------------------------------------------------------
(* StateSlots::commit, then the reply. *)

WriteCommit ==
    /\ phase = "write"
    /\ WriteSlot(commit.target, commit.state)
    /\ phase' = "flush"
    /\ UNCHANGED <<commit, reply, before, acked>>

\* Mutant: the commit is not flushed.
FlushCommitSkipped ==
    /\ phase = "flush"
    /\ phase' = "reread"
    /\ UNCHANGED <<device, commit, reply, before, acked>>

FlushCommit ==
    /\ phase = "flush"
    /\ Flush
    /\ phase' = "reread"
    /\ UNCHANGED <<commit, reply, before, acked>>

RereadCommit ==
    /\ phase = "reread"
    /\ phase' = IF Committed(commit.target, commit.state) THEN "replying" ELSE "failed"
    /\ UNCHANGED <<device, commit, reply, before, acked>>

\* send is retried until the client's endpoint takes the reply.
SendReply ==
    /\ phase = "replying"
    /\ phase' = "serving"
    /\ acked' = IF commit = None THEN acked ELSE commit.state
    /\ commit' = None
    /\ reply' = None
    /\ UNCHANGED <<device, before>>

\* The client's supervision handle reports it terminated.
ClientCloses ==
    /\ phase = "serving"
    /\ phase' = "closed"
    /\ UNCHANGED <<device, commit, reply, before, acked>>

\* A device error, or a failed receive or send, exits(1).
Fails ==
    /\ \/ phase = "genesis" /\ WriteSlotFails("A", GenesisState)
       \/ phase = "write" /\ WriteSlotFails(commit.target, commit.state)
       \/ phase \in {"flush_genesis", "flush"} /\ FlushFails
       \/ phase \in {"off", "serving", "reread", "replying"} /\ UNCHANGED device
    /\ phase' = "failed"
    /\ UNCHANGED <<commit, reply, before, acked>>

\* Power is cut and the next boot starts the manager again.
Restart ==
    /\ phase # "off"
    /\ PowerCut
    /\ phase' = "off"
    /\ commit' = None
    /\ reply' = None
    /\ before' = None
    /\ UNCHANGED acked

Commit == WriteCommit \/ FlushCommit \/ RereadCommit \/ SendReply

Next ==
    \/ Start \/ WriteGenesis \/ FlushGenesis
    \/ \E op \in Op, identity \in {KNOWN_GOOD, CANDIDATE, Unknown} : Serve(op, identity)
    \/ Commit \/ ClientCloses \/ Fails \/ Restart

Spec == Init /\ [][Next]_vars

-----------------------------------------------------------------------------
(* Properties. *)

\* A transition answered STATUS_OK is durable: whatever fails afterwards, every
\* boot finds that record or a later one.  In particular the genesis record is
\* never written over the history of an acknowledged transition.
AckedIsDurable ==
    acked # None =>
        \A a \in Survives("A"), b \in Survives("B") :
            /\ Selectable(a, b)
            /\ SelectedState(a, b).sequence >= acked.sequence
            /\ SelectedState(a, b).sequence = acked.sequence => SelectedState(a, b) = acked

\* "Each validates before it writes, so a refusal leaves BootState exactly as it
\* was", and an accepted transition's reply is sent only once the record a boot
\* would select is the new one, with no write left in the cache.
ReplyMatchesSlots ==
    /\ TypeOK
    /\ phase = "replying" =>
        /\ cache = [slot \in Slot |-> None]
        /\ IF reply.status = "OK" /\ commit # None
           THEN LiveState = commit.state /\ commit.state # before
           ELSE before # None => LiveState = before

=============================================================================
