---------------------------- MODULE BootSelector ----------------------------
(***************************************************************************)
(* The disk-backed boot selector of slime-root/src/boot_selector.rs, over  *)
(* any number of boots of one boot store: selection, the attempt spent on  *)
(* a pending generation before it is launched, fallback to the known-good  *)
(* generation when the attempts are gone, and promotion on the first       *)
(* healthy edge of the graph's service loop (graph_runtime/services.rs).   *)
(*                                                                         *)
(* The store is what the host builder (build_bootstore) writes: slot A     *)
(* with sequence 2 and slot B with sequence 1, both naming KnownGood, with *)
(* or without Candidate pending.  No part of this system writes the store  *)
(* beyond the two slots, so what each closure verifies to is fixed.        *)
(***************************************************************************)
EXTENDS BootSlots

CONSTANTS
    KnownGood, Candidate, Root,
    MaxAttempts         \* bound on SLIME_PENDING_ATTEMPTS

ASSUME SelectorAssumption ==
    /\ {KnownGood, Candidate, Root} \subseteq Identity \ {Zero}
    /\ KnownGood # Candidate
    /\ MaxAttempts \in Nat /\ MaxSequence > 2
    /\ Damaged \notin Encoded /\ None \notin Encoded /\ None # Damaged
    /\ None \notin State /\ None \notin [slot : Slot, state : State]

VARIABLES
    store,      \* the immutable part of the disk, see StoreType
    phase,      \* where the machine is between power-on and power-off
    commit,     \* the commit in progress: target slot, record and purpose
    boot,       \* select()'s locals, then BootRuntime
    graph,      \* the service loop's view of the running graph
    launches    \* history: boots that launched the pending generation

vars == <<media, cache, store, phase, commit, boot, graph, launches>>

\* How read, re-hash, decode and release verification of an entry end.
Verdict == {"verifies", "missing", "refused"}

\* intact: the GPT, the directory and the checksum that covers every sector
\* after the two slots are what the builder wrote.  required: the generations
\* declare at least one autostarted required instance.
StoreType == [ closure : [{KnownGood, Candidate} -> Verdict],
               release : [{KnownGood, Candidate} -> Nat],
               intact : BOOLEAN,
               required : BOOLEAN,
               staged : 0 .. MaxAttempts ]

Phase == {"off", "write", "flush", "reread", "verify", "running", "halted"}

Selected == [slot : Slot, state : State]

NoBoot == [selected |-> None, running |-> None, pending |-> FALSE, exhausted |-> FALSE]

BootType ==
    {NoBoot} \cup
    [ selected : Selected, running : Identity, pending : BOOLEAN, exhausted : BOOLEAN ]

NoCommit == [target |-> None, state |-> None, purpose |-> None]

CommitType ==
    {NoCommit} \cup
    [ target : Slot, state : State, purpose : {"consume", "rollback", "confirm"} ]

\* retiring: retirements.is_empty() is false; a task retires at most once in
\* the model of one boot.  emitted: healthy_emitted.  unhealthy: a required
\* instance's report was accepted.
GraphType == [ retiring : {"no", "yes", "was"}, emitted : BOOLEAN, unhealthy : BOOLEAN ]

FreshGraph == [retiring |-> "no", emitted |-> FALSE, unhealthy |-> FALSE]

TypeOK ==
    /\ DeviceTypeOK
    /\ store \in StoreType
    /\ phase \in Phase
    /\ boot \in BootType
    /\ commit \in CommitType
    /\ graph \in GraphType
    /\ launches \in Nat

\* build_bootstore: one record in both slots, the later sequence in slot A.
BuiltState(sequence, pending, attempts) ==
    [ sequence |-> sequence,
      known_good |-> KnownGood,
      pending |-> pending,
      remaining_attempts |-> attempts,
      generation_root |-> Root,
      accepted_release_sequence |-> 1 ]

Init ==
    /\ store \in [ closure : [{KnownGood, Candidate} -> Verdict],
                   release : [{KnownGood, Candidate} -> 1 .. 2],
                   intact : BOOLEAN,
                   required : BOOLEAN,
                   staged : 0 .. MaxAttempts ]
    /\ \E pending \in {None, Candidate} :
           /\ pending = None => store.staged = 0
           /\ media = [slot \in Slot |->
                  Encode(BuiltState(IF slot = "A" THEN 2 ELSE 1, pending, store.staged))]
    /\ cache = [slot \in Slot |-> None]
    /\ phase = "off"
    /\ boot = NoBoot
    /\ commit = NoCommit
    /\ graph = FreshGraph
    /\ launches = 0

-----------------------------------------------------------------------------
(* Selection. *)

\* Mutant: the commit always goes to slot A.
BeginCommitInA(allowed, state, purpose) ==
    IF allowed /\ Valid(state)
    THEN /\ phase' = "write"
         /\ commit' = [target |-> "A", state |-> state, purpose |-> purpose]
    ELSE /\ phase' = "halted"
         /\ UNCHANGED commit

\* Hand state to commit_state, which encodes before it writes; a transition
\* that is refused, or a record that does not encode, ends the boot.
BeginCommit(allowed, state, purpose) ==
    IF allowed /\ Valid(state)
    THEN /\ phase' = "write"
         /\ commit' = [ target |-> Other(boot'.selected.slot),
                        state |-> state,
                        purpose |-> purpose ]
    ELSE /\ phase' = "halted"
         /\ UNCHANGED commit

\* Mutant: a pending generation is tried however many attempts are left.
PowerOnNeverFallsBack ==
    /\ phase = "off"
    /\ IF store.intact /\ SlotsSelectable /\ LiveState.generation_root = Root
       THEN LET live == LiveState
                spend == live.pending # None
            IN /\ boot' = [ selected |-> [slot |-> LiveSlot, state |-> live],
                            running |-> IF spend THEN live.pending ELSE live.known_good,
                            pending |-> spend,
                            exhausted |-> FALSE ]
               /\ IF spend
                  THEN BeginCommit(CanConsume(live), ConsumePendingAttempt(live), "consume")
                  ELSE phase' = "verify" /\ UNCHANGED commit
       ELSE phase' = "halted" /\ UNCHANGED <<boot, commit>>
    /\ UNCHANGED <<device, store, graph, launches>>

\* locate_partition, read_directory, read_bootstate, the root comparison, and
\* the choice of what this boot runs.
PowerOn ==
    /\ phase = "off"
    /\ IF store.intact /\ SlotsSelectable /\ LiveState.generation_root = Root
       THEN LET live == LiveState
                waiting == live.pending # None
                spend == waiting /\ live.remaining_attempts > 0
            IN /\ boot' = [ selected |-> [slot |-> LiveSlot, state |-> live],
                            running |-> IF spend THEN live.pending ELSE live.known_good,
                            pending |-> spend,
                            exhausted |-> waiting /\ ~spend ]
               /\ IF spend
                  THEN BeginCommit(CanConsume(live), ConsumePendingAttempt(live), "consume")
                  ELSE phase' = "verify" /\ UNCHANGED commit
       ELSE phase' = "halted" /\ UNCHANGED <<boot, commit>>
    /\ UNCHANGED <<device, store, graph, launches>>

\* read_generation, its re-hash and decode, the release and its sequence.
Verifies ==
    /\ store.closure[boot.running] = "verifies"
    /\ LET accepted == boot.selected.state.accepted_release_sequence
       IN IF boot.pending
          THEN store.release[boot.running] > accepted
          ELSE store.release[boot.running] <= accepted

\* Mutant: exhausted state is cleared before the closure is verified.
VerifyClosureClearsFirst ==
    /\ phase = "verify"
    /\ UNCHANGED boot
    /\ IF boot.exhausted
       THEN /\ BeginCommit(CanRollback(boot.selected.state),
                           RollbackPending(boot.selected.state), "rollback")
            /\ UNCHANGED launches
       ELSE IF ~Verifies
       THEN phase' = "halted" /\ UNCHANGED <<commit, launches>>
       ELSE /\ phase' = "running"
            /\ launches' = launches + (IF boot.pending THEN 1 ELSE 0)
            /\ UNCHANGED commit
    /\ UNCHANGED <<device, store, graph>>

\* Mutant: exhausted state is never cleared.
VerifyClosureNeverClears ==
    /\ phase = "verify"
    /\ phase' = IF Verifies THEN "running" ELSE "halted"
    /\ launches' = launches + (IF Verifies /\ boot.pending THEN 1 ELSE 0)
    /\ UNCHANGED <<device, store, boot, commit, graph>>

VerifyClosure ==
    /\ phase = "verify"
    /\ UNCHANGED boot
    /\ IF ~Verifies
       THEN phase' = "halted" /\ UNCHANGED <<commit, launches>>
       ELSE IF boot.exhausted
       THEN /\ BeginCommit(CanRollback(boot.selected.state),
                           RollbackPending(boot.selected.state), "rollback")
            /\ UNCHANGED launches
       ELSE /\ phase' = "running"
            /\ launches' = launches + (IF boot.pending THEN 1 ELSE 0)
            /\ UNCHANGED commit
    /\ UNCHANGED <<device, store, graph>>

-----------------------------------------------------------------------------
(* commit_state, one device request at a time. *)

WriteCommit ==
    /\ phase = "write"
    /\ WriteSlot(commit.target, commit.state)
    /\ phase' = "flush"
    /\ UNCHANGED <<store, boot, commit, graph, launches>>

FlushCommit ==
    /\ phase = "flush"
    /\ Flush
    /\ phase' = "reread"
    /\ UNCHANGED <<store, boot, commit, graph, launches>>

AfterCommit == IF commit.purpose = "consume" THEN "verify" ELSE "running"

RereadCommit ==
    /\ phase = "reread"
    /\ IF Committed(commit.target, commit.state)
       THEN /\ boot' = [boot EXCEPT
                           !.selected = [slot |-> commit.target, state |-> commit.state],
                           !.pending = @ /\ commit.purpose # "confirm"]
            /\ phase' = AfterCommit
            /\ graph' = [graph EXCEPT !.emitted = @ \/ commit.purpose = "confirm"]
            /\ commit' = NoCommit
       ELSE phase' = "halted" /\ UNCHANGED <<boot, graph, commit>>
    /\ UNCHANGED <<device, store, launches>>

\* A device error or timeout, of a read or during a commit, is fatal to the boot.
DeviceFails ==
    /\ \/ phase = "write" /\ WriteSlotFails(commit.target, commit.state)
       \/ phase = "flush" /\ FlushFails
       \/ phase \in {"off", "verify", "reread"} /\ UNCHANGED device
    /\ phase' = "halted"
    /\ UNCHANGED <<store, boot, commit, graph, launches>>

-----------------------------------------------------------------------------
(* The running graph, one service-loop iteration at a time. *)

\* The check after every dispatched request, which leaves the loop's state as
\* g: on the first iteration that finds no retirement outstanding, and so every
\* required instance live or completed, a pending generation is confirmed.
HealthCheck(g) ==
    LET edge == store.required /\ g.retiring # "yes" /\ ~g.emitted
        state == boot.selected.state
        release == store.release[boot.running]
    IN IF edge /\ boot.pending
       THEN /\ graph' = g
            /\ BeginCommit(CanPromote(state, boot.running, release),
                           PromotePending(state, boot.running, release), "confirm")
       ELSE /\ graph' = [g EXCEPT !.emitted = @ \/ edge]
            /\ UNCHANGED <<phase, commit>>

\* Any authorised request that reaches the end of the dispatch match.
ServeRequest ==
    /\ phase = "running"
    /\ UNCHANGED boot
    /\ HealthCheck(graph)
    /\ UNCHANGED <<device, store, launches>>

\* UNHEALTHY from a required instance: mark_unhealthy accepts it while the
\* pending generation runs and changes nothing; then the same check runs.
ReportUnhealthy ==
    /\ phase = "running"
    /\ store.required
    /\ UNCHANGED boot
    /\ HealthCheck([graph EXCEPT !.unhealthy = @ \/ boot.pending])
    /\ UNCHANGED <<device, store, launches>>

\* An optional instance faults or exits, or a required one completes: its
\* retirement is queued, and the iteration ends before the check or skips it.
TaskRetires ==
    /\ phase = "running"
    /\ graph.retiring = "no"
    /\ graph' = [graph EXCEPT !.retiring = "yes"]
    /\ UNCHANGED <<device, store, phase, boot, commit, launches>>

RetirementCompletes ==
    /\ phase = "running"
    /\ graph.retiring = "yes"
    /\ graph' = [graph EXCEPT !.retiring = "was"]
    /\ UNCHANGED <<device, store, phase, boot, commit, launches>>

\* A required instance faults, exits nonzero, or exits though resident; or the
\* graph could not be launched at all.  fatal! parks the root.
RequiredFails ==
    /\ phase = "running"
    /\ phase' = "halted"
    /\ UNCHANGED <<device, store, boot, commit, graph, launches>>

-----------------------------------------------------------------------------
(* Power. *)

Fresh ==
    /\ PowerCut
    /\ phase' = "off"
    /\ boot' = NoBoot
    /\ commit' = NoCommit
    /\ graph' = FreshGraph
    /\ UNCHANGED <<store, launches>>

PowerLoss == phase \notin {"off", "halted"} /\ Fresh

\* A halted machine is reset by whoever operates it.
Reset == phase = "halted" /\ Fresh

Mishap == PowerLoss \/ DeviceFails

Select == PowerOn \/ VerifyClosure \/ WriteCommit \/ FlushCommit \/ RereadCommit

Serve == ServeRequest \/ ReportUnhealthy \/ TaskRetires \/ RetirementCompletes \/ RequiredFails

Next == Select \/ Serve \/ Mishap \/ Reset

Spec == Init /\ [][Next]_vars

\* The root is single-threaded and polls its device boundedly, so a boot that
\* is not interrupted finishes; a halted machine is eventually reset; a graph
\* that runs eventually makes a request or fails, and retirement is retried on
\* every iteration of the loop.
FairSpec ==
    /\ Spec
    /\ WF_vars(Select) /\ WF_vars(Reset)
    /\ WF_vars(ServeRequest \/ RequiredFails) /\ WF_vars(RetirementCompletes)

-----------------------------------------------------------------------------
(* Properties. *)

\* The pairs of slot contents the next boot could find if power failed now.
Aftermath == Survives("A") \X Survives("B")

\* Wherever power fails -- between a commit's write and its flush, after a
\* failed request, during a re-read -- the next boot finds a selectable record
\* (select_bootstate never reports a conflict or an empty pair), and that
\* record is the one this boot selected or the one it was committing.
CommitIsAtomic ==
    \A after \in Aftermath :
        /\ Selectable(after[1], after[2])
        /\ phase # "off" /\ boot # NoBoot =>
               SelectedState(after[1], after[2]) \in {boot.selected.state} \cup
                   (IF commit = NoCommit THEN {} ELSE {commit.state})

\* consume_pending_attempt is durable before the candidate is launched, so the
\* launches so far and the attempts any later boot could still see never add up
\* to more than the attempts staged, whatever boots were interrupted.
LaunchesWithinAttempts ==
    \A after \in Aftermath :
        LET state == SelectedState(after[1], after[2])
        IN launches + state.remaining_attempts <= store.staged

\* The candidate as known-good: it verified, was launched under a spent
\* attempt, and raised the accepted release sequence.
PromotedOnlyAfterRunning ==
    \A after \in Aftermath :
        LET state == SelectedState(after[1], after[2])
        IN state.known_good # KnownGood =>
               /\ state.known_good = Candidate
               /\ state.pending = None
               /\ launches > 0
               /\ store.closure[Candidate] = "verifies"
               /\ state.accepted_release_sequence = store.release[Candidate]

\* The pending record gone without a promotion: the fallback verified and every
\* attempt was lost.
RetryEvidenceKept ==
    \A after \in Aftermath :
        LET state == SelectedState(after[1], after[2])
        IN state.known_good = KnownGood /\ state.pending = None =>
               \/ state.sequence = 2
               \/ /\ store.closure[KnownGood] = "verifies"
                  /\ state.sequence = store.staged + 3

\* A candidate's fate is earned, over any boots, cuts and device errors: it is
\* launched at most as often as staged; whatever a later boot could find as
\* known-good was confirmed by a boot that ran it; and "exhausted pending state
\* is cleared only after the known-good closure has passed verification".
CandidateEarned ==
    LaunchesWithinAttempts /\ PromotedOnlyAfterRunning /\ RetryEvidenceKept

\* The selector implements the atomic durable record: seen from the medium, a
\* step of any boot -- a flush, a power cut that keeps a cached write -- is one
\* whole transition of the record or none, and nothing stages on the device.
Record == INSTANCE BootRecord WITH
    record <- DurableRecord,
    Genesis <- {BuiltState(2, pending, attempts) :
                    pending \in {None, Candidate}, attempts \in 0 .. MaxAttempts},
    Candidates <- {Candidate},
    StageAttempts <- {}

RecordSpec == Record!Spec

\* The known-good generation of an intact store can always be booted.
Fallback ==
    /\ store.intact
    /\ store.closure[KnownGood] = "verifies"
    /\ store.release[KnownGood] = 1

MishapsStop == <>[][~Mishap]_vars

\* Once power cuts and device errors stop, a machine whose known-good closure
\* verifies keeps reaching a running graph, whatever the candidate does: a bad
\* candidate is bounded by its attempts and cannot take the fallback with it.
AlwaysBootsAgain == Fallback /\ MishapsStop => []<>(phase = "running")

\* Under the same assumptions a pending candidate is eventually settled: it is
\* promoted or cleared, and stays so, or it is running, unconfirmed, in a graph
\* with no required instance to be healthy about.
CandidateSettled ==
    Fallback /\ MishapsStop =>
        <>[](LiveState.pending = None \/ (~store.required /\ phase = "running"))

-----------------------------------------------------------------------------
(* Two statements of the source that the code does not keep. *)

\* "An explicit unhealthy report never repairs the attempt consumed before
\* launch.  A fresh boot therefore observes the durable lower count."  So once
\* mark_unhealthy accepted a report, this boot's candidate is still pending in
\* every record a fresh boot could find.
UnhealthyIsNotPromoted ==
    graph.unhealthy =>
        \A after \in Aftermath : SelectedState(after[1], after[2]).pending = Candidate
=============================================================================
