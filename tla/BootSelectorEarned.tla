------------------------- MODULE BootSelectorEarned -------------------------
(***************************************************************************)
(* Proof that a candidate's fate is earned (CandidateEarned), for every    *)
(* number of attempts, boots, power cuts and device errors.                *)
(*                                                                         *)
(* By AftermathOfBoot the next boot finds the record this boot selected or *)
(* the one it is committing, so it is enough that both are Earned.  What   *)
(* makes that inductive is the credit a boot holds between its durable     *)
(* consume_pending_attempt and its launch, and, while a candidate is       *)
(* pending, that the sequence counts the attempts spent.                   *)
(***************************************************************************)
EXTENDS BootSelectorProofs

\* The record st is one the first n launches of the candidate account for.
Earned(st, n) ==
    /\ n + st.remaining_attempts <= store.staged
    /\ st.known_good # KnownGood =>
           /\ st.known_good = Candidate /\ st.pending = None
           /\ n > 0
           /\ store.closure[Candidate] = "verifies"
           /\ st.accepted_release_sequence = store.release[Candidate]
    /\ st.known_good = KnownGood /\ st.pending = None =>
           \/ st.sequence = 2
           \/ store.closure[KnownGood] = "verifies" /\ st.sequence = store.staged + 3
    /\ st.pending # None => st.sequence + st.remaining_attempts = store.staged + 2

\* A boot about to verify has spent the attempt of the launch to come, or runs
\* the known-good generation; a boot that runs a candidate has launched it.
Credit ==
    /\ phase = "verify" =>
           /\ IF boot.pending
              THEN launches + 1 + boot.selected.state.remaining_attempts <= store.staged
              ELSE boot.running = boot.selected.state.known_good
           /\ boot.exhausted => ~boot.pending /\ boot.selected.state.remaining_attempts = 0
    /\ phase = "running" /\ boot.pending =>
           launches > 0 /\ store.closure[Candidate] = "verifies"

\* The same for a boot in the middle of a commit.
CommitCredit ==
    /\ Earned(commit.state, launches)
    /\ commit.purpose = "consume" =>
           boot.pending /\ launches + 1 + commit.state.remaining_attempts <= store.staged
    /\ commit.purpose = "rollback" => ~boot.pending

EInv ==
    /\ boot = NoBoot => Earned(SelectedState(media["A"], media["B"]), launches)
    /\ boot # NoBoot => Earned(boot.selected.state, launches) /\ Credit
    /\ commit # NoCommit => CommitCredit

-----------------------------------------------------------------------------
(* The transitions of the record. *)

\* consume_pending_attempt leaves room for the launch it pays for.
LEMMA ConsumeEarned ==
    ASSUME NEW st \in State, NEW n \in Nat, Earned(st, n), CanConsume(st), store \in StoreType,
           SelectorAssumption
    PROVE  /\ Earned(ConsumePendingAttempt(st), n)
           /\ n + 1 + ConsumePendingAttempt(st).remaining_attempts <= store.staged
  <1> DEFINE ct == ConsumePendingAttempt(st)
  <1>1. /\ ct.sequence = st.sequence + 1 /\ ct.remaining_attempts = st.remaining_attempts - 1
        /\ ct.pending = st.pending /\ ct.known_good = st.known_good
    BY DEF ConsumePendingAttempt, State
  <1>2. st.sequence \in Nat /\ st.remaining_attempts \in Nat /\ store.staged \in Nat
    BY DEF State, Attempts, StoreType, SelectorAssumption
  <1>3. st.pending # None /\ st.remaining_attempts # 0
    BY DEF CanConsume
  <1> QED BY <1>1, <1>2, <1>3 DEF Earned

\* rollback_pending of a spent record, by a boot whose fallback verified.
LEMMA RollbackEarned ==
    ASSUME NEW st \in State, NEW n \in Nat, Earned(st, n), st.pending # None,
           st.remaining_attempts = 0, store.closure[KnownGood] = "verifies",
           store \in StoreType, SelectorAssumption
    PROVE  Earned(RollbackPending(st), n)
  <1> DEFINE ct == RollbackPending(st)
  <1>1. /\ ct.sequence = st.sequence + 1 /\ ct.remaining_attempts = 0
        /\ ct.pending = None /\ ct.known_good = st.known_good
    BY DEF RollbackPending, State
  <1>2. st.sequence \in Nat /\ store.staged \in Nat
    BY DEF State, StoreType, SelectorAssumption
  <1> QED BY <1>1, <1>2 DEF Earned

\* promote_pending of a candidate that was launched.
LEMMA PromoteEarned ==
    ASSUME NEW st \in State, NEW n \in Nat, Earned(st, n), n > 0,
           store.closure[Candidate] = "verifies", store \in StoreType, SelectorAssumption
    PROVE  Earned(PromotePending(st, Candidate, store.release[Candidate]), n)
  <1> DEFINE ct == PromotePending(st, Candidate, store.release[Candidate])
  <1>1. /\ ct.remaining_attempts = 0 /\ ct.pending = None /\ ct.known_good = Candidate
        /\ ct.accepted_release_sequence = store.release[Candidate]
    BY DEF PromotePending, State
  <1>2. st.remaining_attempts \in Nat /\ store.staged \in Nat
    BY DEF State, Attempts, StoreType, SelectorAssumption
  <1> QED BY <1>1, <1>2 DEF Earned, SelectorAssumption

\* A further launch, once its attempt is spent, keeps a record earned.
LEMMA LaunchEarned ==
    ASSUME NEW st \in State, NEW n \in Nat, Earned(st, n),
           n + 1 + st.remaining_attempts <= store.staged
    PROVE  Earned(st, n + 1)
  <1>1. n + 1 > 0
    OBVIOUS
  <1> QED BY <1>1 DEF Earned

-----------------------------------------------------------------------------
(* The steps. *)

LEMMA InitEarned ==
    ASSUME Init, BootStateAssumption, SelectorAssumption
    PROVE  EInv
  <1>1. PICK pending \in {None, Candidate} :
            /\ pending = None => store.staged = 0
            /\ SelectedState(media["A"], media["B"]) = BuiltState(2, pending, store.staged)
    BY BuiltStore
  <1>2. store.staged \in Nat /\ launches = 0
    BY DEF Init, SelectorAssumption
  <1>3. Earned(BuiltState(2, pending, store.staged), launches)
    BY <1>1, <1>2 DEF Earned, BuiltState
  <1> QED BY <1>1, <1>3 DEF EInv, Init

LEMMA PowerOnEarned ==
    ASSUME IInv, EInv, PowerOn, BootStateAssumption, SelectorAssumption
    PROVE  EInv'
  <1> DEFINE live == SelectedState(media["A"], media["B"])
             spend == live.pending # None /\ live.remaining_attempts > 0
  <1>1. /\ boot = NoBoot /\ commit = NoCommit
        /\ UNCHANGED <<media, cache, store, launches>>
        /\ Clean /\ Distinct(media["A"], media["B"]) /\ Selectable(media["A"], media["B"])
    BY DEF PowerOn, device, IInv, PhaseOK, CommitOK, Idle
  <1>2. Earned(live, launches)
    BY <1>1 DEF EInv
  <1>3. LiveState = live
    BY <1>1 DEF LiveState, View, Clean, Slot
  <1>4. live \in State
    BY <1>1, SelectionIsAnchor DEF IInv, TypeOK, DeviceTypeOK, Slot
  <1>5. launches \in Nat /\ store \in StoreType
    BY DEF IInv, TypeOK
  <1>6. CASE boot' = boot
    <2>1. commit' = commit
      BY <1>1, <1>3, <1>4, <1>6 DEF PowerOn, NoBoot, SelectorAssumption
    <2> QED BY <1>1, <1>2, <1>6, <2>1 DEF EInv, Earned
  <1>7. CASE boot' # boot
    <2>1. /\ boot' = [ selected |-> [slot |-> LiveSlot, state |-> live],
                       running |-> IF spend THEN live.pending ELSE live.known_good,
                       pending |-> spend,
                       exhausted |-> live.pending # None /\ ~spend ]
          /\ IF spend
             THEN BeginCommit(CanConsume(live), ConsumePendingAttempt(live), "consume")
             ELSE phase' = "verify" /\ UNCHANGED commit
      BY <1>3, <1>7 DEF PowerOn
    <2>2. /\ boot'.selected.state = live /\ boot'.pending = spend
          /\ boot'.running = IF spend THEN live.pending ELSE live.known_good
          /\ boot'.exhausted = (live.pending # None /\ ~spend)
      BY <2>1
    <2>3. boot' # NoBoot /\ Earned(boot.selected.state, launches)'
      BY <1>1, <1>2, <1>7, <2>2 DEF Earned
    <2>4. CASE spend
      <3>1. phase' \in {"write", "halted"} /\ (phase' = "halted" => commit' = commit)
        BY <2>1, <2>4 DEF BeginCommit
      <3>2. ASSUME phase' = "write"
            PROVE  CommitCredit'
        <4>1. /\ CanConsume(live) /\ commit'.state = ConsumePendingAttempt(live)
              /\ commit'.purpose = "consume"
          BY <2>1, <2>4, <3>2 DEF BeginCommit
        <4>2. /\ Earned(commit'.state, launches)
              /\ launches + 1 + commit'.state.remaining_attempts <= store.staged
          BY <1>2, <1>4, <1>5, <4>1, ConsumeEarned
        <4>3. Earned(commit.state, launches)'
          BY <1>1, <4>2 DEF Earned
        <4> QED BY <1>1, <2>2, <2>4, <4>1, <4>2, <4>3 DEF CommitCredit
      <3> QED BY <1>1, <2>3, <3>1, <3>2 DEF EInv, Credit
    <2>5. CASE ~spend
      <3>1. phase' = "verify" /\ commit' = commit
        BY <2>1, <2>5
      <3>2. live.remaining_attempts \in Nat
        BY <1>4 DEF State, Attempts
      <3>3. Credit'
        <4>1. ~boot'.pending /\ boot'.running = live.known_good
          BY <2>2, <2>5
        <4>2. boot'.exhausted => live.pending # None
          BY <2>2
        <4>3. boot'.exhausted => live.remaining_attempts = 0
          BY <2>5, <3>2, <4>2
        <4> QED BY <2>2, <3>1, <4>1, <4>3 DEF Credit
      <3> QED BY <1>1, <2>3, <3>1, <3>3 DEF EInv
    <2> QED BY <2>4, <2>5
  <1> QED BY <1>6, <1>7

LEMMA VerifyClosureEarned ==
    ASSUME IInv, EInv, VerifyClosure, BootStateAssumption, SelectorAssumption
    PROVE  EInv'
  <1> DEFINE st == boot.selected.state
  <1>1. /\ phase = "verify" /\ boot # NoBoot /\ commit = NoCommit
        /\ UNCHANGED <<media, cache, boot, store>>
    BY DEF VerifyClosure, device, IInv, PhaseOK
  <1>2. st \in State /\ store \in StoreType /\ launches \in Nat
    BY <1>1 DEF IInv, TypeOK, BootType, Selected
  <1>3. Earned(st, launches) /\ Credit
    BY <1>1 DEF EInv
  <1>4. CASE ~Verifies
    <2>1. phase' = "halted" /\ UNCHANGED <<commit, launches>>
      BY <1>4 DEF VerifyClosure
    <2> QED BY <1>1, <1>3, <2>1 DEF EInv, Earned, Credit
  <1>5. CASE Verifies /\ boot.exhausted
    <2>1. /\ BeginCommit(CanRollback(st), RollbackPending(st), "rollback")
          /\ UNCHANGED launches
      BY <1>5 DEF VerifyClosure
    <2>2. /\ ~boot.pending /\ st.remaining_attempts = 0 /\ boot.running = st.known_good
          /\ st.pending # None
      BY <1>1, <1>3, <1>5 DEF Credit, IInv, BootOK
    <2>3. store.closure[KnownGood] = "verifies"
      BY <1>3, <1>5, <2>2 DEF Earned, Verifies
    <2>4. Earned(RollbackPending(st), launches)
      BY <1>2, <1>3, <2>2, <2>3, RollbackEarned
    <2>5. CASE phase' = "halted"
      <3>1. commit' = commit
        BY <2>1, <2>5 DEF BeginCommit
      <3> QED BY <1>1, <1>3, <2>1, <2>5, <3>1 DEF EInv, Earned, Credit
    <2>6. CASE phase' # "halted"
      <3>1. /\ phase' = "write" /\ commit'.state = RollbackPending(st)
            /\ commit'.purpose = "rollback"
        BY <2>1, <2>6 DEF BeginCommit
      <3>2. CommitCredit'
        BY <1>1, <2>1, <2>2, <2>4, <3>1 DEF CommitCredit, Earned
      <3> QED BY <1>1, <1>3, <2>1, <3>1, <3>2 DEF EInv, Earned, Credit
    <2> QED BY <2>5, <2>6
  <1>6. CASE Verifies /\ ~boot.exhausted
    <2>1. /\ phase' = "running" /\ UNCHANGED commit
          /\ launches' = launches + (IF boot.pending THEN 1 ELSE 0)
      BY <1>6 DEF VerifyClosure
    <2>2. CASE boot.pending
      <3>1. Earned(st, launches + 1)
        BY <1>1, <1>2, <1>3, <2>2, LaunchEarned DEF Credit
      <3>2. store.closure[Candidate] = "verifies"
        BY <1>1, <1>6, <2>2 DEF Verifies, IInv, BootOK
      <3>3. launches' = launches + 1 /\ launches' > 0
        BY <1>2, <2>1, <2>2
      <3> QED BY <1>1, <2>1, <3>1, <3>2, <3>3 DEF EInv, Earned, Credit
    <2>3. CASE ~boot.pending
      <3>1. launches' = launches
        BY <1>2, <2>1, <2>3
      <3> QED BY <1>1, <1>3, <2>1, <2>3, <3>1 DEF EInv, Earned, Credit
    <2> QED BY <2>2, <2>3
  <1> QED BY <1>4, <1>5, <1>6

\* Writing and flushing a commit change neither record; nor does a failure.
LEMMA SameRecords ==
    ASSUME EInv, boot # NoBoot, UNCHANGED <<boot, commit, store, launches>>,
           phase' \in {"flush", "reread", "halted"}
    PROVE  EInv'
  BY DEF EInv, Earned, Credit, CommitCredit

LEMMA RereadEarned ==
    ASSUME IInv, EInv, RereadCommit, BootStateAssumption, SelectorAssumption
    PROVE  EInv'
  <1>1. /\ phase = "reread" /\ commit # NoCommit /\ UNCHANGED <<store, launches>>
    BY DEF RereadCommit, IInv, PhaseOK
  <1>2. boot # NoBoot /\ CommitCredit
    BY <1>1 DEF EInv, IInv, CommitOK
  <1>3. CASE ~Committed(commit.target, commit.state)
    BY <1>1, <1>2, <1>3, SameRecords DEF RereadCommit
  <1>4. CASE Committed(commit.target, commit.state)
    <2>1. /\ boot' = [boot EXCEPT !.selected = [slot |-> commit.target, state |-> commit.state],
                                  !.pending = boot.pending /\ commit.purpose # "confirm"]
          /\ phase' = AfterCommit /\ commit' = NoCommit
      BY <1>4 DEF RereadCommit
    <2>2. boot \in [ selected : Selected, running : Identity,
                     pending : BOOLEAN, exhausted : BOOLEAN ]
      BY <1>2 DEF IInv, TypeOK, BootType
    <2>3. boot'.selected.state = commit.state /\ boot'.exhausted = boot.exhausted
      BY <2>1, <2>2
    <2>4. boot'.pending = (boot.pending /\ commit.purpose # "confirm")
      BY <2>1, <2>2
    <2>5. commit.purpose \in {"consume", "rollback", "confirm"}
      BY <1>1 DEF IInv, TypeOK, CommitType
    <2>6. boot' # NoBoot
      <3>1. boot'.selected = [slot |-> commit.target, state |-> commit.state]
        BY <2>1, <2>2
      <3>2. [slot |-> commit.target, state |-> commit.state] \in [slot : Slot, state : State]
        BY <1>1, CommitFacts
      <3> QED BY <3>1, <3>2 DEF NoBoot, SelectorAssumption
    <2>7. Earned(boot.selected.state, launches)'
      BY <1>1, <1>2, <2>3 DEF CommitCredit, Earned
    <2>8. Credit'
      <3>1. CASE commit.purpose = "consume"
        <4>1. phase' = "verify" /\ boot'.pending /\ ~boot'.exhausted
          BY <1>1, <1>2, <2>1, <2>3, <2>4, <3>1 DEF AfterCommit, CommitCredit, IInv, BootOK
        <4> QED BY <1>1, <1>2, <2>3, <3>1, <4>1 DEF Credit, CommitCredit
      <3>2. CASE commit.purpose # "consume"
        <4>1. phase' = "running" /\ ~boot'.pending
          BY <1>2, <2>1, <2>4, <2>5, <3>2 DEF AfterCommit, CommitCredit
        <4> QED BY <4>1 DEF Credit
      <3> QED BY <3>1, <3>2
    <2> QED BY <2>1, <2>6, <2>7, <2>8 DEF EInv
  <1> QED BY <1>3, <1>4

LEMMA HealthCheckEarned ==
    ASSUME IInv, EInv, phase = "running", UNCHANGED <<media, cache, boot, store, launches>>,
           NEW g, HealthCheck(g), BootStateAssumption, SelectorAssumption
    PROVE  EInv'
  <1> DEFINE st == boot.selected.state
             release == store.release[boot.running]
             ct == PromotePending(st, boot.running, release)
  <1>1. boot # NoBoot /\ commit = NoCommit
    BY DEF IInv, PhaseOK
  <1>2. st \in State /\ store \in StoreType /\ launches \in Nat
    BY <1>1 DEF IInv, TypeOK, BootType, Selected
  <1>3. Earned(st, launches) /\ Credit
    BY <1>1 DEF EInv
  <1>4. CASE commit' = NoCommit
    <2>1. phase' \in {"running", "halted", "write"}
      BY DEF HealthCheck, BeginCommit
    <2> QED BY <1>1, <1>3, <1>4, <2>1 DEF EInv, Earned, Credit
  <1>5. CASE commit' # NoCommit
    <2>1. boot.pending /\ BeginCommit(CanPromote(st, boot.running, release), ct, "confirm")
      BY <1>1, <1>5 DEF HealthCheck
    <2>2. phase' = "write" /\ commit'.state = ct /\ commit'.purpose = "confirm"
      BY <1>1, <1>5, <2>1 DEF BeginCommit
    <2>3. boot.running = Candidate /\ launches > 0 /\ store.closure[Candidate] = "verifies"
      BY <1>1, <1>3, <2>1 DEF IInv, BootOK, Credit
    <2>4. Earned(ct, launches)
      BY <1>2, <1>3, <2>3, PromoteEarned
    <2>5. CommitCredit'
      BY <2>2, <2>4 DEF CommitCredit, Earned
    <2> QED BY <1>1, <1>3, <2>2, <2>5 DEF EInv, Earned, Credit
  <1> QED BY <1>4, <1>5

LEMMA FreshEarned ==
    ASSUME IInv, EInv, Fresh, BootStateAssumption, SelectorAssumption
    PROVE  EInv'
  <1>1. boot' = NoBoot /\ commit' = NoCommit /\ UNCHANGED <<store, launches>>
    BY DEF Fresh
  <1>2. PICK a \in Survives("A"), b \in Survives("B") :
            media' = [slot \in Slot |-> IF slot = "A" THEN a ELSE b]
    BY DEF Fresh, PowerCut
  <1>3. media'["A"] = a /\ media'["B"] = b
    BY <1>2 DEF Slot
  <1>4. Earned(SelectedState(a, b), launches)
    <2>1. CASE boot = NoBoot
      <3>1. a = media["A"] /\ b = media["B"]
        BY <2>1 DEF IInv, Idle, Clean, Survives, Slot
      <3> QED BY <2>1, <3>1 DEF EInv
    <2>2. CASE boot # NoBoot
      BY <2>2, AftermathOfBoot DEF EInv, CommitCredit
    <2> QED BY <2>1, <2>2
  <1> QED BY <1>1, <1>3, <1>4 DEF EInv, Earned

LEMMA NextEarned ==
    ASSUME IInv, EInv, [Next]_vars, BootStateAssumption, SelectorAssumption
    PROVE  EInv'
  <1>1. CASE PowerOn
    BY <1>1, PowerOnEarned
  <1>2. CASE VerifyClosure
    BY <1>2, VerifyClosureEarned
  <1>3. CASE WriteCommit \/ FlushCommit
    <2>1. boot # NoBoot
      BY <1>3 DEF WriteCommit, FlushCommit, IInv, PhaseOK, CommitOK
    <2> QED BY <1>3, <2>1, SameRecords DEF WriteCommit, FlushCommit
  <1>4. CASE RereadCommit
    BY <1>4, RereadEarned
  <1>5. CASE ServeRequest \/ ReportUnhealthy
    BY <1>5, HealthCheckEarned DEF ServeRequest, ReportUnhealthy, device
  <1>6. CASE TaskRetires \/ RetirementCompletes \/ RequiredFails
    <2>1. /\ phase = "running" /\ phase' \in {"running", "halted"}
          /\ UNCHANGED <<media, boot, commit, store, launches>>
      BY <1>6 DEF TaskRetires, RetirementCompletes, RequiredFails, device
    <2>2. boot # NoBoot /\ commit = NoCommit
      BY <2>1 DEF IInv, PhaseOK
    <2>3. Credit'
      BY <2>1, <2>2 DEF EInv, Credit
    <2> QED BY <2>1, <2>2, <2>3 DEF EInv, Earned
  <1>7. CASE PowerLoss \/ Reset
    BY <1>7, FreshEarned DEF PowerLoss, Reset
  <1>8. CASE DeviceFails
    <2>1. phase' = "halted" /\ UNCHANGED <<boot, commit, store, launches>>
      BY <1>8 DEF DeviceFails
    <2>2. CASE boot # NoBoot
      BY <2>1, <2>2, SameRecords
    <2>3. CASE boot = NoBoot
      <3>1. UNCHANGED media /\ commit = NoCommit
        BY <1>8, <2>3 DEF DeviceFails, WriteSlotFails, FlushFails, device, IInv, CommitOK
      <3> QED BY <2>1, <2>3, <3>1 DEF EInv, Earned
    <2> QED BY <2>2, <2>3
  <1>9. CASE UNCHANGED vars
    <2>1. UNCHANGED <<media, boot, commit, store, launches, phase>>
      BY <1>9 DEF vars, device
    <2>2. Credit' <=> Credit
      BY <2>1 DEF Credit
    <2>3. CommitCredit' <=> CommitCredit
      BY <2>1 DEF CommitCredit, Earned
    <2> QED BY <2>1, <2>2, <2>3 DEF EInv, Earned
  <1> QED BY <1>1, <1>2, <1>3, <1>4, <1>5, <1>6, <1>7, <1>8, <1>9
          DEF Next, Select, Serve, Mishap

-----------------------------------------------------------------------------
(* The theorem. *)

\* Over any sequence of boots a candidate is launched at most as often as
\* build_bootstore staged it, becomes known-good only after a boot that ran it,
\* and is cleared only when spent, by a boot whose known-good closure verified.
THEOREM FateIsEarned == Spec => []CandidateEarned
  <1>1. Init => EInv
    BY InitEarned, BootStateAssumption, SelectorAssumption
  <1>2. IInv /\ EInv /\ [Next]_vars => EInv'
    BY NextEarned, BootStateAssumption, SelectorAssumption
  <1>3. IInv /\ EInv => CandidateEarned
    <2> SUFFICES ASSUME IInv, EInv, NEW after \in Aftermath
                 PROVE  Earned(SelectedState(after[1], after[2]), launches)
      BY DEF CandidateEarned, LaunchesWithinAttempts, PromotedOnlyAfterRunning,
             RetryEvidenceKept, Earned
    <2>1. after[1] \in Survives("A") /\ after[2] \in Survives("B")
      BY DEF Aftermath
    <2>2. CASE boot = NoBoot
      BY <2>1, <2>2 DEF IInv, Idle, EInv, Clean, Survives, Slot
    <2>3. CASE boot # NoBoot
      BY <2>1, <2>3, AftermathOfBoot, BootStateAssumption, SelectorAssumption
         DEF EInv, CommitCredit
    <2> QED BY <2>2, <2>3
  <1>4. Spec => []IInv
    BY Invariance
  <1> QED BY <1>1, <1>2, <1>3, <1>4, PTL DEF Spec
=============================================================================
