------------------------- MODULE BootSelectorProofs -------------------------
(***************************************************************************)
(* Proofs about BootSelector for every set of identities, every number of  *)
(* attempts and every width of the sequence counter.                       *)
(*                                                                         *)
(* The argument is one inductive invariant, IInv.  A boot anchors on the   *)
(* slot it selected: that slot is never in the cache and holds the         *)
(* selected record.  Every content the other slot could have after a power *)
(* cut is undecodable, older, or the record being committed, whose         *)
(* sequence is one above the anchor's.  So no two decodable slots ever     *)
(* carry the same sequence, and select_bootstate returns the anchor's      *)
(* record or the commit's.                                                 *)
(***************************************************************************)
EXTENDS BootSelector, BootSlotsProofs

-----------------------------------------------------------------------------
(* The inductive invariant. *)

\* The records a boot may commit over st: one transition of BootRecord.
CommitStep(st, ct) ==
    \/ CanConsume(st) /\ ct = ConsumePendingAttempt(st)
    \/ st.pending # None /\ CanRollback(st) /\ ct = RollbackPending(st)
    \/ /\ st.pending = Candidate
       /\ CanPromote(st, Candidate, ct.accepted_release_sequence)
       /\ ct = PromotePending(st, Candidate, ct.accepted_release_sequence)

PhaseOK ==
    /\ phase = "off" => boot = NoBoot
    /\ phase \in {"verify", "running"} => boot # NoBoot /\ commit = NoCommit
    /\ phase \in {"write", "flush", "reread"} => commit # NoCommit
    /\ phase \in {"off", "verify", "running", "write", "reread"} => Clean

CommitOK ==
    commit # NoCommit =>
        /\ boot # NoBoot
        /\ commit.target = Other(boot.selected.slot)
        /\ Valid(commit.state)
        /\ CommitStep(boot.selected.state, commit.state)

\* Between boots: the slots select a record, and the choice is not a tie.
Idle ==
    boot = NoBoot =>
        /\ Clean
        /\ Distinct(media["A"], media["B"])
        /\ Selectable(media["A"], media["B"])
        /\ SelectedState(media["A"], media["B"]).pending \in {None, Candidate}

\* During one: the anchor, and what the other slot may turn out to hold.
Anchored ==
    boot # NoBoot =>
        LET s == boot.selected.slot
            st == boot.selected.state
        IN /\ cache[s] = None
           /\ Holds(media[s], st)
           /\ st.pending \in {None, Candidate}
           /\ \A y \in Survives(Other(s)) :
                  Stale(y, st) \/ (commit # NoCommit /\ Holds(y, commit.state))

\* An exhausted boot has a pending record to clear once it has verified the
\* fallback; a boot of the pending generation runs the candidate.
BootOK ==
    boot # NoBoot =>
        /\ boot.pending => boot.running = Candidate
        /\ phase = "verify" /\ boot.exhausted => boot.selected.state.pending # None
        /\ commit # NoCommit /\ commit.purpose = "consume" => ~boot.exhausted

IInv == TypeOK /\ PhaseOK /\ CommitOK /\ Idle /\ Anchored /\ BootOK

\* A committed record is well typed, one sequence on, and pends the candidate
\* or nothing.
LEMMA CommitStepFacts ==
    ASSUME NEW st \in State, NEW ct \in State, CommitStep(st, ct),
           st.pending \in {None, Candidate}
    PROVE  ct.sequence = st.sequence + 1 /\ ct.pending \in {None, Candidate}
  <1>1. /\ ConsumePendingAttempt(st).sequence = st.sequence + 1
        /\ ConsumePendingAttempt(st).pending = st.pending
    BY DEF ConsumePendingAttempt, State
  <1>2. st.pending # None => /\ RollbackPending(st).sequence = st.sequence + 1
                             /\ RollbackPending(st).pending = None
    BY DEF RollbackPending, State
  <1>3. \A r : /\ PromotePending(st, Candidate, r).sequence = st.sequence + 1
               /\ PromotePending(st, Candidate, r).pending = None
    BY DEF PromotePending, State
  <1> QED BY <1>1, <1>2, <1>3 DEF CommitStep

\* What a boot after a power cut in any state of a running boot would select.
LEMMA AftermathOfBoot ==
    ASSUME IInv, boot # NoBoot, BootStateAssumption, SelectorAssumption,
           NEW a \in Survives("A"), NEW b \in Survives("B")
    PROVE  /\ Distinct(a, b) /\ Selectable(a, b)
           /\ \/ SelectedState(a, b) = boot.selected.state
              \/ commit # NoCommit /\ SelectedState(a, b) = commit.state
           /\ SelectedState(a, b).pending \in {None, Candidate}
  <1> DEFINE s == boot.selected.slot
             st == boot.selected.state
             y == IF s = "A" THEN b ELSE a
             x == media[s]
  <1>1. s \in Slot /\ st \in State
    BY DEF IInv, TypeOK, BootType, Selected
  <1>2. /\ cache[s] = None /\ Holds(x, st) /\ st.pending \in {None, Candidate}
        /\ \A z \in Survives(Other(s)) :
               Stale(z, st) \/ (commit # NoCommit /\ Holds(z, commit.state))
    BY DEF IInv, Anchored
  <1>3. y \in Survives(Other(s)) /\ a = Placed(s, "A", x, y) /\ b = Placed(s, "B", x, y)
    <2>1. Survives(s) = {x}
      BY <1>2 DEF Survives
    <2> QED BY <1>1, <2>1 DEF Slot, Other, Placed
  <1>4. y \in Encoded \cup {Damaged}
    BY <1>1, <1>3 DEF IInv, TypeOK, DeviceTypeOK, Survives, Slot, Other
  <1>5. CASE Stale(y, st)
    BY <1>1, <1>2, <1>3, <1>4, <1>5, SelectAnchor
  <1>6. CASE commit # NoCommit /\ Holds(y, commit.state)
    <2>1. commit.state \in State
      BY <1>6 DEF IInv, TypeOK, CommitType
    <2>2. commit.state.sequence = st.sequence + 1 /\ commit.state.pending \in {None, Candidate}
      BY <1>1, <1>2, <1>6, <2>1, CommitStepFacts DEF IInv, CommitOK
    <2> QED BY <1>1, <1>2, <1>3, <1>6, <2>1, <2>2, SelectCommit
  <1> QED BY <1>2, <1>3, <1>5, <1>6

-----------------------------------------------------------------------------
(* The store as it is built. *)

\* The built store selects the record of slot A, which has the later sequence.
LEMMA BuiltStore ==
    ASSUME Init, BootStateAssumption, SelectorAssumption
    PROVE  \E pending \in {None, Candidate} :
               /\ pending = None => store.staged = 0
               /\ Selectable(media["A"], media["B"])
               /\ SelectedState(media["A"], media["B"]) = BuiltState(2, pending, store.staged)
  <1>1. PICK pending \in {None, Candidate} :
            /\ pending = None => store.staged = 0
            /\ media = [slot \in Slot |->
                  Encode(BuiltState(IF slot = "A" THEN 2 ELSE 1, pending, store.staged))]
    BY DEF Init
  <1> DEFINE sa == BuiltState(2, pending, store.staged)
             sb == BuiltState(1, pending, store.staged)
  <1>2. store.staged \in Nat
    BY DEF Init, SelectorAssumption
  <1>3. /\ sa \in State /\ sa.pending # Zero /\ sa.sequence = 2
        /\ sb \in State /\ sb.pending # Zero /\ sb.sequence = 1
    BY <1>2 DEF State, Attempts, BuiltState, SelectorAssumption, BootStateAssumption
  <1>4. Valid(sa)
    BY <1>1 DEF Valid, BuiltState, SelectorAssumption, BootStateAssumption
  <1>5. media["A"] = Encode(sa) /\ media["B"] = Encode(sb)
    BY <1>1 DEF Slot
  <1>6. Holds(media["A"], sa) /\ Stale(media["B"], sa) /\ media["B"] \in Encoded
    BY <1>3, <1>4, <1>5, EncodeDecode DEF SelectorAssumption, Holds, Stale, Decode
  <1>7. /\ Selectable(media["A"], media["B"])
        /\ SelectedState(media["A"], media["B"]) = sa
    BY <1>3, <1>6, SelectAnchor DEF Placed, Slot
  <1> QED BY <1>1, <1>7

LEMMA InitInv ==
    ASSUME Init, BootStateAssumption, SelectorAssumption
    PROVE  IInv
  <1> USE DEF Attempts
  <1>1. PICK pending \in {None, Candidate} :
            /\ pending = None => store.staged = 0
            /\ media = [slot \in Slot |->
                  Encode(BuiltState(IF slot = "A" THEN 2 ELSE 1, pending, store.staged))]
    BY DEF Init
  <1> DEFINE sa == BuiltState(2, pending, store.staged)
             sb == BuiltState(1, pending, store.staged)
  <1>2. store \in StoreType
    BY DEF Init, StoreType
  <1>3. store.staged \in Nat
    BY <1>2 DEF StoreType, SelectorAssumption
  <1>4. /\ sa \in State /\ sa.pending # Zero /\ sa.pending = pending /\ sa.sequence = 2
        /\ sb \in State /\ sb.pending # Zero /\ sb.pending = pending /\ sb.sequence = 1
    BY <1>3 DEF State, BuiltState, SelectorAssumption, BootStateAssumption
  <1>5. media["A"] = Encode(sa) /\ media["B"] = Encode(sb)
    BY <1>1 DEF Slot
  <1>6. /\ Encode(sa) \in Encoded /\ Unpacked(Encode(sa)) = sa
        /\ Encode(sb) \in Encoded /\ Unpacked(Encode(sb)) = sb
        /\ Decodable(Encode(sa)) <=> Valid(sa)
        /\ Decodable(Encode(sb)) <=> Valid(sb)
    BY <1>4, EncodeDecode DEF SelectorAssumption
  <1>7. Valid(sa) \/ Valid(sb)
    BY <1>1 DEF Valid, BuiltState, SelectorAssumption
  <1>8. TypeOK
    <2>1. media \in [Slot -> Encoded \cup {Damaged}]
      BY <1>1, <1>5, <1>6 DEF Slot
    <2>2. cache \in [Slot -> Encoded \cup {Damaged, None}]
      BY DEF Init
    <2> QED BY <2>1, <2>2, <1>2
            DEF TypeOK, DeviceTypeOK, Init, Phase, BootType, CommitType, GraphType, FreshGraph
  <1>9. Idle
    <2>1. Distinct(media["A"], media["B"])
      BY <1>4, <1>5, <1>6 DEF Distinct, Decode
    <2>2. Selectable(media["A"], media["B"])
      BY <1>4, <1>5, <1>6, <1>7 DEF Selectable, Conflicting, Decode
    <2>3. SelectedState(media["A"], media["B"]).pending = pending
      BY <1>4, <1>5, <1>6 DEF SelectedState, Decode
    <2> QED BY <2>1, <2>2, <2>3 DEF Idle, Clean, Init
  <1> QED BY <1>8, <1>9 DEF IInv, PhaseOK, CommitOK, Anchored, BootOK, Clean, Init

-----------------------------------------------------------------------------
(* Steps that leave the device alone. *)

\* The slots and the anchor are untouched: what is left to show is about the
\* phase and the commit.
LEMMA SameDevice ==
    ASSUME IInv, UNCHANGED <<device, boot>>,
           commit' # NoCommit => commit' = commit \/ commit = NoCommit,
           commit' = NoCommit => commit = NoCommit
    PROVE  Idle' /\ Anchored' /\ (Clean' <=> Clean)
  <1>1. \A slot \in Slot : Survives(slot)' = Survives(slot)
    BY DEF Survives, device
  <1>2. Idle' /\ (Clean' <=> Clean)
    BY DEF IInv, Idle, Clean, device
  <1>3. ASSUME boot # NoBoot
        PROVE  Other(boot.selected.slot) \in Slot
    BY <1>3 DEF Other, Slot
  <1>4. Anchored'
    BY <1>1, <1>3 DEF IInv, Anchored, device
  <1> QED BY <1>2, <1>4

\* A boot that is not committing hands a legal transition to commit_state, or
\* halts.
LEMMA BeginCommitInv ==
    ASSUME IInv, BootStateAssumption, SelectorAssumption,
           phase \in {"verify", "running"}, UNCHANGED <<device, boot>>,
           NEW allowed, NEW state, NEW purpose \in {"rollback", "confirm"},
           allowed /\ Valid(state) =>
               state \in State /\ CommitStep(boot.selected.state, state),
           BeginCommit(allowed, state, purpose)
    PROVE  /\ phase' \in Phase /\ commit' \in CommitType
           /\ PhaseOK' /\ CommitOK' /\ Idle' /\ Anchored' /\ BootOK'
  <1>1. boot # NoBoot /\ commit = NoCommit /\ Clean /\ boot \in BootType
    BY DEF IInv, PhaseOK, TypeOK
  <1>2. boot.selected.slot \in Slot
    BY <1>1 DEF BootType, Selected
  <1>3. Idle' /\ Anchored' /\ Clean'
    BY <1>1, SameDevice
  <1>4. CASE allowed /\ Valid(state)
    <2>1. /\ phase' = "write"
          /\ commit' = [ target |-> Other(boot.selected.slot), state |-> state, purpose |-> purpose ]
      BY <1>4 DEF BeginCommit
    <2>2. commit' # NoCommit
      BY <1>4, <2>1 DEF NoCommit, SelectorAssumption
    <2>3. commit' \in CommitType
      BY <1>2, <1>4, <2>1 DEF CommitType, Other, Slot
    <2> QED BY <1>1, <1>3, <1>4, <2>1, <2>2, <2>3 DEF IInv, Phase, PhaseOK, CommitOK, BootOK
  <1>5. CASE ~(allowed /\ Valid(state))
    <2>1. phase' = "halted" /\ commit' = commit
      BY <1>5 DEF BeginCommit
    <2> QED BY <1>1, <1>3, <2>1 DEF IInv, TypeOK, Phase, PhaseOK, CommitOK, BootOK
  <1> QED BY <1>4, <1>5

LEMMA PowerOnInv ==
    ASSUME IInv, PowerOn, BootStateAssumption, SelectorAssumption
    PROVE  IInv'
  <1> DEFINE a == media["A"]
             b == media["B"]
             live == SelectedState(a, b)
             spend == live.pending # None /\ live.remaining_attempts > 0
  <1>1. /\ phase = "off" /\ boot = NoBoot /\ commit = NoCommit
        /\ Clean /\ Distinct(a, b) /\ Selectable(a, b)
        /\ live.pending \in {None, Candidate}
    BY DEF PowerOn, IInv, PhaseOK, CommitOK, Idle
  <1>2. a \in Encoded \cup {Damaged} /\ b \in Encoded \cup {Damaged}
    BY DEF IInv, TypeOK, DeviceTypeOK, Slot
  <1>3. View("A") = a /\ View("B") = b
    BY <1>1 DEF View, Clean, Slot
  <1>4. LiveSlot = SelectedSlot(a, b) /\ LiveState = live
    BY <1>3 DEF LiveSlot, LiveState
  <1>5. LiveSlot \in Slot /\ live \in State
    BY <1>1, <1>2, <1>4, SelectionIsAnchor
  <1>6. Holds(media[LiveSlot], live) /\ Stale(media[Other(LiveSlot)], live)
    BY <1>1, <1>2, <1>4, <1>5, SelectionIsAnchor DEF Placed, Slot, Other
  <1>7. UNCHANGED <<media, cache, store, graph, launches>>
    BY DEF PowerOn, device
  <1>8. CASE boot' = boot
    <2>1. phase' = "halted" /\ commit' = commit
      BY <1>1, <1>8, <1>4, <1>5 DEF PowerOn, NoBoot, SelectorAssumption
    <2>2. Idle' /\ Anchored' /\ Clean'
      BY <1>1, <1>7, <1>8, <2>1, SameDevice DEF device
    <2> QED BY <1>1, <1>7, <1>8, <2>1, <2>2
            DEF IInv, TypeOK, DeviceTypeOK, Phase, PhaseOK, CommitOK, BootOK
  <1>9. CASE boot' # boot
    <2>1. /\ boot' = [ selected |-> [slot |-> LiveSlot, state |-> live],
                       running |-> IF spend THEN live.pending ELSE live.known_good,
                       pending |-> spend,
                       exhausted |-> live.pending # None /\ ~spend ]
          /\ IF spend
             THEN BeginCommit(CanConsume(live), ConsumePendingAttempt(live), "consume")
             ELSE phase' = "verify" /\ UNCHANGED commit
      BY <1>4, <1>9 DEF PowerOn
    <2>2. boot' # NoBoot
      BY <1>5, <2>1 DEF NoBoot, SelectorAssumption
    <2>3. boot' \in BootType
      <3>1. live.known_good \in Identity /\ live.pending \in Identity \cup {None}
        BY <1>5 DEF State
      <3> QED BY <1>5, <2>1, <3>1 DEF BootType, Selected
    <2>4. \A y \in Survives(Other(LiveSlot)) : Stale(y, live)
      BY <1>1, <1>5, <1>6 DEF Survives, Clean, Other, Slot
    <2>5. cache[LiveSlot] = None
      BY <1>1, <1>5 DEF Clean
    <2>6. boot'.selected.slot = LiveSlot /\ boot'.selected.state = live
      BY <2>1
    <2>7. Anchored'
      BY <1>1, <1>6, <1>7, <2>4, <2>5, <2>6 DEF Anchored, Survives
    <2>8. Idle' /\ Clean' /\ DeviceTypeOK'
      BY <1>1, <1>7, <2>2 DEF Idle, Clean, IInv, TypeOK, DeviceTypeOK
    <2>9. CASE phase' = "write"
      <3>1. /\ spend /\ CanConsume(live) /\ Valid(ConsumePendingAttempt(live))
            /\ commit' = [ target |-> Other(LiveSlot),
                           state |-> ConsumePendingAttempt(live),
                           purpose |-> "consume" ]
        BY <2>1, <2>6, <2>9 DEF BeginCommit
      <3>2. ConsumePendingAttempt(live) \in State
        BY <1>5, <3>1, TransitionTypes DEF SelectorAssumption
      <3>3. commit' # NoCommit
        BY <3>1, <3>2 DEF NoCommit, SelectorAssumption
      <3>4. commit' \in CommitType
        BY <1>5, <3>1, <3>2 DEF CommitType, Other, Slot
      <3>5. boot'.pending => boot'.running = Candidate
        BY <1>1, <2>1
      <3>6. ~boot'.exhausted
        BY <2>1, <3>1
      <3> QED BY <1>7, <2>2, <2>3, <2>6, <2>7, <2>8, <2>9, <3>1, <3>3, <3>4, <3>5, <3>6
              DEF IInv, TypeOK, Phase, PhaseOK, CommitOK, CommitStep, BootOK
    <2>10. CASE phase' # "write"
      <3>1. commit' = NoCommit /\ phase' \in {"halted", "verify"}
        BY <1>1, <2>1, <2>10 DEF BeginCommit
      <3>2. boot'.pending => boot'.running = Candidate
        BY <1>1, <2>1
      <3>3. boot'.exhausted => live.pending # None
        BY <2>1
      <3> QED BY <1>7, <2>2, <2>3, <2>6, <2>7, <2>8, <2>10, <3>1, <3>2, <3>3
              DEF IInv, TypeOK, Phase, PhaseOK, CommitOK, BootOK, CommitType
    <2> QED BY <2>9, <2>10
  <1> QED BY <1>8, <1>9

LEMMA VerifyClosureInv ==
    ASSUME IInv, VerifyClosure, BootStateAssumption, SelectorAssumption
    PROVE  IInv'
  <1> DEFINE st == boot.selected.state
  <1>1. /\ phase = "verify" /\ boot # NoBoot /\ commit = NoCommit
        /\ UNCHANGED <<device, boot, store, graph>>
    BY DEF VerifyClosure, IInv, PhaseOK
  <1>2. st \in State
    BY <1>1 DEF IInv, TypeOK, BootType, Selected
  <1>3. launches' \in Nat /\ DeviceTypeOK'
    BY DEF VerifyClosure, IInv, TypeOK, DeviceTypeOK, device
  <1>4. CASE Verifies /\ boot.exhausted
    <2>1. BeginCommit(CanRollback(st), RollbackPending(st), "rollback")
      BY <1>4 DEF VerifyClosure
    <2>2. st.pending # None
      BY <1>1, <1>4 DEF IInv, BootOK
    <2>3. RollbackPending(st) \in State
      BY <1>2, TransitionTypes DEF SelectorAssumption
    <2>4. CanRollback(st) /\ Valid(RollbackPending(st)) => CommitStep(st, RollbackPending(st))
      BY <2>2 DEF CommitStep
    <2>5. /\ phase' \in Phase /\ commit' \in CommitType
          /\ PhaseOK' /\ CommitOK' /\ Idle' /\ Anchored' /\ BootOK'
      BY <1>1, <2>1, <2>3, <2>4, BeginCommitInv
    <2> QED BY <1>1, <1>3, <2>5 DEF IInv, TypeOK
  <1>5. CASE ~(Verifies /\ boot.exhausted)
    <2>1. commit' = commit /\ phase' \in {"running", "halted"}
      BY <1>5 DEF VerifyClosure
    <2>2. Idle' /\ Anchored' /\ (Clean' <=> Clean)
      BY <1>1, <2>1, SameDevice
    <2> QED BY <1>1, <1>3, <2>1, <2>2 DEF IInv, TypeOK, Phase, PhaseOK, CommitOK, BootOK
  <1> QED BY <1>4, <1>5

-----------------------------------------------------------------------------
(* commit_state. *)

\* A commit in progress: its record decodes back from its encoding.
LEMMA CommitFacts ==
    ASSUME IInv, commit # NoCommit, BootStateAssumption, SelectorAssumption
    PROVE  /\ boot # NoBoot /\ boot.selected.slot \in Slot /\ boot.selected.state \in State
           /\ commit.target = Other(boot.selected.slot) /\ commit.target \in Slot
           /\ boot.selected.slot # commit.target
           /\ commit.state \in State
           /\ commit.state.pending \in {None, Candidate}
           /\ Encode(commit.state) \in Encoded
           /\ Holds(Encode(commit.state), commit.state)
  <1>1. /\ boot # NoBoot /\ commit.target = Other(boot.selected.slot)
        /\ Valid(commit.state) /\ CommitStep(boot.selected.state, commit.state)
    BY DEF IInv, CommitOK
  <1>2. boot.selected.slot \in Slot /\ boot.selected.state \in State
    BY <1>1 DEF IInv, TypeOK, BootType, Selected
  <1>3. commit.target \in Slot /\ boot.selected.slot # commit.target
    BY <1>1, <1>2 DEF Slot, Other
  <1>4. commit.state \in State
    BY DEF IInv, TypeOK, CommitType
  <1>5. commit.state.pending \in {None, Candidate}
    BY <1>1, <1>2, <1>4, CommitStepFacts DEF IInv, Anchored
  <1>6. commit.state.pending # Zero
    BY <1>5 DEF BootStateAssumption, SelectorAssumption
  <1> QED BY <1>1, <1>2, <1>3, <1>4, <1>5, <1>6, EncodeDecode DEF SelectorAssumption, Holds, Decode

\* Whatever a write leaves in the cache for the target slot, the anchor stands.
LEMMA TargetWritten ==
    ASSUME IInv, commit # NoCommit, Clean, BootStateAssumption, SelectorAssumption,
           NEW bytes \in {View(commit.target), Encode(commit.state), Damaged},
           cache' = [cache EXCEPT ![commit.target] = bytes],
           UNCHANGED <<media, boot, commit>>
    PROVE  DeviceTypeOK' /\ Idle' /\ Anchored'
  <1> DEFINE s == boot.selected.slot
             t == commit.target
  <1>1. /\ boot # NoBoot /\ s \in Slot /\ t = Other(s) /\ t \in Slot /\ s # t
        /\ Encode(commit.state) \in Encoded
        /\ Holds(Encode(commit.state), commit.state)
    BY CommitFacts
  <1>2. View(t) = media[t] /\ Survives(t) = {media[t]}
    BY <1>1 DEF Clean, View, Survives
  <1>3. media[t] \in Encoded \cup {Damaged}
    BY <1>1 DEF IInv, TypeOK, DeviceTypeOK
  <1>4. DeviceTypeOK'
    BY <1>1, <1>2, <1>3 DEF IInv, TypeOK, DeviceTypeOK
  <1>5. cache'[s] = None /\ cache'[t] = bytes
    BY <1>1 DEF IInv, Anchored, TypeOK, DeviceTypeOK
  <1>6. Stale(Damaged, boot.selected.state)
    BY DEF Stale, Decodable
  <1>7. Survives(t)' \subseteq {media[t], Encode(commit.state), Damaged}
    <2>1. Survives(t)' \subseteq {media'[t], cache'[t], Damaged}
      BY DEF Survives
    <2> QED BY <1>2, <1>5, <2>1
  <1>8. \A y \in Survives(t)' :
            Stale(y, boot.selected.state) \/ Holds(y, commit.state)
    BY <1>1, <1>2, <1>6, <1>7 DEF IInv, Anchored
  <1>9. Anchored'
    BY <1>1, <1>5, <1>8 DEF IInv, Anchored
  <1> QED BY <1>1, <1>4, <1>9 DEF Idle

LEMMA WriteCommitInv ==
    ASSUME IInv, WriteCommit, BootStateAssumption, SelectorAssumption
    PROVE  IInv'
  <1>1. /\ phase = "write" /\ phase' = "flush" /\ commit # NoCommit /\ Clean
        /\ UNCHANGED <<media, boot, commit, store, graph, launches>>
        /\ cache' = [cache EXCEPT ![commit.target] = Encode(commit.state)]
    BY DEF WriteCommit, WriteSlot, IInv, PhaseOK
  <1>2. DeviceTypeOK' /\ Idle' /\ Anchored'
    BY <1>1, TargetWritten
  <1> QED BY <1>1, <1>2 DEF IInv, TypeOK, Phase, PhaseOK, CommitOK, BootOK

LEMMA DeviceFailsInv ==
    ASSUME IInv, DeviceFails, BootStateAssumption, SelectorAssumption
    PROVE  IInv'
  <1>1. phase' = "halted" /\ UNCHANGED <<boot, commit, store, graph, launches>>
    BY DEF DeviceFails
  <1>2. CASE UNCHANGED device
    <2>1. Idle' /\ Anchored' /\ DeviceTypeOK'
      BY <1>1, <1>2, SameDevice DEF IInv, TypeOK, DeviceTypeOK, device
    <2> QED BY <1>1, <2>1 DEF IInv, TypeOK, Phase, PhaseOK, CommitOK, BootOK
  <1>3. CASE phase = "write" /\ WriteSlotFails(commit.target, commit.state)
    <2>1. commit # NoCommit /\ Clean /\ UNCHANGED media
      BY <1>3 DEF IInv, PhaseOK, WriteSlotFails
    <2>2. PICK bytes \in {View(commit.target), Encode(commit.state), Damaged} :
              cache' = [cache EXCEPT ![commit.target] = bytes]
      BY <1>3 DEF WriteSlotFails
    <2>3. DeviceTypeOK' /\ Idle' /\ Anchored'
      BY <1>1, <2>1, <2>2, TargetWritten
    <2> QED BY <1>1, <2>1, <2>3 DEF IInv, TypeOK, Phase, PhaseOK, CommitOK, BootOK
  <1> QED BY <1>2, <1>3 DEF DeviceFails, FlushFails

LEMMA FlushCommitInv ==
    ASSUME IInv, FlushCommit, BootStateAssumption, SelectorAssumption
    PROVE  IInv'
  <1> DEFINE s == boot.selected.slot
             t == commit.target
  <1>1. /\ phase = "flush" /\ phase' = "reread" /\ commit # NoCommit
        /\ UNCHANGED <<boot, commit, store, graph, launches>>
        /\ media' = [slot \in Slot |-> View(slot)]
        /\ cache' = [slot \in Slot |-> None]
    BY DEF FlushCommit, Flush, IInv, PhaseOK
  <1>2. boot # NoBoot /\ s \in Slot /\ t = Other(s) /\ t \in Slot /\ s # t
    BY <1>1, CommitFacts
  <1>3. \A slot \in Slot : View(slot) \in Encoded \cup {Damaged}
    BY DEF IInv, TypeOK, DeviceTypeOK, View
  <1>4. DeviceTypeOK'
    BY <1>1, <1>3 DEF DeviceTypeOK
  <1>5. cache'[s] = None /\ media'[s] = media[s]
    BY <1>1, <1>2 DEF IInv, Anchored, View
  <1>6. Survives(t)' = {View(t)} /\ View(t) \in Survives(t)
    BY <1>1, <1>2 DEF Survives, View
  <1>7. Anchored'
    BY <1>1, <1>2, <1>5, <1>6 DEF IInv, Anchored
  <1> QED BY <1>1, <1>2, <1>4, <1>7
          DEF IInv, TypeOK, Phase, PhaseOK, CommitOK, BootOK, Idle, Clean

LEMMA RereadCommitInv ==
    ASSUME IInv, RereadCommit, BootStateAssumption, SelectorAssumption
    PROVE  IInv'
  <1> DEFINE s == boot.selected.slot
             t == commit.target
             a == media["A"]
             b == media["B"]
  <1>1. /\ phase = "reread" /\ commit # NoCommit /\ Clean
        /\ UNCHANGED <<media, cache, store, launches>>
    BY DEF RereadCommit, device, IInv, PhaseOK
  <1>2. /\ boot # NoBoot /\ s \in Slot /\ t = Other(s) /\ t \in Slot /\ s # t
        /\ commit.state \in State /\ commit.state.pending \in {None, Candidate}
    BY <1>1, CommitFacts
  <1>3. CASE Committed(t, commit.state)
    <2>1. /\ boot' = [boot EXCEPT !.selected = [slot |-> t, state |-> commit.state],
                                  !.pending = boot.pending /\ commit.purpose # "confirm"]
          /\ phase' = AfterCommit /\ commit' = NoCommit
          /\ graph' = [graph EXCEPT !.emitted = graph.emitted \/ commit.purpose = "confirm"]
      BY <1>3 DEF RereadCommit
    <2>2. /\ boot'.selected = [slot |-> t, state |-> commit.state]
          /\ boot'.running = boot.running /\ boot'.exhausted = boot.exhausted
          /\ boot'.pending = (boot.pending /\ commit.purpose # "confirm")
          /\ boot' \in BootType /\ boot' # NoBoot
      <3>1. boot \in [ selected : Selected, running : Identity,
                       pending : BOOLEAN, exhausted : BOOLEAN ]
        BY <1>2 DEF IInv, TypeOK, BootType
      <3>2. boot'.selected = [slot |-> t, state |-> commit.state]
        BY <2>1, <3>1
      <3>3. boot'.running = boot.running /\ boot'.exhausted = boot.exhausted
        BY <2>1, <3>1
      <3>4. boot'.pending = (boot.pending /\ commit.purpose # "confirm")
        BY <2>1, <3>1
      <3>5. boot' \in BootType
        <4>1. [slot |-> t, state |-> commit.state] \in Selected
          BY <1>2 DEF Selected
        <4>2. (boot.pending /\ commit.purpose # "confirm") \in BOOLEAN
          OBVIOUS
        <4> QED BY <2>1, <3>1, <4>1, <4>2 DEF BootType
      <3>6. boot' # NoBoot
        BY <1>2, <3>2 DEF NoBoot, SelectorAssumption
      <3> QED BY <3>2, <3>3, <3>4, <3>5, <3>6
    <2>3. /\ a \in Survives("A") /\ b \in Survives("B")
          /\ View("A") = a /\ View("B") = b
          /\ a \in Encoded \cup {Damaged} /\ b \in Encoded \cup {Damaged}
      BY <1>1 DEF Survives, View, Clean, Slot, IInv, TypeOK, DeviceTypeOK
    <2>4. Distinct(a, b) /\ Selectable(a, b)
      BY <1>2, <2>3, AftermathOfBoot
    <2>5. SelectedSlot(a, b) = t /\ SelectedState(a, b) = commit.state
      BY <1>3, <2>3 DEF Committed, LiveSlot, LiveState
    <2>6. Holds(media[t], commit.state) /\ Stale(media[s], commit.state)
      BY <1>2, <2>3, <2>4, <2>5, SelectionIsAnchor DEF Placed, Slot, Other
    <2>7. Other(t) = s
      BY <1>2 DEF Slot, Other
    <2>8. Anchored'
      <3>1. \A slot \in Slot : Survives(slot)' = {media[slot]}
        BY <1>1 DEF Survives, Clean
      <3>2. cache'[t] = None /\ media'[t] = media[t]
        BY <1>1, <1>2 DEF Clean
      <3> QED BY <1>2, <2>2, <2>6, <2>7, <3>1, <3>2 DEF Anchored
    <2>9. graph' \in GraphType
      BY <2>1 DEF IInv, TypeOK, GraphType
    <2>10. BootOK'
      BY <1>1, <1>2, <2>1, <2>2 DEF IInv, BootOK, AfterCommit
    <2> QED BY <1>1, <2>1, <2>2, <2>8, <2>9, <2>10
            DEF IInv, TypeOK, DeviceTypeOK, Phase, PhaseOK, CommitOK, CommitType, Idle, Clean, AfterCommit
  <1>4. CASE ~Committed(t, commit.state)
    <2>1. phase' = "halted" /\ UNCHANGED <<boot, graph, commit>>
      BY <1>4 DEF RereadCommit
    <2>2. Idle' /\ Anchored'
      BY <1>1, <2>1, SameDevice DEF device
    <2> QED BY <1>1, <2>1, <2>2
            DEF IInv, TypeOK, DeviceTypeOK, Phase, PhaseOK, CommitOK, BootOK
  <1> QED BY <1>3, <1>4

-----------------------------------------------------------------------------
(* The running graph. *)

LEMMA HealthCheckInv ==
    ASSUME IInv, phase = "running", UNCHANGED <<device, boot, store, launches>>,
           NEW g \in GraphType, HealthCheck(g),
           BootStateAssumption, SelectorAssumption
    PROVE  IInv'
  <1> DEFINE st == boot.selected.state
             release == store.release[boot.running]
             edge == store.required /\ g.retiring # "yes" /\ ~g.emitted
  <1>1. boot # NoBoot /\ commit = NoCommit
    BY DEF IInv, PhaseOK
  <1>2. st \in State
    BY <1>1 DEF IInv, TypeOK, BootType, Selected
  <1>3. DeviceTypeOK' /\ store' \in StoreType /\ boot' \in BootType /\ launches' \in Nat
    BY DEF IInv, TypeOK, DeviceTypeOK, device
  <1>4. CASE edge /\ boot.pending
    <2>1. /\ graph' = g
          /\ BeginCommit(CanPromote(st, boot.running, release),
                         PromotePending(st, boot.running, release), "confirm")
      BY <1>4 DEF HealthCheck
    <2>2. boot.running = Candidate
      BY <1>1, <1>4 DEF IInv, BootOK
    <2>3. release \in Nat
      BY <2>2 DEF IInv, TypeOK, StoreType
    <2>4. /\ PromotePending(st, boot.running, release) \in State
          /\ PromotePending(st, boot.running, release).accepted_release_sequence = release
      BY <1>2, <2>2, <2>3, TransitionTypes DEF SelectorAssumption, PromotePending, State
    <2>5. CanPromote(st, boot.running, release) =>
              CommitStep(st, PromotePending(st, boot.running, release))
      BY <2>2, <2>4 DEF CommitStep, CanPromote
    <2>6. /\ phase' \in Phase /\ commit' \in CommitType
          /\ PhaseOK' /\ CommitOK' /\ Idle' /\ Anchored' /\ BootOK'
      BY <2>1, <2>4, <2>5, BeginCommitInv
    <2> QED BY <1>3, <2>1, <2>6 DEF IInv, TypeOK
  <1>5. CASE ~(edge /\ boot.pending)
    <2>1. /\ graph' = [g EXCEPT !.emitted = g.emitted \/ edge]
          /\ UNCHANGED <<phase, commit>>
      BY <1>5 DEF HealthCheck
    <2>2. graph' \in GraphType
      BY <2>1 DEF GraphType
    <2>3. Idle' /\ Anchored' /\ (Clean' <=> Clean)
      BY <2>1, SameDevice
    <2> QED BY <1>3, <2>1, <2>2, <2>3 DEF IInv, TypeOK, PhaseOK, CommitOK, BootOK
  <1> QED BY <1>4, <1>5

-----------------------------------------------------------------------------
(* Power. *)

LEMMA FreshInv ==
    ASSUME IInv, Fresh, BootStateAssumption, SelectorAssumption
    PROVE  IInv'
  <1>1. /\ cache' = [slot \in Slot |-> None] /\ phase' = "off"
        /\ boot' = NoBoot /\ commit' = NoCommit /\ graph' = FreshGraph
        /\ UNCHANGED <<store, launches>>
    BY DEF Fresh, PowerCut
  <1>2. PICK a \in Survives("A"), b \in Survives("B") :
            media' = [slot \in Slot |-> IF slot = "A" THEN a ELSE b]
    BY DEF Fresh, PowerCut
  <1>3. media'["A"] = a /\ media'["B"] = b
    BY <1>2 DEF Slot
  <1>4. a \in Encoded \cup {Damaged} /\ b \in Encoded \cup {Damaged}
    BY DEF Survives, IInv, TypeOK, DeviceTypeOK, Slot
  <1>5. Distinct(a, b) /\ Selectable(a, b) /\ SelectedState(a, b).pending \in {None, Candidate}
    <2>1. CASE boot = NoBoot
      <3>1. a = media["A"] /\ b = media["B"]
        BY <2>1 DEF IInv, Idle, Clean, Survives, Slot
      <3> QED BY <2>1, <3>1 DEF IInv, Idle
    <2>2. CASE boot # NoBoot
      BY <2>2, AftermathOfBoot
    <2> QED BY <2>1, <2>2
  <1>6. DeviceTypeOK'
    BY <1>1, <1>2, <1>4 DEF DeviceTypeOK
  <1>7. TypeOK'
    BY <1>1, <1>6 DEF IInv, TypeOK, Phase, BootType, CommitType, GraphType, FreshGraph
  <1>8. Idle'
    BY <1>1, <1>3, <1>5 DEF Idle, Clean
  <1> QED BY <1>1, <1>7, <1>8 DEF IInv, PhaseOK, CommitOK, Anchored, BootOK, Clean

-----------------------------------------------------------------------------
(* The theorems. *)

LEMMA NextInv ==
    ASSUME IInv, [Next]_vars, BootStateAssumption, SelectorAssumption
    PROVE  IInv'
  <1>1. CASE PowerOn
    BY <1>1, PowerOnInv
  <1>2. CASE VerifyClosure
    BY <1>2, VerifyClosureInv
  <1>3. CASE WriteCommit
    BY <1>3, WriteCommitInv
  <1>4. CASE FlushCommit
    BY <1>4, FlushCommitInv
  <1>5. CASE RereadCommit
    BY <1>5, RereadCommitInv
  <1>6. CASE ServeRequest
    BY <1>6, HealthCheckInv DEF ServeRequest, IInv, TypeOK
  <1>7. CASE ReportUnhealthy
    <2> DEFINE g == [graph EXCEPT !.unhealthy = graph.unhealthy \/ boot.pending]
    <2>1. g \in GraphType
      BY DEF IInv, TypeOK, GraphType
    <2> QED BY <1>7, <2>1, HealthCheckInv DEF ReportUnhealthy
  <1>8. CASE TaskRetires \/ RetirementCompletes \/ RequiredFails
    <2>1. UNCHANGED <<device, boot, commit, store, launches>>
      BY <1>8 DEF TaskRetires, RetirementCompletes, RequiredFails
    <2>2. graph' \in GraphType
      BY <1>8 DEF TaskRetires, RetirementCompletes, RequiredFails, IInv, TypeOK, GraphType
    <2>3. phase = "running" /\ phase' \in {"running", "halted"}
      BY <1>8 DEF TaskRetires, RetirementCompletes, RequiredFails
    <2>4. Idle' /\ Anchored' /\ (Clean' <=> Clean)
      BY <2>1, SameDevice
    <2> QED BY <2>1, <2>2, <2>3, <2>4
            DEF IInv, TypeOK, DeviceTypeOK, device, Phase, PhaseOK, CommitOK, BootOK
  <1>9. CASE PowerLoss \/ Reset
    BY <1>9, FreshInv DEF PowerLoss, Reset
  <1>10. CASE DeviceFails
    BY <1>10, DeviceFailsInv
  <1>11. CASE UNCHANGED vars
    <2>1. Idle' /\ Anchored' /\ (Clean' <=> Clean)
      BY <1>11, SameDevice DEF vars, device
    <2> QED BY <1>11, <2>1
            DEF vars, IInv, TypeOK, DeviceTypeOK, PhaseOK, CommitOK, BootOK
  <1> QED BY <1>1, <1>2, <1>3, <1>4, <1>5, <1>6, <1>7, <1>8, <1>9, <1>10, <1>11
          DEF Next, Select, Serve, Mishap

\* IInv holds in every reachable state.
THEOREM Invariance == Spec => []IInv
  <1>1. Init => IInv
    BY InitInv, BootStateAssumption, SelectorAssumption
  <1>2. IInv /\ [Next]_vars => IInv'
    BY NextInv, BootStateAssumption, SelectorAssumption
  <1> QED BY <1>1, <1>2, PTL DEF Spec

\* Type correctness of the selector, its device and the running graph.
THEOREM TypeCorrect == Spec => []TypeOK
  <1>1. IInv => TypeOK
    BY DEF IInv
  <1> QED BY <1>1, Invariance, PTL

\* commit_state is atomic: after a power cut in any state, select_bootstate
\* finds the record the boot selected or the one it was committing.
THEOREM AtomicCommit == Spec => []CommitIsAtomic
  <1>1. IInv => CommitIsAtomic
    <2> SUFFICES ASSUME IInv, NEW after \in Aftermath
                 PROVE  /\ Selectable(after[1], after[2])
                        /\ phase # "off" /\ boot # NoBoot =>
                               SelectedState(after[1], after[2]) \in {boot.selected.state} \cup
                                   (IF commit = NoCommit THEN {} ELSE {commit.state})
      BY DEF CommitIsAtomic
    <2>1. after[1] \in Survives("A") /\ after[2] \in Survives("B")
      BY DEF Aftermath
    <2>2. CASE boot = NoBoot
      BY <2>1, <2>2 DEF IInv, Idle, Clean, Survives, Slot
    <2>3. CASE boot # NoBoot
      BY <2>1, <2>3, AftermathOfBoot, BootStateAssumption, SelectorAssumption
    <2> QED BY <2>2, <2>3
  <1> QED BY <1>1, Invariance, PTL
=============================================================================
