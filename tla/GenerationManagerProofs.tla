----------------------- MODULE GenerationManagerProofs -----------------------
(***************************************************************************)
(* Proofs about GenerationManager for every closure of generations, every  *)
(* number of attempts and every width of the sequence counter.             *)
(*                                                                         *)
(* A request anchors on the record it found, kept in before: that record's *)
(* slot is never in the cache while its commit is under way, and the other *)
(* slot is undecodable, older or the new record.  Genesis is written only  *)
(* while slot B is undecodable and nothing was acknowledged, so it never   *)
(* competes with an acknowledged record.                                   *)
(***************************************************************************)
EXTENDS GenerationManager, BootSlotsProofs

-----------------------------------------------------------------------------
(* The inductive invariant. *)

\* A boot that selects st has not lost the last acknowledged transition.
KeepsAcked(st) ==
    acked # None =>
        /\ st.sequence >= acked.sequence
        /\ st.sequence = acked.sequence => st = acked

\* Nothing is being written, and the slots hold what was acknowledged.
Settled ==
    /\ Clean
    /\ Distinct(media["A"], media["B"])
    /\ acked # None => /\ Selectable(media["A"], media["B"])
                       /\ KeepsAcked(SelectedState(media["A"], media["B"]))

\* Genesis may be on its way to slot A.
Blank ==
    /\ acked = None
    /\ \A y \in Survives("B") : ~Decodable(y)

\* A commit is under way over the record the request found.
Anchored ==
    LET s == Other(commit.target)
    IN /\ before \in State
       /\ KeepsAcked(before)
       /\ Valid(commit.state) /\ commit.state.pending # Zero
       /\ commit.state.sequence = before.sequence + 1
       /\ reply.status = "OK"
       /\ cache[s] = None
       /\ Holds(media[s], before)
       /\ \A y \in Survives(commit.target) : Stale(y, before) \/ Holds(y, commit.state)

PhaseOK ==
    /\ phase \in {"off", "serving", "closed"} => commit = None /\ Settled
    /\ phase = "genesis" => commit = None /\ Blank /\ Clean
    /\ phase = "flush_genesis" => commit = None /\ Blank
    /\ phase \in {"write", "reread"} => commit # None /\ Clean
    /\ phase = "flush" => commit # None
    /\ phase = "replying" =>
        /\ Clean
        /\ IF commit = None
           THEN /\ Settled
                /\ before # None => SelectedState(media["A"], media["B"]) = before
           ELSE SelectedState(media["A"], media["B"]) = commit.state

IInv ==
    /\ TypeOK
    /\ PhaseOK
    /\ commit = None => Settled \/ Blank
    /\ commit # None => Anchored

\* What the next boot finds, whenever power is cut.
LEMMA Aftermath ==
    ASSUME IInv, BootStateAssumption, ManagerAssumption,
           NEW a \in Survives("A"), NEW b \in Survives("B")
    PROVE  /\ Distinct(a, b)
           /\ acked # None => Selectable(a, b) /\ KeepsAcked(SelectedState(a, b))
           /\ commit # None => Selectable(a, b)
  <1>1. CASE commit = None /\ Settled
    <2>1. a = media["A"] /\ b = media["B"]
      BY <1>1 DEF Settled, Clean, Survives, Slot
    <2> QED BY <1>1, <2>1 DEF Settled
  <1>2. CASE commit = None /\ Blank
    BY <1>2 DEF Blank, Distinct
  <1>3. CASE commit # None
    <2> DEFINE t == commit.target
               s == Other(t)
               x == media[s]
               y == IF s = "A" THEN b ELSE a
    <2>1. t \in Slot /\ s \in Slot /\ commit.state \in State /\ before \in State
      BY <1>3 DEF IInv, TypeOK, Anchored, Slot, Other
    <2>2. /\ cache[s] = None /\ Holds(x, before) /\ KeepsAcked(before)
          /\ commit.state.sequence = before.sequence + 1
          /\ \A z \in Survives(t) : Stale(z, before) \/ Holds(z, commit.state)
      BY <1>3 DEF IInv, Anchored
    <2>3. y \in Survives(t) /\ a = Placed(s, "A", x, y) /\ b = Placed(s, "B", x, y)
      <3>1. Survives(s) = {x}
        BY <2>2 DEF Survives
      <3> QED BY <2>1, <3>1 DEF Slot, Other, Placed
    <2>4. y \in Encoded \cup {Damaged}
      BY <2>1, <2>3 DEF IInv, TypeOK, DeviceTypeOK, Survives, Slot
    <2>5. CASE Stale(y, before)
      BY <2>1, <2>2, <2>3, <2>4, <2>5, SelectAnchor
    <2>6. CASE Holds(y, commit.state)
      <3>1. /\ Distinct(a, b) /\ Selectable(a, b)
            /\ SelectedState(a, b) = commit.state
        BY <2>1, <2>2, <2>3, <2>6, SelectCommit
      <3>2. acked # None => acked.sequence \in Nat
        BY DEF IInv, TypeOK, State
      <3>3. before.sequence \in Nat
        BY <2>1 DEF State
      <3>4. KeepsAcked(commit.state)
        BY <2>2, <3>2, <3>3 DEF KeepsAcked
      <3> QED BY <3>1, <3>4
    <2> QED BY <2>2, <2>3, <2>5, <2>6
  <1> QED BY <1>1, <1>2, <1>3 DEF IInv

LEMMA InitInv ==
    ASSUME Init, BootStateAssumption, ManagerAssumption
    PROVE  IInv
  <1>1. Clean /\ ~Decodable(media["A"]) /\ ~Decodable(media["B"])
    BY DEF Init, Clean, Decodable, Slot
  <1>2. Settled
    BY <1>1 DEF Settled, Distinct, Init
  <1>3. TypeOK
    BY DEF Init, TypeOK, DeviceTypeOK, Phase
  <1> QED BY <1>2, <1>3 DEF Init, IInv, PhaseOK

-----------------------------------------------------------------------------
(* Steps that leave the device alone. *)

\* What is left to show is about the phase, the commit and the request.
LEMMA SameDevice ==
    ASSUME UNCHANGED <<device, acked>>
    PROVE  /\ Settled' <=> Settled
           /\ Blank' <=> Blank
           /\ Clean' <=> Clean
           /\ DeviceTypeOK' <=> DeviceTypeOK
           /\ SelectedState(media["A"], media["B"])' = SelectedState(media["A"], media["B"])
           /\ UNCHANGED <<commit, reply, before>> => (Anchored' <=> Anchored)
  <1>1. UNCHANGED <<media, cache, acked>>
    BY DEF device
  <1>2. Clean' <=> Clean
    BY <1>1 DEF Clean
  <1>3. Settled' <=> Settled
    BY <1>1, <1>2 DEF Settled, KeepsAcked
  <1>4. Blank' <=> Blank
    BY <1>1 DEF Blank, Survives
  <1>5. UNCHANGED <<commit, reply, before>> => (Anchored' <=> Anchored)
    BY <1>1 DEF Anchored, KeepsAcked, Survives
  <1> QED BY <1>1, <1>2, <1>3, <1>4, <1>5 DEF DeviceTypeOK

\* With no write in the cache a read returns what is on the medium.
LEMMA CleanView ==
    ASSUME Clean
    PROVE  /\ View("A") = media["A"] /\ View("B") = media["B"]
           /\ \A slot \in Slot : View(slot) = media[slot] /\ Survives(slot) = {media[slot]}
           /\ LiveState = SelectedState(media["A"], media["B"])
           /\ LiveSlot = SelectedSlot(media["A"], media["B"])
           /\ SlotsSelectable <=> Selectable(media["A"], media["B"])
  <1>1. \A slot \in Slot : View(slot) = media[slot] /\ Survives(slot) = {media[slot]}
    BY DEF Clean, View, Survives
  <1>2. View("A") = media["A"] /\ View("B") = media["B"]
    BY <1>1 DEF Slot
  <1> QED BY <1>1, <1>2 DEF LiveState, LiveSlot, SlotsSelectable

LEMMA StartInv ==
    ASSUME IInv, Start, BootStateAssumption, ManagerAssumption
    PROVE  IInv'
  <1>1. /\ phase = "off" /\ commit = None /\ Settled /\ Clean
        /\ UNCHANGED <<device, commit, reply, before, acked>>
    BY DEF Start, IInv, PhaseOK, Settled
  <1>2. Settled' /\ Clean' /\ DeviceTypeOK' /\ (Blank' <=> Blank)
    BY <1>1, SameDevice DEF IInv, TypeOK
  <1>3. phase' \in {"serving", "failed", "genesis"}
    BY DEF Start
  <1>4. ASSUME phase' = "genesis"
        PROVE  Blank
    <2>1. ~Selectable(media["A"], media["B"]) /\ ~Conflicting(media["A"], media["B"])
      BY <1>1, <1>4, CleanView DEF Start
    <2>2. ~Decodable(media["B"]) /\ acked = None
      BY <1>1, <2>1 DEF Selectable, Settled
    <2> QED BY <1>1, <2>2, CleanView DEF Blank, Slot
  <1>5. TypeOK'
    BY <1>1, <1>2, <1>3 DEF IInv, TypeOK, Phase
  <1> QED BY <1>1, <1>2, <1>3, <1>4, <1>5 DEF IInv, PhaseOK

\* Genesis is a record decode accepts back, whatever its validity.
LEMMA GenesisType ==
    ASSUME BootStateAssumption, ManagerAssumption
    PROVE  Encode(GenesisState) \in Encoded
  <1>1. GenesisState \in State /\ GenesisState.pending # Zero
    BY DEF GenesisState, State, Attempts, ManagerAssumption, BootStateAssumption
  <1> QED BY <1>1, EncodeDecode DEF ManagerAssumption

\* A write of genesis, completed or failed, touches slot A only.
LEMMA GenesisWritten ==
    ASSUME IInv, phase = "genesis", BootStateAssumption, ManagerAssumption,
           NEW bytes \in {View("A"), Encode(GenesisState), Damaged},
           cache' = [cache EXCEPT !["A"] = bytes],
           UNCHANGED <<media, commit, reply, before, acked>>,
           phase' \in {"flush_genesis", "failed"}
    PROVE  IInv'
  <1>1. commit = None /\ Blank /\ Clean
    BY DEF IInv, PhaseOK
  <1>2. bytes \in Encoded \cup {Damaged}
    BY <1>1, GenesisType, CleanView DEF IInv, TypeOK, DeviceTypeOK, Slot
  <1>3. DeviceTypeOK'
    BY <1>2 DEF IInv, TypeOK, DeviceTypeOK
  <1>4. Survives("B")' = Survives("B")
    BY DEF Survives, IInv, TypeOK, DeviceTypeOK, Slot
  <1>5. Blank'
    BY <1>1, <1>4 DEF Blank
  <1>6. TypeOK'
    BY <1>3 DEF IInv, TypeOK, Phase
  <1> QED BY <1>1, <1>5, <1>6 DEF IInv, PhaseOK

LEMMA WriteGenesisInv ==
    ASSUME IInv, WriteGenesis, BootStateAssumption, ManagerAssumption
    PROVE  IInv'
  BY GenesisWritten DEF WriteGenesis, WriteSlot

\* A completed flush leaves on each slot something that would have survived.
LEMMA FlushFacts ==
    ASSUME IInv, Flush
    PROVE  /\ Clean'
           /\ DeviceTypeOK'
           /\ \A slot \in Slot : /\ media'[slot] \in Survives(slot)
                                 /\ Survives(slot)' = {media'[slot]}
                                 /\ cache'[slot] = None
                                 /\ cache[slot] = None => media'[slot] = media[slot]
  <1>1. \A slot \in Slot : /\ media'[slot] = View(slot) /\ cache'[slot] = None
                           /\ View(slot) \in Survives(slot)
                           /\ cache[slot] = None => View(slot) = media[slot]
    BY DEF Flush, View, Survives
  <1>2. \A slot \in Slot : View(slot) \in Encoded \cup {Damaged}
    BY DEF View, IInv, TypeOK, DeviceTypeOK
  <1>3. DeviceTypeOK'
    BY <1>2 DEF Flush, DeviceTypeOK
  <1>4. \A slot \in Slot : Survives(slot)' = {media'[slot]}
    BY <1>1 DEF Survives
  <1> QED BY <1>1, <1>3, <1>4 DEF Flush, Clean

LEMMA FlushGenesisInv ==
    ASSUME IInv, FlushGenesis, BootStateAssumption, ManagerAssumption
    PROVE  IInv'
  <1>1. /\ phase = "flush_genesis" /\ commit = None /\ Blank /\ phase' = "serving"
        /\ Flush /\ UNCHANGED <<commit, reply, before, acked>>
    BY DEF FlushGenesis, IInv, PhaseOK
  <1>2. Clean' /\ DeviceTypeOK' /\ media'["B"] \in Survives("B")
    BY <1>1, FlushFacts DEF Slot
  <1>3. Settled'
    BY <1>1, <1>2 DEF Blank, Settled, Distinct
  <1> QED BY <1>1, <1>2, <1>3 DEF IInv, TypeOK, PhaseOK, Phase

-----------------------------------------------------------------------------
(* serve. *)

\* The record a request finds is valid, and the slot it is in is the anchor.
LEMMA LiveFacts ==
    ASSUME IInv, phase = "serving", SlotsSelectable, BootStateAssumption
    PROVE  /\ LiveSlot \in Slot /\ LiveState \in State
           /\ Holds(media[LiveSlot], LiveState)
           /\ Stale(media[Other(LiveSlot)], LiveState)
           /\ KeepsAcked(LiveState)
           /\ LiveState.known_good \in Identity /\ LiveState.sequence \in Nat
           /\ LiveState.accepted_release_sequence + 1 \in Nat
  <1> DEFINE a == media["A"]
             b == media["B"]
  <1>1. Settled /\ Clean
    BY DEF IInv, PhaseOK, Settled
  <1>2. a \in Encoded \cup {Damaged} /\ b \in Encoded \cup {Damaged}
    BY DEF IInv, TypeOK, DeviceTypeOK, Slot
  <1>3. /\ Selectable(a, b) /\ Distinct(a, b)
        /\ LiveSlot = SelectedSlot(a, b) /\ LiveState = SelectedState(a, b)
    BY <1>1, CleanView DEF Settled
  <1>4. /\ LiveSlot \in Slot /\ LiveState \in State
        /\ Holds(Placed("A", LiveSlot, a, b), LiveState)
        /\ Stale(Placed("A", Other(LiveSlot), a, b), LiveState)
    BY <1>2, <1>3, SelectionIsAnchor
  <1>5. Holds(media[LiveSlot], LiveState) /\ Stale(media[Other(LiveSlot)], LiveState)
    BY <1>4 DEF Placed, Other, Slot
  <1>6. KeepsAcked(LiveState)
    BY <1>1, <1>3 DEF Settled, KeepsAcked
  <1> QED BY <1>4, <1>5, <1>6 DEF State

\* The records a request may commit over st.
Successor(st, ct) ==
    /\ ct \in State
    /\ ct.sequence = st.sequence + 1
    /\ ct.pending # Zero

LEMMA Successors ==
    ASSUME NEW st \in State, BootStateAssumption, ManagerAssumption
    PROVE  /\ Successor(st, StagePending(st, CANDIDATE, STAGE_ATTEMPTS, GENERATION_ROOT))
           /\ st.pending # None => Successor(st, RollbackPending(st))
           /\ \A identity \in Identity, release \in Nat :
                  Successor(st, PromotePending(st, identity, release))
  <1>1. None # Zero /\ CANDIDATE # Zero /\ CANDIDATE \in Identity
        /\ GENERATION_ROOT \in Identity /\ STAGE_ATTEMPTS \in Nat
    BY DEF BootStateAssumption, ManagerAssumption
  <1>2. /\ StagePending(st, CANDIDATE, STAGE_ATTEMPTS, GENERATION_ROOT).sequence = st.sequence + 1
        /\ StagePending(st, CANDIDATE, STAGE_ATTEMPTS, GENERATION_ROOT).pending = CANDIDATE
    BY DEF StagePending, State
  <1>3. st.pending # None => /\ RollbackPending(st).sequence = st.sequence + 1
                             /\ RollbackPending(st).pending = None
    BY DEF RollbackPending, State
  <1>4. \A i, r : /\ PromotePending(st, i, r).sequence = st.sequence + 1
                  /\ PromotePending(st, i, r).pending = None
    BY DEF PromotePending, State
  <1> QED BY <1>1, <1>2, <1>3, <1>4, TransitionTypes DEF Successor

\* A request is answered at once, or begins one transition of the live record.
LEMMA ServeFacts ==
    ASSUME IInv, NEW op \in Op, NEW identity \in {KNOWN_GOOD, CANDIDATE, Unknown},
           Serve(op, identity), BootStateAssumption, ManagerAssumption
    PROVE  \/ \E status \in Status, who \in Identity \cup {None} : Answer(status, who)
           \/ /\ SlotsSelectable
              /\ \E ct \in State, who \in Identity :
                     Successor(LiveState, ct) /\ Transition(ct, who)
  <1>1. identity \in Identity
    BY DEF ManagerAssumption
  <1>2. CASE op = "malformed" \/ Conflicting(View("A"), View("B")) \/ ~SlotsSelectable
    BY <1>2 DEF Serve, Status
  <1>3. CASE /\ ~(op = "malformed" \/ Conflicting(View("A"), View("B")))
             /\ SlotsSelectable
    <2>1. /\ LiveState \in State /\ LiveState.known_good \in Identity
          /\ LiveState.accepted_release_sequence + 1 \in Nat
      BY <1>3, LiveFacts DEF Serve
    <2>2. /\ Successor(LiveState, StagePending(LiveState, CANDIDATE, STAGE_ATTEMPTS, GENERATION_ROOT))
          /\ LiveState.pending # None => Successor(LiveState, RollbackPending(LiveState))
          /\ Successor(LiveState,
                 PromotePending(LiveState, identity, LiveState.accepted_release_sequence + 1))
      BY <1>1, <2>1, Successors
    <2>3. CASE List
      BY <2>1, <2>3 DEF List, Status
    <2>4. CASE Inspect(identity)
      BY <1>1, <2>4 DEF Inspect, Status
    <2>5. CASE Stage(identity)
      BY <1>1, <1>3, <2>2, <2>5 DEF Stage, Status, Successor
    <2>6. CASE Confirm(identity)
      BY <1>1, <1>3, <2>2, <2>6 DEF Confirm, Status, Successor
    <2>7. CASE Rollback
      BY <1>3, <2>1, <2>2, <2>7 DEF Rollback, Status, Successor
    <2> QED BY <1>3, <2>3, <2>4, <2>5, <2>6, <2>7 DEF Serve
  <1> QED BY <1>2, <1>3

LEMMA ServeInv ==
    ASSUME IInv, NEW op \in Op, NEW identity \in {KNOWN_GOOD, CANDIDATE, Unknown},
           Serve(op, identity), BootStateAssumption, ManagerAssumption
    PROVE  IInv'
  <1>1. /\ phase = "serving" /\ commit = None /\ Settled /\ Clean
        /\ UNCHANGED <<device, acked>>
        /\ before' = IF SlotsSelectable THEN LiveState ELSE None
    BY DEF Serve, IInv, PhaseOK, Settled
  <1>2. /\ Settled' /\ Clean' /\ DeviceTypeOK'
        /\ SelectedState(media["A"], media["B"])' = SelectedState(media["A"], media["B"])
    BY <1>1, SameDevice DEF IInv, TypeOK
  <1>3. LiveState = SelectedState(media["A"], media["B"])
    BY <1>1, CleanView
  <1>4. before' \in {None} \cup State /\ acked' \in {None} \cup State
    BY <1>1, LiveFacts DEF IInv, TypeOK
  <1>5. ASSUME NEW status \in Status, NEW who \in Identity \cup {None}, Answer(status, who)
        PROVE  IInv'
    <2>1. commit' = None /\ phase' = "replying" /\ reply' \in [status : Status, identity : Identity \cup {None}]
      BY <1>1, <1>5 DEF Answer
    <2>2. TypeOK'
      BY <1>2, <1>4, <2>1 DEF TypeOK, Phase
    <2>3. before' # None => SelectedState(media["A"], media["B"])' = before'
      BY <1>1, <1>2, <1>3
    <2> QED BY <1>2, <2>1, <2>2, <2>3 DEF IInv, PhaseOK
  <1>6. ASSUME SlotsSelectable, NEW ct \in State, NEW who \in Identity,
               Successor(LiveState, ct), Transition(ct, who)
        PROVE  IInv'
    <2>1. CASE ~Valid(ct)
      <3>1. phase' = "failed" /\ commit' = None /\ reply' = reply
        BY <1>1, <1>6, <2>1 DEF Transition
      <3>2. TypeOK'
        BY <1>2, <1>4, <3>1 DEF IInv, TypeOK, Phase
      <3> QED BY <1>2, <3>1, <3>2 DEF IInv, PhaseOK
    <2>2. CASE Valid(ct)
      <3> DEFINE s == LiveSlot
                 st == LiveState
      <3>1. /\ phase' = "write" /\ commit' = [target |-> Other(s), state |-> ct]
            /\ reply' = [status |-> "OK", identity |-> who]
        BY <1>6, <2>2 DEF Transition
      <3>2. /\ s \in Slot /\ st \in State /\ KeepsAcked(st)
            /\ Holds(media[s], st) /\ Stale(media[Other(s)], st)
        BY <1>1, <1>6, LiveFacts
      <3>3. Other(s) \in Slot /\ Other(Other(s)) = s
        BY <3>2 DEF Slot, Other
      <3>4. commit' \in [target : Slot, state : State] /\ commit' # None
        BY <3>1, <3>3 DEF ManagerAssumption
      <3>5. reply' \in [status : Status, identity : Identity \cup {None}]
        BY <3>1 DEF Status
      <3>6. TypeOK'
        BY <1>2, <1>4, <3>1, <3>4, <3>5 DEF TypeOK, Phase
      <3>7. commit'.target = Other(s) /\ commit'.state = ct /\ before' = st /\ reply'.status = "OK"
        BY <1>1, <1>6, <3>1
      <3>8. media' = media /\ cache' = cache /\ cache[s] = None
        BY <1>1, <3>2 DEF device, Clean
      <3>9. cache[Other(s)] = None
        BY <1>1, <3>3 DEF Clean
      <3>10. Anchored'
        <4>1. /\ before' \in State /\ KeepsAcked(before)'
              /\ Valid(ct) /\ ct.pending # Zero /\ ct.sequence = before'.sequence + 1
          BY <1>1, <1>6, <2>2, <3>2, <3>7 DEF Successor, KeepsAcked
        <4>2. /\ cache'[Other(commit'.target)] = None
              /\ Holds(media'[Other(commit'.target)], before')
          BY <3>2, <3>3, <3>7, <3>8
        <4>3. \A y \in Survives(commit.target)' : Stale(y, before')
          <5>1. Survives(commit.target)' = {media[Other(s)]}
            BY <3>7, <3>8, <3>9 DEF Survives
          <5> QED BY <3>2, <3>7, <5>1
        <4> QED BY <3>7, <4>1, <4>2, <4>3 DEF Anchored
      <3> QED BY <1>2, <3>1, <3>4, <3>6, <3>10 DEF IInv, PhaseOK
    <2> QED BY <2>1, <2>2
  <1> QED BY <1>5, <1>6, ServeFacts

-----------------------------------------------------------------------------
(* StateSlots::commit, the reply, failures and power cuts. *)

\* Whatever a write leaves in the cache for the target slot, the anchor stands.
LEMMA TargetWritten ==
    ASSUME IInv, phase = "write", BootStateAssumption, ManagerAssumption,
           NEW bytes \in {View(commit.target), Encode(commit.state), Damaged},
           cache' = [cache EXCEPT ![commit.target] = bytes],
           UNCHANGED <<media, commit, reply, before, acked>>,
           phase' \in {"flush", "failed"}
    PROVE  IInv'
  <1> DEFINE t == commit.target
             s == Other(t)
  <1>1. commit # None /\ Clean /\ Anchored
    BY DEF IInv, PhaseOK
  <1>2. t \in Slot /\ s \in Slot /\ s # t /\ commit.state \in State
    BY <1>1 DEF IInv, TypeOK, Slot, Other
  <1>3. Encode(commit.state) \in Encoded /\ Holds(Encode(commit.state), commit.state)
    BY <1>1, <1>2, EncodeDecode DEF Anchored, ManagerAssumption, Holds, Decode
  <1>4. View(t) = media[t] /\ Survives(t) = {media[t]}
    BY <1>1, <1>2, CleanView
  <1>5. bytes \in Encoded \cup {Damaged}
    BY <1>2, <1>3, <1>4 DEF IInv, TypeOK, DeviceTypeOK
  <1>6. DeviceTypeOK'
    BY <1>5 DEF IInv, TypeOK, DeviceTypeOK
  <1>7. cache'[s] = None /\ cache'[t] = bytes
    BY <1>1, <1>2 DEF Clean
  <1>8. Survives(t)' \subseteq {media[t], Encode(commit.state), Damaged}
    <2>1. Survives(t)' \subseteq {media[t], cache'[t], Damaged}
      BY DEF Survives
    <2> QED BY <1>4, <1>7, <2>1
  <1>9. Stale(Damaged, before)
    BY DEF Stale, Decodable
  <1>10. \A y \in Survives(t)' : Stale(y, before) \/ Holds(y, commit.state)
    <2>1. Stale(media[t], before) \/ Holds(media[t], commit.state)
      BY <1>1, <1>4 DEF Anchored
    <2> QED BY <1>3, <1>8, <1>9, <2>1
  <1>11. Anchored'
    BY <1>1, <1>7, <1>10 DEF Anchored, KeepsAcked
  <1>12. TypeOK'
    BY <1>6 DEF IInv, TypeOK, Phase
  <1> QED BY <1>1, <1>11, <1>12 DEF IInv, PhaseOK

LEMMA WriteCommitInv ==
    ASSUME IInv, WriteCommit, BootStateAssumption, ManagerAssumption
    PROVE  IInv'
  BY TargetWritten DEF WriteCommit, WriteSlot

LEMMA FlushCommitInv ==
    ASSUME IInv, FlushCommit, BootStateAssumption, ManagerAssumption
    PROVE  IInv'
  <1> DEFINE t == commit.target
             s == Other(t)
  <1>1. /\ phase' = "reread" /\ commit # None /\ Anchored /\ Flush
        /\ UNCHANGED <<commit, reply, before, acked>>
    BY DEF FlushCommit, IInv, PhaseOK
  <1>2. t \in Slot /\ s \in Slot
    BY <1>1 DEF IInv, TypeOK, Slot, Other
  <1>3. Clean' /\ DeviceTypeOK'
    BY <1>1, FlushFacts
  <1>4. cache'[s] = None /\ media'[s] = media[s]
    BY <1>1, <1>2, FlushFacts DEF Anchored
  <1>5. media'[t] \in Survives(t) /\ Survives(t)' = {media'[t]}
    BY <1>1, <1>2, FlushFacts
  <1>6. \A y \in Survives(t)' : Stale(y, before) \/ Holds(y, commit.state)
    BY <1>1, <1>5 DEF Anchored
  <1>7. Anchored'
    BY <1>1, <1>4, <1>6 DEF Anchored, KeepsAcked
  <1>8. TypeOK'
    BY <1>1, <1>3 DEF IInv, TypeOK, Phase
  <1> QED BY <1>1, <1>3, <1>7, <1>8 DEF IInv, PhaseOK

LEMMA RereadCommitInv ==
    ASSUME IInv, RereadCommit, BootStateAssumption, ManagerAssumption
    PROVE  IInv'
  <1>1. /\ commit # None /\ Clean /\ Anchored
        /\ UNCHANGED <<device, commit, reply, before, acked>>
        /\ phase' \in {"replying", "failed"}
    BY DEF RereadCommit, IInv, PhaseOK
  <1>2. /\ Clean' /\ Anchored' /\ DeviceTypeOK'
        /\ SelectedState(media["A"], media["B"])' = SelectedState(media["A"], media["B"])
    BY <1>1, SameDevice DEF IInv, TypeOK
  <1>3. phase' = "replying" => SelectedState(media["A"], media["B"]) = commit.state
    BY <1>1, CleanView DEF RereadCommit, Committed
  <1>4. TypeOK'
    BY <1>1, <1>2 DEF IInv, TypeOK, Phase
  <1> QED BY <1>1, <1>2, <1>3, <1>4 DEF IInv, PhaseOK

LEMMA SendReplyInv ==
    ASSUME IInv, SendReply, BootStateAssumption, ManagerAssumption
    PROVE  IInv'
  <1> DEFINE a == media["A"]
             b == media["B"]
  <1>1. /\ phase' = "serving" /\ commit' = None /\ reply' = None /\ before' = before
        /\ UNCHANGED <<media, cache>> /\ Clean
        /\ acked' = IF commit = None THEN acked ELSE commit.state
    BY DEF SendReply, IInv, PhaseOK, device
  <1>2. a \in Survives("A") /\ b \in Survives("B")
    BY <1>1, CleanView DEF Slot
  <1>3. Distinct(a, b) /\ (commit # None => Selectable(a, b))
    BY <1>2, Aftermath
  <1>4. CASE commit = None
    <2>1. Settled
      BY <1>4 DEF SendReply, IInv, PhaseOK
    <2>2. Settled'
      BY <1>1, <1>4, <2>1, SameDevice DEF device
    <2> QED BY <1>1, <1>4, <2>2 DEF IInv, TypeOK, DeviceTypeOK, Phase, PhaseOK
  <1>5. CASE commit # None
    <2>1. SelectedState(a, b) = commit.state /\ commit.state \in State
      BY <1>5 DEF SendReply, IInv, TypeOK, PhaseOK
    <2>2. commit.state.sequence \in Nat
      BY <2>1 DEF State
    <2>3. Settled'
      BY <1>1, <1>3, <1>5, <2>1, <2>2 DEF Settled, KeepsAcked, Clean
    <2> QED BY <1>1, <1>5, <2>1, <2>3 DEF IInv, TypeOK, DeviceTypeOK, Phase, PhaseOK
  <1> QED BY <1>4, <1>5

LEMMA ClientClosesInv ==
    ASSUME IInv, ClientCloses
    PROVE  IInv'
  <1>1. /\ phase' = "closed" /\ commit = None /\ Settled
        /\ UNCHANGED <<device, commit, reply, before, acked>>
    BY DEF ClientCloses, IInv, PhaseOK
  <1>2. Settled' /\ DeviceTypeOK'
    BY <1>1, SameDevice DEF IInv, TypeOK
  <1> QED BY <1>1, <1>2 DEF IInv, TypeOK, Phase, PhaseOK

LEMMA FailsInv ==
    ASSUME IInv, Fails, BootStateAssumption, ManagerAssumption
    PROVE  IInv'
  <1>1. phase' = "failed" /\ UNCHANGED <<commit, reply, before, acked>>
    BY DEF Fails
  <1>2. CASE phase = "genesis" /\ WriteSlotFails("A", GenesisState)
    BY <1>1, <1>2, GenesisWritten DEF WriteSlotFails
  <1>3. CASE phase = "write" /\ WriteSlotFails(commit.target, commit.state)
    BY <1>1, <1>3, TargetWritten DEF WriteSlotFails
  <1>4. CASE UNCHANGED device
    <2>1. /\ Settled' <=> Settled
          /\ Blank' <=> Blank
          /\ Anchored' <=> Anchored
          /\ DeviceTypeOK' <=> DeviceTypeOK
      BY <1>1, <1>4, SameDevice
    <2> QED BY <1>1, <2>1 DEF IInv, TypeOK, Phase, PhaseOK
  <1> QED BY <1>2, <1>3, <1>4 DEF Fails, FlushFails

LEMMA RestartInv ==
    ASSUME IInv, Restart, BootStateAssumption, ManagerAssumption
    PROVE  IInv'
  <1>1. /\ phase' = "off" /\ commit' = None /\ reply' = None /\ before' = None
        /\ acked' = acked /\ cache' = [slot \in Slot |-> None]
    BY DEF Restart, PowerCut
  <1>2. PICK a \in Survives("A"), b \in Survives("B") :
            media' = [slot \in Slot |-> IF slot = "A" THEN a ELSE b]
    BY DEF Restart, PowerCut
  <1>3. media'["A"] = a /\ media'["B"] = b
    BY <1>2 DEF Slot
  <1>4. a \in Encoded \cup {Damaged} /\ b \in Encoded \cup {Damaged}
    BY DEF Survives, IInv, TypeOK, DeviceTypeOK, Slot
  <1>5. TypeOK'
    <2>1. media' \in [Slot -> Encoded \cup {Damaged}]
      BY <1>2, <1>4
    <2> QED BY <1>1, <2>1 DEF IInv, TypeOK, DeviceTypeOK, Phase
  <1>6. Settled'
    BY <1>1, <1>3, Aftermath DEF Settled, KeepsAcked, Clean
  <1> QED BY <1>1, <1>5, <1>6 DEF IInv, PhaseOK

-----------------------------------------------------------------------------
(* The theorems. *)

LEMMA StutterInv ==
    ASSUME IInv, UNCHANGED vars
    PROVE  IInv'
  <1>1. UNCHANGED <<device, phase, commit, reply, before, acked>>
    BY DEF vars, device
  <1>2. /\ Settled' <=> Settled
        /\ Blank' <=> Blank
        /\ Clean' <=> Clean
        /\ Anchored' <=> Anchored
        /\ DeviceTypeOK' <=> DeviceTypeOK
        /\ SelectedState(media["A"], media["B"])' = SelectedState(media["A"], media["B"])
    BY <1>1, SameDevice
  <1> QED BY <1>1, <1>2 DEF IInv, TypeOK, PhaseOK

\* The invariant holds in every reachable state.
LEMMA Invariance == ASSUME BootStateAssumption, ManagerAssumption PROVE Spec => []IInv
  <1>1. Init => IInv
    BY InitInv
  <1>2. IInv /\ [Next]_vars => IInv'
    <2> SUFFICES ASSUME IInv, [Next]_vars PROVE IInv'
      OBVIOUS
    <2>1. CASE Start \/ WriteGenesis \/ FlushGenesis
      BY <2>1, StartInv, WriteGenesisInv, FlushGenesisInv
    <2>2. CASE \E op \in Op, identity \in {KNOWN_GOOD, CANDIDATE, Unknown} : Serve(op, identity)
      BY <2>2, ServeInv
    <2>3. CASE Commit
      BY <2>3, WriteCommitInv, FlushCommitInv, RereadCommitInv, SendReplyInv DEF Commit
    <2>4. CASE ClientCloses \/ Fails \/ Restart
      BY <2>4, ClientClosesInv, FailsInv, RestartInv
    <2>5. CASE UNCHANGED vars
      BY <2>5, StutterInv
    <2> QED BY <2>1, <2>2, <2>3, <2>4, <2>5 DEF Next
  <1> QED BY <1>1, <1>2, PTL DEF Spec

\* A transition the manager answered STATUS_OK survives any power cut and any
\* device error: every later boot selects that record or a newer one.
THEOREM AckedSurvives ==
    ASSUME BootStateAssumption, ManagerAssumption PROVE Spec => []AckedIsDurable
  <1>1. IInv => AckedIsDurable
    BY Aftermath DEF AckedIsDurable, KeepsAcked
  <1> QED BY <1>1, Invariance, PTL

\* When a reply is sent, a refusal has left the live record as the request found
\* it and an accepted transition is the live record, with nothing unflushed.
THEOREM RepliesAreTrue ==
    ASSUME BootStateAssumption, ManagerAssumption PROVE Spec => []ReplyMatchesSlots
  <1>1. IInv => ReplyMatchesSlots
    <2> SUFFICES ASSUME IInv, phase = "replying"
                 PROVE  /\ Clean
                        /\ IF reply.status = "OK" /\ commit # None
                           THEN LiveState = commit.state /\ commit.state # before
                           ELSE before # None => LiveState = before
      BY DEF IInv, ReplyMatchesSlots, Clean
    <2>1. Clean /\ LiveState = SelectedState(media["A"], media["B"])
      BY CleanView DEF IInv, PhaseOK
    <2>2. CASE commit = None
      BY <2>1, <2>2 DEF IInv, PhaseOK
    <2>3. CASE commit # None
      <3>1. LiveState = commit.state /\ reply.status = "OK"
        BY <2>1, <2>3 DEF IInv, PhaseOK, Anchored
      <3>2. before.sequence \in Nat /\ commit.state.sequence = before.sequence + 1
        BY <2>3 DEF IInv, Anchored, State
      <3>3. commit.state # before
        BY <3>2
      <3> QED BY <2>1, <2>3, <3>1, <3>3
    <2> QED BY <2>2, <2>3
  <1> QED BY <1>1, Invariance, PTL
=============================================================================
