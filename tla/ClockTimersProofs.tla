-------------------------- MODULE ClockTimersProofs --------------------------
(***************************************************************************)
(* Proofs about ClockTimers for every set of tasks and delays, every quota *)
(* and every bound.                                                        *)
(*                                                                         *)
(* The inductive invariant IInv adds to the types that the component       *)
(* timers fit MAX_LIVE_TIMERS and, of a level-triggered timer no call of   *)
(* which has failed, that it is enabled for the earliest queued deadline,  *)
(* that no decision is left pending and that the interrupt is masked only  *)
(* while an expiry is served.  The device is programmed only when the      *)
(* earliest deadline changes, so each step needs the device to have been   *)
(* right before it.                                                        *)
(***************************************************************************)
EXTENDS ClockTimers, FiniteSetTheorems, WellFoundedInduction, TLAPS

-----------------------------------------------------------------------------
(* The earliest deadline. *)

\* A set of instants that is not empty has an earliest one.
LEMMA MinExists ==
    ASSUME NEW T \in SUBSET Nat, T # {}
    PROVE  \E x \in T : \A y \in T : x <= y
  <1> DEFINE R == OpToRel(<, Nat)
  <1>1. IsWellFoundedOn(R, Nat)
    BY NatLessThanWellFounded
  <1>2. \A x, y \in Nat : y < x => <<y, x>> \in R
    BY Zenon DEF OpToRel
  <1> HIDE DEF R
  <1>3. PICK x \in T : \A y \in T : ~(<<y, x>> \in R)
    BY <1>1, WFMin, Zenon
  <1>4. \A y \in T : ~(y < x)
    BY <1>2, <1>3
  <1> QED BY <1>4

\* next_deadline is an instant when a timer is queued, and None otherwise.
LEMMA NextDeadline ==
    ASSUME NEW q \in SUBSET Entry
    PROVE  /\ q = {} => next_deadline(q) = None
           /\ q # {} => next_deadline(q) \in Nat
  <1>1. q = {} => next_deadline(q) = None
    BY DEF next_deadline
  <1>2. ASSUME q # {} PROVE next_deadline(q) \in Nat
    <2> DEFINE T == {e.deadline : e \in q}
    <2>1. T \in SUBSET Nat /\ T # {}
      BY <1>2 DEF Entry
    <2>2. PICK x \in T : \A y \in T : x <= y
      BY <2>1, MinExists, Zenon
    <2>3. \E e \in q : \A f \in q : e.deadline <= f.deadline
      BY <2>2
    <2>4. PICK m \in q : m = CHOOSE e \in q : \A f \in q : e.deadline <= f.deadline
      BY <2>3, Zenon
    <2> QED BY <2>4, <1>2 DEF next_deadline, Entry
  <1> QED BY <1>1, <1>2

-----------------------------------------------------------------------------
(* Programming the device. *)

DeviceType == [on : BOOLEAN, at : Nat, latch : BOOLEAN]
ProgrammingType == [op : {"none", "unchanged", "program", "disarm"}, at : Nat \cup {None}]

\* The device is enabled for the earliest deadline of q.
ArmedFor(d, q) == q # {} => d.on /\ d.at = next_deadline(q)

\* The decision between two queues is well-formed, and it is kept for a retry
\* only when it asks something of the device.
LEMMA BetweenType ==
    ASSUME NEW q \in SUBSET Entry, NEW r \in SUBSET Entry
    PROVE  LET p == between(next_deadline(q), next_deadline(r))
           IN  /\ p \in ProgrammingType /\ p.op # "none"
               /\ p.op = "program" => p.at \in Nat
  <1>1. next_deadline(q) \in Nat \cup {None} /\ next_deadline(r) \in Nat \cup {None}
    BY NextDeadline
  <1> QED BY <1>1 DEF between, ProgrammingType, None

\* Applying a well-formed decision leaves a well-formed device, and a device
\* without a latched condition without one.
LEMMA ProgrammedType ==
    ASSUME NEW p \in ProgrammingType, p.op = "program" => p.at \in Nat,
           device \in DeviceType
    PROVE  /\ Programmed(p) \in DeviceType
           /\ ~device.latch => ~Programmed(p).latch
  BY DEF ProgrammingType, DeviceType, Programmed

\* So does applying one that fails, whatever registers it got to write.
LEMMA FailedType ==
    ASSUME NEW p \in ProgrammingType, p.op = "program" => p.at \in Nat,
           device \in DeviceType, ApplyFails(p)
    PROVE  device' \in DeviceType /\ (~device.latch => ~device'.latch)
  <1>1. device.latch \in BOOLEAN
    BY DEF DeviceType
  <1>2. \/ device' \in {device, Programmed(p)}
        \/ \E l \in {device.latch, FALSE} : device' = [on |-> FALSE, at |-> 0, latch |-> l]
    BY DEF ApplyFails
  <1>3. CASE device' \in {device, Programmed(p)}
    BY <1>3, ProgrammedType
  <1>4. CASE \E l \in {device.latch, FALSE} : device' = [on |-> FALSE, at |-> 0, latch |-> l]
    <2> PICK l \in {device.latch, FALSE} : device' = [on |-> FALSE, at |-> 0, latch |-> l]
      BY <1>4
    <2>1. device'.latch = l
      OBVIOUS
    <2> QED BY <1>1, <2>1 DEF DeviceType
  <1> QED BY <1>2, <1>3, <1>4

\* A device enabled for the earliest deadline before a change of the queue is
\* enabled for the earliest one after it, once the decision is applied.
LEMMA Reprogrammed ==
    ASSUME NEW r \in SUBSET Entry, queue \in SUBSET Entry, device \in DeviceType,
           ArmedFor(device, queue)
    PROVE  ArmedFor(Programmed(between(next_deadline(queue), next_deadline(r))), r)
  <1> DEFINE b == next_deadline(queue)
             a == next_deadline(r)
  <1> SUFFICES ASSUME r # {}
               PROVE  LET d == Programmed(between(b, a)) IN d.on /\ d.at = a
    BY DEF ArmedFor
  <1>1. a \in Nat
    BY NextDeadline
  <1>2. CASE b = a
    <2>1. queue # {}
      BY <1>1, <1>2, NextDeadline DEF None
    <2> QED BY <2>1, <1>2 DEF ArmedFor, Programmed, between
  <1>3. CASE b # a
    <2> HIDE DEF a, b
    <2>1. between(b, a) = [op |-> "program", at |-> a]
      BY <1>1, <1>3 DEF between, None
    <2> QED BY <2>1 DEF Programmed, DeviceType
  <1> QED BY <1>2, <1>3

-----------------------------------------------------------------------------
(* Counting the timers. *)

Components(q) == {e \in q : e.owner # Cleanup}

\* live_timers counts the timers of components.
LEMMA LiveTimers ==
    ASSUME NEW q, IsFiniteSet(q)
    PROVE  /\ IsFiniteSet(Components(q))
           /\ live_timers(q) = Cardinality(Components(q))
           /\ live_timers(q) \in Nat
  <1>1. Components(q) = q \ timers_of(q, Cleanup)
    BY DEF Components, timers_of
  <1>2. q \cap timers_of(q, Cleanup) = timers_of(q, Cleanup)
    BY DEF timers_of
  <1>3. /\ IsFiniteSet(Components(q))
        /\ Cardinality(Components(q)) = Cardinality(q) - Cardinality(timers_of(q, Cleanup))
    BY <1>1, <1>2, FS_Difference
  <1> QED BY <1>3, FS_CardinalityType DEF live_timers

\* A queue that lost timers is finite and holds no more component timers.
LEMMA FewerTimers ==
    ASSUME NEW q, IsFiniteSet(q), NEW r \in SUBSET q
    PROVE  IsFiniteSet(r) /\ live_timers(r) <= live_timers(q)
  <1>1. IsFiniteSet(r)
    BY FS_Subset
  <1>2. Components(r) \in SUBSET Components(q)
    BY DEF Components
  <1>3. Cardinality(Components(r)) <= Cardinality(Components(q))
    BY <1>2, LiveTimers, FS_Subset
  <1> QED BY <1>1, <1>3, LiveTimers

\* A queue that gained one timer holds at most one component timer more, and
\* none when the timer is the cleanup timer.
LEMMA OneMoreTimer ==
    ASSUME NEW q, IsFiniteSet(q), NEW e
    PROVE  LET r == q \cup {e}
           IN  /\ IsFiniteSet(r)
               /\ live_timers(r) <= live_timers(q) + 1
               /\ e.owner = Cleanup => live_timers(r) = live_timers(q)
  <1> DEFINE r == q \cup {e}
  <1>1. IsFiniteSet(r)
    BY FS_AddElement
  <1>2. IsFiniteSet(Components(q)) /\ Cardinality(Components(q)) \in Nat
    BY LiveTimers, FS_CardinalityType
  <1>3. CASE e.owner = Cleanup
    <2>1. Components(r) = Components(q)
      BY <1>3 DEF Components
    <2> QED BY <2>1, <1>1, <1>2, LiveTimers
  <1>4. CASE e.owner # Cleanup
    <2>1. Components(r) = Components(q) \cup {e}
      BY <1>4 DEF Components
    <2>2. Cardinality(Components(q) \cup {e}) <= Cardinality(Components(q)) + 1
      <3>1. Cardinality(Components(q) \cup {e}) =
              IF e \in Components(q) THEN Cardinality(Components(q))
              ELSE Cardinality(Components(q)) + 1
        BY <1>2, FS_AddElement, Zenon
      <3> QED BY <3>1, <1>2
    <2>3. /\ live_timers(r) = Cardinality(Components(r))
          /\ live_timers(q) = Cardinality(Components(q))
      BY <1>1, LiveTimers
    <2> QED BY <2>1, <2>2, <2>3, <1>1, <1>4
  <1> QED BY <1>3, <1>4

\* With the component timers within their limit, the cleanup timer has a place.
LEMMA CleanupHasRoom ==
    ASSUME ClockAssumption, IsFiniteSet(queue), live_timers(queue) <= MaxLiveTimers, NEW left
    PROVE  CleanupFits(left)
  <1>1. SUFFICES ASSUME timers_of(queue, Cleanup) = {}
                 PROVE  Cardinality(queue) < MaxLiveTimers + 1
    BY DEF CleanupFits
  <1>2. live_timers(queue) = Cardinality(queue)
    BY <1>1, FS_EmptySet, FS_CardinalityType DEF live_timers
  <1> QED BY <1>2, FS_CardinalityType DEF ClockAssumption

-----------------------------------------------------------------------------
(* The inductive invariant. *)

Room == live_timers(queue) <= MaxLiveTimers

PendingAim == pending.op = "program" => pending.at \in Nat

LevelUnlatched == platform = "level" => ~device.latch

LevelRight ==
    platform = "level" /\ ~sick /\ pc \notin {"halted", "ended"} =>
        /\ ArmedFor(device, queue)
        /\ pending = NoProgramming
        /\ irq = "masked" => pc = "ack"

IInv == TypeOK /\ Room /\ PendingAim /\ LevelUnlatched /\ LevelRight

\* A decision about a change of the queue, applied or failed, leaves the device
\* well-formed, and right for the new queue unless it failed.
LEMMA Decided ==
    ASSUME TypeOK, NEW r \in SUBSET Entry,
           LET p == between(next_deadline(queue), next_deadline(r))
           IN  \/ apply_deadline_programming(p) /\ UNCHANGED <<faults, sick>>
               \/ ApplyFails(p)
    PROVE  /\ device' \in DeviceType /\ faults' \in Nat /\ sick' \in BOOLEAN
           /\ ~device.latch => ~device'.latch
           /\ ~sick' => ~sick /\ (ArmedFor(device, queue) => ArmedFor(device', r))
  <1> DEFINE p == between(next_deadline(queue), next_deadline(r))
  <1>1. device \in DeviceType /\ queue \in SUBSET Entry /\ faults \in Nat /\ sick \in BOOLEAN
    BY DEF TypeOK, DeviceType
  <1>2. p \in ProgrammingType /\ (p.op = "program" => p.at \in Nat)
    BY <1>1, BetweenType
  <1>3. ArmedFor(device, queue) => ArmedFor(Programmed(p), r)
    BY <1>1, Reprogrammed
  <1> HIDE DEF p
  <1>4. CASE apply_deadline_programming(p) /\ UNCHANGED <<faults, sick>>
    BY <1>1, <1>2, <1>3, <1>4, ProgrammedType DEF apply_deadline_programming
  <1>5. CASE ApplyFails(p)
    <2>1. sick' \in BOOLEAN /\ sick'
      BY <1>5 DEF ApplyFails
    <2>2. faults' \in Nat
      BY <1>1, <1>5 DEF ApplyFails
    <2>3. device' \in DeviceType /\ (~device.latch => ~device'.latch)
      BY <1>1, <1>2, <1>5, FailedType
    <2> QED BY <2>1, <2>2, <2>3
  <1> QED BY <1>4, <1>5 DEF p

\* The queue after the due timers, or one owner's, have left it.
LEMMA Shrunk ==
    ASSUME TypeOK, Room, ClockAssumption, NEW r \in SUBSET queue
    PROVE  /\ r \in SUBSET Entry /\ IsFiniteSet(r)
           /\ live_timers(r) <= MaxLiveTimers
  <1>1. IsFiniteSet(queue) /\ queue \in SUBSET Entry
    BY DEF TypeOK
  <1>2. IsFiniteSet(r) /\ live_timers(r) <= live_timers(queue)
    BY <1>1, FewerTimers
  <1>3. live_timers(r) \in Nat /\ live_timers(queue) \in Nat
    BY <1>1, <1>2, LiveTimers
  <1> QED BY <1>1, <1>2, <1>3 DEF Room, ClockAssumption

\* Signalling leaves a debt for every task.
LEMMA SignalType ==
    ASSUME TypeOK, NEW es, IsFiniteSet(es), Signal(es)
    PROVE  owed' \in [Tasks -> Int]
  <1>1. ASSUME NEW t \in Tasks PROVE Count(es, t) \in Nat
    <2>1. {e \in es : e.owner = t} \in SUBSET es
      OBVIOUS
    <2>2. IsFiniteSet({e \in es : e.owner = t})
      BY <2>1, FS_Subset
    <2> QED BY <2>2, FS_CardinalityType DEF Count
  <1>2. owed \in [Tasks -> Int]
    BY DEF TypeOK
  <1> QED BY <1>1, <1>2 DEF Signal

\* The initial state satisfies the invariant.
LEMMA InitIInv == ASSUME ClockAssumption, Init PROVE IInv
  <1>1. IsFiniteSet({}) /\ Cardinality({}) = 0
    BY FS_EmptySet
  <1>2. Components({}) = {}
    BY DEF Components
  <1>3. live_timers({}) = 0
    BY <1>1, <1>2, LiveTimers
  <1>4. TypeOK
    <2>1. pending \in [op : {"none", "program", "disarm"}, at : Nat \cup {None}]
      BY DEF Init, NoProgramming
    <2>2. device \in [on : BOOLEAN, at : Nat, latch : BOOLEAN]
      BY DEF Init
    <2>3. task \in [Tasks -> {"unborn", "live", "dead"}] /\ owed \in [Tasks -> Int]
      BY DEF Init
    <2>4. queue \in SUBSET Entry /\ IsFiniteSet(queue) /\ wakes \in SUBSET Entry /\ IsFiniteSet(wakes)
      BY <1>1 DEF Init
    <2>5. authority \in SUBSET Tasks /\ retiring \in SUBSET Tasks
      BY DEF Init, ClockAssumption
    <2>6. cleanup_timer_armed \in BOOLEAN /\ sick \in BOOLEAN
      BY DEF Init
    <2>7. now \in Nat /\ nextId \in Nat \ {0} /\ faults \in Nat /\ platform \in Platforms
      BY DEF Init
    <2>8. irq \in {"open", "raised", "masked"} /\ pc \in {"head", "recv", "ack", "halted", "ended"}
      BY DEF Init
    <2> QED BY <2>1, <2>2, <2>3, <2>4, <2>5, <2>6, <2>7, <2>8 DEF TypeOK
  <1>5. Room
    BY <1>3 DEF Init, Room, ClockAssumption
  <1>7. PendingAim /\ LevelUnlatched
    BY DEF Init, PendingAim, LevelUnlatched, NoProgramming
  <1>6. LevelRight
    BY DEF Init, LevelRight, ArmedFor
  <1> QED BY <1>4, <1>5, <1>6, <1>7 DEF IInv

\* A step that changes no part of the clock service but where the root is.
LEMMA RefusedStep ==
    ASSUME IInv, pc = "recv", Refused, faults' \in Nat
    PROVE  IInv'
  <1>1. TypeOK'
    BY DEF IInv, TypeOK, Refused, clock, hardware, world
  <1>2. Room' /\ PendingAim' /\ LevelUnlatched'
    BY DEF IInv, Room, PendingAim, LevelUnlatched, Refused, clock, hardware, live_timers, timers_of
  <1>3. LevelRight'
    BY DEF IInv, LevelRight, Refused, clock, hardware, ArmedFor, next_deadline
  <1> QED BY <1>1, <1>2, <1>3 DEF IInv

\* A step that changes the queue, decides, and returns to the loop.
LEMMA QueueStep ==
    ASSUME IInv, pc \in {"recv", "head"}, pc' \in {"head", "recv", "ended"},
           queue' \in SUBSET Entry, IsFiniteSet(queue'), live_timers(queue') <= MaxLiveTimers,
           LET p == between(next_deadline(queue), next_deadline(queue'))
           IN  \/ apply_deadline_programming(p) /\ UNCHANGED <<faults, sick>>
               \/ ApplyFails(p),
           UNCHANGED <<now, pending, platform, irq, wakes>>,
           nextId' \in Nat \ {0}, task' \in [Tasks -> {"unborn", "live", "dead"}],
           authority' \in SUBSET Tasks, retiring' \in SUBSET Tasks,
           cleanup_timer_armed' \in BOOLEAN, owed' \in [Tasks -> Int]
    PROVE  IInv'
  <1>0. TypeOK
    BY DEF IInv
  <1>1. /\ device' \in DeviceType /\ faults' \in Nat /\ sick' \in BOOLEAN
        /\ ~device.latch => ~device'.latch
        /\ ~sick' => ~sick /\ (ArmedFor(device, queue) => ArmedFor(device', queue'))
    BY <1>0, Decided
  <1>2. TypeOK'
    BY <1>0, <1>1 DEF TypeOK, DeviceType
  <1>3. Room'
    BY DEF Room, live_timers, timers_of
  <1>4. PendingAim' /\ LevelUnlatched'
    BY <1>1 DEF IInv, PendingAim, LevelUnlatched
  <1>5. LevelRight'
    <2> SUFFICES ASSUME platform' = "level", ~sick', pc' \notin {"halted", "ended"}
                 PROVE  /\ ArmedFor(device', queue')
                        /\ pending' = NoProgramming
                        /\ irq' = "masked" => pc' = "ack"
      BY DEF LevelRight, ArmedFor, next_deadline, NoProgramming
    <2>1. platform = "level" /\ ~sick /\ pc \notin {"halted", "ended"}
      BY <1>1
    <2>2. ArmedFor(device, queue) /\ pending = NoProgramming /\ irq # "masked"
      BY <2>1 DEF IInv, LevelRight
    <2> QED BY <1>1, <2>2
  <1> QED BY <1>2, <1>3, <1>4, <1>5 DEF IInv

-----------------------------------------------------------------------------
(* One lemma per operation. *)

\* Arming: refused, or one timer more within the limit.
LEMMA ArmStep ==
    ASSUME ClockAssumption, IInv, NEW t \in Tasks, NEW d \in Delays, Arm(t, d)
    PROVE  IInv'
  <1> DEFINE e == [id |-> nextId, owner |-> t, deadline |-> now + d]
  <1>0. TypeOK /\ pc = "recv"
    BY DEF IInv, Arm, Receives
  <1>1. CASE ClockFails /\ Refused
    <2>1. faults' \in Nat
      BY <1>0, <1>1 DEF TypeOK, ClockFails
    <2> QED BY <1>0, <1>1, <2>1, RefusedStep
  <1>2. CASE Refused /\ UNCHANGED faults
    <2>1. faults' \in Nat
      BY <1>0, <1>2 DEF TypeOK
    <2> QED BY <1>0, <1>2, <2>1, RefusedStep
  <1>3. CASE /\ ArmAdmitted(t, d)
             /\ queue' = queue \cup {e}
             /\ nextId' = nextId + 1
             /\ LET p == between(next_deadline(queue), next_deadline(queue'))
                IN  \/ apply_deadline_programming(p) /\ UNCHANGED <<faults, sick>>
                    \/ ApplyFails(p)
             /\ owed' = [owed EXCEPT ![t] = @ + 1]
             /\ pc' = "head"
             /\ UNCHANGED <<now, pending, platform, irq, wakes, world>>
    <2>1. e \in Entry
      BY <1>0 DEF TypeOK, Entry, Owners, ClockAssumption
    <2>2. queue' \in SUBSET Entry
      BY <2>1, <1>0, <1>3 DEF TypeOK
    <2>3. IsFiniteSet(queue) /\ live_timers(queue) \in Nat
      BY <1>0, LiveTimers DEF TypeOK
    <2>4. IsFiniteSet(queue') /\ live_timers(queue') <= live_timers(queue) + 1
      <3> HIDE DEF e
      <3> QED BY <1>3, <2>3, OneMoreTimer
    <2>5. live_timers(queue) < MaxLiveTimers
      BY <1>3 DEF ArmAdmitted
    <2>6. live_timers(queue') <= MaxLiveTimers
      <3>1. live_timers(queue') \in Nat
        BY <2>4, LiveTimers
      <3> QED BY <3>1, <2>3, <2>4, <2>5 DEF ClockAssumption
    <2>7. nextId' \in Nat \ {0} /\ owed' \in [Tasks -> Int]
      BY <1>0, <1>3 DEF TypeOK
    <2>8. /\ task' \in [Tasks -> {"unborn", "live", "dead"}]
          /\ authority' \in SUBSET Tasks /\ retiring' \in SUBSET Tasks
          /\ cleanup_timer_armed' \in BOOLEAN
      BY <1>0, <1>3 DEF TypeOK, world
    <2> HIDE DEF e
    <2> QED BY <1>0, <1>3, <2>2, <2>4, <2>6, <2>7, <2>8, QueueStep
  <1> QED BY <1>1, <1>2, <1>3 DEF Arm

\* Cancelling: refused, or one timer less.
LEMMA CancelStep ==
    ASSUME ClockAssumption, IInv, NEW t \in Tasks, NEW i, Cancel(t, i)
    PROVE  IInv'
  <1>0. TypeOK /\ Room /\ pc = "recv"
    BY DEF IInv, Cancel, Receives
  <1>1. CASE ClockFails /\ Refused
    <2>1. faults' \in Nat
      BY <1>0, <1>1 DEF TypeOK, ClockFails
    <2> QED BY <1>0, <1>1, <2>1, RefusedStep
  <1>2. CASE Refused /\ UNCHANGED faults
    <2>1. faults' \in Nat
      BY <1>0, <1>2 DEF TypeOK
    <2> QED BY <1>0, <1>2, <2>1, RefusedStep
  <1>3. ASSUME NEW e \in timers_of(queue, t),
               queue' = queue \ {e},
               LET p == between(next_deadline(queue), next_deadline(queue'))
               IN  \/ apply_deadline_programming(p) /\ UNCHANGED <<faults, sick>>
                   \/ ApplyFails(p),
               owed' = [owed EXCEPT ![t] = @ - 1],
               pc' = "head",
               UNCHANGED <<now, nextId, pending, platform, irq, wakes, world>>
        PROVE  IInv'
    <2>1. queue' \in SUBSET Entry /\ IsFiniteSet(queue') /\ live_timers(queue') <= MaxLiveTimers
      BY <1>0, <1>3, Shrunk
    <2>2. nextId' \in Nat \ {0} /\ owed' \in [Tasks -> Int]
      BY <1>0, <1>3 DEF TypeOK
    <2>3. /\ task' \in [Tasks -> {"unborn", "live", "dead"}]
          /\ authority' \in SUBSET Tasks /\ retiring' \in SUBSET Tasks
          /\ cleanup_timer_armed' \in BOOLEAN
      BY <1>0, <1>3 DEF TypeOK, world
    <2> QED BY <1>0, <1>3, <2>1, <2>2, <2>3, QueueStep
  <1> QED BY <1>1, <1>2, <1>3 DEF Cancel

\* Launching touches no timer.
LEMMA LaunchStep ==
    ASSUME IInv, NEW t \in Tasks, Launch(t)
    PROVE  IInv'
  <1>1. TypeOK'
    BY DEF IInv, TypeOK, Launch, clock, hardware
  <1>2. Room' /\ PendingAim' /\ LevelUnlatched'
    BY DEF IInv, Room, PendingAim, LevelUnlatched, Launch, clock, hardware, live_timers, timers_of
  <1>3. LevelRight'
    BY DEF IInv, LevelRight, Launch, Receives, clock, hardware, ArmedFor, next_deadline
  <1> QED BY <1>1, <1>2, <1>3 DEF IInv

\* A death: the timers of the dead leave the queue, or stay with nobody to wake.
LEMMA DieStep ==
    ASSUME ClockAssumption, IInv, NEW t \in Tasks, Die(t)
    PROVE  IInv'
  <1>0. TypeOK /\ Room /\ pc = "recv" /\ pc' = "head"
    BY DEF IInv, Die, Receives
  <1>1. /\ task' \in [Tasks -> {"unborn", "live", "dead"}]
        /\ authority' \in SUBSET Tasks /\ retiring' \in SUBSET Tasks
        /\ cleanup_timer_armed' \in BOOLEAN /\ owed' \in [Tasks -> Int]
    BY <1>0 DEF TypeOK, Die, drop_task_clock
  <1>2. CASE ClockFails /\ UNCHANGED <<clock, hardware, sick>>
    <2>1. faults' \in Nat
      BY <1>0, <1>2 DEF TypeOK, ClockFails
    <2>2. TypeOK'
      BY <1>0, <1>1, <1>2, <2>1 DEF TypeOK, Die, clock, hardware
    <2>3. Room' /\ PendingAim' /\ LevelUnlatched'
      BY <1>2 DEF IInv, Room, PendingAim, LevelUnlatched, clock, hardware, live_timers, timers_of
    <2>4. LevelRight'
      BY <1>0, <1>2 DEF IInv, LevelRight, clock, hardware, ArmedFor, next_deadline
    <2> QED BY <2>2, <2>3, <2>4 DEF IInv
  <1>3. CASE /\ queue' = queue \ timers_of(queue, t)
             /\ LET p == between(next_deadline(queue), next_deadline(queue'))
                IN  \/ apply_deadline_programming(p) /\ UNCHANGED <<faults, sick>>
                    \/ ApplyFails(p)
             /\ UNCHANGED <<nextId, pending, platform, irq>>
    <2>1. queue' \in SUBSET Entry /\ IsFiniteSet(queue') /\ live_timers(queue') <= MaxLiveTimers
      BY <1>0, <1>3, Shrunk
    <2>2. nextId' \in Nat \ {0} /\ UNCHANGED <<now, pending, platform, irq, wakes>>
      BY <1>0, <1>3 DEF TypeOK, Die
    <2> QED BY <1>0, <1>1, <1>3, <2>1, <2>2, QueueStep
  <1> QED BY <1>2, <1>3 DEF Die, drop_task_clock

\* The cleanup queue is a queue within the limit.
LEMMA CleanupQueueType ==
    ASSUME ClockAssumption, IInv, NEW left
    PROVE  /\ CleanupQueue(left) \in SUBSET Entry /\ IsFiniteSet(CleanupQueue(left))
           /\ live_timers(CleanupQueue(left)) <= MaxLiveTimers
  <1> DEFINE e == [id |-> 0, owner |-> Cleanup, deadline |-> now + CleanupDelay]
  <1>0. TypeOK /\ Room
    BY DEF IInv
  <1>1. CASE CleanupQueue(left) = queue \ timers_of(queue, Cleanup)
    BY <1>0, <1>1, Shrunk
  <1>2. CASE CleanupQueue(left) = queue
    BY <1>0, <1>2 DEF TypeOK, Room
  <1>3. CASE CleanupQueue(left) = queue \cup {e}
    <2>1. e \in Entry /\ e.owner = Cleanup
      BY <1>0 DEF TypeOK, Entry, Owners, ClockAssumption
    <2> HIDE DEF e
    <2>2. IsFiniteSet(queue \cup {e}) /\ live_timers(queue \cup {e}) = live_timers(queue)
      BY <1>0, <2>1, OneMoreTimer DEF TypeOK
    <2>3. queue \cup {e} \in SUBSET Entry
      BY <1>0, <2>1 DEF TypeOK
    <2> QED BY <1>0, <1>3, <2>2, <2>3 DEF Room
  <1> QED BY <1>1, <1>2, <1>3 DEF CleanupQueue

\* The root halts: a fault, and whatever it was doing to the device.
LEMMA HaltStep ==
    ASSUME IInv, Halted, retiring' \in SUBSET Tasks, device' \in DeviceType,
           ~device.latch => ~device'.latch, faults' \in Nat, sick' \in BOOLEAN
    PROVE  IInv'
  <1>1. TypeOK'
    BY DEF IInv, TypeOK, Halted, DeviceType
  <1>2. Room' /\ PendingAim' /\ LevelUnlatched'
    BY DEF IInv, Room, PendingAim, LevelUnlatched, Halted, live_timers, timers_of
  <1>3. LevelRight'
    BY DEF LevelRight, Halted
  <1> QED BY <1>1, <1>2, <1>3 DEF IInv

\* The head of the loop: the cleanup timer is armed or cancelled, or the root
\* halts.
LEMMA HeadStep ==
    ASSUME ClockAssumption, IInv, Head
    PROVE  IInv'
  <1>0. TypeOK /\ pc = "head" /\ device \in DeviceType
    BY DEF IInv, Head, TypeOK, DeviceType
  <1>1. PICK left \in SUBSET retiring :
          /\ retiring' = left
          /\ \/ /\ left = {} /\ ~cleanup_timer_armed
                /\ UNCHANGED <<clock, hardware, faults, sick, cleanup_timer_armed>>
                /\ pc' = IF \E t \in Tasks : task[t] = "live" THEN "recv" ELSE "ended"
                /\ UNCHANGED <<now, wakes, task, authority, owed>>
             \/ /\ left # {} \/ cleanup_timer_armed
                /\ \/ /\ faults < MaxFaults \/ ~CleanupFits(left)
                      /\ faults' = IF CleanupFits(left) THEN faults + 1 ELSE faults
                      /\ Halted /\ UNCHANGED <<device, sick>>
                   \/ /\ CleanupFits(left)
                      /\ LET p == between(next_deadline(queue),
                                          next_deadline(CleanupQueue(left)))
                         IN  \/ ApplyFails(p) /\ Halted
                             \/ /\ queue' = CleanupQueue(left)
                                /\ apply_deadline_programming(p)
                                /\ cleanup_timer_armed' = (left # {})
                                /\ pc' = IF left = {} /\ \A t \in Tasks : task[t] # "live"
                                         THEN "ended" ELSE "recv"
                                /\ UNCHANGED <<now, nextId, pending, platform, irq, wakes,
                                               task, authority, owed, faults, sick>>
    BY Zenon DEF Head
  <1> DEFINE p == between(next_deadline(queue), next_deadline(CleanupQueue(left)))
  <1>2. retiring' \in SUBSET Tasks
    BY <1>0, <1>1 DEF TypeOK
  <1>3. /\ CleanupQueue(left) \in SUBSET Entry /\ IsFiniteSet(CleanupQueue(left))
        /\ live_timers(CleanupQueue(left)) <= MaxLiveTimers
    BY CleanupQueueType
  <1>4. CASE /\ UNCHANGED <<clock, hardware, faults, sick, cleanup_timer_armed>>
             /\ pc' = IF \E t \in Tasks : task[t] = "live" THEN "recv" ELSE "ended"
             /\ UNCHANGED <<now, wakes, task, authority, owed>>
    <2>0. pc' \in {"recv", "ended"}
      BY <1>4
    <2>1. TypeOK'
      BY <1>0, <1>2, <1>4, <2>0 DEF TypeOK, clock, hardware
    <2>2. Room' /\ PendingAim' /\ LevelUnlatched'
      BY <1>4 DEF IInv, Room, PendingAim, LevelUnlatched, clock, hardware, live_timers, timers_of
    <2>3. LevelRight'
      BY <1>0, <1>4, <2>0 DEF IInv, LevelRight, clock, hardware, ArmedFor, next_deadline
    <2> QED BY <2>1, <2>2, <2>3 DEF IInv
  <1>5. CASE /\ faults' = IF CleanupFits(left) THEN faults + 1 ELSE faults
             /\ Halted /\ UNCHANGED <<device, sick>>
    <2>1. faults' \in Nat /\ sick' \in BOOLEAN
      BY <1>0, <1>5 DEF TypeOK
    <2> QED BY <1>0, <1>2, <1>5, <2>1, HaltStep
  <1>6. CASE ApplyFails(p) /\ Halted
    <2>1. /\ device' \in DeviceType /\ faults' \in Nat /\ sick' \in BOOLEAN
          /\ ~device.latch => ~device'.latch
      BY <1>0, <1>3, <1>6, Decided
    <2> QED BY <1>2, <1>6, <2>1, HaltStep
  <1>7. CASE /\ queue' = CleanupQueue(left)
             /\ apply_deadline_programming(p)
             /\ cleanup_timer_armed' = (left # {})
             /\ pc' = IF left = {} /\ \A t \in Tasks : task[t] # "live"
                      THEN "ended" ELSE "recv"
             /\ UNCHANGED <<now, nextId, pending, platform, irq, wakes,
                            task, authority, owed, faults, sick>>
    <2>1. pc' \in {"recv", "ended"} /\ cleanup_timer_armed' \in BOOLEAN
      BY <1>7
    <2>2. /\ nextId' \in Nat \ {0} /\ task' \in [Tasks -> {"unborn", "live", "dead"}]
          /\ authority' \in SUBSET Tasks /\ owed' \in [Tasks -> Int]
      BY <1>0, <1>7 DEF TypeOK
    <2>3. queue' \in SUBSET Entry /\ IsFiniteSet(queue') /\ live_timers(queue') <= MaxLiveTimers
      BY <1>3, <1>7
    <2> QED BY <1>0, <1>2, <1>7, <2>1, <2>2, <2>3, QueueStep
  <1> QED BY <1>1, <1>4, <1>5, <1>6, <1>7

\* The decision an expiry applies: the one pending, or the change of the queue.
ExpiryProgramming ==
    IF pending # NoProgramming THEN pending
    ELSE between(next_deadline(queue), next_deadline(queue \ Due))

\* An expiry: the due timers leave the queue and the next deadline is installed.
LEMMA ServiceStep ==
    ASSUME ClockAssumption, IInv, service_timer_source
    PROVE  IInv'
  <1> DEFINE p == ExpiryProgramming
  <1>0. TypeOK /\ Room /\ pc = "recv" /\ irq = "raised"
    BY DEF IInv, service_timer_source
  <1>1. device \in DeviceType /\ queue \in SUBSET Entry /\ IsFiniteSet(queue)
    BY <1>0 DEF TypeOK, DeviceType
  <1>2. /\ queue \ Due \in SUBSET Entry /\ IsFiniteSet(queue \ Due)
        /\ live_timers(queue \ Due) <= MaxLiveTimers
    BY <1>0, Shrunk
  <1>3. Woken \in SUBSET Entry /\ IsFiniteSet(Woken)
    <2>1. Woken \in SUBSET queue
      BY DEF Woken, Due
    <2> QED BY <2>1, <1>1, FS_Subset
  <1>4. p \in ProgrammingType /\ (p.op = "program" => p.at \in Nat)
    <2>1. CASE pending # NoProgramming
      <3>1. p = pending
        BY <2>1 DEF ExpiryProgramming
      <3>2. pending \in ProgrammingType
        BY <1>0 DEF TypeOK, ProgrammingType
      <3> QED BY <3>1, <3>2 DEF IInv, PendingAim
    <2>2. CASE pending = NoProgramming
      <3>1. p = between(next_deadline(queue), next_deadline(queue \ Due))
        BY <2>2 DEF ExpiryProgramming
      <3> QED BY <3>1, <1>1, <1>2, BetweenType
    <2> QED BY <2>1, <2>2
  <1>5. CASE /\ ClockFails /\ sick' = TRUE
             /\ irq' = "masked" /\ pc' = "head"
             /\ UNCHANGED <<now, clock, platform, device, wakes, world, owed>>
    <2>1. faults' \in Nat /\ sick' \in BOOLEAN
      BY <1>0, <1>5 DEF TypeOK, ClockFails
    <2>2. TypeOK'
      BY <1>0, <1>5, <2>1 DEF TypeOK, clock, world
    <2>3. Room' /\ PendingAim' /\ LevelUnlatched'
      BY <1>5 DEF IInv, Room, PendingAim, LevelUnlatched, clock, live_timers, timers_of
    <2>4. LevelRight'
      BY <1>5 DEF LevelRight
    <2> QED BY <2>2, <2>3, <2>4 DEF IInv
  <1>6. CASE ProgramFailed(p)
    <2> USE <1>6 DEF ProgramFailed
    <2> HIDE DEF p
    <2>1. sick' /\ sick' \in BOOLEAN /\ faults' \in Nat
      BY <1>0 DEF ApplyFails, TypeOK
    <2>2. device' \in DeviceType /\ (~device.latch => ~device'.latch)
      BY <1>1, <1>4, FailedType
    <2>3. pending' \in [op : {"none", "program", "disarm"}, at : Nat \cup {None}]
      BY <1>4 DEF ApplyFails, ProgrammingType
    <2>4. owed' \in [Tasks -> Int]
      BY <1>0, <1>3, SignalType
    <2>5. TypeOK'
      BY <1>0, <1>2, <2>1, <2>2, <2>3, <2>4 DEF TypeOK, DeviceType, world
    <2>6. Room' /\ PendingAim' /\ LevelUnlatched'
      BY <1>2, <1>4, <2>2 DEF IInv, Room, PendingAim, LevelUnlatched, live_timers, timers_of
    <2>7. LevelRight'
      BY <2>1 DEF LevelRight
    <2> QED BY <2>5, <2>6, <2>7 DEF IInv
  <1>7. CASE /\ queue' = queue \ Due
             /\ apply_deadline_programming(p)
             /\ pending' = NoProgramming
             /\ wakes' = Woken
             /\ irq' = "masked" /\ pc' = "ack"
             /\ UNCHANGED <<now, nextId, platform, world, owed, faults, sick>>
    <2>1. device' = Programmed(p) /\ device' \in DeviceType /\ (~device.latch => ~device'.latch)
      BY <1>1, <1>4, <1>7, ProgrammedType DEF apply_deadline_programming
    <2>2. pending' \in [op : {"none", "program", "disarm"}, at : Nat \cup {None}]
      BY <1>7 DEF NoProgramming
    <2>3. TypeOK'
      BY <1>0, <1>2, <1>3, <1>7, <2>1, <2>2 DEF TypeOK, DeviceType, world
    <2>4. Room' /\ PendingAim' /\ LevelUnlatched'
      BY <1>2, <1>7, <2>1
      DEF IInv, Room, PendingAim, LevelUnlatched, live_timers, timers_of, NoProgramming
    <2>5. ASSUME platform = "level", ~sick PROVE ArmedFor(device', queue')
      <3>1. ArmedFor(device, queue) /\ pending = NoProgramming
        BY <1>0, <2>5 DEF IInv, LevelRight
      <3>2. p = between(next_deadline(queue), next_deadline(queue \ Due))
        BY <3>1 DEF ExpiryProgramming
      <3> QED BY <1>1, <1>2, <1>7, <2>1, <3>1, <3>2, Reprogrammed
    <2>6. LevelRight'
      BY <1>7, <2>5 DEF LevelRight, ArmedFor, next_deadline, NoProgramming
    <2> QED BY <2>3, <2>4, <2>6 DEF IInv
  <1> QED BY <1>5, <1>6, <1>7 DEF service_timer_source, ExpiryProgramming

\* The acknowledgement: on a level-triggered timer it changes the interrupt only.
LEMMA AcknowledgeStep ==
    ASSUME IInv, acknowledge_timer_irq
    PROVE  IInv'
  <1>0. TypeOK /\ pc = "ack" /\ pc' = "head" /\ wakes' = {}
    BY DEF IInv, acknowledge_timer_irq
  <1>1. owed' \in [Tasks -> Int]
    BY <1>0, SignalType DEF TypeOK, acknowledge_timer_irq
  <1>2. faults' \in Nat /\ sick' \in BOOLEAN /\ (~sick' => ~sick /\ irq' = "open")
    <2>0. faults \in Nat /\ sick \in BOOLEAN
      BY <1>0 DEF TypeOK
    <2>1. CASE irq' = "open" /\ UNCHANGED <<faults, sick>>
      BY <2>0, <2>1
    <2>2. CASE faults' = faults + 1 /\ sick' = TRUE
      BY <2>0, <2>2
    <2> QED BY <2>1, <2>2 DEF acknowledge_timer_irq
  <1>3. device' \in {device, [device EXCEPT !.latch = FALSE]}
    BY DEF acknowledge_timer_irq
  <1>4. /\ device' \in DeviceType /\ (~device.latch => ~device'.latch)
        /\ device'.on = device.on /\ device'.at = device.at
    <2>1. CASE device' = device
      BY <1>0, <2>1 DEF TypeOK, DeviceType
    <2>2. CASE device' = [device EXCEPT !.latch = FALSE]
      <3>1. device \in [on : BOOLEAN, at : Nat, latch : BOOLEAN]
        BY <1>0 DEF TypeOK
      <3> QED BY <2>2, <3>1 DEF DeviceType
    <2> QED BY <1>3, <2>1, <2>2
  <1>5. irq' \in {"open", "raised", "masked"}
    BY <1>0 DEF TypeOK, acknowledge_timer_irq
  <1>6. IsFiniteSet(wakes')
    BY <1>0, FS_EmptySet
  <1>7. UNCHANGED <<now, queue, nextId, pending, platform, task, authority, retiring,
                    cleanup_timer_armed>>
    BY DEF acknowledge_timer_irq, clock, world
  <1>8. TypeOK'
    BY <1>0, <1>1, <1>2, <1>4, <1>5, <1>6, <1>7 DEF TypeOK, DeviceType
  <1>9. Room' /\ PendingAim' /\ LevelUnlatched'
    BY <1>4, <1>7 DEF IInv, Room, PendingAim, LevelUnlatched, live_timers, timers_of
  <1>10. LevelRight'
    BY <1>0, <1>2, <1>4, <1>7 DEF IInv, LevelRight, ArmedFor, next_deadline, NoProgramming
  <1> QED BY <1>8, <1>9, <1>10 DEF IInv

\* Time, the comparator and the interrupt.
LEMMA PlatformStep ==
    ASSUME IInv, Tick \/ Elapse \/ Raise
    PROVE  IInv'
  <1>0. /\ TypeOK /\ device \in DeviceType
        /\ UNCHANGED <<clock, platform, pc, wakes, world, owed, faults, sick>>
    BY DEF IInv, TypeOK, DeviceType, Tick, Elapse, Raise, hardware
  <1>1. now' \in Nat /\ irq' \in {"open", "raised", "masked"} /\ (irq' = "masked" => irq = "masked")
    BY <1>0 DEF TypeOK, Tick, Elapse, Raise, hardware
  <1>2. device' \in DeviceType /\ (platform = "level" => device' = device)
    <2>1. CASE UNCHANGED device
      BY <1>0, <2>1
    <2>2. CASE platform # "level" /\ device' = [on |-> FALSE, at |-> 0, latch |-> TRUE]
      BY <2>2 DEF DeviceType
    <2> QED BY <2>1, <2>2 DEF Tick, Elapse, Raise, hardware
  <1>3. TypeOK'
    BY <1>0, <1>1, <1>2 DEF TypeOK, DeviceType, clock, world
  <1>4. Room' /\ PendingAim' /\ LevelUnlatched'
    BY <1>0, <1>2 DEF IInv, Room, PendingAim, LevelUnlatched, clock, live_timers, timers_of
  <1>5. LevelRight'
    BY <1>0, <1>1, <1>2 DEF IInv, LevelRight, ArmedFor, next_deadline, NoProgramming, clock
  <1> QED BY <1>3, <1>4, <1>5 DEF IInv

\* A stuttering step.
LEMMA StutterStep ==
    ASSUME IInv, UNCHANGED vars
    PROVE  IInv'
  <1>1. UNCHANGED <<now, clock, hardware, pc, wakes, world, owed, faults, sick>>
    BY DEF vars
  <1>2. TypeOK'
    BY <1>1 DEF IInv, TypeOK, clock, hardware, world
  <1>3. Room' /\ PendingAim' /\ LevelUnlatched'
    BY <1>1 DEF IInv, Room, PendingAim, LevelUnlatched, live_timers, timers_of,
                clock, hardware, world
  <1>4. LevelRight'
    BY <1>1 DEF IInv, LevelRight, ArmedFor, next_deadline, NoProgramming, clock, hardware, world
  <1> QED BY <1>2, <1>3, <1>4 DEF IInv

-----------------------------------------------------------------------------
(* The theorems. *)

\* The invariant holds in every reachable state.
LEMMA Invariance == ASSUME ClockAssumption PROVE Spec => []IInv
  <1>1. Init => IInv
    BY InitIInv
  <1>2. IInv /\ [Next]_vars => IInv'
    <2> SUFFICES ASSUME IInv, [Next]_vars PROVE IInv'
      OBVIOUS
    <2>1. CASE RootStep
      BY <2>1, HeadStep, ServiceStep, AcknowledgeStep DEF RootStep
    <2>2. CASE \E t \in Tasks : \/ \E d \in Delays : Arm(t, d)
                                \/ \E i \in 1..MaxArms : Cancel(t, i)
                                \/ Launch(t)
                                \/ Die(t)
      BY <2>2, ArmStep, CancelStep, LaunchStep, DieStep
    <2>3. CASE Tick \/ Elapse \/ Raise
      BY <2>3, PlatformStep
    <2>4. CASE UNCHANGED vars
      BY <2>4, StutterStep
    <2> QED BY <2>1, <2>2, <2>3, <2>4 DEF Next
  <1> QED BY <1>1, <1>2, PTL DEF Spec

\* On a level-triggered timer a wake is on its way whenever a timer is queued,
\* whatever the tasks arm, cancel and leave behind.
THEOREM WakeAlwaysArmed == ASSUME ClockAssumption PROVE Spec => []WakeArmed
  <1>1. IInv => WakeArmed
    BY DEF IInv, LevelRight, WakeArmed, WakeComing, ArmedFor
  <1> QED BY <1>1, Invariance, PTL

\* The root's cleanup timer always finds a place in the queue.
THEOREM CleanupAlwaysFits == ASSUME ClockAssumption PROVE Spec => []CleanupNeverRefused
  <1>1. IInv => CleanupNeverRefused
    <2> SUFFICES ASSUME IInv PROVE CleanupFits(retiring)
      BY DEF CleanupNeverRefused
    <2> QED BY CleanupHasRoom DEF IInv, TypeOK, Room
  <1> QED BY <1>1, Invariance, PTL
=============================================================================
