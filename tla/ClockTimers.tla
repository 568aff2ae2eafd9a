----------------------------- MODULE ClockTimers -----------------------------
(***************************************************************************)
(* The root task's clock service: the deadline queue of                    *)
(* slime-root/src/timer.rs, the quotas and the cleanup timer of clock.rs,  *)
(* the request, expiry and teardown handlers of                            *)
(* graph_runtime/services/policy.rs, the loop of graph_runtime/services.rs *)
(* that drives them, and the one-shot platform timer below                 *)
(* (platform_timer.rs) with its seL4 interrupt.                            *)
(*                                                                         *)
(* The root is one thread: it settles its retirements at the head of the   *)
(* loop, then blocks in a receive to which the timer's Notification is     *)
(* bound.  Time, the device and the interrupt move while it works, which   *)
(* is why servicing an expiry is two steps here: the new deadline is       *)
(* installed in the first and the source acknowledged in the second.       *)
(*                                                                         *)
(* The queue is a set.  The code keeps it sorted by (deadline, insertion), *)
(* and the order of the entries only decides the order of the signals one  *)
(* expiry sends.                                                           *)
(***************************************************************************)
EXTENDS Integers, FiniteSets

CONSTANTS
    Tasks,         \* TaskIds, never reused
    Boot,          \* the tasks that run when the loop is entered
    Holders,       \* the tasks whose clock authority holds TIMER_USE
    TimerQuota,    \* authority.timer_quota of each holder
    MaxLiveTimers, \* MAX_LIVE_TIMERS, over all holders
    Delays,        \* the delays the tasks ask for
    CleanupDelay,  \* the root's retry delay, a hundredth of a second
    MaxInstant,    \* u64::MAX: the last representable instant
    Platforms,     \* the timers: "level" (aarch64) and two that latch, "rtc"
                   \* (goldfish RTC) and "hpet"
    Cleanup,       \* CLEANUP_OWNER, an owner that is no task
    MaxArms,       \* bound: timers armed in one behaviour
    Horizon,       \* bound: the last instant of the clock
    MaxFaults      \* bound: platform calls that fail

ASSUME ClockAssumption ==
    /\ Boot \subseteq Tasks /\ Holders \subseteq Tasks
    /\ Cleanup \notin Tasks
    /\ TimerQuota \in [Holders -> Nat] /\ MaxLiveTimers \in Nat
    /\ Delays \subseteq Nat /\ CleanupDelay \in Nat \ {0}
    /\ MaxArms \in Nat /\ Horizon \in Nat /\ MaxFaults \in Nat
    /\ MaxInstant \in Nat /\ Horizon + CleanupDelay <= MaxInstant
    /\ Platforms \subseteq {"level", "rtc", "hpet"}

VARIABLES
    now,        \* the monotonic counter
    queue,      \* scheduler.entries
    nextId,     \* scheduler.next_timer_id
    pending,    \* scheduler.pending_programming
    platform,   \* the timer the root was built for
    device,     \* the one-shot comparator: enabled, its deadline, its latch
    irq,        \* "open", "raised" (Notification pending) or "masked"
    pc,         \* the root: "head", "recv", "ack", "halted" or "ended"
    wakes,      \* the expired entries whose owners are to be signalled
    task,       \* "unborn", "live" or "dead"
    authority,  \* the tasks with a row in service.authorities
    retiring,   \* retirements whose reclamation has not succeeded yet
    cleanup_timer_armed,
    owed,       \* per live task: its timers armed, less those cancelled or signalled
    faults,     \* platform calls that have failed
    sick        \* some failure left the device or its interrupt wrong

clock == <<queue, nextId, pending>>
hardware == <<platform, device, irq>>
world == <<task, authority, retiring, cleanup_timer_armed>>
vars == <<now, clock, hardware, pc, wakes, world, owed, faults, sick>>

Owners == Tasks \cup {Cleanup}
Entry == [id : Nat, owner : Owners, deadline : Nat]

-----------------------------------------------------------------------------
(* timer.rs *)

\* An empty queue has no next deadline.
None == -1

\* The earliest queued deadline.
next_deadline(q) ==
    IF q = {} THEN None
    ELSE (CHOOSE e \in q : \A f \in q : e.deadline <= f.deadline).deadline

\* Mutant: an earlier deadline is programmed, a later one never is.
between_earlier(before, after) ==
    IF before = after \/ (before # None /\ before < after)
    THEN [op |-> "unchanged", at |-> None]
    ELSE [op |-> IF after = None THEN "disarm" ELSE "program", at |-> after]

\* What a change of the earliest deadline asks of the device.
between(before, after) ==
    IF before = after THEN [op |-> "unchanged", at |-> None]
    ELSE [op |-> IF after = None THEN "disarm" ELSE "program", at |-> after]

NoProgramming == [op |-> "none", at |-> None]

timers_of(q, o) == {e \in q : e.owner = o}

\* The device after a programming that succeeds.  Disarming clears the latch
\* of the platforms that have one; programming clears the HPET's before it
\* enables delivery and leaves the RTC's.  The deadline of a disabled
\* comparator is not observed and reads as zero.
Programmed(p) ==
    IF p.op = "program"
    THEN [on |-> TRUE, at |-> p.at, latch |-> device.latch /\ platform # "hpet"]
    ELSE IF p.op = "disarm" THEN [on |-> FALSE, at |-> 0, latch |-> FALSE]
    ELSE device

\* Programming changes the registers as it was told to.
apply_deadline_programming(p) == device' = Programmed(p)

\* A platform call that fails: the register writes it made before it gave up
\* leave the comparator as it was, disabled with its latch cleared or not, or,
\* where it already delivered, set to the new deadline.
ApplyFails(p) ==
    /\ p.op \notin {"unchanged", "none"}
    /\ faults < MaxFaults
    /\ faults' = faults + 1
    /\ sick' = TRUE
    /\ device' \in {device, Programmed(p)} \cup
                  {[on |-> FALSE, at |-> 0, latch |-> l] : l \in {device.latch, FALSE}}

\* The counter cannot be read; nothing was changed by the attempt.
ClockFails == faults < MaxFaults /\ faults' = faults + 1

-----------------------------------------------------------------------------
(* clock.rs *)

\* Mutant: the table is believed to have one more place.
live_timers_off(q) == Cardinality(q) - Cardinality(timers_of(q, Cleanup)) - 1

\* The component timers, without the cleanup timer.
live_timers(q) == Cardinality(q) - Cardinality(timers_of(q, Cleanup))

\* What arm admits before it asks the scheduler, and the scheduler before it
\* inserts: authority, the aggregate and the task's quota, the range of time
\* and the room in the queue of MAX_LIVE_TIMERS + 1 entries.
ArmAdmitted(t, d) ==
    /\ t \in authority \cap Holders
    /\ live_timers(queue) < MaxLiveTimers
    /\ Cardinality(timers_of(queue, t)) < TimerQuota[t]
    /\ now + d <= MaxInstant
    /\ Cardinality(queue) < MaxLiveTimers + 1

-----------------------------------------------------------------------------
(* The requests.  A raised Notification is delivered before a queued       *)
(* request, so none is received while the interrupt is pending.            *)

Receives == pc = "recv" /\ irq # "raised"

\* The service answers the request with an error and has changed nothing.
Refused ==
    /\ pc' = "head"
    /\ UNCHANGED <<now, clock, hardware, wakes, world, owed, sick>>

\* TIMER_ARM.  A failed programming is answered as an error, with the timer
\* in the queue.
Arm(t, d) ==
    /\ Receives /\ task[t] = "live" /\ nextId <= MaxArms
    /\ \/ ClockFails /\ Refused
       \/ ~ArmAdmitted(t, d) /\ Refused /\ UNCHANGED faults
       \/ /\ ArmAdmitted(t, d)
          /\ queue' = queue \cup {[id |-> nextId, owner |-> t, deadline |-> now + d]}
          /\ nextId' = nextId + 1
          /\ LET p == between(next_deadline(queue), next_deadline(queue'))
             IN  \/ apply_deadline_programming(p) /\ UNCHANGED <<faults, sick>>
                 \/ ApplyFails(p)
          /\ owed' = [owed EXCEPT ![t] = @ + 1]
          /\ pc' = "head"
          /\ UNCHANGED <<now, pending, platform, irq, wakes, world>>

\* TIMER_CANCEL of any identifier: one that is not queued, or is queued for
\* another owner, is refused.
Cancel(t, i) ==
    /\ Receives /\ task[t] = "live"
    /\ \/ ClockFails /\ Refused
       \/ /\ ~\E e \in timers_of(queue, t) : e.id = i /\ t \in authority \cap Holders
          /\ Refused /\ UNCHANGED faults
       \/ \E e \in timers_of(queue, t) :
            /\ e.id = i /\ t \in authority \cap Holders
            /\ queue' = queue \ {e}
            /\ LET p == between(next_deadline(queue), next_deadline(queue'))
               IN  \/ apply_deadline_programming(p) /\ UNCHANGED <<faults, sick>>
                   \/ ApplyFails(p)
            /\ owed' = [owed EXCEPT ![t] = @ - 1]
            /\ pc' = "head"
            /\ UNCHANGED <<now, nextId, pending, platform, irq, wakes, world>>

\* A running task has another one launched: its clock authority is declared,
\* a row for every task whether or not it holds a right.
Launch(t) ==
    /\ Receives /\ task[t] = "unborn" /\ \E u \in Tasks : task[u] = "live"
    /\ task' = [task EXCEPT ![t] = "live"]
    /\ authority' = authority \cup {t}
    /\ pc' = "head"
    /\ UNCHANGED <<now, clock, hardware, wakes, retiring, cleanup_timer_armed,
                   owed, faults, sick>>

-----------------------------------------------------------------------------
(* Teardown *)

\* Mutant: a teardown that cannot read the clock gives up.
drop_task_clock_early(t) ==
    \/ ClockFails /\ UNCHANGED <<authority, clock, hardware, sick>>
    \/ /\ queue' = queue \ timers_of(queue, t)
       /\ LET p == between(next_deadline(queue), next_deadline(queue'))
          IN  \/ apply_deadline_programming(p) /\ UNCHANGED <<faults, sick>>
              \/ ApplyFails(p)
       /\ authority' = authority \ {t}
       /\ UNCHANGED <<nextId, pending, platform, irq>>

\* The dead task's timers leave the queue and its row the table; when the
\* clock cannot be read the timers stay, to be discarded at their expiry.
drop_task_clock(t) ==
    \/ /\ ClockFails
       /\ authority' = authority \ {t}
       /\ UNCHANGED <<clock, hardware, sick>>
    \/ /\ queue' = queue \ timers_of(queue, t)
       /\ LET p == between(next_deadline(queue), next_deadline(queue'))
          IN  \/ apply_deadline_programming(p) /\ UNCHANGED <<faults, sick>>
              \/ ApplyFails(p)
       /\ authority' = authority \ {t}
       /\ UNCHANGED <<nextId, pending, platform, irq>>

\* A task's exit or fault arrives.  Its retirement is reclaimed at the head of
\* the loop, where a phase that fails leaves it pending.
Die(t) ==
    /\ Receives /\ task[t] = "live"
    /\ task' = [task EXCEPT ![t] = "dead"]
    /\ drop_task_clock(t)
    /\ retiring' = retiring \cup {t}
    /\ owed' = [owed EXCEPT ![t] = 0]
    /\ pc' = "head"
    /\ UNCHANGED <<now, wakes, cleanup_timer_armed>>

-----------------------------------------------------------------------------
(* The head of the loop *)

\* The queue once the cleanup timer is armed (unless it already is) for
\* retirements that are left, or cancelled when none is.
CleanupQueue(left) ==
    IF left = {} THEN queue \ timers_of(queue, Cleanup)
    ELSE IF timers_of(queue, Cleanup) # {} THEN queue
    ELSE queue \cup {[id |-> 0, owner |-> Cleanup, deadline |-> now + CleanupDelay]}

\* The cleanup timer needs a place in the queue.
CleanupFits(left) ==
    \/ left = {} \/ timers_of(queue, Cleanup) # {}
    \/ Cardinality(queue) < MaxLiveTimers + 1

Halted ==
    /\ pc' = "halted"
    /\ UNCHANGED <<now, queue, nextId, pending, platform, irq, wakes, task, authority,
                   cleanup_timer_armed, owed>>

\* Every pending retirement is tried again; some succeed.  A clock, a queue or
\* a device that refuses the cleanup timer halts the root.
Head ==
    /\ pc = "head"
    /\ \E left \in SUBSET retiring :
         /\ retiring' = left
         /\ \/ /\ left = {} /\ ~cleanup_timer_armed
               /\ UNCHANGED <<clock, hardware, faults, sick, cleanup_timer_armed>>
               /\ pc' = IF \E t \in Tasks : task[t] = "live" THEN "recv" ELSE "ended"
               /\ UNCHANGED <<now, wakes, task, authority, owed>>
            \/ /\ left # {} \/ cleanup_timer_armed
               /\ \/ /\ faults < MaxFaults \/ ~CleanupFits(left)
                     /\ faults' = IF CleanupFits(left) THEN faults + 1 ELSE faults
                     /\ Halted /\ UNCHANGED <<device, sick>>
                  \/ /\ CleanupFits(left)
                     /\ LET p == between(next_deadline(queue),
                                         next_deadline(CleanupQueue(left)))
                        IN  \/ ApplyFails(p) /\ Halted
                            \/ /\ queue' = CleanupQueue(left)
                               /\ apply_deadline_programming(p)
                               /\ cleanup_timer_armed' = (left # {})
                               /\ pc' = IF left = {} /\ \A t \in Tasks : task[t] # "live"
                                        THEN "ended" ELSE "recv"
                               /\ UNCHANGED <<now, nextId, pending, platform, irq, wakes, task,
                                              authority, owed, faults, sick>>

-----------------------------------------------------------------------------
(* The expiry *)

Due == {e \in queue : e.deadline <= now}

\* The wakes an expiry decides: those of component owners with a row in the
\* table.  (The batch holds MAX_LIVE_TIMERS of them, and there are no more.)
Woken == {e \in Due : e.owner \in authority}

Count(es, t) == Cardinality({e \in es : e.owner = t})

\* Each woken task's Notification is signalled, once for each of its timers.
Signal(es) ==
    owed' = [t \in Tasks |->
               IF t \in authority \cap Holders THEN owed[t] - Count(es, t) ELSE owed[t]]

\* Mutant: a failed programming returns before the wakes are delivered.
ProgramFailedSilently(p) ==
    /\ ApplyFails(p)
    /\ queue' = queue \ Due
    /\ pending' = p
    /\ irq' = "masked" /\ pc' = "head"
    /\ UNCHANGED <<now, nextId, platform, wakes, world, owed>>

\* The deadline cannot be installed: the wakes are delivered all the same, the
\* decision is kept for the next expiry, and the interrupt is not acknowledged.
ProgramFailed(p) ==
    /\ ApplyFails(p)
    /\ queue' = queue \ Due
    /\ pending' = p
    /\ Signal(Woken)
    /\ irq' = "masked" /\ pc' = "head"
    /\ UNCHANGED <<now, nextId, platform, wakes, world>>

\* The timer's badge arrives: the due timers leave the queue and the next
\* deadline is installed, a decision kept from an earlier failure first.
service_timer_source ==
    /\ pc = "recv" /\ irq = "raised"
    /\ \/ /\ ClockFails /\ sick' = TRUE
          /\ irq' = "masked" /\ pc' = "head"
          /\ UNCHANGED <<now, clock, platform, device, wakes, world, owed>>
       \/ LET p == IF pending # NoProgramming THEN pending
                   ELSE between(next_deadline(queue), next_deadline(queue \ Due))
          IN  \/ ProgramFailed(p)
              \/ /\ queue' = queue \ Due
                 /\ apply_deadline_programming(p)
                 /\ pending' = NoProgramming
                 /\ wakes' = Woken
                 /\ irq' = "masked" /\ pc' = "ack"
                 /\ UNCHANGED <<now, nextId, platform, world, owed, faults, sick>>

\* Mutant: an expiry that found nothing due is not acknowledged.
acknowledge_if_due ==
    /\ pc = "ack"
    /\ device' = [device EXCEPT !.latch = FALSE]
    /\ irq' = (IF wakes = {} THEN irq ELSE "open")
    /\ Signal(wakes) /\ wakes' = {} /\ pc' = "head"
    /\ UNCHANGED <<now, clock, platform, world, faults, sick>>

\* The source is cleared and the interrupt unmasked, or the call fails; the
\* wakes are delivered either way.
acknowledge_timer_irq ==
    /\ pc = "ack"
    /\ \/ /\ device' = [device EXCEPT !.latch = FALSE]
          /\ irq' = "open"
          /\ UNCHANGED <<faults, sick>>
       \/ /\ faults < MaxFaults /\ faults' = faults + 1 /\ sick' = TRUE
          /\ device' \in {device, [device EXCEPT !.latch = FALSE]}
          /\ UNCHANGED irq
    /\ Signal(wakes) /\ wakes' = {} /\ pc' = "head"
    /\ UNCHANGED <<now, clock, platform, world>>

-----------------------------------------------------------------------------
(* The platform *)

Tick ==
    /\ now < Horizon /\ now' = now + 1
    /\ UNCHANGED <<clock, hardware, pc, wakes, world, owed, faults, sick>>

\* A latched comparator fires once and holds the condition until it is
\* cleared; a level comparator holds it while it is past its deadline.
Elapse ==
    /\ platform # "level" /\ device.on /\ device.at <= now
    /\ device' = [on |-> FALSE, at |-> 0, latch |-> TRUE]
    /\ UNCHANGED <<now, clock, platform, irq, pc, wakes, world, owed, faults, sick>>

Asserted ==
    IF platform # "level" THEN device.latch ELSE device.on /\ device.at <= now

\* The kernel signals the Notification and masks the interrupt until the
\* handler is acknowledged.
Raise ==
    /\ irq = "open" /\ Asserted
    /\ irq' = "raised"
    /\ UNCHANGED <<now, clock, platform, device, pc, wakes, world, owed, faults, sick>>

-----------------------------------------------------------------------------
Init ==
    /\ now = 0 /\ queue = {} /\ nextId = 1 /\ pending = NoProgramming
    /\ device = [on |-> FALSE, at |-> 0, latch |-> FALSE]
    /\ platform \in Platforms
    /\ irq = "open" /\ pc = "head" /\ wakes = {}
    /\ task = [t \in Tasks |-> IF t \in Boot THEN "live" ELSE "unborn"]
    /\ authority = Boot
    /\ retiring = {} /\ cleanup_timer_armed = FALSE
    /\ owed = [t \in Tasks |-> 0]
    /\ faults = 0 /\ sick = FALSE

RootStep == Head \/ service_timer_source \/ acknowledge_timer_irq

Next ==
    \/ RootStep
    \/ \E t \in Tasks :
         \/ \E d \in Delays : Arm(t, d)
         \/ \E i \in 1..MaxArms : Cancel(t, i)
         \/ Launch(t)
         \/ Die(t)
    \/ Tick \/ Elapse \/ Raise

Spec == Init /\ [][Next]_vars

\* The root has something to do that is not a request.
RootReady == pc \in {"head", "ack"} \/ (pc = "recv" /\ irq = "raised")

\* The counter counts, the device and the kernel deliver what is due, and the
\* root runs: weak fairness of RootStep, its enabling condition spelt out and
\* the step recognised by the move of pc that is only its own.  Nothing is
\* assumed of the tasks.
FairSpec ==
    /\ Spec
    /\ []<>(~RootReady) \/ []<><<RootReady /\ pc' # pc>>_vars
    /\ WF_vars(Tick) /\ WF_vars(Elapse) /\ WF_vars(Raise)

-----------------------------------------------------------------------------
(* Properties *)

\* The clock service's state is well-formed.
TypeOK ==
    /\ now \in Nat /\ queue \in SUBSET Entry /\ IsFiniteSet(queue)
    /\ nextId \in Nat \ {0}
    /\ pending \in [op : {"none", "program", "disarm"}, at : Nat \cup {None}]
    /\ platform \in Platforms
    /\ device \in [on : BOOLEAN, at : Nat, latch : BOOLEAN]
    /\ irq \in {"open", "raised", "masked"}
    /\ pc \in {"head", "recv", "ack", "halted", "ended"}
    /\ wakes \in SUBSET Entry /\ IsFiniteSet(wakes)
    /\ task \in [Tasks -> {"unborn", "live", "dead"}]
    /\ authority \in SUBSET Tasks /\ retiring \in SUBSET Tasks
    /\ cleanup_timer_armed \in BOOLEAN
    /\ owed \in [Tasks -> Int]
    /\ faults \in Nat /\ sick \in BOOLEAN

\* While timers are queued a wake is on its way: the device is enabled for the
\* earliest of them, or its condition still waits in the latch, and the
\* interrupt is masked only between an expiry and its acknowledgement.
WakeComing ==
    ~sick /\ pc \notin {"halted", "ended"} =>
        /\ queue # {} => \/ device.on /\ device.at = next_deadline(queue)
                         \/ device.latch
        /\ irq = "masked" => pc = "ack"

\* On a level-triggered timer a wake is always on its way, although the device
\* is programmed only when the earliest deadline changes (between) and arms,
\* cancels, deaths, cleanup retries and expiries all change it.
WakeArmed == platform = "level" => WakeComing

\* The same on every platform: the acknowledgement is "called only after the
\* next deadline state has been installed so no wake window is left open"
\* (timer.rs) and "must not invalidate the newly installed deadline"
\* (platform_timer.rs).
NoWakeWindow == WakeComing

\* "Full userspace quotas cannot prevent retries" (clock.rs): the root never
\* halts because its cleanup timer finds no place, however many timers the
\* tasks hold, stale timers of the dead included.
CleanupNeverRefused == pc = "halted" => CleanupFits(retiring)

\* Of a living task's timers none disappears: each is queued, about to be
\* signalled, signalled or cancelled by the task, even when the programming or
\* the acknowledgement of an expiry failed after the timers left the queue
\* (service_timer_source: "those wake events can never be recomputed").
WakesAccounted ==
    \A t \in Tasks : task[t] = "live" => owed[t] = Count(queue, t) + Count(wakes, t)

\* No expiry signals the Notification of a task that has died, although a
\* teardown that could not read the clock leaves its timers in the queue
\* (drop_task_clock, the StaleTimerDiscarded case of on_timer_expiry).
DeadNeverSignalled ==
    [][\A t \in Tasks : owed'[t] # owed[t] => task[t] = "live"]_vars

\* On a level-triggered timer, every timer that falls due within the horizon
\* leaves the queue: its owner is
\* signalled, unless it cancelled the timer, died or the platform failed.
TimersFire ==
    \A i \in 1..MaxArms :
        (\E e \in queue : e.id = i /\ e.deadline <= Horizon)
            ~> (platform # "level" \/ sick \/ pc \in {"halted", "ended"} \/ ~\E e \in queue : e.id = i)
=============================================================================
