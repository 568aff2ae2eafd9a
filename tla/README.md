# Slime OS in TLA+

Slime OS is a `no_std` Rust system on seL4 (one core, no MCS scheduling): a root
task that owns every kernel object, a graph of isolated components described by
a *generation*, and brokers, drivers and services in user space.  This directory
models the parts of it whose correctness depends on the order in which things
happen, checks them with TLC on small instances, and proves the central facts
about the boot chain, task life, the timers and device mappings with TLAPS.

    tlc -workers 2 -config BootSelector.cfg BootSelector     one run
    tlapm BootSelectorProofs.tla                             one module's proofs

Paths below are relative to the repository's source tree.  `PROJECT.json` holds
the machine-readable index: components, runs, the line map from definitions to
source, mutants, hazards, findings and theorems.

Contents: 1 the system; 2 the modules; 3 the runs; 4 fairness; 5 the proofs;
6 findings; 7 smaller observations; 8 what is not modelled; 9 the plan.

## 1. The system and its parts

Three scheduling facts decide where the interleavings are:

* `slime-root` is a single-threaded dispatcher.  One request is handled to its
  end before the next is received, so a request is one step; what may go wrong
  is a call *inside* a request failing half way, and several tasks' requests
  arriving around one death.  (A second root thread only serves console output
  and the console's block tables.)
* Components preempt each other between any two instructions.  Everything two
  of them share in memory is interleaved store by store.
* An endpoint is a rendezvous.  `send` blocks until a receiver takes the
  message; `recv` is seL4's NBRecv and only sees a sender already blocked;
  `try_send` is NBSend and loses the message when nobody waits.

The inventory follows.  "Hard" is what makes the part difficult to test, and
"should hold" the property a reviewer would ask for; the ones in `code` are
checked today.

### Boot chain

**BootState record and slots** (`boot-contracts/src/bootstate.rs`).  State: two
redundant sectors, each an encoded record of a sequence number, the known-good
and pending generation, the remaining attempts and the accepted release.
Operations: encode, decode, stage, consume an attempt, promote, roll back,
select the live slot.  Hard: a write that is visible but not durable, a torn
sector, two slots with one sequence, the sequence at its maximum.  Should hold:
the pair behaves as one atomic durable record (`RecordSpec`).

**Boot selector** (`slime-root/src/boot_selector.rs`, the health edge in
`graph_runtime/services.rs`).  State: the selected slot, the running generation,
whether it is pending, the commit in progress.  Operations: select, spend an
attempt, verify the closure, clear an exhausted candidate, confirm, report
unhealthy.  Interacts with the block device and the service loop.  Hard: power
failing between write, flush and re-read; a device error that may or may not
have written; a candidate that never becomes healthy.  Should hold:
`CommitIsAtomic`, `CandidateEarned`, `AlwaysBootsAgain`, `CandidateSettled`.

**Generation manager** (`components/services/sel4-generation-manager`).  State: the
same two slots, owned by a running service.  Operations: create genesis, LIST,
INSPECT, STAGE, SELECT, ROLLBACK.  Hard: a crash between commit and reply, a
request at the last sequence number.  Should hold: `AckedIsDurable`,
`ReplyMatchesSlots`.

**Boot contracts** (the rest of `boot-contracts`): GPT, directory, release and
closure decoding, hashing, the object store, transfer.  Pure functions of bytes
apart from the object store's import; a verdict of the selector's store here.

**Generation admission** (`slime-root/src/generation.rs` and below): decodes and checks
one immutable image, once, before anything runs.  Its outcome is a verdict.

**Root block device** (`slime-root/src/device.rs`, `boot_selector_block.rs`): one bounded-polling virtio
request at a time.  A request succeeds, fails with unknown effect, or is cut.

### Root task

**Shared buffers** (`shared_buffer.rs`, `buffer_adapter.rs`, the allocator's
`mapping_tables.rs` and `shared_backing.rs`).  State: regions, mappings, loans,
charges against declared quotas, orphaned pages, page tables, frames.
Operations: create, map, unmap, seal, lend, map a loan, return, release,
reclaim a dead holder.  Hard: any page operation failing in the middle of a
multi-page one; an owner that releases or dies while others still borrow; a
retry of a half-done teardown.  Should hold: `ChargesExact`, `LoansAnchored`,
`FramesExclusive`, `TrackedPagesNamed`.

**Task lifecycle and supervision** (`supervision.rs`, `lifecycle.rs`,
`launched.rs`, the spawn, exit, fault and retirement code of `graph_runtime`).  State: the
task table, supervision handles, termination records, lifecycle rows, the
retirement queue, the live count.  Operations: spawn with its unwinds, fault,
exit, unhealthy report, retirement phases, status, derive, drop, restart
admission.  Hard: a second message of a dying task, a teardown that needs
several tries while a supervisor already asks to restart.  Should hold:
`LiveExact`, `IncarnationExclusive`, `RestartsObeyPolicy`.

**Capability export** (`graph_runtime/services/capability.rs`, `graph_runtime/state.rs`): the two-step
transfer of a handle from one task to another.  Operations: export, finalize,
import, cancel.  Hard: either party dying between two steps.

**Timers and clock authority** (`timer.rs`, `clock.rs`, `platform_timer.rs`,
the clock handlers of `graph_runtime/services/policy.rs`).  State: a bounded
queue of deadlines, quotas, one entry reserved for the root's own cleanup
retries, a decision kept from a failed programming, the one-shot comparator and
its interrupt.  Operations: arm, cancel, declare, drop an owner, arm or cancel
the cleanup retry, service an expiry, acknowledge.  Hard: the comparator is
written only when the earliest deadline changes; time, the comparator and the
interrupt move between installing a deadline and acknowledging the previous
one; an owner dies with timers queued; every platform call may fail.  Should
hold: `WakeArmed`, `WakesAccounted`, `CleanupNeverRefused`,
`DeadNeverSignalled`, `TimersFire`.

**Wait sets and notifications** (`wait_set.rs`, `notification.rs`): badged
capabilities minted from the generation; a death is signalled to the waiters
whose slot names the dead task, in the handler that records the death.

**I/O resource authority** (`io_resource.rs` and its services, `supervision.rs`,
the MMIO regions of `device.rs`).  State: driver rows with their quotas, leases
over shared-buffer loans, payload and queue mappings, requests, register
mappings, interrupt bindings, retirements.  Operations: grant, map registers,
bind the interrupt, declare a lease, map and release payload, map a queue,
begin and finish a request, revoke, reclaim.  Hard: the lender revokes between
any two of the driver's calls; an effect is refused half way through a
teardown, which is then run again from the start; a successor is launched
meanwhile.  Should hold: `CountsExact`, `EffectsBacked`, `DmaOnlyOverLoan`,
`RetirementCompletes`.

**Private memory** (`private_memory.rs` and below): reserve, charge, settle and release
around a growth that may fail half way.  Should hold: charges equal what is
mapped, across every unwind.

**Object allocator** (`object_allocator/`): buddy splitting and merging, the
guarantee vault, arenas revoked with their task.  Should hold: blocks partition
the untyped memory; a guarantee is always met.

**Root IPC and transfer windows, directories and scopes, child address spaces,
faults and events, console and panel**: decoding, lookup, construction and
output.  Their state changes, where other parts read them, are part of the task
module; the rest has no order of events to get wrong.

### Components

**I/O queue** (`components/proto/src/io_queue_ring.rs`).  State: two rings and
four cursors in shared memory, an epoch, an outstanding table on each side.
Operations: submit, take request, complete, take completion, begin reset,
advance the epoch, mark the driver dead.  Hard: the peer runs between a slot
write and the cursor store; a reset with answers in flight.  Should hold:
`RingsIntact`, `AnsweredAtMostOnce`.

**Network link** (`components/services/network-service/src/link.rs`,
`components/services/virtio-net-driver`).  The first real user of the queue: frame pages lent to the
driver, control requests, the reset handshake.  Hard: the device failing during
a release, a wait that runs out.  Should hold: `PagesExclusive`,
`FramesReturn`, `ReleaseCompletes`.

**Call broker** (`components/lib/src/call_broker.rs`).  State: the call table,
deferred terminals, relay buffers, the one request at the server.  Operations:
one sweep of pumps over clients, server, clock and supervision; admission,
forwarding, cancellation, replies, deadlines, deaths, parking.  Hard: blocking
sends between two parties that may both be sending, a deadline racing a reply,
a slot given to another call before the late answer comes, a buffer settled on
several paths.  Should hold: `ForwardedOnce`, `RightReply`, `TerminalIsFinal`,
`BuffersLive`, `OnlyDeadRetired`.

**Operation broker** (`components/lib/src/operation_broker.rs`): the sibling with
acceptance, feedback, retained results and client replacement.

**Fabric stream broker** (`components/services/fabric-service`,
`boot-contracts/src/stream_history.rs`, the rings of
`components/proto/src/ring.rs`).  State: the shared rings, reference-counted
sample frames, a bounded history per subscriber, a retained window per durable
publisher, deliveries outstanding, retries, the plane's time.  Operations, one
pass: reprovision a restarted reader, pump every publisher, deliver to every
subscriber, advance time, replay to a late subscriber, supervise, announce the
end.  Hard: both peers of a ring load and store one header; one frame in many
queues, evicted, expired, given up or salvaged; a publisher already terminated
while its last sample is queued; a reader replaced with samples in its ring.
Should hold: `RingsSound`, `FramesExact`, `FreshWhenDelivered`, `ReadersEnd`.

**Block driver and client, network service (sockets, DNS), filesystem, entropy,
serial, servo, Zenoh, spawn service, init, applications, testkit, Slisp, host
tools**: see section 8 and `PROJECT.json`.

## 2. The modules

| Module | Models | State and actions |
|---|---|---|
| `BootState` | the record, its encoding, its transitions and `select_bootstate` | operators only |
| `BootSlots` | the two slots on a device with a volatile cache, and the commit protocol both owners share | `media`, `cache`; `WriteSlot`, `Flush`, their failures, `PowerCut` |
| `BootRecord` | the abstract promise: one atomic durable record | `record`; `Create`, `Stage`, `Consume`, `Promote`, `Rollback` |
| `BootSelector` | the root's selector over any number of boots | extends `BootSlots` |
| `GenerationManager` | the service that owns the slots of a running system | extends `BootSlots` |
| `IoQueue` | the rings, cursors, epochs and outstanding tables | operators on a queue record |
| `LinkQueue` | network service, driver and device over one queue | extends `IoQueue` |
| `SharedBuffer`, `MCSharedBuffer` | the buffer table over the live page tables | one action per request |
| `CallBroker`, `MCCallBroker` | broker, two clients, server and clock over endpoints | one action per part of the sweep that can block or be overtaken |
| `TaskLife` | spawn, death, supervision, restart, handle export | one action per dispatcher arm |
| `ClockTimers`, `MCClockTimers` | the deadline queue, the comparator and its interrupt, teardown and cleanup retries | one action per request, two for an expiry |
| `IoResource`, `MCIoResource` | driver rows, leases, mappings, requests, revocation and retirement | one action per request or retirement phase, each effect free to be refused |
| `FabricStream`, `MCFabricStream` | the stream broker with its publishers and readers over their rings | one action per part of the pass, two per ring operation a peer can overtake |
| `BootSlotsProofs`, `BootSelectorProofs`, `BootSelectorRefines`, `BootSelectorEarned`, `GenerationManagerProofs`, `TaskLifeProofs`, `ClockTimersProofs`, `IoResourceProofs` | the proofs of section 5 | |

**Boot chain.**  `BootState` keeps `Encode` and `Decode` apart from the in-memory
record, because the pending field is an `Option` in memory and 32 bytes, zero
for none, in a slot.  Digests are model values, all undecodable bytes are one
value, `Damaged`, and `state_root`, which no transition reads, is left out.  A
completed write goes to `cache`; `Survives(slot)` is what a power cut now may
leave: the old bytes, the new ones, or a mixture that does not decode.  In
`BootSelector`, `PowerOn` is `select` up to its first device write,
`WriteCommit`, `FlushCommit` and `RereadCommit` are `commit_state` one device
request at a time, `VerifyClosure` the verification and what follows it,
`ServeRequest` and its siblings one iteration of the service loop with the
health check at its end.  `PowerLoss` and `DeviceFails` are enabled everywhere.
What a closure verifies to is fixed per behaviour and chosen in `Init`, since
nothing on the device writes beyond the two slots.  `GenerationManager` reads
the slots afresh for each request, fixes its reply, commits, then sends.

**I/O queue and link.**  An operation that writes a slot and moves a cursor is
two steps, with the peer free to run in between; task-private effects go with
the cursor store.  One direction of the link is modelled: the service lends
frame pages, sends query and reset controls and runs the release handshake; the
driver takes, validates, maps for DMA, refuses, completes, resets on request or
on a device error, waits for the acknowledgement and moves the epoch; the device
finishes chains in any order or fails.

**Shared buffers.**  A request is one action, but every adapter call below it
(map a page, unmap it, remap it read-only, release an extent) may fail, up to
`MaxFaults` times, and the action then takes the code's rollback path, orphans
included.  A holder may ask for anything at any time, so it may also map again
at addresses whose teardown failed half way.  `life` follows a holder through
`dying`, where retirement retries the reclaim, to `gone`.  Frames are a pool; the
buddy allocator and the page-table pages are not in the state.  `machine` keeps
the pages that are live apart from those the allocator tracks, because the code
can lose the difference (section 7).

**Call broker.**  The sweep runs pump by pump; a blocking `send` leaves the
broker at `send.to` until the peer receives, and the rest of the sweep waits.
Peers are modelled from the repository's own clients, server and time source:
they signal, then block, and may be preempted in between.  `Fail` is the arm in
which the broker gives up on a payload it cannot forward.  Clients without a
supervision handle, graph verification, tracing and the retry counter, which this
transport never moves, are left out.  A *workload*, chosen in `Init`, says how
many calls may be in flight, how many records each client sends and of which
kinds, which answers the server gives, how far the clock runs and who may exit.

**Task life.**  `Die` is the common tail of the fault and EXIT arms; `Retire` is
the try of the retirement phases that completes (one that fails leaves this
state as it was, which stuttering covers); `Spawn` and `SpawnFails` are
`serve_spawn` to its end and to each unwind that leaves something behind;
`RestartAdmit` is the policy; export, finalize, import and cancel carry handles
between tasks.  Required-instance halts, lifecycle states and health
dependencies, wait-set wakes and other capability kinds are left out.

**Clock and timers.**  The root receives with the timer's notification bound, so
a raised interrupt is taken before any request (`Receives`).
`service_timer_source` pops what is due and installs the next deadline;
`acknowledge_timer_irq` clears the source and delivers the wakes; `Tick`,
`Elapse` and `Raise` run between them.  `platform` tells a comparator that
asserts while it is past its deadline (aarch64) from one that latches its
expiry, and of those the goldfish RTC, whose latch programming leaves, from the
HPET, whose latch it clears.  A platform call may fail `MaxFaults` times, leaving
the registers at any point of the sequence; `sick` records that such a
failure left the device or its interrupt wrong, and the properties about the
next wake say nothing from then on.  `owed` is a history variable: a task's
timers armed, less those cancelled or signalled.  Queue order, tie-breaking and
event sequence numbers are abstracted.

**I/O resources.**  One table row per driver launched, never reused, as in the
code.  A handler validates, performs its effect (a register mapping, a DMA
mapping, an interrupt binding) and only then commits the row; the effect may be
refused, `MaxFaults` times.  `effects` holds what the kernel has installed,
independently of the rows that should back it.  Registers are unmapped by
address, as `unmap_region_at` does, so `Bases` says where drivers map them.
`reclaim_driver` is the code's list of actions, run again from the start until
all succeed; retirement then passes to the buffers and the arena, each free to be
refused too.  The two services act on one loan: `Revoke` by the lender settles
the lease before the loan is validated, as the code does.  The page charge is a
counter of width `Word`, because the code subtracts (section 7).

**Streams.**  The broker's pass is cut where it can block (`outbox`: a blocking
send waits for its reader to receive), at each publisher or subscriber, and
inside each ring operation.  A ring is its header (`head`, `tail`) and its slots.
`publish` and `consume` load the header, work on a slot and store the whole
header back, as `header()` and `put_header()` do; one core and a preemption
between the two are enough for the store to undo what the peer stored meanwhile,
and `view` (`broker.h` for the broker) is the header a party has loaded.  The copy
of one header or one slot is a single step.  So are the slot and the header store
of `publish`, and of the broker's `Take`, because no peer touches that slot in
between; a reader's slot read and its header store are two steps, because the
broker may drop and publish between them.  Each reader runs one of the five loops
of the repository's readers (`Loops`).  A *plane* is a composition chosen in
`Init`.  Provisioning is taken as done; its order matters only where a restarted
reader is mapped again (`last`).  Payload bytes, type tags, traces and occupancy
evidence are left out.

## 3. The runs

Measured with two workers.

| Run | Checks | States | Shows |
|---|---|---:|---|
| `boot_selector` | `CommitIsAtomic`, `CandidateEarned`, `RecordSpec`, `AlwaysBootsAgain`, `CandidateSettled` | 16,836 | any number of boots, each cut or failing anywhere, of a store with up to three attempts |
| `boot_unhealthy` | `UnhealthyIsNotPromoted` (violated) | ≈ 7,400 | a generation that reports itself unhealthy in its first request is promoted |
| `generation_manager` | `AckedIsDurable`, `ReplyMatchesSlots` | 4,724 | every request sequence from a blank disk to the last sequence number, with crashes |
| `link_queue` | `RingsIntact`, `AnsweredAtMostOnce`, `PagesExclusive`, `FramesReturn`, `ReleaseCompletes` | 135,937 | rings that wrap, resets from either side, refusals, device errors |
| `shared_buffer` | `ChargesExact`, `LoansAnchored`, `FramesExclusive`, `TrackedPagesNamed` | 271,568 | a lender with two mappings and a borrower, with a failing page operation anywhere |
| `call_broker` | `ForwardedOnce`, `OnlyDeadRetired`, `RightReply`, `BuffersLive`, `TerminalIsFinal` | 1,626,989 | five workloads: two clients contending, one of two cancelling, every kind of request and answer across a deadline, any peer dying, more refusals than the overflow queue holds |
| `task_life` | `LiveExact`, `IncarnationExclusive`, `RestartsObeyPolicy` | 1,136,149 | a supervisor, three generations of children, one record, one export |
| `fabric_stream` | `FramesExact`, `FreshWhenDelivered`, `RingsSound`, `ReadersEnd` | 645,689 | seven planes: fan-out with a failed reader, one best-effort reader, one reliable reader, merged publishers with large samples, timed QoS, the restartable robot plane, an unmatched retaining publisher |
| `stream_ring_race` | `CannotDrop` (violated) | ≈ 140 | a publish between the broker's load and store of a ring's header is undone |
| `clock_timers` | `WakeArmed`, `CleanupNeverRefused`, `WakesAccounted`, `DeadNeverSignalled`, `TimersFire` | 213,186 | tasks that arm, cancel, are launched and die while time and the interrupt move, with a failing platform call |
| `timer_wake_window` | `NoWakeWindow` (violated) | ≈ 4,700 | on a latched comparator a wake is cleared with the one before it |
| `io_resource` | `CountsExact`, `EffectsBacked`, `DmaOnlyOverLoan`, `RetirementCompletes` | 87,325 | two incarnations of a driver over two loans, revocation at any moment, one refused effect in any phase |

For each property of a passing run `PROJECT.json` names a *mutant*: one
definition replaced by a version with a plausible bug, under which TLC finds
that very property violated.  The mutated definitions stand in the modules,
marked `Mutant`, before the ones they replace.

**Bounds, and why they are enough.**

* Boot: `MaxAttempts = 3` covers none, one, and more than one attempt left after
  a launch.  `MaxSequence` stands for `u64::MAX`; the selector's longest life
  (three attempts and a settlement) stays below 8, and the manager runs into its
  7, so exhaustion of the counter is exercised there.  Two slots and three
  device requests per commit are the code's own numbers.
* Link: three slots and two pages keep the code's relation (pages plus one
  control fit the ring), and four requests make both rings wrap and a slot be
  reused.  After the epoch moves the run ends, so what is checked is one epoch
  and its closing.
* Buffers: two holders are the two roles; two pages are the least for which an
  operation fails half way; two mappings let a holder map one page beside another
  whose teardown failed.  A map also fails without a fault, on a page that is
  taken, so one fault is enough for the rollback of a failed map to fail too.
  Two buffers and two addresses allow reuse of both frames and addresses.  TLC
  also passed two faults (667,148 states), and two faults with two mappings for
  each holder (3,645,904).
* Calls: all behaviours at once are out of reach, so the workloads split them.
  Two clients with two calls in flight let one wait behind the other, be deferred
  and retried on a clock step and expire.  One client with one call in flight,
  two request ids and two to four records fills the table and the overflow
  queue, repeats a key while it is queued, forwarded or answered, cancels it at
  each of those moments, and outlives a deadline of two clock steps.
* Tasks: one boot task, one instance, three later task ids and one restart
  attempt give first launch, restart, exhaustion; one termination record and
  one export slot make both tables full.
* Streams: rings of two slots, a retained window of one sample and two to four
  samples per publisher make rings wrap and histories overflow; the instants 0 to
  2 let a deadline pass, a lease lapse, a late reader appear and a sample expire;
  one restart gives a reader replaced while its ring holds samples.  Readers are
  best-effort or RELIABLE as in the repository's compositions (`sel4-stream.zti`,
  `sel4-qos.zti`).  The invariants also passed on larger instances: the robot
  plane with five samples (5,651,809 states), one reader with four samples,
  best-effort (289,702) and reliable (322,582), a third clock step on the timed
  plane (250,195).
* Timers: instants 0 to 2 with deadlines up to 8, and a delay that overflows
  them; room for two timers, so that one task meets its quota and the other the
  table's; one failing platform call of any kind; all three platforms.
* I/O: two launches over two loans put a successor beside a retirement; every
  quota can be reached and refused; eight values of a counter tell a wrapped
  subtraction from a small one.  One driver maps its registers at one address;
  with two addresses to choose from TLC passed 132,588 states.  Two drivers at
  one address are outside what `EffectsBacked` claims (section 7).

Deadlock checking is off where the system may stop: the network link ends after
its release, buffers, drivers and tasks run out of identities, a broker's
clients finish, and the clock reaches its last instant.  It is on for the boot chain, where some step must always be possible.

## 4. Fairness

* `BootSelector`: weak fairness of `Select` (the root is single-threaded and
  polls its device boundedly, so an undisturbed boot finishes), of `Reset` (a
  halted machine is eventually reset by its operator), of serving or failing
  (`ServeRequest \/ RequiredFails`), and of `RetirementCompletes`, which is
  retried on every iteration of the loop.  The liveness properties assume in
  addition that power cuts and device errors stop (`MishapsStop`) and that the
  known-good closure verifies (`Fallback`).
* `LinkQueue`: weak fairness of the service's own steps, of the driver's loop,
  and of the device finishing each chain it owns.  Each task yields or
  waits on a notification whenever it finds nothing to do, so the other gets the
  core; new frames, errors and the decision to release are never forced.
* `FabricStream`: weak fairness of the broker's loop, of each publisher's and of
  each reader's, which seL4 schedules whenever they can run (`FairSpec` spells out
  when they can).  Readers return what they borrow when they take it, so no loan
  is refused for ever (`LoanOwed`), and the time source reports sooner or later.
  `ReadersEnd` assumes in addition that neither the broker nor a reader fails.
* `ClockTimers`: weak fairness of the counter, the comparator and the interrupt
  (hardware) and of the root's loop.  Nothing is assumed of the tasks.
* `IoResource`: weak fairness of each phase of a retirement (I/O, buffers,
  arena), which the loop
  runs again at its head and which the cleanup timer wakes when the loop would
  sleep (`services.rs:128`–190).  Effects are refused only `MaxFaults` times.

The other specifications state safety only.  The call broker has no liveness
property, because the code does not guarantee one: it can wait for ever in a
blocking send (section 7).  The progress of shared-buffer reclaim is checked only
as a part of `RetirementCompletes`.

## 5. The proofs

`BootSelectorProofs`, `BootSelectorRefines` and `BootSelectorEarned` hold
theorems about `BootSelector` for every set of identities, every number of
attempts and every width of the sequence counter:

* `AtomicCommit`: `Spec => []CommitIsAtomic`.  Wherever power fails, the next
  boot selects the record this boot had selected or the one it was committing.
* `Refinement`: `Spec => RecordSpec`.  With its slots, cache, power cuts and
  device errors, the selector implements the atomic record of `BootRecord`.
* `FateIsEarned`: `Spec => []CandidateEarned`.  A candidate is launched at most
  as often as staged, is known-good only after a boot that ran it, and is given
  up only once its attempts are spent and the fallback has verified.

`GenerationManagerProofs` holds theorems about `GenerationManager` with the same
generality:

* `AckedSurvives`: `Spec => []AckedIsDurable`.  After a transition was answered
  `STATUS_OK`, every later boot selects that record or a newer one.
* `RepliesAreTrue`: `Spec => []ReplyMatchesSlots`.  When a reply is sent, a
  refusal has changed nothing and an accepted transition is on the medium.

`TaskLifeProofs` holds theorems about `TaskLife` for any number of tasks,
instances, handle slots, exports and restart attempts:

* `CountExact`: `Spec => []LiveExact`.  The count that ends the dispatcher's
  loop is the number of tasks it serves.
* `OneIncarnation`: `Spec => []IncarnationExclusive`.  From its launch to the
  end of its teardown a task is the one its instance names.
* `PolicyObeyed`: `Spec => RestartsObeyPolicy`.  No launch precedes the instant
  its admission answered, and none follows the last attempt.

`ClockTimersProofs` holds theorems about `ClockTimers` for any number of tasks,
any quotas, any queue depth, any horizon and any number of failing calls:

* `WakeAlwaysArmed`: `Spec => []WakeArmed`.  Unless a failed platform call left
  the device wrong, a queue with a deadline in it has a wake on its way.
* `CleanupAlwaysFits`: `Spec => []CleanupNeverRefused`.  The entry
  reserved for the root's cleanup retry is always there when it is wanted.

`IoResourceProofs` holds a theorem about `IoResource` for any number of
instances, loans, launches, mappings and refused effects, and any quotas:

* `MappingsWithinLoans`: `Spec => []DmaOnlyOverLoan`.  No device mapping stands
  over a loan that was revoked or has ended, or that was made to another task.
  (A driver that returns a loan it has mapped keeps the mapping.)

Every inductive invariant contains its module's type invariant.

**Assumptions, boot.**  `BootStateAssumption`, `SelectorAssumption` and
`ManagerAssumption`: the zero digest is an identity and names none of the
generations, the selector's known-good generation and candidate differ, the
counters are naturals (the selector's with room for the builder's two records),
and the model values for "none" and "damaged" are no records.  TLC evaluates
them in every run of the modules.

**The inductive invariant of the selector.**  `CommitIsAtomic` is not inductive: it speaks of
what the slots would select and not of why.  `IInv` adds the reason.  A boot
*anchors* on the slot it selected.  That slot is never in the cache and holds
the selected record (`Anchored`).  Every content the other slot could have after
a power cut is undecodable, older (`Stale`), or the record being committed, and
that record's sequence is one above the anchor's (`CommitOK`, `CommitStep`).
Hence no two decodable slots ever carry one sequence (`Distinct`), selection
never ties, and it returns the anchor's record or the commit's (lemmas
`SelectAnchor`, `SelectCommit`).  `Idle` carries the fact across boots,
`PhaseOK` ties the program counter to the cache, and `BootOK` says which
generation a boot may promote.  The proof has one case per action;
`EncodeDecode` says that encoding loses nothing because the zero digest is never
pending.

**The refinement** maps `record` to `DurableRecord`, the record on the medium.
`Durable` adds that the target slot is stale on the medium until a flush or a
power cut puts the whole commit there, so the mapped record changes at most once
per commit, and by exactly one transition of `BootRecord`.

**The candidate's fate** needs bookkeeping that no single state shows.  `EInv`
says that the selected record and the record being committed are both `Earned`:
launches so far plus attempts left never exceed what was staged, and while the
candidate is pending the sequence plus the attempts left is constant, so a
record that gave it up has spent them all.  Between the durable
`consume_pending_attempt` and the launch it pays for, the boot holds the
difference (`Credit`, `CommitCredit`).

**The generation manager** reuses the anchor argument; its lemmas on records and
selection are in `BootSlotsProofs`.  `AckedIsDurable` is not inductive, since it
does not exclude a half-written commit that ties.  In `IInv` a request anchors
on the record it found (`Anchored`, with the history variable `before`), and
otherwise the slots are `Settled`: nothing cached, no tie, nothing acknowledged
lost.  The third situation is `Blank`: genesis may be on its way to slot A, slot
B is undecodable and nothing was ever acknowledged.  That genesis is never
written over an acknowledged history follows, because an acknowledged history is
always selectable.

**Task life.**  `TaskLifeAssumption` says that the bounds are naturals, the boot
tasks fit the table and the model value for "none" is no instance, id or row.
`LiveExact` and `IncarnationExclusive` are not inductive, because a task or a
handle that should not exist could break them.  `IInv` adds that ids not yet
given out name nothing (`Unused`), that `launched` and the history of launches
are inverse on the tasks of the table (`Named`), and that handles, held or in
flight, name spawned tasks (`Subjects`).  For the policy it adds `Waits`: a row
forgets the instant it promised only after that instant has passed.

**Timers.**  `ClockAssumption` says that the bounds are naturals, that the
cleanup retry has a positive delay which fits the counter, and that its owner is
no task.  `WakeArmed` is not inductive, because the comparator is rewritten only
when the earliest deadline changes: that it is right after a change rests on its
having been right before.  `IInv` carries this.  On a level platform, unless a
platform call failed, the device is armed for the earliest deadline of the
queue, no decision is waiting to be retried, and the interrupt is masked only
between an expiry and its acknowledgement (`LevelRight`); nothing is ever
latched there (`LevelUnlatched`), so an acknowledgement loses nothing.  Lemma
`Decided` is the heart: what `between` decides about any change of the queue
makes the device right for the new one.  `Room`, that the tasks' timers stay
within `MaxLiveTimers`, gives the second theorem.  `WakeArmed` speaks of level
platforms; `timer_wake_window` shows why it must.

**Device mappings.**  `IoAssumption` says that the bounds and quotas are
naturals, that loans are named by nonzero numbers and that the page counter's
width exceeds its quota.  `DmaOnlyOverLoan` is not inductive, because it speaks
of mappings only and both ways a loan ends work on leases.  `IInv` adds that a
payload mapping has the lease of its loan (`Mapped`), that a loan has at most
one lease, held by the task it was lent to, while the loan is neither revoked nor
ended (`Leased`), and that leases and mappings belong to a task its instance
still names and whose Io phase is not through (`Owned`, `Incumbent`).  Revocation
settles the lease and its mappings before the loan.  A dead driver's loans end
in a phase that `Owned` says finds no lease of its own left, and a relaunch
starts from an instance that holds nothing.  `Requested` says that a request is
over a payload mapping, so that settling it finds a lease to count it on.

**Only model-checked.**  Everything else in section 3.  Three kinds of claim are
beyond the prover: liveness under fairness and `ENABLED`; facts by induction over
data, such as sums over the tables of `SharedBuffer`; and modules that declare
`RECURSIVE` operators (none here does).

## 6. Findings

Three runs show the code doing what one of its own comments excludes.

1. `boot_unhealthy`.  The UNHEALTHY arm falls through to the health check, which
   promotes a pending generation on the first iteration without an outstanding
   retirement (`slime-root/src/graph_runtime/services.rs:1778`).  The comment at
   `boot_selector.rs:130` says that a fresh boot observes the lower count; it
   finds no pending record at all.
2. `timer_wake_window`.  `service_timer_source` installs the next deadline and
   `acknowledge_timer_irq` afterwards clears the interrupt of the goldfish RTC
   or the HPET (`slime-root/src/platform_timer.rs:387`).  When the new deadline
   passes between the two, the latch it sets is cleared with the old one and no
   interrupt follows.  The comments at `timer.rs:133` and
   `platform_timer.rs:382` say that this order leaves no such window.  It does
   leave none on aarch64, whose comparator asserts its level again.
3. `stream_ring_race`.  `consume` stores back the whole header it decoded at its
   start, with the head that was current then
   (`components/proto/src/ring.rs:250`).  When the publisher is scheduled in
   between and publishes, its head is overwritten: the sample is never read and
   its sequence number is used again.  The comment at `ring.rs:219` says that
   this ring cannot drop.

## 7. Smaller observations

Met while modelling; the models follow the code, and no run is devoted to them.

* Boot: damage inside the candidate's region makes the directory checksum fail
  and halts every boot before an attempt is spent (`Fallback` assumes an intact
  store).
* Buffers: a teardown that fails after its unmaps keeps its mapping records, and
  the holder may map other pages at those addresses.  The retry then untracks the
  newer page (`buffer_adapter.rs:688`), and since an untracked page counts as
  unmapped (666), the newer mapping's own unmap leaves it live with no record.
  TLC violates "every live page is tracked and recorded" along this path in eight
  steps, one of them a failing kernel call; `TrackedPagesNamed` therefore speaks
  of the pages still tracked.  Also: `map_loan` never looks at `region.sealed` (978), so a writable loan
  minted before the seal still maps read-write after it, where line 544 says
  nobody can write a sealed region; an orphaned page stays writable after a seal (`shared_buffer.rs:1159`);
  orphans are retried only when a region or a VSpace is reclaimed; a loan may be
  minted to a receiver already reclaimed.
* Link: a completion published in the fresh epoch puts `complete_head` above
  `submit_head`, which is why `RingsIntact` asks for valid cursors in the first
  epoch only; a frame published after the sweep of a device-error reset is
  never settled, hence `driver.faulted` in `FramesReturn`.
* Calls: a peer preempted between its signal and its send is missed by the sweep,
  and the broker parks with a sender waiting (`call_broker.rs:668`; 22 states).
  `pump_time` clears `server_call` at the deadline although the server still
  executes (1796), so the next forward may block against the late blocking reply,
  which the comment at 1226 excludes; a server that dies while the broker sends
  to it blocks the broker as well (5 states).  A shared request at the server is
  cancelled, the cancellation is forwarded, and a clock step before the deadline
  puts the record back to Forwarding (1820, 1234); the `Cancelled` reply then
  finds no call, and the retry makes the broker fail with "forward invalid
  payload" (1298; 45 states).  A cancel of a queued shared request overwrites the
  payload and drops its relay buffer (1408), so `BuffersLive` has no converse.  A
  shared reply is sent blocking to a client that may itself be sending (1630); a
  clock step between a reply's receipt and its acknowledgement settles the call
  a second time, as TIMEOUT (1785); a request taken after the server's exit but
  before its death is read is forwarded with a blocking send (1245); a parked
  broker whose peers all exit is not woken.
* Tasks: the record sweep does not see handles in flight in the export table
  (`supervision.rs:212`), where the module comment (3) says that a record remains
  while a live handle can name it;
  exports of dead parties are never removed, so the table can fill;
  `record_termination` is first-writer-wins per unconsumed admission and not per
  task (`lifecycle.rs:288`), so a respawn without an admission masks the cause of
  the next death; an unhealthy report sets the pending terminal while its caller
  runs, an admission consumes it and the exit sets another (402), so one death
  can charge two attempts, where line 146 says it cannot; a cancelled export gives back the narrowed rights; an outcome
  is lost when every record is held.
* Timers: a failed clock read or programming while an expiry is serviced returns
  before the acknowledgement, so the interrupt stays masked and the retry of
  `pending_programming` (tested at `timer.rs:998`) is never reached; a failed
  programming in an arm request answers an error and leaves the timer queued; a
  decision kept from an earlier failure replaces the newer one.
* Streams (`main.rs` of `fabric-service`): the stale header store of finding 3
  works in both directions, so a reader's sample may also be delivered again, and
  a publisher's last sample lost, where 1963 says that it is always consumed.  On
  a best-effort ring the broker drops samples too (2769): a reader preempted
  between its slot read and its header store while the broker drops and publishes
  finds later slots `Malformed`, and the broker exits when the reader empties the
  ring before the drop.  Such a drop is not counted as a loss (2767, against
  `stream_history.rs:16`).  A RELIABLE reader parked with a delivery outstanding
  gets no END on a plane without QoS, where 2823 says once per subscriber; hence
  `ReadersEnd` speaks of best-effort readers.  `fan_out` empties the frame of an
  unmatched RETAINED publisher before it is retained (2584).  The blocking
  SAMPLE_LOST send (2685) has no supervision check, contrary to 3318.  A restarted
  robot reader is mapped at its old ring's address and the broker fails if that
  is still mapped (1239, 1343).
* I/O: `revoke_lease` subtracts the lease's pages even when no mapping of it is
  left (`io_resource.rs:986`), contrary to its comment at 931, so `CountsExact`
  leaves the page charge out.  `unmap_region_at` finds a region by its address in
  whatever address space it is mapped (`device.rs:934`); the UART and the servo
  driver both map theirs at one address (`MMIO_BASE`), and with two instances and
  one base TLC violates `EffectsBacked` in seven states: one driver's retirement
  unmaps the other's registers.  The driver table is never freed, so it bounds
  the drivers ever launched.  A loan's return leaves its DMA mapping and lease live until
  the driver is reclaimed (`release_lease` has no caller); a revocation settles
  the lease before `revoke_loan` validates the loan.

## 8. What is not modelled

* *Pure functions of bytes*: generation admission, GPT, directory and release
  decoding, hashing, the wire contracts, filesystem and frame-store readers, the
  Zenoh wire subset, the Slisp interpreter.  Where a model needs their result it
  is a verdict.
* *Output and construction*: console, panel, glyphs, ELF loading, the kernel
  calls that build a VSpace or CSpace.
* *Device registers*: virtio descriptor rings and MMIO.  A request is a step that
  succeeds, fails with unknown effect, or is cut.
* *Libraries*: smoltcp's TCP engine.
* *Host tools and generators*, which never run on the system, and scripted
  brokers and probes of the testkit that replay fixed sequences.
* *Wait sets and notification badges*: the handler that records a death looks up
  the waiter's slot and signals in one step of the root, and `TaskLife` already
  has the handle the slot holds; nothing can come between.
* *Torn copies in a stream ring* (`components/proto/src/ring.rs`): a preemption
  inside the copy of one header or one slot, which would show a peer half of it.
  Between the load of a header and its store the peers do run.
* *Planned*: see the next section.

Inside the modelled parts: page-table pages and the buddy allocator (buffers);
the second queue of a link pair, frame classification and the attach handshake
(link); clients without a supervision handle (calls); a regression of the counter and deadlines wider than
a device register (timers); provisioning (streams); required-instance halts, health dependencies, endpoint exports
(tasks).

## 9. Plan

Modules, in order of the risk they carry:

1. `OperationBroker`: with the endpoint vocabulary of `CallBroker`; one abstract
   "each accepted operation ends once" specification for both brokers.
2. `PrivateMemory` and `Buddy` / `GuaranteeVault`: ledgers across unwinds;
   partition of memory.
3. `BlockDriver`: a second composition over `IoQueue` that uses
   `mark_driver_dead`.
4. `NetworkService` sockets, `ObjectStore` transfer, `ZenohSession`, the servo's
   silence window, the spawn preflight.

Theorems worth proving next, cheapest first: `FramesExclusive` and
`LoansAnchored` for any table sizes; `RingsSound` for any slot count; `RingsIntact` for any
queue; `ForwardedOnce` and `RightReply` for any number of clients.
