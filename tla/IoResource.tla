----------------------------- MODULE IoResource -----------------------------
(***************************************************************************)
(* The hardware authority of userspace drivers: the root's resource table  *)
(* (slime-root/src/io_resource.rs), the seL4 adapter that carries out its  *)
(* effects (graph_runtime/services/io_resource.rs), and the retirement of  *)
(* a dead driver (graph_runtime/services.rs), beside the loans that driver *)
(* may map for its device (graph_runtime/services/capability.rs).          *)
(*                                                                         *)
(* The root serves one request at a time, so a request is one step; what   *)
(* can go wrong in the middle of it is an effect the kernel refuses.  An   *)
(* instance has one device, one page-exclusive register granule and one    *)
(* interrupt, as its budget record gives it.  A driver is named by its     *)
(* TaskId, which no later incarnation reuses; epochs repeat that           *)
(* distinction and are left out, and a row's epoch is its driver's.        *)
(* Register reads and writes change no state of the root.                  *)
(***************************************************************************)
EXTENDS Integers, Sequences, FiniteSets, SequencesExt

CONSTANTS Instances,   \* driver instances of the generation
          Bases,       \* virtual addresses a driver may map its registers at
          Loans,       \* loan identities, each created once
          MaxLaunches, \* bound: driver tasks ever launched
          MaxMaps,     \* bound: DMA mappings ever created
          MaxFaults,   \* bound: effects the kernel refuses
          LoanPages,   \* pages of a loan
          QueuePages,  \* pages of a device queue
          Quota,       \* DriverQuota, the fields the model counts
          Word         \* the size of the u32 the pages are counted in

Directions == {"DeviceRead", "DeviceWrite"}
(* declare_lease refuses LeaseId(0). *)
NoLease == 0

ASSUME IoAssumption ==
    /\ IsFiniteSet(Instances) /\ IsFiniteSet(Loans) /\ Loans \subseteq Nat \ {NoLease}
    /\ {MaxLaunches, MaxMaps, LoanPages, QueuePages} \subseteq Nat \ {0}
    /\ MaxFaults \in Nat
    /\ DOMAIN Quota = {"dma_pages", "dma_mappings", "outstanding_requests", "buffer_loans"}
    /\ \A f \in DOMAIN Quota : Quota[f] \in Nat
    /\ Word \in Nat /\ Word > Quota.dma_pages + LoanPages + QueuePages

VARIABLES drivers,   \* the driver rows, by TaskId
          granted,   \* the drivers whose region and interrupt grants stand
          mmio,      \* the register mappings
          irqs,      \* the drivers with a bound interrupt
          dma,       \* the DMA mappings
          leases,    \* the declared leases
          requests,  \* the outstanding requests
          next_dma,
          effects,   \* what the kernel has installed for the drivers
          run,       \* per instance: its task and where that task is
          loans,     \* the shared-buffer plane's view of each loan
          faults     \* effects the kernel may still refuse

table == <<drivers, granted, mmio, irqs, dma, leases, requests, next_dma>>
vars == <<table, effects, run, loans, faults>>

Tasks == 1..Len(drivers)
Device(t) == drivers[t].instance

EMPTY == [mmio_mappings |-> 0, irq_sources |-> 0, dma_pages |-> 0, dma_mappings |-> 0,
          outstanding_requests |-> 0, buffer_loans |-> 0]

Init ==
    /\ drivers = <<>> /\ granted = {} /\ mmio = {} /\ irqs = {}
    /\ dma = {} /\ leases = {} /\ requests = {} /\ next_dma = 1
    /\ effects = {}
    /\ run = [i \in Instances |-> [task |-> 0, at |-> "gone"]]
    /\ loans = [l \in Loans |-> [at |-> "none", to |-> 0]]
    /\ faults = MaxFaults

-----------------------------------------------------------------------------
(* The kernel's effects *)

RegisterPage(i, base) == <<"mmio", i, base>>
TrackedPage(t, base) == <<"tracked", t, base>>
Interrupt(i) == <<"irq", i>>
QueuePage(id, n) == <<"page", id, n>>
PagesOf(m) == IF m.lease = NoLease
              THEN [n \in 1..m.pages |-> QueuePage(m.id, n)] ELSE <<>>

Outcome(ok, refused, left) == [ok |-> ok, refused |-> refused, left |-> left]

(* The kernel may refuse to tear down what is there. *)
Refusals(held, e) == IF e \in held /\ faults > 0 THEN {Outcome(FALSE, 1, held)} ELSE {}

(* unmap_region_at: a region of the inventory mapped at that address, in    *)
(* whichever address space; which is first in the inventory is left open.  *)
RegionsAt(held, base) == {e \in held : e[1] = "mmio" /\ e[3] = base}

(* What goes with e: a register page is named by the page tracked for it.  *)
TornDown(held, e) ==
    IF e[1] = "tracked" THEN {{e, region} : region \in RegionsAt(held, e[3])} ELSE {{e}}

(* Mutant: tearing down what is already gone is an error. *)
perform_once(held, e) ==
    IF e \notin held THEN {Outcome(FALSE, 0, held)}
    ELSE {Outcome(TRUE, 0, held \ gone) : gone \in TornDown(held, e)} \cup Refusals(held, e)

(* One effect is torn down, or found gone already, or the kernel refuses;  *)
(* a tracked page with no region mapped at its address is an error.        *)
perform(held, e) ==
    IF e \notin held THEN {Outcome(TRUE, 0, held)}
    ELSE {Outcome(TRUE, 0, held \ gone) : gone \in TornDown(held, e)} \cup Refusals(held, e)
           \cup (IF TornDown(held, e) = {} THEN {Outcome(FALSE, 0, held)} ELSE {})

(* The actions in order, up to the first that fails. *)
PerformAll(actions) ==
    FoldLeft(LAMBDA outs, e :
               UNION {IF out.ok THEN perform(out.left, e) ELSE {out} : out \in outs},
             {Outcome(TRUE, 0, effects)}, actions)

DmaOf(t) == {m \in dma : m.driver = t}

(* reclaim_driver's list: DMA, then interrupts, then register mappings;    *)
(* settling a request and destroying a payload mapping have no effect.     *)
Actions(t) ==
    LET queues == SetToSortSeq({m \in DmaOf(t) : m.lease = NoLease}, LAMBDA a, b : a.id < b.id)
    IN  FoldLeft(LAMBDA s, m : s \o PagesOf(m), <<>>, queues)
          \o (IF t \in irqs THEN <<Interrupt(Device(t))>> ELSE <<>>)
          \o SetToSeq({TrackedPage(t, m.base) : m \in {m \in mmio : m.driver = t}})

-----------------------------------------------------------------------------
(* A driver's requests *)

Running(i) == run[i].at = "running"

(* checked_add against the quota. *)
Within(t, field, n) ==
    LET sum == drivers[t].occupancy[field] + n
    IN  sum < Word /\ sum <= Quota[field]

(* map_child takes the region's frame from wherever it was mapped. *)
MapMmio(i, base) ==
    LET t == run[i].task
    IN  /\ Running(i) /\ t \in granted
        /\ \A m \in mmio : m.driver # t
        /\ TrackedPage(t, base) \notin effects
        /\ mmio' = mmio \cup {[driver |-> t, base |-> base]}
        /\ drivers' = [drivers EXCEPT ![t].occupancy.mmio_mappings = @ + 1]
        /\ effects' = (effects \ {RegisterPage(i, b) : b \in Bases})
                         \cup {RegisterPage(i, base), TrackedPage(t, base)}
        /\ UNCHANGED <<granted, irqs, dma, leases, requests, next_dma, run, loans, faults>>

(* prepare_irq looks for any binding of the source; the adapter for a      *)
(* device slot that is taken.                                              *)
BindIrq(i) ==
    LET t == run[i].task
    IN  /\ Running(i) /\ t \in granted
        /\ \A u \in irqs : Device(u) # i
        /\ Interrupt(i) \notin effects
        /\ irqs' = irqs \cup {t}
        /\ drivers' = [drivers EXCEPT ![t].occupancy.irq_sources = @ + 1]
        /\ effects' = effects \cup {Interrupt(i)}
        /\ UNCHANGED <<granted, mmio, dma, leases, requests, next_dma, run, loans, faults>>

Mapping(t, lease, direction, pages) ==
    [id |-> next_dma, driver |-> t, lease |-> lease, direction |-> direction,
     pages |-> pages, requests |-> 0]

QueueMap(i) ==
    LET t == run[i].task
        m == Mapping(t, NoLease, "both", QueuePages)
    IN  /\ Running(i) /\ next_dma <= MaxMaps
        /\ Within(t, "dma_pages", QueuePages) /\ Within(t, "dma_mappings", 1)
        /\ dma' = dma \cup {m} /\ next_dma' = next_dma + 1
        /\ drivers' = [drivers EXCEPT ![t].occupancy.dma_pages = @ + QueuePages,
                                      ![t].occupancy.dma_mappings = @ + 1]
        /\ effects' = effects \cup ToSet(PagesOf(m))
        /\ UNCHANGED <<granted, mmio, irqs, leases, requests, run, loans, faults>>

-----------------------------------------------------------------------------
(* Payload mappings over a loan *)

LeaseOf(l) == CHOOSE held \in leases : held.id = l
Declared(l) == \E held \in leases : held.id = l
WithLease(held) == {x \in leases : x.id # held.id} \cup {held}

(* What declare_lease leaves: the lease there is, or a new one if the      *)
(* quota has room; no lease at all is a refusal.                           *)
declare_lease(t, l) ==
    IF Declared(l) THEN {held \in leases : held.id = l /\ held.driver = t}
    ELSE {held \in {[id |-> l, driver |-> t, pages |-> LoanPages, mappings |-> 0, requests |-> 0]} :
            Within(t, "buffer_loans", 1)}

(* prepare_dma: the lease's pages are charged with its first mapping. *)
prepare_dma(t, held, direction) ==
    /\ \A m \in DmaOf(t) : m.lease # held.id \/ m.direction # direction
    /\ Within(t, "dma_pages", IF held.mappings = 0 THEN held.pages ELSE 0)
    /\ Within(t, "dma_mappings", 1)

(* The lease stays declared when the mapping is refused: by its quota, as  *)
(* a duplicate, or by the adapter for frames that are not contiguous.      *)
DmaMap(i, l) ==
    LET t == run[i].task
    IN  /\ Running(i) /\ loans[l] = [at |-> "lent", to |-> t]
        /\ \E held \in declare_lease(t, l), direction \in Directions, contiguous \in BOOLEAN :
             LET maps == prepare_dma(t, held, direction) /\ contiguous /\ next_dma <= MaxMaps
                 new == IF Declared(l) THEN 0 ELSE 1
             IN  /\ leases' = WithLease(IF maps THEN [held EXCEPT !.mappings = @ + 1] ELSE held)
                 /\ dma' = IF maps THEN dma \cup {Mapping(t, l, direction, held.pages)} ELSE dma
                 /\ next_dma' = IF maps THEN next_dma + 1 ELSE next_dma
                 /\ drivers' = [drivers EXCEPT
                      ![t].occupancy.buffer_loans = @ + new,
                      ![t].occupancy.dma_pages = @ + (IF maps /\ held.mappings = 0
                                                      THEN held.pages ELSE 0),
                      ![t].occupancy.dma_mappings = @ + (IF maps THEN 1 ELSE 0)]
        /\ UNCHANGED <<granted, mmio, irqs, requests, effects, run, loans, faults>>

(* The pages go back with a queue, and with the last mapping of a lease. *)
ReleasesPages(m) ==
    m.lease = NoLease \/ ~Declared(m.lease) \/ LeaseOf(m.lease).mappings = 1

(* DMA_RELEASE: destroy_dma_mapping_id.  A queue's pages may be left half  *)
(* torn down, with the mapping still in the table.                         *)
DmaRelease(i) ==
    /\ Running(i)
    /\ \E m \in DmaOf(run[i].task) : \E out \in PerformAll(PagesOf(m)) :
         /\ m.requests = 0
         /\ effects' = out.left /\ faults' = faults - out.refused
         /\ IF ~out.ok THEN UNCHANGED <<dma, leases, drivers>>
            ELSE /\ dma' = dma \ {m}
                 /\ leases' = {IF held.id = m.lease THEN [held EXCEPT !.mappings = @ - 1]
                               ELSE held : held \in leases}
                 /\ drivers' = [drivers EXCEPT
                      ![m.driver].occupancy.dma_pages =
                          IF ReleasesPages(m) THEN (@ - m.pages) % Word ELSE @,
                      ![m.driver].occupancy.dma_mappings = @ - 1]
    /\ UNCHANGED <<granted, mmio, irqs, requests, next_dma, run, loans>>

(* Mutant: the lease's own count is forgotten. *)
Counted_not_on_lease(m, n) ==
    /\ dma' = (dma \ {m}) \cup {[m EXCEPT !.requests = @ + n]}
    /\ drivers' = [drivers EXCEPT ![m.driver].occupancy.outstanding_requests = @ + n]
    /\ UNCHANGED leases

(* Requests are counted on the mapping, on its lease and on the driver. *)
Counted(m, n) ==
    /\ dma' = (dma \ {m}) \cup {[m EXCEPT !.requests = @ + n]}
    /\ leases' = WithLease([LeaseOf(m.lease) EXCEPT !.requests = @ + n])
    /\ drivers' = [drivers EXCEPT ![m.driver].occupancy.outstanding_requests = @ + n]

begin_request(i) ==
    LET t == run[i].task
    IN  /\ Running(i) /\ Within(t, "outstanding_requests", 1)
        /\ \E m \in DmaOf(t), id \in 1..(Quota.outstanding_requests) :
             /\ m.lease # NoLease /\ Declared(m.lease)
             /\ \A r \in requests : r.driver # t \/ r.id # id
             /\ requests' = requests \cup {[driver |-> t, id |-> id, mapping |-> m.id]}
             /\ Counted(m, 1)
        /\ UNCHANGED <<granted, mmio, irqs, next_dma, effects, run, loans, faults>>

settle_request(i) ==
    /\ Running(i)
    /\ \E r \in requests, m \in dma :
         /\ r.driver = run[i].task /\ m.id = r.mapping
         /\ requests' = requests \ {r}
         /\ Counted(m, -1)
    /\ UNCHANGED <<granted, mmio, irqs, next_dma, effects, run, loans, faults>>

-----------------------------------------------------------------------------
(* The loans, from the buffer plane's side *)

Lend(l, i) ==
    /\ Running(i) /\ loans[l].at = "none"
    /\ loans' = [loans EXCEPT ![l] = [at |-> "lent", to |-> run[i].task]]
    /\ UNCHANGED <<table, effects, run, faults>>

(* The driver gives the loan back; its lease and mappings are not settled. *)
Return(i, l) ==
    /\ Running(i) /\ loans[l] = [at |-> "lent", to |-> run[i].task]
    /\ loans' = [loans EXCEPT ![l].at = "returned"]
    /\ UNCHANGED <<table, effects, run, faults>>

(* Mutant: the lease is settled but its mappings stay. *)
Revoked_mappings_stay(l) == {}

(* The mappings revoke_lease removes from the table. *)
Revoked(l) == {m \in dma : m.lease = l}

(* The lease's pages are returned whether or not a mapping of it holds     *)
(* them.                                                                   *)
revoke_lease(l) ==
    LET held == LeaseOf(l)
        gone == Revoked(l)
    IN  /\ dma' = dma \ gone
        /\ requests' = {r \in requests : \A m \in gone : r.mapping # m.id}
        /\ leases' = leases \ {held}
        /\ drivers' = [drivers EXCEPT
             ![held.driver].occupancy.dma_pages = (@ - held.pages) % Word,
             ![held.driver].occupancy.dma_mappings = @ - held.mappings,
             ![held.driver].occupancy.outstanding_requests = @ - held.requests,
             ![held.driver].occupancy.buffer_loans = @ - 1]

(* The lender revokes: the lease is settled first, whatever then becomes   *)
(* of the loan itself, which may be over or be refused by the kernel.      *)
Revoke(l) ==
    /\ loans[l].at \in {"lent", "returned"} /\ (Declared(l) \/ loans[l].at = "lent")
    /\ IF Declared(l) THEN revoke_lease(l) ELSE UNCHANGED <<drivers, dma, leases, requests>>
    /\ \E refused \in {n \in 0..1 : n <= faults /\ (n = 1 => loans[l].at = "lent")} :
         /\ faults' = faults - refused
         /\ loans' = IF loans[l].at = "lent" /\ refused = 0
                     THEN [loans EXCEPT ![l].at = "revoked"] ELSE loans
    /\ UNCHANGED <<granted, mmio, irqs, next_dma, effects, run>>

-----------------------------------------------------------------------------
(* A driver's life *)

(* install_driver; a grant of the device still held by another driver      *)
(* would refuse the launch.                                                *)
Launch(i) ==
    LET t == Len(drivers) + 1
    IN  /\ run[i].at = "gone" /\ t <= MaxLaunches
        /\ \A u \in granted : Device(u) # i
        /\ drivers' = Append(drivers, [instance |-> i, occupancy |-> EMPTY])
        /\ granted' = granted \cup {t}
        /\ run' = [run EXCEPT ![i] = [task |-> t, at |-> "running"]]
        /\ UNCHANGED <<mmio, irqs, dma, leases, requests, next_dma, effects, loans, faults>>

Die(i) ==
    /\ Running(i)
    /\ run' = [run EXCEPT ![i].at = "Io"]
    /\ UNCHANGED <<table, effects, loans, faults>>

(* Mutant: the rows go although an effect was refused. *)
Commits_always(out) == TRUE

(* No row changes unless every action succeeded. *)
Commits(out) == out.ok

reclaim_driver(t) ==
    /\ drivers' = [drivers EXCEPT ![t].occupancy = EMPTY]
    /\ granted' = granted \ {t} /\ irqs' = irqs \ {t}
    /\ mmio' = {m \in mmio : m.driver # t}
    /\ dma' = dma \ DmaOf(t)
    /\ leases' = {held \in leases : held.driver # t}
    /\ requests' = {r \in requests : r.driver # t}
    /\ UNCHANGED next_dma

(* RetirementPhase::Io, tried again at the head of the loop until it is    *)
(* through.                                                                *)
RetireIo(i) ==
    /\ run[i].at = "Io"
    /\ \E out \in PerformAll(Actions(run[i].task)) :
         /\ effects' = out.left /\ faults' = faults - out.refused
         /\ IF Commits(out)
            THEN /\ reclaim_driver(run[i].task)
                 /\ run' = [run EXCEPT ![i].at = "Buffers"]
            ELSE UNCHANGED <<table, run>>
    /\ UNCHANGED loans

(* RetirementPhase::Buffers: the dead task's loans end, unless the kernel  *)
(* refuses, before they are settled or in the cleanup that follows.        *)
RetireBuffers(i) ==
    /\ run[i].at = "Buffers"
    /\ \E refused \in {n \in 0..1 : n <= faults}, settled \in BOOLEAN :
         /\ refused = 0 => settled
         /\ faults' = faults - refused
         /\ loans' = [l \in Loans |-> IF settled /\ loans[l] = [at |-> "lent", to |-> run[i].task]
                                      THEN [loans[l] EXCEPT !.at = "ended"] ELSE loans[l]]
         /\ run' = [run EXCEPT ![i].at = IF refused = 0 THEN "Arena" ELSE @]
    /\ UNCHANGED <<table, effects>>

(* RetirementPhase::Arena: the task's objects go, or some are refused. *)
RetireArena(i) ==
    /\ run[i].at = "Arena"
    /\ \E refused \in {n \in 0..1 : n <= faults} :
         /\ faults' = faults - refused
         /\ run' = [run EXCEPT ![i].at = IF refused = 0 THEN "gone" ELSE @]
    /\ UNCHANGED <<table, effects, loans>>

Next ==
    \/ \E i \in Instances :
         \/ Launch(i) \/ Die(i) \/ RetireIo(i) \/ RetireBuffers(i) \/ RetireArena(i)
         \/ \E base \in Bases : MapMmio(i, base)
         \/ BindIrq(i) \/ QueueMap(i) \/ DmaRelease(i)
         \/ begin_request(i) \/ settle_request(i)
         \/ \E l \in Loans : Lend(l, i) \/ DmaMap(i, l) \/ Return(i, l)
    \/ \E l \in Loans : Revoke(l)

(* The serving loop retries every retirement at its head, and wakes by a   *)
(* cleanup timer while one is pending.                                     *)
Fairness == \A i \in Instances :
    WF_vars(RetireIo(i)) /\ WF_vars(RetireBuffers(i)) /\ WF_vars(RetireArena(i))

Spec == Init /\ [][Next]_vars /\ Fairness

-----------------------------------------------------------------------------
(* Properties *)

(* What the table's rows say driver t holds, its pages apart. *)
Held(t) ==
    [mmio_mappings |-> Cardinality({m \in mmio : m.driver = t}),
     irq_sources |-> Cardinality({t} \cap irqs),
     dma_mappings |-> Cardinality(DmaOf(t)),
     outstanding_requests |-> Cardinality({r \in requests : r.driver = t}),
     buffer_loans |-> Cardinality({held \in leases : held.driver = t})]

OverLease(l) == {m \in dma : m.lease = l}

(* A driver is charged for exactly the mappings, interrupts, requests and  *)
(* leases its rows hold, and leases and mappings count exactly the         *)
(* mappings and requests over them, through release, revocation and        *)
(* reclamation in any order.  Its DMA pages are left out: revoke_lease     *)
(* gives back a lease's pages when no mapping has charged them, so the     *)
(* charge is not exact.                                                    *)
CountsExact ==
    /\ \A t \in Tasks : \A f \in DOMAIN Held(t) : drivers[t].occupancy[f] = Held(t)[f]
    /\ \A held \in leases :
         /\ held.mappings = Cardinality(OverLease(held.id))
         /\ held.requests = MapThenSumSet(LAMBDA m : m.requests, OverLease(held.id))
    /\ \A m \in dma : m.requests = Cardinality({r \in requests : r.mapping = m.id})

(* Whatever the kernel still has installed for a driver is named by a row  *)
(* of its incarnation, so a teardown that failed half way loses nothing    *)
(* and none of it passes to the next one; a running driver's register      *)
(* page and interrupt are there when its rows say so (reclaim_driver: "No  *)
(* logical state changes if an adapter action fails").  It is claimed for  *)
(* drivers that map their registers at different addresses, since          *)
(* unmap_region_at takes any region at the address, whosever it is.        *)
EffectsBacked ==
    /\ \A e \in effects :
         \/ \E m \in mmio : /\ run[Device(m.driver)].task = m.driver
                            /\ e \in {RegisterPage(Device(m.driver), m.base),
                                      TrackedPage(m.driver, m.base)}
         \/ \E t \in irqs : e = Interrupt(Device(t)) /\ run[Device(t)].task = t
         \/ \E m \in dma : e \in ToSet(PagesOf(m)) /\ run[Device(m.driver)].task = m.driver
    /\ \A i \in Instances : Running(i) =>
         /\ \A m \in mmio : m.driver = run[i].task =>
                {RegisterPage(i, m.base), TrackedPage(m.driver, m.base)} \subseteq effects
         /\ run[i].task \in irqs => Interrupt(i) \in effects

(* A payload mapping is over a loan made to its own driver which has been  *)
(* neither revoked nor ended by retirement: revocation settles the lease   *)
(* first and a dead driver's I/O is reclaimed before its loans.  A driver  *)
(* that returns a loan it has mapped keeps the mapping.                    *)
DmaOnlyOverLoan ==
    \A m \in dma : m.lease # NoLease =>
        loans[m.lease].to = m.driver /\ loans[m.lease].at \in {"lent", "returned"}

(* A driver that died is gone after finitely many refusals, whatever part  *)
(* of its teardown had been carried out before each of them.               *)
RetirementCompletes ==
    \A i \in Instances : run[i].at \in {"Io", "Buffers", "Arena"} ~> run[i].at = "gone"

=============================================================================
