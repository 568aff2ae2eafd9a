------------------------------ MODULE LinkQueue ------------------------------
(***************************************************************************)
(* One direction of the network link: network-service (link.rs) as client  *)
(* and virtio-net-driver as driver of one I/O queue, with the device, the  *)
(* notifications and the peer endpoint between them.                       *)
(*                                                                         *)
(* The two tasks run on one core and preempt each other between any two    *)
(* accesses to the shared page, so each operation on the queue is a read   *)
(* of the header and a slot write (or read) followed by the cursor store.  *)
(* Everything private to a task, its table, its page slots and its system  *)
(* calls, goes with the cursor store.                                      *)
(***************************************************************************)
EXTENDS IoQueue, Sequences

CONSTANTS
    Page,           \* frame pages lent to the driver, by index
    None,
    MaxRequests     \* bound on the requests of one run

\* link.rs has four frame pages a side, one control request and eight slots.
ASSUME LinkAssumption ==
    MaxRequests \in Nat /\ IsFiniteSet(Page) /\ Page \subseteq Nat /\ Cardinality(Page) < SlotCount

VARIABLES
    queue,      \* the shared page
    client,     \* network-service's Side, Control and program counter
    driver,     \* virtio-net-driver's LinkQueue and program counter
    device,     \* chains the device owns, and its used ring
    wires,      \* request_ready and state_changed badges, and the peer endpoint
    history     \* per epoch: requests published and completions published

vars == <<queue, client, driver, device, wires, history>>

\* "bad" stands for a request the driver refuses: a frame whose length, slice
\* or lease does not check.
Kind == {"frame", "bad", "query", "reset"}

Request == [id : 1 .. MaxRequests, epoch : Nat, kind : Kind, page : Page \cup {None}]

Completion == [id : 1 .. MaxRequests, epoch : Nat, status : {"ok", "refused", "reset"}]

NoControl == [id |-> 0, answered |-> FALSE]

ClientPc == {"idle", "publish", "take", "await_control", "await_reset", "draining",
             "drained", "await_fresh", "released", "failed"}

DriverPc == {"loop", "drain", "taken", "used", "settle_all", "settle_queued", "queued",
             "await_ack", "publish", "stale", "exited", "failed"}

TypeOK ==
    /\ queue.state \in {"active", "resetting"}
    /\ \A c \in {"submit_head", "submit_tail", "complete_head", "complete_tail", "epoch"} :
           queue[c] \in Nat
    /\ queue.requests \in [0 .. SlotCount - 1 -> Request \cup {Blank}]
    /\ queue.completions \in [0 .. SlotCount - 1 -> Completion \cup {Blank}]
    /\ client.pc \in ClientPc /\ client.back \in ClientPc
    /\ client.pages \in [Page -> 0 .. MaxRequests]
    /\ client.holding \in Request \cup Completion \cup {None}
    /\ driver.pc \in DriverPc /\ driver.back \in DriverPc
    /\ driver.holding \in Request \cup {None}
    /\ driver.dma \subseteq (1 .. MaxRequests) \X Page
    /\ DOMAIN driver.table = {m[1] : m \in driver.dma}
    /\ device.used \in Seq(device.chains)

Init ==
    /\ queue = EmptyQueue(1)
    /\ client = [ pc |-> "idle", back |-> "idle", holding |-> None, epoch |-> 1,
                  table |-> NoneOutstanding, pages |-> [p \in Page |-> 0],
                  next |-> 1, control |-> NoControl ]
    /\ driver = [ pc |-> "loop", back |-> "loop", holding |-> None,
                  table |-> NoneOutstanding, dma |-> {}, swept |-> 0, faulted |-> FALSE ]
    /\ device = [chains |-> {}, used |-> <<>>]
    /\ wires = [request_ready |-> FALSE, state_changed |-> FALSE, ack |-> FALSE]
    /\ history = [sent |-> <<>>, answered |-> <<>>]

-----------------------------------------------------------------------------
(* The client. *)

\* submit up to its slot write.  Closed and Full are fatal to the service.
BeginSubmit(request) ==
    IF SubmitClosed(queue) \/ SubmitFull(queue)
    THEN /\ client' = [client EXCEPT !.pc = "failed"]
         /\ UNCHANGED <<queue, driver, device, wires, history>>
    ELSE /\ queue' = WriteRequest(queue, request)
         /\ client' = [client EXCEPT !.pc = "publish", !.holding = request]
         /\ UNCHANGED <<driver, device, wires, history>>

\* The epoch in a request slot is the header's.
NewRequest(kind, page) ==
    [id |-> client.next, epoch |-> queue.epoch, kind |-> kind, page |-> page]

\* flush and replenish submit from the first page the slot tracker holds free.
SubmitFrame(page, kind) ==
    /\ client.pc = "idle"
    /\ client.next < MaxRequests
    /\ client.pages[page] = 0 /\ \A p \in Page : p < page => client.pages[p] # 0
    /\ BeginSubmit(NewRequest(kind, page))

SubmitControl(kind) ==
    /\ client.pc = "idle"
    /\ client.next <= MaxRequests
    /\ BeginSubmit(NewRequest(kind, None))

\* Mutant: the driver is not signalled.
PublishWithoutSignal ==
    LET request == client.holding
    IN /\ client.pc = "publish"
       /\ queue' = PublishRequest(queue)
       /\ history' = [history EXCEPT !.sent = Append(@, request)]
       /\ client' = [client EXCEPT
                       !.table = Admit(@, request.id),
                       !.next = @ + 1,
                       !.holding = None,
                       !.pages = IF request.page = None THEN @
                                 ELSE [@ EXCEPT ![request.page] = request.id],
                       !.pc = "idle"]
       /\ UNCHANGED <<wires, driver, device>>

\* The head store, then admit, the page's retain or the control record, signal.
Publish ==
    LET request == client.holding
    IN /\ client.pc = "publish"
       /\ queue' = PublishRequest(queue)
       /\ history' = [history EXCEPT !.sent = Append(@, request)]
       /\ wires' = [wires EXCEPT !.request_ready = TRUE]
       /\ client' =
              IF ~CanAdmit(client.table, request.id)
              THEN [client EXCEPT !.pc = "failed"]
              ELSE [client EXCEPT
                       !.table = Admit(@, request.id),
                       !.next = @ + 1,
                       !.holding = None,
                       !.pages = IF request.page = None THEN @
                                 ELSE [@ EXCEPT ![request.page] = request.id],
                       !.control = IF request.page # None THEN @
                                   ELSE [id |-> request.id, answered |-> FALSE],
                       !.pc = CASE request.kind = "query" -> "await_control"
                                [] request.kind = "reset" -> "await_reset"
                                [] OTHER -> "idle"]
       /\ UNCHANGED <<driver, device>>

\* take_completion up to its slot read.
BeginTake ==
    /\ client.pc \in {"idle", "await_control", "draining"}
    /\ ~NoCompletion(queue)
    /\ client' = [client EXCEPT !.pc = "take", !.back = client.pc,
                                !.holding = NextCompletion(queue)]
    /\ UNCHANGED <<queue, driver, device, wires, history>>

\* The tail store, then find, settle, and drain's use of the completion.
FinishTake ==
    LET c == client.holding
        known == c.id \in DOMAIN client.table /\ c.epoch = client.epoch
        owner == {p \in Page : client.pages[p] = c.id}
    IN /\ client.pc = "take"
       /\ queue' = ConsumeCompletion(queue)
       /\ client' =
              IF ~known
              THEN [client EXCEPT !.pc = client.back, !.holding = None]
              ELSE IF c.id = client.control.id /\ ~client.control.answered
              THEN [client EXCEPT !.pc = client.back, !.holding = None,
                                  !.table = Settle(@, c.id),
                                  !.control.answered = TRUE]
              ELSE [client EXCEPT !.pc = IF owner = {} THEN "failed" ELSE client.back,
                                  !.holding = None,
                                  !.table = Settle(@, c.id),
                                  !.pages = [p \in Page |-> IF p \in owner THEN 0 ELSE @[p]]]
       /\ UNCHANGED <<driver, device, wires, history>>

ControlAnswered ==
    /\ client.pc = "await_control"
    /\ client.control.answered
    /\ client' = [client EXCEPT !.pc = "idle", !.control = NoControl]
    /\ UNCHANGED <<queue, driver, device, wires, history>>

ResetNoticed ==
    /\ client.pc = "await_reset"
    /\ wires.state_changed
    /\ wires' = [wires EXCEPT !.state_changed = FALSE]
    /\ client' = [client EXCEPT !.pc = "draining"]
    /\ UNCHANGED <<queue, driver, device, history>>

\* Mutant: the reset is acknowledged while frames are out.
AllReturnedUnchecked ==
    /\ client.pc = "draining"
    /\ NoCompletion(queue)
    /\ client' = [client EXCEPT !.pc = "drained"]
    /\ UNCHANGED <<queue, driver, device, wires, history>>

\* drain found the ring empty, and every frame is back.
AllReturned ==
    /\ client.pc = "draining"
    /\ NoCompletion(queue)
    /\ \A p \in Page : client.pages[p] = 0
    /\ client' = [client EXCEPT !.pc = "drained"]
    /\ UNCHANGED <<queue, driver, device, wires, history>>

\* The reset request is settled locally, then the reset is acknowledged.
Acknowledge ==
    /\ client.pc = "drained"
    /\ client' = [client EXCEPT !.pc = "await_fresh",
                                !.table = Settle(@, client.control.id),
                                !.control = NoControl]
    /\ wires' = [wires EXCEPT !.ack = TRUE]
    /\ UNCHANGED <<queue, driver, device, history>>

ReleaseReturns ==
    /\ client.pc = "await_fresh"
    /\ wires.state_changed
    /\ wires' = [wires EXCEPT !.state_changed = FALSE]
    /\ client' = [client EXCEPT !.pc = "released"]
    /\ UNCHANGED <<queue, driver, device, history>>

\* CONTROL_YIELDS is far beyond any answer, so the bounded waits run out only
\* when no answer is coming.
WaitRunsOut ==
    /\ client.pc \in {"await_control", "draining"}
    /\ NoCompletion(queue)
    /\ driver.pc \in {"await_ack", "exited", "failed"}
    /\ \/ client.pc = "await_control" /\ ~client.control.answered
       \/ client.pc = "draining" /\ \E p \in Page : client.pages[p] # 0
    /\ client' = [client EXCEPT !.pc = "failed"]
    /\ UNCHANGED <<queue, driver, device, wires, history>>

ClientWorks ==
    \/ Publish \/ BeginTake \/ FinishTake \/ ControlAnswered
    \/ ResetNoticed \/ AllReturned \/ Acknowledge \/ ReleaseReturns \/ WaitRunsOut

-----------------------------------------------------------------------------
(* The driver. *)

Poll ==
    /\ driver.pc = "loop"
    /\ driver' = [driver EXCEPT !.pc = IF wires.request_ready THEN "drain" ELSE "used"]
    /\ wires' = [wires EXCEPT !.request_ready = FALSE]
    /\ UNCHANGED <<queue, client, device, history>>

\* take_request up to its slot read.
TakeRequest(then, empty) ==
    /\ driver' = IF NoRequest(queue)
                 THEN [driver EXCEPT !.pc = empty]
                 ELSE [driver EXCEPT !.pc = then, !.holding = NextRequest(queue)]
    /\ UNCHANGED <<queue, client, device, wires, history>>

DrainRequests == driver.pc = "drain" /\ TakeRequest("taken", "used")

\* complete after q's other changes, up to its slot write; Full is fatal to the
\* driver.  next is the driver after it, which continues at back.
Complete(q, next, id, status, back) ==
    IF CompleteFull(q)
    THEN queue' = q /\ driver' = [next EXCEPT !.pc = "failed"]
    ELSE /\ queue' = WriteCompletion(q, id, status)
         /\ driver' = [next EXCEPT !.pc = "publish", !.back = back]

\* The head store; "stale" and "exited" are reached from the fresh epoch.
PublishAnswer ==
    /\ driver.pc = "publish"
    /\ queue' = PublishCompletion(queue)
    /\ history' = [history EXCEPT
                       !.answered = Append(@, queue.completions[SlotIndex(queue.complete_head)])]
    /\ driver' = [driver EXCEPT !.pc = driver.back, !.back = "loop"]
    /\ wires' = [wires EXCEPT !.state_changed = @ \/ driver.back = "exited"]
    /\ UNCHANGED <<client, device>>

\* Mutant: the client is not told of the reset.
StartResetSilently(q, next) ==
    /\ queue' = BeginReset(q)
    /\ driver' = [next EXCEPT !.pc = "settle_all"]
    /\ device' = [chains |-> {}, used |-> <<>>]
    /\ UNCHANGED wires

\* Both queues refuse submissions, the client is told, and the device is quiet
\* before any mapping is released.
StartReset(q, next) ==
    /\ queue' = BeginReset(q)
    /\ driver' = [next EXCEPT !.pc = "settle_all"]
    /\ wires' = [wires EXCEPT !.state_changed = TRUE]
    /\ device' = [chains |-> {}, used |-> <<>>]

\* The tail store and the rest of drain_requests' iteration: a frame that finds
\* no free slot is refused, one whose identity is outstanding ends the driver.
HandleRequest ==
    LET request == driver.holding
        q == ConsumeRequest(queue)
        next == [driver EXCEPT !.holding = None]
    IN /\ driver.pc = "taken"
       /\ UNCHANGED <<client, history>>
       /\ \/ /\ RequestStale(queue, request) \/ request.kind = "bad"
             /\ Complete(q, next, request.id, "refused", "drain")
             /\ UNCHANGED <<device, wires>>
          \/ /\ ~RequestStale(queue, request)
             /\ request.kind = "query"
             /\ Complete(q, next, request.id, "ok", "drain")
             /\ UNCHANGED <<device, wires>>
          \/ /\ ~RequestStale(queue, request)
             /\ request.kind = "reset"
             /\ StartReset(q, next)
          \/ /\ ~RequestStale(queue, request)
             /\ request.kind = "frame"
             /\ UNCHANGED wires
             /\ IF Cardinality(DOMAIN driver.table) = SlotCount
                THEN Complete(q, next, request.id, "refused", "drain") /\ UNCHANGED device
                ELSE IF ~CanAdmit(driver.table, request.id)
                THEN /\ queue' = q /\ driver' = [next EXCEPT !.pc = "failed"]
                     /\ UNCHANGED device
                ELSE /\ queue' = q
                     /\ driver' = [next EXCEPT
                            !.pc = "drain",
                            !.table = Start(Admit(@, request.id), request.id),
                            !.dma = @ \cup {<<request.id, request.page>>}]
                     /\ device' = [device EXCEPT !.chains = @ \cup {request.id}]

\* settle and settle_error: unmap, then answer.
Unmapped(id) ==
    [driver EXCEPT !.table = Settle(@, id), !.dma = {m \in @ : m[1] # id}]

DrainUsed ==
    /\ driver.pc = "used"
    /\ UNCHANGED <<client, wires, history>>
    /\ IF device.used = <<>>
       THEN /\ driver' = [driver EXCEPT !.pc = "loop"]
            /\ UNCHANGED <<queue, device>>
       ELSE LET id == Head(device.used)
            IN /\ device' = [chains |-> device.chains \ {id}, used |-> Tail(device.used)]
               /\ Complete(queue, Unmapped(id), id, "ok", "used")

\* The used ring names a chain that is not outstanding.
DeviceErrs ==
    /\ driver.pc = "used"
    /\ StartReset(queue, [driver EXCEPT !.faulted = TRUE])
    /\ UNCHANGED <<client, history>>

SettleAll ==
    /\ driver.pc = "settle_all"
    /\ UNCHANGED <<client, device, wires, history>>
    /\ IF driver.dma = {}
       THEN driver' = [driver EXCEPT !.pc = "settle_queued"] /\ UNCHANGED queue
       ELSE \E id \in DOMAIN driver.table :
                Complete(queue, Unmapped(id), id, "reset", "settle_all")

\* settle_queued makes at most SlotCount passes over what was submitted before
\* the client saw the reset.
SweepQueued ==
    /\ driver.pc = "settle_queued"
    /\ IF driver.swept < SlotCount
       THEN TakeRequest("queued", "await_ack")
       ELSE /\ driver' = [driver EXCEPT !.pc = "await_ack"]
            /\ UNCHANGED <<queue, client, device, wires, history>>

SettleQueued ==
    LET next == [driver EXCEPT !.holding = None, !.swept = @ + 1]
    IN /\ driver.pc = "queued"
       /\ IF RequestStale(queue, driver.holding)
          THEN queue' = ConsumeRequest(queue) /\ driver' = [next EXCEPT !.pc = "settle_queued"]
          ELSE Complete(ConsumeRequest(queue), next, driver.holding.id, "reset", "settle_queued")
       /\ UNCHANGED <<client, device, wires, history>>

\* The acknowledgement, advance_epoch, adopt_epoch, and one completion in the
\* fresh epoch for an identity of the old one.
FreshEpoch ==
    /\ driver.pc = "await_ack"
    /\ wires.ack
    /\ wires' = [wires EXCEPT !.ack = FALSE]
    /\ queue' = AdvanceEpoch(queue)
    /\ history' = [sent |-> <<>>, answered |-> <<>>]
    /\ driver' = [driver EXCEPT !.pc = "stale"]
    /\ UNCHANGED <<client, device>>

StaleAnswer ==
    /\ driver.pc = "stale"
    /\ Complete(queue, driver, 1, "reset", "exited")
    /\ UNCHANGED <<client, device, wires, history>>

DeviceFinishes(id) ==
    /\ id \in device.chains
    /\ \A i \in DOMAIN device.used : device.used[i] # id
    /\ device' = [device EXCEPT !.used = Append(@, id)]
    /\ UNCHANGED <<queue, client, driver, wires, history>>

ClientNext ==
    \/ \E page \in Page, kind \in {"frame", "bad"} : SubmitFrame(page, kind)
    \/ \E kind \in {"query", "reset"} : SubmitControl(kind)
    \/ ClientWorks

DriverNext ==
    \/ Poll \/ DrainRequests \/ HandleRequest \/ PublishAnswer \/ DrainUsed
    \/ SettleAll \/ SweepQueued \/ SettleQueued \/ FreshEpoch \/ StaleAnswer

Next ==
    ClientNext \/ DriverNext \/ DeviceErrs \/ \E id \in 1 .. MaxRequests : DeviceFinishes(id)

Spec == Init /\ [][Next]_vars

\* Both tasks are scheduled, and the device finishes the frames it was given.
\* Nothing obliges the service to submit or to release.
FairSpec ==
    /\ Spec
    /\ WF_vars(ClientWorks) /\ WF_vars(DriverNext)
    /\ \A id \in 1 .. MaxRequests : WF_vars(DeviceFinishes(id))

-----------------------------------------------------------------------------
(* Properties. *)

\* Between the slot write and the cursor store of either side, whatever the
\* other side does, every published slot that is not yet consumed still holds
\* exactly what its producer wrote: no overwrite after a wrap, no slot read
\* before it is complete.  Every variable keeps its type with it.
RingsIntact ==
    /\ TypeOK
    /\ \A i \in queue.submit_tail + 1 .. queue.submit_head :
           queue.requests[SlotIndex(i - 1)] = history.sent[i]
    /\ \A i \in queue.complete_tail + 1 .. queue.complete_head :
           queue.completions[SlotIndex(i - 1)] = history.answered[i]
    /\ queue.epoch = 1 => CursorsValid(queue)

\* "Their current-epoch identities still require exactly one terminal reply":
\* no request is answered twice in an epoch, by a completion, a refusal or the
\* two settlements of a reset, and only requests that were sent are answered.
AnsweredAtMostOnce ==
    queue.epoch = 1 =>
        /\ \A i, j \in DOMAIN history.answered :
               history.answered[i].id = history.answered[j].id => i = j
        /\ \A i \in DOMAIN history.answered :
               \E j \in DOMAIN history.sent : history.sent[j].id = history.answered[i].id

\* A page is mapped for the device only while the service's slot tracker holds
\* it for that very request, so neither smoltcp nor a new request can touch it.
PageExclusive ==
    /\ device.chains \subseteq {m[1] : m \in driver.dma}
    /\ client.pc # "failed" =>
           \A m \in driver.dma : client.pages[m[2]] = m[1]

\* "The client must have consumed its reset completions before the epoch moves":
\* when the driver may zero the rings, every frame request has been answered,
\* its answer read, and no mapping or table entry is left on either side.
AckAfterEverything ==
    wires.ack /\ driver.pc = "await_ack" =>
        /\ driver.dma = {}
        /\ DOMAIN client.table = {} /\ DOMAIN driver.table = {}
        /\ \A i \in DOMAIN history.sent :
               history.sent[i].page # None =>
                   \E j \in 1 .. queue.complete_tail : history.answered[j].id = history.sent[i].id

\* No page is in two hands, the change of epoch included: a page is mapped for
\* the device only while the service holds it for that request (dma_map to
\* dma_release), and the driver may rewrite the rings only once every frame was
\* answered, its answer read, and nothing is mapped (the reset handshake).
PagesExclusive == PageExclusive /\ AckAfterEverything

\* Every frame's page comes back, unless the driver stopped the link itself.
FramesReturn ==
    \A p \in Page : client.pages[p] # 0 ~> client.pages[p] = 0 \/ driver.faulted

\* A release that got its request into the ring always returns, even when the
\* device errs and the driver starts its own reset at any point of it.
ReleaseCompletes == client.pc = "await_reset" ~> client.pc = "released"
=============================================================================
