------------------------------- MODULE IoQueue -------------------------------
(***************************************************************************)
(* The shared-memory I/O queue of components/proto/src/io_queue_ring.rs:   *)
(* a request ring and a completion ring of SlotCount slots each, one       *)
(* header of cursors, and the private table of outstanding requests that   *)
(* each side keeps.                                                        *)
(*                                                                         *)
(* The operators act on a queue q and on a table.  An operation that both  *)
(* writes a slot and moves a cursor is two operators, because the other    *)
(* side can run between the two stores.  The client owns submit_head and   *)
(* complete_tail, the driver submit_tail, complete_head, state and epoch.  *)
(* A slot's bytes are the request's or completion's identity, epoch and    *)
(* kind or status; Blank is a slot nobody wrote since the rings were       *)
(* zeroed, which every validator refuses.                                  *)
(***************************************************************************)
EXTENDS Integers, FiniteSets

CONSTANTS SlotCount, Blank

ASSUME QueueAssumption == SlotCount \in Nat \ {0}

\* queue_slot_index: the count is a power of two, so the mask is a modulus.
SlotIndex(sequence) == sequence % SlotCount

\* format, or the header and rings advance_epoch leaves behind.
EmptyQueue(epoch) ==
    [ state |-> "active", epoch |-> epoch,
      submit_head |-> 0, submit_tail |-> 0, complete_head |-> 0, complete_tail |-> 0,
      requests |-> [i \in 0 .. SlotCount - 1 |-> Blank],
      completions |-> [i \in 0 .. SlotCount - 1 |-> Blank] ]

\* valid_queue_header's relations between the four cursors.
CursorsValid(q) ==
    /\ q.submit_tail <= q.submit_head
    /\ q.submit_head - q.submit_tail <= SlotCount
    /\ q.complete_tail <= q.complete_head
    /\ q.complete_head - q.complete_tail <= SlotCount
    /\ q.complete_head <= q.submit_head

-----------------------------------------------------------------------------
(* The client's side: submit and take_completion. *)

\* What submit refuses before it writes: Closed, then Full.
SubmitClosed(q) == q.state # "active"

SubmitFull(q) == q.submit_head - q.submit_tail >= SlotCount

\* Mutant: the slot is indexed by the other side's cursor.
WriteRequestAtTail(q, request) ==
    [q EXCEPT !.requests[SlotIndex(q.submit_tail)] = request]

WriteRequest(q, request) ==
    [q EXCEPT !.requests[SlotIndex(q.submit_head)] = request]

PublishRequest(q) == [q EXCEPT !.submit_head = @ + 1]

NoCompletion(q) == q.complete_head = q.complete_tail

NextCompletion(q) == q.completions[SlotIndex(q.complete_tail)]

ConsumeCompletion(q) == [q EXCEPT !.complete_tail = @ + 1]

-----------------------------------------------------------------------------
(* The driver's side: take_request, complete, and the reset transitions. *)

NoRequest(q) == q.submit_head = q.submit_tail

NextRequest(q) == q.requests[SlotIndex(q.submit_tail)]

\* Mutant: the request is used and its tail never stored.
ConsumeRequestNot(q) == q

ConsumeRequest(q) == [q EXCEPT !.submit_tail = @ + 1]

\* take_request's judgement of a consumed slot.
RequestStale(q, request) == request # Blank /\ request.epoch # q.epoch

CompleteFull(q) == q.complete_head - q.complete_tail >= SlotCount

\* complete stamps the header's epoch into the slot.
WriteCompletion(q, id, status) ==
    [q EXCEPT !.completions[SlotIndex(q.complete_head)] =
                  [id |-> id, epoch |-> q.epoch, status |-> status]]

PublishCompletion(q) == [q EXCEPT !.complete_head = @ + 1]

BeginReset(q) == [q EXCEPT !.state = "resetting"]

\* advance_epoch rewrites the whole header, the client's cursors included.
AdvanceEpoch(q) == EmptyQueue(q.epoch + 1)

-----------------------------------------------------------------------------
(* Outstanding: request identity -> state, with at most SlotCount entries. *)

NoneOutstanding == [id \in {} |-> "queued"]

CanAdmit(table, id) ==
    id \notin DOMAIN table /\ Cardinality(DOMAIN table) < SlotCount

Admit(table, id) ==
    [i \in DOMAIN table \cup {id} |-> IF i = id THEN "queued" ELSE table[i]]

Start(table, id) == [table EXCEPT ![id] = "in_flight"]

Settle(table, id) == [i \in DOMAIN table \ {id} |-> table[i]]
=============================================================================
