----------------------------- MODULE CallBroker -----------------------------
(***************************************************************************)
(* The call plane's broker (components/lib/src/call_broker.rs): one        *)
(* single-threaded sweep between request/reply clients, one server and the *)
(* clock, over native seL4 endpoints.  An endpoint is a rendezvous: a      *)
(* blocking send waits for a receiver, NBRecv takes a message only from a  *)
(* sender already blocked, and NBSend delivers only to a receiver already  *)
(* blocked and is lost otherwise.  The peers are modelled from how the     *)
(* repository's clients, servers and clocks use their half.                *)
(*                                                                         *)
(* Payload bytes are left out.  A record answered STATUS_STALE whatever it *)
(* says (bad envelope, foreign session, wrong kind) is one kind, "stale".  *)
(* `send` never answers ERR_WOULDBLOCK on this transport, so the retry     *)
(* counter never moves and next_retry_ns is always due; both are left out. *)
(***************************************************************************)
EXTENDS Integers, Sequences, FiniteSets, SequencesExt

CONSTANTS MaxId,      \* bound: request ids a client uses
          Deadline,   \* declared_deadline_ns, in clock steps
          Workloads   \* the generations, and what their peers may do

CLIENTS == 2

ASSUME CallAssumption ==
    /\ {MaxId, Deadline} \subseteq Nat \ {0}
    /\ \A w \in Workloads : Len(w.sends) \in 1..CLIENTS
    /\ Workloads \subseteq
         [inFlight : Nat \ {0},  \* the declared inFlightCalls
          sends : Seq(Nat),      \* bound: records of each client, acknowledgements apart
          ticks : Nat,           \* bound: clock steps
          kinds : SUBSET {"request", "shared", "again", "cancel", "stale"},
          answers : SUBSET {"reply", "shared", "held", "malformed", "silent"},
          mortal : SUBSET {"client", "server", "clock"}]

VARIABLES broker, client, server, clock, wake,
          load   \* the workload of the behaviour

vars == <<broker, client, server, clock, wake, load>>

NClients == Len(load.sends)
InFlight == load.inFlight
Clients == 1..NClients
Ids == 1..MaxId
Slots == 1..InFlight
Sids == 1..(NClients * MaxId)
(* MAX_PENDING_TERMINALS, with the ceiling at the declared limit. *)
PendingSlots == 1..(2 * InFlight * NClients)
(* A blocked send names its peer: 0 for none, a client, or the server. *)
Server == NClients + 1

(* Every variant that names a buffer_slot. *)
HoldsBuffer(payload) ==
    payload \in {"Shared", "SharedOutstanding", "CancellingShared", "SharedReply"}

EMPTY == [phase |-> "Free", id |-> 0, sid |-> 0, own |-> TRUE, client |-> 0,
          deadline |-> 0, status |-> "Success", payload |-> "None"]

Message(kind, id, sid, status) ==
    [kind |-> kind, id |-> id, sid |-> sid, status |-> status]
NoMessage == Message("none", 0, 0, "Success")
NoSend == [to |-> 0, slot |-> 0, msg |-> NoMessage]

-----------------------------------------------------------------------------
(* The broker's helpers.  Each takes and returns the broker's state b;     *)
(* b.offers collects the NBSends of one step, in order, and b.send is the  *)
(* blocking send the broker is stuck in, if any.                           *)

Slot(b, P(_)) == {i \in Slots : P(b.calls[i])}
FreeSlots(b) == Slot(b, LAMBDA call : call.phase = "Free")
Goto(b, at, i) == [b EXCEPT !.at = at, !.i = i]
Offer(b, c, msg) == [b EXCEPT !.offers = Append(@, [to |-> c, msg |-> msg])]

settle_payload(b, payload) ==
    IF HoldsBuffer(payload) THEN [b EXCEPT !.buffers = @ - 1] ELSE b

(* try_send_terminal never reports a delivery, so the record stays. *)
OfferTerminal(b, call) ==
    Offer(b, call.client, Message("terminal", call.id, call.sid, call.status))

finish(b, i, status) ==
    LET call == [b.calls[i] EXCEPT !.phase = "PendingTerminal", !.payload = "None",
                                   !.status = status]
    IN  IF b.calls[i].phase = "Free" THEN b
        ELSE OfferTerminal([settle_payload(b, b.calls[i].payload)
                               EXCEPT !.calls[i] = call], call)

reclaim_client(b, c) ==
    LET owned == Slot(b, LAMBDA call : call.phase # "Free" /\ call.client = c)
    IN  [b EXCEPT !.calls = [i \in Slots |-> IF i \in owned THEN EMPTY ELSE @[i]],
                  !.buffers = @ - Cardinality({i \in owned : HoldsBuffer(b.calls[i].payload)})]

reject_terminal(b, c, own, id, status) ==
    LET pending == [EMPTY EXCEPT !.phase = "PendingTerminal", !.id = id, !.own = own,
                       !.client = c, !.deadline = b.now + Deadline, !.status = status]
        holes == {j \in PendingSlots : b.pending[j] = EMPTY}
    IN  CASE FreeSlots(b) # {} -> [b EXCEPT !.calls[Min(FreeSlots(b))] = pending]
          [] FreeSlots(b) = {} /\ holes # {} -> [b EXCEPT !.pending[Min(holes)] = pending]
          [] OTHER -> reclaim_client([b EXCEPT !.clients = @ \ {c}], c)

retire_terminal(b, c, id) ==
    LET acked(call) == call.phase = "PendingTerminal" /\ call.client = c /\ call.id = id
    IN  [b EXCEPT !.calls = [i \in Slots |-> IF acked(@[i]) THEN EMPTY ELSE @[i]],
                  !.pending = [j \in PendingSlots |-> IF acked(@[j]) THEN EMPTY ELSE @[j]]]

retire_reply(b, c, id) ==
    LET acked(call) == call.phase = "ForwardingReply" /\ call.client = c /\ call.id = id
    IN  [b EXCEPT !.calls = [i \in Slots |-> IF acked(@[i]) THEN EMPTY ELSE @[i]],
                  !.buffers = @ - Cardinality({i \in Slots : /\ acked(b.calls[i])
                                                  /\ HoldsBuffer(b.calls[i].payload)})]

(* What a forward sends: the request, or the cancellation staged over it. *)
Outbound(call) ==
    Message(IF call.payload \in {"Cancel", "CancellingShared"} THEN "cancel" ELSE "request",
            call.id, call.sid, "Success")

Sending(b, to, i, msg) == [b EXCEPT !.send = [to |-> to, slot |-> i, msg |-> msg]]

(* fail ends the broker's task. *)
Fail(b) == Goto(b, "failed", 0)

(* The outcomes of forward: a shared request whose loan the root refuses   *)
(* for now is left as it is; a record with nothing to send is a failure.   *)
forward(b, i) ==
    LET payload == b.calls[i].payload
    IN  CASE ~b.server -> {finish(b, i, "PeerDead")}
          [] b.server /\ b.server_call # 0 -> {[b EXCEPT !.calls[i].phase = "Forwarding"]}
          [] /\ b.server /\ b.server_call = 0
             /\ payload \in {"None", "SharedOutstanding", "InlineReply", "SharedReply"} -> {Fail(b)}
          [] OTHER -> {Sending(b, Server, i, Outbound(b.calls[i]))}
                      \cup (IF payload = "Shared" THEN {b} ELSE {})

(* Mutant: the record stays queued after its send. *)
forwarded_again(b, i) ==
    [b EXCEPT !.server_call = b.calls[i].sid, !.send = NoSend]

(* The rest of forward, once the server has taken the message. *)
forwarded(b, i) ==
    [b EXCEPT !.calls[i].phase = IF @ = "Cancelling" THEN @ ELSE "AwaitingReply",
              !.calls[i].payload = IF HoldsBuffer(@) THEN "SharedOutstanding" ELSE "None",
              !.server_call = b.calls[i].sid,
              !.send = NoSend]

-----------------------------------------------------------------------------
(* pump_client *)

(* Mutant: off by one against the queue's share. *)
can_receive_client_full(b, c) ==
    Cardinality({j \in PendingSlots : b.pending[j].client = c}) <= 2 * InFlight

can_receive_client(b, c) ==
    Cardinality({j \in PendingSlots : b.pending[j].client = c}) < 2 * InFlight

(* Mutant: the correlation id is not advanced. *)
admit_same_sid(b, c, id, payload) ==
    LET i == Min(FreeSlots(b))
        call == [EMPTY EXCEPT !.phase = "Forwarding", !.id = id, !.client = c,
                    !.sid = b.next_sid, !.deadline = b.now + Deadline, !.payload = payload]
        relayed == IF HoldsBuffer(payload) THEN [b EXCEPT !.buffers = @ + 1] ELSE b
    IN  IF id <= b.high_water[c] \/ FreeSlots(b) = {}
        THEN {reject_terminal(b, c, TRUE, id, "Duplicate")}
        ELSE forward([relayed EXCEPT !.calls[i] = call, !.high_water[c] = id,
                                     !.origin = Append(@, <<c, id>>)], i)

(* relay_shared_payload copies a shared request into a buffer of the       *)
(* broker's own before admission; every refusal settles it again.          *)
admit(b, c, id, payload) ==
    LET i == Min(FreeSlots(b))
        call == [EMPTY EXCEPT !.phase = "Forwarding", !.id = id, !.client = c,
                    !.sid = b.next_sid, !.deadline = b.now + Deadline, !.payload = payload]
        relayed == IF HoldsBuffer(payload) THEN [b EXCEPT !.buffers = @ + 1] ELSE b
    IN  CASE id <= b.high_water[c] -> {reject_terminal(b, c, TRUE, id, "Duplicate")}
          [] id > b.high_water[c] /\ FreeSlots(b) = {} ->
                {reject_terminal(b, c, TRUE, id, "RetryExhausted")}
          [] OTHER -> forward([relayed EXCEPT !.calls[i] = call,
                                  !.next_sid = @ + 1, !.high_water[c] = id,
                                  !.origin = Append(@, <<c, id>>)], i)

StageCancel(b, i) ==
    [b EXCEPT !.calls[i].phase = "Cancelling",
              !.calls[i].payload = IF @ = "SharedOutstanding" THEN "CancellingShared"
                                   ELSE "Cancel",
              !.calls[i].status = "Cancelled",
              !.calls[i].deadline = b.now + Deadline]

cancel(b, c, id) ==
    LET named == Slot(b, LAMBDA call : /\ call.phase # "Free" /\ call.id = id
                                       /\ call.own /\ call.client = c)
        i == Min(named)
        staged == b.calls[i].phase \in {"AwaitingReply", "Forwarding"}
    IN  CASE named = {} -> reject_terminal(b, c, TRUE, id, "Stale")
          [] named # {} /\ staged /\ ~b.server -> finish(b, i, "PeerDead")
          [] named # {} /\ staged /\ b.server -> StageCancel(b, i)
          [] OTHER -> finish(b, i, "Cancelled")

HandleClientRecord(b, c, m) ==
    CASE m.kind = "terminal_ack" -> {retire_terminal(b, c, m.id)}
      [] m.kind = "reply_ack" -> {retire_reply(b, c, m.id)}
      [] m.kind = "request" -> admit(b, c, m.id, "Inline")
      [] m.kind = "shared" -> admit(b, c, m.id, "Shared")
      [] m.kind = "cancel" -> {cancel(b, c, m.id)}
      [] m.kind = "stale" -> {reject_terminal(b, c, FALSE, m.id, "Stale")}

-----------------------------------------------------------------------------
(* The other pumps *)

InOrder == [i \in Slots |-> i]

(* retire_server and the reclaim_all under it. *)
observe_server_death(b) ==
    FoldLeft(LAMBDA acc, i : finish(acc, i, "PeerDead"),
             [b EXCEPT !.death_reported = TRUE, !.server = FALSE, !.progressed = TRUE],
             InOrder)

OwedTo(b, c) ==
    {call \in {b.calls[i] : i \in Slots} \cup {b.pending[j] : j \in PendingSlots} :
        call.phase = "PendingTerminal" /\ call.client = c}

lowest_pending_terminal(b, c) == Min({call.id : call \in OwedTo(b, c)})

Lowest(b, call) ==
    /\ call.phase = "PendingTerminal"
    /\ call.id = lowest_pending_terminal(b, call.client)

(* The first loop of pump_terminals: one terminal per client. *)
OfferTerminals(b) ==
    LET first(c) == Slot(b, LAMBDA call : call.client = c /\ Lowest(b, call))
    IN  FoldLeft(LAMBDA acc, c : IF first(c) = {} THEN acc
                                 ELSE OfferTerminal(acc, b.calls[Min(first(c))]),
                 b, [c \in Clients |-> c])

(* The second loop delivers a staged cancellation, the tail retries one    *)
(* deferred forward; a send by either leaves nothing for the rest.         *)
pump_terminals(b0) ==
    LET b == OfferTerminals(b0)
        moved == [b EXCEPT !.progressed = TRUE]
        staged == Slot(b, LAMBDA call : /\ call.phase = "Cancelling"
                                        /\ call.payload \in {"Cancel", "CancellingShared"})
        deferred == Slot(b, LAMBDA call : call.phase = "Forwarding")
        settled == FoldLeft(LAMBDA acc, i : IF i \in staged THEN finish(acc, i, "PeerDead")
                                            ELSE acc, moved, InOrder)
        retried(x) == IF deferred = {} THEN {x} ELSE forward([x EXCEPT !.progressed = TRUE],
                                                             Min(deferred))
    IN  CASE b.server_call # 0 -> {b}
          [] b.server_call = 0 /\ staged = {} -> retried(b)
          [] b.server_call = 0 /\ staged # {} /\ ~b.server -> retried(settled)
          [] OTHER -> {Sending(moved, Server, Min(staged), Outbound(b.calls[Min(staged)]))}

pump_pending_terminals(b) ==
    FoldLeft(LAMBDA acc, j : IF Lowest(b, b.pending[j]) THEN OfferTerminal(acc, b.pending[j])
                             ELSE acc, b, [j \in PendingSlots |-> j])

(* Mutant: the call still names the buffer that was released. *)
settle_outstanding_request_keeps(b, i) ==
    IF b.calls[i].payload \in {"SharedOutstanding", "CancellingShared"}
    THEN settle_payload(b, b.calls[i].payload) ELSE b

settle_outstanding_request(b, i) ==
    IF b.calls[i].payload \in {"SharedOutstanding", "CancellingShared"}
    THEN [settle_payload(b, b.calls[i].payload) EXCEPT !.calls[i].payload = "None"] ELSE b

(* Mutant: a call that is over is still found. *)
find_call_ended(b, sid) == Slot(b, LAMBDA call : call.phase # "Free" /\ call.sid = sid)

find_call(b, sid) ==
    Slot(b, LAMBDA call : call.phase \in {"AwaitingReply", "Cancelling"} /\ call.sid = sid)

OfferReply(b, i) ==
    Offer(b, b.calls[i].client,
          Message("reply", b.calls[i].id, b.calls[i].sid, b.calls[i].status))

deliver_inline_reply(b, i, status) ==
    OfferReply([b EXCEPT !.calls[i].phase = "ForwardingReply",
                         !.calls[i].payload = "InlineReply",
                         !.calls[i].status = status], i)

(* The loan may be refused for now; otherwise capability_delegate sends    *)
(* the descriptor with a blocking send to the client.                      *)
deliver_shared_reply(b, i) ==
    LET call == b.calls[i]
        held == [b EXCEPT !.calls[i].phase = "ForwardingReply",
                          !.calls[i].payload = "SharedReply"]
    IN  {held, Sending(held, call.client, i, Message("shared", call.id, call.sid, "Success"))}

handle_server_record(b0, m) ==
    LET b == [b0 EXCEPT !.server_call = 0, !.progressed = TRUE]
        found == find_call(b, m.sid)
        i == Min(found)
        settled == settle_outstanding_request(b, i)
        cancelling == b.calls[i].phase = "Cancelling"
    IN  CASE found = {} \/ m.kind = "held" -> {b}
          [] found # {} /\ m.kind = "malformed" -> {finish(b, i, "Malformed")}
          [] found # {} /\ m.kind = "reply" /\ cancelling ->
                {IF m.status = "Cancelled" THEN finish(settled, i, "Cancelled") ELSE settled}
          [] found # {} /\ m.kind = "reply" /\ ~cancelling ->
                {deliver_inline_reply(settled, i, m.status)}
          [] found # {} /\ m.kind = "shared" /\ cancelling ->
                {finish(settled, i, "Cancelled")}
          [] found # {} /\ m.kind = "shared" /\ ~cancelling ->
                deliver_shared_reply([settled EXCEPT !.buffers = @ + 1], i)

(* One iteration of pump_replies. *)
PumpReply(b, i) ==
    IF b.calls[i].payload = "InlineReply" THEN {OfferReply(b, i)}
    ELSE deliver_shared_reply(b, i)

(* One iteration of the deadline loop of pump_time. *)
Expire(b, i) ==
    LET call == b.calls[i]
        released == IF b.server_call = call.sid THEN [b EXCEPT !.server_call = 0] ELSE b
    IN  CASE b.now >= call.deadline ->
                {finish(released, i, IF call.phase = "Cancelling" THEN "Cancelled" ELSE "Timeout")}
          [] /\ b.now < call.deadline
             /\ call.phase \in {"Forwarding", "Cancelling"} /\ call.payload # "None" -> forward(b, i)
          [] OTHER -> {b}

reclaim_dead_clients(b, dead) ==
    FoldLeft(LAMBDA acc, c : IF c \notin dead \cap b.clients THEN acc
                ELSE [reclaim_client(acc, c) EXCEPT !.clients = @ \ {c}, !.progressed = TRUE,
                         !.pending = [j \in PendingSlots |-> IF @[j].client = c THEN EMPTY
                                                             ELSE @[j]]],
             b, [c \in Clients |-> c])


-----------------------------------------------------------------------------
(* The peers, as the repository's clients, servers and clocks behave.      *)

(* A blocked receiver takes the one message that reaches it. *)
Take(cl, m) ==
    [cl EXCEPT !.st = "got", !.msg = m,
               !.replies = IF m.kind = "terminal" THEN @ ELSE @ \cup {<<m.id, m.sid>>},
               !.ended = IF m.kind = "terminal" THEN @ \cup {m.sid} ELSE @]

(* An NBSend reaches a client blocked in its receive and is lost otherwise. *)
Delivered(cls, offers) ==
    [c \in Clients |->
        LET mine == SelectSeq(offers, LAMBDA offer : offer.to = c)
        IN  IF cls[c].st = "recv" /\ mine # <<>> THEN Take(cls[c], mine[1].msg) ELSE cls[c]]

(* The records client c may send next, of the workload's kinds. *)
Records(c) ==
    LET fresh == {client[c].last + 1} \cap Ids
        known == 1..client[c].last
        ids == [request |-> fresh, shared |-> fresh, again |-> known,
                cancel |-> known, stale |-> {Max(known \cup {1})}]
        sent(kind) == IF kind = "again" THEN "request" ELSE kind
    IN  UNION {{Message(sent(kind), id, 0, "Success") : id \in ids[kind]} : kind \in load.kinds}

(* A peer raises the wake notification and then blocks in its send.        *)
ClientSend(c) ==
    /\ c \in Clients /\ client[c].st = "run" /\ client[c].sent < load.sends[c]
    /\ \E m \in Records(c) :
         client' = [client EXCEPT ![c].st = "signal", ![c].msg = m, ![c].sent = @ + 1,
                       ![c].last = IF m.kind \in {"request", "shared"} /\ m.id > @
                                   THEN m.id ELSE @]
    /\ wake' = TRUE
    /\ UNCHANGED <<broker, server, clock, load>>

ClientRecv(c) ==
    /\ c \in Clients /\ client[c].st = "run" /\ client[c].sent > 0
    /\ client' = [client EXCEPT ![c].st = "recv"]
    /\ UNCHANGED <<broker, server, clock, wake, load>>

(* An inline reply and a terminal are acknowledged with seL4_Call. *)
ClientAck(c) ==
    /\ c \in Clients /\ client[c].st = "got"
    /\ client' = [client EXCEPT
                    ![c].st = IF client[c].msg.kind = "shared" THEN "run" ELSE "call",
                    ![c].msg = IF @.kind = "shared" THEN NoMessage
                               ELSE Message(IF @.kind = "reply" THEN "reply_ack"
                                            ELSE "terminal_ack", @.id, 0, "Success")]
    /\ UNCHANGED <<broker, server, clock, wake, load>>

(* What the server does with a message: states it may be in next. *)
Handled(m) ==
    LET sends(kind, status) ==
            [server EXCEPT !.st = "signal", !.msg = Message(kind, 0, m.sid, status)]
    IN  IF m.kind = "cancel" THEN {sends("reply", "Cancelled")}
        ELSE {IF answer = "silent" THEN [server EXCEPT !.st = "recv", !.msg = NoMessage]
              ELSE sends(answer, "Success") : answer \in load.answers}

ServerAccepts(m) ==
    [server EXCEPT !.st = "busy", !.msg = m,
                   !.seen[m.sid] = IF m.kind = "request" /\ @ < 2 THEN @ + 1 ELSE @]

ServerAnswer ==
    /\ server.st = "busy"
    /\ server' \in Handled(server.msg)
    /\ wake' = (wake \/ server'.st # "recv")
    /\ UNCHANGED <<broker, client, clock, load>>

Tick ==
    /\ clock.st = "run" /\ clock.t < load.ticks
    /\ clock' = [st |-> "signal", t |-> clock.t + 1]
    /\ wake' = TRUE
    /\ UNCHANGED <<broker, client, server, load>>

(* The preemption between a peer's signal and its send. *)
ClientBlock(c) ==
    /\ c \in Clients /\ client[c].st = "signal"
    /\ client' = [client EXCEPT ![c].st = "send"]
    /\ UNCHANGED <<broker, server, clock, wake, load>>

ServerBlock ==
    /\ server.st = "signal"
    /\ server' = [server EXCEPT !.st = "send"]
    /\ UNCHANGED <<broker, client, clock, wake, load>>

ClockBlock ==
    /\ clock.st = "signal"
    /\ clock' = [clock EXCEPT !.st = "send"]
    /\ UNCHANGED <<broker, client, server, wake, load>>

(* A peer may exit or fault wherever it is; its blocked send goes with it. *)
ClientDies(c) ==
    /\ c \in Clients /\ "client" \in load.mortal /\ client[c].st # "dead"
    /\ client' = [client EXCEPT ![c].st = "dead", ![c].msg = NoMessage]
    /\ UNCHANGED <<broker, server, clock, wake, load>>

ServerDies ==
    /\ "server" \in load.mortal /\ server.st # "dead"
    /\ server' = [server EXCEPT !.st = "dead", !.msg = NoMessage]
    /\ UNCHANGED <<broker, client, clock, wake, load>>

ClockDies ==
    /\ "clock" \in load.mortal /\ clock.st = "run"
    /\ clock' = [clock EXCEPT !.st = "dead"]
    /\ UNCHANGED <<broker, client, server, wake, load>>

-----------------------------------------------------------------------------
(* The sweep of run: each action is one pump, or one iteration of a pump   *)
(* whose body can block.                                                   *)

Running(at) == broker.at = at /\ broker.send = NoSend

Commit(b, cls) ==
    /\ broker' = [b EXCEPT !.offers = <<>>]
    /\ client' = Delivered(cls, b.offers)

(* The step after client c in the sweep. *)
AfterClient(b, c) == IF c < NClients THEN Goto(b, "client", c + 1) ELSE Goto(b, "death", 1)

PumpClient ==
    LET c == broker.i
        next == AfterClient(broker, c)
    IN  /\ Running("client")
        /\ UNCHANGED <<server, clock, wake, load>>
        /\ IF /\ c \in broker.clients /\ can_receive_client(broker, c)
              /\ client[c].st \in {"send", "call"}
           THEN \E b \in HandleClientRecord([next EXCEPT !.progressed = TRUE], c, client[c].msg) :
                   Commit(b, [client EXCEPT ![c].st = "run", ![c].msg = NoMessage])
           ELSE Commit(next, client)

ObserveServerDeath ==
    /\ Running("death")
    /\ LET next == Goto(broker, "terminals", 1)
       IN  Commit(IF ~broker.death_reported /\ server.st = "dead"
                  THEN observe_server_death(next) ELSE next, client)
    /\ UNCHANGED <<server, clock, wake, load>>

PumpTerminals ==
    /\ Running("terminals")
    /\ \E b \in pump_terminals(Goto(broker, "pending", 1)) : Commit(b, client)
    /\ UNCHANGED <<server, clock, wake, load>>

PumpPendingTerminals ==
    /\ Running("pending")
    /\ Commit(pump_pending_terminals(Goto(broker, "server", 1)), client)
    /\ UNCHANGED <<server, clock, wake, load>>

PumpServer ==
    LET next == Goto(broker, "replies", 1)
    IN  /\ Running("server")
        /\ UNCHANGED <<clock, wake, load>>
        /\ IF broker.server /\ server.st = "send"
           THEN /\ \E b \in handle_server_record(next, server.msg) : Commit(b, client)
                /\ server' = [server EXCEPT !.st = "recv", !.msg = NoMessage]
           ELSE Commit(next, client) /\ UNCHANGED server

PumpReplies ==
    LET rest == {i \in Slots : i >= broker.i /\ broker.calls[i].phase = "ForwardingReply"}
    IN  /\ Running("replies")
        /\ \E b \in IF rest = {} THEN {Goto(broker, "time", 1)}
                    ELSE PumpReply(Goto(broker, "replies", Min(rest) + 1), Min(rest)) :
              Commit(b, client)
        /\ UNCHANGED <<server, clock, wake, load>>

PumpTime ==
    LET next == Goto(broker, "reclaim", 1)
        moved == [next EXCEPT !.progressed = TRUE]
    IN  /\ Running("time")
        /\ CASE broker.time_closed -> broker' = next /\ UNCHANGED clock
             [] ~broker.time_closed /\ clock.st = "send" ->
                   /\ broker' = [Goto(moved, "expire", 1) EXCEPT !.now = clock.t]
                   /\ clock' = [clock EXCEPT !.st = "run"]
             [] ~broker.time_closed /\ clock.st # "send" /\ broker.time_terminated ->
                   broker' = [moved EXCEPT !.time_closed = TRUE] /\ UNCHANGED clock
             [] OTHER ->
                   /\ broker' = IF clock.st = "dead" THEN [moved EXCEPT !.time_terminated = TRUE]
                                ELSE next
                   /\ UNCHANGED clock
        /\ UNCHANGED <<client, server, wake, load>>

PumpDeadlines ==
    LET rest == {i \in Slots : i >= broker.i /\ broker.calls[i].phase # "Free"}
    IN  /\ Running("expire")
        /\ \E b \in IF rest = {} THEN {Goto(broker, "reclaim", 1)}
                    ELSE Expire(Goto(broker, "expire", Min(rest) + 1), Min(rest)) :
              Commit(b, client)
        /\ UNCHANGED <<server, clock, wake, load>>

ReclaimDeadClients ==
    /\ Running("reclaim")
    /\ Commit(reclaim_dead_clients(Goto(broker, "park", 1),
                                   {c \in Clients : client[c].st = "dead"}), client)
    /\ UNCHANGED <<server, clock, wake, load>>

(* The send the broker is blocked in completes when the peer receives. *)
ServerTakes ==
    /\ broker.send.to = Server /\ server.st = "recv"
    /\ server' = ServerAccepts(broker.send.msg)
    /\ broker' = forwarded(broker, broker.send.slot)
    /\ UNCHANGED <<client, clock, wake, load>>

ClientTakes(c) ==
    /\ c \in Clients /\ broker.send.to = c /\ client[c].st = "recv"
    /\ client' = [client EXCEPT ![c] = Take(@, broker.send.msg)]
    /\ broker' = [broker EXCEPT !.buffers = @ - 1, !.calls[broker.send.slot] = EMPTY,
                                !.send = NoSend, !.progressed = TRUE]
    /\ UNCHANGED <<server, clock, wake, load>>

AllFree(b) == FreeSlots(b) = Slots /\ \A j \in PendingSlots : b.pending[j] = EMPTY

(* What a parked broker could never be woken for. *)
Owed(b) ==
    \/ \E i \in Slots : b.calls[i].phase \in {"PendingTerminal", "ForwardingReply"}
    \/ \E j \in PendingSlots : b.pending[j] # EMPTY

clock_unobservable_while_parked(b) == ~b.time_closed /\ b.clients = {} /\ ~b.server

(* The tail of a sweep: exit, sweep again, yield, or wait for a wake. *)
Park ==
    /\ Running("park")
    /\ LET again == [Goto(broker, "client", 1) EXCEPT !.progressed = FALSE]
           exits == AllFree(broker) /\ broker.clients = {} /\ ~broker.server /\ broker.time_closed
           yields == \/ broker.progressed \/ Owed(broker) \/ broker.server_call # 0
                     \/ clock_unobservable_while_parked(broker)
       IN  broker' = CASE exits -> Goto(broker, "done", 1)
                       [] ~exits /\ yields -> again
                       [] OTHER -> Goto(broker, "parked", 1)
    /\ UNCHANGED <<client, server, clock, wake, load>>

Wake ==
    /\ Running("parked") /\ wake
    /\ wake' = FALSE
    /\ broker' = [Goto(broker, "client", 1) EXCEPT !.progressed = FALSE]
    /\ UNCHANGED <<client, server, clock, load>>

Init ==
    /\ load \in Workloads
    /\ broker = [at |-> "client", i |-> 1, progressed |-> FALSE, clients |-> Clients,
                 calls |-> [i \in Slots |-> EMPTY], pending |-> [j \in PendingSlots |-> EMPTY],
                 high_water |-> [c \in Clients |-> 0], next_sid |-> 1, origin |-> <<>>,
                 now |-> 0, time_closed |-> FALSE, time_terminated |-> FALSE,
                 death_reported |-> FALSE, server |-> TRUE, server_call |-> 0,
                 buffers |-> 0, offers |-> <<>>, send |-> NoSend]
    /\ client = [c \in Clients |-> [st |-> "run", msg |-> NoMessage, last |-> 0, sent |-> 0,
                                    replies |-> {}, ended |-> {}]]
    /\ server = [st |-> "recv", msg |-> NoMessage, seen |-> [sid \in Sids |-> 0]]
    /\ clock = [st |-> "run", t |-> 0]
    /\ wake = FALSE

Sweep ==
    \/ PumpClient \/ ObserveServerDeath \/ PumpTerminals \/ PumpPendingTerminals
    \/ PumpServer \/ PumpReplies \/ PumpTime \/ PumpDeadlines \/ ReclaimDeadClients
    \/ Park \/ Wake

ClientStep(c) ==
    \/ ClientSend(c) \/ ClientRecv(c) \/ ClientAck(c) \/ ClientBlock(c) \/ ClientDies(c)
    \/ ClientTakes(c)

Next ==
    \/ Sweep \/ ServerTakes
    \/ \E c \in 1..CLIENTS : ClientStep(c)
    \/ ServerAnswer \/ ServerBlock \/ ServerDies
    \/ Tick \/ ClockBlock \/ ClockDies

Spec == Init /\ [][Next]_vars

-----------------------------------------------------------------------------
(* Properties *)

(* A request reaches the server at most once, whatever is deferred,        *)
(* retried on a clock step, cancelled or timed out meanwhile (forward).    *)
ForwardedOnce == \A sid \in Sids : server.seen[sid] < 2

(* A reply a client takes answers the very request it names: correlation   *)
(* ids are never confused between calls or clients (find_call).            *)
RightReply ==
    \A c \in Clients : \A r \in client[c].replies : broker.origin[r[2]] = <<c, r[1]>>

(* A client that was told how its call ended takes no reply to it later,   *)
(* however late the server answers a call that was cancelled, that timed   *)
(* out or whose slot another call has by now (finish, find_call).          *)
TerminalIsFinal ==
    [][\A c \in Clients : \A r \in client'[c].replies \ client[c].replies :
           r[2] \notin client[c].ended]_vars

(* A buffer that a call of the table names has not been released: none is  *)
(* released twice when a call is refused, answered, cancelled, times out   *)
(* or loses its client or its server (settle_payload,                      *)
(* settle_outstanding_request).  The converse does not hold: a cancelled   *)
(* call whose shared request was still queued forgets its buffer.          *)
BuffersLive ==
    Cardinality({i \in Slots : HoldsBuffer(broker.calls[i].payload)}) <= broker.buffers

(* A client leaves the broker's table only when it is dead: the overflow   *)
(* queue never fills, so nobody is isolated as saturated                   *)
(* (can_receive_client against MAX_PENDING_TERMINALS).                     *)
OnlyDeadRetired == \A c \in Clients \ broker.clients : client[c].st = "dead"

=============================================================================
