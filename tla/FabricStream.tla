---------------------------- MODULE FabricStream ----------------------------
(***************************************************************************)
(* The stream plane's broker (components/services/fabric-service): it      *)
(* drains every publisher's shared ring into its own reference-counted     *)
(* frames, queues each frame in the bounded KEEP_LAST history of every     *)
(* matched subscriber, and writes the histories out, one sample a pass, to *)
(* the subscribers' rings.  Publishers and readers are the loops the       *)
(* repository's stream components run.                                     *)
(*                                                                         *)
(* A sample is its publisher and its number; payloads, type tags and the   *)
(* trace are left out.  A ring operation loads the header, works on a slot *)
(* and stores the whole header back (components/proto/src/ring.rs), with   *)
(* its peer's steps in between.  A control endpoint is a rendezvous: the   *)
(* broker's blocking sends wait in `outbox` until the reader blocks in its *)
(* receive.                                                                *)
(***************************************************************************)
EXTENDS Integers, Sequences, FiniteSets, SequencesExt, FiniteSetsExt

CONSTANTS Participants, \* every component of a composition
          Planes,       \* the compositions of the graph, see FabricAssumption
          RingSlots,    \* slots of every ring, and a history's depth
          RetainedDepth,
          Ticks,        \* bound: the clock's advances
          Lifespan, Deadline, Lease,  \* declared times, 0 for none
          LateTime,     \* when the late subscriber is created (200 ns)
          RetryLimit,   \* the retries before exhaustion (4)
          MaxRestarts   \* bound: replacements of a reader

(* The loops of the repository's readers. *)
Loops == {"keepup",       \* fabric-subscriber's consume
          "telemetry",    \* fabric-subscriber-b's consume_telemetry
          "diagnostics",  \* its consume_diagnostics_stream
          "withhold",     \* its consume_diagnostics, of the QoS plane
          "controller"}   \* robot-controller's main

(* A composition: what it checks (streams, timed QoS, or the restartable   *)
(* robot plane); its roles in table order; the pairs of one route, and     *)
(* those whose offer satisfies the request; the roles of RELIABLE          *)
(* reliability and of RETAINED durability; those that may exit early, and  *)
(* those that failed before they read; the loop each reader runs; and,     *)
(* bounds, the samples a publisher writes and which of them are large.     *)
ASSUME FabricAssumption ==
    /\ \A c \in Planes :
        /\ c.kind \in {"stream", "qos", "robot"}
        /\ Range(c.pubs) \cup Range(c.subs) \subseteq Participants
        /\ Range(c.pubs) \cap Range(c.subs) = {}
        /\ c.route \subseteq Range(c.pubs) \X Range(c.subs)
        /\ c.matched \subseteq c.route
        /\ c.reliable \subseteq Range(c.subs)
        /\ c.retained \subseteq Range(c.pubs)
        /\ c.mortal \subseteq Participants
        /\ c.absent \subseteq Range(c.subs)
        /\ \A s \in Range(c.subs) : c.loop[s] \in Loops
        /\ c.samples \in Nat \ {0}
        /\ c.big \subseteq 1..(c.samples - 1)
    /\ {RingSlots, RetainedDepth, RetryLimit} \subseteq Nat \ {0}

VARIABLES plane,   \* the composition, fixed
          last,    \* the role whose ring is mapped at the last ordinal's page
          ring,    \* the shared rings
          view,    \* the header a participant has loaded, and the flag it read
          frames,  \* the broker's sample frames
          pub,     \* the broker's publisher records
          sub,     \* the broker's subscriber records
          broker,  \* the broker's place in its pass
          outbox,  \* control records it has still to hand over
          now, clock, late,
          task,    \* what each participant is doing
          credit,  \* the credit notifications
          sent,    \* samples each publisher has written
          seen     \* what a reader remembers: its restarts, whether it took
                   \* a sample of the ring, one lent, and the END

vars == <<plane, last, ring, view, frames, pub, sub, broker, outbox, now,
          clock, late, task, credit, sent, seen>>
participants == <<view, task, sent, seen>>
environment == <<plane, last, now, clock, late>>

Pubs == plane.pubs
Subs == plane.subs
Publishers == Range(Pubs)
Subscribers == Range(Subs)
OnRoute == plane.route
Matched == plane.matched
Reliable == plane.reliable
Durable == plane.retained
Mortal == plane.mortal

None == [p |-> "none", n |-> 0]
Sample(p, n) == [p |-> p, n |-> n]
IsLast(x) == x.n = plane.samples
Large(x) == x.n \in plane.big

----------------------------------------------------------------------------
(* A ring: the cursors of its header, and its slots, each with the         *)
(* sequence and the sample last encoded in it.                             *)
NewRing == [head |-> 0, tail |-> 0,
            slots |-> [k \in 0..(RingSlots - 1) |-> [seq |-> 0, sample |-> None]]]
ring_slot_index(n) == n % RingSlots
header(r) == [head |-> r.head, tail |-> r.tail]

(* Mutant: one sample more than the slots. *)
is_full_late(h) == h.head - h.tail > RingSlots

is_full(h) == h.head - h.tail >= RingSlots
is_empty(h) == h.head = h.tail

(* The end of publish: the slot after the loaded head is encoded, and the  *)
(* loaded header stored with its head advanced.  No peer reads a slot past *)
(* the head it loaded, so the two are one step.                            *)
published(r, h, x) ==
    [head |-> h.head + 1, tail |-> h.tail,
     slots |-> [r.slots EXCEPT ![ring_slot_index(h.head + 1)] =
                   [seq |-> h.head + 1, sample |-> x]]]

(* consume: the slot owed to the loaded tail, which is Malformed when it   *)
(* carries another sequence; then the loaded header, its tail advanced.    *)
owed(r, h) == r.slots[ring_slot_index(h.tail + 1)]
malformed(r, h) == owed(r, h).seq # h.tail + 1
consumed(r, h) == [r EXCEPT !.head = h.head, !.tail = h.tail + 1]

NoView == [head |-> 0, tail |-> 0, final |-> FALSE]
Viewed(h, final) == [head |-> h.head, tail |-> h.tail, final |-> final]

----------------------------------------------------------------------------
(* declared_capacity: a frame for every entry a history or a retained      *)
(* window can hold.                                                        *)
FrameCount == Len(Subs) * RingSlots + Cardinality(Durable) * RetainedDepth
FrameIds == 1..FrameCount
Empty == [refs |-> 0, sample |-> None, at |-> 0]

Free(fs) == {f \in FrameIds : fs[f].refs = 0}
(* The first free frame. *)
Position(fs) == Min(Free(fs))

(* release_frame; the copy buffer of a large sample goes with the frame. *)
release_frame(fs, f) ==
    IF fs[f].refs <= 1 THEN [fs EXCEPT ![f] = Empty]
    ELSE [fs EXCEPT ![f].refs = @ - 1]

release_all(fs, entries) == FoldLeft(release_frame, fs, entries)

(* StreamHistory::push: at its depth it first pops the oldest, counted lost *)
history_push(h, f, depth) ==
    IF Len(h.q) < depth THEN [h EXCEPT !.q = Append(@, f)]
    ELSE [q |-> Append(Tail(h.q), f), lost |-> h.lost + 1]

history_evicts(h, depth) == IF Len(h.q) < depth THEN <<>> ELSE <<Head(h.q)>>

----------------------------------------------------------------------------
Supervised(x) == plane.kind # "robot" \/ x \in Publishers
Gone(x) == task[x] \in {"gone", "dead"}
(* supervision_status is Ok(None) exactly while the task runs. *)
Running(x) == ~Gone(x)

NewPublisher == [finished |-> FALSE, died |-> FALSE, terminated |-> FALSE,
                 drained |-> FALSE, asserted |-> 0,
                 retained |-> [q |-> <<>>, lost |-> 0]]
NewSubscriber == [history |-> [q |-> <<>>, lost |-> 0], in_flight |-> 0,
                  ended |-> FALSE, terminal |-> FALSE, retries |-> 0,
                  last_retry |-> 0, missed |-> FALSE, lapsed |-> FALSE]

(* The broker's place: its step, the table index, the header it loaded,    *)
(* and whether this pump took a sample of the ring.                        *)
Idle == [pc |-> "done", i |-> 0, h |-> header(NewRing), moved |-> FALSE]

matched_publishers(s) == {p \in Publishers : <<p, s>> \in Matched}

(* provision: a role is minted as its request arrives, in any order, and   *)
(* its ring is mapped at the ordinal of its arrival, the count of roles;   *)
(* the other planes never look at the order again.                         *)
Init ==
    /\ plane \in Planes
    /\ last \in Publishers \cup Subscribers
    /\ plane.kind # "robot" => last = Pubs[1]
    /\ ring = [x \in Publishers \cup Subscribers |-> NewRing]
    /\ view = [x \in Publishers \cup Subscribers |-> NoView]
    /\ frames = [f \in FrameIds |-> Empty]
    /\ pub = [p \in Publishers |-> NewPublisher]
    /\ sub = [s \in Subscribers |-> NewSubscriber]
    /\ broker = [Idle EXCEPT !.pc = "reprovision"]
    /\ outbox = <<>>
    /\ now = 0
    /\ clock = IF plane.kind = "qos" THEN "idle" ELSE "gone"
    /\ late = [st |-> "none", q |-> <<>>]
    /\ task = [x \in Publishers \cup Subscribers |->
                  IF x \in Publishers THEN "run"
                  ELSE IF x \in plane.absent THEN "dead" ELSE "drain"]
    /\ credit = [x \in Publishers \cup Subscribers |-> FALSE]
    /\ sent = [p \in Publishers |-> 0]
    /\ seen = [s \in Subscribers |->
                  [starts |-> 0, inline |-> FALSE, shared |-> FALSE,
                   ending |-> FALSE]]

At(pc) == broker.pc = pc /\ outbox = <<>>
Goto(pc, i) == broker' = [Idle EXCEPT !.pc = pc, !.i = i]
(* The next step of the same ring operation, with the header it loaded. *)
Loaded(pc, h) == broker' = [broker EXCEPT !.pc = pc, !.h = h]
(* A ring error the broker does not expect: it prints it and exits. *)
Fail == Goto("failed", 0)

----------------------------------------------------------------------------
(* Mutant: the evicted frame keeps its reference. *)
OfferLeaks(st, s, f) ==
    [frames |-> [st.frames EXCEPT ![f].refs = @ + 1],
     sub |-> [st.sub EXCEPT
                 ![s].history = history_push(@, f, RingSlots)]]

(* fan_out: one reference, one history entry per matched subscriber; an    *)
(* eviction releases the evicted frame, and its delivery slot, at once. A  *)
(* frame nobody is matched to is emptied.                                  *)
Offer(st, s, f) ==
    LET h == st.sub[s].history
        out == history_evicts(h, RingSlots)
        held == [st.frames EXCEPT ![f].refs = @ + 1]
    IN  [frames |-> release_all(held, out),
         sub |-> [st.sub EXCEPT
                     ![s].history = history_push(h, f, RingSlots),
                     ![s].in_flight = IF out # <<>> /\ @ > 0 THEN @ - 1 ELSE @]]

fan_out(st, f, p) ==
    LET offered == FoldLeft(LAMBDA acc, s :
                       IF <<p, s>> \in Matched THEN Offer(acc, s, f) ELSE acc,
                       st, Subs)
    IN  IF offered.frames[f].refs = 0
        THEN [offered EXCEPT !.frames[f] = Empty] ELSE offered

(* retain_sample *)
Retain(fs, window, f) ==
    LET held == [fs EXCEPT ![f].refs = @ + 1]
    IN  [frames |-> release_all(held, history_evicts(window, RetainedDepth)),
         window |-> history_push(window, f, RetainedDepth)]

(* One sample admitted into a frame, offered and retained. *)
Admit(st, p, x) ==
    LET f == Position(st.frames)
        full == [st.frames EXCEPT ![f] = [refs |-> 0, sample |-> x, at |-> now]]
        out == fan_out([frames |-> full, sub |-> st.sub], f, p)
        kept == Retain(out.frames, st.pub.retained, f)
        ends == [st.pub EXCEPT !.finished = @ \/ IsLast(x)]
    IN  IF p \in Durable
        THEN [frames |-> kept.frames, sub |-> out.sub,
              pub |-> [ends EXCEPT !.retained = kept.window]]
        ELSE [frames |-> out.frames, sub |-> out.sub, pub |-> ends]

(* The ring's next sample: its sequence is the publisher's assertion count *)
AdmitInline(st, p, x) ==
    Admit([st EXCEPT !.pub.asserted = @ + 1], p, x)

NextPublisher == IF broker.i < Len(Pubs) THEN Goto("pump", broker.i + 1)
                 ELSE Goto("acks", Len(Subs))

(* pump_publisher, the ring's loop up to the header: a finished publisher  *)
(* is passed over, and the loop ends when no frame is free or, drained,    *)
(* when the ring is empty.                                                 *)
Pump ==
    /\ At("pump") \/ At("again")
    /\ LET p == Pubs[broker.i]
           skip == broker.pc = "pump" /\ pub[p].finished
           h == header(ring[p])
           none == Free(frames) = {}
       IN
       \/ /\ skip
          /\ NextPublisher
          /\ UNCHANGED pub
       \/ /\ ~skip /\ ~none /\ ~is_empty(h)
          /\ Loaded("take", h)
          /\ UNCHANGED pub
       \/ /\ ~skip /\ (none \/ is_empty(h))
          /\ pub' = [pub EXCEPT ![p].drained = ~none]
          /\ Loaded("control", Idle.h)
    /\ UNCHANGED <<environment, participants, ring, frames, sub, outbox, credit>>

(* The rest of consume and of the loop's body: the slot is read, the       *)
(* header stored, and the sample admitted.  The publisher never writes the *)
(* slot it is owed, so the read and the store are one step.                *)
Take ==
    /\ At("take")
    /\ LET p == Pubs[broker.i]
           start == [frames |-> frames, sub |-> sub, pub |-> pub[p]]
       IN  IF malformed(ring[p], broker.h) THEN
              Fail /\ UNCHANGED <<ring, frames, sub, pub>>
           ELSE
              /\ ring' = [ring EXCEPT ![p] = consumed(@, broker.h)]
              /\ \E st \in {AdmitInline(start, p, owed(ring[p], broker.h).sample)} :
                   /\ frames' = st.frames
                   /\ sub' = st.sub
                   /\ pub' = [pub EXCEPT ![p] = st.pub]
              /\ broker' = [broker EXCEPT !.pc = "again", !.moved = TRUE,
                                          !.h = Idle.h]
    /\ UNCHANGED <<environment, participants, outbox, credit>>

(* pump_publisher, the control endpoint: a descriptor a publisher is       *)
(* blocked sending is taken by admit_shared, which may refuse it (a copy   *)
(* buffer, a mapping or a frame is missing), and credited either way; last *)
(* the credit of the ring samples taken is signalled.                      *)
PumpControl ==
    /\ At("control")
    /\ LET p == Pubs[broker.i]
           x == Sample(p, sent[p] + 1)
           start == [frames |-> frames, sub |-> sub, pub |-> pub[p]]
       IN
       /\ \/ /\ task[p] # "offering"
             /\ UNCHANGED <<frames, pub, sub, task, sent>>
          \/ /\ task[p] = "offering"
             /\ sent' = [sent EXCEPT ![p] = @ + 1]
             /\ task' = [task EXCEPT ![p] = "run"]
             /\ \/ /\ Free(frames) # {}
                   /\ \E st \in {Admit(start, p, x)} :
                        /\ frames' = st.frames
                        /\ sub' = st.sub
                        /\ pub' = [pub EXCEPT ![p] = st.pub]
                \/ UNCHANGED <<frames, sub, pub>>
       /\ credit' = [credit EXCEPT ![p] = @ \/ broker.moved]
    /\ NextPublisher
    /\ UNCHANGED <<environment, ring, view, outbox, seen>>

----------------------------------------------------------------------------
(* A record for a reader; the QoS events are sent only after asking        *)
(* supervision for it, see CheckQos.                                       *)
Event(s, kind) == [to |-> s, kind |-> kind,
                   asked |-> kind \notin {"qos", "expired"}]

Expired(f, t) == Lifespan # 0 /\ t - frames[f].at >= Lifespan

(* A RELIABLE delivery is outstanding until its credit. *)
Delivered(r, s) ==
    [r EXCEPT !.history.q = Tail(@), !.missed = FALSE,
              !.in_flight = IF s \in Reliable THEN @ + 1 ELSE @]

(* The subscribers are swept in reverse. *)
NextSubscriber ==
    IF broker.i > 1 THEN Goto("acks", broker.i - 1)
    ELSE IF plane.kind = "qos" THEN Goto("time", 0) ELSE Goto("supervise", 1)

(* drain_acks: a credit retires every outstanding delivery. *)
Acks ==
    /\ At("acks")
    /\ LET s == Subs[broker.i] IN
       /\ sub' = [sub EXCEPT ![s].in_flight = IF credit[s] THEN 0 ELSE @]
       /\ credit' = [credit EXCEPT ![s] = FALSE]
    /\ Goto("deliver", broker.i)
    /\ UNCHANGED <<environment, participants, ring, frames, pub, outbox>>

(* The oldest sample of the history leaves it for the reader. *)
Handed(s, f) == /\ sub' = [sub EXCEPT ![s] = Delivered(@, s)]
                /\ frames' = release_frame(frames, f)
                /\ NextSubscriber

(* deliver, the oldest sample of the history: lent as a buffer (the loan   *)
(* may be refused, to be tried again), or published to the ring.  A full   *)
(* ring holds back a RELIABLE sample; for the others the broker consumes   *)
(* the oldest sample in it.  The lifespan check before it never fires: see *)
(* FreshWhenDelivered.                                                     *)
DeliverHead(s, f) ==
    LET large == Large(frames[f].sample)
        h == header(ring[s])
    IN
    \/ /\ large
       /\ \/ Handed(s, f) /\ outbox' = <<Event(s, "sample")>>
          \/ NextSubscriber /\ UNCHANGED <<sub, frames, outbox>>
    \/ /\ ~large
       /\ IF ~is_full(h) THEN Loaded("write", h)
          ELSE IF s \in Reliable THEN NextSubscriber ELSE Loaded("drop", h)
       /\ UNCHANGED <<sub, frames, outbox>>

(* deliver: a loss report first, and otherwise at most one sample. *)
Deliver ==
    /\ At("deliver")
    /\ LET s == Subs[broker.i]
           r == sub[s]
           silent == r.terminal \/ matched_publishers(s) = {}
       IN
       \/ /\ silent \/ (r.history.lost = 0 /\ r.history.q = <<>>)
          /\ NextSubscriber
          /\ UNCHANGED <<frames, sub, outbox>>
       \/ /\ ~silent /\ r.history.lost > 0
          /\ sub' = [sub EXCEPT ![s].history.lost = 0]
          /\ outbox' = <<Event(s, "lost")>>
          /\ NextSubscriber
          /\ UNCHANGED frames
       \/ /\ ~silent /\ r.history.lost = 0 /\ r.history.q # <<>>
          /\ DeliverHead(s, Head(r.history.q))
    /\ UNCHANGED <<environment, participants, ring, pub, credit>>

(* The best-effort drop: consume's load, where the reader may meanwhile    *)
(* have emptied the ring, its store, and publish's load once more.         *)
Drop ==
    /\ At("drop") \/ At("store") \/ At("rewrite")
    /\ LET s == Subs[broker.i]
           h == header(ring[s])
       IN
       \/ /\ broker.pc = "drop"
          /\ IF is_empty(h) \/ malformed(ring[s], h) THEN Fail
             ELSE Loaded("store", h)
          /\ UNCHANGED ring
       \/ /\ broker.pc = "store"
          /\ ring' = [ring EXCEPT ![s] = consumed(@, broker.h)]
          /\ Loaded("rewrite", Idle.h)
       \/ /\ broker.pc = "rewrite"
          /\ IF is_full(h) THEN Fail ELSE Loaded("write", h)
          /\ UNCHANGED ring
    /\ UNCHANGED <<environment, participants, frames, pub, sub, outbox, credit>>

(* The end of publish, and of deliver. *)
Write ==
    /\ At("write")
    /\ LET s == Subs[broker.i]
           f == Head(sub[s].history.q)
       IN  /\ ring' = [ring EXCEPT ![s] =
                          published(@, broker.h, frames[f].sample)]
           /\ Handed(s, f)
    /\ UNCHANGED <<environment, participants, pub, outbox, credit>>

----------------------------------------------------------------------------
(* Mutant: expiry is judged before the clock is stored. *)
StaleBefore(s, t) ==
    LET q == sub[s].history.q IN
    Max({n \in 0..Len(q) : \A i \in 1..n : Expired(q[i], now)})

(* apply_time at one subscriber: samples past their lifespan leave it.     *)
Stale(s, t) ==
    LET q == sub[s].history.q IN
    Max({n \in 0..Len(q) : \A i \in 1..n : Expired(q[i], t)})

LoseExpired(s, t) ==
    [sub[s] EXCEPT !.history.q = SubSeq(@, Stale(s, t) + 1, Len(@)),
                   !.in_flight = Max({@ - Stale(s, t), 0})]

(* An outstanding RELIABLE delivery counts a retry an interval, and its    *)
(* subscriber is terminal, its queue given up, when they are exhausted.    *)
Interval == Max({Deadline, 1})
RetryDue(r, s, t) == /\ ~r.terminal /\ s \in Reliable /\ r.in_flight > 0
                     /\ t - r.last_retry >= Interval
Exhausted(r, s, t) == RetryDue(r, s, t) /\ r.retries + 1 >= RetryLimit

Retried(r, s, t) ==
    IF Exhausted(r, s, t)
    THEN [r EXCEPT !.retries = @ + 1, !.last_retry = t, !.in_flight = 0,
                   !.terminal = TRUE, !.history.q = <<>>]
    ELSE IF RetryDue(r, s, t)
    THEN [r EXCEPT !.retries = @ + 1, !.last_retry = t] ELSE r

(* A missed deadline and a lapsed lease are each reported once.  The lease *)
(* is measured from the publisher's assertion count, as the code does.     *)
Misses(r, t) == Deadline # 0 /\ ~r.missed /\ t >= Deadline
Lapses(r, s, t) ==
    /\ Lease # 0 /\ ~r.lapsed
    /\ \E p \in Publishers : /\ <<p, s>> \in OnRoute
                             /\ t - pub[p].asserted >= Lease

(* What the advance to t does to subscriber s: its record, the frames it   *)
(* gives up, and how many events each of the four sweeps sends it.         *)
TimeFor(s, t) ==
    LET fresh == LoseExpired(s, t)
        tried == Retried(fresh, s, t)
        given == IF Exhausted(fresh, s, t) THEN fresh.history.q ELSE <<>>
    IN  [rec |-> [tried EXCEPT !.missed = @ \/ Misses(tried, t),
                               !.lapsed = @ \/ Lapses(tried, s, t)],
         out |-> SubSeq(sub[s].history.q, 1, Stale(s, t)) \o given,
         sends |-> <<Stale(s, t),
                     IF Exhausted(fresh, s, t) THEN 1 ELSE 0,
                     IF Misses(tried, t) THEN 1 ELSE 0,
                     IF Lapses(tried, s, t) THEN 1 ELSE 0>>]

EventsOf(effect) ==
    LET of(k, s) == [i \in 1..effect[s].sends[k] |->
                        Event(s, IF k = 1 THEN "expired" ELSE "qos")]
        sweep(k) == FlattenSeq([i \in DOMAIN Subs |-> of(k, Subs[i])])
    IN  sweep(1) \o sweep(2) \o sweep(3) \o sweep(4)

(* receive_time and apply_time.  The clock is retired by supervision, and  *)
(* only when nothing of it is left to receive.                             *)
Time ==
    /\ At("time")
    /\ \/ /\ clock # "offering"
          /\ UNCHANGED <<frames, sub, now, clock, outbox>>
       \/ /\ clock = "offering"
          /\ now' = now + 1
          /\ clock' = "idle"
          /\ \E effect \in {[s \in Subscribers |-> TimeFor(s, now + 1)]} :
               /\ sub' = [s \in Subscribers |-> effect[s].rec]
               /\ frames' = release_all(frames,
                     FlattenSeq([i \in DOMAIN Subs |-> effect[Subs[i]].out]))
               /\ outbox' = EventsOf(effect)
    /\ Goto("late", 0)
    /\ UNCHANGED <<plane, last, late, participants, ring, pub, credit>>

(* create_late_subscriber and pump_late_subscriber: the first retained     *)
(* window's inline samples are referenced again, replayed, and released    *)
(* past their lifespan.                                                    *)
RetainedPubs == {p \in Durable : pub[p].retained.q # <<>>}
ReplayOf(p) == SelectSeq(pub[p].retained.q,
                         LAMBDA f : ~Large(frames[f].sample))

Late ==
    /\ At("late")
    /\ \/ /\ late.st = "done" \/ now < LateTime
          /\ UNCHANGED <<late, frames>>
          /\ Goto("supervise", 1)
       \/ /\ late.st = "none" /\ now >= LateTime
          /\ IF RetainedPubs = {} THEN
                Fail /\ UNCHANGED <<late, frames>>
             ELSE \E q \in {ReplayOf(SelectSeq(Pubs,
                              LAMBDA p : p \in RetainedPubs)[1])} :
                /\ late' = [st |-> "replayed", q |-> q]
                /\ frames' = [f \in FrameIds |-> [frames[f] EXCEPT !.refs =
                      @ + Cardinality({i \in DOMAIN q : q[i] = f})]]
                /\ Goto("supervise", 1)
       \/ /\ late.st = "replayed" /\ now >= LateTime
          /\ IF now >= Lifespan THEN
                /\ frames' = release_all(frames, late.q)
                /\ late' = [st |-> "done", q |-> <<>>]
             ELSE UNCHANGED <<late, frames>>
          /\ Goto("supervise", 1)
    /\ UNCHANGED <<plane, last, now, clock, participants, ring, pub, sub,
                   outbox, credit>>

----------------------------------------------------------------------------
RouteSubs(p) == SelectSeq(Subs, LAMBDA s : <<p, s>> \in OnRoute)

(* The supervision sweep, one publisher: a termination is latched and the  *)
(* drain seen before it discarded; only a drain seen after it is a death.  *)
Supervise ==
    /\ At("supervise")
    /\ LET p == Pubs[broker.i]
           open == ~pub[p].finished /\ ~pub[p].died
       IN
       \/ /\ ~open \/ (~pub[p].terminated /\ Running(p))
             \/ (pub[p].terminated /\ ~pub[p].drained)
          /\ UNCHANGED <<pub, outbox>>
       \/ /\ open /\ ~pub[p].terminated /\ Gone(p)
          /\ pub' = [pub EXCEPT ![p].terminated = TRUE, ![p].drained = FALSE]
          /\ UNCHANGED outbox
       \/ /\ open /\ pub[p].terminated /\ pub[p].drained
          /\ outbox' = [i \in DOMAIN RouteSubs(p) |->
                           Event(RouteSubs(p)[i], "qos")]
          /\ pub' = [pub EXCEPT ![p].died = TRUE, ![p].finished = TRUE]
    /\ IF broker.i < Len(Pubs) THEN Goto("supervise", broker.i + 1)
       ELSE Goto("end", 1)
    /\ UNCHANGED <<environment, participants, ring, frames, sub, credit>>

route_finished(s) == \A p \in Publishers :
                        <<p, s>> \in OnRoute => pub[p].finished

(* The END in a reader's hands: it exits; or drains its ring once more     *)
(* first; or, short of the samples it expects, or a controller, goes on.   *)
Ended(s) ==
    LET loop == plane.loop[s]
        goesOn == \/ loop = "controller"
                  \/ loop = "keepup" /\ ~(seen[s].inline /\ seen[s].shared)
    IN  IF loop = "diagnostics" \/ goesOn THEN "drain" ELSE "gone"

(* Mutant: the event is offered only once. *)
Retired_at_once(s) == TRUE

(* It is retired when its task is gone or, unsupervised, its ring empty. *)
Retired(s) == IF Supervised(s) THEN Gone(s) ELSE is_empty(header(ring[s]))

(* announce_end: the terminal event is offered, every pass, to a reader    *)
(* blocked in its receive, once nothing is queued or outstanding for it.   *)
announce_end ==
    /\ At("end")
    /\ LET s == Subs[broker.i]
           r == sub[s]
           settled == r.history.q = <<>> /\ r.in_flight = 0
           due == route_finished(s) /\ ~r.ended /\ (r.terminal \/ settled)
       IN
       \/ /\ ~due
          /\ UNCHANGED <<sub, task, seen>>
       \/ /\ due
          /\ \/ /\ task[s] = "parked"
                /\ task' = [task EXCEPT ![s] = Ended(s)]
                /\ seen' = [seen EXCEPT ![s].ending =
                               plane.loop[s] = "diagnostics"]
             \/ task[s] # "parked" /\ UNCHANGED <<task, seen>>
          /\ sub' = [sub EXCEPT ![s].ended = Retired(s)]
    /\ IF broker.i < Len(Subs) THEN Goto("end", broker.i + 1)
       ELSE Goto("finish", 0)
    /\ UNCHANGED <<environment, view, sent, ring, frames, pub, outbox, credit>>

(* The broker returns once every subscriber is retired and, where it keeps *)
(* time, the clock is dead: reclaim_unobserved_participants and            *)
(* release_retained drop what it still references.                         *)
Finish ==
    /\ At("finish")
    /\ IF (\A s \in Subscribers : sub[s].ended) /\ clock = "gone" THEN
          /\ frames' = release_all(frames,
                FlattenSeq([i \in DOMAIN Pubs |-> pub[Pubs[i]].retained.q]))
          /\ pub' = [p \in Publishers |-> [pub[p] EXCEPT !.retained.q = <<>>]]
          /\ Goto("done", 0)
       ELSE
          /\ UNCHANGED <<frames, pub>>
          /\ IF plane.kind = "robot" THEN Goto("reprovision", 0)
             ELSE Goto("pump", 1)
    /\ UNCHANGED <<environment, participants, ring, sub, outbox, credit>>

----------------------------------------------------------------------------
(* salvage_stale_subscriber: what the dead reader left in its ring is      *)
(* copied to free frames, then what was queued for it follows; what finds  *)
(* no frame, and the report still owed, is counted lost.                   *)
PushOut(st, f) ==
    [frames |-> release_all(st.frames, history_evicts(st.h, RingSlots)),
     h |-> history_push(st.h, f, RingSlots)]

Left(r) == [k \in 1..(r.head - r.tail) |-> r.slots[ring_slot_index(r.tail + k)]]
Kept(s) == Min({Len(Left(ring[s])), Cardinality(Free(frames))})
(* The samples consume answers, up to the first Malformed slot. *)
Readable(s) == Max({n \in 0..Len(Left(ring[s])) :
                      \A k \in 1..n : Left(ring[s])[k].seq = ring[s].tail + k})

Salvage(s) ==
    LET old == sub[s].history
        copy(st, slot) ==
            LET f == Position(st.frames) IN
            PushOut([st EXCEPT !.frames[f] =
                        [refs |-> 1, sample |-> slot.sample, at |-> now]], f)
        start == [frames |-> frames, h |-> NewSubscriber.history]
        ringed == FoldLeft(copy, start, SubSeq(Left(ring[s]), 1, Kept(s)))
        all == FoldLeft(PushOut, ringed, old.q)
    IN  [all EXCEPT !.h.lost = @ + (Readable(s) - Kept(s)) + old.lost]

(* reprovision_participants: the stale role is salvaged and reclaimed and  *)
(* a fresh ring mapped at the ordinal of the roles that remain, which is  *)
(* the last role's page: if another holds it, the broker fails.            *)
Reprovision ==
    /\ At("reprovision")
    /\ \/ /\ \A s \in Subscribers : task[s] # "requesting"
          /\ Goto("pump", 1)
          /\ UNCHANGED <<last, ring, frames, sub, task>>
       \/ \E s \in Subscribers :
          /\ task[s] = "requesting"
          /\ IF Readable(s) < Kept(s) THEN
                Fail /\ UNCHANGED <<last, ring, frames, sub, task>>
             ELSE
                /\ \E out \in {Salvage(s)} :
                     /\ frames' = out.frames
                     /\ sub' = [sub EXCEPT ![s] =
                                   [NewSubscriber EXCEPT !.history = out.h]]
                /\ ring' = [ring EXCEPT ![s] = NewRing]
                /\ IF last # s THEN Fail /\ UNCHANGED <<last, task>>
                   ELSE /\ last' = s
                        /\ task' = [task EXCEPT ![s] = "drain"]
                        /\ Goto("reprovision", 0)
    /\ UNCHANGED <<plane, now, clock, late, view, sent, seen, pub, outbox,
                   credit>>

----------------------------------------------------------------------------
(* A send of the broker.  send_qos_event first asks supervision, and drops *)
(* the record of a reader that is gone or that nobody lets it observe; the *)
(* loss report and the sample descriptor are sent without asking.          *)
CheckQos ==
    /\ outbox # <<>> /\ ~Head(outbox).asked
    /\ LET s == Head(outbox).to IN
       outbox' = IF Gone(s) \/ ~Supervised(s) THEN Tail(outbox)
                 ELSE [outbox EXCEPT ![1].asked = TRUE]
    /\ UNCHANGED <<environment, participants, ring, frames, pub, sub, broker,
                   credit>>

(* The records a reader's loop takes; it fails on any other. *)
Expected(s) ==
    CASE plane.loop[s] = "keepup" -> {"qos", "expired", "sample"}
      [] plane.loop[s] = "telemetry" -> {"qos", "expired", "lost"}
      [] plane.loop[s] = "diagnostics" -> {"qos", "expired"}
      [] plane.loop[s] = "withhold" -> {"qos"}
      [] plane.loop[s] = "controller" -> {"qos", "expired", "sample", "lost"}

(* The rendezvous with a reader blocked in recv_blocking. *)
HandOver ==
    /\ outbox # <<>> /\ Head(outbox).asked
    /\ LET e == Head(outbox)
           s == e.to
       IN  /\ task[s] = "parked"
           /\ task' = [task EXCEPT ![s] =
                          IF e.kind \in Expected(s) THEN "drain" ELSE "dead"]
           /\ seen' = [seen EXCEPT ![s].shared = @ \/ e.kind = "sample"]
    /\ outbox' = Tail(outbox)
    /\ UNCHANGED <<environment, view, sent, ring, frames, pub, sub, broker,
                   credit>>

----------------------------------------------------------------------------
(* A publisher's loop: publish loads the header, and on a full ring waits  *)
(* for a credit; a large sample's descriptor is sent on the control        *)
(* endpoint.                                                               *)
Publish(p) ==
    /\ task[p] = "run"
    /\ LET h == header(ring[p]) IN
       \/ /\ Large(Sample(p, sent[p] + 1))
          /\ task' = [task EXCEPT ![p] = "offering"]
          /\ UNCHANGED view
       \/ /\ ~Large(Sample(p, sent[p] + 1)) /\ is_full(h)
          /\ task' = [task EXCEPT ![p] = "full"]
          /\ UNCHANGED view
       \/ /\ ~Large(Sample(p, sent[p] + 1)) /\ ~is_full(h)
          /\ task' = [task EXCEPT ![p] = "loaded"]
          /\ view' = [view EXCEPT ![p] = Viewed(h, FALSE)]
    /\ UNCHANGED <<environment, sent, seen, ring, frames, pub, sub, broker,
                   outbox, credit>>

Published(p) ==
    /\ p \in Publishers /\ task[p] = "loaded"
    /\ LET x == Sample(p, sent[p] + 1) IN
       /\ ring' = [ring EXCEPT ![p] = published(@, view[p], x)]
       /\ sent' = [sent EXCEPT ![p] = @ + 1]
       /\ task' = [task EXCEPT ![p] = IF IsLast(x) THEN "gone" ELSE "run"]
       /\ view' = [view EXCEPT ![p] = NoView]
    /\ UNCHANGED <<environment, seen, frames, pub, sub, broker, outbox, credit>>

Credited(p) ==
    /\ task[p] = "full" /\ credit[p]
    /\ task' = [task EXCEPT ![p] = "run"]
    /\ credit' = [credit EXCEPT ![p] = FALSE]
    /\ UNCHANGED <<environment, view, sent, seen, ring, frames, pub, sub,
                   broker, outbox>>

(* A publisher exits without its last sample. *)
Leave(p) ==
    /\ p \in Publishers \cap Mortal /\ task[p] = "run"
    /\ task' = [task EXCEPT ![p] = "gone"]
    /\ UNCHANGED <<environment, view, sent, seen, ring, frames, pub, sub,
                   broker, outbox, credit>>

(* A reader's loop: consume until the ring is empty, then block in the     *)
(* receive, or exit if the END is behind it.  The header first.            *)
Consume(s) ==
    /\ task[s] = "drain"
    /\ LET h == header(ring[s])
           idle == IF seen[s].ending THEN "gone" ELSE "parked"
       IN  IF is_empty(h) THEN
              task' = [task EXCEPT ![s] = idle] /\ UNCHANGED view
           ELSE
              /\ task' = [task EXCEPT ![s] = "loaded"]
              /\ view' = [view EXCEPT ![s] = Viewed(h, FALSE)]
    /\ UNCHANGED <<environment, sent, seen, ring, frames, pub, sub, broker,
                   outbox, credit>>

(* The slot: a Malformed one fails the reader, or keepup's loop ends.      *)
ReadSlot(s) ==
    /\ s \in Subscribers /\ task[s] = "loaded"
    /\ \/ /\ malformed(ring[s], view[s])
          /\ task' = [task EXCEPT ![s] =
                         IF plane.loop[s] = "keepup" THEN "parked" ELSE "dead"]
          /\ view' = [view EXCEPT ![s] = NoView]
       \/ /\ ~malformed(ring[s], view[s])
          /\ task' = [task EXCEPT ![s] = "got"]
          /\ view' = [view EXCEPT ![s].final =
                         IsLast(owed(ring[s], view[s]).sample)]
    /\ UNCHANGED <<environment, sent, seen, ring, frames, pub, sub, broker,
                   outbox, credit>>

(* The header stored and the credit signalled.  The last sample ends the   *)
(* controller, and a reader that was also lent one; the controller may     *)
(* fault once it has credited a sample.                                    *)
Consumed(s) ==
    /\ task[s] = "got"
    /\ ring' = [ring EXCEPT ![s] = consumed(@, view[s])]
    /\ view' = [view EXCEPT ![s] = NoView]
    /\ credit' = [credit EXCEPT ![s] =
                     @ \/ ~(seen[s].ending \/ plane.loop[s] = "withhold")]
    /\ seen' = [seen EXCEPT ![s].inline = TRUE]
    /\ LET leaves == /\ view[s].final
                     /\ \/ plane.loop[s] = "controller"
                        \/ plane.loop[s] = "keepup" /\ seen[s].shared
       IN
       \/ task' = [task EXCEPT ![s] = IF leaves THEN "gone" ELSE "drain"]
       \/ /\ s \in Mortal /\ ~view[s].final /\ seen[s].starts < MaxRestarts
          /\ task' = [task EXCEPT ![s] = "faulted"]
    /\ UNCHANGED <<environment, sent, frames, pub, sub, broker, outbox>>

(* The robot's supervisor restarts its controller, whose first act is to   *)
(* ask the broker for its role.                                            *)
Restart(s) ==
    /\ task[s] = "faulted"
    /\ task' = [task EXCEPT ![s] = "requesting"]
    /\ seen' = [seen EXCEPT ![s].starts = @ + 1]
    /\ UNCHANGED <<environment, view, sent, ring, frames, pub, sub, broker,
                   outbox, credit>>

(* The time source advances the clock, or exits. *)
Tick ==
    /\ clock = "idle" /\ now < Ticks
    /\ clock' = "offering"
    /\ UNCHANGED <<plane, last, now, late, participants, ring, frames, pub,
                   sub, broker, outbox, credit>>
ClockExit ==
    /\ clock = "idle" /\ now = Ticks
    /\ clock' = "gone"
    /\ UNCHANGED <<plane, last, now, late, participants, ring, frames, pub,
                   sub, broker, outbox, credit>>

----------------------------------------------------------------------------
Broker == \/ Reprovision \/ Pump \/ Take \/ PumpControl
          \/ Acks \/ Deliver \/ Drop \/ Write
          \/ Time \/ Late \/ Supervise \/ announce_end \/ Finish
          \/ CheckQos \/ HandOver
PublisherStep(p) == /\ p \in Publishers
                    /\ Publish(p) \/ Published(p) \/ Credited(p)
Reader(s) == /\ s \in Subscribers
             /\ Consume(s) \/ ReadSlot(s) \/ Consumed(s) \/ Restart(s)

Next == \/ Broker
        \/ \E x \in Participants : PublisherStep(x) \/ Leave(x) \/ Reader(x)
        \/ Tick \/ ClockExit

Spec == Init /\ [][Next]_vars

(* seL4 runs every runnable task: the broker's loop, the loops of the      *)
(* participants and the time source.  Weak fairness of each, with what     *)
(* enables its step spelt out and the step known by what only it changes.  *)
BrokerReady ==
    /\ broker.pc \notin {"done", "failed"}
    /\ \/ outbox = <<>> \/ ~Head(outbox).asked
       \/ task[Head(outbox).to] = "parked"
PublisherReady(x) == /\ x \in Publishers
                     /\ task[x] \in {"run", "loaded"} \/ (task[x] = "full" /\ credit[x])
ReaderReady(x) == /\ x \in Subscribers
                  /\ task[x] \in {"drain", "loaded", "got", "faulted"}

BrokerMoves == broker' # broker \/ outbox' # outbox
PublisherMoves(x) == PublisherReady(x) /\ task'[x] # task[x]
ReaderMoves(x) == ReaderReady(x) /\ task'[x] # task[x]

(* The root refuses a loan while the broker's loans are spent, and readers *)
(* return theirs at once: none is refused forever.                         *)
LoanOwed(x) ==
    /\ x \in Subscribers /\ sub[x].history.q # <<>>
    /\ Large(frames[Head(sub[x].history.q)].sample)

FairSpec ==
    /\ Spec
    /\ []<>(~BrokerReady) \/ []<><<BrokerMoves>>_vars
    /\ \A x \in Participants :
          /\ []<>(~PublisherReady(x)) \/ []<><<PublisherMoves(x)>>_vars
          /\ []<>(~LoanOwed(x))
          /\ []<>(~ReaderReady(x)) \/ []<><<ReaderMoves(x)>>_vars
    /\ []<>(clock # "idle")

----------------------------------------------------------------------------
Occurs(q, f) == Cardinality({i \in DOMAIN q : q[i] = f})
References(f) ==
    MapThenSumSet(LAMBDA s : Occurs(sub[s].history.q, f), Subscribers)
    + MapThenSumSet(LAMBDA p : Occurs(pub[p].retained.q, f), Publishers)
    + Occurs(late.q, f)

(* A frame counts exactly the history, retained and replay entries that    *)
(* name it, so none is freed under a queue and none is leaked, through     *)
(* evictions, expiries, exhausted retries, salvage and replay; and what a  *)
(* history queues is a sample, never an emptied frame.                     *)
FramesExact ==
    \A f \in FrameIds :
        /\ frames[f].refs = References(f)
        /\ \A s \in Subscribers :
              Occurs(sub[s].history.q, f) > 0 => frames[f].sample # None

(* Time advances only with the expired samples taken out, so that no sample *)
(* past its lifespan is in a history the broker delivers from.             *)
FreshWhenDelivered ==
    broker.pc = "deliver" =>
        \A s \in Subscribers, f \in FrameIds :
            Occurs(sub[s].history.q, f) > 0 => ~Expired(f, now)

(* The rings only one party consumes from: a publisher's, and a RELIABLE   *)
(* subscriber's; the broker also drops samples from the others.            *)
OneReader == Publishers \cup Reliable

(* Whatever headers the peers load and store across each other, no ring    *)
(* counts fewer than none or more than its slots, where head - tail would  *)
(* wrap; and on a ring with one reader every sequence between the cursors  *)
(* is in its slot, so that neither peer ever finds it Malformed.           *)
RingsSound ==
    \A x \in DOMAIN ring :
        LET r == ring[x] IN
        /\ r.head - r.tail \in 0..RingSlots
        /\ x \in OneReader =>
              \A n \in (r.tail + 1)..r.head : r.slots[ring_slot_index(n)].seq = n

Waiting(x) == x \in Subscribers \ Reliable /\ task[x] = "parked"

(* No best-effort reader of a stream is left blocked in its receive: the   *)
(* END is offered until it takes it, however its publishers exit, unless   *)
(* the broker fails or a reader does.                                      *)
ReadersEnd ==
    (/\ plane.kind # "robot"
     /\ [](broker.pc # "failed" /\ \A s \in Subscribers : task[s] # "dead"))
        => \A x \in Participants : []<>(~Waiting(x))

Unread(p) == {ring[p].slots[ring_slot_index(n)].sample :
                 n \in (ring[p].tail + 1)..ring[p].head}

(* "This ring cannot drop: `publish` refuses at capacity rather than       *)
(* overwriting, and one reader owns `tail`" (components/proto/src/ring.rs, *)
(* 219): a sample leaves a publisher's ring only when the broker has read  *)
(* it.                                                                     *)
CannotDrop ==
    [][\A p \in Publishers : \A x \in Unread(p) \ Unread(p)' :
          /\ broker.pc = "take" /\ Pubs[broker.i] = p
          /\ x = owed(ring[p], broker.h).sample]_vars

=============================================================================
