---------------------------- MODULE SharedBuffer ----------------------------
(***************************************************************************)
(* The root task's shared-buffer table (slime-root/src/shared_buffer.rs)   *)
(* over the live page tables (buffer_adapter.rs and the allocator's        *)
(* mapping_tables.rs and shared_backing.rs).  A holder creates buffers,    *)
(* maps them, seals them, lends ranges of them, and releases them; a dead  *)
(* holder is reclaimed.  The root is single-threaded, so one request is    *)
(* one action; but any adapter call inside it may fail, and what the code  *)
(* then leaves behind is what the next request starts from.                *)
(***************************************************************************)
EXTENDS Integers, Sequences, FiniteSets, SequencesExt, FiniteSetsExt

CONSTANTS
    Holder,          \* tasks; each has one VSpace, named by the holder itself
    Frame,           \* frame capabilities the allocator may hand out (naturals)
    Addr,            \* page-aligned user addresses (naturals)
    None,
    MaxBuffers,      \* MAX_SHARED_BUFFERS
    MaxMappings,     \* MAX_MAPPINGS
    MaxLoans,        \* MAX_LOANS
    MaxMappingPages, \* MAX_MAPPING_PAGES = MAX_ORPHANS
    MaxPages,        \* MAX_BUFFER_PAGES
    MaxTotalPages,   \* MAX_TOTAL_PAGES
    Quota,           \* the ceiling the generation declares for each holder
    MaxBufferIds,    \* bound on buffer identities
    MaxLoanIds,      \* bound on loan identities
    MaxFaults        \* bound on failing adapter calls

VARIABLES
    regions,   \* slot -> Region or None
    mappings,  \* slot -> MappingRecord or None
    loans,     \* slot -> Loan or None
    charges,   \* holder -> live charges (all zero: no entry)
    quotas,    \* holder -> declared ceiling (all zero: no entry)
    orphans,   \* slot -> page whose rollback unmap failed, or None
    ids,       \* next_buffer_id, next_loan_id and total_pages
    machine,   \* page tables, tracked pages, frame states
    life       \* holder -> absent, live, dying (in Retirements), gone

table == <<regions, mappings, loans, charges, quotas, orphans, ids>>
vars == <<regions, mappings, loans, charges, quotas, orphans, ids, machine, life>>

Zero == [pages |-> 0, buffers |-> 0, mappings |-> 0, loans |-> 0]

Live(t) == {s \in DOMAIN t : t[s] # None}
FirstFree(t) == Min(DOMAIN t \ Live(t))
Full(t) == \A s \in DOMAIN t : t[s] # None

Init ==
    /\ regions = [s \in 1..MaxBuffers |-> None]
    /\ mappings = [s \in 1..MaxMappings |-> None]
    /\ loans = [s \in 1..MaxLoans |-> None]
    /\ charges = [h \in Holder |-> Zero]
    /\ quotas = [h \in Holder |-> Zero]
    /\ orphans = [s \in 1..MaxMappingPages |-> None]
    /\ ids = [buffer |-> 1, loan |-> 1, total |-> 0]
    /\ machine = [leaf |-> {}, tracked |-> {}, free |-> Frame,
                  released |-> {}, faults |-> 0]
    /\ life = [h \in Holder |-> "absent"]

-----------------------------------------------------------------------------
(* The adapter.  A session threads the machine through the calls of one    *)
(* request: ok is lost at the first failure, done counts the calls of the   *)
(* current batch that worked.  Any call may fail, so a call yields the set  *)
(* of sessions it may leave.                                                *)

Session == [m |-> machine, ok |-> TRUE, done |-> 0]
Batch(a) == [a EXCEPT !.ok = TRUE, !.done = 0]
Failed(a) == [a EXCEPT !.ok = FALSE]

\* The mapping the root's own frame capability holds: a capability records one
\* mapping, so every further mapping of the frame goes through a copy of it.
AnchorLeaf(m, f) == {l \in m.leaf : l.frame = f /\ l.via = "anchor"}
AliasLeaf(m, f) == {l \in m.leaf : l.frame = f /\ l.via = "alias"}
LeafAt(m, f, vs, va) ==
    {l \in m.leaf : l.frame = f /\ l.vspace = vs /\ l.vaddr = va}

\* prepare_mapping_page refuses a page it already tracks, the kernel refuses a
\* deleted capability, a page that is taken, and a capability that already maps
\* its frame elsewhere in the same VSpace.
Mappable(m, f, vs, va) ==
    /\ <<vs, va>> \notin m.tracked
    /\ f \notin m.released
    /\ ~ \E l \in m.leaf : l.vspace = vs /\ l.vaddr = va
    /\ ~ \E l \in AnchorLeaf(m, f) : l.vspace = vs

Install(m, f, vs, va, rights) ==
    [m EXCEPT !.leaf = @ \union {[frame |-> f, vspace |-> vs, vaddr |-> va,
                  rights |-> rights,
                  via |-> IF AnchorLeaf(m, f) = {} THEN "anchor" ELSE "alias"]},
              !.tracked = @ \union {<<vs, va>>}]

\* BufferAdapter: the tracker knows addresses, not frames.  An untracked page
\* counts as unmapped; a tracked one is removed through the copy recorded for
\* exactly this page, else through whatever the root's own anchor maps.
unmap_frame(m, f, vs, va) ==
    IF f \in m.released \/ <<vs, va>> \notin m.tracked THEN m
    ELSE LET own == LeafAt(m, f, vs, va) \intersect AliasLeaf(m, f)
         IN [m EXCEPT !.leaf = @ \ (IF own # {} THEN own ELSE AnchorLeaf(m, f)),
                      !.tracked = @ \ {<<vs, va>>}]

perform(m, act) ==
    CASE act.op = "unmap" -> unmap_frame(m, act.frame, act.vspace, act.vaddr)
      [] act.op = "revoke" -> [m EXCEPT !.leaf = @ \ AliasLeaf(m, act.frame)]
      [] act.op = "release" -> [m EXCEPT !.leaf = @ \ AnchorLeaf(m, act.frame),
                                         !.released = @ \union {act.frame}]
      [] act.op = "settle" -> m

Call(a, works, after) ==
    IF ~works THEN {Failed(a)}
    ELSE {[a EXCEPT !.done = @ + 1, !.m = after]} \union
         IF a.m.faults < MaxFaults THEN {[Failed(a) EXCEPT !.m.faults = @ + 1]} ELSE {}

Perform(a, act) == IF a.ok THEN Call(a, TRUE, perform(a.m, act)) ELSE {a}
PerformIn(S, act) == UNION {Perform(a, act) : a \in S}

map_frame(a, f, vs, va, rights) ==
    IF a.ok THEN Call(a, Mappable(a.m, f, vs, va), Install(a.m, f, vs, va, rights))
    ELSE {a}

-----------------------------------------------------------------------------
(* Lookups and accounting.                                                  *)

RegionSlot(b) == CHOOSE s \in DOMAIN regions : regions[s] # None /\ regions[s].id = b
Region(b) == regions[RegionSlot(b)]
LoanSlots(b) == {s \in DOMAIN loans : loans[s] # None /\ loans[s].buffer = b}
MappingSlots(b) == {s \in DOMAIN mappings : mappings[s] # None /\ mappings[s].buffer = b}

PageOf(rec, i) == [frame |-> Region(rec.buffer).frames[rec.offset + i],
                   vspace |-> rec.holder, vaddr |-> rec.base + i - 1]
Pages(rec) == [i \in 1..rec.count |-> PageOf(rec, i)]
Unmap(p) == [op |-> "unmap", frame |-> p.frame, vspace |-> p.vspace, vaddr |-> p.vaddr]

Charged(c) == {h \in Holder : c[h] # Zero}
preflight_charge_slot(h) ==
    charges[h] # Zero \/ Cardinality(Charged(charges)) < MaxBuffers + MaxMappings
Add(c, h, field, n) == [c EXCEPT ![h][field] = @ + n]

Span(base, count) == base .. base + count - 1

\* validate_page_range and the address half of validate_mapping_range.
InRange(offset, count, pages) == count > 0 /\ offset + count <= pages
UserRange(base, count) == Span(base, count) \subseteq Addr

preflight_mapping(h, count) ==
    /\ charges[h].mappings + 1 <= quotas[h].mappings
    /\ ~ Full(mappings)
    /\ Cardinality(Live(orphans)) + count
        + MapThenSumSet(LAMBDA s : mappings[s].count, Live(mappings))
            <= MaxMappingPages
    /\ preflight_charge_slot(h)

\* record_orphan: a page already recorded is not recorded twice.
RecordOrphans(o, pages) ==
    FoldLeft(LAMBDA acc, p : IF \E s \in Live(acc) : acc[s] = p THEN acc
                             ELSE [acc EXCEPT ![FirstFree(acc)] = p],
             o, pages)

-----------------------------------------------------------------------------
(* Batches of adapter calls.                                                *)

UnmapPages(a, pages) == FoldLeft(LAMBDA S, p : PerformIn(S, Unmap(p)), {a}, pages)
MapPages(a, pages, rights) ==
    FoldLeft(LAMBDA S, p : UNION {map_frame(x, p.frame, p.vspace, p.vaddr, rights) : x \in S},
             {a}, pages)

\* Mutant: a page whose unmap fails is not remembered.
RollbackForgets(a, pages) ==
    {[a |-> u, ok |-> FALSE, left |-> <<>>] : u \in UnmapPages(Batch(a), Reverse(pages))}

\* execute_mapping's rollback: every page already mapped is unmapped, newest
\* first; a page whose unmap fails becomes an orphan and the rest still go.
Rollback(a, pages) ==
    FoldLeft(LAMBDA S, p :
                UNION {{[x EXCEPT !.a = one, !.left = IF one.ok THEN @ ELSE Append(@, p)] :
                            one \in Perform(Batch(x.a), Unmap(p))} : x \in S},
             {[a |-> a, ok |-> FALSE, left |-> <<>>]}, Reverse(pages))

TryMapping(rec) ==
    LET pages == Pages(rec)
    IN UNION {IF a.ok THEN {[a |-> a, ok |-> TRUE, left |-> <<>>]}
              ELSE Rollback(a, SubSeq(pages, 1, a.done)) :
                 a \in MapPages(Session, pages, rec.rights)}

execute_mapping(rec) ==
    \E run \in TryMapping(rec) :
        /\ machine' = run.a.m
        /\ orphans' = RecordOrphans(orphans, run.left)
        /\ IF run.ok
           THEN /\ mappings' = [mappings EXCEPT ![FirstFree(mappings)] = rec]
                /\ charges' = Add(charges, rec.holder, "mappings", 1)
           ELSE UNCHANGED <<mappings, charges>>

\* remap_mapping: unmap every page, map every page with the new rights; on a
\* failure undo what was done and put the old rights back, as far as that goes.
remap_mapping(a, rec, target, back) ==
    LET pages == Pages(rec)
        Restore(x, some) == {Failed(y) : y \in MapPages(Batch(x), some, back)}
        Undo(on) == UNION {IF x.ok THEN Restore(x, pages) ELSE {x} :
                              x \in UnmapPages(Batch(on), SubSeq(pages, 1, on.done))}
        Change(off) == UNION {IF on.ok THEN {on} ELSE Undo(on) :
                                 on \in MapPages(Batch(off), pages, target)}
    IN UNION {IF off.ok THEN Change(off) ELSE Restore(off, SubSeq(pages, 1, off.done)) :
                 off \in UnmapPages(Batch(a), pages)}

\* seal's loop over the writable mappings with rollback_seal: the first mapping
\* that cannot be converted sends the converted ones back, newest first.
SealAll(slots) ==
    LET went == FoldLeft(LAMBDA S, s :
                    UNION {IF ~x.a.ok THEN {x}
                           ELSE {[a |-> one, n |-> IF one.ok THEN x.n + 1 ELSE x.n] :
                                    one \in remap_mapping(x.a, mappings[s], "ro", "rw")} :
                              x \in S},
                    {[a |-> Session, n |-> 0]}, slots)
        Undo(x) == FoldLeft(LAMBDA S, s :
                       UNION {IF y.ok THEN remap_mapping(y, mappings[s], "rw", "ro") ELSE {y} :
                                 y \in S},
                       {Batch(x.a)}, Reverse(SubSeq(slots, 1, x.n)))
    IN UNION {IF x.a.ok THEN {x.a} ELSE {Failed(u) : u \in Undo(x)} : x \in went}

-----------------------------------------------------------------------------
(* Teardown.                                                                *)

Ordered(S) == SelectSeq([i \in 1..Max(S \union {0}) |-> i], LAMBDA i : i \in S)
Concat(seqs) == FoldLeft(\o, <<>>, seqs)

\* complete_region_removals: a released region whose last loan settles goes
\* too, and with a region go all its mappings.
Closed(plan) ==
    LET gone == plan.regions \union
                {s \in Live(regions) : /\ regions[s].released
                                       /\ LoanSlots(regions[s].id) \subseteq plan.loans}
    IN [plan EXCEPT !.regions = gone,
            !.mappings = @ \union UNION {MappingSlots(regions[s].id) : s \in gone}]

\* Mutant: the mappings made over the loans stay.
PlanSettleKeepsMappings(S) == Closed([loans |-> S, regions |-> {}, mappings |-> {}])

plan_settle_loans(S) ==
    Closed([loans |-> S, regions |-> {},
            mappings |-> {s \in Live(mappings) :
                             \E l \in S : mappings[s].loan = loans[l].id}])

FramesOf(slots) == Concat([i \in 1..Cardinality(slots) |->
                              regions[Ordered(slots)[i]].frames])

\* build_actions: unmap every mapping, then revoke every frame, then release.
build_actions(plan) ==
    LET maps == Ordered(plan.mappings)
        frames == FramesOf(plan.regions)
    IN Concat([i \in DOMAIN maps |->
                  [j \in 1..mappings[maps[i]].count |->
                      Unmap(PageOf(mappings[maps[i]], j))]])
       \o [i \in DOMAIN frames |-> [op |-> "revoke", frame |-> frames[i]]]
       \o [i \in DOMAIN frames |-> [op |-> "release", frame |-> frames[i]]]

\* Orphans the slots of which are in due, unmapped one by one.
SettleOrphans(a, o, due, Before(_)) ==
    FoldLeft(LAMBDA S, s :
                UNION {{[a |-> one, o |-> IF one.ok THEN [x.o EXCEPT ![s] = None] ELSE x.o] :
                            one \in Perform(Before(x.a), Unmap(o[s]))} : x \in S},
             {[a |-> a, o |-> o]}, Ordered(due))

\* Mutant: the orphans of the retiring frames stay mapped.
RunActionsKeepsOrphans(a, o, plan) ==
    {[a |-> b, o |-> o] : b \in FoldLeft(PerformIn, {a}, build_actions(plan))}

\* run_actions: orphans of the retiring frames are unmapped first, up to the
\* first that will not go.
RunActions(a, o, plan) ==
    LET frames == Range(FramesOf(plan.regions))
        acts == build_actions(plan)
    IN UNION {{[x EXCEPT !.a = b] : b \in FoldLeft(PerformIn, {x.a}, acts)} :
                 x \in SettleOrphans(a, o, {s \in Live(o) : o[s].frame \in frames},
                                     LAMBDA b : b)}

\* Mutant: a mapping is returned to its buffer's owner, not its holder.
UnchargedFromOwner(plan) ==
    [h \in Holder |->
        LET own == {s \in plan.regions : regions[s].owner = h}
        IN [pages |-> charges[h].pages - Len(FramesOf(own)),
            buffers |-> charges[h].buffers - Cardinality(own),
            mappings |-> charges[h].mappings
                - Cardinality({s \in plan.mappings : Region(mappings[s].buffer).owner = h}),
            loans |-> charges[h].loans
                - Cardinality({s \in plan.loans : loans[s].lender = h})]]

\* commit_teardown's charges: each mapping its holder's, each loan its
\* lender's, each region its owner's.
Uncharged(plan) ==
    [h \in Holder |->
        LET own == {s \in plan.regions : regions[s].owner = h}
        IN [pages |-> charges[h].pages - Len(FramesOf(own)),
            buffers |-> charges[h].buffers - Cardinality(own),
            mappings |-> charges[h].mappings
                - Cardinality({s \in plan.mappings : mappings[s].holder = h}),
            loans |-> charges[h].loans
                - Cardinality({s \in plan.loans : loans[s].lender = h})]]

Without(t, S) == [s \in DOMAIN t |-> IF s \in S THEN None ELSE t[s]]

commit_teardown(plan) ==
    /\ mappings' = Without(mappings, plan.mappings)
    /\ loans' = Without(loans, plan.loans)
    /\ regions' = Without(regions, plan.regions)
    /\ charges' = Uncharged(plan)

\* commit_releases: the frames of a committed batch may be handed out again.
Published(a, plan) ==
    LET frames == Range(FramesOf(plan.regions))
    IN [a EXCEPT !.m.free = @ \union frames, !.m.released = @ \ frames]

Teardown(a, o, plan) ==
    {IF run.a.ok THEN [run EXCEPT !.a = Published(@, plan)] ELSE run :
        run \in RunActions(a, o, plan)}

execute_teardown(plan) ==
    \E run \in Teardown(Session, orphans, plan) :
        /\ machine' = run.a.m
        /\ orphans' = run.o
        /\ IF run.a.ok THEN commit_teardown(plan)
           ELSE UNCHANGED <<mappings, loans, regions, charges>>

-----------------------------------------------------------------------------
(* Requests.                                                                *)

\* authorize: the table's own record of the owner decides.  A handle carries
\* the region's rights: map, write and loan if writable, else map alone.
Owns(h, s) == /\ life[h] = "live"
              /\ regions[s] # None
              /\ regions[s].owner = h
              /\ ~ regions[s].released

Receives(h, l) == life[h] = "live" /\ loans[l] # None /\ loans[l].receiver = h

declare_quota(h) ==
    /\ life[h] = "absent"
    /\ life' = [life EXCEPT ![h] = "live"]
    /\ quotas' = [quotas EXCEPT ![h] = Quota[h]]
    /\ UNCHANGED <<regions, mappings, loans, charges, orphans, ids, machine>>

create(h, n, writable) ==
    /\ life[h] = "live"
    /\ charges[h].pages + n <= quotas[h].pages
    /\ charges[h].buffers + 1 <= quotas[h].buffers
    /\ ids.total + n <= MaxTotalPages
    /\ ~ Full(regions)
    /\ preflight_charge_slot(h)
    /\ ids.buffer <= MaxBufferIds
    /\ Cardinality(machine.free) >= n
    /\ LET frames == SubSeq(Ordered(machine.free), 1, n)
       IN /\ regions' = [regions EXCEPT ![FirstFree(regions)] =
                 [id |-> ids.buffer, owner |-> h, frames |-> frames,
                  writable |-> writable, sealed |-> FALSE, released |-> FALSE]]
          /\ machine' = [machine EXCEPT !.free = @ \ Range(frames)]
    /\ ids' = [ids EXCEPT !.buffer = @ + 1, !.total = @ + n]
    /\ charges' = Add(Add(charges, h, "pages", n), h, "buffers", 1)
    /\ UNCHANGED <<mappings, loans, quotas, orphans, life>>

map(h, s, base, offset, count, rights) ==
    /\ Owns(h, s)
    /\ rights = "rw" => regions[s].writable /\ ~ regions[s].sealed
    /\ InRange(offset, count, Len(regions[s].frames)) /\ UserRange(base, count)
    /\ preflight_mapping(h, count)
    /\ execute_mapping([holder |-> h, buffer |-> regions[s].id, base |-> base,
                        offset |-> offset, count |-> count, rights |-> rights,
                        loan |-> None])
    /\ UNCHANGED <<regions, loans, quotas, ids, life>>

\* The loan alone decides the rights; the region is not asked whether it has
\* been sealed or released since.
map_loan(h, l, base, offset, count) ==
    /\ Receives(h, l)
    /\ InRange(offset, count, loans[l].count) /\ UserRange(base, count)
    /\ preflight_mapping(h, count)
    /\ execute_mapping([holder |-> h, buffer |-> loans[l].buffer, base |-> base,
                        offset |-> loans[l].offset + offset, count |-> count,
                        rights |-> IF loans[l].writable THEN "rw" ELSE "ro",
                        loan |-> loans[l].id])
    /\ UNCHANGED <<regions, loans, quotas, ids, life>>

Only(s) == [loans |-> {}, regions |-> {}, mappings |-> {s}]

unmap(h, s) ==
    /\ mappings[s] # None
    /\ mappings[s].holder = h /\ mappings[s].loan = None
    /\ Owns(h, RegionSlot(mappings[s].buffer))
    /\ execute_teardown(Only(s))
    /\ UNCHANGED <<quotas, ids, life>>

\* Any live loan of the same buffer authorises; the record says who mapped it.
unmap_loan(h, s) ==
    /\ mappings[s] # None
    /\ mappings[s].holder = h /\ mappings[s].loan # None
    /\ \E l \in LoanSlots(mappings[s].buffer) : Receives(h, l)
    /\ execute_teardown(Only(s))
    /\ UNCHANGED <<quotas, ids, life>>

seal(h, s) ==
    /\ Owns(h, s) /\ regions[s].writable /\ ~ regions[s].sealed
    /\ \E slots \in {Ordered({k \in MappingSlots(regions[s].id) : mappings[k].rights = "rw"})} :
       \E a \in SealAll(slots) :
          /\ machine' = a.m
          /\ IF a.ok
             THEN /\ mappings' = [k \in DOMAIN mappings |->
                         IF k \in Range(slots) THEN [mappings[k] EXCEPT !.rights = "ro"]
                         ELSE mappings[k]]
                  /\ regions' = [regions EXCEPT ![s].sealed = TRUE]
             ELSE UNCHANGED <<mappings, regions>>
    /\ UNCHANGED <<loans, charges, quotas, orphans, ids, life>>

\* The receiver is named by a supervision handle or a declared endpoint; a
\* handle still names a task that has died.
loan(h, peer, s, offset, count, writable) ==
    /\ Owns(h, s) /\ regions[s].writable /\ peer # h /\ life[peer] # "absent"
    /\ writable # regions[s].sealed
    /\ InRange(offset, count, Len(regions[s].frames))
    /\ charges[h].loans + 1 <= quotas[h].loans
    /\ ~ Full(loans)
    /\ preflight_charge_slot(h)
    /\ ids.loan <= MaxLoanIds
    /\ loans' = [loans EXCEPT ![FirstFree(loans)] =
           [id |-> ids.loan, buffer |-> regions[s].id, lender |-> h, receiver |-> peer,
            offset |-> offset, count |-> count, writable |-> writable]]
    /\ ids' = [ids EXCEPT !.loan = @ + 1]
    /\ charges' = Add(charges, h, "loans", 1)
    /\ UNCHANGED <<regions, mappings, quotas, orphans, machine, life>>

\* Teardowns that may remove regions also give back their pages.
Return(plan) ==
    ids' = [ids EXCEPT !.total =
               @ - Len(FramesOf({s \in plan.regions : regions'[s] = None}))]

return_loan(h, l) ==
    /\ Receives(h, l)
    /\ \E plan \in {plan_settle_loans({l})} : execute_teardown(plan) /\ Return(plan)
    /\ UNCHANGED <<quotas, life>>

revoke_loan(h, l) ==
    /\ life[h] = "live" /\ loans[l] # None /\ loans[l].lender = h
    /\ \E plan \in {plan_settle_loans({l})} : execute_teardown(plan) /\ Return(plan)
    /\ UNCHANGED <<quotas, life>>

\* Outstanding loans keep the region, marked released, and their mappings.
ReleasePlan(s, lent) ==
    [loans |-> {}, regions |-> IF lent THEN {} ELSE {s},
     mappings |-> {k \in MappingSlots(regions[s].id) : mappings[k].loan = None \/ ~lent}]

release(h, s) ==
    /\ Owns(h, s)
    /\ \E lent \in {LoanSlots(regions[s].id) # {}} :
       \E plan \in {ReleasePlan(s, lent)} :
       \E run \in Teardown(Session, orphans, plan) :
          /\ machine' = run.a.m
          /\ orphans' = run.o
          /\ IF run.a.ok
             THEN /\ mappings' = Without(mappings, plan.mappings)
                  /\ regions' = IF lent THEN [regions EXCEPT ![s].released = TRUE]
                                ELSE Without(regions, {s})
                  /\ charges' = Uncharged(plan)
                  /\ Return(plan)
             ELSE UNCHANGED <<mappings, regions, charges, ids>>
    /\ UNCHANGED <<loans, quotas, life>>

\* A task that exits or faults: the retirement loop owns it from here on.
Die(h) ==
    /\ life[h] = "live"
    /\ life' = [life EXCEPT ![h] = "dying"]
    /\ UNCHANGED <<regions, mappings, loans, charges, quotas, orphans, ids, machine>>

HolderPlan(h) ==
    LET settle == plan_settle_loans({l \in Live(loans) : loans[l].lender = h
                                                         \/ loans[l].receiver = h})
    IN Closed([settle EXCEPT
                 !.mappings = @ \union {s \in Live(mappings) : mappings[s].holder = h},
                 !.regions = @ \union {s \in Live(regions) : regions[s].owner = h}])

ReclaimAll(plan, mine) ==
    LET Finish(run) == {[a |-> done, o |-> run.o, torn |-> run.a.ok, done |-> done.ok] :
                           done \in Perform(run.a, [op |-> "settle"])}
        Rest(x) == UNION {Finish(run) : run \in Teardown(Batch(x.a), x.o, plan)}
    IN UNION {IF \E s \in mine : x.o[s] # None
              THEN {[a |-> x.a, o |-> x.o, torn |-> FALSE, done |-> FALSE]}
              ELSE Rest(x) : x \in SettleOrphans(Session, orphans, mine, Batch)}

\* reclaim_dead_task: retry_vspace_orphans tries every orphan of the VSpace,
\* then reclaim_holder, then the pending cleanup; only then the quota goes and
\* the retirement moves on.
Reclaim(h, plan) == ReclaimAll(plan, {s \in Live(orphans) : orphans[s].vspace = h})

reclaim_dead_task(h) ==
    /\ life[h] = "dying"
    /\ \E plan \in {HolderPlan(h)} :
       \E run \in Reclaim(h, plan) :
          /\ machine' = run.a.m
          /\ orphans' = run.o
          /\ IF run.torn THEN commit_teardown(plan) /\ Return(plan)
             ELSE UNCHANGED <<regions, mappings, loans, charges, ids>>
          /\ quotas' = IF run.done THEN [quotas EXCEPT ![h] = Zero] ELSE quotas
          /\ life' = IF run.done THEN [life EXCEPT ![h] = "gone"] ELSE life

\* The regions h has handles of: what else it names, authorize refuses.
Own(h) == {s \in Live(regions) : regions[s].owner = h}

Request(h) ==
    \/ declare_quota(h)
    \/ \E n \in 1..MaxPages, w \in BOOLEAN : create(h, n, w)
    \/ \E s \in Own(h), base \in Addr, offset \in 0..MaxPages - 1,
          count \in 1..MaxPages, rights \in {"ro", "rw"} :
            map(h, s, base, offset, count, rights)
    \/ \E l \in Live(loans), base \in Addr, offset \in 0..MaxPages - 1,
          count \in 1..MaxPages :
            map_loan(h, l, base, offset, count)
    \/ \E s \in Live(mappings) : unmap(h, s) \/ unmap_loan(h, s)
    \/ \E s \in Own(h) : seal(h, s) \/ release(h, s)
    \/ \E s \in Own(h), peer \in Holder, offset \in 0..MaxPages - 1,
          count \in 1..MaxPages, w \in BOOLEAN : loan(h, peer, s, offset, count, w)
    \/ \E l \in Live(loans) : return_loan(h, l) \/ revoke_loan(h, l)
    \/ Die(h)
    \/ reclaim_dead_task(h)

Next == \E h \in Holder : Request(h)

Spec == Init /\ [][Next]_vars

-----------------------------------------------------------------------------
(* Properties.                                                              *)

Anchored == UNION {Range(regions[s].frames) : s \in Live(regions)}

\* The type of every variable; tables keep their capacity and every frame is
\* either free or in use.
TypeOK ==
    /\ \A s \in Live(regions) :
        regions[s] \in [id : 1..MaxBufferIds, owner : Holder, frames : Seq(Frame),
                        writable : BOOLEAN, sealed : BOOLEAN, released : BOOLEAN]
    /\ \A s \in Live(mappings) :
        mappings[s] \in [holder : Holder, buffer : 1..MaxBufferIds, base : Addr,
                         offset : 0..MaxPages - 1, count : 1..MaxPages,
                         rights : {"ro", "rw"}, loan : {None} \union 1..MaxLoanIds]
    /\ \A s \in Live(loans) :
        loans[s] \in [id : 1..MaxLoanIds, buffer : 1..MaxBufferIds, lender : Holder,
                      receiver : Holder, offset : 0..MaxPages - 1,
                      count : 1..MaxPages, writable : BOOLEAN]
    /\ \A s \in Live(orphans) :
        orphans[s] \in [frame : Frame, vspace : Holder, vaddr : Addr]
    /\ machine.leaf \subseteq [frame : Frame, vspace : Holder, vaddr : Addr,
                               rights : {"ro", "rw"}, via : {"anchor", "alias"}]
    /\ machine.tracked \subseteq Holder \X Addr
    /\ life \in [Holder -> {"absent", "live", "dying", "gone"}]

\* A task leaves the retirement's buffer phase only when the tables hold nothing
\* of it: no orphan in its VSpace, no region, mapping or charge.
GoneHoldsNothing ==
    \A h \in Holder : life[h] = "gone" =>
        /\ \A s \in Live(orphans) : orphans[s].vspace # h
        /\ \A s \in Live(regions) : regions[s].owner # h
        /\ \A s \in Live(mappings) : mappings[s].holder # h
        /\ charges[h] = Zero

\* What a holder is charged is exactly what the tables hold in its name, and
\* never more than the generation declared for it, whatever failed on the way:
\* no failed, rolled back or retried request leaks or double-frees a charge, and
\* a reclaimed holder has nothing left.
ChargesExact ==
    /\ TypeOK
    /\ GoneHoldsNothing
    /\ \A h \in Holder :
        LET own == {s \in Live(regions) : regions[s].owner = h}
        IN /\ charges[h].pages = MapThenSumSet(LAMBDA s : Len(regions[s].frames), own)
           /\ charges[h].buffers = Cardinality(own)
           /\ charges[h].mappings =
                Cardinality({s \in Live(mappings) : mappings[s].holder = h})
           /\ charges[h].loans = Cardinality({s \in Live(loans) : loans[s].lender = h})
           /\ \A f \in DOMAIN Zero : charges[h][f] <= quotas[h][f]
    /\ ids.total = MapThenSumSet(LAMBDA s : Len(regions[s].frames), Live(regions))
    /\ ids.total <= MaxTotalPages

PageAt(l) == [frame |-> l.frame, vspace |-> l.vspace, vaddr |-> l.vaddr]

\* A frame backs at most one region, and a frame the allocator may hand out
\* again is mapped nowhere and named by no orphan, so no holder can reach a
\* later owner's bytes through a page left over from an earlier one.
FramesExclusive ==
    /\ \A s, t \in Live(regions) :
        s # t => Range(regions[s].frames) \intersect Range(regions[t].frames) = {}
    /\ machine.free = Frame \ Anchored
    /\ \A l \in machine.leaf : l.frame \in Anchored
    /\ \A s \in Live(orphans) : orphans[s].frame \in Anchored

\* Every loan is a range of a region its lender still answers for, and every
\* mapping made through a loan is its receiver's, inside the lent range, and
\* gone once the loan is: release keeps the region for its borrowers, and
\* settling a loan takes the borrower's mappings with it.
LoansAnchored ==
    /\ \A l \in Live(loans) :
        \E s \in Live(regions) :
            /\ regions[s].id = loans[l].buffer /\ regions[s].owner = loans[l].lender
            /\ loans[l].offset + loans[l].count <= Len(regions[s].frames)
    /\ \A s \in Live(regions) : regions[s].released => LoanSlots(regions[s].id) # {}
    /\ \A m \in Live(mappings) :
        IF mappings[m].loan = None
        THEN \E s \in Live(regions) : /\ regions[s].id = mappings[m].buffer
                                      /\ regions[s].owner = mappings[m].holder
                                      /\ ~ regions[s].released
        ELSE \E l \in Live(loans) :
                /\ loans[l].id = mappings[m].loan
                /\ loans[l].buffer = mappings[m].buffer
                /\ loans[l].receiver = mappings[m].holder
                /\ loans[l].offset <= mappings[m].offset
                /\ mappings[m].offset + mappings[m].count
                        <= loans[l].offset + loans[l].count

\* No page the allocator tracks is forgotten: one that is live and tracked is
\* named by a mapping record of its holder, with no wider rights than the record,
\* or by an orphan record, and the reservation preflight_mapping makes leaves room
\* to name every page a rollback may fail to unmap.  The rollback of a failed map
\* or seal, itself failing, strands nothing.
TrackedPagesNamed ==
    /\ \A l \in machine.leaf :
        <<l.vspace, l.vaddr>> \in machine.tracked =>
            \/ \E s \in Live(mappings) :
                 /\ PageAt(l) \in Range(Pages(mappings[s]))
                 /\ l.rights = "rw" => mappings[s].rights = "rw"
            \/ \E s \in Live(orphans) : orphans[s] = PageAt(l)
    /\ Cardinality(Live(orphans))
        + MapThenSumSet(LAMBDA s : mappings[s].count, Live(mappings)) <= MaxMappingPages

=============================================================================
