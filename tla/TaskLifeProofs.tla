--------------------------- MODULE TaskLifeProofs ---------------------------
(***************************************************************************)
(* Proofs about TaskLife for any number of tasks, instances, handles and   *)
(* exports: the dispatcher's count is exact, an instance is represented by *)
(* one task from its launch to the end of its teardown, and no launch      *)
(* evades the restart policy.                                              *)
(*                                                                         *)
(* The inductive invariant says that task ids from ids.task on are unused, *)
(* that launched and the history of launches are inverse on the tasks of   *)
(* the table, that a handle names a spawned task, and that the instant a   *)
(* row waits for is the promised one or the promised one has passed.       *)
(***************************************************************************)
EXTENDS TaskLife, FiniteSetTheorems, WellFoundedInduction, TLAPS

Running == {t \in TaskId : Serves(t)}

Counted == live = Cardinality(Running)

\* Ids not yet given out name nothing.
Unused ==
    \A t \in TaskId : t >= ids.task =>
        /\ tasks[t] = None /\ t \notin retirements
        /\ history.published[t] = None

\* launched names a task of the table, launched for that instance.
Named ==
    \A i \in Instance : launched[i] # None =>
        /\ tasks[launched[i]] # None
        /\ history.published[launched[i]] = i

\* A handle, held or in flight, names a spawned task, which has an instance.
Subjects ==
    /\ \A t \in TaskId, s \in Slot : caps[t][s] # None => caps[t][s].task > BootTasks
    /\ \A e \in exports : e.capability.task > BootTasks
    /\ \A t \in TaskId : tasks[t] # None /\ t > BootTasks => tasks[t].instance \in Instance
    /\ ids.task > BootTasks

\* A row forgets the instant it answered only after that instant.
Waits ==
    \A i \in Instance :
        \/ rows[i].ready_at = history.promised[i]
        \/ history.promised[i] <= now

IInv ==
    /\ TypeOK /\ IsFiniteSet(exports)
    /\ Counted /\ Unused /\ Named /\ IncarnationExclusive /\ Subjects /\ Waits

-----------------------------------------------------------------------------
(* Helpers. *)

\* The bounds are naturals, and None is none of the things it stands beside.
LEMMA Bounds ==
    /\ BootTasks \in Nat /\ MaxTasks \in Nat /\ BootTasks <= MaxTasks
    /\ Attempts \in Nat /\ Backoff \in Nat /\ MaxRecords \in Nat /\ MaxExports \in Nat
    /\ MaxSlots \in Nat /\ MaxExportIds \in Nat /\ MaxTime \in Nat
    /\ None \notin Instance /\ None \notin TaskId
    /\ None \notin [instance : Instance \cup {None}, spawner : TaskId \cup {None}]
  BY TaskLifeAssumption DEF TaskId

LEMMA Numbers ==
    /\ BootTasks \in Nat /\ MaxTasks \in Nat /\ BootTasks <= MaxTasks
    /\ Attempts \in Nat /\ Backoff \in Nat /\ MaxRecords \in Nat /\ MaxExports \in Nat
    /\ MaxExportIds \in Nat /\ MaxTime \in Nat
  BY TaskLifeAssumption

\* A set of slots that is not empty has a first one.
LEMMA FirstSlot ==
    ASSUME NEW T \in SUBSET Slot, T # {}
    PROVE  Min(T) \in T
  <1> DEFINE R == OpToRel(<, Nat)
  <1>1. IsWellFoundedOn(R, Nat)
    BY NatLessThanWellFounded
  <1>2. \A x, y \in Nat : y < x => <<y, x>> \in R
    BY Zenon DEF OpToRel
  <1> HIDE DEF R
  <1>3. T \subseteq Nat
    BY Bounds DEF Slot
  <1>4. PICK x \in T : \A y \in T : ~(<<y, x>> \in R)
    BY <1>1, <1>3, WFMin, Zenon
  <1>5. \A y \in T : x =< y
    <2>1. \A y \in T : y \in Nat /\ x \in Nat /\ ~(y < x)
      BY <1>2, <1>3, <1>4, Zenon
    <2> QED BY <2>1
  <1> QED BY <1>5, Zenon DEF Min

CapsType == [TaskId -> [Slot -> Handle \cup {None}]]

\* Installing a handle puts it in a free slot and leaves the others alone.
LEMMA Installed ==
    ASSUME caps \in CapsType, NEW t \in TaskId, NEW h \in Handle, FreeSlots(t) # {},
           h.task > BootTasks, Subjects
    PROVE  /\ Install(t, h) \in CapsType
           /\ \A u \in TaskId, s \in Slot :
                  Install(t, h)[u][s] # None => Install(t, h)[u][s].task > BootTasks
  <1> DEFINE m == Min(FreeSlots(t))
  <1>1. m \in Slot
    BY FirstSlot DEF FreeSlots
  <1> HIDE DEF m
  <1>2. Install(t, h) = [caps EXCEPT ![t] = [caps[t] EXCEPT ![m] = h]]
    BY DEF Install, m, CapsType
  <1>3. [caps[t] EXCEPT ![m] = h] \in [Slot -> Handle \cup {None}]
    BY <1>1 DEF CapsType
  <1>4. Install(t, h) \in CapsType
    BY <1>2, <1>3 DEF CapsType
  <1>5. \A u \in TaskId, s \in Slot :
            Install(t, h)[u][s] = IF u = t /\ s = m THEN h ELSE caps[u][s]
    BY <1>1, <1>2 DEF CapsType
  <1> QED BY <1>4, <1>5 DEF Subjects

LEMMA Dropped ==
    ASSUME caps \in CapsType, NEW t \in TaskId, NEW s \in Slot, Subjects
    PROVE  /\ Drop(t, s) \in CapsType
           /\ \A u \in TaskId, r \in Slot :
                  Drop(t, s)[u][r] # None => Drop(t, s)[u][r].task > BootTasks
  <1>1. Drop(t, s) = [caps EXCEPT ![t] = [caps[t] EXCEPT ![s] = None]]
    BY DEF Drop, CapsType
  <1>2. Drop(t, s) \in CapsType
    BY <1>1 DEF CapsType
  <1>3. \A u \in TaskId, r \in Slot :
            Drop(t, s)[u][r] = IF u = t /\ r = s THEN None ELSE caps[u][r]
    BY <1>1 DEF CapsType
  <1> QED BY <1>2, <1>3 DEF Subjects

\* The running tasks are finitely many, so the count has its type.
LEMMA RunningFinite ==
    /\ IsFiniteSet(Running) /\ Cardinality(Running) \in 0 .. MaxTasks
    /\ \A S \in SUBSET TaskId : IsFiniteSet(S) /\ Cardinality(S) \in 0 .. MaxTasks
  <1>1. IsFiniteSet(TaskId) /\ Cardinality(TaskId) = MaxTasks
    <2>1. MaxTasks \in Nat
      BY Bounds
    <2> QED BY <2>1, FS_Interval DEF TaskId
  <1>2. ASSUME NEW S \in SUBSET TaskId
        PROVE  IsFiniteSet(S) /\ Cardinality(S) \in 0 .. MaxTasks
    <2>1. IsFiniteSet(S) /\ Cardinality(S) <= MaxTasks
      BY <1>1, FS_Subset
    <2>2. Cardinality(S) \in Nat
      BY <2>1, FS_CardinalityType
    <2> QED BY <2>1, <2>2, Bounds
  <1>3. Running \in SUBSET TaskId
    BY DEF Running
  <1> QED BY <1>2, <1>3

-----------------------------------------------------------------------------
(* What the steps leave alone. *)

\* A step that changes no task, no launch and no count: its caps, rows, exports
\* and clock have their types and keep to Subjects and Waits.
LEMMA SameTasks ==
    ASSUME IInv, UNCHANGED <<tasks, launched, retirements, live>>,
           ids'.task = ids.task, ids' \in [task : 1 .. MaxTasks + 1, export : 1 .. MaxExportIds + 1],
           history' \in [published : [TaskId -> Instance \cup {None}],
                         promised : [Instance -> 0 .. MaxTime + Backoff]],
           history'.published = history.published,
           caps' \in CapsType,
           \A t \in TaskId, s \in Slot : caps'[t][s] # None => caps'[t][s].task > BootTasks,
           rows' \in [Instance -> Row], UNCHANGED terminations,
           exports' \subseteq Export, IsFiniteSet(exports'), Cardinality(exports') <= MaxExports,
           \A e \in exports' : e.capability.task > BootTasks,
           now' \in 0 .. MaxTime, Waits'
    PROVE  IInv'
  <1>1. TypeOK'
    BY DEF IInv, TypeOK, CapsType
  <1>2. Running' = Running
    BY DEF Running, Serves
  <1>3. Counted'
    BY <1>2 DEF IInv, Counted
  <1>4. Unused' /\ Named' /\ IncarnationExclusive'
    BY DEF IInv, Unused, Named, IncarnationExclusive, Serves
  <1>5. Subjects'
    BY DEF IInv, Subjects
  <1> QED BY <1>1, <1>3, <1>4, <1>5 DEF IInv

\* A request about handles only.
LEMMA SameButCaps ==
    ASSUME IInv, caps' \in CapsType,
           \A t \in TaskId, s \in Slot : caps'[t][s] # None => caps'[t][s].task > BootTasks,
           UNCHANGED <<tasks, launched, rows, terminations, retirements, exports,
                       live, now, ids, history>>
    PROVE  IInv'
  <1>1. Waits'
    BY DEF IInv, Waits
  <1> QED BY <1>1, SameTasks DEF IInv, TypeOK, Subjects

LEMMA HandleSteps ==
    ASSUME IInv, NEW t \in TaskId, NEW s \in Slot,
           Status(t, s) \/ Derive(t, s) \/ DropHandle(t, s)
    PROVE  IInv'
  <1>1. caps \in CapsType /\ Subjects
    BY DEF IInv, TypeOK, CapsType
  <1>2. CASE Status(t, s) \/ DropHandle(t, s)
    BY <1>1, <1>2, Dropped, SameButCaps DEF Status, DropHandle
  <1>3. CASE Derive(t, s)
    <2> DEFINE h == [caps[t][s] EXCEPT !.rights = caps[t][s].rights \cup {"transfer"}]
    <2>1. caps[t][s] # None /\ FreeSlots(t) # {} /\ caps' = Install(t, h)
      BY <1>3 DEF Derive, Resolves, HandleAt
    <2>2. h \in Handle /\ h.task > BootTasks
      BY <1>1, <2>1 DEF CapsType, Handle, Right, Subjects
    <2> HIDE DEF h
    <2>3. /\ caps' \in CapsType
          /\ \A u \in TaskId, r \in Slot : caps'[u][r] # None => caps'[u][r].task > BootTasks
      BY <1>1, <2>1, <2>2, Installed
    <2> QED BY <1>3, <2>3, SameButCaps DEF Derive
  <1> QED BY <1>2, <1>3

\* An export takes a handle out of a table or copies it; the others put it back.
LEMMA ExportSteps ==
    ASSUME IInv, NEW t \in TaskId
    PROVE  /\ \A s \in Slot : CapabilityExport(t, s) => IInv'
           /\ \A e \in exports : Finalize(t, e) \/ Import(t, e) \/ Cancel(t, e) => IInv'
  <1>1. /\ caps \in CapsType /\ Subjects /\ Waits
        /\ exports \subseteq Export /\ IsFiniteSet(exports)
        /\ Cardinality(exports) \in Nat /\ Cardinality(exports) <= MaxExports
    BY FS_CardinalityType DEF IInv, TypeOK, CapsType
  <1>2. /\ ids \in [task : 1 .. MaxTasks + 1, export : 1 .. MaxExportIds + 1]
        /\ rows \in [Instance -> Row] /\ now \in 0 .. MaxTime
        /\ history \in [published : [TaskId -> Instance \cup {None}],
                         promised : [Instance -> 0 .. MaxTime + Backoff]]
    BY DEF IInv, TypeOK
  <1>3. ASSUME NEW s \in Slot, CapabilityExport(t, s)
        PROVE  IInv'
    <2>1. /\ caps[t][s] # None /\ Cardinality(exports) < MaxExports
          /\ ids.export <= MaxExportIds /\ ids' = [ids EXCEPT !.export = ids.export + 1]
          /\ UNCHANGED <<tasks, launched, rows, terminations, retirements, live, now, history>>
      BY <1>3 DEF CapabilityExport, Resolves, HandleAt
    <2>2. PICK r \in Receivers(t), rights \in Requested, retain \in BOOLEAN :
              /\ rights \subseteq caps[t][s].rights
              /\ exports' = exports \cup
                     {[id |-> ids.export, sender |-> t, receiver |-> r,
                       capability |-> [task |-> caps[t][s].task, rights |-> rights],
                       retain |-> retain, finalized |-> FALSE]}
              /\ caps' = IF retain THEN caps ELSE Drop(t, s)
      BY <1>3 DEF CapabilityExport
    <2> DEFINE e == [id |-> ids.export, sender |-> t, receiver |-> r,
                     capability |-> [task |-> caps[t][s].task, rights |-> rights],
                     retain |-> retain, finalized |-> FALSE]
    <2>3. caps[t][s] \in Handle /\ caps[t][s].task > BootTasks
      BY <1>1, <2>1 DEF CapsType, Subjects
    <2>4. [task |-> caps[t][s].task, rights |-> rights] \in Handle
      BY <2>2, <2>3 DEF Handle
    <2>5. e \in Export /\ e.capability.task > BootTasks
      <3>1. r \in TaskId /\ ids.export \in 1 .. MaxExportIds
        BY <1>2, <2>1, Bounds DEF Receivers
      <3> QED BY <2>3, <2>4, <3>1 DEF Export
    <2> HIDE DEF e
    <2>6. /\ exports' \subseteq Export /\ IsFiniteSet(exports')
          /\ Cardinality(exports') <= MaxExports
          /\ \A x \in exports' : x.capability.task > BootTasks
      <3>1. exports' = exports \cup {e}
        BY <2>2 DEF e
      <3>2. /\ IsFiniteSet(exports')
            /\ Cardinality(exports') \in {Cardinality(exports), Cardinality(exports) + 1}
        BY <1>1, <3>1, FS_AddElement
      <3> QED BY <1>1, <2>1, <2>5, <3>1, <3>2, Bounds DEF Subjects
    <2>7. /\ caps' \in CapsType
          /\ \A u \in TaskId, x \in Slot : caps'[u][x] # None => caps'[u][x].task > BootTasks
      <3>1. CASE retain
        BY <1>1, <2>2, <3>1 DEF Subjects
      <3>2. CASE ~retain
        BY <1>1, <2>2, <3>2, Dropped
      <3> QED BY <3>1, <3>2
    <2>8. /\ ids'.task = ids.task
          /\ ids' \in [task : 1 .. MaxTasks + 1, export : 1 .. MaxExportIds + 1]
      BY <1>2, <2>1, Bounds
    <2>9. Waits'
      BY <1>1, <2>1 DEF Waits
    <2> QED BY <1>2, <2>1, <2>6, <2>7, <2>8, <2>9, SameTasks
  <1>4. ASSUME NEW e \in exports
        PROVE  /\ e \in Export /\ e.capability \in Handle /\ e.capability.task > BootTasks
               /\ IsFiniteSet(exports \ {e}) /\ Cardinality(exports \ {e}) \in Nat
               /\ Cardinality(exports \ {e}) + 1 = Cardinality(exports)
    <2>1. e \in Export /\ e.capability \in Handle /\ e.capability.task > BootTasks
      BY <1>1 DEF Export, Subjects
    <2>2. IsFiniteSet(exports \ {e}) /\ Cardinality(exports \ {e}) = Cardinality(exports) - 1
      BY <1>1, FS_RemoveElement
    <2>3. Cardinality(exports \ {e}) \in Nat
      BY <2>2, FS_CardinalityType
    <2> QED BY <1>1, <2>1, <2>2, <2>3
  <1>5. ASSUME NEW e \in exports, Finalize(t, e)
        PROVE  IInv'
    <2> DEFINE f == [e EXCEPT !.finalized = TRUE]
    <2>1. /\ exports' = (exports \ {e}) \cup {f}
          /\ UNCHANGED <<tasks, caps, launched, rows, terminations, retirements, live,
                         now, ids, history>>
      BY <1>5 DEF Finalize
    <2>2. f \in Export /\ f.capability = e.capability
      BY <1>4 DEF Export
    <2> HIDE DEF f
    <2>3. IsFiniteSet(exports') /\ Cardinality(exports') <= MaxExports
      <3> DEFINE others == exports \ {e}
      <3>1. IsFiniteSet(others) /\ Cardinality(others) \in Nat
            /\ Cardinality(others) + 1 = Cardinality(exports) /\ exports' = others \cup {f}
        BY <1>4, <2>1
      <3> HIDE DEF others
      <3>2. /\ IsFiniteSet(exports')
            /\ Cardinality(exports') \in {Cardinality(others), Cardinality(others) + 1}
        BY <3>1, FS_AddElement
      <3> QED BY <1>1, <3>1, <3>2, Bounds
    <2>4. /\ exports' \subseteq Export
          /\ \A x \in exports' : x.capability.task > BootTasks
      BY <1>1, <1>4, <2>1, <2>2 DEF Subjects
    <2>5. Waits'
      BY <1>1, <2>1 DEF Waits
    <2> QED BY <1>1, <1>2, <2>1, <2>3, <2>4, <2>5, SameTasks DEF Subjects
  <1>6. ASSUME NEW e \in exports, Import(t, e) \/ Cancel(t, e)
        PROVE  IInv'
    <2>1. /\ exports' = exports \ {e}
          /\ UNCHANGED <<tasks, launched, rows, terminations, retirements, live,
                         now, ids, history>>
      BY <1>6 DEF Import, Cancel
    <2>2. /\ caps' \in CapsType
          /\ \A u \in TaskId, x \in Slot : caps'[u][x] # None => caps'[u][x].task > BootTasks
      <3>1. caps' = caps \/ (FreeSlots(t) # {} /\ caps' = Install(t, e.capability))
        BY <1>6 DEF Import, Cancel
      <3>2. CASE caps' = caps
        BY <1>1, <3>2 DEF Subjects
      <3>3. CASE FreeSlots(t) # {} /\ caps' = Install(t, e.capability)
        BY <1>1, <1>4, <3>3, Installed
      <3> QED BY <3>1, <3>2, <3>3
    <2>3. IsFiniteSet(exports') /\ Cardinality(exports') <= MaxExports
      BY <1>1, <1>4, <2>1, Bounds
    <2>4. exports' \subseteq Export /\ \A x \in exports' : x.capability.task > BootTasks
      BY <1>1, <2>1 DEF Subjects
    <2>5. Waits'
      BY <1>1, <2>1 DEF Waits
    <2> QED BY <1>2, <2>1, <2>2, <2>3, <2>4, <2>5, SameTasks
  <1> QED BY <1>3, <1>5, <1>6

\* The row of an instance, and the clock.
LEMMA RecordCauseType ==
    ASSUME IInv, NEW t \in TaskId, tasks[t] # None, NEW cause \in Cause
    PROVE  /\ RecordCause(t, cause) \in [Instance -> Row]
           /\ \A i \in Instance : RecordCause(t, cause)[i].ready_at = rows[i].ready_at
  <1> DEFINE i == tasks[t].instance
  <1>1. rows \in [Instance -> Row] /\ i \in Instance \cup {None}
    BY DEF IInv, TypeOK
  <1>2. CASE RecordCause(t, cause) = rows
    BY <1>1, <1>2
  <1>3. CASE RecordCause(t, cause) # rows
    <2>1. i \in Instance /\ RecordCause(t, cause) = [rows EXCEPT ![i] = [rows[i] EXCEPT !.terminal = cause]]
      BY <1>1, <1>3 DEF RecordCause
    <2>2. /\ [rows[i] EXCEPT !.terminal = cause] \in Row
          /\ [rows[i] EXCEPT !.terminal = cause].ready_at = rows[i].ready_at
      BY <1>1, <2>1 DEF Row
    <2> QED BY <1>1, <2>1, <2>2
  <1> QED BY <1>2, <1>3

LEMMA UnhealthyStep ==
    ASSUME IInv, NEW t \in TaskId, Unhealthy(t)
    PROVE  IInv'
  <1>1. /\ tasks[t] # None /\ rows' = RecordCause(t, "unhealthy")
        /\ UNCHANGED <<tasks, caps, launched, terminations, retirements, exports,
                       live, now, ids, history>>
    BY DEF Unhealthy, Serves
  <1>2. /\ rows' \in [Instance -> Row]
        /\ \A i \in Instance : rows'[i].ready_at = rows[i].ready_at
    BY <1>1, RecordCauseType DEF Cause
  <1>3. Waits'
    BY <1>1, <1>2 DEF IInv, Waits
  <1> QED BY <1>1, <1>2, <1>3, SameTasks DEF IInv, TypeOK, Subjects, CapsType

LEMMA RestartStep ==
    ASSUME IInv, NEW t \in TaskId, NEW s \in Slot, RestartAdmit(t, s)
    PROVE  IInv'
  <1>1. /\ caps[t][s] # None
        /\ UNCHANGED <<tasks, caps, launched, terminations, retirements, exports,
                       live, now, ids>>
    BY DEF RestartAdmit, Resolves, HandleAt
  <1>2. PICK i \in instance_of_any(caps[t][s].task) :
            /\ rows' = Admitted(i)
            /\ history' = IF rows[i].attempts_used >= Attempts THEN history
                          ELSE [history EXCEPT !.promised[i] = now + Backoff]
    BY DEF RestartAdmit
  <1>3. i \in Instance
    <2>1. caps[t][s].task \in TaskId /\ caps[t][s].task > BootTasks
      BY <1>1 DEF IInv, TypeOK, Handle, Subjects
    <2> QED BY <1>2, <2>1 DEF instance_of_any, Serves, IInv, Subjects
  <1>4. /\ rows \in [Instance -> Row] /\ now \in 0 .. MaxTime
        /\ history \in [published : [TaskId -> Instance \cup {None}],
                         promised : [Instance -> 0 .. MaxTime + Backoff]]
    BY DEF IInv, TypeOK
  <1>5. now + Backoff \in 0 .. MaxTime + Backoff
    BY <1>4, Bounds
  <1>6. CASE rows[i].attempts_used >= Attempts
    <2> DEFINE r == [rows[i] EXCEPT !.exhausted = TRUE]
    <2>1. rows' = [rows EXCEPT ![i] = r] /\ history' = history
      BY <1>2, <1>6 DEF Admitted
    <2>2. r \in Row /\ r.ready_at = rows[i].ready_at
      BY <1>3, <1>4 DEF Row
    <2> HIDE DEF r
    <2>3. rows' \in [Instance -> Row] /\ Waits'
      BY <1>1, <1>3, <1>4, <2>1, <2>2 DEF IInv, Waits
    <2> QED BY <1>1, <1>4, <2>1, <2>3, SameTasks DEF IInv, TypeOK, Subjects, CapsType
  <1>7. CASE ~(rows[i].attempts_used >= Attempts)
    <2> DEFINE r == [rows[i] EXCEPT !.attempts_used = rows[i].attempts_used + 1,
                                    !.terminal = None, !.ready_at = now + Backoff]
    <2>1. rows' = [rows EXCEPT ![i] = r]
      BY <1>2, <1>3, <1>4, <1>7 DEF Admitted
    <2>2. rows[i] \in Row /\ rows[i].attempts_used + 1 \in 0 .. Attempts
      BY <1>3, <1>4, <1>7, Bounds DEF Row
    <2>3. r \in Row /\ r.ready_at = now + Backoff
      BY <1>5, <2>2 DEF Row
    <2> HIDE DEF r
    <2>4. /\ history'.published = history.published
          /\ history'.promised = [history.promised EXCEPT ![i] = now + Backoff]
          /\ history' \in [published : [TaskId -> Instance \cup {None}],
                            promised : [Instance -> 0 .. MaxTime + Backoff]]
      BY <1>2, <1>3, <1>4, <1>5, <1>7
    <2>5. rows' \in [Instance -> Row] /\ Waits'
      BY <1>1, <1>3, <1>4, <2>1, <2>3, <2>4 DEF IInv, Waits
    <2> QED BY <1>1, <1>4, <2>4, <2>5, SameTasks DEF IInv, TypeOK, Subjects, CapsType
  <1> QED BY <1>6, <1>7

LEMMA LoopSteps ==
    ASSUME IInv, Quiesce \/ Tick
    PROVE  IInv'
  <1>1. CASE Quiesce
    <2>1. /\ exports' \in SUBSET exports
          /\ UNCHANGED <<tasks, caps, launched, rows, terminations, retirements, live,
                         now, ids, history>>
      BY <1>1 DEF Quiesce
    <2>2. IsFiniteSet(exports') /\ Cardinality(exports') <= Cardinality(exports)
      BY <2>1, FS_Subset DEF IInv
    <2>3. Cardinality(exports') \in Nat /\ Cardinality(exports) \in Nat
      BY <2>2, FS_CardinalityType DEF IInv
    <2>4. Cardinality(exports') <= MaxExports
      BY <2>2, <2>3, Bounds DEF IInv, TypeOK
    <2>5. Waits'
      BY <2>1 DEF IInv, Waits
    <2> QED BY <2>1, <2>2, <2>4, <2>5, SameTasks DEF IInv, TypeOK, Subjects, CapsType
  <1>2. CASE Tick
    <2>1. /\ now < MaxTime /\ now' = now + 1
          /\ UNCHANGED <<tasks, caps, launched, rows, terminations, retirements,
                         exports, live, ids, history>>
      BY <1>2 DEF Tick
    <2>2. now \in Nat /\ now' \in 0 .. MaxTime
      BY <2>1, Bounds DEF IInv, TypeOK
    <2>3. \A i \in Instance : history.promised[i] \in Int
      BY Bounds DEF IInv, TypeOK
    <2>4. Waits'
      BY <2>1, <2>2, <2>3 DEF IInv, Waits
    <2> QED BY <2>1, <2>2, <2>4, SameTasks DEF IInv, TypeOK, Subjects, CapsType
  <1> QED BY <1>1, <1>2

-----------------------------------------------------------------------------
(* Deaths and teardown. *)

\* A full table of records never grows.
LEMMA RecordTermination ==
    ASSUME IInv, NEW t \in TaskId
    PROVE  /\ record_termination(t) \subseteq TaskId
           /\ Cardinality(record_termination(t)) <= MaxRecords
  <1>1. terminations \in SUBSET TaskId /\ Cardinality(terminations) <= MaxRecords
    BY DEF IInv, TypeOK
  <1>2. sweep \in SUBSET terminations /\ sweep \in SUBSET TaskId
    BY <1>1 DEF sweep
  <1> HIDE DEF sweep
  <1>3. /\ IsFiniteSet(terminations) /\ Cardinality(terminations) \in Nat
        /\ IsFiniteSet(sweep) /\ Cardinality(sweep) \in Nat
    BY <1>1, <1>2, RunningFinite
  <1>4. Cardinality(sweep) <= Cardinality(terminations)
    BY <1>2, <1>3, FS_Subset
  <1>5. Cardinality(terminations) < MaxRecords => Cardinality(terminations \cup {t}) <= MaxRecords
    <2>1. Cardinality(terminations \cup {t}) \in {Cardinality(terminations), Cardinality(terminations) + 1}
      BY <1>3, FS_AddElement
    <2> QED BY <1>3, <2>1, Bounds
  <1>6. Cardinality(sweep) < MaxRecords => Cardinality(sweep \cup {t}) <= MaxRecords
    <2>1. Cardinality(sweep \cup {t}) \in {Cardinality(sweep), Cardinality(sweep) + 1}
      BY <1>3, FS_AddElement
    <2> QED BY <1>3, <2>1, Bounds
  <1>7. Cardinality(sweep) <= MaxRecords
    BY <1>1, <1>3, <1>4, Bounds
  <1> QED BY <1>1, <1>2, <1>5, <1>6, <1>7 DEF record_termination

LEMMA DieStep ==
    ASSUME IInv, NEW t \in TaskId, NEW cause \in Cause, Die(t, cause)
    PROVE  IInv'
  <1>1. /\ Serves(t) /\ rows' = RecordCause(t, cause)
        /\ terminations' = record_termination(t) /\ retirements' = retirements \cup {t}
        /\ live' = live - 1
        /\ UNCHANGED <<tasks, caps, launched, exports, now, ids, history>>
    BY DEF Die
  <1>2. /\ rows' \in [Instance -> Row]
        /\ \A i \in Instance : rows'[i].ready_at = rows[i].ready_at
    BY <1>1, RecordCauseType DEF Serves
  <1>3. Running' = Running \ {t} /\ t \in Running
    BY <1>1 DEF Running, Serves
  <1>4. Counted' /\ live' \in 0 .. MaxTasks
    <2>1. Cardinality(Running') = Cardinality(Running) - 1
      BY <1>3, RunningFinite, FS_RemoveElement
    <2>2. Running' \in SUBSET TaskId
      BY DEF Running
    <2>3. Cardinality(Running') \in 0 .. MaxTasks
      BY <2>2, RunningFinite
    <2> QED BY <1>1, <2>1, <2>3 DEF IInv, Counted
  <1>5. TypeOK'
    BY <1>1, <1>2, <1>4, RecordTermination DEF IInv, TypeOK
  <1>6. Unused' /\ Named'
    BY <1>1 DEF IInv, Unused, Named, Serves
  <1>7. IncarnationExclusive'
    BY <1>1 DEF IInv, IncarnationExclusive, Serves
  <1>8. Subjects' /\ Waits'
    BY <1>1, <1>2 DEF IInv, Subjects, Waits
  <1> QED BY <1>1, <1>4, <1>5, <1>6, <1>7, <1>8 DEF IInv

LEMMA RetireStep ==
    ASSUME IInv, NEW t \in TaskId, Retire(t)
    PROVE  IInv'
  <1>1. /\ t \in retirements /\ tasks' = [tasks EXCEPT ![t] = None]
        /\ caps' = [caps EXCEPT ![t] = NoHandles]
        /\ launched' = [i \in Instance |-> IF launched[i] = t THEN None ELSE launched[i]]
        /\ retirements' = retirements \ {t}
        /\ UNCHANGED <<rows, terminations, exports, live, now, ids, history>>
    BY DEF Retire
  <1>2. \A u \in TaskId : tasks'[u] = IF u = t THEN None ELSE tasks[u]
    BY <1>1 DEF IInv, TypeOK
  <1>3. \A u \in TaskId : Serves(u)' <=> Serves(u)
    BY <1>1, <1>2 DEF Serves
  <1>4. Counted'
    <2>1. Running' = Running
      BY <1>3 DEF Running
    <2> QED BY <1>1, <2>1 DEF IInv, Counted
  <1>5. TypeOK'
    <2>1. caps' \in [TaskId -> [Slot -> Handle \cup {None}]]
      BY <1>1 DEF IInv, TypeOK, NoHandles
    <2>2. launched' \in [Instance -> TaskId \cup {None}]
      BY <1>1 DEF IInv, TypeOK
    <2> QED BY <1>1, <2>1, <2>2 DEF IInv, TypeOK
  <1>6. Unused'
    BY <1>1, <1>2 DEF IInv, Unused
  <1>7. Named'
    <2> SUFFICES ASSUME NEW i \in Instance, launched'[i] # None
                 PROVE  /\ tasks'[launched'[i]] # None
                        /\ history.published[launched'[i]] = i
      BY <1>1 DEF Named
    <2>1. launched'[i] = launched[i] /\ launched[i] # t
      BY <1>1
    <2>2. launched[i] \in TaskId
      BY <2>1 DEF IInv, TypeOK
    <2>3. tasks[launched[i]] # None /\ history.published[launched[i]] = i
      BY <2>1 DEF IInv, Named
    <2> QED BY <1>2, <2>1, <2>2, <2>3
  <1>8. IncarnationExclusive'
    <2>1. \A u \in TaskId : history.published[u] \in Instance \cup {None}
      BY DEF IInv, TypeOK
    <2> QED BY <1>1, <1>2, <1>3, <2>1 DEF IInv, IncarnationExclusive
  <1>9. Subjects'
    <2>1. \A u \in TaskId, s \in Slot : caps'[u][s] # None => caps'[u][s] = caps[u][s]
      BY <1>1 DEF IInv, TypeOK, NoHandles
    <2> QED BY <1>1, <1>2, <2>1 DEF IInv, Subjects
  <1>10. Waits'
    BY <1>1 DEF IInv, Waits
  <1> QED BY <1>1, <1>4, <1>5, <1>6, <1>7, <1>8, <1>9, <1>10 DEF IInv

-----------------------------------------------------------------------------
(* Spawning. *)

\* The next id is unused, and lies above the boot tasks.
LEMMA NextId ==
    ASSUME IInv, ids.task \in TaskId
    PROVE  /\ tasks[ids.task] = None /\ ids.task \notin retirements
           /\ history.published[ids.task] = None /\ ids.task > BootTasks
           /\ ~Serves(ids.task)
           /\ \A i \in Instance : launched[i] # ids.task
           /\ [ids EXCEPT !.task = ids.task + 1]
                  \in [task : 1 .. MaxTasks + 1, export : 1 .. MaxExportIds + 1]
           /\ [ids EXCEPT !.task = ids.task + 1].task = ids.task + 1
           /\ \A u \in TaskId : u >= ids.task + 1 => u >= ids.task /\ u # ids.task
  <1>1. ids.task \in Nat /\ ids.task >= ids.task
    BY Bounds DEF TaskId
  <1>2. tasks[ids.task] = None /\ ids.task \notin retirements /\ history.published[ids.task] = None
    BY <1>1 DEF IInv, Unused
  <1>3. \A i \in Instance : launched[i] # ids.task
    BY <1>2, Bounds DEF IInv, Named
  <1>4. /\ [ids EXCEPT !.task = ids.task + 1]
               \in [task : 1 .. MaxTasks + 1, export : 1 .. MaxExportIds + 1]
        /\ [ids EXCEPT !.task = ids.task + 1].task = ids.task + 1
    <2>1. ids \in [task : 1 .. MaxTasks + 1, export : 1 .. MaxExportIds + 1]
      BY DEF IInv, TypeOK
    <2>2. ids.task + 1 \in 1 .. MaxTasks + 1
      BY Bounds DEF TaskId
    <2> QED BY <2>1, <2>2
  <1>5. \A u \in TaskId : u >= ids.task + 1 => u >= ids.task /\ u # ids.task
    BY Bounds DEF TaskId
  <1> QED BY <1>2, <1>3, <1>4, <1>5 DEF IInv, Subjects, Serves

LEMMA SpawnStep ==
    ASSUME IInv, NEW t \in TaskId, NEW i \in Instance, Spawn(t, i)
    PROVE  IInv'
  <1> DEFINE n == ids.task
             h == [task |-> n, rights |-> {"supervise", "restart"}]
             r == [rows[i] EXCEPT !.last_task = n, !.ready_at = 0]
  <1>1. /\ n \in TaskId /\ MaySpawn(t, i) /\ FreeSlots(t) # {}
        /\ tasks' = [tasks EXCEPT ![n] = [instance |-> i, spawner |-> t]]
        /\ caps' = Install(t, h)
        /\ launched' = [launched EXCEPT ![i] = n]
        /\ live' = live + 1
        /\ ids' = [ids EXCEPT !.task = n + 1]
        /\ history' = [history EXCEPT !.published[n] = i]
        /\ UNCHANGED <<terminations, retirements, exports, now>>
    BY DEF Spawn
  <1>2. /\ tasks[n] = None /\ n \notin retirements /\ history.published[n] = None
        /\ n > BootTasks /\ ~Serves(n) /\ \A j \in Instance : launched[j] # n
        /\ ids' \in [task : 1 .. MaxTasks + 1, export : 1 .. MaxExportIds + 1]
        /\ ids'.task = n + 1
        /\ \A u \in TaskId : u >= n + 1 => u >= n /\ u # n
    BY <1>1, NextId
  <1>3. rows' = [rows EXCEPT ![i] = r]
    BY DEF Spawn, IInv, TypeOK
  <1> HIDE DEF n
  <1>4. h \in Handle /\ h.task = n
    BY <1>1 DEF Handle, Right
  <1> HIDE DEF h
  <1>5. /\ caps' \in CapsType
        /\ \A u \in TaskId, s \in Slot : caps'[u][s] # None => caps'[u][s].task > BootTasks
    <2>1. caps \in CapsType /\ Subjects
      BY DEF IInv, TypeOK, CapsType
    <2> QED BY <1>1, <1>2, <1>4, <2>1, Installed
  <1>6. [instance |-> i, spawner |-> t] # None
    BY Bounds
  <1>7. /\ \A u \in TaskId : tasks'[u] = IF u = n THEN [instance |-> i, spawner |-> t] ELSE tasks[u]
        /\ \A j \in Instance : launched'[j] = IF j = i THEN n ELSE launched[j]
    BY <1>1 DEF IInv, TypeOK
  <1>8. /\ history'.published = [history.published EXCEPT ![n] = i]
        /\ history'.promised = history.promised
        /\ history' \in [published : [TaskId -> Instance \cup {None}],
                          promised : [Instance -> 0 .. MaxTime + Backoff]]
    BY <1>1 DEF IInv, TypeOK
  <1>9. \A u \in TaskId : history'.published[u] = IF u = n THEN i ELSE history.published[u]
    BY <1>1, <1>8 DEF IInv, TypeOK
  <1>10. r \in Row /\ r.ready_at = 0
    <2>1. rows[i] \in Row
      BY DEF IInv, TypeOK
    <2>2. 0 \in 0 .. MaxTime + Backoff
      BY Bounds
    <2> QED BY <1>1, <2>1, <2>2 DEF Row
  <1> HIDE DEF r
  <1>11. \A u \in TaskId : Serves(u)' <=> Serves(u) \/ u = n
    BY <1>1, <1>2, <1>6, <1>7 DEF Serves
  <1>12. Counted' /\ live' \in 0 .. MaxTasks
    <2>1. Running' = Running \cup {n} /\ n \notin Running
      BY <1>1, <1>2, <1>11 DEF Running
    <2>2. Cardinality(Running') = Cardinality(Running) + 1
      BY <2>1, RunningFinite, FS_AddElement
    <2>3. Running' \in SUBSET TaskId
      BY DEF Running
    <2>4. Cardinality(Running') \in 0 .. MaxTasks
      BY <2>3, RunningFinite
    <2> QED BY <1>1, <2>2, <2>4 DEF IInv, Counted
  <1>13. TypeOK'
    <2>1. tasks' \in [TaskId -> [instance : Instance \cup {None},
                                 spawner : TaskId \cup {None}] \cup {None}]
      BY <1>1 DEF IInv, TypeOK
    <2>2. launched' \in [Instance -> TaskId \cup {None}] /\ rows' \in [Instance -> Row]
      BY <1>1, <1>3, <1>10 DEF IInv, TypeOK
    <2> QED BY <1>1, <1>2, <1>5, <1>8, <1>12, <2>1, <2>2 DEF IInv, TypeOK, CapsType
  <1>14. Unused'
    <2>1. ASSUME NEW u \in TaskId, u >= ids'.task
          PROVE  u >= n /\ u # n
      BY <1>2, <2>1
    <2>2. ASSUME NEW u \in TaskId, u >= n
          PROVE  tasks[u] = None /\ u \notin retirements /\ history.published[u] = None
      BY <2>2 DEF IInv, Unused, n
    <2> QED BY <1>1, <1>7, <1>9, <2>1, <2>2 DEF Unused
  <1>15. Named'
    <2>1. ASSUME NEW j \in Instance, launched'[j] # None
          PROVE  tasks'[launched'[j]] # None /\ history'.published[launched'[j]] = j
      <3>1. CASE j = i
        BY <1>1, <1>6, <1>7, <1>9, <3>1
      <3>2. CASE j # i
        <4>1. launched'[j] = launched[j] /\ launched[j] \in TaskId /\ launched[j] # n
          BY <1>2, <1>7, <2>1, <3>2 DEF IInv, TypeOK
        <4> QED BY <1>7, <1>9, <2>1, <4>1 DEF IInv, Named
      <3> QED BY <3>1, <3>2
    <2> QED BY <2>1 DEF Named
  <1>16. IncarnationExclusive'
    <2>1. launched[i] = None
      BY <1>1 DEF MaySpawn
    <2>2. ASSUME NEW u \in TaskId, tasks'[u] # None, history'.published[u] # None
          PROVE  launched'[history'.published[u]] = u
      <3>1. CASE u = n
        BY <1>7, <1>9, <3>1
      <3>2. CASE u # n
        <4>1. /\ tasks[u] # None /\ history.published[u] # None
              /\ history'.published[u] = history.published[u]
          BY <1>7, <1>9, <2>2, <3>2
        <4>2. launched[history.published[u]] = u /\ history.published[u] \in Instance
          BY <4>1 DEF IInv, IncarnationExclusive, TypeOK
        <4> QED BY <1>7, <2>1, <4>1, <4>2, Bounds
      <3> QED BY <3>1, <3>2
    <2>3. ASSUME NEW u \in TaskId, Serves(u)', u > BootTasks
          PROVE  history'.published[u] # None
      BY <1>9, <1>11, <2>3, Bounds DEF IInv, IncarnationExclusive
    <2> QED BY <2>2, <2>3 DEF IncarnationExclusive
  <1>17. Subjects'
    <2>1. ASSUME NEW u \in TaskId, tasks'[u] # None, u > BootTasks
          PROVE  tasks'[u].instance \in Instance
      <3>1. CASE u = n
        <4>1. tasks'[u] = [instance |-> i, spawner |-> t]
          BY <1>7, <2>1, <3>1
        <4>2. [instance |-> i, spawner |-> t].instance = i
          OBVIOUS
        <4> QED BY <4>1, <4>2, Zenon
      <3>2. CASE u # n
        <4>1. tasks'[u] = tasks[u]
          BY <1>7, <3>2
        <4>2. \A v \in TaskId : tasks[v] # None /\ v > BootTasks => tasks[v].instance \in Instance
          BY DEF IInv, Subjects
        <4> QED BY <2>1, <4>1, <4>2
      <3> QED BY <3>1, <3>2
    <2>2. ids'.task > BootTasks
      BY <1>1, <1>2, Bounds DEF TaskId
    <2> QED BY <1>1, <1>5, <2>1, <2>2 DEF IInv, Subjects
  <1>18. Waits'
    <2>1. now >= rows[i].ready_at
      BY <1>1 DEF MaySpawn
    <2>2. history.promised[i] <= now
      <3>1. /\ rows[i] \in Row /\ now \in 0 .. MaxTime
            /\ history.promised[i] \in 0 .. MaxTime + Backoff
        BY DEF IInv, TypeOK
      <3>2. rows[i].ready_at \in 0 .. MaxTime + Backoff
        BY <3>1 DEF Row
      <3>3. rows[i].ready_at = history.promised[i] \/ history.promised[i] <= now
        BY DEF IInv, Waits
      <3> QED BY <2>1, <3>1, <3>2, <3>3
    <2>3. \A j \in Instance : j # i => rows'[j] = rows[j]
      BY <1>3 DEF IInv, TypeOK
    <2> QED BY <1>1, <1>8, <2>2, <2>3 DEF IInv, Waits
  <1> QED BY <1>1, <1>12, <1>13, <1>14, <1>15, <1>16, <1>17, <1>18 DEF IInv

LEMMA SpawnFailsStep ==
    ASSUME IInv, NEW t \in TaskId, NEW i \in Instance, SpawnFails(t, i)
    PROVE  IInv'
  <1> DEFINE n == ids.task
  <1>1. PICK reclaimed \in BOOLEAN, declared \in BOOLEAN :
            /\ release_child(t, i, reclaimed)
            /\ rows' = IF declared THEN [rows EXCEPT ![i].last_task = n] ELSE rows
    BY DEF SpawnFails
  <1>2. /\ n \in TaskId /\ ids' = [ids EXCEPT !.task = n + 1]
        /\ UNCHANGED <<caps, launched, terminations, exports, live, now, history>>
    BY DEF SpawnFails
  <1>3. /\ tasks[n] = None /\ n \notin retirements /\ history.published[n] = None
        /\ n > BootTasks /\ ~Serves(n) /\ \A j \in Instance : launched[j] # n
        /\ ids' \in [task : 1 .. MaxTasks + 1, export : 1 .. MaxExportIds + 1]
        /\ ids'.task = n + 1
        /\ \A u \in TaskId : u >= n + 1 => u >= n /\ u # n
    BY <1>2, NextId
  <1>4. /\ tasks' = [tasks EXCEPT ![n] = IF reclaimed THEN None ELSE [instance |-> i, spawner |-> t]]
        /\ retirements' = IF reclaimed THEN retirements ELSE retirements \cup {n}
    BY <1>1 DEF release_child
  <1> HIDE DEF n
  <1>5. \A u \in TaskId : tasks'[u] = IF u = n /\ ~reclaimed THEN [instance |-> i, spawner |-> t]
                                      ELSE tasks[u]
    BY <1>2, <1>3, <1>4 DEF IInv, TypeOK
  <1>6. \A u \in TaskId : Serves(u)' <=> Serves(u)
    BY <1>3, <1>4, <1>5 DEF Serves
  <1>7. /\ rows' \in [Instance -> Row]
        /\ \A j \in Instance : rows'[j].ready_at = rows[j].ready_at
    <2> DEFINE r == [rows[i] EXCEPT !.last_task = n]
    <2>0. rows \in [Instance -> Row] /\ rows[i] \in Row
      BY DEF IInv, TypeOK
    <2>1. r \in Row /\ r.ready_at = rows[i].ready_at
      BY <1>2, <2>0 DEF Row
    <2>2. rows' = rows \/ rows' = [rows EXCEPT ![i] = r]
      BY <1>1 DEF r
    <2> HIDE DEF r
    <2> QED BY <2>0, <2>1, <2>2
  <1>8. Counted'
    <2>1. Running' = Running
      BY <1>6 DEF Running
    <2> QED BY <1>2, <2>1 DEF IInv, Counted
  <1>9. TypeOK'
    <2>1. tasks' \in [TaskId -> [instance : Instance \cup {None},
                                 spawner : TaskId \cup {None}] \cup {None}]
      BY <1>2, <1>4 DEF IInv, TypeOK
    <2>2. retirements' \subseteq TaskId
      BY <1>2, <1>4 DEF IInv, TypeOK
    <2> QED BY <1>2, <1>3, <1>7, <2>1, <2>2 DEF IInv, TypeOK
  <1>10. Unused'
    <2>1. ASSUME NEW u \in TaskId, u >= ids'.task
          PROVE  u >= n /\ u # n
      BY <1>3, <2>1
    <2>2. ASSUME NEW u \in TaskId, u >= n
          PROVE  tasks[u] = None /\ u \notin retirements /\ history.published[u] = None
      BY <2>2 DEF IInv, Unused, n
    <2> QED BY <1>2, <1>4, <1>5, <2>1, <2>2 DEF Unused
  <1>11. Named'
    BY <1>2, <1>3, <1>5 DEF IInv, Named, TypeOK
  <1>12. IncarnationExclusive'
    BY <1>2, <1>3, <1>5, <1>6 DEF IInv, IncarnationExclusive
  <1>13. Subjects'
    <2>1. ASSUME NEW u \in TaskId, tasks'[u] # None, u > BootTasks
          PROVE  tasks'[u].instance \in Instance
      <3>1. CASE u = n
        <4>1. tasks'[u] = [instance |-> i, spawner |-> t]
          BY <1>3, <1>5, <2>1, <3>1
        <4> QED BY <4>1
      <3>2. CASE u # n
        <4>1. tasks'[u] = tasks[u]
          BY <1>5, <3>2
        <4>2. \A v \in TaskId : tasks[v] # None /\ v > BootTasks => tasks[v].instance \in Instance
          BY DEF IInv, Subjects
        <4> QED BY <2>1, <4>1, <4>2
      <3> QED BY <3>1, <3>2
    <2>2. ids'.task > BootTasks
      BY <1>2, <1>3, Bounds DEF TaskId
    <2> QED BY <1>2, <2>1, <2>2 DEF IInv, Subjects
  <1>14. Waits'
    BY <1>2, <1>7 DEF IInv, Waits
  <1> QED BY <1>2, <1>8, <1>9, <1>10, <1>11, <1>12, <1>13, <1>14 DEF IInv

-----------------------------------------------------------------------------
(* The theorems. *)

LEMMA InitInv ==
    ASSUME Init
    PROVE  IInv
  <1>1. \A t \in TaskId : tasks[t] # None <=> t <= BootTasks
    BY Bounds DEF Init
  <1>2. Counted
    <2>1. Running = 1 .. BootTasks
      <3>1. \A t \in TaskId : Serves(t) <=> t <= BootTasks
        BY <1>1 DEF Serves, Init
      <3>2. \A t \in 1 .. BootTasks : t \in TaskId /\ t <= BootTasks
        BY Numbers DEF TaskId
      <3>3. \A t \in TaskId : t <= BootTasks => t \in 1 .. BootTasks
        BY Numbers DEF TaskId
      <3> QED BY <3>1, <3>2, <3>3 DEF Running
    <2>2. Cardinality(1 .. BootTasks) = BootTasks
      BY Bounds, FS_Interval
    <2> QED BY <2>1, <2>2 DEF Counted, Init
  <1>3. TypeOK
    <2>1. Cardinality({}) = 0
      BY FS_EmptySet
    <2>2. rows \in [Instance -> Row]
      <3>1. 0 \in 0 .. Attempts /\ 0 \in 0 .. MaxTime + Backoff
        BY Numbers
      <3>2. NoRow \in Row
        BY <3>1 DEF NoRow, Row
      <3> QED BY <3>2 DEF Init
    <2>3. caps \in [TaskId -> [Slot -> Handle \cup {None}]]
      BY DEF Init, NoHandles
    <2>4. ids \in [task : 1 .. MaxTasks + 1, export : 1 .. MaxExportIds + 1]
      <3>1. BootTasks + 1 \in 1 .. MaxTasks + 1 /\ 1 \in 1 .. MaxExportIds + 1
        BY Numbers
      <3> QED BY <3>1 DEF Init
    <2>5. history \in [published : [TaskId -> Instance \cup {None}],
                       promised : [Instance -> 0 .. MaxTime + Backoff]]
      <3>1. 0 \in 0 .. MaxTime + Backoff
        BY Numbers
      <3> QED BY <3>1 DEF Init
    <2>6. live \in 0 .. MaxTasks /\ now \in 0 .. MaxTime
      BY Numbers DEF Init
    <2>7. tasks \in [TaskId -> [instance : Instance \cup {None},
                                spawner : TaskId \cup {None}] \cup {None}]
      BY DEF Init
    <2>8. /\ terminations \subseteq TaskId /\ Cardinality(terminations) <= MaxRecords
          /\ exports \subseteq Export /\ Cardinality(exports) <= MaxExports
          /\ retirements \subseteq TaskId
      BY <2>1, Numbers DEF Init
    <2>9. launched \in [Instance -> TaskId \cup {None}]
      BY DEF Init
    <2> QED BY <2>2, <2>3, <2>4, <2>5, <2>6, <2>7, <2>8, <2>9 DEF TypeOK
  <1>4. Unused
    <2>1. \A t \in TaskId : t >= BootTasks + 1 => ~(t <= BootTasks)
      BY Bounds DEF TaskId
    <2> QED BY <1>1, <2>1 DEF Init, Unused
  <1>5. Named /\ Waits
    BY DEF Init, Named, Waits, NoRow
  <1>6. IncarnationExclusive
    <2>1. \A t \in TaskId : t > BootTasks => ~(t <= BootTasks)
      BY Bounds DEF TaskId
    <2> QED BY <1>1, <2>1 DEF Init, IncarnationExclusive, Serves
  <1>7. Subjects
    <2>1. \A t \in TaskId : t > BootTasks => ~(t <= BootTasks)
      BY Bounds DEF TaskId
    <2>2. \A t \in TaskId, s \in Slot : caps[t][s] = None
      BY DEF Init, NoHandles
    <2>3. ids.task > BootTasks
      <3>1. ids.task = BootTasks + 1
        BY DEF Init
      <3> QED BY <3>1, Bounds
    <2>4. \A t \in TaskId : t > BootTasks => tasks[t] = None
      BY <1>1, <2>1 DEF Init
    <2>5. exports = {}
      BY DEF Init
    <2> QED BY <2>2, <2>3, <2>4, <2>5 DEF Subjects
  <1>8. IsFiniteSet(exports)
    BY FS_EmptySet DEF Init
  <1> QED BY <1>2, <1>3, <1>4, <1>5, <1>6, <1>7, <1>8 DEF IInv

LEMMA NextInv ==
    ASSUME IInv, [Next]_vars
    PROVE  IInv'
  <1>1. ASSUME NEW t \in TaskId, Fault(t) \/ Exit(t)
        PROVE  IInv'
    BY <1>1, DieStep DEF Fault, Exit, Cause
  <1>2. ASSUME NEW t \in TaskId, Unhealthy(t) \/ Retire(t)
        PROVE  IInv'
    BY <1>2, UnhealthyStep, RetireStep
  <1>3. ASSUME NEW t \in TaskId, NEW i \in Instance, Spawn(t, i) \/ SpawnFails(t, i)
        PROVE  IInv'
    BY <1>3, SpawnStep, SpawnFailsStep
  <1>4. ASSUME NEW t \in TaskId, NEW s \in Slot,
               \/ Status(t, s) \/ Derive(t, s) \/ DropHandle(t, s)
               \/ RestartAdmit(t, s) \/ CapabilityExport(t, s)
        PROVE  IInv'
    BY <1>4, HandleSteps, RestartStep, ExportSteps
  <1>5. ASSUME NEW t \in TaskId, NEW e \in exports,
               Finalize(t, e) \/ Import(t, e) \/ Cancel(t, e)
        PROVE  IInv'
    BY <1>5, ExportSteps
  <1>6. CASE Quiesce \/ Tick
    BY <1>6, LoopSteps
  <1>7. CASE UNCHANGED vars
    <2>1. Waits'
      BY <1>7 DEF vars, IInv, Waits
    <2> QED BY <1>7, <2>1, SameTasks DEF vars, IInv, TypeOK, Subjects, CapsType
  <1> QED BY <1>1, <1>2, <1>3, <1>4, <1>5, <1>6, <1>7 DEF Next

\* IInv holds in every reachable state.
THEOREM Invariance == Spec => []IInv
  <1>1. Init => IInv
    BY InitInv
  <1>2. IInv /\ [Next]_vars => IInv'
    BY NextInv
  <1> QED BY <1>1, <1>2, PTL DEF Spec

\* The dispatcher's live count is the number of tasks it serves, in every state.
THEOREM CountExact == Spec => []LiveExact
  <1>1. IInv => LiveExact
    BY DEF IInv, Counted, Running, LiveExact
  <1> QED BY <1>1, Invariance, PTL

\* From launch to the end of its teardown a task is what its instance names.
THEOREM OneIncarnation == Spec => []IncarnationExclusive
  <1>1. IInv => IncarnationExclusive
    BY DEF IInv
  <1> QED BY <1>1, Invariance, PTL

\* serve_spawn launches no instance before its promised instant, and none that
\* is exhausted.
THEOREM PolicyObeyed == Spec => RestartsObeyPolicy
  <1> DEFINE Obeys == \A i \in Instance :
                 launched[i] = None /\ launched'[i] # None =>
                     /\ now >= history.promised[i]
                     /\ ~ rows[i].exhausted
  <1>1. IInv /\ [Next]_vars => [Obeys]_vars
    <2> SUFFICES ASSUME IInv, Next, NEW i \in Instance, launched[i] = None, launched'[i] # None
                 PROVE  now >= history.promised[i] /\ ~rows[i].exhausted
      OBVIOUS
    <2>1. PICK t \in TaskId, j \in Instance : Spawn(t, j)
      <3>1. launched' # launched
        OBVIOUS
      <3>2. ASSUME NEW t \in TaskId, Retire(t)
            PROVE  launched'[i] = None
        BY <3>2 DEF Retire
      <3>3. \A t \in TaskId : Fault(t) \/ Exit(t) \/ Unhealthy(t) => launched' = launched
        BY DEF Fault, Exit, Die, Unhealthy
      <3>4. \A t \in TaskId, j \in Instance : SpawnFails(t, j) => launched' = launched
        BY DEF SpawnFails
      <3>5. \A t \in TaskId, s \in Slot :
                Status(t, s) \/ Derive(t, s) \/ DropHandle(t, s) => launched' = launched
        BY DEF Status, Derive, DropHandle
      <3>6. \A t \in TaskId, s \in Slot :
                RestartAdmit(t, s) \/ CapabilityExport(t, s) => launched' = launched
        BY DEF RestartAdmit, CapabilityExport
      <3>7. \A t \in TaskId, e \in exports :
                Finalize(t, e) \/ Import(t, e) \/ Cancel(t, e) => launched' = launched
        BY DEF Finalize, Import, Cancel
      <3>8. Quiesce \/ Tick => launched' = launched
        BY DEF Quiesce, Tick
      <3> QED BY <3>1, <3>2, <3>3, <3>4, <3>5, <3>6, <3>7, <3>8 DEF Next
    <2>2. i = j
      BY <2>1 DEF Spawn, IInv, TypeOK
    <2>3. now >= rows[i].ready_at /\ ~rows[i].exhausted
      BY <2>1, <2>2 DEF Spawn, MaySpawn
    <2>4. history.promised[i] \in Int /\ now \in Int /\ rows[i].ready_at \in Int
      <3>1. /\ rows[i] \in Row /\ now \in 0 .. MaxTime
            /\ history.promised[i] \in 0 .. MaxTime + Backoff
        BY DEF IInv, TypeOK
      <3>2. rows[i].ready_at \in 0 .. MaxTime + Backoff
        BY <3>1 DEF Row
      <3> QED BY <3>1, <3>2
    <2> QED BY <2>3, <2>4 DEF IInv, Waits
  <1> QED BY <1>1, Invariance, PTL DEF Spec, RestartsObeyPolicy
=============================================================================
