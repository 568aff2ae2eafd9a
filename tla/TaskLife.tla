------------------------------- MODULE TaskLife -------------------------------
(***************************************************************************)
(* Spawn, death, supervision and restart as the root task serves them.     *)
(*                                                                         *)
(* The root is one dispatcher loop.  A task it spawned is named to its      *)
(* supervisor by a supervision handle, a capability that may be derived,    *)
(* dropped, collected, or exported to another task.  When the task dies     *)
(* the root records how, keeps the task in its table while the teardown     *)
(* phases are retried at the head of the loop, and answers the              *)
(* supervisor's restart request from the policy of the declared instance.   *)
(* The interesting orders are those of several tasks' requests around one   *)
(* death, and of a teardown that needs several tries.                       *)
(***************************************************************************)
EXTENDS Integers, FiniteSets, FiniteSetsExt

CONSTANTS
    BootTasks,      \* tasks 1 .. BootTasks are launched with the graph
    Instance,       \* declared instances that are spawned, not autostarted
    Resident,       \* the instances declared to run as long as the graph
    Spawners,       \* the boot tasks that are granted the executables
    Budget,         \* a spawner's declared live-child budget
    Attempts,       \* declared restart attempts of each instance
    RestartOn,      \* the causes the restart policy names
    Backoff,        \* declared wait before a restart
    Requested,      \* the sets of rights an export may ask for
    MaxRecords,     \* MAX_RECORDS of supervision.rs
    MaxExports,     \* MAX_CAPABILITY_EXPORTS
    MaxSlots,       \* slots of an authority table left for handles
    MaxTasks,       \* bound: task ids ever given out
    MaxExportIds,   \* bound: export ids ever given out
    MaxTime,        \* bound: the monotonic clock
    None

ASSUME TaskLifeAssumption ==
    /\ BootTasks \in Nat /\ MaxTasks \in Nat /\ BootTasks <= MaxTasks
    /\ Spawners \subseteq 1 .. BootTasks
    /\ Resident \subseteq Instance
    /\ {Budget, Attempts, Backoff, MaxRecords, MaxExports, MaxSlots, MaxExportIds, MaxTime}
            \subseteq Nat
    /\ RestartOn \subseteq {"exit", "fault", "unhealthy"}
    /\ {} \notin Requested
    /\ None \notin Instance \cup (1 .. MaxTasks)
    /\ None \notin [instance : Instance \cup {None}, spawner : (1 .. MaxTasks) \cup {None}]

TaskId == 1 .. MaxTasks
Slot == 1 .. MaxSlots
Cause == {"exit", "fault", "unhealthy"}
Right == {"supervise", "restart", "transfer"}
Handle == [task : TaskId, rights : SUBSET Right]
Export == [id : 1 .. MaxExportIds, sender : TaskId, receiver : TaskId,
           capability : Handle, retain : BOOLEAN, finalized : BOOLEAN]

VARIABLES
    tasks,          \* the task table: a task's instance and spawner, or None
    caps,           \* the handles in each task's authority table
    launched,       \* the task that represents each instance, or None
    rows,           \* the lifecycle service's row of each instance
    terminations,   \* the tasks whose outcome is recorded
    retirements,    \* the tasks whose teardown is not over
    exports,        \* handles in flight between two tasks
    live,           \* the dispatcher's count of running tasks
    now,            \* the monotonic clock
    ids,            \* the next task id and the next export id
    history         \* what was launched and promised, for the properties

vars == <<tasks, caps, launched, rows, terminations, retirements, exports,
          live, now, ids, history>>

NoHandles == [s \in Slot |-> None]

NoRow == [attempts_used |-> 0, exhausted |-> FALSE, last_task |-> None,
          terminal |-> None, ready_at |-> 0]

Row == [attempts_used : 0 .. Attempts, exhausted : BOOLEAN,
        last_task : TaskId \cup {None}, terminal : Cause \cup {None},
        ready_at : 0 .. MaxTime + Backoff]

\* Every variable has its type; in particular no admission charges an instance
\* more attempts than its policy declares.
TypeOK ==
    /\ tasks \in [TaskId -> [instance : Instance \cup {None},
                             spawner : TaskId \cup {None}] \cup {None}]
    /\ caps \in [TaskId -> [Slot -> Handle \cup {None}]]
    /\ launched \in [Instance -> TaskId \cup {None}]
    /\ rows \in [Instance -> Row]
    /\ terminations \subseteq TaskId
    /\ Cardinality(terminations) <= MaxRecords
    /\ retirements \subseteq TaskId
    /\ exports \subseteq Export
    /\ Cardinality(exports) <= MaxExports
    /\ live \in 0 .. MaxTasks
    /\ now \in 0 .. MaxTime
    /\ ids \in [task : 1 .. MaxTasks + 1, export : 1 .. MaxExportIds + 1]
    /\ history \in [published : [TaskId -> Instance \cup {None}],
                    promised : [Instance -> 0 .. MaxTime + Backoff]]

Init ==
    /\ tasks = [t \in TaskId |->
                   IF t <= BootTasks THEN [instance |-> None, spawner |-> None] ELSE None]
    /\ caps = [t \in TaskId |-> NoHandles]
    /\ launched = [i \in Instance |-> None]
    /\ rows = [i \in Instance |-> NoRow]
    /\ terminations = {}
    /\ retirements = {}
    /\ exports = {}
    /\ live = BootTasks
    /\ now = 0
    /\ ids = [task |-> BootTasks + 1, export |-> 1]
    /\ history = [published |-> [t \in TaskId |-> None],
                  promised |-> [i \in Instance |-> 0]]
-----------------------------------------------------------------------------
\* Mutant: a late message of a dying task is served again.
ServesDying(t) == tasks[t] # None

\* The dispatcher serves a request only of a task it still has and that is not
\* being torn down; a late message of any other is rejected.
Serves(t) == tasks[t] # None /\ t \notin retirements

HandleAt(t, s) == caps[t][s] # None

FreeSlots(t) == {s \in Slot : ~ HandleAt(t, s)}

Install(t, handle) == [caps EXCEPT ![t][Min(FreeSlots(t))] = handle]

Drop(t, s) == [caps EXCEPT ![t][s] = None]
-----------------------------------------------------------------------------
\* Deaths.

\* A record is kept as long as some task of the table holds a handle naming
\* its subject; sweep frees the others.
holds_supervision(subject) ==
    \E t \in TaskId : tasks[t] # None
        /\ \E s \in Slot : HandleAt(t, s) /\ caps[t][s].task = subject

sweep == {t \in terminations : holds_supervision(t)}

\* First record wins; a full table is swept, and an outcome that still finds no
\* room is lost (and reported).
record_termination(t) ==
    IF t \in terminations THEN terminations
    ELSE IF Cardinality(terminations) < MaxRecords THEN terminations \cup {t}
    ELSE IF Cardinality(sweep) < MaxRecords THEN sweep \cup {t}
    ELSE sweep

\* The lifecycle service's own record: the first cause since the last admission.
RecordCause(t, cause) ==
    LET i == tasks[t].instance
    IN IF i = None \/ rows[i].terminal # None THEN rows
       ELSE [rows EXCEPT ![i].terminal = cause]

\* The common tail of the fault arm and of the EXIT arm.
Die(t, cause) ==
    /\ Serves(t)
    /\ terminations' = record_termination(t)
    /\ rows' = RecordCause(t, cause)
    /\ retirements' = retirements \cup {t}
    /\ live' = live - 1
    /\ UNCHANGED <<tasks, caps, launched, exports, now, ids, history>>

Fault(t) == Die(t, "fault")

\* A resident instance's exit is never completion: it is recorded unhealthy.
Exit(t) ==
    /\ Serves(t)
    /\ Die(t, IF tasks[t].instance \in Resident THEN "unhealthy" ELSE "exit")

\* The UNHEALTHY request records a cause and returns: its caller still runs.
Unhealthy(t) ==
    /\ Serves(t)
    /\ \E i \in Instance : launched[i] = t
    /\ rows' = RecordCause(t, "unhealthy")
    /\ UNCHANGED <<tasks, caps, launched, terminations, retirements, exports,
                   live, now, ids, history>>

\* The retry at the head of the loop that completes: the phases left -- suspend,
\* devices, buffers, arena -- all succeed.  One that fails in a phase leaves the
\* task where it was; what the phases take back is not this module's state.
Retire(t) ==
    /\ t \in retirements
    /\ tasks' = [tasks EXCEPT ![t] = None]
    /\ caps' = [caps EXCEPT ![t] = NoHandles]
    /\ launched' = [i \in Instance |-> IF launched[i] = t THEN None ELSE launched[i]]
    /\ retirements' = retirements \ {t}
    /\ UNCHANGED <<rows, terminations, exports, live, now, ids, history>>
-----------------------------------------------------------------------------
\* Spawning.

live_children(t) ==
    Cardinality({c \in TaskId : tasks[c] # None /\ tasks[c].spawner = t})

\* Mutant: the answered instant is left to the supervisor to honour.
MaySpawnEarly(t, i) ==
    /\ launched[i] = None
    /\ live_children(t) < Budget
    /\ ~ rows[i].exhausted

\* The refusals of serve_spawn after its preflight.
MaySpawn(t, i) ==
    /\ launched[i] = None
    /\ live_children(t) < Budget
    /\ ~ rows[i].exhausted
    /\ now >= rows[i].ready_at

\* Mutant: an unwind whose revoke fails forgets the task.
ReleaseChildForgets(t, i, reclaimed) ==
    /\ tasks' = [tasks EXCEPT ![ids.task] =
                    IF reclaimed THEN None ELSE [instance |-> i, spawner |-> t]]
    /\ retirements' = retirements

\* release_child: the arena comes back at once, or the task keeps its entry and
\* joins the retirements.
release_child(t, i, reclaimed) ==
    /\ tasks' = [tasks EXCEPT ![ids.task] =
                    IF reclaimed THEN None ELSE [instance |-> i, spawner |-> t]]
    /\ retirements' = IF reclaimed THEN retirements ELSE retirements \cup {ids.task}

\* A launch that fails before the lifecycle declares the child, or after it:
\* no handle slot, no activation, no driver quota.
SpawnFails(t, i) ==
    /\ Serves(t) /\ t \in Spawners /\ ids.task \in TaskId
    /\ MaySpawn(t, i)
    /\ \E reclaimed, declared \in BOOLEAN :
        /\ release_child(t, i, reclaimed)
        /\ rows' = IF declared THEN [rows EXCEPT ![i].last_task = ids.task] ELSE rows
    /\ ids' = [ids EXCEPT !.task = @ + 1]
    /\ UNCHANGED <<caps, launched, terminations, exports, live, now, history>>

Spawn(t, i) ==
    /\ Serves(t) /\ t \in Spawners /\ ids.task \in TaskId
    /\ MaySpawn(t, i)
    /\ FreeSlots(t) # {}
    /\ tasks' = [tasks EXCEPT ![ids.task] = [instance |-> i, spawner |-> t]]
    /\ caps' = Install(t, [task |-> ids.task, rights |-> {"supervise", "restart"}])
    /\ launched' = [launched EXCEPT ![i] = ids.task]
    /\ rows' = [rows EXCEPT ![i].last_task = ids.task, ![i].ready_at = 0]
    /\ live' = live + 1
    /\ ids' = [ids EXCEPT !.task = @ + 1]
    /\ history' = [history EXCEPT !.published[ids.task] = i]
    /\ UNCHANGED <<terminations, retirements, exports, now>>
-----------------------------------------------------------------------------
\* Supervision handles.

Resolves(t, s, right) == HandleAt(t, s) /\ right \in caps[t][s].rights

\* STATUS answers once: the handle goes with the answer.
Status(t, s) ==
    /\ Serves(t)
    /\ Resolves(t, s, "supervise")
    /\ caps[t][s].task \in terminations
    /\ caps' = Drop(t, s)
    /\ UNCHANGED <<tasks, launched, rows, terminations, retirements, exports,
                   live, now, ids, history>>

Derive(t, s) ==
    /\ Serves(t)
    /\ Resolves(t, s, "supervise")
    /\ FreeSlots(t) # {}
    /\ caps' = Install(t, [caps[t][s] EXCEPT !.rights = @ \cup {"transfer"}])
    /\ UNCHANGED <<tasks, launched, rows, terminations, retirements, exports,
                   live, now, ids, history>>

DropHandle(t, s) ==
    /\ Serves(t)
    /\ HandleAt(t, s)
    /\ caps' = Drop(t, s)
    /\ UNCHANGED <<tasks, launched, rows, terminations, retirements, exports,
                   live, now, ids, history>>

\* The instance a handle's subject represents: the live task's, or the one whose
\* last task it was.
instance_of_any(subject) ==
    IF Serves(subject) THEN {tasks[subject].instance}
    ELSE {i \in Instance : rows[i].last_task = subject}

\* admit_restart on a row that has a cause pending: exhausted, or charged.
Admitted(i) ==
    IF rows[i].attempts_used >= Attempts
    THEN [rows EXCEPT ![i].exhausted = TRUE]
    ELSE [rows EXCEPT ![i].attempts_used = @ + 1, ![i].terminal = None,
                      ![i].ready_at = now + Backoff]

RestartAdmit(t, s) ==
    /\ Serves(t)
    /\ Resolves(t, s, "restart")
    /\ \E i \in instance_of_any(caps[t][s].task) :
        /\ rows[i].terminal # None
        /\ ~ rows[i].exhausted
        /\ rows[i].terminal \in RestartOn
        /\ rows' = Admitted(i)
        /\ history' = IF rows[i].attempts_used >= Attempts THEN history
                      ELSE [history EXCEPT !.promised[i] = now + Backoff]
    /\ UNCHANGED <<tasks, caps, launched, terminations, retirements, exports,
                   live, now, ids>>
-----------------------------------------------------------------------------
\* Handing a handle to another task.

\* The tasks a declared carrier endpoint can lead to: whoever represents the
\* peer instance in the table, running or being torn down.
Receivers(t) ==
    {r \in TaskId \ {t} : /\ tasks[r] # None
                          /\ r <= BootTasks \/ \E i \in Instance : launched[i] = r}

CapabilityExport(t, s) ==
    /\ Serves(t)
    /\ Resolves(t, s, "transfer")
    /\ Cardinality(exports) < MaxExports
    /\ ids.export <= MaxExportIds
    /\ \E r \in Receivers(t), rights \in Requested, retain \in BOOLEAN :
        /\ rights \subseteq caps[t][s].rights
        /\ exports' = exports \cup
               {[id |-> ids.export, sender |-> t, receiver |-> r,
                 capability |-> [task |-> caps[t][s].task, rights |-> rights],
                 retain |-> retain, finalized |-> FALSE]}
        /\ caps' = IF retain THEN caps ELSE Drop(t, s)
    /\ ids' = [ids EXCEPT !.export = @ + 1]
    /\ UNCHANGED <<tasks, launched, rows, terminations, retirements, live, now, history>>

Finalize(t, e) ==
    /\ Serves(t)
    /\ e.sender = t /\ ~ e.finalized
    /\ exports' = (exports \ {e}) \cup {[e EXCEPT !.finalized = TRUE]}
    /\ UNCHANGED <<tasks, caps, launched, rows, terminations, retirements, live,
                   now, ids, history>>

Import(t, e) ==
    /\ Serves(t)
    /\ e.receiver = t /\ e.finalized
    /\ FreeSlots(t) # {}
    /\ caps' = Install(t, e.capability)
    /\ exports' = exports \ {e}
    /\ UNCHANGED <<tasks, launched, rows, terminations, retirements, live, now,
                   ids, history>>

\* A cancelled export gives the (narrowed) handle back unless it was retained.
Cancel(t, e) ==
    /\ Serves(t)
    /\ e.sender = t /\ ~ e.finalized
    /\ e.retain \/ FreeSlots(t) # {}
    /\ caps' = IF e.retain THEN caps ELSE Install(t, e.capability)
    /\ exports' = exports \ {e}
    /\ UNCHANGED <<tasks, launched, rows, terminations, retirements, live, now,
                   ids, history>>

\* The loop ends when nothing runs and nothing is torn down; it then retires
\* the finalized exports.
Quiescent == live = 0 /\ retirements = {}

Quiesce ==
    /\ Quiescent
    /\ exports' = {e \in exports : ~ e.finalized}
    /\ UNCHANGED <<tasks, caps, launched, rows, terminations, retirements, live,
                   now, ids, history>>

Tick ==
    /\ now < MaxTime
    /\ ~ Quiescent
    /\ now' = now + 1
    /\ UNCHANGED <<tasks, caps, launched, rows, terminations, retirements,
                   exports, live, ids, history>>
-----------------------------------------------------------------------------
Next ==
    \/ \E t \in TaskId :
        \/ Fault(t) \/ Exit(t) \/ Unhealthy(t) \/ Retire(t)
        \/ \E i \in Instance : Spawn(t, i) \/ SpawnFails(t, i)
        \/ \E s \in Slot :
            \/ Status(t, s) \/ Derive(t, s) \/ DropHandle(t, s)
            \/ RestartAdmit(t, s) \/ CapabilityExport(t, s)
        \/ \E e \in exports : Finalize(t, e) \/ Import(t, e) \/ Cancel(t, e)
    \/ Quiesce
    \/ Tick

Spec == Init /\ [][Next]_vars
-----------------------------------------------------------------------------
\* The dispatcher's count, which alone ends its loop, is exact: whatever late
\* messages the threads of a dying task left queued, one death is one decrement.
LiveExact == TypeOK /\ live = Cardinality({t \in TaskId : Serves(t)})

\* "Retaining the task until Arena succeeds": from its launch to the end of its
\* teardown a task is what its instance names, so no replacement runs beside a
\* predecessor whose VSpace, buffers and devices are still being taken back.
IncarnationExclusive ==
    /\ \A t \in TaskId :
        tasks[t] # None /\ history.published[t] # None =>
            launched[history.published[t]] = t
    /\ \A t \in TaskId :
        Serves(t) /\ t > BootTasks => history.published[t] # None

\* An admission binds the launches after it: whatever failed launches lie
\* between, the instance is not launched before the instant admit_restart last
\* answered, nor once an admission found its attempts used up.  A launch that
\* no admission preceded is outside the policy, in the code as here.
RestartsObeyPolicy ==
    [][\A i \in Instance :
          launched[i] = None /\ launched'[i] # None =>
              /\ now >= history.promised[i]
              /\ ~ rows[i].exhausted]_vars

=============================================================================
