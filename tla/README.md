# FlowPulse: specification and proofs

FlowPulse runs workflows: a Django *control plane* stores workflow definitions, instances and approval
tasks, and a .NET *engine* walks an instance's graph node by node. Both write the same PostgreSQL
tables, and they talk through two HTTP calls, `POST /execute` and `POST /resume`. This directory holds
TLA+ modules translated from that code, TLC configurations that check them on small instances, and
TLAPS proofs of the properties that matter most. Paths below are relative to the repository root;
`E/` is `engine-dotnet/FlowPulse.Engine/`, `W/` is `backend-django/apps/workflows/` and `T/` is
`backend-django/apps/tenants/`.

## 1. The system

| Component | Code | State it keeps | Operations |
|---|---|---|---|
| Workflow graph | `E/Models/WorkflowModels.cs:186`, `E/Services/WorkflowRunner.cs:107`, `:181` | none (`graph_schema` JSON) | find the start node, the next node, the executor |
| Workflow runner | `E/Services/WorkflowRunner.cs` | locals of a call; the rows it has loaded | `ExecuteInstanceAsync`, `ResumeWorkflowAsync` |
| Node executors | `E/Services/NodeExecutors.cs` | none of their own | trigger, condition, http_webhook, approval (inserts a task), notification |
| Database context | `E/Data/EngineDbContext.cs` | tracked rows and their original values | load, `SaveChangesAsync` |
| Engine HTTP API | `E/Controllers/EngineController.cs` | none | `execute`, `resume`, `health` |
| Polling worker | `E/Workers/WorkflowPollingWorker.cs` | the batch it is running | every few seconds: the oldest pending instances, at most 5 |
| Control plane API | `W/views.py` | rows | `trigger`, `cancel`, `decide`, CRUD of definitions and tasks |
| Control plane pages | `W/views_ui.py` | rows | trigger and approve/reject buttons, the dashboard's counts, read-only pages |
| Admin site | `W/admin.py`, `T/admin.py` | rows | add, change and delete rows of every table |
| Engine client | `W/engine_client.py` | none | one attempt per call, 10 s timeout, errors logged |
| Tables | `W/models.py`, `T/models.py`, the migrations | users, tenants, memberships, audit logs, definitions, instances, step executions, approval tasks | constraints, `on_delete` |
| `wait_for_db` | `W/management/commands/wait_for_db.py` | loop variables | wait until the database answers |
| Demo data | `W/management/commands/init_demo_data.py` | rows, the command's variables | seeds at every start of the container |
| Tenants, memberships, audit logs | `T/views.py`, `T/serializers.py` | rows | CRUD of tenants and memberships; only the admin site writes `AuditLog` |
| Start-up, settings, templates, deployment | `E/Program.cs`, `core_config/`, `docker-compose.yml` | configuration | the container's command and its restart |

How they interact. `trigger` inserts a *pending* instance and calls `/execute`. Independently the
polling worker looks for pending instances and runs them. Either way a *run* starts: it sets the
instance to *running*, then for every node inserts a step row, executes the node and saves again, until
the graph ends (*completed*), a node fails (*failed*), or an approval node inserts an approval task and
the instance becomes *waiting_approval*. `decide` (or the page's button) stores the verdict in the task
and calls `/resume`; the engine writes the verdict once more, and either fails the instance or starts
another run of it. `cancel` writes *cancelled* into the row.

What makes this hard:

* **Nobody claims an instance.** The call and the worker may both run it, several resumes may run it
  again, and a user may cancel it in between. There are no transactions around check-then-write, no row
  locks, no version columns.
* **A run keeps its own copy of the row.** Entity Framework writes only the columns that differ from the
  values it loaded, so what a save does to the row depends on what the run *believed* it contained.
* **A failed save is not undone in memory.** In the worker's batch the next instance is run in the same
  `DbContext`, and its first save also writes what the failed one left behind.
* **Several commits per logical step.** The approval task, the gate's step and the suspension are three
  transactions; a decision, a crash or a failed save may come between any two.
* **Requests read in one statement and save in another.** `save()` writes the whole row as it was read and
  inserts it again if it was deleted meanwhile; `delete()` reads what depends on a row and deletes it
  later. The database knows foreign keys but no cascades.
* **Every start seeds again**, statement by statement, over whatever users left in the tables.
* **Calls are sent once** and their outcome is not used; the worker only ever looks for *pending* rows.

What each component must get right:

* graph: a walk starts at a trigger, goes only to nodes of the graph, and ends only where the engine's
  rules say so;
* runner: "completed" means one run walked the whole graph; "failed" has a cause on record; "waiting for
  approval" has a stored task; "running" has an owner; a step is not left in progress by a run that
  returned; saves of steps never revive a cancelled instance or reopen a decided task;
* worker: every pending instance is picked up, and no instance is dispatched without bound;
* control plane: the engine never resumes a task whose decision is not stored; a cancellation and a
  decision are final (they are not: section 4);
* tables: a delete that nobody races is never refused by the constraints; late saves neither revive rows
  that nobody edited nor overwrite columns behind the back of a request that read the row as it still is;
  an instance keeps to the tenant of its definition; a decision is never stored without its one call of the
  engine being due, made or lost (that a lost call is not repeated is in section 4);
* demo data: a start adds what is missing and touches nothing else, and it ends;
* `wait_for_db`: "ready" means that the database answered (it does not: section 4).

The hazards behind these properties are listed with their lines in `PROJECT.json`.

## 2. The modules

```
FlowGraph  <--  WorkflowRunner  <--  ControlPlane  <--  FlowPulse  <--  MCFlowPulse
    ^              ^   ^   :
    |              |   |   +.. InstanceLifecycle (implemented)          WaitForDb
    |              |   +------ MCWorkflowRunner
FlowGraph_proofs <-- WorkflowRunner_proofs <-- RunnerStatus_proofs <-- RunnerLifecycle_proofs
                                                                          ^
                                     FlowPulse_proofs --> RunnerSteps_proofs

Schema  <--  Records  <--  Service  <--  MCService
                ^ ^           ^
                | MCRecords   |
          Records_proofs <-- Service_proofs
```

**`FlowGraph`** has the pure part: graphs as sequences of nodes and edges, `Executor`, `StartNode`,
`NextNode` (a condition's target, else the first edge, else the adjacent node), `Branch`. A node's type is its
lower-case form and whether it is spelled so: the executors are looked up ignoring case
(`WorkflowRunner.cs:116`, `Executor`; an unknown type gets the notification executor), the start node is not
(`StartNode`). A node has a label beside its id, because the label is what the engine writes to
`current_step`. Ids are strings; a node is named by its position, because the engine looks
up the first node with an id. Field values of a payload are numbers. For the properties, `Followers` are the
nodes that can follow one in a run with a given input: a condition has both of its targets only if it
compares one of the two fields that executors assign (`Outputs`), else the one that its rule picks.

**`WorkflowRunner`** is the core. A *run* is one call of `ExecuteInstanceAsync` or
`ResumeWorkflowAsync`; runs are numbered in the order they begin. The tables are `inst`, `steps`
(the step rows each run inserted), `tasks` (the status of the approval task each run inserted) and
`blueprint` (definitions). Per run there are `pc`, `job` (what it was called for and the graph it parsed),
`cur` (current node and context payload) and `ctx`, the `DbContext`:

| `ctx[r]` field | meaning |
|---|---|
| `orig`, `row` | an instance's row as loaded or last saved, and as it is in memory |
| `steps`, `tasks` | step rows and task writes held in memory |
| `scope` | the runs whose rows this context tracks: more than one after a failed run of a batch |

Each `SaveChangesAsync` is one action, and what the code computes between two saves belongs to the second:

| Action | Code |
|---|---|
| `BeginExecute`, `BeginExecuteAfter`, `BeginResume` | the query that loads the instance; in a fresh context, in the batch's context after a failure, for an approval task |
| `SaveRejection`, `SaveApproval` | `WorkflowRunner.cs:236-255` |
| `SaveRunning`, `SaveSchemaFailure`, `SaveEmptyCompletion` | `WorkflowRunner.cs:54-105` |
| `EnterNode` | step row in progress, the node's label in `current_step` |
| `RunTrigger`, `RunCondition`, `RunWebhook`, `RunNotification` | executor and the save that follows it |
| `CreateTask`, `SettleGate`, `Suspend` | the three transactions of an approval gate |
| `ExecutorThrows` | config read outside any `try` |
| `Finish` | end of the walk |
| `LoadFails`, `Crash`, and `Refuse` inside every save | the query throws; the engine process dies; the database refuses a save |
| `CreateInstance`, `CancelWrite`, `DecideWrite`, `EditDefinition` | the control plane's writes, unguarded by checks made earlier |

`Merge` is the column-wise UPDATE and `Commit` the transaction. `Refuse` keeps everything in the context
and aborts the run. `BeginExecuteAfter` lets the next run of the batch work in that context.

**`ControlPlane`** adds the requests: `Trigger`, `CancelCheck`/`CancelSave` and
`DecideCheck`/`DecideSave` (a check and a later write are two actions), `ApproveTask` (the page checks
neither the task nor the decision; here it is sent what its buttons send), and the calls under way in `calls`: `Execute` and `Resume` deliver one, `LoseCall` drops it. The
client's ten-second timeout needs no action of its own: nothing depends on the answer, and a call counted
as failed may still be delivered.

**`FlowPulse`** adds the polling worker (`Poll`, `PickUp`, `PickUpFails`, `EndBatch`), the engine crash, and
composes everything. The worker's list of pending instances is modelled as a set from which the one created
first is taken next (`Oldest`), which is the order of the query. Every step of it is a step of `WorkflowRunner` or leaves its variables alone; TLC
checks this as `ImplementsRunner`, so what is checked or proved of the runner in the most permissive
environment holds of the system.

**`InstanceLifecycle`** is the abstract specification: what a user may see of an instance's status. Calls
are deciding, starting, working, returned or lost, and each phase may change the status in one way. It
knows no rows, contexts, tasks or graphs. `WorkflowRunner` implements it (`ImplementsLifecycle`), with
`PhaseOf` as the refinement mapping of a run's place in the code.

**`Schema`** has the tables as the models and migrations define them: the rows, which column refers to
which table, what is unique, what may be null, and Django's `delete()`: `Collected` is what it reads
(level by level, as the collector does), `AfterDelete` what its transaction leaves. A row has the columns
some property or action depends on; a model names them, each with the values it may hold, and `RowOf` is a
row of a model. What a name or a slug may hold is the constant `Text`: all strings in the runs, any set that
has the texts the code itself writes in the proofs.

**`Records`** has the rows under the requests of users. A request that reads and then saves is two
actions with a saver in `saves` between them (`EditRead`/`EditWrite`, `TriggerRead`/`TriggerWrite`,
`CancelRead`/`CancelWrite`, `DecideRead` or `ApproveRead`/`DecideWrite`). What a trigger or a decision has
stored, the engine is told in one more action: the call is in `calls` until it reaches the engine (`Arrives`)
or fails (`LoseCall`: the engine is not there, or the process ended before it got that far). The decide
request sends one of the two decisions; the page stores and sends what is posted (`Posts`), which the engine
reads in lower case (`Lowered`), taking all but "rejected" for an approval. A delete reads (`DeleteRead`) and
deletes (`DeleteWrite`, or `DeleteRefused` when the constraints object); the dashboard counts three times.
`Create`, `EditRead` and `DeleteRead` are the generic views of the REST API and the admin site, for the
tables that have one (`Managed`). The engine appears as what its runs may write (`EngineMoves`,
`EngineBeginsStep`, `EngineEndsStep`, `EngineAsks`, `EngineResumes`), without the reasons `WorkflowRunner`
gives for them. `edited`, `called`, `resumed`, `lost` and the flags `stale`, `raced` and `changed` are history
variables: no guard reads them but the engine's, which runs only instances it was called for and resumes
only tasks whose call has reached it.

**`Service`** puts `Records` into its container: a start runs `init_demo_data` statement by statement
(`boot` is the next one, `seed` the command's variables), then requests are served; `Cut` kills the
process at any point, between a decision and its call too, and so does the exception of `SeedTenantFails`. Then the container starts again.
`wait_for_db` and `migrate`, which run before, change no row.

**`WaitForDb`** is the waiting loop.

`MCWorkflowRunner`, `MCFlowPulse`, `MCRecords` and `MCService` give the instances, graphs, payloads, rows
and edits TLC uses. Operators named as
mutants in their comments are plausible bugs: each property is broken by one of them under its own run.

## 3. What the passing runs show

| Run (`.cfg`) | Question | Properties |
|---|---|---|
| `RunnerRace` | three runs race on one instance, with cancellations, decisions and a fault | `TypeOK`, `CompletedWalked`, `FailedHasCause`, `WaitingHasGate`, `RunningIsOwned`, `CompletedShowsEnd`, `StepsSettled`, `CancelHolds`, `DecisionStays` |
| `RunnerGraphs` | two calls for two instances on the demo graph and on one of odd nodes, with a fault, while the definition is edited; the abstract life of an instance | `LogIsWalk`, `RepeatsNeedCycle`, `CompletedWalked`, `FailedHasCause`, `TaskHasGate`, `WaitingHasGate`, `StepsSettled`, `ImplementsLifecycle` |
| `System` | call, worker, two user requests and a fault interleave | `SystemTypeOK`, `BoundedDispatch`, `ResumesAreDecided`, `ImplementsRunner` |
| `SystemBatch` | two instances through a batch of one, while their definition is edited | `BoundedDispatch`, `PendingPickedUp` |
| `SystemLive` | with a fault, everything still gets going and returns | `PendingPickedUp`, `RunsReturn` |
| `Records` | three requests, statement by statement, with each other and the engine | `RecordsTypeOK`, `QuietDeletesSucceed`, `TenantsAgree`, `DecidedTasksCalled`, `CountsAddUp`, `OnlySavesRevive`, `QuietSavesKeepColumns` |
| `Service` | starts on an empty and on a used database, cut off once, around a request | `SeededUnlessCut`, `SeedOnlyAdds`, `StartsUnlessRenamed` |

The properties in words:

* `LogIsWalk`: the step rows of a run are a walk of the graph it loaded, from its start node; only the
  last one may be unfinished or failed, and nothing follows a gate. Behind a condition comes the node that
  its rule names for the instance's input, not merely one of the two.
* `RepeatsNeedCycle`: a run executes a node twice only if its graph has a cycle.
* `CompletedWalked`: a completed instance has *one* run that walked a whole graph, every step of it
  completed. Races cannot put
  "completed" together from pieces of several runs.
* `FailedHasCause`, `WaitingHasGate`, `TaskHasGate`: these statuses and tasks have their reason in the
  other tables, although they are written by different transactions.
* `RunningIsOwned`: a run that returns never leaves "running" behind, although its column-wise saves are
  computed from a row others may have changed. Only a lost run does.
* `CompletedShowsEnd`: once all runs of a completed instance have returned, `current_step` is "End", with two
  exceptions: a run found a graph without nodes, or went through a node that is itself labelled "End". That
  run's last save does not write the column, which it believes to hold "End" already; another run may have
  written its own step over it.
* `StepsSettled`: a run that returns settles every step it began.
* `CancelHolds`: saves of steps never revive a cancelled instance; only the first save of a call can.
* `DecisionStays`: no run, decide request or press of a button makes a decided task pending again, though the
  insert of it may be committed late by another run of the batch. (A PUT or PATCH of the task can; these are in
  `Records`.)
* `ImplementsLifecycle`: every change of a status is one that `InstanceLifecycle` allows. A call that returns
  from work writes its outcome, whatever the row says by then; a lost call's leftovers surface only when
  another call begins to work; nothing else of the engine touches a status.
* `BoundedDispatch`: an instance is executed at most twice, plus once for each fault.
* `ResumesAreDecided`: no ordering of decide requests, buttons and calls makes a resume overtake the write of
  its decision. Like `DecisionStays` it does not speak of tasks written by PUT, PATCH or the admin site.
* `PendingPickedUp`: a pending instance is picked up even if its call was lost.
* `RunsReturn`: on acyclic graphs every run returns or is lost.
* `QuietDeletesSucceed`: the cascades of the models satisfy the constraints of the migrations. A delete is
  refused only if a definition, instance or step was added or moved after it had read what to delete.
* `OnlySavesRevive`: a deleted row returns only by the `save()` of an edit or a decision that had read it;
  a cancellation, which names its columns, revives nothing.
* `QuietSavesKeepColumns`: a save that changes a column it is not about had read a row that others have
  written since.
* `DecidedTasksCalled`: the status of a task that is not pending was given to a call of the engine about this
  very task, unless a user wrote it as a plain column (the generic views allow it). The call may not have been
  made yet, have arrived or be lost; `called`, `resumed` and `lost` remember which. So there is no third way to
  a decision the engine never hears of, such as a late save or a revived row, and the task never shows another
  decision than one that a call carries.
* `TenantsAgree`: an instance has the tenant of its definition, unless a user moved one of the two.
* `CountsAddUp`: the dashboard's counts add up unless an instance changed between its queries.
* `SeedOnlyAdds`: a start changes and removes nothing that is there, whatever users made of it.
* `SeededUnlessCut`: after a start that was never cut off between certain statements, the admin can log in
  and the demonstration instance can be decided. The history variable `gaps` names those statements: the
  admin's password and all of the demonstration trace after its instance. A later start does not fill
  such a gap.
* `StartsUnlessRenamed`: a start ends with the server answering, unless the demo tenant was given another
  slug and kept its name: then `get_or_create` finds no row, may not insert one, raises, and the
  container restarts for ever (`init_demo_data.py:30`).

**Bounds and why they are enough.** `MaxRuns` bounds the calls of the runner. Three runs cover the call,
the worker and a resume at once. The liveness runs have as many as the instances can need: in `SystemLive`
one call, one resume, and one pick-up more than there are faults; in `SystemBatch`, without faults, an
instance is still pending and has no run only while the other one has used two of the three, so that
nothing waits for lack of numbers. `MaxSteps` is larger than the longest walk of the graphs used. `MaxFaults` counts failed saves,
failed loads and crashes; one suffices for a leftover, which the next run of the batch then saves.
`MaxRequests` counts cancellations and decisions: two are the least for which a check and another
request's write race. `MaxEdits` is 1 in `RunnerGraphs` and `SystemBatch`: an edit between two runs of one instance.
`RunnerRace` has the graphs with one node or none and one that ends in a node labelled "End", where runs
race; `RunnerGraphs` the long walks, with types in other case. `RunnerRace` has one instance, so its runs share
no batch, and no leftover of one is saved with another: in `RunnerGraphs`, with two instances and a fault, it
is, and the theorems hold of any number of either.
In `Records` three requests are the least for a save, a delete and a third row between them, and one
commit of the engine may come anywhere; there are two first databases, one with two tenants and an instance
that waits for a decision, and one with a user, a membership and a finished instance: between them they have
the rows that requests can race on. The page is sent both decisions and one in other case. In `Service` one request
may change what the seeding looks for, and one cut separates any two of its statements; both starts, before
and after, are in the run.
`BatchSize` is 5 in the code; a batch of one with two instances makes the second wait. Deadlock is not
checked anywhere that `CHECK_DEADLOCK FALSE` stands: the system rests when nobody asks for anything.

**Fairness** (`Fairness` in `FlowPulse`): weak fairness of each run's next step (the task scheduler runs a
ready continuation; a database or HTTP call returns or throws), of the worker (its loop has a timer and
catches exceptions), of each call under way (it arrives or is lost), and of a request past its check.
`ServiceSpec` has weak fairness of the start's statements:
the process executes them in order while it lives. Users have no fairness, and neither have faults. Weak fairness is enough because each of these stays
enabled until it is taken.

## 4. What the code promises and does not do

Each run below checks one sentence of a comment, message or document, and TLC shows how it fails.

| Run | Sentence | What happens |
|---|---|---|
| `BreaksResume` | "Approved: Resume execution from next step" (`WorkflowRunner.cs:250`) | the resumed run starts at the start node again, repeats what came before the gate and asks for approval again: no instance ever gets past a gate |
| `BreaksCancel` | "Workflow instance cancelled successfully." (`W/views.py:82`) | a run that began before, or is delivered after, writes another status |
| `BreaksDecision` | "Task is already decided." (`W/views.py:99`) | the page does not check, and two requests may both have checked |
| `BreaksWaiting` | "Inform C# Engine to resume state machine execution" (`W/views.py:112`) | the one resume call is lost, and nothing sends it again |
| `BreaksWaitForDb` | "waits until database is available" (`wait_for_db.py:7`) | after one failure the loop variable is already set, and the command prints "Database ready!" |

Of the top-level README's features, retry policies for webhooks (`README.md:123`), the audit trail
(`README.md:117`), SLA timers (`README.md:48`) and fallback recovery (`README.md:132`) have no code, so
there is nothing to model. The worker only looks for pending instances: one whose run was lost stays
running, which is what `RunningIsOwned` and `InstanceLifecycle` say of it.

## 5. What is proved

All theorems hold for every value of the constants, under the named assumptions `RunnerAssumption`,
`ControlPlaneAssumption`, `FlowPulseAssumption`, `RecordsAssumption`, `EngineAssumption` and
`ServiceAssumption`: the constants have their types, users set columns of the model to values these may hold
(what a serializer or a form lets pass), the first database is a legal one, finite, its keys numbered without
gaps, text columns may hold what the engine, the page and `init_demo_data` write, and the two decisions are
lower case already. TLC evaluates them in every run.

| Theorem | Module | Statement |
|---|---|---|
| `FirstIsLeast` | `FlowGraph_proofs` | `First` is the least position, or none exactly when there is none |
| `StartNodeIsANode`, `NextNodeIsANode` | `FlowGraph_proofs` | a walk starts at a trigger if there is one, and never leaves the graph |
| `TypeCorrect` | `WorkflowRunner_proofs` | `Spec => []TypeOK` |
| `StatusInvariant` | `RunnerStatus_proofs` | `Spec => [](TypeOK /\ StatusInv)` |
| `RunningOwned`, `CancelHeld` | `RunnerStatus_proofs` | `Spec => []RunningIsOwned`, `Spec => CancelHolds` |
| `DecisionStayed` | `RunnerStatus_proofs` | `Spec => DecisionStays` |
| `RunnerLives` | `RunnerLifecycle_proofs` | `Spec => ImplementsLifecycle` |
| `LogsAreWalks`, `StepsAreSettled` | `RunnerSteps_proofs` | `Spec => []LogIsWalk`, `Spec => []StepsSettled` |
| `RepeatsAreCycles`, `RunsAreShort` | `RunnerSteps_proofs` | `Spec => []RepeatsNeedCycle`; without a cycle a run has at most one step for each node |
| `TasksHaveGates`, `WaitingAtGate` | `RunnerSteps_proofs` | `Spec => []TaskHasGate`, `Spec => []WaitingHasGate` |
| `CompletedIsWalked`, `CompletedAtEnd` | `RunnerSteps_proofs` | `Spec => []CompletedWalked`, `Spec => []CompletedShowsEnd` |
| `CompletedMeetsNoGate` | `RunnerSteps_proofs` | a completed instance has a run whose whole walk avoids gates |
| `FailureHasCause` | `RunnerSteps_proofs` | `Spec => []FailedHasCause` |
| `SystemTypeCorrect` | `FlowPulse_proofs` | `SystemSpec => []SystemTypeOK` |
| `SystemImplementsRunner`, `SystemKeepsPromises` | `FlowPulse_proofs` | `SystemSpec => Spec`, and so all of the above |
| `ResumesDecided` | `FlowPulse_proofs` | `SystemSpec => []ResumesAreDecided` |
| `DispatchBounded` | `FlowPulse_proofs` | `SystemSpec => []BoundedDispatch` |
| `CollectedIsClosed` | `Records_proofs` | three rounds of the collector find all that a cascade reaches |
| `DeleteAccepted` | `Records_proofs` | deleting a closed set of rows leaves an accepted database |
| `QuietDeletes` | `Records_proofs` | `RecordsSpec => []QuietDeletesSucceed` |
| `OnlySavesBringBack` | `Records_proofs` | `RecordsSpec => OnlySavesRevive` |
| `QuietSaves` | `Records_proofs` | `RecordsSpec => QuietSavesKeepColumns` |
| `QuietCounts` | `Records_proofs` | `RecordsSpec => []CountsAddUp` |
| `DecisionsAreTold` | `Records_proofs` | `RecordsSpec /\ DecidedTasksCalled => []DecidedTasksCalled` |
| `TenantsStayTogether` | `Records_proofs` | `RecordsSpec /\ TenantsAgree => []TenantsAgree` |
| `RecordsTypeCorrect` | `Records_proofs` | `RecordsSpec => []RecordsTypeOK` |
| `SeedAdds` | `Service_proofs` | `ServiceSpec => SeedOnlyAdds` |
| `Seeded` | `Service_proofs` | `ServiceSpec /\ Unseeded => []SeededUnlessCut` |
| `ServiceTypeCorrect`, `ServiceDeletes` | `Service_proofs` | `ServiceSpec => []RecordsTypeOK`, `ServiceSpec => []QuietDeletesSucceed` |
| `ServiceKeepsPromises` | `Service_proofs` | `ServiceSpec =>` `OnlySavesRevive`, `QuietSavesKeepColumns`, `[]CountsAddUp` |
| `ServiceDecides` | `Service_proofs` | `ServiceSpec /\ DecidedTasksCalled => []DecidedTasksCalled` |
| `ServiceTenants` | `Service_proofs` | `ServiceSpec /\ TenantsAgree => []TenantsAgree` |

*The argument for the status.* `RunningIsOwned` alone is not inductive. A run about to return writes its
status only if it differs from the value it loaded; were that value already "completed", the save would
leave "running" behind. Nor does the set of live runs suffice: a run that has loaded but not saved yet is
live, and may be rejected on a stale row. So the invariant `StatusInv` says what a context knows:

1. `Owned`: a running instance has an owner that is past its first save (`Working`) or lost;
2. `SavedInv`: a working run has nothing unsaved, and *believes* its instance to be running. So whatever it
   ends with differs from that belief and is written;
3. `TrackedInv`, `ScopeInv`: a row that is "running" in memory belongs to the context's own run or to a
   lost run of the batch. So a late save of a leftover "running" still leaves an owner;
4. `DecidedInv`: only resumed runs are at the point where a decision is saved.

`AdvanceSaves` reduces the fifteen steps of a run to one shape (`Saves`), and one lemma each treats a
committed save, an abort, the three ways a call begins, a crash, and the control plane's writes.
`CancelHolds` follows from the same invariant: after the first save there is no unsaved "running".

*The argument for the tasks.* `TaskInv`: no two contexts track the same run (`OneTracker`), a context
inserts a task only while the table lacks it (`UnsavedTasks`), and a run that has not asked has no task
(`NotYetAsked`). So no insert meets a stored task, and an update writes a decision only.

*The argument for the refinement.* Initial states map to initial states, and each step of the runner to one
step of `InstanceLifecycle` or to none (`NextLives`). A save of a working run is the hard case: its column
is written only if it differs from the context's original. `SavedInv` says the original is "running", so
an outcome is always written and a step in between never writes. Beyond `StatusInv` this needs `LifeInv`:
whatever a context has left to write of another instance was meant by a lost run that it tracks, and is
one of the statuses runs write (`LeftoverInv`); a call about to take down a decision has nothing left to
write (`DecidingInv`). And it needs `CalledInv`: every call is for an instance that exists, which rests on
`TaskInv` for resumed ones.

*The argument for types of the runner.* Two parts of `TypeOK` are more than types. `OnGraph`: a run stands at a
node of the graph it loaded, so the label it writes is one. `InputKept`: of its input, a run changes only what
executors assign, so a condition on any other field decides as it would on the input; `Followers` relies on
that.

*The argument for the step rows.* `Records` in `RunnerSteps_proofs` (not the module of that name) says what a
save does to the rows of its run, and `AdvanceRecords` reduces each step of a run to it. `LogInv` then has
four parts: what any context holds of a run is a walk of that run's graph and belongs to its scope
(`MemoryInv`); so is what the table holds (`StoredInv`); a run in the loop has stored what it holds and stands
where its next node is a follower of its last step (`PlacedInv`); a run that returned left no step in
progress (`SettledInv`). `MemoryInv` is needed for all contexts, not only a run's own: after a refused save the
next run of the batch stores the leftovers of the lost one. `GateInv` adds where an insert of a task may be
pending and what stands in the table then.

*The argument for the end of a walk.* Between two visits of a node, each node of the walk is followed by the
next one, and the last by the first: these nodes are a cycle (`RepeatIsCycle`). So on a graph without one the
nodes of a walk differ, and by the pigeonhole principle there are no more steps than nodes. This is the half of
`RunsReturn` that a safety proof can give: what is left to fairness is that each single step is taken. It also
shows that `MaxSteps` cuts off no walk of such a graph once it is the number of nodes. `CompletedMeetsNoGate` is the general form
of what `BreaksResume` finds: a walk goes on behind no gate and a whole walk does not end at one, so an
instance all of whose walks meet a gate is never completed, whatever is decided.

*The argument for causes.* A status and its cause are written by different saves, and a leftover status may
be written by a run that has nothing to do with the cause. So the invariant follows a cause through memory:
an ending in the table has a run that is past changing its rows (`Final`) and explains it (`StoredCause`),
and an ending that a context has yet to write has a lost run in its scope that does (`MemoryCause`). A save
moves the second kind to the first, because it writes the lost run's rows in the same transaction.

*The argument for the current step.* `CompletedShowsEnd` fails between the saves of racing runs, so `EndInv`
says who makes good for a completed instance whose step is not "End": a run that was lost, one whose graph
has no nodes, or one that has entered a node and has yet to write its ending (`Excuses`). That this ending
writes the step needs `PassedInv` (a run past a node believes the step to be that node's label, which is not
"End" unless the run is one of the exceptions, so it changes the column) and `LeftInv`, `AloneInv` (nothing else is left to write of its own instance).

*The argument for the composition.* `SystemNextIsNext`: each action of `FlowPulse` and `ControlPlane` is an
action of the runner or leaves its variables alone. Its inputs are the types of what is under way, which
`SystemTypeCorrect` gives. `ResumesDecided` needs in addition that every resume among the calls names a
decided task (`CallsAreDecided`), which stays so because the runner never reopens one (`DecisionStays`).

*The argument for dispatches.* They are counted by who began them (`DispatchInv`): the runs of an instance are
the worker's share `W` and at most one other, the one its call began. `W` is at most `1 + faults`, and at most
`faults` while the worker may still take the instance (`MayDispatch`: it is in the batch, or pending and not
claimed by the run the worker has just begun). The step from one bound to the other is the first save of that
run: it either fails, which is a fault, or writes "running". That it does write it is `PendingSeen`: an
instance still pending was pending when it was loaded, so the column differs; and nothing makes an instance
pending again (`PendingFades`).

*The argument for deletes.* Commits are only accepted if nothing dangles, so in a state the foreign keys
between stored rows are sound (`Sound`). When a delete reads, `CollectedIsClosed` gives a closed set: by
the order of the tables a tenant is never reached by a cascade, a definition only in the first round, an
instance in the second at the latest, and a step in the third. Closedness lasts while no row is added or
moved into the cascades (`DeletesClosed`, which is why `raced` records exactly that), and `DeleteAccepted`
turns it into an accepted commit.

*The argument for saves.* `StepShape` reduces the steps to four shapes: a request reads a row in order to save
it, a commit stores rows and at most one new key, a request that had read a row saves it, or no row changes.
`KeysInv` keeps the used keys, deleted ones included, a finite set numbered without gaps, so the next number
was never in use and a new row revives nothing. `UntouchedInv` says that a request whose row nobody has
written since still holds the stored value of every column it was not asked to set; its save, whole or by
column names, therefore puts back what is there. For the counts, `PageInv` says that what the dashboard has
counted so far is still so, unless `changed` is set; running and completed instances are disjoint.

*The argument for decisions and tenants.* Both properties speak of stored rows, and a save may bring back what
was read long before, even of rows deleted since. So the invariants also cover the rows held by requests.
`ToldInv`: an edit of other columns that holds a decided task holds a status that a call was given before.
`CallsReport` is what it rests on: whatever becomes of a call, what was given to calls only grows.
`AgreeInv` compares all copies of instances and definitions, stored, held by an edit or about to be triggered:
two copies of a definition have the same tenant, and so have a copy of an instance and one of its definition,
unless a user has set one of the columns or is about to with this copy. `CopiesAgree` shows that this is kept
if every copy comes from an older one, from a trigger or from a user's new row; `CommitAgrees` and
`ReadAgrees`, that every step makes copies in these ways only. The two theorems are conditional because the
first database is arbitrary: it may hold decided tasks or parted instances already. In the first state nothing
is edited, called or resumed, so the condition says that it does not.

*The argument for types.* A request holds a row it has read, with its own columns set, and may store it
after the row has changed or gone. So `TypeInv` speaks of the rows that savers hold as well, of the keys
collected by deletes and of those the engine was called for, and says of each which table it belongs to. That
one save puts a row of the right model under a key follows from the key it was read from; a cascade only
replaces links that may be null (`Unlinked`).

*The argument for the container.* `ServiceInv` adds to the invariants of the tables what a start has got so
far (`SeedInv`): each of the command's variables names a stored row of its table, with the slug or the links
that the statement which set it looked for. While a start runs no request is under way, so only it and the
engine write, and both are `Steady`: they remove no row and change nothing but statuses and a password. A
restart drops what was under way and the variables with it. `SeedAdds` then needs only that a statement stores
a row under a new key, or the user that this start has added.

*The argument for the demonstration data.* `FirstInv` says of the states before the first request what holds
after any number of starts, cut off anywhere. `AdminInv`: a user "admin" has its password, is the one just
added, or a start was cut off before the password. `TraceInv`: each instance of the demo workflow is complete,
or the one that this start is adding, and that has exactly the steps of the statements passed (`Laid`).
The engine is at work meanwhile, and nothing says which instances it takes; that it leaves this one alone needs
three facts that are each part of `Resting`: nobody has called it for the instance, the worker does not take
an instance that waits for approval, and the next step of the trace is not one of the engine's. The theorem's
condition `Unseeded` (no user "admin", no tenant "apex-corp" in the first database) is needed: of rows that
somebody else made under these names a start assumes they are its own, and adds neither password nor trace.

*The argument for restarts.* What a start stores is `Harmless`: its key was never in use, or it is the user
just added; a task is pending; an instance has the tenant its definition had when the start looked for it,
which is `SeedInv` again. With no request under way, such a store keeps every invariant that `Records` needs
for its promises (`StartPromises`), and a cut only forgets. So all that is proved of `RecordsSpec` holds of
`ServiceSpec`, which is not one of its instances: the statements of a start are no steps of `RecordsNext`.

TLC had checked each of these invariants on the constants of the runs before it was proved.

*Only model-checked*: liveness (`PendingPickedUp`, `RunsReturn`, `StartsUnlessRenamed`), which is beyond the
prover, as are `ENABLED` and induction over data. Every safety property of the passing runs is proved; of
`ImplementsRunner` and `ImplementsLifecycle` these are the statements of `SystemImplementsRunner` and
`RunnerLives`.

## 6. What is not modelled

* Wording, logging, layout, the contents of payloads other than the numbers a condition reads, assignees,
  `output_payload`; nulls inside a graph's JSON (`"nodes": null`, a node without a type), which no editor or
  seed writes.
* Deletes inside `WorkflowRunner`: a run whose instance is deleted fails at its next save, which is the
  fault `Refuse`. `Records` has the deletes, with the engine reduced to what it may write.
* Authentication and permissions: no view asks for them. Any user may send any request of `Records`.
* Decisions other than "approved" and "rejected" in the runner and the composed system: the page's form sends
  these two. `Records` has any text that may be posted, and the engine's reading of it.
* Edits of tasks and instances by PUT, PATCH and the admin site in the runner and the composed system; they
  are in `Records`, with the engine reduced to what it may write.
* Reads that change nothing: lists, filters, detail pages, `health`.
* The webhook's remote end: it answers with success, with another status, or not at all (which the
  executor records as a simulated success).
* Database isolation below one transaction: a transaction is one step. A run's query and its transaction
  are different steps. A `delete()` is modelled as its reads and then one commit; its reads are one step,
  though the collector sends several queries.
* Graphs with cycles in TLC's runs: on these a run does not end (`WorkflowRunner.cs:110` has no limit). The
  theorems hold of them.
* `ExecutionTimeoutSeconds` and `MaxConcurrentWorkflows` are configured and read by no code.

## 7. Where the project stands

Every component that keeps state is modelled: the graph, the runner with its executors and database
context, the control plane's requests and their calls, the worker, the composed system, the tables with
their constraints and deletes, the generic views and the admin site, the demo data with its restarts, and
`wait_for_db`. What is left would refine it:

1. the runner and `Records` composed: a delete between two saves of a run, row by row;
2. a reference definition of the walk, against which `StartNode`, `NextNode` and `Branch` are checked over
   all small graphs; cyclic graphs.

## 8. Running it

```
tlc -workers 2 -config RunnerRace.cfg MCWorkflowRunner.tla
tlc -workers 2 -config System.cfg MCFlowPulse.tla
tlc -workers 2 -config Records.cfg MCRecords.tla
tlapm RunnerSteps_proofs.tla
tlapm Service_proofs.tla
```

`PROJECT.json` lists, for every run, its module, its configuration and what it checks; for every
definition, the lines of the source it models.
