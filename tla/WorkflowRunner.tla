---------------------------- MODULE WorkflowRunner ----------------------------
(***************************************************************************)
(* The .NET engine's WorkflowRunner and node executors over the three      *)
(* tables they share with the Django control plane.                        *)
(*                                                                         *)
(* A run is one call of ExecuteInstanceAsync or ResumeWorkflowAsync.  Any  *)
(* number of runs may work on one instance: nothing in the code locks or   *)
(* claims an instance.  Each SaveChangesAsync is one database transaction  *)
(* and one action here; what a run computes between two saves is part of   *)
(* the second.  A save may fail, and the engine process may die, between   *)
(* any two actions.                                                        *)
(*                                                                         *)
(* A run works in a DbContext, modelled by ctx[r]: the rows as they were   *)
(* loaded or last saved (orig), their present values in memory (row), and  *)
(* the inserted rows not yet stored.  A save writes only the columns whose *)
(* value differs from orig; a failed save leaves them all to be written by *)
(* the next save in the same context.                                      *)
(***************************************************************************)
EXTENDS FlowGraph

CONSTANTS
    Instances,      \* workflow_instances ids
    Definitions,    \* workflow_definitions ids
    DefinitionOf,   \* instance -> the definition it is created with
    InputOf,        \* instance -> its input_payload
    Graphs,         \* the graph_schemas a definition may have
    MaxRuns,        \* bound: calls of the runner
    MaxSteps,       \* bound: step rows one run may write
    MaxFaults,      \* bound: failed saves and engine crashes
    MaxEdits        \* bound: edits of a definition

ASSUME RunnerAssumption ==
    /\ DefinitionOf \in [Instances -> Definitions]
    /\ InputOf \in [Instances -> Payloads]
    /\ Graphs \subseteq GraphType
    /\ MaxRuns \in Nat /\ MaxSteps \in Nat
    /\ MaxFaults \in Nat /\ MaxEdits \in Nat

\* Run r also names the approval task that run r may insert.
Runs == 1..MaxRuns
NoTask == 0

VARIABLES
    inst,       \* workflow_instances: [Instances -> Row]
    steps,      \* step_executions, by the run that inserted them, in order
    tasks,      \* approval_tasks: status of the task inserted by each run
    blueprint,  \* workflow_definitions.graph_schema
    pc,         \* where each run is
    job,        \* what each run was called for
    ctx,        \* the DbContext each run works in
    cur,        \* a run's locals: current node and context payload
    faults,     \* failed saves and crashes so far
    edits       \* edits of definitions so far

tables == <<inst, steps, tasks>>
vars == <<inst, steps, tasks, blueprint, pc, job, ctx, cur, faults, edits>>

Statuses == {"none", "pending", "running", "waiting_approval",
             "completed", "failed", "cancelled"}
Terminal == {"completed", "failed", "cancelled"}
TaskStatuses == {"none", "pending", "approved", "rejected"}
Decisions == {"approved", "rejected"}
Causes == {"", "schema", "step", "rejected", "cancelled"}

\* current_step: the label of a node, "" before the first one, "End" after the
\* last; a node may be labelled "End" as well.
NoStep == ""
EndStep == "End"
CurrentSteps == STRING \cup {NoStep, EndStep}

Rows == [status : Statuses, step : CurrentSteps, completed_at : BOOLEAN,
         error : Causes]
NoRow == [status |-> "none", step |-> NoStep, completed_at |-> FALSE,
          error |-> ""]

Step(node, status) == [node |-> node, status |-> status]
Logs == Seq([node : Nat, status : {"in_progress", "completed", "failed"}])

(***************************************************************************)
(* The database context.                                                   *)
(***************************************************************************)
\* tasks: the task writes not yet stored ("same": none); scope: the runs
\* whose step rows this context tracks.
Contexts == [orig : [Instances -> Rows], row : [Instances -> Rows],
             steps : [Runs -> Logs], tasks : [Runs -> TaskStatuses \cup {"same"}],
             scope : SUBSET Runs]

NothingToWrite == [t \in Runs |-> "same"]

EmptyContext ==
    [orig |-> [i \in Instances |-> NoRow], row |-> [i \in Instances |-> NoRow],
     steps |-> [r \in Runs |-> <<>>], tasks |-> NothingToWrite, scope |-> {}]

\* Context c after a query by run r that returns the row of instance i.
Load(c, r, i) ==
    [c EXCEPT !.orig = [@ EXCEPT ![i] = inst[i]],
              !.row = [@ EXCEPT ![i] = inst[i]],
              !.scope = @ \cup {r}]

SetRow(c, i, row) == [c EXCEPT !.row = [@ EXCEPT ![i] = row]]
SetLog(c, r, log) == [c EXCEPT !.steps = [@ EXCEPT ![r] = log]]
SetTask(c, t, status) == [c EXCEPT !.tasks = [@ EXCEPT ![t] = status]]

\* UPDATE of the changed columns only.
Changed(new, old, stored) == IF new # old THEN new ELSE stored

\* Mutant of Merge: the whole row is written, stale columns included.
MergeWholeRow(stored, orig, row) == IF row # orig THEN row ELSE stored

Merge(stored, orig, row) ==
    [status |-> Changed(row.status, orig.status, stored.status),
     step |-> Changed(row.step, orig.step, stored.step),
     completed_at |->
         Changed(row.completed_at, orig.completed_at, stored.completed_at),
     error |-> Changed(row.error, orig.error, stored.error)]

\* Mutant of Commit: a task once inserted is written again by every save.
CommitTasksAgain(r, c, next) ==
    /\ inst' = [i \in Instances |-> Merge(inst[i], c.orig[i], c.row[i])]
    /\ steps' = [x \in Runs |-> IF x \in c.scope THEN c.steps[x] ELSE steps[x]]
    /\ tasks' = [t \in Runs |->
                    IF c.tasks[t] = "same" THEN tasks[t] ELSE c.tasks[t]]
    /\ ctx' = [ctx EXCEPT ![r] = [c EXCEPT !.orig = c.row]]
    /\ pc' = [pc EXCEPT ![r] = next]
    /\ UNCHANGED faults

\* SaveChangesAsync by run r, whose context the code before it has brought to
\* c: the transaction commits and r goes on at next.  A context with nothing
\* left to write is forgotten when its run returns.
Commit(r, c, next) ==
    /\ inst' = [i \in Instances |-> Merge(inst[i], c.orig[i], c.row[i])]
    /\ steps' = [x \in Runs |-> IF x \in c.scope THEN c.steps[x] ELSE steps[x]]
    /\ tasks' = [t \in Runs |->
                    IF c.tasks[t] = "same" THEN tasks[t] ELSE c.tasks[t]]
    /\ ctx' = [ctx EXCEPT ![r] =
                  IF next = "done" THEN EmptyContext
                  ELSE [c EXCEPT !.orig = c.row, !.tasks = NothingToWrite]]
    /\ pc' = [pc EXCEPT ![r] = next]
    /\ UNCHANGED faults

\* The database refuses the save, and the exception ends the run.
Refuse(r, c) ==
    /\ faults < MaxFaults
    /\ faults' = faults + 1
    /\ ctx' = [ctx EXCEPT ![r] = c]
    /\ pc' = [pc EXCEPT ![r] = "aborted"]
    /\ UNCHANGED tables

Save(r, c, next) == Commit(r, c, next) \/ Refuse(r, c)

(***************************************************************************)
(* The life of a run.  Live: a call is in progress.  Lost: it ended with   *)
(* an exception ("aborted") or with the engine process or its worker batch *)
(* moving on after one ("dead").                                           *)
(***************************************************************************)
Live == {"loaded", "decided", "next", "execute", "settle", "suspend"}
Lost == {"aborted", "dead"}
PCs == {"idle", "done"} \cup Live \cup Lost

Jobs == [inst : Instances, graph : GraphType, task : Runs \cup {NoTask},
         decision : Decisions]

Idle(r) == pc[r] = "idle"
\* The next call gets the next unused id.
NextRun(r) == Idle(r) /\ \A q \in Runs : q < r => ~Idle(q)

Exists(i) == inst[i].status # "none"
GraphFor(i) == blueprint[DefinitionOf[i]]

Row(r) == ctx[r].row[job[r].inst]
Log(r) == ctx[r].steps[r]
\* Run r's context with its instance's row, or its log, assigned.
WithRow(r, row) == SetRow(ctx[r], job[r].inst, row)
MarkLast(log, status) == [log EXCEPT ![Len(log)].status = status]

Init ==
    /\ inst = [i \in Instances |-> NoRow]
    /\ steps = [r \in Runs |-> <<>>]
    /\ tasks = [r \in Runs |-> "none"]
    /\ blueprint \in [Definitions -> Graphs]
    /\ pc = [r \in Runs |-> "idle"]
    /\ \E i \in Instances :
          job = [r \in Runs |-> [inst |-> i, graph |-> EmptyGraph,
                                 task |-> NoTask, decision |-> "approved"]]
    /\ ctx = [r \in Runs |-> EmptyContext]
    /\ cur = [r \in Runs |-> [node |-> NoNode,
                              payload |-> [f \in Fields |-> 0]]]
    /\ faults = 0
    /\ edits = 0

(***************************************************************************)
(* Calls.  ExecuteInstanceAsync loads the instance with its definition and *)
(* asks nothing of its status.                                             *)
(***************************************************************************)
Start(r, i, task, decision) ==
    /\ NextRun(r)
    /\ job' = [job EXCEPT ![r] = [inst |-> i, graph |-> GraphFor(i),
                                  task |-> task, decision |-> decision]]
    /\ cur' = [cur EXCEPT ![r] = [node |-> NoNode, payload |-> InputOf[i]]]
    /\ UNCHANGED <<tables, blueprint, faults, edits>>

BeginExecute(r, i) ==
    /\ Exists(i)
    /\ Start(r, i, NoTask, "approved")
    /\ ctx' = [ctx EXCEPT ![r] = Load(EmptyContext, r, i)]
    /\ pc' = [pc EXCEPT ![r] = "loaded"]

\* The polling worker runs a batch in one scope: after run q threw, the next
\* run works in q's context, with whatever q left unsaved in it.
BeginExecuteAfter(r, i, q) ==
    /\ Exists(i)
    /\ pc[q] = "aborted" /\ job[q].task = NoTask
    /\ \A x \in ctx[q].scope : job[x].inst # i
    /\ Start(r, i, NoTask, "approved")
    /\ ctx' = [ctx EXCEPT ![q] = EmptyContext, ![r] = Load(ctx[q], r, i)]
    /\ pc' = [pc EXCEPT ![q] = "dead", ![r] = "loaded"]

\* ResumeWorkflowAsync loads the task and its instance and asks nothing of
\* the status of either.
BeginResume(r, t, decision) ==
    /\ tasks[t] # "none"
    /\ LET i == job[t].inst
           verdict == IF tasks[t] = decision THEN "same" ELSE decision
       IN  /\ Start(r, i, t, decision)
           /\ ctx' = [ctx EXCEPT ![r] =
                         SetTask(Load(EmptyContext, r, i), t, verdict)]
    /\ pc' = [pc EXCEPT ![r] = "decided"]

\* The query that opens a call throws: the call ends having read nothing.
LoadFails ==
    /\ faults < MaxFaults
    /\ faults' = faults + 1
    /\ UNCHANGED <<tables, blueprint, pc, job, ctx, cur, edits>>

\* Mutant of SaveRejection: any decision is taken for a rejection.
SaveRejectionOfAll(r) ==
    /\ pc[r] = "decided"
    /\ Save(r, WithRow(r, [Row(r) EXCEPT !.status = "failed",
                                         !.error = "rejected",
                                         !.completed_at = TRUE]), "done")
    /\ UNCHANGED <<blueprint, job, cur, edits>>

SaveRejection(r) ==
    /\ pc[r] = "decided" /\ job[r].decision = "rejected"
    /\ Save(r, WithRow(r, [Row(r) EXCEPT !.status = "failed",
                                         !.error = "rejected",
                                         !.completed_at = TRUE]), "done")
    /\ UNCHANGED <<blueprint, job, cur, edits>>

\* Approved: the run goes on as ExecuteInstanceAsync of the instance, whose
\* query finds the tracked row and returns it as it is in memory.
SaveApproval(r) ==
    /\ pc[r] = "decided" /\ job[r].decision = "approved"
    /\ Save(r, WithRow(r, [Row(r) EXCEPT !.status = "running"]), "loaded")
    /\ UNCHANGED <<blueprint, job, cur, edits>>

SaveRunning(r) ==
    /\ pc[r] = "loaded"
    /\ Save(r, WithRow(r, [Row(r) EXCEPT !.status = "running"]), "next")
    /\ cur' = [cur EXCEPT ![r].node = StartNode(job[r].graph)]
    /\ UNCHANGED <<blueprint, job, edits>>

\* Mutant of SaveSchemaFailure: a graph without nodes is an error too.
SaveSchemaFailureIfEmpty(r) ==
    /\ pc[r] = "next" /\ job[r].graph.nodes = <<>>
    /\ Save(r, WithRow(r, [Row(r) EXCEPT !.status = "failed",
                                         !.error = "schema",
                                         !.completed_at = TRUE]), "done")
    /\ UNCHANGED <<blueprint, job, cur, edits>>

SaveSchemaFailure(r) ==
    /\ pc[r] = "next" /\ ~job[r].graph.valid
    /\ Save(r, WithRow(r, [Row(r) EXCEPT !.status = "failed",
                                         !.error = "schema",
                                         !.completed_at = TRUE]), "done")
    /\ UNCHANGED <<blueprint, job, cur, edits>>

\* Mutant of SaveEmptyCompletion: an unreadable graph is taken for an empty one.
SaveUnreadableCompletion(r) ==
    /\ pc[r] = "next" /\ job[r].graph.nodes = <<>>
    /\ Save(r, WithRow(r, [Row(r) EXCEPT !.status = "completed",
                                         !.completed_at = TRUE]), "done")
    /\ UNCHANGED <<blueprint, job, cur, edits>>

SaveEmptyCompletion(r) ==
    /\ pc[r] = "next" /\ job[r].graph.valid /\ job[r].graph.nodes = <<>>
    /\ Save(r, WithRow(r, [Row(r) EXCEPT !.status = "completed",
                                         !.completed_at = TRUE]), "done")
    /\ UNCHANGED <<blueprint, job, cur, edits>>

(***************************************************************************)
(* The loop over the nodes.                                                *)
(***************************************************************************)
EnterNode(r) ==
    /\ pc[r] = "next" /\ cur[r].node # NoNode
    /\ Len(Log(r)) < MaxSteps
    /\ LET c == WithRow(r, [Row(r) EXCEPT
                                 !.step = Label(job[r].graph, cur[r].node)])
           log == Append(Log(r), Step(cur[r].node, "in_progress"))
       IN  Save(r, SetLog(c, r, log), "execute")
    /\ UNCHANGED <<blueprint, job, cur, edits>>

\* The node run r is to execute is handled by the executor of this type.
Executing(r, type) ==
    pc[r] = "execute" /\ Executor(job[r].graph, cur[r].node) = type
Config(r) == job[r].graph.nodes[cur[r].node].config

\* Mutant of StepSucceeds: the run stays at its node.
StepSucceedsInPlace(r, goto, payload) ==
    /\ Save(r, SetLog(ctx[r], r, MarkLast(Log(r), "completed")), "next")
    /\ cur' = [cur EXCEPT ![r].payload = payload]
    /\ UNCHANGED <<blueprint, job, edits>>

\* The executor succeeded: the step is completed and the run moves on.
StepSucceeds(r, goto, payload) ==
    /\ Save(r, SetLog(ctx[r], r, MarkLast(Log(r), "completed")), "next")
    /\ cur' = [cur EXCEPT ![r] =
                  [node |-> NextNode(job[r].graph, cur[r].node, goto),
                   payload |-> payload]]
    /\ UNCHANGED <<blueprint, job, edits>>

\* Mutant of StepFails: the loop goes on after a failed step.
StepFailsGoesOn(r) ==
    /\ Save(r, SetLog(ctx[r], r, MarkLast(Log(r), "failed")), "next")
    /\ cur' = [cur EXCEPT ![r].node = NextNode(job[r].graph, cur[r].node, "")]
    /\ UNCHANGED <<blueprint, job, edits>>

\* Mutant of StepFails: the instance fails and its step is left as it is.
StepFailsUnmarked(r) ==
    /\ Save(r, WithRow(r, [Row(r) EXCEPT !.status = "failed",
                                         !.error = "step",
                                         !.completed_at = TRUE]), "done")
    /\ UNCHANGED <<blueprint, job, cur, edits>>

\* The executor reported a failure: so do the step and the instance.
StepFails(r) ==
    /\ LET c == WithRow(r, [Row(r) EXCEPT !.status = "failed",
                                          !.error = "step",
                                          !.completed_at = TRUE])
       IN  Save(r, SetLog(c, r, MarkLast(Log(r), "failed")), "done")
    /\ UNCHANGED <<blueprint, job, cur, edits>>

RunTrigger(r) ==
    /\ Executing(r, "trigger")
    /\ StepSucceeds(r, "", cur[r].payload)

\* Mutant of RunCondition: the outcome of the comparison is not used.
RunConditionTrue(r) ==
    /\ Executing(r, "condition")
    /\ \/ /\ Config(r).kind = "object"
          /\ StepSucceeds(r, Config(r).on_true, cur[r].payload)
       \/ Config(r).kind = "none" /\ StepSucceeds(r, "", cur[r].payload)
       \/ Config(r).kind = "bad" /\ StepFails(r)

RunCondition(r) ==
    /\ Executing(r, "condition")
    /\ \/ /\ Config(r).kind = "object"
          /\ StepSucceeds(r, Branch(Config(r), cur[r].payload),
                [cur[r].payload EXCEPT !["actual_value"] =
                    FieldValue(Config(r), cur[r].payload)])
       \/ Config(r).kind = "none" /\ StepSucceeds(r, "", cur[r].payload)
       \/ Config(r).kind = "bad" /\ StepFails(r)

\* A success status (200 for all of them), another status, or no reply at
\* all, which is recorded as a simulated 200.
RunWebhook(r) ==
    /\ Executing(r, "http_webhook") /\ Config(r).kind # "bad"
    /\ \/ StepSucceeds(r, "", [cur[r].payload EXCEPT !["http_status"] = 200])
       \/ StepFails(r)

RunNotification(r) ==
    /\ Executing(r, "notification") /\ Config(r).kind # "bad"
    /\ StepSucceeds(r, "", cur[r].payload)

\* These executors read their config outside any try block.
ExecutorThrows(r) ==
    /\ \E type \in {"http_webhook", "approval", "notification"} :
          Executing(r, type)
    /\ Config(r).kind = "bad"
    /\ pc' = [pc EXCEPT ![r] = "aborted"]
    /\ UNCHANGED <<tables, blueprint, job, ctx, cur, faults, edits>>

\* Mutant of CreateTask: the task is never stored.
CreateTaskUnsaved(r) ==
    /\ Executing(r, "approval") /\ Config(r).kind # "bad"
    /\ Save(r, ctx[r], "settle")
    /\ UNCHANGED <<blueprint, job, cur, edits>>

\* The approval executor stores a pending task in a transaction of its own ...
CreateTask(r) ==
    /\ Executing(r, "approval") /\ Config(r).kind # "bad"
    /\ Save(r, SetTask(ctx[r], r, "pending"), "settle")
    /\ UNCHANGED <<blueprint, job, cur, edits>>

\* Mutant of SettleGate: the workflow is not suspended.
SettleGateGoesOn(r) ==
    /\ pc[r] = "settle"
    /\ Save(r, SetLog(ctx[r], r, MarkLast(Log(r), "completed")), "next")
    /\ cur' = [cur EXCEPT ![r].node = NextNode(job[r].graph, cur[r].node, "")]
    /\ UNCHANGED <<blueprint, job, edits>>

\* ... the runner then completes the gate's step ...
SettleGate(r) ==
    /\ pc[r] = "settle"
    /\ Save(r, SetLog(ctx[r], r, MarkLast(Log(r), "completed")), "suspend")
    /\ UNCHANGED <<blueprint, job, cur, edits>>

\* Mutant of Suspend: the suspension is not saved.
SuspendUnsaved(r) ==
    /\ pc[r] = "suspend"
    /\ pc' = [pc EXCEPT ![r] = "done"]
    /\ UNCHANGED <<tables, blueprint, job, ctx, cur, faults, edits>>

\* Mutant of Suspend: a status the models do not have.
SuspendAsPaused(r) ==
    /\ pc[r] = "suspend"
    /\ Save(r, WithRow(r, [Row(r) EXCEPT !.status = "paused"]), "done")
    /\ UNCHANGED <<blueprint, job, cur, edits>>

\* ... and only then suspends the instance.
Suspend(r) ==
    /\ pc[r] = "suspend"
    /\ Save(r, WithRow(r, [Row(r) EXCEPT !.status = "waiting_approval"]), "done")
    /\ UNCHANGED <<blueprint, job, cur, edits>>

\* Mutant of Finish: the current step is left at the last node.
FinishInPlace(r) ==
    /\ pc[r] = "next" /\ cur[r].node = NoNode
    /\ job[r].graph.valid /\ job[r].graph.nodes # <<>>
    /\ Save(r, WithRow(r, [Row(r) EXCEPT !.status = "completed",
                                         !.completed_at = TRUE]), "done")
    /\ UNCHANGED <<blueprint, job, cur, edits>>

Finish(r) ==
    /\ pc[r] = "next" /\ cur[r].node = NoNode
    /\ job[r].graph.valid /\ job[r].graph.nodes # <<>>
    /\ Save(r, WithRow(r, [Row(r) EXCEPT !.status = "completed",
                                         !.completed_at = TRUE,
                                         !.step = EndStep]), "done")
    /\ UNCHANGED <<blueprint, job, cur, edits>>

\* The engine process dies.
Crash ==
    /\ faults < MaxFaults
    /\ faults' = faults + 1
    /\ \E r \in Runs : pc[r] \in Live \cup {"aborted"}
    /\ pc' = [r \in Runs |->
                 IF pc[r] \in Live \cup {"aborted"} THEN "dead" ELSE pc[r]]
    /\ ctx' = [r \in Runs |-> EmptyContext]
    /\ UNCHANGED <<tables, blueprint, job, cur, edits>>

Advance(r) ==
    \/ SaveRejection(r) \/ SaveApproval(r)
    \/ SaveRunning(r) \/ SaveSchemaFailure(r) \/ SaveEmptyCompletion(r)
    \/ EnterNode(r)
    \/ RunTrigger(r) \/ RunCondition(r) \/ RunWebhook(r) \/ RunNotification(r)
    \/ ExecutorThrows(r)
    \/ CreateTask(r) \/ SettleGate(r) \/ Suspend(r)
    \/ Finish(r)

(***************************************************************************)
(* What the control plane writes to the shared tables while runs go on.    *)
(* The checks it makes first are made on an earlier reading of the row, so *)
(* here the writes are free; module ControlPlane models the requests.      *)
(***************************************************************************)
CreateInstance(i) ==
    /\ ~Exists(i)
    /\ inst' = [inst EXCEPT ![i] = [NoRow EXCEPT !.status = "pending"]]
    /\ UNCHANGED <<steps, tasks, blueprint, pc, job, ctx, cur, faults, edits>>

CancelWrite(i) ==
    /\ Exists(i)
    /\ inst' = [inst EXCEPT ![i].status = "cancelled",
                            ![i].completed_at = TRUE,
                            ![i].error = "cancelled"]
    /\ UNCHANGED <<steps, tasks, blueprint, pc, job, ctx, cur, faults, edits>>

DecideWrite(t, decision) ==
    /\ tasks[t] # "none"
    /\ tasks' = [tasks EXCEPT ![t] = decision]
    /\ UNCHANGED <<inst, steps, blueprint, pc, job, ctx, cur, faults, edits>>

EditDefinition(d, g) ==
    /\ edits < MaxEdits
    /\ edits' = edits + 1
    /\ blueprint' = [blueprint EXCEPT ![d] = g]
    /\ UNCHANGED <<tables, pc, job, ctx, cur, faults>>

Next ==
    \/ \E r \in Runs : Advance(r)
    \/ \E r \in Runs, i \in Instances : BeginExecute(r, i)
    \/ \E r, q \in Runs, i \in Instances : BeginExecuteAfter(r, i, q)
    \/ \E r, t \in Runs, d \in Decisions : BeginResume(r, t, d)
    \/ LoadFails \/ Crash
    \/ \E i \in Instances : CreateInstance(i) \/ CancelWrite(i)
    \/ \E t \in Runs, d \in Decisions : DecideWrite(t, d)
    \/ \E d \in Definitions, g \in Graphs : EditDefinition(d, g)

Spec == Init /\ [][Next]_vars

(***************************************************************************)
(* Properties.                                                             *)
(***************************************************************************)
\* A run is at a node of the graph it loaded, or at none.
OnGraph ==
    \A r \in Runs : cur[r].node \in Positions(job[r].graph) \cup {NoNode}

Input(r) == InputOf[job[r].inst]

\* A run has changed nothing of its input but what executors assign.
InputKept == \A r \in Runs : ~Idle(r) => Agrees(cur[r].payload, Input(r))

\* Every variable has its type; a step count stays within the bound.
TypeOK ==
    /\ inst \in [Instances -> Rows]
    /\ steps \in [Runs -> Logs]
    /\ tasks \in [Runs -> TaskStatuses]
    /\ blueprint \in [Definitions -> Graphs]
    /\ pc \in [Runs -> PCs]
    /\ job \in [Runs -> Jobs]
    /\ ctx \in [Runs -> Contexts]
    /\ cur \in [Runs -> [node : Nat, payload : Payloads]]
    /\ OnGraph /\ InputKept
    /\ faults \in 0..MaxFaults
    /\ edits \in 0..MaxEdits

RunsOf(i) == {r \in Runs : ~Idle(r) /\ job[r].inst = i}

LastStep(r) == steps[r][Len(steps[r])]

\* The step rows of a run are a walk of the graph it loaded: they begin at the
\* start node, each further node is the one that edges, list order or the rule
\* of a condition on the instance's input make the next, only the last row may
\* be unfinished or failed, and nothing follows an approval gate: a run never
\* gets past one.
LogIsWalk ==
    \A r \in Runs :
        LET log == steps[r]
            g == job[r].graph
        IN  /\ log # <<>> => log[1].node = StartNode(g)
            /\ \A k \in 1..Len(log) - 1 :
                  /\ log[k].status = "completed"
                  /\ ~IsGate(g, log[k].node)
                  /\ log[k + 1].node \in Followers(g, Input(r), log[k].node)

\* A run executes a node twice only if its graph has a cycle: on any other the
\* loop over the nodes, which nothing limits, comes to its end, and a run
\* repeats none of its side effects.
RepeatsNeedCycle ==
    \A r \in Runs : \A j, k \in DOMAIN steps[r] :
        j < k /\ steps[r][j].node = steps[r][k].node =>
            HasCycle(job[r].graph, Input(r))

\* The rows of run r are a whole walk of its graph.
Walked(r) ==
    LET g == job[r].graph
    IN  /\ g.valid
        /\ g.nodes # <<>> =>
              /\ steps[r] # <<>>
              /\ \A k \in DOMAIN steps[r] : steps[r][k].status = "completed"
              /\ ~IsGate(g, LastStep(r).node)
              /\ NoNode \in Followers(g, Input(r), LastStep(r).node)

\* An instance is marked completed only if one single run walked the whole
\* graph, whatever the other runs, failed saves and crashes did to its row.
CompletedWalked ==
    \A i \in Instances :
        inst[i].status = "completed" => \E r \in RunsOf(i) : Walked(r)

\* A failed instance has a reason on record: a failed step, a rejection, or
\* a graph that cannot be read.
FailedHasCause ==
    \A i \in Instances :
        inst[i].status = "failed" =>
            \E r \in RunsOf(i) :
                \/ steps[r] # <<>> /\ LastStep(r).status = "failed"
                \/ job[r].task # NoTask /\ job[r].decision = "rejected"
                \/ ~job[r].graph.valid

\* A run stands at a gate: its task is stored and its gate's step completed.
AtGate(r) ==
    /\ tasks[r] # "none"
    /\ steps[r] # <<>>
    /\ LastStep(r).status = "completed"
    /\ IsGate(job[r].graph, LastStep(r).node)

\* An instance waits for approval only where a run of it stands at a gate:
\* the task to decide was stored before the instance was suspended.
WaitingHasGate ==
    \A i \in Instances :
        inst[i].status = "waiting_approval" => \E r \in RunsOf(i) : AtGate(r)

\* Every task was asked for by a gate that its run reached and nothing after.
TaskHasGate ==
    \A r \in Runs :
        tasks[r] # "none" =>
            steps[r] # <<>> /\ IsGate(job[r].graph, LastStep(r).node)

\* A running instance has a run that is working on it, or that was lost on
\* it: a run that returns never leaves "running" behind, although any other
\* run may have rewritten the status since it began.
RunningIsOwned ==
    \A i \in Instances :
        inst[i].status = "running" =>
            \E r \in RunsOf(i) : pc[r] \in Live \cup Lost

\* No run is working on instance i and none was lost on it.
Quiet(i) == \A r \in RunsOf(i) : pc[r] = "done"

\* Run r went through a node that is labelled "End": its last save then does
\* not write the column, which it takes to hold "End" already.
PassedEnd(r) ==
    \E k \in DOMAIN steps[r] : Label(job[r].graph, steps[r][k].node) = EndStep

\* Once all runs of a completed instance have returned, its current step is
\* "End": no run overwrote it with an earlier step, unless a run found no
\* node, or one that is itself labelled "End".
CompletedShowsEnd ==
    \A i \in Instances :
        inst[i].status = "completed" /\ Quiet(i) =>
            \/ inst[i].step = EndStep
            \/ \E r \in RunsOf(i) : job[r].graph.nodes = <<>> \/ PassedEnd(r)

\* A step stays in progress only while its run executes it, or for good if
\* the run was lost there: a run that returns settles every step it began.
StepsSettled ==
    \A r \in Runs :
        steps[r] # <<>> /\ LastStep(r).status = "in_progress" =>
            pc[r] \in {"execute", "settle"} \cup Lost

\* A cancelled instance goes back to "running" only by the first save of a
\* call that loaded it: a run past that save never revives it by saving steps.
CancelHolds ==
    [][\A i \in Instances :
          inst[i].status = "cancelled" /\ inst'[i].status = "running" =>
              \E r \in Runs :
                  /\ pc[r] \in {"loaded", "decided"} /\ pc'[r] # pc[r]
                  /\ i \in {job[x].inst : x \in ctx[r].scope}]_vars

\* How a user sees where a run is.
PhaseOf(at) ==
    CASE at = "idle" -> "idle"
      [] at = "decided" -> "deciding"
      [] at = "loaded" -> "starting"
      [] at \in Live \ {"decided", "loaded"} -> "working"
      [] at \in Lost -> "lost"
      [] at = "done" -> "returned"

Lifecycle == INSTANCE InstanceLifecycle WITH
    Calls <- Runs,
    status <- [i \in Instances |-> inst[i].status],
    phase <- [r \in Runs |-> PhaseOf(pc[r])],
    on <- [r \in Runs |-> job[r].inst]

\* The runner keeps to the life of an instance that InstanceLifecycle allows:
\* an outcome is written by every call that returns from work, stale rows,
\* leftovers of lost calls and racing calls notwithstanding, and nothing
\* else of the engine ever changes a status.
ImplementsLifecycle == Lifecycle!LifecycleSpec

\* A decided approval task is never reopened, neither by a late save of the
\* run that asked for it nor by any later call.
DecisionStays ==
    [][\A t \in Runs : tasks[t] \in Decisions => tasks'[t] \in Decisions]_vars
=============================================================================
