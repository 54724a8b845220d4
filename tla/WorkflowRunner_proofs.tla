------------------------- MODULE WorkflowRunner_proofs -------------------------
(***************************************************************************)
(* Theorems about the runner, for any number of instances and runs, any    *)
(* graphs and any number of failed saves and crashes.                      *)
(***************************************************************************)
EXTENDS WorkflowRunner, FlowGraph_proofs

(***************************************************************************)
(* Contexts.                                                               *)
(***************************************************************************)
\* The row that is not there, and the rows the control plane writes.
LEMMA NoRowType == NoRow \in Rows
  BY DEF NoRow, Rows, Statuses, Causes, CurrentSteps

\* The rows that the control plane writes.
LEMMA WrittenRows ==
    ASSUME NEW row \in Rows
    PROVE  /\ [row EXCEPT !.status = "pending"] \in Rows
           /\ [row EXCEPT !.status = "cancelled", !.completed_at = TRUE,
                          !.error = "cancelled"] \in Rows
  BY DEF Rows, Statuses, Causes

\* A fresh context, and what loading and assigning make of one.
LEMMA EmptyContextType == EmptyContext \in Contexts
<1>1. NoRow \in Rows
  BY NoRowType
<1>2. <<>> \in Logs
  BY DEF Logs
<1>3. NothingToWrite \in [Runs -> TaskStatuses \cup {"same"}]
  BY DEF NothingToWrite
<1> QED
  BY <1>1, <1>2, <1>3 DEF EmptyContext, Contexts

\* Loading an instance, and assigning a row, a log or a task.
LEMMA LoadType ==
    ASSUME inst \in [Instances -> Rows],
           NEW c \in Contexts, NEW r \in Runs, NEW i \in Instances
    PROVE  Load(c, r, i) \in Contexts
<1>1. /\ [c.orig EXCEPT ![i] = inst[i]] \in [Instances -> Rows]
      /\ [c.row EXCEPT ![i] = inst[i]] \in [Instances -> Rows]
      /\ c.scope \cup {r} \in SUBSET Runs
  BY DEF Contexts
<1> QED
  BY <1>1 DEF Load, Contexts

\* Assigning a row.
LEMMA SetRowType ==
    ASSUME NEW c \in Contexts, NEW i \in Instances, NEW row \in Rows
    PROVE  SetRow(c, i, row) \in Contexts
  BY DEF SetRow, Contexts

\* Assigning the step rows of a run.
LEMMA SetLogType ==
    ASSUME NEW c \in Contexts, NEW r \in Runs, NEW log \in Logs
    PROVE  SetLog(c, r, log) \in Contexts
  BY DEF SetLog, Contexts

\* Assigning a task.
LEMMA SetTaskType ==
    ASSUME NEW c \in Contexts, NEW t \in Runs,
           NEW status \in TaskStatuses \cup {"same"}
    PROVE  SetTask(c, t, status) \in Contexts
  BY DEF SetTask, Contexts

\* What a save makes of a stored row is a row.
LEMMA MergeType ==
    ASSUME NEW stored \in Rows, NEW orig \in Rows, NEW row \in Rows
    PROVE  Merge(stored, orig, row) \in Rows
  BY DEF Merge, Changed, Rows

\* Marking the last step leaves a log of the same length.
LEMMA MarkLastType ==
    ASSUME NEW log \in Logs, NEW status \in {"completed", "failed"}
    PROVE  /\ MarkLast(log, status) \in Logs
           /\ Len(MarkLast(log, status)) = Len(log)
<1> DEFINE E == [node : Nat, status : {"in_progress", "completed", "failed"}]
           n == Len(log)
<1>1. log \in Seq(E) /\ n \in Nat /\ DOMAIN log = 1..n
  BY LenProperties DEF Logs
<1>2. CASE n = 0
  <2>1. MarkLast(log, status) = log
    BY <1>1, <1>2 DEF MarkLast
  <2> QED
    BY <2>1
<1>3. CASE n # 0
  <2>1. n \in 1..n
    BY <1>1, <1>3
  <2>2. log[n] \in E
    BY <1>1, <2>1, ElementOfSeq
  <2>3. [log[n] EXCEPT !.status = status] \in E
    BY <2>2
  <2>4. MarkLast(log, status) = [log EXCEPT ![n] = [log[n] EXCEPT !.status = status]]
    BY <1>1, <2>1 DEF MarkLast
  <2> HIDE DEF E, n
  <2>5. /\ [log EXCEPT ![n] = [log[n] EXCEPT !.status = status]] \in Seq(E)
        /\ Len([log EXCEPT ![n] = [log[n] EXCEPT !.status = status]]) = Len(log)
    BY <1>1, <2>1, <2>3, ExceptSeq DEF n
  <2> QED
    BY <2>4, <2>5 DEF Logs, E
<1> QED
  BY <1>2, <1>3

(***************************************************************************)
(* Types.                                                                  *)
(***************************************************************************)
\* What a save of a well-typed context does to the types.
LEMMA SaveType ==
    ASSUME TypeOK, NEW r \in Runs, NEW c \in Contexts, NEW next \in PCs,
           Save(r, c, next)
    PROVE  /\ inst' \in [Instances -> Rows]
           /\ steps' \in [Runs -> Logs]
           /\ tasks' \in [Runs -> TaskStatuses]
           /\ pc' \in [Runs -> PCs]
           /\ ctx' \in [Runs -> Contexts]
           /\ faults' \in 0..MaxFaults
<1>1. CASE Commit(r, c, next)
  <2>1. inst' \in [Instances -> Rows]
    <3>1. \A i \in Instances : Merge(inst[i], c.orig[i], c.row[i]) \in Rows
      BY MergeType DEF TypeOK, Contexts
    <3> QED
      BY <1>1, <3>1 DEF Commit
  <2>2. steps' \in [Runs -> Logs]
    <3>1. \A x \in Runs : c.steps[x] \in Logs /\ steps[x] \in Logs
      BY DEF TypeOK, Contexts
    <3> QED
      BY <1>1, <3>1 DEF Commit
  <2>3. tasks' \in [Runs -> TaskStatuses]
    <3>1. \A t \in Runs : c.tasks[t] \in TaskStatuses \cup {"same"}
                             /\ tasks[t] \in TaskStatuses
      BY DEF TypeOK, Contexts
    <3> QED
      BY <1>1, <3>1 DEF Commit
  <2>4. ctx' \in [Runs -> Contexts]
    <3>1. NothingToWrite \in [Runs -> TaskStatuses \cup {"same"}]
      BY DEF NothingToWrite
    <3>2. [c EXCEPT !.orig = c.row, !.tasks = NothingToWrite] \in Contexts
      BY <3>1 DEF Contexts
    <3> QED
      BY <1>1, <3>2, EmptyContextType DEF Commit, TypeOK
  <2> QED
    BY <1>1, <2>1, <2>2, <2>3, <2>4 DEF Commit, TypeOK
<1>2. CASE Refuse(r, c)
  <2>1. "aborted" \in PCs
    BY DEF PCs, Lost
  <2>2. faults' \in 0..MaxFaults
    BY <1>2, RunnerAssumption DEF Refuse, TypeOK
  <2> QED
    BY <1>2, <2>1, <2>2 DEF Refuse, TypeOK, tables
<1> QED
  BY <1>1, <1>2 DEF Save

\* The parts of what is known of one run.
LEMMA RunTypes ==
    ASSUME TypeOK, NEW r \in Runs
    PROVE  /\ ctx[r] \in Contexts /\ job[r] \in Jobs /\ pc[r] \in PCs
           /\ job[r].inst \in Instances /\ job[r].graph \in GraphType
           /\ cur[r].node \in Nat /\ cur[r].payload \in Payloads
           /\ Row(r) \in Rows /\ Log(r) \in Logs
  BY DEF TypeOK, Jobs, Row, Log, Contexts

\* Assigning the row of the instance a run works on.
LEMMA WithRowType ==
    ASSUME TypeOK, NEW r \in Runs, NEW row \in Rows
    PROVE  WithRow(r, row) \in Contexts
  BY RunTypes, SetRowType DEF WithRow

\* The rows that the runner's assignments make of a row.
LEMMA AssignedRows ==
    ASSUME NEW row \in Rows
    PROVE  /\ [row EXCEPT !.status = "running"] \in Rows
           /\ [row EXCEPT !.status = "waiting_approval"] \in Rows
           /\ \A cause \in Causes :
                 [row EXCEPT !.status = "failed", !.error = cause,
                             !.completed_at = TRUE] \in Rows
           /\ [row EXCEPT !.status = "completed", !.completed_at = TRUE] \in Rows
           /\ [row EXCEPT !.status = "completed", !.completed_at = TRUE,
                          !.step = EndStep] \in Rows
  BY DEF Rows, Statuses, CurrentSteps

\* ... among them that of the current step.
LEMMA LabelledRow ==
    ASSUME NEW row \in Rows, NEW label \in STRING
    PROVE  [row EXCEPT !.step = label] \in Rows
  BY DEF Rows, CurrentSteps

\* The locals a step leaves behind.
LEMMA CurType ==
    ASSUME TypeOK, NEW r \in Runs, NEW goto, NEW payload \in Payloads
    PROVE  /\ [cur EXCEPT ![r].node = StartNode(job[r].graph)]
                 \in [Runs -> [node : Nat, payload : Payloads]]
           /\ [cur EXCEPT ![r] =
                  [node |-> NextNode(job[r].graph, cur[r].node, goto),
                   payload |-> payload]]
                 \in [Runs -> [node : Nat, payload : Payloads]]
           /\ StartNode(job[r].graph) \in Positions(job[r].graph) \cup {NoNode}
           /\ NextNode(job[r].graph, cur[r].node, goto)
                 \in Positions(job[r].graph) \cup {NoNode}
<1>1. Positions(job[r].graph) \cup {NoNode} \subseteq Nat
  BY RunTypes, PositionsAreNat DEF NoNode
<1>2. StartNode(job[r].graph) \in Nat
  BY <1>1, RunTypes, StartNodeIsANode
<1>3. NextNode(job[r].graph, cur[r].node, goto) \in Nat
  BY <1>1, RunTypes, NextNodeIsANode
<1> QED
  BY <1>2, <1>3, RunTypes, StartNodeIsANode, NextNodeIsANode DEF TypeOK

\* What a run writes into current_step when it enters a node is text.
LEMMA EnteredLabel ==
    ASSUME TypeOK, NEW r \in Runs, cur[r].node # NoNode
    PROVE  Label(job[r].graph, cur[r].node) \in STRING
<1>1. job[r].graph \in GraphType /\ cur[r].node \in Positions(job[r].graph)
  BY RunTypes DEF TypeOK, OnGraph
<1> QED
  BY <1>1, LabelIsText

\* What the beginning of any call leaves behind.
LEMMA StartType ==
    ASSUME TypeOK, NEW r \in Runs, NEW i \in Instances,
           NEW task \in Runs \cup {NoTask}, NEW decision \in Decisions,
           Start(r, i, task, decision),
           \A x \in Runs : x # r /\ Idle(x) => Idle(x)'
    PROVE  /\ job' \in [Runs -> Jobs]
           /\ cur' \in [Runs -> [node : Nat, payload : Payloads]]
           /\ OnGraph'
           /\ InputKept'
           /\ UNCHANGED <<inst, steps, tasks, blueprint, faults, edits>>
<1>1. GraphFor(i) \in GraphType
  BY RunnerAssumption DEF GraphFor, TypeOK
<1>2. job' \in [Runs -> Jobs]
  BY <1>1 DEF Start, TypeOK, Jobs
<1>3. InputOf[i] \in Payloads
  BY RunnerAssumption
<1>4. cur' \in [Runs -> [node : Nat, payload : Payloads]]
  BY <1>3 DEF Start, TypeOK, NoNode
<1>5. OnGraph'
  BY DEF Start, TypeOK, OnGraph
<1>6. InputKept'
  <2>1. /\ job'[r].inst = i /\ cur'[r].payload = InputOf[i]
        /\ \A x \in Runs : x # r => job'[x] = job[x] /\ cur'[x] = cur[x]
    BY DEF Start, TypeOK
  <2> QED
    BY <2>1 DEF TypeOK, InputKept, Input, Agrees
<1> QED
  BY <1>2, <1>4, <1>5, <1>6 DEF Start, tables

\* What every step of a run that saves leaves as it is.
LEMMA SavedType ==
    ASSUME TypeOK, NEW r \in Runs, NEW c \in Contexts, NEW next \in PCs,
           Save(r, c, next), UNCHANGED <<blueprint, job, edits>>,
           cur' \in [Runs -> [node : Nat, payload : Payloads]], OnGraph',
           \A x \in Runs : Agrees(cur'[x].payload, cur[x].payload),
           pc[r] \in Live
    PROVE  TypeOK'
<1>1. InputKept'
  <2>1. \A x \in Runs : ~Idle(x)' => ~Idle(x)
    BY DEF Save, Commit, Refuse, Idle, TypeOK, Live
  <2> QED
    BY <2>1 DEF TypeOK, InputKept, Input, Agrees
<1> QED
  BY <1>1, SaveType DEF TypeOK

\* The same for a save that leaves the run where it is.
LEMMA SavedInPlace ==
    ASSUME TypeOK, NEW r \in Runs, NEW c \in Contexts, NEW next \in PCs,
           Save(r, c, next), UNCHANGED <<blueprint, job, cur, edits>>,
           pc[r] \in Live
    PROVE  TypeOK'
<1>1. OnGraph' /\ \A x \in Runs : Agrees(cur'[x].payload, cur[x].payload)
  BY DEF TypeOK, OnGraph, Agrees
<1> QED
  BY <1>1, SavedType DEF TypeOK

\* The end of a step that succeeds ...
LEMMA StepSucceedsType ==
    ASSUME TypeOK, NEW r \in Runs, NEW goto, NEW payload \in Payloads,
           Agrees(payload, cur[r].payload), pc[r] = "execute",
           StepSucceeds(r, goto, payload)
    PROVE  TypeOK'
<1>1. SetLog(ctx[r], r, MarkLast(Log(r), "completed")) \in Contexts
  BY RunTypes, MarkLastType, SetLogType
<1>2. "next" \in PCs /\ pc[r] \in Live
  BY DEF PCs, Live
<1>3. cur' \in [Runs -> [node : Nat, payload : Payloads]] /\ OnGraph'
  BY CurType DEF StepSucceeds, TypeOK, OnGraph
<1>4. \A x \in Runs : Agrees(cur'[x].payload, cur[x].payload)
  BY DEF StepSucceeds, TypeOK, Agrees
<1> QED
  BY <1>1, <1>2, <1>3, <1>4, SavedType DEF StepSucceeds

\* ... and of one that fails.
LEMMA StepFailsType ==
    ASSUME TypeOK, NEW r \in Runs, StepFails(r), pc[r] = "execute"
    PROVE  TypeOK'
<1> DEFINE row == [Row(r) EXCEPT !.status = "failed", !.error = "step",
                                 !.completed_at = TRUE]
           c == SetLog(WithRow(r, row), r, MarkLast(Log(r), "failed"))
<1>1. row \in Rows
  <2>1. "step" \in Causes
    BY DEF Causes
  <2> QED
    BY <2>1, RunTypes, AssignedRows
<1>2. c \in Contexts
  <2> HIDE DEF row
  <2> QED
    BY <1>1, RunTypes, WithRowType, MarkLastType, SetLogType
<1>3. "done" \in PCs /\ pc[r] \in Live
  BY DEF PCs, Live
<1>4. Save(r, c, "done") /\ UNCHANGED <<blueprint, job, cur, edits>>
  BY DEF StepFails
<1> HIDE DEF c
<1> QED
  BY <1>2, <1>3, <1>4, SavedInPlace

\* Every step of a run keeps the types.
LEMMA AdvanceType ==
    ASSUME TypeOK, NEW r \in Runs, Advance(r)
    PROVE  TypeOK'
<1> USE DEF PCs, Live, Lost
<1>1. CASE SaveRejection(r)
  <2>1. WithRow(r, [Row(r) EXCEPT !.status = "failed", !.error = "rejected",
                                  !.completed_at = TRUE]) \in Contexts
    BY RunTypes, AssignedRows, WithRowType DEF Causes
  <2> QED
    BY <1>1, <2>1, SavedInPlace DEF SaveRejection
<1>2. CASE SaveApproval(r)
  <2>1. WithRow(r, [Row(r) EXCEPT !.status = "running"]) \in Contexts
    BY RunTypes, AssignedRows, WithRowType
  <2> QED
    BY <1>2, <2>1, SavedInPlace DEF SaveApproval
<1>3. CASE SaveRunning(r)
  <2>1. WithRow(r, [Row(r) EXCEPT !.status = "running"]) \in Contexts
    BY RunTypes, AssignedRows, WithRowType
  <2>2. cur' \in [Runs -> [node : Nat, payload : Payloads]] /\ OnGraph'
    BY <1>3, CurType, RunTypes DEF SaveRunning, TypeOK, OnGraph
  <2>3. \A x \in Runs : Agrees(cur'[x].payload, cur[x].payload)
    BY <1>3 DEF SaveRunning, TypeOK, Agrees
  <2> QED
    BY <1>3, <2>1, <2>2, <2>3, SavedType DEF SaveRunning
<1>4. CASE SaveSchemaFailure(r)
  <2>1. WithRow(r, [Row(r) EXCEPT !.status = "failed", !.error = "schema",
                                  !.completed_at = TRUE]) \in Contexts
    BY RunTypes, AssignedRows, WithRowType DEF Causes
  <2> QED
    BY <1>4, <2>1, SavedInPlace DEF SaveSchemaFailure
<1>5. CASE SaveEmptyCompletion(r)
  <2>1. WithRow(r, [Row(r) EXCEPT !.status = "completed",
                                  !.completed_at = TRUE]) \in Contexts
    BY RunTypes, AssignedRows, WithRowType
  <2> QED
    BY <1>5, <2>1, SavedInPlace DEF SaveEmptyCompletion
<1>6. CASE EnterNode(r)
  <2> DEFINE label == Label(job[r].graph, cur[r].node)
             c == WithRow(r, [Row(r) EXCEPT !.step = label])
             log == Append(Log(r), Step(cur[r].node, "in_progress"))
  <2>0. label \in STRING
    BY <1>6, EnteredLabel DEF EnterNode
  <2>1. c \in Contexts
    <3> HIDE DEF label
    <3> QED
      BY <2>0, RunTypes, LabelledRow, WithRowType
  <2>2. log \in Logs
    BY RunTypes DEF Logs, Step
  <2>3. SetLog(c, r, log) \in Contexts
    <3> HIDE DEF c, log
    <3> QED
      BY <2>1, <2>2, SetLogType
  <2>4. Save(r, SetLog(c, r, log), "execute")
    BY <1>6 DEF EnterNode
  <2> HIDE DEF c, log
  <2> QED
    BY <1>6, <2>3, <2>4, SavedInPlace DEF EnterNode
<1>7. CASE RunTrigger(r)
  BY <1>7, RunTypes, StepSucceedsType DEF RunTrigger, Executing, Agrees
<1>8. CASE RunCondition(r)
  <2>1. FieldValue(Config(r), cur[r].payload) \in Int
    BY RunTypes DEF FieldValue, Payloads
  <2>2. [cur[r].payload EXCEPT !["actual_value"] =
            FieldValue(Config(r), cur[r].payload)] \in Payloads
    BY <2>1, RunTypes DEF Payloads
  <2>3. /\ Agrees(cur[r].payload, cur[r].payload)
        /\ Agrees([cur[r].payload EXCEPT !["actual_value"] =
                      FieldValue(Config(r), cur[r].payload)], cur[r].payload)
    BY RunTypes DEF Agrees, Outputs, Payloads
  <2> QED
    BY <1>8, <2>2, <2>3, RunTypes, StepSucceedsType, StepFailsType
    DEF RunCondition, Executing
<1>9. CASE RunWebhook(r)
  <2>1. [cur[r].payload EXCEPT !["http_status"] = 200] \in Payloads
    <3>1. cur[r].payload \in Payloads /\ 200 \in Int
      BY RunTypes
    <3> QED
      BY <3>1 DEF Payloads
  <2>2. Agrees([cur[r].payload EXCEPT !["http_status"] = 200], cur[r].payload)
    BY RunTypes DEF Agrees, Outputs, Payloads
  <2> QED
    BY <1>9, <2>1, <2>2, StepSucceedsType, StepFailsType
    DEF RunWebhook, Executing
<1>10. CASE RunNotification(r)
  BY <1>10, RunTypes, StepSucceedsType DEF RunNotification, Executing, Agrees
<1>11. CASE ExecutorThrows(r)
  BY <1>11 DEF ExecutorThrows, Executing, TypeOK, OnGraph, InputKept, Input, Idle, tables
<1>12. CASE CreateTask(r)
  <2>1. SetTask(ctx[r], r, "pending") \in Contexts
    BY RunTypes, SetTaskType DEF TaskStatuses
  <2> QED
    BY <1>12, <2>1, SavedInPlace DEF CreateTask, Executing
<1>13. CASE SettleGate(r)
  <2>1. SetLog(ctx[r], r, MarkLast(Log(r), "completed")) \in Contexts
    BY RunTypes, MarkLastType, SetLogType
  <2> QED
    BY <1>13, <2>1, SavedInPlace DEF SettleGate
<1>14. CASE Suspend(r)
  <2>1. WithRow(r, [Row(r) EXCEPT !.status = "waiting_approval"]) \in Contexts
    BY RunTypes, AssignedRows, WithRowType
  <2> QED
    BY <1>14, <2>1, SavedInPlace DEF Suspend
<1>15. CASE Finish(r)
  <2>1. WithRow(r, [Row(r) EXCEPT !.status = "completed",
                                  !.completed_at = TRUE,
                                  !.step = EndStep]) \in Contexts
    BY RunTypes, AssignedRows, WithRowType
  <2> QED
    BY <1>15, <2>1, SavedInPlace DEF Finish
<1> QED
  BY <1>1, <1>2, <1>3, <1>4, <1>5, <1>6, <1>7, <1>8, <1>9, <1>10, <1>11,
     <1>12, <1>13, <1>14, <1>15 DEF Advance

\* Every step of the specification keeps the types.
LEMMA NextType == TypeOK /\ [Next]_vars => TypeOK'
<1> SUFFICES ASSUME TypeOK, [Next]_vars PROVE TypeOK'
  OBVIOUS
<1> USE DEF PCs, Live, Lost
<1>1. ASSUME NEW r \in Runs, Advance(r) PROVE TypeOK'
  BY <1>1, AdvanceType
<1>2. ASSUME NEW r \in Runs, NEW i \in Instances, BeginExecute(r, i)
      PROVE  TypeOK'
  <2>1. Load(EmptyContext, r, i) \in Contexts
    BY EmptyContextType, LoadType DEF TypeOK
  <2>2. Start(r, i, NoTask, "approved")
    BY <1>2 DEF BeginExecute
  <2> QED
    BY <1>2, <2>1, <2>2, StartType
    DEF BeginExecute, TypeOK, Decisions, Idle
<1>3. ASSUME NEW r \in Runs, NEW q \in Runs, NEW i \in Instances,
             BeginExecuteAfter(r, i, q)
      PROVE  TypeOK'
  <2>1. Load(ctx[q], r, i) \in Contexts
    BY RunTypes, LoadType DEF TypeOK
  <2>2. Start(r, i, NoTask, "approved")
    BY <1>3 DEF BeginExecuteAfter
  <2>3. ctx' \in [Runs -> Contexts] /\ pc' \in [Runs -> PCs]
    BY <1>3, <2>1, EmptyContextType DEF BeginExecuteAfter, TypeOK
  <2> QED
    BY <1>3, <2>2, <2>3, StartType
    DEF BeginExecuteAfter, TypeOK, Decisions, Idle
<1>4. ASSUME NEW r \in Runs, NEW t \in Runs, NEW d \in Decisions,
             BeginResume(r, t, d)
      PROVE  TypeOK'
  <2> DEFINE i == job[t].inst
             verdict == IF tasks[t] = d THEN "same" ELSE d
  <2>1. i \in Instances
    BY RunTypes
  <2>2. verdict \in TaskStatuses \cup {"same"}
    BY DEF TaskStatuses, Decisions
  <2>3. Load(EmptyContext, r, i) \in Contexts
    BY <2>1, EmptyContextType, LoadType DEF TypeOK
  <2>4. SetTask(Load(EmptyContext, r, i), t, verdict) \in Contexts
    <3> HIDE DEF verdict, i
    <3> QED
      BY <2>2, <2>3, SetTaskType
  <2>5. /\ Start(r, i, t, d)
        /\ ctx' = [ctx EXCEPT ![r] = SetTask(Load(EmptyContext, r, i), t, verdict)]
        /\ pc' = [pc EXCEPT ![r] = "decided"]
    BY <1>4 DEF BeginResume
  <2> HIDE DEF verdict, i
  <2> QED
    BY <2>1, <2>4, <2>5, StartType DEF TypeOK, Idle
<1>5. CASE LoadFails
  BY <1>5, RunnerAssumption DEF LoadFails, TypeOK, OnGraph, InputKept, Input, Idle, tables
<1>6. CASE Crash
  BY <1>6, EmptyContextType, RunnerAssumption DEF Crash, TypeOK, OnGraph, InputKept, Input, Idle, tables
<1>7. ASSUME NEW i \in Instances, CreateInstance(i) PROVE TypeOK'
  <2>1. [NoRow EXCEPT !.status = "pending"] \in Rows
    BY NoRowType, WrittenRows
  <2> QED
    BY <1>7, <2>1 DEF CreateInstance, TypeOK, OnGraph, InputKept, Input, Idle
<1>8. ASSUME NEW i \in Instances, CancelWrite(i) PROVE TypeOK'
  <2> DEFINE row == [inst[i] EXCEPT !.status = "cancelled",
                                    !.completed_at = TRUE,
                                    !.error = "cancelled"]
  <2>1. inst' \in [Instances -> Rows]
    <3>1. row \in Rows
      BY WrittenRows DEF TypeOK
    <3>2. inst' = [inst EXCEPT ![i] = row]
      BY <1>8 DEF CancelWrite, TypeOK
    <3> HIDE DEF row
    <3> QED
      BY <3>1, <3>2 DEF TypeOK
  <2> QED
    BY <1>8, <2>1 DEF CancelWrite, TypeOK, OnGraph, InputKept, Input, Idle
<1>9. ASSUME NEW t \in Runs, NEW d \in Decisions, DecideWrite(t, d)
      PROVE  TypeOK'
  BY <1>9 DEF DecideWrite, TypeOK, OnGraph, InputKept, Input, Idle, TaskStatuses, Decisions
<1>10. ASSUME NEW d \in Definitions, NEW g \in Graphs, EditDefinition(d, g)
       PROVE  TypeOK'
  BY <1>10, RunnerAssumption DEF EditDefinition, TypeOK, OnGraph, InputKept, Input, Idle, tables
<1>11. CASE UNCHANGED vars
  BY <1>11 DEF vars, TypeOK, OnGraph, InputKept, Input, Idle
<1> QED
  BY <1>1, <1>2, <1>3, <1>4, <1>5, <1>6, <1>7, <1>8, <1>9, <1>10, <1>11
  DEF Next

\* Every variable keeps its type, whatever the runs, their callers and the
\* control plane do and wherever saves fail.
THEOREM TypeCorrect == Spec => []TypeOK
<1>1. Init => TypeOK
  <2> SUFFICES ASSUME Init PROVE TypeOK
    OBVIOUS
  <2>1. inst \in [Instances -> Rows]
    BY NoRowType DEF Init
  <2>2. steps \in [Runs -> Logs]
    BY DEF Init, Logs
  <2>3. job \in [Runs -> Jobs]
    <3>1. EmptyGraph \in GraphType
      BY DEF EmptyGraph, Graph, GraphType
    <3> QED
      BY <3>1 DEF Init, Jobs, Decisions
  <2>4. ctx \in [Runs -> Contexts]
    BY EmptyContextType DEF Init
  <2>5. cur \in [Runs -> [node : Nat, payload : Payloads]]
    BY DEF Init, NoNode, Payloads
  <2> QED
    BY <2>1, <2>2, <2>3, <2>4, <2>5, RunnerAssumption
    DEF Init, TypeOK, OnGraph, InputKept, Input, Idle, TaskStatuses, PCs
<1> QED
  BY <1>1, NextType, PTL DEF Spec
=============================================================================
