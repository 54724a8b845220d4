--------------------------- MODULE RunnerStatus_proofs ---------------------------
(***************************************************************************)
(* Who may leave an instance "running" and who may write an approval task: *)
(* the invariants behind RunningIsOwned, CancelHolds and DecisionStays,    *)
(* and their proofs.                                                       *)
(***************************************************************************)
EXTENDS WorkflowRunner_proofs

\* Run r has saved "running" and has not returned.
Working(r) ==
    \/ pc[r] \in {"next", "execute", "settle", "suspend"}
    \/ pc[r] = "loaded" /\ job[r].task # NoTask

Owns(r, i) == job[r].inst = i /\ (Working(r) \/ pc[r] \in Lost)

\* RunningIsOwned, without the runs that have loaded but not saved yet.
Owned ==
    \A i \in Instances :
        inst[i].status = "running" => \E r \in Runs : Owns(r, i)

\* A context tracks the rows of its own run and of lost runs of the batch.
ScopeInv ==
    \A r \in Runs :
        /\ pc[r] \in Live => r \in ctx[r].scope
        /\ \A x \in ctx[r].scope : (x = r /\ ~Idle(x)) \/ pc[x] = "dead"

\* A row is "running" in memory only where the context tracks it.
TrackedInv ==
    \A r \in Runs, i \in Instances :
        ctx[r].row[i].status = "running" =>
            \E x \in ctx[r].scope : job[x].inst = i

\* A run past its first save has nothing left to save, and its instance is
\* "running" in memory, whatever the table says.
SavedInv ==
    \A r \in Runs :
        Working(r) => ctx[r].orig = ctx[r].row /\ Row(r).status = "running"

DecidedInv == \A r \in Runs : pc[r] = "decided" => job[r].task # NoTask

StatusInv == Owned /\ ScopeInv /\ TrackedInv /\ SavedInv /\ DecidedInv

(***************************************************************************)
(* Every step of a run but a thrown exception is one save.                 *)
(***************************************************************************)
\* The statuses a run may leave behind when it returns.
Endings == {"completed", "failed", "waiting_approval"}

\* What all saves have in common: the run touches its own instance's row and
\* its own task; it returns leaving one of the endings, or goes on with
\* "running".
Saves(r, c, next) ==
    /\ Save(r, c, next)
    /\ job' = job
    /\ pc[r] \in Live /\ next # pc[r]
    /\ c.scope = ctx[r].scope /\ c.orig = ctx[r].orig
    /\ \A i \in Instances : i # job[r].inst => c.row[i] = ctx[r].row[i]
    /\ \/ /\ next = "done" /\ (Working(r) \/ pc[r] = "decided")
          /\ c.row[job[r].inst].status \in Endings
          /\ pc[r] = "decided" => c.row[job[r].inst].status = "failed"
       \/ /\ \/ next \in {"next", "execute", "settle", "suspend"}
             \/ next = "loaded" /\ job[r].task # NoTask
          /\ next \notin {"decided", "done"}
          /\ c.row[job[r].inst].status = "running"
    /\ \/ c.tasks = ctx[r].tasks
       \/ /\ pc[r] = "execute" /\ next = "settle"
          /\ c.tasks = [ctx[r].tasks EXCEPT ![r] = "pending"]
    /\ pc[r] \in {"settle", "suspend"} => next \notin {"next", "execute", "loaded"}
    /\ pc[r] = "decided" => next \in {"loaded", "done"}
    /\ pc[r] = "loaded" => next = "next"
    /\ next = "loaded" => pc[r] = "decided"

\* What assigning the row of a run's instance changes of its context.
LEMMA WithRowFields ==
    ASSUME TypeOK, NEW r \in Runs, NEW row \in Rows
    PROVE  /\ WithRow(r, row).row[job[r].inst] = row
           /\ \A i \in Instances :
                 i # job[r].inst => WithRow(r, row).row[i] = ctx[r].row[i]
           /\ WithRow(r, row).orig = ctx[r].orig
           /\ WithRow(r, row).scope = ctx[r].scope
           /\ WithRow(r, row).tasks = ctx[r].tasks
<1>1. ctx[r] \in Contexts /\ job[r].inst \in Instances
  BY RunTypes
<1> QED
  BY <1>1 DEF WithRow, SetRow, Contexts

\* What recording a step changes of a context.
LEMMA SetLogFields ==
    ASSUME NEW c \in Contexts, NEW r \in Runs, NEW log
    PROVE  /\ SetLog(c, r, log).row = c.row /\ SetLog(c, r, log).orig = c.orig
           /\ SetLog(c, r, log).scope = c.scope
           /\ SetLog(c, r, log).tasks = c.tasks
  BY DEF SetLog, Contexts

\* The statuses the runner's assignments leave.
LEMMA AssignedStatus ==
    ASSUME NEW row \in Rows, NEW cause
    PROVE  /\ [row EXCEPT !.status = "failed", !.error = cause,
                          !.completed_at = TRUE].status = "failed"
           /\ [row EXCEPT !.status = "completed",
                          !.completed_at = TRUE].status = "completed"
           /\ [row EXCEPT !.status = "completed", !.completed_at = TRUE,
                          !.step = EndStep].status = "completed"
           /\ [row EXCEPT !.status = "waiting_approval"].status
                 = "waiting_approval"
           /\ [row EXCEPT !.status = "running"].status = "running"
  BY DEF Rows

\* A run that ends its call saves a row with one of the endings.
LEMMA EndingSaves ==
    ASSUME TypeOK, NEW r \in Runs, NEW row \in Rows, row.status \in Endings,
           pc[r] \in {"decided", "next", "execute", "suspend"},
           pc[r] = "decided" => row.status = "failed",
           UNCHANGED job, Save(r, WithRow(r, row), "done")
    PROVE  Saves(r, WithRow(r, row), "done")
  BY WithRowFields DEF Saves, Live, Working

\* The same, for a run that ends at a failed step.
LEMMA EndingLoggingSaves ==
    ASSUME TypeOK, NEW r \in Runs, NEW row \in Rows, row.status \in Endings,
           pc[r] = "execute", NEW log, UNCHANGED job,
           Save(r, SetLog(WithRow(r, row), r, log), "done")
    PROVE  Saves(r, SetLog(WithRow(r, row), r, log), "done")
<1> DEFINE c == SetLog(WithRow(r, row), r, log)
<1>1. WithRow(r, row) \in Contexts
  BY WithRowType
<1>2. /\ c.row = WithRow(r, row).row /\ c.orig = WithRow(r, row).orig
      /\ c.scope = WithRow(r, row).scope /\ c.tasks = WithRow(r, row).tasks
  BY <1>1, SetLogFields
<1> HIDE DEF c
<1>3. Saves(r, c, "done")
  <2>1. Save(r, c, "done")
    BY DEF c
  <2> QED
    BY <1>2, <2>1, WithRowFields DEF Saves, Live, Working
<1> QED
  BY <1>3 DEF c

\* A run that records a step, or nothing, saves its row as it was.
LEMMA LoggingSaves ==
    ASSUME TypeOK, SavedInv, NEW r \in Runs, NEW log,
           NEW next \in {"next", "suspend"},
           \/ pc[r] = "execute" /\ next = "next"
           \/ pc[r] = "settle" /\ next = "suspend",
           UNCHANGED job, Save(r, SetLog(ctx[r], r, log), next)
    PROVE  Saves(r, SetLog(ctx[r], r, log), next)
<1>1. Working(r)
  BY DEF Working
<1>2. ctx[r].row[job[r].inst].status = "running"
  BY <1>1 DEF SavedInv, Row
<1>3. ctx[r] \in Contexts
  BY RunTypes
<1> QED
  BY <1>2, <1>3, SetLogFields DEF Saves, Live

\* Every step of a run is such a save, or an exception out of an executor.
LEMMA AdvanceSaves ==
    ASSUME TypeOK, SavedInv, DecidedInv, NEW r \in Runs, Advance(r)
    PROVE  \/ ExecutorThrows(r)
           \/ \E c \in Contexts, next \in PCs : Saves(r, c, next)
<1> DEFINE Goal == \E c \in Contexts, next \in PCs : Saves(r, c, next)
<1> USE DEF PCs, Live, Lost
<1>a. Row(r) \in Rows /\ Log(r) \in Logs /\ ctx[r] \in Contexts
  BY RunTypes
<1>1. ASSUME SaveRejection(r) PROVE Goal
  <2> DEFINE row == [Row(r) EXCEPT !.status = "failed", !.error = "rejected",
                                   !.completed_at = TRUE]
  <2>1. row \in Rows /\ row.status = "failed"
    BY <1>a, AssignedRows, AssignedStatus DEF Causes
  <2>2. /\ pc[r] = "decided" /\ UNCHANGED job
        /\ Save(r, WithRow(r, row), "done")
    BY <1>1 DEF SaveRejection
  <2> HIDE DEF row
  <2>3. Saves(r, WithRow(r, row), "done")
    BY <2>1, <2>2, EndingSaves DEF Endings
  <2> QED
    BY <2>1, <2>3, WithRowType
<1>2. ASSUME SaveApproval(r) PROVE Goal
  <2> DEFINE row == [Row(r) EXCEPT !.status = "running"]
  <2>1. row \in Rows /\ row.status = "running"
    BY <1>a, AssignedRows, AssignedStatus
  <2>2. /\ pc[r] = "decided" /\ UNCHANGED job
        /\ Save(r, WithRow(r, row), "loaded")
    BY <1>2 DEF SaveApproval
  <2> HIDE DEF row
  <2>3. Saves(r, WithRow(r, row), "loaded")
    BY <2>1, <2>2, WithRowFields DEF Saves, DecidedInv
  <2> QED
    BY <2>1, <2>3, WithRowType
<1>3. ASSUME SaveRunning(r) PROVE Goal
  <2> DEFINE row == [Row(r) EXCEPT !.status = "running"]
  <2>1. row \in Rows /\ row.status = "running"
    BY <1>a, AssignedRows, AssignedStatus
  <2>2. /\ pc[r] = "loaded" /\ UNCHANGED job
        /\ Save(r, WithRow(r, row), "next")
    BY <1>3 DEF SaveRunning
  <2> HIDE DEF row
  <2>3. Saves(r, WithRow(r, row), "next")
    BY <2>1, <2>2, WithRowFields DEF Saves
  <2> QED
    BY <2>1, <2>3, WithRowType
<1>4. ASSUME SaveSchemaFailure(r) PROVE Goal
  <2> DEFINE row == [Row(r) EXCEPT !.status = "failed", !.error = "schema",
                                   !.completed_at = TRUE]
  <2>1. row \in Rows /\ row.status = "failed"
    BY <1>a, AssignedRows, AssignedStatus DEF Causes
  <2>2. /\ pc[r] = "next" /\ UNCHANGED job
        /\ Save(r, WithRow(r, row), "done")
    BY <1>4 DEF SaveSchemaFailure
  <2> HIDE DEF row
  <2>3. Saves(r, WithRow(r, row), "done")
    BY <2>1, <2>2, EndingSaves DEF Endings
  <2> QED
    BY <2>1, <2>3, WithRowType
<1>5. ASSUME SaveEmptyCompletion(r) PROVE Goal
  <2> DEFINE row == [Row(r) EXCEPT !.status = "completed",
                                   !.completed_at = TRUE]
  <2>1. row \in Rows /\ row.status = "completed"
    BY <1>a, AssignedRows, AssignedStatus
  <2>2. /\ pc[r] = "next" /\ UNCHANGED job
        /\ Save(r, WithRow(r, row), "done")
    BY <1>5 DEF SaveEmptyCompletion
  <2> HIDE DEF row
  <2>3. Saves(r, WithRow(r, row), "done")
    BY <2>1, <2>2, EndingSaves DEF Endings
  <2> QED
    BY <2>1, <2>3, WithRowType
<1>6. ASSUME EnterNode(r) PROVE Goal
  <2> DEFINE label == Label(job[r].graph, cur[r].node)
             row == [Row(r) EXCEPT !.step = label]
             log == Append(Log(r), Step(cur[r].node, "in_progress"))
             c == SetLog(WithRow(r, row), r, log)
  <2>1. pc[r] = "next" /\ UNCHANGED job /\ Save(r, c, "execute")
    BY <1>6 DEF EnterNode
  <2>a. label \in STRING
    BY <1>6, EnteredLabel DEF EnterNode
  <2> HIDE DEF label
  <2>2. row \in Rows
    BY <1>a, <2>a, LabelledRow
  <2>3. row.status = "running"
    BY <1>a, <2>1 DEF SavedInv, Working, Rows
  <2>4. log \in Logs
    BY <1>a, RunTypes DEF Logs, Step
  <2> HIDE DEF row, log
  <2>5. WithRow(r, row) \in Contexts
    BY <2>2, WithRowType
  <2>6. c \in Contexts
    BY <2>4, <2>5, SetLogType
  <2>7. /\ c.row = WithRow(r, row).row /\ c.orig = WithRow(r, row).orig
        /\ c.scope = WithRow(r, row).scope /\ c.tasks = WithRow(r, row).tasks
    BY <2>5, SetLogFields
  <2> HIDE DEF c
  <2>8. Saves(r, c, "execute")
    BY <2>1, <2>2, <2>3, <2>7, WithRowFields DEF Saves
  <2> QED
    BY <2>6, <2>8
<1>7. ASSUME NEW goto, NEW payload, pc[r] = "execute",
             StepSucceeds(r, goto, payload)
      PROVE  Goal
  <2>1. Saves(r, SetLog(ctx[r], r, MarkLast(Log(r), "completed")), "next")
    BY <1>7, LoggingSaves DEF StepSucceeds
  <2>2. SetLog(ctx[r], r, MarkLast(Log(r), "completed")) \in Contexts
    BY <1>a, MarkLastType, SetLogType
  <2> QED
    BY <2>1, <2>2
<1>8. ASSUME pc[r] = "execute", StepFails(r) PROVE Goal
  <2> DEFINE row == [Row(r) EXCEPT !.status = "failed", !.error = "step",
                                   !.completed_at = TRUE]
             log == MarkLast(Log(r), "failed")
             c == SetLog(WithRow(r, row), r, log)
  <2>1. Save(r, c, "done") /\ UNCHANGED job
    BY <1>8 DEF StepFails
  <2>2. row \in Rows /\ row.status = "failed"
    BY <1>a, AssignedRows, AssignedStatus DEF Causes
  <2>3. log \in Logs
    BY <1>a, MarkLastType
  <2> HIDE DEF row, log
  <2>4. c \in Contexts
    BY <2>2, <2>3, WithRowType, SetLogType
  <2>5. Saves(r, c, "done")
    BY <1>8, <2>1, <2>2, <2>4, EndingLoggingSaves DEF Endings
  <2> HIDE DEF c
  <2> QED
    BY <2>4, <2>5
<1>9. ASSUME CreateTask(r) PROVE Goal
  <2> DEFINE c == SetTask(ctx[r], r, "pending")
  <2>1. pc[r] = "execute" /\ UNCHANGED job /\ Save(r, c, "settle")
    BY <1>9 DEF CreateTask, Executing
  <2>2. /\ c.row = ctx[r].row /\ c.orig = ctx[r].orig
        /\ c.scope = ctx[r].scope
        /\ c.tasks = [ctx[r].tasks EXCEPT ![r] = "pending"]
    BY <1>a DEF SetTask, Contexts
  <2>3. ctx[r].row[job[r].inst].status = "running"
    BY <2>1 DEF SavedInv, Working, Row
  <2>4. c \in Contexts
    BY <1>a, SetTaskType DEF TaskStatuses
  <2> HIDE DEF c
  <2>5. Saves(r, c, "settle")
    BY <2>1, <2>2, <2>3 DEF Saves
  <2> QED
    BY <2>4, <2>5
<1>10. ASSUME SettleGate(r) PROVE Goal
  <2>1. Saves(r, SetLog(ctx[r], r, MarkLast(Log(r), "completed")), "suspend")
    BY <1>10, LoggingSaves DEF SettleGate
  <2>2. SetLog(ctx[r], r, MarkLast(Log(r), "completed")) \in Contexts
    BY <1>a, MarkLastType, SetLogType
  <2> QED
    BY <2>1, <2>2
<1>11. ASSUME Suspend(r) PROVE Goal
  <2> DEFINE row == [Row(r) EXCEPT !.status = "waiting_approval"]
  <2>1. row \in Rows /\ row.status = "waiting_approval"
    BY <1>a, AssignedRows, AssignedStatus
  <2>2. /\ pc[r] = "suspend" /\ UNCHANGED job
        /\ Save(r, WithRow(r, row), "done")
    BY <1>11 DEF Suspend
  <2> HIDE DEF row
  <2>3. Saves(r, WithRow(r, row), "done")
    BY <2>1, <2>2, EndingSaves DEF Endings
  <2> QED
    BY <2>1, <2>3, WithRowType
<1>12. ASSUME Finish(r) PROVE Goal
  <2> DEFINE row == [Row(r) EXCEPT !.status = "completed",
                                   !.completed_at = TRUE, !.step = EndStep]
  <2>1. row \in Rows /\ row.status = "completed"
    BY <1>a, AssignedRows, AssignedStatus
  <2>2. /\ pc[r] = "next" /\ UNCHANGED job
        /\ Save(r, WithRow(r, row), "done")
    BY <1>12 DEF Finish
  <2> HIDE DEF row
  <2>3. Saves(r, WithRow(r, row), "done")
    BY <2>1, <2>2, EndingSaves DEF Endings
  <2> QED
    BY <2>1, <2>3, WithRowType
<1> HIDE DEF Goal
<1>13. ASSUME RunTrigger(r) \/ RunCondition(r) \/ RunWebhook(r)
                 \/ RunNotification(r)
       PROVE  Goal
  BY <1>7, <1>8, <1>13
  DEF RunTrigger, RunCondition, RunWebhook, RunNotification, Executing
<1>14. Goal \/ ExecutorThrows(r)
  BY <1>1, <1>2, <1>3, <1>4, <1>5, <1>6, <1>9, <1>10, <1>11, <1>12, <1>13
  DEF Advance
<1> QED
  BY <1>14 DEF Goal

(***************************************************************************)
(* The status of an instance.                                              *)
(***************************************************************************)
\* A fresh context tracks nothing and has nothing to write.
LEMMA EmptyContextFields ==
    /\ EmptyContext.scope = {}
    /\ \A i \in Instances : EmptyContext.row[i].status = "none"
    /\ \A t \in Runs : EmptyContext.tasks[t] = "same"
<1>1. EmptyContext.row = [i \in Instances |-> NoRow]
  BY DEF EmptyContext
<1>2. EmptyContext.scope = {} /\ EmptyContext.tasks = NothingToWrite
  BY DEF EmptyContext
<1>3. \A i \in Instances : EmptyContext.row[i] = NoRow
  BY <1>1
<1>4. \A t \in Runs : EmptyContext.tasks[t] = "same"
  BY <1>2 DEF NothingToWrite
<1>5. NoRow.status = "none"
  BY DEF NoRow
<1> QED
  BY <1>2, <1>3, <1>4, <1>5

\* What a run reads and writes of a row when its save commits.
LEMMA CommitStatus ==
    ASSUME TypeOK, NEW r \in Runs, NEW c \in Contexts, NEW next \in PCs,
           Commit(r, c, next), NEW i \in Instances
    PROVE  inst'[i].status = IF c.row[i].status # c.orig[i].status
                             THEN c.row[i].status ELSE inst[i].status
  BY DEF Commit, Merge, Changed

\* What changes of the runs and their contexts when a save commits.
LEMMA CommitRuns ==
    ASSUME TypeOK, NEW r \in Runs, NEW c \in Contexts, NEW next \in PCs,
           Commit(r, c, next)
    PROVE  /\ \A q \in Runs : q # r => pc'[q] = pc[q] /\ ctx'[q] = ctx[q]
           /\ pc'[r] = next
           /\ next = "done" => ctx'[r] = EmptyContext
           /\ next # "done" => /\ ctx'[r].orig = c.row /\ ctx'[r].row = c.row
                               /\ ctx'[r].scope = c.scope
                               /\ ctx'[r].tasks = NothingToWrite
  BY DEF Commit, TypeOK, Contexts

\* Whoever commits: an instance that is "running" afterwards is owned.
LEMMA CommitOwned ==
    ASSUME TypeOK, StatusInv, NEW r \in Runs, NEW c \in Contexts,
           NEW next \in PCs, Saves(r, c, next), Commit(r, c, next)
    PROVE  Owned'
<1> USE DEF Live, Lost
<1>1. ASSUME NEW q \in Runs, NEW i \in Instances, q # r, Owns(q, i)
      PROVE  Owns(q, i)'
  BY <1>1, CommitRuns DEF Owns, Working, Saves
<1>2. next # "done" => \A i \in Instances : job[r].inst = i => Owns(r, i)'
  BY CommitRuns DEF Owns, Working, Saves
<1> SUFFICES ASSUME NEW i \in Instances, inst'[i].status = "running"
             PROVE  \E q \in Runs : Owns(q, i)'
  BY DEF Owned
<1>3. CASE c.row[i].status # c.orig[i].status
  <2>1. c.row[i].status = "running"
    BY <1>3, CommitStatus
  <2>2. CASE i = job[r].inst
    BY <1>2, <2>1, <2>2 DEF Saves, Endings
  <2>3. CASE i # job[r].inst
    <3>1. PICK x \in ctx[r].scope : job[x].inst = i
      BY <2>1, <2>3 DEF StatusInv, TrackedInv, Saves
    <3>2. x \in Runs
      BY RunTypes DEF Contexts
    <3>3. x # r /\ pc[x] = "dead"
      BY <2>3, <3>1 DEF StatusInv, ScopeInv
    <3>4. Owns(x, i)
      BY <3>1, <3>3 DEF Owns
    <3> QED
      BY <1>1, <3>2, <3>3, <3>4
  <2> QED
    BY <2>2, <2>3
<1>4. CASE c.row[i].status = c.orig[i].status
  <2>1. inst[i].status = "running"
    BY <1>4, CommitStatus
  <2>2. PICK q \in Runs : Owns(q, i)
    BY <2>1 DEF StatusInv, Owned
  <2>3. CASE q # r
    BY <1>1, <2>2, <2>3
  <2>4. CASE q = r
    <3>1. Working(r) /\ job[r].inst = i
      BY <2>2, <2>4 DEF Owns, Saves
    <3>2. c.orig[i].status = "running"
      BY <3>1 DEF StatusInv, SavedInv, Row, Saves
    <3>3. next # "done"
      BY <1>4, <3>1, <3>2 DEF Saves, Endings
    <3> QED
      BY <1>2, <3>1, <3>3
  <2> QED
    BY <2>3, <2>4
<1> QED
  BY <1>3, <1>4

\* A committed save keeps the rest of the invariant.
LEMMA CommitKeeps ==
    ASSUME TypeOK, StatusInv, NEW r \in Runs, NEW c \in Contexts,
           NEW next \in PCs, Saves(r, c, next), Commit(r, c, next)
    PROVE  StatusInv'
<1> USE DEF Live, Lost
<1>1. r \in ctx[r].scope /\ next # "idle" /\ next # "decided"
  BY DEF StatusInv, ScopeInv, Saves
<1>2. \A q \in Runs : ctx[q].scope \subseteq Runs
  BY RunTypes DEF Contexts
<1>3. ScopeInv'
  <2> SUFFICES ASSUME NEW q \in Runs
               PROVE  /\ pc'[q] \in Live => q \in ctx'[q].scope
                      /\ \A x \in ctx'[q].scope :
                            (x = q /\ ~Idle(x)') \/ pc'[x] = "dead"
    BY DEF ScopeInv
  <2>1. CASE q # r
    BY <1>2, <2>1, CommitRuns DEF StatusInv, ScopeInv, Saves, Idle
  <2>2. CASE q = r /\ next = "done"
    BY <2>2, CommitRuns, EmptyContextFields
  <2>3. CASE q = r /\ next # "done"
    BY <1>1, <1>2, <2>3, CommitRuns DEF StatusInv, ScopeInv, Saves, Idle
  <2> QED
    BY <2>1, <2>2, <2>3
<1>4. TrackedInv'
  <2> SUFFICES ASSUME NEW q \in Runs, NEW i \in Instances,
                      ctx'[q].row[i].status = "running"
               PROVE  \E x \in ctx'[q].scope : job'[x].inst = i
    BY DEF TrackedInv
  <2>1. CASE q # r
    BY <2>1, CommitRuns DEF StatusInv, TrackedInv, Saves
  <2>2. CASE q = r /\ next = "done"
    BY <2>2, CommitRuns, EmptyContextFields
  <2>3. CASE q = r /\ next # "done"
    BY <1>1, <2>3, CommitRuns DEF StatusInv, TrackedInv, Saves
  <2> QED
    BY <2>1, <2>2, <2>3
<1>5. SavedInv'
  <2> SUFFICES ASSUME NEW q \in Runs, Working(q)'
               PROVE  ctx'[q].orig = ctx'[q].row /\ Row(q)'.status = "running"
    BY DEF SavedInv
  <2>1. CASE q # r
    BY <2>1, CommitRuns DEF StatusInv, SavedInv, Saves, Working, Row
  <2>2. CASE q = r
    <3>1. next # "done"
      BY <2>2, CommitRuns DEF Working
    <3> QED
      BY <2>2, <3>1, CommitRuns DEF Saves, Row
  <2> QED
    BY <2>1, <2>2
<1>6. DecidedInv'
  BY <1>1, CommitRuns DEF StatusInv, DecidedInv, Saves
<1> QED
  BY <1>3, <1>4, <1>5, <1>6, CommitOwned DEF StatusInv

\* So does an exception that ends a run, whatever it leaves in the context:
\* the run is lost, and owns its instance still.
LEMMA AbortKeeps ==
    ASSUME TypeOK, StatusInv, NEW r \in Runs, NEW c \in Contexts,
           pc[r] \in Live,
           c.scope = ctx[r].scope,
           \A i \in Instances : i # job[r].inst => c.row[i] = ctx[r].row[i],
           pc' = [pc EXCEPT ![r] = "aborted"],
           ctx' = [ctx EXCEPT ![r] = c], UNCHANGED <<inst, job>>
    PROVE  StatusInv'
<1> USE DEF Live, Lost
<1>1. /\ \A q \in Runs : q # r => pc'[q] = pc[q] /\ ctx'[q] = ctx[q]
      /\ pc'[r] = "aborted" /\ ctx'[r] = c
  BY DEF TypeOK
<1>2. r \in ctx[r].scope /\ \A q \in Runs : ctx[q].scope \subseteq Runs
  BY RunTypes DEF StatusInv, ScopeInv, Contexts
<1>3. Owned'
  BY <1>1 DEF StatusInv, Owned, Owns, Working
<1>4. ScopeInv'
  BY <1>1, <1>2 DEF StatusInv, ScopeInv, Idle
<1>5. TrackedInv'
  BY <1>1, <1>2 DEF StatusInv, TrackedInv
<1>6. SavedInv'
  BY <1>1 DEF StatusInv, SavedInv, Working, Row
<1>7. DecidedInv'
  BY <1>1 DEF StatusInv, DecidedInv
<1> QED
  BY <1>3, <1>4, <1>5, <1>6, <1>7 DEF StatusInv

\* A step of a run keeps the invariant.
LEMMA AdvanceKeeps ==
    ASSUME TypeOK, StatusInv, NEW r \in Runs, Advance(r)
    PROVE  StatusInv'
<1>1. CASE ExecutorThrows(r)
  <2>1. /\ pc[r] = "execute" /\ pc' = [pc EXCEPT ![r] = "aborted"]
        /\ UNCHANGED <<inst, job>>
    BY <1>1 DEF ExecutorThrows, Executing, tables
  <2>2. ctx' = [ctx EXCEPT ![r] = ctx[r]]
    BY <1>1 DEF ExecutorThrows, TypeOK
  <2>3. ctx[r] \in Contexts /\ pc[r] \in Live
    BY <2>1, RunTypes DEF Live
  <2> QED
    BY <2>1, <2>2, <2>3, AbortKeeps
<1>2. ASSUME NEW c \in Contexts, NEW next \in PCs, Saves(r, c, next)
      PROVE  StatusInv'
  <2>1. CASE Commit(r, c, next)
    BY <1>2, <2>1, CommitKeeps
  <2>2. CASE Refuse(r, c)
    BY <1>2, <2>2, AbortKeeps DEF Refuse, Saves, tables
  <2> QED
    BY <1>2, <2>1, <2>2 DEF Saves, Save
<1> QED
  BY <1>1, <1>2, AdvanceSaves DEF StatusInv

\* What changes when a call begins, possibly in the context of run q.
LEMMA LoadFields ==
    ASSUME TypeOK, NEW c \in Contexts, NEW r \in Runs, NEW i \in Instances
    PROVE  /\ Load(c, r, i).row = [c.row EXCEPT ![i] = inst[i]]
           /\ Load(c, r, i).scope = c.scope \cup {r}
           /\ Load(c, r, i).tasks = c.tasks
  BY DEF Load, Contexts

\* What a call begins with that loads its instance into a fresh context.
LEMMA FreshFields ==
    ASSUME TypeOK, NEW r \in Runs, NEW i \in Instances
    PROVE  /\ Load(EmptyContext, r, i) \in Contexts
           /\ Load(EmptyContext, r, i).scope = {r}
           /\ Load(EmptyContext, r, i).tasks = NothingToWrite
<1>1. EmptyContext \in Contexts /\ inst \in [Instances -> Rows]
  BY EmptyContextType DEF TypeOK
<1>2. Load(EmptyContext, r, i) \in Contexts
  BY <1>1, LoadType
<1>3. /\ Load(EmptyContext, r, i).scope = {r}
      /\ Load(EmptyContext, r, i).tasks = NothingToWrite
  BY DEF Load, EmptyContext
<1> QED
  BY <1>2, <1>3

\* A call that begins in a fresh context keeps the invariant.
LEMMA BeginKeeps ==
    ASSUME TypeOK, StatusInv, NEW r \in Runs, NEW i \in Instances,
           NEW task \in Runs \cup {NoTask}, NEW decision \in Decisions,
           Start(r, i, task, decision), NEW c \in Contexts,
           c.row = Load(EmptyContext, r, i).row, c.scope = {r},
           ctx' = [ctx EXCEPT ![r] = c],
           \/ task = NoTask /\ pc' = [pc EXCEPT ![r] = "loaded"]
           \/ task # NoTask /\ pc' = [pc EXCEPT ![r] = "decided"]
    PROVE  StatusInv'
<1> USE DEF Live, Lost
<1>1. /\ \A q \in Runs : q # r => /\ pc'[q] = pc[q] /\ ctx'[q] = ctx[q]
                                  /\ job'[q] = job[q]
      /\ pc'[r] \in {"loaded", "decided"} /\ ctx'[r] = c
      /\ job'[r].inst = i /\ job'[r].task = task
      /\ pc'[r] = "loaded" <=> task = NoTask
      /\ inst' = inst /\ pc[r] = "idle"
  BY DEF TypeOK, Start, tables, NextRun, Idle
<1>2. \A q \in Runs : ctx[q].scope \subseteq Runs
  BY RunTypes DEF Contexts
<1>3. \A q \in Runs : r \notin ctx[q].scope
  BY <1>1 DEF StatusInv, ScopeInv, Idle
<1>4. Owned'
  BY <1>1 DEF StatusInv, Owned, Owns, Working
<1>5. ScopeInv'
  BY <1>1, <1>2, <1>3 DEF StatusInv, ScopeInv, Idle
<1>6. TrackedInv'
  <2> SUFFICES ASSUME NEW q \in Runs, NEW j \in Instances,
                      ctx'[q].row[j].status = "running"
               PROVE  \E x \in ctx'[q].scope : job'[x].inst = j
    BY DEF TrackedInv
  <2>1. CASE q # r
    BY <1>1, <1>2, <1>3, <2>1 DEF StatusInv, TrackedInv
  <2>2. CASE q = r
    <3>1. c.row = [EmptyContext.row EXCEPT ![i] = inst[i]]
      BY DEF Load, EmptyContext
    <3>2. j = i
      BY <1>1, <2>2, <3>1, EmptyContextFields, EmptyContextType DEF Contexts
    <3> QED
      BY <1>1, <2>2, <3>2
  <2> QED
    BY <2>1, <2>2
<1>7. SavedInv'
  BY <1>1 DEF StatusInv, SavedInv, Working, Row
<1>8. DecidedInv'
  BY <1>1 DEF StatusInv, DecidedInv
<1> QED
  BY <1>4, <1>5, <1>6, <1>7, <1>8 DEF StatusInv

\* So does the next call of a batch, in the context of the run that threw.
LEMMA BeginAfterKeeps ==
    ASSUME TypeOK, StatusInv, NEW r \in Runs, NEW q \in Runs,
           NEW i \in Instances, BeginExecuteAfter(r, i, q)
    PROVE  StatusInv'
<1> USE DEF Live, Lost
<1>1. /\ pc[q] = "aborted" /\ pc[r] = "idle" /\ q # r /\ inst' = inst
      /\ \A x \in ctx[q].scope : job[x].inst # i
      /\ \A x \in Runs : x # r => job'[x] = job[x]
      /\ \A x \in Runs : x # r /\ x # q => pc'[x] = pc[x] /\ ctx'[x] = ctx[x]
      /\ pc'[q] = "dead" /\ pc'[r] = "loaded" /\ ctx'[q] = EmptyContext
      /\ ctx'[r] = Load(ctx[q], r, i)
      /\ job'[r].inst = i /\ job'[r].task = NoTask
  BY DEF BeginExecuteAfter, Start, TypeOK, tables, NextRun, Idle
<1>2. \A x \in Runs : ctx[x].scope \subseteq Runs /\ r \notin ctx[x].scope
  BY <1>1, RunTypes DEF Contexts, StatusInv, ScopeInv, Idle
<1>3. /\ ctx'[r].scope = ctx[q].scope \cup {r}
      /\ ctx'[r].row = [ctx[q].row EXCEPT ![i] = inst[i]]
      /\ ctx[q].row \in [Instances -> Rows]
  <2>1. ctx[q] \in Contexts
    BY RunTypes
  <2>2. ctx[q].row \in [Instances -> Rows]
    BY <2>1 DEF Contexts
  <2>3. /\ Load(ctx[q], r, i).scope = ctx[q].scope \cup {r}
        /\ Load(ctx[q], r, i).row = [ctx[q].row EXCEPT ![i] = inst[i]]
    BY <2>1, LoadFields
  <2> QED
    BY <1>1, <2>2, <2>3
<1>4. Owned'
  BY <1>1 DEF StatusInv, Owned, Owns, Working
<1>5. ScopeInv'
  <2> SUFFICES ASSUME NEW p \in Runs
               PROVE  /\ pc'[p] \in Live => p \in ctx'[p].scope
                      /\ \A x \in ctx'[p].scope :
                            (x = p /\ ~Idle(x)') \/ pc'[x] = "dead"
    BY DEF ScopeInv
  <2>1. CASE p = r
    BY <1>1, <1>2, <1>3, <2>1 DEF StatusInv, ScopeInv, Idle
  <2>2. CASE p = q
    BY <1>1, <2>2, EmptyContextFields
  <2>3. CASE p # r /\ p # q
    BY <1>1, <1>2, <2>3 DEF StatusInv, ScopeInv, Idle
  <2> QED
    BY <2>1, <2>2, <2>3
<1>6. TrackedInv'
  <2> SUFFICES ASSUME NEW p \in Runs, NEW j \in Instances,
                      ctx'[p].row[j].status = "running"
               PROVE  \E x \in ctx'[p].scope : job'[x].inst = j
    BY DEF TrackedInv
  <2>1. CASE p = r /\ j = i
    BY <1>1, <1>3, <2>1
  <2>2. CASE p = r /\ j # i
    <3>1. ctx[q].row[j].status = "running"
      BY <1>3, <2>2
    <3>2. PICK x \in ctx[q].scope : job[x].inst = j
      BY <3>1 DEF StatusInv, TrackedInv
    <3> QED
      BY <1>1, <1>2, <1>3, <2>2, <3>2
  <2>3. CASE p = q
    BY <1>1, <2>3, EmptyContextFields
  <2>4. CASE p # r /\ p # q
    BY <1>1, <1>2, <2>4 DEF StatusInv, TrackedInv
  <2> QED
    BY <2>1, <2>2, <2>3, <2>4
<1>7. SavedInv'
  BY <1>1 DEF StatusInv, SavedInv, Working, Row
<1>8. DecidedInv'
  BY <1>1 DEF StatusInv, DecidedInv
<1> QED
  BY <1>4, <1>5, <1>6, <1>7, <1>8 DEF StatusInv

\* A crash loses every run, and with it every context.
LEMMA CrashKeeps ==
    ASSUME TypeOK, StatusInv, Crash
    PROVE  StatusInv'
<1> USE DEF Live, Lost
<1>1. /\ \A r \in Runs : ctx'[r] = EmptyContext
      /\ \A r \in Runs : pc'[r] = IF pc[r] \in Live \cup {"aborted"}
                                  THEN "dead" ELSE pc[r]
      /\ inst' = inst /\ job' = job
  BY DEF Crash, tables
<1>2. Owned'
  BY <1>1 DEF StatusInv, Owned, Owns, Working
<1>3. ScopeInv' /\ TrackedInv'
  BY <1>1, EmptyContextFields DEF ScopeInv, TrackedInv
<1>4. SavedInv' /\ DecidedInv'
  BY <1>1 DEF SavedInv, DecidedInv, Working
<1> QED
  BY <1>2, <1>3, <1>4 DEF StatusInv

\* A write of the table that makes no instance "running" keeps the invariant.
LEMMA WriteKeeps ==
    ASSUME StatusInv, UNCHANGED <<pc, job, ctx>>,
           \A i \in Instances : inst'[i].status = "running" =>
                                   inst[i].status = "running"
    PROVE  StatusInv'
<1>1. Owned'
  BY DEF StatusInv, Owned, Owns, Working
<1>2. ScopeInv' /\ TrackedInv' /\ SavedInv' /\ DecidedInv'
  BY DEF StatusInv, ScopeInv, TrackedInv, SavedInv, DecidedInv, Working, Row, Idle
<1> QED
  BY <1>1, <1>2 DEF StatusInv

\* What the control plane writes of an instance.
LEMMA ControlWrites ==
    ASSUME TypeOK, NEW i \in Instances, CreateInstance(i) \/ CancelWrite(i)
    PROVE  /\ UNCHANGED <<pc, job, ctx>>
           /\ \A j \in Instances : inst'[j].status = "running" =>
                                      inst[j].status = "running"
<1>1. CASE CreateInstance(i)
  <2>1. inst'[i].status # "running"
    BY <1>1 DEF CreateInstance, TypeOK, NoRow
  <2> QED
    BY <1>1, <2>1 DEF CreateInstance, TypeOK
<1>2. CASE CancelWrite(i)
  <2>1. inst'[i].status = "cancelled"
    BY <1>2 DEF CancelWrite, TypeOK, Rows
  <2> QED
    BY <1>2, <2>1 DEF CancelWrite, TypeOK
<1> QED
  BY <1>1, <1>2

\* Every step of the specification keeps the invariant.
LEMMA NextKeeps == TypeOK /\ StatusInv /\ [Next]_vars => StatusInv'
<1> SUFFICES ASSUME TypeOK, StatusInv, [Next]_vars PROVE StatusInv'
  OBVIOUS
<1>1. ASSUME NEW r \in Runs, Advance(r) PROVE StatusInv'
  BY <1>1, AdvanceKeeps
<1>2. ASSUME NEW r \in Runs, NEW i \in Instances, BeginExecute(r, i)
      PROVE  StatusInv'
  <2> DEFINE c == Load(EmptyContext, r, i)
  <2>1. c \in Contexts /\ c.scope = {r}
    BY FreshFields
  <2>2. /\ Start(r, i, NoTask, "approved")
        /\ ctx' = [ctx EXCEPT ![r] = c] /\ pc' = [pc EXCEPT ![r] = "loaded"]
    BY <1>2 DEF BeginExecute
  <2> QED
    BY <2>1, <2>2, BeginKeeps DEF Decisions
<1>3. ASSUME NEW r \in Runs, NEW q \in Runs, NEW i \in Instances,
             BeginExecuteAfter(r, i, q)
      PROVE  StatusInv'
  BY <1>3, BeginAfterKeeps
<1>4. ASSUME NEW r \in Runs, NEW t \in Runs, NEW d \in Decisions,
             BeginResume(r, t, d)
      PROVE  StatusInv'
  <2> DEFINE i == job[t].inst
             loaded == Load(EmptyContext, r, i)
             verdict == IF tasks[t] = d THEN "same" ELSE d
             c == SetTask(loaded, t, verdict)
  <2>1. i \in Instances
    BY RunTypes
  <2>2. loaded \in Contexts /\ loaded.scope = {r}
    BY <2>1, FreshFields
  <2>3. c \in Contexts
    <3>1. verdict \in TaskStatuses \cup {"same"}
      BY DEF TaskStatuses, Decisions
    <3> HIDE DEF loaded, verdict
    <3> QED
      BY <2>2, <3>1, SetTaskType
  <2>4. c.row = loaded.row /\ c.scope = {r}
    BY <2>2 DEF SetTask, Contexts
  <2>5. /\ Start(r, i, t, d) /\ ctx' = [ctx EXCEPT ![r] = c]
        /\ pc' = [pc EXCEPT ![r] = "decided"]
    BY <1>4 DEF BeginResume
  <2>6. t # NoTask
    BY RunnerAssumption DEF Runs, NoTask
  <2> HIDE DEF c, verdict, i
  <2> QED
    BY <2>1, <2>3, <2>4, <2>5, <2>6, BeginKeeps
<1>5. CASE LoadFails
  BY <1>5, WriteKeeps DEF LoadFails, tables
<1>6. CASE Crash
  BY <1>6, CrashKeeps
<1>7. ASSUME NEW i \in Instances, CreateInstance(i) \/ CancelWrite(i)
      PROVE  StatusInv'
  BY <1>7, ControlWrites, WriteKeeps
<1>8. ASSUME NEW t \in Runs, NEW d \in Decisions, DecideWrite(t, d)
      PROVE  StatusInv'
  BY <1>8, WriteKeeps DEF DecideWrite
<1>9. ASSUME NEW d \in Definitions, NEW g \in Graphs, EditDefinition(d, g)
      PROVE  StatusInv'
  BY <1>9, WriteKeeps DEF EditDefinition, tables
<1>10. CASE UNCHANGED vars
  BY <1>10, WriteKeeps DEF vars
<1> QED
  BY <1>1, <1>2, <1>3, <1>4, <1>5, <1>6, <1>7, <1>8, <1>9, <1>10 DEF Next

\* A save makes a cancelled instance "running" only if it is a run's first.
LEMMA AdvanceCancels ==
    ASSUME TypeOK, StatusInv, NEW r \in Runs, Advance(r),
           NEW i \in Instances,
           inst[i].status = "cancelled", inst'[i].status = "running"
    PROVE  /\ pc[r] \in {"loaded", "decided"} /\ pc'[r] # pc[r]
           /\ i \in {job[x].inst : x \in ctx[r].scope}
<1>1. PICK c \in Contexts, next \in PCs : Saves(r, c, next)
  BY AdvanceSaves DEF StatusInv, ExecutorThrows, tables
<1>2. Commit(r, c, next)
  BY <1>1 DEF Saves, Save, Refuse, tables
<1>3. c.row[i].status = "running" /\ c.orig[i].status # "running"
  BY <1>2, CommitStatus
<1>4. r \in ctx[r].scope
  BY <1>1 DEF StatusInv, ScopeInv, Saves
<1>5. i \in {job[x].inst : x \in ctx[r].scope}
  <2>1. CASE i = job[r].inst
    BY <1>4, <2>1
  <2>2. CASE i # job[r].inst
    <3>1. ctx[r].row[i].status = "running"
      BY <1>1, <1>3, <2>2 DEF Saves
    <3> QED
      BY <3>1 DEF StatusInv, TrackedInv
  <2> QED
    BY <2>1, <2>2
<1>6. ~Working(r)
  <2> SUFFICES ASSUME Working(r) PROVE FALSE
    OBVIOUS
  <2>1. c.orig = ctx[r].row /\ Row(r).status = "running"
    BY <1>1 DEF StatusInv, SavedInv, Saves
  <2>2. CASE i = job[r].inst
    BY <1>3, <2>1, <2>2 DEF Row
  <2>3. CASE i # job[r].inst
    BY <1>1, <1>3, <2>1, <2>3 DEF Saves
  <2> QED
    BY <2>2, <2>3
<1>7. pc[r] \in {"loaded", "decided"}
  BY <1>1, <1>6 DEF Saves, Working, Live
<1>8. pc'[r] # pc[r]
  BY <1>1, <1>2, CommitRuns DEF Saves
<1> QED
  BY <1>5, <1>7, <1>8

\* Initially no instance exists and no run has begun.
LEMMA InitStatus == Init => StatusInv
<1> SUFFICES ASSUME Init PROVE StatusInv
  OBVIOUS
<1>1. /\ \A r \in Runs : ctx[r] = EmptyContext /\ pc[r] = "idle"
      /\ \A i \in Instances : inst[i].status = "none"
  BY DEF Init, NoRow
<1>2. ScopeInv /\ TrackedInv
  BY <1>1, EmptyContextFields DEF ScopeInv, TrackedInv, Live
<1>3. Owned /\ SavedInv /\ DecidedInv
  BY <1>1 DEF Owned, SavedInv, DecidedInv, Working
<1> QED
  BY <1>2, <1>3 DEF StatusInv

\* The invariant itself.
THEOREM StatusInvariant == Spec => [](TypeOK /\ StatusInv)
<1>1. Init => StatusInv
  BY InitStatus
<1>2. TypeOK /\ StatusInv /\ [Next]_vars => StatusInv'
  BY NextKeeps
<1>3. Spec => []TypeOK
  BY TypeCorrect
<1> QED
  BY <1>1, <1>2, <1>3, PTL DEF Spec

\* A running instance has a run that is working on it or was lost on it: no
\* run that returns leaves "running" behind, however runs, refused saves,
\* crashes and the control plane's writes interleave.
THEOREM RunningOwned == Spec => []RunningIsOwned
<1>1. TypeOK /\ StatusInv => RunningIsOwned
  <2> SUFFICES ASSUME TypeOK, StatusInv, NEW i \in Instances,
                      inst[i].status = "running"
               PROVE  \E r \in RunsOf(i) : pc[r] \in Live \cup Lost
    BY DEF RunningIsOwned
  <2>1. PICK r \in Runs : Owns(r, i)
    BY DEF StatusInv, Owned
  <2>2. r \in RunsOf(i) /\ pc[r] \in Live \cup Lost
    BY <2>1 DEF Owns, Working, RunsOf, Idle, Live, Lost
  <2> QED
    BY <2>2
<1> QED
  BY <1>1, StatusInvariant, PTL

\* A cancelled instance goes back to "running" only by the first save of a
\* call that loaded it, never by the saves of steps that follow.
THEOREM CancelHeld == Spec => CancelHolds
<1> DEFINE Holds ==
      \A i \in Instances :
          inst[i].status = "cancelled" /\ inst'[i].status = "running" =>
              \E r \in Runs :
                  /\ pc[r] \in {"loaded", "decided"} /\ pc'[r] # pc[r]
                  /\ i \in {job[x].inst : x \in ctx[r].scope}
<1>1. TypeOK /\ StatusInv /\ [Next]_vars => [Holds]_vars
  <2> SUFFICES ASSUME TypeOK, StatusInv, Next, NEW i \in Instances,
                      inst[i].status = "cancelled", inst'[i].status = "running"
               PROVE  \E r \in Runs :
                         /\ pc[r] \in {"loaded", "decided"} /\ pc'[r] # pc[r]
                         /\ i \in {job[x].inst : x \in ctx[r].scope}
    OBVIOUS
  <2>1. CASE \E r \in Runs : Advance(r)
    BY <2>1, AdvanceCancels
  <2>2. CASE \E j \in Instances : CreateInstance(j) \/ CancelWrite(j)
    BY <2>2, ControlWrites
  <2>3. CASE UNCHANGED inst
    BY <2>3
  <2>4. \/ \E r \in Runs : Advance(r)
        \/ \E j \in Instances : CreateInstance(j) \/ CancelWrite(j)
        \/ UNCHANGED inst
    BY DEF Next, BeginExecute, BeginExecuteAfter, BeginResume, Start,
           LoadFails, Crash, DecideWrite, EditDefinition, tables
  <2> QED
    BY <2>1, <2>2, <2>3, <2>4
<1>2. Spec => [](TypeOK /\ StatusInv)
  BY StatusInvariant
<1>3. Spec => [][Holds]_vars
  BY <1>1, <1>2, PTL DEF Spec
<1> QED
  BY <1>3 DEF CancelHolds

(***************************************************************************)
(* Approval tasks.                                                         *)
(***************************************************************************)
\* No row is tracked by two contexts.
OneTracker ==
    \A r, q \in Runs : \A x \in ctx[r].scope : x \in ctx[q].scope => r = q

\* A context inserts a task only if the table lacks it and the context is the
\* one that tracks the run which asked for it; it updates only stored tasks.
UnsavedTasks ==
    \A r, t \in Runs :
        /\ ctx[r].tasks[t] \in {"same", "pending"} \cup Decisions
        /\ ctx[r].tasks[t] = "pending" =>
              tasks[t] = "none" /\ t \in ctx[r].scope
        /\ ctx[r].tasks[t] \in Decisions => tasks[t] # "none"

\* A run that has not stored its task has none stored.
NotYetAsked ==
    \A r \in Runs :
        /\ pc[r] \in {"idle", "loaded", "decided", "next", "execute"} =>
              tasks[r] = "none"
        /\ pc[r] \in Live => ctx[r].tasks[r] # "pending"

TaskInv == OneTracker /\ UnsavedTasks /\ NotYetAsked

\* The task writes of a context about to be saved.
LEMMA SavesTasks ==
    ASSUME TypeOK, StatusInv, TaskInv, NEW r \in Runs, NEW c \in Contexts,
           NEW next \in PCs, Saves(r, c, next), NEW t \in Runs
    PROVE  /\ c.tasks[t] \in {"same", "pending"} \cup Decisions
           /\ c.tasks[t] = "pending" =>
                 /\ tasks[t] = "none" /\ t \in ctx[r].scope
                 /\ t = r => next = "settle"
           /\ c.tasks[t] \in Decisions => tasks[t] # "none"
<1>1. ctx[r] \in Contexts /\ r \in ctx[r].scope
  BY RunTypes DEF StatusInv, ScopeInv, Saves
<1>2. CASE c.tasks = ctx[r].tasks
  BY <1>2 DEF TaskInv, UnsavedTasks, NotYetAsked, Saves
<1>3. CASE /\ pc[r] = "execute" /\ next = "settle"
           /\ c.tasks = [ctx[r].tasks EXCEPT ![r] = "pending"]
  <2>1. CASE t = r
    <3>1. c.tasks[t] = "pending"
      BY <1>1, <1>3, <2>1 DEF Contexts
    <3>2. tasks[t] = "none"
      BY <1>3, <2>1 DEF TaskInv, NotYetAsked
    <3> QED
      BY <1>1, <1>3, <2>1, <3>1, <3>2 DEF Decisions
  <2>2. CASE t # r
    <3>1. c.tasks[t] = ctx[r].tasks[t]
      BY <1>1, <1>3, <2>2 DEF Contexts
    <3> QED
      BY <2>2, <3>1 DEF TaskInv, UnsavedTasks
  <2> QED
    BY <2>1, <2>2
<1> QED
  BY <1>2, <1>3 DEF Saves

\* What a committed save does to the task table.
LEMMA CommitTasks ==
    ASSUME TypeOK, NEW r \in Runs, NEW c \in Contexts, NEW next \in PCs,
           Commit(r, c, next), NEW t \in Runs
    PROVE  tasks'[t] = IF c.tasks[t] = "same" THEN tasks[t] ELSE c.tasks[t]
  BY DEF Commit

\* No save reopens or removes a task that is stored.
LEMMA CommitDecisions ==
    ASSUME TypeOK, StatusInv, TaskInv, NEW r \in Runs, NEW c \in Contexts,
           NEW next \in PCs, Saves(r, c, next), Commit(r, c, next),
           NEW t \in Runs
    PROVE  /\ tasks[t] \in Decisions => tasks'[t] \in Decisions
           /\ tasks[t] # "none" => tasks'[t] # "none"
  BY SavesTasks, CommitTasks DEF Decisions

\* A committed save keeps the invariant.
LEMMA CommitKeepsTasks ==
    ASSUME TypeOK, StatusInv, TaskInv, NEW r \in Runs, NEW c \in Contexts,
           NEW next \in PCs, Saves(r, c, next), Commit(r, c, next)
    PROVE  TaskInv'
<1>1. \A q \in Runs : ctx[q].scope \subseteq Runs
  BY RunTypes DEF Contexts
<1>2. OneTracker'
  <2>1. \A q \in Runs : ctx'[q].scope \subseteq ctx[q].scope
    <3>1. ctx'[r].scope \subseteq ctx[r].scope
      BY CommitRuns, EmptyContextFields DEF Saves
    <3> QED
      BY <3>1, CommitRuns
  <2> QED
    BY <2>1 DEF TaskInv, OneTracker
<1>3. UnsavedTasks'
  <2> SUFFICES ASSUME NEW q \in Runs, NEW t \in Runs
               PROVE  /\ ctx'[q].tasks[t] \in {"same", "pending"} \cup Decisions
                      /\ ctx'[q].tasks[t] = "pending" =>
                            tasks'[t] = "none" /\ t \in ctx'[q].scope
                      /\ ctx'[q].tasks[t] \in Decisions => tasks'[t] # "none"
    BY DEF UnsavedTasks
  <2>1. CASE q = r
    <3>1. ctx'[r].tasks[t] = "same"
      BY CommitRuns, EmptyContextFields DEF NothingToWrite
    <3> QED
      BY <2>1, <3>1 DEF Decisions
  <2>2. CASE q # r
    <3>1. ctx'[q] = ctx[q]
      BY <2>2, CommitRuns
    <3>2. ASSUME ctx[q].tasks[t] = "pending" PROVE c.tasks[t] = "same"
      <4>1. tasks[t] = "none" /\ t \in ctx[q].scope
        BY <3>2 DEF TaskInv, UnsavedTasks
      <4>2. t \notin ctx[r].scope
        BY <2>2, <4>1 DEF TaskInv, OneTracker
      <4> QED
        BY <4>1, <4>2, SavesTasks
    <3>3. ASSUME ctx[q].tasks[t] = "pending"
          PROVE  tasks'[t] = "none" /\ t \in ctx[q].scope
      BY <3>2, <3>3, CommitTasks DEF TaskInv, UnsavedTasks
    <3> QED
      BY <3>1, <3>3, CommitDecisions DEF TaskInv, UnsavedTasks
  <2> QED
    BY <2>1, <2>2
<1>4. NotYetAsked'
  <2> SUFFICES ASSUME NEW q \in Runs
               PROVE  /\ pc'[q] \in {"idle", "loaded", "decided", "next",
                                     "execute"} => tasks'[q] = "none"
                      /\ pc'[q] \in Live => ctx'[q].tasks[q] # "pending"
    BY DEF NotYetAsked
  <2>1. pc'[q] \in Live => ctx'[q].tasks[q] # "pending"
    <3>1. ctx'[r].tasks[r] = "same"
      BY CommitRuns, EmptyContextFields DEF NothingToWrite
    <3> QED
      BY <3>1, CommitRuns DEF TaskInv, NotYetAsked
  <2>2. ASSUME pc'[q] \in {"idle", "loaded", "decided", "next", "execute"}
        PROVE  tasks'[q] = "none"
    <3>1. pc[q] \in {"idle", "loaded", "decided", "next", "execute"}
      BY <2>2, CommitRuns DEF Saves, Live
    <3>2. tasks[q] = "none"
      BY <3>1 DEF TaskInv, NotYetAsked
    <3>3. c.tasks[q] # "pending"
      <4>1. CASE q = r
        BY <2>2, <4>1, CommitRuns, SavesTasks
      <4>2. CASE q # r
        BY <3>1, <4>2, SavesTasks DEF StatusInv, ScopeInv
      <4> QED
        BY <4>1, <4>2
    <3> QED
      BY <3>2, <3>3, SavesTasks, CommitTasks
  <2> QED
    BY <2>1, <2>2
<1> QED
  BY <1>2, <1>3, <1>4 DEF TaskInv

\* So does an exception that ends a run, with the writes it leaves unsaved.
LEMMA AbortKeepsTasks ==
    ASSUME TypeOK, StatusInv, TaskInv, NEW r \in Runs, NEW c \in Contexts,
           pc[r] \in Live, c.scope = ctx[r].scope,
           pc' = [pc EXCEPT ![r] = "aborted"],
           ctx' = [ctx EXCEPT ![r] = c], UNCHANGED tasks,
           \A t \in Runs :
              /\ c.tasks[t] \in {"same", "pending"} \cup Decisions
              /\ c.tasks[t] = "pending" =>
                    tasks[t] = "none" /\ t \in ctx[r].scope
              /\ c.tasks[t] \in Decisions => tasks[t] # "none"
    PROVE  TaskInv'
<1>1. /\ \A q \in Runs : q # r => pc'[q] = pc[q] /\ ctx'[q] = ctx[q]
      /\ pc'[r] = "aborted" /\ ctx'[r] = c /\ tasks' = tasks
  BY DEF TypeOK
<1>2. OneTracker'
  <2>1. \A q \in Runs : ctx'[q].scope = ctx[q].scope
    BY <1>1
  <2> QED
    BY <2>1 DEF TaskInv, OneTracker
<1>3. UnsavedTasks'
  BY <1>1 DEF TaskInv, UnsavedTasks
<1>4. NotYetAsked'
  BY <1>1 DEF TaskInv, NotYetAsked, Live
<1> QED
  BY <1>2, <1>3, <1>4 DEF TaskInv

\* A step of a run keeps the invariant.
LEMMA AdvanceKeepsTasks ==
    ASSUME TypeOK, StatusInv, TaskInv, NEW r \in Runs, Advance(r)
    PROVE  TaskInv'
<1>1. CASE ExecutorThrows(r)
  <2>1. /\ pc[r] = "execute" /\ pc' = [pc EXCEPT ![r] = "aborted"]
        /\ UNCHANGED tasks
    BY <1>1 DEF ExecutorThrows, Executing, tables
  <2>2. ctx' = [ctx EXCEPT ![r] = ctx[r]]
    BY <1>1 DEF ExecutorThrows, TypeOK
  <2>3. ctx[r] \in Contexts /\ pc[r] \in Live
    BY <2>1, RunTypes DEF Live
  <2>4. \A t \in Runs :
           /\ ctx[r].tasks[t] \in {"same", "pending"} \cup Decisions
           /\ ctx[r].tasks[t] = "pending" =>
                 tasks[t] = "none" /\ t \in ctx[r].scope
           /\ ctx[r].tasks[t] \in Decisions => tasks[t] # "none"
    BY DEF TaskInv, UnsavedTasks
  <2> QED
    BY <2>1, <2>2, <2>3, <2>4, AbortKeepsTasks
<1>2. ASSUME NEW c \in Contexts, NEW next \in PCs, Saves(r, c, next)
      PROVE  TaskInv'
  <2>1. CASE Commit(r, c, next)
    BY <1>2, <2>1, CommitKeepsTasks
  <2>2. CASE Refuse(r, c)
    <3>1. /\ pc' = [pc EXCEPT ![r] = "aborted"]
          /\ ctx' = [ctx EXCEPT ![r] = c] /\ UNCHANGED tasks
      BY <2>2 DEF Refuse, tables
    <3>2. pc[r] \in Live /\ c.scope = ctx[r].scope
      BY <1>2 DEF Saves
    <3>3. \A t \in Runs :
             /\ c.tasks[t] \in {"same", "pending"} \cup Decisions
             /\ c.tasks[t] = "pending" =>
                   tasks[t] = "none" /\ t \in ctx[r].scope
             /\ c.tasks[t] \in Decisions => tasks[t] # "none"
      BY <1>2, SavesTasks
    <3> QED
      BY <3>1, <3>2, <3>3, AbortKeepsTasks
  <2> QED
    BY <1>2, <2>1, <2>2 DEF Saves, Save
<1> QED
  BY <1>1, <1>2, AdvanceSaves DEF StatusInv

\* A call that begins in a fresh context keeps the invariant: at most it has
\* a decision of a stored task to write.
LEMMA BeginKeepsTasks ==
    ASSUME TypeOK, StatusInv, TaskInv, NEW r \in Runs, NEW c \in Contexts,
           Idle(r), c.scope = {r}, ctx' = [ctx EXCEPT ![r] = c],
           UNCHANGED tasks,
           NEW next \in {"loaded", "decided"}, pc' = [pc EXCEPT ![r] = next],
           \A t \in Runs : \/ c.tasks[t] = "same"
                           \/ c.tasks[t] \in Decisions /\ tasks[t] # "none"
    PROVE  TaskInv'
<1>1. /\ \A q \in Runs : q # r => pc'[q] = pc[q] /\ ctx'[q] = ctx[q]
      /\ pc'[r] = next /\ ctx'[r] = c /\ pc[r] = "idle" /\ tasks' = tasks
  BY DEF TypeOK, Idle
<1>2. \A q \in Runs : r \notin ctx[q].scope
  BY <1>1 DEF StatusInv, ScopeInv, Idle
<1>3. OneTracker'
  BY <1>1, <1>2 DEF TaskInv, OneTracker
<1>4. UnsavedTasks'
  BY <1>1 DEF TaskInv, UnsavedTasks, Decisions
<1>5. NotYetAsked'
  BY <1>1 DEF TaskInv, NotYetAsked, Decisions
<1> QED
  BY <1>3, <1>4, <1>5 DEF TaskInv

\* So does the next call of a batch: it takes over what the lost run tracked.
LEMMA BeginAfterKeepsTasks ==
    ASSUME TypeOK, StatusInv, TaskInv, NEW r \in Runs, NEW q \in Runs,
           NEW i \in Instances, BeginExecuteAfter(r, i, q)
    PROVE  TaskInv'
<1>1. /\ pc[q] = "aborted" /\ pc[r] = "idle" /\ q # r /\ tasks' = tasks
      /\ \A x \in Runs : x # r /\ x # q => pc'[x] = pc[x] /\ ctx'[x] = ctx[x]
      /\ pc'[q] = "dead" /\ pc'[r] = "loaded" /\ ctx'[q] = EmptyContext
      /\ ctx'[r] = Load(ctx[q], r, i)
  BY DEF BeginExecuteAfter, Start, TypeOK, tables, NextRun, Idle
<1>2. \A x \in Runs : r \notin ctx[x].scope
  BY <1>1 DEF StatusInv, ScopeInv, Idle
<1>3. ctx[q] \in Contexts
  BY RunTypes
<1>4. ctx'[r].scope = ctx[q].scope \cup {r} /\ ctx'[r].tasks = ctx[q].tasks
  <2>1. Load(ctx[q], r, i).scope = ctx[q].scope \cup {r}
    BY <1>3, LoadFields
  <2>2. Load(ctx[q], r, i).tasks = ctx[q].tasks
    BY <1>3 DEF Load, Contexts
  <2> QED
    BY <1>1, <2>1, <2>2
<1>5. OneTracker'
  BY <1>1, <1>2, <1>4, EmptyContextFields DEF TaskInv, OneTracker
<1>6. UnsavedTasks'
  <2> SUFFICES ASSUME NEW p \in Runs, NEW t \in Runs
               PROVE  /\ ctx'[p].tasks[t] \in {"same", "pending"} \cup Decisions
                      /\ ctx'[p].tasks[t] = "pending" =>
                            tasks'[t] = "none" /\ t \in ctx'[p].scope
                      /\ ctx'[p].tasks[t] \in Decisions => tasks'[t] # "none"
    BY DEF UnsavedTasks
  <2>1. CASE p = r
    BY <1>1, <1>4, <2>1 DEF TaskInv, UnsavedTasks
  <2>2. CASE p = q
    BY <1>1, <2>2, EmptyContextFields DEF Decisions
  <2>3. CASE p # r /\ p # q
    BY <1>1, <2>3 DEF TaskInv, UnsavedTasks
  <2> QED
    BY <2>1, <2>2, <2>3
<1>7. NotYetAsked'
  <2>1. ctx[q].tasks[r] # "pending"
    BY <1>2 DEF TaskInv, UnsavedTasks
  <2> QED
    BY <1>1, <1>4, <2>1 DEF TaskInv, NotYetAsked, Live
<1> QED
  BY <1>5, <1>6, <1>7 DEF TaskInv

\* A crash leaves no context with anything to write.
LEMMA CrashKeepsTasks ==
    ASSUME TypeOK, TaskInv, Crash
    PROVE  TaskInv'
<1> USE DEF Live, Lost
<1>1. /\ \A r \in Runs : ctx'[r] = EmptyContext
      /\ \A r \in Runs : pc'[r] = IF pc[r] \in Live \cup {"aborted"}
                                  THEN "dead" ELSE pc[r]
      /\ tasks' = tasks
  BY DEF Crash, tables
<1>2. OneTracker' /\ UnsavedTasks'
  BY <1>1, EmptyContextFields DEF OneTracker, UnsavedTasks, Decisions
<1>3. NotYetAsked'
  BY <1>1, EmptyContextFields DEF TaskInv, NotYetAsked
<1> QED
  BY <1>2, <1>3 DEF TaskInv

\* A decision of a stored task keeps the invariant, as does any step that
\* touches neither tasks nor runs.
LEMMA WriteKeepsTasks ==
    ASSUME TaskInv, UNCHANGED <<pc, ctx>>,
           \/ UNCHANGED tasks
           \/ \E t \in Runs, d \in Decisions :
                 tasks[t] # "none" /\ tasks' = [tasks EXCEPT ![t] = d],
           TypeOK
    PROVE  TaskInv'
<1>1. \A t \in Runs : (tasks[t] = "none") = (tasks'[t] = "none")
  BY DEF TypeOK, Decisions
<1> QED
  BY <1>1 DEF TaskInv, OneTracker, UnsavedTasks, NotYetAsked

\* Every step of the specification keeps the invariant.
LEMMA NextKeepsTasks ==
    TypeOK /\ StatusInv /\ TaskInv /\ [Next]_vars => TaskInv'
<1> SUFFICES ASSUME TypeOK, StatusInv, TaskInv, [Next]_vars PROVE TaskInv'
  OBVIOUS
<1>1. ASSUME NEW r \in Runs, Advance(r) PROVE TaskInv'
  BY <1>1, AdvanceKeepsTasks
<1>2. ASSUME NEW r \in Runs, NEW i \in Instances, BeginExecute(r, i)
      PROVE  TaskInv'
  <2> DEFINE c == Load(EmptyContext, r, i)
  <2>1. /\ c \in Contexts /\ c.scope = {r}
        /\ \A t \in Runs : c.tasks[t] = "same"
    BY FreshFields DEF NothingToWrite
  <2>2. /\ Idle(r) /\ UNCHANGED tasks
        /\ ctx' = [ctx EXCEPT ![r] = c] /\ pc' = [pc EXCEPT ![r] = "loaded"]
    BY <1>2 DEF BeginExecute, Start, NextRun, tables
  <2> HIDE DEF c
  <2> QED
    BY <2>1, <2>2, BeginKeepsTasks
<1>3. ASSUME NEW r \in Runs, NEW q \in Runs, NEW i \in Instances,
             BeginExecuteAfter(r, i, q)
      PROVE  TaskInv'
  BY <1>3, BeginAfterKeepsTasks
<1>4. ASSUME NEW r \in Runs, NEW t \in Runs, NEW d \in Decisions,
             BeginResume(r, t, d)
      PROVE  TaskInv'
  <2> DEFINE i == job[t].inst
             loaded == Load(EmptyContext, r, i)
             verdict == IF tasks[t] = d THEN "same" ELSE d
             c == SetTask(loaded, t, verdict)
  <2>1. i \in Instances
    BY RunTypes
  <2>2. /\ loaded \in Contexts /\ loaded.scope = {r}
        /\ loaded.tasks = NothingToWrite
    BY <2>1, FreshFields
  <2>3. verdict \in {"same"} \cup Decisions
    OBVIOUS
  <2>4. c \in Contexts
    <3>1. verdict \in TaskStatuses \cup {"same"}
      BY DEF TaskStatuses, Decisions
    <3> HIDE DEF loaded, verdict
    <3> QED
      BY <2>2, <3>1, SetTaskType
  <2>5. /\ c.scope = {r}
        /\ c.tasks = [NothingToWrite EXCEPT ![t] = verdict]
    <3> HIDE DEF loaded, verdict
    <3> QED
      BY <2>2 DEF SetTask, Contexts
  <2>6. \A x \in Runs : c.tasks[x] = IF x = t THEN verdict ELSE "same"
    <3> HIDE DEF c, verdict
    <3> QED
      BY <2>5 DEF NothingToWrite
  <2>7. /\ Idle(r) /\ UNCHANGED tasks /\ tasks[t] # "none"
        /\ ctx' = [ctx EXCEPT ![r] = c] /\ pc' = [pc EXCEPT ![r] = "decided"]
    BY <1>4 DEF BeginResume, Start, NextRun, tables
  <2> HIDE DEF c, verdict, i
  <2> QED
    BY <2>3, <2>4, <2>5, <2>6, <2>7, BeginKeepsTasks
<1>5. CASE LoadFails
  BY <1>5, WriteKeepsTasks DEF LoadFails, tables
<1>6. CASE Crash
  BY <1>6, CrashKeepsTasks
<1>7. ASSUME NEW i \in Instances, CreateInstance(i) \/ CancelWrite(i)
      PROVE  TaskInv'
  BY <1>7, WriteKeepsTasks DEF CreateInstance, CancelWrite
<1>8. ASSUME NEW t \in Runs, NEW d \in Decisions, DecideWrite(t, d)
      PROVE  TaskInv'
  BY <1>8, WriteKeepsTasks DEF DecideWrite
<1>9. ASSUME NEW d \in Definitions, NEW g \in Graphs, EditDefinition(d, g)
      PROVE  TaskInv'
  BY <1>9, WriteKeepsTasks DEF EditDefinition, tables
<1>10. CASE UNCHANGED vars
  BY <1>10, WriteKeepsTasks DEF vars
<1> QED
  BY <1>1, <1>2, <1>3, <1>4, <1>5, <1>6, <1>7, <1>8, <1>9, <1>10 DEF Next

\* Initially there is nothing to write and nothing stored.
LEMMA InitTasks == Init => TaskInv
<1> SUFFICES ASSUME Init PROVE TaskInv
  OBVIOUS
<1>1. \A r \in Runs : ctx[r] = EmptyContext /\ tasks[r] = "none"
  BY DEF Init
<1> QED
  BY <1>1, EmptyContextFields
  DEF TaskInv, OneTracker, UnsavedTasks, NotYetAsked, Decisions

\* It holds in every state.
LEMMA TaskInvariant == Spec => []TaskInv
<1>1. Spec => [](TypeOK /\ StatusInv)
  BY StatusInvariant
<1> QED
  BY <1>1, InitTasks, NextKeepsTasks, PTL DEF Spec

\* A decided approval task is never reopened: neither by a save of the run
\* that asked for it, delayed past a crash or carried on in the context of the
\* next run of a batch, nor by any other call.
THEOREM DecisionStayed == Spec => DecisionStays
<1> DEFINE Stays == \A t \in Runs : tasks[t] \in Decisions => tasks'[t] \in Decisions
<1>1. TypeOK /\ StatusInv /\ TaskInv /\ [Next]_vars => [Stays]_vars
  <2> SUFFICES ASSUME TypeOK, StatusInv, TaskInv, Next, NEW t \in Runs,
                      tasks[t] \in Decisions
               PROVE  tasks'[t] \in Decisions
    OBVIOUS
  <2>1. ASSUME NEW r \in Runs, Advance(r) PROVE tasks'[t] \in Decisions
    <3>1. CASE ExecutorThrows(r)
      BY <3>1 DEF ExecutorThrows, tables
    <3>2. ASSUME NEW c \in Contexts, NEW next \in PCs, Saves(r, c, next)
          PROVE  tasks'[t] \in Decisions
      <4>1. CASE Commit(r, c, next)
        BY <3>2, <4>1, CommitDecisions
      <4>2. CASE Refuse(r, c)
        BY <4>2 DEF Refuse, tables
      <4> QED
        BY <3>2, <4>1, <4>2 DEF Saves, Save
    <3> QED
      BY <2>1, <3>1, <3>2, AdvanceSaves DEF StatusInv
  <2>2. ASSUME NEW x \in Runs, NEW d \in Decisions, DecideWrite(x, d)
        PROVE  tasks'[t] \in Decisions
    BY <2>2 DEF DecideWrite, TypeOK
  <2>3. CASE UNCHANGED tasks
    BY <2>3
  <2>4. \/ \E r \in Runs : Advance(r)
        \/ \E x \in Runs, d \in Decisions : DecideWrite(x, d)
        \/ UNCHANGED tasks
    BY DEF Next, BeginExecute, BeginExecuteAfter, BeginResume, Start,
           LoadFails, Crash, CreateInstance, CancelWrite, EditDefinition, tables
  <2> QED
    BY <2>1, <2>2, <2>3, <2>4
<1>2. Spec => [](TypeOK /\ StatusInv)
  BY StatusInvariant
<1>3. Spec => []TaskInv
  BY TaskInvariant
<1>4. Spec => [][Stays]_vars
  BY <1>1, <1>2, <1>3, PTL DEF Spec
<1> QED
  BY <1>4 DEF DecisionStays
=============================================================================
