--------------------------- MODULE RunnerSteps_proofs ---------------------------
(***************************************************************************)
(* Proofs about the step rows of runs and what they explain: that they are *)
(* walks of the graph, that returned runs settle them, and that the ending *)
(* of an instance and its approval tasks have their causes in them.        *)
(***************************************************************************)
EXTENDS RunnerLifecycle_proofs, FiniteSetTheorems

USE DEF Input

(***************************************************************************)
(* Walks.                                                                  *)
(***************************************************************************)
Tip(log) == log[Len(log)]

\* These step rows are a walk of graph g (LogIsWalk, for any log).
IsWalk(g, input, log) ==
    /\ \A k \in 1..Len(log) : log[k].node # NoNode
    /\ log # <<>> => log[1].node = StartNode(g)
    /\ \A k \in 1..Len(log) - 1 :
          /\ log[k].status = "completed"
          /\ ~IsGate(g, log[k].node)
          /\ log[k + 1].node \in Followers(g, input, log[k].node)

\* Node n is where the walk goes next.
Reaches(g, input, log, n) ==
    IF log = <<>> THEN n = StartNode(g)
    ELSE /\ Tip(log).status = "completed"
         /\ ~IsGate(g, Tip(log).node)
         /\ n \in Followers(g, input, Tip(log).node)

\* The walk is over (Walked, for any log).
WalkedLog(g, input, log) ==
    /\ g.valid
    /\ g.nodes # <<>> =>
          /\ log # <<>>
          /\ \A k \in DOMAIN log : log[k].status = "completed"
          /\ ~IsGate(g, Tip(log).node)
          /\ NoNode \in Followers(g, input, Tip(log).node)

\* The walk has come to an approval gate.
GateLast(g, log) == log # <<>> /\ IsGate(g, Tip(log).node)

\* Going on to the next node continues a walk.
LEMMA AppendWalks ==
    ASSUME NEW g, NEW input, NEW log \in Logs, IsWalk(g, input, log), NEW n \in Nat,
           n # NoNode, Reaches(g, input, log, n)
    PROVE  /\ IsWalk(g, input, Append(log, Step(n, "in_progress")))
           /\ Append(log, Step(n, "in_progress")) # <<>>
           /\ Tip(Append(log, Step(n, "in_progress"))) = Step(n, "in_progress")
<1> DEFINE e == Step(n, "in_progress")
           longer == Append(log, e)
           E == [node : Nat, status : {"in_progress", "completed", "failed"}]
<1>1. log \in Seq(E) /\ e \in E /\ e.node = n
  BY DEF Logs, Step
<1>2. Len(log) \in Nat /\ (log = <<>> <=> Len(log) = 0)
  BY <1>1
<1> HIDE DEF e, E
<1>3. /\ longer # <<>> /\ Len(longer) = Len(log) + 1 /\ longer[Len(log) + 1] = e
      /\ \A k \in 1..Len(log) : longer[k] = log[k]
  BY <1>1, AppendProperties
<1> HIDE DEF longer
<1>4. Tip(longer) = e
  BY <1>3 DEF Tip
<1>5. longer[1].node = StartNode(g)
  <2>1. CASE log = <<>>
    BY <1>1, <1>2, <1>3, <2>1 DEF Reaches
  <2>2. CASE log # <<>>
    <3>1. 1 \in 1..Len(log)
      BY <1>2, <2>2
    <3> QED
      BY <1>3, <2>2, <3>1 DEF IsWalk
  <2> QED
    BY <2>1, <2>2
<1>6. ASSUME NEW k \in 1..Len(longer) - 1
      PROVE  /\ longer[k].status = "completed"
             /\ ~IsGate(g, longer[k].node)
             /\ longer[k + 1].node \in Followers(g, input, longer[k].node)
  <2>1. k \in 1..Len(log) /\ longer[k] = log[k]
    BY <1>2, <1>3, <1>6
  <2>2. CASE k = Len(log)
    BY <1>1, <1>2, <1>3, <2>1, <2>2 DEF Reaches, Tip
  <2>3. CASE k # Len(log)
    <3>1. k \in 1..Len(log) - 1 /\ k + 1 \in 1..Len(log)
      BY <1>2, <2>1, <2>3
    <3> QED
      BY <1>3, <2>1, <3>1 DEF IsWalk
  <2> QED
    BY <2>2, <2>3
<1>7. ASSUME NEW k \in 1..Len(longer) PROVE longer[k].node # NoNode
  <2>1. CASE k \in 1..Len(log)
    BY <1>3, <2>1 DEF IsWalk
  <2>2. CASE k \notin 1..Len(log)
    <3>1. k = Len(log) + 1
      BY <1>2, <1>3, <2>2
    <3> QED
      BY <1>1, <1>3, <3>1
  <2> QED
    BY <2>1, <2>2
<1>8. IsWalk(g, input, longer)
  BY <1>5, <1>6, <1>7 DEF IsWalk
<1> QED
  BY <1>3, <1>4, <1>8 DEF longer, e

\* Settling the last step leaves a walk with the same nodes.
LEMMA MarkWalks ==
    ASSUME NEW g, NEW input, NEW log \in Logs, IsWalk(g, input, log), log # <<>>,
           NEW status \in {"completed", "failed"}
    PROVE  /\ IsWalk(g, input, MarkLast(log, status)) /\ MarkLast(log, status) # <<>>
           /\ Tip(MarkLast(log, status)) = Step(Tip(log).node, status)
<1> DEFINE marked == MarkLast(log, status)
           n == Len(log)
           E == [node : Nat, status : {"in_progress", "completed", "failed"}]
<1>1. log \in Seq(E) /\ n \in Nat \ {0} /\ DOMAIN log = 1..n
  BY LenProperties, EmptySeq DEF Logs
<1>n. n \in 1..n /\ n \in Nat \ {0}
  BY <1>1
<1>2. marked = [log EXCEPT ![n] = [log[n] EXCEPT !.status = status]]
  BY <1>1 DEF MarkLast
<1>3. Len(marked) = n
  BY MarkLastType
<1>4. log[n] \in E
  <2> HIDE DEF E
  <2> QED
    BY <1>1, <1>n, ElementOfSeq
<1>5. /\ \A k \in 1..n - 1 : marked[k] = log[k]
      /\ marked[n] = [log[n] EXCEPT !.status = status]
      /\ DOMAIN marked = 1..n
  <2> HIDE DEF n, marked, E
  <2>1. DOMAIN marked = 1..n
    BY <1>1, <1>2
  <2>2. marked[n] = [log[n] EXCEPT !.status = status]
    BY <1>1, <1>n, <1>2
  <2>3. ASSUME NEW k \in 1..n - 1 PROVE marked[k] = log[k]
    <3>1. k \in DOMAIN log /\ k # n
      BY <1>1
    <3> QED
      BY <1>2, <3>1
  <2> QED
    BY <2>1, <2>2, <2>3
<1>6. /\ marked[n].node = log[n].node
      /\ marked[n] = Step(log[n].node, status)
  BY <1>4, <1>5 DEF Step
<1>7. marked # <<>>
  BY <1>1, <1>3
<1> HIDE DEF marked, E
<1>8. ASSUME NEW k \in 1..n PROVE marked[k].node = log[k].node
  <2>1. CASE k = n
    BY <1>6, <2>1
  <2>2. CASE k # n
    <3>1. k \in 1..n - 1
      BY <1>n, <2>2
    <3> QED
      BY <1>5, <3>1
  <2> QED
    BY <2>1, <2>2
<1>9. IsWalk(g, input, marked)
  <2>1. 1 \in 1..n
    BY <1>1
  <2>2. marked[1].node = StartNode(g)
    BY <1>8, <2>1 DEF IsWalk
  <2>3. ASSUME NEW k \in 1..n - 1
        PROVE  /\ marked[k].status = "completed"
               /\ ~IsGate(g, marked[k].node)
               /\ marked[k + 1].node \in Followers(g, input, marked[k].node)
    <3>1. k \in 1..n /\ k + 1 \in 1..n
      BY <1>1, <2>3
    <3> QED
      BY <1>5, <1>8, <3>1 DEF IsWalk
  <2>4. \A k \in 1..n : marked[k].node # NoNode
    BY <1>8 DEF IsWalk
  <2> QED
    BY <1>3, <2>2, <2>3, <2>4 DEF IsWalk
<1> QED
  BY <1>3, <1>6, <1>7, <1>9 DEF Tip, marked

\* Where no node is left to go to, the walk is over.
LEMMA ReachesEnd ==
    ASSUME NEW g \in GraphType, NEW input, NEW log \in Logs, IsWalk(g, input, log),
           Reaches(g, input, log, NoNode), g.valid
    PROVE  WalkedLog(g, input, log)
<1> SUFFICES ASSUME g.nodes # <<>> PROVE WalkedLog(g, input, log)
  BY DEF WalkedLog
<1>1. log # <<>>
  <2> DEFINE N == [id : STRING, label : STRING, type : NodeTypes,
                   config : Configs]
  <2>1. g.nodes \in Seq(N)
    BY DEF GraphType
  <2> HIDE DEF N
  <2>2. Len(g.nodes) \in Nat \ {0} /\ DOMAIN g.nodes = 1..Len(g.nodes)
    BY <2>1, LenProperties, EmptySeq
  <2>3. 1 \in Positions(g)
    BY <2>2 DEF Positions
  <2> QED
    BY <2>3, StartNodeIsANode DEF Reaches
<1>2. ASSUME NEW k \in DOMAIN log PROVE log[k].status = "completed"
  <2>1. k \in 1..Len(log) /\ Len(log) \in Nat
    BY LenProperties DEF Logs
  <2>2. CASE k = Len(log)
    BY <1>1, <2>2 DEF Reaches, Tip
  <2>3. CASE k # Len(log)
    <3>1. k \in 1..Len(log) - 1
      BY <2>1, <2>3
    <3> QED
      BY <3>1 DEF IsWalk
  <2> QED
    BY <2>2, <2>3
<1> QED
  BY <1>1, <1>2 DEF WalkedLog, Reaches

(***************************************************************************)
(* What a save does to the step rows of its run.                           *)
(***************************************************************************)
\* The save takes run r from its place in the loop to the next one, brings
\* its rows to c.steps[r] and its instance's row to the one in c, and leaves
\* what is tracked of other runs alone.
Records(r, c, next) ==
    LET g == job[r].graph
        n == cur[r].node
        m == cur'[r].node
        log == Log(r)
        new == c.steps[r]
        status == c.row[job[r].inst].status
        step == c.row[job[r].inst].step
    IN  /\ next \notin {"execute", "done"} \/ pc[r] = "decided" =>
              step = Row(r).step
        /\ \A x \in Runs : x # r => /\ c.steps[x] = ctx[r].steps[x]
                                    /\ cur'[x] = cur[x]
        /\ \/ pc[r] = "decided" /\ next = "loaded" /\ new = log
           \/ /\ pc[r] = "loaded" /\ next = "next"
              /\ m = StartNode(g) /\ new = log
           \/ /\ pc[r] = "next" /\ next = "execute"
              /\ n # NoNode /\ m = n /\ step = Label(g, n)
              /\ new = Append(log, Step(n, "in_progress"))
           \/ /\ pc[r] = "execute" /\ next = "next"
              /\ ~IsGate(g, n) /\ m \in Followers(g, Input(r), n)
              /\ new = MarkLast(log, "completed")
           \/ /\ pc[r] = "execute" /\ next = "settle"
              /\ IsGate(g, n) /\ m = n /\ new = log /\ c.tasks[r] = "pending"
           \/ /\ pc[r] = "settle" /\ next = "suspend"
              /\ m = n /\ new = MarkLast(log, "completed")
           \/ /\ pc[r] = "decided" /\ next = "done" /\ new = log
              /\ status = "failed" /\ job[r].decision = "rejected"
           \/ /\ pc[r] = "next" /\ next = "done" /\ new = log
              /\ status = "failed" /\ ~g.valid
           \/ /\ pc[r] = "next" /\ next = "done" /\ new = log
              /\ status = "completed" /\ g.valid
              /\ g.nodes = <<>> \/ (n = NoNode /\ step = EndStep)
           \/ /\ pc[r] = "execute" /\ next = "done"
              /\ status = "failed" /\ new = MarkLast(log, "failed")
           \/ /\ pc[r] = "suspend" /\ next = "done" /\ new = log
              /\ status = "waiting_approval"

\* Assigning a row records no step.
LEMMA AssignedSteps ==
    ASSUME TypeOK, NEW r \in Runs, NEW row
    PROVE  WithRow(r, row).steps = ctx[r].steps
<1>1. ctx[r] \in Contexts
  BY RunTypes
<1> QED
  BY <1>1 DEF WithRow, SetRow, Contexts

\* Recording a step changes the rows of one run, and no instance.
LEMMA RecordedSteps ==
    ASSUME NEW c, c.steps \in [Runs -> Logs],
           c = [orig |-> c.orig, row |-> c.row, steps |-> c.steps,
                tasks |-> c.tasks, scope |-> c.scope],
           NEW r \in Runs, NEW log
    PROVE  /\ SetLog(c, r, log).steps[r] = log
           /\ \A x \in Runs : x # r => SetLog(c, r, log).steps[x] = c.steps[x]
           /\ SetLog(c, r, log).row = c.row
<1>1. /\ SetLog(c, r, log).steps = [c.steps EXCEPT ![r] = log]
      /\ SetLog(c, r, log).row = c.row
  BY DEF SetLog
<1> QED
  BY <1>1

\* What a run's step changes of a context.
LEMMA OwnLoggedSteps ==
    ASSUME TypeOK, NEW r \in Runs, NEW log
    PROVE  /\ SetLog(ctx[r], r, log).steps[r] = log
           /\ SetLog(ctx[r], r, log).row = ctx[r].row
           /\ \A x \in Runs : x # r =>
                 SetLog(ctx[r], r, log).steps[x] = ctx[r].steps[x]
<1>1. ctx[r] \in Contexts /\ ctx[r].steps \in [Runs -> Logs]
  BY RunTypes DEF Contexts
<1>2. ctx[r] = [orig |-> ctx[r].orig, row |-> ctx[r].row,
                steps |-> ctx[r].steps, tasks |-> ctx[r].tasks,
                scope |-> ctx[r].scope]
  BY <1>1 DEF Contexts
<1> QED
  BY <1>1, <1>2, RecordedSteps

\* What a run's step, alone or with its instance's row, changes of a context.
LEMMA LoggedSteps ==
    ASSUME TypeOK, NEW r \in Runs, NEW log, NEW row
    PROVE  /\ SetLog(ctx[r], r, log).steps[r] = log
           /\ SetLog(WithRow(r, row), r, log).steps[r] = log
           /\ SetLog(WithRow(r, row), r, log).row = WithRow(r, row).row
           /\ \A x \in Runs : x # r =>
                 /\ SetLog(ctx[r], r, log).steps[x] = ctx[r].steps[x]
                 /\ SetLog(WithRow(r, row), r, log).steps[x] = ctx[r].steps[x]
<1>1. ctx[r] \in Contexts /\ ctx[r].steps \in [Runs -> Logs]
  BY RunTypes DEF Contexts
<1>2. /\ ctx[r] = [orig |-> ctx[r].orig, row |-> ctx[r].row,
                   steps |-> ctx[r].steps, tasks |-> ctx[r].tasks,
                   scope |-> ctx[r].scope]
      /\ WithRow(r, row) = [orig |-> WithRow(r, row).orig,
                            row |-> WithRow(r, row).row,
                            steps |-> WithRow(r, row).steps,
                            tasks |-> WithRow(r, row).tasks,
                            scope |-> WithRow(r, row).scope]
  BY <1>1 DEF WithRow, SetRow, Contexts
<1>3. WithRow(r, row).steps = ctx[r].steps
  BY AssignedSteps
<1> QED
  BY <1>1, <1>2, <1>3, RecordedSteps

\* A run that ends its call without a step keeps its rows.
LEMMA EndingRecords ==
    ASSUME TypeOK, NEW r \in Runs, NEW row \in Rows, UNCHANGED cur,
           \/ /\ pc[r] = "decided" /\ row.status = "failed"
              /\ row.step = Row(r).step /\ job[r].decision = "rejected"
           \/ pc[r] = "next" /\ row.status = "failed" /\ ~job[r].graph.valid
           \/ /\ pc[r] = "next" /\ row.status = "completed"
              /\ job[r].graph.valid
              /\ \/ job[r].graph.nodes = <<>>
                 \/ cur[r].node = NoNode /\ row.step = EndStep
           \/ pc[r] = "suspend" /\ row.status = "waiting_approval"
    PROVE  Records(r, WithRow(r, row), "done")
<1>1. /\ WithRow(r, row).steps = ctx[r].steps
      /\ WithRow(r, row).row[job[r].inst] = row
  BY AssignedSteps, WithRowFields
<1> QED
  BY <1>1 DEF Records, Log

\* Every step of a run is such a save, or an exception out of an executor.
LEMMA AdvanceRecords ==
    ASSUME TypeOK, SavedInv, DecidedInv, NEW r \in Runs, Advance(r)
    PROVE  \/ ExecutorThrows(r)
           \/ \E c \in Contexts, next \in PCs :
                 Saves(r, c, next) /\ Records(r, c, next)
<1> DEFINE Goal == \E c \in Contexts, next \in PCs :
                      Saves(r, c, next) /\ Records(r, c, next)
<1> USE DEF PCs, Live, Lost
<1>a. /\ Row(r) \in Rows /\ Log(r) \in Logs /\ ctx[r] \in Contexts
      /\ cur \in [Runs -> [node : Nat, payload : Payloads]]
  BY RunTypes DEF TypeOK
<1>1. ASSUME SaveRejection(r) PROVE Goal
  <2> DEFINE row == [Row(r) EXCEPT !.status = "failed", !.error = "rejected",
                                   !.completed_at = TRUE]
  <2>1. row \in Rows /\ row.status = "failed"
    BY <1>a, AssignedRows, AssignedStatus DEF Causes
  <2>s. row.step = Row(r).step
    BY <1>a DEF Rows
  <2>2. /\ pc[r] = "decided" /\ job[r].decision = "rejected"
        /\ UNCHANGED job /\ UNCHANGED cur
        /\ Save(r, WithRow(r, row), "done")
    BY <1>1 DEF SaveRejection
  <2> HIDE DEF row
  <2>3. Saves(r, WithRow(r, row), "done")
    BY <2>1, <2>2, EndingSaves DEF Endings
  <2>4. Records(r, WithRow(r, row), "done")
    BY <2>1, <2>s, <2>2, EndingRecords
  <2> QED
    BY <2>1, <2>3, <2>4, WithRowType
<1>2. ASSUME SaveApproval(r) PROVE Goal
  <2> DEFINE row == [Row(r) EXCEPT !.status = "running"]
  <2>1. row \in Rows /\ row.status = "running"
    BY <1>a, AssignedRows, AssignedStatus
  <2>s. row.step = Row(r).step
    BY <1>a DEF Rows
  <2>2. /\ pc[r] = "decided" /\ UNCHANGED job /\ UNCHANGED cur
        /\ Save(r, WithRow(r, row), "loaded")
    BY <1>2 DEF SaveApproval
  <2> HIDE DEF row
  <2>3. Saves(r, WithRow(r, row), "loaded")
    BY <2>1, <2>2, WithRowFields DEF Saves, DecidedInv
  <2>4. Records(r, WithRow(r, row), "loaded")
    <3>1. /\ WithRow(r, row).steps = ctx[r].steps
          /\ WithRow(r, row).row[job[r].inst] = row
      BY <2>1, AssignedSteps, WithRowFields
    <3> QED
      BY <2>2, <2>s, <3>1 DEF Records, Log
  <2> QED
    BY <2>1, <2>3, <2>4, WithRowType
<1>3. ASSUME SaveRunning(r) PROVE Goal
  <2> DEFINE row == [Row(r) EXCEPT !.status = "running"]
  <2>1. row \in Rows /\ row.status = "running"
    BY <1>a, AssignedRows, AssignedStatus
  <2>s. row.step = Row(r).step
    BY <1>a DEF Rows
  <2>2. /\ pc[r] = "loaded" /\ UNCHANGED job
        /\ Save(r, WithRow(r, row), "next")
        /\ cur'[r].node = StartNode(job[r].graph)
        /\ \A x \in Runs : x # r => cur'[x] = cur[x]
    BY <1>a, <1>3 DEF SaveRunning
  <2> HIDE DEF row
  <2>3. Saves(r, WithRow(r, row), "next")
    BY <2>1, <2>2, WithRowFields DEF Saves
  <2>4. Records(r, WithRow(r, row), "next")
    <3>1. /\ WithRow(r, row).steps = ctx[r].steps
          /\ WithRow(r, row).row[job[r].inst] = row
      BY <2>1, AssignedSteps, WithRowFields
    <3> QED
      BY <2>2, <2>s, <3>1 DEF Records, Log
  <2> QED
    BY <2>1, <2>3, <2>4, WithRowType
<1>4. ASSUME SaveSchemaFailure(r) PROVE Goal
  <2> DEFINE row == [Row(r) EXCEPT !.status = "failed", !.error = "schema",
                                   !.completed_at = TRUE]
  <2>1. row \in Rows /\ row.status = "failed"
    BY <1>a, AssignedRows, AssignedStatus DEF Causes
  <2>2. /\ pc[r] = "next" /\ ~job[r].graph.valid
        /\ UNCHANGED job /\ UNCHANGED cur
        /\ Save(r, WithRow(r, row), "done")
    BY <1>4 DEF SaveSchemaFailure
  <2> HIDE DEF row
  <2>3. Saves(r, WithRow(r, row), "done")
    BY <2>1, <2>2, EndingSaves DEF Endings
  <2>4. Records(r, WithRow(r, row), "done")
    BY <2>1, <2>2, EndingRecords
  <2> QED
    BY <2>1, <2>3, <2>4, WithRowType
<1>5. ASSUME SaveEmptyCompletion(r) PROVE Goal
  <2> DEFINE row == [Row(r) EXCEPT !.status = "completed",
                                   !.completed_at = TRUE]
  <2>1. row \in Rows /\ row.status = "completed"
    BY <1>a, AssignedRows, AssignedStatus
  <2>2. /\ pc[r] = "next" /\ job[r].graph.valid
        /\ job[r].graph.nodes = <<>> /\ UNCHANGED job /\ UNCHANGED cur
        /\ Save(r, WithRow(r, row), "done")
    BY <1>5 DEF SaveEmptyCompletion
  <2> HIDE DEF row
  <2>3. Saves(r, WithRow(r, row), "done")
    BY <2>1, <2>2, EndingSaves DEF Endings
  <2>4. Records(r, WithRow(r, row), "done")
    BY <2>1, <2>2, EndingRecords
  <2> QED
    BY <2>1, <2>3, <2>4, WithRowType
<1>6. ASSUME EnterNode(r) PROVE Goal
  <2> DEFINE label == Label(job[r].graph, cur[r].node)
             row == [Row(r) EXCEPT !.step = label]
             log == Append(Log(r), Step(cur[r].node, "in_progress"))
             c == SetLog(WithRow(r, row), r, log)
  <2>1. /\ pc[r] = "next" /\ cur[r].node # NoNode /\ UNCHANGED job
        /\ UNCHANGED cur /\ Save(r, c, "execute")
    BY <1>6 DEF EnterNode
  <2>a. label \in STRING
    BY <1>6, EnteredLabel DEF EnterNode
  <2> HIDE DEF label
  <2>2. row \in Rows
    BY <1>a, <2>a, LabelledRow
  <2>3. row.status = "running" /\ row.step = label
    BY <1>a, <2>1 DEF SavedInv, Working, Rows
  <2>4. log \in Logs
    BY <1>a, RunTypes DEF Logs, Step
  <2> HIDE DEF row, log
  <2>5. /\ WithRow(r, row) \in Contexts
        /\ WithRow(r, row).row[job[r].inst] = row
    BY <2>2, WithRowType, WithRowFields
  <2>6. c \in Contexts
    BY <2>4, <2>5, SetLogType
  <2>7. /\ c.row = WithRow(r, row).row /\ c.orig = WithRow(r, row).orig
        /\ c.scope = WithRow(r, row).scope /\ c.tasks = WithRow(r, row).tasks
    BY <2>5, SetLogFields
  <2>8. /\ c.steps[r] = log
        /\ \A x \in Runs : x # r => c.steps[x] = ctx[r].steps[x]
    BY LoggedSteps
  <2> HIDE DEF c
  <2>9. Saves(r, c, "execute")
    BY <2>1, <2>2, <2>3, <2>7, WithRowFields DEF Saves
  <2>10. Records(r, c, "execute")
    BY <2>1, <2>3, <2>5, <2>7, <2>8 DEF Records, log, label
  <2> QED
    BY <2>6, <2>9, <2>10
<1>7. ASSUME pc[r] = "execute", ~IsGate(job[r].graph, cur[r].node),
             NEW payload, NEW goto \in Gotos(job[r].graph, Input(r), cur[r].node),
             StepSucceeds(r, goto, payload)
      PROVE  Goal
  <2> DEFINE c == SetLog(ctx[r], r, MarkLast(Log(r), "completed"))
  <2>1. Saves(r, c, "next")
    BY <1>7, LoggingSaves DEF StepSucceeds
  <2>2. c \in Contexts
    BY <1>a, MarkLastType, SetLogType
  <2>3. /\ c.steps[r] = MarkLast(Log(r), "completed") /\ c.row = ctx[r].row
        /\ \A x \in Runs : x # r => c.steps[x] = ctx[r].steps[x]
    BY OwnLoggedSteps
  <2>4. /\ cur'[r].node = NextNode(job[r].graph, cur[r].node, goto)
        /\ \A x \in Runs : x # r => cur'[x] = cur[x]
    BY <1>a, <1>7 DEF StepSucceeds
  <2>5. cur'[r].node \in Followers(job[r].graph, Input(r), cur[r].node)
    BY <2>4 DEF Followers
  <2> HIDE DEF c
  <2>6. Records(r, c, "next")
    BY <1>7, <2>3, <2>4, <2>5 DEF Records, Row
  <2> QED
    BY <2>1, <2>2, <2>6
<1>8. ASSUME pc[r] = "execute", StepFails(r) PROVE Goal
  <2> DEFINE row == [Row(r) EXCEPT !.status = "failed", !.error = "step",
                                   !.completed_at = TRUE]
             log == MarkLast(Log(r), "failed")
             c == SetLog(WithRow(r, row), r, log)
  <2>1. Save(r, c, "done") /\ UNCHANGED job /\ UNCHANGED cur
    BY <1>8 DEF StepFails
  <2>2. row \in Rows /\ row.status = "failed"
    BY <1>a, AssignedRows, AssignedStatus DEF Causes
  <2>3. log \in Logs
    BY <1>a, MarkLastType
  <2> HIDE DEF row, log
  <2>4. c \in Contexts
    BY <2>2, <2>3, WithRowType, SetLogType
  <2>5. Saves(r, c, "done")
    BY <1>8, <2>1, <2>2, <2>4, EndingLoggingSaves DEF Endings
  <2>6. /\ c.steps[r] = log /\ c.row[job[r].inst] = row
        /\ \A x \in Runs : x # r => c.steps[x] = ctx[r].steps[x]
    BY <2>2, LoggedSteps, WithRowFields
  <2> HIDE DEF c
  <2>7. Records(r, c, "done")
    BY <1>8, <2>1, <2>2, <2>6 DEF Records, log
  <2> QED
    BY <2>4, <2>5, <2>7
<1>9. ASSUME CreateTask(r) PROVE Goal
  <2> DEFINE c == SetTask(ctx[r], r, "pending")
  <2>1. /\ pc[r] = "execute" /\ IsGate(job[r].graph, cur[r].node)
        /\ UNCHANGED job /\ UNCHANGED cur /\ Save(r, c, "settle")
    BY <1>9 DEF CreateTask, Executing, IsGate
  <2>2. /\ c.row = ctx[r].row /\ c.orig = ctx[r].orig
        /\ c.scope = ctx[r].scope /\ c.steps = ctx[r].steps
        /\ c.tasks = [ctx[r].tasks EXCEPT ![r] = "pending"]
    BY <1>a DEF SetTask, Contexts
  <2>3. ctx[r].row[job[r].inst].status = "running"
    BY <2>1 DEF SavedInv, Working, Row
  <2>4. c \in Contexts
    BY <1>a, SetTaskType DEF TaskStatuses
  <2>5. c.tasks[r] = "pending"
    BY <1>a, <2>2 DEF Contexts
  <2> HIDE DEF c
  <2>6. Saves(r, c, "settle")
    BY <2>1, <2>2, <2>3 DEF Saves
  <2>7. Records(r, c, "settle")
    BY <2>1, <2>2, <2>5 DEF Records, Log, Row
  <2> QED
    BY <2>4, <2>6, <2>7
<1>10. ASSUME SettleGate(r) PROVE Goal
  <2> DEFINE c == SetLog(ctx[r], r, MarkLast(Log(r), "completed"))
  <2>1. pc[r] = "settle" /\ UNCHANGED cur
    BY <1>10 DEF SettleGate
  <2>2. Saves(r, c, "suspend")
    BY <1>10, LoggingSaves DEF SettleGate
  <2>3. c \in Contexts
    BY <1>a, MarkLastType, SetLogType
  <2>4. /\ c.steps[r] = MarkLast(Log(r), "completed") /\ c.row = ctx[r].row
        /\ \A x \in Runs : x # r => c.steps[x] = ctx[r].steps[x]
    BY OwnLoggedSteps
  <2> HIDE DEF c
  <2>5. Records(r, c, "suspend")
    BY <2>1, <2>4 DEF Records, Row
  <2> QED
    BY <2>2, <2>3, <2>5
<1>11. ASSUME Suspend(r) PROVE Goal
  <2> DEFINE row == [Row(r) EXCEPT !.status = "waiting_approval"]
  <2>1. row \in Rows /\ row.status = "waiting_approval"
    BY <1>a, AssignedRows, AssignedStatus
  <2>2. /\ pc[r] = "suspend" /\ UNCHANGED job /\ UNCHANGED cur
        /\ Save(r, WithRow(r, row), "done")
    BY <1>11 DEF Suspend
  <2> HIDE DEF row
  <2>3. Saves(r, WithRow(r, row), "done")
    BY <2>1, <2>2, EndingSaves DEF Endings
  <2>4. Records(r, WithRow(r, row), "done")
    BY <2>1, <2>2, EndingRecords
  <2> QED
    BY <2>1, <2>3, <2>4, WithRowType
<1>12. ASSUME Finish(r) PROVE Goal
  <2> DEFINE row == [Row(r) EXCEPT !.status = "completed",
                                   !.completed_at = TRUE, !.step = EndStep]
  <2>1. row \in Rows /\ row.status = "completed"
    BY <1>a, AssignedRows, AssignedStatus
  <2>s. row.step = EndStep
    BY <1>a DEF Rows
  <2>2. /\ pc[r] = "next" /\ job[r].graph.valid /\ cur[r].node = NoNode
        /\ UNCHANGED job /\ UNCHANGED cur
        /\ Save(r, WithRow(r, row), "done")
    BY <1>12 DEF Finish
  <2> HIDE DEF row
  <2>3. Saves(r, WithRow(r, row), "done")
    BY <2>1, <2>2, EndingSaves DEF Endings
  <2>4. Records(r, WithRow(r, row), "done")
    BY <2>1, <2>s, <2>2, EndingRecords
  <2> QED
    BY <2>1, <2>3, <2>4, WithRowType
<1> HIDE DEF Goal
<1>13. ASSUME NEW type \in {"trigger", "http_webhook", "notification"},
              Executing(r, type)
       PROVE  /\ pc[r] = "execute" /\ ~IsGate(job[r].graph, cur[r].node)
              /\ "" \in Gotos(job[r].graph, Input(r), cur[r].node)
  BY <1>13 DEF Executing, IsGate, Gotos
<1>14. ASSUME RunTrigger(r) \/ RunWebhook(r) \/ RunNotification(r) PROVE Goal
  BY <1>7, <1>8, <1>13, <1>14 DEF RunTrigger, RunWebhook, RunNotification
<1>15. ASSUME RunCondition(r) PROVE Goal
  <2>1. /\ pc[r] = "execute" /\ ~IsGate(job[r].graph, cur[r].node)
        /\ Executor(job[r].graph, cur[r].node) = "condition"
    BY <1>15 DEF RunCondition, Executing, IsGate
  <2>2. CASE Config(r).kind = "object"
    <3>1. Branch(Config(r), cur[r].payload) \in Gotos(job[r].graph, Input(r), cur[r].node)
      <4>1. Agrees(cur[r].payload, Input(r))
        BY <2>1 DEF TypeOK, InputKept, Idle
      <4> QED
        BY <2>1, <2>2, <4>1, BranchIsAGoto DEF Config
    <3> QED
      BY <1>7, <1>15, <2>1, <2>2, <3>1 DEF RunCondition
  <2>3. CASE Config(r).kind # "object"
    <3>1. "" \in Gotos(job[r].graph, Input(r), cur[r].node)
      BY <2>3 DEF Config, Gotos
    <3> QED
      BY <1>7, <1>8, <1>15, <2>1, <2>3, <3>1 DEF RunCondition
  <2> QED
    BY <2>2, <2>3
<1>16. Goal \/ ExecutorThrows(r)
  BY <1>1, <1>2, <1>3, <1>4, <1>5, <1>6, <1>9, <1>10, <1>11, <1>12, <1>14, <1>15
  DEF Advance
<1> QED
  BY <1>16 DEF Goal

(***************************************************************************)
(* The step rows of all runs, in memory and in the table.                  *)
(***************************************************************************)
\* What a context holds of a run's rows is a walk of the run's graph.
MemoryInv ==
    \A q, x \in Runs :
        /\ IsWalk(job[x].graph, Input(x), ctx[q].steps[x])
        /\ ctx[q].steps[x] # <<>> => x \in ctx[q].scope

\* So is what the table holds.
StoredInv ==
    \A x \in Runs :
        /\ IsWalk(job[x].graph, Input(x), steps[x])
        /\ Idle(x) => steps[x] = <<>>

\* Where a run in the loop stands in its walk: log its rows, n its node.
Placed(g, input, at, log, n) ==
    /\ at \in {"loaded", "decided"} => log = <<>>
    /\ at = "next" => Reaches(g, input, log, n)
    /\ at \in {"execute", "settle"} =>
          log # <<>> /\ Tip(log) = Step(n, "in_progress")
    /\ at = "suspend" => log # <<>> /\ Tip(log) = Step(n, "completed")
    /\ at \in {"settle", "suspend"} => IsGate(g, n)

\* A run that goes on has its rows stored as it holds them.
PlacedInv ==
    \A r \in Runs :
        pc[r] \in Live =>
            steps[r] = Log(r) /\ Placed(job[r].graph, Input(r), pc[r], Log(r), cur[r].node)

\* A run that returned left no step in progress.
SettledInv ==
    \A r \in Runs :
        pc[r] = "done" /\ steps[r] # <<>> => Tip(steps[r]).status # "in_progress"

LogInv == MemoryInv /\ StoredInv /\ PlacedInv /\ SettledInv

\* A save brings a run's walk from its place in the loop to the next.
LEMMA RecordedWalk ==
    ASSUME TypeOK, LogInv, NEW r \in Runs, NEW c \in Contexts,
           NEW next \in PCs, Saves(r, c, next), Records(r, c, next)
    PROVE  /\ IsWalk(job[r].graph, Input(r), c.steps[r])
           /\ Placed(job[r].graph, Input(r), next, c.steps[r], cur'[r].node)
           /\ next = "done" /\ c.steps[r] # <<>> =>
                 Tip(c.steps[r]).status # "in_progress"
<1> DEFINE g == job[r].graph
           n == cur[r].node
           log == Log(r)
<1>1. /\ log \in Logs /\ n \in Nat /\ IsWalk(g, Input(r), log) /\ Placed(g, Input(r), pc[r], log, n)
      /\ pc[r] \in Live
  BY RunTypes DEF TypeOK, LogInv, MemoryInv, PlacedInv, Log, Saves
<1>2. \A status : /\ Step(n, status).status = status
                  /\ Step(n, status).node = n
  BY DEF Step
<1>3. CASE pc[r] = "decided"
  BY <1>1, <1>3 DEF Records, Placed
<1>4. CASE pc[r] = "loaded"
  BY <1>1, <1>4 DEF Records, Placed, Reaches
<1>5. CASE pc[r] = "next" /\ next = "execute"
  <2>1. /\ c.steps[r] = Append(log, Step(n, "in_progress")) /\ n # NoNode
        /\ cur'[r].node = n /\ Reaches(g, Input(r), log, n)
    BY <1>1, <1>5 DEF Records, Placed
  <2> HIDE DEF g, n, log
  <2>2. /\ IsWalk(g, Input(r), c.steps[r]) /\ c.steps[r] # <<>>
        /\ Tip(c.steps[r]) = Step(n, "in_progress")
    BY <1>1, <2>1, AppendWalks
  <2> QED
    BY <1>5, <2>1, <2>2 DEF Placed, g
<1>6. CASE pc[r] = "next" /\ next # "execute"
  <2>1. c.steps[r] = log /\ next = "done" /\ Reaches(g, Input(r), log, n)
    BY <1>1, <1>6 DEF Records, Placed
  <2> QED
    BY <1>1, <2>1 DEF Placed, Reaches
<1>7. CASE pc[r] = "execute"
  <2>1. log # <<>> /\ Tip(log) = Step(n, "in_progress")
    BY <1>1, <1>7 DEF Placed
  <2>2. CASE next = "settle"
    <3>1. /\ c.steps[r] = log /\ cur'[r].node = n /\ IsGate(g, n)
      BY <1>7, <2>2 DEF Records
    <3> QED
      BY <1>1, <2>1, <2>2, <3>1 DEF Placed
  <2>3. CASE next = "next"
    <3>1. /\ c.steps[r] = MarkLast(log, "completed") /\ ~IsGate(g, n)
          /\ cur'[r].node \in Followers(g, Input(r), n)
      BY <1>7, <2>3 DEF Records
    <3>2. /\ IsWalk(g, Input(r), c.steps[r]) /\ c.steps[r] # <<>>
          /\ Tip(c.steps[r]) = Step(n, "completed")
      <4> HIDE DEF g, n, log
      <4> QED
        BY <1>1, <1>2, <2>1, <3>1, MarkWalks
    <3> QED
      BY <1>2, <2>3, <3>1, <3>2 DEF Placed, Reaches
  <2>4. CASE next = "done"
    <3>1. c.steps[r] = MarkLast(log, "failed")
      BY <1>7, <2>4 DEF Records
    <3>2. /\ IsWalk(g, Input(r), c.steps[r]) /\ c.steps[r] # <<>>
          /\ Tip(c.steps[r]) = Step(n, "failed")
      <4> HIDE DEF g, n, log
      <4> QED
        BY <1>1, <1>2, <2>1, <3>1, MarkWalks
    <3> QED
      BY <1>2, <2>4, <3>2 DEF Placed
  <2> QED
    BY <1>7, <2>2, <2>3, <2>4 DEF Records
<1>8. CASE pc[r] = "settle"
  <2>1. log # <<>> /\ Tip(log) = Step(n, "in_progress") /\ IsGate(g, n)
    BY <1>1, <1>8 DEF Placed
  <2>2. /\ next = "suspend" /\ cur'[r].node = n
        /\ c.steps[r] = MarkLast(log, "completed")
    BY <1>8 DEF Records
  <2>3. /\ IsWalk(g, Input(r), c.steps[r]) /\ c.steps[r] # <<>>
        /\ Tip(c.steps[r]) = Step(n, "completed")
    <3> HIDE DEF g, n, log
    <3>1. /\ IsWalk(g, Input(r), MarkLast(log, "completed"))
          /\ MarkLast(log, "completed") # <<>>
          /\ Tip(MarkLast(log, "completed")) = Step(Tip(log).node, "completed")
      BY <1>1, <2>1, MarkWalks
    <3> QED
      BY <1>2, <2>1, <2>2, <3>1
  <2> QED
    BY <2>1, <2>2, <2>3 DEF Placed
<1>9. CASE pc[r] = "suspend"
  <2>1. next = "done" /\ c.steps[r] = log
    BY <1>9 DEF Records
  <2>2. Tip(log).status = "completed"
    BY <1>1, <1>2, <1>9 DEF Placed
  <2> QED
    BY <1>1, <2>1, <2>2 DEF Placed
<1> QED
  BY <1>1, <1>3, <1>4, <1>5, <1>6, <1>7, <1>8, <1>9 DEF Live

\* What else a save leaves of the rows tracked by its context.
LEMMA SavedLogs ==
    ASSUME TypeOK, StatusInv, LogInv, NEW r \in Runs, NEW c \in Contexts,
           NEW next \in PCs, Saves(r, c, next), Records(r, c, next),
           NEW x \in Runs
    PROVE  /\ IsWalk(job[x].graph, Input(x), c.steps[x])
           /\ c.steps[x] # <<>> => x \in c.scope
           /\ x # r /\ x \in c.scope => pc[x] = "dead"
<1>1. c.scope = ctx[r].scope /\ r \in c.scope
  BY DEF StatusInv, ScopeInv, Saves
<1>2. CASE x = r
  BY <1>1, <1>2, RecordedWalk
<1>3. CASE x # r
  <2>1. c.steps[x] = ctx[r].steps[x]
    BY <1>3 DEF Records
  <2> QED
    BY <1>1, <1>3, <2>1 DEF LogInv, MemoryInv, StatusInv, ScopeInv
<1> QED
  BY <1>2, <1>3

\* What a committed save does to the table of steps.
LEMMA CommitSteps ==
    ASSUME TypeOK, NEW r \in Runs, NEW c \in Contexts, NEW next \in PCs,
           Commit(r, c, next), NEW x \in Runs
    PROVE  /\ steps'[x] = IF x \in c.scope THEN c.steps[x] ELSE steps[x]
           /\ ctx'[r].steps[x] = IF next = "done" THEN <<>> ELSE c.steps[x]
           /\ ctx'[r].scope = IF next = "done" THEN {} ELSE c.scope
  BY DEF Commit, TypeOK, Contexts, EmptyContext

\* A committed save keeps the invariant.
LEMMA CommitKeepsLogs ==
    ASSUME TypeOK, StatusInv, LogInv, NEW r \in Runs, NEW c \in Contexts,
           NEW next \in PCs, Saves(r, c, next), Records(r, c, next),
           Commit(r, c, next)
    PROVE  LogInv'
<1>1. /\ job' = job /\ pc'[r] = next /\ pc[r] \in Live /\ next # "idle"
      /\ \A q \in Runs : q # r => pc'[q] = pc[q] /\ ctx'[q] = ctx[q]
  BY CommitRuns DEF Saves
<1>2. r \in c.scope
  BY DEF StatusInv, ScopeInv, Saves
<1>3. \A g, input : IsWalk(g, input, <<>>)
  BY DEF IsWalk
<1>4. MemoryInv'
  <2> SUFFICES ASSUME NEW q \in Runs, NEW x \in Runs
               PROVE  /\ IsWalk(job[x].graph, Input(x), ctx'[q].steps[x])
                      /\ ctx'[q].steps[x] # <<>> => x \in ctx'[q].scope
    BY <1>1 DEF MemoryInv
  <2>1. CASE q # r
    BY <1>1, <2>1 DEF LogInv, MemoryInv
  <2>2. CASE q = r
    BY <1>3, <2>2, CommitSteps, SavedLogs
  <2> QED
    BY <2>1, <2>2
<1>5. StoredInv'
  <2> SUFFICES ASSUME NEW x \in Runs
               PROVE  /\ IsWalk(job[x].graph, Input(x), steps'[x])
                      /\ pc'[x] = "idle" => steps'[x] = <<>>
    BY <1>1 DEF StoredInv, Idle
  <2>1. IsWalk(job[x].graph, Input(x), steps'[x])
    BY CommitSteps, SavedLogs DEF LogInv, StoredInv
  <2>2. ASSUME pc'[x] = "idle" PROVE steps'[x] = <<>>
    <3>1. x # r /\ pc[x] = "idle"
      BY <1>1, <2>2
    <3>2. x \notin c.scope
      BY <3>1, SavedLogs
    <3> QED
      BY <3>1, <3>2, CommitSteps DEF LogInv, StoredInv, Idle
  <2> QED
    BY <2>1, <2>2
<1>6. PlacedInv'
  <2> SUFFICES ASSUME NEW q \in Runs, pc'[q] \in Live
               PROVE  /\ steps'[q] = Log(q)'
                      /\ Placed(job[q].graph, Input(q), pc'[q], Log(q)', cur'[q].node)
    BY <1>1 DEF PlacedInv
  <2>1. CASE q = r
    <3>1. next # "done" /\ Log(r)' = c.steps[r] /\ steps'[r] = c.steps[r]
      BY <1>1, <1>2, <2>1, CommitSteps DEF Live, Log
    <3> QED
      BY <1>1, <2>1, <3>1, RecordedWalk
  <2>2. CASE q # r
    <3>1. /\ pc'[q] = pc[q] /\ Log(q)' = Log(q) /\ cur'[q] = cur[q]
      BY <1>1, <2>2 DEF Log, Records
    <3>2. q \notin c.scope
      BY <2>2, <3>1, SavedLogs DEF Live
    <3>3. steps'[q] = steps[q]
      BY <3>2, CommitSteps
    <3> QED
      BY <3>1, <3>3 DEF LogInv, PlacedInv
  <2> QED
    BY <2>1, <2>2
<1>7. SettledInv'
  <2> SUFFICES ASSUME NEW q \in Runs, pc'[q] = "done", steps'[q] # <<>>
               PROVE  Tip(steps'[q]).status # "in_progress"
    BY DEF SettledInv
  <2>1. CASE q = r
    <3>1. next = "done" /\ steps'[r] = c.steps[r]
      BY <1>1, <1>2, <2>1, CommitSteps
    <3> QED
      BY <2>1, <3>1, RecordedWalk
  <2>2. CASE q # r
    <3>1. pc[q] = "done"
      BY <1>1, <2>2
    <3>2. q \notin c.scope
      BY <2>2, <3>1, SavedLogs
    <3>3. steps'[q] = steps[q]
      BY <3>2, CommitSteps
    <3> QED
      BY <3>1, <3>3 DEF LogInv, SettledInv
  <2> QED
    BY <2>1, <2>2
<1> QED
  BY <1>4, <1>5, <1>6, <1>7 DEF LogInv

\* So does an exception that ends a run: the table is as it was.
LEMMA AbortKeepsLogs ==
    ASSUME TypeOK, LogInv, NEW r \in Runs, NEW c, pc[r] \in Live,
           pc' = [pc EXCEPT ![r] = "aborted"], ctx' = [ctx EXCEPT ![r] = c],
           UNCHANGED <<steps, job>>,
           \A q \in Runs : q # r => cur'[q] = cur[q],
           \A x \in Runs : /\ IsWalk(job[x].graph, Input(x), c.steps[x])
                           /\ c.steps[x] # <<>> => x \in c.scope
    PROVE  LogInv'
<1> USE DEF Live
<1>1. /\ \A q \in Runs : q # r => pc'[q] = pc[q] /\ ctx'[q] = ctx[q]
      /\ pc'[r] = "aborted" /\ ctx'[r] = c /\ steps' = steps /\ job' = job
  BY DEF TypeOK
<1>2. MemoryInv'
  <2> SUFFICES ASSUME NEW q \in Runs, NEW x \in Runs
               PROVE  /\ IsWalk(job[x].graph, Input(x), ctx'[q].steps[x])
                      /\ ctx'[q].steps[x] # <<>> => x \in ctx'[q].scope
    BY <1>1 DEF MemoryInv
  <2>1. CASE q = r
    <3>1. ctx'[q] = c
      BY <1>1, <2>1
    <3>2. /\ IsWalk(job[x].graph, Input(x), c.steps[x])
          /\ c.steps[x] # <<>> => x \in c.scope
      OBVIOUS
    <3> QED
      BY ONLY <3>1, <3>2
  <2>2. CASE q # r
    BY <1>1, <2>2 DEF LogInv, MemoryInv
  <2> QED
    BY <2>1, <2>2
<1>3. StoredInv'
  BY <1>1 DEF LogInv, StoredInv, Idle
<1>4. PlacedInv'
  BY <1>1 DEF LogInv, PlacedInv, Log
<1>5. SettledInv'
  BY <1>1 DEF LogInv, SettledInv
<1> QED
  BY <1>2, <1>3, <1>4, <1>5 DEF LogInv

\* A step of a run keeps the invariant.
LEMMA AdvanceKeepsLogs ==
    ASSUME TypeOK, StatusInv, LogInv, NEW r \in Runs, Advance(r)
    PROVE  LogInv'
<1>1. CASE ExecutorThrows(r)
  <2>1. /\ pc[r] \in Live /\ pc' = [pc EXCEPT ![r] = "aborted"]
        /\ UNCHANGED <<steps, job>> /\ UNCHANGED cur
    BY <1>1 DEF ExecutorThrows, Executing, tables, Live
  <2>2. ctx' = [ctx EXCEPT ![r] = ctx[r]]
    BY <1>1 DEF ExecutorThrows, TypeOK
  <2>3. \A x \in Runs : /\ IsWalk(job[x].graph, Input(x), ctx[r].steps[x])
                        /\ ctx[r].steps[x] # <<>> => x \in ctx[r].scope
    BY DEF LogInv, MemoryInv
  <2> QED
    BY <2>1, <2>2, <2>3, AbortKeepsLogs
<1>2. ASSUME NEW c \in Contexts, NEW next \in PCs, Saves(r, c, next),
             Records(r, c, next)
      PROVE  LogInv'
  <2>1. CASE Commit(r, c, next)
    BY <1>2, <2>1, CommitKeepsLogs
  <2>2. CASE Refuse(r, c)
    <3>1. /\ pc' = [pc EXCEPT ![r] = "aborted"] /\ ctx' = [ctx EXCEPT ![r] = c]
          /\ UNCHANGED <<steps, job>> /\ pc[r] \in Live
      BY <1>2, <2>2 DEF Refuse, Saves, tables
    <3>2. \A q \in Runs : q # r => cur'[q] = cur[q]
      BY <1>2 DEF Records
    <3>3. \A x \in Runs : /\ IsWalk(job[x].graph, Input(x), c.steps[x])
                          /\ c.steps[x] # <<>> => x \in c.scope
      BY <1>2, SavedLogs
    <3> QED
      BY <3>1, <3>2, <3>3, AbortKeepsLogs
  <2> QED
    BY <1>2, <2>1, <2>2 DEF Saves, Save
<1> QED
  BY <1>1, <1>2, AdvanceRecords DEF StatusInv

\* A call that begins holds no rows but those a lost run of its batch left.
LEMMA BeginKeepsLogs ==
    ASSUME TypeOK, StatusInv, LogInv, NEW r \in Runs, Idle(r),
           UNCHANGED steps, pc'[r] \in {"loaded", "decided"}, Log(r)' = <<>>,
           \A x \in Runs : x # r =>
              /\ job'[x] = job[x] /\ cur'[x] = cur[x]
              /\ \/ pc'[x] = pc[x] /\ ctx'[x] = ctx[x]
                 \/ pc'[x] = "dead",
           \A p, x \in Runs :
              \/ ctx'[p].steps[x] = <<>>
              \/ /\ x \in ctx'[p].scope
                 /\ \E q \in Runs : /\ ctx[q].steps[x] = ctx'[p].steps[x]
                                    /\ x \in ctx[q].scope
    PROVE  LogInv'
<1> USE DEF Live
<1>1. \A g, input : IsWalk(g, input, <<>>)
  BY DEF IsWalk
<1>2. pc[r] = "idle" /\ \A q \in Runs : r \notin ctx[q].scope
  BY DEF StatusInv, ScopeInv, Idle
<1>3. steps[r] = <<>> /\ steps' = steps
  BY DEF LogInv, StoredInv
<1>4. MemoryInv'
  <2> SUFFICES ASSUME NEW p \in Runs, NEW x \in Runs, ctx'[p].steps[x] # <<>>
               PROVE  /\ IsWalk(job'[x].graph, Input(x)', ctx'[p].steps[x])
                      /\ x \in ctx'[p].scope
    BY <1>1 DEF MemoryInv
  <2>1. /\ x \in ctx'[p].scope
        /\ \E q \in Runs : /\ ctx[q].steps[x] = ctx'[p].steps[x]
                           /\ x \in ctx[q].scope
    OBVIOUS
  <2>2. PICK q \in Runs : ctx[q].steps[x] = ctx'[p].steps[x] /\ x \in ctx[q].scope
    BY <2>1
  <2>3. job'[x] = job[x]
    BY <1>2, <2>2
  <2> QED
    BY <2>1, <2>2, <2>3 DEF LogInv, MemoryInv
<1>5. StoredInv'
  <2> SUFFICES ASSUME NEW x \in Runs
               PROVE  /\ IsWalk(job'[x].graph, Input(x)', steps[x])
                      /\ pc'[x] = "idle" => steps[x] = <<>>
    BY <1>3 DEF StoredInv, Idle
  <2>1. CASE x = r
    BY <1>1, <1>3, <2>1
  <2>2. CASE x # r
    BY <2>2 DEF LogInv, StoredInv, Idle
  <2> QED
    BY <2>1, <2>2
<1>6. PlacedInv'
  <2> SUFFICES ASSUME NEW p \in Runs, pc'[p] \in Live
               PROVE  /\ steps[p] = Log(p)'
                      /\ Placed(job'[p].graph, Input(p)', pc'[p], Log(p)', cur'[p].node)
    BY <1>3 DEF PlacedInv
  <2>1. CASE p = r
    BY <1>3, <2>1 DEF Placed
  <2>2. CASE p # r
    <3>1. /\ pc'[p] = pc[p] /\ Log(p)' = Log(p) /\ cur'[p] = cur[p]
          /\ job'[p] = job[p]
      BY <2>2 DEF Log
    <3> QED
      BY <3>1 DEF LogInv, PlacedInv
  <2> QED
    BY <2>1, <2>2
<1>7. SettledInv'
  BY <1>3 DEF LogInv, SettledInv
<1> QED
  BY <1>4, <1>5, <1>6, <1>7 DEF LogInv

\* A load reads an instance and no step row.
LEMMA LoadSteps ==
    ASSUME NEW c \in Contexts, NEW r \in Runs, NEW i \in Instances
    PROVE  /\ Load(c, r, i).steps = c.steps /\ Load(c, r, i).tasks = c.tasks
           /\ Load(c, r, i).scope = c.scope \cup {r}
  BY DEF Load, Contexts

\* A fresh context holds no step row.
LEMMA EmptySteps == \A x \in Runs : EmptyContext.steps[x] = <<>>
  BY DEF EmptyContext

\* What a call that begins in a fresh context holds.
LEMMA FreshLogs ==
    ASSUME TypeOK, StatusInv, LogInv, NEW r \in Runs, NEW i \in Instances,
           NEW task, NEW decision, Start(r, i, task, decision),
           NEW c, \A x \in Runs : c.steps[x] = <<>>,
           ctx' = [ctx EXCEPT ![r] = c],
           NEW at \in {"loaded", "decided"}, pc' = [pc EXCEPT ![r] = at]
    PROVE  LogInv'
<1>1. /\ Idle(r) /\ steps' = steps /\ pc'[r] = at /\ ctx'[r] = c
      /\ \A x \in Runs : x # r => /\ job'[x] = job[x] /\ cur'[x] = cur[x]
                                  /\ pc'[x] = pc[x] /\ ctx'[x] = ctx[x]
  BY DEF Start, NextRun, TypeOK, tables
<1>2. Log(r)' = <<>>
  BY <1>1 DEF Log
<1>3. ASSUME NEW p \in Runs, NEW x \in Runs, ctx'[p].steps[x] # <<>>
      PROVE  p # r /\ ctx'[p] = ctx[p] /\ x \in ctx[p].scope
  <2>1. p # r /\ ctx'[p] = ctx[p]
    BY <1>1, <1>3
  <2> QED
    BY <1>3, <2>1 DEF LogInv, MemoryInv
<1>4. \A p, x \in Runs :
         \/ ctx'[p].steps[x] = <<>>
         \/ /\ x \in ctx'[p].scope
            /\ \E q \in Runs : /\ ctx[q].steps[x] = ctx'[p].steps[x]
                               /\ x \in ctx[q].scope
  BY <1>3
<1> QED
  BY <1>1, <1>2, <1>4, BeginKeepsLogs

\* What the next call of a batch takes over.
LEMMA BeginAfterKeepsLogs ==
    ASSUME TypeOK, StatusInv, LogInv, NEW r \in Runs, NEW q \in Runs,
           NEW i \in Instances, BeginExecuteAfter(r, i, q)
    PROVE  LogInv'
<1>1. /\ Idle(r) /\ q # r /\ steps' = steps /\ pc'[q] = "dead"
      /\ pc'[r] = "loaded" /\ ctx'[q] = EmptyContext
      /\ ctx'[r] = Load(ctx[q], r, i)
      /\ \A x \in Runs : x # r => job'[x] = job[x] /\ cur'[x] = cur[x]
      /\ \A x \in Runs : x # r /\ x # q => pc'[x] = pc[x] /\ ctx'[x] = ctx[x]
  BY DEF BeginExecuteAfter, Start, NextRun, TypeOK, tables, Idle
<1>2. ctx[q] \in Contexts
  BY RunTypes
<1>3. ctx'[r].steps = ctx[q].steps /\ ctx'[r].scope = ctx[q].scope \cup {r}
  BY <1>1, <1>2, LoadSteps
<1>4. Log(r)' = <<>>
  <2>1. r \notin ctx[q].scope
    BY <1>1 DEF StatusInv, ScopeInv, Idle
  <2>2. ctx[q].steps[r] = <<>>
    BY <2>1 DEF LogInv, MemoryInv
  <2> QED
    BY <1>3, <2>2 DEF Log
<1>5. ASSUME NEW p \in Runs, NEW x \in Runs, ctx'[p].steps[x] # <<>>
      PROVE  /\ x \in ctx'[p].scope
             /\ \E s \in Runs : /\ ctx[s].steps[x] = ctx'[p].steps[x]
                                /\ x \in ctx[s].scope
  <2>1. CASE p = r
    <3>1. ctx[q].steps[x] = ctx'[p].steps[x] /\ x \in ctx[q].scope
      BY <1>3, <1>5, <2>1 DEF LogInv, MemoryInv
    <3> QED
      BY <1>3, <2>1, <3>1
  <2>2. CASE p = q
    BY <1>1, <1>5, <2>2, EmptySteps
  <2>3. CASE p # r /\ p # q
    <3>1. ctx'[p] = ctx[p]
      BY <1>1, <2>3
    <3>2. x \in ctx[p].scope
      BY <1>5, <3>1 DEF LogInv, MemoryInv
    <3> QED
      BY <3>1, <3>2
  <2> QED
    BY <2>1, <2>2, <2>3
<1>6. \A x \in Runs : x # r =>
         /\ job'[x] = job[x] /\ cur'[x] = cur[x]
         /\ \/ pc'[x] = pc[x] /\ ctx'[x] = ctx[x]
            \/ pc'[x] = "dead"
  BY <1>1
<1> QED
  BY <1>1, <1>4, <1>5, <1>6, BeginKeepsLogs

\* A crash leaves the table as it is and nothing in memory.
LEMMA CrashKeepsLogs ==
    ASSUME TypeOK, LogInv, Crash
    PROVE  LogInv'
<1> USE DEF Live, Lost
<1>1. /\ \A r \in Runs : ctx'[r] = EmptyContext
      /\ \A r \in Runs : pc'[r] = IF pc[r] \in Live \cup {"aborted"}
                                  THEN "dead" ELSE pc[r]
      /\ steps' = steps /\ job' = job
  BY DEF Crash, tables
<1>2. MemoryInv'
  BY <1>1, EmptySteps DEF MemoryInv, IsWalk
<1>3. StoredInv'
  BY <1>1 DEF LogInv, StoredInv, Idle
<1>4. PlacedInv' /\ SettledInv'
  BY <1>1 DEF LogInv, PlacedInv, SettledInv
<1> QED
  BY <1>2, <1>3, <1>4 DEF LogInv

\* Steps that touch neither runs nor step rows keep the invariant.
LEMMA WriteKeepsLogs ==
    ASSUME LogInv, UNCHANGED <<steps, pc, job, ctx, cur>>
    PROVE  LogInv'
<1>1. MemoryInv' /\ StoredInv'
  BY DEF LogInv, MemoryInv, StoredInv, Idle
<1>2. PlacedInv' /\ SettledInv'
  BY DEF LogInv, PlacedInv, SettledInv, Log
<1> QED
  BY <1>1, <1>2 DEF LogInv

\* Every step of the specification keeps the invariant.
LEMMA NextKeepsLogs ==
    TypeOK /\ StatusInv /\ LogInv /\ [Next]_vars => LogInv'
<1> SUFFICES ASSUME TypeOK, StatusInv, LogInv, [Next]_vars PROVE LogInv'
  OBVIOUS
<1>1. ASSUME NEW r \in Runs, Advance(r) PROVE LogInv'
  BY <1>1, AdvanceKeepsLogs
<1>2. ASSUME NEW r \in Runs, NEW i \in Instances, BeginExecute(r, i)
      PROVE  LogInv'
  <2> DEFINE c == Load(EmptyContext, r, i)
  <2>1. \A x \in Runs : c.steps[x] = <<>>
    BY EmptyContextType, EmptySteps, LoadSteps
  <2>2. /\ Start(r, i, NoTask, "approved")
        /\ ctx' = [ctx EXCEPT ![r] = c] /\ pc' = [pc EXCEPT ![r] = "loaded"]
    BY <1>2 DEF BeginExecute
  <2> HIDE DEF c
  <2> QED
    BY <2>1, <2>2, FreshLogs
<1>3. ASSUME NEW r \in Runs, NEW q \in Runs, NEW i \in Instances,
             BeginExecuteAfter(r, i, q)
      PROVE  LogInv'
  BY <1>3, BeginAfterKeepsLogs
<1>4. ASSUME NEW r \in Runs, NEW t \in Runs, NEW d \in Decisions,
             BeginResume(r, t, d)
      PROVE  LogInv'
  <2> DEFINE i == job[t].inst
             loaded == Load(EmptyContext, r, i)
             verdict == IF tasks[t] = d THEN "same" ELSE d
             c == SetTask(loaded, t, verdict)
  <2>1. i \in Instances
    BY RunTypes
  <2>2. loaded \in Contexts /\ loaded.steps = EmptyContext.steps
    BY <2>1, FreshFields, EmptyContextType, LoadSteps
  <2>3. c.steps = loaded.steps
    <3> HIDE DEF loaded, verdict
    <3> QED
      BY <2>2 DEF SetTask, Contexts
  <2>4. \A x \in Runs : c.steps[x] = <<>>
    BY <2>2, <2>3, EmptySteps
  <2>5. /\ Start(r, i, t, d) /\ ctx' = [ctx EXCEPT ![r] = c]
        /\ pc' = [pc EXCEPT ![r] = "decided"]
    BY <1>4 DEF BeginResume
  <2> HIDE DEF c, i
  <2> QED
    BY <2>1, <2>4, <2>5, FreshLogs
<1>5. CASE LoadFails
  BY <1>5, WriteKeepsLogs DEF LoadFails, tables
<1>6. CASE Crash
  BY <1>6, CrashKeepsLogs
<1>7. ASSUME NEW i \in Instances, CreateInstance(i) \/ CancelWrite(i)
      PROVE  LogInv'
  BY <1>7, WriteKeepsLogs DEF CreateInstance, CancelWrite
<1>8. ASSUME NEW t \in Runs, NEW d \in Decisions, DecideWrite(t, d)
      PROVE  LogInv'
  BY <1>8, WriteKeepsLogs DEF DecideWrite
<1>9. ASSUME NEW d \in Definitions, NEW g \in Graphs, EditDefinition(d, g)
      PROVE  LogInv'
  BY <1>9, WriteKeepsLogs DEF EditDefinition, tables
<1>10. CASE UNCHANGED vars
  BY <1>10, WriteKeepsLogs DEF vars, tables
<1> QED
  BY <1>1, <1>2, <1>3, <1>4, <1>5, <1>6, <1>7, <1>8, <1>9, <1>10 DEF Next

\* Initially no step is recorded anywhere.
LEMMA InitLogs == Init => LogInv
<1> SUFFICES ASSUME Init PROVE LogInv
  OBVIOUS
<1>1. /\ \A r \in Runs : ctx[r] = EmptyContext /\ pc[r] = "idle"
      /\ \A r \in Runs : steps[r] = <<>>
  BY DEF Init
<1>2. MemoryInv /\ StoredInv
  BY <1>1, EmptySteps DEF MemoryInv, StoredInv, IsWalk
<1>3. PlacedInv /\ SettledInv
  BY <1>1 DEF PlacedInv, SettledInv, Live
<1> QED
  BY <1>2, <1>3 DEF LogInv

\* The invariant itself.
LEMMA LogInvariant == Spec => []LogInv
<1>1. Init => LogInv
  BY InitLogs
<1>2. TypeOK /\ StatusInv /\ LogInv /\ [Next]_vars => LogInv'
  BY NextKeepsLogs
<1>3. Spec => [](TypeOK /\ StatusInv)
  BY StatusInvariant
<1> QED
  BY <1>1, <1>2, <1>3, PTL DEF Spec

\* The step rows of every run are a walk of the graph it loaded, whatever
\* other runs, refused saves, crashes and edits of the definition do meanwhile.
THEOREM LogsAreWalks == Spec => []LogIsWalk
<1>1. LogInv => LogIsWalk
  BY DEF LogInv, StoredInv, IsWalk, LogIsWalk
<1> QED
  BY <1>1, LogInvariant, PTL

\* Every node of a walk is one of the graph's.
LEMMA WalkVisitsNodes ==
    ASSUME NEW g \in GraphType, NEW input, NEW log \in Logs, IsWalk(g, input, log),
           NEW k \in 1..Len(log)
    PROVE  log[k].node \in Positions(g)
<1> DEFINE E == [node : Nat, status : {"in_progress", "completed", "failed"}]
<1>a. log \in Seq(E) /\ \A e \in E : e.node \in Nat
  BY DEF Logs
<1> HIDE DEF E
<1>1. /\ Len(log) \in Nat /\ (log = <<>> <=> Len(log) = 0)
      /\ \A j \in 1..Len(log) : log[j].node \in Nat
  BY <1>a, LenProperties, EmptySeq, ElementOfSeq
<1>2. log[k].node # NoNode
  BY DEF IsWalk
<1>3. CASE k = 1
  <2>1. log[1].node = StartNode(g)
    BY <1>1, <1>3 DEF IsWalk
  <2> QED
    BY <1>2, <1>3, <2>1, StartNodeIsANode
<1>4. CASE k # 1
  <2>1. k - 1 \in 1..Len(log) - 1 /\ k - 1 \in 1..Len(log) /\ (k - 1) + 1 = k
    BY <1>1, <1>4
  <2>2. log[k].node \in Followers(g, input, log[k - 1].node)
    BY <2>1 DEF IsWalk
  <2>3. log[k].node \in Positions(g) \cup {NoNode}
    BY <1>1, <2>1, <2>2, NextNodeIsANode DEF Followers
  <2> QED
    BY <1>2, <2>3
<1> QED
  BY <1>3, <1>4

\* The nodes between two visits of a node are a cycle.
LEMMA RepeatIsCycle ==
    ASSUME NEW g \in GraphType, NEW input, NEW log \in Logs, IsWalk(g, input, log),
           NEW j \in 1..Len(log), NEW k \in 1..Len(log),
           j < k, log[j].node = log[k].node
    PROVE  HasCycle(g, input)
<1> DEFINE S == {log[x].node : x \in j..k - 1}
<1>1. Len(log) \in Nat
  BY DEF Logs
<1>2. \A x \in j..k - 1 : x \in 1..Len(log) /\ x \in 1..Len(log) - 1
  BY <1>1
<1>3. S \in SUBSET Positions(g)
  BY <1>2, WalkVisitsNodes
<1>4. log[j].node \in S
  BY <1>1
<1>5. ASSUME NEW x \in j..k - 1 PROVE Followers(g, input, log[x].node) \cap S # {}
  <2>1. log[x + 1].node \in Followers(g, input, log[x].node)
    BY <1>2 DEF IsWalk
  <2>2. CASE x + 1 = k
    BY <1>4, <2>1, <2>2
  <2>3. CASE x + 1 # k
    <3>1. x + 1 \in j..k - 1
      BY <1>1, <2>3
    <3> QED
      BY <2>1, <3>1
  <2> QED
    BY <2>2, <2>3
<1>6. \A n \in S : Followers(g, input, n) \cap S # {}
  BY <1>5
<1> HIDE DEF S
<1> QED
  BY <1>3, <1>4, <1>6 DEF HasCycle

\* A run executes a node twice only on a graph with a cycle.
THEOREM RepeatsAreCycles == Spec => []RepeatsNeedCycle
<1>1. TypeOK /\ LogInv => RepeatsNeedCycle
  <2> SUFFICES ASSUME TypeOK, LogInv, NEW r \in Runs,
                      NEW j \in DOMAIN steps[r], NEW k \in DOMAIN steps[r],
                      j < k, steps[r][j].node = steps[r][k].node
               PROVE  HasCycle(job[r].graph, Input(r))
    BY DEF RepeatsNeedCycle
  <2>1. steps[r] \in Logs /\ job[r].graph \in GraphType
    BY RunTypes DEF TypeOK
  <2>2. DOMAIN steps[r] = 1..Len(steps[r])
    BY <2>1 DEF Logs
  <2>3. IsWalk(job[r].graph, Input(r), steps[r])
    BY DEF LogInv, StoredInv
  <2> QED
    BY <2>1, <2>2, <2>3, RepeatIsCycle
<1> QED
  BY <1>1, LogInvariant, TypeCorrect, PTL

\* So the loop over the nodes ends: on any graph without a cycle a run stores
\* at most one step for each node, whatever the bound on steps is.
WalksEnd ==
    \A r \in Runs :
        ~HasCycle(job[r].graph, Input(r)) =>
            Len(steps[r]) <= Cardinality(Positions(job[r].graph))

\* ... by the pigeonhole principle.
THEOREM RunsAreShort == Spec => []WalksEnd
<1>1. TypeOK /\ LogInv => WalksEnd
  <2> SUFFICES ASSUME TypeOK, LogInv, NEW r \in Runs, ~HasCycle(job[r].graph, Input(r))
               PROVE  Len(steps[r]) <= Cardinality(Positions(job[r].graph))
    BY DEF WalksEnd
  <2> DEFINE g == job[r].graph
             log == steps[r]
             visited == [k \in 1..Len(log) |-> log[k].node]
  <2>1. log \in Logs /\ g \in GraphType
    BY RunTypes DEF TypeOK
  <2>2. IsWalk(g, Input(r), log)
    BY DEF LogInv, StoredInv
  <2>3. Len(log) \in Nat
    BY <2>1 DEF Logs
  <2>4. IsFiniteSet(1..Len(log)) /\ Cardinality(1..Len(log)) = Len(log)
    <3>1. \A n \in Nat : IsFiniteSet(1..n) /\ Cardinality(1..n) = n
      BY FS_Interval
    <3> HIDE DEF log
    <3> QED
      BY <2>3, <3>1
  <2>5. IsFiniteSet(Positions(g)) /\ Cardinality(Positions(g)) \in Nat
    <3>1. Len(g.nodes) \in Nat /\ Positions(g) = 1..Len(g.nodes)
      BY <2>1 DEF GraphType, Positions
    <3>2. IsFiniteSet(Positions(g))
      BY <3>1, FS_Interval
    <3> QED
      BY <3>2, FS_CardinalityType
  <2>6. visited \in [1..Len(log) -> Positions(g)]
    BY <2>1, <2>2, WalkVisitsNodes
  <2>7. SUFFICES ASSUME Cardinality(Positions(g)) < Cardinality(1..Len(log))
                 PROVE  FALSE
    BY <2>3, <2>4, <2>5
  <2>8. PICK j \in 1..Len(log), k \in 1..Len(log) :
            j # k /\ visited[j] = visited[k]
    <3> HIDE DEF visited, log, g
    <3> QED
      BY <2>4, <2>5, <2>6, <2>7, FS_PigeonHole
  <2>9. log[j].node = log[k].node /\ (j < k \/ k < j)
    BY <2>8
  <2> HIDE DEF visited, log
  <2>10. HasCycle(g, Input(r))
    BY <2>1, <2>2, <2>8, <2>9, RepeatIsCycle
  <2> QED
    BY <2>10
<1> QED
  BY <1>1, LogInvariant, TypeCorrect, PTL

\* A run that returns settles every step it began.
THEOREM StepsAreSettled == Spec => []StepsSettled
<1>1. TypeOK /\ LogInv => StepsSettled
  <2> SUFFICES ASSUME TypeOK, LogInv, NEW r \in Runs, steps[r] # <<>>,
                      LastStep(r).status = "in_progress"
               PROVE  pc[r] \in {"execute", "settle"} \cup Lost
    BY DEF StepsSettled
  <2>1. Tip(steps[r]).status = "in_progress"
    BY DEF Tip, LastStep
  <2>2. pc[r] \notin {"idle", "done"}
    BY <2>1 DEF LogInv, StoredInv, SettledInv, Idle
  <2>3. \A n : Step(n, "completed").status = "completed"
    BY DEF Step
  <2>4. ASSUME pc[r] \in Live PROVE pc[r] \in {"execute", "settle"}
    <3>1. Placed(job[r].graph, Input(r), pc[r], steps[r], cur[r].node)
      BY <2>4 DEF LogInv, PlacedInv
    <3>2. pc[r] \notin {"loaded", "decided"}
      BY <3>1 DEF Placed
    <3>3. pc[r] # "next"
      BY <2>1, <3>1 DEF Placed, Reaches
    <3>4. pc[r] # "suspend"
      BY <2>1, <2>3, <3>1 DEF Placed
    <3> QED
      BY <2>4, <3>2, <3>3, <3>4 DEF Live
  <2>5. pc[r] \in PCs
    BY DEF TypeOK
  <2> QED
    BY <2>2, <2>4, <2>5 DEF PCs
<1> QED
  BY <1>1, LogInvariant, TypeCorrect, PTL

(***************************************************************************)
(* The tasks that gates asked for.                                         *)
(***************************************************************************)
\* A run past its gate has its task stored; and where a task is stored, or
\* about to be, the rows of its run end at a gate, in the table and in any
\* context that tracks them.
GateInv ==
    \A r \in Runs :
        /\ pc[r] \in {"settle", "suspend"} => tasks[r] # "none"
        /\ tasks[r] # "none" => GateLast(job[r].graph, steps[r])
        /\ \A q \in Runs :
              /\ r \in ctx[q].scope
              /\ tasks[r] # "none" \/ ctx[q].tasks[r] = "pending"
              => GateLast(job[r].graph, ctx[q].steps[r])

\* What a save leaves of the rows of runs that asked, or ask, for a task.
LEMMA SavedGates ==
    ASSUME TypeOK, StatusInv, TaskInv, LogInv, GateInv, NEW r \in Runs,
           NEW c \in Contexts, NEW next \in PCs, Saves(r, c, next),
           Records(r, c, next), NEW x \in Runs, x \in c.scope,
           tasks[x] # "none" \/ c.tasks[x] = "pending"
    PROVE  GateLast(job[x].graph, c.steps[x])
<1>1. c.scope = ctx[r].scope /\ ctx[r] \in Contexts
  BY RunTypes DEF Saves
<1>2. CASE x # r
  <2>1. c.steps[x] = ctx[r].steps[x]
    BY <1>2 DEF Records
  <2>2. c.tasks[x] = ctx[r].tasks[x]
    BY <1>1, <1>2 DEF Saves, Contexts
  <2> QED
    BY <1>1, <2>1, <2>2 DEF GateInv
<1>3. CASE x = r
  <2> DEFINE g == job[r].graph
             n == cur[r].node
             log == Log(r)
  <2>1. /\ log \in Logs /\ IsWalk(g, Input(r), log) /\ Placed(g, Input(r), pc[r], log, n)
        /\ pc[r] \in Live
    BY RunTypes DEF TypeOK, LogInv, MemoryInv, PlacedInv, Log, Saves
  <2>2. CASE tasks[r] # "none"
    <3>1. GateLast(g, log)
      BY <1>1, <1>3, <2>2 DEF GateInv, Log
    <3>2. pc[r] \notin {"idle", "loaded", "decided", "next", "execute"}
      BY <2>2 DEF TaskInv, NotYetAsked
    <3>3. CASE c.steps[r] = log
      BY <1>3, <3>1, <3>3
    <3>4. CASE c.steps[r] = MarkLast(log, "completed")
      <4>1. /\ c.steps[r] # <<>>
            /\ Tip(c.steps[r]) = Step(Tip(log).node, "completed")
        BY <2>1, <3>1, <3>4, MarkWalks DEF GateLast
      <4>2. Tip(c.steps[r]).node = Tip(log).node
        BY <4>1 DEF Step
      <4> QED
        BY <1>3, <3>1, <4>1, <4>2 DEF GateLast
    <3> QED
      BY <3>2, <3>3, <3>4 DEF Records
  <2>3. CASE tasks[r] = "none"
    <3>1. next = "settle"
      BY <1>3, <2>3, SavesTasks
    <3>2. pc[r] = "execute" /\ c.steps[r] = log /\ IsGate(g, n)
      BY <3>1 DEF Records
    <3>3. log # <<>> /\ Tip(log) = Step(n, "in_progress")
      BY <2>1, <3>2 DEF Placed
    <3>4. Tip(log).node = n
      BY <3>3 DEF Step
    <3> QED
      BY <1>3, <3>2, <3>3, <3>4 DEF GateLast
  <2> QED
    BY <2>2, <2>3
<1> QED
  BY <1>2, <1>3

\* A committed save keeps the invariant.
LEMMA CommitKeepsGates ==
    ASSUME TypeOK, StatusInv, TaskInv, LogInv, GateInv, NEW r \in Runs,
           NEW c \in Contexts, NEW next \in PCs, Saves(r, c, next),
           Records(r, c, next), Commit(r, c, next)
    PROVE  GateInv'
<1>1. /\ job' = job /\ pc'[r] = next
      /\ \A q \in Runs : q # r => pc'[q] = pc[q] /\ ctx'[q] = ctx[q]
  BY CommitRuns DEF Saves
<1>2. c.scope = ctx[r].scope
  BY DEF Saves
<1>3. ASSUME NEW x \in Runs, tasks'[x] # "none"
      PROVE  tasks[x] # "none" \/ (c.tasks[x] = "pending" /\ x \in c.scope)
  BY <1>2, <1>3, SavesTasks, CommitTasks
<1>4. ASSUME NEW x \in Runs, pc'[x] \in {"settle", "suspend"}
      PROVE  tasks'[x] # "none"
  <2>1. CASE x = r
    <3>1. CASE next = "settle"
      <4>1. c.tasks[r] = "pending"
        BY <3>1 DEF Records
      <4> QED
        BY <2>1, <4>1, CommitTasks
    <3>2. CASE next = "suspend"
      <4>1. pc[r] = "settle"
        BY <3>2 DEF Records
      <4>2. tasks[r] # "none"
        BY <4>1 DEF GateInv
      <4> QED
        BY <2>1, <4>2, CommitDecisions
    <3> QED
      BY <1>1, <1>4, <2>1, <3>1, <3>2
  <2>2. CASE x # r
    <3>1. tasks[x] # "none"
      BY <1>1, <1>4, <2>2 DEF GateInv
    <3> QED
      BY <3>1, CommitDecisions
  <2> QED
    BY <2>1, <2>2
<1>5. ASSUME NEW x \in Runs, tasks'[x] # "none"
      PROVE  GateLast(job[x].graph, steps'[x])
  <2>1. CASE x \in c.scope
    BY <1>3, <1>5, <2>1, SavedGates, CommitSteps
  <2>2. CASE x \notin c.scope
    BY <1>3, <1>5, <2>2, CommitSteps DEF GateInv
  <2> QED
    BY <2>1, <2>2
<1>6. ASSUME NEW x \in Runs, NEW q \in Runs, x \in ctx'[q].scope,
             tasks'[x] # "none" \/ ctx'[q].tasks[x] = "pending"
      PROVE  GateLast(job[x].graph, ctx'[q].steps[x])
  <2>1. CASE q = r
    <3>1. next # "done" /\ x \in c.scope /\ ctx'[r].steps[x] = c.steps[x]
      BY <1>6, <2>1, CommitSteps
    <3>2. ctx'[r].tasks[x] = "same"
      BY <3>1, CommitRuns DEF NothingToWrite
    <3> QED
      BY <1>3, <1>6, <2>1, <3>1, <3>2, SavedGates
  <2>2. CASE q # r
    <3>1. ctx'[q] = ctx[q]
      BY <1>1, <2>2
    <3>2. x \notin c.scope
      BY <1>2, <1>6, <2>2, <3>1 DEF TaskInv, OneTracker
    <3> QED
      BY <1>3, <1>6, <3>1, <3>2 DEF GateInv
  <2> QED
    BY <2>1, <2>2
<1> QED
  BY <1>1, <1>4, <1>5, <1>6 DEF GateInv

\* So does an exception that ends a run.
LEMMA AbortKeepsGates ==
    ASSUME TypeOK, GateInv, NEW r \in Runs, NEW c,
           pc' = [pc EXCEPT ![r] = "aborted"], ctx' = [ctx EXCEPT ![r] = c],
           UNCHANGED <<steps, tasks, job>>,
           \A x \in Runs :
              x \in c.scope /\ (tasks[x] # "none" \/ c.tasks[x] = "pending")
                 => GateLast(job[x].graph, c.steps[x])
    PROVE  GateInv'
<1>1. /\ \A q \in Runs : q # r => pc'[q] = pc[q] /\ ctx'[q] = ctx[q]
      /\ pc'[r] = "aborted" /\ ctx'[r] = c
      /\ steps' = steps /\ tasks' = tasks /\ job' = job
  BY DEF TypeOK
<1>2. ASSUME NEW x \in Runs, NEW q \in Runs, x \in ctx'[q].scope,
             tasks[x] # "none" \/ ctx'[q].tasks[x] = "pending"
      PROVE  GateLast(job[x].graph, ctx'[q].steps[x])
  <2>1. CASE q = r
    BY <1>1, <1>2, <2>1
  <2>2. CASE q # r
    BY <1>1, <1>2, <2>2 DEF GateInv
  <2> QED
    BY <2>1, <2>2
<1>3. \A x \in Runs :
         /\ pc'[x] \in {"settle", "suspend"} => tasks[x] # "none"
         /\ tasks[x] # "none" => GateLast(job[x].graph, steps[x])
  BY <1>1 DEF GateInv
<1> QED
  BY <1>1, <1>2, <1>3 DEF GateInv

\* A step of a run keeps the invariant.
LEMMA AdvanceKeepsGates ==
    ASSUME TypeOK, StatusInv, TaskInv, LogInv, GateInv, NEW r \in Runs,
           Advance(r)
    PROVE  GateInv'
<1>1. CASE ExecutorThrows(r)
  <2>1. /\ pc' = [pc EXCEPT ![r] = "aborted"]
        /\ UNCHANGED <<steps, tasks, job>>
    BY <1>1 DEF ExecutorThrows, tables
  <2>2. ctx' = [ctx EXCEPT ![r] = ctx[r]]
    BY <1>1 DEF ExecutorThrows, TypeOK
  <2>3. \A x \in Runs :
           x \in ctx[r].scope /\ (tasks[x] # "none" \/ ctx[r].tasks[x] = "pending")
              => GateLast(job[x].graph, ctx[r].steps[x])
    BY DEF GateInv
  <2> QED
    BY <2>1, <2>2, <2>3, AbortKeepsGates
<1>2. ASSUME NEW c \in Contexts, NEW next \in PCs, Saves(r, c, next),
             Records(r, c, next)
      PROVE  GateInv'
  <2>1. CASE Commit(r, c, next)
    BY <1>2, <2>1, CommitKeepsGates
  <2>2. CASE Refuse(r, c)
    <3>1. /\ pc' = [pc EXCEPT ![r] = "aborted"] /\ ctx' = [ctx EXCEPT ![r] = c]
          /\ UNCHANGED <<steps, tasks, job>>
      BY <1>2, <2>2 DEF Refuse, Saves, tables
    <3>2. \A x \in Runs :
             x \in c.scope /\ (tasks[x] # "none" \/ c.tasks[x] = "pending")
                => GateLast(job[x].graph, c.steps[x])
      BY <1>2, SavedGates
    <3> QED
      BY <3>1, <3>2, AbortKeepsGates
  <2> QED
    BY <1>2, <2>1, <2>2 DEF Saves, Save
<1> QED
  BY <1>1, <1>2, AdvanceRecords DEF StatusInv

\* A call that begins in a fresh context keeps the invariant: it has asked
\* for no task, and tracks no run that has.
LEMMA FreshGates ==
    ASSUME TypeOK, StatusInv, TaskInv, GateInv, NEW r \in Runs,
           NEW i, NEW task, NEW decision, Start(r, i, task, decision),
           NEW c, c.scope = {r}, c.tasks[r] # "pending",
           ctx' = [ctx EXCEPT ![r] = c],
           NEW at \in {"loaded", "decided"}, pc' = [pc EXCEPT ![r] = at]
    PROVE  GateInv'
<1>1. /\ pc[r] = "idle" /\ steps' = steps /\ tasks' = tasks
      /\ pc'[r] = at /\ ctx'[r] = c
      /\ \A x \in Runs : x # r => /\ job'[x] = job[x]
                                  /\ pc'[x] = pc[x] /\ ctx'[x] = ctx[x]
  BY DEF Start, NextRun, Idle, TypeOK, tables
<1>2. tasks[r] = "none" /\ \A q \in Runs : r \notin ctx[q].scope
  BY <1>1 DEF StatusInv, ScopeInv, TaskInv, NotYetAsked, Idle
<1>3. ASSUME NEW x \in Runs, NEW q \in Runs, x \in ctx'[q].scope,
             tasks[x] # "none" \/ ctx'[q].tasks[x] = "pending"
      PROVE  GateLast(job'[x].graph, ctx'[q].steps[x])
  <2>1. q # r
    BY <1>1, <1>2, <1>3
  <2>2. ctx'[q] = ctx[q] /\ x # r
    BY <1>1, <1>2, <1>3, <2>1
  <2> QED
    BY <1>1, <1>3, <2>2 DEF GateInv
<1>4. ASSUME NEW x \in Runs
      PROVE  /\ pc'[x] \in {"settle", "suspend"} => tasks[x] # "none"
             /\ tasks[x] # "none" => GateLast(job'[x].graph, steps[x])
  BY <1>1, <1>2 DEF GateInv
<1> QED
  BY <1>1, <1>3, <1>4 DEF GateInv

\* So does the next call of a batch, with the rows it takes over.
LEMMA BeginAfterKeepsGates ==
    ASSUME TypeOK, StatusInv, TaskInv, GateInv, NEW r \in Runs, NEW q \in Runs,
           NEW i \in Instances, BeginExecuteAfter(r, i, q)
    PROVE  GateInv'
<1>1. /\ pc[r] = "idle" /\ q # r /\ steps' = steps /\ tasks' = tasks
      /\ pc'[r] = "loaded" /\ pc'[q] = "dead" /\ ctx'[q] = EmptyContext
      /\ ctx'[r] = Load(ctx[q], r, i)
      /\ \A x \in Runs : x # r => job'[x] = job[x]
      /\ \A x \in Runs : x # r /\ x # q => pc'[x] = pc[x] /\ ctx'[x] = ctx[x]
  BY DEF BeginExecuteAfter, Start, NextRun, TypeOK, tables, Idle
<1>2. tasks[r] = "none" /\ \A p \in Runs : r \notin ctx[p].scope
  BY <1>1 DEF StatusInv, ScopeInv, TaskInv, NotYetAsked, Idle
<1>3. /\ ctx'[r].steps = ctx[q].steps /\ ctx'[r].scope = ctx[q].scope \cup {r}
      /\ ctx'[r].tasks = ctx[q].tasks
  <2>1. ctx[q] \in Contexts
    BY RunTypes
  <2> QED
    BY <1>1, <2>1, LoadSteps
<1>4. ctx[q].tasks[r] # "pending"
  BY <1>2 DEF TaskInv, UnsavedTasks
<1>5. ASSUME NEW x \in Runs, NEW p \in Runs, x \in ctx'[p].scope,
             tasks[x] # "none" \/ ctx'[p].tasks[x] = "pending"
      PROVE  GateLast(job'[x].graph, ctx'[p].steps[x])
  <2>1. CASE p = r
    <3>1. x # r /\ x \in ctx[q].scope
      BY <1>2, <1>3, <1>4, <1>5, <2>1
    <3> QED
      BY <1>1, <1>3, <1>5, <2>1, <3>1 DEF GateInv
  <2>2. CASE p = q
    BY <1>1, <1>5, <2>2, EmptyContextFields
  <2>3. CASE p # r /\ p # q
    <3>1. ctx'[p] = ctx[p] /\ x # r
      BY <1>1, <1>2, <1>5, <2>3
    <3> QED
      BY <1>1, <1>5, <3>1 DEF GateInv
  <2> QED
    BY <2>1, <2>2, <2>3
<1>6. ASSUME NEW x \in Runs
      PROVE  /\ pc'[x] \in {"settle", "suspend"} => tasks[x] # "none"
             /\ tasks[x] # "none" => GateLast(job'[x].graph, steps[x])
  BY <1>1, <1>2 DEF GateInv
<1> QED
  BY <1>1, <1>5, <1>6 DEF GateInv

\* A crash leaves nothing in memory.
LEMMA CrashKeepsGates ==
    ASSUME TypeOK, GateInv, Crash
    PROVE  GateInv'
<1> USE DEF Live, Lost
<1>1. /\ \A r \in Runs : ctx'[r] = EmptyContext
      /\ \A r \in Runs : pc'[r] = IF pc[r] \in Live \cup {"aborted"}
                                  THEN "dead" ELSE pc[r]
      /\ steps' = steps /\ tasks' = tasks /\ job' = job
  BY DEF Crash, tables
<1> QED
  BY <1>1, EmptyContextFields DEF GateInv

\* Steps that store no task and touch neither runs nor step rows keep it.
LEMMA WriteKeepsGates ==
    ASSUME GateInv, UNCHANGED <<steps, pc, job, ctx>>,
           \A t \in Runs : tasks'[t] = "none" <=> tasks[t] = "none"
    PROVE  GateInv'
  BY DEF GateInv

\* Every step of the specification keeps the invariant.
LEMMA NextKeepsGates ==
    TypeOK /\ StatusInv /\ TaskInv /\ LogInv /\ GateInv /\ [Next]_vars
        => GateInv'
<1> SUFFICES ASSUME TypeOK, StatusInv, TaskInv, LogInv, GateInv, [Next]_vars
             PROVE  GateInv'
  OBVIOUS
<1>1. ASSUME NEW r \in Runs, Advance(r) PROVE GateInv'
  BY <1>1, AdvanceKeepsGates
<1>2. ASSUME NEW r \in Runs, NEW i \in Instances, BeginExecute(r, i)
      PROVE  GateInv'
  <2> DEFINE c == Load(EmptyContext, r, i)
  <2>1. c.scope = {r} /\ c.tasks[r] # "pending"
    BY FreshFields DEF NothingToWrite
  <2>2. /\ Start(r, i, NoTask, "approved")
        /\ ctx' = [ctx EXCEPT ![r] = c] /\ pc' = [pc EXCEPT ![r] = "loaded"]
    BY <1>2 DEF BeginExecute
  <2> HIDE DEF c
  <2> QED
    BY <2>1, <2>2, FreshGates
<1>3. ASSUME NEW r \in Runs, NEW q \in Runs, NEW i \in Instances,
             BeginExecuteAfter(r, i, q)
      PROVE  GateInv'
  BY <1>3, BeginAfterKeepsGates
<1>4. ASSUME NEW r \in Runs, NEW t \in Runs, NEW d \in Decisions,
             BeginResume(r, t, d)
      PROVE  GateInv'
  <2> DEFINE i == job[t].inst
             loaded == Load(EmptyContext, r, i)
             verdict == IF tasks[t] = d THEN "same" ELSE d
             c == SetTask(loaded, t, verdict)
  <2>1. i \in Instances
    BY RunTypes
  <2>2. /\ loaded \in Contexts /\ loaded.scope = {r}
        /\ loaded.tasks = NothingToWrite
    BY <2>1, FreshFields
  <2>3. verdict # "pending"
    BY DEF Decisions
  <2>4. c.scope = {r} /\ c.tasks = [NothingToWrite EXCEPT ![t] = verdict]
    <3> HIDE DEF loaded, verdict
    <3> QED
      BY <2>2 DEF SetTask, Contexts
  <2>5. c.tasks[r] # "pending"
    <3> HIDE DEF c, verdict
    <3> QED
      BY <2>3, <2>4 DEF NothingToWrite
  <2>6. /\ Start(r, i, t, d) /\ ctx' = [ctx EXCEPT ![r] = c]
        /\ pc' = [pc EXCEPT ![r] = "decided"]
    BY <1>4 DEF BeginResume
  <2> HIDE DEF c, i
  <2> QED
    BY <2>4, <2>5, <2>6, FreshGates
<1>5. CASE LoadFails
  BY <1>5, WriteKeepsGates DEF LoadFails, tables
<1>6. CASE Crash
  BY <1>6, CrashKeepsGates
<1>7. ASSUME NEW i \in Instances, CreateInstance(i) \/ CancelWrite(i)
      PROVE  GateInv'
  BY <1>7, WriteKeepsGates DEF CreateInstance, CancelWrite
<1>8. ASSUME NEW t \in Runs, NEW d \in Decisions, DecideWrite(t, d)
      PROVE  GateInv'
  <2>1. \A x \in Runs : tasks'[x] = "none" <=> tasks[x] = "none"
    BY <1>8 DEF DecideWrite, Decisions, TypeOK
  <2> QED
    BY <1>8, <2>1, WriteKeepsGates DEF DecideWrite
<1>9. ASSUME NEW d \in Definitions, NEW g \in Graphs, EditDefinition(d, g)
      PROVE  GateInv'
  BY <1>9, WriteKeepsGates DEF EditDefinition, tables
<1>10. CASE UNCHANGED vars
  BY <1>10, WriteKeepsGates DEF vars, tables
<1> QED
  BY <1>1, <1>2, <1>3, <1>4, <1>5, <1>6, <1>7, <1>8, <1>9, <1>10 DEF Next

\* Initially no task is stored and nothing is tracked.
LEMMA InitGates == Init => GateInv
<1> SUFFICES ASSUME Init PROVE GateInv
  OBVIOUS
<1>1. \A r \in Runs : /\ ctx[r] = EmptyContext /\ pc[r] = "idle"
                      /\ tasks[r] = "none"
  BY DEF Init
<1> QED
  BY <1>1, EmptyContextFields DEF GateInv

\* The invariant itself.
LEMMA GateInvariant == Spec => []GateInv
<1>1. Init => GateInv
  BY InitGates
<1>2. TypeOK /\ StatusInv /\ TaskInv /\ LogInv /\ GateInv /\ [Next]_vars
        => GateInv'
  BY NextKeepsGates
<1>3. Spec => [](TypeOK /\ StatusInv)
  BY StatusInvariant
<1> QED
  BY <1>1, <1>2, <1>3, TaskInvariant, LogInvariant, PTL DEF Spec

\* Every task was asked for by a gate that its run reached and nothing after.
THEOREM TasksHaveGates == Spec => []TaskHasGate
<1>1. GateInv => TaskHasGate
  BY DEF GateInv, GateLast, TaskHasGate, Tip, LastStep
<1> QED
  BY <1>1, GateInvariant, PTL

(***************************************************************************)
(* Why an instance ended as it did.                                        *)
(***************************************************************************)
\* A run explains the status it left its instance in: what it was called for,
\* the status of its task, its rows.
Cause(status, call, task, log) ==
    /\ status = "completed" => WalkedLog(call.graph, InputOf[call.inst], log)
    /\ status = "failed" =>
          \/ log # <<>> /\ Tip(log).status = "failed"
          \/ call.task # NoTask /\ call.decision = "rejected"
          \/ ~call.graph.valid
    /\ status = "waiting_approval" =>
          /\ task # "none"
          /\ log # <<>> /\ Tip(log).status = "completed"
          /\ IsGate(call.graph, Tip(log).node)

\* The rows of run r are as they will stay: it goes on no more, and no save
\* of another run can bring other rows of it to the table.
Final(r) ==
    /\ ~Idle(r) /\ pc[r] \notin Live
    /\ \A q \in Runs : r \in ctx[q].scope => ctx[q].steps[r] = steps[r]

\* The ending of an instance is explained by one run's final rows.
StoredCause ==
    \A i \in Instances :
        inst[i].status \in Endings =>
            \E r \in Runs : /\ job[r].inst = i
                            /\ Final(r)
                            /\ Cause(inst[i].status, job[r], tasks[r],
                                     steps[r])

\* An ending that a save failed to store is explained by the rows of a lost
\* run, which will be stored together with it or not at all.
MemoryCause ==
    \A q \in Runs, i \in Instances :
        /\ ctx[q].row[i].status # ctx[q].orig[i].status
        /\ ctx[q].row[i].status \in Endings
        => \E x \in ctx[q].scope :
              /\ job[x].inst = i /\ pc[x] \in Lost
              /\ Cause(ctx[q].row[i].status, job[x], tasks[x], ctx[q].steps[x])

CauseInv == StoredCause /\ MemoryCause

\* A run that is about to return explains the ending it leaves.
LEMMA SavedCause ==
    ASSUME TypeOK, StatusInv, LogInv, GateInv, NEW r \in Runs,
           NEW c \in Contexts, NEW next \in PCs, Saves(r, c, next),
           Records(r, c, next), c.row[job[r].inst].status \in Endings
    PROVE  /\ next = "done"
           /\ Cause(c.row[job[r].inst].status, job[r], tasks[r], c.steps[r])
<1> DEFINE g == job[r].graph
           n == cur[r].node
           log == Log(r)
           status == c.row[job[r].inst].status
<1>1. /\ log \in Logs /\ g \in GraphType /\ IsWalk(g, Input(r), log)
      /\ Placed(g, Input(r), pc[r], log, n)
  BY RunTypes DEF TypeOK, Jobs, LogInv, MemoryInv, PlacedInv, Log, Saves
<1>2. next = "done"
  BY DEF Saves, Endings
<1>3. \A s : Step(n, s).status = s /\ Step(n, s).node = n
  BY DEF Step
<1>4. CASE pc[r] = "decided"
  <2>1. status = "failed" /\ job[r].decision = "rejected"
    BY <1>2, <1>4 DEF Records
  <2>2. job[r].task # NoTask
    BY <1>4 DEF StatusInv, DecidedInv
  <2> QED
    BY <1>2, <2>1, <2>2 DEF Cause
<1>5. CASE pc[r] = "next" /\ status = "failed"
  <2>1. ~g.valid
    BY <1>2, <1>5 DEF Records
  <2> QED
    BY <1>2, <1>5, <2>1 DEF Cause
<1>6. CASE pc[r] = "next" /\ status # "failed"
  <2>1. /\ status = "completed" /\ c.steps[r] = log /\ g.valid
        /\ g.nodes = <<>> \/ n = NoNode
    BY <1>2, <1>6 DEF Records
  <2>2. Reaches(g, Input(r), log, n)
    BY <1>1, <1>6 DEF Placed
  <2>3. WalkedLog(g, Input(r), log)
    <3>1. CASE g.nodes = <<>>
      BY <2>1, <3>1 DEF WalkedLog
    <3>2. CASE n = NoNode
      BY <1>1, <2>1, <2>2, <3>2, ReachesEnd
    <3> QED
      BY <2>1, <3>1, <3>2
  <2> QED
    BY <1>2, <2>1, <2>3 DEF Cause
<1>7. CASE pc[r] = "execute"
  <2>1. status = "failed" /\ c.steps[r] = MarkLast(log, "failed")
    BY <1>2, <1>7 DEF Records
  <2>2. log # <<>>
    BY <1>1, <1>7 DEF Placed
  <2>3. /\ c.steps[r] # <<>>
        /\ Tip(c.steps[r]) = Step(Tip(log).node, "failed")
    BY <1>1, <2>1, <2>2, MarkWalks
  <2>4. Tip(c.steps[r]).status = "failed"
    BY <2>3 DEF Step
  <2> QED
    BY <1>2, <2>1, <2>3, <2>4 DEF Cause
<1>8. CASE pc[r] = "suspend"
  <2>1. status = "waiting_approval" /\ c.steps[r] = log
    BY <1>2, <1>8 DEF Records
  <2>2. /\ log # <<>> /\ Tip(log) = Step(n, "completed") /\ IsGate(g, n)
    BY <1>1, <1>8 DEF Placed
  <2>3. Tip(log).status = "completed" /\ IsGate(g, Tip(log).node)
    BY <1>3, <2>2
  <2>4. tasks[r] # "none"
    BY <1>8 DEF GateInv
  <2> QED
    BY <1>2, <2>1, <2>2, <2>3, <2>4 DEF Cause
<1> QED
  BY <1>2, <1>4, <1>5, <1>6, <1>7, <1>8 DEF Records

\* A cause stays one as long as its task does not disappear.
LEMMA CauseStays ==
    ASSUME NEW status, NEW call, NEW log, NEW task, NEW later,
           Cause(status, call, task, log), task # "none" => later # "none"
    PROVE  Cause(status, call, later, log)
  BY DEF Cause

\* An ending that another run left unsaved in a context is explained there.
LEMMA LeftCause ==
    ASSUME TypeOK, StatusInv, CauseInv, NEW r \in Runs, NEW c \in Contexts,
           NEW next \in PCs, Saves(r, c, next), Records(r, c, next),
           NEW i \in Instances, i # job[r].inst,
           c.row[i].status # c.orig[i].status, c.row[i].status \in Endings
    PROVE  \E x \in Runs : /\ x \in c.scope /\ x # r
                           /\ job[x].inst = i /\ pc[x] \in Lost
                           /\ Cause(c.row[i].status, job[x], tasks[x],
                                    c.steps[x])
<1>1. /\ c.row[i] = ctx[r].row[i] /\ c.orig = ctx[r].orig
      /\ c.scope = ctx[r].scope /\ c.scope \subseteq Runs
  BY DEF Saves, Contexts
<1>2. PICK x \in c.scope : /\ job[x].inst = i /\ pc[x] \in Lost
                           /\ Cause(c.row[i].status, job[x], tasks[x],
                                    ctx[r].steps[x])
  BY <1>1 DEF CauseInv, MemoryCause
<1>3. x \in Runs /\ x # r
  BY <1>1, <1>2
<1>4. c.steps[x] = ctx[r].steps[x]
  BY <1>3 DEF Records
<1> QED
  BY <1>2, <1>3, <1>4

\* A committed save stores the rows that explain an ending together with it.
LEMMA CommitKeepsCause ==
    ASSUME TypeOK, StatusInv, TaskInv, LogInv, GateInv, CauseInv,
           NEW r \in Runs, NEW c \in Contexts, NEW next \in PCs,
           Saves(r, c, next), Records(r, c, next), Commit(r, c, next)
    PROVE  CauseInv'
<1> USE DEF Lost, Live
<1>1. /\ job' = job /\ pc'[r] = next /\ pc[r] \in Live
      /\ next # "idle" /\ r \in c.scope /\ c.scope = ctx[r].scope
      /\ \A q \in Runs : q # r => pc'[q] = pc[q] /\ ctx'[q] = ctx[q]
  BY CommitRuns DEF Saves, StatusInv, ScopeInv
<1>2. \A x \in Runs : tasks[x] # "none" => tasks'[x] # "none"
  BY CommitDecisions
<1>3. ASSUME NEW x \in Runs, NEW q \in Runs, q # r, x \in ctx'[q].scope
      PROVE  x \notin c.scope
  BY <1>1, <1>3 DEF TaskInv, OneTracker
<1>4. ASSUME NEW x \in Runs, x \in c.scope, x = r => next = "done",
             x # r => pc[x] \in Lost
      PROVE  Final(x)' /\ steps'[x] = c.steps[x]
  <2>1. steps'[x] = c.steps[x]
    BY <1>4, CommitSteps
  <2>2. pc'[x] # "idle" /\ pc'[x] \notin Live
    BY <1>1, <1>4
  <2>3. ASSUME NEW q \in Runs, x \in ctx'[q].scope
        PROVE  ctx'[q].steps[x] = steps'[x]
    <3>1. q = r
      BY <1>3, <1>4, <2>3
    <3>2. next # "done"
      BY <2>3, <3>1, CommitSteps
    <3> QED
      BY <2>1, <3>1, <3>2, CommitSteps
  <2> QED
    BY <2>1, <2>2, <2>3 DEF Final, Idle
<1>5. ASSUME NEW x \in Runs, Final(x) PROVE Final(x)' /\ steps'[x] = steps[x]
  <2>1. x # r /\ pc'[x] = pc[x]
    BY <1>1, <1>5 DEF Final
  <2>2. x \in c.scope => c.steps[x] = steps[x]
    <3>1. x \in c.scope => ctx[r].steps[x] = steps[x]
      BY <1>1, <1>5 DEF Final
    <3> QED
      BY <2>1, <3>1 DEF Records
  <2>3. steps'[x] = steps[x]
    BY <2>2, CommitSteps
  <2>4. ASSUME NEW q \in Runs, x \in ctx'[q].scope
        PROVE  ctx'[q].steps[x] = steps'[x]
    <3>1. CASE q = r
      BY <2>2, <2>3, <2>4, <3>1, CommitSteps
    <3>2. CASE q # r
      BY <1>1, <1>5, <2>3, <2>4, <3>2 DEF Final
    <3> QED
      BY <3>1, <3>2
  <2> QED
    BY <1>5, <2>1, <2>3, <2>4 DEF Final, Idle
<1>6. StoredCause'
  <2> SUFFICES ASSUME NEW i \in Instances, inst'[i].status \in Endings
               PROVE  \E x \in Runs :
                         /\ job'[x].inst = i
                         /\ Final(x)'
                         /\ Cause(inst'[i].status, job'[x], tasks'[x],
                                  steps'[x])
    BY DEF StoredCause
  <2>1. CASE c.row[i].status # c.orig[i].status /\ i = job[r].inst
    <3>1. inst'[i].status = c.row[i].status
      BY <2>1, CommitStatus
    <3>2. next = "done" /\ Cause(c.row[i].status, job[r], tasks[r], c.steps[r])
      BY <2>1, <3>1, SavedCause
    <3>3. Cause(c.row[i].status, job'[r], tasks'[r], c.steps[r])
      BY <1>1, <1>2, <3>2, CauseStays
    <3>4. Final(r)' /\ steps'[r] = c.steps[r]
      BY <1>1, <1>4, <3>2
    <3> QED
      BY <1>1, <2>1, <3>1, <3>3, <3>4
  <2>2. CASE c.row[i].status # c.orig[i].status /\ i # job[r].inst
    <3>1. inst'[i].status = c.row[i].status
      BY <2>2, CommitStatus
    <3>2. PICK x \in Runs : /\ x \in c.scope /\ x # r
                            /\ job[x].inst = i /\ pc[x] \in Lost
                            /\ Cause(c.row[i].status, job[x], tasks[x],
                                     c.steps[x])
      BY <2>2, <3>1, LeftCause
    <3>3. Final(x)' /\ steps'[x] = c.steps[x]
      BY <1>4, <3>2
    <3>4. Cause(inst'[i].status, job'[x], tasks'[x], steps'[x])
      BY <1>1, <1>2, <3>1, <3>2, <3>3, CauseStays
    <3> QED
      BY <1>1, <3>2, <3>3, <3>4
  <2>3. CASE c.row[i].status = c.orig[i].status
    <3>1. inst'[i].status = inst[i].status
      BY <2>3, CommitStatus
    <3>2. PICK x \in Runs : /\ job[x].inst = i
                            /\ Final(x)
                            /\ Cause(inst[i].status, job[x], tasks[x],
                                     steps[x])
      BY <3>1 DEF CauseInv, StoredCause
    <3>3. Final(x)' /\ steps'[x] = steps[x]
      BY <1>5, <3>2
    <3>4. Cause(inst'[i].status, job'[x], tasks'[x], steps'[x])
      BY <1>1, <1>2, <3>1, <3>2, <3>3, CauseStays
    <3> QED
      BY <1>1, <3>2, <3>3, <3>4
  <2> QED
    BY <2>1, <2>2, <2>3
<1>7. MemoryCause'
  <2> SUFFICES ASSUME NEW q \in Runs, NEW i \in Instances,
                      ctx'[q].row[i].status # ctx'[q].orig[i].status,
                      ctx'[q].row[i].status \in Endings
               PROVE  \E x \in ctx'[q].scope :
                         /\ job'[x].inst = i /\ pc'[x] \in Lost
                         /\ Cause(ctx'[q].row[i].status, job'[x], tasks'[x],
                                  ctx'[q].steps[x])
    BY DEF MemoryCause
  <2>1. q # r
    <3>1. ctx'[r].orig = ctx'[r].row
      BY CommitRuns, EmptyIsClean
    <3> QED
      BY <3>1
  <2>2. ctx'[q] = ctx[q]
    BY <1>1, <2>1
  <2>3. PICK x \in ctx[q].scope :
               /\ job[x].inst = i /\ pc[x] \in Lost
               /\ Cause(ctx[q].row[i].status, job[x], tasks[x],
                        ctx[q].steps[x])
    BY <2>2 DEF CauseInv, MemoryCause
  <2>4. x \in Runs /\ pc'[x] = pc[x]
    BY <1>1, <2>3, RunTypes DEF Contexts
  <2>5. Cause(ctx'[q].row[i].status, job'[x], tasks'[x], ctx'[q].steps[x])
    BY <1>1, <1>2, <2>2, <2>3, <2>4, CauseStays
  <2> QED
    BY <1>1, <2>2, <2>3, <2>4, <2>5
<1> QED
  BY <1>6, <1>7 DEF CauseInv

\* An exception that ends a run leaves what explains its ending in memory.
LEMMA AbortKeepsCause ==
    ASSUME TypeOK, CauseInv, NEW r \in Runs, NEW c, pc[r] \in Live,
           pc' = [pc EXCEPT ![r] = "aborted"], ctx' = [ctx EXCEPT ![r] = c],
           UNCHANGED <<inst, steps, tasks, job>>,
           c.scope = ctx[r].scope,
           \A x \in Runs : x # r => c.steps[x] = ctx[r].steps[x],
           \A i \in Instances :
              /\ c.row[i].status # c.orig[i].status
              /\ c.row[i].status \in Endings
              => \E x \in Runs :
                    /\ x \in c.scope /\ job[x].inst = i
                    /\ x = r \/ pc[x] \in Lost
                    /\ Cause(c.row[i].status, job[x], tasks[x], c.steps[x])
    PROVE  CauseInv'
<1> USE DEF Lost, Live
<1>1. /\ \A q \in Runs : q # r => pc'[q] = pc[q] /\ ctx'[q] = ctx[q]
      /\ pc'[r] = "aborted" /\ ctx'[r] = c /\ job' = job
      /\ inst' = inst /\ steps' = steps /\ tasks' = tasks
  BY DEF TypeOK
<1>2. ASSUME NEW x \in Runs, Final(x) PROVE Final(x)'
  <2>1. x # r /\ pc'[x] = pc[x]
    BY <1>1, <1>2 DEF Final
  <2>2. ASSUME NEW q \in Runs, x \in ctx'[q].scope
        PROVE  ctx'[q].steps[x] = steps[x]
    <3>1. CASE q = r
      BY <1>1, <1>2, <2>1, <2>2, <3>1 DEF Final
    <3>2. CASE q # r
      BY <1>1, <1>2, <2>2, <3>2 DEF Final
    <3> QED
      BY <3>1, <3>2
  <2> QED
    BY <1>1, <1>2, <2>1, <2>2 DEF Final, Idle
<1>3. StoredCause'
  <2> SUFFICES ASSUME NEW i \in Instances, inst[i].status \in Endings
               PROVE  \E x \in Runs :
                         /\ job[x].inst = i
                         /\ Final(x)'
                         /\ Cause(inst[i].status, job'[x], tasks'[x], steps[x])
    BY <1>1 DEF StoredCause
  <2>1. PICK x \in Runs : /\ job[x].inst = i
                          /\ Final(x)
                          /\ Cause(inst[i].status, job[x], tasks[x], steps[x])
    BY DEF CauseInv, StoredCause
  <2>2. Cause(inst[i].status, job'[x], tasks'[x], steps[x])
    BY <1>1, <2>1
  <2> QED
    BY <1>2, <2>1, <2>2
<1>4. MemoryCause'
  <2> SUFFICES ASSUME NEW q \in Runs, NEW i \in Instances,
                      ctx'[q].row[i].status # ctx'[q].orig[i].status,
                      ctx'[q].row[i].status \in Endings
               PROVE  \E x \in ctx'[q].scope :
                         /\ job[x].inst = i /\ pc'[x] \in Lost
                         /\ Cause(ctx'[q].row[i].status, job'[x], tasks'[x],
                                  ctx'[q].steps[x])
    BY <1>1 DEF MemoryCause
  <2>1. CASE q = r
    <3>1. PICK x \in Runs : /\ x \in c.scope /\ job[x].inst = i
                            /\ x = r \/ pc[x] \in Lost
                            /\ Cause(c.row[i].status, job[x], tasks[x],
                                     c.steps[x])
      BY <1>1, <2>1
    <3>2. Cause(ctx'[q].row[i].status, job'[x], tasks'[x], ctx'[q].steps[x])
      BY <1>1, <2>1, <3>1
    <3> QED
      BY <1>1, <2>1, <3>1, <3>2
  <2>2. CASE q # r
    <3>1. ctx'[q] = ctx[q]
      BY <1>1, <2>2
    <3>2. PICK x \in ctx[q].scope :
                 /\ job[x].inst = i /\ pc[x] \in Lost
                 /\ Cause(ctx[q].row[i].status, job[x], tasks[x],
                          ctx[q].steps[x])
      BY <3>1 DEF CauseInv, MemoryCause
    <3>3. x \in Runs /\ pc'[x] = pc[x]
      BY <1>1, <3>2, RunTypes DEF Contexts
    <3>4. Cause(ctx'[q].row[i].status, job'[x], tasks'[x], ctx'[q].steps[x])
      BY <1>1, <3>1, <3>2
    <3> QED
      BY <3>1, <3>2, <3>3, <3>4
  <2> QED
    BY <2>1, <2>2
<1> QED
  BY <1>3, <1>4 DEF CauseInv

\* A step of a run keeps the invariant.
LEMMA AdvanceKeepsCause ==
    ASSUME TypeOK, StatusInv, TaskInv, LogInv, GateInv, CauseInv,
           NEW r \in Runs, Advance(r)
    PROVE  CauseInv'
<1>1. CASE ExecutorThrows(r)
  <2>1. /\ pc[r] \in Live /\ pc' = [pc EXCEPT ![r] = "aborted"]
        /\ UNCHANGED <<inst, steps, tasks, job>>
    BY <1>1 DEF ExecutorThrows, Executing, tables, Live
  <2>2. ctx' = [ctx EXCEPT ![r] = ctx[r]]
    BY <1>1 DEF ExecutorThrows, TypeOK
  <2>3. ctx[r].scope \subseteq Runs
    BY RunTypes DEF Contexts
  <2>4. \A i \in Instances :
           /\ ctx[r].row[i].status # ctx[r].orig[i].status
           /\ ctx[r].row[i].status \in Endings
           => \E x \in Runs :
                 /\ x \in ctx[r].scope /\ job[x].inst = i
                 /\ x = r \/ pc[x] \in Lost
                 /\ Cause(ctx[r].row[i].status, job[x], tasks[x],
                          ctx[r].steps[x])
    BY <2>3 DEF CauseInv, MemoryCause
  <2> QED
    BY <2>1, <2>2, <2>4, AbortKeepsCause
<1>2. ASSUME NEW c \in Contexts, NEW next \in PCs, Saves(r, c, next),
             Records(r, c, next)
      PROVE  CauseInv'
  <2>1. CASE Commit(r, c, next)
    BY <1>2, <2>1, CommitKeepsCause
  <2>2. CASE Refuse(r, c)
    <3>1. /\ pc' = [pc EXCEPT ![r] = "aborted"] /\ ctx' = [ctx EXCEPT ![r] = c]
          /\ UNCHANGED <<inst, steps, tasks, job>>
      BY <1>2, <2>2 DEF Refuse, Saves, tables
    <3>2. /\ pc[r] \in Live /\ c.scope = ctx[r].scope /\ r \in c.scope
          /\ \A x \in Runs : x # r => c.steps[x] = ctx[r].steps[x]
      BY <1>2 DEF Saves, Records, StatusInv, ScopeInv
    <3>3. ASSUME NEW i \in Instances, c.row[i].status # c.orig[i].status,
                 c.row[i].status \in Endings
          PROVE  \E x \in Runs :
                    /\ x \in c.scope /\ job[x].inst = i
                    /\ x = r \/ pc[x] \in Lost
                    /\ Cause(c.row[i].status, job[x], tasks[x], c.steps[x])
      <4>1. CASE i = job[r].inst
        BY <1>2, <3>2, <3>3, <4>1, SavedCause
      <4>2. CASE i # job[r].inst
        BY <1>2, <3>3, <4>2, LeftCause
      <4> QED
        BY <4>1, <4>2
    <3> QED
      BY <3>1, <3>2, <3>3, AbortKeepsCause
  <2> QED
    BY <1>2, <2>1, <2>2 DEF Saves, Save
<1> QED
  BY <1>1, <1>2, AdvanceRecords DEF StatusInv

\* Whatever moves runs that do not go on anyway, and drops contexts or hands
\* them over as they are, keeps the invariant.
LEMMA HandOverKeepsCause ==
    ASSUME CauseInv, StatusInv, UNCHANGED <<inst, steps, tasks>>,
           \A x \in Runs :
              ~Idle(x) => /\ job'[x] = job[x] /\ pc'[x] # "idle"
                          /\ pc[x] \notin Live => pc'[x] \notin Live
                          /\ pc[x] \in Lost => pc'[x] \in Lost,
           \A q, x \in Runs :
              x \in ctx'[q].scope /\ ~Idle(x) =>
                 \E p \in Runs : /\ x \in ctx[p].scope
                                 /\ ctx'[q].steps[x] = ctx[p].steps[x],
           \A q \in Runs, i \in Instances :
              ctx'[q].row[i].status # ctx'[q].orig[i].status =>
                 \E p \in Runs : /\ ctx'[q].row[i] = ctx[p].row[i]
                                 /\ ctx'[q].orig[i] = ctx[p].orig[i]
                                 /\ ctx'[q].steps = ctx[p].steps
                                 /\ ctx[p].scope \subseteq ctx'[q].scope,
           \A q \in Runs : ctx[q].scope \subseteq Runs
    PROVE  CauseInv'
<1>1. inst' = inst /\ steps' = steps /\ tasks' = tasks
  OBVIOUS
<1>2. ASSUME NEW x \in Runs, Final(x) PROVE Final(x)'
  <2>1. ~Idle(x) /\ pc'[x] # "idle" /\ pc'[x] \notin Live
    BY <1>2 DEF Final
  <2>2. ASSUME NEW q \in Runs, x \in ctx'[q].scope
        PROVE  ctx'[q].steps[x] = steps[x]
    <3>1. PICK p \in Runs : /\ x \in ctx[p].scope
                            /\ ctx'[q].steps[x] = ctx[p].steps[x]
      BY <2>1, <2>2
    <3> QED
      BY <1>2, <3>1 DEF Final
  <2> QED
    BY <1>1, <2>1, <2>2 DEF Final, Idle
<1>3. StoredCause'
  <2> SUFFICES ASSUME NEW i \in Instances, inst[i].status \in Endings
               PROVE  \E x \in Runs :
                         /\ job'[x].inst = i /\ Final(x)'
                         /\ Cause(inst[i].status, job'[x], tasks[x], steps[x])
    BY <1>1 DEF StoredCause
  <2>1. PICK x \in Runs : /\ job[x].inst = i /\ Final(x)
                          /\ Cause(inst[i].status, job[x], tasks[x], steps[x])
    BY DEF CauseInv, StoredCause
  <2>2. job'[x] = job[x]
    BY <2>1 DEF Final
  <2> QED
    BY <1>2, <2>1, <2>2
<1>4. MemoryCause'
  <2> SUFFICES ASSUME NEW q \in Runs, NEW i \in Instances,
                      ctx'[q].row[i].status # ctx'[q].orig[i].status,
                      ctx'[q].row[i].status \in Endings
               PROVE  \E x \in ctx'[q].scope :
                         /\ job'[x].inst = i /\ pc'[x] \in Lost
                         /\ Cause(ctx'[q].row[i].status, job'[x], tasks[x],
                                  ctx'[q].steps[x])
    BY <1>1 DEF MemoryCause
  <2>1. PICK p \in Runs : /\ ctx'[q].row[i] = ctx[p].row[i]
                          /\ ctx'[q].orig[i] = ctx[p].orig[i]
                          /\ ctx'[q].steps = ctx[p].steps
                          /\ ctx[p].scope \subseteq ctx'[q].scope
    OBVIOUS
  <2>2. PICK x \in ctx[p].scope :
               /\ job[x].inst = i /\ pc[x] \in Lost
               /\ Cause(ctx[p].row[i].status, job[x], tasks[x],
                        ctx[p].steps[x])
    BY <2>1 DEF CauseInv, MemoryCause
  <2>3. x \in Runs /\ ~Idle(x)
    BY <2>2 DEF Idle, Lost
  <2>4. job'[x] = job[x] /\ pc'[x] \in Lost
    BY <2>2, <2>3
  <2> QED
    BY <2>1, <2>2, <2>4
<1> QED
  BY <1>3, <1>4 DEF CauseInv

\* A call that begins in a fresh context explains nothing and hides nothing.
LEMMA FreshCause ==
    ASSUME TypeOK, StatusInv, CauseInv, NEW r \in Runs,
           NEW i, NEW task, NEW decision, Start(r, i, task, decision),
           NEW c, c.scope = {r}, c.row = c.orig,
           ctx' = [ctx EXCEPT ![r] = c],
           NEW at \in {"loaded", "decided"}, pc' = [pc EXCEPT ![r] = at]
    PROVE  CauseInv'
<1>1. /\ pc[r] = "idle" /\ pc'[r] = at /\ ctx'[r] = c
      /\ UNCHANGED <<inst, steps, tasks>>
      /\ \A x \in Runs : x # r => /\ job'[x] = job[x]
                                  /\ pc'[x] = pc[x] /\ ctx'[x] = ctx[x]
  BY DEF Start, NextRun, Idle, TypeOK, tables
<1>2. \A q \in Runs : ctx[q].scope \subseteq Runs
  BY RunTypes DEF Contexts
<1>3. \A x \in Runs :
         ~Idle(x) => /\ job'[x] = job[x] /\ pc'[x] # "idle"
                     /\ pc[x] \notin Live => pc'[x] \notin Live
                     /\ pc[x] \in Lost => pc'[x] \in Lost
  BY <1>1 DEF Idle
<1>4. ASSUME NEW q \in Runs, NEW x \in Runs, x \in ctx'[q].scope, ~Idle(x)
      PROVE  \E p \in Runs : /\ x \in ctx[p].scope
                             /\ ctx'[q].steps[x] = ctx[p].steps[x]
  <2>1. q # r
    BY <1>1, <1>4 DEF Idle
  <2> QED
    BY <1>1, <1>4, <2>1
<1>5. ASSUME NEW q \in Runs, NEW j \in Instances,
             ctx'[q].row[j].status # ctx'[q].orig[j].status
      PROVE  \E p \in Runs : /\ ctx'[q].row[j] = ctx[p].row[j]
                             /\ ctx'[q].orig[j] = ctx[p].orig[j]
                             /\ ctx'[q].steps = ctx[p].steps
                             /\ ctx[p].scope \subseteq ctx'[q].scope
  <2>1. q # r
    BY <1>1, <1>5
  <2> QED
    BY <1>1, <2>1
<1> QED
  BY <1>1, <1>2, <1>3, <1>4, <1>5, HandOverKeepsCause

\* The next call of a batch takes over what explains unsaved endings too.
LEMMA BeginAfterKeepsCause ==
    ASSUME TypeOK, StatusInv, CauseInv, NEW r \in Runs, NEW q \in Runs,
           NEW i \in Instances, BeginExecuteAfter(r, i, q)
    PROVE  CauseInv'
<1>1. /\ pc[r] = "idle" /\ q # r /\ UNCHANGED <<inst, steps, tasks>>
      /\ pc[q] = "aborted" /\ pc'[r] = "loaded" /\ pc'[q] = "dead"
      /\ ctx'[q] = EmptyContext /\ ctx'[r] = Load(ctx[q], r, i)
      /\ \A x \in Runs : x # r => job'[x] = job[x]
      /\ \A x \in Runs : x # r /\ x # q => pc'[x] = pc[x] /\ ctx'[x] = ctx[x]
  BY DEF BeginExecuteAfter, Start, NextRun, TypeOK, tables, Idle
<1>2. \A p \in Runs : ctx[p].scope \subseteq Runs
  BY RunTypes DEF Contexts
<1>3. \A x \in Runs :
         ~Idle(x) => /\ job'[x] = job[x] /\ pc'[x] # "idle"
                     /\ pc[x] \notin Live => pc'[x] \notin Live
                     /\ pc[x] \in Lost => pc'[x] \in Lost
  BY <1>1 DEF Idle, Live, Lost
<1>4. /\ ctx'[r].steps = ctx[q].steps /\ ctx'[r].scope = ctx[q].scope \cup {r}
      /\ ctx'[r].orig = [ctx[q].orig EXCEPT ![i] = inst[i]]
      /\ ctx'[r].row = [ctx[q].row EXCEPT ![i] = inst[i]]
      /\ ctx[q].orig \in [Instances -> Rows] /\ ctx[q].row \in [Instances -> Rows]
  <2>1. ctx[q] \in Contexts
    BY RunTypes
  <2>2. ctx[q].orig \in [Instances -> Rows] /\ ctx[q].row \in [Instances -> Rows]
    BY <2>1 DEF Contexts
  <2>3. /\ Load(ctx[q], r, i).orig = [ctx[q].orig EXCEPT ![i] = inst[i]]
        /\ Load(ctx[q], r, i).row = [ctx[q].row EXCEPT ![i] = inst[i]]
    BY <2>1 DEF Load, Contexts
  <2>4. /\ Load(ctx[q], r, i).steps = ctx[q].steps
        /\ Load(ctx[q], r, i).scope = ctx[q].scope \cup {r}
    BY <2>1, LoadSteps
  <2> QED
    BY <1>1, <2>2, <2>3, <2>4
<1>5. ASSUME NEW p \in Runs, NEW x \in Runs, x \in ctx'[p].scope, ~Idle(x)
      PROVE  \E s \in Runs : /\ x \in ctx[s].scope
                             /\ ctx'[p].steps[x] = ctx[s].steps[x]
  <2>1. CASE p = r
    <3>1. x # r
      BY <1>1, <1>5 DEF Idle
    <3> QED
      BY <1>4, <1>5, <2>1, <3>1
  <2>2. CASE p = q
    BY <1>1, <1>5, <2>2, EmptyContextFields
  <2>3. CASE p # r /\ p # q
    BY <1>1, <1>5, <2>3
  <2> QED
    BY <2>1, <2>2, <2>3
<1>6. ASSUME NEW p \in Runs, NEW j \in Instances,
             ctx'[p].row[j].status # ctx'[p].orig[j].status
      PROVE  \E s \in Runs : /\ ctx'[p].row[j] = ctx[s].row[j]
                             /\ ctx'[p].orig[j] = ctx[s].orig[j]
                             /\ ctx'[p].steps = ctx[s].steps
                             /\ ctx[s].scope \subseteq ctx'[p].scope
  <2>1. CASE p = r
    <3>1. j # i
      BY <1>4, <1>6, <2>1
    <3>2. ctx'[p].row[j] = ctx[q].row[j] /\ ctx'[p].orig[j] = ctx[q].orig[j]
      BY <1>4, <2>1, <3>1
    <3> QED
      BY <1>4, <2>1, <3>2
  <2>2. CASE p = q
    BY <1>1, <1>6, <2>2, EmptyIsClean
  <2>3. CASE p # r /\ p # q
    BY <1>1, <2>3
  <2> QED
    BY <2>1, <2>2, <2>3
<1> QED
  BY <1>1, <1>2, <1>3, <1>5, <1>6, HandOverKeepsCause

\* A crash loses what was not saved, and what explains it.
LEMMA CrashKeepsCause ==
    ASSUME TypeOK, StatusInv, CauseInv, Crash
    PROVE  CauseInv'
<1>1. /\ \A r \in Runs : ctx'[r] = EmptyContext
      /\ \A r \in Runs : pc'[r] = IF pc[r] \in Live \cup {"aborted"}
                                  THEN "dead" ELSE pc[r]
      /\ UNCHANGED <<inst, steps, tasks>> /\ job' = job
  BY DEF Crash, tables
<1>2. \A p \in Runs : ctx[p].scope \subseteq Runs
  BY RunTypes DEF Contexts
<1>3. \A x \in Runs :
         ~Idle(x) => /\ job'[x] = job[x] /\ pc'[x] # "idle"
                     /\ pc[x] \notin Live => pc'[x] \notin Live
                     /\ pc[x] \in Lost => pc'[x] \in Lost
  BY <1>1 DEF Idle, Live, Lost
<1>4. \A q, x \in Runs : x \notin ctx'[q].scope
  BY <1>1, EmptyContextFields
<1>5. \A q \in Runs, i \in Instances :
         ctx'[q].row[i].status = ctx'[q].orig[i].status
  BY <1>1, EmptyIsClean
<1> QED
  BY <1>1, <1>2, <1>3, <1>4, <1>5, HandOverKeepsCause

\* The statuses that the control plane writes.
LEMMA WrittenStatus ==
    ASSUME TypeOK, NEW i \in Instances, CreateInstance(i) \/ CancelWrite(i)
    PROVE  inst'[i].status \in {"pending", "cancelled"}
<1>1. inst[i] \in Rows /\ i \in DOMAIN inst
  BY DEF TypeOK
<1>2. CASE CreateInstance(i)
  BY <1>1, <1>2 DEF CreateInstance, NoRow
<1>3. CASE CancelWrite(i)
  BY <1>1, <1>3 DEF CancelWrite, Rows
<1> QED
  BY <1>2, <1>3

\* A write of the tables that ends no instance and drops no task keeps it.
LEMMA WriteKeepsCause ==
    ASSUME CauseInv, UNCHANGED <<steps, pc, job, ctx>>,
           \A q \in Runs : ctx[q].scope \subseteq Runs,
           \A t \in Runs : tasks[t] # "none" => tasks'[t] # "none",
           \A i \in Instances : inst'[i].status \in Endings =>
                                   inst'[i] = inst[i]
    PROVE  CauseInv'
<1>1. StoredCause'
  <2> SUFFICES ASSUME NEW i \in Instances, inst'[i].status \in Endings
               PROVE  \E x \in Runs :
                         /\ job[x].inst = i /\ Final(x)
                         /\ Cause(inst'[i].status, job[x], tasks'[x], steps[x])
    BY DEF StoredCause, Final, Idle
  <2>1. PICK x \in Runs : /\ job[x].inst = i /\ Final(x)
                          /\ Cause(inst[i].status, job[x], tasks[x], steps[x])
    BY DEF CauseInv, StoredCause
  <2>2. Cause(inst[i].status, job[x], tasks'[x], steps[x])
    BY <2>1, CauseStays
  <2> QED
    BY <2>1, <2>2
<1>2. MemoryCause'
  <2> SUFFICES ASSUME NEW q \in Runs, NEW i \in Instances,
                      ctx[q].row[i].status # ctx[q].orig[i].status,
                      ctx[q].row[i].status \in Endings
               PROVE  \E x \in ctx[q].scope :
                         /\ job[x].inst = i /\ pc[x] \in Lost
                         /\ Cause(ctx[q].row[i].status, job[x], tasks'[x],
                                  ctx[q].steps[x])
    BY DEF MemoryCause
  <2>1. PICK x \in ctx[q].scope :
               /\ job[x].inst = i /\ pc[x] \in Lost
               /\ Cause(ctx[q].row[i].status, job[x], tasks[x],
                        ctx[q].steps[x])
    BY DEF CauseInv, MemoryCause
  <2>2. x \in Runs
    BY <2>1
  <2>3. Cause(ctx[q].row[i].status, job[x], tasks'[x], ctx[q].steps[x])
    BY <2>1, <2>2, CauseStays
  <2> QED
    BY <2>1, <2>3
<1> QED
  BY <1>1, <1>2 DEF CauseInv

\* Every step of the specification keeps the invariant.
LEMMA NextKeepsCause ==
    TypeOK /\ StatusInv /\ TaskInv /\ LogInv /\ GateInv /\ CauseInv
        /\ [Next]_vars => CauseInv'
<1> SUFFICES ASSUME TypeOK, StatusInv, TaskInv, LogInv, GateInv, CauseInv,
                    [Next]_vars
             PROVE  CauseInv'
  OBVIOUS
<1>a. \A q \in Runs : ctx[q].scope \subseteq Runs
  BY RunTypes DEF Contexts
<1>1. ASSUME NEW r \in Runs, Advance(r) PROVE CauseInv'
  BY <1>1, AdvanceKeepsCause
<1>2. ASSUME NEW r \in Runs, NEW i \in Instances, BeginExecute(r, i)
      PROVE  CauseInv'
  <2> DEFINE c == Load(EmptyContext, r, i)
  <2>1. c.scope = {r} /\ c.row = c.orig
    BY FreshFields, FreshClean
  <2>2. /\ Start(r, i, NoTask, "approved")
        /\ ctx' = [ctx EXCEPT ![r] = c] /\ pc' = [pc EXCEPT ![r] = "loaded"]
    BY <1>2 DEF BeginExecute
  <2> HIDE DEF c
  <2> QED
    BY <2>1, <2>2, FreshCause
<1>3. ASSUME NEW r \in Runs, NEW q \in Runs, NEW i \in Instances,
             BeginExecuteAfter(r, i, q)
      PROVE  CauseInv'
  BY <1>3, BeginAfterKeepsCause
<1>4. ASSUME NEW r \in Runs, NEW t \in Runs, NEW d \in Decisions,
             BeginResume(r, t, d)
      PROVE  CauseInv'
  <2> DEFINE i == job[t].inst
             loaded == Load(EmptyContext, r, i)
             verdict == IF tasks[t] = d THEN "same" ELSE d
             c == SetTask(loaded, t, verdict)
  <2>1. i \in Instances
    BY RunTypes
  <2>2. loaded \in Contexts /\ loaded.scope = {r} /\ loaded.row = loaded.orig
    BY <2>1, FreshFields, FreshClean
  <2>3. c.scope = {r} /\ c.row = c.orig
    <3> HIDE DEF loaded, verdict
    <3> QED
      BY <2>2 DEF SetTask, Contexts
  <2>4. /\ Start(r, i, t, d) /\ ctx' = [ctx EXCEPT ![r] = c]
        /\ pc' = [pc EXCEPT ![r] = "decided"]
    BY <1>4 DEF BeginResume
  <2> HIDE DEF c, i
  <2> QED
    BY <2>3, <2>4, FreshCause
<1>5. CASE LoadFails
  BY <1>a, <1>5, WriteKeepsCause DEF LoadFails, tables
<1>6. CASE Crash
  BY <1>6, CrashKeepsCause
<1>7. ASSUME NEW i \in Instances, CreateInstance(i) \/ CancelWrite(i)
      PROVE  CauseInv'
  <2>1. inst'[i].status \in {"pending", "cancelled"}
    BY <1>7, WrittenStatus
  <2>2. \A j \in Instances : j # i => inst'[j] = inst[j]
    BY <1>7 DEF CreateInstance, CancelWrite, TypeOK
  <2>3. \A j \in Instances : inst'[j].status \in Endings => inst'[j] = inst[j]
    BY <2>1, <2>2 DEF Endings
  <2>4. UNCHANGED <<steps, tasks, pc, job, ctx>>
    BY <1>7 DEF CreateInstance, CancelWrite
  <2> QED
    BY <1>a, <2>3, <2>4, WriteKeepsCause
<1>8. ASSUME NEW t \in Runs, NEW d \in Decisions, DecideWrite(t, d)
      PROVE  CauseInv'
  <2>1. \A x \in Runs : tasks[x] # "none" => tasks'[x] # "none"
    BY <1>8 DEF DecideWrite, Decisions, TypeOK
  <2> QED
    BY <1>a, <1>8, <2>1, WriteKeepsCause DEF DecideWrite
<1>9. ASSUME NEW d \in Definitions, NEW g \in Graphs, EditDefinition(d, g)
      PROVE  CauseInv'
  BY <1>a, <1>9, WriteKeepsCause DEF EditDefinition, tables
<1>10. CASE UNCHANGED vars
  BY <1>a, <1>10, WriteKeepsCause DEF vars, tables
<1> QED
  BY <1>1, <1>2, <1>3, <1>4, <1>5, <1>6, <1>7, <1>8, <1>9, <1>10 DEF Next

\* Initially no instance has ended, in the table or in memory.
LEMMA InitCause == Init => CauseInv
<1> SUFFICES ASSUME Init PROVE CauseInv
  OBVIOUS
<1>1. /\ \A r \in Runs : ctx[r] = EmptyContext
      /\ \A i \in Instances : inst[i].status = "none"
  BY DEF Init, NoRow
<1>2. StoredCause
  BY <1>1 DEF StoredCause, Endings
<1>3. MemoryCause
  BY <1>1, EmptyIsClean DEF MemoryCause
<1> QED
  BY <1>2, <1>3 DEF CauseInv

\* The invariant itself.
LEMMA CauseInvariant == Spec => []CauseInv
<1>1. Init => CauseInv
  BY InitCause
<1>2. TypeOK /\ StatusInv /\ TaskInv /\ LogInv /\ GateInv /\ CauseInv
        /\ [Next]_vars => CauseInv'
  BY NextKeepsCause
<1>3. Spec => [](TypeOK /\ StatusInv)
  BY StatusInvariant
<1> QED
  BY <1>1, <1>2, <1>3, TaskInvariant, LogInvariant, GateInvariant, PTL
  DEF Spec

\* An instance is marked completed only if one single run walked the whole
\* graph: no mix of runs, unsaved leftovers and crashes completes it.
THEOREM CompletedIsWalked == Spec => []CompletedWalked
<1>1. CauseInv => CompletedWalked
  <2> SUFFICES ASSUME CauseInv, NEW i \in Instances,
                      inst[i].status = "completed"
               PROVE  \E r \in RunsOf(i) : Walked(r)
    BY DEF CompletedWalked
  <2>1. PICK r \in Runs : /\ job[r].inst = i /\ Final(r)
                          /\ Cause("completed", job[r], tasks[r], steps[r])
    BY DEF CauseInv, StoredCause, Endings
  <2>2. r \in RunsOf(i) /\ WalkedLog(job[r].graph, Input(r), steps[r])
    BY <2>1 DEF Final, RunsOf, Cause
  <2> QED
    BY <2>2 DEF WalkedLog, Walked, Tip, LastStep
<1> QED
  BY <1>1, CauseInvariant, PTL

\* The walk of a run that completed its instance went through no gate.
NoGatePassed ==
    \A i \in Instances :
        inst[i].status = "completed" =>
            \E r \in RunsOf(i) :
                /\ Walked(r)
                /\ \A k \in DOMAIN steps[r] :
                      ~IsGate(job[r].graph, steps[r][k].node)

\* No instance ever gets past an approval gate, however it was decided: a
\* completed one has a run whose whole walk avoids them.
THEOREM CompletedMeetsNoGate == Spec => []NoGatePassed
<1>1. TypeOK /\ LogInv /\ CompletedWalked => NoGatePassed
  <2> SUFFICES ASSUME TypeOK, LogInv, CompletedWalked, NEW i \in Instances,
                      inst[i].status = "completed"
               PROVE  \E r \in RunsOf(i) :
                         /\ Walked(r)
                         /\ \A k \in DOMAIN steps[r] :
                               ~IsGate(job[r].graph, steps[r][k].node)
    BY DEF NoGatePassed
  <2>1. PICK r \in RunsOf(i) : Walked(r)
    BY DEF CompletedWalked
  <2> DEFINE log == steps[r]
             g == job[r].graph
  <2>2. r \in Runs
    BY DEF RunsOf
  <2>3. log \in Logs /\ g \in GraphType /\ IsWalk(g, Input(r), log)
    BY <2>2, RunTypes DEF TypeOK, LogInv, StoredInv
  <2>4. Len(log) \in Nat /\ DOMAIN log = 1..Len(log)
    BY <2>3 DEF Logs
  <2>5. ASSUME NEW k \in DOMAIN log PROVE ~IsGate(g, log[k].node)
    <3>1. g.nodes # <<>>
      BY <2>3, <2>4, <2>5, WalkVisitsNodes DEF Positions
    <3>2. ~IsGate(g, log[Len(log)].node)
      BY <2>1, <3>1 DEF Walked, LastStep
    <3>3. CASE k = Len(log)
      BY <3>2, <3>3
    <3>4. CASE k # Len(log)
      <4>1. k \in 1..Len(log) - 1
        BY <2>4, <3>4
      <4> QED
        BY <2>3, <4>1 DEF IsWalk
    <3> QED
      BY <3>3, <3>4
  <2> HIDE DEF log, g
  <2> QED
    BY <2>1, <2>5 DEF log, g
<1> QED
  BY <1>1, LogInvariant, TypeCorrect, CompletedIsWalked, PTL

\* A failed instance has a reason on record.
THEOREM FailureHasCause == Spec => []FailedHasCause
<1>1. CauseInv => FailedHasCause
  <2> SUFFICES ASSUME CauseInv, NEW i \in Instances,
                      inst[i].status = "failed"
               PROVE  \E r \in RunsOf(i) :
                         \/ steps[r] # <<>> /\ LastStep(r).status = "failed"
                         \/ job[r].task # NoTask /\ job[r].decision = "rejected"
                         \/ ~job[r].graph.valid
    BY DEF FailedHasCause
  <2>1. PICK r \in Runs : /\ job[r].inst = i /\ Final(r)
                          /\ Cause("failed", job[r], tasks[r], steps[r])
    BY DEF CauseInv, StoredCause, Endings
  <2>2. r \in RunsOf(i)
    BY <2>1 DEF Final, RunsOf
  <2> QED
    BY <2>1, <2>2 DEF Cause, Tip, LastStep
<1> QED
  BY <1>1, CauseInvariant, PTL

\* An instance waits for approval only where a run of it stands at a gate
\* whose task is stored.
THEOREM WaitingAtGate == Spec => []WaitingHasGate
<1>1. CauseInv => WaitingHasGate
  <2> SUFFICES ASSUME CauseInv, NEW i \in Instances,
                      inst[i].status = "waiting_approval"
               PROVE  \E r \in RunsOf(i) : AtGate(r)
    BY DEF WaitingHasGate
  <2>1. PICK r \in Runs :
               /\ job[r].inst = i /\ Final(r)
               /\ Cause("waiting_approval", job[r], tasks[r], steps[r])
    BY DEF CauseInv, StoredCause, Endings
  <2>2. r \in RunsOf(i)
    BY <2>1 DEF Final, RunsOf
  <2> QED
    BY <2>1, <2>2 DEF Cause, AtGate, Tip, LastStep
<1> QED
  BY <1>1, CauseInvariant, PTL

(***************************************************************************)
(* The current step of a completed instance.                               *)
(***************************************************************************)
\* What a context has left to write was left there by a lost run.
LeftInv ==
    \A q \in Runs, i \in Instances :
        ctx[q].row[i] # ctx[q].orig[i] =>
            \E x \in ctx[q].scope : job[x].inst = i /\ pc[x] \in Lost

\* A run's context tracks no lost run of its own instance.
AloneInv ==
    \A r \in Runs :
        pc[r] \in Live =>
            \A x \in ctx[r].scope : job[x].inst = job[r].inst => x = r

\* The walk has come to a node that is labelled "End".
EndLabelled(g, log) == log # <<>> /\ Label(g, Tip(log).node) = EndStep

\* A run that entered a node takes its instance to be at that node's label.
PassedInv ==
    \A r \in Runs :
        pc[r] \in Live /\ Log(r) # <<>> /\ Row(r).step = EndStep =>
            EndLabelled(job[r].graph, Log(r))

\* Run x of instance i makes good for a current step that is not "End": its
\* graph has no nodes, or it is on its way to an ending, or was lost, or it
\* returned from a node that is labelled "End".
Excuses(x, i) ==
    /\ job[x].inst = i /\ ~Idle(x)
    /\ \/ job[x].graph.nodes = <<>>
       \/ pc[x] \in Lost
       \/ pc[x] \in Live /\ Log(x) # <<>>
       \/ pc[x] = "done" /\ PassedEnd(x)

\* A completed instance is at "End" or has such a run.
EndInv ==
    \A i \in Instances :
        inst[i].status = "completed" =>
            inst[i].step = EndStep \/ \E x \in Runs : Excuses(x, i)

EndsInv == LeftInv /\ AloneInv /\ PassedInv /\ EndInv

\* What a committed save does to the current step of an instance.
LEMMA CommitStep ==
    ASSUME TypeOK, NEW r \in Runs, NEW c \in Contexts, NEW next \in PCs,
           Commit(r, c, next), NEW i \in Instances
    PROVE  inst'[i].step = IF c.row[i].step # c.orig[i].step
                           THEN c.row[i].step ELSE inst[i].step
  BY DEF Commit, Merge, Changed

\* A run that goes on after a save has its step recorded, or had none.
LEMMA StepKnown ==
    ASSUME TypeOK, LogInv, PassedInv, NEW r \in Runs, NEW c \in Contexts,
           NEW next \in PCs, Saves(r, c, next), Records(r, c, next),
           next # "done", c.steps[r] # <<>>,
           c.row[job[r].inst].step = EndStep
    PROVE  EndLabelled(job[r].graph, c.steps[r])
<1> DEFINE g == job[r].graph
           n == cur[r].node
           log == Log(r)
<1>1. /\ Placed(g, Input(r), pc[r], log, n) /\ pc[r] \in Live
      /\ log \in Logs /\ IsWalk(g, Input(r), log)
  BY RunTypes DEF LogInv, PlacedInv, MemoryInv, Log, Saves
<1>2. \A m, status : Step(m, status).node = m
  BY DEF Step
<1>3. CASE next = "execute"
  <2>1. Label(g, n) = EndStep /\ cur'[r].node = n
    BY <1>3 DEF Records
  <2>2. Tip(c.steps[r]) = Step(cur'[r].node, "in_progress")
    BY <1>3, RecordedWalk DEF Placed
  <2> QED
    BY <1>2, <2>1, <2>2 DEF EndLabelled
<1>4. CASE next # "execute"
  <2>1. Row(r).step = EndStep
    BY <1>4 DEF Records
  <2>2. /\ log # <<>>
        /\ c.steps[r] = log \/ c.steps[r] = MarkLast(log, "completed")
    BY <1>1, <1>4 DEF Records, Placed
  <2>3. EndLabelled(g, log)
    BY <1>1, <2>1, <2>2 DEF PassedInv
  <2>4. Tip(c.steps[r]).node = Tip(log).node
    <3> HIDE DEF g, log
    <3> QED
      BY <1>1, <1>2, <2>2, MarkWalks
  <2> QED
    BY <2>3, <2>4 DEF EndLabelled
<1> QED
  BY <1>3, <1>4

\* A run that goes on keeps a log it has.
LEMMA LogStays ==
    ASSUME TypeOK, LogInv, NEW r \in Runs, NEW c \in Contexts,
           NEW next \in PCs, Saves(r, c, next), Records(r, c, next),
           next # "done", Log(r) # <<>> \/ next = "execute"
    PROVE  c.steps[r] # <<>>
<1>1. /\ Placed(job[r].graph, Input(r), next, c.steps[r], cur'[r].node)
      /\ Placed(job[r].graph, Input(r), pc[r], Log(r), cur[r].node)
  BY RecordedWalk DEF LogInv, PlacedInv, Saves
<1>2. CASE next = "execute"
  BY <1>1, <1>2 DEF Placed
<1>3. CASE next # "execute" /\ Log(r) # <<>>
  <2>1. Log(r) \in Logs /\ IsWalk(job[r].graph, Input(r), Log(r))
    BY RunTypes DEF LogInv, MemoryInv, Log
  <2>2. CASE c.steps[r] = Log(r)
    BY <1>3, <2>2
  <2>3. CASE c.steps[r] = MarkLast(Log(r), "completed")
    BY <1>3, <2>1, <2>3, MarkWalks
  <2> QED
    BY <1>3, <2>2, <2>3 DEF Records
<1> QED
  BY <1>2, <1>3

\* A live run has nothing left to write of its own instance.
LEMMA OwnRowClean ==
    ASSUME LeftInv, AloneInv, NEW r \in Runs, pc[r] \in Live,
           job[r].inst \in Instances
    PROVE  ctx[r].row[job[r].inst] = ctx[r].orig[job[r].inst]
  BY DEF LeftInv, AloneInv, Live, Lost

\* A run that ends at no node without having entered one has none to enter.
LEMMA NothingToEnter ==
    ASSUME NEW g \in GraphType, NEW input, Reaches(g, input, <<>>, NoNode)
    PROVE  g.nodes = <<>>
<1> DEFINE N == [id : STRING, label : STRING, type : NodeTypes,
                   config : Configs]
<1>1. g.nodes \in Seq(N)
  BY DEF GraphType
<1> HIDE DEF N
<1>2. /\ Len(g.nodes) \in Nat /\ DOMAIN g.nodes = 1..Len(g.nodes)
      /\ g.nodes # <<>> => Len(g.nodes) # 0
  BY <1>1, LenProperties, EmptySeq
<1>3. Positions(g) = {}
  BY StartNodeIsANode DEF Reaches
<1>4. 1 \notin 1..Len(g.nodes)
  BY <1>2, <1>3 DEF Positions
<1> QED
  BY <1>2, <1>4

\* A committed save keeps completed instances at "End", or excused.
LEMMA CommitKeepsEnd ==
    ASSUME TypeOK, StatusInv, LogInv, EndsInv, NEW r \in Runs,
           NEW c \in Contexts, NEW next \in PCs, Saves(r, c, next),
           Records(r, c, next), Commit(r, c, next), NEW i \in Instances,
           inst'[i].status = "completed"
    PROVE  inst'[i].step = EndStep \/ \E x \in Runs : Excuses(x, i)'
<1> USE DEF Lost, Live
<1>1. /\ job' = job /\ pc'[r] = next /\ pc[r] \in Live /\ next # "idle"
      /\ \A q \in Runs : q # r => pc'[q] = pc[q] /\ ctx'[q] = ctx[q]
      /\ c.orig = ctx[r].orig
  BY CommitRuns DEF Saves
<1>2. ASSUME NEW x \in Runs, x # r, Excuses(x, i) PROVE Excuses(x, i)'
  <2>1. CASE pc[x] = "done"
    <3>1. steps'[x] = steps[x]
      BY <1>2, <2>1, SavedLogs, CommitSteps
    <3> QED
      BY <1>1, <1>2, <2>1, <3>1 DEF Excuses, Idle, PassedEnd
  <2>2. CASE pc[x] # "done"
    BY <1>1, <1>2, <2>2 DEF Excuses, Idle, Log
  <2> QED
    BY <2>1, <2>2
<1>3. ASSUME job[r].inst = i,
             \/ job[r].graph.nodes = <<>>
             \/ next # "done" /\ (Log(r) # <<>> \/ next = "execute")
      PROVE  Excuses(r, i)'
  <2>1. CASE job[r].graph.nodes = <<>>
    BY <1>1, <1>3, <2>1 DEF Excuses, Idle
  <2>2. CASE next # "done" /\ (Log(r) # <<>> \/ next = "execute")
    <3>1. Log(r)' # <<>>
      BY <2>2, LogStays, CommitSteps DEF Log
    <3>2. next \in Live
      BY <2>2 DEF Saves
    <3> QED
      BY <1>1, <1>3, <3>1, <3>2 DEF Excuses, Idle
  <2> QED
    BY <1>3, <2>1, <2>2
<1>4. ASSUME inst[i].status = "completed", inst'[i].step = inst[i].step,
             job[r].inst = i => next # "done" \/ Log(r) = <<>>
      PROVE  inst'[i].step = EndStep \/ \E x \in Runs : Excuses(x, i)'
  <2>1. CASE inst[i].step = EndStep
    BY <1>4, <2>1
  <2>2. ASSUME NEW x \in Runs, Excuses(x, i)
        PROVE  \E y \in Runs : Excuses(y, i)'
    <3>1. CASE x # r
      BY <1>2, <2>2, <3>1
    <3>2. CASE x = r
      BY <1>1, <1>3, <1>4, <2>2, <3>2 DEF Excuses
    <3> QED
      BY <3>1, <3>2
  <2> QED
    BY <1>4, <2>1, <2>2 DEF EndsInv, EndInv
<1>5. CASE i # job[r].inst
  <2>1. c.row[i] = ctx[r].row[i]
    BY <1>5 DEF Saves
  <2>2. CASE c.row[i] # c.orig[i]
    <3>1. PICK x \in ctx[r].scope : job[x].inst = i /\ pc[x] \in Lost
      BY <1>1, <2>1, <2>2 DEF EndsInv, LeftInv
    <3>2. x \in Runs /\ x # r
      BY <1>5, <3>1, RunTypes DEF Contexts
    <3>3. Excuses(x, i)
      BY <3>1 DEF Excuses, Idle
    <3> QED
      BY <1>2, <3>2, <3>3
  <2>3. CASE c.row[i] = c.orig[i]
    BY <1>4, <1>5, <2>3, CommitStatus, CommitStep
  <2> QED
    BY <2>2, <2>3
<1>6. CASE i = job[r].inst
  <2>1. c.orig[i] = Row(r)
    BY <1>1, <1>6, OwnRowClean DEF EndsInv, Row
  <2>2. Placed(job[r].graph, Input(r), pc[r], Log(r), cur[r].node)
    BY <1>1 DEF LogInv, PlacedInv
  <2>3. CASE next # "done"
    <3>1. inst[i].status = "completed"
      <4>1. c.row[i].status = "running"
        BY <1>6, <2>3 DEF Saves
      <4> QED
        BY <4>1, CommitStatus
    <3>2. CASE next = "execute"
      BY <1>3, <1>6, <3>2
    <3>3. CASE next # "execute"
      <4>1. c.row[i].step = c.orig[i].step
        BY <1>6, <2>1, <2>3, <3>3 DEF Records
      <4> QED
        BY <1>4, <2>3, <3>1, <4>1, CommitStep
    <3> QED
      BY <3>2, <3>3
  <2>4. CASE next = "done" /\ pc[r] = "decided"
    <3>1. c.row[i].status = "failed"
      BY <1>6, <2>4 DEF Saves
    <3>2. inst[i].status = "completed"
      BY <3>1, CommitStatus
    <3>3. c.row[i].step = c.orig[i].step
      BY <1>6, <2>1, <2>4 DEF Records
    <3>4. Log(r) = <<>>
      BY <2>2, <2>4 DEF Placed
    <3> QED
      BY <1>4, <3>2, <3>3, <3>4, CommitStep
  <2>5. CASE next = "done" /\ pc[r] # "decided"
    <3>1. Working(r)
      BY <2>5 DEF Saves
    <3>2. c.orig[i].status = "running" /\ c.row[i].status \in Endings
      BY <1>6, <2>1, <2>5, <3>1 DEF StatusInv, SavedInv, Saves, Endings
    <3>3. c.row[i].status = "completed"
      BY <3>2, CommitStatus DEF Endings
    <3>4. /\ pc[r] = "next"
          /\ \/ job[r].graph.nodes = <<>>
             \/ cur[r].node = NoNode /\ c.row[i].step = EndStep
      BY <1>6, <2>5, <3>3 DEF Records
    <3>5. CASE job[r].graph.nodes = <<>>
      BY <1>3, <1>6, <3>5
    <3>6. CASE cur[r].node = NoNode /\ c.row[i].step = EndStep
      <4>1. Reaches(job[r].graph, Input(r), Log(r), NoNode)
        BY <2>2, <3>4, <3>6 DEF Placed
      <4>2. CASE Log(r) = <<>>
        <5>1. job[r].graph \in GraphType
          BY DEF TypeOK, Jobs
        <5>2. job[r].graph.nodes = <<>>
          BY <4>1, <4>2, <5>1, NothingToEnter
        <5> QED
          BY <1>3, <1>6, <5>2
      <4>3. CASE Log(r) # <<>>
        <5>1. CASE c.orig[i].step # EndStep
          BY <3>6, <5>1, CommitStep
        <5>2. CASE c.orig[i].step = EndStep
          <6>1. EndLabelled(job[r].graph, Log(r))
            BY <1>1, <2>1, <4>3, <5>2 DEF EndsInv, PassedInv
          <6>2. r \in c.scope
            BY DEF StatusInv, ScopeInv, Saves
          <6>3. c.steps[r] = Log(r)
            BY <2>5, <3>4 DEF Records
          <6>4. steps'[r] = Log(r)
            BY <6>2, <6>3, CommitSteps
          <6>5. Len(Log(r)) \in DOMAIN Log(r)
            <7>1. Log(r) \in Logs
              BY RunTypes
            <7> QED
              BY <4>3, <7>1, LenProperties, EmptySeq DEF Logs
          <6>6. PassedEnd(r)'
            BY <1>1, <6>1, <6>4, <6>5 DEF PassedEnd, EndLabelled, Tip
          <6> QED
            BY <1>1, <1>6, <2>5, <6>6 DEF Excuses, Idle
        <5> QED
          BY <5>1, <5>2
      <4> QED
        BY <4>2, <4>3
    <3> QED
      BY <3>4, <3>5, <3>6
  <2> QED
    BY <2>3, <2>4, <2>5
<1> QED
  BY <1>5, <1>6

\* A committed save keeps the rest of the invariant.
LEMMA CommitKeepsEnds ==
    ASSUME TypeOK, StatusInv, LogInv, EndsInv, NEW r \in Runs,
           NEW c \in Contexts, NEW next \in PCs, Saves(r, c, next),
           Records(r, c, next), Commit(r, c, next)
    PROVE  EndsInv'
<1> USE DEF Lost, Live
<1>1. /\ job' = job /\ pc'[r] = next /\ pc[r] \in Live
      /\ \A q \in Runs : q # r => pc'[q] = pc[q] /\ ctx'[q] = ctx[q]
      /\ c.scope = ctx[r].scope
  BY CommitRuns DEF Saves
<1>2. \A q \in Runs : ctx[q].scope \subseteq Runs
  BY RunTypes DEF Contexts
<1>3. LeftInv'
  <2> SUFFICES ASSUME NEW q \in Runs, NEW i \in Instances,
                      ctx'[q].row[i] # ctx'[q].orig[i]
               PROVE  \E x \in ctx'[q].scope :
                         job[x].inst = i /\ pc'[x] \in Lost
    BY <1>1 DEF LeftInv
  <2>1. q # r
    BY CommitRuns, EmptyIsClean
  <2>2. PICK x \in ctx[q].scope : job[x].inst = i /\ pc[x] \in Lost
    BY <1>1, <2>1 DEF EndsInv, LeftInv
  <2> QED
    BY <1>1, <1>2, <2>1, <2>2
<1>4. AloneInv'
  <2> SUFFICES ASSUME NEW q \in Runs, pc'[q] \in Live,
                      NEW x \in ctx'[q].scope, job[x].inst = job[q].inst
               PROVE  x = q
    BY <1>1 DEF AloneInv
  <2>1. CASE q = r
    BY <1>1, <2>1, CommitRuns DEF EndsInv, AloneInv
  <2>2. CASE q # r
    BY <1>1, <2>2 DEF EndsInv, AloneInv
  <2> QED
    BY <2>1, <2>2
<1>5. PassedInv'
  <2> SUFFICES ASSUME NEW q \in Runs, pc'[q] \in Live, Log(q)' # <<>>,
                      Row(q)'.step = EndStep
               PROVE  EndLabelled(job[q].graph, Log(q)')
    BY <1>1 DEF PassedInv, EndLabelled
  <2>1. CASE q = r
    <3>1. next # "done" /\ Log(r)' = c.steps[r] /\ Row(r)' = c.row[job[r].inst]
      BY <1>1, <2>1, CommitRuns, CommitSteps DEF Log, Row
    <3> QED
      BY <2>1, <3>1, StepKnown DEF EndsInv
  <2>2. CASE q # r
    BY <1>1, <2>2 DEF EndsInv, PassedInv, Log, Row
  <2> QED
    BY <2>1, <2>2
<1>6. EndInv'
  BY CommitKeepsEnd DEF EndInv
<1> QED
  BY <1>3, <1>4, <1>5, <1>6 DEF EndsInv

\* A step that completes no instance, moves no current step of a completed
\* one and takes away no excuse keeps completed instances at "End".
LEMMA EndStays ==
    ASSUME EndInv,
           \A i \in Instances :
              inst'[i].status = "completed" => inst'[i] = inst[i],
           \A x \in Runs, i \in Instances : Excuses(x, i) => Excuses(x, i)'
    PROVE  EndInv'
  BY DEF EndInv

\* An exception or a refused save of run r keeps the invariant: what its
\* context c has left to write is now left by r, which is lost.
LEMMA AbortKeepsEnds ==
    ASSUME TypeOK, StatusInv, EndsInv, NEW r \in Runs, pc[r] \in Live,
           NEW c, c.scope = ctx[r].scope, c.orig = ctx[r].orig,
           \A i \in Instances :
              i # job[r].inst => c.row[i] = ctx[r].row[i],
           pc' = [pc EXCEPT ![r] = "aborted"], ctx' = [ctx EXCEPT ![r] = c],
           UNCHANGED <<inst, steps, job>>
    PROVE  EndsInv'
<1> USE DEF Lost, Live
<1>1. /\ pc'[r] = "aborted" /\ ctx'[r] = c /\ job' = job /\ inst' = inst
      /\ steps' = steps
      /\ \A q \in Runs : q # r => pc'[q] = pc[q] /\ ctx'[q] = ctx[q]
  BY DEF TypeOK
<1>2. \A q \in Runs : ctx[q].scope \subseteq Runs
  BY RunTypes DEF Contexts
<1>3. \A x \in Runs : pc[x] \in Lost => pc'[x] \in Lost
  BY <1>1
<1>4. LeftInv'
  <2> SUFFICES ASSUME NEW q \in Runs, NEW i \in Instances,
                      ctx'[q].row[i] # ctx'[q].orig[i]
               PROVE  \E x \in ctx'[q].scope :
                         job[x].inst = i /\ pc'[x] \in Lost
    BY <1>1 DEF LeftInv
  <2>1. CASE q = r /\ i = job[r].inst
    <3>1. r \in c.scope
      BY DEF StatusInv, ScopeInv
    <3> QED
      BY <1>1, <2>1, <3>1
  <2>2. CASE ~(q = r /\ i = job[r].inst)
    <3>1. /\ ctx'[q].row[i] = ctx[q].row[i] /\ ctx'[q].orig = ctx[q].orig
          /\ ctx'[q].scope = ctx[q].scope
      BY <1>1, <2>2
    <3>2. PICK x \in ctx[q].scope : job[x].inst = i /\ pc[x] \in Lost
      BY <3>1 DEF EndsInv, LeftInv
    <3>3. x \in Runs
      BY <1>2, <3>2
    <3> QED
      BY <1>3, <3>1, <3>2, <3>3
  <2> QED
    BY <2>1, <2>2
<1>5. AloneInv'
  BY <1>1 DEF EndsInv, AloneInv
<1>6. PassedInv'
  BY <1>1 DEF EndsInv, PassedInv, EndLabelled, Log, Row
<1>7. ASSUME NEW x \in Runs, NEW i \in Instances, Excuses(x, i)
      PROVE  Excuses(x, i)'
  <2>1. CASE x = r
    BY <1>1, <1>7, <2>1 DEF Excuses, Idle
  <2>2. CASE x # r
    BY <1>1, <1>7, <2>2 DEF Excuses, Idle, Log, PassedEnd
  <2> QED
    BY <2>1, <2>2
<1>8. EndInv'
  BY <1>1, <1>7, EndStays DEF EndsInv
<1> QED
  BY <1>4, <1>5, <1>6, <1>8 DEF EndsInv

\* A step of a run keeps the invariant.
LEMMA AdvanceKeepsEnds ==
    ASSUME TypeOK, StatusInv, LogInv, EndsInv, NEW r \in Runs, Advance(r)
    PROVE  EndsInv'
<1>1. CASE ExecutorThrows(r)
  <2>1. /\ pc[r] \in Live /\ pc' = [pc EXCEPT ![r] = "aborted"]
        /\ UNCHANGED <<inst, steps, job>>
    BY <1>1 DEF ExecutorThrows, Executing, tables, Live
  <2>2. ctx' = [ctx EXCEPT ![r] = ctx[r]]
    BY <1>1 DEF ExecutorThrows, TypeOK
  <2> QED
    BY <2>1, <2>2, AbortKeepsEnds
<1>2. ASSUME NEW c \in Contexts, NEW next \in PCs, Saves(r, c, next),
             Records(r, c, next)
      PROVE  EndsInv'
  <2>1. CASE Commit(r, c, next)
    BY <1>2, <2>1, CommitKeepsEnds
  <2>2. CASE Refuse(r, c)
    <3>1. /\ pc' = [pc EXCEPT ![r] = "aborted"] /\ ctx' = [ctx EXCEPT ![r] = c]
          /\ UNCHANGED <<inst, steps, job>> /\ pc[r] \in Live
      BY <1>2, <2>2 DEF Refuse, Saves, tables
    <3>2. /\ c.scope = ctx[r].scope /\ c.orig = ctx[r].orig
          /\ \A i \in Instances :
                i # job[r].inst => c.row[i] = ctx[r].row[i]
      BY <1>2 DEF Saves
    <3> QED
      BY <3>1, <3>2, AbortKeepsEnds
  <2> QED
    BY <1>2, <2>1, <2>2 DEF Saves, Save
<1> QED
  BY <1>1, <1>2, AdvanceRecords DEF StatusInv

\* A call that begins in a fresh context has nothing to write or to excuse.
LEMMA FreshEnds ==
    ASSUME TypeOK, StatusInv, EndsInv, NEW r \in Runs,
           NEW i, NEW task, NEW decision, Start(r, i, task, decision),
           NEW c, c.scope = {r}, c.row = c.orig, c.steps[r] = <<>>,
           ctx' = [ctx EXCEPT ![r] = c],
           NEW at \in {"loaded", "decided"}, pc' = [pc EXCEPT ![r] = at]
    PROVE  EndsInv'
<1> USE DEF Lost, Live
<1>1. /\ pc[r] = "idle" /\ pc'[r] = at /\ ctx'[r] = c /\ inst' = inst
      /\ steps' = steps
      /\ \A x \in Runs : x # r => /\ job'[x] = job[x]
                                  /\ pc'[x] = pc[x] /\ ctx'[x] = ctx[x]
  BY DEF Start, NextRun, Idle, TypeOK, tables
<1>2. \A q \in Runs : ctx[q].scope \subseteq Runs /\ r \notin ctx[q].scope
  BY <1>1, RunTypes DEF Contexts, StatusInv, ScopeInv, Idle
<1>3. LeftInv'
  <2> SUFFICES ASSUME NEW q \in Runs, NEW j \in Instances,
                      ctx'[q].row[j] # ctx'[q].orig[j]
               PROVE  \E x \in ctx'[q].scope :
                         job'[x].inst = j /\ pc'[x] \in Lost
    BY DEF LeftInv
  <2>1. q # r /\ ctx'[q] = ctx[q]
    BY <1>1
  <2>2. PICK x \in ctx[q].scope : job[x].inst = j /\ pc[x] \in Lost
    BY <2>1 DEF EndsInv, LeftInv
  <2>3. x \in Runs /\ x # r
    BY <1>2, <2>2
  <2> QED
    BY <1>1, <2>1, <2>2, <2>3
<1>4. AloneInv'
  <2> SUFFICES ASSUME NEW q \in Runs, pc'[q] \in Live,
                      NEW x \in ctx'[q].scope, job'[x].inst = job'[q].inst
               PROVE  x = q
    BY DEF AloneInv
  <2>1. CASE q = r
    BY <1>1, <2>1
  <2>2. CASE q # r
    <3>1. x \in Runs /\ x # r
      BY <1>1, <1>2, <2>2
    <3> QED
      BY <1>1, <2>2, <3>1 DEF EndsInv, AloneInv
  <2> QED
    BY <2>1, <2>2
<1>5. PassedInv'
  BY <1>1 DEF EndsInv, PassedInv, EndLabelled, Log, Row
<1>6. \A x \in Runs, j \in Instances : Excuses(x, j) => Excuses(x, j)'
  BY <1>1 DEF Excuses, Idle, Log, PassedEnd
<1>7. EndInv'
  BY <1>1, <1>6, EndStays DEF EndsInv
<1> QED
  BY <1>3, <1>4, <1>5, <1>7 DEF EndsInv

\* The next call of a batch takes over what lost runs of other instances left.
LEMMA BeginAfterKeepsEnds ==
    ASSUME TypeOK, StatusInv, LogInv, EndsInv, NEW r \in Runs, NEW q \in Runs,
           NEW i \in Instances, BeginExecuteAfter(r, i, q)
    PROVE  EndsInv'
<1> USE DEF Lost, Live
<1>1. /\ pc[r] = "idle" /\ q # r /\ inst' = inst /\ steps' = steps
      /\ pc[q] = "aborted" /\ pc'[r] = "loaded" /\ pc'[q] = "dead"
      /\ ctx'[q] = EmptyContext /\ ctx'[r] = Load(ctx[q], r, i)
      /\ \A x \in Runs : x # r => job'[x] = job[x]
      /\ \A x \in Runs : x # r /\ x # q => pc'[x] = pc[x] /\ ctx'[x] = ctx[x]
  BY DEF BeginExecuteAfter, Start, NextRun, TypeOK, tables, Idle
<1>2. \A p \in Runs : ctx[p].scope \subseteq Runs /\ r \notin ctx[p].scope
  BY <1>1, RunTypes DEF Contexts, StatusInv, ScopeInv, Idle
<1>3. /\ ctx'[r].steps = ctx[q].steps /\ ctx'[r].scope = ctx[q].scope \cup {r}
      /\ ctx'[r].orig = [ctx[q].orig EXCEPT ![i] = inst[i]]
      /\ ctx'[r].row = [ctx[q].row EXCEPT ![i] = inst[i]]
      /\ ctx[q].orig \in [Instances -> Rows] /\ ctx[q].row \in [Instances -> Rows]
  <2>1. ctx[q] \in Contexts
    BY RunTypes
  <2>2. ctx[q].orig \in [Instances -> Rows] /\ ctx[q].row \in [Instances -> Rows]
    BY <2>1 DEF Contexts
  <2>3. /\ Load(ctx[q], r, i).orig = [ctx[q].orig EXCEPT ![i] = inst[i]]
        /\ Load(ctx[q], r, i).row = [ctx[q].row EXCEPT ![i] = inst[i]]
    BY <2>1 DEF Load, Contexts
  <2>4. /\ Load(ctx[q], r, i).steps = ctx[q].steps
        /\ Load(ctx[q], r, i).scope = ctx[q].scope \cup {r}
    BY <2>1, LoadSteps
  <2> QED
    BY <1>1, <2>2, <2>3, <2>4
<1>4. job'[r].inst = i /\ \A x \in ctx[q].scope : job[x].inst # i
  BY DEF BeginExecuteAfter, Start, TypeOK
<1>5. \A x \in Runs : pc[x] \in Lost => pc'[x] \in Lost /\ x # r
  BY <1>1
<1>6. LeftInv'
  <2> SUFFICES ASSUME NEW p \in Runs, NEW j \in Instances,
                      ctx'[p].row[j] # ctx'[p].orig[j]
               PROVE  \E x \in ctx'[p].scope :
                         job'[x].inst = j /\ pc'[x] \in Lost
    BY DEF LeftInv
  <2>1. CASE p = r
    <3>1. j # i
      BY <1>3, <2>1
    <3>2. ctx[q].row[j] # ctx[q].orig[j]
      BY <1>3, <2>1, <3>1
    <3>3. PICK x \in ctx[q].scope : job[x].inst = j /\ pc[x] \in Lost
      BY <3>2 DEF EndsInv, LeftInv
    <3>4. x \in Runs
      BY <1>2, <3>3
    <3> QED
      BY <1>1, <1>3, <1>5, <2>1, <3>3, <3>4
  <2>2. CASE p = q
    BY <1>1, <2>2, EmptyIsClean
  <2>3. CASE p # r /\ p # q
    <3>1. PICK x \in ctx[p].scope : job[x].inst = j /\ pc[x] \in Lost
      BY <1>1, <2>3 DEF EndsInv, LeftInv
    <3>2. x \in Runs
      BY <1>2, <3>1
    <3> QED
      BY <1>1, <1>5, <2>3, <3>1, <3>2
  <2> QED
    BY <2>1, <2>2, <2>3
<1>7. AloneInv'
  <2> SUFFICES ASSUME NEW p \in Runs, pc'[p] \in Live,
                      NEW x \in ctx'[p].scope, job'[x].inst = job'[p].inst
               PROVE  x = p
    BY DEF AloneInv
  <2>1. CASE p = r
    <3>1. ASSUME x # r PROVE FALSE
      <4>1. x \in ctx[q].scope
        BY <1>3, <2>1, <3>1
      <4>2. job[x].inst = i
        BY <1>1, <1>2, <1>4, <2>1, <3>1, <4>1
      <4> QED
        BY <1>4, <4>1, <4>2
    <3> QED
      BY <2>1, <3>1
  <2>2. CASE p # r
    <3>1. p # q
      BY <1>1
    <3>2. x \in Runs /\ x # r
      BY <1>1, <1>2, <2>2, <3>1
    <3> QED
      BY <1>1, <2>2, <3>1, <3>2 DEF EndsInv, AloneInv
  <2> QED
    BY <2>1, <2>2
<1>8. Log(r)' = <<>>
  BY <1>2, <1>3 DEF LogInv, MemoryInv, Log
<1>9. PassedInv'
  <2> SUFFICES ASSUME NEW p \in Runs, pc'[p] \in Live, Log(p)' # <<>>,
                      Row(p)'.step = EndStep
               PROVE  EndLabelled(job'[p].graph, Log(p)')
    BY DEF PassedInv, EndLabelled
  <2>1. p # r /\ p # q
    BY <1>1, <1>8
  <2> QED
    BY <1>1, <2>1 DEF EndsInv, PassedInv, Log, Row
<1>10. ASSUME NEW x \in Runs, NEW j \in Instances, Excuses(x, j)
       PROVE  Excuses(x, j)'
  <2>1. x # r
    BY <1>1, <1>10 DEF Excuses, Idle
  <2>2. CASE x = q
    BY <1>1, <1>10, <2>1, <2>2 DEF Excuses, Idle
  <2>3. CASE x # q
    BY <1>1, <1>10, <2>1, <2>3 DEF Excuses, Idle, Log, PassedEnd
  <2> QED
    BY <2>2, <2>3
<1>11. EndInv'
  BY <1>1, <1>10, EndStays DEF EndsInv
<1> QED
  BY <1>6, <1>7, <1>9, <1>11 DEF EndsInv

\* A crash leaves nothing to write, and every run it ends is lost.
LEMMA CrashKeepsEnds ==
    ASSUME TypeOK, EndsInv, Crash
    PROVE  EndsInv'
<1> USE DEF Lost, Live
<1>1. /\ \A r \in Runs : ctx'[r] = EmptyContext
      /\ \A r \in Runs : pc'[r] = IF pc[r] \in Live \cup {"aborted"}
                                  THEN "dead" ELSE pc[r]
      /\ inst' = inst /\ steps' = steps /\ job' = job
  BY DEF Crash, tables
<1>2. \A r \in Runs : pc'[r] \notin Live
  BY <1>1
<1>3. LeftInv'
  BY <1>1, EmptyIsClean DEF LeftInv
<1>4. AloneInv' /\ PassedInv'
  BY <1>2 DEF AloneInv, PassedInv
<1>5. \A x \in Runs, i \in Instances : Excuses(x, i) => Excuses(x, i)'
  BY <1>1 DEF Excuses, Idle, PassedEnd
<1>6. EndInv'
  BY <1>1, <1>5, EndStays DEF EndsInv
<1> QED
  BY <1>3, <1>4, <1>6 DEF EndsInv

\* A write of the tables that completes no instance keeps the invariant.
LEMMA WriteKeepsEnds ==
    ASSUME EndsInv, UNCHANGED <<steps, pc, job, ctx>>,
           \A i \in Instances :
              inst'[i].status = "completed" => inst'[i] = inst[i]
    PROVE  EndsInv'
<1>1. LeftInv' /\ AloneInv'
  BY DEF EndsInv, LeftInv, AloneInv
<1>2. PassedInv'
  BY DEF EndsInv, PassedInv, EndLabelled, Log, Row
<1>3. \A x \in Runs, i \in Instances : Excuses(x, i) => Excuses(x, i)'
  BY DEF Excuses, Idle, Log, PassedEnd
<1>4. EndInv'
  BY <1>3, EndStays DEF EndsInv
<1> QED
  BY <1>1, <1>2, <1>4 DEF EndsInv

\* Every step of the specification keeps the invariant.
LEMMA NextKeepsEnds ==
    TypeOK /\ StatusInv /\ LogInv /\ EndsInv /\ [Next]_vars => EndsInv'
<1> SUFFICES ASSUME TypeOK, StatusInv, LogInv, EndsInv, [Next]_vars
             PROVE  EndsInv'
  OBVIOUS
<1>1. ASSUME NEW r \in Runs, Advance(r) PROVE EndsInv'
  BY <1>1, AdvanceKeepsEnds
<1>2. ASSUME NEW r \in Runs, NEW i \in Instances, BeginExecute(r, i)
      PROVE  EndsInv'
  <2> DEFINE c == Load(EmptyContext, r, i)
  <2>1. c.scope = {r} /\ c.row = c.orig /\ c.steps[r] = <<>>
    BY FreshFields, FreshClean, EmptyContextType, EmptySteps, LoadSteps
  <2>2. /\ Start(r, i, NoTask, "approved")
        /\ ctx' = [ctx EXCEPT ![r] = c] /\ pc' = [pc EXCEPT ![r] = "loaded"]
    BY <1>2 DEF BeginExecute
  <2> HIDE DEF c
  <2> QED
    BY <2>1, <2>2, FreshEnds
<1>3. ASSUME NEW r \in Runs, NEW q \in Runs, NEW i \in Instances,
             BeginExecuteAfter(r, i, q)
      PROVE  EndsInv'
  BY <1>3, BeginAfterKeepsEnds
<1>4. ASSUME NEW r \in Runs, NEW t \in Runs, NEW d \in Decisions,
             BeginResume(r, t, d)
      PROVE  EndsInv'
  <2> DEFINE i == job[t].inst
             loaded == Load(EmptyContext, r, i)
             verdict == IF tasks[t] = d THEN "same" ELSE d
             c == SetTask(loaded, t, verdict)
  <2>1. i \in Instances
    BY RunTypes
  <2>2. loaded \in Contexts /\ loaded.scope = {r} /\ loaded.row = loaded.orig
    BY <2>1, FreshFields, FreshClean
  <2>3. loaded.steps[r] = <<>>
    BY <2>1, EmptyContextType, EmptySteps, LoadSteps
  <2>4. c.scope = {r} /\ c.row = c.orig /\ c.steps[r] = <<>>
    <3> HIDE DEF loaded, verdict
    <3> QED
      BY <2>2, <2>3 DEF SetTask, Contexts
  <2>5. /\ Start(r, i, t, d) /\ ctx' = [ctx EXCEPT ![r] = c]
        /\ pc' = [pc EXCEPT ![r] = "decided"]
    BY <1>4 DEF BeginResume
  <2> HIDE DEF c, i
  <2> QED
    BY <2>4, <2>5, FreshEnds
<1>5. CASE LoadFails
  BY <1>5, WriteKeepsEnds DEF LoadFails, tables
<1>6. CASE Crash
  BY <1>6, CrashKeepsEnds
<1>7. ASSUME NEW i \in Instances, CreateInstance(i) \/ CancelWrite(i)
      PROVE  EndsInv'
  <2>1. inst'[i].status \in {"pending", "cancelled"}
    BY <1>7, WrittenStatus
  <2>2. \A j \in Instances : j # i => inst'[j] = inst[j]
    BY <1>7 DEF CreateInstance, CancelWrite, TypeOK
  <2>3. \A j \in Instances :
           inst'[j].status = "completed" => inst'[j] = inst[j]
    BY <2>1, <2>2
  <2>4. UNCHANGED <<steps, pc, job, ctx>>
    BY <1>7 DEF CreateInstance, CancelWrite
  <2> QED
    BY <2>3, <2>4, WriteKeepsEnds
<1>8. ASSUME NEW t \in Runs, NEW d \in Decisions, DecideWrite(t, d)
      PROVE  EndsInv'
  BY <1>8, WriteKeepsEnds DEF DecideWrite
<1>9. ASSUME NEW d \in Definitions, NEW g \in Graphs, EditDefinition(d, g)
      PROVE  EndsInv'
  BY <1>9, WriteKeepsEnds DEF EditDefinition, tables
<1>10. CASE UNCHANGED vars
  BY <1>10, WriteKeepsEnds DEF vars, tables
<1> QED
  BY <1>1, <1>2, <1>3, <1>4, <1>5, <1>6, <1>7, <1>8, <1>9, <1>10 DEF Next

\* Initially no instance is completed and nothing is left to write.
LEMMA InitEnds == Init => EndsInv
<1> SUFFICES ASSUME Init PROVE EndsInv
  OBVIOUS
<1>1. /\ \A r \in Runs : ctx[r] = EmptyContext /\ pc[r] = "idle"
      /\ \A i \in Instances : inst[i].status = "none"
  BY DEF Init, NoRow
<1>2. LeftInv
  BY <1>1, EmptyIsClean DEF LeftInv
<1>3. AloneInv /\ PassedInv /\ EndInv
  BY <1>1 DEF AloneInv, PassedInv, EndInv, Live
<1> QED
  BY <1>2, <1>3 DEF EndsInv

\* The invariant itself.
LEMMA EndsInvariant == Spec => []EndsInv
<1>1. Init => EndsInv
  BY InitEnds
<1>2. TypeOK /\ StatusInv /\ LogInv /\ EndsInv /\ [Next]_vars => EndsInv'
  BY NextKeepsEnds
<1>3. Spec => [](TypeOK /\ StatusInv)
  BY StatusInvariant
<1> QED
  BY <1>1, <1>2, <1>3, LogInvariant, PTL DEF Spec

\* Once all runs of a completed instance have returned, its current step is
\* "End", unless a run of it found a graph without nodes or went through a
\* node that is itself labelled "End": the save that completes it writes "End"
\* last, whatever racing runs stored before, if it writes the column at all.
THEOREM CompletedAtEnd == Spec => []CompletedShowsEnd
<1>1. EndsInv => CompletedShowsEnd
  <2> SUFFICES ASSUME EndsInv, NEW i \in Instances,
                      inst[i].status = "completed", Quiet(i),
                      inst[i].step # EndStep
               PROVE  \E x \in RunsOf(i) :
                         job[x].graph.nodes = <<>> \/ PassedEnd(x)
    BY DEF CompletedShowsEnd
  <2>1. PICK x \in Runs : Excuses(x, i)
    BY DEF EndsInv, EndInv
  <2>2. x \in RunsOf(i) /\ pc[x] = "done"
    BY <2>1 DEF Excuses, RunsOf, Quiet
  <2> QED
    BY <2>1, <2>2 DEF Excuses, Lost, Live
<1> QED
  BY <1>1, EndsInvariant, PTL
=============================================================================
