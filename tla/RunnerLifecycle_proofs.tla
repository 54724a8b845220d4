------------------------ MODULE RunnerLifecycle_proofs ------------------------
(***************************************************************************)
(* Proof that the runner implements InstanceLifecycle.                     *)
(***************************************************************************)
EXTENDS RunnerStatus_proofs

\* What may be left to write of a row's status.
Written == Endings \cup {"running"}

\* What a context has left to write of an instance's status, the engine meant
\* to write for a run that the context tracks.
LeftoverInv ==
    \A r \in Runs, i \in Instances :
        ctx[r].row[i].status # ctx[r].orig[i].status =>
            /\ ctx[r].row[i].status \in Written
            /\ \E x \in ctx[r].scope : job[x].inst = i

\* A call that is about to take down a decision has nothing left to write.
DecidingInv ==
    \A r \in Runs : pc[r] = "decided" => ctx[r].orig = ctx[r].row

LifeInv == LeftoverInv /\ DecidingInv

\* Only an instance that exists is ever called for.
CalledInv == \A r \in Runs : ~Idle(r) => Exists(job[r].inst)

(***************************************************************************)
(* The invariant.                                                          *)
(***************************************************************************)
\* A fresh context has nothing to write.
LEMMA EmptyIsClean == EmptyContext.orig = EmptyContext.row
  BY DEF EmptyContext

\* A committed save leaves nothing to write, and other contexts alone.
LEMMA CommitLife ==
    ASSUME TypeOK, StatusInv, LifeInv, NEW r \in Runs, NEW c \in Contexts,
           NEW next \in PCs, Saves(r, c, next), Commit(r, c, next)
    PROVE  LifeInv'
<1>1. ctx'[r].orig = ctx'[r].row /\ pc'[r] = next
  BY CommitRuns, EmptyIsClean
<1>2. \A q \in Runs : q # r => pc'[q] = pc[q] /\ ctx'[q] = ctx[q]
  BY CommitRuns
<1>3. job' = job
  BY DEF Saves
<1>4. LeftoverInv'
  BY <1>1, <1>2, <1>3 DEF LifeInv, LeftoverInv
<1>5. DecidingInv'
  BY <1>1, <1>2 DEF LifeInv, DecidingInv
<1> QED
  BY <1>4, <1>5 DEF LifeInv

\* A refused save leaves the run's own row to be written, and what was left
\* of others.
LEMMA RefuseLife ==
    ASSUME TypeOK, StatusInv, LifeInv, NEW r \in Runs, NEW c \in Contexts,
           NEW next \in PCs, Saves(r, c, next), Refuse(r, c)
    PROVE  LifeInv'
<1>1. /\ pc' = [pc EXCEPT ![r] = "aborted"] /\ ctx' = [ctx EXCEPT ![r] = c]
      /\ job' = job
  BY DEF Refuse, Saves
<1>2. /\ \A q \in Runs : q # r => pc'[q] = pc[q] /\ ctx'[q] = ctx[q]
      /\ pc'[r] = "aborted" /\ ctx'[r] = c
  BY <1>1 DEF TypeOK
<1>3. r \in c.scope /\ c.scope = ctx[r].scope
  BY DEF StatusInv, ScopeInv, Saves
<1>4. ASSUME NEW i \in Instances, c.row[i].status # c.orig[i].status
      PROVE  c.row[i].status \in Written /\ \E x \in c.scope : job[x].inst = i
  <2>1. CASE i = job[r].inst
    BY <1>3, <2>1 DEF Saves, Written
  <2>2. CASE i # job[r].inst
    BY <1>3, <1>4, <2>2 DEF LifeInv, LeftoverInv, Saves
  <2> QED
    BY <2>1, <2>2
<1>5. LeftoverInv'
  BY <1>1, <1>2, <1>4 DEF LifeInv, LeftoverInv
<1>6. DecidingInv'
  BY <1>2 DEF LifeInv, DecidingInv
<1> QED
  BY <1>5, <1>6 DEF LifeInv

\* A step of a run keeps the invariant.
LEMMA AdvanceLife ==
    ASSUME TypeOK, StatusInv, LifeInv, NEW r \in Runs, Advance(r)
    PROVE  LifeInv'
<1>1. CASE ExecutorThrows(r)
  <2>1. ctx' = ctx /\ job' = job /\ pc' = [pc EXCEPT ![r] = "aborted"]
    BY <1>1 DEF ExecutorThrows
  <2>2. \A q \in Runs : pc'[q] = "decided" => pc[q] = "decided"
    BY <2>1 DEF TypeOK
  <2> QED
    BY <2>1, <2>2 DEF LifeInv, LeftoverInv, DecidingInv
<1>2. ASSUME NEW c \in Contexts, NEW next \in PCs, Saves(r, c, next)
      PROVE  LifeInv'
  BY <1>2, CommitLife, RefuseLife DEF Saves, Save
<1> QED
  BY <1>1, <1>2, AdvanceSaves DEF StatusInv

\* A call that begins in a fresh context has nothing to write.
LEMMA BeginLife ==
    ASSUME TypeOK, StatusInv, LifeInv, NEW r \in Runs, NEW i \in Instances,
           NEW task, NEW decision, Start(r, i, task, decision),
           NEW c \in Contexts, c.orig = c.row,
           ctx' = [ctx EXCEPT ![r] = c],
           NEW at \in PCs, pc' = [pc EXCEPT ![r] = at]
    PROVE  LifeInv'
<1>1. /\ \A q \in Runs : q # r => /\ pc'[q] = pc[q] /\ ctx'[q] = ctx[q]
                                  /\ job'[q] = job[q]
      /\ ctx'[r] = c /\ pc[r] = "idle"
  BY DEF TypeOK, Start, NextRun, Idle
<1>2. \A q \in Runs : ctx[q].scope \subseteq Runs /\ r \notin ctx[q].scope
  BY <1>1, RunTypes DEF Contexts, StatusInv, ScopeInv, Idle
<1>3. LeftoverInv'
  BY <1>1, <1>2 DEF LifeInv, LeftoverInv
<1>4. DecidingInv'
  BY <1>1 DEF LifeInv, DecidingInv
<1> QED
  BY <1>3, <1>4 DEF LifeInv

\* A load of an instance reads it, in memory and as it was loaded.
LEMMA LoadClean ==
    ASSUME TypeOK, NEW c \in Contexts, NEW r \in Runs, NEW i \in Instances
    PROVE  /\ Load(c, r, i).orig = [c.orig EXCEPT ![i] = inst[i]]
           /\ Load(c, r, i).row = [c.row EXCEPT ![i] = inst[i]]
           /\ Load(c, r, i).scope = c.scope \cup {r}
  BY DEF Load, Contexts

\* A load into a fresh context leaves nothing to write.
LEMMA FreshClean ==
    ASSUME TypeOK, NEW r \in Runs, NEW i \in Instances
    PROVE  /\ Load(EmptyContext, r, i) \in Contexts
           /\ Load(EmptyContext, r, i).orig = Load(EmptyContext, r, i).row
<1>1. EmptyContext \in Contexts
  BY EmptyContextType
<1>2. /\ Load(EmptyContext, r, i).orig = [EmptyContext.orig EXCEPT ![i] = inst[i]]
      /\ Load(EmptyContext, r, i).row = [EmptyContext.row EXCEPT ![i] = inst[i]]
  BY <1>1, LoadClean
<1>3. Load(EmptyContext, r, i) \in Contexts
  BY FreshFields
<1> QED
  BY <1>2, <1>3, EmptyIsClean

\* The next call of a batch takes over what the run that threw left unsaved.
LEMMA BeginAfterLife ==
    ASSUME TypeOK, StatusInv, LifeInv, NEW r \in Runs, NEW q \in Runs,
           NEW i \in Instances, BeginExecuteAfter(r, i, q)
    PROVE  LifeInv'
<1>1. /\ pc[r] = "idle" /\ q # r
      /\ \A x \in Runs : x # r => job'[x] = job[x]
      /\ \A x \in Runs : x # r /\ x # q => pc'[x] = pc[x] /\ ctx'[x] = ctx[x]
      /\ pc'[q] = "dead" /\ pc'[r] = "loaded" /\ ctx'[q] = EmptyContext
      /\ ctx'[r] = Load(ctx[q], r, i)
  BY DEF BeginExecuteAfter, Start, TypeOK, NextRun, Idle
<1>2. \A x \in Runs : ctx[x].scope \subseteq Runs /\ r \notin ctx[x].scope
  BY <1>1, RunTypes DEF Contexts, StatusInv, ScopeInv, Idle
<1>3. /\ ctx'[r].orig = [ctx[q].orig EXCEPT ![i] = inst[i]]
      /\ ctx'[r].row = [ctx[q].row EXCEPT ![i] = inst[i]]
      /\ ctx'[r].scope = ctx[q].scope \cup {r}
      /\ ctx[q].orig \in [Instances -> Rows] /\ ctx[q].row \in [Instances -> Rows]
  <2>1. ctx[q] \in Contexts
    BY RunTypes
  <2>2. /\ Load(ctx[q], r, i).orig = [ctx[q].orig EXCEPT ![i] = inst[i]]
        /\ Load(ctx[q], r, i).row = [ctx[q].row EXCEPT ![i] = inst[i]]
        /\ Load(ctx[q], r, i).scope = ctx[q].scope \cup {r}
    BY <2>1, LoadClean
  <2>3. ctx[q].orig \in [Instances -> Rows] /\ ctx[q].row \in [Instances -> Rows]
    BY <2>1 DEF Contexts
  <2> QED
    BY <1>1, <2>2, <2>3
<1>4. LeftoverInv'
  <2> SUFFICES ASSUME NEW p \in Runs, NEW j \in Instances,
                      ctx'[p].row[j].status # ctx'[p].orig[j].status
               PROVE  /\ ctx'[p].row[j].status \in Written
                      /\ \E x \in ctx'[p].scope : job'[x].inst = j
    BY DEF LeftoverInv
  <2>1. CASE p = r
    <3>1. j # i
      BY <1>3, <2>1
    <3>2. /\ ctx'[p].row[j] = ctx[q].row[j] /\ ctx'[p].orig[j] = ctx[q].orig[j]
      BY <1>3, <2>1, <3>1
    <3>3. /\ ctx[q].row[j].status \in Written
          /\ \E x \in ctx[q].scope : job[x].inst = j
      BY <3>2 DEF LifeInv, LeftoverInv
    <3> QED
      BY <1>1, <1>2, <1>3, <2>1, <3>2, <3>3
  <2>2. CASE p = q
    BY <1>1, <2>2, EmptyIsClean
  <2>3. CASE p # r /\ p # q
    BY <1>1, <1>2, <2>3 DEF LifeInv, LeftoverInv
  <2> QED
    BY <2>1, <2>2, <2>3
<1>5. DecidingInv'
  BY <1>1 DEF LifeInv, DecidingInv
<1> QED
  BY <1>4, <1>5 DEF LifeInv

\* Steps that touch neither runs nor contexts keep the invariant.
LEMMA WriteLife ==
    ASSUME LifeInv, UNCHANGED <<pc, job, ctx>>
    PROVE  LifeInv'
  BY DEF LifeInv, LeftoverInv, DecidingInv

\* Every step keeps the invariant.
LEMMA NextLife == TypeOK /\ StatusInv /\ LifeInv /\ [Next]_vars => LifeInv'
<1> SUFFICES ASSUME TypeOK, StatusInv, LifeInv, [Next]_vars PROVE LifeInv'
  OBVIOUS
<1>1. ASSUME NEW r \in Runs, Advance(r) PROVE LifeInv'
  BY <1>1, AdvanceLife
<1>2. ASSUME NEW r \in Runs, NEW i \in Instances, BeginExecute(r, i)
      PROVE  LifeInv'
  <2> DEFINE c == Load(EmptyContext, r, i)
  <2>1. c \in Contexts /\ c.orig = c.row
    BY FreshClean
  <2>2. /\ Start(r, i, NoTask, "approved")
        /\ ctx' = [ctx EXCEPT ![r] = c] /\ pc' = [pc EXCEPT ![r] = "loaded"]
    BY <1>2 DEF BeginExecute
  <2>3. "loaded" \in PCs
    BY DEF PCs, Live
  <2> HIDE DEF c
  <2> QED
    BY <2>1, <2>2, <2>3, BeginLife
<1>3. ASSUME NEW r \in Runs, NEW q \in Runs, NEW i \in Instances,
             BeginExecuteAfter(r, i, q)
      PROVE  LifeInv'
  BY <1>3, BeginAfterLife
<1>4. ASSUME NEW r \in Runs, NEW t \in Runs, NEW d \in Decisions,
             BeginResume(r, t, d)
      PROVE  LifeInv'
  <2> DEFINE i == job[t].inst
             loaded == Load(EmptyContext, r, i)
             verdict == IF tasks[t] = d THEN "same" ELSE d
             c == SetTask(loaded, t, verdict)
  <2>1. i \in Instances
    BY RunTypes
  <2>2. loaded \in Contexts /\ loaded.orig = loaded.row
    BY <2>1, FreshClean
  <2>3. verdict \in TaskStatuses \cup {"same"}
    BY DEF TaskStatuses, Decisions
  <2>4. /\ Start(r, i, t, d) /\ ctx' = [ctx EXCEPT ![r] = c]
        /\ pc' = [pc EXCEPT ![r] = "decided"]
    BY <1>4 DEF BeginResume
  <2> HIDE DEF loaded, verdict, i
  <2>5. c \in Contexts
    BY <2>2, <2>3, SetTaskType
  <2>6. c.orig = c.row
    BY <2>2 DEF SetTask, Contexts
  <2>7. "decided" \in PCs
    BY DEF PCs, Live
  <2> HIDE DEF c
  <2> QED
    BY <2>1, <2>4, <2>5, <2>6, <2>7, BeginLife
<1>5. CASE Crash
  <2>1. /\ \A r \in Runs : ctx'[r] = EmptyContext
        /\ \A r \in Runs : pc'[r] = IF pc[r] \in Live \cup {"aborted"}
                                    THEN "dead" ELSE pc[r]
    BY <1>5 DEF Crash
  <2> QED
    BY <2>1, EmptyIsClean DEF LifeInv, LeftoverInv, DecidingInv
<1>6. CASE \/ LoadFails
           \/ \E i \in Instances : CreateInstance(i) \/ CancelWrite(i)
           \/ \E t \in Runs, d \in Decisions : DecideWrite(t, d)
           \/ \E d \in Definitions, g \in Graphs : EditDefinition(d, g)
           \/ UNCHANGED vars
  BY <1>6, WriteLife
  DEF LoadFails, CreateInstance, CancelWrite, DecideWrite, EditDefinition, vars
<1> QED
  BY <1>1, <1>2, <1>3, <1>4, <1>5, <1>6 DEF Next

\* Initially every context is fresh.
LEMMA InitLife == Init => LifeInv
<1> SUFFICES ASSUME Init PROVE LifeInv
  OBVIOUS
<1>1. \A r \in Runs : ctx[r] = EmptyContext
  BY DEF Init
<1> QED
  BY <1>1, EmptyIsClean DEF LifeInv, LeftoverInv, DecidingInv

\* No row that was created goes away.
LEMMA RowsStay ==
    ASSUME TypeOK, StatusInv, LifeInv, [Next]_vars, NEW i \in Instances,
           Exists(i)
    PROVE  Exists(i)'
<1>1. ASSUME NEW r \in Runs, Advance(r) PROVE Exists(i)'
  <2>1. CASE ExecutorThrows(r)
    BY <2>1 DEF ExecutorThrows, tables, Exists
  <2>2. ASSUME NEW c \in Contexts, NEW next \in PCs, Saves(r, c, next)
        PROVE  Exists(i)'
    <3>1. CASE Refuse(r, c)
      BY <3>1 DEF Refuse, tables, Exists
    <3>2. CASE Commit(r, c, next)
      <4>1. inst'[i].status = IF c.row[i].status # c.orig[i].status
                              THEN c.row[i].status ELSE inst[i].status
        BY <3>2, CommitStatus
      <4>2. c.row[i].status # c.orig[i].status => c.row[i].status \in Written
        <5>1. CASE i = job[r].inst
          BY <2>2, <5>1 DEF Saves, Written
        <5>2. CASE i # job[r].inst
          BY <2>2, <5>2 DEF LifeInv, LeftoverInv, Saves
        <5> QED
          BY <5>1, <5>2
      <4> QED
        BY <4>1, <4>2 DEF Exists, Written, Endings
    <3> QED
      BY <2>2, <3>1, <3>2 DEF Saves, Save
  <2> QED
    BY <1>1, <2>1, <2>2, AdvanceSaves DEF StatusInv
<1>2. ASSUME NEW j \in Instances, CreateInstance(j) PROVE Exists(i)'
  BY <1>2 DEF CreateInstance, Exists, TypeOK
<1>3. ASSUME NEW j \in Instances, CancelWrite(j) PROVE Exists(i)'
  BY <1>3 DEF CancelWrite, Exists, TypeOK, Rows
<1>4. CASE UNCHANGED inst
  BY <1>4 DEF Exists
<1>5. \/ \E r \in Runs : Advance(r)
      \/ \E j \in Instances : CreateInstance(j) \/ CancelWrite(j)
      \/ UNCHANGED inst
  BY DEF Next, BeginExecute, BeginExecuteAfter, BeginResume, Start, LoadFails,
         Crash, DecideWrite, EditDefinition, tables, vars
<1> QED
  BY <1>1, <1>2, <1>3, <1>4, <1>5

\* The instance of a stored task exists.
LEMMA TaskOfExisting ==
    ASSUME TaskInv, CalledInv, NEW t \in Runs, tasks[t] # "none"
    PROVE  Exists(job[t].inst)
  BY DEF TaskInv, NotYetAsked, CalledInv, Idle

\* A call is for an instance that exists when it begins.
LEMMA NextCalled ==
    TypeOK /\ StatusInv /\ TaskInv /\ LifeInv /\ CalledInv /\ [Next]_vars
        => CalledInv'
<1> SUFFICES ASSUME TypeOK, StatusInv, TaskInv, LifeInv, CalledInv,
                    [Next]_vars, NEW r \in Runs, ~Idle(r)'
             PROVE  Exists(job[r].inst)'
  BY DEF CalledInv
<1>a. \A q \in Runs : job[q].inst \in Instances
  BY RunTypes
<1>b. \A i \in Instances : Exists(i) => Exists(i)'
  BY RowsStay
<1>1. \/ ~Idle(r) /\ job'[r].inst = job[r].inst
      \/ \E i \in Instances : Exists(i) /\ job'[r].inst = i
  <2>1. ASSUME NEW q \in Runs, Advance(q) PROVE ~Idle(r) /\ job' = job
    <3>1. CASE ExecutorThrows(q)
      BY <3>1 DEF ExecutorThrows, Executing, Idle, TypeOK
    <3>2. ASSUME NEW c \in Contexts, NEW next \in PCs, Saves(q, c, next)
          PROVE  ~Idle(r) /\ job' = job
      <4>1. /\ pc[q] \in Live /\ job' = job
            /\ \/ pc' = [pc EXCEPT ![q] = "aborted"]
               \/ pc' = [pc EXCEPT ![q] = next]
        BY <3>2 DEF Saves, Save, Refuse, Commit
      <4> QED
        BY <4>1 DEF Live, Idle, TypeOK
    <3> QED
      BY <2>1, <3>1, <3>2, AdvanceSaves DEF StatusInv
  <2>2. ASSUME NEW q \in Runs, NEW i \in Instances, Exists(i), NEW t, NEW d,
               Start(q, i, t, d), \A x \in Runs : x # q => Idle(x)' = Idle(x)
        PROVE  \/ ~Idle(r) /\ job'[r].inst = job[r].inst
               \/ \E j \in Instances : Exists(j) /\ job'[r].inst = j
    BY <2>2 DEF Start, TypeOK
  <2>3. ASSUME NEW q \in Runs, NEW i \in Instances, BeginExecute(q, i)
        PROVE  \/ ~Idle(r) /\ job'[r].inst = job[r].inst
               \/ \E j \in Instances : Exists(j) /\ job'[r].inst = j
    <3>1. /\ Exists(i) /\ Start(q, i, NoTask, "approved")
          /\ \A x \in Runs : x # q => Idle(x)' = Idle(x)
      BY <2>3 DEF BeginExecute, Idle, TypeOK
    <3> QED
      BY <2>2, <3>1
  <2>4. ASSUME NEW q \in Runs, NEW x \in Runs, NEW i \in Instances,
               BeginExecuteAfter(q, i, x)
        PROVE  \/ ~Idle(r) /\ job'[r].inst = job[r].inst
               \/ \E j \in Instances : Exists(j) /\ job'[r].inst = j
    <3>1. /\ Exists(i) /\ Start(q, i, NoTask, "approved")
          /\ \A y \in Runs : y # q => Idle(y)' = Idle(y)
      BY <2>4 DEF BeginExecuteAfter, Idle, TypeOK
    <3> QED
      BY <2>2, <3>1
  <2>5. ASSUME NEW q \in Runs, NEW t \in Runs, NEW d \in Decisions,
               BeginResume(q, t, d)
        PROVE  \/ ~Idle(r) /\ job'[r].inst = job[r].inst
               \/ \E j \in Instances : Exists(j) /\ job'[r].inst = j
    <3>1. /\ tasks[t] # "none" /\ Start(q, job[t].inst, t, d)
          /\ \A y \in Runs : y # q => Idle(y)' = Idle(y)
      BY <2>5 DEF BeginResume, Idle, TypeOK
    <3>2. Exists(job[t].inst)
      BY <3>1, TaskOfExisting
    <3> QED
      BY <1>a, <2>2, <3>1, <3>2
  <2>6. CASE Crash
    BY <2>6 DEF Crash, Idle, Live, TypeOK
  <2>7. CASE UNCHANGED <<pc, job>>
    BY <2>7 DEF Idle
  <2>8. \/ LoadFails \/ UNCHANGED vars
        \/ \E i \in Instances : CreateInstance(i) \/ CancelWrite(i)
        \/ \E t \in Runs, d \in Decisions : DecideWrite(t, d)
        \/ \E d \in Definitions, g \in Graphs : EditDefinition(d, g)
        => UNCHANGED <<pc, job>>
    BY DEF LoadFails, CreateInstance, CancelWrite, DecideWrite, EditDefinition,
           vars
  <2> QED
    BY <2>1, <2>3, <2>4, <2>5, <2>6, <2>7, <2>8 DEF Next
<1>2. CASE ~Idle(r) /\ job'[r].inst = job[r].inst
  <2>1. Exists(job[r].inst)
    BY <1>2 DEF CalledInv
  <2> QED
    BY <1>a, <1>b, <1>2, <2>1 DEF Exists
<1>3. ASSUME NEW i \in Instances, Exists(i), job'[r].inst = i
      PROVE  Exists(job[r].inst)'
  BY <1>b, <1>3 DEF Exists
<1> QED
  BY <1>1, <1>2, <1>3

\* Initially no call has begun.
LEMMA InitCalled == Init => CalledInv
  BY DEF Init, CalledInv, Idle

(***************************************************************************)
(* The steps of the lifecycle.                                             *)
(***************************************************************************)
\* What InstanceLifecycle sees of the runner.
Status == [i \in Instances |-> inst[i].status]
Phase == [r \in Runs |-> PhaseOf(pc[r])]
On == [r \in Runs |-> job[r].inst]

\* One call moves to another phase.
Moves(r, phase) == Phase' = [Phase EXCEPT ![r] = phase] /\ On' = On

\* The phases of the places in a run.
LEMMA Phases ==
    /\ PhaseOf("idle") = "idle" /\ PhaseOf("decided") = "deciding"
    /\ PhaseOf("loaded") = "starting" /\ PhaseOf("done") = "returned"
    /\ PhaseOf("aborted") = "lost" /\ PhaseOf("dead") = "lost"
    /\ \A at \in {"next", "execute", "settle", "suspend"} :
          PhaseOf(at) = "working"
<1> USE DEF PhaseOf, Live, Lost
<1>1. PhaseOf("idle") = "idle" /\ PhaseOf("decided") = "deciding"
  OBVIOUS
<1>2. PhaseOf("loaded") = "starting" /\ PhaseOf("done") = "returned"
  OBVIOUS
<1>3. PhaseOf("aborted") = "lost" /\ PhaseOf("dead") = "lost"
  OBVIOUS
<1>4. \A at \in {"next", "execute", "settle", "suspend"} :
         PhaseOf(at) = "working"
  OBVIOUS
<1> QED
  BY <1>1, <1>2, <1>3, <1>4

\* A call that returns from work writes its outcome.
LEMMA IsReturn ==
    ASSUME NEW r \in Runs, Phase[r] = "working", Moves(r, "returned"),
           NEW s \in Endings, Status' = [Status EXCEPT ![On[r]] = s]
    PROVE  Lifecycle!LifecycleNext
<1>1. Lifecycle!Return(r)
  BY DEF Lifecycle!Return, Lifecycle!Outcomes, Endings, Moves, Status, Phase, On
<1> QED
  BY <1>1 DEF Lifecycle!LifecycleNext

\* A rejection fails the instance or finds it failed.
LEMMA IsReject ==
    ASSUME NEW r \in Runs, Phase[r] = "deciding", Moves(r, "returned"),
           \/ Status' = Status
           \/ Status' = [Status EXCEPT ![On[r]] = "failed"]
    PROVE  Lifecycle!LifecycleNext
<1>1. Lifecycle!Reject(r)
  BY DEF Lifecycle!Reject, Moves, Status, Phase, On
<1> QED
  BY <1>1 DEF Lifecycle!LifecycleNext

\* An approval sets the instance running or finds it so.
LEMMA IsApprove ==
    ASSUME NEW r \in Runs, Phase[r] = "deciding", Moves(r, "starting"),
           \/ Status' = Status
           \/ Status' = [Status EXCEPT ![On[r]] = "running"]
    PROVE  Lifecycle!LifecycleNext
<1>1. Lifecycle!Approve(r)
  BY DEF Lifecycle!Approve, Moves, Status, Phase, On
<1> QED
  BY <1>1 DEF Lifecycle!LifecycleNext

\* A call that begins to work writes "running", and what lost calls left.
LEMMA IsWork ==
    ASSUME NEW r \in Runs, Phase[r] = "starting", Moves(r, "working"),
           \A i \in Instances :
              Status'[i] # Status[i] =>
                 \/ i = On[r] /\ Status'[i] = "running"
                 \/ /\ i # On[r] /\ Status'[i] \in Written
                    /\ \E x \in Runs : Phase[x] = "lost" /\ On[x] = i
    PROVE  Lifecycle!LifecycleNext
<1>1. Lifecycle!Work(r)
  BY DEF Lifecycle!Work, Lifecycle!HasLost, Lifecycle!Outcomes, Endings, Written,
         Moves, Status, Phase, On
<1> QED
  BY <1>1 DEF Lifecycle!LifecycleNext

\* Calls are lost while they are open, and write nothing.
LEMMA IsLose ==
    ASSUME NEW C \in SUBSET Runs,
           \A r \in C : Phase[r] \in {"deciding", "starting", "working"},
           Phase' = [r \in Runs |-> IF r \in C THEN "lost" ELSE Phase[r]],
           On' = On, Status' = Status
    PROVE  Lifecycle!LifecycleNext
<1>1. Lifecycle!Lose(C)
  BY DEF Lifecycle!Lose, Lifecycle!Open, Status, Phase, On
<1> QED
  BY <1>1 DEF Lifecycle!LifecycleNext

\* A call begins with a decision or without.
LEMMA IsBegin ==
    ASSUME NEW r \in Runs, NEW i \in Instances, Phase[r] = "idle",
           Status[i] # "none", NEW p \in {"deciding", "starting"},
           Phase' = [Phase EXCEPT ![r] = p], On' = [On EXCEPT ![r] = i],
           Status' = Status
    PROVE  Lifecycle!LifecycleNext
<1>1. Lifecycle!Begin(r, i)
  BY DEF Lifecycle!Begin, Status, Phase, On
<1> QED
  BY <1>1 DEF Lifecycle!LifecycleNext

\* A user submits or cancels an instance.
LEMMA IsWrite ==
    ASSUME NEW i \in Instances, Phase' = Phase, On' = On,
           \/ Status[i] = "none" /\ Status' = [Status EXCEPT ![i] = "pending"]
           \/ Status[i] # "none" /\ Status' = [Status EXCEPT ![i] = "cancelled"]
    PROVE  Lifecycle!LifecycleNext
<1>1. Lifecycle!Submit(i) \/ Lifecycle!Cancel(i)
  BY DEF Lifecycle!Submit, Lifecycle!Cancel, Status, Phase, On
<1> QED
  BY <1>1 DEF Lifecycle!LifecycleNext

(***************************************************************************)
(* The steps of the runner.                                                *)
(***************************************************************************)
\* A step of the lifecycle, or none of it.
Lives == Lifecycle!LifecycleNext \/ UNCHANGED <<Status, Phase, On>>

\* What a committed save makes of the phases and statuses.
LEMMA CommitSeen ==
    ASSUME TypeOK, NEW r \in Runs, NEW c \in Contexts, NEW next \in PCs,
           Saves(r, c, next), Commit(r, c, next)
    PROVE  /\ Moves(r, PhaseOf(next)) /\ Phase[r] = PhaseOf(pc[r])
           /\ On[r] = job[r].inst /\ On[r] \in Instances
           /\ \A i \in Instances :
                 Status'[i] = IF c.row[i].status # c.orig[i].status
                              THEN c.row[i].status ELSE Status[i]
<1>1. Phase' = [Phase EXCEPT ![r] = PhaseOf(next)]
  <2>1. \A q \in Runs : Phase'[q] = IF q = r THEN PhaseOf(next) ELSE Phase[q]
    BY CommitRuns DEF Phase
  <2> QED
    BY <2>1 DEF Phase
<1>2. On' = On
  BY DEF Saves, On
<1>3. \A i \in Instances :
         Status'[i] = IF c.row[i].status # c.orig[i].status
                      THEN c.row[i].status ELSE Status[i]
  BY CommitStatus DEF Status
<1>4. job[r].inst \in Instances
  BY RunTypes
<1> QED
  BY <1>1, <1>2, <1>3, <1>4 DEF Moves, Phase, On

\* A committed save of a run that works or returns from work.
LEMMA WorkingLives ==
    ASSUME TypeOK, StatusInv, NEW r \in Runs, NEW c \in Contexts,
           NEW next \in PCs, Saves(r, c, next), Commit(r, c, next),
           pc[r] \in {"next", "execute", "settle", "suspend"}
    PROVE  Lives
<1> DEFINE i == job[r].inst
<1>1. Working(r)
  BY DEF Working
<1>2. c.orig = ctx[r].row /\ c.orig[i].status = "running"
  BY <1>1 DEF StatusInv, SavedInv, Row, Saves
<1>3. \A j \in Instances : j # i => Status'[j] = Status[j]
  <2>1. \A j \in Instances : j # i => c.row[j] = c.orig[j]
    BY <1>2 DEF Saves
  <2> QED
    BY <2>1, CommitSeen
<1>4. i \in Instances /\ On[r] = i /\ Phase[r] = "working"
  BY CommitSeen, Phases
<1>5. CASE next = "done"
  <2>1. c.row[i].status \in Endings
    BY <1>5 DEF Saves
  <2>2. Status'[i] = c.row[i].status
    BY <1>2, <1>4, <2>1, CommitSeen DEF Endings
  <2>3. Status' = [Status EXCEPT ![i] = c.row[i].status]
    BY <1>3, <2>2 DEF Status
  <2>4. Moves(r, "returned")
    BY <1>5, CommitSeen, Phases
  <2> QED
    BY <1>4, <2>1, <2>3, <2>4, IsReturn DEF Lives
<1>6. CASE next # "done"
  <2>1. next \in {"next", "execute", "settle", "suspend"}
    BY <1>6 DEF Saves
  <2>2. c.row[i].status = "running"
    BY <1>6 DEF Saves
  <2>3. Status'[i] = Status[i]
    BY <1>2, <1>4, <2>2, CommitSeen
  <2>4. Status' = Status
    BY <1>3, <2>3 DEF Status
  <2>5. Moves(r, "working")
    BY <2>1, CommitSeen, Phases
  <2>6. Phase' = Phase
    BY <1>4, <2>5 DEF Moves, Phase
  <2> QED
    BY <2>4, <2>5, <2>6 DEF Lives, Moves
<1> QED
  BY <1>5, <1>6

\* A committed save of a run that takes down a decision.
LEMMA DecidingLives ==
    ASSUME TypeOK, LifeInv, NEW r \in Runs, NEW c \in Contexts,
           NEW next \in PCs, Saves(r, c, next), Commit(r, c, next),
           pc[r] = "decided"
    PROVE  Lives
<1> DEFINE i == job[r].inst
<1>1. c.orig = ctx[r].row
  BY DEF LifeInv, DecidingInv, Saves
<1>2. \A j \in Instances : j # i => Status'[j] = Status[j]
  <2>1. \A j \in Instances : j # i => c.row[j] = c.orig[j]
    BY <1>1 DEF Saves
  <2> QED
    BY <2>1, CommitSeen
<1>3. i \in Instances /\ On[r] = i /\ Phase[r] = "deciding"
  BY CommitSeen, Phases
<1>4. Status'[i] \in {Status[i], c.row[i].status}
  BY <1>3, CommitSeen
<1>5. Status' = Status \/ Status' = [Status EXCEPT ![i] = c.row[i].status]
  BY <1>2, <1>3, <1>4 DEF Status
<1>6. CASE next = "done"
  <2>1. c.row[i].status = "failed"
    BY <1>6 DEF Saves
  <2>2. Moves(r, "returned")
    BY <1>6, CommitSeen, Phases
  <2> HIDE DEF i
  <2> QED
    BY <1>3, <1>5, <2>1, <2>2, IsReject DEF Lives
<1>7. CASE next = "loaded"
  <2>1. c.row[i].status = "running"
    BY <1>7 DEF Saves
  <2>2. Moves(r, "starting")
    BY <1>7, CommitSeen, Phases
  <2> HIDE DEF i
  <2> QED
    BY <1>3, <1>5, <2>1, <2>2, IsApprove DEF Lives
<1> QED
  BY <1>6, <1>7 DEF Saves

\* The first committed save of a run, which writes what its context took over.
LEMMA StartingLives ==
    ASSUME TypeOK, StatusInv, LifeInv, NEW r \in Runs, NEW c \in Contexts,
           NEW next \in PCs, Saves(r, c, next), Commit(r, c, next),
           pc[r] = "loaded"
    PROVE  Lives
<1>1. next = "next"
  BY DEF Saves
<1>2. On[r] = job[r].inst /\ Phase[r] = "starting" /\ Moves(r, "working")
  BY <1>1, CommitSeen, Phases
<1>3. ASSUME NEW i \in Instances, Status'[i] # Status[i]
      PROVE  \/ i = On[r] /\ Status'[i] = "running"
             \/ /\ i # On[r] /\ Status'[i] \in Written
                /\ \E x \in Runs : Phase[x] = "lost" /\ On[x] = i
  <2>1. c.row[i].status # c.orig[i].status /\ Status'[i] = c.row[i].status
    BY <1>3, CommitSeen
  <2>2. CASE i = job[r].inst
    BY <1>1, <1>2, <2>1, <2>2 DEF Saves
  <2>3. CASE i # job[r].inst
    <3>1. /\ c.row[i].status \in Written
          /\ \E x \in ctx[r].scope : job[x].inst = i
      BY <2>1, <2>3 DEF LifeInv, LeftoverInv, Saves
    <3>2. PICK x \in ctx[r].scope : job[x].inst = i
      BY <3>1
    <3>3. x \in Runs
      BY <3>2, RunTypes DEF Contexts
    <3>4. pc[x] = "dead"
      BY <2>3, <3>2 DEF StatusInv, ScopeInv
    <3>5. Phase[x] = "lost" /\ On[x] = i
      BY <3>2, <3>3, <3>4, Phases DEF Phase, On
    <3> QED
      BY <1>2, <2>1, <2>3, <3>1, <3>3, <3>5
  <2> QED
    BY <2>2, <2>3
<1> QED
  BY <1>2, <1>3, IsWork DEF Lives

\* An exception ends a run that is open.
LEMMA AbortLives ==
    ASSUME TypeOK, NEW r \in Runs, pc[r] \in Live,
           pc' = [pc EXCEPT ![r] = "aborted"], UNCHANGED <<inst, job>>
    PROVE  Lives
<1>1. Phase[r] \in {"deciding", "starting", "working"}
  BY Phases DEF Phase, Live
<1>2. \A q \in Runs : Phase'[q] = IF q \in {r} THEN "lost" ELSE Phase[q]
  BY Phases DEF Phase, TypeOK
<1>3. Phase' = [q \in Runs |-> IF q \in {r} THEN "lost" ELSE Phase[q]]
  BY <1>2 DEF Phase
<1>4. On' = On /\ Status' = Status
  BY DEF On, Status
<1> QED
  BY <1>1, <1>3, <1>4, IsLose DEF Lives

\* Every step of a run is one of the lifecycle.
LEMMA AdvanceLives ==
    ASSUME TypeOK, StatusInv, LifeInv, NEW r \in Runs, Advance(r)
    PROVE  Lives
<1>1. CASE ExecutorThrows(r)
  BY <1>1, AbortLives DEF ExecutorThrows, Executing, Live, tables
<1>2. ASSUME NEW c \in Contexts, NEW next \in PCs, Saves(r, c, next)
      PROVE  Lives
  <2>1. CASE Refuse(r, c)
    BY <1>2, <2>1, AbortLives DEF Refuse, Saves, tables
  <2>2. CASE Commit(r, c, next)
    <3>1. pc[r] \in {"next", "execute", "settle", "suspend"} \cup {"decided", "loaded"}
      BY <1>2 DEF Saves, Live
    <3> QED
      BY <1>2, <2>2, <3>1, WorkingLives, DecidingLives, StartingLives
  <2> QED
    BY <1>2, <2>1, <2>2 DEF Saves, Save
<1> QED
  BY <1>1, <1>2, AdvanceSaves DEF StatusInv

\* So is the beginning of a call.
LEMMA BeginLives ==
    ASSUME TypeOK, NEW r \in Runs, NEW i \in Instances, NEW task, NEW decision,
           Start(r, i, task, decision), Exists(i),
           NEW at \in {"loaded", "decided"}, pc'[r] = at,
           \A q \in Runs : q # r => PhaseOf(pc'[q]) = PhaseOf(pc[q])
    PROVE  Lives
<1>1. /\ pc[r] = "idle" /\ inst' = inst /\ job'[r].inst = i
      /\ \A q \in Runs : q # r => job'[q] = job[q]
  BY DEF Start, NextRun, Idle, tables, TypeOK
<1>2. Phase[r] = "idle"
  BY <1>1, Phases DEF Phase
<1>3. Status[i] # "none" /\ Status' = Status
  BY <1>1 DEF Status, Exists
<1>4. Phase' = [Phase EXCEPT ![r] = PhaseOf(at)]
  BY <1>1 DEF Phase
<1>5. On' = [On EXCEPT ![r] = i]
  BY <1>1 DEF On
<1>6. PhaseOf(at) \in {"deciding", "starting"}
  BY Phases
<1> QED
  BY <1>2, <1>3, <1>4, <1>5, <1>6, IsBegin DEF Lives

\* Every step of the runner and its environment is one of the lifecycle.
LEMMA NextLives ==
    TypeOK /\ StatusInv /\ TaskInv /\ LifeInv /\ CalledInv /\ [Next]_vars
        => [Lifecycle!LifecycleNext]_(Lifecycle!lifecycle)
<1> SUFFICES ASSUME TypeOK, StatusInv, TaskInv, LifeInv, CalledInv, [Next]_vars
             PROVE  Lives
  BY DEF Lives, Lifecycle!lifecycle, Status, Phase, On
<1>1. ASSUME NEW r \in Runs, Advance(r) PROVE Lives
  BY <1>1, AdvanceLives
<1>2. ASSUME NEW r \in Runs, NEW i \in Instances, BeginExecute(r, i)
      PROVE  Lives
  <2>1. /\ Start(r, i, NoTask, "approved") /\ Exists(i)
        /\ pc' = [pc EXCEPT ![r] = "loaded"]
    BY <1>2 DEF BeginExecute
  <2>2. pc'[r] = "loaded" /\ \A q \in Runs : q # r => pc'[q] = pc[q]
    BY <2>1 DEF TypeOK
  <2> QED
    BY <2>1, <2>2, BeginLives
<1>3. ASSUME NEW r \in Runs, NEW q \in Runs, NEW i \in Instances,
             BeginExecuteAfter(r, i, q)
      PROVE  Lives
  <2>1. /\ Start(r, i, NoTask, "approved") /\ Exists(i)
        /\ pc[q] = "aborted" /\ pc' = [pc EXCEPT ![q] = "dead", ![r] = "loaded"]
    BY <1>3 DEF BeginExecuteAfter
  <2>2. q # r
    BY <2>1 DEF Start, NextRun, Idle
  <2>3. /\ pc'[r] = "loaded" /\ pc'[q] = "dead"
        /\ \A x \in Runs : x # r /\ x # q => pc'[x] = pc[x]
    BY <2>1, <2>2 DEF TypeOK
  <2>4. \A x \in Runs : x # r => PhaseOf(pc'[x]) = PhaseOf(pc[x])
    BY <2>1, <2>3, Phases
  <2> QED
    BY <2>1, <2>3, <2>4, BeginLives
<1>4. ASSUME NEW r \in Runs, NEW t \in Runs, NEW d \in Decisions,
             BeginResume(r, t, d)
      PROVE  Lives
  <2>1. /\ Start(r, job[t].inst, t, d) /\ tasks[t] # "none"
        /\ pc' = [pc EXCEPT ![r] = "decided"]
    BY <1>4 DEF BeginResume
  <2>2. pc'[r] = "decided" /\ \A q \in Runs : q # r => pc'[q] = pc[q]
    BY <2>1 DEF TypeOK
  <2>3. job[t].inst \in Instances
    BY RunTypes
  <2>4. Exists(job[t].inst)
    BY <2>1, TaskOfExisting
  <2> QED
    BY <2>1, <2>2, <2>3, <2>4, BeginLives
<1>5. CASE Crash
  <2> DEFINE C == {r \in Runs : pc[r] \in Live}
  <2>1. /\ \A r \in Runs : pc'[r] = IF pc[r] \in Live \cup {"aborted"}
                                    THEN "dead" ELSE pc[r]
        /\ inst' = inst /\ job' = job
    BY <1>5 DEF Crash, tables
  <2>2. \A r \in C : Phase[r] \in {"deciding", "starting", "working"}
    BY Phases DEF Phase, Live
  <2>3. \A r \in Runs : Phase'[r] = IF r \in C THEN "lost" ELSE Phase[r]
    BY <2>1, Phases DEF Phase
  <2>4. Phase' = [r \in Runs |-> IF r \in C THEN "lost" ELSE Phase[r]]
    BY <2>3 DEF Phase
  <2>5. On' = On /\ Status' = Status
    BY <2>1 DEF On, Status
  <2> HIDE DEF C
  <2>6. C \in SUBSET Runs
    BY DEF C
  <2> QED
    BY <2>2, <2>4, <2>5, <2>6, IsLose DEF Lives
<1>6. ASSUME NEW i \in Instances, CreateInstance(i) \/ CancelWrite(i)
      PROVE  Lives
  <2>1. pc' = pc /\ job' = job
    BY <1>6 DEF CreateInstance, CancelWrite
  <2>2. Phase' = Phase /\ On' = On
    BY <2>1 DEF Phase, On
  <2>3. CASE CreateInstance(i)
    <3>1. /\ inst[i].status = "none"
          /\ inst' = [inst EXCEPT ![i] = [NoRow EXCEPT !.status = "pending"]]
      BY <2>3 DEF CreateInstance, Exists
    <3>2. \A j \in Instances : Status'[j] = IF j = i THEN "pending" ELSE Status[j]
      BY <3>1 DEF Status, TypeOK, NoRow
    <3>3. Status' = [Status EXCEPT ![i] = "pending"] /\ Status[i] = "none"
      BY <3>1, <3>2 DEF Status
    <3> QED
      BY <2>2, <3>3, IsWrite DEF Lives
  <2>4. CASE CancelWrite(i)
    <3>1. /\ inst[i].status # "none"
          /\ inst' = [inst EXCEPT ![i] = [inst[i] EXCEPT
                         !.status = "cancelled", !.completed_at = TRUE,
                         !.error = "cancelled"]]
      BY <2>4 DEF CancelWrite, Exists, TypeOK
    <3>2. \A j \in Instances :
             Status'[j] = IF j = i THEN "cancelled" ELSE Status[j]
      BY <3>1 DEF Status, TypeOK, Rows
    <3>3. Status' = [Status EXCEPT ![i] = "cancelled"] /\ Status[i] # "none"
      BY <3>1, <3>2 DEF Status
    <3> QED
      BY <2>2, <3>3, IsWrite DEF Lives
  <2> QED
    BY <1>6, <2>3, <2>4
<1>7. CASE UNCHANGED <<inst, pc, job>>
  BY <1>7 DEF Lives, Status, Phase, On
<1>8. \/ LoadFails \/ UNCHANGED vars
      \/ \E t \in Runs, d \in Decisions : DecideWrite(t, d)
      \/ \E d \in Definitions, g \in Graphs : EditDefinition(d, g)
      => UNCHANGED <<inst, pc, job>>
  BY DEF LoadFails, DecideWrite, EditDefinition, tables, vars
<1> QED
  BY <1>1, <1>2, <1>3, <1>4, <1>5, <1>6, <1>7, <1>8 DEF Next

\* Initially no instance exists and every call is idle.
LEMMA InitLives == Init => Lifecycle!LifecycleInit
<1> SUFFICES ASSUME Init PROVE Lifecycle!LifecycleInit
  OBVIOUS
<1>1. Status = [i \in Instances |-> "none"]
  BY DEF Init, Status, NoRow
<1>2. Phase = [r \in Runs |-> "idle"]
  BY Phases DEF Init, Phase
<1>3. On \in [Runs -> Instances]
  BY DEF Init, On
<1> QED
  BY <1>1, <1>2, <1>3 DEF Lifecycle!LifecycleInit, Status, Phase, On

\* The invariants that the refinement adds hold in every state.
LEMMA LifeInvariant == Spec => []LifeInv
<1>1. TypeOK /\ StatusInv /\ LifeInv /\ [Next]_vars => LifeInv'
  BY NextLife
<1> QED
  BY <1>1, StatusInvariant, InitLife, PTL DEF Spec

\* Every call is for an instance that exists.
LEMMA CalledInvariant == Spec => []CalledInv
  BY StatusInvariant, TaskInvariant, LifeInvariant, InitCalled, NextCalled, PTL
  DEF Spec

\* The runner implements InstanceLifecycle, whatever graphs it walks, calls
\* overlap, saves are refused and batches take over.
THEOREM RunnerLives == Spec => ImplementsLifecycle
  BY StatusInvariant, TaskInvariant, LifeInvariant, CalledInvariant, InitLives,
     NextLives, PTL
  DEF Spec, ImplementsLifecycle, Lifecycle!LifecycleSpec
=============================================================================
