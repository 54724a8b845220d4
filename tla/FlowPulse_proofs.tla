---------------------------- MODULE FlowPulse_proofs ----------------------------
(***************************************************************************)
(* Theorems about the composed system: it does only what the runner's      *)
(* specification allows, so that what is proved of the runner holds of it, *)
(* and what the requests, the calls and the worker together guarantee.     *)
(***************************************************************************)
EXTENDS FlowPulse, RunnerSteps_proofs, FiniteSetTheorems

(***************************************************************************)
(* Types.                                                                  *)
(***************************************************************************)
\* A request that goes on has a number within the bound.
LEMMA NewNumber ==
    ASSUME requests \in 0..MaxRequests, NewRequest
    PROVE  /\ requests' = requests + 1 /\ requests' \in 1..MaxRequests
           /\ requests' \in 0..MaxRequests
  BY ControlPlaneAssumption DEF NewRequest

\* The verdicts that requests make are verdicts.
LEMMA VerdictType ==
    ASSUME NEW t \in Runs, NEW d \in Decisions, NEW n \in 1..MaxRequests
    PROVE  [task |-> t, decision |-> d, number |-> n] \in Verdicts
  BY DEF Verdicts

\* A step of the control plane keeps the types of its variables.
LEMMA ControlTypes ==
    ASSUME SystemTypeOK, ControlStep
    PROVE  /\ cancelling' \subseteq Instances /\ deciding' \subseteq Verdicts
           /\ calls' \subseteq Calls /\ created' \in Seq(Instances)
           /\ requests' \in 0..MaxRequests
<1> DEFINE Goal == /\ cancelling' \subseteq Instances
                   /\ deciding' \subseteq Verdicts
                   /\ calls' \subseteq Calls /\ created' \in Seq(Instances)
                   /\ requests' \in 0..MaxRequests
<1> USE DEF SystemTypeOK
<1>1. ASSUME NEW i \in Instances, Trigger(i) PROVE Goal
  <2>1. ExecuteCall(i) \in Calls
    BY DEF Calls
  <2>2. created' \in Seq(Instances)
    BY <1>1, AppendProperties DEF Trigger
  <2> QED
    BY <1>1, <2>1, <2>2 DEF Trigger
<1>2. ASSUME NEW i \in Instances, CancelCheck(i) PROVE Goal
  BY <1>2, NewNumber DEF CancelCheck
<1>3. ASSUME NEW t \in Runs, NEW d \in Decisions, DecideCheck(t, d) PROVE Goal
  <2>1. [task |-> t, decision |-> d, number |-> requests + 1] \in Verdicts
    BY <1>3, NewNumber, VerdictType DEF DecideCheck
  <2> QED
    BY <1>3, <2>1, NewNumber DEF DecideCheck
<1>4. ASSUME NEW t \in Runs, NEW d \in Decisions, ApproveTask(t, d) PROVE Goal
  <2> DEFINE v == [task |-> t, decision |-> d, number |-> requests + 1]
  <2>1. v \in Verdicts
    BY <1>4, NewNumber, VerdictType DEF ApproveTask
  <2>2. ResumeCall(v) \in Calls
    BY <2>1 DEF Calls
  <2>3. calls' = calls \cup {ResumeCall(v)}
    BY <1>4 DEF ApproveTask
  <2> HIDE DEF v
  <2> QED
    BY <1>4, <2>2, <2>3, NewNumber DEF ApproveTask
<1>5. ASSUME WriteThrough PROVE Goal
  <2>1. ASSUME NEW v \in Verdicts, DecideSave(v) PROVE Goal
    <3>1. ResumeCall(v) \in Calls
      BY DEF Calls
    <3> QED
      BY <2>1, <3>1 DEF DecideSave
  <2> QED
    BY <1>5, <2>1 DEF WriteThrough, CancelSave
<1>6. ASSUME NEW c \in Calls, Arrival(c) PROVE Goal
  BY <1>6 DEF Arrival, LoseCall, Execute, Resume
<1> QED
  BY <1>1, <1>2, <1>3, <1>4, <1>5, <1>6 DEF ControlStep

\* Every step keeps the types of the variables the runner does not have.
LEMMA SystemTypes ==
    SystemTypeOK /\ [SystemNext]_systemVars => SystemTypeOK'
<1> SUFFICES ASSUME SystemTypeOK, [SystemNext]_systemVars PROVE SystemTypeOK'
  OBVIOUS
<1>a. AsleepWorker \in [batch : SUBSET Instances, run : Runs \cup {NoRun}]
  BY DEF AsleepWorker
<1>b. UNCHANGED controlVars
         => /\ cancelling' \subseteq Instances /\ deciding' \subseteq Verdicts
            /\ calls' \subseteq Calls /\ created' \in Seq(Instances)
            /\ requests' \in 0..MaxRequests
  BY DEF controlVars, SystemTypeOK
<1>c. \A S \in SUBSET Instances, n \in Nat : Oldest(n, S) \subseteq Instances
  BY DEF Oldest
<1>1. CASE WorkerStep
  <2>1. UNCHANGED controlVars
    BY <1>1 DEF WorkerStep, Poll, PickUp, PickUpFails, EndBatch
  <2>2. worker' \in [batch : SUBSET Instances, run : Runs \cup {NoRun}]
    <3>1. CASE Poll
      <4>1. Oldest(BatchSize, Pending) \subseteq Instances
        BY <1>c, FlowPulseAssumption DEF Pending
      <4> QED
        BY <3>1, <4>1 DEF Poll
    <3>2. ASSUME NEW r \in Runs, PickUp(r)
          PROVE  worker' \in [batch : SUBSET Instances, run : Runs \cup {NoRun}]
      BY <3>2 DEF PickUp, SystemTypeOK
    <3>3. CASE PickUpFails
      BY <3>3 DEF PickUpFails, SystemTypeOK
    <3>4. CASE EndBatch
      BY <3>4, <1>a DEF EndBatch
    <3> QED
      BY <1>1, <3>1, <3>2, <3>3, <3>4 DEF WorkerStep
  <2> QED
    BY <2>1, <2>2, <1>b DEF SystemTypeOK
<1>2. CASE EngineCrash
  BY <1>2, <1>a, <1>b DEF EngineCrash, SystemTypeOK
<1>3. CASE SystemControl
  BY <1>3, ControlTypes DEF SystemControl, SystemTypeOK
<1>4. CASE UNCHANGED <<controlVars, worker>>
  BY <1>4, <1>b DEF SystemTypeOK
<1> QED
  BY <1>1, <1>2, <1>3, <1>4 DEF SystemNext, RunStep, EditStep, systemVars

(***************************************************************************)
(* The system implements the runner.                                       *)
(***************************************************************************)
\* Every step of the control plane is a step of the runner's specification
\* or leaves the runner's variables alone.
LEMMA ControlIsNext ==
    ASSUME SystemTypeOK, ControlStep
    PROVE  [Next]_vars
<1>1. ASSUME NEW i \in Instances, Trigger(i) PROVE Next
  BY <1>1 DEF Trigger, Next
<1>2. ASSUME NEW i \in Instances, CancelCheck(i) PROVE UNCHANGED vars
  BY <1>2 DEF CancelCheck
<1>3. ASSUME NEW t \in Runs, NEW d \in Decisions, DecideCheck(t, d)
      PROVE  UNCHANGED vars
  BY <1>3 DEF DecideCheck
<1>4. ASSUME NEW t \in Runs, NEW d \in Decisions, ApproveTask(t, d) PROVE Next
  BY <1>4 DEF ApproveTask, Next
<1>5. ASSUME WriteThrough PROVE Next
  BY <1>5 DEF WriteThrough, CancelSave, DecideSave, Verdicts, Next
<1>6. ASSUME NEW c \in Calls, Arrival(c) PROVE Next \/ UNCHANGED vars
  <2>1. CASE LoseCall(c)
    BY <2>1 DEF LoseCall
  <2>2. ASSUME NEW r \in Runs, Execute(r, c) PROVE Next
    <3>1. c.kind = "execute" /\ BeginExecute(r, c.inst)
      BY <2>2 DEF Execute
    <3>2. c.inst \in Instances
      BY <3>1 DEF Calls, ExecuteCall, ResumeCall
    <3> QED
      BY <3>1, <3>2 DEF Next
  <2>3. ASSUME NEW r \in Runs, Resume(r, c) PROVE Next
    <3>1. /\ c.kind = "resume"
          /\ BeginResume(r, c.verdict.task, c.verdict.decision)
      BY <2>3 DEF Resume
    <3>2. c.verdict \in Verdicts
      BY <3>1 DEF Calls, ExecuteCall, ResumeCall
    <3>3. c.verdict.task \in Runs /\ c.verdict.decision \in Decisions
      BY <3>2 DEF Verdicts
    <3> QED
      BY <3>1, <3>3 DEF Next
  <2> QED
    BY <1>6, <2>1, <2>2, <2>3 DEF Arrival
<1> QED
  BY <1>1, <1>2, <1>3, <1>4, <1>5, <1>6 DEF ControlStep

\* So is every step of the worker.
LEMMA WorkerIsNext ==
    ASSUME SystemTypeOK, WorkerStep
    PROVE  [Next]_vars
<1>1. CASE Poll \/ EndBatch
  BY <1>1 DEF Poll, EndBatch
<1>2. CASE PickUpFails
  BY <1>2 DEF PickUpFails, Next
<1>3. ASSUME NEW r \in Runs, PickUp(r) PROVE Next
  <2>1. PICK i \in Oldest(1, worker.batch) :
           IF worker.run # NoRun /\ pc[worker.run] = "aborted"
           THEN BeginExecuteAfter(r, i, worker.run)
           ELSE BeginExecute(r, i)
    BY <1>3 DEF PickUp
  <2>2. /\ i \in Instances
        /\ worker.run # NoRun => worker.run \in Runs
    BY <2>1 DEF Oldest, SystemTypeOK
  <2> QED
    BY <2>1, <2>2 DEF Next
<1> QED
  BY <1>1, <1>2, <1>3 DEF WorkerStep

\* So is every step of the system.
LEMMA SystemNextIsNext ==
    SystemTypeOK /\ [SystemNext]_systemVars => [Next]_vars
<1> SUFFICES ASSUME SystemTypeOK, [SystemNext]_systemVars PROVE [Next]_vars
  OBVIOUS
<1>1. CASE WorkerStep
  BY <1>1, WorkerIsNext
<1>2. CASE SystemControl
  BY <1>2, ControlIsNext DEF SystemControl
<1>3. CASE EngineCrash
  BY <1>3 DEF EngineCrash, Next
<1>4. ASSUME NEW r \in Runs, RunStep(r) PROVE Next
  BY <1>4 DEF RunStep, Next
<1>5. CASE EditStep
  BY <1>5 DEF EditStep, Next
<1>6. CASE UNCHANGED systemVars
  BY <1>6 DEF systemVars
<1> QED
  BY <1>1, <1>2, <1>3, <1>4, <1>5, <1>6 DEF SystemNext

\* The variables of the control plane and the worker keep their types,
\* whatever users, calls, the worker and crashes do.
THEOREM SystemTypeCorrect == SystemSpec => []SystemTypeOK
<1>1. SystemInit => SystemTypeOK
  BY ControlPlaneAssumption
  DEF SystemInit, ControlInit, SystemTypeOK, AsleepWorker
<1> QED
  BY <1>1, SystemTypes, PTL DEF SystemSpec

\* The composed system implements the runner's specification: the control
\* plane, the calls, the worker and the crash drive it only in ways that
\* specification allows.
THEOREM SystemImplementsRunner == SystemSpec => ImplementsRunner
<1>1. SystemInit => Init
  BY DEF SystemInit
<1>2. SystemSpec => Spec
  BY <1>1, SystemNextIsNext, SystemTypeCorrect, PTL DEF SystemSpec, Spec
<1> QED
  BY <1>2 DEF ImplementsRunner

\* So what is proved of the runner holds of the system: a running instance
\* has a run that works on it or was lost on it, a cancelled one is revived by
\* the first save of a call only, a decided task stays decided, statuses follow
\* InstanceLifecycle, every ending and every task has its reason on record, and
\* no node is executed twice in a run but on a cycle.
THEOREM SystemKeepsPromises ==
    SystemSpec => /\ []RunningIsOwned
                  /\ CancelHolds
                  /\ DecisionStays
                  /\ ImplementsLifecycle
                  /\ [](CompletedWalked /\ CompletedShowsEnd)
                  /\ [](FailedHasCause /\ WaitingHasGate /\ TaskHasGate)
                  /\ [](LogIsWalk /\ StepsSettled /\ RepeatsNeedCycle)
<1>1. SystemSpec => Spec
  BY SystemImplementsRunner DEF ImplementsRunner
<1>2. Spec => /\ [](CompletedWalked /\ CompletedShowsEnd)
              /\ [](FailedHasCause /\ WaitingHasGate /\ TaskHasGate)
              /\ [](LogIsWalk /\ StepsSettled /\ RepeatsNeedCycle)
  BY CompletedIsWalked, CompletedAtEnd, FailureHasCause, WaitingAtGate,
     TasksHaveGates, LogsAreWalks, StepsAreSettled, RepeatsAreCycles, PTL
<1> QED
  BY <1>1, <1>2, RunningOwned, CancelHeld, DecisionStayed, RunnerLives

(***************************************************************************)
(* Which calls begin.                                                      *)
(***************************************************************************)
\* Run r is called for instance i, and nothing else begins.
Begins(r, i, t, d) ==
    /\ Start(r, i, t, d) /\ Idle(r) /\ ~Idle(r)'
    /\ \A x \in Runs : x # r => Idle(x)' = Idle(x)

\* No call begins.
NoneBegins == job' = job /\ \A r \in Runs : Idle(r)' = Idle(r)

\* Each of the three ways to begin a call begins one.
LEMMA Beginnings ==
    ASSUME TypeOK, NEW r \in Runs
    PROVE  /\ \A i \in Instances :
                 BeginExecute(r, i) => Begins(r, i, NoTask, "approved")
           /\ \A i \in Instances, q \in Runs :
                 BeginExecuteAfter(r, i, q) => Begins(r, i, NoTask, "approved")
           /\ \A t \in Runs, d \in Decisions :
                 BeginResume(r, t, d) => Begins(r, job[t].inst, t, d)
  BY DEF BeginExecute, BeginExecuteAfter, BeginResume, Begins, Start, NextRun,
         Idle, TypeOK

\* A step of a run begins none.
LEMMA AdvanceBeginsNone ==
    ASSUME TypeOK, StatusInv, NEW q \in Runs, Advance(q)
    PROVE  NoneBegins
<1>1. CASE ExecutorThrows(q)
  BY <1>1 DEF ExecutorThrows, Executing, Idle, TypeOK, NoneBegins
<1>2. ASSUME NEW c \in Contexts, NEW next \in PCs, Saves(q, c, next)
      PROVE  NoneBegins
  <2>1. /\ pc[q] \in Live /\ job' = job /\ next # "idle"
        /\ \/ pc' = [pc EXCEPT ![q] = "aborted"]
           \/ pc' = [pc EXCEPT ![q] = next]
    BY <1>2 DEF Saves, Save, Refuse, Commit
  <2> QED
    BY <2>1 DEF Live, Idle, TypeOK, NoneBegins
<1> QED
  BY <1>1, <1>2, AdvanceSaves DEF StatusInv

\* Nor does a crash or a write of the control plane.
LEMMA OthersBeginNone ==
    ASSUME TypeOK,
           \/ Crash \/ LoadFails \/ UNCHANGED <<pc, job>>
           \/ \E i \in Instances : CreateInstance(i) \/ CancelWrite(i)
           \/ \E t \in Runs, d \in Decisions : DecideWrite(t, d)
           \/ \E d \in Definitions, g \in Graphs : EditDefinition(d, g)
    PROVE  NoneBegins
<1>1. CASE Crash
  BY <1>1 DEF Crash, Idle, Live, Lost, NoneBegins, TypeOK
<1>2. CASE UNCHANGED <<pc, job>>
  BY <1>2 DEF NoneBegins, Idle
<1> QED
  BY <1>1, <1>2
  DEF LoadFails, CreateInstance, CancelWrite, DecideWrite, EditDefinition

\* What a beginning changes of the runs of an instance.
LEMMA BeginsDispatch ==
    ASSUME TypeOK, NEW r \in Runs, NEW i \in Instances, NEW t, NEW d,
           Begins(r, i, t, d), NEW j \in Instances
    PROVE  Dispatches(j)' = IF i = j /\ t = NoTask THEN Dispatches(j) \cup {r}
                                                   ELSE Dispatches(j)
<1>1. \A x \in Runs : x # r => job'[x] = job[x] /\ Idle(x)' = Idle(x)
  BY DEF Begins, Start, TypeOK
<1>2. job'[r].inst = i /\ job'[r].task = t /\ Idle(r) /\ ~Idle(r)'
  BY DEF Begins, Start, TypeOK
<1> QED
  BY <1>1, <1>2 DEF Dispatches, RunsOf

\* Where none begins, the runs of an instance are the same.
LEMMA NoneDispatches ==
    ASSUME NoneBegins, NEW j \in Instances
    PROVE  Dispatches(j)' = Dispatches(j)
  BY DEF NoneBegins, Dispatches, RunsOf

(***************************************************************************)
(* Resumes follow decisions.                                               *)
(***************************************************************************)
\* A call to resume is sent once its decision is stored.
CallsAreDecided ==
    \A v \in Verdicts : ResumeCall(v) \in calls => tasks[v.task] \in Decisions

Stays == \A t \in Runs : tasks[t] \in Decisions => tasks'[t] \in Decisions

\* The runs and calls of before stay decided: it is left to show for those
\* that are new.
LEMMA NewAreDecided ==
    ASSUME TypeOK, ResumesAreDecided, CallsAreDecided, Stays,
           \A v \in Verdicts : ResumeCall(v) \in calls' \ calls
                                  => tasks'[v.task] \in Decisions,
           \/ NoneBegins
           \/ \E r \in Runs, i \in Instances, t \in Runs \cup {NoTask},
                 d \in Decisions :
                 /\ Begins(r, i, t, d)
                 /\ t # NoTask => tasks[t] \in Decisions
    PROVE  ResumesAreDecided' /\ CallsAreDecided'
<1>1. CallsAreDecided'
  BY DEF CallsAreDecided, Stays, Verdicts
<1>2. \A r \in Runs : job[r].task \in Runs \cup {NoTask}
  BY DEF TypeOK, Jobs
<1>3. CASE NoneBegins
  BY <1>1, <1>2, <1>3 DEF NoneBegins, ResumesAreDecided, Stays
<1>4. ASSUME NEW r \in Runs, NEW i \in Instances, NEW t \in Runs \cup {NoTask},
             NEW d \in Decisions, Begins(r, i, t, d),
             t # NoTask => tasks[t] \in Decisions
      PROVE  ResumesAreDecided'
  <2>1. /\ \A x \in Runs : x # r => job'[x] = job[x] /\ Idle(x)' = Idle(x)
        /\ job'[r].task = t
    BY <1>4 DEF Begins, Start, TypeOK
  <2> SUFFICES ASSUME NEW x \in Runs, ~Idle(x)', job'[x].task # NoTask
               PROVE  tasks'[job'[x].task] \in Decisions
    BY DEF ResumesAreDecided
  <2>2. CASE x = r
    BY <1>4, <2>1, <2>2 DEF Stays
  <2>3. CASE x # r
    BY <1>2, <2>1, <2>3 DEF ResumesAreDecided, Stays
  <2> QED
    BY <2>2, <2>3
<1> QED
  BY <1>1, <1>3, <1>4

\* The two kinds of calls differ, and calls of one kind differ by content.
LEMMA CallKinds ==
    /\ \A i, v : ExecuteCall(i) # ResumeCall(v)
    /\ \A i, j : ExecuteCall(i) = ExecuteCall(j) => i = j
    /\ \A u, v : ResumeCall(u) = ResumeCall(v) => u = v
    /\ \A i : ExecuteCall(i).kind = "execute" /\ ExecuteCall(i).inst = i
    /\ \A v : ResumeCall(v).kind = "resume" /\ ResumeCall(v).verdict = v
<1>1. /\ \A i : ExecuteCall(i).kind = "execute" /\ ExecuteCall(i).inst = i
      /\ \A v : ResumeCall(v).kind = "resume" /\ ResumeCall(v).verdict = v
  BY DEF ExecuteCall, ResumeCall
<1>2. "execute" # "resume"
  OBVIOUS
<1>3. ASSUME NEW i, NEW v, ExecuteCall(i) = ResumeCall(v) PROVE FALSE
  <2>1. ExecuteCall(i).kind = ResumeCall(v).kind
    BY <1>3
  <2> QED
    BY <1>1, <1>2, <2>1
<1>4. ASSUME NEW i, NEW j, ExecuteCall(i) = ExecuteCall(j) PROVE i = j
  <2>1. ExecuteCall(i).inst = ExecuteCall(j).inst
    BY <1>4
  <2> QED
    BY <1>1, <2>1
<1>5. ASSUME NEW u, NEW v, ResumeCall(u) = ResumeCall(v) PROVE u = v
  <2>1. ResumeCall(u).verdict = ResumeCall(v).verdict
    BY <1>5
  <2> QED
    BY <1>1, <2>1
<1> QED
  BY <1>1, <1>3, <1>4, <1>5

\* A step of the control plane resumes only what is decided.
LEMMA ControlDecided ==
    ASSUME TypeOK, ResumesAreDecided, CallsAreDecided, Stays,
           ControlStep
    PROVE  ResumesAreDecided' /\ CallsAreDecided'
<1> DEFINE Goal == ResumesAreDecided' /\ CallsAreDecided'
           Old == \A v \in Verdicts : ResumeCall(v) \in calls' => ResumeCall(v) \in calls
<1>1. ASSUME NEW i \in Instances, Trigger(i) PROVE Goal
  <2>1. NoneBegins
    BY <1>1, OthersBeginNone DEF Trigger
  <2>2. Old
    BY <1>1, CallKinds DEF Trigger
  <2> QED
    BY <2>1, <2>2, NewAreDecided
<1>2. ASSUME NEW i \in Instances, CancelCheck(i) \/ CancelSave(i) PROVE Goal
  <2>1. NoneBegins
    BY <1>2, OthersBeginNone DEF CancelCheck, CancelSave, vars
  <2>2. Old
    BY <1>2 DEF CancelCheck, CancelSave
  <2> QED
    BY <2>1, <2>2, NewAreDecided
<1>3. ASSUME NEW t \in Runs, NEW d \in Decisions, DecideCheck(t, d) PROVE Goal
  <2>1. NoneBegins
    BY <1>3, OthersBeginNone DEF DecideCheck, vars
  <2>2. Old
    BY <1>3 DEF DecideCheck
  <2> QED
    BY <2>1, <2>2, NewAreDecided
<1>4. ASSUME NEW u, u.task \in Runs, u.decision \in Decisions,
             DecideWrite(u.task, u.decision),
             calls' = calls \cup {ResumeCall(u)}
      PROVE  Goal
  <2>1. NoneBegins
    BY <1>4, OthersBeginNone
  <2>2. \A v \in Verdicts : ResumeCall(v) \in calls' \ calls
                               => tasks'[v.task] \in Decisions
    <3>1. tasks'[u.task] \in Decisions
      BY <1>4 DEF DecideWrite, TypeOK
    <3> QED
      BY <1>4, <3>1, CallKinds
  <2> QED
    BY <2>1, <2>2, NewAreDecided
<1>5. ASSUME NEW t \in Runs, NEW d \in Decisions, ApproveTask(t, d) PROVE Goal
  <2> DEFINE u == [task |-> t, decision |-> d, number |-> requests + 1]
  <2>1. u.task = t /\ u.decision = d
    OBVIOUS
  <2>2. DecideWrite(t, d) /\ calls' = calls \cup {ResumeCall(u)}
    BY <1>5 DEF ApproveTask
  <2> HIDE DEF u
  <2> QED
    BY <1>4, <2>1, <2>2
<1>6. ASSUME NEW v \in Verdicts, DecideSave(v) PROVE Goal
  BY <1>4, <1>6 DEF DecideSave, Verdicts
<1>7. ASSUME NEW c \in Calls, LoseCall(c) PROVE Goal
  <2>1. NoneBegins
    BY <1>7, OthersBeginNone DEF LoseCall, vars
  <2> QED
    BY <1>7, <2>1, NewAreDecided DEF LoseCall
<1>8. ASSUME NEW c \in Calls, NEW r \in Runs, Execute(r, c) PROVE Goal
  <2>1. c.kind = "execute" /\ BeginExecute(r, c.inst)
    BY <1>8 DEF Execute
  <2>2. c.inst \in Instances
    BY <2>1, CallKinds DEF Calls
  <2>3. Begins(r, c.inst, NoTask, "approved")
    BY <2>1, <2>2, Beginnings
  <2>4. Old /\ "approved" \in Decisions
    BY <1>8 DEF Execute, Decisions
  <2> QED
    BY <2>2, <2>3, <2>4, NewAreDecided
<1>9. ASSUME NEW c \in Calls, NEW r \in Runs, Resume(r, c) PROVE Goal
  <2>1. /\ c \in calls /\ c.kind = "resume"
        /\ BeginResume(r, c.verdict.task, c.verdict.decision)
    BY <1>9 DEF Resume
  <2>2. PICK v \in Verdicts : c = ResumeCall(v)
    BY <2>1, CallKinds DEF Calls
  <2>3. /\ c.verdict = v /\ v.task \in Runs /\ v.decision \in Decisions
        /\ job[v.task].inst \in Instances
    BY <2>2, CallKinds, RunTypes DEF Verdicts
  <2>4. Begins(r, job[v.task].inst, v.task, v.decision)
    BY <2>1, <2>3, Beginnings
  <2>5. tasks[v.task] \in Decisions
    BY <2>1, <2>2 DEF CallsAreDecided
  <2>6. Old
    BY <1>9 DEF Resume
  <2> QED
    BY <2>3, <2>4, <2>5, <2>6, NewAreDecided
<1> QED
  BY <1>1, <1>2, <1>3, <1>5, <1>6, <1>7, <1>8, <1>9
  DEF ControlStep, WriteThrough, Arrival

\* So does every step of the system: the worker only executes.
LEMMA SystemDecided ==
    ASSUME TypeOK, StatusInv, SystemTypeOK, ResumesAreDecided,
           CallsAreDecided, Stays, [SystemNext]_systemVars
    PROVE  ResumesAreDecided' /\ CallsAreDecided'
<1> DEFINE Goal == ResumesAreDecided' /\ CallsAreDecided'
<1>1. ASSUME calls' = calls, NoneBegins PROVE Goal
  BY <1>1, NewAreDecided
<1>2. ASSUME NEW r \in Runs, RunStep(r) PROVE Goal
  BY <1>1, <1>2, AdvanceBeginsNone DEF RunStep, controlVars
<1>3. CASE Poll \/ PickUpFails \/ EndBatch
  <2>1. LoadFails \/ UNCHANGED <<pc, job>>
    BY <1>3 DEF Poll, PickUpFails, EndBatch, vars
  <2>2. calls' = calls
    BY <1>3 DEF Poll, PickUpFails, EndBatch, controlVars
  <2> QED
    BY <1>1, <2>1, <2>2, OthersBeginNone
<1>4. ASSUME NEW r \in Runs, PickUp(r) PROVE Goal
  <2>1. PICK i \in Instances : Begins(r, i, NoTask, "approved")
    BY <1>4, Beginnings DEF PickUp, Oldest, SystemTypeOK
  <2>2. calls' = calls /\ "approved" \in Decisions
    BY <1>4 DEF PickUp, controlVars, Decisions
  <2> QED
    BY <2>1, <2>2, NewAreDecided
<1>5. CASE EngineCrash
  BY <1>1, <1>5, OthersBeginNone DEF EngineCrash, controlVars
<1>6. CASE SystemControl
  BY <1>6, ControlDecided DEF SystemControl
<1>7. CASE EditStep
  BY <1>1, <1>7, OthersBeginNone DEF EditStep, controlVars
<1>8. CASE UNCHANGED systemVars
  BY <1>1, <1>8, OthersBeginNone DEF systemVars, controlVars, vars
<1> QED
  BY <1>2, <1>3, <1>4, <1>5, <1>6, <1>7, <1>8 DEF SystemNext, WorkerStep

\* What holds of the runner in every state of the system.
LEMMA SystemInvariants ==
    SystemSpec => /\ [](TypeOK /\ StatusInv) /\ []TaskInv /\ []LifeInv
                  /\ []CalledInv /\ []SystemTypeOK
<1>1. SystemSpec => Spec
  BY SystemImplementsRunner DEF ImplementsRunner
<1> QED
  BY <1>1, StatusInvariant, TaskInvariant, LifeInvariant, CalledInvariant,
     SystemTypeCorrect

\* A run is resumed only for a task whose decision is stored, in whatever
\* order requests, calls and their losses come.
THEOREM ResumesDecided == SystemSpec => []ResumesAreDecided
<1>1. SystemInit => ResumesAreDecided /\ CallsAreDecided
  BY DEF SystemInit, Init, ControlInit, ResumesAreDecided, CallsAreDecided, Idle
<1>2. TypeOK /\ StatusInv /\ SystemTypeOK /\ ResumesAreDecided
         /\ CallsAreDecided /\ [Stays]_vars /\ [SystemNext]_systemVars
            => ResumesAreDecided' /\ CallsAreDecided'
  <2>1. UNCHANGED vars => Stays
    BY DEF vars, Stays
  <2> QED
    BY <2>1, SystemDecided
<1>3. SystemSpec => [][Stays]_vars
  BY SystemKeepsPromises DEF DecisionStays, Stays
<1> QED
  BY <1>1, <1>2, <1>3, SystemInvariants, PTL DEF SystemSpec

(***************************************************************************)
(* Dispatches are bounded.                                                 *)
(***************************************************************************)
\* An instance that is pending was pending when a context that tracks a run
\* of it read its row: so a save of "running" always changes the column.
PendingSeen ==
    \A r \in Runs : \A x \in ctx[r].scope :
        inst[job[x].inst].status = "pending" =>
            ctx[r].orig[job[x].inst].status = "pending"

\* A run never makes an instance pending.
LEMMA AdvancePending ==
    ASSUME TypeOK, StatusInv, LifeInv, NEW q \in Runs, Advance(q),
           NEW i \in Instances, inst'[i].status = "pending"
    PROVE  inst[i].status = "pending"
<1>1. CASE ExecutorThrows(q)
  BY <1>1 DEF ExecutorThrows, tables
<1>2. ASSUME NEW c \in Contexts, NEW next \in PCs, Saves(q, c, next)
      PROVE  inst[i].status = "pending"
  <2>1. CASE Refuse(q, c)
    BY <2>1 DEF Refuse, tables
  <2>2. CASE Commit(q, c, next)
    <3>1. inst'[i].status = IF c.row[i].status # c.orig[i].status
                            THEN c.row[i].status ELSE inst[i].status
      BY <2>2, CommitStatus
    <3>2. c.row[i].status # c.orig[i].status => c.row[i].status \in Written
      <4>1. CASE i = job[q].inst
        BY <1>2, <4>1 DEF Saves, Written
      <4>2. CASE i # job[q].inst
        BY <1>2, <4>2 DEF LifeInv, LeftoverInv, Saves
      <4> QED
        BY <4>1, <4>2
    <3> QED
      BY <3>1, <3>2 DEF Written, Endings
  <2> QED
    BY <1>2, <2>1, <2>2 DEF Saves, Save
<1> QED
  BY <1>1, <1>2, AdvanceSaves DEF StatusInv

\* An instance that exists becomes pending by no step.
LEMMA PendingFades ==
    ASSUME TypeOK, StatusInv, LifeInv, [Next]_vars, NEW i \in Instances,
           Exists(i), inst'[i].status = "pending"
    PROVE  inst[i].status = "pending"
<1>1. ASSUME NEW r \in Runs, Advance(r) PROVE inst[i].status = "pending"
  BY <1>1, AdvancePending
<1>2. ASSUME NEW j \in Instances, CreateInstance(j)
      PROVE  inst[i].status = "pending"
  BY <1>2 DEF CreateInstance, TypeOK
<1>3. ASSUME NEW j \in Instances, CancelWrite(j)
      PROVE  inst[i].status = "pending"
  BY <1>3 DEF CancelWrite, TypeOK, Rows
<1>4. \/ \E r \in Runs : Advance(r)
      \/ \E j \in Instances : CreateInstance(j) \/ CancelWrite(j)
      \/ UNCHANGED inst
  BY DEF Next, BeginExecute, BeginExecuteAfter, BeginResume, Start, LoadFails,
         Crash, DecideWrite, EditDefinition, tables, vars
<1> QED
  BY <1>1, <1>2, <1>3, <1>4

\* What a context tracks are calls that have begun, for instances that exist.
LEMMA TrackedExist ==
    ASSUME TypeOK, StatusInv, CalledInv, NEW r \in Runs, NEW x \in ctx[r].scope
    PROVE  /\ x \in Runs /\ ~Idle(x)
           /\ job[x].inst \in Instances /\ Exists(job[x].inst)
<1>1. x \in Runs
  BY RunTypes DEF Contexts
<1>2. ~Idle(x)
  BY DEF StatusInv, ScopeInv, Idle
<1> QED
  BY <1>1, <1>2, RunTypes DEF CalledInv

\* A context that stays as it is, for calls that stay as they are.
LEMMA SameContextSeen ==
    ASSUME TypeOK, StatusInv, LifeInv, CalledInv, PendingSeen, [Next]_vars,
           NEW r \in Runs, ctx'[r].orig = ctx[r].orig,
           ctx'[r].scope \subseteq ctx[r].scope,
           \A x \in ctx[r].scope : job'[x] = job[x],
           NEW x \in ctx'[r].scope, inst'[job'[x].inst].status = "pending"
    PROVE  ctx'[r].orig[job'[x].inst].status = "pending"
<1>1. x \in ctx[r].scope /\ job'[x] = job[x]
  OBVIOUS
<1>2. job[x].inst \in Instances /\ Exists(job[x].inst)
  BY <1>1, TrackedExist
<1>3. inst[job[x].inst].status = "pending"
  BY <1>1, <1>2, PendingFades
<1> QED
  BY <1>1, <1>3 DEF PendingSeen

\* A call that begins keeps the invariant.
LEMMA BeginSeen ==
    ASSUME TypeOK, StatusInv, LifeInv, CalledInv, PendingSeen, [Next]_vars,
           NEW r \in Runs, NEW i \in Instances, NEW t, NEW d,
           Begins(r, i, t, d),
           ctx'[r].orig[i] = inst[i],
           NEW q \in Runs,
           \A x \in ctx'[r].scope :
              \/ x = r
              \/ /\ x \in ctx[q].scope /\ job[x].inst # i
                 /\ ctx'[r].orig[job[x].inst] = ctx[q].orig[job[x].inst],
           \A y \in Runs : y # r => ctx'[y] \in {ctx[y], EmptyContext}
    PROVE  PendingSeen'
<1>1. /\ inst' = inst /\ job'[r].inst = i /\ Idle(r)
      /\ \A x \in Runs : x # r => job'[x] = job[x]
  BY DEF Begins, Start, tables, TypeOK
<1>2. \A y \in Runs : r \notin ctx[y].scope
  BY <1>1, TrackedExist
<1>3. \A y \in Runs : \A x \in ctx[y].scope : job'[x] = job[x]
  BY <1>1, <1>2, TrackedExist
<1> SUFFICES ASSUME NEW y \in Runs, NEW x \in ctx'[y].scope,
                    inst'[job'[x].inst].status = "pending"
             PROVE  ctx'[y].orig[job'[x].inst].status = "pending"
  BY DEF PendingSeen
<1>4. CASE y # r /\ ctx'[y] = EmptyContext
  BY <1>4, EmptyContextFields
<1>5. CASE y # r /\ ctx'[y] = ctx[y]
  BY <1>3, <1>5, SameContextSeen
<1>6. CASE y = r /\ x = r
  BY <1>1, <1>6
<1>7. CASE y = r /\ x # r
  <2>1. /\ x \in ctx[q].scope
        /\ ctx'[r].orig[job[x].inst] = ctx[q].orig[job[x].inst]
    BY <1>7
  <2>2. job'[x] = job[x]
    BY <1>3, <2>1
  <2> QED
    BY <1>1, <1>7, <2>1, <2>2 DEF PendingSeen
<1> QED
  BY <1>4, <1>5, <1>6, <1>7

\* What a context has read once it has loaded an instance.
LEMMA LoadSees ==
    ASSUME TypeOK, NEW c \in Contexts, NEW r \in Runs, NEW i \in Instances
    PROVE  /\ Load(c, r, i).orig[i] = inst[i]
           /\ \A j \in Instances : j # i => Load(c, r, i).orig[j] = c.orig[j]
           /\ Load(c, r, i).scope = c.scope \cup {r}
  BY DEF Load, Contexts

\* Every step of the runner keeps the invariant.
LEMMA NextSeen ==
    TypeOK /\ StatusInv /\ LifeInv /\ CalledInv /\ PendingSeen /\ [Next]_vars
        => PendingSeen'
<1> SUFFICES ASSUME TypeOK, StatusInv, LifeInv, CalledInv, PendingSeen,
                    [Next]_vars
             PROVE  PendingSeen'
  OBVIOUS
<1>1. ASSUME job' = job,
             \A r \in Runs : /\ ctx'[r].orig = ctx[r].orig
                             /\ ctx'[r].scope = ctx[r].scope
      PROVE  PendingSeen'
  BY <1>1, SameContextSeen DEF PendingSeen
<1>2. ASSUME NEW q \in Runs, Advance(q) PROVE PendingSeen'
  <2>1. CASE ExecutorThrows(q)
    BY <1>1, <2>1 DEF ExecutorThrows
  <2>2. ASSUME NEW c \in Contexts, NEW next \in PCs, Saves(q, c, next)
        PROVE  PendingSeen'
    <3>1. /\ job' = job /\ c.orig = ctx[q].orig /\ c.scope = ctx[q].scope
      BY <2>2 DEF Saves
    <3>2. CASE Refuse(q, c)
      <4>1. \A r \in Runs : ctx'[r] = IF r = q THEN c ELSE ctx[r]
        BY <3>2 DEF Refuse, TypeOK
      <4> QED
        BY <1>1, <3>1, <4>1
    <3>3. CASE Commit(q, c, next)
      <4> SUFFICES ASSUME NEW r \in Runs, NEW x \in ctx'[r].scope,
                          inst'[job'[x].inst].status = "pending"
                   PROVE  ctx'[r].orig[job'[x].inst].status = "pending"
        BY DEF PendingSeen
      <4>1. CASE r # q
        <5>1. ctx'[r] = ctx[r]
          BY <3>3, <4>1, CommitRuns
        <5> QED
          BY <3>1, <5>1, SameContextSeen
      <4>2. CASE r = q
        <5>1. next # "done" /\ ctx'[q].orig = c.row /\ x \in ctx[q].scope
          BY <3>1, <3>3, <4>2, CommitRuns, EmptyContextFields
        <5>2. job[x].inst \in Instances
          BY <5>1, TrackedExist
        <5>3. inst'[job[x].inst].status =
                 IF c.row[job[x].inst].status # c.orig[job[x].inst].status
                 THEN c.row[job[x].inst].status ELSE inst[job[x].inst].status
          BY <3>3, <5>2, CommitStatus
        <5>4. inst[job[x].inst].status = "pending"
                 => c.orig[job[x].inst].status = "pending"
          BY <3>1, <5>1 DEF PendingSeen
        <5> QED
          BY <3>1, <4>2, <5>1, <5>3, <5>4
      <4> QED
        BY <4>1, <4>2
    <3> QED
      BY <2>2, <3>2, <3>3 DEF Saves, Save
  <2> QED
    BY <1>2, <2>1, <2>2, AdvanceSaves DEF StatusInv
<1>3. ASSUME NEW r \in Runs, NEW i \in Instances, BeginExecute(r, i)
      PROVE  PendingSeen'
  <2> DEFINE c == Load(EmptyContext, r, i)
  <2>1. c.scope = {r} /\ c.orig[i] = inst[i]
    BY FreshFields, LoadSees, EmptyContextType
  <2>2. \A y \in Runs : ctx'[y] = IF y = r THEN c ELSE ctx[y]
    BY <1>3 DEF BeginExecute, TypeOK
  <2>3. Begins(r, i, NoTask, "approved")
    BY <1>3, Beginnings
  <2> HIDE DEF c
  <2> QED
    BY <2>1, <2>2, <2>3, BeginSeen
<1>4. ASSUME NEW r \in Runs, NEW q \in Runs, NEW i \in Instances,
             BeginExecuteAfter(r, i, q)
      PROVE  PendingSeen'
  <2>1. ctx[q] \in Contexts
    BY RunTypes
  <2>2. /\ Load(ctx[q], r, i).orig[i] = inst[i]
        /\ \A j \in Instances :
              j # i => Load(ctx[q], r, i).orig[j] = ctx[q].orig[j]
        /\ Load(ctx[q], r, i).scope = ctx[q].scope \cup {r}
    BY <2>1, LoadSees
  <2>3. /\ \A x \in ctx[q].scope : job[x].inst # i
        /\ r # q /\ ctx'[r] = Load(ctx[q], r, i)
        /\ \A y \in Runs : y # r => ctx'[y] \in {ctx[y], EmptyContext}
    BY <1>4 DEF BeginExecuteAfter, Start, NextRun, Idle, TypeOK
  <2>4. Begins(r, i, NoTask, "approved")
    BY <1>4, Beginnings
  <2>5. ctx'[r].orig[i] = inst[i]
    BY <2>2, <2>3
  <2>6. \A x \in ctx'[r].scope :
           \/ x = r
           \/ /\ x \in ctx[q].scope /\ job[x].inst # i
              /\ ctx'[r].orig[job[x].inst] = ctx[q].orig[job[x].inst]
    BY <2>2, <2>3, TrackedExist
  <2> QED
    BY <2>3, <2>4, <2>5, <2>6, BeginSeen
<1>5. ASSUME NEW r \in Runs, NEW t \in Runs, NEW d \in Decisions,
             BeginResume(r, t, d)
      PROVE  PendingSeen'
  <2> DEFINE i == job[t].inst
             loaded == Load(EmptyContext, r, i)
             verdict == IF tasks[t] = d THEN "same" ELSE d
             c == SetTask(loaded, t, verdict)
  <2>1. i \in Instances
    BY RunTypes
  <2>2. loaded.scope = {r} /\ loaded.orig[i] = inst[i] /\ loaded \in Contexts
    BY <2>1, FreshFields, LoadSees, EmptyContextType
  <2>3. c.scope = {r} /\ c.orig[i] = inst[i]
    <3> HIDE DEF loaded, verdict, i
    <3> QED
      BY <2>2 DEF SetTask, Contexts
  <2>4. \A y \in Runs : ctx'[y] = IF y = r THEN c ELSE ctx[y]
    BY <1>5 DEF BeginResume, TypeOK
  <2>5. Begins(r, i, t, d)
    BY <1>5, Beginnings
  <2> HIDE DEF c, i
  <2> QED
    BY <2>1, <2>3, <2>4, <2>5, BeginSeen
<1>6. CASE Crash
  BY <1>6, EmptyContextFields DEF Crash, PendingSeen
<1>7. CASE UNCHANGED <<ctx, job>>
  BY <1>1, <1>7
<1>8. \/ LoadFails \/ UNCHANGED vars
      \/ \E i \in Instances : CreateInstance(i) \/ CancelWrite(i)
      \/ \E t \in Runs, d \in Decisions : DecideWrite(t, d)
      \/ \E d \in Definitions, g \in Graphs : EditDefinition(d, g)
      => UNCHANGED <<ctx, job>>
  BY DEF LoadFails, CreateInstance, CancelWrite, DecideWrite, EditDefinition,
         vars
<1> QED
  BY <1>2, <1>3, <1>4, <1>5, <1>6, <1>7, <1>8 DEF Next

\* The worker has read instance i and not yet saved that it runs.
Claimed(i) ==
    /\ worker.run # NoRun
    /\ job[worker.run].inst = i /\ pc[worker.run] = "loaded"

\* The worker may still run instance i, in this batch or in a later one.
MayDispatch(i) ==
    i \in worker.batch \/ (inst[i].status = "pending" /\ ~Claimed(i))

\* Of the runs of instance i that no decision asked for, W are the worker's:
\* each but the last one met a fault before it had saved anything, and what is
\* left is the call's.
WorkersShare(i, W) ==
    /\ Cardinality(W) <= 1 + faults
    /\ MayDispatch(i) => Cardinality(W) <= faults
    /\ Cardinality(Dispatches(i) \ W) <= 1
    /\ ~Exists(i) \/ ExecuteCall(i) \in calls => W = Dispatches(i)

Accounted(i) == \E W \in SUBSET Dispatches(i) : WorkersShare(i, W)
DispatchInv == \A i \in Instances : Accounted(i)

\* The runs of an instance are finitely many, and so are those among them.
LEMMA FiniteDispatches ==
    ASSUME NEW i \in Instances, NEW W \in SUBSET Dispatches(i)
    PROVE  /\ IsFiniteSet(Dispatches(i)) /\ IsFiniteSet(W)
           /\ IsFiniteSet(Dispatches(i) \ W) /\ W \subseteq Runs
           /\ Cardinality(W) \in Nat /\ Cardinality(Dispatches(i) \ W) \in Nat
           /\ Cardinality(Dispatches(i)) \in Nat
<1>1. IsFiniteSet(Runs)
  BY FS_Interval, RunnerAssumption DEF Runs
<1>2. Dispatches(i) \subseteq Runs
  BY DEF Dispatches, RunsOf
<1>3. IsFiniteSet(Dispatches(i))
  BY <1>1, <1>2, FS_Subset
<1>4. IsFiniteSet(W) /\ IsFiniteSet(Dispatches(i) \ W)
  BY <1>3, FS_Subset
<1> QED
  BY <1>2, <1>3, <1>4, FS_CardinalityType

\* Faults are counted in natural numbers.
LEMMA FaultsNat == TypeOK => faults \in Nat
  BY RunnerAssumption DEF TypeOK

\* A step that calls nobody for an instance, and lets the worker run it again
\* only at the price of a fault, keeps its account.
LEMMA SameShare ==
    ASSUME TypeOK, NEW i \in Instances, Accounted(i),
           Dispatches(i)' = Dispatches(i),
           faults' \in {faults, faults + 1},
           Exists(i) => Exists(i)',
           ExecuteCall(i) \in calls' => ExecuteCall(i) \in calls,
           MayDispatch(i)' => MayDispatch(i) \/ faults' = faults + 1
    PROVE  Accounted(i)'
<1>1. PICK W \in SUBSET Dispatches(i) : WorkersShare(i, W)
  BY DEF Accounted
<1>2. Cardinality(W) \in Nat /\ faults \in Nat
  BY <1>1, FiniteDispatches, FaultsNat
<1>3. Cardinality(W) <= 1 + faults'
  BY <1>1, <1>2 DEF WorkersShare
<1>4. MayDispatch(i)' => Cardinality(W) <= faults'
  BY <1>1, <1>2 DEF WorkersShare
<1>5. WorkersShare(i, W)'
  BY <1>1, <1>3, <1>4 DEF WorkersShare
<1> QED
  BY <1>1, <1>5 DEF Accounted

\* The save that takes a run past its query ends the worker's interest in its
\* instance, unless it fails.
LEMMA FirstSave ==
    ASSUME TypeOK, StatusInv, LifeInv, PendingSeen, NEW r \in Runs, Advance(r),
           pc[r] = "loaded"
    PROVE  faults' = faults + 1 \/ inst'[job[r].inst].status # "pending"
<1> DEFINE i == job[r].inst
<1>a. i \in Instances
  BY RunTypes
<1>1. ~ExecutorThrows(r)
  BY DEF ExecutorThrows, Executing
<1>2. PICK c \in Contexts, next \in PCs : Saves(r, c, next)
  BY <1>1, AdvanceSaves DEF StatusInv
<1>3. CASE Refuse(r, c)
  BY <1>3 DEF Refuse
<1>4. CASE Commit(r, c, next)
  <2>1. c.row[i].status = "running" /\ c.orig = ctx[r].orig
    BY <1>2 DEF Saves
  <2>2. r \in ctx[r].scope
    BY DEF StatusInv, ScopeInv, Live
  <2>3. inst[i].status = "pending" => c.orig[i].status = "pending"
    BY <2>1, <2>2 DEF PendingSeen
  <2>4. inst'[i].status = IF c.row[i].status # c.orig[i].status
                          THEN c.row[i].status ELSE inst[i].status
    BY <1>a, <1>4, CommitStatus
  <2> QED
    BY <2>1, <2>3, <2>4
<1> QED
  BY <1>2, <1>3, <1>4 DEF Saves, Save

\* A step of a run changes no other run, and counts at most one fault.
LEMMA AdvanceAlone ==
    ASSUME TypeOK, StatusInv, NEW r \in Runs, Advance(r)
    PROVE  /\ \A x \in Runs : x # r => pc'[x] = pc[x]
           /\ faults' \in {faults, faults + 1}
<1>1. CASE ExecutorThrows(r)
  BY <1>1 DEF ExecutorThrows, TypeOK
<1>2. ASSUME NEW c \in Contexts, NEW next \in PCs, Saves(r, c, next)
      PROVE  /\ \A x \in Runs : x # r => pc'[x] = pc[x]
             /\ faults' \in {faults, faults + 1}
  BY <1>2 DEF Saves, Save, Commit, Refuse, TypeOK
<1> QED
  BY <1>1, <1>2, AdvanceSaves DEF StatusInv

\* A step of a run keeps the accounts.
LEMMA RunStepShare ==
    ASSUME TypeOK, StatusInv, LifeInv, PendingSeen, SystemTypeOK, [Next]_vars,
           NEW r \in Runs, RunStep(r), NEW i \in Instances, Accounted(i)
    PROVE  Accounted(i)'
<1>1. Advance(r) /\ worker' = worker /\ calls' = calls
  BY DEF RunStep, controlVars
<1>2. Dispatches(i)' = Dispatches(i) /\ job' = job
  BY <1>1, AdvanceBeginsNone, NoneDispatches DEF NoneBegins
<1>3. MayDispatch(i)' => MayDispatch(i) \/ faults' = faults + 1
  <2> SUFFICES ASSUME inst'[i].status = "pending", ~Claimed(i)', Claimed(i)
               PROVE  faults' = faults + 1
    BY <1>1, AdvancePending DEF MayDispatch
  <2>1. worker.run \in Runs
    BY DEF Claimed, SystemTypeOK
  <2>2. pc'[worker.run] # "loaded" /\ pc[worker.run] = "loaded"
    BY <1>1, <1>2 DEF Claimed
  <2>3. worker.run = r
    BY <1>1, <2>1, <2>2, AdvanceAlone
  <2> QED
    BY <1>1, <2>2, <2>3, FirstSave DEF Claimed
<1>4. Exists(i) => Exists(i)'
  BY RowsStay
<1> QED
  BY <1>1, <1>2, <1>3, <1>4, AdvanceAlone, SameShare

\* A call that the control plane sent, and a resume, keep the accounts: the
\* worker's claim is not touched.
LEMMA ClaimStays ==
    ASSUME TypeOK, SystemTypeOK, NEW r \in Runs, NEW i \in Instances, NEW t,
           NEW d, Begins(r, i, t, d), worker' = worker,
           \A x \in Runs : x # r => pc'[x] = pc[x],
           NEW j \in Instances
    PROVE  MayDispatch(j)' => MayDispatch(j)
<1>1. /\ inst' = inst /\ pc[r] = "idle"
      /\ \A x \in Runs : x # r => job'[x] = job[x]
  BY DEF Begins, Start, tables, TypeOK, Idle
<1>2. Claimed(j) => Claimed(j)'
  <2> SUFFICES ASSUME Claimed(j) PROVE Claimed(j)'
    OBVIOUS
  <2>1. worker.run \in Runs /\ worker.run # r
    BY <1>1 DEF Claimed, SystemTypeOK
  <2> QED
    BY <1>1, <2>1 DEF Claimed
<1> QED
  BY <1>1, <1>2 DEF MayDispatch

\* The worker's next run is one more of its share of the instance it takes.
LEMMA PickUpShare ==
    ASSUME TypeOK, StatusInv, SystemTypeOK, [Next]_vars, LifeInv,
           NEW r \in Runs, PickUp(r), NEW j \in Instances, Accounted(j)
    PROVE  Accounted(j)'
<1>1. PICK i \in Oldest(1, worker.batch) :
         /\ Between
         /\ \/ BeginExecuteAfter(r, i, worker.run) /\ worker.run # NoRun
            \/ BeginExecute(r, i)
         /\ worker' = [batch |-> worker.batch \ {i}, run |-> r]
         /\ UNCHANGED controlVars
  BY DEF PickUp
<1>2. i \in worker.batch /\ i \in Instances
  BY DEF Oldest, SystemTypeOK
<1>3. /\ Begins(r, i, NoTask, "approved") /\ pc'[r] = "loaded"
      /\ faults' = faults /\ inst' = inst /\ job'[r].inst = i
  <2>1. Begins(r, i, NoTask, "approved")
    BY <1>1, <1>2, Beginnings DEF SystemTypeOK
  <2>2. pc'[r] = "loaded"
    BY <1>1, RunTypes DEF BeginExecuteAfter, BeginExecute, TypeOK
  <2> QED
    BY <2>1, <2>2 DEF Begins, Start, tables, TypeOK
<1>4. ~Claimed(j)
  BY <1>1 DEF Between, Claimed, Live
<1>5. calls' = calls /\ (Exists(j) => Exists(j)')
  BY <1>1, RowsStay DEF controlVars
<1>6. CASE j # i
  <2>1. Dispatches(j)' = Dispatches(j)
    BY <1>2, <1>3, <1>6, BeginsDispatch
  <2>2. MayDispatch(j)' => MayDispatch(j)
    BY <1>1, <1>3, <1>4 DEF MayDispatch
  <2> QED
    BY <1>3, <1>5, <2>1, <2>2, SameShare
<1>7. CASE j = i
  <2>1. PICK W \in SUBSET Dispatches(j) : WorkersShare(j, W)
    BY DEF Accounted
  <2>2. Dispatches(j)' = Dispatches(j) \cup {r} /\ r \notin Dispatches(j)
    BY <1>2, <1>3, <1>7, BeginsDispatch DEF Begins, Dispatches, RunsOf
  <2>3. /\ Cardinality(W) \in Nat /\ faults \in Nat
        /\ Cardinality(W \cup {r}) = Cardinality(W) + 1
    <3>1. IsFiniteSet(W) /\ Cardinality(W) \in Nat
      BY <2>1, FiniteDispatches
    <3>2. r \notin W
      BY <2>1, <2>2
    <3> QED
      BY <3>1, <3>2, FS_AddElement, FaultsNat
  <2>4. Cardinality(W) <= faults
    BY <1>2, <1>7, <2>1 DEF WorkersShare, MayDispatch
  <2>5. ~MayDispatch(j)'
    <3>1. j \notin worker'.batch
      BY <1>1, <1>7
    <3>2. Claimed(j)'
      <4>1. worker'.run = r /\ r # NoRun
        BY <1>1 DEF Runs, NoRun
      <4> QED
        BY <1>3, <1>7, <4>1 DEF Claimed
    <3> QED
      BY <3>1, <3>2 DEF MayDispatch
  <2>6. (Dispatches(j) \cup {r}) \ (W \cup {r}) = Dispatches(j) \ W
    BY <2>2
  <2>7. WorkersShare(j, W \cup {r})'
    <3>1. Cardinality(W \cup {r}) <= 1 + faults'
      BY <1>3, <2>3, <2>4
    <3>2. Cardinality(Dispatches(j)' \ (W \cup {r})) <= 1
      BY <2>1, <2>2, <2>6 DEF WorkersShare
    <3>3. ~Exists(j)' \/ ExecuteCall(j) \in calls'
             => W \cup {r} = Dispatches(j)'
      BY <1>5, <2>1, <2>2 DEF WorkersShare
    <3> QED
      BY <2>5, <3>1, <3>2, <3>3 DEF WorkersShare
  <2> QED
    BY <2>2, <2>7 DEF Accounted
<1> QED
  BY <1>6, <1>7

\* The call's run is the one run of its instance that is not the worker's.
LEMMA ExecuteShare ==
    ASSUME TypeOK, StatusInv, LifeInv, SystemTypeOK, [Next]_vars,
           NEW r \in Runs, NEW c \in Calls, Execute(r, c), worker' = worker,
           NEW j \in Instances, Accounted(j)
    PROVE  Accounted(j)'
<1>1. PICK i \in Instances : c = ExecuteCall(i) /\ BeginExecute(r, i)
  <2>1. c.kind = "execute" /\ BeginExecute(r, c.inst)
    BY DEF Execute
  <2>2. PICK i \in Instances : c = ExecuteCall(i)
    BY <2>1, CallKinds DEF Calls
  <2> QED
    BY <2>1, <2>2, CallKinds
<1>2. /\ Begins(r, i, NoTask, "approved") /\ faults' = faults
      /\ \A x \in Runs : x # r => pc'[x] = pc[x]
  BY <1>1, Beginnings DEF BeginExecute, Start, TypeOK
<1>3. /\ MayDispatch(j)' => MayDispatch(j)
      /\ Exists(j) => Exists(j)'
  BY <1>2, ClaimStays, RowsStay
<1>4. calls' = calls \ {c} /\ c \in calls
  BY DEF Execute
<1>5. CASE j # i
  <2>1. Dispatches(j)' = Dispatches(j)
    BY <1>2, <1>5, BeginsDispatch
  <2> QED
    BY <1>2, <1>3, <1>4, <2>1, SameShare
<1>6. CASE j = i
  <2>1. PICK W \in SUBSET Dispatches(j) : WorkersShare(j, W)
    BY DEF Accounted
  <2>2. W = Dispatches(j)
    BY <1>1, <1>4, <1>6, <2>1 DEF WorkersShare
  <2>3. Dispatches(j)' = Dispatches(j) \cup {r} /\ r \notin Dispatches(j)
    BY <1>2, <1>6, BeginsDispatch DEF Begins, Dispatches, RunsOf
  <2>4. Cardinality(Dispatches(j)' \ W) <= 1
    <3>1. Dispatches(j)' \ W = {r}
      BY <2>2, <2>3
    <3>2. Cardinality({r}) = 1
      BY FS_Singleton
    <3> QED
      BY <3>1, <3>2
  <2>5. Exists(j)' /\ ExecuteCall(j) \notin calls'
    BY <1>1, <1>3, <1>4, <1>6 DEF BeginExecute
  <2>6. WorkersShare(j, W)'
    BY <1>2, <1>3, <2>1, <2>4, <2>5 DEF WorkersShare
  <2> QED
    BY <2>1, <2>3, <2>6 DEF Accounted
<1> QED
  BY <1>5, <1>6

\* A step of the control plane that begins no call, calls nobody and makes
\* nothing pending keeps the accounts.
LEMMA QuietShare ==
    ASSUME TypeOK, StatusInv, LifeInv, [Next]_vars, NoneBegins,
           UNCHANGED <<pc, job, faults, worker>>,
           NEW j \in Instances, Accounted(j),
           inst'[j].status = "pending" => inst[j].status = "pending",
           ExecuteCall(j) \in calls' => ExecuteCall(j) \in calls
    PROVE  Accounted(j)'
<1>1. Dispatches(j)' = Dispatches(j)
  BY NoneDispatches
<1>2. MayDispatch(j)' => MayDispatch(j)
  BY DEF MayDispatch, Claimed
<1>3. Exists(j) => Exists(j)'
  BY RowsStay
<1> QED
  BY <1>1, <1>2, <1>3, SameShare

\* A new instance has no runs yet.
LEMMA TriggerShare ==
    ASSUME TypeOK, StatusInv, LifeInv, CalledInv, SystemTypeOK, [Next]_vars,
           NEW i \in Instances, Trigger(i), worker' = worker,
           NEW j \in Instances, Accounted(j)
    PROVE  Accounted(j)'
<1>1. /\ NoneBegins /\ UNCHANGED <<pc, job, faults>> /\ ~Exists(i)
      /\ calls' = calls \cup {ExecuteCall(i)}
      /\ \A x \in Instances : x # i => inst'[x] = inst[x]
  BY OthersBeginNone DEF Trigger, CreateInstance, TypeOK
<1>2. CASE j # i
  BY <1>1, <1>2, QuietShare, CallKinds
<1>3. CASE j = i
  <2>1. Dispatches(j) = {} /\ Dispatches(j)' = {}
    BY <1>1, <1>3, NoneDispatches DEF CalledInv, Dispatches, RunsOf
  <2>2. Cardinality({}) = 0 /\ {} \ {} = {}
    BY FS_EmptySet
  <2>3. faults' \in Nat
    BY <1>1, FaultsNat
  <2>4. WorkersShare(j, {})'
    BY <2>1, <2>2, <2>3 DEF WorkersShare
  <2> QED
    BY <2>4 DEF Accounted
<1> QED
  BY <1>2, <1>3

\* Every step of the system keeps the accounts.
LEMMA SystemShare ==
    ASSUME TypeOK, StatusInv, LifeInv, CalledInv, PendingSeen, SystemTypeOK,
           DispatchInv, [SystemNext]_systemVars
    PROVE  DispatchInv'
<1> SUFFICES ASSUME NEW j \in Instances PROVE Accounted(j)'
  BY DEF DispatchInv
<1>a. Accounted(j) /\ [Next]_vars
  BY SystemNextIsNext DEF DispatchInv
<1>b. Exists(j) => Exists(j)'
  BY <1>a, RowsStay
<1>1. ASSUME NoneBegins, faults' = faults + 1, calls' = calls
      PROVE  Accounted(j)'
  BY <1>1, <1>a, <1>b, NoneDispatches, SameShare
<1>2. ASSUME NEW r \in Runs, RunStep(r) PROVE Accounted(j)'
  BY <1>2, <1>a, RunStepShare
<1>3. ASSUME NEW r \in Runs, PickUp(r) PROVE Accounted(j)'
  BY <1>3, <1>a, PickUpShare
<1>4. CASE PickUpFails
  BY <1>1, <1>4, OthersBeginNone DEF PickUpFails, LoadFails, controlVars
<1>5. CASE Poll \/ EndBatch
  <2>1. UNCHANGED vars /\ calls' = calls
    BY <1>5 DEF Poll, EndBatch, controlVars
  <2>2. NoneBegins
    BY <2>1, OthersBeginNone DEF vars
  <2>3. MayDispatch(j)' => MayDispatch(j)
    <3>1. ~Claimed(j)
      BY <1>5 DEF Poll, EndBatch, Between, Claimed, AsleepWorker, Live
    <3>2. j \in worker'.batch => inst[j].status = "pending"
      <4>1. CASE Poll
        <5>1. worker'.batch = Oldest(BatchSize, Pending)
          BY <4>1 DEF Poll
        <5> QED
          BY <5>1 DEF Oldest, Pending
      <4>2. CASE EndBatch
        <5>1. worker'.batch = {}
          BY <4>2 DEF EndBatch, AsleepWorker
        <5> QED
          BY <5>1
      <4> QED
        BY <1>5, <4>1, <4>2
    <3> QED
      BY <2>1, <3>1, <3>2 DEF MayDispatch, vars
  <2> QED
    BY <1>a, <1>b, <2>1, <2>2, <2>3, NoneDispatches, SameShare DEF vars
<1>6. CASE EngineCrash
  BY <1>1, <1>6, OthersBeginNone DEF EngineCrash, Crash, controlVars
<1>7. CASE SystemControl
  <2>0. worker' = worker
    BY <1>7 DEF SystemControl
  <2>1. ASSUME NoneBegins, UNCHANGED <<pc, job, faults>>,
               inst'[j].status = "pending" => inst[j].status = "pending",
               ExecuteCall(j) \in calls' => ExecuteCall(j) \in calls
        PROVE  Accounted(j)'
    BY <1>a, <2>0, <2>1, QuietShare
  <2>2. ASSUME NEW i \in Instances, Trigger(i) PROVE Accounted(j)'
    BY <1>a, <2>0, <2>2, TriggerShare
  <2>3. ASSUME NEW i \in Instances, CancelSave(i) PROVE Accounted(j)'
    <3>1. CancelWrite(i) /\ calls' = calls
      BY <2>3 DEF CancelSave
    <3>2. inst'[j].status = "pending" => inst[j].status = "pending"
      BY <3>1 DEF CancelWrite, TypeOK, Rows
    <3> QED
      BY <2>1, <3>1, <3>2, OthersBeginNone DEF CancelWrite
  <2>4. ASSUME NEW t \in Runs, NEW d \in Decisions, NEW v, DecideWrite(t, d),
               calls' = calls \cup {ResumeCall(v)}
        PROVE  Accounted(j)'
    BY <2>1, <2>4, OthersBeginNone, CallKinds DEF DecideWrite
  <2>5. ASSUME UNCHANGED vars, calls' \subseteq calls PROVE Accounted(j)'
    BY <2>1, <2>5, OthersBeginNone DEF vars
  <2>6. ASSUME NEW i \in Instances, CancelCheck(i) PROVE Accounted(j)'
    BY <2>5, <2>6 DEF CancelCheck
  <2>7. ASSUME NEW t \in Runs, NEW d \in Decisions, DecideCheck(t, d)
        PROVE  Accounted(j)'
    BY <2>5, <2>7 DEF DecideCheck
  <2>8. ASSUME NEW t \in Runs, NEW d \in Decisions, ApproveTask(t, d)
        PROVE  Accounted(j)'
    BY <2>4, <2>8 DEF ApproveTask
  <2>9. ASSUME NEW v \in Verdicts, DecideSave(v) PROVE Accounted(j)'
    BY <2>4, <2>9 DEF DecideSave, Verdicts
  <2>10. ASSUME NEW c \in Calls, LoseCall(c) PROVE Accounted(j)'
    BY <2>5, <2>10 DEF LoseCall
  <2>11. ASSUME NEW c \in Calls, NEW r \in Runs, Execute(r, c)
         PROVE  Accounted(j)'
    BY <1>a, <2>0, <2>11, ExecuteShare
  <2>12. ASSUME NEW c \in Calls, NEW r \in Runs, Resume(r, c)
         PROVE  Accounted(j)'
    <3>1. PICK t \in Runs, d \in Decisions :
             BeginResume(r, t, d) /\ calls' = calls \ {c}
      <4>1. c.kind = "resume"
        BY <2>12 DEF Resume
      <4>2. c.verdict \in Verdicts
        BY <4>1, CallKinds DEF Calls
      <4> QED
        BY <2>12, <4>2 DEF Resume, Verdicts
    <3>2. /\ Begins(r, job[t].inst, t, d) /\ job[t].inst \in Instances
          /\ faults' = faults /\ t # NoTask
          /\ \A x \in Runs : x # r => pc'[x] = pc[x]
      <4>1. Begins(r, job[t].inst, t, d) /\ job[t].inst \in Instances
        BY <3>1, Beginnings, RunTypes
      <4>2. faults' = faults
        BY <4>1 DEF Begins, Start
      <4>3. t # NoTask
        BY DEF Runs, NoTask
      <4>4. pc' = [pc EXCEPT ![r] = "decided"]
        BY <3>1 DEF BeginResume
      <4> QED
        BY <4>1, <4>2, <4>3, <4>4 DEF TypeOK
    <3>3. /\ Dispatches(j)' = Dispatches(j)
          /\ MayDispatch(j)' => MayDispatch(j)
      BY <2>0, <3>2, BeginsDispatch, ClaimStays
    <3> QED
      BY <1>a, <1>b, <3>1, <3>2, <3>3, SameShare
  <2> QED
    BY <1>7, <2>2, <2>3, <2>6, <2>7, <2>8, <2>9, <2>10, <2>11, <2>12
    DEF SystemControl, ControlStep, WriteThrough, Arrival
<1>8. CASE EditStep \/ UNCHANGED systemVars
  <2>1. UNCHANGED <<inst, pc, job, faults, worker>> /\ calls' = calls
    BY <1>8 DEF EditStep, EditDefinition, tables, controlVars, systemVars, vars
  <2> QED
    BY <1>a, <2>1, OthersBeginNone, QuietShare
<1> QED
  BY <1>2, <1>3, <1>4, <1>5, <1>6, <1>7, <1>8 DEF SystemNext, WorkerStep

\* Nothing has been run initially.
LEMMA SystemInitShare == SystemInit => PendingSeen /\ DispatchInv
<1> SUFFICES ASSUME SystemInit PROVE PendingSeen /\ DispatchInv
  OBVIOUS
<1>1. PendingSeen
  BY EmptyContextFields DEF SystemInit, Init, PendingSeen
<1>2. ASSUME NEW i \in Instances PROVE Accounted(i)
  <2>1. Dispatches(i) = {}
    BY DEF SystemInit, Init, Dispatches, RunsOf, Idle
  <2>2. Cardinality({}) = 0 /\ {} \ {} = {} /\ faults = 0
    BY FS_EmptySet DEF SystemInit, Init
  <2>3. WorkersShare(i, {})
    BY <2>1, <2>2 DEF WorkersShare
  <2> QED
    BY <2>3 DEF Accounted
<1> QED
  BY <1>1, <1>2 DEF DispatchInv

\* What the accounts say of the number of runs.
LEMMA AccountsBound == TypeOK /\ DispatchInv => BoundedDispatch
<1> SUFFICES ASSUME TypeOK, DispatchInv, NEW i \in Instances
             PROVE  Cardinality(Dispatches(i)) <= 2 + faults
  BY DEF BoundedDispatch
<1>1. PICK W \in SUBSET Dispatches(i) : WorkersShare(i, W)
  BY DEF DispatchInv, Accounted
<1>2. /\ IsFiniteSet(Dispatches(i)) /\ Cardinality(W) \in Nat
      /\ Cardinality(Dispatches(i) \ W) \in Nat
      /\ Cardinality(Dispatches(i)) \in Nat /\ faults \in Nat
  BY <1>1, FiniteDispatches, FaultsNat
<1>3. Cardinality(Dispatches(i) \ W)
         = Cardinality(Dispatches(i)) - Cardinality(Dispatches(i) \cap W)
  BY <1>2, FS_Difference
<1>4. Dispatches(i) \cap W = W
  BY <1>1
<1>5. Cardinality(W) <= 1 + faults /\ Cardinality(Dispatches(i) \ W) <= 1
  BY <1>1 DEF WorkersShare
<1> HIDE DEF Dispatches
<1>6. Cardinality(Dispatches(i) \ W) = Cardinality(Dispatches(i)) - Cardinality(W)
  BY <1>3, <1>4
<1> QED
  BY <1>2, <1>5, <1>6

\* However calls and batches of the worker overlap, an instance is executed
\* at most twice, plus once for each fault.
THEOREM DispatchBounded == SystemSpec => []BoundedDispatch
<1>1. TypeOK /\ StatusInv /\ LifeInv /\ CalledInv /\ SystemTypeOK /\ PendingSeen
         /\ DispatchInv /\ [SystemNext]_systemVars
            => PendingSeen' /\ DispatchInv'
  BY SystemNextIsNext, NextSeen, SystemShare
<1> QED
  BY <1>1, SystemInvariants, SystemInitShare, AccountsBound, PTL DEF SystemSpec
=============================================================================
