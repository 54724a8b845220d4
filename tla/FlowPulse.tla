------------------------------- MODULE FlowPulse -------------------------------
(***************************************************************************)
(* The system: the control plane, the runner it calls, and the engine's    *)
(* own polling worker, all over one database.                              *)
(*                                                                         *)
(* The polling worker looks for pending instances every few seconds and    *)
(* runs a batch of them one after the other in one database context.  It   *)
(* does not claim them, so a call from the control plane may run the same  *)
(* instance at the same time.                                              *)
(***************************************************************************)
EXTENDS ControlPlane

CONSTANT BatchSize      \* Take(5) in the code

ASSUME FlowPulseAssumption == BatchSize \in Nat \ {0}

VARIABLE worker         \* [batch: instances still to run, run: present or last]

systemVars == <<vars, controlVars, worker>>

NoRun == 0
AsleepWorker == [batch |-> {}, run |-> NoRun]

SystemInit ==
    /\ Init
    /\ ControlInit
    /\ worker = AsleepWorker

\* Mutants of Pending: running instances are taken again; none is found.
PendingOrRunning ==
    {i \in Instances : inst[i].status \in {"pending", "running"}}
PendingNever == {i \in Instances : inst[i].status = "queued"}

Pending == {i \in Instances : inst[i].status = "pending"}

Older(i, j) ==
    \E k, l \in DOMAIN created : k < l /\ created[k] = i /\ created[l] = j
\* The n instances of S that were created first.
Oldest(n, S) == {i \in S : Cardinality({j \in S : Older(j, i)}) < n}

\* The query for pending instances, in a new scope.
Poll ==
    /\ worker = AsleepWorker /\ Pending # {}
    /\ worker' = [batch |-> Oldest(BatchSize, Pending), run |-> NoRun]
    /\ UNCHANGED <<vars, controlVars>>

Between == worker.run # NoRun => pc[worker.run] \notin Live

\* The next instance of the batch, whatever has become of it since the query.
PickUp(r) ==
    \E i \in Oldest(1, worker.batch) :
        /\ Between
        /\ IF worker.run # NoRun /\ pc[worker.run] = "aborted"
           THEN BeginExecuteAfter(r, i, worker.run)
           ELSE BeginExecute(r, i)
        /\ worker' = [batch |-> worker.batch \ {i}, run |-> r]
        /\ UNCHANGED controlVars

\* The query for the instance throws: it is left to a later poll.
PickUpFails ==
    \E i \in Oldest(1, worker.batch) :
        /\ Between
        /\ LoadFails
        /\ worker' = [worker EXCEPT !.batch = @ \ {i}]
        /\ UNCHANGED controlVars

\* The batch is over and its scope disposed of.
EndBatch ==
    /\ worker.batch = {} /\ worker.run # NoRun /\ Between
    /\ worker' = AsleepWorker
    /\ UNCHANGED <<vars, controlVars>>

WorkerStep == Poll \/ PickUpFails \/ EndBatch \/ \E r \in Runs : PickUp(r)

EngineCrash ==
    /\ Crash
    /\ worker' = AsleepWorker
    /\ UNCHANGED controlVars

RunStep(r) == Advance(r) /\ UNCHANGED <<controlVars, worker>>

SystemControl == ControlStep /\ UNCHANGED worker

EditStep ==
    /\ \E d \in Definitions, g \in Graphs : EditDefinition(d, g)
    /\ UNCHANGED <<controlVars, worker>>

SystemNext ==
    \/ \E r \in Runs : RunStep(r)
    \/ WorkerStep
    \/ EngineCrash
    \/ SystemControl
    \/ EditStep

\* The engine schedules every run and the worker; a call under way arrives or
\* is lost; a control plane request past its check goes on to its write.  No
\* user has to act.
Fairness ==
    /\ \A r \in Runs : WF_systemVars(RunStep(r))
    /\ WF_systemVars(WorkerStep)
    /\ \A c \in Calls : WF_systemVars(Arrival(c) /\ UNCHANGED worker)
    /\ WF_systemVars(WriteThrough /\ UNCHANGED worker)

SystemSpec == SystemInit /\ [][SystemNext]_systemVars /\ Fairness

(***************************************************************************)
(* Properties.                                                             *)
(***************************************************************************)
\* The variables the runner does not have keep their types.
SystemTypeOK ==
    /\ cancelling \subseteq Instances
    /\ deciding \subseteq Verdicts
    /\ calls \subseteq Calls
    /\ created \in Seq(Instances)
    /\ requests \in 0..MaxRequests
    /\ worker \in [batch : SUBSET Instances, run : Runs \cup {NoRun}]

\* The runs of instance i that nobody's decision asked for.
Dispatches(i) == {r \in RunsOf(i) : job[r].task = NoTask}

\* Without a claim an instance may be executed twice, by the call and by the
\* worker, but only a failed save or a crash makes the worker take it again.
BoundedDispatch ==
    \A i \in Instances : Cardinality(Dispatches(i)) <= 2 + faults

\* The engine resumes a task only when a decision on it is already stored: no
\* ordering of the requests and calls lets the call overtake the write.
ResumesAreDecided ==
    \A r \in Runs :
        ~Idle(r) /\ job[r].task # NoTask => tasks[job[r].task] \in Decisions

\* The composed system does only what the runner's specification allows.
ImplementsRunner == Spec

\* A pending instance is picked up although its call was lost.
PendingPickedUp ==
    \A i \in Instances :
        inst[i].status = "pending" ~> inst[i].status # "pending"

\* On a graph without cycles every run returns or is lost.
RunsReturn == \A r \in Runs : pc[r] \in Live ~> pc[r] \notin Live

(***************************************************************************)
(* Promises of the code's comments, messages and tests that the system     *)
(* does not keep.  Each is the property of a run that shows how it breaks. *)
(***************************************************************************)
\* "Approved: Resume execution from next step": what was executed before the
\* approval is not executed again after it.
ResumeContinues ==
    \A r \in Runs :
        ~Idle(r) /\ job[r].task # NoTask =>
            {steps[r][k].node : k \in DOMAIN steps[r]}
              \cap {steps[job[r].task][k].node : k \in DOMAIN steps[job[r].task]}
                = {}

\* "Workflow instance cancelled successfully.": it stays cancelled.
CancelledIsFinal ==
    [][\A i \in Instances :
          inst[i].status = "cancelled" => inst'[i].status = "cancelled"]_systemVars

\* "Task is already decided.": a decision is not replaced by another.
DecisionIsFinal ==
    [][\A t \in Runs : tasks[t] \in Decisions => tasks'[t] = tasks[t]]_systemVars

\* "Inform C# Engine to resume state machine execution": an instance whose
\* approval tasks are all decided does not stay waiting for approval.
DecidedInstanceMoves ==
    \A i \in Instances :
        (/\ inst[i].status = "waiting_approval"
         /\ \A r \in RunsOf(i) : tasks[r] # "pending")
            ~> inst[i].status # "waiting_approval"
=============================================================================
