----------------------------- MODULE ControlPlane -----------------------------
(***************************************************************************)
(* The Django control plane: the requests users make and the calls it      *)
(* sends to the engine.  A request reads a row, checks it, and writes it   *)
(* later in a statement of its own: there is no transaction around the two *)
(* and no lock.  A call to the engine is sent once; whether it arrives is  *)
(* never looked at again.                                                  *)
(***************************************************************************)
EXTENDS WorkflowRunner

CONSTANT MaxRequests    \* bound: cancellations and decisions users ask for

ASSUME ControlPlaneAssumption == MaxRequests \in Nat

VARIABLES
    cancelling,     \* instances with a cancel request past its check
    deciding,       \* decide requests past their check
    calls,          \* calls to the engine under way
    created,        \* instances in the order of their started_at
    requests        \* requests so far; numbers them

controlVars == <<cancelling, deciding, calls, created, requests>>

Verdicts == [task : Runs, decision : Decisions, number : 1..MaxRequests]

\* POST /execute and POST /resume.
ExecuteCall(i) == [kind |-> "execute", inst |-> i]
ResumeCall(v) == [kind |-> "resume", verdict |-> v]
Calls == {ExecuteCall(i) : i \in Instances} \cup {ResumeCall(v) : v \in Verdicts}

ControlInit ==
    /\ cancelling = {}
    /\ deciding = {}
    /\ calls = {}
    /\ created = <<>>
    /\ requests = 0

NewRequest ==
    /\ requests < MaxRequests
    /\ requests' = requests + 1

\* A user runs a workflow, through the API or the web page: the instance is
\* stored as pending and the engine is called.
Trigger(i) ==
    /\ CreateInstance(i)
    /\ calls' = calls \cup {ExecuteCall(i)}
    /\ created' = Append(created, i)
    /\ UNCHANGED <<cancelling, deciding, requests>>

\* cancel: the check ...
CancelCheck(i) ==
    /\ NewRequest
    /\ Exists(i) /\ inst[i].status \notin Terminal
    /\ i \notin cancelling
    /\ cancelling' = cancelling \cup {i}
    /\ UNCHANGED <<vars, deciding, calls, created>>

\* Mutant of CancelSave: only the status is written.
CancelSaveStatusOnly(i) ==
    /\ i \in cancelling
    /\ inst' = [inst EXCEPT ![i].status = "cancelled"]
    /\ cancelling' = cancelling \ {i}
    /\ UNCHANGED <<steps, tasks, blueprint, pc, job, ctx, cur, faults, edits,
                   deciding, calls, created, requests>>

\* ... and the write.
CancelSave(i) ==
    /\ i \in cancelling
    /\ CancelWrite(i)
    /\ cancelling' = cancelling \ {i}
    /\ UNCHANGED <<deciding, calls, created, requests>>

\* Mutant of DecideCheck: the engine is called before the decision is stored.
DecideCheckCallsFirst(t, decision) ==
    LET v == [task |-> t, decision |-> decision, number |-> requests + 1]
    IN  /\ NewRequest
        /\ tasks[t] = "pending"
        /\ deciding' = deciding \cup {v}
        /\ calls' = calls \cup {ResumeCall(v)}
        /\ UNCHANGED <<vars, cancelling, created>>

\* decide: the check ...
DecideCheck(t, decision) ==
    /\ NewRequest
    /\ tasks[t] = "pending"
    /\ deciding' = deciding \cup
           {[task |-> t, decision |-> decision, number |-> requests + 1]}
    /\ UNCHANGED <<vars, cancelling, calls, created>>

\* ... and the write, then the call to the engine.
DecideSave(v) ==
    /\ v \in deciding
    /\ DecideWrite(v.task, v.decision)
    /\ deciding' = deciding \ {v}
    /\ calls' = calls \cup {ResumeCall(v)}
    /\ UNCHANGED <<cancelling, created, requests>>

\* Mutant of ApproveTask: the button sends the imperative, not the status.
ApproveTaskRaw(t, decision) ==
    /\ NewRequest
    /\ DecideWrite(t, decision)
    /\ calls' = calls \cup
           {ResumeCall([task |-> t, decision |-> "reject",
                        number |-> requests + 1])}
    /\ UNCHANGED <<cancelling, deciding, created>>

\* The web page's approve and reject buttons: no check, neither of the task's
\* status nor of the decision, though only these two are on its buttons; what
\* else may be posted is in module Records.
ApproveTask(t, decision) ==
    /\ NewRequest
    /\ DecideWrite(t, decision)
    /\ calls' = calls \cup
           {ResumeCall([task |-> t, decision |-> decision,
                        number |-> requests + 1])}
    /\ UNCHANGED <<cancelling, deciding, created>>

\* The engine is down or cannot be reached: the exception is logged.
LoseCall(c) ==
    /\ c \in calls
    /\ calls' = calls \ {c}
    /\ UNCHANGED <<vars, cancelling, deciding, created, requests>>

\* The engine's controller receives a call.
Execute(r, c) ==
    /\ c \in calls /\ c.kind = "execute"
    /\ BeginExecute(r, c.inst)
    /\ calls' = calls \ {c}
    /\ UNCHANGED <<cancelling, deciding, created, requests>>

Resume(r, c) ==
    /\ c \in calls /\ c.kind = "resume"
    /\ BeginResume(r, c.verdict.task, c.verdict.decision)
    /\ calls' = calls \ {c}
    /\ UNCHANGED <<cancelling, deciding, created, requests>>

Arrival(c) == LoseCall(c) \/ \E r \in Runs : Execute(r, c) \/ Resume(r, c)

WriteThrough ==
    \/ \E i \in Instances : CancelSave(i)
    \/ \E v \in Verdicts : DecideSave(v)

ControlStep ==
    \/ \E i \in Instances : Trigger(i) \/ CancelCheck(i)
    \/ \E t \in Runs, d \in Decisions : DecideCheck(t, d) \/ ApproveTask(t, d)
    \/ WriteThrough
    \/ \E c \in Calls : Arrival(c)
=============================================================================
