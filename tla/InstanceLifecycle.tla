--------------------------- MODULE InstanceLifecycle ---------------------------
(***************************************************************************)
(* What the engine promises about the status of workflow instances, of     *)
(* whose rows, steps, tasks and graphs nothing is said.  Calls of the      *)
(* runner work on instances and nobody keeps two of them apart:            *)
(*                                                                         *)
(*   - an instance is submitted once and then is never pending again;      *)
(*   - a call writes "running" before it works and an outcome when it      *)
(*     returns from work, and no status in between;                        *)
(*   - a call that was lost writes nothing until another call begins to    *)
(*     work, which may then write what the lost one meant to;              *)
(*   - otherwise only a user's cancellation changes a status.              *)
(***************************************************************************)
CONSTANTS Instances, Calls

VARIABLES
    status,     \* what the user sees of each instance
    phase,      \* how far each call is
    on          \* the instance each call is about

lifecycle == <<status, phase, on>>

\* Deciding: about to take down a decision.  Starting: about to work.
Open == {"deciding", "starting", "working"}
Outcomes == {"completed", "failed", "waiting_approval"}

HasLost(i) == \E c \in Calls : phase[c] = "lost" /\ on[c] = i

LifecycleInit ==
    /\ status = [i \in Instances |-> "none"]
    /\ phase = [c \in Calls |-> "idle"]
    /\ on \in [Calls -> Instances]

Submit(i) ==
    /\ status[i] = "none"
    /\ status' = [status EXCEPT ![i] = "pending"]
    /\ UNCHANGED <<phase, on>>

Cancel(i) ==
    /\ status[i] # "none"
    /\ status' = [status EXCEPT ![i] = "cancelled"]
    /\ UNCHANGED <<phase, on>>

Begin(c, i) ==
    /\ phase[c] = "idle" /\ status[i] # "none"
    /\ phase' \in {[phase EXCEPT ![c] = p] : p \in {"deciding", "starting"}}
    /\ on' = [on EXCEPT ![c] = i]
    /\ UNCHANGED status

\* A decision against the instance: it fails, if it is not failed already.
Reject(c) ==
    /\ phase[c] = "deciding"
    /\ phase' = [phase EXCEPT ![c] = "returned"]
    /\ status' \in {status, [status EXCEPT ![on[c]] = "failed"]}
    /\ UNCHANGED on

Approve(c) ==
    /\ phase[c] = "deciding"
    /\ phase' = [phase EXCEPT ![c] = "starting"]
    /\ status' \in {status, [status EXCEPT ![on[c]] = "running"]}
    /\ UNCHANGED on

\* The call sets its instance running, unless it found it so, and other
\* instances to what lost calls on them left behind.
Work(c) ==
    /\ phase[c] = "starting"
    /\ phase' = [phase EXCEPT ![c] = "working"]
    /\ \A i \in Instances :
          status'[i] # status[i] =>
              \/ i = on[c] /\ status'[i] = "running"
              \/ i # on[c] /\ HasLost(i) /\ status'[i] \in Outcomes \cup {"running"}
    /\ DOMAIN status' = Instances
    /\ UNCHANGED on

\* Whatever the status is by now, it becomes the call's outcome.
Return(c) ==
    /\ phase[c] = "working"
    /\ phase' = [phase EXCEPT ![c] = "returned"]
    /\ \E s \in Outcomes : status' = [status EXCEPT ![on[c]] = s]
    /\ UNCHANGED on

\* One call ends with an exception, or all do with the engine.
Lose(C) ==
    /\ \A c \in C : phase[c] \in Open
    /\ phase' = [c \in Calls |-> IF c \in C THEN "lost" ELSE phase[c]]
    /\ UNCHANGED <<status, on>>

LifecycleNext ==
    \/ \E i \in Instances : Submit(i) \/ Cancel(i)
    \/ \E c \in Calls :
          \/ \E i \in Instances : Begin(c, i)
          \/ Reject(c) \/ Approve(c) \/ Work(c) \/ Return(c)
    \/ \E C \in SUBSET Calls : Lose(C)

LifecycleSpec == LifecycleInit /\ [][LifecycleNext]_lifecycle
=============================================================================
