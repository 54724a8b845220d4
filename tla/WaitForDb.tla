------------------------------ MODULE WaitForDb ------------------------------
(***************************************************************************)
(* The wait_for_db command that the control plane's container runs before  *)
(* its migrations: it polls the database until it answers.                 *)
(***************************************************************************)
EXTENDS Naturals

CONSTANT MaxAttempts    \* 30 in the code

VARIABLES
    up,         \* the database answers (it only comes up here)
    db_conn,    \* the local variable holds a connection object
    attempts,   \* failed attempts
    pc,         \* "loop": at the while test; "cursor": at db_conn.cursor()
    answered,   \* a cursor was opened
    said        \* the command's last message

waitVars == <<up, db_conn, attempts, pc, answered, said>>

Init ==
    /\ up \in BOOLEAN
    /\ db_conn = FALSE
    /\ attempts = 0
    /\ pc = "loop"
    /\ answered = FALSE
    /\ said = "waiting"

DatabaseComesUp ==
    /\ ~up /\ up' = TRUE
    /\ UNCHANGED <<db_conn, attempts, pc, answered, said>>

Waiting == ~db_conn /\ attempts < MaxAttempts

\* connections['default'] builds the wrapper object without connecting.
TakeConnection ==
    /\ pc = "loop" /\ Waiting
    /\ db_conn' = TRUE
    /\ pc' = "cursor"
    /\ UNCHANGED <<up, attempts, answered, said>>

OpenCursor ==
    /\ pc = "cursor" /\ up
    /\ answered' = TRUE
    /\ pc' = "loop"
    /\ UNCHANGED <<up, db_conn, attempts, said>>

\* OperationalError: one attempt more; db_conn keeps its value.
CursorFails ==
    /\ pc = "cursor" /\ ~up
    /\ attempts' = attempts + 1
    /\ pc' = "loop"
    /\ UNCHANGED <<up, db_conn, answered, said>>

Report ==
    /\ pc = "loop" /\ ~Waiting
    /\ said' = IF db_conn THEN "ready" ELSE "timed out"
    /\ pc' = "done"
    /\ UNCHANGED <<up, db_conn, attempts, answered>>

Next ==
    DatabaseComesUp \/ TakeConnection \/ OpenCursor \/ CursorFails \/ Report

Spec == Init /\ [][Next]_waitVars

\* "Django command that waits until database is available": it reports that
\* the database is ready only after the database has answered.
ReadyMeansAnswered == said = "ready" => answered
=============================================================================
