------------------------------- MODULE MCRecords -------------------------------
(***************************************************************************)
(* Small databases for TLC: a workflow with an instance that waits for the *)
(* decision on a task, and one with an instance that has ended.            *)
(***************************************************************************)
EXTENDS Records, TLC

AnyText == STRING

\* The page is sent a decision of the two or another spelling of one.
SomePosts == {"approved", "rejected", "Rejected"}
LowerCase == [p \in SomePosts |-> IF p = "approved" THEN "approved" ELSE "rejected"]

Row(ref, val) == [ref |-> ref, val |-> val]
Draft(table, ref, val) == [table |-> table, row |-> Row(ref, val)]
Setting(table, ref, val) == [table |-> table, ref |-> ref, val |-> val]

U1 == <<"user", 1>>
T1 == <<"tenant", 1>>
T2 == <<"tenant", 2>>
D1 == <<"definition", 1>>
I1 == <<"instance", 1>>
S1 == <<"step", 1>>

\* Nobody is logged in, and there are two tenants between which things move.
TwoTenants ==
    (T1 :> Row(NoColumns, [name |-> "Acme Corp", slug |-> "acme"])) @@
    (T2 :> Row(NoColumns, [name |-> "Globex", slug |-> "globex"])) @@
    (D1 :> Row([tenant |-> T1], [slug |-> "review"])) @@
    (I1 :> Row([tenant |-> T1, definition |-> D1, triggered_by |-> Null],
               [status |-> "waiting_approval"])) @@
    (S1 :> Row([instance |-> I1],
               [node_id |-> "gate", status |-> "completed"])) @@
    (<<"task", 1>> :> Row([instance |-> I1, step_execution |-> S1,
                           assigned_to |-> Null, decision_by |-> Null],
                          [status |-> "pending"]))

\* One tenant with a user, who may be deleted while triggering a workflow.
OneUser ==
    (U1 :> Row(NoColumns, [username |-> "ann", password |-> "secret"])) @@
    (T1 :> Row(NoColumns, [name |-> "Acme Corp", slug |-> "acme"])) @@
    (<<"membership", 1>> :> Row([tenant |-> T1, user |-> U1],
                                [role |-> "manager"])) @@
    (D1 :> Row([tenant |-> T1], [slug |-> "review"])) @@
    (I1 :> Row([tenant |-> T1, definition |-> D1, triggered_by |-> U1],
               [status |-> "completed"]))

SomeDatabases == {TwoTenants, OneUser}

\* A second instance, added by hand to the other tenant.
SomeDrafts ==
    {Draft("instance", [tenant |-> T2, definition |-> D1, triggered_by |-> Null],
           [status |-> "running"])}

SomeEdits ==
    {Setting("definition", [tenant |-> T2], NoColumns),
     Setting("instance", NoColumns, [status |-> "completed"]),
     Setting("task", [assigned_to |-> Null], NoColumns),
     Setting("task", NoColumns, [status |-> "approved"])}
=============================================================================
