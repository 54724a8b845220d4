------------------------------- MODULE MCService -------------------------------
(***************************************************************************)
(* A small instance of the control plane's container for TLC.              *)
(***************************************************************************)
EXTENDS Service, TLC

AnyText == STRING

\* The page is sent a decision of the two or another spelling of one.
SomePosts == {"approved", "rejected", "Rejected"}
LowerCase == [p \in SomePosts |-> IF p = "approved" THEN "approved" ELSE "rejected"]

Row(ref, val) == [ref |-> ref, val |-> val]
Draft(table, ref, val) == [table |-> table, row |-> Row(ref, val)]
Setting(table, ref, val) == [table |-> table, ref |-> ref, val |-> val]

\* Before the first start the database is empty, or another tenant has used
\* it already: with a user, a workflow, an instance and an entry in its log.
OtherTenant ==
    (<<"user", 1>> :> Row(NoColumns, [username |-> "ann", password |-> "secret"])) @@
    (<<"tenant", 1>> :> Row(NoColumns, [name |-> "Acme Corp", slug |-> "acme"])) @@
    (<<"audit", 1>> :> Row([tenant |-> <<"tenant", 1>>, actor |-> <<"user", 1>>],
                           [action |-> "login"])) @@
    (<<"definition", 1>> :> Row([tenant |-> <<"tenant", 1>>],
                                [slug |-> "review"])) @@
    (<<"instance", 1>> :> Row([tenant |-> <<"tenant", 1>>,
                               definition |-> <<"definition", 1>>,
                               triggered_by |-> <<"user", 1>>],
                              [status |-> "pending"]))

EmptyDatabase == <<>>
SomeDatabases == {EmptyDatabase, OtherTenant}

\* The slug of a demo workflow, taken by another tenant's.
SomeDrafts ==
    {Draft("definition", [tenant |-> <<"tenant", 1>>],
           [slug |-> "procurement-approval"])}

SomeEdits ==
    {Setting("tenant", NoColumns, [slug |-> "apex"]),
     Setting("tenant", NoColumns, [name |-> "Apex"]),
     Setting("definition", [tenant |-> <<"tenant", 1>>], NoColumns),
     Setting("definition", NoColumns, [slug |-> "purchasing"]),
     Setting("instance", NoColumns, [status |-> "failed"]),
     Setting("task", [assigned_to |-> Null], NoColumns),
     Setting("task", NoColumns, [status |-> "approved"])}
=============================================================================
