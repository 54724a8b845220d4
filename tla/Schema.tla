-------------------------------- MODULE Schema --------------------------------
(***************************************************************************)
(* The tables of the control plane: what the models say of a row, which    *)
(* constraints the migrations put into the database, and what Django's     *)
(* delete() makes of the rows that refer to a deleted one.                 *)
(*                                                                         *)
(* A database is a function from the keys of its stored rows to the rows.  *)
(* A key is a pair <<table, number>>; a row has its foreign keys in ref    *)
(* and the other columns kept here in val.  The database knows nothing of  *)
(* cascades: Django reads the rows to be deleted first and then deletes    *)
(* them, and the constraints only refuse a commit that leaves a dangling   *)
(* reference or a duplicate.                                               *)
(***************************************************************************)
EXTENDS Naturals

CONSTANT Text   \* what a name, a slug or another text column may hold

Tables == {"user", "tenant", "membership", "audit",
           "definition", "instance", "step", "task"}
KeysOf(table) == {table} \X (Nat \ {0})
Null == <<"none", 0>>
TableOf(k) == k[1]
OrNull(table) == KeysOf(table) \cup {Null}

NoColumns == <<>>

(***************************************************************************)
(* The models: the columns of each table and what they may hold.           *)
(***************************************************************************)
User ==
    [ref |-> NoColumns, val |-> [username |-> Text, password |-> Text]]

Tenant ==
    [ref |-> NoColumns, val |-> [name |-> Text, slug |-> Text]]

TenantMembership ==
    [ref |-> [tenant |-> KeysOf("tenant"), user |-> KeysOf("user")],
     val |-> [role |-> {"owner", "admin", "manager", "operator", "viewer"}]]

AuditLog ==
    [ref |-> [tenant |-> KeysOf("tenant"), actor |-> OrNull("user")],
     val |-> [action |-> Text]]

WorkflowDefinition ==
    [ref |-> [tenant |-> KeysOf("tenant")], val |-> [slug |-> Text]]

WorkflowInstance ==
    [ref |-> [tenant |-> KeysOf("tenant"), definition |-> KeysOf("definition"),
              triggered_by |-> OrNull("user")],
     val |-> [status |-> {"pending", "running", "waiting_approval",
                          "completed", "failed", "cancelled"}]]

StepExecution ==
    [ref |-> [instance |-> KeysOf("instance")],
     val |-> [node_id |-> Text,
              status |-> {"pending", "in_progress", "completed", "failed",
                          "skipped"}]]

\* The page stores as status whatever it is sent: neither save() nor the
\* database looks at the choices of the model.
ApprovalTask ==
    [ref |-> [instance |-> KeysOf("instance"), step_execution |-> OrNull("step"),
              assigned_to |-> OrNull("user"), decision_by |-> OrNull("user")],
     val |-> [status |-> Text]]

ModelOf(table) ==
    CASE table = "user" -> User
      [] table = "tenant" -> Tenant
      [] table = "membership" -> TenantMembership
      [] table = "audit" -> AuditLog
      [] table = "definition" -> WorkflowDefinition
      [] table = "instance" -> WorkflowInstance
      [] table = "step" -> StepExecution
      [] table = "task" -> ApprovalTask

\* cells has some of the columns of a model, each with a value it may hold.
Suits(cells, columns) ==
    \A c \in DOMAIN cells : c \in DOMAIN columns /\ cells[c] \in columns[c]
Fills(cells, columns) == Suits(cells, columns) /\ DOMAIN columns \subseteq DOMAIN cells

RowOf(table, row) ==
    Fills(row.ref, ModelOf(table).ref) /\ Fills(row.val, ModelOf(table).val)

\* Every stored row is one of its table's.
RowsTyped(db) ==
    \A k \in DOMAIN db :
        TableOf(k) \in Tables /\ k \in KeysOf(TableOf(k)) /\ RowOf(TableOf(k), db[k])

(***************************************************************************)
(* The migrations: the constraints of the database.                        *)
(***************************************************************************)
Foreign(table, column, to) == [table |-> table, column |-> column, to |-> to]
UniqueKey(table, refs, vals) == [table |-> table, refs |-> refs, vals |-> vals]

TenantReferences ==
    {Foreign("membership", "tenant", "tenant"),
     Foreign("membership", "user", "user"),
     Foreign("audit", "tenant", "tenant"),
     Foreign("audit", "actor", "user")}

WorkflowReferences ==
    {Foreign("definition", "tenant", "tenant"),
     Foreign("instance", "tenant", "tenant"),
     Foreign("instance", "definition", "definition"),
     Foreign("instance", "triggered_by", "user"),
     Foreign("step", "instance", "instance"),
     Foreign("task", "instance", "instance"),
     Foreign("task", "step_execution", "step"),
     Foreign("task", "assigned_to", "user"),
     Foreign("task", "decision_by", "user")}

References == TenantReferences \cup WorkflowReferences

UserUnique == {UniqueKey("user", {}, {"username"})}
TenantUnique ==
    {UniqueKey("tenant", {}, {"name"}), UniqueKey("tenant", {}, {"slug"}),
     UniqueKey("membership", {"tenant", "user"}, {})}
WorkflowUnique ==
    {UniqueKey("definition", {"tenant"}, {"slug"}),
     UniqueKey("task", {"step_execution"}, {})}
Uniques == UserUnique \cup TenantUnique \cup WorkflowUnique

Nullable(column) ==
    column \in {"actor", "triggered_by", "assigned_to", "decision_by",
                "step_execution"}

\* Every foreign key names a stored row, or is null where the column may be.
NoDangling(db) ==
    \A k \in DOMAIN db, f \in References :
        f.table = TableOf(k) =>
            \/ db[k].ref[f.column] \in DOMAIN db
            \/ Nullable(f.column) /\ db[k].ref[f.column] = Null

\* Nulls do not count as equal.
Same(row1, row2, u) ==
    /\ \A c \in u.refs : row1.ref[c] = row2.ref[c] /\ row1.ref[c] # Null
    /\ \A c \in u.vals : row1.val[c] = row2.val[c]

NoDuplicates(db) ==
    \A u \in Uniques :
        \A j, k \in {x \in DOMAIN db : TableOf(x) = u.table} :
            Same(db[j], db[k], u) => j = k

\* What a transaction must leave behind in order to commit.
Accepts(db) == NoDangling(db) /\ NoDuplicates(db)

(***************************************************************************)
(* delete(): on_delete of the models, and what the collector does with it. *)
(***************************************************************************)
\* on_delete is SET_NULL for the links that may be null, CASCADE for others.
Cascades == {f \in References : ~Nullable(f.column)}

Dependents(db, S) ==
    {k \in DOMAIN db : \E f \in Cascades :
        f.table = TableOf(k) /\ db[k].ref[f.column] \in S}

\* Nothing refers to these tables: their rows are not read first but deleted
\* by a condition on the parent.
Leaves == {"membership", "audit", "task"}

\* One level of dependents, and all of them: no chain of cascades is longer
\* than tenant, definition, instance, step.
Grow(db, S) == S \cup {k \in Dependents(db, S) : TableOf(k) \notin Leaves}
\* Mutant of Collected: only what refers to the deleted row itself.
CollectedOnce(db, k) == Grow(db, {k})
Collected(db, k) == Grow(db, Grow(db, Grow(db, {k})))

\* What the transaction of delete() leaves of db after S was collected.
Unlinked(row, S) ==
    [ref |-> [c \in DOMAIN row.ref |->
                 IF Nullable(c) /\ row.ref[c] \in S THEN Null ELSE row.ref[c]],
     val |-> row.val]

AfterDelete(db, S) ==
    LET kept == {k \in DOMAIN db : ~ \/ k \in S
                                     \/ k \in Dependents(db, S)
                                            /\ TableOf(k) \in Leaves}
    IN  [k \in kept |-> Unlinked(db[k], S)]
=============================================================================
