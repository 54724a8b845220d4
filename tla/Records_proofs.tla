---------------------------- MODULE Records_proofs ----------------------------
(***************************************************************************)
(* Proofs about the tables, for any database, any edits and any number of  *)
(* requests and of commits of the engine: a delete() fails only if a       *)
(* definition, instance or step was added or moved after it had read what  *)
(* to delete; only the save of a row read before brings a deleted row      *)
(* back; a save changes other columns than its own only over a row written *)
(* since; the dashboard's counts add up while no instance changes; and but *)
(* for users' edits, no order of requests decides a task with a status     *)
(* that no call of the engine was given, be it lost, or parts an instance  *)
(* from the tenant of its definition.                                      *)
(***************************************************************************)
EXTENDS Records, FiniteSetTheorems, TLAPS

USE DEF callVars

(***************************************************************************)
(* What Django's collector gathers for a delete() is enough: after the     *)
(* transaction every constraint of the database holds again.               *)
(***************************************************************************)

\* A row of this table has all its links, each to a key of the right table or
\* null where it may be.
LinkedRow(table, row) ==
    \A f \in References :
        f.table = table =>
            /\ f.column \in DOMAIN row.ref
            /\ \/ TableOf(row.ref[f.column]) = f.to
               \/ Nullable(f.column) /\ row.ref[f.column] = Null

Linked(db) == \A k \in DOMAIN db : LinkedRow(TableOf(k), db[k])

\* S has all rows of db that have to be deleted with it and are not deleted by
\* a condition on their parent.
Closed(db, S) ==
    \A k \in Dependents(db, S) : TableOf(k) \in Leaves \/ k \in S

(***************************************************************************)
(* The links of the schema.                                                *)
(***************************************************************************)
\* No link refers to a leaf table, and a link of a table that is not a leaf
\* that cascades is one of four: to the tenant, to the definition, to the
\* instance (migrations: WorkflowDefinition, WorkflowInstance, StepExecution).
LEMMA LinksOfSchema ==
    ASSUME NEW f \in References
    PROVE  /\ f.to \notin Leaves
           /\ ~Nullable(f.column) /\ f.table \notin Leaves =>
                 \/ f.table = "definition" /\ f.to = "tenant"
                 \/ f.table = "instance" /\ f.to = "tenant"
                 \/ f.table = "instance" /\ f.to = "definition"
                 \/ f.table = "step" /\ f.to = "instance"
  BY DEF References, TenantReferences, WorkflowReferences, Foreign, Leaves,
         Nullable

\* The columns of a unique key are links of its table.
LEMMA UniquesAreLinks ==
    ASSUME NEW u \in Uniques, NEW c \in u.refs
    PROVE  \E f \in References : f.table = u.table /\ f.column = c
<1>1. /\ Foreign("membership", "tenant", "tenant") \in References
      /\ Foreign("membership", "user", "user") \in References
      /\ Foreign("definition", "tenant", "tenant") \in References
      /\ Foreign("task", "step_execution", "step") \in References
  BY DEF References, TenantReferences, WorkflowReferences
<1>2. \/ u.table = "membership" /\ c \in {"tenant", "user"}
      \/ u.table = "definition" /\ c = "tenant"
      \/ u.table = "task" /\ c = "step_execution"
  BY DEF Uniques, UserUnique, TenantUnique, WorkflowUnique, UniqueKey
<1> QED
  BY <1>1, <1>2 DEF Foreign

\* A dependent row that is not a leaf refers, by a link that cascades, to a
\* row of the set it depends on.
LEMMA DependentsRefer ==
    ASSUME NEW db, Linked(db), NEW S, NEW x \in Dependents(db, S),
           TableOf(x) \notin Leaves
    PROVE  \E y \in S :
              \/ TableOf(x) = "definition" /\ TableOf(y) = "tenant"
              \/ TableOf(x) = "instance" /\ TableOf(y) = "tenant"
              \/ TableOf(x) = "instance" /\ TableOf(y) = "definition"
              \/ TableOf(x) = "step" /\ TableOf(y) = "instance"
<1>1. PICK f \in Cascades : f.table = TableOf(x) /\ db[x].ref[f.column] \in S
  BY DEF Dependents
<1>2. f \in References /\ ~Nullable(f.column)
  BY <1>1 DEF Cascades
<1>3. x \in DOMAIN db
  BY DEF Dependents
<1>4. TableOf(db[x].ref[f.column]) = f.to
  BY <1>1, <1>2, <1>3 DEF Linked, LinkedRow
<1> QED
  BY <1>1, <1>2, <1>4, LinksOfSchema

\* One round of the collector adds only dependents that are not leaves.
LEMMA GrowAdds ==
    ASSUME NEW db, NEW S, NEW x \in Grow(db, S), x \notin S
    PROVE  x \in Dependents(db, S) /\ TableOf(x) \notin Leaves
  BY DEF Grow

\* Dependents that are not leaves are added by the next round.
LEMMA GrowTakes ==
    ASSUME NEW db, NEW S, NEW x \in Dependents(db, S), TableOf(x) \notin Leaves
    PROVE  x \in Grow(db, S)
  BY DEF Grow

\* What depends on a member of S because of one of its links depends on every
\* set with that member.
LEMMA DependentsOfOne ==
    ASSUME NEW db, NEW S, NEW x \in Dependents(db, S)
    PROVE  \E y \in S : x \in Dependents(db, {y})
  BY DEF Dependents

\* Dependents grow with the set.
LEMMA DependentsGrow ==
    ASSUME NEW db, NEW S, NEW T, S \subseteq T
    PROVE  Dependents(db, S) \subseteq Dependents(db, T)
  BY DEF Dependents

\* Three rounds gather everything: a tenant is never added by a round, a
\* definition only by the first, an instance by the second at the latest,
\* and a step by the third.
THEOREM CollectedIsClosed ==
    ASSUME NEW db, Linked(db), NEW k
    PROVE  Closed(db, Collected(db, k))
<1> DEFINE S0 == {k}
           S1 == Grow(db, S0)
           S2 == Grow(db, S1)
           S3 == Grow(db, S2)
<1>1. Collected(db, k) = S3
  BY DEF Collected
<1>2. S0 \subseteq S1 /\ S1 \subseteq S2 /\ S2 \subseteq S3
  BY DEF Grow
<1> HIDE DEF S0, S1, S2, S3
<1>3. ASSUME NEW S, NEW T, NEW x \in Dependents(db, S), TableOf(x) \notin Leaves,
             \A y \in S : x \in Dependents(db, {y}) => y \in T
      PROVE  x \in Grow(db, T)
  <2>1. PICK y \in S : x \in Dependents(db, {y})
    BY <1>3, DependentsOfOne
  <2>2. {y} \subseteq T
    BY <1>3, <2>1
  <2>3. x \in Dependents(db, T)
    BY <2>1, <2>2, DependentsGrow
  <2> QED
    BY <1>3, <2>3, GrowTakes
<1>4. ASSUME NEW x, NEW y, x \in Dependents(db, {y}), TableOf(x) \notin Leaves
      PROVE  \/ TableOf(x) = "definition" /\ TableOf(y) = "tenant"
             \/ TableOf(x) = "instance" /\ TableOf(y) = "tenant"
             \/ TableOf(x) = "instance" /\ TableOf(y) = "definition"
             \/ TableOf(x) = "step" /\ TableOf(y) = "instance"
  BY <1>4, DependentsRefer
<1>5. ASSUME NEW S, NEW x \in Grow(db, S), x \notin S
      PROVE  x \in Dependents(db, S) /\ TableOf(x) \notin Leaves
  BY <1>5, GrowAdds
<1>6. \A y \in S3 : TableOf(y) = "tenant" => y \in S0
  <2>1. ASSUME NEW S, NEW y \in Grow(db, S), TableOf(y) = "tenant"
        PROVE  y \in S
    <3>1. SUFFICES ASSUME y \notin S PROVE FALSE
      OBVIOUS
    <3>2. y \in Dependents(db, S) /\ TableOf(y) \notin Leaves
      BY <1>5, <3>1
    <3>3. PICK z \in S : y \in Dependents(db, {z})
      BY <3>2, DependentsOfOne
    <3> QED
      BY <1>4, <2>1, <3>2, <3>3
  <2> QED
    BY <2>1 DEF S1, S2, S3
<1>7. \A y \in S3 : TableOf(y) = "definition" => y \in S1
  <2>1. ASSUME NEW S, S \subseteq S3, NEW y \in Grow(db, S),
               TableOf(y) = "definition"
        PROVE  y \in S \/ y \in S1
    <3>1. SUFFICES ASSUME y \notin S PROVE y \in S1
      OBVIOUS
    <3>2. y \in Dependents(db, S) /\ TableOf(y) \notin Leaves
      BY <1>5, <3>1
    <3>3. \A z \in S : y \in Dependents(db, {z}) => z \in S0
      BY <1>4, <1>6, <2>1, <3>2
    <3> QED
      BY <1>3, <3>2, <3>3 DEF S1
  <2> QED
    BY <1>2, <2>1 DEF S2, S3
<1>8. \A y \in S3 : TableOf(y) = "instance" => y \in S2
  <2>1. SUFFICES ASSUME NEW y \in S3, TableOf(y) = "instance", y \notin S2
                 PROVE  FALSE
    OBVIOUS
  <2>2. y \in Dependents(db, S2) /\ TableOf(y) \notin Leaves
    BY <1>5, <2>1 DEF S3
  <2>3. \A z \in S2 : y \in Dependents(db, {z}) => z \in S1
    BY <1>2, <1>4, <1>6, <1>7, <2>1, <2>2
  <2> QED
    BY <1>3, <2>1, <2>2, <2>3 DEF S2
<1>9. ASSUME NEW x \in Dependents(db, S3), TableOf(x) \notin Leaves
      PROVE  x \in S3
  <2>1. \A y \in S3 : x \in Dependents(db, {y}) => y \in S2
    BY <1>2, <1>4, <1>6, <1>7, <1>8, <1>9
  <2> QED
    BY <1>3, <1>9, <2>1 DEF S3
<1> QED
  BY <1>1, <1>9 DEF Closed

(***************************************************************************)
(* The transaction.                                                        *)
(***************************************************************************)
\* Links of the deleted rows' survivors are links of before, or null.
LEMMA UnlinkedLink ==
    ASSUME NEW row, NEW S, NEW c \in DOMAIN row.ref
    PROVE  Unlinked(row, S).ref[c] =
              IF Nullable(c) /\ row.ref[c] \in S THEN Null ELSE row.ref[c]
  BY DEF Unlinked

\* A database that a commit left behind accepts every delete whose collected
\* rows are closed: no link dangles and no two rows become duplicates.
THEOREM DeleteAccepted ==
    ASSUME NEW db, Linked(db), Accepts(db), NEW S, Closed(db, S)
    PROVE  Accepts(AfterDelete(db, S))
<1> DEFINE after == AfterDelete(db, S)
<1>1. \A k \in DOMAIN db :
         k \in DOMAIN after <=>
            ~ (k \in S \/ (k \in Dependents(db, S) /\ TableOf(k) \in Leaves))
  BY DEF AfterDelete
<1>2. DOMAIN after \subseteq DOMAIN db
  BY DEF AfterDelete
<1>3. \A k \in DOMAIN after : after[k] = Unlinked(db[k], S)
  BY DEF AfterDelete
<1> HIDE DEF after
<1>4. NoDangling(after)
  <2>1. SUFFICES ASSUME NEW k \in DOMAIN after, NEW f \in References,
                        f.table = TableOf(k)
                 PROVE  \/ after[k].ref[f.column] \in DOMAIN after
                        \/ Nullable(f.column) /\ after[k].ref[f.column] = Null
    BY DEF NoDangling
  <2> DEFINE r == db[k].ref[f.column]
  <2>2. /\ k \in DOMAIN db
        /\ f.column \in DOMAIN db[k].ref
        /\ TableOf(r) = f.to \/ (Nullable(f.column) /\ r = Null)
    BY <1>2, <2>1 DEF Linked, LinkedRow
  <2>3. r \in DOMAIN db \/ (Nullable(f.column) /\ r = Null)
    BY <2>1, <2>2 DEF Accepts, NoDangling
  <2>4. after[k].ref[f.column] = IF Nullable(f.column) /\ r \in S THEN Null ELSE r
    BY <1>3, <2>2, UnlinkedLink
  <2> HIDE DEF r
  <2>5. CASE Nullable(f.column) /\ (r \in S \/ r = Null)
    BY <2>4, <2>5
  <2>6. CASE r \notin S /\ r \in DOMAIN db /\ TableOf(r) = f.to
    <3>1. TableOf(r) \notin Leaves
      BY <2>6, LinksOfSchema
    <3>2. r \in DOMAIN after
      BY <1>1, <2>6, <3>1
    <3> QED
      BY <2>4, <2>6, <3>2
  <2>7. CASE ~Nullable(f.column) /\ r \in S
    <3>1. f \in Cascades
      BY <2>7 DEF Cascades
    <3>2. k \in Dependents(db, S)
      BY <2>1, <2>2, <2>7, <3>1 DEF Dependents, r
    <3>3. k \in S \/ TableOf(k) \in Leaves
      BY <3>2 DEF Closed
    <3> QED
      BY <1>1, <2>1, <2>2, <3>2, <3>3
  <2> QED
    BY <2>2, <2>3, <2>5, <2>6, <2>7
<1>5. NoDuplicates(after)
  <2>1. SUFFICES ASSUME NEW u \in Uniques, NEW j \in DOMAIN after,
                        NEW k \in DOMAIN after,
                        TableOf(j) = u.table, TableOf(k) = u.table,
                        Same(after[j], after[k], u)
                 PROVE  j = k
    BY DEF NoDuplicates
  <2>2. j \in DOMAIN db /\ k \in DOMAIN db
    BY <1>2
  <2>3. ASSUME NEW c \in u.refs
        PROVE  db[j].ref[c] = db[k].ref[c] /\ db[j].ref[c] # Null
    <3>1. c \in DOMAIN db[j].ref /\ c \in DOMAIN db[k].ref
      BY <2>1, <2>2, UniquesAreLinks DEF Linked, LinkedRow
    <3>2. after[j].ref[c] = after[k].ref[c] /\ after[j].ref[c] # Null
      BY <2>1 DEF Same
    <3>3. /\ after[j].ref[c] = IF Nullable(c) /\ db[j].ref[c] \in S
                               THEN Null ELSE db[j].ref[c]
          /\ after[k].ref[c] = IF Nullable(c) /\ db[k].ref[c] \in S
                               THEN Null ELSE db[k].ref[c]
      BY <1>3, <3>1, UnlinkedLink
    <3> QED
      BY <3>2, <3>3
  <2>4. ASSUME NEW c \in u.vals
        PROVE  db[j].val[c] = db[k].val[c]
    <3>1. after[j].val[c] = after[k].val[c]
      BY <2>1 DEF Same
    <3>2. after[j].val = db[j].val /\ after[k].val = db[k].val
      BY <1>3 DEF Unlinked
    <3> QED
      BY <3>1, <3>2
  <2>5. Same(db[j], db[k], u)
    BY <2>3, <2>4 DEF Same
  <2> QED
    BY <2>1, <2>2, <2>5 DEF Accepts, NoDuplicates
<1> QED
  BY <1>4, <1>5 DEF Accepts, after

(***************************************************************************)
(* Requests.                                                               *)
(***************************************************************************)

\* The table that a request under way writes to.
Target(w) == IF w.by = "trigger" THEN "instance" ELSE TableOf(w.key)

\* The database is consistent, and every row in it has its links.
Sound(db) == Accepts(db) /\ Linked(db)

\* So has every row about to be saved.
SavesLinked == \A w \in saves : LinkedRow(Target(w), w.row)

\* Decisions are taken on tasks.
DecidedTasks ==
    /\ \A w \in saves : w.by \in {"decide", "approve"} => TableOf(w.key) = "task"
    /\ \A v \in resumed : TableOf(v.task) = "task"

\* The rows of a delete that nothing has raced are still all it has to collect.
DeletesClosed == \A d \in deletes : ~d.raced => Closed(rows, d.doomed)

RecordsInv == Sound(rows) /\ SavesLinked /\ DecidedTasks /\ DeletesClosed

(***************************************************************************)
(* Rows.                                                                   *)
(***************************************************************************)
\* Every link of the schema is one of thirteen.
LEMMA LinkCases ==
    ASSUME NEW f \in References
    PROVE  \/ f = Foreign("membership", "tenant", "tenant")
           \/ f = Foreign("membership", "user", "user")
           \/ f = Foreign("audit", "tenant", "tenant")
           \/ f = Foreign("audit", "actor", "user")
           \/ f = Foreign("definition", "tenant", "tenant")
           \/ f = Foreign("instance", "tenant", "tenant")
           \/ f = Foreign("instance", "definition", "definition")
           \/ f = Foreign("instance", "triggered_by", "user")
           \/ f = Foreign("step", "instance", "instance")
           \/ f = Foreign("task", "instance", "instance")
           \/ f = Foreign("task", "step_execution", "step")
           \/ f = Foreign("task", "assigned_to", "user")
           \/ f = Foreign("task", "decision_by", "user")
  BY DEF References, TenantReferences, WorkflowReferences

\* A key of a table, or null, is what a link may hold.
LEMMA KeyTables ==
    ASSUME NEW table, NEW k
    PROVE  /\ k \in KeysOf(table) => TableOf(k) = table
           /\ k \in OrNull(table) => TableOf(k) = table \/ k = Null
  BY DEF KeysOf, OrNull, TableOf, Null

\* The model of each table.
LEMMA Models ==
    /\ ModelOf("user") = User /\ ModelOf("tenant") = Tenant
    /\ ModelOf("membership") = TenantMembership /\ ModelOf("audit") = AuditLog
    /\ ModelOf("definition") = WorkflowDefinition
    /\ ModelOf("instance") = WorkflowInstance
    /\ ModelOf("step") = StepExecution /\ ModelOf("task") = ApprovalTask
  BY DEF ModelOf

\* A link is a column of its table's model, and may hold keys of the table it
\* refers to and, if it is nullable, null.
LEMMA LinksOfModels ==
    ASSUME NEW f \in References
    PROVE  LET columns == ModelOf(f.table).ref
           IN  /\ f.column \in DOMAIN columns
               /\ columns[f.column] =
                     IF Nullable(f.column) THEN OrNull(f.to) ELSE KeysOf(f.to)
<1>1. CASE f = Foreign("membership", "tenant", "tenant")
           \/ f = Foreign("membership", "user", "user")
  BY <1>1, Models DEF TenantMembership, Foreign, Nullable
<1>2. CASE f = Foreign("audit", "tenant", "tenant")
           \/ f = Foreign("audit", "actor", "user")
  BY <1>2, Models DEF AuditLog, Foreign, Nullable
<1>3. CASE f = Foreign("definition", "tenant", "tenant")
  BY <1>3, Models DEF WorkflowDefinition, Foreign, Nullable
<1>4. CASE f = Foreign("instance", "tenant", "tenant")
           \/ f = Foreign("instance", "definition", "definition")
           \/ f = Foreign("instance", "triggered_by", "user")
  BY <1>4, Models DEF WorkflowInstance, Foreign, Nullable
<1>5. CASE f = Foreign("step", "instance", "instance")
  BY <1>5, Models DEF StepExecution, Foreign, Nullable
<1>6. CASE f = Foreign("task", "instance", "instance")
           \/ f = Foreign("task", "step_execution", "step")
           \/ f = Foreign("task", "assigned_to", "user")
           \/ f = Foreign("task", "decision_by", "user")
  BY <1>6, Models DEF ApprovalTask, Foreign, Nullable
<1> QED
  BY <1>1, <1>2, <1>3, <1>4, <1>5, <1>6, LinkCases

\* Columns of a model with values they may hold: the links among them refer to
\* the right tables.
LEMMA SuitsLinked ==
    ASSUME NEW table, NEW ref, Suits(ref, ModelOf(table).ref),
           NEW f \in References, f.table = table, f.column \in DOMAIN ref
    PROVE  \/ TableOf(ref[f.column]) = f.to
           \/ Nullable(f.column) /\ ref[f.column] = Null
<1>1. ref[f.column] \in ModelOf(f.table).ref[f.column]
  BY DEF Suits
<1> QED
  BY <1>1, LinksOfModels, KeyTables

\* The rows of the models have all their links.
LEMMA RowsLinked ==
    ASSUME NEW table, NEW row, RowOf(table, row)
    PROVE  LinkedRow(table, row)
<1>1. /\ Suits(row.ref, ModelOf(table).ref)
      /\ DOMAIN ModelOf(table).ref \subseteq DOMAIN row.ref
  BY DEF RowOf, Fills
<1> QED
  BY <1>1, SuitsLinked, LinksOfModels DEF LinkedRow

\* Assigning links of the right tables to a row leaves it linked.
LEMMA AssignLinked ==
    ASSUME NEW table, NEW row, LinkedRow(table, row), NEW ref, NEW val,
           \A f \in References :
              f.table = table /\ f.column \in DOMAIN ref =>
                 \/ TableOf(ref[f.column]) = f.to
                 \/ Nullable(f.column) /\ ref[f.column] = Null
    PROVE  LinkedRow(table, Assign(row, ref, val))
<1>1. SUFFICES ASSUME NEW f \in References, f.table = table
               PROVE  LET new == Assign(row, ref, val).ref
                      IN  /\ f.column \in DOMAIN new
                          /\ \/ TableOf(new[f.column]) = f.to
                             \/ Nullable(f.column) /\ new[f.column] = Null
  BY DEF LinkedRow
<1>2. Assign(row, ref, val).ref =
         [c \in DOMAIN ref \cup DOMAIN row.ref |->
             IF c \in DOMAIN ref THEN ref[c] ELSE row.ref[c]]
  BY DEF Assign, Over
<1> QED
  BY <1>1, <1>2 DEF LinkedRow

\* So does assigning no links.
LEMMA AssignValues ==
    ASSUME NEW table, NEW row, LinkedRow(table, row), NEW val
    PROVE  LinkedRow(table, Assign(row, NoColumns, val))
<1>1. DOMAIN NoColumns = {}
  BY DEF NoColumns
<1> QED
  BY <1>1, AssignLinked

(***************************************************************************)
(* Databases.                                                              *)
(***************************************************************************)
\* Storing a linked row leaves the database linked.
LEMMA PutLinked ==
    ASSUME NEW db, Linked(db), NEW k, NEW row, LinkedRow(TableOf(k), row)
    PROVE  Linked(Put(db, k, row))
  BY DEF Linked, Put

\* A delete leaves the database linked.
LEMMA DeleteLinked ==
    ASSUME NEW db, Linked(db), NEW S
    PROVE  Linked(AfterDelete(db, S))
<1> DEFINE after == AfterDelete(db, S)
<1>1. SUFFICES ASSUME NEW k \in DOMAIN after
               PROVE  LinkedRow(TableOf(k), after[k])
  BY DEF Linked
<1>2. k \in DOMAIN db /\ after[k] = Unlinked(db[k], S)
  BY <1>1 DEF AfterDelete
<1>3. LinkedRow(TableOf(k), db[k])
  BY <1>2 DEF Linked
<1>4. DOMAIN Unlinked(db[k], S).ref = DOMAIN db[k].ref
  BY DEF Unlinked
<1> QED
  BY <1>2, <1>3, <1>4, UnlinkedLink DEF LinkedRow

\* A new key is one of its table.
LEMMA FreshTable ==
    ASSUME NEW table
    PROVE  TableOf(Fresh(table)) = table
  BY DEF Fresh, TableOf

(***************************************************************************)
(* Commits.                                                                *)
(***************************************************************************)
\* What a database has not grown by, a closed set still collects.
LEMMA ClosedStays ==
    ASSUME NEW db, ~Grown(db), NEW S, Closed(rows, S)
    PROVE  Closed(db, S)
<1>1. SUFFICES ASSUME NEW k \in Dependents(db, S), TableOf(k) \notin Leaves
               PROVE  k \in S
  BY DEF Closed
<1>2. PICK f \in Cascades : f.table = TableOf(k) /\ db[k].ref[f.column] \in S
  BY DEF Dependents
<1>3. k \in DOMAIN db
  BY DEF Dependents
<1>4. k \in DOMAIN rows /\ rows[k].ref[f.column] = db[k].ref[f.column]
  BY <1>1, <1>2, <1>3 DEF Grown
<1>5. k \in Dependents(rows, S)
  BY <1>2, <1>4 DEF Dependents
<1> QED
  BY <1>1, <1>5 DEF Closed

\* A commit of a linked database by a request that was under way, or by none,
\* keeps the invariant, whichever decisions the engine is told of.
LEMMA CommitKeeps ==
    ASSUME RecordsInv, NEW db, Linked(db),
           NEW left \in SUBSET saves, NEW deleting \in SUBSET deletes,
           Commit(db, left, deleting),
           \A v \in resumed' : TableOf(v.task) = "task"
    PROVE  RecordsInv'
<1>1. Sound(rows)'
  BY DEF Commit, Sound
<1>2. ASSUME NEW x \in saves'
      PROVE  \E w \in saves : x.by = w.by /\ x.key = w.key /\ x.row = w.row
  <2>1. PICK w \in left : x = Saver(w.number, w.by, w.key, w.row, w.asked,
                                    w.stale \/ ~SameAt(db, w.key))
    BY <1>2 DEF Commit
  <2> QED
    BY <2>1 DEF Saver
<1>3. SavesLinked'
  <2>1. SUFFICES ASSUME NEW x \in saves' PROVE LinkedRow(Target(x), x.row)
    BY DEF SavesLinked
  <2>2. PICK w \in saves : x.by = w.by /\ x.key = w.key /\ x.row = w.row
    BY <1>2
  <2>3. Target(x) = Target(w)
    BY <2>2 DEF Target
  <2> QED
    BY <2>2, <2>3 DEF RecordsInv, SavesLinked
<1>4. DecidedTasks'
  BY <1>2 DEF RecordsInv, DecidedTasks
<1>5. DeletesClosed'
  <2>1. SUFFICES ASSUME NEW x \in deletes', ~x.raced
                 PROVE  Closed(db, x.doomed)
    BY DEF DeletesClosed, Commit
  <2>2. PICK d \in deleting : x = Deleter(d.number, d.doomed, d.raced \/ Grown(db))
    BY DEF Commit
  <2>3. x.doomed = d.doomed /\ ~d.raced /\ ~Grown(db)
    BY <2>1, <2>2 DEF Deleter
  <2>4. Closed(rows, d.doomed)
    BY <2>3 DEF RecordsInv, DeletesClosed
  <2> QED
    BY <2>3, <2>4, ClosedStays
<1> QED
  BY <1>1, <1>3, <1>4, <1>5 DEF RecordsInv

\* A request that has read a linked row and is about to save it.
LEMMA SavingKeeps ==
    ASSUME RecordsInv, NEW by, NEW k, NEW row, NEW asked,
           Saving(by, k, row, asked),
           LinkedRow(IF by = "trigger" THEN "instance" ELSE TableOf(k), row),
           by \in {"decide", "approve"} => TableOf(k) = "task"
    PROVE  RecordsInv'
<1> DEFINE w == Saver(requests + 1, by, k, row, asked, FALSE)
<1>1. w.by = by /\ w.key = k /\ w.row = row
  BY DEF Saver
<1>2. saves' = saves \cup {w} /\ UNCHANGED <<rows, deletes, resumed>>
  BY DEF Saving
<1>3. LinkedRow(Target(w), w.row)
  BY <1>1 DEF Target
<1> HIDE DEF w
<1>4. SavesLinked'
  BY <1>2, <1>3 DEF RecordsInv, SavesLinked
<1>5. DecidedTasks'
  BY <1>1, <1>2 DEF RecordsInv, DecidedTasks
<1> QED
  BY <1>2, <1>4, <1>5 DEF RecordsInv, DeletesClosed

\* What becomes of a call: the engine is told of decisions on tasks alone.
LEMMA CallKeeps ==
    ASSUME RecordsInv, CallStep
    PROVE  RecordsInv'
<1>1. /\ UNCHANGED <<rows, saves, deletes>>
      /\ \A v \in resumed' : v \in resumed \/ TableOf(v.task) = "task"
  BY DEF CallStep, Arrives, LoseCall, DecisionsIn, Decision
<1> QED
  BY <1>1 DEF RecordsInv, SavesLinked, DecidedTasks, DeletesClosed

\* What leaves the rows alone and only forgets requests keeps the invariant.
LEMMA ForgettingKeeps ==
    ASSUME RecordsInv, rows' = rows, saves' \subseteq saves,
           deletes' \subseteq deletes, resumed' = resumed
    PROVE  RecordsInv'
  BY DEF RecordsInv, SavesLinked, DecidedTasks, DeletesClosed

(***************************************************************************)
(* The steps of the control plane.                                         *)
(***************************************************************************)
\* Adding a row: the drafts are rows of their tables.
LEMMA CreateKeeps ==
    ASSUME RecordsInv, NEW d \in Drafts, Create(d)
    PROVE  RecordsInv'
<1> DEFINE k == Fresh(d.table)
<1>1. LinkedRow(TableOf(k), d.row)
  BY RecordsAssumption, RowsLinked, FreshTable
<1>2. Linked(Put(rows, k, d.row))
  BY <1>1, PutLinked DEF RecordsInv, Sound
<1>3. Commit(Put(rows, k, d.row), saves, deletes) /\ resumed' = resumed
  BY DEF Create
<1>4. \A v \in resumed' : TableOf(v.task) = "task"
  BY <1>3 DEF RecordsInv, DecidedTasks
<1> QED
  BY <1>2, <1>3, <1>4, CommitKeeps

\* The read of an edit: the links it sets are of the right tables.
LEMMA EditReadKeeps ==
    ASSUME RecordsInv, NEW k \in DOMAIN rows, NEW e \in Edits, EditRead(k, e)
    PROVE  RecordsInv'
<1> DEFINE row == Assign(rows[k], e.ref, e.val)
<1>1. TableOf(k) = e.table /\ Saving("edit", k, row, ColumnsOf(e))
  BY DEF EditRead
<1>2. LinkedRow(TableOf(k), rows[k])
  BY DEF RecordsInv, Sound, Linked
<1>3. \A f \in References :
         f.table = TableOf(k) /\ f.column \in DOMAIN e.ref =>
            \/ TableOf(e.ref[f.column]) = f.to
            \/ Nullable(f.column) /\ e.ref[f.column] = Null
  BY <1>1, RecordsAssumption, SuitsLinked
<1>4. LinkedRow(TableOf(k), row)
  BY <1>2, <1>3, AssignLinked
<1> HIDE DEF row
<1> QED
  BY <1>1, <1>4, SavingKeeps

\* The other reads: of a definition to trigger, an instance to cancel and a
\* task to decide.
LEMMA ViewReadKeeps ==
    ASSUME RecordsInv, NEW k \in DOMAIN rows, NEW u \in Users, NEW x,
           TriggerRead(k, u) \/ CancelRead(k) \/ ApproveRead(k, x)
              \/ DecideRead(k, x, u)
    PROVE  RecordsInv'
<1>1. LinkedRow(TableOf(k), rows[k])
  BY DEF RecordsInv, Sound, Linked
<1>2. u = Null \/ TableOf(u) = "user"
  BY DEF Users, Stored
<1>3. CASE TriggerRead(k, u)
  <2> DEFINE row == Instance(rows[k].ref.tenant, k, u, "pending")
  <2>1. TableOf(k) = "definition" /\ Saving("trigger", Null, row, {})
    BY <1>3 DEF TriggerRead, Stored
  <2>2. TableOf(rows[k].ref.tenant) = "tenant"
    <3>1. Foreign("definition", "tenant", "tenant") \in References
      BY DEF References, WorkflowReferences
    <3> QED
      BY <1>1, <2>1, <3>1 DEF LinkedRow, Foreign, Nullable
  <2>3. LinkedRow("instance", row)
    <3>1. SUFFICES ASSUME NEW f \in References, f.table = "instance"
                   PROVE  /\ f.column \in DOMAIN row.ref
                          /\ \/ TableOf(row.ref[f.column]) = f.to
                             \/ Nullable(f.column) /\ row.ref[f.column] = Null
      BY DEF LinkedRow
    <3>2. \/ f = Foreign("instance", "tenant", "tenant")
          \/ f = Foreign("instance", "definition", "definition")
          \/ f = Foreign("instance", "triggered_by", "user")
      BY <3>1, LinkCases DEF Foreign
    <3> QED
      BY <1>2, <2>1, <2>2, <3>2 DEF Instance, Foreign, Nullable
  <2> HIDE DEF row
  <2> QED
    BY <2>1, <2>3, SavingKeeps
<1>4. CASE CancelRead(k)
  BY <1>1, <1>4, AssignValues, SavingKeeps DEF CancelRead
<1>5. CASE ApproveRead(k, x)
  <2>1. TableOf(k) = "task"
    BY <1>5 DEF ApproveRead, Stored
  <2> QED
    BY <1>1, <1>5, <2>1, AssignValues, SavingKeeps DEF ApproveRead
<1>6. CASE DecideRead(k, x, u)
  <2> DEFINE row == Assign(rows[k], [decision_by |-> u], [status |-> x])
  <2>1. /\ TableOf(k) = "task"
        /\ Saving("decide", k, row, {"status", "decision_by"})
    BY <1>6 DEF DecideRead, Stored
  <2>2. ASSUME NEW f \in References, f.table = "task",
               f.column \in DOMAIN [decision_by |-> u]
        PROVE  \/ TableOf([decision_by |-> u][f.column]) = f.to
               \/ Nullable(f.column) /\ [decision_by |-> u][f.column] = Null
    <3>1. f = Foreign("task", "decision_by", "user")
      BY <2>2, LinkCases DEF Foreign
    <3> QED
      BY <1>2, <3>1 DEF Foreign, Nullable
  <2>3. LinkedRow("task", row)
    BY <1>1, <2>1, <2>2, AssignLinked
  <2> HIDE DEF row
  <2> QED
    BY <2>1, <2>3, SavingKeeps
<1> QED
  BY <1>3, <1>4, <1>5, <1>6

\* The writes: each stores a row that is linked.
LEMMA WriteKeeps ==
    ASSUME RecordsInv, NEW w \in saves,
           EditWrite(w) \/ TriggerWrite(w) \/ CancelWrite(w) \/ DecideWrite(w)
             \/ WriteRefused(w)
    PROVE  RecordsInv'
<1>1. Linked(rows) /\ LinkedRow(Target(w), w.row)
  BY DEF RecordsInv, Sound, SavesLinked
<1>2. \A v \in resumed : TableOf(v.task) = "task"
  BY DEF RecordsInv, DecidedTasks
<1>3. ASSUME w.by # "trigger" PROVE Linked(WholeRow(w))
  BY <1>1, <1>3, PutLinked DEF WholeRow, Target
<1>4. CASE EditWrite(w)
  <2>1. /\ w.by = "edit" /\ resumed' = resumed
        /\ Commit(WholeRow(w), saves \ {w}, deletes)
    BY <1>4 DEF EditWrite
  <2> QED
    BY <1>2, <1>3, <2>1, CommitKeeps
<1>5. CASE TriggerWrite(w)
  <2> DEFINE i == Fresh("instance")
  <2>1. /\ w.by = "trigger" /\ resumed' = resumed
        /\ Commit(Put(rows, i, w.row), saves \ {w}, deletes)
    BY <1>5 DEF TriggerWrite
  <2>2. Linked(Put(rows, i, w.row))
    BY <1>1, <2>1, FreshTable, PutLinked DEF Target
  <2> QED
    BY <1>2, <2>1, <2>2, CommitKeeps
<1>6. CASE CancelWrite(w)
  <2>1. /\ w.key \in DOMAIN rows /\ resumed' = resumed
        /\ Commit(NamedColumns(w), saves \ {w}, deletes)
    BY <1>6 DEF CancelWrite
  <2>2. LinkedRow(TableOf(w.key), rows[w.key])
    BY <1>1, <2>1 DEF Linked
  <2>3. Linked(NamedColumns(w))
    BY <1>1, <2>2, AssignValues, PutLinked DEF NamedColumns
  <2> QED
    BY <1>2, <2>1, <2>3, CommitKeeps
<1>7. CASE DecideWrite(w)
  <2>1. /\ w.by \in {"decide", "approve"}
        /\ resumed' = resumed
        /\ Commit(WholeRow(w), saves \ {w}, deletes)
    BY <1>7 DEF DecideWrite
  <2> QED
    BY <1>2, <1>3, <2>1, CommitKeeps
<1>8. CASE WriteRefused(w)
  BY <1>8, ForgettingKeeps DEF WriteRefused
<1> QED
  BY <1>4, <1>5, <1>6, <1>7, <1>8

\* Deletes: what was collected is closed at first; the transaction itself
\* adds nothing that another delete would have to collect, or races it.
LEMMA DeleteKeeps ==
    ASSUME RecordsInv,
           \/ \E k \in DOMAIN rows : DeleteRead(k)
           \/ \E d \in deletes : DeleteWrite(d) \/ DeleteRefused(d)
    PROVE  RecordsInv'
<1>1. ASSUME NEW k \in DOMAIN rows, DeleteRead(k) PROVE RecordsInv'
  <2> DEFINE new == Deleter(requests + 1, Collected(rows, k), FALSE)
  <2>1. deletes' = deletes \cup {new} /\ UNCHANGED <<rows, saves, resumed>>
    BY <1>1 DEF DeleteRead
  <2>2. Closed(rows, new.doomed)
    BY CollectedIsClosed DEF Deleter, RecordsInv, Sound
  <2> HIDE DEF new
  <2> QED
    BY <2>1, <2>2 DEF RecordsInv, SavesLinked, DecidedTasks, DeletesClosed
<1>2. ASSUME NEW d \in deletes, DeleteWrite(d) PROVE RecordsInv'
  <2>1. /\ Commit(AfterDelete(rows, d.doomed), saves, deletes \ {d})
        /\ resumed' = resumed
    BY <1>2 DEF DeleteWrite
  <2>2. Linked(AfterDelete(rows, d.doomed))
    BY DeleteLinked DEF RecordsInv, Sound
  <2>3. \A v \in resumed' : TableOf(v.task) = "task"
    BY <2>1 DEF RecordsInv, DecidedTasks
  <2> QED
    BY <2>1, <2>2, <2>3, CommitKeeps
<1>3. ASSUME NEW d \in deletes, DeleteRefused(d) PROVE RecordsInv'
  BY <1>3, ForgettingKeeps DEF DeleteRefused
<1> QED
  BY <1>1, <1>2, <1>3

(***************************************************************************)
(* The steps of the engine.                                                *)
(***************************************************************************)
\* A commit of the engine of a linked database.
LEMMA EngineCommitKeeps ==
    ASSUME RecordsInv, NEW i, NEW db, Linked(db), EngineCommit(i, db)
    PROVE  RecordsInv'
<1>1. Commit(db, saves, deletes) /\ resumed' = resumed
  BY DEF EngineCommit
<1>2. \A v \in resumed' : TableOf(v.task) = "task"
  BY <1>1 DEF RecordsInv, DecidedTasks
<1> QED
  BY <1>1, <1>2, CommitKeeps

\* The engine writes statuses, and steps and tasks of an instance.
LEMMA EngineKeeps ==
    ASSUME RecordsInv, EngineStep
    PROVE  RecordsInv'
<1>1. Linked(rows) /\ \A k \in DOMAIN rows : LinkedRow(TableOf(k), rows[k])
  BY DEF RecordsInv, Sound, Linked
<1>2. ASSUME NEW db, Linked(db), NEW k, k \in DOMAIN db, NEW val
      PROVE  Linked(Put(db, k, Assign(db[k], NoColumns, val)))
  BY <1>2, AssignValues, PutLinked DEF Linked
<1>3. ASSUME NEW i \in DOMAIN rows, NEW s, EngineMoves(i, s)
      PROVE  RecordsInv'
  BY <1>1, <1>2, <1>3, EngineCommitKeeps DEF EngineMoves
<1>4. ASSUME NEW i \in DOMAIN rows, EngineBeginsStep(i)
      PROVE  RecordsInv'
  <2> DEFINE row == [ref |-> [instance |-> i],
                     val |-> [node_id |-> EngineNode, status |-> "in_progress"]]
  <2>1. TableOf(i) = "instance"
        /\ EngineCommit(i, Put(rows, Fresh("step"), row))
    BY <1>4 DEF EngineBeginsStep, Stored
  <2>2. LinkedRow("step", row)
    BY <2>1, LinkCases DEF LinkedRow, Foreign
  <2>3. Linked(Put(rows, Fresh("step"), row))
    BY <1>1, <2>2, FreshTable, PutLinked
  <2> QED
    BY <2>1, <2>3, EngineCommitKeeps
<1>5. ASSUME NEW k \in DOMAIN rows, NEW s, EngineEndsStep(k, s)
      PROVE  RecordsInv'
  BY <1>1, <1>2, <1>5, EngineCommitKeeps DEF EngineEndsStep
<1>6. ASSUME NEW i \in DOMAIN rows, EngineAsks(i)
      PROVE  RecordsInv'
  <2> DEFINE row == [ref |-> [instance |-> i, step_execution |-> Null,
                              assigned_to |-> Null, decision_by |-> Null],
                     val |-> [status |-> "pending"]]
  <2>1. TableOf(i) = "instance"
        /\ EngineCommit(i, Put(rows, Fresh("task"), row))
    BY <1>6 DEF EngineAsks, Stored
  <2>2. LinkedRow("task", row)
    <3>1. SUFFICES ASSUME NEW f \in References, f.table = "task"
                   PROVE  /\ f.column \in DOMAIN row.ref
                          /\ \/ TableOf(row.ref[f.column]) = f.to
                             \/ Nullable(f.column) /\ row.ref[f.column] = Null
      BY DEF LinkedRow
    <3>2. \/ f = Foreign("task", "instance", "instance")
          \/ f = Foreign("task", "step_execution", "step")
          \/ f = Foreign("task", "assigned_to", "user")
          \/ f = Foreign("task", "decision_by", "user")
      BY <3>1, LinkCases DEF Foreign
    <3> QED
      BY <2>1, <3>2 DEF Foreign, Nullable
  <2>3. Linked(Put(rows, Fresh("task"), row))
    BY <1>1, <2>2, FreshTable, PutLinked
  <2> QED
    BY <2>1, <2>3, EngineCommitKeeps
<1>7. ASSUME NEW v \in resumed, EngineResumes(v)
      PROVE  RecordsInv'
  <2> DEFINE i == rows[v.task].ref.instance
             decision == Lowered[v.decision]
             decided == Put(rows, v.task,
                            Assign(rows[v.task], NoColumns, [status |-> decision]))
             status == IF decision = "rejected" THEN "failed" ELSE "running"
             db == Put(decided, i, Assign(rows[i], NoColumns, [status |-> status]))
  <2>1. v.task \in DOMAIN rows /\ EngineCommit(i, db)
    BY <1>7 DEF EngineResumes
  <2>2. i \in DOMAIN rows
    <3>1. Foreign("task", "instance", "instance") \in References
      BY DEF References, WorkflowReferences
    <3>2. TableOf(v.task) = "task"
      BY DEF RecordsInv, DecidedTasks
    <3> QED
      BY <2>1, <3>1, <3>2
         DEF RecordsInv, Sound, Accepts, NoDangling, Foreign, Nullable
  <2>3. LinkedRow(TableOf(i), Assign(rows[i], NoColumns, [status |-> status]))
    BY <1>1, <2>2, AssignValues
  <2>4. Linked(decided)
    BY <1>1, <1>2, <2>1
  <2>5. Linked(db)
    <3> HIDE DEF decided, i, status
    <3> QED
      BY <2>3, <2>4, PutLinked
  <2> HIDE DEF db
  <2> QED
    BY <2>1, <2>5, EngineCommitKeeps
<1> QED
  BY <1>3, <1>4, <1>5, <1>6, <1>7 DEF EngineStep

(***************************************************************************)
(* The theorem.                                                            *)
(***************************************************************************)
\* The databases of the start are linked because their rows are typed.
LEMMA InitSound ==
    RecordsInit => RecordsInv
<1> SUFFICES ASSUME RecordsInit PROVE RecordsInv
  OBVIOUS
<1>1. RowsTyped(rows) /\ Accepts(rows)
  BY RecordsAssumption DEF RecordsInit
<1>2. Linked(rows)
  BY <1>1, RowsLinked DEF RowsTyped, Linked
<1> QED
  BY <1>1, <1>2 DEF RecordsInit, RecordsInv, Sound, SavesLinked, DecidedTasks,
                    DeletesClosed

\* Every step keeps the invariant.
LEMMA StepKeeps ==
    RecordsInv /\ [RecordsNext]_recordVars => RecordsInv'
<1> SUFFICES ASSUME RecordsInv, [RecordsNext]_recordVars
             PROVE  RecordsInv'
  OBVIOUS
<1>1. CASE UNCHANGED recordVars
  BY <1>1, ForgettingKeeps DEF recordVars
<1>2. CASE EngineStep
  BY <1>2, EngineKeeps
<1>3. CASE CallStep
  BY <1>3, CallKeeps
<1>4. CASE WebStep
  <2>1. ASSUME NEW d \in Drafts, Create(d) PROVE RecordsInv'
    BY <2>1, CreateKeeps
  <2>2. ASSUME NEW k \in DOMAIN rows, DeleteRead(k) PROVE RecordsInv'
    BY <2>2, DeleteKeeps
  <2>3. ASSUME NEW k \in DOMAIN rows, NEW e \in Edits, EditRead(k, e)
        PROVE  RecordsInv'
    BY <2>3, EditReadKeeps
  <2>4. Null \in Users
    BY DEF Users
  <2>5. ASSUME NEW k \in DOMAIN rows, NEW u \in Users, TriggerRead(k, u)
        PROVE  RecordsInv'
    BY <2>5, ViewReadKeeps
  <2>6. ASSUME NEW k \in DOMAIN rows, CancelRead(k) PROVE RecordsInv'
    BY <2>4, <2>6, ViewReadKeeps
  <2>7. ASSUME NEW k \in DOMAIN rows, NEW x \in Posts, ApproveRead(k, x)
        PROVE  RecordsInv'
    BY <2>4, <2>7, ViewReadKeeps
  <2>8. ASSUME NEW k \in DOMAIN rows, NEW x \in Decisions, NEW u \in Users,
               DecideRead(k, x, u)
        PROVE  RecordsInv'
    BY <2>8, ViewReadKeeps
  <2>9. ASSUME NEW w \in saves,
               EditWrite(w) \/ TriggerWrite(w) \/ CancelWrite(w)
                 \/ DecideWrite(w) \/ WriteRefused(w)
        PROVE  RecordsInv'
    BY <2>9, WriteKeeps
  <2>10. ASSUME NEW d \in deletes, DeleteWrite(d) \/ DeleteRefused(d)
         PROVE  RecordsInv'
    BY <2>10, DeleteKeeps
  <2>11. CASE CountTotal \/ CountRunning \/ CountCompleted \/ ClosePage
    BY <2>11, ForgettingKeeps
       DEF CountTotal, CountRunning, CountCompleted, ClosePage
  <2> QED
    BY <1>4, <2>1, <2>2, <2>3, <2>5, <2>6, <2>7, <2>8, <2>9, <2>10, <2>11
       DEF WebStep
<1> QED
  BY <1>1, <1>2, <1>3, <1>4 DEF RecordsNext

LEMMA DeletesSucceed == RecordsInv => QuietDeletesSucceed
  BY DeleteAccepted DEF RecordsInv, Sound, DeletesClosed, QuietDeletesSucceed

\* A delete() whose rows nothing has raced is accepted by the database,
\* whatever the tables hold, users edit and the engine writes.
THEOREM QuietDeletes == RecordsSpec => []QuietDeletesSucceed
  BY DeletesSucceed, InitSound, StepKeeps, PTL DEF RecordsSpec

(***************************************************************************)
(* What a step does to the rows and to the requests under way.             *)
(***************************************************************************)
\* No row changes, and requests are at most forgotten; the dashboard may query.
Rests ==
    /\ rows' = rows /\ buried' = buried /\ saves' \subseteq saves
    /\ \/ page' = page
       \/ CountTotal \/ CountRunning \/ CountCompleted \/ ClosePage

\* A request reads a row in order to save it with some columns assigned, or
\* reads what a new instance is made of.
Reads(by, k, row, asked) ==
    /\ Saving(by, k, row, asked)
    /\ \/ by = "trigger" /\ k = Null
       \/ /\ by \in {"edit", "cancel", "decide", "approve"} /\ k \in DOMAIN rows
          /\ \E ref, val : /\ row = Assign(rows[k], ref, val)
                           /\ DOMAIN ref \cup DOMAIN val \subseteq asked
          /\ by = "cancel" => "status" \in asked

\* A commit of no request that had read a row: it adds no key or a new one.
Stores(db, deleting) ==
    /\ Commit(db, saves, deleting)
    /\ \/ DOMAIN db \subseteq DOMAIN rows
       \/ \E table \in Tables : DOMAIN db = DOMAIN rows \cup {Fresh(table)}

\* The commit of a request that had.
Saves(w, db) ==
    /\ Commit(db, saves \ {w}, deletes)
    /\ \/ w.by = "trigger" /\ DOMAIN db = DOMAIN rows \cup {Fresh("instance")}
       \/ w.by \in {"edit", "decide", "approve"} /\ db = WholeRow(w)
       \/ w.by = "cancel" /\ w.key \in DOMAIN rows /\ db = NamedColumns(w)

\* What each view reads.
LEMMA ViewReads ==
    ASSUME NEW k \in DOMAIN rows, NEW u, NEW x,
           \/ \E e \in Edits : EditRead(k, e)
           \/ TriggerRead(k, u) \/ CancelRead(k) \/ ApproveRead(k, x)
           \/ DecideRead(k, x, u)
    PROVE  \E by, key, row, asked : Reads(by, key, row, asked)
<1>1. ASSUME NEW e \in Edits, EditRead(k, e)
      PROVE  Reads("edit", k, Assign(rows[k], e.ref, e.val), ColumnsOf(e))
  BY <1>1 DEF EditRead, Reads, ColumnsOf
<1>2. CASE TriggerRead(k, u)
  BY <1>2 DEF TriggerRead, Reads
<1>3. DOMAIN NoColumns = {}
  BY DEF NoColumns
<1>4. ASSUME NEW v
      PROVE  DOMAIN NoColumns \cup DOMAIN [status |-> v] \subseteq {"status"}
  BY <1>3
<1>5. CASE CancelRead(k)
  <2>1. Reads("cancel", k, Assign(rows[k], NoColumns, [status |-> "cancelled"]),
              {"status"})
    BY <1>4, <1>5 DEF CancelRead, Reads
  <2> QED
    BY <2>1
<1>6. CASE ApproveRead(k, x)
  <2>1. Reads("approve", k, Assign(rows[k], NoColumns, [status |-> x]),
              {"status"})
    BY <1>4, <1>6 DEF ApproveRead, Reads
  <2> QED
    BY <2>1
<1>7. CASE DecideRead(k, x, u)
  <2>1. DOMAIN [decision_by |-> u] \cup DOMAIN [status |-> x]
           \subseteq {"status", "decision_by"}
    OBVIOUS
  <2>2. Reads("decide", k, Assign(rows[k], [decision_by |-> u], [status |-> x]),
              {"status", "decision_by"})
    BY <1>7, <2>1 DEF DecideRead, Reads
  <2> QED
    BY <2>2
<1> QED
  BY <1>1, <1>2, <1>5, <1>6, <1>7

\* The engine stores rows of instances, tasks and steps that are there, and
\* new steps and tasks.
LEMMA EngineStores ==
    ASSUME RecordsInv, EngineStep
    PROVE  \E db : Stores(db, deletes)
<1> DEFINE Goal == \E db : Stores(db, deletes)
<1>1. ASSUME NEW i, NEW k \in DOMAIN rows, NEW row,
             EngineCommit(i, Put(rows, k, row))
      PROVE  Goal
  <2>1. DOMAIN Put(rows, k, row) = DOMAIN rows
    BY DEF Put
  <2> QED
    BY <1>1, <2>1 DEF EngineCommit, Stores
<1>2. ASSUME NEW i, NEW table \in Tables, NEW row,
             EngineCommit(i, Put(rows, Fresh(table), row))
      PROVE  Goal
  <2>1. DOMAIN Put(rows, Fresh(table), row) = DOMAIN rows \cup {Fresh(table)}
    BY DEF Put
  <2> QED
    BY <1>2, <2>1 DEF EngineCommit, Stores
<1>3. "step" \in Tables /\ "task" \in Tables
  BY DEF Tables
<1>4. ASSUME NEW i \in DOMAIN rows, NEW s, EngineMoves(i, s) PROVE Goal
  BY <1>1, <1>4 DEF EngineMoves
<1>5. ASSUME NEW i \in DOMAIN rows, EngineBeginsStep(i) PROVE Goal
  BY <1>2, <1>3, <1>5 DEF EngineBeginsStep
<1>6. ASSUME NEW k \in DOMAIN rows, NEW s, EngineEndsStep(k, s) PROVE Goal
  BY <1>1, <1>6 DEF EngineEndsStep
<1>7. ASSUME NEW i \in DOMAIN rows, EngineAsks(i) PROVE Goal
  BY <1>2, <1>3, <1>7 DEF EngineAsks
<1>8. ASSUME NEW v \in resumed, EngineResumes(v) PROVE Goal
  <2> DEFINE i == rows[v.task].ref.instance
             decision == Lowered[v.decision]
             decided == Put(rows, v.task,
                            Assign(rows[v.task], NoColumns, [status |-> decision]))
             status == IF decision = "rejected" THEN "failed" ELSE "running"
             db == Put(decided, i, Assign(rows[i], NoColumns, [status |-> status]))
  <2>1. v.task \in DOMAIN rows /\ EngineCommit(i, db)
    BY <1>8 DEF EngineResumes
  <2>2. i \in DOMAIN rows
    <3>1. Foreign("task", "instance", "instance") \in References
      BY DEF References, WorkflowReferences
    <3>2. TableOf(v.task) = "task"
      BY DEF RecordsInv, DecidedTasks
    <3> QED
      BY <2>1, <3>1, <3>2
         DEF RecordsInv, Sound, Accepts, NoDangling, Foreign, Nullable
  <2>3. DOMAIN decided = DOMAIN rows
    BY <2>1 DEF Put
  <2>4. DOMAIN db = DOMAIN rows
    <3> HIDE DEF decided, i, status
    <3> QED
      BY <2>2, <2>3 DEF Put
  <2> HIDE DEF db
  <2> QED
    BY <2>1, <2>4 DEF EngineCommit, Stores
<1> QED
  BY <1>4, <1>5, <1>6, <1>7, <1>8 DEF EngineStep

\* Every step is one of the four.
LEMMA StepShape ==
    ASSUME RecordsInv, [RecordsNext]_recordVars
    PROVE  \/ Rests
           \/ \E by, k, row, asked : Reads(by, k, row, asked)
           \/ \E db, deleting : Stores(db, deleting)
           \/ \E w \in saves : \E db : Saves(w, db)
<1> DEFINE Goal == \/ Rests
                   \/ \E by, k, row, asked : Reads(by, k, row, asked)
                   \/ \E db, deleting : Stores(db, deleting)
                   \/ \E w \in saves : \E db : Saves(w, db)
<1>1. CASE UNCHANGED recordVars
  BY <1>1 DEF recordVars, Rests
<1>2. CASE EngineStep
  BY <1>2, EngineStores
<1>3. ASSUME NEW d \in Drafts, Create(d) PROVE Goal
  <2>1. /\ Commit(Put(rows, Fresh(d.table), d.row), saves, deletes)
        /\ d.table \in Tables
    BY <1>3, RecordsAssumption DEF Create
  <2>2. Stores(Put(rows, Fresh(d.table), d.row), deletes)
    BY <2>1 DEF Put, Stores
  <2> QED
    BY <2>2
<1>4. ASSUME NEW k \in DOMAIN rows, DeleteRead(k) PROVE Goal
  BY <1>4 DEF DeleteRead, Rests
<1>5. ASSUME NEW k \in DOMAIN rows,
             \/ CancelRead(k)
             \/ \E e \in Edits : EditRead(k, e)
             \/ \E u \in Users : TriggerRead(k, u)
             \/ \E x \in Posts : ApproveRead(k, x)
             \/ \E x \in Decisions, u \in Users : DecideRead(k, x, u)
      PROVE  Goal
  <2>1. PICK u, x : \/ \E e \in Edits : EditRead(k, e)
                    \/ TriggerRead(k, u) \/ CancelRead(k) \/ ApproveRead(k, x)
                    \/ DecideRead(k, x, u)
    BY <1>5
  <2> QED
    BY <2>1, ViewReads
<1>6. ASSUME NEW w \in saves, EditWrite(w) \/ DecideWrite(w) PROVE Goal
  <2>1. Saves(w, WholeRow(w))
    BY <1>6 DEF EditWrite, DecideWrite, Saves
  <2> QED
    BY <2>1
<1>7. ASSUME NEW w \in saves, CancelWrite(w) PROVE Goal
  <2>1. Saves(w, NamedColumns(w))
    BY <1>7 DEF CancelWrite, Saves
  <2> QED
    BY <2>1
<1>8. ASSUME NEW w \in saves, TriggerWrite(w) PROVE Goal
  <2>1. /\ w.by = "trigger"
        /\ Commit(Put(rows, Fresh("instance"), w.row), saves \ {w}, deletes)
    BY <1>8 DEF TriggerWrite
  <2>2. Saves(w, Put(rows, Fresh("instance"), w.row))
    BY <2>1 DEF Put, Saves
  <2> QED
    BY <2>2
<1>9. ASSUME NEW w \in saves, WriteRefused(w) PROVE Goal
  BY <1>9 DEF WriteRefused, Rests
<1>10. ASSUME NEW d \in deletes, DeleteWrite(d) PROVE Goal
  <2>1. Commit(AfterDelete(rows, d.doomed), saves, deletes \ {d})
    BY <1>10 DEF DeleteWrite
  <2>2. DOMAIN AfterDelete(rows, d.doomed) \subseteq DOMAIN rows
    BY DEF AfterDelete
  <2>3. Stores(AfterDelete(rows, d.doomed), deletes \ {d})
    BY <2>1, <2>2 DEF Stores
  <2> QED
    BY <2>3
<1>11. ASSUME NEW d \in deletes, DeleteRefused(d) PROVE Goal
  BY <1>11 DEF DeleteRefused, Rests
<1>12. CASE CountTotal \/ CountRunning \/ CountCompleted \/ ClosePage
  BY <1>12 DEF CountTotal, CountRunning, CountCompleted, ClosePage, Rests
<1>13. CASE CallStep
  BY <1>13 DEF CallStep, Arrives, LoseCall, Rests
<1> QED
  BY <1>1, <1>2, <1>3, <1>4, <1>5, <1>6, <1>7, <1>8, <1>9, <1>10, <1>11, <1>12,
     <1>13 DEF RecordsNext, WebStep

(***************************************************************************)
(* Keys, and who brings a deleted row back.                                *)
(***************************************************************************)
\* The keys that are or were in use.
Known == DOMAIN rows \cup buried

\* Keys are numbered without gaps, and requests save rows that had a key.
KeysInv ==
    /\ IsFiniteSet(Known) /\ Numbered(Known)
    /\ \A k \in Known : TableOf(k) \in Tables
    /\ \A w \in saves :
          \/ w.by = "trigger" /\ w.key = Null
          \/ w.by \in {"edit", "cancel", "decide", "approve"} /\ w.key \in Known

\* The next number of a table is new, and leaves no gap.
LEMMA NumberedGrows ==
    ASSUME NEW keys, IsFiniteSet(keys), Numbered(keys), NEW table \in Tables,
           NEW k, k = <<table, 1 + Cardinality(KeysIn(table, keys))>>
    PROVE  k \notin keys /\ IsFiniteSet(keys \cup {k}) /\ Numbered(keys \cup {k})
<1> DEFINE n == Cardinality(KeysIn(table, keys))
<1>1. IsFiniteSet(KeysIn(table, keys)) /\ n \in Nat
  BY FS_Subset, FS_CardinalityType DEF KeysIn
<1>2. KeysIn(table, keys) = {table} \X (1..n) /\ k = <<table, 1 + n>>
  BY DEF Numbered
<1>3. TableOf(k) = table /\ k \notin KeysIn(table, keys)
  <2> HIDE DEF n
  <2> QED
    BY <1>1, <1>2 DEF TableOf
<1>4. k \notin keys
  BY <1>3 DEF KeysIn
<1>5. IsFiniteSet(keys \cup {k})
  BY FS_AddElement
<1>6. KeysIn(table, keys \cup {k}) = KeysIn(table, keys) \cup {k}
  BY <1>3 DEF KeysIn
<1>7. Cardinality(KeysIn(table, keys \cup {k})) = n + 1
  <2> DEFINE S == KeysIn(table, keys)
  <2>1. IsFiniteSet(S) /\ k \notin S /\ Cardinality(S) = n
    BY <1>1, <1>3
  <2> HIDE DEF S, n
  <2>2. Cardinality(S \cup {k}) = n + 1
    BY <2>1, FS_AddElement
  <2> QED
    BY <1>6, <2>2 DEF S
<1>8. KeysIn(table, keys \cup {k}) = {table} \X (1..(n + 1))
  <2> HIDE DEF n
  <2>1. 1..(n + 1) = (1..n) \cup {n + 1} /\ 1 + n = n + 1
    BY <1>1
  <2>2. {table} \X (1..(n + 1)) = ({table} \X (1..n)) \cup {<<table, n + 1>>}
    BY <2>1
  <2> QED
    BY <1>2, <1>6, <2>1, <2>2
<1>9. ASSUME NEW t \in Tables, t # table
      PROVE  KeysIn(t, keys \cup {k}) = KeysIn(t, keys)
  BY <1>3, <1>9 DEF KeysIn
<1>10. Numbered(keys \cup {k})
  <2> SUFFICES ASSUME NEW t \in Tables
               PROVE  KeysIn(t, keys \cup {k})
                        = {t} \X (1..Cardinality(KeysIn(t, keys \cup {k})))
    BY DEF Numbered
  <2>1. CASE t = table
    BY <1>7, <1>8, <2>1
  <2>2. CASE t # table
    BY <1>9, <2>2 DEF Numbered
  <2> QED
    BY <2>1, <2>2
<1> QED
  BY <1>4, <1>5, <1>10

\* A new key is not one that was in use.
LEMMA FreshIsNew ==
    ASSUME KeysInv, NEW table \in Tables
    PROVE  /\ Fresh(table) \notin Known
           /\ IsFiniteSet(Known \cup {Fresh(table)})
           /\ Numbered(Known \cup {Fresh(table)})
<1>1. Fresh(table) = <<table, 1 + Cardinality(KeysIn(table, Known))>>
  BY DEF Fresh, Known
<1> QED
  BY <1>1, NumberedGrows DEF KeysInv

\* What a commit leaves of the requests under way, and of the keys.
LEMMA CommitLeaves ==
    ASSUME NEW db, NEW left \in SUBSET saves, NEW deleting,
           Commit(db, left, deleting)
    PROVE  /\ \A x \in saves' :
                 \E w \in left :
                    /\ x.by = w.by /\ x.key = w.key /\ x.row = w.row
                    /\ x.asked = w.asked /\ x.number = w.number
                    /\ ~x.stale => ~w.stale /\ SameAt(db, w.key)
           /\ \A w \in left : \E x \in saves' : x.number = w.number
           /\ rows' = db /\ Known' = Known \cup DOMAIN db
<1>1. ASSUME NEW x \in saves'
      PROVE  \E w \in left :
                /\ x.by = w.by /\ x.key = w.key /\ x.row = w.row
                /\ x.asked = w.asked /\ x.number = w.number
                /\ ~x.stale => ~w.stale /\ SameAt(db, w.key)
  <2>1. PICK w \in left : x = Saver(w.number, w.by, w.key, w.row, w.asked,
                                    w.stale \/ ~SameAt(db, w.key))
    BY <1>1 DEF Commit
  <2>2. /\ x.by = w.by /\ x.key = w.key /\ x.row = w.row
        /\ x.asked = w.asked /\ x.number = w.number
        /\ x.stale = (w.stale \/ ~SameAt(db, w.key))
    BY <2>1 DEF Saver
  <2> QED
    BY <2>2
<1>2. rows' = db /\ Known' = Known \cup DOMAIN db
  BY DEF Commit, Known
<1>3. ASSUME NEW w \in left PROVE \E x \in saves' : x.number = w.number
  <2> DEFINE x == Saver(w.number, w.by, w.key, w.row, w.asked,
                        w.stale \/ ~SameAt(db, w.key))
  <2>1. x \in saves'
    BY DEF Commit
  <2>2. x.number = w.number
    BY DEF Saver
  <2> QED
    BY <2>1, <2>2
<1> QED
  BY <1>1, <1>2, <1>3

\* A commit whose keys were known, but for a new one, keeps the keys in order.
LEMMA CommitKeepsKeys ==
    ASSUME KeysInv, NEW db, NEW left \in SUBSET saves, NEW deleting,
           Commit(db, left, deleting),
           \/ DOMAIN db \subseteq Known
           \/ \E table \in Tables : DOMAIN db = DOMAIN rows \cup {Fresh(table)}
    PROVE  KeysInv'
<1>1. Known' = Known \cup DOMAIN db
  BY CommitLeaves
<1>2. \A x \in saves' :
         \/ x.by = "trigger" /\ x.key = Null
         \/ x.by \in {"edit", "cancel", "decide", "approve"} /\ x.key \in Known'
  <2> SUFFICES ASSUME NEW x \in saves'
               PROVE  \/ x.by = "trigger" /\ x.key = Null
                      \/ /\ x.by \in {"edit", "cancel", "decide", "approve"}
                         /\ x.key \in Known'
    OBVIOUS
  <2>1. PICK w \in left : x.by = w.by /\ x.key = w.key
    BY CommitLeaves
  <2> QED
    BY <1>1, <2>1 DEF KeysInv
<1>3. CASE DOMAIN db \subseteq Known
  BY <1>1, <1>2, <1>3 DEF KeysInv
<1>4. ASSUME NEW table \in Tables, DOMAIN db = DOMAIN rows \cup {Fresh(table)}
      PROVE  KeysInv'
  <2>1. Known' = Known \cup {Fresh(table)}
    BY <1>1, <1>4 DEF Known
  <2>2. IsFiniteSet(Known') /\ Numbered(Known')
    BY <2>1, FreshIsNew
  <2>3. \A k \in Known' : TableOf(k) \in Tables
    BY <2>1, FreshTable DEF KeysInv
  <2> QED
    BY <1>2, <2>2, <2>3 DEF KeysInv
<1> QED
  BY <1>3, <1>4

\* Every step keeps the keys in order.
LEMMA StepKeepsKeys ==
    RecordsInv /\ KeysInv /\ [RecordsNext]_recordVars => KeysInv'
<1> SUFFICES ASSUME RecordsInv, KeysInv, [RecordsNext]_recordVars
             PROVE  KeysInv'
  OBVIOUS
<1>1. CASE Rests
  <2>1. Known' = Known
    BY <1>1 DEF Rests, Known
  <2> QED
    BY <1>1, <2>1 DEF Rests, KeysInv
<1>2. ASSUME NEW by, NEW k, NEW row, NEW asked, Reads(by, k, row, asked)
      PROVE  KeysInv'
  <2> DEFINE w == Saver(requests + 1, by, k, row, asked, FALSE)
  <2>1. Known' = Known /\ saves' = saves \cup {w}
    BY <1>2 DEF Reads, Saving, Known
  <2>2. w.by = by /\ w.key = k
    BY DEF Saver
  <2>3. \/ by = "trigger" /\ k = Null
        \/ by \in {"edit", "cancel", "decide", "approve"} /\ k \in Known
    BY <1>2 DEF Reads, Known
  <2> HIDE DEF w
  <2> QED
    BY <2>1, <2>2, <2>3 DEF KeysInv
<1>3. ASSUME NEW db, NEW deleting, Stores(db, deleting) PROVE KeysInv'
  BY <1>3, CommitKeepsKeys DEF Stores, Known
<1>4. ASSUME NEW w \in saves, NEW db, Saves(w, db) PROVE KeysInv'
  <2>1. Commit(db, saves \ {w}, deletes)
    BY <1>4 DEF Saves
  <2>2. CASE w.by = "trigger" /\ DOMAIN db = DOMAIN rows \cup {Fresh("instance")}
    BY <2>1, <2>2, CommitKeepsKeys DEF Tables
  <2>3. CASE w.by \in {"edit", "decide", "approve"} /\ db = WholeRow(w)
    <3>1. w.key \in Known /\ DOMAIN db = DOMAIN rows \cup {w.key}
      BY <2>3 DEF KeysInv, WholeRow, Put
    <3> QED
      BY <2>1, <3>1, CommitKeepsKeys DEF Known
  <2>4. CASE w.key \in DOMAIN rows /\ db = NamedColumns(w)
    <3>1. DOMAIN db = DOMAIN rows
      BY <2>4 DEF NamedColumns, Put
    <3> QED
      BY <2>1, <3>1, CommitKeepsKeys DEF Known
  <2> QED
    BY <1>4, <2>2, <2>3, <2>4 DEF Saves
<1> QED
  BY <1>1, <1>2, <1>3, <1>4, StepShape

\* The invariants of the rows and of the keys.
LEMMA RecordsInvariant == RecordsSpec => [](RecordsInv /\ KeysInv)
<1>1. RecordsInit => KeysInv
  <2> SUFFICES ASSUME RecordsInit PROVE KeysInv
    OBVIOUS
  <2>1. Known = DOMAIN rows /\ saves = {}
    BY DEF RecordsInit, Known
  <2>2. IsFiniteSet(DOMAIN rows) /\ Numbered(DOMAIN rows) /\ RowsTyped(rows)
    BY RecordsAssumption DEF RecordsInit
  <2> QED
    BY <2>1, <2>2 DEF KeysInv, RowsTyped
<1> QED
  BY <1>1, InitSound, StepKeeps, StepKeepsKeys, PTL DEF RecordsSpec

\* What OnlySavesRevive says of a step.
Revives ==
    \A k \in buried \ DOMAIN rows :
        k \in DOMAIN rows' =>
            \E w \in saves :
                w.key = k /\ w.by \in {"edit", "decide", "approve"}

LEMMA StepRevives ==
    RecordsInv /\ KeysInv /\ [RecordsNext]_recordVars => Revives
<1> SUFFICES ASSUME RecordsInv, KeysInv, [RecordsNext]_recordVars,
                    NEW k \in buried \ DOMAIN rows, k \in DOMAIN rows'
             PROVE  \E w \in saves :
                       w.key = k /\ w.by \in {"edit", "decide", "approve"}
  BY DEF Revives
<1>1. \A table \in Tables : k # Fresh(table)
  BY FreshIsNew DEF Known
<1>2. CASE Rests
  BY <1>2 DEF Rests
<1>3. ASSUME NEW by, NEW key, NEW row, NEW asked, Reads(by, key, row, asked)
      PROVE  FALSE
  BY <1>3 DEF Reads, Saving
<1>4. ASSUME NEW db, NEW deleting, Stores(db, deleting) PROVE FALSE
  BY <1>1, <1>4 DEF Stores, Commit
<1>5. ASSUME NEW w \in saves, NEW db, Saves(w, db)
      PROVE  w.key = k /\ w.by \in {"edit", "decide", "approve"}
  <2>1. k \in DOMAIN db /\ "instance" \in Tables
    BY <1>5 DEF Saves, Commit, Tables
  <2>2. DOMAIN WholeRow(w) = DOMAIN rows \cup {w.key}
    BY DEF WholeRow, Put
  <2>3. DOMAIN NamedColumns(w) = DOMAIN rows \cup {w.key}
    BY DEF NamedColumns, Put
  <2> QED
    BY <1>1, <1>5, <2>1, <2>2, <2>3 DEF Saves
<1> QED
  BY <1>2, <1>3, <1>4, <1>5, StepShape

\* A deleted row comes back only by the save of an edit of it, or of a
\* decision on it: neither a new row nor a cancellation takes its key.
THEOREM OnlySavesBringBack == RecordsSpec => OnlySavesRevive
<1>1. RecordsSpec => [][Revives]_recordVars
  BY StepRevives, RecordsInvariant, PTL DEF RecordsSpec
<1> QED
  BY <1>1 DEF OnlySavesRevive, Revives

(***************************************************************************)
(* What a save writes over.                                                *)
(***************************************************************************)
\* The columns a request is not about are in its row as they are stored, until
\* another commit touches the row.
UntouchedInv ==
    \A w \in saves :
        w.by # "trigger" /\ ~w.stale =>
            /\ w.key \in DOMAIN rows
            /\ w.by = "cancel" => "status" \in w.asked
            /\ \A c \in ColumnsOf(w.row) \ w.asked :
                  c \in ColumnsOf(rows[w.key]) /\ Cell(w.row, c) = Cell(rows[w.key], c)

\* Assigning some columns leaves the others.
LEMMA AssignCells ==
    ASSUME NEW row, NEW ref, NEW val, NEW c, c \notin DOMAIN ref \cup DOMAIN val
    PROVE  /\ c \in ColumnsOf(Assign(row, ref, val)) <=> c \in ColumnsOf(row)
           /\ c \in ColumnsOf(row) =>
                 Cell(Assign(row, ref, val), c) = Cell(row, c)
<1> DEFINE new == Assign(row, ref, val)
<1>1. /\ new.ref = [x \in DOMAIN ref \cup DOMAIN row.ref |->
                       IF x \in DOMAIN ref THEN ref[x] ELSE row.ref[x]]
      /\ new.val = [x \in DOMAIN val \cup DOMAIN row.val |->
                       IF x \in DOMAIN val THEN val[x] ELSE row.val[x]]
  BY DEF Assign, Over
<1>2. /\ DOMAIN new.ref = DOMAIN ref \cup DOMAIN row.ref
      /\ DOMAIN new.val = DOMAIN val \cup DOMAIN row.val
      /\ c \in DOMAIN row.ref => new.ref[c] = row.ref[c]
      /\ c \in DOMAIN row.val => new.val[c] = row.val[c]
  BY <1>1
<1> HIDE DEF new
<1>3. c \in ColumnsOf(new) <=> c \in ColumnsOf(row)
  BY <1>2 DEF ColumnsOf
<1>4. ASSUME c \in ColumnsOf(row) PROVE Cell(new, c) = Cell(row, c)
  BY <1>2, <1>4 DEF ColumnsOf, Cell
<1> QED
  BY <1>3, <1>4 DEF new

\* A commit leaves the requests it does not touch as they are.
LEMMA CommitUntouched ==
    ASSUME UntouchedInv, NEW db, NEW left \in SUBSET saves, NEW deleting,
           Commit(db, left, deleting)
    PROVE  UntouchedInv'
<1> SUFFICES ASSUME NEW x \in saves', x.by # "trigger", ~x.stale
             PROVE  /\ x.key \in DOMAIN rows'
                    /\ x.by = "cancel" => "status" \in x.asked
                    /\ \A c \in ColumnsOf(x.row) \ x.asked :
                          /\ c \in ColumnsOf(rows'[x.key])
                          /\ Cell(x.row, c) = Cell(rows'[x.key], c)
  BY DEF UntouchedInv, ColumnsOf, Cell
<1>1. /\ rows' = db
      /\ \A y \in saves' :
            \E w \in left :
               /\ y.by = w.by /\ y.key = w.key /\ y.row = w.row
               /\ y.asked = w.asked /\ y.number = w.number
               /\ ~y.stale => ~w.stale /\ SameAt(db, w.key)
  BY CommitLeaves
<1>w. PICK w \in left :
         /\ x.by = w.by /\ x.key = w.key /\ x.row = w.row
         /\ x.asked = w.asked /\ x.number = w.number
         /\ ~x.stale => ~w.stale /\ SameAt(db, w.key)
  BY <1>1, Zenon
<1>2. /\ w.key \in DOMAIN rows
      /\ w.by = "cancel" => "status" \in w.asked
      /\ \A c \in ColumnsOf(w.row) \ w.asked :
            /\ c \in ColumnsOf(rows[w.key])
            /\ Cell(w.row, c) = Cell(rows[w.key], c)
  BY <1>w DEF UntouchedInv
<1>3. w.key \in DOMAIN rows' /\ rows'[w.key] = rows[w.key]
  BY <1>1, <1>w, <1>2 DEF SameAt
<1> QED
  BY <1>w, <1>2, <1>3

\* Every step keeps the invariant.
LEMMA StepUntouched ==
    RecordsInv /\ UntouchedInv /\ [RecordsNext]_recordVars
        => UntouchedInv'
<1> SUFFICES ASSUME RecordsInv, UntouchedInv,
                    [RecordsNext]_recordVars
             PROVE  UntouchedInv'
  OBVIOUS
<1>1. CASE Rests
  BY <1>1 DEF Rests, UntouchedInv
<1>2. ASSUME NEW by, NEW k, NEW row, NEW asked, Reads(by, k, row, asked)
      PROVE  UntouchedInv'
  <2> DEFINE w == Saver(requests + 1, by, k, row, asked, FALSE)
  <2>1. rows' = rows /\ saves' = saves \cup {w}
    BY <1>2 DEF Reads, Saving
  <2>2. w.by = by /\ w.key = k /\ w.row = row /\ w.asked = asked
    BY DEF Saver
  <2>3. CASE by = "trigger"
    <3> HIDE DEF w
    <3> QED
      BY <2>1, <2>2, <2>3 DEF UntouchedInv
  <2>4. CASE by # "trigger"
    <3>1. k \in DOMAIN rows /\ (by = "cancel" => "status" \in asked)
      BY <1>2, <2>4 DEF Reads
    <3>2. PICK ref, val : /\ row = Assign(rows[k], ref, val)
                          /\ DOMAIN ref \cup DOMAIN val \subseteq asked
      BY <1>2, <2>4 DEF Reads
    <3>3. ASSUME NEW c \in ColumnsOf(row) \ asked
          PROVE  c \in ColumnsOf(rows[k]) /\ Cell(row, c) = Cell(rows[k], c)
      BY <3>2, <3>3, AssignCells
    <3> HIDE DEF w
    <3> QED
      BY <2>1, <2>2, <3>1, <3>3 DEF UntouchedInv
  <2> QED
    BY <2>3, <2>4
<1>3. ASSUME NEW db, NEW deleting, Stores(db, deleting) PROVE UntouchedInv'
  BY <1>3, CommitUntouched DEF Stores
<1>4. ASSUME NEW w \in saves, NEW db, Saves(w, db) PROVE UntouchedInv'
  BY <1>4, CommitUntouched DEF Saves
<1> QED
  BY <1>1, <1>2, <1>3, <1>4, StepShape

\* What the commit of a request that nobody interfered with leaves as it was.
LEMMA SaveKeepsColumns ==
    ASSUME UntouchedInv, KeysInv, NEW w \in saves, NEW db, Saves(w, db),
           w.key \in DOMAIN rows, ~w.stale
    PROVE  /\ w.key \in DOMAIN rows'
           /\ \A c \in ColumnsOf(w.row) \ w.asked :
                 Cell(rows'[w.key], c) = Cell(rows[w.key], c)
<1>1. rows' = db /\ w.by # "trigger"
  <2>1. TableOf(w.key) # "none"
    BY DEF KeysInv, Known, Tables
  <2> QED
    BY <2>1 DEF Saves, Commit, KeysInv, Null, TableOf
<1>2. /\ w.by = "cancel" => "status" \in w.asked
      /\ \A c \in ColumnsOf(w.row) \ w.asked :
            /\ c \in ColumnsOf(rows[w.key])
            /\ Cell(w.row, c) = Cell(rows[w.key], c)
  BY <1>1 DEF UntouchedInv
<1>3. CASE db = WholeRow(w)
  <2>1. w.key \in DOMAIN db /\ db[w.key] = w.row
    BY <1>3 DEF WholeRow, Put
  <2> QED
    BY <1>1, <1>2, <2>1
<1>4. CASE w.by = "cancel" /\ db = NamedColumns(w)
  <2> DEFINE val == [status |-> w.row.val.status]
  <2>1. w.key \in DOMAIN db /\ db[w.key] = Assign(rows[w.key], NoColumns, val)
    BY <1>4 DEF NamedColumns, Put
  <2>2. DOMAIN NoColumns \cup DOMAIN val = {"status"}
    BY DEF NoColumns
  <2> HIDE DEF val
  <2>3. ASSUME NEW c \in ColumnsOf(w.row) \ w.asked
        PROVE  Cell(db[w.key], c) = Cell(rows[w.key], c)
    BY <1>2, <1>4, <2>1, <2>2, <2>3, AssignCells
  <2> QED
    BY <1>1, <2>1, <2>3
<1> QED
  BY <1>1, <1>3, <1>4 DEF Saves

\* What QuietSavesKeepColumns says of a step.
KeepsColumns ==
    \A w \in saves :
        /\ \A x \in saves' : x.number # w.number
        /\ w.key \in DOMAIN rows /\ ~w.stale
        => /\ w.key \in DOMAIN rows'
           /\ \A c \in ColumnsOf(w.row) \ w.asked :
                 Cell(rows'[w.key], c) = Cell(rows[w.key], c)

LEMMA StepKeepsColumns ==
    RecordsInv /\ KeysInv /\ UntouchedInv /\ [RecordsNext]_recordVars
        => KeepsColumns
<1> SUFFICES ASSUME RecordsInv, KeysInv, UntouchedInv,
                    [RecordsNext]_recordVars,
                    NEW w \in saves, \A x \in saves' : x.number # w.number,
                    w.key \in DOMAIN rows, ~w.stale
             PROVE  /\ w.key \in DOMAIN rows'
                    /\ \A c \in ColumnsOf(w.row) \ w.asked :
                          Cell(rows'[w.key], c) = Cell(rows[w.key], c)
  BY DEF KeepsColumns
<1>1. CASE rows' = rows
  BY <1>1
<1>2. CASE Rests
  BY <1>1, <1>2 DEF Rests
<1>3. ASSUME NEW by, NEW k, NEW row, NEW asked, Reads(by, k, row, asked)
      PROVE  rows' = rows
  BY <1>3 DEF Reads, Saving
<1>4. ASSUME NEW db, NEW deleting, Stores(db, deleting) PROVE FALSE
  BY <1>4, CommitLeaves DEF Stores
<1>5. ASSUME NEW v \in saves, NEW db, Saves(v, db) PROVE v = w
  <2>1. Commit(db, saves \ {v}, deletes)
    BY <1>5 DEF Saves
  <2>2. \A x \in saves \ {v} : \E y \in saves' : y.number = x.number
    BY <2>1, CommitLeaves
  <2> QED
    BY <2>2
<1> QED
  BY <1>1, <1>2, <1>3, <1>4, <1>5, SaveKeepsColumns, StepShape

\* A save changes a column it is not about only in a row that somebody else
\* has written since the request read it.
THEOREM QuietSaves == RecordsSpec => QuietSavesKeepColumns
<1>1. RecordsInit => UntouchedInv
  BY DEF RecordsInit, UntouchedInv
<1>2. RecordsSpec => [][KeepsColumns]_recordVars
  BY <1>1, StepKeepsColumns, RecordsInvariant, StepUntouched, PTL DEF RecordsSpec
<1> QED
  BY <1>2 DEF QuietSavesKeepColumns, KeepsColumns

(***************************************************************************)
(* The dashboard's three counts.                                           *)
(***************************************************************************)
\* What the queries made so far have counted is still so, unless an instance
\* changed since the first.
PageInv ==
    /\ page \in [at : {"closed", "total", "running", "shown"}, total : Nat,
                 running : Nat, completed : Nat, changed : BOOLEAN]
    /\ ~page.changed =>
          /\ page.at \in {"total", "running"} =>
                page.total = Cardinality(Stored("instance"))
          /\ page.at = "running" => page.running = Count({"running"})
          /\ page.at = "shown" => page.running + page.completed <= page.total

\* The instances of two statuses are apart, and among all instances.
LEMMA CountsApart ==
    ASSUME KeysInv
    PROVE  /\ Cardinality(Stored("instance")) \in Nat
           /\ Count({"running"}) \in Nat /\ Count({"completed"}) \in Nat
           /\ Count({"running"}) + Count({"completed"})
                 <= Cardinality(Stored("instance"))
<1> DEFINE All == Stored("instance")
           Some(s) == {i \in All : rows[i].val.status = s}
<1>1. IsFiniteSet(All)
  <2>1. All \subseteq Known
    BY DEF Stored, Known
  <2> QED
    BY <2>1, FS_Subset DEF KeysInv
<1>2. /\ Count({"running"}) = Cardinality(Some("running"))
      /\ Count({"completed"}) = Cardinality(Some("completed"))
  <2>1. ASSUME NEW s
        PROVE  {i \in Stored("instance") : rows[i].val.status \in {s}} = Some(s)
    OBVIOUS
  <2> QED
    BY <2>1 DEF Count
<1>3. /\ Some("running") \subseteq All /\ Some("completed") \subseteq All
      /\ Some("running") \cup Some("completed") \subseteq All
      /\ Some("running") \cap Some("completed") = {}
  OBVIOUS
<1> HIDE DEF All, Some
<1>4. IsFiniteSet(Some("running")) /\ IsFiniteSet(Some("completed"))
  BY <1>1, <1>3, FS_Subset
<1>5. Cardinality(Some("running") \cup Some("completed"))
         = Cardinality(Some("running")) + Cardinality(Some("completed"))
  <2>1. Cardinality(Some("running") \cup Some("completed"))
           = Cardinality(Some("running")) + Cardinality(Some("completed"))
                - Cardinality(Some("running") \cap Some("completed"))
    BY <1>4, FS_Union
  <2>2. Cardinality(Some("running") \cap Some("completed")) = 0
    <3>1. Cardinality({}) = 0
      BY FS_EmptySet
    <3> QED
      BY <1>3, <3>1
  <2>3. /\ Cardinality(Some("running")) \in Nat
        /\ Cardinality(Some("completed")) \in Nat
    BY <1>4, FS_CardinalityType
  <2> QED
    BY <2>1, <2>2, <2>3
<1>6. Cardinality(Some("running") \cup Some("completed")) <= Cardinality(All)
  BY <1>1, <1>3, FS_Subset
<1>7. /\ Cardinality(All) \in Nat /\ Cardinality(Some("running")) \in Nat
      /\ Cardinality(Some("completed")) \in Nat
  BY <1>1, <1>4, FS_CardinalityType
<1> QED
  BY <1>2, <1>5, <1>6, <1>7 DEF All

\* A commit leaves the counts as they are, or marks the page.
LEMMA CommitCounts ==
    ASSUME PageInv, NEW db, NEW left, NEW deleting, Commit(db, left, deleting)
    PROVE  PageInv'
<1> DEFINE moved == /\ page.at \in {"total", "running"}
                    /\ \E k \in DOMAIN db \cup DOMAIN rows :
                          TableOf(k) = "instance" /\ ~SameAt(db, k)
<1>1. rows' = db /\ page' = [page EXCEPT !.changed = @ \/ moved]
  BY DEF Commit
<1>2. CASE moved
  <2>1. page' = [page EXCEPT !.changed = TRUE]
    BY <1>1, <1>2
  <2> QED
    BY <2>1 DEF PageInv
<1>3. CASE ~moved
  <2>1. page' = page
    <3>1. page' = [page EXCEPT !.changed = page.changed]
      <4>1. page.changed \in BOOLEAN
        BY DEF PageInv
      <4>2. (page.changed \/ moved) = page.changed
        BY <1>3, <4>1
      <4> QED
        BY <1>1, <4>2
    <3> HIDE DEF moved
    <3> QED
      BY <3>1 DEF PageInv
  <2>2. CASE page.at \notin {"total", "running"}
    BY <2>1, <2>2 DEF PageInv
  <2>3. CASE page.at \in {"total", "running"}
    <3>1. \A k \in DOMAIN db \cup DOMAIN rows :
             TableOf(k) = "instance" => SameAt(db, k)
      BY <1>3, <2>3
    <3>2. Stored("instance")' = Stored("instance")
      BY <1>1, <3>1 DEF Stored, SameAt
    <3>3. \A i \in Stored("instance") : rows'[i] = rows[i]
      BY <1>1, <3>1 DEF Stored, SameAt
    <3>4. Count({"running"})' = Count({"running"})
      <4>1. {i \in Stored("instance")' : rows'[i].val.status \in {"running"}}
               = {i \in Stored("instance") : rows[i].val.status \in {"running"}}
        BY <3>2, <3>3
      <4> QED
        BY <4>1 DEF Count
    <3> QED
      BY <2>1, <3>2, <3>4 DEF PageInv
  <2> QED
    BY <2>2, <2>3
<1> QED
  BY <1>2, <1>3

\* Every step keeps the invariant.
LEMMA StepCounts ==
    RecordsInv /\ KeysInv /\ PageInv /\ [RecordsNext]_recordVars
        => PageInv'
<1> SUFFICES ASSUME RecordsInv, KeysInv, PageInv,
                    [RecordsNext]_recordVars
             PROVE  PageInv'
  OBVIOUS
<1>1. ASSUME rows' = rows, page' = page PROVE PageInv'
  BY <1>1 DEF PageInv, Stored, Count
<1>2. ASSUME rows' = rows,
             CountTotal \/ CountRunning \/ CountCompleted \/ ClosePage
      PROVE  PageInv'
  <2>1. Stored("instance")' = Stored("instance")
    BY <1>2 DEF Stored
  <2>2. Count({"running"})' = Count({"running"})
    BY <1>2, <2>1 DEF Count
  <2>3. CASE CountTotal
    <3>1. page' = [at |-> "total", total |-> Cardinality(Stored("instance")),
                   running |-> 0, completed |-> 0, changed |-> FALSE]
      BY <2>3 DEF CountTotal, NoPage
    <3> QED
      BY <2>1, <3>1, CountsApart DEF PageInv
  <2>4. CASE CountRunning
    BY <2>1, <2>2, <2>4, CountsApart DEF CountRunning, PageInv
  <2>5. CASE CountCompleted
    BY <2>5, CountsApart DEF CountCompleted, PageInv
  <2>6. CASE ClosePage
    BY <2>6 DEF ClosePage, NoPage, PageInv
  <2> QED
    BY <1>2, <2>3, <2>4, <2>5, <2>6
<1>3. CASE Rests
  BY <1>1, <1>2, <1>3 DEF Rests
<1>4. ASSUME NEW by, NEW k, NEW row, NEW asked, Reads(by, k, row, asked)
      PROVE  PageInv'
  BY <1>1, <1>4 DEF Reads, Saving
<1>5. ASSUME NEW db, NEW deleting, Stores(db, deleting) PROVE PageInv'
  BY <1>5, CommitCounts DEF Stores
<1>6. ASSUME NEW w \in saves, NEW db, Saves(w, db) PROVE PageInv'
  BY <1>6, CommitCounts DEF Saves
<1> QED
  BY <1>3, <1>4, <1>5, <1>6, StepShape

LEMMA PageShows == PageInv => CountsAddUp
  BY DEF PageInv, CountsAddUp

\* The dashboard's counts add up unless an instance was added, removed or
\* changed between its queries, for any number of instances.
THEOREM QuietCounts == RecordsSpec => []CountsAddUp
<1>1. RecordsInit => PageInv
  BY DEF RecordsInit, NoPage, PageInv
<1> QED
  BY <1>1, PageShows, StepCounts, RecordsInvariant, PTL DEF RecordsSpec

(***************************************************************************)
(* The types of the rows and of what is under way.                         *)
(***************************************************************************)
\* Every row has its model's columns.
Filled(db) == \A k \in DOMAIN db : RowOf(TableOf(k), db[k])

\* A request under way saves a row of its model, about columns of the row, and
\* a decision on a task is one that can be posted.
SaveTyped(w) ==
    /\ RowOf(Target(w), w.row)
    /\ w.by = "cancel" => TableOf(w.key) = "instance"
    /\ w.asked \subseteq ColumnsOf(w.row)
    /\ w.number \in 1..MaxRequests
    /\ w.by \in {"decide", "approve"} => w.row.val.status \in Posts

\* What the engine is or was told of was stored once.
ToldTyped(under, instances, decisions, keys) ==
    /\ \A c \in under :
          c.key \in keys /\ (TableOf(c.key) = "task" => c.decision \in Posts)
    /\ instances \subseteq keys
    /\ \A v \in decisions : v.task \in keys /\ v.decision \in Posts

TypeInv ==
    /\ Filled(rows)
    /\ \A w \in saves : SaveTyped(w)
    /\ \A d \in deletes : d.doomed \subseteq Known
    /\ ToldTyped(calls, called, resumed \cup lost, Known)
    /\ requests \in 0..MaxRequests /\ work \in 0..MaxWork

\* Keys that were in use are keys of their tables.
LEMMA KnownKeys ==
    ASSUME KeysInv, NEW k \in Known
    PROVE  TableOf(k) \in Tables /\ k \in KeysOf(TableOf(k))
<1> DEFINE table == TableOf(k)
           n == Cardinality(KeysIn(table, Known))
<1>1. table \in Tables
  BY DEF KeysInv
<1>2. k \in KeysIn(table, Known) /\ KeysIn(table, Known) = {table} \X (1..n)
  BY <1>1 DEF KeysInv, Numbered, KeysIn
<1>3. IsFiniteSet(KeysIn(table, Known))
  BY FS_Subset DEF KeysInv, KeysIn
<1>4. n \in Nat
  BY <1>3, FS_CardinalityType
<1>5. k \in {table} \X (1..n)
  BY <1>2
<1>6. 1..n \subseteq Nat \ {0}
  BY <1>4
<1> HIDE DEF n, table
<1>7. k \in KeysOf(table)
  BY <1>5, <1>6 DEF KeysOf
<1> QED
  BY <1>1, <1>7 DEF table

\* Assigning columns values they may hold.
LEMMA OverFills ==
    ASSUME NEW columns, NEW old, Fills(old, columns), NEW new, Suits(new, columns)
    PROVE  Fills(Over(new, old), columns)
<1>1. /\ DOMAIN Over(new, old) = DOMAIN new \cup DOMAIN old
      /\ \A c \in DOMAIN new \cup DOMAIN old :
            Over(new, old)[c] = IF c \in DOMAIN new THEN new[c] ELSE old[c]
  BY DEF Over
<1>2. \A c \in DOMAIN new : c \in DOMAIN columns /\ new[c] \in columns[c]
  BY DEF Suits
<1>3. /\ \A c \in DOMAIN old : c \in DOMAIN columns /\ old[c] \in columns[c]
      /\ DOMAIN columns \subseteq DOMAIN old
  BY DEF Fills, Suits
<1> QED
  BY <1>1, <1>2, <1>3 DEF Fills, Suits

LEMMA AssignRow ==
    ASSUME NEW table, NEW row, RowOf(table, row), NEW ref, NEW val,
           Suits(ref, ModelOf(table).ref), Suits(val, ModelOf(table).val)
    PROVE  RowOf(table, Assign(row, ref, val))
<1>1. /\ Fills(Over(ref, row.ref), ModelOf(table).ref)
      /\ Fills(Over(val, row.val), ModelOf(table).val)
  BY OverFills DEF RowOf
<1>2. /\ Assign(row, ref, val).ref = Over(ref, row.ref)
      /\ Assign(row, ref, val).val = Over(val, row.val)
  BY DEF Assign
<1> QED
  BY <1>1, <1>2 DEF RowOf

\* Assigning a status to a row of a table that has one.
LEMMA AssignStatus ==
    ASSUME NEW table, NEW row, RowOf(table, row), NEW status,
           \/ table = "instance" /\ status \in WorkflowInstance.val.status
           \/ table = "step" /\ status \in StepExecution.val.status
           \/ table = "task" /\ status \in ApprovalTask.val.status
    PROVE  RowOf(table, Assign(row, NoColumns, [status |-> status]))
<1>1. Suits(NoColumns, ModelOf(table).ref)
  BY DEF Suits, NoColumns
<1>2. Suits([status |-> status], ModelOf(table).val)
  BY Models DEF Suits, WorkflowInstance, StepExecution, ApprovalTask
<1> QED
  BY <1>1, <1>2, AssignRow

\* A nullable link may be null.
LEMMA NullableLinks ==
    ASSUME NEW table \in Tables, NEW c \in DOMAIN ModelOf(table).ref, Nullable(c)
    PROVE  Null \in ModelOf(table).ref[c]
<1>1. \A t : Null \in OrNull(t)
  BY DEF OrNull
<1>2. CASE table \in {"user", "tenant"}
  BY <1>2, Models DEF User, Tenant, NoColumns
<1>3. CASE table \in {"membership", "audit"}
  BY <1>1, <1>3, Models DEF TenantMembership, AuditLog, Nullable
<1>4. CASE table \in {"definition", "instance"}
  BY <1>1, <1>4, Models DEF WorkflowDefinition, WorkflowInstance, Nullable
<1>5. CASE table \in {"step", "task"}
  BY <1>1, <1>5, Models DEF StepExecution, ApprovalTask, Nullable
<1> QED
  BY <1>2, <1>3, <1>4, <1>5 DEF Tables

LEMMA PutFilled ==
    ASSUME NEW db, Filled(db), NEW k, NEW row, RowOf(TableOf(k), row)
    PROVE  Filled(Put(db, k, row))
  BY DEF Filled, Put

\* What a delete() leaves has its model's columns.
LEMMA DeleteFilled ==
    ASSUME NEW db, Filled(db), \A k \in DOMAIN db : TableOf(k) \in Tables, NEW S
    PROVE  Filled(AfterDelete(db, S))
<1>1. SUFFICES ASSUME NEW k \in DOMAIN AfterDelete(db, S)
               PROVE  RowOf(TableOf(k), AfterDelete(db, S)[k])
  BY DEF Filled
<1>2. k \in DOMAIN db /\ AfterDelete(db, S)[k] = Unlinked(db[k], S)
  BY DEF AfterDelete
<1> DEFINE columns == ModelOf(TableOf(k)).ref
           old == db[k]
           new == Unlinked(old, S)
<1>3. Fills(old.ref, columns) /\ Fills(old.val, ModelOf(TableOf(k)).val)
  BY <1>2 DEF Filled, RowOf
<1>4. /\ new.val = old.val /\ DOMAIN new.ref = DOMAIN old.ref
      /\ \A c \in DOMAIN old.ref :
            new.ref[c] = IF Nullable(c) /\ old.ref[c] \in S THEN Null ELSE old.ref[c]
  BY DEF Unlinked
<1>5. \A c \in DOMAIN columns : Nullable(c) => Null \in columns[c]
  BY <1>2, NullableLinks
<1> HIDE DEF columns, old, new
<1>6. Fills(new.ref, columns)
  BY <1>3, <1>4, <1>5 DEF Fills, Suits
<1> QED
  BY <1>2, <1>3, <1>4, <1>6 DEF RowOf, columns, old, new

\* The instance of a stored step or task is stored.
LEMMA InstanceStored ==
    ASSUME RecordsInv, NEW k \in DOMAIN rows, TableOf(k) \in {"step", "task"}
    PROVE  /\ rows[k].ref.instance \in DOMAIN rows
           /\ TableOf(rows[k].ref.instance) = "instance"
<1>1. /\ Foreign("step", "instance", "instance") \in References
      /\ Foreign("task", "instance", "instance") \in References
  BY DEF References, WorkflowReferences
<1>2. LinkedRow(TableOf(k), rows[k]) /\ NoDangling(rows)
  BY DEF RecordsInv, Sound, Linked, Accepts
<1> QED
  BY <1>1, <1>2 DEF LinkedRow, NoDangling, Foreign, Nullable

\* The rows that a view or the engine puts together from stored keys.
LEMMA NewRows ==
    ASSUME RecordsInv, KeysInv, TypeInv
    PROVE  /\ \A d \in Stored("definition"), u \in Users :
                 RowOf("instance", Instance(rows[d].ref.tenant, d, u, "pending"))
           /\ \A i \in Stored("instance") :
                 /\ RowOf("step", [ref |-> [instance |-> i],
                                   val |-> [node_id |-> EngineNode,
                                            status |-> "in_progress"]])
                 /\ RowOf("task", [ref |-> [instance |-> i, step_execution |-> Null,
                                            assigned_to |-> Null, decision_by |-> Null],
                                   val |-> [status |-> "pending"]])
<1>1. \A table : \A k \in Stored(table) : k \in KeysOf(table)
  BY KnownKeys DEF Stored, Known
<1>2. Null \in OrNull("user") /\ Null \in OrNull("step")
  BY DEF OrNull
<1>3. ASSUME NEW d \in Stored("definition"), NEW u \in Users
      PROVE  RowOf("instance", Instance(rows[d].ref.tenant, d, u, "pending"))
  <2>1. RowOf("definition", rows[d])
    BY DEF TypeInv, Filled, Stored
  <2>2. rows[d].ref.tenant \in KeysOf("tenant")
    BY <2>1, Models DEF RowOf, Fills, Suits, WorkflowDefinition
  <2>3. u \in OrNull("user") /\ d \in KeysOf("definition")
    BY <1>1, <1>2 DEF Users, OrNull
  <2> QED
    BY <2>2, <2>3, Models DEF RowOf, Fills, Suits, Instance, WorkflowInstance
<1>4. ASSUME NEW i \in Stored("instance")
      PROVE  RowOf("step", [ref |-> [instance |-> i],
                            val |-> [node_id |-> EngineNode,
                                     status |-> "in_progress"]])
  BY <1>1, Models, EngineAssumption DEF RowOf, Fills, Suits, StepExecution
<1>5. ASSUME NEW i \in Stored("instance")
      PROVE  RowOf("task", [ref |-> [instance |-> i, step_execution |-> Null,
                                     assigned_to |-> Null, decision_by |-> Null],
                            val |-> [status |-> "pending"]])
  BY <1>1, <1>2, Models, RecordsAssumption DEF RowOf, Fills, Suits, ApprovalTask
<1> QED
  BY <1>3, <1>4, <1>5

\* A commit of filled rows.
LEMMA CommitTypes ==
    ASSUME TypeInv, NEW db, Filled(db),
           NEW left \in SUBSET saves, NEW deleting \in SUBSET deletes,
           Commit(db, left, deleting),
           ToldTyped(calls', called', resumed' \cup lost', Known \cup DOMAIN db),
           requests' \in 0..MaxRequests, work' \in 0..MaxWork
    PROVE  TypeInv'
<1>1. /\ \A x \in saves' :
            \E w \in left :
               /\ x.by = w.by /\ x.key = w.key /\ x.row = w.row
               /\ x.asked = w.asked /\ x.number = w.number
               /\ ~x.stale => ~w.stale /\ SameAt(db, w.key)
      /\ rows' = db /\ Known' = Known \cup DOMAIN db
  BY CommitLeaves
<1>2. ASSUME NEW x \in saves' PROVE SaveTyped(x)
  <2>1. PICK w \in left :
           /\ x.by = w.by /\ x.key = w.key /\ x.row = w.row
           /\ x.asked = w.asked /\ x.number = w.number
           /\ ~x.stale => ~w.stale /\ SameAt(db, w.key)
    BY <1>1, <1>2, Zenon
  <2>2. SaveTyped(w)
    BY DEF TypeInv
  <2> QED
    BY <2>1, <2>2 DEF SaveTyped, Target, ColumnsOf
<1>3. ASSUME NEW x \in deletes' PROVE x.doomed \subseteq Known'
  <2>1. PICK d \in deleting : x = Deleter(d.number, d.doomed, d.raced \/ Grown(db))
    BY <1>3 DEF Commit
  <2>2. x.doomed = d.doomed
    BY <2>1 DEF Deleter
  <2>3. d.doomed \subseteq Known
    BY DEF TypeInv
  <2> QED
    BY <1>1, <2>2, <2>3
<1>4. Filled(rows')
  BY <1>1
<1>5. ToldTyped(calls', called', resumed' \cup lost', Known')
  BY <1>1
<1>6. \A x \in saves' : SaveTyped(x)'
  BY <1>2 DEF SaveTyped, Target, ColumnsOf
<1> QED
  BY <1>3, <1>4, <1>5, <1>6 DEF TypeInv, Filled, ToldTyped

\* What was typed stays so with more keys.
LEMMA ToldLonger ==
    ASSUME NEW under, NEW instances, NEW decisions, NEW keys,
           ToldTyped(under, instances, decisions, keys),
           NEW more, keys \subseteq more
    PROVE  ToldTyped(under, instances, decisions, more)
  BY DEF ToldTyped

\* What leaves the rows alone, forgets requests and tells the engine nothing.
LEMMA RestTypes ==
    ASSUME TypeInv, rows' = rows, buried' = buried, saves' \subseteq saves,
           deletes' \subseteq deletes, UNCHANGED callVars,
           requests' \in 0..MaxRequests, work' = work
    PROVE  TypeInv'
<1>1. Known' = Known
  BY DEF Known
<1>2. \A w \in saves' : SaveTyped(w)'
  BY DEF TypeInv, SaveTyped, Target, ColumnsOf
<1> QED
  BY <1>1, <1>2 DEF TypeInv, Filled, ToldTyped

\* A request that has read a row and is about to save it.
LEMMA SavingTypes ==
    ASSUME TypeInv, NewRequest, NEW by, NEW k, NEW row, NEW asked,
           Saving(by, k, row, asked),
           RowOf(IF by = "trigger" THEN "instance" ELSE TableOf(k), row),
           by = "cancel" => TableOf(k) = "instance",
           by \in {"decide", "approve"} => row.val.status \in Posts,
           asked \subseteq ColumnsOf(row)
    PROVE  TypeInv'
<1> DEFINE w == Saver(requests + 1, by, k, row, asked, FALSE)
<1>1. /\ w.by = by /\ w.key = k /\ w.row = row /\ w.asked = asked
      /\ w.number = requests + 1
  BY DEF Saver
<1>2. /\ saves' = saves \cup {w} /\ UNCHANGED <<callVars, work>>
      /\ UNCHANGED <<rows, buried, deletes>>
  BY DEF Saving
<1>3. requests + 1 \in 1..MaxRequests /\ requests' \in 0..MaxRequests
  BY RecordsAssumption DEF NewRequest, TypeInv
<1> HIDE DEF w
<1>4. SaveTyped(w)
  BY <1>1, <1>3 DEF SaveTyped, Target
<1>5. \A x \in saves' : SaveTyped(x)'
  BY <1>2, <1>4 DEF TypeInv, SaveTyped, Target, ColumnsOf
<1>6. Known' = Known
  BY <1>2 DEF Known
<1> QED
  BY <1>2, <1>3, <1>5, <1>6 DEF TypeInv, Filled, ToldTyped

\* The columns of an assigned row.
LEMMA AssignColumns ==
    ASSUME NEW row, NEW ref, NEW val
    PROVE  DOMAIN ref \cup DOMAIN val \subseteq ColumnsOf(Assign(row, ref, val))
  BY DEF ColumnsOf, Assign, Over

\* The views' reads.
LEMMA ReadTypes ==
    ASSUME RecordsInv, KeysInv, TypeInv, NEW k \in DOMAIN rows, NEW u \in Users,
           NEW x \in Posts,
           \/ \E e \in Edits : EditRead(k, e)
           \/ TriggerRead(k, u) \/ CancelRead(k) \/ ApproveRead(k, x)
           \/ DecideRead(k, x, u)
    PROVE  TypeInv'
<1>1. RowOf(TableOf(k), rows[k])
  BY DEF TypeInv, Filled
<1>2. ASSUME NEW e \in Edits, EditRead(k, e) PROVE TypeInv'
  <2> DEFINE row == Assign(rows[k], e.ref, e.val)
  <2>1. /\ NewRequest /\ TableOf(k) = e.table
        /\ Saving("edit", k, row, ColumnsOf(e))
    BY <1>2 DEF EditRead
  <2>2. RowOf(TableOf(k), row)
    BY <1>1, <2>1, AssignRow, RecordsAssumption
  <2>3. ColumnsOf(e) \subseteq ColumnsOf(row)
    <3>1. DOMAIN e.ref \cup DOMAIN e.val \subseteq ColumnsOf(row)
      BY AssignColumns
    <3> HIDE DEF row
    <3> QED
      BY <3>1 DEF ColumnsOf
  <2> HIDE DEF row
  <2> QED
    BY <2>1, <2>2, <2>3, SavingTypes
<1>3. CASE TriggerRead(k, u)
  <2> DEFINE row == Instance(rows[k].ref.tenant, k, u, "pending")
  <2>1. /\ NewRequest /\ k \in Stored("definition")
        /\ Saving("trigger", Null, row, {})
    BY <1>3 DEF TriggerRead
  <2>2. RowOf("instance", row)
    BY <2>1, NewRows
  <2> HIDE DEF row
  <2> QED
    BY <2>1, <2>2, SavingTypes
<1>4. ASSUME NEW status
      PROVE  {"status"} \subseteq ColumnsOf(Assign(rows[k], NoColumns,
                                                   [status |-> status]))
  BY AssignColumns
<1>5. CASE CancelRead(k)
  <2> DEFINE row == Assign(rows[k], NoColumns, [status |-> "cancelled"])
  <2>1. /\ NewRequest /\ TableOf(k) = "instance"
        /\ Saving("cancel", k, row, {"status"})
    BY <1>5 DEF CancelRead, Stored
  <2>2. RowOf("instance", row)
    BY <1>1, <2>1, AssignStatus DEF WorkflowInstance
  <2>3. {"status"} \subseteq ColumnsOf(row)
    BY <1>4
  <2> HIDE DEF row
  <2> QED
    BY <2>1, <2>2, <2>3, SavingTypes
<1>6. x \in ApprovalTask.val.status
  BY RecordsAssumption DEF ApprovalTask
<1>7. CASE ApproveRead(k, x)
  <2> DEFINE row == Assign(rows[k], NoColumns, [status |-> x])
  <2>1. /\ NewRequest /\ TableOf(k) = "task"
        /\ Saving("approve", k, row, {"status"})
    BY <1>7 DEF ApproveRead, Stored
  <2>2. RowOf("task", row)
    BY <1>1, <1>6, <2>1, AssignStatus
  <2>3. {"status"} \subseteq ColumnsOf(row)
    BY <1>4
  <2>4. row.val.status = x
    BY DEF Assign, Over
  <2> HIDE DEF row
  <2> QED
    BY <2>1, <2>2, <2>3, <2>4, SavingTypes
<1>8. CASE DecideRead(k, x, u)
  <2> DEFINE row == Assign(rows[k], [decision_by |-> u], [status |-> x])
  <2>1. /\ NewRequest /\ TableOf(k) = "task"
        /\ Saving("decide", k, row, {"status", "decision_by"})
    BY <1>8 DEF DecideRead, Stored
  <2>2. u \in OrNull("user")
    BY KnownKeys DEF Users, OrNull, Stored, Known
  <2>3. /\ Suits([decision_by |-> u], ModelOf("task").ref)
        /\ Suits([status |-> x], ModelOf("task").val)
    BY <1>6, <2>2, Models DEF Suits, ApprovalTask
  <2>4. RowOf("task", row)
    BY <1>1, <2>1, <2>3, AssignRow
  <2>5. {"status", "decision_by"} \subseteq ColumnsOf(row)
    <3>1. DOMAIN [decision_by |-> u] \cup DOMAIN [status |-> x] \subseteq ColumnsOf(row)
      BY AssignColumns
    <3> HIDE DEF row
    <3> QED
      BY <3>1
  <2>6. row.val.status = x
    BY DEF Assign, Over
  <2> HIDE DEF row
  <2> QED
    BY <2>1, <2>4, <2>5, <2>6, SavingTypes
<1> QED
  BY <1>2, <1>3, <1>5, <1>7, <1>8

\* The writes of requests that have read a row.
LEMMA WriteTypes ==
    ASSUME RecordsInv, KeysInv, TypeInv, NEW w \in saves,
           EditWrite(w) \/ TriggerWrite(w) \/ CancelWrite(w) \/ DecideWrite(w)
             \/ WriteRefused(w)
    PROVE  TypeInv'
<1>1. SaveTyped(w) /\ Filled(rows) /\ ToldTyped(calls, called, resumed \cup lost, Known)
  BY DEF TypeInv
<1>2. requests \in 0..MaxRequests /\ work \in 0..MaxWork
  BY DEF TypeInv
<1>3. ASSUME w.by # "trigger" PROVE Filled(WholeRow(w))
  BY <1>1, <1>3, PutFilled DEF SaveTyped, Target, WholeRow
<1>4. \A db : ToldTyped(calls, called, resumed \cup lost, Known \cup DOMAIN db)
  BY <1>1, ToldLonger
<1>5. CASE EditWrite(w)
  <2>1. /\ Commit(WholeRow(w), saves \ {w}, deletes)
        /\ w.by = "edit" /\ UNCHANGED <<callVars, requests, work>>
    BY <1>5 DEF EditWrite
  <2> QED
    BY <1>2, <1>3, <1>4, <2>1, CommitTypes
<1>6. CASE TriggerWrite(w)
  <2>1. PICK i : i = Fresh("instance")
    OBVIOUS
  <2>2. /\ Commit(Put(rows, i, w.row), saves \ {w}, deletes)
        /\ w.by = "trigger" /\ calls' = calls \cup {ExecuteCall(w, i)}
        /\ UNCHANGED <<called, resumed, lost, requests, work>>
    BY <1>6, <2>1 DEF TriggerWrite
  <2>3. Filled(Put(rows, i, w.row))
    BY <1>1, <2>1, <2>2, FreshTable, PutFilled DEF SaveTyped, Target
  <2>4. ToldTyped(calls', called', resumed' \cup lost', Known \cup DOMAIN Put(rows, i, w.row))
    BY <1>1, <2>1, <2>2, FreshTable DEF ToldTyped, Put, ExecuteCall, Call
  <2> QED
    BY <1>2, <2>2, <2>3, <2>4, CommitTypes
<1>7. CASE CancelWrite(w)
  <2>1. /\ Commit(NamedColumns(w), saves \ {w}, deletes)
        /\ w.by = "cancel" /\ w.key \in DOMAIN rows
        /\ UNCHANGED <<callVars, requests, work>>
    BY <1>7 DEF CancelWrite
  <2>2. TableOf(w.key) = "instance" /\ RowOf("instance", w.row)
    BY <1>1, <2>1 DEF SaveTyped, Target
  <2>3. w.row.val.status \in WorkflowInstance.val.status
    BY <2>2, Models DEF RowOf, Fills, Suits, WorkflowInstance
  <2>4. RowOf("instance", rows[w.key])
    BY <1>1, <2>1, <2>2 DEF Filled
  <2>5. Filled(NamedColumns(w))
    BY <1>1, <2>2, <2>3, <2>4, AssignStatus, PutFilled DEF NamedColumns
  <2> QED
    BY <1>2, <1>4, <2>1, <2>5, CommitTypes
<1>8. CASE DecideWrite(w)
  <2>1. /\ Commit(WholeRow(w), saves \ {w}, deletes)
        /\ w.by \in {"decide", "approve"}
        /\ calls' = calls \cup {ResumeCall(w)}
        /\ UNCHANGED <<called, resumed, lost, requests, work>>
    BY <1>8 DEF DecideWrite
  <2>3. w.row.val.status \in Posts
    BY <1>1, <2>1 DEF SaveTyped
  <2>4. w.key \in Known
    BY <2>1 DEF KeysInv
  <2>5. ToldTyped(calls', called', resumed' \cup lost', Known \cup DOMAIN WholeRow(w))
    BY <1>1, <2>1, <2>3, <2>4 DEF ToldTyped, ResumeCall, Call
  <2> QED
    BY <1>2, <1>3, <2>1, <2>5, CommitTypes
<1>9. CASE WriteRefused(w)
  BY <1>2, <1>9, RestTypes DEF WriteRefused
<1> QED
  BY <1>5, <1>6, <1>7, <1>8, <1>9

\* The rows collected for a delete() are stored.
LEMMA CollectedStored ==
    ASSUME NEW k \in DOMAIN rows
    PROVE  Collected(rows, k) \subseteq DOMAIN rows
<1>1. \A S : Grow(rows, S) \subseteq DOMAIN rows \cup S
  BY DEF Grow, Dependents
<1> QED
  BY <1>1 DEF Collected

\* Deletes.
LEMMA DeleteTypes ==
    ASSUME KeysInv, TypeInv,
           \/ \E k \in DOMAIN rows : DeleteRead(k)
           \/ \E d \in deletes : DeleteWrite(d) \/ DeleteRefused(d)
    PROVE  TypeInv'
<1>1. requests \in 0..MaxRequests /\ work \in 0..MaxWork
  BY DEF TypeInv
<1>2. ASSUME NEW k \in DOMAIN rows, DeleteRead(k) PROVE TypeInv'
  <2> DEFINE new == Deleter(requests + 1, Collected(rows, k), FALSE)
  <2>1. /\ deletes' = deletes \cup {new} /\ NewRequest
        /\ UNCHANGED <<rows, buried, saves, callVars, work>>
    BY <1>2 DEF DeleteRead
  <2>2. new.doomed \subseteq Known
    BY CollectedStored DEF Deleter, Known
  <2>3. Known' = Known
    BY <2>1 DEF Known
  <2>4. requests' \in 0..MaxRequests
    BY <1>1, <2>1, RecordsAssumption DEF NewRequest
  <2>5. \A w \in saves' : SaveTyped(w)'
    BY <2>1 DEF TypeInv, SaveTyped, Target, ColumnsOf
  <2> HIDE DEF new
  <2> QED
    BY <2>1, <2>2, <2>3, <2>4, <2>5 DEF TypeInv, Filled, ToldTyped
<1>3. ASSUME NEW d \in deletes, DeleteWrite(d) PROVE TypeInv'
  <2>1. /\ Commit(AfterDelete(rows, d.doomed), saves, deletes \ {d})
        /\ UNCHANGED <<callVars, requests, work>>
    BY <1>3 DEF DeleteWrite
  <2>2. \A k \in DOMAIN rows : TableOf(k) \in Tables
    BY DEF KeysInv, Known
  <2>3. Filled(AfterDelete(rows, d.doomed))
    BY <2>2, DeleteFilled DEF TypeInv
  <2>4. ToldTyped(calls', called', resumed' \cup lost', Known \cup DOMAIN AfterDelete(rows, d.doomed))
    BY <2>1, ToldLonger DEF TypeInv
  <2> QED
    BY <1>1, <2>1, <2>3, <2>4, CommitTypes
<1>4. ASSUME NEW d \in deletes, DeleteRefused(d) PROVE TypeInv'
  BY <1>1, <1>4, RestTypes DEF DeleteRefused
<1> QED
  BY <1>2, <1>3, <1>4

\* A commit of the engine for a stored instance.
LEMMA EngineCommitTypes ==
    ASSUME TypeInv, NEW i \in DOMAIN rows, NEW db, Filled(db), EngineCommit(i, db)
    PROVE  TypeInv'
<1>1. /\ Commit(db, saves, deletes) /\ called' = called \cup {i}
      /\ work < MaxWork /\ work' = work + 1
      /\ UNCHANGED <<calls, resumed, lost, requests>>
  BY DEF EngineCommit
<1>2. work' \in 0..MaxWork /\ requests' \in 0..MaxRequests
  BY <1>1, RecordsAssumption DEF TypeInv
<1>3. ToldTyped(calls', called', resumed' \cup lost', Known \cup DOMAIN db)
  BY <1>1 DEF TypeInv, ToldTyped, Known
<1> QED
  BY <1>1, <1>2, <1>3, CommitTypes

\* The engine writes statuses the columns may hold, and steps and tasks of
\* stored instances.
LEMMA EngineTypes ==
    ASSUME RecordsInv, KeysInv, TypeInv, EngineStep
    PROVE  TypeInv'
<1>1. Filled(rows) /\ \A k \in DOMAIN rows : RowOf(TableOf(k), rows[k])
  BY DEF TypeInv, Filled
<1>2. ASSUME NEW i \in DOMAIN rows,
             NEW s \in {"running", "waiting_approval", "completed", "failed"},
             EngineMoves(i, s)
      PROVE  TypeInv'
  <2>1. /\ TableOf(i) = "instance"
        /\ EngineCommit(i, Put(rows, i, Assign(rows[i], NoColumns, [status |-> s])))
    BY <1>2 DEF EngineMoves, Stored
  <2>2. s \in WorkflowInstance.val.status
    BY DEF WorkflowInstance
  <2>3. Filled(Put(rows, i, Assign(rows[i], NoColumns, [status |-> s])))
    BY <1>1, <2>1, <2>2, AssignStatus, PutFilled
  <2> QED
    BY <2>1, <2>3, EngineCommitTypes
<1>3. ASSUME NEW i \in DOMAIN rows, EngineBeginsStep(i) PROVE TypeInv'
  <2> DEFINE row == [ref |-> [instance |-> i],
                     val |-> [node_id |-> EngineNode, status |-> "in_progress"]]
  <2>1. i \in Stored("instance") /\ EngineCommit(i, Put(rows, Fresh("step"), row))
    BY <1>3 DEF EngineBeginsStep
  <2>2. RowOf("step", row)
    BY <2>1, NewRows
  <2> HIDE DEF row
  <2>3. Filled(Put(rows, Fresh("step"), row))
    BY <1>1, <2>2, FreshTable, PutFilled
  <2> QED
    BY <2>1, <2>3, EngineCommitTypes
<1>4. ASSUME NEW k \in DOMAIN rows, NEW s \in {"completed", "failed"},
             EngineEndsStep(k, s)
      PROVE  TypeInv'
  <2>1. /\ TableOf(k) = "step"
        /\ EngineCommit(rows[k].ref.instance,
                        Put(rows, k, Assign(rows[k], NoColumns, [status |-> s])))
    BY <1>4 DEF EngineEndsStep, Stored
  <2>2. s \in StepExecution.val.status
    BY DEF StepExecution
  <2>3. Filled(Put(rows, k, Assign(rows[k], NoColumns, [status |-> s])))
    BY <1>1, <2>1, <2>2, AssignStatus, PutFilled
  <2>4. rows[k].ref.instance \in DOMAIN rows
    BY <2>1, InstanceStored
  <2> QED
    BY <2>1, <2>3, <2>4, EngineCommitTypes
<1>5. ASSUME NEW i \in DOMAIN rows, EngineAsks(i) PROVE TypeInv'
  <2> DEFINE row == [ref |-> [instance |-> i, step_execution |-> Null,
                              assigned_to |-> Null, decision_by |-> Null],
                     val |-> [status |-> "pending"]]
  <2>1. i \in Stored("instance") /\ EngineCommit(i, Put(rows, Fresh("task"), row))
    BY <1>5 DEF EngineAsks
  <2>2. RowOf("task", row)
    BY <2>1, NewRows
  <2> HIDE DEF row
  <2>3. Filled(Put(rows, Fresh("task"), row))
    BY <1>1, <2>2, FreshTable, PutFilled
  <2> QED
    BY <2>1, <2>3, EngineCommitTypes
<1>6. ASSUME NEW v \in resumed, EngineResumes(v) PROVE TypeInv'
  <2> DEFINE i == rows[v.task].ref.instance
             decision == Lowered[v.decision]
             decided == Put(rows, v.task,
                            Assign(rows[v.task], NoColumns, [status |-> decision]))
             status == IF decision = "rejected" THEN "failed" ELSE "running"
             db == Put(decided, i, Assign(rows[i], NoColumns, [status |-> status]))
  <2>1. v.task \in DOMAIN rows /\ EngineCommit(i, db)
    BY <1>6 DEF EngineResumes
  <2>2. TableOf(v.task) = "task" /\ decision \in ApprovalTask.val.status
    <3>1. v.decision \in Posts
      BY DEF TypeInv, ToldTyped
    <3> QED
      BY <3>1, RecordsAssumption DEF RecordsInv, DecidedTasks, ApprovalTask
  <2>3. i \in DOMAIN rows /\ TableOf(i) = "instance"
    BY <2>1, <2>2, InstanceStored
  <2>4. Filled(decided)
    BY <1>1, <2>1, <2>2, AssignStatus, PutFilled
  <2>5. status \in WorkflowInstance.val.status
    BY DEF WorkflowInstance
  <2>6. Filled(db)
    <3> HIDE DEF decided, i, status
    <3> QED
      BY <1>1, <2>3, <2>4, <2>5, AssignStatus, PutFilled
  <2> HIDE DEF db, i
  <2> QED
    BY <2>1, <2>3, <2>6, EngineCommitTypes
<1> QED
  BY <1>2, <1>3, <1>4, <1>5, <1>6 DEF EngineStep

\* What becomes of a call.
LEMMA CallTypes ==
    ASSUME TypeInv, CallStep
    PROVE  TypeInv'
<1>1. PICK c \in calls : Arrives(c) \/ LoseCall(c)
  BY DEF CallStep
<1>2. /\ UNCHANGED <<rows, buried, saves, deletes, requests, work>>
      /\ calls' \subseteq calls
      /\ \A i \in called' : i \in called \/ i = c.key
      /\ \A v \in resumed' \cup lost' :
            v \in resumed \cup lost \/ (v = Decision(c) /\ TableOf(c.key) = "task")
  BY <1>1 DEF Arrives, LoseCall, DecisionsIn
<1>3. Known' = Known
  BY <1>2 DEF Known
<1>4. ToldTyped(calls', called', resumed' \cup lost', Known)
  BY <1>2 DEF TypeInv, ToldTyped, Decision
<1>5. \A w \in saves' : SaveTyped(w)'
  BY <1>2 DEF TypeInv, SaveTyped, Target, ColumnsOf
<1> QED
  BY <1>2, <1>3, <1>4, <1>5 DEF TypeInv, Filled, ToldTyped

\* Every step keeps the types.
LEMMA StepTypes ==
    RecordsInv /\ KeysInv /\ TypeInv /\ [RecordsNext]_recordVars
        => TypeInv'
<1> SUFFICES ASSUME RecordsInv, KeysInv, TypeInv,
                    [RecordsNext]_recordVars
             PROVE  TypeInv'
  OBVIOUS
<1>1. requests \in 0..MaxRequests /\ work \in 0..MaxWork
  BY DEF TypeInv
<1>2. CASE UNCHANGED recordVars
  BY <1>1, <1>2, RestTypes DEF recordVars
<1>3. CASE EngineStep
  BY <1>3, EngineTypes
<1>4. ASSUME NEW d \in Drafts, Create(d) PROVE TypeInv'
  <2>1. PICK k : k = Fresh(d.table)
    OBVIOUS
  <2>2. /\ Commit(Put(rows, k, d.row), saves, deletes) /\ NewRequest
        /\ UNCHANGED <<callVars, work>>
    BY <1>4, <2>1 DEF Create
  <2>3. Filled(Put(rows, k, d.row))
    BY <2>1, FreshTable, PutFilled, RecordsAssumption DEF TypeInv
  <2>4. ToldTyped(calls', called', resumed' \cup lost', Known \cup DOMAIN Put(rows, k, d.row))
    BY <2>2, ToldLonger DEF TypeInv
  <2>5. requests' \in 0..MaxRequests
    BY <1>1, <2>2, RecordsAssumption DEF NewRequest
  <2> QED
    BY <1>1, <2>2, <2>3, <2>4, <2>5, CommitTypes
<1>5. Null \in Users /\ "approved" \in Posts /\ Decisions \subseteq Posts
  BY RecordsAssumption DEF Users, Decisions
<1>6. ASSUME NEW k \in DOMAIN rows,
             \/ CancelRead(k)
             \/ \E e \in Edits : EditRead(k, e)
             \/ \E u \in Users : TriggerRead(k, u)
             \/ \E x \in Posts : ApproveRead(k, x)
             \/ \E x \in Decisions, u \in Users : DecideRead(k, x, u)
      PROVE  TypeInv'
  BY <1>5, <1>6, ReadTypes
<1>7. ASSUME NEW w \in saves,
             EditWrite(w) \/ TriggerWrite(w) \/ CancelWrite(w) \/ DecideWrite(w)
               \/ WriteRefused(w)
      PROVE  TypeInv'
  BY <1>7, WriteTypes
<1>8. CASE \/ \E k \in DOMAIN rows : DeleteRead(k)
           \/ \E d \in deletes : DeleteWrite(d) \/ DeleteRefused(d)
  BY <1>8, DeleteTypes
<1>9. CASE CountTotal \/ CountRunning \/ CountCompleted \/ ClosePage
  <2>1. requests' \in 0..MaxRequests
    BY <1>1, <1>9, RecordsAssumption
       DEF CountTotal, CountRunning, CountCompleted, ClosePage, NewRequest
  <2>2. /\ UNCHANGED <<rows, buried, saves, deletes, callVars, work>>
    BY <1>9 DEF CountTotal, CountRunning, CountCompleted, ClosePage
  <2> QED
    BY <2>1, <2>2, RestTypes
<1>10. CASE CallStep
  BY <1>10, CallTypes
<1> QED
  BY <1>2, <1>3, <1>4, <1>6, <1>7, <1>8, <1>9, <1>10 DEF RecordsNext, WebStep

\* The invariants imply the type invariant of the runs.
LEMMA TypesHold == RecordsInv /\ KeysInv /\ PageInv /\ TypeInv => RecordsTypeOK
<1> SUFFICES ASSUME RecordsInv, KeysInv, PageInv, TypeInv PROVE RecordsTypeOK
  OBVIOUS
<1>1. RowsTyped(rows)
  BY KnownKeys DEF RowsTyped, TypeInv, Filled, Known
<1>2. \A w \in saves :
         /\ RowOf(IF w.by = "trigger" THEN "instance" ELSE TableOf(w.key), w.row)
         /\ w.key \in DOMAIN rows \cup buried \cup {Null}
         /\ w.asked \subseteq ColumnsOf(w.row)
         /\ w.number \in 1..MaxRequests
         /\ w.by \in {"decide", "approve"} => w.row.val.status \in Posts
  BY DEF TypeInv, SaveTyped, Target, KeysInv, Known
<1>3. /\ \A c \in calls :
            /\ c.key \in DOMAIN rows \cup buried
            /\ TableOf(c.key) = "task" => c.decision \in Posts
      /\ called \cup {v.task : v \in resumed \cup lost} \subseteq DOMAIN rows \cup buried
      /\ {v.decision : v \in resumed \cup lost} \subseteq Posts
  BY DEF TypeInv, ToldTyped, Known
<1>4. page.total \in Nat /\ page.running \in Nat /\ page.completed \in Nat
  BY DEF PageInv
<1> QED
  BY <1>1, <1>2, <1>3, <1>4 DEF RecordsTypeOK, TypeInv, Known

\* For any tables, edits, posted decisions and number of requests: the stored
\* rows and those about to be saved have exactly the columns of their model,
\* each with a value it may hold (for a task's status, any text that is posted
\* or its lower case; for the others, one of the model's choices), through
\* every create, edit, cascade, cancellation, decision and commit of the engine.
THEOREM RecordsTypeCorrect == RecordsSpec => []RecordsTypeOK
<1>1. RecordsInit => PageInv /\ TypeInv
  <2> SUFFICES ASSUME RecordsInit PROVE PageInv /\ TypeInv
    OBVIOUS
  <2>1. RowsTyped(rows) /\ MaxRequests \in Nat /\ MaxWork \in Nat
    BY RecordsAssumption DEF RecordsInit
  <2>2. Filled(rows)
    BY <2>1 DEF RowsTyped, Filled
  <2> QED
    BY <2>1, <2>2 DEF RecordsInit, PageInv, NoPage, TypeInv, ToldTyped
<1> QED
  BY <1>1, TypesHold, RecordsInvariant, StepCounts, StepTypes, PTL DEF RecordsSpec

(***************************************************************************)
(* Decisions, and who was told of them.                                    *)
(***************************************************************************)
\* Status s of task t was given to a call of the engine, or a user wrote it.
ToldBy(reports, edits, t, s) ==
    \/ s = "pending"
    \/ \E v \in reports : v.task = t /\ s \in {v.decision, Lowered[v.decision]}
    \/ {<<t, "created">>, <<t, "status">>} \cap edits # {}

Told(t, s) == ToldBy(Reported, edited, t, s)
ToldNext(t, s) == ToldBy(Reported', edited', t, s)

HasStatus(row) == "status" \in DOMAIN row.val

\* The rows of the task table do.
LEMMA TasksHaveStatus ==
    ASSUME NEW row, RowOf("task", row)
    PROVE  HasStatus(row)
  BY Models DEF RowOf, Fills, ApprovalTask, HasStatus

\* The status of a task was told of; so was the one that an edit of other
\* columns has read.
ToldInv ==
    /\ \A t \in Stored("task") :
          HasStatus(rows[t]) /\ Told(t, rows[t].val.status)
    /\ \A w \in saves :
          /\ w.by = "cancel" => TableOf(w.key) = "instance"
          /\ TableOf(w.key) = "task" =>
                /\ HasStatus(w.row)
                /\ w.by = "edit" =>
                      "status" \in w.asked \/ Told(w.key, w.row.val.status)

\* Every task's status in db is an old one or was told of.
Telling(db) ==
    \A t \in DOMAIN db :
        TableOf(t) = "task" =>
            /\ HasStatus(db[t])
            /\ \/ t \in DOMAIN rows /\ db[t].val.status = rows[t].val.status
               \/ ToldNext(t, db[t].val.status)

\* Nobody forgets.
LEMMA ToldStays ==
    ASSUME edited \subseteq edited', Reported \subseteq Reported',
           NEW t, NEW s, Told(t, s)
    PROVE  ToldNext(t, s)
  BY DEF Told, ToldNext, ToldBy

\* A call that arrives or fails is one decision that was reported all along,
\* and further calls only add to them.
LEMMA CallsReport ==
    /\ CallStep => Reported' = Reported
    /\ UNCHANGED callVars => Reported' = Reported
    /\ calls \subseteq calls' /\ UNCHANGED <<resumed, lost>>
          => Reported \subseteq Reported'
<1>1. ASSUME NEW c \in calls, Arrives(c) \/ LoseCall(c)
      PROVE  Reported' = Reported
  <2>1. /\ calls' = calls \ {c}
        /\ (resumed \cup lost)' = resumed \cup lost \cup DecisionsIn({c})
    BY <1>1 DEF Arrives, LoseCall
  <2>2. DecisionsIn(calls) = DecisionsIn(calls \ {c}) \cup DecisionsIn({c})
    BY DEF DecisionsIn
  <2>3. Reported' = DecisionsIn(calls \ {c}) \cup (resumed \cup lost)'
    BY <2>1 DEF Reported, DecisionsIn
  <2> QED
    BY <2>1, <2>2, <2>3 DEF Reported
<1> QED
  BY <1>1 DEF CallStep, Reported, DecisionsIn

LEMMA RowsTelling == ToldInv => Telling(rows)
  BY DEF ToldInv, Telling, Stored

\* Storing one row.
LEMMA PutTelling ==
    ASSUME NEW db, Telling(db), NEW k, NEW row,
           TableOf(k) = "task" => HasStatus(row) /\ ToldNext(k, row.val.status)
    PROVE  Telling(Put(db, k, row))
<1> DEFINE new == Put(db, k, row)
<1>1. /\ DOMAIN new = DOMAIN db \cup {k} /\ new[k] = row
      /\ \A t \in DOMAIN db : t # k => new[t] = db[t]
  BY DEF Put
<1> HIDE DEF new
<1>2. Telling(new)
  BY <1>1 DEF Telling
<1> QED
  BY <1>2 DEF new

\* A commit of such a database keeps the invariant.
LEMMA CommitTold ==
    ASSUME ToldInv, NEW db, NEW left \in SUBSET saves, NEW deleting,
           Commit(db, left, deleting), Telling(db),
           edited \subseteq edited', Reported \subseteq Reported'
    PROVE  ToldInv'
<1>1. /\ rows' = db
      /\ \A y \in saves' :
            \E w \in left :
               /\ y.by = w.by /\ y.key = w.key /\ y.row = w.row
               /\ y.asked = w.asked /\ y.number = w.number
               /\ ~y.stale => ~w.stale /\ SameAt(db, w.key)
  BY CommitLeaves
<1>2. ASSUME NEW t \in Stored("task")'
      PROVE  HasStatus(rows'[t]) /\ ToldNext(t, rows'[t].val.status)
  <2>1. t \in DOMAIN db /\ TableOf(t) = "task" /\ rows'[t] = db[t]
    BY <1>1, <1>2 DEF Stored
  <2>2. CASE t \in DOMAIN rows /\ db[t].val.status = rows[t].val.status
    <3>1. Told(t, rows[t].val.status)
      BY <2>1, <2>2 DEF ToldInv, Stored
    <3> QED
      BY <2>1, <2>2, <3>1, ToldStays DEF Telling
  <2> QED
    BY <2>1, <2>2 DEF Telling
<1>3. ASSUME NEW x \in saves'
      PROVE  /\ x.by = "cancel" => TableOf(x.key) = "instance"
             /\ TableOf(x.key) = "task" =>
                   /\ HasStatus(x.row)
                   /\ x.by = "edit" =>
                         "status" \in x.asked \/ ToldNext(x.key, x.row.val.status)
  <2>1. PICK w \in left :
           /\ x.by = w.by /\ x.key = w.key /\ x.row = w.row
           /\ x.asked = w.asked /\ x.number = w.number
           /\ ~x.stale => ~w.stale /\ SameAt(db, w.key)
    BY <1>1, <1>3, Zenon
  <2>2. Told(w.key, w.row.val.status) => ToldNext(w.key, w.row.val.status)
    BY ToldStays
  <2> QED
    BY <2>1, <2>2 DEF ToldInv
<1> QED
  BY <1>2, <1>3 DEF ToldInv, HasStatus, Told, ToldNext, ToldBy

\* The writes of requests.
LEMMA WriteTold ==
    ASSUME RecordsInv, KeysInv, ToldInv, NEW w \in saves,
           EditWrite(w) \/ TriggerWrite(w) \/ CancelWrite(w) \/ DecideWrite(w)
             \/ WriteRefused(w)
    PROVE  ToldInv'
<1>1. Telling(rows) /\ (UNCHANGED callVars => Reported \subseteq Reported')
  BY RowsTelling, CallsReport
<1>2. CASE EditWrite(w)
  <2>1. /\ w.by = "edit" /\ Commit(WholeRow(w), saves \ {w}, deletes)
        /\ edited' = edited \cup ({w.key} \X w.asked) /\ UNCHANGED callVars
    BY <1>2 DEF EditWrite
  <2>2. ASSUME TableOf(w.key) = "task"
        PROVE  HasStatus(w.row) /\ ToldNext(w.key, w.row.val.status)
    <3>1. CASE "status" \in w.asked
      <4>1. <<w.key, "status">> \in edited'
        BY <2>1, <3>1
      <4> QED
        BY <2>2, <4>1 DEF ToldNext, ToldBy, ToldInv
    <3>2. CASE "status" \notin w.asked
      BY <1>1, <2>1, <2>2, <3>2, ToldStays DEF ToldInv
    <3> QED
      BY <3>1, <3>2
  <2> QED
    BY <1>1, <2>1, <2>2, PutTelling, CommitTold DEF WholeRow
<1>3. CASE TriggerWrite(w)
  <2>1. PICK k : k = Fresh("instance")
    OBVIOUS
  <2>2. /\ Commit(Put(rows, k, w.row), saves \ {w}, deletes)
        /\ edited' = edited /\ calls \subseteq calls'
        /\ UNCHANGED <<resumed, lost>>
    BY <1>3, <2>1 DEF TriggerWrite
  <2>3. Telling(Put(rows, k, w.row))
    BY <1>1, <2>1, FreshTable, PutTelling
  <2> QED
    BY <2>2, <2>3, CallsReport, CommitTold
<1>4. CASE CancelWrite(w)
  <2>1. /\ w.by = "cancel" /\ Commit(NamedColumns(w), saves \ {w}, deletes)
        /\ edited' = edited /\ UNCHANGED callVars
    BY <1>4 DEF CancelWrite
  <2>2. TableOf(w.key) # "task"
    BY <2>1 DEF ToldInv
  <2>3. Telling(NamedColumns(w))
    BY <1>1, <2>2, PutTelling DEF NamedColumns
  <2> QED
    BY <1>1, <2>1, <2>3, CommitTold
<1>5. CASE DecideWrite(w)
  <2>1. /\ w.by \in {"decide", "approve"}
        /\ Commit(WholeRow(w), saves \ {w}, deletes)
        /\ edited' = edited /\ calls' = calls \cup {ResumeCall(w)}
        /\ UNCHANGED <<resumed, lost>>
    BY <1>5 DEF DecideWrite
  <2>2. TableOf(w.key) = "task" /\ HasStatus(w.row)
    BY <2>1 DEF RecordsInv, DecidedTasks, ToldInv
  <2>3. ToldNext(w.key, w.row.val.status)
    <3> DEFINE c == ResumeCall(w)
    <3>1. c.key = w.key /\ c.decision = w.row.val.status /\ c \in calls'
      BY <2>1 DEF ResumeCall, Call
    <3> HIDE DEF c
    <3>2. Decision(c) \in Reported'
      BY <2>2, <3>1 DEF Reported, DecisionsIn
    <3>3. Decision(c).task = w.key /\ Decision(c).decision = w.row.val.status
      BY <3>1 DEF Decision
    <3> QED
      BY <3>2, <3>3 DEF ToldNext, ToldBy
  <2>4. Telling(WholeRow(w))
    BY <1>1, <2>2, <2>3, PutTelling DEF WholeRow
  <2> QED
    BY <2>1, <2>4, CallsReport, CommitTold
<1>6. CASE WriteRefused(w)
  BY <1>6 DEF WriteRefused, ToldInv, Stored, Told, ToldBy, Reported, DecisionsIn,
              HasStatus
<1> QED
  BY <1>2, <1>3, <1>4, <1>5, <1>6

\* The steps of the engine.
LEMMA EngineTold ==
    ASSUME RecordsInv, ToldInv, EngineStep
    PROVE  ToldInv'
<1>1. Telling(rows)
  BY RowsTelling
<1>2. ASSUME NEW i, NEW db, EngineCommit(i, db), Telling(db)
      PROVE  ToldInv'
  <2>1. /\ Commit(db, saves, deletes) /\ edited' = edited
        /\ UNCHANGED <<calls, resumed, lost>>
    BY <1>2 DEF EngineCommit
  <2> QED
    BY <1>2, <2>1, CallsReport, CommitTold
<1>3. ASSUME NEW i \in DOMAIN rows, NEW s, EngineMoves(i, s) PROVE ToldInv'
  <2>1. TableOf(i) # "task"
    BY <1>3 DEF EngineMoves, Stored
  <2> QED
    BY <1>1, <1>2, <1>3, <2>1, PutTelling DEF EngineMoves
<1>4. ASSUME NEW i \in DOMAIN rows, EngineBeginsStep(i) PROVE ToldInv'
  <2>1. PICK k : k = Fresh("step")
    OBVIOUS
  <2>2. TableOf(k) # "task"
    BY <2>1, FreshTable
  <2> QED
    BY <1>1, <1>2, <1>4, <2>1, <2>2, PutTelling DEF EngineBeginsStep
<1>5. ASSUME NEW k \in DOMAIN rows, NEW s, EngineEndsStep(k, s) PROVE ToldInv'
  <2>1. TableOf(k) # "task"
    BY <1>5 DEF EngineEndsStep, Stored
  <2> QED
    BY <1>1, <1>2, <1>5, <2>1, PutTelling DEF EngineEndsStep
<1>6. ASSUME NEW i \in DOMAIN rows, EngineAsks(i) PROVE ToldInv'
  <2> DEFINE row == [ref |-> [instance |-> i, step_execution |-> Null,
                              assigned_to |-> Null, decision_by |-> Null],
                     val |-> [status |-> "pending"]]
  <2>1. HasStatus(row) /\ \A t : ToldNext(t, row.val.status)
    BY DEF HasStatus, ToldNext, ToldBy
  <2>2. PICK k : k = Fresh("task")
    OBVIOUS
  <2>3. EngineCommit(i, Put(rows, k, row))
    BY <1>6, <2>2 DEF EngineAsks
  <2> HIDE DEF row
  <2> QED
    BY <1>1, <1>2, <2>1, <2>3, PutTelling
<1>7. ASSUME NEW v \in resumed, EngineResumes(v) PROVE ToldInv'
  <2> DEFINE i == rows[v.task].ref.instance
             decision == Lowered[v.decision]
             row == Assign(rows[v.task], NoColumns, [status |-> decision])
             decided == Put(rows, v.task, row)
             status == IF decision = "rejected" THEN "failed" ELSE "running"
             db == Put(decided, i, Assign(rows[i], NoColumns, [status |-> status]))
  <2>1. v.task \in DOMAIN rows /\ EngineCommit(i, db)
    BY <1>7 DEF EngineResumes
  <2>2. TableOf(i) = "instance"
    <3>1. Foreign("task", "instance", "instance") \in References
      BY DEF References, WorkflowReferences
    <3>2. LinkedRow("task", rows[v.task])
      BY <2>1 DEF RecordsInv, DecidedTasks, Sound, Linked
    <3> QED
      BY <3>1, <3>2 DEF LinkedRow, Foreign, Nullable
  <2>3. v \in Reported'
    BY <2>1 DEF EngineCommit, Reported
  <2>4. HasStatus(row) /\ row.val.status = decision
    BY DEF HasStatus, Assign, Over
  <2>7. ToldNext(v.task, row.val.status)
    BY <2>3, <2>4 DEF ToldNext, ToldBy
  <2> HIDE DEF i, row, status
  <2>5. Telling(decided)
    BY <1>1, <2>4, <2>7, PutTelling
  <2>6. Telling(db)
    BY <2>2, <2>5, PutTelling
  <2> HIDE DEF db
  <2> QED
    BY <1>2, <2>1, <2>6
<1> QED
  BY <1>3, <1>4, <1>5, <1>6, <1>7 DEF EngineStep

\* The reads of requests.
LEMMA ReadTold ==
    ASSUME ToldInv, NEW k \in DOMAIN rows, NEW u, NEW x,
           \/ \E e \in Edits : EditRead(k, e)
           \/ TriggerRead(k, u) \/ CancelRead(k) \/ ApproveRead(k, x)
           \/ DecideRead(k, x, u)
    PROVE  ToldInv'
<1> DEFINE Fits(by, key, row, asked) ==
              /\ by = "cancel" => TableOf(key) = "instance"
              /\ TableOf(key) = "task" =>
                    /\ HasStatus(row)
                    /\ by = "edit" =>
                          "status" \in asked \/ Told(key, row.val.status)
<1>1. ASSUME NEW by, NEW key, NEW row, NEW asked, Saving(by, key, row, asked),
             Fits(by, key, row, asked)
      PROVE  ToldInv'
  <2> DEFINE w == Saver(requests + 1, by, key, row, asked, FALSE)
  <2>1. /\ saves' = saves \cup {w}
        /\ rows' = rows /\ Reported' = Reported /\ edited' = edited
    BY <1>1, CallsReport DEF Saving
  <2>2. w.by = by /\ w.key = key /\ w.row = row /\ w.asked = asked
    BY DEF Saver
  <2> HIDE DEF w
  <2> QED
    BY <1>1, <2>1, <2>2 DEF ToldInv, Stored, Told, ToldBy, HasStatus
<1>2. \A ref, val : "status" \in DOMAIN val => HasStatus(Assign(rows[k], ref, val))
  BY DEF HasStatus, Assign, Over
<1>3. ASSUME NEW e \in Edits, EditRead(k, e) PROVE ToldInv'
  <2> DEFINE row == Assign(rows[k], e.ref, e.val)
  <2>1. Saving("edit", k, row, ColumnsOf(e))
    BY <1>3 DEF EditRead
  <2>2. ASSUME TableOf(k) = "task" PROVE HasStatus(row)
    BY <2>2 DEF ToldInv, Stored, HasStatus, Assign, Over
  <2>3. ASSUME TableOf(k) = "task", "status" \notin ColumnsOf(e)
        PROVE  row.val.status = rows[k].val.status
    BY <2>3 DEF ToldInv, Stored, HasStatus, Assign, Over, ColumnsOf
  <2> HIDE DEF row
  <2>4. Fits("edit", k, row, ColumnsOf(e))
    BY <2>2, <2>3 DEF ToldInv, Stored
  <2> HIDE DEF Fits
  <2> QED
    BY <1>1, <2>1, <2>4
<1>4. CASE TriggerRead(k, u)
  <2>1. TableOf(Null) = "none"
    BY DEF TableOf, Null
  <2> QED
    BY <1>1, <1>4, <2>1 DEF TriggerRead
<1>5. CASE CancelRead(k)
  <2>1. TableOf(k) = "instance"
    BY <1>5 DEF CancelRead, Stored
  <2> QED
    BY <1>1, <1>5, <2>1 DEF CancelRead
<1>6. CASE ApproveRead(k, x)
  <2>1. HasStatus(Assign(rows[k], NoColumns, [status |-> x]))
    BY <1>2
  <2> QED
    BY <1>1, <1>6, <2>1 DEF ApproveRead
<1>7. CASE DecideRead(k, x, u)
  <2>1. HasStatus(Assign(rows[k], [decision_by |-> u], [status |-> x]))
    BY <1>2
  <2> QED
    BY <1>1, <1>7, <2>1 DEF DecideRead
<1> QED
  BY <1>3, <1>4, <1>5, <1>6, <1>7

\* Every step keeps the invariant.
LEMMA StepTold ==
    RecordsInv /\ KeysInv /\ ToldInv /\ [RecordsNext]_recordVars
        => ToldInv'
<1> SUFFICES ASSUME RecordsInv, KeysInv, ToldInv,
                    [RecordsNext]_recordVars
             PROVE  ToldInv'
  OBVIOUS
<1>1. Telling(rows)
  BY RowsTelling
<1>2. ASSUME UNCHANGED <<rows, saves, edited>>, Reported' = Reported PROVE ToldInv'
  BY <1>2 DEF ToldInv, Stored, Told, ToldBy, HasStatus
<1>3. CASE UNCHANGED recordVars
  BY <1>2, <1>3, CallsReport DEF recordVars
<1>4. CASE EngineStep
  BY <1>4, EngineTold
<1>5. ASSUME NEW d \in Drafts, Create(d) PROVE ToldInv'
  <2>1. PICK k : k = Fresh(d.table)
    OBVIOUS
  <2>2. /\ Commit(Put(rows, k, d.row), saves, deletes)
        /\ edited' = edited \cup {<<k, "created">>}
        /\ Reported' = Reported
    BY <1>5, <2>1, CallsReport DEF Create
  <2>3. ASSUME TableOf(k) = "task" PROVE HasStatus(d.row)
    BY <2>1, <2>3, FreshTable, RecordsAssumption, TasksHaveStatus
  <2>4. ToldNext(k, d.row.val.status)
    <3>1. <<k, "created">> \in edited'
      BY <2>2
    <3> QED
      BY <3>1 DEF ToldNext, ToldBy
  <2>5. Telling(Put(rows, k, d.row))
    BY <1>1, <2>3, <2>4, PutTelling
  <2> QED
    BY <2>2, <2>5, CommitTold
<1>6. ASSUME NEW k \in DOMAIN rows,
             \/ CancelRead(k)
             \/ \E e \in Edits : EditRead(k, e)
             \/ \E u \in Users : TriggerRead(k, u)
             \/ \E x \in Posts : ApproveRead(k, x)
             \/ \E x \in Decisions, u \in Users : DecideRead(k, x, u)
      PROVE  ToldInv'
  <2>1. PICK u, x : \/ \E e \in Edits : EditRead(k, e)
                    \/ TriggerRead(k, u) \/ CancelRead(k) \/ ApproveRead(k, x)
                    \/ DecideRead(k, x, u)
    BY <1>6
  <2> QED
    BY <2>1, ReadTold
<1>7. ASSUME NEW w \in saves,
             EditWrite(w) \/ TriggerWrite(w) \/ CancelWrite(w) \/ DecideWrite(w)
               \/ WriteRefused(w)
      PROVE  ToldInv'
  BY <1>7, WriteTold
<1>8. ASSUME NEW d \in deletes, DeleteWrite(d) PROVE ToldInv'
  <2>1. /\ Commit(AfterDelete(rows, d.doomed), saves, deletes \ {d})
        /\ edited' = edited /\ Reported' = Reported
    BY <1>8, CallsReport DEF DeleteWrite
  <2>2. \A k \in DOMAIN AfterDelete(rows, d.doomed) :
           k \in DOMAIN rows /\ AfterDelete(rows, d.doomed)[k].val = rows[k].val
    BY DEF AfterDelete, Unlinked
  <2>3. Telling(AfterDelete(rows, d.doomed))
    BY <1>1, <2>2 DEF Telling, HasStatus
  <2> QED
    BY <2>1, <2>3, CommitTold
<1>9. CASE \/ \E k \in DOMAIN rows : DeleteRead(k)
           \/ \E d \in deletes : DeleteRefused(d)
           \/ CountTotal \/ CountRunning \/ CountCompleted \/ ClosePage
  BY <1>2, <1>9, CallsReport DEF DeleteRead, DeleteRefused, CountTotal,
                                 CountRunning, CountCompleted, ClosePage
<1>10. CASE CallStep
  <2>1. UNCHANGED <<rows, saves, edited>>
    BY <1>10 DEF CallStep, Arrives, LoseCall
  <2> QED
    BY <1>2, <1>10, <2>1, CallsReport
<1> QED
  BY <1>3, <1>4, <1>5, <1>6, <1>7, <1>8, <1>9, <1>10 DEF RecordsNext, WebStep

LEMMA InitTold == RecordsInit /\ DecidedTasksCalled => ToldInv
<1> SUFFICES ASSUME RecordsInit, DecidedTasksCalled PROVE ToldInv
  OBVIOUS
<1>1. RowsTyped(rows) /\ saves = {}
  BY RecordsAssumption DEF RecordsInit
<1>2. ASSUME NEW t \in Stored("task") PROVE HasStatus(rows[t])
  BY <1>1, <1>2, TasksHaveStatus DEF RowsTyped, Stored
<1> QED
  BY <1>1, <1>2 DEF ToldInv, Told, ToldBy, DecidedTasksCalled

LEMMA ToldShows == ToldInv => DecidedTasksCalled
  BY DEF ToldInv, Told, ToldBy, DecidedTasksCalled

\* If it holds at first, it holds for good: whatever is posted, however the
\* requests are ordered and whatever becomes of the calls, the status of a task
\* is pending, was given to a call of the engine about this task, or is one
\* that a user wrote as a plain column.
THEOREM DecisionsAreTold ==
    RecordsSpec /\ DecidedTasksCalled => []DecidedTasksCalled
  BY InitTold, ToldShows, StepTold, RecordsInvariant, PTL DEF RecordsSpec

(***************************************************************************)
(* Tenants of definitions and of their instances.                          *)
(***************************************************************************)
\* What is known of a row: where it is stored, or in a request that edits it.
Copy(key, ref, asked) == [key |-> key, ref |-> ref, asked |-> asked]
Copies ==
    {Copy(k, rows[k].ref, {}) : k \in DOMAIN rows} \cup
    {Copy(w.key, w.row.ref, w.asked) : w \in {x \in saves : x.by = "edit"}}

\* An instance may also be in a request that triggers it, and has no key then.
InstanceCopies ==
    {c \in Copies : TableOf(c.key) = "instance"} \cup
    {Copy(Null, w.row.ref, {}) : w \in {x \in saves : x.by = "trigger"}}
DefinitionCopies == {c \in Copies : TableOf(c.key) = "definition"}

\* A user has set this column, or is about to with this copy.
GivenIn(c, column) == <<c.key, column>> \in edited \/ column \in c.asked

\* Copies of a definition agree on its tenant, and with those of its instances,
\* unless a user gave one of them.
AgreeInv ==
    /\ \A c \in InstanceCopies :
          /\ c.ref.definition \in Known
          /\ \A d \in DefinitionCopies :
                c.ref.definition = d.key =>
                   \/ c.ref.tenant = d.ref.tenant
                   \/ <<c.key, "created">> \in edited
                   \/ GivenIn(c, "tenant") \/ GivenIn(c, "definition")
                   \/ GivenIn(d, "tenant")
    /\ \A c, d \in DefinitionCopies :
          c.key = d.key =>
             c.ref.tenant = d.ref.tenant \/ GivenIn(c, "tenant") \/ GivenIn(d, "tenant")
    /\ \A e \in edited : e[1] \in Known

\* Where a copy of an instance comes from: an older one, a user or a trigger.
FromInstance(c) ==
    \E b \in InstanceCopies :
        /\ b.key = c.key \/ b.key = Null
        /\ \/ /\ c.ref.tenant = b.ref.tenant /\ c.ref.definition = b.ref.definition
              /\ \A column \in {"tenant", "definition"} :
                    GivenIn(b, column) => GivenIn(c, column)'
           \/ GivenIn(c, "tenant")' \/ GivenIn(c, "definition")'
FromTrigger(c) ==
    \E b \in DefinitionCopies :
        /\ b.asked = {} /\ b.key \in Known
        /\ c.ref.definition = b.key /\ c.ref.tenant = b.ref.tenant

\* Where a copy of a definition comes from: an older one or a new row.
FromDefinition(d) ==
    \E b \in DefinitionCopies :
        /\ b.key = d.key
        /\ \/ /\ d.ref.tenant = b.ref.tenant
              /\ GivenIn(b, "tenant") => GivenIn(d, "tenant")'
           \/ GivenIn(d, "tenant")'
NewDefinition(d) == d.key \notin Known /\ d.ref = rows'[d.key].ref

\* Copies that come from agreeing ones agree.
LEMMA CopiesAgree ==
    ASSUME AgreeInv, KeysInv, edited \subseteq edited', Known \subseteq Known',
           \A e \in edited' : e[1] \in Known',
           \A c \in InstanceCopies' :
              /\ c.ref.definition \in Known'
              /\ \/ FromInstance(c) \/ FromTrigger(c)
                 \/ <<c.key, "created">> \in edited',
           \A d \in DefinitionCopies' : FromDefinition(d) \/ NewDefinition(d)
    PROVE  AgreeInv'
<1>1. ASSUME NEW c \in DefinitionCopies', NEW d \in DefinitionCopies', c.key = d.key
      PROVE  \/ c.ref.tenant = d.ref.tenant
             \/ GivenIn(c, "tenant")' \/ GivenIn(d, "tenant")'
  <2>1. ASSUME NEW b \in DefinitionCopies PROVE b.key \in Known
    <3>1. CASE \E k \in DOMAIN rows : b = Copy(k, rows[k].ref, {})
      BY <3>1 DEF Copy, Known
    <3>2. CASE \E w \in saves : w.by = "edit" /\ b = Copy(w.key, w.row.ref, w.asked)
      BY <3>2 DEF Copy, KeysInv
    <3> QED
      BY <3>1, <3>2 DEF DefinitionCopies, Copies
  <2>2. CASE FromDefinition(c) /\ FromDefinition(d)
    BY <1>1, <2>2 DEF FromDefinition, AgreeInv
  <2>3. CASE NewDefinition(c) /\ NewDefinition(d)
    BY <1>1, <2>3 DEF NewDefinition
  <2> QED
    BY <1>1, <2>1, <2>2, <2>3 DEF FromDefinition, NewDefinition
<1>2. ASSUME NEW c \in InstanceCopies', NEW d \in DefinitionCopies',
             c.ref.definition = d.key
      PROVE  \/ c.ref.tenant = d.ref.tenant
             \/ <<c.key, "created">> \in edited'
             \/ GivenIn(c, "tenant")' \/ GivenIn(c, "definition")'
             \/ GivenIn(d, "tenant")'
  <2> SUFFICES ASSUME <<c.key, "created">> \notin edited',
                      ~GivenIn(c, "tenant")', ~GivenIn(c, "definition")',
                      ~GivenIn(d, "tenant")'
               PROVE  c.ref.tenant = d.ref.tenant
    OBVIOUS
  <2>1. CASE FromInstance(c)
    <3>1. PICK b \in InstanceCopies :
             /\ b.key = c.key \/ b.key = Null
             /\ c.ref.tenant = b.ref.tenant /\ c.ref.definition = b.ref.definition
             /\ ~GivenIn(b, "tenant") /\ ~GivenIn(b, "definition")
      BY <2>1 DEF FromInstance
    <3>2. <<b.key, "created">> \notin edited
      <4>1. Null \notin Known
        <5>1. TableOf(Null) \notin Tables
          BY DEF TableOf, Null, Tables
        <5> QED
          BY <5>1 DEF KeysInv
      <4>2. \A e \in edited : e[1] \in Known
        BY DEF AgreeInv
      <4>3. <<Null, "created">> \notin edited
        BY <4>1, <4>2
      <4> QED
        BY <3>1, <4>3
    <3>3. d.key \in Known
      BY <1>2, <3>1 DEF AgreeInv
    <3>4. PICK a \in DefinitionCopies :
             /\ a.key = d.key /\ d.ref.tenant = a.ref.tenant
             /\ ~GivenIn(a, "tenant")
      BY <3>3 DEF FromDefinition, NewDefinition
    <3> QED
      BY <1>2, <3>1, <3>2, <3>4 DEF AgreeInv
  <2>2. CASE FromTrigger(c)
    <3>1. PICK b \in DefinitionCopies :
             /\ b.asked = {} /\ b.key \in Known
             /\ c.ref.definition = b.key /\ c.ref.tenant = b.ref.tenant
      BY <2>2 DEF FromTrigger
    <3>2. PICK a \in DefinitionCopies :
             /\ a.key = d.key /\ d.ref.tenant = a.ref.tenant
             /\ ~GivenIn(a, "tenant")
      BY <1>2, <3>1 DEF FromDefinition, NewDefinition
    <3>3. ~GivenIn(b, "tenant")
      <4>1. <<d.key, "tenant">> \notin edited
        BY DEF GivenIn
      <4> QED
        BY <1>2, <3>1, <4>1 DEF GivenIn
    <3> QED
      BY <1>2, <3>1, <3>2, <3>3 DEF AgreeInv
  <2> QED
    BY <2>1, <2>2
<1> QED
  BY <1>1, <1>2 DEF AgreeInv

\* An instance has the tenant of its definition, as that is stored.
BelongsTo(row, d) ==
    /\ d \in Stored("definition")
    /\ row.ref.definition = d /\ row.ref.tenant = rows[d].ref.tenant

\* A row may be stored at k: as it was, from a request that edited or triggered
\* it, for its definition, or as a user's new row.
EditedRow(k, row) ==
    \E w \in saves :
        /\ w.by = "edit" /\ w.key = k /\ w.row = row
        /\ \A column \in w.asked : <<k, column>> \in edited'
Fits(k, row) ==
    /\ TableOf(k) = "instance" =>
          \/ /\ k \in DOMAIN rows /\ row.ref.tenant = rows[k].ref.tenant
             /\ row.ref.definition = rows[k].ref.definition
          \/ EditedRow(k, row)
          \/ \E w \in saves : w.by = "trigger" /\ w.row = row
          \/ \E d : BelongsTo(row, d)
          \/ <<k, "created">> \in edited'
    /\ TableOf(k) = "definition" =>
          \/ k \in DOMAIN rows /\ row.ref.tenant = rows[k].ref.tenant
          \/ EditedRow(k, row)
          \/ k \notin Known
Fitting(db) == \A k \in DOMAIN db : Fits(k, db[k])

\* Storing one more fitting row.
LEMMA PutFitting ==
    ASSUME NEW db, Fitting(db), NEW k, NEW row, Fits(k, row)
    PROVE  Fitting(Put(db, k, row))
<1> DEFINE new == Put(db, k, row)
<1>1. /\ DOMAIN new = DOMAIN db \cup {k} /\ new[k] = row
      /\ \A x \in DOMAIN db : x # k => new[x] = db[x]
  BY DEF Put
<1> HIDE DEF new
<1>2. Fitting(new)
  BY <1>1 DEF Fitting
<1> QED
  BY <1>2 DEF new

LEMMA RowsFitting == Fitting(rows)
  BY DEF Fitting, Fits

\* The rows of definitions and instances have the columns compared here.
LEMMA TenantColumns ==
    ASSUME NEW table, NEW row, LinkedRow(table, row)
    PROVE  /\ table = "instance" =>
                 "tenant" \in DOMAIN row.ref /\ "definition" \in DOMAIN row.ref
           /\ table = "definition" => "tenant" \in DOMAIN row.ref
<1>1. /\ Foreign("definition", "tenant", "tenant") \in References
      /\ Foreign("instance", "tenant", "tenant") \in References
      /\ Foreign("instance", "definition", "definition") \in References
  BY DEF References, WorkflowReferences
<1> QED
  BY <1>1 DEF LinkedRow, Foreign

\* Columns that are not assigned stay.
LEMMA AssignKeeps ==
    ASSUME NEW row, NEW ref, NEW val, NEW column \in DOMAIN row.ref,
           column \notin DOMAIN ref
    PROVE  Assign(row, ref, val).ref[column] = row.ref[column]
  BY DEF Assign, Over

\* A stored row with another status fits.
LEMMA StatusFits ==
    ASSUME RecordsInv, NEW k \in DOMAIN rows, NEW val
    PROVE  Fits(k, Assign(rows[k], NoColumns, val))
<1>1. DOMAIN NoColumns = {}
  BY DEF NoColumns
<1>2. LinkedRow(TableOf(k), rows[k])
  BY DEF RecordsInv, Sound, Linked
<1>3. \A column \in DOMAIN rows[k].ref :
         Assign(rows[k], NoColumns, val).ref[column] = rows[k].ref[column]
  BY <1>1, AssignKeeps
<1> QED
  BY <1>2, <1>3, TenantColumns DEF Fits

\* Old copies come from themselves.
LEMMA OldCopies ==
    ASSUME edited \subseteq edited'
    PROVE  /\ \A c \in InstanceCopies : FromInstance(c)
           /\ \A d \in DefinitionCopies : FromDefinition(d)
<1>1. \A c, column : GivenIn(c, column) => GivenIn(c, column)'
  BY DEF GivenIn
<1> QED
  BY <1>1 DEF FromInstance, FromDefinition

\* A commit of a fitting database keeps the invariant.
LEMMA CommitAgrees ==
    ASSUME AgreeInv, KeysInv, NEW db, NEW left \in SUBSET saves, NEW deleting,
           Commit(db, left, deleting), Fitting(db), edited \subseteq edited',
           \A e \in edited' : e[1] \in Known \cup DOMAIN db
    PROVE  AgreeInv'
<1>1. /\ \A y \in saves' :
            \E w \in left :
               /\ y.by = w.by /\ y.key = w.key /\ y.row = w.row
               /\ y.asked = w.asked /\ y.number = w.number
               /\ ~y.stale => ~w.stale /\ SameAt(db, w.key)
      /\ rows' = db /\ Known' = Known \cup DOMAIN db
  BY CommitLeaves
<1>2. ASSUME NEW x \in saves', NEW key
      PROVE  \E w \in saves :
                /\ x.by = w.by
                /\ Copy(x.key, x.row.ref, x.asked) = Copy(w.key, w.row.ref, w.asked)
                /\ Copy(key, x.row.ref, {}) = Copy(key, w.row.ref, {})
  <2>1. PICK w \in left :
           /\ x.by = w.by /\ x.key = w.key /\ x.row = w.row
           /\ x.asked = w.asked /\ x.number = w.number
           /\ ~x.stale => ~w.stale /\ SameAt(db, w.key)
    BY <1>1, <1>2, Zenon
  <2> QED
    BY <2>1
<1>3. ASSUME NEW c \in Copies'
      PROVE  c \in Copies \/ \E k \in DOMAIN db : c = Copy(k, db[k].ref, {})
  <2>1. CASE \E k \in DOMAIN rows' : c = Copy(k, rows'[k].ref, {})
    BY <1>1, <2>1
  <2>2. CASE \E x \in saves' : x.by = "edit" /\ c = Copy(x.key, x.row.ref, x.asked)
    BY <1>2, <2>2 DEF Copies
  <2>3. c \in {Copy(k, rows'[k].ref, {}) : k \in DOMAIN rows'} \cup
              {Copy(w.key, w.row.ref, w.asked) : w \in {x \in saves' : x.by = "edit"}}
    BY <1>3 DEF Copies, Copy
  <2> QED
    BY <2>1, <2>2, <2>3
<1>4. ASSUME NEW k \in DOMAIN db, EditedRow(k, db[k])
      PROVE  \E b \in Copies :
                /\ b.key = k /\ b.ref = db[k].ref
                /\ \A column : GivenIn(b, column) =>
                                  <<k, column>> \in edited'
  <2>1. PICK w \in saves : /\ w.by = "edit" /\ w.key = k /\ w.row = db[k]
                           /\ \A column \in w.asked : <<k, column>> \in edited'
    BY <1>4 DEF EditedRow
  <2> DEFINE b == Copy(w.key, w.row.ref, w.asked)
  <2>2. b \in Copies
    BY <2>1 DEF Copies
  <2>3. b.key = k /\ b.ref = db[k].ref /\ b.asked = w.asked
    BY <2>1 DEF Copy
  <2>4. ASSUME NEW column, GivenIn(b, column) PROVE <<k, column>> \in edited'
    BY <2>1, <2>3, <2>4 DEF GivenIn
  <2> HIDE DEF b
  <2> QED
    BY <2>2, <2>3, <2>4
<1>5. ASSUME NEW k \in DOMAIN rows
      PROVE  \E b \in Copies :
                /\ b.key = k /\ b.ref = rows[k].ref
                /\ \A column : GivenIn(b, column) =>
                                  <<k, column>> \in edited'
  <2> DEFINE b == Copy(k, rows[k].ref, {})
  <2>1. b \in Copies /\ b.key = k /\ b.ref = rows[k].ref /\ b.asked = {}
    BY DEF Copies, Copy
  <2>2. ASSUME NEW column, GivenIn(b, column) PROVE <<k, column>> \in edited'
    BY <2>1, <2>2 DEF GivenIn
  <2> HIDE DEF b
  <2> QED
    BY <2>1, <2>2
<1>6. ASSUME NEW c \in InstanceCopies'
      PROVE  /\ c.ref.definition \in Known'
             /\ \/ FromInstance(c) \/ FromTrigger(c)
                \/ <<c.key, "created">> \in edited'
  <2>1. CASE c \in InstanceCopies
    BY <1>1, <2>1, OldCopies DEF AgreeInv
  <2>2. CASE \E x \in saves' : x.by = "trigger" /\ c = Copy(Null, x.row.ref, {})
    <3>1. c \in InstanceCopies
      BY <1>2, <2>2 DEF InstanceCopies
    <3> QED
      BY <2>1, <3>1
  <2>3. CASE c \in Copies' /\ TableOf(c.key) = "instance"
    <3>1. CASE c \in Copies
      BY <2>1, <2>3, <3>1 DEF InstanceCopies
    <3>2. ASSUME NEW k \in DOMAIN db, c = Copy(k, db[k].ref, {})
          PROVE  /\ c.ref.definition \in Known'
                 /\ \/ FromInstance(c) \/ FromTrigger(c)
                    \/ <<c.key, "created">> \in edited'
      <4>1. c.key = k /\ c.ref = db[k].ref /\ TableOf(k) = "instance"
        BY <2>3, <3>2 DEF Copy
      <4>2. c.ref.definition \in Known'
        <5>1. Foreign("instance", "definition", "definition") \in References
          BY DEF References, WorkflowReferences
        <5>2. NoDangling(db)
          BY DEF Commit, Accepts
        <5> QED
          BY <1>1, <4>1, <5>1, <5>2 DEF NoDangling, Foreign, Nullable
      <4>3. \A column : <<k, column>> \in edited' => GivenIn(c, column)'
        BY <4>1 DEF GivenIn
      <4>4. CASE /\ k \in DOMAIN rows
                 /\ db[k].ref.tenant = rows[k].ref.tenant
                 /\ db[k].ref.definition = rows[k].ref.definition
        <5>1. PICK b \in Copies :
                 /\ b.key = k /\ b.ref = rows[k].ref
                 /\ \A column : GivenIn(b, column) => <<k, column>> \in edited'
          BY <1>5, <4>4
        <5>2. b \in InstanceCopies
          BY <4>1, <5>1 DEF InstanceCopies
        <5> QED
          BY <4>1, <4>2, <4>3, <4>4, <5>1, <5>2 DEF FromInstance
      <4>5. CASE EditedRow(k, db[k])
        <5>1. PICK b \in Copies :
                 /\ b.key = k /\ b.ref = db[k].ref
                 /\ \A column : GivenIn(b, column) => <<k, column>> \in edited'
          BY <1>4, <4>5
        <5>2. b \in InstanceCopies
          BY <4>1, <5>1 DEF InstanceCopies
        <5> QED
          BY <4>1, <4>2, <4>3, <5>1, <5>2 DEF FromInstance
      <4>6. ASSUME NEW w \in saves, w.by = "trigger", w.row = db[k]
            PROVE  FromInstance(c)
        <5> DEFINE b == Copy(Null, w.row.ref, {})
        <5>1. /\ b \in InstanceCopies
              /\ b.key = Null /\ b.ref = db[k].ref /\ b.asked = {}
          BY <4>6 DEF InstanceCopies, Copy
        <5> HIDE DEF b
        <5>2. \A column : ~GivenIn(b, column)
          <6>1. Null \notin Known
            <7>1. TableOf(Null) \notin Tables
              BY DEF TableOf, Null, Tables
            <7> QED
              BY <7>1 DEF KeysInv
          <6>2. \A column : <<Null, column>> \in edited => Null \in Known
            BY DEF AgreeInv
          <6> QED
            BY <5>1, <6>1, <6>2 DEF GivenIn
        <5> QED
          BY <4>1, <5>1, <5>2 DEF FromInstance
      <4>7. ASSUME NEW d, BelongsTo(db[k], d) PROVE FromTrigger(c)
        <5> DEFINE b == Copy(d, rows[d].ref, {})
        <5>1. /\ b \in Copies /\ b.key = d /\ b.ref = rows[d].ref
              /\ b.asked = {} /\ TableOf(d) = "definition" /\ d \in Known
          BY <4>7 DEF BelongsTo, Stored, Copies, Copy, Known
        <5> HIDE DEF b
        <5>2. b \in DefinitionCopies
          BY <5>1 DEF DefinitionCopies
        <5> QED
          BY <4>1, <4>7, <5>1, <5>2 DEF BelongsTo, FromTrigger
      <4> QED
        BY <4>1, <4>2, <4>4, <4>5, <4>6, <4>7 DEF Fitting, Fits
    <3> QED
      BY <1>3, <2>3, <3>1, <3>2
  <2>4. \/ c \in Copies' /\ TableOf(c.key) = "instance"
        \/ \E x \in saves' : x.by = "trigger" /\ c = Copy(Null, x.row.ref, {})
    BY <1>6 DEF InstanceCopies, Copy
  <2> QED
    BY <2>2, <2>3, <2>4
<1>7. ASSUME NEW d \in DefinitionCopies'
      PROVE  FromDefinition(d) \/ NewDefinition(d)
  <2>1. d \in Copies' /\ TableOf(d.key) = "definition"
    BY <1>7 DEF DefinitionCopies
  <2>2. CASE d \in Copies
    BY <2>1, <2>2, OldCopies DEF DefinitionCopies
  <2>3. ASSUME NEW k \in DOMAIN db, d = Copy(k, db[k].ref, {})
        PROVE  FromDefinition(d) \/ NewDefinition(d)
    <3>1. d.key = k /\ d.ref = db[k].ref /\ TableOf(k) = "definition"
      BY <2>1, <2>3 DEF Copy
    <3>2. \A column : <<k, column>> \in edited' => GivenIn(d, column)'
      BY <3>1 DEF GivenIn
    <3>3. CASE k \in DOMAIN rows /\ db[k].ref.tenant = rows[k].ref.tenant
      <4>1. PICK b \in Copies :
               /\ b.key = k /\ b.ref = rows[k].ref
               /\ \A column : GivenIn(b, column) => <<k, column>> \in edited'
        BY <1>5, <3>3
      <4>2. b \in DefinitionCopies
        BY <3>1, <4>1 DEF DefinitionCopies
      <4> QED
        BY <3>1, <3>2, <3>3, <4>1, <4>2 DEF FromDefinition
    <3>4. CASE EditedRow(k, db[k])
      <4>1. PICK b \in Copies :
               /\ b.key = k /\ b.ref = db[k].ref
               /\ \A column : GivenIn(b, column) => <<k, column>> \in edited'
        BY <1>4, <3>4
      <4>2. b \in DefinitionCopies
        BY <3>1, <4>1 DEF DefinitionCopies
      <4> QED
        BY <3>1, <3>2, <4>1, <4>2 DEF FromDefinition
    <3>5. CASE k \notin Known
      BY <1>1, <3>1, <3>5 DEF NewDefinition
    <3> QED
      BY <3>1, <3>3, <3>4, <3>5 DEF Fitting, Fits
  <2> QED
    BY <1>3, <2>1, <2>2, <2>3
<1>8. Known \subseteq Known' /\ \A e \in edited' : e[1] \in Known'
  BY <1>1
<1> QED
  BY <1>6, <1>7, <1>8, CopiesAgree

\* Only the copies of edits and triggers are compared: a step that leaves the
\* rows and adds no other copy keeps the invariant.
LEMMA SavingAgrees ==
    ASSUME AgreeInv, KeysInv, rows' = rows, buried' = buried, edited' = edited,
           \A c \in Copies' :
              \/ c \in Copies
              \/ /\ TableOf(c.key) = "instance" =>
                       c.ref.definition \in Known /\ FromInstance(c)
                 /\ TableOf(c.key) = "definition" => FromDefinition(c),
           \A x \in saves' :
              x.by = "trigger" =>
                 \/ x \in saves
                 \/ /\ x.row.ref.definition \in Known
                    /\ FromTrigger(Copy(Null, x.row.ref, {}))
    PROVE  AgreeInv'
<1>1. Known' = Known
  BY DEF Known
<1>2. ASSUME NEW c \in InstanceCopies'
      PROVE  c.ref.definition \in Known' /\ (FromInstance(c) \/ FromTrigger(c))
  <2>1. CASE c \in InstanceCopies
    BY <1>1, <2>1, OldCopies DEF AgreeInv
  <2>2. CASE c \in Copies' /\ TableOf(c.key) = "instance"
    BY <1>1, <2>1, <2>2 DEF InstanceCopies
  <2>3. ASSUME NEW x \in saves', x.by = "trigger", c = Copy(Null, x.row.ref, {})
        PROVE  c.ref.definition \in Known' /\ (FromInstance(c) \/ FromTrigger(c))
    <3>1. CASE x \in saves
      BY <2>1, <2>3, <3>1 DEF InstanceCopies
    <3>2. c.ref = x.row.ref
      BY <2>3 DEF Copy
    <3> QED
      BY <1>1, <2>3, <3>1, <3>2
  <2>4. \/ c \in Copies' /\ TableOf(c.key) = "instance"
        \/ \E x \in saves' : x.by = "trigger" /\ c = Copy(Null, x.row.ref, {})
    BY <1>2 DEF InstanceCopies, Copy
  <2> QED
    BY <2>2, <2>3, <2>4
<1>3. ASSUME NEW d \in DefinitionCopies' PROVE FromDefinition(d)
  <2>1. d \in Copies' /\ TableOf(d.key) = "definition"
    BY <1>3 DEF DefinitionCopies
  <2> QED
    BY <2>1, OldCopies DEF DefinitionCopies
<1>4. \A e \in edited' : e[1] \in Known'
  BY <1>1 DEF AgreeInv
<1> QED
  BY <1>1, <1>2, <1>3, <1>4, CopiesAgree

\* A step that leaves the rows and adds no request.
LEMMA RestAgrees ==
    ASSUME AgreeInv, KeysInv, rows' = rows, buried' = buried, edited' = edited,
           saves' \subseteq saves
    PROVE  AgreeInv'
<1>1. Copies' \subseteq Copies
  BY DEF Copies, Copy
<1> QED
  BY <1>1, SavingAgrees

\* The reads of requests.
LEMMA ReadAgrees ==
    ASSUME RecordsInv, AgreeInv, KeysInv, NEW k \in DOMAIN rows, NEW u, NEW x,
           \/ \E e \in Edits : EditRead(k, e)
           \/ TriggerRead(k, u) \/ CancelRead(k) \/ ApproveRead(k, x)
           \/ DecideRead(k, x, u)
    PROVE  AgreeInv'
<1>1. PICK old \in Copies :
         old.key = k /\ old.ref = rows[k].ref /\ old.asked = {}
  <2> DEFINE c == Copy(k, rows[k].ref, {})
  <2>1. c \in Copies
    BY DEF Copies
  <2>2. c.key = k /\ c.ref = rows[k].ref /\ c.asked = {}
    BY DEF Copy
  <2> HIDE DEF c
  <2> QED
    BY <2>1, <2>2
<1>2. k \in Known
  BY DEF Known
<1>3. ASSUME NEW by, NEW key, NEW row, NEW asked, Saving(by, key, row, asked)
      PROVE  /\ rows' = rows /\ buried' = buried /\ edited' = edited
             /\ \A c \in Copies' :
                   c \in Copies \/ (by = "edit" /\ c = Copy(key, row.ref, asked))
             /\ \A y \in saves' : y \in saves \/ (y.by = by /\ y.row = row)
  <2> DEFINE w == Saver(requests + 1, by, key, row, asked, FALSE)
  <2>1. /\ saves' = saves \cup {w} /\ rows' = rows /\ buried' = buried
        /\ edited' = edited
    BY <1>3 DEF Saving
  <2>2. w.by = by /\ w.key = key /\ w.row = row /\ w.asked = asked
    BY DEF Saver
  <2> HIDE DEF w
  <2>3. ASSUME NEW c \in Copies'
        PROVE  c \in Copies \/ (by = "edit" /\ c = Copy(key, row.ref, asked))
    BY <2>1, <2>2, <2>3 DEF Copies, Copy
  <2> QED
    BY <2>1, <2>2, <2>3
<1>4. ASSUME NEW e \in Edits, EditRead(k, e) PROVE AgreeInv'
  <2> DEFINE row == Assign(rows[k], e.ref, e.val)
  <2>1. Saving("edit", k, row, ColumnsOf(e)) /\ NoDangling(Put(rows, k, row))
    BY <1>4 DEF EditRead, Accepts
  <2>2. \A column \in DOMAIN rows[k].ref :
           column \in ColumnsOf(e) \/ row.ref[column] = rows[k].ref[column]
    BY AssignKeeps DEF ColumnsOf
  <2>3. LinkedRow(TableOf(k), rows[k])
    BY DEF RecordsInv, Sound, Linked
  <2> HIDE DEF row
  <2>4. PICK new : /\ new = Copy(k, row.ref, ColumnsOf(e))
                   /\ new.key = k /\ new.ref = row.ref
                   /\ new.asked = ColumnsOf(e)
    <3> DEFINE c == Copy(k, row.ref, ColumnsOf(e))
    <3>1. c.key = k /\ c.ref = row.ref /\ c.asked = ColumnsOf(e)
      BY DEF Copy
    <3> QED
      BY <3>1
  <2>5. edited' = edited
    BY <1>3, <2>1
  <2>6. ASSUME TableOf(k) = "instance"
        PROVE  new.ref.definition \in Known /\ FromInstance(new)
    <3>1. new.ref.definition \in Known
      <4>1. Foreign("instance", "definition", "definition") \in References
        BY DEF References, WorkflowReferences
      <4>2. DOMAIN Put(rows, k, row) = DOMAIN rows /\ Put(rows, k, row)[k] = row
        BY DEF Put
      <4>3. row.ref.definition \in DOMAIN rows
        BY <2>1, <2>6, <4>1, <4>2 DEF NoDangling, Foreign, Nullable
      <4> QED
        BY <2>4, <4>3 DEF Known
    <3>2. old \in InstanceCopies
      BY <1>1, <2>6 DEF InstanceCopies
    <3>3. \A column : GivenIn(old, column) \/ column \in ColumnsOf(e)
                         => GivenIn(new, column)'
      BY <1>1, <2>4, <2>5 DEF GivenIn
    <3>4. /\ "tenant" \in ColumnsOf(e) \/ row.ref.tenant = rows[k].ref.tenant
          /\ \/ "definition" \in ColumnsOf(e)
             \/ row.ref.definition = rows[k].ref.definition
      BY <2>2, <2>3, <2>6, TenantColumns
    <3> QED
      BY <1>1, <2>4, <3>1, <3>2, <3>3, <3>4 DEF FromInstance
  <2>7. ASSUME TableOf(k) = "definition" PROVE FromDefinition(new)
    <3>1. old \in DefinitionCopies
      BY <1>1, <2>7 DEF DefinitionCopies
    <3>2. \A column : GivenIn(old, column) \/ column \in ColumnsOf(e)
                         => GivenIn(new, column)'
      BY <1>1, <2>4, <2>5 DEF GivenIn
    <3>3. "tenant" \in ColumnsOf(e) \/ row.ref.tenant = rows[k].ref.tenant
      BY <2>2, <2>3, <2>7, TenantColumns
    <3> QED
      BY <1>1, <2>4, <3>1, <3>2, <3>3 DEF FromDefinition
  <2>8. /\ rows' = rows /\ buried' = buried /\ edited' = edited
        /\ \A c \in Copies' : c \in Copies \/ c = new
        /\ \A y \in saves' : y.by = "trigger" => y \in saves
    BY <1>3, <2>1, <2>4
  <2> QED
    BY <2>4, <2>6, <2>7, <2>8, SavingAgrees
<1>5. CASE TriggerRead(k, u)
  <2> DEFINE row == Instance(rows[k].ref.tenant, k, u, "pending")
  <2>1. Saving("trigger", Null, row, {}) /\ TableOf(k) = "definition"
    BY <1>5 DEF TriggerRead, Stored
  <2>2. row.ref.tenant = rows[k].ref.tenant /\ row.ref.definition = k
    BY DEF Instance
  <2> HIDE DEF row
  <2>3. old \in DefinitionCopies
    BY <1>1, <2>1 DEF DefinitionCopies
  <2>4. Copy(Null, row.ref, {}).ref = row.ref
    BY DEF Copy
  <2>5. FromTrigger(Copy(Null, row.ref, {}))
    BY <1>1, <1>2, <2>2, <2>3, <2>4 DEF FromTrigger
  <2>6. /\ rows' = rows /\ buried' = buried /\ edited' = edited
        /\ \A c \in Copies' : c \in Copies
        /\ \A y \in saves' : y \in saves \/ y.row = row
    BY <1>3, <2>1
  <2> QED
    BY <1>2, <2>2, <2>5, <2>6, SavingAgrees
<1>6. ASSUME NEW by, NEW key, NEW row, NEW asked, Saving(by, key, row, asked),
             by \notin {"edit", "trigger"}
      PROVE  AgreeInv'
  <2>1. /\ rows' = rows /\ buried' = buried /\ edited' = edited
        /\ \A c \in Copies' : c \in Copies
        /\ \A y \in saves' : y.by = "trigger" => y \in saves
    BY <1>3, <1>6
  <2> QED
    BY <2>1, SavingAgrees
<1>7. CASE CancelRead(k) \/ ApproveRead(k, x) \/ DecideRead(k, x, u)
  BY <1>6, <1>7 DEF CancelRead, ApproveRead, DecideRead
<1> QED
  BY <1>4, <1>5, <1>7

\* The writes of requests.
LEMMA WriteAgrees ==
    ASSUME RecordsInv, KeysInv, AgreeInv, NEW w \in saves,
           EditWrite(w) \/ TriggerWrite(w) \/ CancelWrite(w) \/ DecideWrite(w)
             \/ WriteRefused(w)
    PROVE  AgreeInv'
<1>1. Fitting(rows) /\ \A e \in edited : e[1] \in Known
  BY RowsFitting DEF AgreeInv
<1>2. CASE EditWrite(w)
  <2>1. /\ w.by = "edit" /\ Commit(WholeRow(w), saves \ {w}, deletes)
        /\ edited' = edited \cup ({w.key} \X w.asked)
    BY <1>2 DEF EditWrite
  <2>2. Fits(w.key, w.row)
    BY <2>1 DEF Fits, EditedRow
  <2>3. Fitting(WholeRow(w))
    BY <1>1, <2>2, PutFitting DEF WholeRow
  <2>4. \A e \in edited' : e[1] \in Known \cup DOMAIN WholeRow(w)
    <3>1. w.key \in DOMAIN WholeRow(w)
      BY DEF WholeRow, Put
    <3> QED
      BY <1>1, <2>1, <3>1
  <2> QED
    BY <2>1, <2>3, <2>4, CommitAgrees
<1>3. CASE TriggerWrite(w)
  <2>1. PICK k : k = Fresh("instance")
    OBVIOUS
  <2>2. /\ w.by = "trigger" /\ Commit(Put(rows, k, w.row), saves \ {w}, deletes)
        /\ edited' = edited
    BY <1>3, <2>1 DEF TriggerWrite
  <2>3. Fits(k, w.row)
    BY <2>1, <2>2, FreshTable DEF Fits
  <2>4. Fitting(Put(rows, k, w.row))
    BY <1>1, <2>3, PutFitting
  <2> QED
    BY <1>1, <2>2, <2>4, CommitAgrees
<1>4. CASE CancelWrite(w)
  <2>1. /\ w.key \in DOMAIN rows /\ Commit(NamedColumns(w), saves \ {w}, deletes)
        /\ edited' = edited
    BY <1>4 DEF CancelWrite
  <2>2. Fitting(NamedColumns(w))
    BY <1>1, <2>1, StatusFits, PutFitting DEF NamedColumns
  <2> QED
    BY <1>1, <2>1, <2>2, CommitAgrees
<1>5. CASE DecideWrite(w)
  <2>1. /\ w.by \in {"decide", "approve"}
        /\ Commit(WholeRow(w), saves \ {w}, deletes) /\ edited' = edited
    BY <1>5 DEF DecideWrite
  <2>2. Fits(w.key, w.row)
    BY <2>1 DEF Fits, RecordsInv, DecidedTasks
  <2>3. Fitting(WholeRow(w))
    BY <1>1, <2>2, PutFitting DEF WholeRow
  <2> QED
    BY <1>1, <2>1, <2>3, CommitAgrees
<1>6. CASE WriteRefused(w)
  BY <1>6, RestAgrees DEF WriteRefused
<1> QED
  BY <1>2, <1>3, <1>4, <1>5, <1>6

\* The steps of the engine.
LEMMA EngineAgrees ==
    ASSUME RecordsInv, KeysInv, AgreeInv, EngineStep
    PROVE  AgreeInv'
<1>1. Fitting(rows) /\ \A e \in edited : e[1] \in Known
  BY RowsFitting DEF AgreeInv
<1>2. ASSUME NEW i, NEW db, EngineCommit(i, db), Fitting(db)
      PROVE  AgreeInv'
  BY <1>1, <1>2, CommitAgrees DEF EngineCommit
<1>3. ASSUME NEW i \in DOMAIN rows, NEW s, EngineMoves(i, s) PROVE AgreeInv'
  BY <1>1, <1>2, <1>3, StatusFits, PutFitting DEF EngineMoves
<1>4. ASSUME NEW k, NEW row, TableOf(k) \in {"step", "task"}
      PROVE  Fits(k, row)
  BY <1>4 DEF Fits
<1>5. ASSUME NEW i \in DOMAIN rows, EngineBeginsStep(i) PROVE AgreeInv'
  <2>1. PICK k : k = Fresh("step")
    OBVIOUS
  <2>2. TableOf(k) = "step"
    BY <2>1, FreshTable
  <2> QED
    BY <1>1, <1>2, <1>4, <1>5, <2>1, <2>2, PutFitting DEF EngineBeginsStep
<1>6. ASSUME NEW k \in DOMAIN rows, NEW s, EngineEndsStep(k, s) PROVE AgreeInv'
  BY <1>1, <1>2, <1>6, StatusFits, PutFitting DEF EngineEndsStep
<1>7. ASSUME NEW i \in DOMAIN rows, EngineAsks(i) PROVE AgreeInv'
  <2>1. PICK k : k = Fresh("task")
    OBVIOUS
  <2>2. TableOf(k) = "task"
    BY <2>1, FreshTable
  <2> QED
    BY <1>1, <1>2, <1>4, <1>7, <2>1, <2>2, PutFitting DEF EngineAsks
<1>8. ASSUME NEW v \in resumed, EngineResumes(v) PROVE AgreeInv'
  <2> DEFINE i == rows[v.task].ref.instance
             decision == Lowered[v.decision]
             decided == Put(rows, v.task,
                            Assign(rows[v.task], NoColumns, [status |-> decision]))
             status == IF decision = "rejected" THEN "failed" ELSE "running"
             db == Put(decided, i, Assign(rows[i], NoColumns, [status |-> status]))
  <2>1. v.task \in DOMAIN rows /\ EngineCommit(i, db)
    BY <1>8 DEF EngineResumes
  <2>2. i \in DOMAIN rows
    <3>1. Foreign("task", "instance", "instance") \in References
      BY DEF References, WorkflowReferences
    <3>2. TableOf(v.task) = "task"
      BY DEF RecordsInv, DecidedTasks
    <3> QED
      BY <2>1, <3>1, <3>2
         DEF RecordsInv, Sound, Accepts, NoDangling, Foreign, Nullable
  <2>3. Fitting(decided)
    BY <1>1, <2>1, StatusFits, PutFitting
  <2>4. Fits(i, Assign(rows[i], NoColumns, [status |-> status]))
    BY <2>2, StatusFits
  <2> HIDE DEF i, decided, status
  <2>5. Fitting(db)
    BY <2>3, <2>4, PutFitting
  <2> HIDE DEF db
  <2> QED
    BY <1>2, <2>1, <2>5
<1> QED
  BY <1>3, <1>5, <1>6, <1>7, <1>8 DEF EngineStep

\* Every step keeps the invariant.
LEMMA StepAgrees ==
    RecordsInv /\ KeysInv /\ AgreeInv /\ [RecordsNext]_recordVars
        => AgreeInv'
<1> SUFFICES ASSUME RecordsInv, KeysInv, AgreeInv,
                    [RecordsNext]_recordVars
             PROVE  AgreeInv'
  OBVIOUS
<1>1. Fitting(rows) /\ \A e \in edited : e[1] \in Known
  BY RowsFitting DEF AgreeInv
<1>2. CASE UNCHANGED recordVars
  BY <1>2, RestAgrees DEF recordVars
<1>3. CASE EngineStep
  BY <1>3, EngineAgrees
<1>4. ASSUME NEW d \in Drafts, Create(d) PROVE AgreeInv'
  <2>1. PICK k : k = Fresh(d.table)
    OBVIOUS
  <2>2. /\ Commit(Put(rows, k, d.row), saves, deletes)
        /\ edited' = edited \cup {<<k, "created">>}
    BY <1>4, <2>1 DEF Create
  <2>3. k \notin Known
    BY <2>1, FreshIsNew, RecordsAssumption
  <2>4. Fits(k, d.row)
    BY <2>2, <2>3 DEF Fits
  <2>5. Fitting(Put(rows, k, d.row))
    BY <1>1, <2>4, PutFitting
  <2>6. k \in DOMAIN Put(rows, k, d.row)
    BY DEF Put
  <2>7. \A e \in edited' : e[1] \in Known \cup DOMAIN Put(rows, k, d.row)
    BY <1>1, <2>2, <2>6
  <2> QED
    BY <2>2, <2>5, <2>7, CommitAgrees
<1>5. ASSUME NEW k \in DOMAIN rows,
             \/ CancelRead(k)
             \/ \E e \in Edits : EditRead(k, e)
             \/ \E u \in Users : TriggerRead(k, u)
             \/ \E x \in Posts : ApproveRead(k, x)
             \/ \E x \in Decisions, u \in Users : DecideRead(k, x, u)
      PROVE  AgreeInv'
  <2>1. PICK u, x : \/ \E e \in Edits : EditRead(k, e)
                    \/ TriggerRead(k, u) \/ CancelRead(k) \/ ApproveRead(k, x)
                    \/ DecideRead(k, x, u)
    BY <1>5
  <2> QED
    BY <2>1, ReadAgrees
<1>6. ASSUME NEW w \in saves,
             EditWrite(w) \/ TriggerWrite(w) \/ CancelWrite(w) \/ DecideWrite(w)
               \/ WriteRefused(w)
      PROVE  AgreeInv'
  BY <1>6, WriteAgrees
<1>7. ASSUME NEW d \in deletes, DeleteWrite(d) PROVE AgreeInv'
  <2> DEFINE db == AfterDelete(rows, d.doomed)
  <2>1. Commit(db, saves, deletes \ {d}) /\ edited' = edited
    BY <1>7 DEF DeleteWrite
  <2>2. ASSUME NEW k \in DOMAIN db PROVE Fits(k, db[k])
    <3>1. k \in DOMAIN rows /\ db[k] = Unlinked(rows[k], d.doomed)
      BY <2>2 DEF AfterDelete
    <3>2. LinkedRow(TableOf(k), rows[k])
      BY <3>1 DEF RecordsInv, Sound, Linked
    <3>3. \A column \in DOMAIN rows[k].ref :
             ~Nullable(column) => db[k].ref[column] = rows[k].ref[column]
      BY <3>1 DEF Unlinked
    <3> HIDE DEF db
    <3>4. ~Nullable("tenant") /\ ~Nullable("definition")
      BY DEF Nullable
    <3> QED
      BY <3>1, <3>2, <3>3, <3>4, TenantColumns DEF Fits
  <2> HIDE DEF db
  <2>3. Fitting(db)
    BY <2>2 DEF Fitting
  <2> QED
    BY <1>1, <2>1, <2>3, CommitAgrees
<1>8. CASE \/ \E k \in DOMAIN rows : DeleteRead(k)
           \/ \E d \in deletes : DeleteRefused(d)
           \/ CountTotal \/ CountRunning \/ CountCompleted \/ ClosePage
  BY <1>8, RestAgrees DEF DeleteRead, DeleteRefused, CountTotal, CountRunning,
                          CountCompleted, ClosePage
<1>9. CASE CallStep
  BY <1>9, RestAgrees DEF CallStep, Arrives, LoseCall
<1> QED
  BY <1>2, <1>3, <1>4, <1>5, <1>6, <1>7, <1>8, <1>9 DEF RecordsNext, WebStep

LEMMA InitAgrees == RecordsInit /\ TenantsAgree => AgreeInv
<1> SUFFICES ASSUME RecordsInit, TenantsAgree PROVE AgreeInv
  OBVIOUS
<1>1. NoDangling(rows) /\ saves = {} /\ edited = {}
  BY RecordsAssumption DEF RecordsInit, Accepts
<1>2. Copies = {Copy(k, rows[k].ref, {}) : k \in DOMAIN rows}
  BY <1>1 DEF Copies
<1>3. ASSUME NEW c \in InstanceCopies \cup DefinitionCopies
      PROVE  c.key \in DOMAIN rows /\ c.ref = rows[c.key].ref
  <2>1. c \in Copies
    BY <1>1, <1>3 DEF InstanceCopies, DefinitionCopies
  <2>2. PICK k \in DOMAIN rows : c = Copy(k, rows[k].ref, {})
    BY <1>2, <2>1
  <2> QED
    BY <2>2 DEF Copy
<1>4. ASSUME NEW c \in InstanceCopies
      PROVE  /\ c.key \in Stored("instance")
             /\ c.ref.definition \in Known
  <2>1. TableOf(c.key) = "instance"
    BY <1>1, <1>4 DEF InstanceCopies
  <2>2. Foreign("instance", "definition", "definition") \in References
    BY DEF References, WorkflowReferences
  <2> QED
    BY <1>1, <1>3, <2>1, <2>2
       DEF NoDangling, Foreign, Nullable, Known, Stored
<1>5. ASSUME NEW c \in InstanceCopies, NEW d \in DefinitionCopies,
             c.ref.definition = d.key
      PROVE  c.ref.tenant = d.ref.tenant
  BY <1>1, <1>3, <1>4, <1>5 DEF TenantsAgree
<1> QED
  BY <1>1, <1>3, <1>4, <1>5 DEF AgreeInv

LEMMA AgreesShow == RecordsInv /\ AgreeInv => TenantsAgree
<1> SUFFICES ASSUME RecordsInv, AgreeInv, NEW i \in Stored("instance"),
                    NEW d, d = rows[i].ref.definition,
                    {<<i, "created">>, <<i, "tenant">>, <<i, "definition">>,
                     <<d, "tenant">>} \cap edited = {}
             PROVE  rows[i].ref.tenant = rows[d].ref.tenant
  BY DEF TenantsAgree
<1> DEFINE c == Copy(i, rows[i].ref, {})
           e == Copy(d, rows[d].ref, {})
<1>1. i \in DOMAIN rows /\ TableOf(i) = "instance"
  BY DEF Stored
<1>2. d \in DOMAIN rows /\ TableOf(d) = "definition"
  <2>1. Foreign("instance", "definition", "definition") \in References
    BY DEF References, WorkflowReferences
  <2>2. NoDangling(rows) /\ LinkedRow("instance", rows[i])
    BY <1>1 DEF RecordsInv, Sound, Accepts, Linked
  <2> QED
    BY <1>1, <2>1, <2>2 DEF NoDangling, LinkedRow, Foreign, Nullable
<1>3. c.key = i /\ c.ref = rows[i].ref /\ c.asked = {}
  BY DEF Copy
<1>4. e.key = d /\ e.ref = rows[d].ref /\ e.asked = {}
  BY DEF Copy
<1>5. c \in Copies /\ e \in Copies
  BY <1>1, <1>2 DEF Copies
<1> HIDE DEF c, e
<1>6. c \in InstanceCopies /\ e \in DefinitionCopies
  BY <1>1, <1>2, <1>3, <1>4, <1>5 DEF InstanceCopies, DefinitionCopies
<1>7. ~GivenIn(c, "tenant") /\ ~GivenIn(c, "definition") /\ ~GivenIn(e, "tenant")
  BY <1>3, <1>4 DEF GivenIn
<1> QED
  BY <1>3, <1>4, <1>6, <1>7 DEF AgreeInv

\* If instances have the tenants of their definitions at first, then only a
\* user who moves one of them, or adds the instance by hand, separates them.
THEOREM TenantsStayTogether == RecordsSpec /\ TenantsAgree => []TenantsAgree
  BY InitAgrees, AgreesShow, StepAgrees, RecordsInvariant, PTL DEF RecordsSpec
=============================================================================
