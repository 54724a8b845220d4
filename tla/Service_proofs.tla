---------------------------- MODULE Service_proofs ----------------------------
(***************************************************************************)
(* Proofs about the container, for any first database, any edits and any   *)
(* number of requests and restarts: what the tables promise also holds     *)
(* across restarts, a start never changes a row that is there, and unless  *)
(* a start was cut off at just these rows, the admin and the demonstration *)
(* instance are complete when the server first answers.                    *)
(***************************************************************************)
EXTENDS Service, Records_proofs

USE DEF callVars

(***************************************************************************)
(* Steps that leave the rows as they are, but for statuses and passwords.  *)
(***************************************************************************)
\* new has what old has in its other columns.
KeepsCells(old, new) ==
    /\ \A c \in DOMAIN old.ref : new.ref[c] = old.ref[c]
    /\ \A c \in DOMAIN old.val : c \notin {"status", "password"} =>
                                     new.val[c] = old.val[c]

Steady ==
    /\ DOMAIN rows \subseteq DOMAIN rows'
    /\ \A k \in DOMAIN rows : KeepsCells(rows[k], rows'[k])

\* Writing a status keeps the other columns.
LEMMA StatusKeepsCells ==
    ASSUME NEW row, NEW status
    PROVE  KeepsCells(row, Assign(row, NoColumns, [status |-> status]))
<1>1. DOMAIN NoColumns = {}
  BY DEF NoColumns
<1>2. /\ \A c \in DOMAIN row.ref :
            Assign(row, NoColumns, [status |-> status]).ref[c] = row.ref[c]
      /\ \A c \in DOMAIN row.val : c # "status" =>
            Assign(row, NoColumns, [status |-> status]).val[c] = row.val[c]
  BY <1>1 DEF Assign, Over
<1> QED
  BY <1>2 DEF KeepsCells

\* Storing a new row, or one that keeps the columns of the row it replaces.
LEMMA PutSteady ==
    ASSUME NEW k, NEW row, rows' = Put(rows, k, row),
           k \in DOMAIN rows => KeepsCells(rows[k], row)
    PROVE  Steady
<1>1. DOMAIN rows' = DOMAIN rows \cup {k}
  BY DEF Put
<1>2. \A x \in DOMAIN rows : rows'[x] = IF x = k THEN row ELSE rows[x]
  BY DEF Put
<1>3. \A x \in DOMAIN rows : KeepsCells(rows[x], rows[x])
  BY DEF KeepsCells
<1> QED
  BY <1>1, <1>2, <1>3 DEF Steady

LEMMA SameRowsSteady == rows' = rows => Steady
  BY DEF Steady, KeepsCells

\* The engine writes statuses and adds rows.
LEMMA EngineSteady ==
    ASSUME RecordsInv, KeysInv, EngineStep
    PROVE  Steady
<1>1. \A table \in Tables : Fresh(table) \notin DOMAIN rows
  BY FreshIsNew DEF Known
<1>2. "step" \in Tables /\ "task" \in Tables
  BY DEF Tables
<1>3. ASSUME NEW i \in DOMAIN rows, NEW s, EngineMoves(i, s) PROVE Steady
  <2>1. rows' = Put(rows, i, Assign(rows[i], NoColumns, [status |-> s]))
    BY <1>3 DEF EngineMoves, EngineCommit, Commit
  <2> QED
    BY <2>1, StatusKeepsCells, PutSteady
<1>4. ASSUME NEW i \in DOMAIN rows, EngineBeginsStep(i) PROVE Steady
  <2>1. rows' = Put(rows, Fresh("step"),
                    [ref |-> [instance |-> i],
                     val |-> [node_id |-> EngineNode, status |-> "in_progress"]])
    BY <1>4 DEF EngineBeginsStep, EngineCommit, Commit
  <2> QED
    BY <1>1, <1>2, <2>1, PutSteady
<1>5. ASSUME NEW k \in DOMAIN rows, NEW s, EngineEndsStep(k, s) PROVE Steady
  <2>1. rows' = Put(rows, k, Assign(rows[k], NoColumns, [status |-> s]))
    BY <1>5 DEF EngineEndsStep, EngineCommit, Commit
  <2> QED
    BY <2>1, StatusKeepsCells, PutSteady
<1>6. ASSUME NEW i \in DOMAIN rows, EngineAsks(i) PROVE Steady
  <2>1. rows' = Put(rows, Fresh("task"),
                    [ref |-> [instance |-> i, step_execution |-> Null,
                              assigned_to |-> Null, decision_by |-> Null],
                     val |-> [status |-> "pending"]])
    BY <1>6 DEF EngineAsks, EngineCommit, Commit
  <2> QED
    BY <1>1, <1>2, <2>1, PutSteady
<1>7. ASSUME NEW v \in resumed, EngineResumes(v) PROVE Steady
  <2> DEFINE i == rows[v.task].ref.instance
             decision == Lowered[v.decision]
             new == Assign(rows[v.task], NoColumns, [status |-> decision])
             decided == Put(rows, v.task, new)
             status == IF decision = "rejected" THEN "failed" ELSE "running"
             moved == Assign(rows[i], NoColumns, [status |-> status])
  <2>1. v.task \in DOMAIN rows /\ rows' = Put(decided, i, moved)
    BY <1>7 DEF EngineResumes, EngineCommit, Commit
  <2>2. KeepsCells(rows[v.task], new) /\ KeepsCells(rows[i], moved)
    BY StatusKeepsCells
  <2>3. \A x \in DOMAIN rows : KeepsCells(rows[x], rows[x])
    BY DEF KeepsCells
  <2>4. /\ DOMAIN decided = DOMAIN rows
        /\ \A x \in DOMAIN rows :
              decided[x] = IF x = v.task THEN new ELSE rows[x]
    BY <2>1 DEF Put
  <2>5. /\ DOMAIN rows \subseteq DOMAIN rows'
        /\ \A x \in DOMAIN rows : rows'[x] = IF x = i THEN moved ELSE decided[x]
    <3> HIDE DEF decided, i, moved
    <3> QED
      BY <2>1, <2>4 DEF Put
  <2> HIDE DEF decided, i, moved, new
  <2> QED
    BY <2>2, <2>3, <2>4, <2>5 DEF Steady
<1> QED
  BY <1>3, <1>4, <1>5, <1>6, <1>7 DEF EngineStep

(***************************************************************************)
(* What a start has got so far.                                            *)
(***************************************************************************)
\* The statements that come after the one that sets each variable.
AfterProcure == {"onboard", "trace"} \cup Trace
AfterTenant == {"member", "procure"} \cup AfterProcure
AfterAdmin == {"password", "tenant"} \cup AfterTenant

\* The variables name the rows they were set to; nothing is under way.
SeedInv ==
    /\ boot \in {"admin", "serving"} \cup AfterAdmin
    /\ DOMAIN seed = {"admin", "tenant", "procure", "inst", "step"}
    /\ ~Serving => saves = {} /\ deletes = {}
    /\ boot \in AfterAdmin =>
          /\ seed.admin \in Stored("user")
          /\ rows[seed.admin].val.username = "admin"
    /\ boot \in AfterTenant =>
          /\ seed.tenant \in Stored("tenant")
          /\ rows[seed.tenant].val.slug = "apex-corp"
    /\ boot \in AfterProcure =>
          /\ seed.procure \in Stored("definition")
          /\ rows[seed.procure].val.slug = "procurement-approval"
          /\ rows[seed.procure].ref.tenant = seed.tenant
    /\ boot \in Trace =>
          /\ seed.inst \in Stored("instance")
          /\ rows[seed.inst].ref.definition = seed.procure
    /\ boot = "task" =>
          /\ seed.step \in Stored("step")
          /\ rows[seed.step].val.node_id = "approval_gate"

\* The invariants of the tables, and of the start.
TablesInv == RecordsInv /\ KeysInv /\ PageInv /\ TypeInv
ServiceInv == TablesInv /\ SeedInv

\* A stored row has its model's columns.
LEMMA StoredColumns ==
    ASSUME TypeInv, NEW table, NEW k \in Stored(table)
    PROVE  /\ DOMAIN rows[k].ref = DOMAIN ModelOf(table).ref
           /\ DOMAIN rows[k].val = DOMAIN ModelOf(table).val
  BY DEF TypeInv, Filled, Stored, RowOf, Fills, Suits

\* What get_or_create looked for is in the row it got.
LEMMA GotCell ==
    ASSUME TypeInv, NEW table, NEW columns, NEW row,
           NEW k \in Matching(table, columns, row), NEW c \in columns,
           DOMAIN row.ref = DOMAIN ModelOf(table).ref
    PROVE  /\ k \in Stored(table)
           /\ c \in DOMAIN ModelOf(table).ref => rows[k].ref[c] = row.ref[c]
           /\ c \notin DOMAIN ModelOf(table).ref => rows[k].val[c] = row.val[c]
  BY StoredColumns DEF Matching, Cell

\* A row that is stored stays, with its columns.
LEMMA SteadyCells ==
    ASSUME TypeInv, Steady, NEW table, NEW k \in Stored(table)
    PROVE  /\ k \in Stored(table)'
           /\ \A c \in DOMAIN ModelOf(table).ref : rows'[k].ref[c] = rows[k].ref[c]
           /\ \A c \in DOMAIN ModelOf(table).val :
                 c \notin {"status", "password"} => rows'[k].val[c] = rows[k].val[c]
<1>1. k \in DOMAIN rows /\ KeepsCells(rows[k], rows'[k]) /\ k \in Stored(table)'
  BY DEF Steady, Stored
<1> QED
  BY <1>1, StoredColumns DEF KeepsCells

\* The columns that SeedInv is about.
LEMMA SeedColumns ==
    /\ "username" \in DOMAIN ModelOf("user").val
    /\ "slug" \in DOMAIN ModelOf("tenant").val
    /\ "slug" \in DOMAIN ModelOf("definition").val
    /\ "tenant" \in DOMAIN ModelOf("definition").ref
    /\ "definition" \in DOMAIN ModelOf("instance").ref
    /\ "instance" \in DOMAIN ModelOf("step").ref
    /\ "node_id" \in DOMAIN ModelOf("step").val
    /\ "instance" \in DOMAIN ModelOf("task").ref
    /\ "step_execution" \in DOMAIN ModelOf("task").ref
  BY Models DEF User, Tenant, WorkflowDefinition, WorkflowInstance,
                StepExecution, ApprovalTask

\* So do the columns that SeedInv is about.
LEMMA SteadySeeds ==
    ASSUME TypeInv, Steady
    PROVE  /\ \A table : \A k \in Stored(table) : k \in Stored(table)'
           /\ \A k \in Stored("user") : rows'[k].val.username = rows[k].val.username
           /\ \A k \in Stored("tenant") : rows'[k].val.slug = rows[k].val.slug
           /\ \A k \in Stored("definition") :
                 /\ rows'[k].val.slug = rows[k].val.slug
                 /\ rows'[k].ref.tenant = rows[k].ref.tenant
           /\ \A k \in Stored("instance") :
                 rows'[k].ref.definition = rows[k].ref.definition
           /\ \A k \in Stored("step") :
                 /\ rows'[k].val.node_id = rows[k].val.node_id
                 /\ rows'[k].ref.instance = rows[k].ref.instance
           /\ \A k \in Stored("task") :
                 /\ rows'[k].ref.instance = rows[k].ref.instance
                 /\ rows'[k].ref.step_execution = rows[k].ref.step_execution
  BY SteadyCells, SeedColumns

\* What a statement of the start has got stays so while the rows are steady.
LEMMA SeedStays ==
    ASSUME TypeInv, SeedInv, Steady, UNCHANGED <<boot, seed>>,
           ~Serving => saves' = {} /\ deletes' = {}
    PROVE  SeedInv'
  BY SteadySeeds DEF SeedInv, Serving, AfterAdmin, AfterTenant, AfterProcure, Trace

(***************************************************************************)
(* The statements of a start.                                              *)
(***************************************************************************)
\* A statement that commits nothing.
LEMMA NothingKeeps ==
    ASSUME TablesInv, Nothing, Others
    PROVE  TablesInv' /\ Steady /\ saves' = saves /\ deletes' = deletes
<1>1. /\ rows' = rows /\ buried' = buried /\ saves' = saves
      /\ deletes' = deletes /\ page' = page /\ UNCHANGED callVars
      /\ requests' = requests /\ work' = work
  BY DEF Nothing, Others
<1>2. RecordsInv'
  BY <1>1, ForgettingKeeps DEF TablesInv
<1>3. KeysInv'
  BY <1>1 DEF TablesInv, KeysInv, Known
<1>4. PageInv'
  BY <1>1 DEF TablesInv, PageInv, Stored, Count
<1>5. TypeInv'
  <2>1. requests' \in 0..MaxRequests
    BY <1>1 DEF TablesInv, TypeInv
  <2> QED
    BY <1>1, <2>1, RestTypes DEF TablesInv
<1> QED
  BY <1>1, <1>2, <1>3, <1>4, <1>5, SameRowsSteady DEF TablesInv

\* A statement that stores a row: a new one, or one that keeps the columns of
\* the row it replaces.
LEMMA InsertKeeps ==
    ASSUME TablesInv, Others, NEW k, NEW row, Inserts(k, row),
           RowOf(TableOf(k), row),
           \/ k \in DOMAIN rows /\ KeepsCells(rows[k], row)
           \/ \E table \in Tables : k = Fresh(table)
    PROVE  /\ TablesInv' /\ Steady
           /\ rows' = Put(rows, k, row)
           /\ saves = {} => saves' = {}
           /\ deletes = {} => deletes' = {}
<1> DEFINE db == Put(rows, k, row)
<1>1. Commit(db, saves, deletes) /\ UNCHANGED <<callVars, requests, work>>
  BY DEF Inserts, Others
<1>2. DOMAIN db = DOMAIN rows \cup {k} /\ Linked(db) /\ Filled(db)
  <2>1. Linked(db)
    BY RowsLinked, PutLinked DEF TablesInv, RecordsInv, Sound
  <2>2. Filled(db)
    BY PutFilled DEF TablesInv, TypeInv
  <2> QED
    BY <2>1, <2>2 DEF Put
<1>3. k \in DOMAIN rows => KeepsCells(rows[k], row)
  BY FreshIsNew DEF TablesInv, Known
<1>4. rows' = db /\ (saves = {} => saves' = {}) /\ (deletes = {} => deletes' = {})
  BY <1>1 DEF Commit
<1>5. Steady
  BY <1>3, <1>4, PutSteady
<1> HIDE DEF db
<1>6. RecordsInv'
  <2>1. \A v \in resumed' : TableOf(v.task) = "task"
    BY <1>1 DEF TablesInv, RecordsInv, DecidedTasks
  <2> QED
    BY <1>1, <1>2, <2>1, CommitKeeps DEF TablesInv
<1>7. KeysInv'
  <2>1. \/ DOMAIN db \subseteq Known
        \/ \E table \in Tables : DOMAIN db = DOMAIN rows \cup {Fresh(table)}
    BY <1>2 DEF Known
  <2> QED
    BY <1>1, <2>1, CommitKeepsKeys DEF TablesInv
<1>8. PageInv'
  BY <1>1, CommitCounts DEF TablesInv
<1>9. TypeInv'
  <2>1. ToldTyped(calls', called', resumed' \cup lost', Known \cup DOMAIN db)
    BY <1>1, ToldLonger DEF TablesInv, TypeInv
  <2>2. requests' \in 0..MaxRequests /\ work' \in 0..MaxWork
    BY <1>1 DEF TablesInv, TypeInv
  <2> QED
    BY <1>1, <1>2, <2>1, <2>2, CommitTypes DEF TablesInv
<1> QED
  BY <1>4, <1>5, <1>6, <1>7, <1>8, <1>9 DEF TablesInv, db

\* A row of a table has these columns of another.
Has(table, columns, old, row) ==
    \A c \in columns :
        /\ c \in DOMAIN ModelOf(table).ref => old.ref[c] = row.ref[c]
        /\ c \notin DOMAIN ModelOf(table).ref => old.val[c] = row.val[c]

\* get_or_create: its row is stored, with the columns it was looked for by.
LEMMA GetOrCreateKeeps ==
    ASSUME TablesInv, Others, NEW table \in Tables, NEW columns, NEW row,
           RowOf(table, row), NEW k, GetOrCreate(table, columns, row, k)
    PROVE  /\ TablesInv' /\ Steady
           /\ saves = {} => saves' = {}
           /\ deletes = {} => deletes' = {}
           /\ k \in Stored(table)'
           /\ Has(table, columns, rows'[k], row)
<1>1. DOMAIN row.ref = DOMAIN ModelOf(table).ref
  BY DEF RowOf, Fills, Suits
<1>2. CASE Gets(table, columns, row, k)
  <2>1. k \in Matching(table, columns, row) /\ Nothing
    BY <1>2 DEF Gets
  <2>2. k \in Stored(table)
    BY <2>1 DEF Matching
  <2>3. Has(table, columns, rows[k], row)
    BY <1>1, <2>1, GotCell DEF TablesInv, Has
  <2>4. rows' = rows /\ Stored(table)' = Stored(table)
    BY <2>1 DEF Nothing, Stored
  <2>5. TablesInv' /\ Steady /\ saves' = saves /\ deletes' = deletes
    BY <2>1, NothingKeeps
  <2> QED
    BY <2>2, <2>3, <2>4, <2>5
<1>3. CASE Makes(table, columns, row, k)
  <2>1. k = Fresh(table) /\ Inserts(k, row) /\ TableOf(k) = table
    BY <1>3, FreshTable DEF Makes
  <2>2. /\ TablesInv' /\ Steady /\ rows' = Put(rows, k, row)
        /\ saves = {} => saves' = {}
        /\ deletes = {} => deletes' = {}
    BY <2>1, InsertKeeps
  <2>3. k \in Stored(table)' /\ rows'[k] = row
    BY <2>1, <2>2 DEF Put, Stored
  <2> QED
    BY <2>2, <2>3 DEF Has
<1> QED
  BY <1>2, <1>3 DEF GetOrCreate

\* The rows that the statements insert.
LEMMA SeedRows ==
    ASSUME TablesInv, SeedInv
    PROVE  /\ RowOf("user", AdminUser)
           /\ RowOf("user", Assign(AdminUser, NoColumns, [password |-> "admin123"]))
           /\ RowOf("tenant", ApexCorp)
           /\ boot = "member" => RowOf("membership", Owner)
           /\ boot \in AfterTenant =>
                 /\ RowOf("definition", Workflow("procurement-approval"))
                 /\ RowOf("definition", Workflow("employee-onboarding"))
           /\ boot = "trace" =>
                 RowOf("instance", Instance(seed.tenant, seed.procure, seed.admin,
                                            "waiting_approval"))
           /\ boot \in Trace =>
                 /\ RowOf("step", StepOf(seed.inst, "trigger_node", "completed"))
                 /\ RowOf("step", StepOf(seed.inst, "policy_check", "completed"))
                 /\ RowOf("step", StepOf(seed.inst, "approval_gate", "in_progress"))
           /\ boot = "task" => RowOf("task", SignOff)
<1>1. \A table : \A k \in Stored(table) : k \in KeysOf(table) /\ k \in OrNull(table)
  BY KnownKeys DEF TablesInv, Stored, Known, OrNull
<1>2. DemoTexts \subseteq Text /\ Null \in OrNull("user")
  BY ServiceAssumption DEF OrNull
<1>3. /\ "admin" \in Text /\ "" \in Text /\ "admin123" \in Text
      /\ "Apex Global Enterprise" \in Text /\ "apex-corp" \in Text
      /\ "procurement-approval" \in Text /\ "employee-onboarding" \in Text
      /\ "trigger_node" \in Text /\ "policy_check" \in Text
      /\ "approval_gate" \in Text
  BY <1>2 DEF DemoTexts
<1>0. DOMAIN NoColumns = {}
  BY DEF NoColumns
<1>4. ASSUME NEW username \in Text, NEW password \in Text
      PROVE  RowOf("user", [ref |-> NoColumns,
                            val |-> [username |-> username, password |-> password]])
  <2>1. /\ ModelOf("user").ref = NoColumns
        /\ ModelOf("user").val = [username |-> Text, password |-> Text]
    BY Models DEF User
  <2>2. Fills(NoColumns, NoColumns)
    BY <1>0 DEF Fills, Suits
  <2>3. Fills([username |-> username, password |-> password],
              [username |-> Text, password |-> Text])
    BY DEF Fills, Suits
  <2> QED
    BY <2>1, <2>2, <2>3 DEF RowOf
<1>5. RowOf("user", AdminUser)
  BY <1>3, <1>4 DEF AdminUser
<1>12. RowOf("user", Assign(AdminUser, NoColumns, [password |-> "admin123"]))
  <2>1. /\ ModelOf("user").ref = NoColumns
        /\ ModelOf("user").val = [username |-> Text, password |-> Text]
    BY Models DEF User
  <2>2. Suits(NoColumns, NoColumns)
    BY <1>0 DEF Suits
  <2>3. ASSUME NEW password \in Text
        PROVE  Suits([password |-> password], [username |-> Text, password |-> Text])
    BY DEF Suits
  <2> QED
    BY <1>3, <1>5, <2>1, <2>2, <2>3, AssignRow
<1>6. RowOf("tenant", ApexCorp)
  <2>1. ASSUME NEW name \in Text, NEW slug \in Text
        PROVE  RowOf("tenant", [ref |-> NoColumns,
                                val |-> [name |-> name, slug |-> slug]])
    <3>1. /\ ModelOf("tenant").ref = NoColumns
          /\ ModelOf("tenant").val = [name |-> Text, slug |-> Text]
      BY Models DEF Tenant
    <3>2. Fills(NoColumns, NoColumns)
      BY <1>0 DEF Fills, Suits
    <3>3. Fills([name |-> name, slug |-> slug], [name |-> Text, slug |-> Text])
      BY DEF Fills, Suits
    <3> QED
      BY <3>1, <3>2, <3>3 DEF RowOf
  <2> QED
    BY <1>3, <2>1 DEF ApexCorp
<1>7. ASSUME boot = "member" PROVE RowOf("membership", Owner)
  <2>1. seed.tenant \in KeysOf("tenant") /\ seed.admin \in KeysOf("user")
    BY <1>1, <1>7 DEF SeedInv, AfterAdmin, AfterTenant
  <2> QED
    BY <2>1, Models DEF RowOf, Fills, Suits, Owner, TenantMembership
<1>8. ASSUME boot \in AfterTenant, NEW slug \in Text
      PROVE  RowOf("definition", Workflow(slug))
  <2>1. seed.tenant \in KeysOf("tenant")
    BY <1>1, <1>8 DEF SeedInv
  <2> QED
    BY <2>1, Models DEF RowOf, Fills, Suits, Workflow, WorkflowDefinition
<1>9. ASSUME boot = "trace"
      PROVE  RowOf("instance", Instance(seed.tenant, seed.procure, seed.admin,
                                        "waiting_approval"))
  <2>1. /\ seed.tenant \in KeysOf("tenant") /\ seed.admin \in OrNull("user")
        /\ seed.procure \in KeysOf("definition")
    BY <1>1, <1>9 DEF SeedInv, AfterAdmin, AfterTenant, AfterProcure
  <2> QED
    BY <2>1, Models DEF RowOf, Fills, Suits, Instance, WorkflowInstance
<1>10. ASSUME boot \in Trace, NEW node_id \in Text,
              NEW status \in {"completed", "in_progress"}
       PROVE  RowOf("step", StepOf(seed.inst, node_id, status))
  <2>1. seed.inst \in KeysOf("instance")
    BY <1>1, <1>10 DEF SeedInv
  <2> QED
    BY <2>1, Models DEF RowOf, Fills, Suits, StepOf, StepExecution
<1>11. ASSUME boot = "task" PROVE RowOf("task", SignOff)
  <2>1. /\ seed.inst \in KeysOf("instance") /\ seed.step \in OrNull("step")
        /\ seed.admin \in OrNull("user")
    BY <1>1, <1>11 DEF SeedInv, AfterAdmin, AfterTenant, AfterProcure, Trace
  <2> QED
    BY <1>2, <2>1, Models, RecordsAssumption
       DEF RowOf, Fills, Suits, SignOff, ApprovalTask
<1> QED
  BY <1>3, <1>5, <1>6, <1>7, <1>8, <1>9, <1>10, <1>11, <1>12

\* A statement that takes nothing more with it.
LEMMA StepOn ==
    ASSUME ServiceInv, ~Serving, TypeInv, Steady,
           saves = {} => saves' = {}, deletes = {} => deletes' = {}
    PROVE  /\ saves' = {} /\ deletes' = {}
           /\ boot \in AfterAdmin =>
                 /\ seed.admin \in Stored("user")'
                 /\ rows'[seed.admin].val.username = "admin"
           /\ boot \in AfterTenant =>
                 /\ seed.tenant \in Stored("tenant")'
                 /\ rows'[seed.tenant].val.slug = "apex-corp"
           /\ boot \in AfterProcure =>
                 /\ seed.procure \in Stored("definition")'
                 /\ rows'[seed.procure].val.slug = "procurement-approval"
                 /\ rows'[seed.procure].ref.tenant = seed.tenant
           /\ boot \in Trace =>
                 /\ seed.inst \in Stored("instance")'
                 /\ rows'[seed.inst].ref.definition = seed.procure
  BY SteadySeeds
     DEF ServiceInv, SeedInv, AfterAdmin, AfterTenant, AfterProcure, Trace

\* The user.
LEMMA SeedAdminKeeps ==
    ASSUME ServiceInv, SeedAdmin \/ SetPassword
    PROVE  ServiceInv' /\ Steady
<1>1. TablesInv /\ SeedInv /\ TypeInv /\ "user" \in Tables
  BY DEF ServiceInv, TablesInv, Tables
<1>2. CASE SeedAdmin
  <2>1. PICK k \in Candidates("user") :
           \/ /\ Gets("user", {"username"}, AdminUser, k)
              /\ Goes("tenant", [seed EXCEPT !.admin = k])
           \/ /\ Makes("user", {"username"}, AdminUser, k)
              /\ Goes("password", [seed EXCEPT !.admin = k])
    BY <1>2 DEF SeedAdmin
  <2>2. /\ GetOrCreate("user", {"username"}, AdminUser, k) /\ Others
        /\ boot = "admin" /\ RowOf("user", AdminUser)
    BY <1>1, <1>2, <2>1, SeedRows DEF SeedAdmin, GetOrCreate
  <2>3. /\ TablesInv' /\ Steady
        /\ saves = {} => saves' = {}
        /\ deletes = {} => deletes' = {}
        /\ k \in Stored("user")'
        /\ Has("user", {"username"}, rows'[k], AdminUser)
    BY <1>1, <2>2, GetOrCreateKeeps
  <2>4. "username" \notin DOMAIN ModelOf("user").ref
    BY Models DEF User, NoColumns
  <2>5. k \in Stored("user")' /\ rows'[k].val.username = "admin"
    BY <2>3, <2>4 DEF Has, AdminUser
  <2>6. boot' \in {"tenant", "password"} /\ seed' = [seed EXCEPT !.admin = k]
    BY <2>1 DEF Goes
  <2>7. saves' = {} /\ deletes' = {}
    BY <1>1, <2>2, <2>3 DEF SeedInv, Serving
  <2>8. SeedInv'
    BY <1>1, <2>5, <2>6, <2>7
       DEF SeedInv, AfterAdmin, AfterTenant, AfterProcure, Trace
  <2> QED
    BY <2>3, <2>8 DEF ServiceInv
<1>3. CASE SetPassword
  <2> DEFINE row == Assign(AdminUser, NoColumns, [password |-> "admin123"])
  <2>1. /\ boot = "password" /\ Inserts(seed.admin, row) /\ Others
        /\ boot' = "tenant" /\ seed' = seed
    BY <1>3 DEF SetPassword, Inserts, Goes
  <2>2. seed.admin \in Stored("user") /\ rows[seed.admin].val.username = "admin"
    BY <1>1, <2>1 DEF SeedInv, AfterAdmin
  <2>3. seed.admin \in DOMAIN rows /\ TableOf(seed.admin) = "user"
    BY <2>2 DEF Stored
  <2>4. RowOf("user", row)
    BY <1>1, SeedRows
  <2>5. row.val.username = "admin"
    BY DEF Assign, Over, AdminUser
  <2>6. KeepsCells(rows[seed.admin], row)
    <3>1. /\ DOMAIN rows[seed.admin].ref = {}
          /\ DOMAIN rows[seed.admin].val = {"username", "password"}
      BY <1>1, <2>2, StoredColumns, Models DEF User, NoColumns
    <3> HIDE DEF row
    <3> QED
      BY <2>2, <2>5, <3>1 DEF KeepsCells
  <2> HIDE DEF row
  <2>7. /\ TablesInv' /\ Steady
        /\ rows' = Put(rows, seed.admin, row)
        /\ saves = {} => saves' = {}
        /\ deletes = {} => deletes' = {}
    BY <1>1, <2>1, <2>3, <2>4, <2>6, InsertKeeps
  <2>8. SeedInv'
    <3>1. /\ saves' = {} /\ deletes' = {}
          /\ seed.admin \in Stored("user")'
          /\ rows'[seed.admin].val.username = "admin"
      BY <1>1, <2>1, <2>7, StepOn DEF Serving, AfterAdmin
    <3> QED
      BY <1>1, <2>1, <3>1 DEF SeedInv, AfterAdmin, AfterTenant, AfterProcure, Trace
  <2> QED
    BY <2>7, <2>8 DEF ServiceInv
<1> QED
  BY <1>2, <1>3

\* The tenant and the membership.
LEMMA SeedTenantKeeps ==
    ASSUME ServiceInv, SeedTenant \/ SeedTenantFails \/ SeedMember
    PROVE  ServiceInv' /\ Steady
<1>1. /\ TablesInv /\ SeedInv /\ TypeInv
      /\ "tenant" \in Tables /\ "membership" \in Tables
  BY DEF ServiceInv, TablesInv, Tables
<1>2. CASE SeedTenant
  <2>1. PICK k \in Candidates("tenant") :
           /\ GetOrCreate("tenant", {"slug"}, ApexCorp, k)
           /\ Goes("member", [seed EXCEPT !.tenant = k])
    BY <1>2 DEF SeedTenant
  <2>2. boot = "tenant" /\ Others /\ RowOf("tenant", ApexCorp)
    BY <1>1, <1>2, SeedRows DEF SeedTenant
  <2>3. /\ TablesInv' /\ Steady
        /\ saves = {} => saves' = {}
        /\ deletes = {} => deletes' = {}
        /\ k \in Stored("tenant")'
        /\ Has("tenant", {"slug"}, rows'[k], ApexCorp)
    BY <1>1, <2>1, <2>2, GetOrCreateKeeps
  <2>4. "slug" \notin DOMAIN ModelOf("tenant").ref
    BY Models DEF Tenant, NoColumns
  <2>5. k \in Stored("tenant")' /\ rows'[k].val.slug = "apex-corp"
    BY <2>3, <2>4 DEF Has, ApexCorp
  <2>6. boot' = "member" /\ seed' = [seed EXCEPT !.tenant = k]
    BY <2>1 DEF Goes
  <2>7. /\ saves' = {} /\ deletes' = {}
        /\ seed.admin \in Stored("user")'
        /\ rows'[seed.admin].val.username = "admin"
    BY <1>1, <2>2, <2>3, StepOn DEF Serving, AfterAdmin
  <2>8. SeedInv'
    BY <1>1, <2>5, <2>6, <2>7
       DEF SeedInv, AfterAdmin, AfterTenant, AfterProcure, Trace
  <2> QED
    BY <2>3, <2>8 DEF ServiceInv
<1>3. CASE SeedTenantFails
  <2>1. /\ boot = "tenant" /\ Nothing /\ Others
        /\ boot' = "admin" /\ seed' = NoSeed
    BY <1>3 DEF SeedTenantFails, Goes
  <2>2. TablesInv' /\ Steady /\ saves' = saves /\ deletes' = deletes
    BY <1>1, <2>1, NothingKeeps
  <2>3. saves' = {} /\ deletes' = {}
    BY <1>1, <2>1, <2>2 DEF SeedInv, Serving
  <2>4. SeedInv'
    BY <2>1, <2>3
       DEF SeedInv, NoSeed, AfterAdmin, AfterTenant, AfterProcure, Trace
  <2> QED
    BY <2>2, <2>4 DEF ServiceInv
<1>4. CASE SeedMember
  <2>1. PICK k \in Candidates("membership") :
           GetOrCreate("membership", {"tenant", "user"}, Owner, k)
    BY <1>4 DEF SeedMember
  <2>2. /\ boot = "member" /\ Others /\ boot' = "procure" /\ seed' = seed
        /\ RowOf("membership", Owner)
    BY <1>1, <1>4, SeedRows DEF SeedMember, Goes
  <2>3. /\ TablesInv' /\ Steady
        /\ saves = {} => saves' = {}
        /\ deletes = {} => deletes' = {}
    <3> HIDE DEF Owner
    <3> QED
      BY <1>1, <2>1, <2>2, GetOrCreateKeeps
  <2>4. /\ saves' = {} /\ deletes' = {}
        /\ seed.admin \in Stored("user")'
        /\ rows'[seed.admin].val.username = "admin"
        /\ seed.tenant \in Stored("tenant")'
        /\ rows'[seed.tenant].val.slug = "apex-corp"
    BY <1>1, <2>2, <2>3, StepOn DEF Serving, AfterAdmin, AfterTenant
  <2>5. SeedInv'
    BY <1>1, <2>2, <2>4
       DEF SeedInv, AfterAdmin, AfterTenant, AfterProcure, Trace
  <2> QED
    BY <2>3, <2>5 DEF ServiceInv
<1> QED
  BY <1>2, <1>3, <1>4

\* The workflows, and the look for an instance.
LEMMA SeedWorkflowKeeps ==
    ASSUME ServiceInv, SeedProcurement \/ SeedOnboarding \/ SkipTrace
    PROVE  ServiceInv' /\ Steady
<1>1. TablesInv /\ SeedInv /\ TypeInv /\ "definition" \in Tables
  BY DEF ServiceInv, TablesInv, Tables
<1>2. CASE SeedProcurement
  <2> DEFINE row == Workflow("procurement-approval")
  <2>1. PICK k \in Candidates("definition") :
           /\ GetOrCreate("definition", {"tenant", "slug"}, row, k)
           /\ Goes("onboard", [seed EXCEPT !.procure = k])
    BY <1>2 DEF SeedProcurement
  <2>2. boot = "procure" /\ Others /\ boot \in AfterTenant
    BY <1>2 DEF SeedProcurement, AfterTenant
  <2>3. RowOf("definition", row)
    BY <1>1, <2>2, SeedRows
  <2>4. row.ref.tenant = seed.tenant /\ row.val.slug = "procurement-approval"
    BY DEF Workflow
  <2> HIDE DEF row
  <2>5. /\ TablesInv' /\ Steady
        /\ saves = {} => saves' = {}
        /\ deletes = {} => deletes' = {}
        /\ k \in Stored("definition")'
        /\ Has("definition", {"tenant", "slug"}, rows'[k], row)
    BY <1>1, <2>1, <2>2, <2>3, GetOrCreateKeeps
  <2>6. DOMAIN ModelOf("definition").ref = {"tenant"}
    BY Models DEF WorkflowDefinition
  <2>7. /\ rows'[k].ref.tenant = seed.tenant
        /\ rows'[k].val.slug = "procurement-approval"
    BY <2>4, <2>5, <2>6 DEF Has
  <2>8. boot' = "onboard" /\ seed' = [seed EXCEPT !.procure = k]
    BY <2>1 DEF Goes
  <2>9. /\ saves' = {} /\ deletes' = {}
        /\ seed.admin \in Stored("user")'
        /\ rows'[seed.admin].val.username = "admin"
        /\ seed.tenant \in Stored("tenant")'
        /\ rows'[seed.tenant].val.slug = "apex-corp"
    BY <1>1, <2>2, <2>5, StepOn DEF Serving, AfterAdmin, AfterTenant
  <2>10. SeedInv'
    BY <1>1, <2>5, <2>7, <2>8, <2>9
       DEF SeedInv, AfterAdmin, AfterTenant, AfterProcure, Trace
  <2> QED
    BY <2>5, <2>10 DEF ServiceInv
<1>3. CASE SeedOnboarding
  <2> DEFINE row == Workflow("employee-onboarding")
  <2>1. PICK k \in Candidates("definition") :
           GetOrCreate("definition", {"tenant", "slug"}, row, k)
    BY <1>3 DEF SeedOnboarding
  <2>2. /\ boot = "onboard" /\ Others /\ boot' = "trace" /\ seed' = seed
        /\ boot \in AfterTenant /\ boot \in AfterProcure
    BY <1>3 DEF SeedOnboarding, Goes, AfterTenant, AfterProcure
  <2>3. RowOf("definition", row)
    BY <1>1, <2>2, SeedRows
  <2> HIDE DEF row
  <2>4. /\ TablesInv' /\ Steady
        /\ saves = {} => saves' = {}
        /\ deletes = {} => deletes' = {}
    BY <1>1, <2>1, <2>2, <2>3, GetOrCreateKeeps
  <2>5. SeedInv'
    BY <1>1, <2>2, <2>4, StepOn
       DEF SeedInv, Serving, AfterAdmin, AfterTenant, AfterProcure, Trace
  <2> QED
    BY <2>4, <2>5 DEF ServiceInv
<1>4. CASE SkipTrace
  <2>1. /\ boot = "trace" /\ Nothing /\ Others
        /\ boot' = "serving" /\ seed' = NoSeed
    BY <1>4 DEF SkipTrace, Goes
  <2>2. TablesInv' /\ Steady /\ saves' = saves /\ deletes' = deletes
    BY <1>1, <2>1, NothingKeeps
  <2>3. SeedInv'
    BY <2>1
       DEF SeedInv, NoSeed, Serving, AfterAdmin, AfterTenant, AfterProcure, Trace
  <2> QED
    BY <2>2, <2>3 DEF ServiceInv
<1> QED
  BY <1>2, <1>3, <1>4

\* The demonstration instance, its steps and its task.
LEMMA SeedTraceKeeps ==
    ASSUME ServiceInv,
           SeedTrace \/ SeedStep1 \/ SeedStep2 \/ SeedStep3 \/ SeedTask
    PROVE  ServiceInv' /\ Steady
<1>1. /\ TablesInv /\ SeedInv /\ TypeInv
      /\ "instance" \in Tables /\ "step" \in Tables /\ "task" \in Tables
  BY DEF ServiceInv, TablesInv, Tables
<1>2. ASSUME NEW table \in Tables, NEW k, k = Fresh(table), NEW row,
             RowOf(table, row), Inserts(k, row), Others, boot \in AfterAdmin
      PROVE  /\ TablesInv' /\ Steady /\ k \in Stored(table)' /\ rows'[k] = row
             /\ saves = {} => saves' = {}
             /\ deletes = {} => deletes' = {}
  <2>1. TableOf(k) = table
    BY <1>2, FreshTable
  <2>2. /\ TablesInv' /\ Steady /\ rows' = Put(rows, k, row)
        /\ saves = {} => saves' = {}
        /\ deletes = {} => deletes' = {}
    BY <1>1, <1>2, <2>1, InsertKeeps
  <2>3. k \in Stored(table)' /\ rows'[k] = row
    BY <2>1, <2>2 DEF Put, Stored
  <2> QED
    BY <2>2, <2>3
<1>3. CASE SeedTrace
  <2> DEFINE row == Instance(seed.tenant, seed.procure, seed.admin,
                             "waiting_approval")
  <2>1. PICK k : k = Fresh("instance")
    OBVIOUS
  <2>2. /\ boot = "trace" /\ Inserts(k, row) /\ Others
        /\ boot' = "step1" /\ seed' = [seed EXCEPT !.inst = k]
    BY <1>3, <2>1 DEF SeedTrace, Goes
  <2>3. RowOf("instance", row)
    BY <1>1, <2>2, SeedRows
  <2>4. row.ref.definition = seed.procure
    BY DEF Instance
  <2> HIDE DEF row
  <2>5. /\ TablesInv' /\ Steady /\ k \in Stored("instance")' /\ rows'[k] = row
        /\ saves = {} => saves' = {}
        /\ deletes = {} => deletes' = {}
    BY <1>1, <1>2, <2>1, <2>2, <2>3 DEF AfterAdmin, AfterTenant, AfterProcure
  <2>6. SeedInv'
    BY <1>1, <2>2, <2>4, <2>5, StepOn
       DEF SeedInv, Serving, AfterAdmin, AfterTenant, AfterProcure, Trace
  <2> QED
    BY <2>5, <2>6 DEF ServiceInv
<1>4. ASSUME NEW node_id, NEW status, NEW next \in {"step2", "step3", "task"},
             boot \in {"step1", "step2", "step3"},
             SeedStep(boot, node_id, status, next),
             RowOf("step", StepOf(seed.inst, node_id, status)),
             next = "task" => node_id = "approval_gate"
      PROVE  ServiceInv' /\ Steady
  <2> DEFINE row == StepOf(seed.inst, node_id, status)
  <2>1. PICK k : k = Fresh("step")
    OBVIOUS
  <2>2. /\ Inserts(k, row) /\ Others
        /\ boot' = next /\ seed' = [seed EXCEPT !.step = k]
    BY <1>4, <2>1 DEF SeedStep, Goes
  <2>3. row.val.node_id = node_id
    BY DEF StepOf
  <2>4. RowOf("step", row)
    BY <1>4
  <2> HIDE DEF row
  <2>5. /\ TablesInv' /\ Steady /\ k \in Stored("step")' /\ rows'[k] = row
        /\ saves = {} => saves' = {}
        /\ deletes = {} => deletes' = {}
    BY <1>1, <1>2, <1>4, <2>1, <2>2, <2>4
       DEF AfterAdmin, AfterTenant, AfterProcure, Trace
  <2>6. SeedInv'
    BY <1>1, <1>4, <2>2, <2>3, <2>5, StepOn
       DEF SeedInv, Serving, AfterAdmin, AfterTenant, AfterProcure, Trace
  <2> QED
    BY <2>5, <2>6 DEF ServiceInv
<1>5. CASE SeedStep1
  <2>1. boot = "step1" /\ SeedStep(boot, "trigger_node", "completed", "step2")
    BY <1>5 DEF SeedStep1, SeedStep
  <2>2. RowOf("step", StepOf(seed.inst, "trigger_node", "completed"))
    BY <1>1, <2>1, SeedRows DEF Trace
  <2> QED
    BY <1>4, <2>1, <2>2
<1>6. CASE SeedStep2
  <2>1. boot = "step2" /\ SeedStep(boot, "policy_check", "completed", "step3")
    BY <1>6 DEF SeedStep2, SeedStep
  <2>2. RowOf("step", StepOf(seed.inst, "policy_check", "completed"))
    BY <1>1, <2>1, SeedRows DEF Trace
  <2> QED
    BY <1>4, <2>1, <2>2
<1>7. CASE SeedStep3
  <2>1. boot = "step3" /\ SeedStep(boot, "approval_gate", "in_progress", "task")
    BY <1>7 DEF SeedStep3, SeedStep
  <2>2. RowOf("step", StepOf(seed.inst, "approval_gate", "in_progress"))
    BY <1>1, <2>1, SeedRows DEF Trace
  <2> QED
    BY <1>4, <2>1, <2>2
<1>8. CASE SeedTask
  <2>1. PICK k : k = Fresh("task")
    OBVIOUS
  <2>2. /\ boot = "task" /\ Inserts(k, SignOff) /\ Others
        /\ boot' = "serving" /\ seed' = NoSeed
    BY <1>8, <2>1 DEF SeedTask, Goes
  <2>3. RowOf("task", SignOff)
    BY <1>1, <2>2, SeedRows
  <2>4. PICK row : row = SignOff
    OBVIOUS
  <2>5. /\ TablesInv' /\ Steady
    BY <1>1, <1>2, <2>1, <2>2, <2>3, <2>4
       DEF AfterAdmin, AfterTenant, AfterProcure, Trace
  <2>6. SeedInv'
    BY <2>2
       DEF SeedInv, NoSeed, Serving, AfterAdmin, AfterTenant, AfterProcure, Trace
  <2> QED
    BY <2>5, <2>6 DEF ServiceInv
<1> QED
  BY <1>3, <1>5, <1>6, <1>7, <1>8

LEMMA BootKeeps ==
    ASSUME ServiceInv, BootStep
    PROVE  ServiceInv' /\ Steady
  BY SeedAdminKeeps, SeedTenantKeeps, SeedWorkflowKeeps, SeedTraceKeeps DEF BootStep

(***************************************************************************)
(* The steps of the container.                                             *)
(***************************************************************************)
\* A step of the tables keeps what they promise.
LEMMA RecordsKeep ==
    ASSUME TablesInv, RecordsNext
    PROVE  TablesInv'
  BY StepKeeps, StepKeepsKeys, StepCounts, StepTypes DEF TablesInv

\* The end of the process forgets what was under way, and nothing else.
LEMMA CutKeeps ==
    ASSUME ServiceInv, Cut
    PROVE  ServiceInv' /\ Steady
<1>1. /\ boot' = "admin" /\ seed' = NoSeed /\ saves' = {} /\ deletes' = {}
      /\ page' = NoPage /\ rows' = rows /\ buried' = buried
      /\ UNCHANGED callVars
      /\ requests' = requests /\ work' = work
  BY DEF Cut
<1>2. RecordsInv'
  BY <1>1, ForgettingKeeps DEF ServiceInv, TablesInv
<1>3. KeysInv'
  BY <1>1 DEF ServiceInv, TablesInv, KeysInv, Known
<1>4. PageInv'
  BY <1>1 DEF PageInv, NoPage
<1>5. TypeInv'
  <2>1. requests' \in 0..MaxRequests
    BY <1>1 DEF ServiceInv, TablesInv, TypeInv
  <2> QED
    BY <1>1, <2>1, RestTypes DEF ServiceInv, TablesInv
<1>6. SeedInv'
  BY <1>1 DEF SeedInv, NoSeed, AfterAdmin, AfterTenant, AfterProcure, Trace
<1> QED
  BY <1>1, <1>2, <1>3, <1>4, <1>5, <1>6, SameRowsSteady DEF ServiceInv, TablesInv

\* Requests are answered only by a server that has started; the engine also
\* writes during a start, and disturbs none of the rows the start has got.
LEMMA ServiceKeeps ==
    ServiceInv /\ [ServiceNext]_serviceVars => ServiceInv'
<1> SUFFICES ASSUME ServiceInv, [ServiceNext]_serviceVars PROVE ServiceInv'
  OBVIOUS
<1>1. CASE BootStep
  BY <1>1, BootKeeps
<1>2. CASE Cut
  BY <1>2, CutKeeps
<1>3. CASE Serving /\ WebStep /\ UNCHANGED bootVars
  <2>1. TablesInv'
    BY <1>3, RecordsKeep DEF ServiceInv, RecordsNext
  <2>2. SeedInv'
    BY <1>3 DEF ServiceInv, SeedInv, bootVars, Serving, AfterAdmin, AfterTenant,
                AfterProcure, Trace
  <2> QED
    BY <2>1, <2>2 DEF ServiceInv
<1>4. CASE EngineStep /\ UNCHANGED bootVars
  <2>1. TablesInv' /\ Steady
    BY <1>4, RecordsKeep, EngineSteady DEF ServiceInv, TablesInv, RecordsNext
  <2>2. PICK db : Stores(db, deletes)
    BY <1>4, EngineStores DEF ServiceInv, TablesInv
  <2>3. (saves = {} => saves' = {}) /\ (deletes = {} => deletes' = {})
    BY <2>2 DEF Stores, Commit
  <2>4. SeedInv'
    BY <1>4, <2>1, <2>3, SeedStays DEF ServiceInv, TablesInv, SeedInv, bootVars
  <2> QED
    BY <2>1, <2>4 DEF ServiceInv
<1>5. CASE CallStep /\ UNCHANGED bootVars
  <2>1. TablesInv'
    BY <1>5, RecordsKeep DEF ServiceInv, RecordsNext
  <2>2. rows' = rows /\ saves' = saves /\ deletes' = deletes
    BY <1>5 DEF CallStep, Arrives, LoseCall
  <2>3. SeedInv'
    BY <1>5, <2>2, SameRowsSteady, SeedStays
       DEF ServiceInv, TablesInv, SeedInv, bootVars
  <2> QED
    BY <2>1, <2>3 DEF ServiceInv
<1>6. CASE UNCHANGED serviceVars
  <2>1. UNCHANGED recordVars /\ UNCHANGED bootVars
    BY <1>6 DEF serviceVars
  <2>2. TablesInv'
    BY <2>1, StepKeeps, StepKeepsKeys, StepCounts, StepTypes
       DEF ServiceInv, TablesInv
  <2>3. SeedInv'
    BY <2>1 DEF ServiceInv, SeedInv, recordVars, bootVars, Serving, Stored
  <2> QED
    BY <2>2, <2>3 DEF ServiceInv
<1> QED
  BY <1>1, <1>2, <1>3, <1>4, <1>5, <1>6 DEF ServiceNext

LEMMA InitTables == RecordsInit => TablesInv
<1> SUFFICES ASSUME RecordsInit PROVE TablesInv
  OBVIOUS
<1>1. Known = DOMAIN rows /\ saves = {}
  BY DEF RecordsInit, Known
<1>2. /\ IsFiniteSet(DOMAIN rows) /\ Numbered(DOMAIN rows) /\ RowsTyped(rows)
      /\ MaxRequests \in Nat /\ MaxWork \in Nat
  BY RecordsAssumption DEF RecordsInit
<1>3. KeysInv
  BY <1>1, <1>2 DEF KeysInv, RowsTyped
<1>4. Filled(rows)
  BY <1>2 DEF RowsTyped, Filled
<1>5. PageInv /\ TypeInv
  BY <1>2, <1>4 DEF RecordsInit, PageInv, NoPage, TypeInv, ToldTyped
<1> QED
  BY <1>3, <1>5, InitSound DEF TablesInv

LEMMA ServiceInvariant == ServiceSpec => []ServiceInv
<1>1. ServiceInit => ServiceInv
  <2> SUFFICES ASSUME ServiceInit PROVE ServiceInv
    OBVIOUS
  <2>1. TablesInv
    BY InitTables DEF ServiceInit
  <2>2. SeedInv
    BY DEF ServiceInit, RecordsInit, SeedInv, NoSeed, AfterAdmin, AfterTenant,
           AfterProcure, Trace
  <2> QED
    BY <2>1, <2>2 DEF ServiceInv
<1> QED
  BY <1>1, ServiceKeeps, PTL DEF ServiceSpec

\* Whatever the processes of the control plane were at when they ended, be it
\* between storing a row and calling the engine about it, and however often:
\* every table holds rows of its model, a task's status being any posted text.
THEOREM ServiceTypeCorrect == ServiceSpec => []RecordsTypeOK
  BY ServiceInvariant, TypesHold, PTL DEF ServiceInv, TablesInv

\* ... and a delete() that nothing has raced succeeds, restarts or not: what a
\* process had collected is forgotten with it, and none of the rows that a
\* start adds comes between the two statements of a delete().
THEOREM ServiceDeletes == ServiceSpec => []QuietDeletesSucceed
  BY ServiceInvariant, DeletesSucceed, PTL DEF ServiceInv, TablesInv

(***************************************************************************)
(* A start only adds.                                                      *)
(***************************************************************************)
\* A statement leaves every stored row as it is, but for the one it saves.
LEMMA InsertAdds ==
    ASSUME NEW k, NEW row, Inserts(k, row)
    PROVE  \A x \in DOMAIN rows :
              x \in DOMAIN rows' /\ (x # k => rows'[x] = rows[x])
<1>1. rows' = Put(rows, k, row)
  BY DEF Inserts, Commit
<1> QED
  BY <1>1 DEF Put

\* get_or_create changes no row.
LEMMA GetOrCreateAdds ==
    ASSUME KeysInv, NEW table \in Tables, NEW columns, NEW row, NEW k,
           GetOrCreate(table, columns, row, k)
    PROVE  \A x \in DOMAIN rows : x \in DOMAIN rows' /\ rows'[x] = rows[x]
<1>1. CASE Gets(table, columns, row, k)
  BY <1>1 DEF Gets, Nothing
<1>2. CASE Makes(table, columns, row, k)
  <2>1. k \notin DOMAIN rows /\ Inserts(k, row)
    BY <1>2, FreshIsNew DEF Makes, Known
  <2> QED
    BY <2>1, InsertAdds
<1> QED
  BY <1>1, <1>2 DEF GetOrCreate

LEMMA BootAdds ==
    ASSUME KeysInv, BootStep
    PROVE  \A x \in DOMAIN rows :
              /\ x \in DOMAIN rows'
              /\ rows'[x] = rows[x] \/ (boot = "password" /\ x = seed.admin)
<1> DEFINE Adds == \A x \in DOMAIN rows : x \in DOMAIN rows' /\ rows'[x] = rows[x]
<1>1. /\ "user" \in Tables /\ "tenant" \in Tables /\ "membership" \in Tables
      /\ "definition" \in Tables /\ "instance" \in Tables /\ "step" \in Tables
      /\ "task" \in Tables
  BY DEF Tables
<1>2. ASSUME NEW table \in Tables, NEW k, k = Fresh(table), NEW row, Inserts(k, row)
      PROVE  Adds
  <2>1. k \notin DOMAIN rows
    BY <1>2, FreshIsNew DEF Known
  <2> QED
    BY <1>2, <2>1, InsertAdds
<1>3. CASE SeedAdmin
  <2>1. PICK k : GetOrCreate("user", {"username"}, AdminUser, k)
    BY <1>3 DEF SeedAdmin, GetOrCreate
  <2> QED
    BY <1>1, <2>1, GetOrCreateAdds
<1>4. CASE SetPassword
  <2>1. /\ boot = "password"
        /\ Inserts(seed.admin,
                   Assign(AdminUser, NoColumns, [password |-> "admin123"]))
    BY <1>4 DEF SetPassword, Inserts
  <2> QED
    BY <2>1, InsertAdds
<1>5. CASE SeedTenant
  <2>1. PICK k : GetOrCreate("tenant", {"slug"}, ApexCorp, k)
    BY <1>5 DEF SeedTenant
  <2> QED
    BY <1>1, <2>1, GetOrCreateAdds
<1>6. CASE SeedTenantFails \/ SkipTrace
  BY <1>6 DEF SeedTenantFails, SkipTrace, Nothing
<1>7. CASE SeedMember
  <2>1. PICK k, row : GetOrCreate("membership", {"tenant", "user"}, row, k)
    BY <1>7 DEF SeedMember
  <2> QED
    BY <1>1, <2>1, GetOrCreateAdds
<1>8. CASE SeedProcurement \/ SeedOnboarding
  <2>1. PICK k, row : GetOrCreate("definition", {"tenant", "slug"}, row, k)
    BY <1>8 DEF SeedProcurement, SeedOnboarding
  <2> QED
    BY <1>1, <2>1, GetOrCreateAdds
<1>9. CASE SeedTrace
  <2>1. PICK row : Inserts(Fresh("instance"), row)
    BY <1>9 DEF SeedTrace
  <2> QED
    BY <1>1, <1>2, <2>1
<1>10. CASE SeedStep1 \/ SeedStep2 \/ SeedStep3
  <2>1. PICK row : Inserts(Fresh("step"), row)
    BY <1>10 DEF SeedStep1, SeedStep2, SeedStep3, SeedStep
  <2> QED
    BY <1>1, <1>2, <2>1
<1>11. CASE SeedTask
  <2>1. PICK row : Inserts(Fresh("task"), row)
    BY <1>11 DEF SeedTask
  <2> QED
    BY <1>1, <1>2, <2>1
<1> QED
  BY <1>3, <1>4, <1>5, <1>6, <1>7, <1>8, <1>9, <1>10, <1>11 DEF BootStep

\* For any database and any number of restarts: a statement of init_demo_data
\* changes and removes no row, but for the password of the user that the same
\* start has just added.
THEOREM SeedAdds == ServiceSpec => SeedOnlyAdds
<1> DEFINE Step == boot' # boot =>
                      \A k \in DOMAIN rows :
                         /\ k \in DOMAIN rows'
                         /\ rows'[k] = rows[k] \/ (boot = "password" /\ k = seed.admin)
<1>1. ServiceInv /\ [ServiceNext]_serviceVars => Step
  <2> SUFFICES ASSUME ServiceInv, [ServiceNext]_serviceVars, boot' # boot,
                      NEW k \in DOMAIN rows
               PROVE  /\ k \in DOMAIN rows'
                      /\ rows'[k] = rows[k] \/ (boot = "password" /\ k = seed.admin)
    OBVIOUS
  <2>1. CASE BootStep
    BY <2>1, BootAdds DEF ServiceInv, TablesInv
  <2>2. CASE Cut
    BY <2>2 DEF Cut
  <2> QED
    BY <2>1, <2>2 DEF ServiceNext, bootVars, serviceVars
<1>2. ServiceSpec => [][Step]_serviceVars
  <2> HIDE DEF Step
  <2> QED
    BY <1>1, ServiceInvariant, PTL DEF ServiceSpec
<1> QED
  BY <1>2 DEF SeedOnlyAdds

(***************************************************************************)
(* Before the first request.                                               *)
(***************************************************************************)
\* Only the user that the start has just added may be without its password,
\* unless an earlier start was cut off there.
AdminInv ==
    /\ \A k \in Stored("user") :
          rows[k].val.username = "admin" =>
             \/ rows[k].val.password = "admin123"
             \/ boot = "password" /\ k = seed.admin
             \/ Password \subseteq gaps
    /\ boot # "admin" => \E k \in Stored("user") : rows[k].val.username = "admin"

DemoNodes == {"trigger_node", "policy_check", "approval_gate"}

StepsOf(i) == {k \in Stored("step") : rows[k].ref.instance = i}
NodesOf(i) == {rows[k].val.node_id : k \in StepsOf(i)}

\* An instance the engine has no business with, with steps of these nodes.
Resting(i, nodes) ==
    /\ i \in Stored("instance") /\ i \notin called
    /\ rows[i].val.status = "waiting_approval"
    /\ NodesOf(i) = nodes

GateTask(t, i) ==
    /\ rows[t].ref.instance = i /\ rows[t].ref.step_execution # Null
    /\ rows[rows[t].ref.step_execution].val.node_id = "approval_gate"

Complete(i) ==
    Resting(i, DemoNodes) /\ \E t \in Stored("task") : GateTask(t, i)

\* The instances of a workflow that a start may take for its own.
DemoWorkflow(d) ==
    /\ rows[d].val.slug = "procurement-approval"
    /\ rows[rows[d].ref.tenant].val.slug = "apex-corp"
Demos == {i \in Stored("instance") : DemoWorkflow(rows[i].ref.definition)}

\* The nodes whose steps a start has added when it comes to a statement.
Laid(statement) ==
    CASE statement = "step1" -> {}
      [] statement = "step2" -> {"trigger_node"}
      [] statement = "step3" -> {"trigger_node", "policy_check"}
      [] statement = "task" -> DemoNodes

\* A demonstration instance is complete but for the one the start is adding.
TraceInv ==
    /\ \A i \in Demos : Complete(i) \/ (boot \in Trace /\ i = seed.inst)
    /\ boot \in Trace => Resting(seed.inst, Laid(boot))
    /\ Serving => \E i \in Stored("instance") : Complete(i)

\* No request, nothing of a request.
QuietInv ==
    /\ saves = {} /\ deletes = {} /\ calls = {} /\ resumed = {}
    /\ AdminInv
    /\ Trace \cap gaps # {} \/ TraceInv

FirstInv == requests = 0 => QuietInv

\* The first database knows neither the demo's user nor its tenant.
Unseeded ==
    /\ \A k \in Stored("user") : rows[k].val.username # "admin"
    /\ \A k \in Stored("tenant") : rows[k].val.slug # "apex-corp"

(***************************************************************************)
(* What a step may touch.                                                  *)
(***************************************************************************)
\* Only rows of this table are added or changed.
Only(table) ==
    \A x \in DOMAIN rows' :
        TableOf(x) # table => x \in DOMAIN rows /\ rows'[x] = rows[x]

LEMMA InsertOnly ==
    ASSUME NEW k, NEW row, Inserts(k, row)
    PROVE  Only(TableOf(k))
<1>1. rows' = Put(rows, k, row)
  BY DEF Inserts, Commit
<1> QED
  BY <1>1 DEF Put, Only

LEMMA GetOrCreateOnly ==
    ASSUME NEW table, NEW columns, NEW row, NEW k,
           GetOrCreate(table, columns, row, k)
    PROVE  Only(table)
<1>1. CASE Gets(table, columns, row, k)
  BY <1>1 DEF Gets, Nothing, Only
<1>2. CASE Makes(table, columns, row, k)
  BY <1>2, FreshTable, InsertOnly DEF Makes
<1> QED
  BY <1>1, <1>2 DEF GetOrCreate

\* Each statement writes to its own table.
LEMMA BootOnly ==
    ASSUME SeedInv, BootStep
    PROVE  /\ SeedAdmin \/ SetPassword => Only("user")
           /\ SeedTenant => Only("tenant")
           /\ SeedMember => Only("membership")
           /\ SeedProcurement \/ SeedOnboarding => Only("definition")
           /\ SeedTenantFails \/ SkipTrace => rows' = rows
           /\ SeedTrace => Only("instance")
           /\ SeedStep1 \/ SeedStep2 \/ SeedStep3 => Only("step")
           /\ SeedTask => Only("task")
<1>1. ASSUME SeedAdmin PROVE Only("user")
  BY <1>1, GetOrCreateOnly DEF SeedAdmin, GetOrCreate
<1>2. ASSUME SetPassword PROVE Only("user")
  <2>1. PICK row : Inserts(seed.admin, row)
    BY <1>2 DEF SetPassword, Inserts
  <2>2. TableOf(seed.admin) = "user"
    BY <1>2 DEF SetPassword, SeedInv, AfterAdmin, Stored
  <2> QED
    BY <2>1, <2>2, InsertOnly
<1>3. ASSUME SeedTenant PROVE Only("tenant")
  BY <1>3, GetOrCreateOnly DEF SeedTenant
<1>4. ASSUME SeedMember PROVE Only("membership")
  <2>1. PICK k, row : GetOrCreate("membership", {"tenant", "user"}, row, k)
    BY <1>4 DEF SeedMember
  <2> QED
    BY <2>1, GetOrCreateOnly
<1>5. ASSUME SeedProcurement \/ SeedOnboarding PROVE Only("definition")
  <2>1. PICK k, row : GetOrCreate("definition", {"tenant", "slug"}, row, k)
    BY <1>5 DEF SeedProcurement, SeedOnboarding
  <2> QED
    BY <2>1, GetOrCreateOnly
<1>6. ASSUME SeedTenantFails \/ SkipTrace PROVE rows' = rows
  BY <1>6 DEF SeedTenantFails, SkipTrace, Nothing
<1>7. ASSUME SeedTrace PROVE Only("instance")
  <2>1. PICK row : Inserts(Fresh("instance"), row)
    BY <1>7 DEF SeedTrace
  <2> QED
    BY <2>1, FreshTable, InsertOnly
<1>8. ASSUME SeedStep1 \/ SeedStep2 \/ SeedStep3 PROVE Only("step")
  <2>1. PICK row : Inserts(Fresh("step"), row)
    BY <1>8 DEF SeedStep1, SeedStep2, SeedStep3, SeedStep
  <2> QED
    BY <2>1, FreshTable, InsertOnly
<1>9. ASSUME SeedTask PROVE Only("task")
  <2>1. PICK row : Inserts(Fresh("task"), row)
    BY <1>9 DEF SeedTask
  <2> QED
    BY <2>1, FreshTable, InsertOnly
<1> QED
  BY <1>1, <1>2, <1>3, <1>4, <1>5, <1>6, <1>7, <1>8, <1>9

\* What the engine may have to do with an instance.
Concerns(i) ==
    \/ i \in called \/ rows[i].val.status = "pending"
    \/ EngineNode \in NodesOf(i)

\* The engine's step for instance i: what it adds or changes is i itself, one
\* of its steps, or a new task.
Touches(i) ==
    \A x \in DOMAIN rows' :
        \/ x \in DOMAIN rows /\ rows'[x] = rows[x]
        \/ x = i
        \/ TableOf(x) = "step" /\ rows'[x].ref.instance = i
        \/ TableOf(x) = "task" /\ x \notin DOMAIN rows

\* While no decision was taken, the engine only works on such instances.
LEMMA EngineTouches ==
    ASSUME TablesInv, resumed = {}, EngineStep
    PROVE  \E i \in Stored("instance") :
              called' = called \cup {i} /\ Concerns(i) /\ Touches(i)
<1> DEFINE Goal == \E i \in Stored("instance") :
                      called' = called \cup {i} /\ Concerns(i) /\ Touches(i)
<1>1. \A table \in Tables : Fresh(table) \notin DOMAIN rows
  BY FreshIsNew DEF TablesInv, Known
<1>2. "step" \in Tables /\ "task" \in Tables
  BY DEF Tables
<1>3. ASSUME NEW i \in DOMAIN rows, NEW s, EngineMoves(i, s) PROVE Goal
  <2>1. /\ i \in Stored("instance") /\ Runs(i) /\ called' = called \cup {i}
        /\ rows' = Put(rows, i, Assign(rows[i], NoColumns, [status |-> s]))
    BY <1>3 DEF EngineMoves, EngineCommit, Commit
  <2>2. Touches(i)
    BY <2>1 DEF Touches, Put
  <2> QED
    BY <2>1, <2>2 DEF Concerns, Runs
<1>4. ASSUME NEW i \in DOMAIN rows, EngineBeginsStep(i) PROVE Goal
  <2> DEFINE row == [ref |-> [instance |-> i],
                     val |-> [node_id |-> EngineNode, status |-> "in_progress"]]
  <2>1. PICK k : k = Fresh("step")
    OBVIOUS
  <2>2. /\ i \in Stored("instance") /\ Runs(i) /\ called' = called \cup {i}
        /\ rows' = Put(rows, k, row)
    BY <1>4, <2>1 DEF EngineBeginsStep, EngineCommit, Commit
  <2>3. TableOf(k) = "step" /\ row.ref.instance = i
    BY <2>1, FreshTable
  <2> HIDE DEF row
  <2>4. Touches(i)
    BY <2>2, <2>3 DEF Touches, Put
  <2> QED
    BY <2>2, <2>4 DEF Concerns, Runs
<1>5. ASSUME NEW k \in DOMAIN rows, NEW s, EngineEndsStep(k, s) PROVE Goal
  <2> DEFINE row == Assign(rows[k], NoColumns, [status |-> s])
             i == rows[k].ref.instance
  <2>1. /\ k \in Stored("step") /\ rows[k].val.node_id = EngineNode
        /\ called' = called \cup {i} /\ rows' = Put(rows, k, row)
    BY <1>5 DEF EngineEndsStep, EngineCommit, Commit
  <2>2. TableOf(k) = "step" /\ k \in DOMAIN rows
    BY <2>1 DEF Stored
  <2>3. i \in Stored("instance")
    BY <2>2, InstanceStored DEF TablesInv, Stored
  <2>4. row.ref.instance = i
    <3>1. "instance" \in DOMAIN rows[k].ref
      BY <2>1, StoredColumns, SeedColumns DEF TablesInv
    <3>2. KeepsCells(rows[k], row)
      BY StatusKeepsCells
    <3> HIDE DEF row
    <3> QED
      BY <3>1, <3>2 DEF KeepsCells
  <2>5. EngineNode \in NodesOf(i)
    BY <2>1 DEF NodesOf, StepsOf
  <2> HIDE DEF row, i
  <2>6. Touches(i)
    BY <2>1, <2>2, <2>4 DEF Touches, Put
  <2> QED
    BY <2>1, <2>3, <2>5, <2>6 DEF Concerns
<1>6. ASSUME NEW i \in DOMAIN rows, EngineAsks(i) PROVE Goal
  <2>1. PICK k, row : k = Fresh("task") /\ EngineCommit(i, Put(rows, k, row))
    BY <1>6 DEF EngineAsks
  <2>2. /\ i \in Stored("instance") /\ Runs(i) /\ called' = called \cup {i}
        /\ rows' = Put(rows, k, row)
    BY <1>6, <2>1 DEF EngineAsks, EngineCommit, Commit
  <2>3. TableOf(k) = "task" /\ k \notin DOMAIN rows
    BY <1>1, <1>2, <2>1, FreshTable
  <2>4. Touches(i)
    BY <2>2, <2>3 DEF Touches, Put
  <2> QED
    BY <2>2, <2>4 DEF Concerns, Runs
<1> QED
  BY <1>3, <1>4, <1>5, <1>6 DEF EngineStep

(***************************************************************************)
(* The user with the password.                                             *)
(***************************************************************************)
\* A step that adds and changes no user, and is not that of the password.
LEMMA AdminStays ==
    ASSUME TypeInv, AdminInv, Steady, gaps \subseteq gaps',
           \A x \in DOMAIN rows' :
              TableOf(x) = "user" => x \in DOMAIN rows /\ rows'[x] = rows[x],
           \/ boot' = boot /\ seed' = seed
           \/ boot # "password" /\ (boot # "admin" \/ boot' = "admin")
           \/ boot = "password" /\ boot' = "admin" /\ Password \subseteq gaps'
    PROVE  AdminInv'
<1>1. \A k \in Stored("user")' : k \in Stored("user") /\ rows'[k] = rows[k]
  BY DEF Stored
<1>2. /\ \A k \in Stored("user") : k \in Stored("user")'
      /\ \A k \in Stored("user") : rows'[k].val.username = rows[k].val.username
  BY SteadySeeds
<1>3. boot' # "admin" => \E k \in Stored("user")' : rows'[k].val.username = "admin"
  BY <1>2 DEF AdminInv
<1>4. \A k \in Stored("user")' :
         rows'[k].val.username = "admin" =>
            \/ rows'[k].val.password = "admin123"
            \/ boot' = "password" /\ k = seed'.admin
            \/ Password \subseteq gaps'
  BY <1>1 DEF AdminInv
<1> QED
  BY <1>3, <1>4 DEF AdminInv

\* get_or_create of the user, and save() with the password.
LEMMA AdminAdded ==
    ASSUME ServiceInv, ServiceInv', AdminInv, Steady, SeedAdmin \/ SetPassword
    PROVE  AdminInv'
<1>1. TypeInv /\ SeedInv /\ SeedInv' /\ KeysInv /\ "user" \in Tables
  BY DEF ServiceInv, TablesInv, Tables
<1>2. gaps' = gaps
  BY DEF SeedAdmin, SetPassword, Goes
<1>3. boot' # "admin" => \E k \in Stored("user")' : rows'[k].val.username = "admin"
  <2>1. CASE SeedAdmin
    <3>1. boot' \in AfterAdmin
      BY <2>1 DEF SeedAdmin, Goes, AfterAdmin
    <3> QED
      BY <1>1, <3>1 DEF SeedInv
  <2>2. CASE SetPassword
    <3>1. boot' \in AfterAdmin
      BY <2>2 DEF SetPassword, Goes, AfterAdmin
    <3> QED
      BY <1>1, <3>1 DEF SeedInv
  <2> QED
    BY <2>1, <2>2
<1>4. ASSUME NEW k \in Stored("user")', rows'[k].val.username = "admin"
      PROVE  \/ rows'[k].val.password = "admin123"
             \/ boot' = "password" /\ k = seed'.admin
             \/ Password \subseteq gaps'
  <2>1. CASE SeedAdmin
    <3>1. PICK j \in Candidates("user") :
             \/ /\ Gets("user", {"username"}, AdminUser, j)
                /\ Goes("tenant", [seed EXCEPT !.admin = j])
             \/ /\ Makes("user", {"username"}, AdminUser, j)
                /\ Goes("password", [seed EXCEPT !.admin = j])
      BY <2>1 DEF SeedAdmin
    <3>2. CASE Gets("user", {"username"}, AdminUser, j)
      <4>1. rows' = rows /\ k \in Stored("user") /\ boot = "admin"
        BY <2>1, <3>2 DEF SeedAdmin, Gets, Nothing, Stored
      <4> QED
        BY <1>2, <1>4, <4>1 DEF AdminInv
    <3>3. CASE /\ Makes("user", {"username"}, AdminUser, j)
               /\ Goes("password", [seed EXCEPT !.admin = j])
      <4>1. /\ rows' = Put(rows, j, AdminUser) /\ boot' = "password"
            /\ seed' = [seed EXCEPT !.admin = j]
            /\ Matching("user", {"username"}, AdminUser) = {}
        BY <3>3 DEF Makes, Inserts, Commit, Goes
      <4>2. seed'.admin = j
        BY <1>1, <4>1 DEF SeedInv
      <4>3. ASSUME k # j PROVE FALSE
        <5>1. k \in Stored("user") /\ rows'[k] = rows[k]
          BY <4>1, <4>3 DEF Stored, Put
        <5>2. "username" \notin DOMAIN rows[k].ref
          BY <1>1, <5>1, StoredColumns, Models DEF User, NoColumns
        <5>3. "username" \notin DOMAIN AdminUser.ref /\ AdminUser.val.username = "admin"
          <6>1. AdminUser.ref = NoColumns /\ AdminUser.val.username = "admin"
            BY DEF AdminUser
          <6>2. DOMAIN NoColumns = {}
            BY DEF NoColumns
          <6> QED
            BY <6>1, <6>2
        <5>4. Cell(rows[k], "username") = Cell(AdminUser, "username")
          <6> HIDE DEF AdminUser
          <6> QED
            BY <1>4, <5>1, <5>2, <5>3 DEF Cell
        <5> QED
          BY <4>1, <5>1, <5>4 DEF Matching
      <4> QED
        BY <4>1, <4>2, <4>3
    <3> QED
      BY <3>1, <3>2, <3>3 DEF Gets
  <2>2. CASE SetPassword
    <3> DEFINE row == Assign(AdminUser, NoColumns, [password |-> "admin123"])
    <3>1. boot = "password" /\ rows' = Put(rows, seed.admin, row)
      BY <2>2 DEF SetPassword, Commit
    <3>2. row.val.password = "admin123"
      BY DEF Assign, Over, AdminUser
    <3> HIDE DEF row
    <3>3. CASE k = seed.admin
      BY <3>1, <3>2, <3>3 DEF Put
    <3>4. CASE k # seed.admin
      <4>1. k \in Stored("user") /\ rows'[k] = rows[k]
        BY <3>1, <3>4 DEF Stored, Put
      <4> QED
        BY <1>2, <1>4, <3>4, <4>1 DEF AdminInv
    <3> QED
      BY <3>3, <3>4
  <2> QED
    BY <2>1, <2>2
<1> QED
  BY <1>3, <1>4 DEF AdminInv

(***************************************************************************)
(* The demonstration instance.                                             *)
(***************************************************************************)
\* A resting instance that is not touched and gets no step keeps resting.
LEMMA RestingStays ==
    ASSUME TypeInv, Steady, NEW i, NEW nodes, Resting(i, nodes),
           i \notin called', rows'[i] = rows[i],
           \A x \in Stored("step")' :
              rows'[x].ref.instance = i => x \in Stored("step")
    PROVE  Resting(i, nodes)'
<1>1. i \in Stored("instance")'
  BY SteadySeeds DEF Resting
<1>2. \A x \in Stored("step") :
         /\ x \in Stored("step")'
         /\ rows'[x].val.node_id = rows[x].val.node_id
         /\ rows'[x].ref.instance = rows[x].ref.instance
  BY SteadySeeds
<1>3. StepsOf(i)' = StepsOf(i)
  BY <1>2 DEF StepsOf
<1>4. \A x \in StepsOf(i) : rows'[x].val.node_id = rows[x].val.node_id
  BY <1>2 DEF StepsOf
<1>5. NodesOf(i)' = NodesOf(i)
  BY <1>3, <1>4 DEF NodesOf
<1> QED
  BY <1>1, <1>5 DEF Resting

\* A task stays one for the gate.
LEMMA GateStays ==
    ASSUME TablesInv, Steady, NEW i, NEW t \in Stored("task"), GateTask(t, i)
    PROVE  t \in Stored("task")' /\ GateTask(t, i)'
<1> DEFINE s == rows[t].ref.step_execution
<1>1. s \in Stored("step")
  <2>1. Foreign("task", "step_execution", "step") \in References
    BY DEF References, WorkflowReferences
  <2>2. t \in DOMAIN rows /\ TableOf(t) = "task" /\ s # Null
    BY DEF Stored, GateTask
  <2>3. LinkedRow("task", rows[t]) /\ NoDangling(rows)
    BY <2>2 DEF TablesInv, RecordsInv, Sound, Linked, Accepts
  <2> QED
    BY <2>1, <2>2, <2>3 DEF LinkedRow, NoDangling, Foreign, Stored
<1>2. /\ t \in Stored("task")'
      /\ rows'[t].ref.instance = rows[t].ref.instance
      /\ rows'[t].ref.step_execution = s
      /\ rows'[s].val.node_id = rows[s].val.node_id
  BY <1>1, SteadySeeds DEF TablesInv
<1> HIDE DEF s
<1> QED
  BY <1>2 DEF GateTask, s

LEMMA CompleteStays ==
    ASSUME TablesInv, Steady, NEW i, Complete(i), Resting(i, DemoNodes)'
    PROVE  Complete(i)'
<1>1. PICK t \in Stored("task") : GateTask(t, i)
  BY DEF Complete
<1>2. t \in Stored("task")' /\ GateTask(t, i)'
  BY <1>1, GateStays
<1> QED
  BY <1>2 DEF Complete

\* A stored instance does not become one of the demo workflow.
LEMMA DemosStay ==
    ASSUME TablesInv, Steady, NEW i \in Demos', i \in DOMAIN rows
    PROVE  i \in Demos
<1> DEFINE d == rows[i].ref.definition
           t == rows[d].ref.tenant
<1>1. i \in Stored("instance") /\ TableOf(i) = "instance"
  BY DEF Demos, Stored
<1>2. /\ Foreign("instance", "definition", "definition") \in References
      /\ Foreign("definition", "tenant", "tenant") \in References
  BY DEF References, WorkflowReferences
<1>3. NoDangling(rows) /\ \A k \in DOMAIN rows : LinkedRow(TableOf(k), rows[k])
  BY DEF TablesInv, RecordsInv, Sound, Linked, Accepts
<1>4. d \in Stored("definition")
  BY <1>1, <1>2, <1>3 DEF LinkedRow, NoDangling, Foreign, Nullable, Stored
<1>5. t \in Stored("tenant")
  <2>1. d \in DOMAIN rows /\ TableOf(d) = "definition"
    BY <1>4 DEF Stored
  <2> HIDE DEF d
  <2> QED
    BY <1>2, <1>3, <2>1 DEF LinkedRow, NoDangling, Foreign, Nullable, Stored
<1>6. /\ rows'[i].ref.definition = d /\ rows'[d].ref.tenant = t
      /\ rows'[d].val.slug = rows[d].val.slug
      /\ rows'[t].val.slug = rows[t].val.slug
  BY <1>1, <1>4, <1>5, SteadySeeds DEF TablesInv
<1>7. /\ rows'[rows'[i].ref.definition].val.slug = "procurement-approval"
      /\ rows'[rows'[rows'[i].ref.definition].ref.tenant].val.slug = "apex-corp"
  BY DEF Demos, DemoWorkflow
<1> HIDE DEF d, t
<1> QED
  BY <1>1, <1>6, <1>7 DEF Demos, DemoWorkflow, d, t

\* A statement that adds and changes no instance and no step, outside the
\* statements of the instance.
LEMMA TraceStays ==
    ASSUME TablesInv, Steady, TraceInv, called' = called,
           \A x \in DOMAIN rows' :
              TableOf(x) \in {"instance", "step"} =>
                 x \in DOMAIN rows /\ rows'[x] = rows[x],
           boot \notin Trace, boot' \notin Trace,
           boot' = "serving" => \E i \in Stored("instance") : Complete(i)
    PROVE  TraceInv'
<1>1. \A x \in Stored("step")' : x \in Stored("step")
  BY DEF Stored
<1>2. ASSUME NEW i, Complete(i) PROVE Complete(i)'
  <2>1. Resting(i, DemoNodes) /\ i \in DOMAIN rows /\ TableOf(i) = "instance"
    BY <1>2 DEF Complete, Resting, Stored
  <2>2. i \in DOMAIN rows' /\ rows'[i] = rows[i]
    BY <2>1 DEF Steady
  <2>3. Resting(i, DemoNodes)'
    BY <1>1, <2>1, <2>2, RestingStays DEF TablesInv, Resting
  <2> QED
    BY <1>2, <2>3, CompleteStays
<1>3. ASSUME NEW i \in Demos' PROVE Complete(i)'
  <2>1. i \in DOMAIN rows
    BY DEF Demos, Stored
  <2>2. Complete(i)
    BY <2>1, DemosStay DEF TraceInv
  <2> QED
    BY <1>2, <2>2
<1>4. ASSUME boot' = "serving" PROVE \E i \in Stored("instance")' : Complete(i)'
  <2>1. PICK i \in Stored("instance") : Complete(i)
    BY <1>4
  <2>2. i \in Stored("instance")'
    BY SteadySeeds DEF TablesInv
  <2> QED
    BY <1>2, <2>1, <2>2
<1> QED
  BY <1>3, <1>4 DEF TraceInv, Serving

\* A step that works on another instance leaves a resting one resting.
LEMMA RestingApart ==
    ASSUME TypeInv, Steady, NEW j, TableOf(j) = "instance", Touches(j),
           NEW i, i # j, i \notin called', NEW nodes, Resting(i, nodes)
    PROVE  Resting(i, nodes)'
<1>1. i \in Stored("instance") /\ i \in DOMAIN rows /\ TableOf(i) = "instance"
  BY DEF Resting, Stored
<1>2. i \in DOMAIN rows'
  BY <1>1 DEF Steady
<1>3. rows'[i] = rows[i]
  BY <1>1, <1>2 DEF Touches
<1>4. ASSUME NEW x \in Stored("step")', rows'[x].ref.instance = i
      PROVE  x \in Stored("step")
  <2>1. x \in DOMAIN rows' /\ TableOf(x) = "step"
    BY DEF Stored
  <2>2. x \in DOMAIN rows
    BY <1>4, <2>1 DEF Touches
  <2> QED
    BY <2>1, <2>2 DEF Stored
<1> QED
  BY <1>3, <1>4, RestingStays

\* ... and a complete one complete.
LEMMA CompleteApart ==
    ASSUME TablesInv, Steady, NEW j, TableOf(j) = "instance", Touches(j),
           NEW i, i # j, i \notin called', Complete(i)
    PROVE  Complete(i)'
<1>1. TypeInv /\ Resting(i, DemoNodes)
  BY DEF TablesInv, Complete
<1>2. Resting(i, DemoNodes)'
  BY <1>1, RestingApart
<1> QED
  BY <1>2, CompleteStays

\* The engine has nothing to do with a resting instance of the demonstration.
LEMMA Unconcerned ==
    ASSUME NEW nodes \in SUBSET DemoNodes, NEW i, Resting(i, nodes)
    PROVE  ~Concerns(i)
<1>1. EngineNode \notin DemoNodes
  BY DEF EngineNode, DemoNodes
<1> QED
  BY <1>1 DEF Resting, Concerns

LEMMA LaidNodes == \A s \in Trace : Laid(s) \in SUBSET DemoNodes
  BY DEF Laid, Trace, DemoNodes

\* While no decision was taken, the engine leaves the demonstration alone.
LEMMA EngineTrace ==
    ASSUME TablesInv, Steady, TraceInv, resumed = {}, EngineStep,
           UNCHANGED <<boot, seed>>
    PROVE  TraceInv'
<1>1. PICK j \in Stored("instance") :
         called' = called \cup {j} /\ Concerns(j) /\ Touches(j)
  BY EngineTouches
<1>2. TypeInv /\ j \in DOMAIN rows /\ TableOf(j) = "instance"
  BY DEF Stored, TablesInv
<1>3. ASSUME NEW nodes \in SUBSET DemoNodes, NEW i, Resting(i, nodes)
      PROVE  i # j /\ i \notin called'
  BY <1>1, <1>3, Unconcerned DEF Resting
<1>4. ASSUME NEW i, Complete(i) PROVE Complete(i)'
  <2>1. i # j /\ i \notin called'
    BY <1>3, <1>4 DEF Complete
  <2> QED
    BY <1>1, <1>2, <1>4, <2>1, CompleteApart
<1>5. boot \in Trace => Resting(seed.inst, Laid(boot))'
  <2> SUFFICES ASSUME boot \in Trace PROVE Resting(seed.inst, Laid(boot))'
    OBVIOUS
  <2>1. PICK i, nodes :
           i = seed.inst /\ nodes = Laid(boot) /\ nodes \in SUBSET DemoNodes
    BY LaidNodes
  <2>2. Resting(i, nodes)
    BY <2>1 DEF TraceInv
  <2>3. Resting(i, nodes)'
    BY <1>1, <1>2, <1>3, <2>1, <2>2, RestingApart
  <2>4. i = seed'.inst /\ nodes = Laid(boot')
    BY <2>1
  <2> QED
    BY <2>3, <2>4
<1>6. ASSUME NEW i \in Demos' PROVE Complete(i)' \/ (boot' \in Trace /\ i = seed'.inst)
  <2>1. i \in DOMAIN rows' /\ TableOf(i) = "instance"
    BY DEF Demos, Stored
  <2>2. i \in DOMAIN rows
    BY <1>1, <1>2, <2>1 DEF Touches
  <2>3. i \in Demos
    BY <2>2, DemosStay
  <2> QED
    BY <1>4, <2>3 DEF TraceInv
<1>7. Serving' => \E i \in Stored("instance")' : Complete(i)'
  <2> SUFFICES ASSUME Serving PROVE \E i \in Stored("instance")' : Complete(i)'
    BY DEF Serving
  <2>1. PICK i \in Stored("instance") : Complete(i)
    BY DEF TraceInv
  <2> QED
    BY <1>2, <1>4, <2>1, SteadySeeds
<1> QED
  BY <1>5, <1>6, <1>7 DEF TraceInv

\* What a statement adds to the demonstration instance touches no other.
LEMMA InsertTouches ==
    ASSUME NEW j, NEW k, NEW row, Inserts(k, row),
           \/ k = j
           \/ TableOf(k) = "step" /\ row.ref.instance = j
           \/ TableOf(k) = "task" /\ k \notin DOMAIN rows
    PROVE  Touches(j)
<1>1. rows' = Put(rows, k, row)
  BY DEF Inserts, Commit
<1> QED
  BY <1>1 DEF Put, Touches

\* The start adds an instance: it is new, and nothing refers to it.
LEMMA TraceBegins ==
    ASSUME TablesInv, Steady, TraceInv, SeedTrace, DOMAIN seed = DOMAIN NoSeed
    PROVE  TraceInv'
<1> DEFINE row == Instance(seed.tenant, seed.procure, seed.admin,
                           "waiting_approval")
<1>1. PICK j : j = Fresh("instance")
  OBVIOUS
<1>2. /\ boot = "trace" /\ Inserts(j, row) /\ called' = called
      /\ boot' = "step1" /\ seed' = [seed EXCEPT !.inst = j]
  BY <1>1 DEF SeedTrace, Goes, Others
<1>3. seed'.inst = j
  BY <1>2 DEF NoSeed
<1>4. TypeInv /\ TableOf(j) = "instance" /\ j \notin Known /\ "instance" \in Tables
  BY <1>1, FreshTable, FreshIsNew DEF TablesInv, Tables
<1>5. rows' = Put(rows, j, row) /\ row.val.status = "waiting_approval"
  BY <1>2 DEF Inserts, Commit, Instance
<1> HIDE DEF row
<1>6. Touches(j)
  BY <1>2, InsertTouches
<1>7. j \notin called
  BY <1>4 DEF TypeInv, ToldTyped
<1>8. Resting(j, {})'
  <2>1. StepsOf(j)' = {}
    <3> SUFFICES ASSUME NEW x \in Stored("step")', rows'[x].ref.instance = j
                 PROVE  FALSE
      BY DEF StepsOf
    <3>1. x \in DOMAIN rows /\ rows'[x] = rows[x] /\ TableOf(x) = "step"
      BY <1>4, <1>5 DEF Stored, Put
    <3>2. rows[x].ref.instance \in DOMAIN rows
      BY <3>1, InstanceStored DEF TablesInv
    <3> QED
      BY <1>4, <3>1, <3>2 DEF Known
  <2>2. NodesOf(j)' = {}
    BY <2>1 DEF NodesOf
  <2>3. j \in Stored("instance")' /\ rows'[j].val.status = "waiting_approval"
    BY <1>4, <1>5 DEF Put, Stored
  <2> QED
    BY <1>2, <1>7, <2>2, <2>3 DEF Resting
<1>9. ASSUME NEW i \in Demos', i # j PROVE Complete(i)'
  <2>1. i \in DOMAIN rows
    BY <1>5, <1>9 DEF Demos, Stored, Put
  <2>2. Complete(i)
    BY <1>2, <2>1, DemosStay DEF TraceInv, Trace
  <2> QED
    BY <1>2, <1>4, <1>6, <1>9, <2>2, CompleteApart DEF Complete, Resting
<1>10. Resting(seed.inst, Laid(boot))'
  BY <1>2, <1>3, <1>8 DEF Laid
<1>11. boot' \in Trace /\ ~Serving'
  BY <1>2 DEF Trace, Serving
<1> QED
  BY <1>3, <1>9, <1>10, <1>11 DEF TraceInv

\* ... and a step of it.
LEMMA TraceGrows ==
    ASSUME TablesInv, SeedInv, Steady, TraceInv, NEW node_id, NEW status,
           NEW next \in Trace, boot \in Trace,
           SeedStep(boot, node_id, status, next),
           Laid(next) = Laid(boot) \cup {node_id}
    PROVE  TraceInv'
<1> DEFINE row == StepOf(seed.inst, node_id, status)
<1>1. PICK k : k = Fresh("step")
  OBVIOUS
<1>2. PICK j : j = seed.inst
  OBVIOUS
<1>3. /\ Inserts(k, row) /\ called' = called
      /\ boot' = next /\ seed' = [seed EXCEPT !.step = k]
  BY <1>1 DEF SeedStep, Goes, Others
<1>4. seed'.inst = j
  BY <1>2, <1>3 DEF SeedInv
<1>5. TypeInv /\ TableOf(k) = "step" /\ k \notin Known /\ "step" \in Tables
  BY <1>1, FreshTable, FreshIsNew DEF TablesInv, Tables
<1>6. rows' = Put(rows, k, row) /\ row.ref.instance = j /\ row.val.node_id = node_id
  BY <1>2, <1>3 DEF Inserts, Commit, StepOf
<1> HIDE DEF row
<1>7. Touches(j)
  BY <1>3, <1>5, <1>6, InsertTouches
<1>8. /\ Resting(j, Laid(boot)) /\ j \in DOMAIN rows /\ j \in Stored("instance")
      /\ TableOf(j) = "instance"
  BY <1>2 DEF TraceInv, Resting, Stored
<1>9. Resting(j, Laid(next))'
  <2>1. StepsOf(j)' = StepsOf(j) \cup {k}
    BY <1>5, <1>6 DEF StepsOf, Stored, Put
  <2>2. /\ \A x \in StepsOf(j) : rows'[x].val.node_id = rows[x].val.node_id
        /\ rows'[k].val.node_id = node_id
    BY <1>5, <1>6 DEF StepsOf, Stored, Put, Known
  <2>3. NodesOf(j)' = NodesOf(j) \cup {node_id}
    BY <2>1, <2>2 DEF NodesOf
  <2>4. j \in Stored("instance")' /\ rows'[j] = rows[j]
    BY <1>5, <1>6, <1>8 DEF Stored, Put
  <2> QED
    BY <1>3, <1>8, <2>3, <2>4 DEF Resting
<1>10. ASSUME NEW i \in Demos', i # j PROVE Complete(i)'
  <2>1. i \in DOMAIN rows
    BY <1>5, <1>6 DEF Demos, Stored, Put
  <2>2. Complete(i)
    BY <1>2, <1>10, <2>1, DemosStay DEF TraceInv
  <2> QED
    BY <1>3, <1>7, <1>8, <1>10, <2>2, CompleteApart DEF Complete, Resting
<1>11. boot' \in Trace /\ ~Serving'
  BY <1>3 DEF Trace, Serving
<1>12. Resting(seed.inst, Laid(boot))'
  BY <1>3, <1>4, <1>9
<1> QED
  BY <1>4, <1>10, <1>11, <1>12 DEF TraceInv

\* ... and the task for its gate: with that it is complete.
LEMMA TraceEnds ==
    ASSUME TablesInv, SeedInv, Steady, TraceInv, SeedTask
    PROVE  TraceInv'
<1>1. PICK k : k = Fresh("task")
  OBVIOUS
<1>2. PICK j, row : j = seed.inst /\ row = SignOff
  OBVIOUS
<1>3. boot = "task" /\ Inserts(k, row) /\ called' = called /\ boot' = "serving"
  BY <1>1, <1>2 DEF SeedTask, Goes, Others
<1>4. TypeInv /\ TableOf(k) = "task" /\ k \notin Known /\ "task" \in Tables
  BY <1>1, FreshTable, FreshIsNew DEF TablesInv, Tables
<1>5. /\ rows' = Put(rows, k, row)
      /\ row.ref.instance = j /\ row.ref.step_execution = seed.step
  BY <1>2, <1>3 DEF Inserts, Commit, SignOff
<1>6. ASSUME NEW i, NEW nodes, Resting(i, nodes) PROVE Resting(i, nodes)'
  <2>1. i \in DOMAIN rows /\ TableOf(i) = "instance"
    BY <1>6 DEF Resting, Stored
  <2>2. rows'[i] = rows[i] /\ i \notin called'
    BY <1>3, <1>4, <1>5, <1>6, <2>1 DEF Put, Resting
  <2>3. \A x \in Stored("step")' : x \in Stored("step")
    BY <1>4, <1>5 DEF Stored, Put
  <2> QED
    BY <1>4, <1>6, <2>2, <2>3, RestingStays
<1>7. Complete(j)'
  <2>1. Resting(j, DemoNodes)
    BY <1>2, <1>3 DEF TraceInv, Trace, Laid
  <2>2. /\ seed.step \in Stored("step")
        /\ rows[seed.step].val.node_id = "approval_gate"
    BY <1>3 DEF SeedInv
  <2>3. /\ seed.step # Null
        /\ rows'[seed.step].val.node_id = "approval_gate"
    BY <1>4, <2>2, SteadySeeds DEF Stored, Null, TableOf
  <2>4. k \in Stored("task")' /\ rows'[k] = row
    BY <1>4, <1>5 DEF Stored, Put
  <2>5. GateTask(k, j)'
    BY <1>5, <2>3, <2>4 DEF GateTask
  <2> QED
    BY <1>6, <2>1, <2>4, <2>5 DEF Complete
<1>8. ASSUME NEW i \in Demos' PROVE Complete(i)'
  <2>1. i \in DOMAIN rows
    BY <1>4, <1>5 DEF Demos, Stored, Put
  <2>2. Complete(i) \/ i = j
    BY <1>2, <2>1, DemosStay DEF TraceInv
  <2>3. CASE Complete(i)
    <3>1. Resting(i, DemoNodes)'
      BY <1>6, <2>3 DEF Complete
    <3> QED
      BY <2>3, <3>1, CompleteStays
  <2> QED
    BY <1>7, <2>2, <2>3
<1>9. j \in Stored("instance")'
  BY <1>7 DEF Complete, Resting
<1>10. boot' \notin Trace
  BY <1>3 DEF Trace
<1> QED
  BY <1>7, <1>8, <1>9, <1>10 DEF TraceInv

\* An instance of the start's workflow is one of the demonstration's.
LEMMA TraceThere ==
    ASSUME SeedInv, TraceInv, SkipTrace
    PROVE  \E i \in Stored("instance") : Complete(i)
<1>1. boot = "trace" /\ boot \notin Trace /\ boot \in AfterProcure
  BY DEF SkipTrace, Trace, AfterProcure
<1>2. PICK i \in Stored("instance") : rows[i].ref.definition = seed.procure
  BY DEF SkipTrace, HasTrace
<1>3. i \in Demos
  BY <1>1, <1>2 DEF SeedInv, AfterTenant, AfterProcure, Demos, DemoWorkflow
<1> QED
  BY <1>1, <1>2, <1>3 DEF TraceInv

(***************************************************************************)
(* No step before the first request breaks it.                             *)
(***************************************************************************)
LEMMA BootAdmin ==
    ASSUME ServiceInv, ServiceInv', AdminInv, Steady, BootStep
    PROVE  AdminInv'
<1>1. CASE SeedAdmin \/ SetPassword
  BY <1>1, AdminAdded
<1>2. CASE \/ SeedTenant \/ SeedTenantFails \/ SeedMember
           \/ SeedProcurement \/ SeedOnboarding \/ SkipTrace \/ SeedTrace
           \/ SeedStep1 \/ SeedStep2 \/ SeedStep3 \/ SeedTask
  <2>1. \A x \in DOMAIN rows' :
           TableOf(x) = "user" => x \in DOMAIN rows /\ rows'[x] = rows[x]
    BY <1>2, BootOnly DEF ServiceInv, Only
  <2>2. boot # "password" /\ boot # "admin" /\ gaps' = gaps
    BY <1>2 DEF SeedTenant, SeedTenantFails, SeedMember, SeedProcurement,
                SeedOnboarding, SkipTrace, SeedTrace, SeedStep1, SeedStep2,
                SeedStep3, SeedStep, SeedTask, Goes
  <2> QED
    BY <2>1, <2>2, AdminStays DEF ServiceInv, TablesInv
<1> QED
  BY <1>1, <1>2 DEF BootStep

LEMMA BootTrace ==
    ASSUME ServiceInv, TraceInv, Steady, BootStep
    PROVE  TraceInv'
<1>1. TablesInv /\ SeedInv /\ DOMAIN seed = DOMAIN NoSeed
  BY DEF ServiceInv, SeedInv, NoSeed
<1>2. CASE SeedTrace
  BY <1>1, <1>2, TraceBegins
<1>3. CASE SeedStep1
  <2>1. boot = "step1" /\ SeedStep(boot, "trigger_node", "completed", "step2")
    BY <1>3 DEF SeedStep1, SeedStep
  <2>2. /\ Laid("step2") = Laid(boot) \cup {"trigger_node"}
        /\ "step2" \in Trace /\ boot \in Trace
    BY <2>1 DEF Laid, Trace
  <2> QED
    BY <1>1, <2>1, <2>2, TraceGrows
<1>4. CASE SeedStep2
  <2>1. boot = "step2" /\ SeedStep(boot, "policy_check", "completed", "step3")
    BY <1>4 DEF SeedStep2, SeedStep
  <2>2. /\ Laid("step3") = Laid(boot) \cup {"policy_check"}
        /\ "step3" \in Trace /\ boot \in Trace
    BY <2>1 DEF Laid, Trace
  <2> QED
    BY <1>1, <2>1, <2>2, TraceGrows
<1>5. CASE SeedStep3
  <2>1. boot = "step3" /\ SeedStep(boot, "approval_gate", "in_progress", "task")
    BY <1>5 DEF SeedStep3, SeedStep
  <2>2. /\ Laid("task") = Laid(boot) \cup {"approval_gate"}
        /\ "task" \in Trace /\ boot \in Trace
    BY <2>1 DEF Laid, Trace, DemoNodes
  <2> QED
    BY <1>1, <2>1, <2>2, TraceGrows
<1>6. CASE SeedTask
  BY <1>1, <1>6, TraceEnds
<1>7. CASE SkipTrace
  <2>1. rows' = rows /\ called' = called /\ boot' = "serving" /\ boot = "trace"
    BY <1>7 DEF SkipTrace, Nothing, Others, Goes
  <2>2. \E i \in Stored("instance") : Complete(i)
    BY <1>1, <1>7, TraceThere
  <2> QED
    BY <1>1, <2>1, <2>2, TraceStays DEF Trace
<1>8. CASE \/ SeedAdmin \/ SetPassword \/ SeedTenant \/ SeedTenantFails
           \/ SeedMember \/ SeedProcurement \/ SeedOnboarding
  <2>1. \A x \in DOMAIN rows' :
           TableOf(x) \in {"instance", "step"} =>
              x \in DOMAIN rows /\ rows'[x] = rows[x]
    BY <1>1, <1>8, BootOnly DEF Only
  <2>2. /\ called' = called /\ boot \notin Trace
        /\ boot' \notin Trace /\ boot' # "serving"
    BY <1>8 DEF SeedAdmin, SetPassword, SeedTenant, SeedTenantFails, SeedMember,
                SeedProcurement, SeedOnboarding, Goes, Others, Trace
  <2> QED
    BY <1>1, <2>1, <2>2, TraceStays
<1> QED
  BY <1>2, <1>3, <1>4, <1>5, <1>6, <1>7, <1>8 DEF BootStep

\* A statement starts no request.
LEMMA BootQuiet ==
    ASSUME BootStep
    PROVE  /\ requests' = requests /\ gaps' = gaps
           /\ calls' = calls /\ resumed' = resumed
           /\ saves = {} => saves' = {}
           /\ deletes = {} => deletes' = {}
<1>1. Others /\ gaps' = gaps
  BY DEF BootStep, SeedAdmin, SetPassword, SeedTenant, SeedTenantFails, SeedMember,
         SeedProcurement, SeedOnboarding, SkipTrace, SeedTrace, SeedStep1,
         SeedStep2, SeedStep3, SeedStep, SeedTask, Goes
<1>2. Nothing \/ \E db : Commit(db, saves, deletes)
  BY DEF BootStep, SeedAdmin, SetPassword, SeedTenant, SeedTenantFails, SeedMember,
         SeedProcurement, SeedOnboarding, SkipTrace, SeedTrace, SeedStep1,
         SeedStep2, SeedStep3, SeedStep, SeedTask, GetOrCreate, Gets, Makes, Inserts
<1>3. /\ saves = {} => saves' = {}
      /\ deletes = {} => deletes' = {}
  BY <1>2 DEF Nothing, Commit
<1> QED
  BY <1>1, <1>3 DEF Others

\* With no request under way, a step of the web process starts one, or is one
\* of a page and changes nothing else.
LEMMA WebQuiet ==
    ASSUME WebStep, requests \in Nat, requests' = 0
    PROVE  /\ requests = 0
           /\ saves = {} /\ deletes = {} =>
                 UNCHANGED <<rows, saves, deletes, calls, called, resumed>>
<1>1. ~NewRequest
  BY DEF NewRequest
<1>2. CASE \E w \in saves : \/ EditWrite(w) \/ TriggerWrite(w) \/ CancelWrite(w)
                            \/ DecideWrite(w) \/ WriteRefused(w)
  BY <1>2 DEF EditWrite, TriggerWrite, CancelWrite, DecideWrite, WriteRefused
<1>3. CASE \E d \in deletes : DeleteWrite(d) \/ DeleteRefused(d)
  BY <1>3 DEF DeleteWrite, DeleteRefused
<1>4. CASE CountRunning \/ CountCompleted \/ ClosePage
  BY <1>4 DEF CountRunning, CountCompleted, ClosePage
<1> QED
  BY <1>1, <1>2, <1>3, <1>4
     DEF WebStep, Create, DeleteRead, EditRead, TriggerRead, CancelRead, ApproveRead,
         DecideRead, CountTotal

\* The end of the process leaves a gap, or nothing that a start is at.
LEMMA CutQuiet ==
    ASSUME TablesInv, Steady, AdminInv, Trace \cap gaps # {} \/ TraceInv, Cut
    PROVE  AdminInv' /\ (Trace \cap gaps' # {} \/ TraceInv')
<1>1. /\ rows' = rows /\ boot' = "admin" /\ called' = called
      /\ gaps' = gaps \cup ({boot} \cap (Password \cup Trace))
  BY DEF Cut
<1>2. AdminInv'
  <2>1. boot = "password" => Password \subseteq gaps'
    BY <1>1 DEF Password
  <2> QED
    BY <1>1, <2>1, AdminStays DEF TablesInv
<1>3. ASSUME Trace \cap gaps' = {} PROVE TraceInv'
  <2>1. TraceInv /\ boot \notin Trace /\ boot' \notin Trace
    BY <1>1, <1>3 DEF Trace
  <2> QED
    BY <1>1, <2>1, TraceStays
<1> QED
  BY <1>2, <1>3

LEMMA FirstKeeps ==
    ServiceInv /\ ServiceInv' /\ FirstInv /\ [ServiceNext]_serviceVars => FirstInv'
<1> SUFFICES ASSUME ServiceInv, ServiceInv', FirstInv, [ServiceNext]_serviceVars,
                    requests' = 0
             PROVE  QuietInv'
  BY DEF FirstInv
<1>1. TablesInv /\ RecordsInv /\ KeysInv /\ TypeInv /\ requests \in Nat
  BY RecordsAssumption DEF ServiceInv, TablesInv, TypeInv
<1>2. requests = 0 => QuietInv
  BY DEF FirstInv
<1>3. CASE BootStep
  <2>1. QuietInv /\ Steady
    BY <1>2, <1>3, BootQuiet, BootKeeps
  <2>2. AdminInv'
    BY <1>3, <2>1, BootAdmin DEF QuietInv
  <2>3. TraceInv => TraceInv'
    BY <1>3, <2>1, BootTrace
  <2> QED
    BY <1>3, <2>1, <2>2, <2>3, BootQuiet DEF QuietInv
<1>4. CASE Cut
  <2>1. /\ requests' = requests /\ saves' = {} /\ deletes' = {}
        /\ calls' = calls /\ resumed' = resumed
    BY <1>4 DEF Cut
  <2>2. Steady
    BY <1>4, CutKeeps
  <2> QED
    BY <1>1, <1>2, <1>4, <2>1, <2>2, CutQuiet DEF QuietInv
<1>5. CASE Serving /\ WebStep /\ UNCHANGED bootVars
  <2>1. QuietInv /\ UNCHANGED <<rows, saves, deletes, calls, called, resumed>>
    BY <1>1, <1>2, <1>5, WebQuiet DEF QuietInv
  <2>2. /\ rows' = rows /\ called' = called /\ boot' = boot /\ seed' = seed
        /\ gaps' = gaps /\ boot \notin Trace
    BY <1>5, <2>1 DEF bootVars, Serving, Trace
  <2>3. Steady
    BY <2>2, SameRowsSteady
  <2>4. AdminInv'
    BY <1>1, <2>1, <2>2, <2>3, AdminStays DEF QuietInv
  <2>5. TraceInv => TraceInv'
    BY <1>1, <1>5, <2>2, <2>3, TraceStays DEF TraceInv
  <2> QED
    BY <2>1, <2>2, <2>4, <2>5 DEF QuietInv
<1>6. CASE EngineStep /\ UNCHANGED bootVars
  <2>1. /\ requests' = requests /\ calls' = calls /\ resumed' = resumed
        /\ saves = {} => saves' = {}
        /\ deletes = {} => deletes' = {}
    <3>1. \E i, db : EngineCommit(i, db)
      BY <1>6 DEF EngineStep, EngineMoves, EngineBeginsStep, EngineEndsStep,
                  EngineAsks, EngineResumes
    <3> QED
      BY <3>1 DEF EngineCommit, Commit
  <2>2. QuietInv /\ Steady
    BY <1>1, <1>2, <1>6, <2>1, EngineSteady
  <2>3. boot' = boot /\ seed' = seed /\ gaps' = gaps
    BY <1>6 DEF bootVars
  <2>4. AdminInv'
    <3>1. PICK i \in Stored("instance") : Touches(i)
      BY <1>1, <1>6, <2>2, EngineTouches DEF QuietInv
    <3>2. \A x \in DOMAIN rows' :
             TableOf(x) = "user" => x \in DOMAIN rows /\ rows'[x] = rows[x]
      BY <3>1 DEF Touches, Stored
    <3> QED
      BY <1>1, <2>2, <2>3, <3>2, AdminStays DEF QuietInv
  <2>5. TraceInv => TraceInv'
    BY <1>1, <1>6, <2>2, <2>3, EngineTrace DEF QuietInv
  <2> QED
    BY <2>1, <2>2, <2>3, <2>4, <2>5 DEF QuietInv
<1>7. CASE UNCHANGED serviceVars
  <2>1. /\ UNCHANGED <<rows, saves, deletes, calls, called, resumed, requests>>
        /\ UNCHANGED <<boot, seed, gaps>>
    BY <1>7 DEF serviceVars, recordVars, bootVars
  <2>2. AdminInv => AdminInv'
    BY <2>1 DEF AdminInv, Stored
  <2>3. TraceInv => TraceInv'
    <3>1. ASSUME NEW i PROVE NodesOf(i)' = NodesOf(i)
      BY <2>1 DEF NodesOf, StepsOf, Stored
    <3>2. ASSUME NEW i PROVE Complete(i)' <=> Complete(i)
      BY <2>1, <3>1 DEF Complete, GateTask, Resting, Stored
    <3>3. Resting(seed.inst, Laid(boot))' <=> Resting(seed.inst, Laid(boot))
      <4>1. PICK i, nodes : i = seed.inst /\ nodes = Laid(boot)
        OBVIOUS
      <4>2. i = seed'.inst /\ nodes = Laid(boot')
        BY <2>1, <4>1
      <4>3. Resting(i, nodes)' <=> Resting(i, nodes)
        BY <2>1, <3>1 DEF Resting, Stored
      <4> QED
        BY <4>1, <4>2, <4>3
    <3>4. Demos' = Demos /\ Stored("instance")' = Stored("instance")
      BY <2>1 DEF Demos, DemoWorkflow, Stored
    <3> QED
      BY <2>1, <3>2, <3>3, <3>4 DEF TraceInv, Serving
  <2> QED
    BY <1>2, <2>1, <2>2, <2>3 DEF QuietInv
<1>8. CASE CallStep /\ UNCHANGED bootVars
  <2>1. requests' = requests
    BY <1>8 DEF CallStep, Arrives, LoseCall
  <2> QED
    BY <1>2, <1>8, <2>1 DEF QuietInv, CallStep
<1> QED
  BY <1>3, <1>4, <1>5, <1>6, <1>7, <1>8 DEF ServiceNext

\* A database without the demo's tenant has none of its instances.
LEMMA FirstStarts == ServiceInit /\ Unseeded => FirstInv
<1> SUFFICES ASSUME ServiceInit, Unseeded PROVE QuietInv
  BY DEF FirstInv
<1>1. /\ saves = {} /\ deletes = {} /\ calls = {} /\ resumed = {}
      /\ boot = "admin"
      /\ NoDangling(rows) /\ \A k \in DOMAIN rows : LinkedRow(TableOf(k), rows[k])
  BY InitSound DEF ServiceInit, RecordsInit, RecordsInv, Sound, Linked, Accepts
<1>2. AdminInv
  BY <1>1 DEF AdminInv, Unseeded
<1>3. Demos = {}
  <2> SUFFICES ASSUME NEW i \in Demos PROVE FALSE
    OBVIOUS
  <2>1. PICK d : d = rows[i].ref.definition
    OBVIOUS
  <2>2. /\ i \in DOMAIN rows /\ TableOf(i) = "instance"
        /\ rows[rows[d].ref.tenant].val.slug = "apex-corp"
    BY <2>1 DEF Demos, DemoWorkflow, Stored
  <2>3. /\ Foreign("instance", "definition", "definition") \in References
        /\ Foreign("definition", "tenant", "tenant") \in References
    BY DEF References, WorkflowReferences
  <2>4. d \in DOMAIN rows /\ TableOf(d) = "definition"
    BY <1>1, <2>1, <2>2, <2>3 DEF LinkedRow, NoDangling, Foreign, Nullable
  <2>5. rows[d].ref.tenant \in Stored("tenant")
    BY <1>1, <2>3, <2>4 DEF LinkedRow, NoDangling, Foreign, Nullable, Stored
  <2> QED
    BY <2>2, <2>5 DEF Unseeded
<1>4. boot \notin Trace /\ ~Serving
  BY <1>1 DEF Trace, Serving
<1> QED
  BY <1>1, <1>2, <1>3, <1>4 DEF QuietInv, TraceInv

\* The rows of a quiet server are those the run checks for.
LEMMA FirstShows == ServiceInv /\ FirstInv => SeededUnlessCut
<1> SUFFICES ASSUME ServiceInv, QuietInv, Serving
             PROVE  /\ \/ Password \subseteq gaps
                       \/ \E k \in Matching("user", {"username"}, AdminUser) :
                             rows[k].val.password = "admin123"
                    /\ Trace \cap gaps # {} \/ TraceComplete
  BY DEF FirstInv, SeededUnlessCut
<1>1. boot = "serving" /\ boot \notin Trace /\ TypeInv
  BY DEF Serving, Trace, ServiceInv, TablesInv
<1>2. ASSUME ~ Password \subseteq gaps
      PROVE  \E k \in Matching("user", {"username"}, AdminUser) :
                rows[k].val.password = "admin123"
  <2>1. PICK k \in Stored("user") : rows[k].val.username = "admin"
    BY <1>1 DEF QuietInv, AdminInv
  <2>2. rows[k].val.password = "admin123"
    BY <1>1, <1>2, <2>1 DEF QuietInv, AdminInv
  <2>3. "username" \notin DOMAIN rows[k].ref
    BY <1>1, StoredColumns, Models DEF User, NoColumns
  <2>4. "username" \notin DOMAIN AdminUser.ref /\ AdminUser.val.username = "admin"
    <3>1. AdminUser.ref = NoColumns /\ AdminUser.val.username = "admin"
      BY DEF AdminUser
    <3>2. DOMAIN NoColumns = {}
      BY DEF NoColumns
    <3> QED
      BY <3>1, <3>2
  <2>5. Cell(rows[k], "username") = Cell(AdminUser, "username")
    <3> HIDE DEF AdminUser
    <3> QED
      BY <2>1, <2>3, <2>4 DEF Cell
  <2>6. k \in Matching("user", {"username"}, AdminUser)
    BY <2>5 DEF Matching
  <2> QED
    BY <2>2, <2>6
<1>3. ASSUME Trace \cap gaps = {} PROVE TraceComplete
  <2>1. PICK i \in Stored("instance") : Complete(i)
    BY <1>1, <1>3 DEF QuietInv, TraceInv
  <2>2. PICK t \in Stored("task") : GateTask(t, i)
    BY <2>1 DEF Complete
  <2>3. /\ rows[i].val.status = "waiting_approval"
        /\ {rows[k].val.node_id : k \in {x \in Stored("step") :
                                            rows[x].ref.instance = i}}
             = {"trigger_node", "policy_check", "approval_gate"}
    BY <2>1 DEF Complete, Resting, NodesOf, StepsOf, DemoNodes
  <2> QED
    BY <2>2, <2>3 DEF GateTask, TraceComplete
<1> QED
  BY <1>2, <1>3

\* For any first database without the demo's user and tenant: when the server
\* first answers, after any number of starts that were cut off anywhere, and
\* with the engine at work all along, the admin can log in and the
\* demonstration instance can be decided, unless a start was cut off between
\* the rows of just that one.
THEOREM Seeded == ServiceSpec /\ Unseeded => []SeededUnlessCut
<1>1. ServiceSpec => []ServiceInv
  BY ServiceInvariant
<1>2. ServiceInit /\ Unseeded => FirstInv
  BY FirstStarts
<1>3. ServiceInv /\ ServiceInv' /\ FirstInv /\ [ServiceNext]_serviceVars => FirstInv'
  BY FirstKeeps
<1>4. ServiceInv /\ FirstInv => SeededUnlessCut
  BY FirstShows
<1> QED
  BY <1>1, <1>2, <1>3, <1>4, PTL DEF ServiceSpec

(***************************************************************************)
(* What the tables promise, across restarts.                               *)
(***************************************************************************)
\* A row that a statement may store: it brings no deleted row back, adds no
\* decided task, and gives an instance the tenant of its definition.
Harmless(k, row) ==
    /\ k \notin DOMAIN rows => k \notin Known
    /\ k \in DOMAIN rows => TableOf(k) = "user"
    /\ TableOf(k) = "task" => HasStatus(row) /\ row.val.status = "pending"
    /\ TableOf(k) = "instance" => \E d : BelongsTo(row, d)

\* get_or_create of other rows is harmless.
LEMMA GetOrCreateHarmless ==
    ASSUME KeysInv, NEW table \in Tables \ {"task", "instance"},
           NEW columns, NEW row, NEW k, GetOrCreate(table, columns, row, k)
    PROVE  Nothing \/ (Inserts(k, row) /\ Harmless(k, row))
<1>1. CASE Gets(table, columns, row, k)
  BY <1>1 DEF Gets
<1>2. CASE Makes(table, columns, row, k)
  <2>1. Inserts(k, row) /\ TableOf(k) = table /\ k \notin Known
    BY <1>2, FreshTable, FreshIsNew DEF Makes
  <2> QED
    BY <2>1 DEF Harmless, Known
<1> QED
  BY <1>1, <1>2 DEF GetOrCreate

\* Every statement stores such a row, or nothing.
LEMMA BootHarmless ==
    ASSUME ServiceInv, BootStep
    PROVE  Nothing \/ \E k, row : Inserts(k, row) /\ Harmless(k, row)
<1>1. /\ KeysInv /\ SeedInv
      /\ "user" \in Tables \ {"task", "instance"}
      /\ "tenant" \in Tables \ {"task", "instance"}
      /\ "membership" \in Tables \ {"task", "instance"}
      /\ "definition" \in Tables \ {"task", "instance"}
      /\ "instance" \in Tables /\ "step" \in Tables /\ "task" \in Tables
  BY DEF ServiceInv, TablesInv, Tables
<1>2. CASE SeedAdmin
  <2>1. PICK k : GetOrCreate("user", {"username"}, AdminUser, k)
    BY <1>2 DEF SeedAdmin, GetOrCreate
  <2> QED
    BY <1>1, <2>1, GetOrCreateHarmless
<1>3. CASE SetPassword
  <2>1. PICK row : Inserts(seed.admin, row)
    BY <1>3 DEF SetPassword, Inserts
  <2>2. seed.admin \in DOMAIN rows /\ TableOf(seed.admin) = "user"
    BY <1>1, <1>3 DEF SetPassword, SeedInv, AfterAdmin, Stored
  <2>3. Harmless(seed.admin, row)
    BY <2>2 DEF Harmless
  <2> QED
    BY <2>1, <2>3
<1>4. CASE SeedTenant
  <2>1. PICK k : GetOrCreate("tenant", {"slug"}, ApexCorp, k)
    BY <1>4 DEF SeedTenant
  <2> QED
    BY <1>1, <2>1, GetOrCreateHarmless
<1>5. CASE SeedTenantFails \/ SkipTrace
  BY <1>5 DEF SeedTenantFails, SkipTrace
<1>6. CASE SeedMember
  <2>1. PICK k, row : GetOrCreate("membership", {"tenant", "user"}, row, k)
    BY <1>6 DEF SeedMember
  <2> QED
    BY <1>1, <2>1, GetOrCreateHarmless
<1>7. CASE SeedProcurement \/ SeedOnboarding
  <2>1. PICK k, row : GetOrCreate("definition", {"tenant", "slug"}, row, k)
    BY <1>7 DEF SeedProcurement, SeedOnboarding
  <2> QED
    BY <1>1, <2>1, GetOrCreateHarmless
<1>8. CASE SeedTrace
  <2>1. PICK k, row :
           /\ k = Fresh("instance") /\ Inserts(k, row)
           /\ row = Instance(seed.tenant, seed.procure, seed.admin,
                             "waiting_approval")
    BY <1>8 DEF SeedTrace
  <2>2. TableOf(k) = "instance" /\ k \notin Known
    BY <1>1, <2>1, FreshTable, FreshIsNew
  <2>3. BelongsTo(row, seed.procure)
    BY <1>1, <1>8, <2>1
       DEF SeedTrace, SeedInv, AfterProcure, Instance, BelongsTo
  <2> QED
    BY <2>1, <2>2, <2>3 DEF Harmless, Known
<1>9. CASE SeedStep1 \/ SeedStep2 \/ SeedStep3
  <2>1. PICK k, row : k = Fresh("step") /\ Inserts(k, row)
    BY <1>9 DEF SeedStep1, SeedStep2, SeedStep3, SeedStep
  <2>2. TableOf(k) = "step" /\ k \notin Known
    BY <1>1, <2>1, FreshTable, FreshIsNew
  <2> QED
    BY <2>1, <2>2 DEF Harmless, Known
<1>10. CASE SeedTask
  <2>1. PICK k, row : k = Fresh("task") /\ Inserts(k, row) /\ row = SignOff
    BY <1>10 DEF SeedTask
  <2>2. TableOf(k) = "task" /\ k \notin Known
    BY <1>1, <2>1, FreshTable, FreshIsNew
  <2>3. HasStatus(row) /\ row.val.status = "pending"
    BY <2>1 DEF SignOff, HasStatus
  <2> QED
    BY <2>1, <2>2, <2>3 DEF Harmless, Known
<1> QED
  BY <1>2, <1>3, <1>4, <1>5, <1>6, <1>7, <1>8, <1>9, <1>10 DEF BootStep

\* What a harmless row keeps.
LEMMA HarmlessKeeps ==
    ASSUME TablesInv, Others, NEW k, NEW row, Inserts(k, row), Harmless(k, row)
    PROVE  Revives /\ (ToldInv => ToldInv') /\ (AgreeInv => AgreeInv')
<1> DEFINE db == Put(rows, k, row)
<1>1. /\ Commit(db, saves, deletes) /\ edited' = edited /\ Reported' = Reported
      /\ KeysInv
  BY CallsReport DEF Inserts, Others, TablesInv
<1>2. DOMAIN db = DOMAIN rows \cup {k}
  BY DEF Put
<1>3. ToldInv => Telling(db)
  BY RowsTelling, PutTelling DEF Harmless, ToldNext, ToldBy
<1>4. Fits(k, row)
  BY DEF Harmless, Fits
<1>5. Fitting(db)
  BY <1>4, RowsFitting, PutFitting
<1> HIDE DEF db
<1>6. Revives
  BY <1>1, <1>2 DEF Commit, Revives, Harmless, Known
<1>7. ToldInv => ToldInv'
  BY <1>1, <1>3, CommitTold
<1>8. AgreeInv => AgreeInv'
  <2> SUFFICES ASSUME AgreeInv PROVE AgreeInv'
    OBVIOUS
  <2>1. \A e \in edited' : e[1] \in Known \cup DOMAIN db
    BY <1>1 DEF AgreeInv
  <2> QED
    BY <1>1, <1>5, <2>1, CommitAgrees
<1> QED
  BY <1>6, <1>7, <1>8

\* What a step that stores nothing and forgets requests keeps.
LEMMA ForgettingPromises ==
    ASSUME TablesInv, rows' = rows, buried' = buried, edited' = edited,
           UNCHANGED callVars, saves' \subseteq saves
    PROVE  Revives /\ (ToldInv => ToldInv') /\ (AgreeInv => AgreeInv')
<1>1. Revives
  BY DEF Revives
<1>2. ToldInv => ToldInv'
  BY CallsReport DEF ToldInv, Told, ToldBy, Stored
<1>3. AgreeInv => AgreeInv'
  BY RestAgrees DEF TablesInv
<1> QED
  BY <1>1, <1>2, <1>3

\* The start and the end of the process have no request under way.
LEMMA StartPromises ==
    ASSUME ServiceInv, BootStep \/ Cut
    PROVE  /\ Revives /\ KeepsColumns /\ UntouchedInv'
           /\ ToldInv => ToldInv'
           /\ AgreeInv => AgreeInv'
<1>1. TablesInv
  BY DEF ServiceInv
<1>2. CASE BootStep
  <2>1. saves = {} /\ saves' = {} /\ Others
    <3>1. ~Serving /\ Others
      BY <1>2 DEF BootStep, SeedAdmin, SetPassword, SeedTenant, SeedTenantFails,
         SeedMember, SeedProcurement, SeedOnboarding, SkipTrace, SeedTrace,
         SeedStep1, SeedStep2, SeedStep3, SeedStep, SeedTask, Serving
    <3> QED
      BY <1>2, <3>1, BootQuiet DEF ServiceInv, SeedInv
  <2>2. KeepsColumns /\ UntouchedInv'
    BY <2>1 DEF KeepsColumns, UntouchedInv
  <2>3. CASE Nothing
    BY <1>1, <2>1, <2>2, <2>3, ForgettingPromises DEF Nothing, Others
  <2>4. CASE \E k, row : Inserts(k, row) /\ Harmless(k, row)
    BY <1>1, <2>1, <2>2, <2>4, HarmlessKeeps
  <2> QED
    BY <1>2, <2>3, <2>4, BootHarmless
<1>3. CASE Cut
  <2>1. /\ rows' = rows /\ buried' = buried /\ edited' = edited
        /\ UNCHANGED callVars /\ saves' = {}
    BY <1>3 DEF Cut
  <2>2. KeepsColumns /\ UntouchedInv'
    BY <1>1, <2>1 DEF KeepsColumns, UntouchedInv
  <2> QED
    BY <1>1, <2>1, <2>2, ForgettingPromises
<1> QED
  BY <1>2, <1>3

\* So a step of the container keeps what a step of the tables keeps.
LEMMA ServiceSteps ==
    ASSUME ServiceInv, [ServiceNext]_serviceVars
    PROVE  [RecordsNext]_recordVars \/ BootStep \/ Cut
  BY DEF ServiceNext, RecordsNext, serviceVars

LEMMA ServicePromises ==
    ASSUME ServiceInv, [ServiceNext]_serviceVars
    PROVE  /\ Revives
           /\ UntouchedInv => KeepsColumns /\ UntouchedInv'
           /\ ToldInv => ToldInv'
           /\ AgreeInv => AgreeInv'
<1>1. RecordsInv /\ KeysInv
  BY DEF ServiceInv, TablesInv
<1>2. CASE [RecordsNext]_recordVars
  BY <1>1, <1>2, StepRevives, StepKeepsColumns, StepUntouched, StepTold, StepAgrees
<1>3. CASE BootStep \/ Cut
  BY <1>3, StartPromises
<1> QED
  BY <1>2, <1>3, ServiceSteps

\* Restarts neither bring deleted rows back, nor make a save write columns it
\* is not about, nor upset the dashboard's counts.
THEOREM ServiceKeepsPromises ==
    ServiceSpec => OnlySavesRevive /\ QuietSavesKeepColumns /\ []CountsAddUp
<1>1. ServiceInit => UntouchedInv
  BY DEF ServiceInit, RecordsInit, UntouchedInv
<1>2. ServiceInv /\ UntouchedInv /\ [ServiceNext]_serviceVars =>
         UntouchedInv' /\ [Revives]_recordVars /\ [KeepsColumns]_recordVars
  BY ServicePromises
<1>3. ServiceSpec => [][Revives]_recordVars /\ [][KeepsColumns]_recordVars
  BY <1>1, <1>2, ServiceInvariant, PTL DEF ServiceSpec
<1>4. ServiceInv => CountsAddUp
  BY PageShows DEF ServiceInv, TablesInv
<1>5. ServiceSpec => []CountsAddUp
  BY <1>4, ServiceInvariant, PTL
<1> QED
  BY <1>3, <1>5 DEF OnlySavesRevive, Revives, QuietSavesKeepColumns, KeepsColumns

\* Nor is there another way to decide a task in them: what a start adds is
\* pending, and when a process ends between storing a decision and calling the
\* engine, that one call is lost with it and the stored status is the one it
\* would have given.
THEOREM ServiceDecides ==
    ServiceSpec /\ DecidedTasksCalled => []DecidedTasksCalled
<1>1. ServiceInit /\ DecidedTasksCalled => ToldInv
  BY InitTold DEF ServiceInit
<1>2. ServiceInv /\ ToldInv /\ [ServiceNext]_serviceVars => ToldInv'
  BY ServicePromises
<1> QED
  BY <1>1, <1>2, ServiceInvariant, ToldShows, PTL DEF ServiceSpec

\* Nor separate an instance from the tenant of its definition: although a
\* start looks for the definition and adds the instance in statements of
\* their own, and users may have moved rows before.
THEOREM ServiceTenants == ServiceSpec /\ TenantsAgree => []TenantsAgree
<1>1. ServiceInit /\ TenantsAgree => AgreeInv
  BY InitAgrees DEF ServiceInit
<1>2. ServiceInv /\ AgreeInv /\ [ServiceNext]_serviceVars => AgreeInv'
  BY ServicePromises
<1>3. ServiceInv /\ AgreeInv => TenantsAgree
  BY AgreesShow DEF ServiceInv, TablesInv
<1> QED
  BY <1>1, <1>2, <1>3, ServiceInvariant, PTL DEF ServiceSpec
=============================================================================
