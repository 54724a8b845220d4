-------------------------------- MODULE Records --------------------------------
(***************************************************************************)
(* The rows of the control plane under the requests of its users: the REST *)
(* API, the admin site and the web pages of one Django process, and the    *)
(* engine writing to the same tables.                                      *)
(*                                                                         *)
(* A request reads its row in one statement and saves it in a later one.   *)
(* save() writes every column as it was read, and inserts the row if it is *)
(* no longer there; save(update_fields=...) writes the named columns and   *)
(* fails if the row is gone.  delete() reads what it has to delete and     *)
(* deletes it in a transaction of its own.  The database refuses what its  *)
(* constraints forbid, and the request ends with an error.                 *)
(***************************************************************************)
EXTENDS Schema, FiniteSets

CONSTANTS
    Drafts,         \* rows users may add: [table, row]
    Edits,          \* columns users may set: [table, ref, val]
    Databases,      \* what the tables may hold at first
    Posts,          \* decisions the page may be sent, of at most 20 characters
    Lowered,        \* ... and each in lower case
    MaxRequests,    \* bound: requests
    MaxWork         \* bound: commits of the engine

KeysIn(table, keys) == {k \in keys : TableOf(k) = table}
\* The keys of a table are numbered from 1, without gaps.
Numbered(keys) ==
    \A table \in Tables :
        KeysIn(table, keys) = {table} \X (1..Cardinality(KeysIn(table, keys)))

Decisions == {"approved", "rejected"}

ASSUME RecordsAssumption ==
    /\ \A d \in Drafts : d.table \in Tables /\ RowOf(d.table, d.row)
    /\ \A e \in Edits :
          /\ e.table \in Tables
          /\ Suits(e.ref, ModelOf(e.table).ref) /\ Suits(e.val, ModelOf(e.table).val)
    /\ \A db \in Databases :
          /\ RowsTyped(db) /\ Accepts(db)
          /\ IsFiniteSet(DOMAIN db) /\ Numbered(DOMAIN db)
    /\ Decisions \subseteq Posts /\ Posts \subseteq Text /\ "pending" \in Text
    /\ Lowered \in [Posts -> Text] /\ \A d \in Decisions : Lowered[d] = d
    /\ MaxRequests \in Nat /\ MaxWork \in Nat

VARIABLES
    rows,       \* the stored rows
    buried,     \* keys of rows that were deleted
    saves,      \* requests between their read and their write
    deletes,    \* requests between collecting rows and deleting them
    page,       \* the dashboard between its queries
    calls,      \* calls to the engine that are to be made or under way
    called,     \* instances the engine was told of or has picked up
    resumed,    \* decisions the engine was told of
    lost,       \* history: decisions whose call has failed
    edited,     \* history: <<key, column>> that an edit has set, and
                \* <<key, "created">> of the rows users added
    requests,   \* requests so far; numbers them
    work        \* commits of the engine so far

recordVars ==
    <<rows, buried, saves, deletes, page, calls, called, resumed, lost, edited,
      requests, work>>
\* The engine as the requests see it.
callVars == <<calls, called, resumed, lost>>

Ended == {"completed", "failed", "cancelled"}

Stored(table) == {k \in DOMAIN rows : TableOf(k) = table}
\* A new row's key was never in use: it is a fresh UUID.
Fresh(table) ==
    <<table, 1 + Cardinality(KeysIn(table, DOMAIN rows \cup buried))>>

Put(db, k, row) == [x \in DOMAIN db \cup {k} |-> IF x = k THEN row ELSE db[x]]
\* A row with some columns assigned.
Over(new, old) ==
    [c \in DOMAIN new \cup DOMAIN old |-> IF c \in DOMAIN new THEN new[c] ELSE old[c]]
Assign(row, ref, val) == [ref |-> Over(ref, row.ref), val |-> Over(val, row.val)]
ColumnsOf(row) == DOMAIN row.ref \cup DOMAIN row.val
Cell(row, column) ==
    IF column \in DOMAIN row.ref THEN row.ref[column] ELSE row.val[column]

(***************************************************************************)
(* Commits.                                                                *)
(***************************************************************************)
\* A request about to save row at key; asked: the columns it is about.
Saver(number, by, key, row, asked, stale) ==
    [number |-> number, by |-> by, key |-> key, row |-> row, asked |-> asked,
     stale |-> stale]
\* A request about to delete the doomed rows.
Deleter(number, doomed, raced) ==
    [number |-> number, doomed |-> doomed, raced |-> raced]

SameAt(db, k) ==
    (k \in DOMAIN db <=> k \in DOMAIN rows) /\ (k \in DOMAIN rows => db[k] = rows[k])

\* db has a row that a delete would have had to collect and may not have: it
\* was added, or made to depend on another row, after the rows were read.
Grown(db) ==
    \E k \in DOMAIN db, f \in Cascades :
        /\ f.table = TableOf(k) /\ TableOf(k) \notin Leaves
        /\ k \notin DOMAIN rows \/ rows[k].ref[f.column] # db[k].ref[f.column]

\* The stored rows become db; what is under way in other requests (left and
\* deleting) learns nothing of it.  The flags stale, raced and changed only
\* record for the properties that it happened.
Commit(db, left, deleting) ==
    /\ Accepts(db)
    /\ rows' = db
    /\ buried' = buried \cup (DOMAIN rows \ DOMAIN db)
    /\ saves' = {Saver(w.number, w.by, w.key, w.row, w.asked,
                       w.stale \/ ~SameAt(db, w.key)) : w \in left}
    /\ deletes' = {Deleter(d.number, d.doomed, d.raced \/ Grown(db)) :
                       d \in deleting}
    /\ page' = [page EXCEPT !.changed =
                   @ \/ /\ page.at \in {"total", "running"}
                        /\ \E k \in DOMAIN db \cup DOMAIN rows :
                              TableOf(k) = "instance" /\ ~SameAt(db, k)]

NewRequest == requests < MaxRequests /\ requests' = requests + 1

(***************************************************************************)
(* The generic views: create, update and destroy of the viewsets, and the  *)
(* add, change and delete pages of the admin site.                         *)
(***************************************************************************)
TenantViewSets == {"tenant", "membership"}
DefinitionViewSet == {"definition"}
TaskViewSet == {"task"}
TenantAdmin == {"tenant", "membership", "audit"}
WorkflowAdmin == {"definition", "instance", "step", "task"}
UserAdmin == {"user"}
Managed == TenantViewSets \cup DefinitionViewSet \cup TaskViewSet
             \cup TenantAdmin \cup WorkflowAdmin \cup UserAdmin

Create(d) ==
    LET k == Fresh(d.table)
    IN  /\ NewRequest
        /\ d.table \in Managed
        /\ Commit(Put(rows, k, d.row), saves, deletes)
        /\ edited' = edited \cup {<<k, "created">>}
        /\ UNCHANGED <<callVars, work>>

\* A request read and checked the row of key k, assigned it in memory and is
\* about to write it.
Saving(by, k, row, asked) ==
    /\ saves' = saves \cup {Saver(requests + 1, by, k, row, asked, FALSE)}
    /\ UNCHANGED <<rows, buried, deletes, page, callVars, edited, work>>

\* Mutant of EditRead: a partial update resets the status it is not given.
EditReadResets(k, e) ==
    LET reset == [c \in {"status"} \cap DOMAIN rows[k].val |-> "pending"]
        row == Assign(rows[k], e.ref, Over(e.val, reset))
    IN  /\ NewRequest
        /\ k \in DOMAIN rows /\ TableOf(k) = e.table /\ e.table \in Managed
        /\ Accepts(Put(rows, k, row))
        /\ Saving("edit", k, row, ColumnsOf(e))

\* PUT and PATCH: the serializer checks that what is referred to is there
\* and that unique columns stay unique.
EditRead(k, e) ==
    LET row == Assign(rows[k], e.ref, e.val)
    IN  /\ NewRequest
        /\ k \in DOMAIN rows /\ TableOf(k) = e.table /\ e.table \in Managed
        /\ Accepts(Put(rows, k, row))
        /\ Saving("edit", k, row, ColumnsOf(e))

DeleteRead(k) ==
    /\ NewRequest
    /\ k \in DOMAIN rows /\ TableOf(k) \in Managed
    /\ deletes' = deletes \cup {Deleter(requests + 1, Collected(rows, k), FALSE)}
    /\ UNCHANGED <<rows, buried, saves, page, callVars, edited, work>>

DeleteWrite(d) ==
    /\ d \in deletes
    /\ Commit(AfterDelete(rows, d.doomed), saves, deletes \ {d})
    /\ UNCHANGED <<callVars, edited, requests, work>>

DeleteRefused(d) ==
    /\ d \in deletes /\ ~Accepts(AfterDelete(rows, d.doomed))
    /\ deletes' = deletes \ {d}
    /\ UNCHANGED <<rows, buried, saves, page, callVars, edited, requests, work>>

(***************************************************************************)
(* The workflow views.                                                     *)
(***************************************************************************)
\* request.user, if the request is authenticated.
Users == {Null} \cup Stored("user")

Instance(tenant, definition, user, status) ==
    [ref |-> [tenant |-> tenant, definition |-> definition, triggered_by |-> user],
     val |-> [status |-> status]]

\* Mutant of TriggerRead: the instance gets the tenant the dashboard shows.
TriggerReadFirst(d, u) ==
    /\ NewRequest
    /\ d \in Stored("definition") /\ u \in Users
    /\ \E t \in Stored("tenant") :
          /\ \A x \in Stored("tenant") : x[2] <= t[2]
          /\ Saving("trigger", Null, Instance(t, d, u, "pending"), {})

TriggerRead(d, u) ==
    /\ NewRequest
    /\ d \in Stored("definition") /\ u \in Users
    /\ Saving("trigger", Null,
              Instance(rows[d].ref.tenant, d, u, "pending"), {})

\* Mutant of CancelRead: a status that the models do not know.
CancelReadMisspelt(i) ==
    /\ NewRequest
    /\ i \in Stored("instance") /\ rows[i].val.status \notin Ended
    /\ Saving("cancel", i, Assign(rows[i], NoColumns, [status |-> "canceled"]),
              {"status"})

CancelRead(i) ==
    /\ NewRequest
    /\ i \in Stored("instance") /\ rows[i].val.status \notin Ended
    /\ Saving("cancel", i, Assign(rows[i], NoColumns, [status |-> "cancelled"]),
              {"status"})

DecideRead(t, decision, u) ==
    /\ NewRequest
    /\ t \in Stored("task") /\ rows[t].val.status = "pending" /\ u \in Users
    /\ Saving("decide", t,
              Assign(rows[t], [decision_by |-> u], [status |-> decision]),
              {"status", "decision_by"})

\* The page writes without a look at the task's status, and stores whatever
\* it is sent; its own buttons send one of the two decisions.
ApproveRead(t, decision) ==
    /\ NewRequest
    /\ t \in Stored("task")
    /\ Saving("approve", t, Assign(rows[t], NoColumns, [status |-> decision]),
              {"status"})

\* save(): the whole row, stored anew if it is gone.
WholeRow(w) == Put(rows, w.key, w.row)
\* save(update_fields=['status', ...]).
NamedColumns(w) ==
    Put(rows, w.key, Assign(rows[w.key], NoColumns, [status |-> w.row.val.status]))

EditWrite(w) ==
    /\ w \in saves /\ w.by = "edit"
    /\ Commit(WholeRow(w), saves \ {w}, deletes)
    /\ edited' = edited \cup ({w.key} \X w.asked)
    /\ UNCHANGED <<callVars, requests, work>>

\* A call to the engine about the instance or the task of that key.
Call(number, key, decision) ==
    [number |-> number, key |-> key, decision |-> decision]
NoDecision == ""
ExecuteCall(w, i) == Call(w.number, i, NoDecision)
ResumeCall(w) == Call(w.number, w.key, w.row.val.status)

\* The new instance is stored; the call of the engine is the next thing to do.
TriggerWrite(w) ==
    LET i == Fresh("instance")
    IN  /\ w \in saves /\ w.by = "trigger"
        /\ Commit(Put(rows, i, w.row), saves \ {w}, deletes)
        /\ calls' = calls \cup {ExecuteCall(w, i)}
        /\ UNCHANGED <<called, resumed, lost, edited, requests, work>>

\* Mutant of CancelWrite: save() without update_fields.
CancelWriteWhole(w) ==
    /\ w \in saves /\ w.by = "cancel"
    /\ Commit(WholeRow(w), saves \ {w}, deletes)
    /\ UNCHANGED <<callVars, edited, requests, work>>

CancelWrite(w) ==
    /\ w \in saves /\ w.by = "cancel"
    /\ w.key \in DOMAIN rows
    /\ Commit(NamedColumns(w), saves \ {w}, deletes)
    /\ UNCHANGED <<callVars, edited, requests, work>>

\* Mutant of DecideWrite: only an approval calls the engine.
DecideWriteApproved(w) ==
    /\ w \in saves /\ w.by \in {"decide", "approve"}
    /\ Commit(WholeRow(w), saves \ {w}, deletes)
    /\ calls' = calls \cup {c \in {ResumeCall(w)} : c.decision = "approved"}
    /\ UNCHANGED <<called, resumed, lost, edited, requests, work>>

\* The decision is stored; the call of the engine is the next thing to do.
DecideWrite(w) ==
    /\ w \in saves /\ w.by \in {"decide", "approve"}
    /\ Commit(WholeRow(w), saves \ {w}, deletes)
    /\ calls' = calls \cup {ResumeCall(w)}
    /\ UNCHANGED <<called, resumed, lost, edited, requests, work>>

\* IntegrityError, or no row left to update.
WriteRefused(w) ==
    /\ w \in saves
    /\ CASE w.by = "cancel" -> w.key \notin DOMAIN rows
         [] w.by = "trigger" -> ~Accepts(Put(rows, Fresh("instance"), w.row))
         [] OTHER -> ~Accepts(WholeRow(w))
    /\ saves' = saves \ {w}
    /\ UNCHANGED <<rows, buried, deletes, page, callVars, edited, requests, work>>

(***************************************************************************)
(* The calls of the engine, each made once: trigger_execution() and        *)
(* resume_approval() swallow what goes wrong, and nothing calls again.     *)
(***************************************************************************)
Decision(c) == [task |-> c.key, decision |-> c.decision]
DecisionsIn(S) == {Decision(c) : c \in {x \in S : TableOf(x.key) = "task"}}

\* The engine gets the call, be it after the request gave up waiting for it.
Arrives(c) ==
    /\ c \in calls /\ calls' = calls \ {c}
    /\ called' = called \cup {i \in {c.key} : TableOf(i) = "instance"}
    /\ resumed' = resumed \cup DecisionsIn({c})
    /\ UNCHANGED <<rows, buried, saves, deletes, page, lost, edited, requests, work>>

\* The engine is not there, refuses the call, or the process ends before it
\* has made it.
LoseCall(c) ==
    /\ c \in calls /\ calls' = calls \ {c}
    /\ lost' = lost \cup DecisionsIn({c})
    /\ UNCHANGED <<rows, buried, saves, deletes, page, called, resumed, edited,
                   requests, work>>

(***************************************************************************)
(* The dashboard: one query after the other.                               *)
(***************************************************************************)
NoPage == [at |-> "closed", total |-> 0, running |-> 0, completed |-> 0,
           changed |-> FALSE]

Count(statuses) ==
    Cardinality({i \in Stored("instance") : rows[i].val.status \in statuses})

\* Mutant of CountTotal: only the first tenant's instances.
CountTotalOfTenant ==
    /\ page.at = "closed" /\ NewRequest
    /\ page' = [NoPage EXCEPT !.at = "total",
                  !.total = Cardinality({i \in Stored("instance") :
                                            rows[i].ref.tenant = <<"tenant", 1>>})]
    /\ UNCHANGED <<rows, buried, saves, deletes, callVars, edited, work>>

CountTotal ==
    /\ page.at = "closed" /\ NewRequest
    /\ page' = [NoPage EXCEPT !.at = "total",
                              !.total = Cardinality(Stored("instance"))]
    /\ UNCHANGED <<rows, buried, saves, deletes, callVars, edited, work>>

CountRunning ==
    /\ page.at = "total"
    /\ page' = [page EXCEPT !.at = "running", !.running = Count({"running"})]
    /\ UNCHANGED <<rows, buried, saves, deletes, callVars, edited, requests, work>>

CountCompleted ==
    /\ page.at = "running"
    /\ page' = [page EXCEPT !.at = "shown", !.completed = Count({"completed"})]
    /\ UNCHANGED <<rows, buried, saves, deletes, callVars, edited, requests, work>>

ClosePage ==
    /\ page.at = "shown"
    /\ page' = NoPage
    /\ UNCHANGED <<rows, buried, saves, deletes, callVars, edited, requests, work>>

(***************************************************************************)
(* The engine: what its runs may write for an instance they were called    *)
(* for or picked up; module WorkflowRunner says when they do.              *)
(***************************************************************************)
EngineNode == "node"

ASSUME EngineAssumption == EngineNode \in Text

EngineCommit(i, db) ==
    /\ work < MaxWork /\ work' = work + 1
    /\ Commit(db, saves, deletes)
    /\ called' = called \cup {i}
    /\ UNCHANGED <<calls, resumed, lost, edited, requests>>

\* The engine may have a run on instance i.
Runs(i) == i \in called \/ rows[i].val.status = "pending"

EngineMoves(i, status) ==
    /\ i \in Stored("instance") /\ Runs(i)
    /\ EngineCommit(i, Put(rows, i,
                           Assign(rows[i], NoColumns, [status |-> status])))

EngineBeginsStep(i) ==
    /\ i \in Stored("instance") /\ Runs(i)
    /\ EngineCommit(i, Put(rows, Fresh("step"),
           [ref |-> [instance |-> i],
            val |-> [node_id |-> EngineNode, status |-> "in_progress"]]))

EngineEndsStep(k, status) ==
    /\ k \in Stored("step")
    /\ rows[k].val = [node_id |-> EngineNode, status |-> "in_progress"]
    /\ EngineCommit(rows[k].ref.instance,
           Put(rows, k, Assign(rows[k], NoColumns, [status |-> status])))

EngineAsks(i) ==
    /\ i \in Stored("instance") /\ Runs(i)
    /\ EngineCommit(i, Put(rows, Fresh("task"),
           [ref |-> [instance |-> i, step_execution |-> Null,
                     assigned_to |-> Null, decision_by |-> Null],
            val |-> [status |-> "pending"]]))

\* The decision is written once more, in lower case, with the instance's new
\* status: whatever is not a rejection counts as an approval.
EngineResumes(v) ==
    LET i == rows[v.task].ref.instance
        decision == Lowered[v.decision]
        decided == Put(rows, v.task,
                       Assign(rows[v.task], NoColumns, [status |-> decision]))
        status == IF decision = "rejected" THEN "failed" ELSE "running"
    IN  /\ v \in resumed /\ v.task \in DOMAIN rows
        /\ EngineCommit(i, Put(decided, i,
                               Assign(rows[i], NoColumns, [status |-> status])))

RecordsInit ==
    /\ rows \in Databases
    /\ buried = {} /\ saves = {} /\ deletes = {}
    /\ calls = {} /\ called = {} /\ resumed = {} /\ lost = {} /\ edited = {}
    /\ page = NoPage
    /\ requests = 0 /\ work = 0

\* What the Django process does for its users ...
WebStep ==
    \/ \E d \in Drafts : Create(d)
    \/ \E k \in DOMAIN rows : DeleteRead(k) \/ \E e \in Edits : EditRead(k, e)
    \/ \E d \in DOMAIN rows, u \in Users : TriggerRead(d, u)
    \/ \E i \in DOMAIN rows : CancelRead(i)
    \/ \E t \in DOMAIN rows, x \in Decisions, u \in Users : DecideRead(t, x, u)
    \/ \E t \in DOMAIN rows, x \in Posts : ApproveRead(t, x)
    \/ \E w \in saves : \/ EditWrite(w) \/ TriggerWrite(w) \/ CancelWrite(w)
                        \/ DecideWrite(w) \/ WriteRefused(w)
    \/ \E d \in deletes : DeleteWrite(d) \/ DeleteRefused(d)
    \/ CountTotal \/ CountRunning \/ CountCompleted \/ ClosePage

\* ... what becomes of its calls ...
CallStep == \E c \in calls : Arrives(c) \/ LoseCall(c)

\* ... and what the engine does.
EngineStep ==
    \/ \E i \in DOMAIN rows :
          \/ EngineBeginsStep(i) \/ EngineAsks(i)
          \/ \E s \in {"running", "waiting_approval", "completed", "failed"} :
                EngineMoves(i, s)
          \/ \E s \in {"completed", "failed"} : EngineEndsStep(i, s)
    \/ \E v \in resumed : EngineResumes(v)

RecordsNext == WebStep \/ CallStep \/ EngineStep

RecordsSpec == RecordsInit /\ [][RecordsNext]_recordVars

(***************************************************************************)
(* Properties.                                                             *)
(***************************************************************************)
\* Every stored row and every row about to be saved is one of its table's,
\* and what is under way refers to keys of rows that were stored once.
RecordsTypeOK ==
    /\ RowsTyped(rows)
    /\ \A w \in saves :
          /\ RowOf(IF w.by = "trigger" THEN "instance" ELSE TableOf(w.key), w.row)
          /\ w.key \in DOMAIN rows \cup buried \cup {Null}
          /\ w.asked \subseteq ColumnsOf(w.row)
          /\ w.number \in 1..MaxRequests
          /\ w.by \in {"decide", "approve"} => w.row.val.status \in Posts
    /\ \A d \in deletes : d.doomed \subseteq DOMAIN rows \cup buried
    /\ \A c \in calls :
          /\ c.key \in DOMAIN rows \cup buried
          /\ TableOf(c.key) = "task" => c.decision \in Posts
    /\ called \cup {v.task : v \in resumed \cup lost} \subseteq DOMAIN rows \cup buried
    /\ {v.decision : v \in resumed \cup lost} \subseteq Posts
    /\ page.total \in Nat /\ page.running \in Nat /\ page.completed \in Nat
    /\ requests \in 0..MaxRequests /\ work \in 0..MaxWork

\* delete() succeeds unless a definition, instance or step was added or moved
\* after it had read what to delete: the cascades of the models leave nothing
\* that the database's constraints object to.
QuietDeletesSucceed ==
    \A d \in deletes : ~d.raced => Accepts(AfterDelete(rows, d.doomed))

\* A deleted row comes back only by the save of an edit of it, or of a
\* decision on it, that had read it before: cancelling revives nothing.
OnlySavesRevive ==
    [][\A k \in buried \ DOMAIN rows :
          k \in DOMAIN rows' =>
              \E w \in saves :
                  w.key = k /\ w.by \in {"edit", "decide", "approve"}]_recordVars

\* A request writes columns it is not about only over a row that others have
\* written since it read it.
QuietSavesKeepColumns ==
    [][\A w \in saves :
          /\ \A x \in saves' : x.number # w.number
          /\ w.key \in DOMAIN rows /\ ~w.stale
          => /\ w.key \in DOMAIN rows'
             /\ \A c \in ColumnsOf(w.row) \ w.asked :
                    Cell(rows'[w.key], c) = Cell(rows[w.key], c)]_recordVars

\* An instance belongs to the tenant of its definition unless a user moved one
\* of them or added the instance by hand: no trigger, resurrection or late
\* save of another column separates them.
TenantsAgree ==
    \A i \in Stored("instance") :
        LET d == rows[i].ref.definition
        IN  \/ rows[i].ref.tenant = rows[d].ref.tenant
            \/ {<<i, "created">>, <<i, "tenant">>, <<i, "definition">>,
                <<d, "tenant">>} \cap edited # {}

\* The decisions that were given to a call of the engine: it may still be to
\* be made, have arrived or have failed.
Reported == DecisionsIn(calls) \cup resumed \cup lost

\* A task stops being pending only with a call of the engine of its own, about
\* this task and with just the decision that is stored, unless a user wrote
\* the status as a plain column.  That one call may fail: the property says
\* that there is no other way for a task to be decided and never reported.
DecidedTasksCalled ==
    \A t \in Stored("task") :
        \/ rows[t].val.status = "pending"
        \/ \E v \in Reported :
              v.task = t /\ rows[t].val.status \in {v.decision, Lowered[v.decision]}
        \/ {<<t, "created">>, <<t, "status">>} \cap edited # {}

\* The dashboard never shows more running and completed instances than there
\* are, unless an instance changed between its queries.
CountsAddUp ==
    page.at = "shown" /\ ~page.changed =>
        page.running + page.completed <= page.total
=============================================================================
