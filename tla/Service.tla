-------------------------------- MODULE Service --------------------------------
(***************************************************************************)
(* The control plane's container.  Its command is wait_for_db, migrate,    *)
(* init_demo_data and the server, each after the one before has succeeded; *)
(* when it ends it is restarted.  So every start runs init_demo_data again *)
(* over whatever the users have left in the database, and no request is    *)
(* answered before it has succeeded.  Each statement of the command is     *)
(* committed on its own.                                                   *)
(***************************************************************************)
EXTENDS Records

CONSTANT MaxCuts    \* bound: ends of the process that are not its own doing

\* The texts that init_demo_data writes.
DemoTexts ==
    {"admin", "", "admin123", "Apex Global Enterprise", "apex-corp",
     "procurement-approval", "employee-onboarding",
     "trigger_node", "policy_check", "approval_gate"}

ASSUME ServiceAssumption == MaxCuts \in Nat /\ DemoTexts \subseteq Text

VARIABLES
    boot,       \* the statement of init_demo_data that is next, or "serving"
    seed,       \* the command's variables: keys of the rows it has got
    cuts,       \* how often the process was cut off
    gaps        \* history: what a start was about to fill when it was cut off

bootVars == <<boot, seed, cuts, gaps>>
serviceVars == <<recordVars, bootVars>>

NoSeed == [admin |-> Null, tenant |-> Null, procure |-> Null,
           inst |-> Null, step |-> Null]

Serving == boot = "serving"

(***************************************************************************)
(* init_demo_data.                                                         *)
(***************************************************************************)
AdminUser == [ref |-> NoColumns, val |-> [username |-> "admin", password |-> ""]]

ApexCorp ==
    [ref |-> NoColumns,
     val |-> [name |-> "Apex Global Enterprise", slug |-> "apex-corp"]]

Owner ==
    [ref |-> [tenant |-> seed.tenant, user |-> seed.admin],
     val |-> [role |-> "owner"]]

Workflow(slug) == [ref |-> [tenant |-> seed.tenant], val |-> [slug |-> slug]]

StepOf(inst, node_id, status) ==
    [ref |-> [instance |-> inst], val |-> [node_id |-> node_id, status |-> status]]

SignOff ==
    [ref |-> [instance |-> seed.inst, step_execution |-> seed.step,
              assigned_to |-> seed.admin, decision_by |-> Null],
     val |-> [status |-> "pending"]]

\* The rows whose columns have the values they have in row.
Matching(table, columns, row) ==
    {k \in Stored(table) : \A c \in columns : Cell(rows[k], c) = Cell(row, c)}

\* A statement of the command takes key k and goes on.
Goes(next, variables) ==
    boot' = next /\ seed' = variables /\ UNCHANGED <<cuts, gaps>>

Nothing == UNCHANGED <<rows, buried, saves, deletes, page>>
Inserts(k, row) == Commit(Put(rows, k, row), saves, deletes)
Others == UNCHANGED <<callVars, edited, requests, work>>

\* get_or_create by columns of a row: k is the row's key.
Gets(table, columns, row, k) == k \in Matching(table, columns, row) /\ Nothing

Makes(table, columns, row, k) ==
    /\ Matching(table, columns, row) = {}
    /\ k = Fresh(table)
    /\ Inserts(k, row)

GetOrCreate(table, columns, row, k) ==
    Gets(table, columns, row, k) \/ Makes(table, columns, row, k)

\* The rows that statement may get or create.
Candidates(table) == Stored(table) \cup {Fresh(table)}

SeedAdmin ==
    /\ boot = "admin"
    /\ \E k \in Candidates("user") :
          \/ /\ Gets("user", {"username"}, AdminUser, k)
             /\ Goes("tenant", [seed EXCEPT !.admin = k])
          \/ /\ Makes("user", {"username"}, AdminUser, k)
             /\ Goes("password", [seed EXCEPT !.admin = k])
    /\ Others

\* Mutant of SetPassword: the user is not saved again.
SetPasswordUnsaved ==
    /\ boot = "password"
    /\ Nothing /\ Others
    /\ Goes("tenant", seed)

SetPassword ==
    /\ boot = "password"
    /\ Commit(Put(rows, seed.admin,
                  Assign(AdminUser, NoColumns, [password |-> "admin123"])),
              saves, deletes)
    /\ Goes("tenant", seed) /\ Others

\* Mutant of SeedTenant: update_or_create.
SeedTenantUpdates ==
    /\ boot = "tenant"
    /\ \E k \in Candidates("tenant") :
          /\ \/ Makes("tenant", {"slug"}, ApexCorp, k)
             \/ k \in Matching("tenant", {"slug"}, ApexCorp) /\ Inserts(k, ApexCorp)
          /\ Goes("member", [seed EXCEPT !.tenant = k])
    /\ Others

SeedTenant ==
    /\ boot = "tenant"
    /\ \E k \in Candidates("tenant") :
          /\ GetOrCreate("tenant", {"slug"}, ApexCorp, k)
          /\ Goes("member", [seed EXCEPT !.tenant = k])
    /\ Others

\* The tenant was given another slug but has kept its name: get_or_create
\* finds no row, may not insert one, and raises; the command ends with an
\* error and the container is started again.
NameTaken ==
    /\ Matching("tenant", {"slug"}, ApexCorp) = {}
    /\ Matching("tenant", {"name"}, ApexCorp) # {}

SeedTenantFails ==
    /\ boot = "tenant" /\ NameTaken
    /\ Nothing /\ Others
    /\ Goes("admin", NoSeed)

SeedMember ==
    /\ boot = "member"
    /\ \E k \in Candidates("membership") :
          GetOrCreate("membership", {"tenant", "user"}, Owner, k)
    /\ Goes("procure", seed) /\ Others

\* Mutant of SeedProcurement: create() without a look for the row.
SeedProcurementCreates ==
    /\ boot = "procure"
    /\ Inserts(Fresh("definition"), Workflow("procurement-approval"))
    /\ Goes("onboard", [seed EXCEPT !.procure = Fresh("definition")])
    /\ Others

SeedProcurement ==
    /\ boot = "procure"
    /\ \E k \in Candidates("definition") :
          /\ GetOrCreate("definition", {"tenant", "slug"},
                         Workflow("procurement-approval"), k)
          /\ Goes("onboard", [seed EXCEPT !.procure = k])
    /\ Others

SeedOnboarding ==
    /\ boot = "onboard"
    /\ \E k \in Candidates("definition") :
          GetOrCreate("definition", {"tenant", "slug"},
                      Workflow("employee-onboarding"), k)
    /\ Goes("trace", seed) /\ Others

HasTrace ==
    \E i \in Stored("instance") : rows[i].ref.definition = seed.procure

SkipTrace ==
    /\ boot = "trace" /\ HasTrace
    /\ Nothing /\ Others
    /\ Goes("serving", NoSeed)

SeedTrace ==
    /\ boot = "trace" /\ ~HasTrace
    /\ LET i == Fresh("instance")
       IN  /\ Inserts(i, Instance(seed.tenant, seed.procure, seed.admin,
                                  "waiting_approval"))
           /\ Goes("step1", [seed EXCEPT !.inst = i])
    /\ Others

SeedStep(here, node_id, status, next) ==
    /\ boot = here
    /\ LET k == Fresh("step")
       IN  /\ Inserts(k, StepOf(seed.inst, node_id, status))
           /\ Goes(next, [seed EXCEPT !.step = k])
    /\ Others

SeedStep1 == SeedStep("step1", "trigger_node", "completed", "step2")
SeedStep2 == SeedStep("step2", "policy_check", "completed", "step3")
SeedStep3 == SeedStep("step3", "approval_gate", "in_progress", "task")

SeedTask ==
    /\ boot = "task"
    /\ Inserts(Fresh("task"), SignOff)
    /\ Goes("serving", NoSeed) /\ Others

BootStep ==
    \/ SeedAdmin \/ SetPassword \/ SeedTenant \/ SeedTenantFails \/ SeedMember
    \/ SeedProcurement \/ SeedOnboarding \/ SkipTrace \/ SeedTrace
    \/ SeedStep1 \/ SeedStep2 \/ SeedStep3 \/ SeedTask

\* What no later start makes up for.
Password == {"password"}
Trace == {"step1", "step2", "step3", "task"}

(***************************************************************************)
(* The container.                                                          *)
(***************************************************************************)
\* The process is killed, or a statement of the start fails: the requests it
\* was answering are forgotten.  A call whose row was saved just before stays
\* in calls: if it was not made yet, it will never be, which is LoseCall; if
\* it was, the engine gets it.
Cut ==
    /\ cuts < MaxCuts /\ cuts' = cuts + 1
    /\ gaps' = gaps \cup ({boot} \cap (Password \cup Trace))
    /\ boot' = "admin" /\ seed' = NoSeed
    /\ saves' = {} /\ deletes' = {} /\ page' = NoPage
    /\ UNCHANGED <<rows, buried, callVars, edited, requests, work>>

ServiceInit ==
    /\ RecordsInit
    /\ boot = "admin" /\ seed = NoSeed /\ cuts = 0 /\ gaps = {}

ServiceNext ==
    \/ BootStep
    \/ Cut
    \/ Serving /\ WebStep /\ UNCHANGED bootVars
    \/ (CallStep \/ EngineStep) /\ UNCHANGED bootVars

\* The start goes on while the process lives.
ServiceSpec ==
    ServiceInit /\ [][ServiceNext]_serviceVars /\ WF_serviceVars(BootStep)

(***************************************************************************)
(* Properties.                                                             *)
(***************************************************************************)
\* A start never changes or removes a row that is there, whatever users made
\* of it, except for the password of the user it has itself just added.
SeedOnlyAdds ==
    [][boot' # boot =>
          \A k \in DOMAIN rows :
              /\ k \in DOMAIN rows'
              /\ rows'[k] = rows[k] \/ (boot = "password" /\ k = seed.admin)]_serviceVars

\* The demonstration instance has its three steps, and its task refers to the
\* gate's step.
TraceComplete ==
    \E i \in Stored("instance"), t \in Stored("task") :
        /\ rows[i].val.status = "waiting_approval"
        /\ {rows[k].val.node_id : k \in {x \in Stored("step") :
                                            rows[x].ref.instance = i}}
             = {"trigger_node", "policy_check", "approval_gate"}
        /\ rows[t].ref.instance = i /\ rows[t].ref.step_execution # Null
        /\ rows[rows[t].ref.step_execution].val.node_id = "approval_gate"

\* When the server first answers, the admin can log in and the demonstration
\* instance can be decided, unless an earlier start was cut off while it was
\* at just these rows: such a gap is never closed by a later start.
SeededUnlessCut ==
    Serving /\ requests = 0 =>
        /\ \/ Password \subseteq gaps
           \/ \E k \in Matching("user", {"username"}, AdminUser) :
                 rows[k].val.password = "admin123"
        /\ Trace \cap gaps # {} \/ TraceComplete

\* Whatever users did to the data, a start ends with the server answering,
\* unless the demo tenant was given another slug and kept its name.
StartsUnlessRenamed ==
    (~Serving /\ ~NameTaken) ~> Serving
=============================================================================
