------------------------------ MODULE FlowGraph ------------------------------
(***************************************************************************)
(* The workflow graph (graph_schema) and how the engine walks it: which    *)
(* node it starts with, which executor runs a node, how a condition picks  *)
(* a branch and which node comes next.  Pure operators, no state.          *)
(*                                                                         *)
(* A node is named by its position in graph.nodes: the engine holds a      *)
(* reference to the node object, so two nodes with one id stay distinct.   *)
(* Position 0 stands for the code's null.                                  *)
(***************************************************************************)
EXTENDS Integers, Sequences, FiniteSetsExt

\* The payload keys a condition may compare.  Everything else in a payload
\* (timestamps, URLs, names) is not a number and reads as 0.
Fields == {"amount", "http_status", "actual_value"}

Payloads == [Fields -> Int]

NoNode == 0

\* A node's config: absent, of the wrong JSON shape, or an object.
NoConfig == [kind |-> "none", field |-> "", operator |-> "equals",
             threshold |-> 0, on_true |-> "", on_false |-> ""]
BadConfig == [NoConfig EXCEPT !.kind = "bad"]
Rule(field, operator, threshold, on_true, on_false) ==
    [kind |-> "object", field |-> field, operator |-> operator,
     threshold |-> threshold, on_true |-> on_true, on_false |-> on_false]

Configs == [kind : {"none", "bad", "object"}, field : STRING,
            operator : STRING, threshold : Int,
            on_true : STRING, on_false : STRING]

\* A node's type, which the engine compares now ignoring case and now not: its
\* lower-case form, and whether it is spelled so.
NodeTypes == [name : STRING, lower : BOOLEAN]
LowerCase(name) == [name |-> name, lower |-> TRUE]
MixedCase(name) == [name |-> name, lower |-> FALSE]

\* label: what Label ?? Id evaluates to.
Node(id, label, type, config) ==
    [id |-> id, label |-> label, type |-> type, config |-> config]
Edge(source, target) == [source |-> source, target |-> target]

\* valid: the JSON parses as a graph.
Graph(nodes, edges) == [valid |-> TRUE, nodes |-> nodes, edges |-> edges]
UnreadableGraph == [valid |-> FALSE, nodes |-> <<>>, edges |-> <<>>]
EmptyGraph == Graph(<<>>, <<>>)

GraphType ==
    [valid : BOOLEAN,
     nodes : Seq([id : STRING, label : STRING, type : NodeTypes,
                  config : Configs]),
     edges : Seq([source : STRING, target : STRING])]

Positions(g) == DOMAIN g.nodes
Label(g, n) == g.nodes[n].label

First(S) == IF S = {} THEN NoNode ELSE Min(S)

(***************************************************************************)
(* Executors are looked up ignoring case; an unknown type is handled by    *)
(* the notification executor.  The start node is looked up by exact case.  *)
(***************************************************************************)
ExecutorTypes ==
    {"trigger", "condition", "http_webhook", "approval", "notification"}

Executor(g, n) ==
    LET name == g.nodes[n].type.name
    IN  IF name \in ExecutorTypes THEN name ELSE "notification"

StartNode(g) ==
    LET triggers == {n \in Positions(g) : g.nodes[n].type = LowerCase("trigger")}
    IN  First(IF triggers = {} THEN Positions(g) ELSE triggers)

NodeById(g, id) == First({n \in Positions(g) : g.nodes[n].id = id})

\* The first edge out of node n, or 0.
EdgeFrom(g, n) ==
    First({e \in DOMAIN g.edges : g.edges[e].source = g.nodes[n].id})

\* Mutant of NextNode: past the last node the list starts over.
NextNodeAround(g, n, goto) ==
    IF goto # "" THEN NodeById(g, goto)
    ELSE IF n + 1 \in Positions(g) THEN n + 1 ELSE StartNode(g)

\* goto is the executor's NextNodeId, "" when it named none.
NextNode(g, n, goto) ==
    IF goto # "" THEN NodeById(g, goto)
    ELSE IF EdgeFrom(g, n) # 0
         THEN NodeById(g, g.edges[EdgeFrom(g, n)].target)
         ELSE IF n + 1 \in Positions(g) THEN n + 1 ELSE NoNode

(***************************************************************************)
(* The condition executor.                                                 *)
(***************************************************************************)
FieldValue(config, payload) ==
    IF config.field \in Fields THEN payload[config.field] ELSE 0

ConditionMet(config, payload) ==
    LET actual == FieldValue(config, payload)
    IN  CASE config.operator = "greater_than" -> actual > config.threshold
          [] config.operator = "less_than"    -> actual < config.threshold
          [] OTHER                            -> actual = config.threshold

Branch(config, payload) ==
    IF ConditionMet(config, payload) THEN config.on_true ELSE config.on_false

(***************************************************************************)
(* What a walk of the graph is, for the properties: the nodes that can     *)
(* follow node n, when its executor succeeds, in a run that began with the *)
(* payload input.                                                          *)
(***************************************************************************)
IsGate(g, n) == Executor(g, n) = "approval"

\* The fields that executors assign; a run never changes any other.
Outputs == {"http_status", "actual_value"}
Agrees(payload, input) == \A f \in Fields \ Outputs : payload[f] = input[f]

\* Where a condition sends a run is decided by its input, unless it compares
\* what an executor before it may have put into the payload.
Gotos(g, input, n) ==
    LET config == g.nodes[n].config
    IN  CASE Executor(g, n) # "condition" \/ config.kind # "object" -> {""}
          [] OTHER -> IF config.field \in Outputs
                      THEN {config.on_true, config.on_false}
                      ELSE {Branch(config, input)}

Followers(g, input, n) == {NextNode(g, n, goto) : goto \in Gotos(g, input, n)}

\* Some nodes can each be followed by one of them.
HasCycle(g, input) ==
    \E S \in SUBSET Positions(g) :
        S # {} /\ \A n \in S : Followers(g, input, n) \cap S # {}
=============================================================================
