--------------------------- MODULE MCWorkflowRunner ---------------------------
(***************************************************************************)
(* Small instances of WorkflowRunner for TLC.                              *)
(***************************************************************************)
EXTENDS WorkflowRunner

CONSTANTS i1, i2, d1

OneInstance == {i1}
TwoInstances == {i1, i2}
OneDefinition == {d1}

SameDefinition == [i \in Instances |-> d1]

\* A node as the editor makes it: its type in lower case, a label of its own.
Plain(id, type, config) == Node(id, id, LowerCase(type), config)

\* The procurement graph of the demo data: an amount above 5000 (here 5) needs
\* an approval, any other goes straight to the webhook.
Procurement ==
    Graph(<<Plain("start", "trigger", NoConfig),
            Plain("policy", "condition",
                  Rule("amount", "greater_than", 5, "gate", "erp")),
            Plain("gate", "approval", NoConfig),
            Plain("erp", "http_webhook", NoConfig),
            Plain("notify", "notification", NoConfig)>>,
          <<Edge("start", "policy"), Edge("policy", "gate"),
            Edge("gate", "erp"), Edge("erp", "notify")>>)

Amount(n) == [f \in Fields |-> IF f = "amount" THEN n ELSE 0]
LowInput == [i \in Instances |-> Amount(3)]
MixedInput == [i \in Instances |-> Amount(IF i = i1 THEN 3 ELSE 9)]

\* No edges: the engine takes the adjacent node.  The start node is found
\* although it is not the first, and although the first is a trigger too, but
\* not spelled so; a condition without config goes on; no executor is
\* registered for transform; the rule names a node that is not there and a
\* gate whose executor throws, both found by a type in other case.
Mixed ==
    Graph(<<Node("late", "late", MixedCase("trigger"), NoConfig),
            Plain("start", "trigger", NoConfig),
            Plain("bare", "condition", NoConfig),
            Plain("map", "transform", NoConfig),
            Node("policy", "policy", MixedCase("condition"),
                 Rule("amount", "greater_than", 5, "gate", "gone")),
            Node("gate", "gate", MixedCase("approval"), BadConfig)>>, <<>>)

WalkedGraphs == {Procurement, Mixed}

\* A call that may fail, a gate, a condition that fails, and a last node
\* labelled "End": enough, with the graphs that have no node to walk, for runs
\* that race.
Called == Graph(<<Plain("call", "http_webhook", NoConfig)>>, <<>>)
OneGate == Graph(<<Plain("gate", "approval", NoConfig)>>, <<>>)
BadRule == Graph(<<Plain("bad", "condition", BadConfig)>>, <<>>)
CalledEnd ==
    Graph(<<Plain("call", "http_webhook", NoConfig),
            Node("last", "End", LowerCase("notification"), NoConfig)>>, <<>>)

RaceGraphs == {Called, CalledEnd, OneGate, BadRule, EmptyGraph, UnreadableGraph}
=============================================================================
