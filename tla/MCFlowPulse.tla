------------------------------ MODULE MCFlowPulse ------------------------------
(***************************************************************************)
(* Small instances of the whole system for TLC.                            *)
(***************************************************************************)
EXTENDS FlowPulse

CONSTANTS i1, i2, d1

OneInstance == {i1}
TwoInstances == {i1, i2}
OneDefinition == {d1}
SameDefinition == [i \in Instances |-> d1]

NoInput == [i \in Instances |-> [f \in Fields |-> 0]]

Plain(id, type) == Node(id, id, LowerCase(type), NoConfig)

\* A webhook, then an approval gate.
Guarded == Graph(<<Plain("call", "http_webhook"), Plain("gate", "approval"),
                   Plain("done", "notification")>>, <<>>)
OneGate == Graph(<<Plain("gate", "approval")>>, <<>>)
OneCall == Graph(<<Plain("call", "http_webhook")>>, <<>>)
GuardedGraph == {Guarded}
OneGateGraph == {OneGate}
OneCallGraph == {OneCall}
ShortGraphs == {OneGate, OneCall}
\* A definition that is saved without nodes first, or emptied later.
EditedGraphs == {OneCall, EmptyGraph}
=============================================================================
