--------------------------- MODULE FlowGraph_proofs ---------------------------
(***************************************************************************)
(* Facts about the operators on workflow graphs, for every graph.          *)
(***************************************************************************)
EXTENDS FlowGraph, WellFoundedInduction, SequenceTheorems, TLAPS

\* A set of natural numbers that is not empty has a least element.
LEMMA LeastExists ==
    ASSUME NEW S \in SUBSET Nat, S # {}
    PROVE  \E n \in S : \A m \in S : n <= m
<1> DEFINE Less == {ss \in Nat \X Nat : ss[1] < ss[2]}
<1>1. IsWellFoundedOn(Less, Nat)
  BY NatLessThanWellFounded DEF OpToRel
<1>2. \E x \in S : \A y \in S : ~ (<<y, x>> \in Less)
  <2> HIDE DEF Less
  <2>1. S \subseteq Nat
    OBVIOUS
  <2> QED
    BY <1>1, <2>1, WFMin, Zenon
<1>3. PICK x \in S : \A y \in S : ~ (<<y, x>> \in Less)
  BY <1>2
<1>4. ASSUME NEW y \in S PROVE x <= y
  <2>1. <<y, x>> \in Nat \X Nat
    OBVIOUS
  <2>2. ~ (<<y, x>>[1] < <<y, x>>[2])
    BY <1>3, <2>1, Zenon
  <2> QED
    BY <2>2
<1> QED
  BY <1>4

\* First returns the least element, or 0 when there is none: what
\* FirstOrDefault returns over the positions of a list.
THEOREM FirstIsLeast ==
    ASSUME NEW S \in SUBSET Nat
    PROVE  /\ First(S) \in Nat
           /\ S # {} => First(S) \in S /\ \A m \in S : First(S) <= m
           /\ S = {} => First(S) = NoNode
<1>1. CASE S = {}
  BY <1>1 DEF First, NoNode
<1>2. CASE S # {}
  BY <1>2, LeastExists DEF First, Min
<1> QED
  BY <1>1, <1>2

\* Nodes are numbered from 1, and 0 stands for no node.
LEMMA PositionsAreNat ==
    ASSUME NEW g \in GraphType
    PROVE  /\ Positions(g) \subseteq Nat /\ NoNode \notin Positions(g)
           /\ DOMAIN g.edges \subseteq Nat
  BY DEF Positions, GraphType, NoNode

\* The walk starts at a node of the graph: one of type "trigger", so spelled,
\* if there is one; at none only if the graph has none.
THEOREM StartNodeIsANode ==
    ASSUME NEW g \in GraphType
    PROVE  /\ StartNode(g) \in Positions(g) \cup {NoNode}
           /\ StartNode(g) = NoNode <=> Positions(g) = {}
           /\ (\E n \in Positions(g) : g.nodes[n].type = LowerCase("trigger"))
                => g.nodes[StartNode(g)].type = LowerCase("trigger")
<1> DEFINE triggers ==
              {n \in Positions(g) : g.nodes[n].type = LowerCase("trigger")}
<1>1. /\ triggers \in SUBSET Nat /\ Positions(g) \in SUBSET Nat
      /\ NoNode \notin Positions(g)
  BY PositionsAreNat
<1>2. StartNode(g) = First(IF triggers = {} THEN Positions(g) ELSE triggers)
  BY DEF StartNode
<1>3. CASE triggers = {}
  BY <1>1, <1>2, <1>3, FirstIsLeast
<1>4. CASE triggers # {}
  <2>1. StartNode(g) \in triggers
    BY <1>1, <1>2, <1>4, FirstIsLeast
  <2> QED
    BY <1>1, <2>1
<1> QED
  BY <1>3, <1>4

\* Looking a node up by its id gives a node of the graph or none.
LEMMA NodeByIdIsANode ==
    ASSUME NEW g \in GraphType, NEW id
    PROVE  NodeById(g, id) \in Positions(g) \cup {NoNode}
<1> DEFINE S == {n \in Positions(g) : g.nodes[n].id = id}
<1>1. S \in SUBSET Nat
  BY PositionsAreNat
<1>2. First(S) \in S \cup {NoNode}
  BY <1>1, FirstIsLeast
<1> QED
  BY <1>2 DEF NodeById

\* Whatever the executor asked for, the walk goes to a node of the graph or
\* ends: an id that no node has never leads it elsewhere.
THEOREM NextNodeIsANode ==
    ASSUME NEW g \in GraphType, NEW n \in Nat, NEW goto
    PROVE  NextNode(g, n, goto) \in Positions(g) \cup {NoNode}
  BY NodeByIdIsANode DEF NextNode

\* A node's label is text.
LEMMA LabelIsText ==
    ASSUME NEW g \in GraphType, NEW n \in Positions(g)
    PROVE  Label(g, n) \in STRING
<1> DEFINE N == [id : STRING, label : STRING, type : NodeTypes, config : Configs]
<1>1. g.nodes \in Seq(N)
  BY DEF GraphType
<1>2. \A m \in DOMAIN g.nodes : g.nodes[m] \in N
  <2> HIDE DEF N
  <2> QED
    BY <1>1, ElementOfSeq, LenProperties
<1> QED
  BY <1>2 DEF Label, Positions

\* A payload and the input it began with take a condition to the same branch,
\* unless it compares an output of the executors.
LEMMA BranchIsAGoto ==
    ASSUME NEW g, NEW input, NEW n, NEW payload, Agrees(payload, input),
           Executor(g, n) = "condition", g.nodes[n].config.kind = "object"
    PROVE  Branch(g.nodes[n].config, payload) \in Gotos(g, input, n)
<1> DEFINE config == g.nodes[n].config
<1>1. CASE config.field \in Outputs
  BY <1>1 DEF Branch, Gotos
<1>2. CASE config.field \notin Outputs
  <2>1. FieldValue(config, payload) = FieldValue(config, input)
    BY <1>2 DEF FieldValue, Agrees
  <2>2. ConditionMet(config, payload) = ConditionMet(config, input)
    BY <2>1 DEF ConditionMet
  <2>3. Branch(config, payload) = Branch(config, input)
    BY <2>2 DEF Branch
  <2> QED
    BY <1>2, <2>3 DEF Gotos
<1> QED
  BY <1>1, <1>2
=============================================================================
