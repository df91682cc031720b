-------------------------- MODULE WorkflowsProofs --------------------------
(***************************************************************************)
(* For any flows, tools, answers, changes and bounds that meet the named   *)
(* assumptions of Flows: the promises of the workflows, however often they *)
(* are invoked on the state they left.                                     *)
(* LogInv says of every run what the log shows of it: where it is, how far *)
(* it got and that each record leads on from the one before it.            *)
(* FlowInv says of every state a run holds, or the caller keeps, what the  *)
(* flow's nodes rely on (Good): what a state is before each node, from     *)
(* what the nodes before it have left there.                               *)
(***************************************************************************)
EXTENDS Workflows, Integers, TLAPS, SequenceTheorems, FiniteSetTheorems, WellFoundedInduction

-----------------------------------------------------------------------------
(* The least of some numbers, and where an output leads. *)

LEMMA MinIs ==
  ASSUME NEW S, S \subseteq Nat, S # {}
  PROVE  Min(S) \in S /\ \A x \in S : Min(S) <= x
<1>1. \E x \in S : \A y \in S : ~(<<y, x>> \in OpToRel(<, Nat))
  BY WFMin, NatLessThanWellFounded
<1>2. PICK x \in S : \A y \in S : ~(<<y, x>> \in OpToRel(<, Nat))
  BY <1>1
<1>3. \A y \in S : ~(y < x)
  BY <1>2 DEF OpToRel
<1>4. \E z \in S : \A y \in S : z =< y
  BY <1>3
<1> DEFINE P(z) == z \in S /\ \A y \in S : z =< y
<1>5. P(CHOOSE z : P(z))
  <2> HIDE DEF P
  <2>1. \E z : P(z)
    BY <1>4 DEF P
  <2> QED
    BY <2>1
<1> QED
  BY <1>5 DEF Min

\* An edge serves a transition key.
Serves(edge, n, key) == edge.from = n /\ (edge.key = key \/ (edge.key = NoKey /\ key = CONTINUE))

LEMMA FirstIs ==
  ASSUME NEW s, NEW S, S \subseteq Nat, S # {}
  PROVE  R!Routing(s)!First(S) \in S
<1>1. Min(S) \in S /\ \A x \in S : Min(S) <= x
  BY MinIs
<1> QED
  BY <1>1 DEF R!Routing!First

\* Where an output leads: an edge that serves its key, or the end without one.
LEMMA Follow ==
  ASSUME NEW s, NEW n, NEW out, NEW next \in R!ResolveNext(s, n, out),
         DOMAIN EdgesAt(flow, s) \subseteq Nat,
         \A k \in DOMAIN EdgesAt(flow, s) : EdgesAt(flow, s)[k].to # {}
  PROVE  /\ out.kind = "finish" => next = END
         /\ out.kind = "goto" => next = out.target
         /\ out.kind = "transition" =>
              \/ next = END /\ \A k \in DOMAIN EdgesAt(flow, s) :
                                ~Serves(EdgesAt(flow, s)[k], n, out.key)
              \/ \E k \in DOMAIN EdgesAt(flow, s) :
                   Serves(EdgesAt(flow, s)[k], n, out.key) /\ next \in EdgesAt(flow, s)[k].to
<1> DEFINE edges == EdgesAt(flow, s)
           keyed == {k \in DOMAIN edges : edges[k].from = n /\ edges[k].key = out.key}
           unkeyed == {k \in DOMAIN edges : edges[k].from = n /\ edges[k].key = NoKey
                                             /\ out.key = CONTINUE}
           to == R!Routing(s)!NextFor(n, out.key)
<1>1. CASE out.kind = "finish"
  BY <1>1 DEF R!ResolveNext, R!Routing!Successors
<1>2. CASE out.kind = "goto"
  BY <1>2 DEF R!ResolveNext, R!Routing!Successors
<1>3. CASE out.kind = "transition"
  <2>1. next \in IF to = {} THEN {END} ELSE to
    BY <1>3 DEF R!ResolveNext, R!Routing!Successors
  <2>2. to = IF keyed # {} THEN edges[R!Routing(s)!First(keyed)].to
             ELSE IF unkeyed # {} THEN edges[R!Routing(s)!First(unkeyed)].to ELSE {}
    BY DEF R!Routing!NextFor, R!Routing!Outgoing
  <2>3. \A k \in DOMAIN edges : k \in keyed \cup unkeyed <=> Serves(edges[k], n, out.key)
    BY DEF Serves
  <2> HIDE DEF to, edges
  <2>4. CASE keyed # {}
    <3>1. R!Routing(s)!First(keyed) \in keyed
      BY <2>4, FirstIs DEF edges
    <3> QED
      BY <1>3, <2>1, <2>2, <2>3, <2>4, <3>1 DEF edges
  <2>5. CASE keyed = {} /\ unkeyed # {}
    <3>1. R!Routing(s)!First(unkeyed) \in unkeyed
      BY <2>5, FirstIs DEF edges
    <3> QED
      BY <1>3, <2>1, <2>2, <2>3, <2>5, <3>1 DEF edges
  <2>6. CASE keyed = {} /\ unkeyed = {}
    BY <1>3, <2>1, <2>2, <2>3, <2>6 DEF edges
  <2> QED
    BY <2>4, <2>5, <2>6
<1> QED
  BY <1>1, <1>2, <1>3

-----------------------------------------------------------------------------
(* Which graph a flow has, and what its nodes are. *)

LEMMA FlowTable ==
  /\ flow = "roles" => /\ \A s : EdgesAt(flow, s) = RolesGraph.edges
                       /\ Graph(flow) = RolesGraph
                       /\ \A n, s : Execute(flow, n, s) = RolesNode(n, s)
  /\ flow = "dev" => /\ \A s : EdgesAt(flow, s) = DevGraph.edges
                     /\ Graph(flow) = DevGraph
                     /\ \A n, s : Execute(flow, n, s) = DevNode(n, s)
  /\ flow = "hitl" => /\ \A s : EdgesAt(flow, s) = HitlGraph(FALSE).edges
                      /\ Graph(flow) = HitlGraph(FALSE)
                      /\ \A n, s : Execute(flow, n, s) = HitlNode(n, s, DefaultMatrix)
  /\ flow = "operator" => /\ \A s : EdgesAt(flow, s) = HitlGraph(TRUE).edges
                          /\ Graph(flow) = HitlGraph(TRUE)
                          /\ \A n, s : Execute(flow, n, s) = HitlNode(n, s, DenyHigh)
  /\ flow = "release" => /\ \A s : EdgesAt(flow, s) = ReleaseGraph.edges
                         /\ Graph(flow) = ReleaseGraph
                         /\ \A n, s : Execute(flow, n, s) = ReleaseNode(n, s)
  /\ flow = "pipeline" => /\ \A s : EdgesAt(flow, s) = PipelineGraph.edges
                          /\ Graph(flow) = PipelineGraph
                          /\ \A n, s : Execute(flow, n, s) = PipelineNode(n, s)
  /\ flow = "react" => /\ \A s : EdgesAt(flow, s) = ReactGraph(s).edges
                       /\ Graph(flow) = ReactGraph(Empty)
                       /\ \A n, s : Execute(flow, n, s) = ReactNode(n, s)
  /\ flow = "governance" => /\ \A s : EdgesAt(flow, s) = GovernanceGraph.edges
                            /\ Graph(flow) = GovernanceGraph
                            /\ \A n, s : Execute(flow, n, s) = GovernanceFlowNode(n, s)
  /\ flow \in {"enterprise", "tenant"} =>
       /\ \A s, e : EdgesAt(flow, s) = EnterpriseGraph(e).edges
       /\ \A e : Graph(flow).nodes = EnterpriseGraph(e).nodes
       /\ \A n, s : Execute(flow, n, s) = EnterpriseNode(n, s)
  /\ flow = "enterprise" => Graph(flow).entry = "enterprise_setup"
  /\ flow = "tenant" => Graph(flow).entry = "tenant_guard"
<1>1. CASE flow = "roles"
  BY <1>1 DEF EdgesAt, Graph, GraphAt, Execute
<1>2. CASE flow = "dev"
  BY <1>2 DEF EdgesAt, Graph, GraphAt, Execute
<1>3. CASE flow = "hitl"
  BY <1>3 DEF EdgesAt, Graph, GraphAt, Execute
<1>4. CASE flow = "operator"
  BY <1>4 DEF EdgesAt, Graph, GraphAt, Execute
<1>5. CASE flow = "release"
  BY <1>5 DEF EdgesAt, Graph, GraphAt, Execute
<1>6. CASE flow = "pipeline"
  BY <1>6 DEF EdgesAt, Graph, GraphAt, Execute
<1>7. CASE flow = "react"
  BY <1>7 DEF EdgesAt, Graph, GraphAt, Execute
<1>8. CASE flow = "governance"
  BY <1>8 DEF EdgesAt, Graph, GraphAt, Execute
<1>9. CASE flow = "enterprise"
  BY <1>9 DEF EdgesAt, Graph, GraphAt, Execute, EnterpriseGraph, CompiledGraph
<1>10. CASE flow = "tenant"
  BY <1>10 DEF EdgesAt, Graph, GraphAt, Execute, EnterpriseGraph, CompiledGraph
<1> QED
  BY <1>1, <1>2, <1>3, <1>4, <1>5, <1>6, <1>7, <1>8, <1>9, <1>10

\* What a node of a recorded flow may answer: no target of it is the missing one.
Named(out) ==
  \/ out = Finish
  \/ out = Cont
  \/ \E k : out = Transition(k)
  \/ \E x : x # None /\ (out = ContinueTo(x) \/ out = RouteTo(x))

LEMMA RolesAnswers ==
  ASSUME NEW n, NEW s, NEW r \in RolesNode(n, s) PROVE Named(r.out)
BY DEF RolesNode, GovernanceNode, EchoNode, RoleHandoffNode, RoleRouterNode, Result, Named

LEMMA DevAnswers ==
  ASSUME NEW n, NEW s, NEW r \in DevNode(n, s) PROVE Named(r.out)
<1>1. CASE n = "implement"
  <2>1. r \in ImplementNode(s, DevRisks)
    BY <1>1 DEF DevNode
  <2>2. \E x : r = Result(x, Cont)
    BY <2>1 DEF ImplementNode
  <2> QED
    BY <2>2 DEF Result, Named
<1>2. CASE n = "quality_gate"
  <2>1. \E config : r \in QualityGateNode(s, config, {"listed"})
    BY <1>2 DEF DevNode
  <2>2. \E x, k : r = Result(x, Transition(k))
    BY <2>1 DEF QualityGateNode
  <2> QED
    BY <2>2 DEF Result, Named
<1>3. CASE n \in {"ship", "human_review", "fix_loop"}
  <2>1. "done" # None /\ "implement" # None
    BY NamesAreApart DEF FlowNames, Graph, GraphAt, DevGraph, CompiledGraph
  <2> QED
    BY <1>3, <2>1 DEF DevNode, StaticTransitionNode, OrFinish, Result, Named
<1>4. CASE n \notin {"implement", "quality_gate", "ship", "human_review", "fix_loop"}
  BY <1>4 DEF DevNode, EchoNode, Result, Named
<1> QED
  BY <1>1, <1>2, <1>3, <1>4

LEMMA HitlAnswers ==
  ASSUME NEW n, NEW s, NEW matrix, NEW r \in HitlNode(n, s, matrix), r.ok PROVE Named(r.out)
<1>1. CASE n = "checkpoint"
  BY <1>1 DEF HitlNode, ApprovalCheckpointNode, Result, Named
<1>2. CASE n # "checkpoint"
  BY <1>2 DEF HitlNode, EditInterventionNode, GrantApprovalNode, EchoNode, Result, Failure, Named
<1> QED
  BY <1>1, <1>2

LEMMA ReleaseAnswers ==
  ASSUME NEW n, NEW s, NEW r \in ReleaseNode(n, s), r.ok PROVE Named(r.out)
<1>1. CASE n = "coordinate"
  BY <1>1 DEF ReleaseNode, MultiRepoCoordinatorNode, Result, Failure, Named
<1>2. CASE n = "complete_change"
  BY <1>2 DEF ReleaseNode, CompleteRepoChangeNode, Result, Failure, Named
<1>3. CASE n \in {"aggregate_ci", "release_gate"}
  BY <1>3 DEF ReleaseNode, CiAggregateNode, ReleaseGateNode, Result, Failure, Named
<1>4. CASE n \notin {"coordinate", "complete_change", "aggregate_ci", "release_gate"}
  BY <1>4 DEF ReleaseNode, EchoNode, Result, Named
<1> QED
  BY <1>1, <1>2, <1>3, <1>4

LEMMA PipelineAnswers ==
  ASSUME NEW n \in PipelineGraph.nodes, NEW s, NEW r \in PipelineNode(n, s), r.ok
  PROVE  Named(r.out)
<1>1. None # END /\ None \notin {"router", "pause", "ask", "choose", "work", "static", "echo",
                               "jump", "stop", "gone"}
  BY NamesAreApart DEF FlowNames, Graph, GraphAt, PipelineGraph, CompiledGraph
<1>2. n \in {"router", "pause", "ask", "choose", "work", "static", "echo", "jump", "stop"}
  BY DEF PipelineGraph, CompiledGraph
<1>3. CASE n = "router"
  BY <1>1, <1>3 DEF PipelineNode, ContextRouterNode, Result, Named
<1>4. CASE n \in {"pause", "echo", "stop"}
  BY <1>4 DEF PipelineNode, DelayNode, EchoNode, FinishNode, Result, Named
<1>5. CASE n = "ask"
  BY <1>1, <1>5 DEF PipelineNode, ConditionalNode, OrFinish, Result, Named
<1>6. CASE n = "choose"
  <2> DEFINE branches == <<[holds |-> IsComplete(s), target |-> END],
                           [holds |-> ContextBool(s, "urgent"), target |-> "work"]>>
             open == {i \in DOMAIN branches : branches[i].holds}
  <2>1. r \in BranchNode(s, branches, "jump")
    BY <1>6 DEF PipelineNode
  <2>2. open \subseteq {1, 2}
    OBVIOUS
  <2>3. open # {} => branches[Min(open)].target \in {END, "work"}
    <3>1. open # {} => Min(open) \in open
      BY <2>2, MinIs
    <3> QED
      BY <2>2, <3>1
  <2>4. r = Result(s, OrFinish(IF open = {} THEN "jump" ELSE branches[Min(open)].target))
    BY <2>1 DEF BranchNode
  <2> QED
    BY <1>1, <2>3, <2>4 DEF OrFinish, Result, Named
<1>7. CASE n = "work"
  BY <1>1, <1>7 DEF PipelineNode, Result, Failure, Named
<1>8. CASE n \in {"static", "jump"}
  BY <1>1, <1>8 DEF PipelineNode, StaticTransitionNode, RouteToNode, OrFinish, Result, Named
<1> QED
  BY <1>2, <1>3, <1>4, <1>5, <1>6, <1>7, <1>8

\* The recorded flows are those that route the same in every state.
RecordedFlows == {"roles", "dev", "hitl", "operator", "release", "pipeline"}

LEMMA RecordedIs == R!Traced <=> flow \in RecordedFlows
BY DEF R!Traced, Host, RecordedFlows

\* The edges of the graphs lead to their nodes or to the end.
LEMMA EdgesLead ==
  /\ \A k \in DOMAIN RolesGraph.edges :
       /\ k \in Nat /\ RolesGraph.edges[k].to # {}
       /\ \A x \in RolesGraph.edges[k].to : x \in RolesGraph.nodes \cup {END}
  /\ \A k \in DOMAIN DevGraph.edges :
       /\ k \in Nat /\ DevGraph.edges[k].to # {}
       /\ \A x \in DevGraph.edges[k].to : x \in DevGraph.nodes \cup {END}
  /\ \A waits \in BOOLEAN : \A k \in DOMAIN HitlGraph(waits).edges :
       /\ k \in Nat /\ HitlGraph(waits).edges[k].to # {}
       /\ \A x \in HitlGraph(waits).edges[k].to : x \in HitlGraph(waits).nodes \cup {END}
  /\ \A k \in DOMAIN ReleaseGraph.edges :
       /\ k \in Nat /\ ReleaseGraph.edges[k].to # {}
       /\ \A x \in ReleaseGraph.edges[k].to : x \in ReleaseGraph.nodes \cup {END}
  /\ \A k \in DOMAIN PipelineGraph.edges :
       /\ k \in Nat /\ PipelineGraph.edges[k].to # {}
       /\ \A x \in PipelineGraph.edges[k].to : x \in PipelineGraph.nodes \cup {END}
<1>1. ASSUME NEW k \in DOMAIN RolesGraph.edges
      PROVE  /\ k \in Nat /\ RolesGraph.edges[k].to # {}
             /\ \A x \in RolesGraph.edges[k].to : x \in RolesGraph.nodes \cup {END}
  BY SMTT(60) DEF RolesGraph, CompiledGraph, Edge, EdgeWithKey
<1>2. ASSUME NEW k \in DOMAIN DevGraph.edges
      PROVE  /\ k \in Nat /\ DevGraph.edges[k].to # {}
             /\ \A x \in DevGraph.edges[k].to : x \in DevGraph.nodes \cup {END}
  BY DEF DevGraph, CompiledGraph, Edge, EdgeWithKey
<1>3. ASSUME NEW waits \in BOOLEAN, NEW k \in DOMAIN HitlGraph(waits).edges
      PROVE  /\ k \in Nat /\ HitlGraph(waits).edges[k].to # {}
             /\ \A x \in HitlGraph(waits).edges[k].to : x \in HitlGraph(waits).nodes \cup {END}
  BY DEF HitlGraph, CompiledGraph, Edge, EdgeWithKey
<1>4. ASSUME NEW k \in DOMAIN ReleaseGraph.edges
      PROVE  /\ k \in Nat /\ ReleaseGraph.edges[k].to # {}
             /\ \A x \in ReleaseGraph.edges[k].to : x \in ReleaseGraph.nodes \cup {END}
  BY SMTT(60) DEF ReleaseGraph, CompiledGraph, Edge, EdgeWithKey
<1>5. ASSUME NEW k \in DOMAIN PipelineGraph.edges
      PROVE  /\ k \in Nat /\ PipelineGraph.edges[k].to # {}
             /\ \A x \in PipelineGraph.edges[k].to : x \in PipelineGraph.nodes \cup {END}
  BY DEF PipelineGraph, CompiledGraph, Edge, EdgeWithKey
<1> QED
  BY <1>1, <1>2, <1>3, <1>4, <1>5

LEMMA RecordedEdges ==
  ASSUME flow \in RecordedFlows
  PROVE  /\ \A s : EdgesAt(flow, s) = Graph(flow).edges
         /\ \A k \in DOMAIN Graph(flow).edges :
              k \in Nat /\ Graph(flow).edges[k].to # {} /\ None \notin Graph(flow).edges[k].to
<1>1. \A x \in Graph(flow).nodes \cup {END} : x # None
  BY NamesAreApart DEF FlowNames, RecordedFlows
<1>2. \A s : EdgesAt(flow, s) = Graph(flow).edges
  BY FlowTable DEF RecordedFlows
<1>3. \A k \in DOMAIN Graph(flow).edges :
        /\ k \in Nat /\ Graph(flow).edges[k].to # {}
        /\ \A x \in Graph(flow).edges[k].to : x \in Graph(flow).nodes \cup {END}
  BY FlowTable, EdgesLead DEF RecordedFlows
<1> QED
  BY <1>1, <1>2, <1>3

LEMMA RecordedAnswers ==
  ASSUME flow \in RecordedFlows, NEW n \in Graph(flow).nodes, NEW s,
         NEW r \in Execute(flow, n, s), r.ok
  PROVE  Named(r.out)
<1>1. CASE flow = "roles"
  BY <1>1, FlowTable, RolesAnswers
<1>2. CASE flow = "dev"
  BY <1>2, FlowTable, DevAnswers
<1>3. CASE flow = "hitl"
  BY <1>3, FlowTable, HitlAnswers
<1>6. CASE flow = "operator"
  BY <1>6, FlowTable, HitlAnswers
<1>4. CASE flow = "release"
  BY <1>4, FlowTable, ReleaseAnswers
<1>5. CASE flow = "pipeline"
  BY <1>5, FlowTable, PipelineAnswers
<1> QED
  BY <1>1, <1>2, <1>3, <1>4, <1>5, <1>6 DEF RecordedFlows

\* The runner's own copies of what it shares with the nodes.
LEMMA SameNames ==
  /\ R!Finish = Finish /\ R!Cont = Cont /\ R!Empty = Empty
  /\ \A x : /\ R!ContinueTo(x) = ContinueTo(x) /\ R!RouteTo(x) = RouteTo(x)
            /\ R!Transition(x) = Transition(x) /\ R!TargetOf(x) = TargetOf(x)
BY DEF R!Finish, Finish, R!Cont, Cont, R!Empty, Empty, R!AgentState, AgentState,
       R!ContinueTo, ContinueTo, R!RouteTo, RouteTo, R!Transition, Transition, R!TargetOf, TargetOf

\* What is recorded of a step leads, replayed, where the step went.
LEMMA RecordLeads ==
  ASSUME flow \in RecordedFlows, NEW i, NEW iteration, NEW s, NEW n, NEW out, Named(out),
         NEW next \in R!ResolveNext(s, n, out)
  PROVE  LET rec == R!Record(i, n, iteration, out, next)
             led == IF rec.next = None THEN END ELSE rec.next
         IN  led = next /\ (~(rec.label = "continue_to" /\ rec.next = None) =>
                              led \in R!ReplayLeads(rec))
<1> DEFINE rec == R!Record(i, n, iteration, out, next)
<1>1. /\ EdgesAt(flow, s) = EdgesAt(flow, Empty) /\ DOMAIN EdgesAt(flow, s) \subseteq Nat
      /\ \A k \in DOMAIN EdgesAt(flow, s) :
           EdgesAt(flow, s)[k].to # {} /\ None \notin EdgesAt(flow, s)[k].to
  BY RecordedEdges
<1>2. \A x : R!ResolveNext(s, n, x) = R!ResolveNext(Empty, n, x)
  BY <1>1 DEF R!ResolveNext, R!Routing!Successors, R!Routing!NextFor, R!Routing!Outgoing,
              R!Routing!First
<1>3. None # END
  BY NamesAreApart
<1>4. rec.next = (IF next = END THEN None ELSE next) /\ rec.label = out.label
      /\ rec.target = TargetOf(out) /\ rec.node = n
  BY SameNames DEF R!Record
<1>5. next # None
  BY <1>1, <1>3, Follow DEF Named, Finish, Cont, ContinueTo, RouteTo, Transition
<1> HIDE DEF rec
<1>6. ASSUME out = Finish PROVE R!ReplayLeads(rec) = R!ResolveNext(Empty, n, out)
  <2>1. next = END /\ rec.label = "finish"
    BY <1>1, <1>4, <1>6, Follow DEF Finish
  <2>2. R!ReplayLeads(rec) = R!ResolveNext(Empty, n, Finish)
    BY <1>4, <2>1, SameNames DEF R!ReplayLeads, R!Replayed
  <2> QED
    BY <2>2, <1>6
<1>7. ASSUME out = Cont PROVE R!ReplayLeads(rec) = R!ResolveNext(Empty, n, out)
  <2>1. rec.label = "continue"
    BY <1>4, <1>7 DEF Cont
  <2>2. R!ReplayLeads(rec) = R!ResolveNext(Empty, n, Cont)
    BY <1>4, <2>1, SameNames DEF R!ReplayLeads, R!Replayed
  <2> QED
    BY <2>2, <1>7
<1>8. ASSUME NEW k, out = Transition(k) PROVE R!ReplayLeads(rec) = R!ResolveNext(Empty, n, out)
  <2>1. rec.label = "transition" /\ rec.target = k
    BY <1>4, <1>8 DEF Transition, TargetOf
  <2> QED
    BY <1>4, <1>8, <2>1, SameNames DEF R!ReplayLeads, R!Replayed
<1>9. ASSUME NEW x, x # None, out = RouteTo(x) PROVE R!ReplayLeads(rec) = R!ResolveNext(Empty, n, out)
  <2>1. rec.label = "route" /\ rec.target = x
    BY <1>4, <1>9 DEF RouteTo, TargetOf
  <2> QED
    BY <1>4, <1>9, <2>1, SameNames DEF R!ReplayLeads, R!Replayed
<1>10. ASSUME NEW x, x # None, out = ContinueTo(x), rec.next # None
       PROVE  R!ReplayLeads(rec) = R!ResolveNext(Empty, n, out)
  <2>1. rec.label = "continue_to" /\ next = x
    BY <1>1, <1>4, <1>10, Follow DEF ContinueTo
  <2>2. rec.next = x
    BY <1>4, <1>10, <2>1
  <2> QED
    BY <1>4, <1>10, <2>1, <2>2, SameNames DEF R!ReplayLeads, R!Replayed
<1>11. \A x : out = ContinueTo(x) => rec.label = "continue_to"
  BY <1>4 DEF ContinueTo
<1>12. (IF rec.next = None THEN END ELSE rec.next) = next
  BY <1>3, <1>4, <1>5
<1>13. next \in R!ResolveNext(Empty, n, out)
  BY <1>2
<1>14. ~(rec.label = "continue_to" /\ rec.next = None) => next \in R!ReplayLeads(rec)
  BY <1>6, <1>7, <1>8, <1>9, <1>10, <1>11, <1>13 DEF Named
<1> QED
  BY <1>12, <1>14 DEF rec
-----------------------------------------------------------------------------
(* The transition log. *)

IsSeq(q) == \E S : q \in Seq(S)

LEMMA AppendIs ==
  ASSUME NEW q, IsSeq(q), NEW e
  PROVE  /\ IsSeq(Append(q, e)) /\ Len(q) \in Nat /\ DOMAIN q = 1 .. Len(q)
         /\ Len(Append(q, e)) = Len(q) + 1 /\ DOMAIN Append(q, e) = 1 .. Len(q) + 1
         /\ \A k \in 1 .. Len(q) : Append(q, e)[k] = q[k]
         /\ Append(q, e)[Len(q) + 1] = e
<1>1. PICK S : q \in Seq(S)
  BY DEF IsSeq
<1>2. q \in Seq(S \cup {e}) /\ e \in S \cup {e}
  BY <1>1
<1>3. Append(q, e) \in Seq(S \cup {e})
  BY <1>2
<1> QED
  BY <1>2, <1>3 DEF IsSeq

\* Every invocation slot holds an invocation.
IsRun(v) == \E a, b, c, d : v = R!Invocation(a, b, c, d)
RunsAreRuns ==
  /\ run = [i \in 1 .. MaxTurns |-> run[i]]
  /\ \A i \in 1 .. MaxTurns : IsRun(run[i])

\* Records are of invocations made, and each follows the ones before it.
LogInv ==
  /\ turn \in Nat /\ flow \in FlowNames /\ IsSeq(log)
  /\ RunsAreRuns
  /\ \A k \in DOMAIN log :
       /\ log[k].by \in 1 .. turn
       /\ Follows(log[k].by, k, log[k].node, log[k].iteration)
       /\ ~(log[k].label = "continue_to" /\ log[k].next = None) => Led(k) \in R!ReplayLeads(log[k])
  /\ \A i \in 1 .. MaxTurns : run[i].status = "running" =>
       i <= turn /\ (R!Traced => Follows(i, Len(log) + 1, run[i].node, run[i].iterations))

LEMMA LogInit == Init => LogInv
<1> SUFFICES ASSUME Init PROVE LogInv
  OBVIOUS
<1>1. log = <<>> /\ turn = 0 /\ flow \in FlowNames
  BY FlowsAreNamed DEF Init
<1>2. IsSeq(log) /\ DOMAIN log = {}
  <2>1. log \in Seq({})
    BY <1>1
  <2> QED
    BY <1>1, <2>1 DEF IsSeq
<1>3. run = [i \in 1 .. MaxTurns |-> R!NoRun]
  BY DEF Init
<1>4. RunsAreRuns
  BY <1>3 DEF RunsAreRuns, IsRun, R!NoRun
<1>5. \A i \in 1 .. MaxTurns : run[i].status # "running"
  BY <1>3 DEF R!NoRun, R!Invocation
<1> QED
  BY <1>1, <1>2, <1>4, <1>5 DEF LogInv

LEMMA SameLeads ==
  ASSUME UNCHANGED flow
  PROVE  \A x : R!ReplayLeads(x)' = R!ReplayLeads(x)
BY DEF R!ReplayLeads, R!ResolveNext, R!Routing!Successors, R!Routing!NextFor,
       R!Routing!Outgoing, R!Routing!First

\* What earlier records say is not touched by later ones.
LEMMA Unchanged ==
  ASSUME UNCHANGED flow, UNCHANGED log
  PROVE  /\ \A i, k, n, x : Follows(i, k, n, x)' <=> Follows(i, k, n, x)
         /\ \A k : Led(k)' = Led(k)
         /\ \A x : R!ReplayLeads(x)' = R!ReplayLeads(x)
<1>1. \A x : R!ReplayLeads(x)' = R!ReplayLeads(x)
  BY SameLeads
<1> QED
  BY <1>1 DEF Follows, EarlierOf, Led

\* A change of one invocation.
LEMMA RunChanges ==
  ASSUME RunsAreRuns, NEW i \in 1 .. MaxTurns, NEW v, IsRun(v), run' = [run EXCEPT ![i] = v]
  PROVE  RunsAreRuns' /\ run'[i] = v /\ \A j \in 1 .. MaxTurns : j # i => run'[j] = run[j]
<1>1. DOMAIN run = 1 .. MaxTurns
  BY DEF RunsAreRuns
<1>2. run'[i] = v /\ \A j \in 1 .. MaxTurns : j # i => run'[j] = run[j]
  BY <1>1
<1>3. run' = [j \in 1 .. MaxTurns |-> run'[j]]
  BY <1>1
<1>4. \A j \in 1 .. MaxTurns : IsRun(run'[j])
  BY <1>2 DEF RunsAreRuns
<1> QED
  BY <1>2, <1>3, <1>4 DEF RunsAreRuns

\* Only the status of a run changes where it ends.
LEMMA StatusChanges ==
  ASSUME RunsAreRuns, NEW i \in 1 .. MaxTurns, NEW a, run' = [run EXCEPT ![i].status = a]
  PROVE  run' = [run EXCEPT ![i] = R!Invocation(a, run[i].node, run[i].iterations, run[i].state)]
<1>1. PICK x, b, c, d : run[i] = R!Invocation(x, b, c, d)
  BY DEF RunsAreRuns, IsRun
<1>2. run' = [run EXCEPT ![i] = [run[i] EXCEPT !.status = a]]
  OBVIOUS
<1>3. [run[i] EXCEPT !.status = a] = R!Invocation(a, b, c, d)
  BY <1>1 DEF R!Invocation
<1>4. run[i].node = b /\ run[i].iterations = c /\ run[i].state = d
  BY <1>1 DEF R!Invocation
<1> QED
  BY <1>2, <1>3, <1>4

\* The ways a run ends, in one form.
Ends(i) ==
  /\ run[i].status = "running"
  /\ \E a \in {"done", "limit", "failed"} :
       /\ run' = [run EXCEPT ![i] = R!Invocation(a, run[i].node, run[i].iterations, run[i].state)]
       /\ a = "done" => run[i].node = END
  /\ UNCHANGED <<flow, log, kept, turn, change, before>>

LEMMA RunCases ==
  ASSUME RunsAreRuns, NEW i \in 1 .. MaxTurns, Run(i)
  PROVE  Ends(i) \/ (R!Step(i) /\ UNCHANGED <<flow, kept, turn, change, before>>)
<1>1. CASE R!Complete(i)
  BY <1>1, StatusChanges DEF Ends, Run, R!Complete, R!AtEnd
<1>2. CASE R!HitLimit(i)
  BY <1>2, StatusChanges DEF Ends, Run, R!HitLimit, R!AtLimit
<1>3. CASE R!MissingNode(i)
  BY <1>3, StatusChanges DEF Ends, Run, R!MissingNode, R!MayExecute, R!Fails
<1>4. CASE R!StepFails(i)
  BY <1>4, StatusChanges DEF Ends, Run, R!StepFails, R!MayExecute, R!Fails
<1>5. CASE R!Step(i)
  BY <1>5 DEF Run
<1> QED
  BY <1>1, <1>2, <1>3, <1>4, <1>5 DEF Run, R!RunNext

LEMMA LogCall ==
  ASSUME LogInv, NEW i \in 1 .. MaxTurns, Call(i)
  PROVE  LogInv'
<1>1. turn \in Nat /\ i = turn + 1 /\ turn' = i /\ flow' = flow /\ log' = log
  BY DEF LogInv, Call
<1>2. PICK a, s : run' = [run EXCEPT ![i] = R!Invocation(a, Graph(flow).entry, 0, s)]
  BY DEF Call, R!Invoke
<1>3. RunsAreRuns' /\ run'[i] = R!Invocation(a, Graph(flow).entry, 0, s)
      /\ \A j \in 1 .. MaxTurns : j # i => run'[j] = run[j]
  <2>1. RunsAreRuns
    BY DEF LogInv
  <2>2. IsRun(R!Invocation(a, Graph(flow).entry, 0, s))
    BY DEF IsRun
  <2> QED
    BY <1>2, <2>1, <2>2, RunChanges
<1>4. \A j, k, n, x : Follows(j, k, n, x)' <=> Follows(j, k, n, x)
  BY <1>1, Unchanged
<1>5. Follows(i, Len(log) + 1, Graph(flow).entry, 0)
  <2>1. EarlierOf(i, Len(log) + 1) = {}
    <3>1. Len(log) \in Nat /\ DOMAIN log = 1 .. Len(log)
      BY AppendIs DEF LogInv
    <3> QED
      BY <1>1, <3>1 DEF EarlierOf, LogInv
  <2> QED
    BY <2>1 DEF Follows
<1>6. \A k \in DOMAIN log' :
        /\ log'[k].by \in 1 .. turn'
        /\ Follows(log[k].by, k, log[k].node, log[k].iteration)'
        /\ (~(log[k].label = "continue_to" /\ log[k].next = None) => Led(k) \in R!ReplayLeads(log[k]))'
  BY <1>1, Unchanged DEF LogInv
<1>7. \A j \in 1 .. MaxTurns : run'[j].status = "running" =>
        j <= turn' /\ (R!Traced' => Follows(j, Len(log) + 1, run[j].node, run[j].iterations)')
  <2> SUFFICES ASSUME NEW j \in 1 .. MaxTurns, run'[j].status = "running"
               PROVE  j <= turn' /\ (R!Traced' => Follows(j, Len(log) + 1, run[j].node, run[j].iterations)')
    OBVIOUS
  <2>1. CASE j = i
    <3>1. run'[j].node = Graph(flow).entry /\ run'[j].iterations = 0
      BY <2>1, <1>3 DEF R!Invocation
    <3> QED
      BY <1>1, <1>4, <1>5, <2>1, <3>1
  <2>2. CASE j # i
    <3>1. run'[j] = run[j] /\ (R!Traced' <=> R!Traced)
      BY <1>1, <1>3, <2>2 DEF R!Traced
    <3> QED
      BY <1>1, <1>4, <3>1 DEF LogInv
  <2> QED
    BY <2>1, <2>2
<1> QED
  BY <1>1, <1>3, <1>6, <1>7 DEF LogInv

\* A run that ends, or is taken off its slot, leaves the log and the others alone.
LEMMA LogStops ==
  ASSUME LogInv, NEW i \in 1 .. MaxTurns, NEW a, NEW b, NEW c, NEW d, a # "running",
         run' = [run EXCEPT ![i] = R!Invocation(a, b, c, d)], UNCHANGED <<flow, log, turn>>
  PROVE  LogInv'
<1>1. RunsAreRuns' /\ run'[i] = R!Invocation(a, b, c, d)
      /\ \A j \in 1 .. MaxTurns : j # i => run'[j] = run[j]
  <2>1. RunsAreRuns
    BY DEF LogInv
  <2>2. IsRun(R!Invocation(a, b, c, d))
    BY DEF IsRun
  <2> QED
    BY <2>1, <2>2, RunChanges
<1>2. run'[i].status # "running"
  BY <1>1 DEF R!Invocation
<1>3. /\ \A j, k, n, x : Follows(j, k, n, x)' <=> Follows(j, k, n, x)
      /\ \A k : Led(k)' = Led(k)
      /\ \A x : R!ReplayLeads(x)' = R!ReplayLeads(x)
      /\ R!Traced' <=> R!Traced
  BY Unchanged DEF R!Traced
<1> QED
  BY <1>1, <1>2, <1>3 DEF LogInv

LEMMA LogStep ==
  ASSUME LogInv, NEW i \in 1 .. MaxTurns, R!Step(i), UNCHANGED <<flow, kept, turn, change, before>>
  PROVE  LogInv'
<1>9. PICK n, c, L : n = run[i].node /\ c = run[i].iterations /\ L = Len(log)
  OBVIOUS
<1>1. run[i].status = "running" /\ n \in Graph(flow).nodes
  BY <1>9 DEF R!Step, R!MayExecute
<1>2. PICK r \in Execute(flow, n, run[i].state) :
        /\ r.ok
        /\ \E next \in R!ResolveNext(r.s, n, r.out) :
             /\ run' = [run EXCEPT ![i] = R!Invocation("running", next, c + 1, r.s)]
             /\ log' = IF R!Traced THEN Append(log, R!Record(i, n, c, r.out, next)) ELSE log
  BY <1>9 DEF R!Step
<1>3. PICK next \in R!ResolveNext(r.s, n, r.out) :
        /\ run' = [run EXCEPT ![i] = R!Invocation("running", next, c + 1, r.s)]
        /\ log' = IF R!Traced THEN Append(log, R!Record(i, n, c, r.out, next)) ELSE log
  BY <1>2
<1>4. RunsAreRuns' /\ run'[i] = R!Invocation("running", next, c + 1, r.s)
      /\ \A j \in 1 .. MaxTurns : j # i => run'[j] = run[j]
  <2>1. RunsAreRuns
    BY DEF LogInv
  <2>2. IsRun(R!Invocation("running", next, c + 1, r.s))
    BY DEF IsRun
  <2> QED
    BY <1>3, <2>1, <2>2, RunChanges
<1>5. run'[i].node = next /\ run'[i].iterations = c + 1
  BY <1>4 DEF R!Invocation
<1>6. i <= turn /\ flow' = flow /\ turn' = turn /\ (R!Traced' <=> R!Traced)
  BY <1>1 DEF LogInv, R!Traced
<1>7. CASE ~R!Traced
  <2>1. log' = log
    BY <1>3, <1>7
  <2>2. /\ \A j, k, m, x : Follows(j, k, m, x)' <=> Follows(j, k, m, x)
        /\ \A k : Led(k)' = Led(k)
        /\ \A x : R!ReplayLeads(x)' = R!ReplayLeads(x)
    BY <1>6, <2>1, Unchanged
  <2>3. \A j \in 1 .. MaxTurns : run'[j].status = "running" => j <= turn
    BY <1>4, <1>6 DEF LogInv
  <2> QED
    BY <1>4, <1>6, <1>7, <2>1, <2>2, <2>3 DEF LogInv
<1>8. CASE R!Traced
  <2> DEFINE rec == R!Record(i, n, c, r.out, next)
  <2>1. /\ IsSeq(log') /\ L \in Nat /\ DOMAIN log = 1 .. L /\ Len(log') = L + 1
        /\ DOMAIN log' = 1 .. L + 1 /\ log'[L + 1] = rec
        /\ \A k \in 1 .. L : log'[k] = log[k]
    BY <1>3, <1>8, <1>9, AppendIs DEF LogInv
  <2>2. flow \in RecordedFlows /\ Named(r.out)
    BY <1>1, <1>2, <1>8, RecordedIs, RecordedAnswers
  <2>3. /\ (IF rec.next = None THEN END ELSE rec.next) = next
        /\ ~(rec.label = "continue_to" /\ rec.next = None) => next \in R!ReplayLeads(rec)
    BY <2>2, RecordLeads
  <2>4. rec.by = i /\ rec.node = n /\ rec.iteration = c
    BY DEF R!Record
  <2> HIDE DEF rec
  <2>5. \A x : R!ReplayLeads(x)' = R!ReplayLeads(x)
    BY <1>6, SameLeads
  <2>6. \A k \in 1 .. L : Led(k)' = Led(k)
    BY <2>1 DEF Led
  <2>7. Led(L + 1)' = next
    BY <2>1, <2>3 DEF Led
  <2>8. \A j : \A k \in 1 .. L + 1 : EarlierOf(j, k)' = EarlierOf(j, k) /\ EarlierOf(j, k) \subseteq 1 .. L
    BY <2>1 DEF EarlierOf
  <2>9. \A j, m, x : \A k \in 1 .. L + 1 : Follows(j, k, m, x)' <=> Follows(j, k, m, x)
    BY <1>6, <2>1, <2>6, <2>8 DEF Follows
  <2>10. Follows(i, L + 1, n, c)
    BY <1>1, <1>6, <1>8, <1>9 DEF LogInv
  <2>11. ASSUME NEW k \in DOMAIN log'
         PROVE  /\ log'[k].by \in 1 .. turn'
                /\ Follows(log[k].by, k, log[k].node, log[k].iteration)'
                /\ (~(log[k].label = "continue_to" /\ log[k].next = None)
                      => Led(k) \in R!ReplayLeads(log[k]))'
    <3>1. CASE k \in 1 .. L
      BY <1>6, <2>1, <2>5, <2>6, <2>9, <3>1 DEF LogInv
    <3>2. CASE k = L + 1
      <4>1. log'[k] = rec /\ Led(k)' = next
        BY <2>1, <2>7, <3>2
      <4>2. Follows(log[k].by, k, log[k].node, log[k].iteration)'
        BY <2>1, <2>4, <2>9, <2>10, <4>1, <3>2
      <4>3. log'[k].by \in 1 .. turn'
        BY <1>6, <2>4, <4>1 DEF LogInv
      <4> QED
        BY <2>3, <2>5, <4>1, <4>2, <4>3
    <3> QED
      BY <2>1, <3>1, <3>2
  <2>12. ASSUME NEW j \in 1 .. MaxTurns, run'[j].status = "running"
         PROVE  j <= turn' /\ Follows(j, Len(log) + 1, run[j].node, run[j].iterations)'
    <3>1. CASE j = i
      <4>1. EarlierOf(i, L + 2)' = EarlierOf(i, L + 1) \cup {L + 1}
        BY <2>1, <2>4 DEF EarlierOf
      <4>2. EarlierOf(i, L + 1) \subseteq 1 .. L
        BY <2>1, <2>8
      <4>3. log'[L + 1].iteration = c
        BY <2>1, <2>4
      <4>4. ASSUME NEW m \in EarlierOf(i, L + 2)', \A x \in EarlierOf(i, L + 2)' : x <= m
            PROVE  m = L + 1
        <5>1. L + 1 <= m
          BY <4>1, <4>4
        <5>2. m \in 1 .. L + 1
          BY <4>1, <4>2, <4>4, <2>1
        <5> QED
          BY <2>1, <5>1, <5>2
      <4>5. Follows(i, L + 2, next, c + 1)'
        BY <2>7, <4>1, <4>3, <4>4 DEF Follows
      <4>6. Len(log') + 1 = L + 2
        BY <2>1
      <4> QED
        BY <1>5, <1>6, <3>1, <4>5, <4>6
    <3>2. CASE j # i
      <4>1. run'[j] = run[j] /\ j <= turn /\ Follows(j, L + 1, run[j].node, run[j].iterations)
        BY <1>4, <1>8, <1>9, <2>12, <3>2 DEF LogInv
      <4>2. EarlierOf(j, L + 2)' = EarlierOf(j, L + 1)
        BY <2>1, <2>4, <3>2 DEF EarlierOf
      <4>3. EarlierOf(j, L + 1) \subseteq 1 .. L
        BY <2>1, <2>8
      <4>4. Follows(j, L + 2, run[j].node, run[j].iterations)'
        BY <1>6, <2>1, <2>6, <4>1, <4>2, <4>3 DEF Follows
      <4>5. Len(log') + 1 = L + 2
        BY <2>1
      <4> QED
        BY <1>6, <4>1, <4>4, <4>5
    <3> QED
      BY <3>1, <3>2
  <2> QED
    BY <1>4, <1>6, <2>1, <2>11, <2>12 DEF LogInv
<1> QED
  BY <1>7, <1>8

LEMMA LogNext == LogInv /\ [Next]_vars => LogInv'
<1> SUFFICES ASSUME LogInv, [Next]_vars PROVE LogInv'
  OBVIOUS
<1>1. ASSUME NEW i \in 1 .. MaxTurns, Call(i) PROVE LogInv'
  BY <1>1, LogCall
<1>2. ASSUME NEW i \in 1 .. MaxTurns, Return(i) PROVE LogInv'
  <2>1. run' = [run EXCEPT ![i] = R!Invocation("idle", None, 0, None)]
        /\ UNCHANGED <<flow, log, turn>>
    BY <1>2 DEF Return, R!NoRun
  <2> QED
    BY <2>1, LogStops
<1>3. ASSUME NEW i \in 1 .. MaxTurns, Run(i) PROVE LogInv'
  <2>1. CASE Ends(i)
    <3>1. PICK a \in {"done", "limit", "failed"} :
            run' = [run EXCEPT ![i] = R!Invocation(a, run[i].node, run[i].iterations, run[i].state)]
      BY <2>1 DEF Ends
    <3>2. UNCHANGED <<flow, log, turn>> /\ a # "running"
      BY <2>1 DEF Ends
    <3> QED
      BY <3>1, <3>2, LogStops
  <2>2. CASE R!Step(i) /\ UNCHANGED <<flow, kept, turn, change, before>>
    BY <2>2, LogStep
  <2>3. RunsAreRuns
    BY DEF LogInv
  <2> QED
    BY <1>3, <2>1, <2>2, <2>3, RunCases
<1>4. CASE UNCHANGED <<flow, run, log, turn>>
  BY <1>4, Unchanged DEF LogInv, R!Traced, RunsAreRuns
<1>5. CASE NewChange \/ Operate \/ UNCHANGED vars
  BY <1>4, <1>5 DEF NewChange, Operate, Keep, vars
<1> QED
  BY <1>1, <1>2, <1>3, <1>5 DEF Next

\* ReplayAgrees, for every number of invocations, every graph of the flows and all
\* answers of their nodes: the log of a runner holds, for each of its invocations,
\* a walk that replay would take again (TracedRunner::run_loop, ReplayRunner).
THEOREM ReplaysAgree == Spec => []ReplayAgrees
<1>1. Init => LogInv
  BY LogInit
<1>2. LogInv /\ [Next]_vars => LogInv'
  BY LogNext
<1>3. LogInv => ReplayAgrees
  BY DEF LogInv, ReplayAgrees
<1> QED
  BY <1>1, <1>2, <1>3, PTL DEF Spec
-----------------------------------------------------------------------------
(* States and their contexts. *)

IsState(s) == s = [messages |-> s.messages, calls |-> s.calls, ctx |-> s.ctx, complete |-> s.complete]

LEMMA EmptyIs ==
  /\ IsState(Empty) /\ Empty.messages = <<>> /\ Empty.calls = <<>> /\ DOMAIN Empty.ctx = {}
  /\ Empty.complete = FALSE
BY DEF IsState, Empty, AgentState

LEMMA SayIs ==
  ASSUME NEW s, IsState(s), NEW m, NEW t, t = Say(s, m)
  PROVE  /\ IsState(t) /\ t.messages = Append(s.messages, m) /\ t.calls = s.calls
         /\ t.ctx = s.ctx /\ t.complete = s.complete
<1>1. t = [s EXCEPT !.messages = Append(s.messages, m)]
  BY DEF Say
<1> QED
  BY <1>1 DEF IsState

LEMMA PutAllIs ==
  ASSUME NEW s, IsState(s), NEW v
  PROVE  /\ IsState(PutAll(s, v)) /\ PutAll(s, v).messages = s.messages
         /\ PutAll(s, v).calls = s.calls /\ PutAll(s, v).complete = s.complete
         /\ DOMAIN PutAll(s, v).ctx = DOMAIN s.ctx \cup DOMAIN v
         /\ \A k \in DOMAIN v : PutAll(s, v).ctx[k] = v[k]
         /\ \A k \in DOMAIN s.ctx \ DOMAIN v : PutAll(s, v).ctx[k] = s.ctx[k]
<1> DEFINE c == [k \in DOMAIN s.ctx \cup DOMAIN v |-> IF k \in DOMAIN v THEN v[k] ELSE s.ctx[k]]
<1>1. PutAll(s, v) = [messages |-> s.messages, calls |-> s.calls, ctx |-> c, complete |-> s.complete]
  BY DEF PutAll, IsState
<1>2. PutAll(s, v).ctx = c
  BY <1>1
<1> QED
  BY <1>1, <1>2 DEF IsState

LEMMA PutIs ==
  ASSUME NEW s, IsState(s), NEW key, NEW value
  PROVE  /\ IsState(Put(s, key, value)) /\ Put(s, key, value).messages = s.messages
         /\ Put(s, key, value).calls = s.calls /\ Put(s, key, value).complete = s.complete
         /\ DOMAIN Put(s, key, value).ctx = DOMAIN s.ctx \cup {key}
         /\ Put(s, key, value).ctx[key] = value
         /\ \A k \in DOMAIN s.ctx \ {key} : Put(s, key, value).ctx[k] = s.ctx[k]
<1> DEFINE v == [k \in {key} |-> value]
<1>1. DOMAIN v = {key} /\ v[key] = value
  OBVIOUS
<1>2. Put(s, key, value) = PutAll(s, v)
  BY DEF Put
<1> HIDE DEF v
<1> QED
  BY <1>1, <1>2, PutAllIs

LEMMA UnsetIs ==
  ASSUME NEW s, IsState(s), NEW key
  PROVE  /\ IsState(Unset(s, key)) /\ Unset(s, key).messages = s.messages
         /\ Unset(s, key).calls = s.calls /\ Unset(s, key).complete = s.complete
         /\ DOMAIN Unset(s, key).ctx = DOMAIN s.ctx \ {key}
         /\ \A k \in DOMAIN s.ctx \ {key} : Unset(s, key).ctx[k] = s.ctx[k]
<1> DEFINE c == [k \in DOMAIN s.ctx \ {key} |-> s.ctx[k]]
<1>1. Unset(s, key) = [messages |-> s.messages, calls |-> s.calls, ctx |-> c, complete |-> s.complete]
  BY DEF Unset, IsState
<1>2. Unset(s, key).ctx = c
  BY <1>1
<1> QED
  BY <1>1, <1>2 DEF IsState

LEMMA ConcatIs ==
  ASSUME NEW p, NEW q, IsSeq(p), IsSeq(q)
  PROVE  /\ IsSeq(p \o q) /\ Len(p) \in Nat /\ Len(q) \in Nat
         /\ DOMAIN p = 1 .. Len(p) /\ DOMAIN q = 1 .. Len(q)
         /\ Len(p \o q) = Len(p) + Len(q) /\ DOMAIN (p \o q) = 1 .. Len(p) + Len(q)
         /\ \A k \in 1 .. Len(p) : (p \o q)[k] = p[k]
         /\ \A k \in 1 .. Len(q) : (p \o q)[Len(p) + k] = q[k]
<1>1. PICK S, T : p \in Seq(S) /\ q \in Seq(T)
  BY DEF IsSeq
<1>2. p \in Seq(S \cup T) /\ q \in Seq(S \cup T)
  BY <1>1
<1>3. p \o q \in Seq(S \cup T)
  BY <1>2
<1> QED
  BY <1>2, <1>3 DEF IsSeq

LEMMA ListIs ==
  ASSUME NEW N \in Nat, NEW q, q = [k \in 1 .. N |-> q[k]]
  PROVE  IsSeq(q) /\ Len(q) = N /\ DOMAIN q = 1 .. N
<1>1. PICK S : \A k \in 1 .. N : q[k] \in S
  <2>1. \A k \in 1 .. N : q[k] \in {q[j] : j \in 1 .. N}
    OBVIOUS
  <2> QED
    BY <2>1
<1>2. q \in [1 .. N -> S]
  BY <1>1
<1>3. q \in Seq(S)
  BY <1>2
<1> QED
  BY <1>2, <1>3 DEF IsSeq
-----------------------------------------------------------------------------
(* Roles and what they may do. *)

LEMMA ArchitectReads ==
  ASSUME NEW tool, NEW command, Evaluate(PolicyForRole("architect"), tool, command) = "allow"
  PROVE  tool = "read_file"
<1>1. DOMAIN AllowTool(NoPolicy, "read_file", "read_file").caps = {"read_file"}
  BY DEF AllowTool, NoPolicy
<1>2. PolicyForRole("architect").caps = AllowTool(NoPolicy, "read_file", "read_file").caps
  BY DEF PolicyForRole, DenyTools, AllowTool, NoPolicy
<1> QED
  BY <1>1, <1>2 DEF Evaluate

\* A tool that ran was allowed to.
LEMMA RanIsAllowed ==
  ASSUME NEW call, NEW policy, NEW registry, NEW timed, NEW x \in ResultsOf(call, policy, registry, timed),
         x \in Ran
  PROVE  Evaluate(policy, call.name, call.command) = "allow"
BY DEF ResultsOf, Evaluate, Ran

GuidanceKeys == {"agent_role", "governance_guidance", "role_system_prompt", "tool_policy_role"}

LEMMA GuidanceApplied ==
  ASSUME NEW s, IsState(s), NEW manifest, NEW role, NEW config
  PROVE  LET t == ApplyRoleGuidance(s, manifest, role, config)
         IN  /\ IsState(t) /\ t.calls = s.calls
             /\ {"agent_role", "governance_guidance", "role_system_prompt"} \subseteq DOMAIN t.ctx
             /\ DOMAIN s.ctx \subseteq DOMAIN t.ctx
             /\ DOMAIN t.ctx \subseteq DOMAIN s.ctx \cup GuidanceKeys
             /\ t.ctx["agent_role"] = role
             /\ t.ctx["governance_guidance"] = ComposeGuidance(manifest, role)
             /\ t.ctx["role_system_prompt"] = Preamble(role)
             /\ \A k \in DOMAIN s.ctx \ GuidanceKeys : t.ctx[k] = s.ctx[k]
             /\ t.messages = s.messages \/ \E x : t.messages = <<System(x)>> \o s.messages
<1> DEFINE v == [agent_role |-> role, governance_guidance |-> ComposeGuidance(manifest, role),
                 role_system_prompt |-> Preamble(role)]
           guided == PutAll(s, v)
           told == IF config.store THEN Put(guided, "tool_policy_role", role) ELSE guided
           t == ApplyRoleGuidance(s, manifest, role, config)
<1>1. /\ DOMAIN v = {"agent_role", "governance_guidance", "role_system_prompt"}
      /\ v["agent_role"] = role /\ v["role_system_prompt"] = Preamble(role)
      /\ v["governance_guidance"] = ComposeGuidance(manifest, role)
  OBVIOUS
<1>2. \/ t = told
      \/ \E x : t = [told EXCEPT !.messages = <<System(x)>> \o @]
  BY DEF ApplyRoleGuidance
<1> HIDE DEF v, t
<1>3. /\ IsState(guided) /\ guided.messages = s.messages /\ guided.calls = s.calls
      /\ DOMAIN guided.ctx = DOMAIN s.ctx \cup DOMAIN v
      /\ \A k \in DOMAIN v : guided.ctx[k] = v[k]
      /\ \A k \in DOMAIN s.ctx \ DOMAIN v : guided.ctx[k] = s.ctx[k]
  BY PutAllIs
<1> HIDE DEF guided
<1>4. /\ IsState(told) /\ told.messages = s.messages /\ told.calls = s.calls
      /\ DOMAIN guided.ctx \subseteq DOMAIN told.ctx
      /\ DOMAIN told.ctx \subseteq DOMAIN guided.ctx \cup {"tool_policy_role"}
      /\ \A k \in DOMAIN guided.ctx \ {"tool_policy_role"} : told.ctx[k] = guided.ctx[k]
  BY <1>3, PutIs
<1> HIDE DEF told
<1>5. /\ IsState(t) /\ t.calls = told.calls /\ t.ctx = told.ctx
      /\ t.messages = s.messages \/ \E x : t.messages = <<System(x)>> \o s.messages
  BY <1>2, <1>4 DEF IsState
<1> QED
  BY <1>1, <1>3, <1>4, <1>5 DEF GuidanceKeys, t
-----------------------------------------------------------------------------
(* The inductive invariant: what holds of a state that stands before a node. A  *)
(* state the caller keeps stands before the end.                                 *)

\* react: the agent is done when an answer called for no tool. Until then there are
\* open calls only before the tools, those of the last message.
ReactGood(n, s) ==
  /\ IsState(s) /\ IsSeq(s.messages) /\ s.calls \in Seq(Calls)
  /\ n \in {"call_model", "execute_tools", END}
  /\ s.complete \in BOOLEAN
  /\ (s.complete = TRUE) <=> DoneBefore(s, Len(s.messages) + 1)
  /\ n # "execute_tools" => s.complete \/ s.calls = <<>>
  /\ n = "execute_tools" =>
       /\ ~s.complete /\ s.calls # <<>> /\ s.messages # <<>>
       /\ s.messages[Len(s.messages)].role = "assistant"
  /\ \A k \in DOMAIN s.messages : s.messages[k].role = "assistant" =>
       /\ s.messages[k].content.calls \in Seq(Calls)
       /\ IF s.calls # <<>> /\ k = Len(s.messages) THEN s.messages[k].content.calls = s.calls
          ELSE AnswersFollow(s, k, Due(s, k))

\* governance, roles: a role comes with its guidance.
Guided(s, manifest) ==
  Has(s, "agent_role") =>
    /\ {"governance_guidance", "role_system_prompt"} \subseteq DOMAIN s.ctx
    /\ s.ctx["governance_guidance"] = ComposeGuidance(manifest, s.ctx["agent_role"])
    /\ s.ctx["role_system_prompt"] = Preamble(s.ctx["agent_role"])
OnlyReadsRan(q) ==
  \A k \in DOMAIN q : q[k].role = "tool" /\ q[k].content \in Ran =>
    \A c \in Calls : c.id = q[k].call => c.name = "read_file"
GovernanceGood(n, s) ==
  /\ IsState(s) /\ IsSeq(s.messages) /\ s.calls \in Seq(Calls)
  /\ n \in GovernanceGraph.nodes \cup {END}
  /\ Guided(s, GovernanceManifest) /\ OnlyReadsRan(s.messages) /\ ~Has(s, "echo")
  /\ n = "tools" => Has(s, "agent_role") /\ s.ctx["agent_role"] = "architect"
RolesGood(n, s) ==
  /\ IsState(s) /\ n \in (RolesGraph.nodes \ {"fallback"}) \cup {END}
  /\ Guided(s, RolesManifest) /\ Get(s, "echo") # "fallback"
  /\ n = "role_route" => Has(s, "agent_role") /\ s.ctx["agent_role"] = "auditor"

\* dev: what stands before ship.
DevGood(n, s) ==
  /\ IsState(s) /\ Has(s, "blocking") /\ s.ctx["blocking"] \in BOOLEAN
  /\ n = "ship" => /\ s.ctx["change_risk_level"] = "low" /\ ~s.ctx["merge_blocker"]
                   /\ s.ctx["blocking"] => s.ctx["gate_passed"]

\* hitl, operator: whose the request, the decision and the edits are.
IsReview(r) == r = [paused |-> r.paused, request |-> r.request, decision |-> r.decision,
                    edits |-> r.edits, patched |-> r.patched, log |-> r.log]
\* The events after the first b, as Since says of those before the change.
After(b, events) == {events[k] : k \in {j \in DOMAIN events : j > b}}
\* y is the summary of the change, q the request if there is one. The parts of a review
\* tell one story: the request is the one asked, the decision answers it and is the
\* last word, what edits brought is in the log, and what was asked since the change was
\* put up is about the summary there is, but for edits.
ReviewFits(r, y, asked, q, b) ==
  /\ IsSeq(r.log)
  /\ r.edits # NoEdits => Edited(r.edits) \in ToSet(r.log)
  /\ r.request # NoRequest \/ r.decision # NoDecision => asked
  /\ asked => r.request = q.id
  /\ asked /\ Created(q.id) \in After(b, r.log) => y = q.summary \/ Edited(y) \in ToSet(r.log)
  /\ r.decision # NoDecision =>
       /\ \E v \in Verdicts : r.decision = [request |-> r.request, verdict |-> v]
       /\ IsLastWord(r.decision, r.log)
ReviewIsOf(s, b) ==
  /\ {"change_summary", "change_risk_level"} \subseteq DOMAIN s.ctx
  /\ s.ctx["change_risk_level"] \in {"low", "medium", "high"}
  /\ ReviewFits(Review(s), s.ctx["change_summary"], Has(s, "approval_request"),
                s.ctx["approval_request"], b)
LetThrough(s) ==
  IF Review(s).decision = NoDecision THEN s.ctx["change_risk_level"] = "low"
  ELSE Review(s).decision.verdict = "approved"
\* c changes were put up, the last of them after b events.
HitlGood(n, s, c, b) ==
  /\ IsState(s) /\ IsReview(Review(s))
  /\ c = 0 => n = END /\ Review(s) = NoReview /\ ~Has(s, "approval_request")
  /\ c # 0 => ReviewIsOf(s, b) /\ (n = "ship" => LetThrough(s))

\* release: what is worked on may be, and what is released has passed.
IsChangeGraph(g) ==
  /\ g = [objective |-> g.objective, changes |-> g.changes]
  /\ DOMAIN g.changes \subseteq Nat
  /\ g.changes = [c \in DOMAIN g.changes |-> g.changes[c]]
  /\ \A c \in DOMAIN g.changes :
       g.changes[c] = [repo |-> g.changes[c].repo, status |-> g.changes[c].status,
                       deps |-> g.changes[c].deps]
GreenSignals(x) == x # <<>> /\ \A k \in DOMAIN x : x[k].conclusion \in {"success", "skipped"}
ReleaseGood(n, s) ==
  /\ IsState(s)
  /\ Has(s, "change_graph") => IsChangeGraph(s.ctx["change_graph"])
  /\ Has(s, "change_graph") /\ n # END => Has(s, "ci_signals")
  /\ Has(s, "ci_signals") =>
       \A k \in DOMAIN s.ctx["ci_signals"] : s.ctx["ci_signals"][k].conclusion \in Conclusions
  /\ Has(s, "current_repo_change") =>
       /\ n = "complete_change" /\ Has(s, "change_graph")
       /\ s.ctx["change_graph"].changes[s.ctx["current_repo_change"]].deps
            \subseteq StatusIn(s.ctx["change_graph"], Done)
  /\ n = "release_gate" =>
       /\ {"change_graph", "ci_aggregate"} \subseteq DOMAIN s.ctx
       /\ s.ctx["ci_aggregate"].passed => GreenSignals(s.ctx["ci_signals"])
  /\ n = "released" =>
       /\ Has(s, "change_graph")
       /\ StatusIn(s.ctx["change_graph"], Done) = DOMAIN s.ctx["change_graph"].changes
       /\ AllReleased(s.ctx["change_graph"]) \/ GreenSignals(s.ctx["ci_signals"])

\* tenant, enterprise: the accounts, and room for a run that was let in.
Accounts(s, charged, admitted) ==
  LET budget == s.ctx["cost_budget"]
      tracker == s.ctx["slo_tracker"]
      records == s.ctx["audit_log"]
  IN  /\ {"cost_budget", "slo_tracker", "audit_log"} \subseteq DOMAIN s.ctx
      /\ budget = [limit |-> budget.limit, spent |-> budget.spent]
      /\ budget.limit \in Nat /\ budget.spent \in Nat
      /\ tracker = [targets |-> tracker.targets, attempts |-> tracker.attempts,
                    successes |-> tracker.successes]
      /\ "workflow_success" \in DOMAIN tracker.attempts
      /\ tracker.attempts["workflow_success"] \in Nat
      /\ IsSeq(records)
      /\ tracker.attempts["workflow_success"] + admitted <= Cardinality(LetIn(records))
      /\ SpendingIsAccounted(s, charged)
TenantGood(n, s) ==
  /\ IsState(s)
  /\ n \notin {"enterprise_setup", END} \/ flow = "tenant" => Has(s, "cost_budget")
  /\ Has(s, "cost_budget") =>
       Accounts(s, IF n = "slo_record" THEN 1 ELSE 0,
                   IF n \in {"secret_scope", "budget_guard", "slo_record"} THEN 1 ELSE 0)

Good(n, s) ==
  /\ flow = "react" => ReactGood(n, s)
  /\ flow = "governance" => GovernanceGood(n, s)
  /\ flow = "roles" => RolesGood(n, s)
  /\ flow = "dev" => DevGood(n, s)
  /\ flow \in {"hitl", "operator"} => HitlGood(n, s, change, before)
  /\ flow = "release" => ReleaseGood(n, s)
  /\ flow \in {"enterprise", "tenant"} => TenantGood(n, s)

FlowInv ==
  /\ turn \in Nat /\ flow \in FlowNames /\ RunsAreRuns
  /\ change \in Nat
  /\ Good(END, kept)
  /\ \A i \in 1 .. MaxTurns :
       /\ run[i].status = "running" => Good(run[i].node, run[i].state)
       /\ run[i].status = "done" => run[i].node = END /\ Good(END, run[i].state)
-----------------------------------------------------------------------------
(* react *)

LEMMA KeysApart == NoKey # CONTINUE /\ \A k \in RouteKeys : k # NoKey /\ k # CONTINUE
BY KeysAreApart

LEMMA ReactLeads ==
  ASSUME flow = "react", NEW s, NEW n, NEW next \in R!ResolveNext(s, n, Cont)
  PROVE  /\ n = "call_model" => next = AgentRouter(s, "execute_tools")
         /\ n = "execute_tools" => next = "call_model"
<1> DEFINE edges == ReactGraph(s).edges
<1>1. EdgesAt(flow, s) = edges
  BY FlowTable
<1>2. edges = <<ConditionalEdge("call_model", AgentRouter(s, "execute_tools")),
                Edge("execute_tools", "call_model")>>
  BY DEF ReactGraph, CompiledGraph
<1>3. ASSUME NEW k \in DOMAIN edges
      PROVE  /\ k \in Nat /\ edges[k].to # {}
             /\ ~Serves(edges[k], "call_model", CONTINUE) \/ edges[k].to = {AgentRouter(s, "execute_tools")}
             /\ ~Serves(edges[k], "execute_tools", CONTINUE) \/ edges[k].to = {"call_model"}
  BY <1>2 DEF ConditionalEdge, Edge, Serves
<1>4. 1 \in DOMAIN edges /\ Serves(edges[1], "call_model", CONTINUE)
      /\ 2 \in DOMAIN edges /\ Serves(edges[2], "execute_tools", CONTINUE)
  BY <1>2 DEF ConditionalEdge, Edge, Serves
<1>5. \/ next = END /\ \A k \in DOMAIN edges : ~Serves(edges[k], n, CONTINUE)
      \/ \E k \in DOMAIN edges : Serves(edges[k], n, CONTINUE) /\ next \in edges[k].to
  BY <1>1, <1>3, Follow DEF Cont
<1> HIDE DEF edges
<1> QED
  BY <1>3, <1>4, <1>5

\* A message that is no tool's leaves the answers before it as they are.
LEMMA SaidFollows ==
  ASSUME NEW s, NEW t, NEW m, IsSeq(s.messages), t.messages = Append(s.messages, m),
         m.role # "tool", NEW k \in DOMAIN s.messages, NEW C \in Seq(Calls), AnswersFollow(s, k, C)
  PROVE  AnswersFollow(t, k, C)
<1>1. /\ Len(s.messages) \in Nat /\ DOMAIN s.messages = 1 .. Len(s.messages)
      /\ DOMAIN t.messages = 1 .. Len(s.messages) + 1
      /\ \A j \in 1 .. Len(s.messages) : t.messages[j] = s.messages[j]
      /\ t.messages[Len(s.messages) + 1] = m
  BY AppendIs
<1>2. Len(C) \in Nat /\ DOMAIN C = 1 .. Len(C)
  OBVIOUS
<1> QED
  BY <1>1, <1>2 DEF AnswersFollow

LEMMA AnsweredIs ==
  ASSUME NEW s, IsState(s), IsSeq(s.messages), s.complete \in BOOLEAN, NEW a
  PROVE  LET t == Answered(s, a)
         IN  /\ IsState(t) /\ t.calls = a.calls /\ t.complete = (s.complete \/ a.calls = <<>>)
             /\ t.messages = Append(s.messages,
                                    Assistant([prompt |-> PromptOf(s), calls |-> a.calls]))
<1> DEFINE m == Assistant([prompt |-> PromptOf(s), calls |-> a.calls])
<1>1. PICK x, y, z : x = Say(s, m) /\ y = [x EXCEPT !.calls = a.calls]
                     /\ z = [y EXCEPT !.complete = TRUE]
  OBVIOUS
<1>2. Answered(s, a) = IF a.calls = <<>> THEN z ELSE y
  BY <1>1 DEF Answered, MarkComplete
<1> HIDE DEF m
<1>3. /\ IsState(x) /\ x.messages = Append(s.messages, m) /\ x.complete = s.complete
  BY <1>1, SayIs
<1>4. /\ IsState(y) /\ y.messages = x.messages /\ y.calls = a.calls /\ y.complete = x.complete
  BY <1>1, <1>3 DEF IsState
<1>5. /\ IsState(z) /\ z.messages = y.messages /\ z.calls = y.calls /\ z.complete = TRUE
  BY <1>1, <1>4 DEF IsState
<1>6. Append(s.messages, m)
        = Append(s.messages, Assistant([prompt |-> PromptOf(s), calls |-> a.calls]))
  BY DEF m
<1> QED
  BY <1>2, <1>3, <1>4, <1>5, <1>6

\* A message said while no tool is to run: nobody is owed an answer by it.
LEMMA SaidIsGood ==
  ASSUME NEW n, n # "execute_tools", NEW s, ReactGood(n, s), NEW t, NEW m, m.role # "tool",
         t.messages = Append(s.messages, m), NEW k \in DOMAIN s.messages,
         s.messages[k].role = "assistant"
  PROVE  t.messages[k].content.calls \in Seq(Calls) /\ AnswersFollow(t, k, Due(t, k))
<1> DEFINE L == Len(s.messages)
<1>1. IsSeq(s.messages)
  BY DEF ReactGood
<1>2. /\ L \in Nat /\ DOMAIN s.messages = 1 .. L
      /\ DOMAIN t.messages = 1 .. L + 1
      /\ \A j \in 1 .. L : t.messages[j] = s.messages[j]
      /\ t.messages[L + 1] = m
  BY <1>1, AppendIs
<1>3. DoneBefore(t, k) <=> DoneBefore(s, k)
  BY <1>2 DEF DoneBefore
<1>4. Due(t, k) = Due(s, k) /\ t.messages[k] = s.messages[k]
  BY <1>2, <1>3 DEF Due
<1>5. s.messages[k].content.calls \in Seq(Calls) /\ Due(s, k) \in Seq(Calls)
  BY DEF ReactGood, Due
<1>6. CASE AnswersFollow(s, k, Due(s, k))
  BY <1>1, <1>4, <1>5, <1>6, SaidFollows
<1>7. CASE ~AnswersFollow(s, k, Due(s, k))
  <2>1. s.calls # <<>> /\ k = L /\ s.messages[k].content.calls # <<>> /\ s.complete
    BY <1>7 DEF ReactGood
  <2>2. DoneBefore(s, L + 1)
    BY <2>1 DEF ReactGood
  <2>3. DoneBefore(s, k)
    BY <1>2, <2>1, <2>2 DEF DoneBefore
  <2>4. Due(t, k) = <<>>
    BY <1>4, <2>3 DEF Due
  <2>5. t.messages[k + Len(<<>>) + 1].role # "tool"
    BY <1>2, <2>1
  <2>6. AnswersFollow(t, k, <<>>)
    BY <2>5 DEF AnswersFollow
  <2> QED
    BY <1>4, <1>5, <2>4, <2>6
<1> QED
  BY <1>4, <1>5, <1>6, <1>7

LEMMA ReactStart ==
  ASSUME flow = "react", NEW s, ReactGood(END, s)
  PROVE  ReactGood("call_model", Say(s, User("question")))
<1> DEFINE m == User("question")
           t == Say(s, m)
           L == Len(s.messages)
<1>1. "execute_tools" # END
  BY NamesAreApart DEF FlowNames, Graph, GraphAt, ReactGraph, CompiledGraph
<1>2. m.role = "user"
  BY DEF User, Message
<1>3. /\ IsState(s) /\ IsSeq(s.messages) /\ s.calls \in Seq(Calls) /\ s.complete \in BOOLEAN
      /\ s.complete \/ s.calls = <<>>
      /\ (s.complete = TRUE) <=> DoneBefore(s, L + 1)
  BY <1>1 DEF ReactGood
<1> HIDE DEF m
<1>4. IsState(t) /\ t.messages = Append(s.messages, m) /\ t.calls = s.calls /\ t.complete = s.complete
  BY <1>3, SayIs
<1> HIDE DEF t
<1>5. /\ IsSeq(t.messages) /\ L \in Nat /\ DOMAIN s.messages = 1 .. L
      /\ DOMAIN t.messages = 1 .. L + 1 /\ Len(t.messages) = L + 1
      /\ \A j \in 1 .. L : t.messages[j] = s.messages[j]
      /\ t.messages[L + 1] = m
  BY <1>3, <1>4, AppendIs
<1>6. DoneBefore(t, Len(t.messages) + 1) <=> DoneBefore(s, L + 1)
  BY <1>2, <1>5 DEF DoneBefore
<1>7. ASSUME NEW k \in DOMAIN t.messages, t.messages[k].role = "assistant"
      PROVE  /\ t.messages[k].content.calls \in Seq(Calls)
             /\ AnswersFollow(t, k, Due(t, k)) /\ k # Len(t.messages)
  <2>1. k \in DOMAIN s.messages /\ t.messages[k] = s.messages[k] /\ k # Len(t.messages)
    BY <1>2, <1>5, <1>7
  <2>2. m.role # "tool"
    BY <1>2
  <2> QED
    BY <1>1, <1>4, <1>7, <2>1, <2>2, SaidIsGood
<1>8. "call_model" # "execute_tools"
  OBVIOUS
<1>9. ReactGood("call_model", t)
  BY <1>3, <1>4, <1>5, <1>6, <1>7, <1>8 DEF ReactGood
<1> QED
  BY <1>9 DEF t, m

LEMMA ReactAsks ==
  ASSUME flow = "react", NEW s, ReactGood("call_model", s), NEW r \in LLMNode(s, Answers), r.ok,
         NEW next, next = AgentRouter(r.s, "execute_tools")
  PROVE  ReactGood(next, r.s) /\ r.out = Cont
<1>1. PICK a \in Answers : r = Result(Answered(s, a), Cont)
  BY DEF LLMNode, Failure
<1> DEFINE m == Assistant([prompt |-> PromptOf(s), calls |-> a.calls])
           t == r.s
           L == Len(s.messages)
<1>2. m.role = "assistant" /\ m.content.calls = a.calls /\ a.calls \in Seq(Calls)
  BY AnswersCallTools DEF Assistant, Message
<1>3. /\ IsState(s) /\ IsSeq(s.messages) /\ s.complete \in BOOLEAN
      /\ (s.complete = TRUE) <=> DoneBefore(s, L + 1)
  BY DEF ReactGood
<1>4. r.s = Answered(s, a) /\ r.out = Cont
  BY <1>1 DEF Result
<1>6. /\ IsState(t) /\ t.messages = Append(s.messages, m) /\ t.calls = a.calls
      /\ t.complete = (s.complete \/ a.calls = <<>>)
  BY <1>3, <1>4, AnsweredIs
<1> HIDE DEF m, t
<1>7. /\ IsSeq(t.messages) /\ L \in Nat /\ DOMAIN s.messages = 1 .. L /\ Len(t.messages) = L + 1
      /\ DOMAIN t.messages = 1 .. L + 1
      /\ \A j \in 1 .. L : t.messages[j] = s.messages[j]
      /\ t.messages[L + 1] = m
  BY <1>3, <1>6, AppendIs
<1>8. next = IF t.complete THEN END ELSE IF a.calls # <<>> THEN "execute_tools" ELSE END
  BY <1>6 DEF AgentRouter, t
<1>9. (t.complete = TRUE) <=> DoneBefore(t, Len(t.messages) + 1)
  <2>1. DoneBefore(t, L + 2) <=> DoneBefore(s, L + 1) \/ a.calls = <<>>
    <3>1. 1 .. (L + 2) - 1 = 1 .. (L + 1) /\ 1 .. (L + 1) - 1 = 1 .. L
          /\ \A j \in 1 .. L + 1 : j \in 1 .. L \/ j = L + 1
      BY <1>7
    <3> QED
      BY <1>2, <1>7, <3>1 DEF DoneBefore
  <2>2. (t.complete = TRUE) <=> s.complete = TRUE \/ a.calls = <<>>
    BY <1>3, <1>6
  <2>3. Len(t.messages) + 1 = L + 2
    BY <1>7
  <2> QED
    BY <1>3, <2>1, <2>2, <2>3
<1>10. ASSUME NEW k \in DOMAIN t.messages, t.messages[k].role = "assistant"
      PROVE  /\ t.messages[k].content.calls \in Seq(Calls)
             /\ IF t.calls # <<>> /\ k = Len(t.messages) THEN t.messages[k].content.calls = t.calls
                ELSE AnswersFollow(t, k, Due(t, k))
  <2>1. CASE k = L + 1
    <3>1. t.messages[k].content.calls = t.calls /\ k = Len(t.messages) /\ t.calls \in Seq(Calls)
      BY <1>2, <1>6, <1>7, <2>1
    <3>2. ASSUME t.calls = <<>> PROVE AnswersFollow(t, k, Due(t, k))
      <4>1. k + Len(<<>>) + 1 \notin DOMAIN t.messages
        BY <1>7, <2>1
      <4>2. Due(t, k) = <<>>
        BY <3>1, <3>2 DEF Due
      <4> QED
        BY <4>1, <4>2 DEF AnswersFollow
    <3> QED
      BY <3>1, <3>2
  <2>2. CASE k # L + 1
    <3>1. k \in DOMAIN s.messages /\ t.messages[k] = s.messages[k] /\ k # Len(t.messages)
      BY <1>7, <2>2
    <3>2. m.role # "tool" /\ "call_model" # "execute_tools"
      BY <1>2
    <3> QED
      BY <1>6, <1>10, <3>1, <3>2, SaidIsGood
  <2> QED
    BY <2>1, <2>2
<1>11. t.messages # <<>> /\ t.messages[Len(t.messages)].role = "assistant"
  <2>1. t.messages[Len(t.messages)] = m /\ 1 \in DOMAIN t.messages
    BY <1>7
  <2> QED
    BY <1>2, <2>1
<1>12. END \notin {"call_model", "execute_tools"}
  BY NamesAreApart DEF FlowNames, Graph, GraphAt, ReactGraph, CompiledGraph
<1>13. t.complete \in BOOLEAN /\ t.calls \in Seq(Calls)
  BY <1>2, <1>3, <1>6
<1>14. /\ next \in {"execute_tools", END}
       /\ next # "execute_tools" => t.complete \/ t.calls = <<>>
       /\ next = "execute_tools" => ~t.complete /\ t.calls # <<>>
  BY <1>6, <1>8, <1>12, <1>13
<1>15. ReactGood(next, t)
  BY <1>6, <1>7, <1>9, <1>10, <1>11, <1>13, <1>14 DEF ReactGood
<1> QED
  BY <1>4, <1>15 DEF t

LEMMA ReactRunsTools ==
  ASSUME flow = "react", NEW s, ReactGood("execute_tools", s),
         NEW r \in ToolNode(s, Registry, None, TRUE)
  PROVE  ReactGood("call_model", r.s) /\ r.out = Cont
<1> DEFINE L == Len(s.messages)
           t == r.s
<1>1. /\ IsState(s) /\ IsSeq(s.messages) /\ s.calls \in Seq(Calls) /\ s.calls # <<>>
      /\ s.complete = FALSE /\ s.messages # <<>> /\ s.messages[L].role = "assistant"
      /\ ~DoneBefore(s, L + 1)
  BY DEF ReactGood
<1>2. PICK f : /\ DOMAIN f = DOMAIN s.calls
               /\ r = Result([s EXCEPT !.calls = <<>>,
                                       !.messages = s.messages \o [k \in DOMAIN f |->
                                           ToolMessage(s.calls[k].id, f[k])]], Cont)
  <2>1. r \in {Result([s EXCEPT !.calls = <<>>,
                               !.messages = s.messages \o [k \in DOMAIN f |->
                                   ToolMessage(s.calls[k].id, f[k])]], Cont) :
                 f \in ResultLists(s.calls, PolicyForState(s, "builder"), Registry, TRUE)}
    BY <1>1 DEF ToolNode
  <2>2. \A f \in ResultLists(s.calls, PolicyForState(s, "builder"), Registry, TRUE) :
          DOMAIN f = DOMAIN s.calls
    BY DEF ResultLists
  <2> QED
    BY <2>1, <2>2
<1> DEFINE q == [k \in DOMAIN f |-> ToolMessage(s.calls[k].id, f[k])]
           N == Len(s.calls)
<1>3. N \in Nat /\ N # 0 /\ DOMAIN s.calls = 1 .. N /\ DOMAIN f = 1 .. N
  BY <1>1, <1>2, EmptySeq
<1>4. IsSeq(q) /\ Len(q) = N
  <2>1. q = [k \in 1 .. N |-> q[k]]
    BY <1>3
  <2> HIDE DEF q, N
  <2> QED
    BY <1>3, <2>1, ListIs
<1>5. \A k \in 1 .. N : q[k].role = "tool" /\ q[k].call = s.calls[k].id
  BY <1>3 DEF ToolMessage, Message
<1> HIDE DEF q
<1>6. t = [messages |-> s.messages \o q, calls |-> <<>>, ctx |-> s.ctx, complete |-> FALSE]
      /\ r.out = Cont
  BY <1>1, <1>2 DEF IsState, Result, q
<1> HIDE DEF t
<1>7. IsState(t) /\ t.messages = s.messages \o q /\ t.calls = <<>> /\ t.complete = FALSE
  BY <1>6 DEF IsState
<1>8. /\ IsSeq(t.messages) /\ L \in Nat /\ L # 0 /\ DOMAIN s.messages = 1 .. L
      /\ DOMAIN t.messages = 1 .. L + N
      /\ \A k \in 1 .. L : t.messages[k] = s.messages[k]
      /\ \A k \in 1 .. N : t.messages[L + k] = q[k]
  <2>1. L # 0
    BY <1>1, EmptySeq DEF IsSeq
  <2>2. /\ IsSeq(s.messages \o q) /\ L \in Nat /\ DOMAIN s.messages = 1 .. L
        /\ DOMAIN (s.messages \o q) = 1 .. L + Len(q)
        /\ \A k \in 1 .. L : (s.messages \o q)[k] = s.messages[k]
        /\ \A k \in 1 .. Len(q) : (s.messages \o q)[L + k] = q[k]
    <3>1. IsSeq(s.messages) /\ IsSeq(q)
      BY <1>1, <1>4
    <3> QED
      BY <3>1, ConcatIs
  <2> QED
    BY <1>4, <1>7, <2>1, <2>2
<1> HIDE DEF L, N
<1>9. ASSUME NEW k \in DOMAIN t.messages, t.messages[k].role = "assistant"
      PROVE  /\ t.messages[k].content.calls \in Seq(Calls) /\ t.messages[k].content.calls # <<>>
             /\ AnswersFollow(t, k, t.messages[k].content.calls)
  <2>1. k \in 1 .. L /\ t.messages[k] = s.messages[k]
    <3>1. CASE k \in 1 .. L
      BY <1>8, <3>1
    <3>2. CASE k \notin 1 .. L
      <4>1. k - L \in 1 .. N /\ k = L + (k - L)
        BY <1>3, <1>8, <3>2
      <4>2. t.messages[k] = q[k - L]
        BY <1>8, <4>1
      <4> QED
        BY <1>5, <1>9, <4>1, <4>2
    <3> QED
      BY <3>1, <3>2
  <2> DEFINE C == t.messages[k].content.calls
  <2>2. /\ C \in Seq(Calls) /\ Len(C) \in Nat /\ DOMAIN C = 1 .. Len(C) /\ C # <<>>
        /\ k = L => C = s.calls
        /\ k # L => AnswersFollow(s, k, C)
    <3>1. C \in Seq(Calls)
      BY <1>8, <1>9, <2>1 DEF ReactGood
    <3>2. ~DoneBefore(s, k) /\ C # <<>>
      BY <1>1, <1>8, <1>9, <2>1 DEF DoneBefore
    <3>3. Due(s, k) = C
      BY <2>1, <3>2 DEF Due
    <3> QED
      BY <1>1, <1>8, <1>9, <2>1, <3>1, <3>2, <3>3 DEF ReactGood, L
  <2> HIDE DEF C
  <2>3. CASE k = L
    <3>1. C = s.calls /\ Len(C) = N
      BY <2>2, <2>3 DEF N
    <3>2. k + N + 1 \notin DOMAIN t.messages
      BY <1>3, <1>8, <2>3
    <3>3. \A j \in DOMAIN C : k + j \in DOMAIN t.messages /\ t.messages[k + j] = q[j]
      BY <1>3, <1>8, <2>3, <3>1
    <3>4. \A j \in DOMAIN C : q[j].role = "tool" /\ q[j].call = C[j].id
      BY <1>3, <1>5, <3>1
    <3> QED
      BY <2>2, <3>1, <3>2, <3>3, <3>4 DEF AnswersFollow, C
  <2>4. CASE k # L
    <3>1. AnswersFollow(s, k, C)
      BY <2>2, <2>4
    <3>2. \A j \in DOMAIN C : /\ k + j \in 1 .. L /\ s.messages[k + j].role = "tool"
                              /\ s.messages[k + j].call = C[j].id
      BY <1>8, <3>1 DEF AnswersFollow
    <3>3. k + Len(C) + 1 \in 1 .. L
      <4>1. CASE Len(C) = 0
        BY <1>8, <2>1, <2>4, <4>1
      <4>2. CASE Len(C) # 0
        <5>1. Len(C) \in DOMAIN C
          BY <2>2, <4>2
        <5>2. k + Len(C) \in 1 .. L /\ s.messages[k + Len(C)].role = "tool"
          BY <3>2, <5>1
        <5>3. k + Len(C) # L
          BY <1>1, <5>2 DEF L
        <5> QED
          BY <1>8, <2>1, <2>2, <5>2, <5>3
      <4> QED
        BY <4>1, <4>2
    <3>4. s.messages[k + Len(C) + 1].role # "tool"
      BY <1>8, <3>1, <3>3 DEF AnswersFollow
    <3>5. AnswersFollow(t, k, C)
      <4>1. ASSUME NEW j \in DOMAIN C
            PROVE  /\ k + j \in DOMAIN t.messages /\ t.messages[k + j].role = "tool"
                   /\ t.messages[k + j].call = C[j].id
        <5>1. k + j \in 1 .. L /\ t.messages[k + j] = s.messages[k + j]
          BY <1>8, <3>2
        <5> QED
          BY <1>3, <1>8, <3>2, <5>1
      <4>2. t.messages[k + Len(C) + 1] = s.messages[k + Len(C) + 1]
        BY <1>8, <3>3
      <4> QED
        BY <3>4, <4>1, <4>2 DEF AnswersFollow
    <3> QED
      BY <2>2, <3>5 DEF C
  <2> QED
    BY <2>3, <2>4
<1>10. ReactGood("call_model", t)
  <2>1. "call_model" # "execute_tools" /\ t.calls \in Seq(Calls)
    BY <1>7
  <2>2. ~DoneBefore(t, Len(t.messages) + 1)
    <3>1. DOMAIN t.messages = 1 .. Len(t.messages) /\ Len(t.messages) \in Nat
      BY <1>8 DEF IsSeq
    <3> QED
      BY <1>9, <3>1 DEF DoneBefore
  <2>3. ASSUME NEW k \in DOMAIN t.messages, t.messages[k].role = "assistant"
        PROVE  AnswersFollow(t, k, Due(t, k))
    <3>1. DOMAIN t.messages = 1 .. Len(t.messages) /\ Len(t.messages) \in Nat
      BY <1>8 DEF IsSeq
    <3>2. ~DoneBefore(t, k)
      BY <1>9, <3>1 DEF DoneBefore
    <3> QED
      BY <1>9, <2>3, <3>2 DEF Due
  <2> QED
    BY <1>7, <1>8, <1>9, <2>1, <2>2, <2>3 DEF ReactGood
<1> QED
  BY <1>6, <1>10 DEF t

LEMMA ReactStep ==
  ASSUME flow = "react", NEW n \in Graph(flow).nodes, NEW s, ReactGood(n, s),
         NEW r \in Execute(flow, n, s), r.ok, NEW next \in R!ResolveNext(r.s, n, r.out)
  PROVE  ReactGood(next, r.s)
<1>1. n \in {"call_model", "execute_tools"} /\ r \in ReactNode(n, s)
  BY FlowTable DEF ReactGraph, CompiledGraph
<1>2. CASE n = "call_model"
  <2>1. r \in LLMNode(s, Answers)
    BY <1>1, <1>2 DEF ReactNode
  <2>2. r.out = Cont
    BY <1>2, <2>1, ReactAsks
  <2>3. next = AgentRouter(r.s, "execute_tools")
    BY <1>2, <2>2, ReactLeads
  <2> QED
    BY <1>2, <2>1, <2>3, ReactAsks
<1>3. CASE n = "execute_tools"
  <2>1. r \in ToolNode(s, Registry, None, TRUE)
    BY <1>1, <1>3 DEF ReactNode
  <2>2. r.out = Cont /\ ReactGood("call_model", r.s)
    BY <1>3, <2>1, ReactRunsTools
  <2>3. next = "call_model"
    BY <1>3, <2>2, ReactLeads
  <2> QED
    BY <2>2, <2>3
<1> QED
  BY <1>1, <1>2, <1>3
-----------------------------------------------------------------------------
(* governance *)

LEMMA GovernanceLeads ==
  ASSUME flow = "governance", NEW s, NEW n, NEW next \in R!ResolveNext(s, n, Cont)
  PROVE  /\ n = "gov_init" => next = "tools"
         /\ n = "tools" => next = "to_builder"
         /\ n = "to_builder" => next = "done"
<1> DEFINE edges == GovernanceGraph.edges
<1>1. EdgesAt(flow, s) = edges
  BY FlowTable
<1>2. edges = <<Edge("gov_init", "tools"), Edge("tools", "to_builder"), Edge("to_builder", "done")>>
  BY DEF GovernanceGraph, CompiledGraph
<1>3. ASSUME NEW k \in DOMAIN edges
      PROVE  /\ k \in Nat /\ edges[k].to # {}
             /\ ~Serves(edges[k], "gov_init", CONTINUE) \/ edges[k].to = {"tools"}
             /\ ~Serves(edges[k], "tools", CONTINUE) \/ edges[k].to = {"to_builder"}
             /\ ~Serves(edges[k], "to_builder", CONTINUE) \/ edges[k].to = {"done"}
  BY <1>2 DEF Edge, Serves
<1>4. /\ 1 \in DOMAIN edges /\ Serves(edges[1], "gov_init", CONTINUE)
      /\ 2 \in DOMAIN edges /\ Serves(edges[2], "tools", CONTINUE)
      /\ 3 \in DOMAIN edges /\ Serves(edges[3], "to_builder", CONTINUE)
  BY <1>2 DEF Edge, Serves
<1>5. \/ next = END /\ \A k \in DOMAIN edges : ~Serves(edges[k], n, CONTINUE)
      \/ \E k \in DOMAIN edges : Serves(edges[k], n, CONTINUE) /\ next \in edges[k].to
  BY <1>1, <1>3, Follow DEF Cont
<1> HIDE DEF edges
<1> QED
  BY <1>3, <1>4, <1>5

LEMMA GovernanceNodes ==
  /\ GovernanceGraph.nodes = {"gov_init", "tools", "to_builder", "done"}
  /\ flow = "governance" => END \notin GovernanceGraph.nodes
<1>1. flow = "governance" => END \notin Graph(flow).nodes
  BY NamesAreApart DEF FlowNames
<1> QED
  BY <1>1, FlowTable DEF GovernanceGraph, CompiledGraph

LEMMA SystemIsNoRead ==
  ASSUME NEW q, IsSeq(q), OnlyReadsRan(q), NEW x
  PROVE  IsSeq(<<System(x)>> \o q) /\ OnlyReadsRan(<<System(x)>> \o q)
<1> DEFINE p == <<System(x)>>
<1>1. p[1].role = "system" /\ DOMAIN p = {1} /\ Len(p) = 1
  BY DEF System, Message
<1>2. IsSeq(p)
  <2>1. p \in Seq({System(x)})
    OBVIOUS
  <2> QED
    BY <2>1 DEF IsSeq
<1> HIDE DEF p
<1>3. /\ IsSeq(p \o q) /\ DOMAIN q = 1 .. Len(q) /\ Len(q) \in Nat
      /\ DOMAIN (p \o q) = 1 .. 1 + Len(q)
      /\ \A k \in 1 .. 1 : (p \o q)[k] = p[k]
      /\ \A k \in 1 .. Len(q) : (p \o q)[1 + k] = q[k]
  <2>1. /\ IsSeq(p \o q) /\ DOMAIN q = 1 .. Len(q) /\ Len(q) \in Nat
        /\ DOMAIN (p \o q) = 1 .. Len(p) + Len(q)
        /\ \A k \in 1 .. Len(p) : (p \o q)[k] = p[k]
        /\ \A k \in 1 .. Len(q) : (p \o q)[Len(p) + k] = q[k]
    BY <1>2, ConcatIs
  <2> QED
    BY <1>1, <2>1
<1>4. ASSUME NEW k \in DOMAIN (p \o q), (p \o q)[k].role = "tool", (p \o q)[k].content \in Ran
      PROVE  \A c \in Calls : c.id = (p \o q)[k].call => c.name = "read_file"
  <2>1. k # 1
    BY <1>1, <1>3, <1>4
  <2>2. k - 1 \in 1 .. Len(q) /\ k = 1 + (k - 1)
    BY <1>3, <2>1
  <2>3. (p \o q)[k] = q[k - 1] /\ k - 1 \in DOMAIN q
    BY <1>3, <2>2
  <2> QED
    BY <1>4, <2>3 DEF OnlyReadsRan
<1> QED
  BY <1>3, <1>4 DEF OnlyReadsRan, p

\* A role taken up: what is common to the nodes that apply guidance.
LEMMA RoleTaken ==
  ASSUME NEW s, IsState(s), IsSeq(s.messages), OnlyReadsRan(s.messages), NEW manifest, NEW role,
         NEW config, NEW t, t = ApplyRoleGuidance(s, manifest, role, config)
  PROVE  /\ IsState(t) /\ IsSeq(t.messages) /\ OnlyReadsRan(t.messages) /\ t.calls = s.calls
         /\ Guided(t, manifest) /\ Has(t, "agent_role") /\ t.ctx["agent_role"] = role
         /\ Has(t, "echo") = Has(s, "echo")
<1>1. /\ IsState(t) /\ t.calls = s.calls
      /\ {"agent_role", "governance_guidance", "role_system_prompt"} \subseteq DOMAIN t.ctx
      /\ DOMAIN s.ctx \subseteq DOMAIN t.ctx /\ DOMAIN t.ctx \subseteq DOMAIN s.ctx \cup GuidanceKeys
      /\ t.ctx["agent_role"] = role
      /\ t.ctx["governance_guidance"] = ComposeGuidance(manifest, role)
      /\ t.ctx["role_system_prompt"] = Preamble(role)
      /\ t.messages = s.messages \/ \E x : t.messages = <<System(x)>> \o s.messages
  BY GuidanceApplied
<1>2. IsSeq(t.messages) /\ OnlyReadsRan(t.messages)
  BY <1>1, SystemIsNoRead
<1>3. "echo" \notin GuidanceKeys
  BY DEF GuidanceKeys
<1> QED
  BY <1>1, <1>2, <1>3 DEF Guided, Has

LEMMA ArchitectTools ==
  ASSUME NEW s, GovernanceGood("tools", s), NEW r \in ToolNode(s, Registry, None, TRUE)
  PROVE  /\ IsState(r.s) /\ IsSeq(r.s.messages) /\ OnlyReadsRan(r.s.messages)
         /\ r.s.calls \in Seq(Calls) /\ r.s.ctx = s.ctx /\ r.out = Cont
<1> DEFINE policy == PolicyForState(s, "builder")
           t == r.s
           L == Len(s.messages)
           N == Len(s.calls)
<1>1. /\ IsState(s) /\ IsSeq(s.messages) /\ s.calls \in Seq(Calls) /\ OnlyReadsRan(s.messages)
      /\ Has(s, "agent_role") /\ s.ctx["agent_role"] = "architect"
  BY DEF GovernanceGood
<1>2. policy = PolicyForRole("architect")
  <2>1. AgentRole(s) = "architect" /\ "architect" # None
    BY <1>1, NamesAreApart DEF AgentRole, Get, RoleOfTag, NamedRoles
  <2> QED
    BY <2>1 DEF PolicyForState
<1>3. CASE s.calls = <<>>
  <2>1. r = Result(s, Cont)
    BY <1>3 DEF ToolNode
  <2> QED
    BY <1>1, <2>1 DEF Result
<1>4. CASE s.calls # <<>>
  <2>1. PICK f \in ResultLists(s.calls, policy, Registry, TRUE) :
          r = Result([s EXCEPT !.calls = <<>>,
                               !.messages = s.messages \o [k \in DOMAIN f |->
                                   ToolMessage(s.calls[k].id, f[k])]], Cont)
    BY <1>4 DEF ToolNode
  <2>2. DOMAIN f = 1 .. N /\ N \in Nat
        /\ \A k \in 1 .. N : f[k] \in ResultsOf(s.calls[k], policy, Registry, TRUE)
    <3> HIDE DEF policy
    <3>1. DOMAIN s.calls = 1 .. N /\ N \in Nat
      BY <1>1
    <3>2. DOMAIN f = DOMAIN s.calls
          /\ \A k \in DOMAIN s.calls : f[k] \in ResultsOf(s.calls[k], policy, Registry, TRUE)
      BY <2>1 DEF ResultLists
    <3> QED
      BY <3>1, <3>2
  <2> DEFINE q == [k \in DOMAIN f |-> ToolMessage(s.calls[k].id, f[k])]
  <2>3. IsSeq(q) /\ Len(q) = N /\ DOMAIN q = 1 .. N
    <3>1. q = [k \in 1 .. N |-> q[k]]
      BY <2>2
    <3> HIDE DEF q, N
    <3> QED
      BY <2>2, <3>1, ListIs
  <2>4. \A k \in 1 .. N : q[k].content = f[k] /\ q[k].call = s.calls[k].id
    BY <2>2 DEF ToolMessage, Message
  <2>5. ASSUME NEW k \in 1 .. N, q[k].content \in Ran
        PROVE  \A c \in Calls : c.id = q[k].call => c.name = "read_file"
    <3>1. f[k] \in Ran /\ s.calls[k] \in Calls /\ q[k].call = s.calls[k].id
      <4>1. s.calls[k] \in Calls
        BY <1>1
      <4> HIDE DEF q, N
      <4> QED
        BY <2>4, <2>5, <4>1
    <3>2. Evaluate(policy, s.calls[k].name, s.calls[k].command) = "allow"
      BY <2>2, <3>1, RanIsAllowed
    <3>3. s.calls[k].name = "read_file"
      BY <1>2, <3>2, ArchitectReads
    <3> QED
      BY <3>1, <3>3, IdsNameTools
  <2> HIDE DEF q
  <2>6. /\ IsState(t) /\ t.messages = s.messages \o q /\ t.calls = <<>> /\ t.ctx = s.ctx
        /\ r.out = Cont
    BY <1>1, <2>1 DEF IsState, Result, q
  <2>7. /\ IsSeq(s.messages \o q) /\ L \in Nat /\ DOMAIN s.messages = 1 .. L
        /\ DOMAIN (s.messages \o q) = 1 .. L + N
        /\ \A k \in 1 .. L : (s.messages \o q)[k] = s.messages[k]
        /\ \A k \in 1 .. N : (s.messages \o q)[L + k] = q[k]
    <3>1. IsSeq(s.messages) /\ IsSeq(q)
      BY <1>1, <2>3
    <3>2. /\ IsSeq(s.messages \o q) /\ L \in Nat /\ DOMAIN s.messages = 1 .. L
          /\ DOMAIN (s.messages \o q) = 1 .. L + Len(q)
          /\ \A k \in 1 .. L : (s.messages \o q)[k] = s.messages[k]
          /\ \A k \in 1 .. Len(q) : (s.messages \o q)[L + k] = q[k]
      BY <3>1, ConcatIs
    <3> QED
      BY <2>3, <3>2
  <2> HIDE DEF L, N
  <2>8. ASSUME NEW k \in DOMAIN (s.messages \o q), (s.messages \o q)[k].role = "tool",
               (s.messages \o q)[k].content \in Ran
        PROVE  \A c \in Calls : c.id = (s.messages \o q)[k].call => c.name = "read_file"
    <3>1. CASE k \in 1 .. L
      BY <1>1, <2>7, <2>8, <3>1 DEF OnlyReadsRan
    <3>2. CASE k \notin 1 .. L
      <4>1. k - L \in 1 .. N /\ k = L + (k - L)
        BY <2>2, <2>7, <3>2
      <4>2. (s.messages \o q)[k] = q[k - L]
        BY <2>7, <4>1
      <4> QED
        BY <2>5, <2>8, <4>1, <4>2
    <3> QED
      BY <3>1, <3>2
  <2>9. OnlyReadsRan(s.messages \o q)
    BY <2>8 DEF OnlyReadsRan
  <2> HIDE DEF t
  <2>10. t.calls \in Seq(Calls)
    BY <2>6
  <2> QED
    BY <2>6, <2>7, <2>9, <2>10 DEF t
<1> QED
  BY <1>3, <1>4

LEMMA GovernanceStart ==
  ASSUME flow = "governance", NEW s, GovernanceGood(END, s), NEW calls \in BoundedSeq(Calls, 2)
  PROVE  GovernanceGood("gov_init", [s EXCEPT !.calls = calls])
<1>1. PICK t : t = [s EXCEPT !.calls = calls]
  OBVIOUS
<1>2. IsState(s)
  BY DEF GovernanceGood
<1>3. IsState(t) /\ t.messages = s.messages /\ t.calls = calls /\ t.ctx = s.ctx
  BY <1>1, <1>2 DEF IsState
<1>4. calls \in Seq(Calls)
  <2>1. PICK m \in 0 .. 2 : calls \in [1 .. m -> Calls]
    BY DEF BoundedSeq, SeqOf
  <2> QED
    BY <2>1
<1>5. "gov_init" # "tools" /\ "gov_init" \in GovernanceGraph.nodes
  BY GovernanceNodes
<1>6. GovernanceGood("gov_init", t)
  BY <1>3, <1>4, <1>5 DEF GovernanceGood, Guided, Has
<1> QED
  BY <1>1, <1>6

LEMMA GovernanceStep ==
  ASSUME flow = "governance", NEW n \in Graph(flow).nodes, NEW s, GovernanceGood(n, s),
         NEW r \in Execute(flow, n, s), r.ok, NEW next \in R!ResolveNext(r.s, n, r.out)
  PROVE  GovernanceGood(next, r.s)
<1>1. n \in GovernanceGraph.nodes /\ r \in GovernanceFlowNode(n, s)
  BY FlowTable
<1>2. /\ IsState(s) /\ IsSeq(s.messages) /\ OnlyReadsRan(s.messages) /\ s.calls \in Seq(Calls)
      /\ ~Has(s, "echo") /\ Guided(s, GovernanceManifest)
  BY DEF GovernanceGood
<1>3. CASE n = "gov_init"
  <2>1. r = Result(ApplyRoleGuidance(s, GovernanceManifest, "architect", DefaultConfig), Cont)
    BY <1>1, <1>3 DEF GovernanceFlowNode, GovernanceNode
  <2>2. r.s = ApplyRoleGuidance(s, GovernanceManifest, "architect", DefaultConfig) /\ r.out = Cont
    BY <2>1 DEF Result
  <2>3. next = "tools"
    BY <1>3, <2>2, GovernanceLeads
  <2> QED
    BY <1>2, <2>2, <2>3, RoleTaken, GovernanceNodes DEF GovernanceGood
<1>4. CASE n = "tools"
  <2>1. r \in ToolNode(s, Registry, None, TRUE) /\ GovernanceGood("tools", s)
    BY <1>1, <1>4 DEF GovernanceFlowNode
  <2>2. /\ IsState(r.s) /\ IsSeq(r.s.messages) /\ OnlyReadsRan(r.s.messages)
        /\ r.s.calls \in Seq(Calls) /\ r.s.ctx = s.ctx /\ r.out = Cont
    BY <2>1, ArchitectTools
  <2>3. next = "to_builder"
    BY <1>4, <2>2, GovernanceLeads
  <2> QED
    BY <1>2, <2>2, <2>3, GovernanceNodes DEF GovernanceGood, Guided, Has
<1>5. CASE n = "to_builder"
  <2>1. r = Result(ApplyRoleGuidance(s, GovernanceManifest, "builder", PermissiveConfig), Cont)
    BY <1>1, <1>5 DEF GovernanceFlowNode, RoleHandoffNode
  <2>2. r.s = ApplyRoleGuidance(s, GovernanceManifest, "builder", PermissiveConfig) /\ r.out = Cont
    BY <2>1 DEF Result
  <2>3. next = "done"
    BY <1>5, <2>2, GovernanceLeads
  <2> QED
    BY <1>2, <2>2, <2>3, RoleTaken, GovernanceNodes DEF GovernanceGood
<1>6. CASE n = "done"
  <2>1. r = Result(s, Finish)
    BY <1>1, <1>6 DEF GovernanceFlowNode, StaticTransitionNode, OrFinish
  <2>2. r.s = s /\ r.out = Finish
    BY <2>1 DEF Result
  <2>3. next = END
    BY <2>2 DEF R!ResolveNext, R!Routing!Successors, Finish
  <2> QED
    BY <1>2, <2>2, <2>3, GovernanceNodes DEF GovernanceGood
<1> QED
  BY <1>1, <1>3, <1>4, <1>5, <1>6, GovernanceNodes
-----------------------------------------------------------------------------
(* roles *)

LEMMA RolesNodes ==
  /\ RolesGraph.nodes = {"gov_architect", "plan", "handoff_builder", "build", "handoff_auditor",
                         "role_route", "audit_lane", "fallback", "done"}
  /\ flow = "roles" => END \notin RolesGraph.nodes
<1>1. flow = "roles" => END \notin Graph(flow).nodes
  BY NamesAreApart DEF FlowNames
<1> QED
  BY <1>1, FlowTable DEF RolesGraph, CompiledGraph

LEMMA RolesLeads ==
  ASSUME flow = "roles", NEW s, NEW n, NEW key, NEW next \in R!ResolveNext(s, n, Transition(key)),
         key = CONTINUE \/ key = "auditor"
  PROVE  /\ key = CONTINUE =>
              /\ n = "gov_architect" => next = "plan"
              /\ n = "plan" => next = "handoff_builder"
              /\ n = "handoff_builder" => next = "build"
              /\ n = "build" => next = "handoff_auditor"
              /\ n = "handoff_auditor" => next = "role_route"
              /\ n \in {"audit_lane", "done"} => next \in {"done", END}
         /\ key = "auditor" /\ n = "role_route" => next \in {"audit_lane", END}
<1> DEFINE edges == RolesGraph.edges
<1>1. EdgesAt(flow, s) = edges
  BY FlowTable
<1>2. edges = <<Edge("gov_architect", "plan"), Edge("plan", "handoff_builder"),
      Edge("handoff_builder", "build"), Edge("build", "handoff_auditor"),
      Edge("handoff_auditor", "role_route"), EdgeWithKey("role_route", "audit_lane", "auditor"),
      EdgeWithKey("role_route", "fallback", "default"), Edge("audit_lane", "done"),
      Edge("fallback", "done"), Edge("done", END)>>
  BY DEF RolesGraph, CompiledGraph
<1>3. "auditor" # CONTINUE /\ "auditor" # NoKey /\ NoKey # CONTINUE
  BY KeysApart DEF RouteKeys, NamedRoles
<1>4. ASSUME NEW k \in DOMAIN edges
      PROVE  /\ k \in Nat /\ edges[k].to # {}
             /\ Serves(edges[k], "gov_architect", CONTINUE) => edges[k].to = {"plan"}
             /\ Serves(edges[k], "plan", CONTINUE) => edges[k].to = {"handoff_builder"}
             /\ Serves(edges[k], "handoff_builder", CONTINUE) => edges[k].to = {"build"}
             /\ Serves(edges[k], "build", CONTINUE) => edges[k].to = {"handoff_auditor"}
             /\ Serves(edges[k], "handoff_auditor", CONTINUE) => edges[k].to = {"role_route"}
             /\ Serves(edges[k], "audit_lane", CONTINUE) => edges[k].to = {"done"}
             /\ Serves(edges[k], "done", CONTINUE) => edges[k].to = {END}
             /\ Serves(edges[k], "role_route", "auditor") => edges[k].to = {"audit_lane"}
  <2>1. k \in Nat /\ edges[k].to # {}
    BY <1>2, SMTT(60) DEF Edge, EdgeWithKey
  <2>2. edges[k].from = "gov_architect" => edges[k].to = {"plan"}
    BY <1>2, SMTT(60) DEF Edge, EdgeWithKey
  <2>3. edges[k].from = "plan" => edges[k].to = {"handoff_builder"}
    BY <1>2, SMTT(60) DEF Edge, EdgeWithKey
  <2>4. edges[k].from = "handoff_builder" => edges[k].to = {"build"}
    BY <1>2, SMTT(60) DEF Edge, EdgeWithKey
  <2>5. edges[k].from = "build" => edges[k].to = {"handoff_auditor"}
    BY <1>2, SMTT(60) DEF Edge, EdgeWithKey
  <2>6. edges[k].from = "handoff_auditor" => edges[k].to = {"role_route"}
    BY <1>2, SMTT(60) DEF Edge, EdgeWithKey
  <2>7. edges[k].from = "audit_lane" => edges[k].to = {"done"}
    BY <1>2, SMTT(60) DEF Edge, EdgeWithKey
  <2>9. edges[k].from = "done" => edges[k].to = {END}
    BY <1>2, SMTT(60) DEF Edge, EdgeWithKey
  <2>8. edges[k].from = "role_route" =>
          edges[k].key = "default" \/ (edges[k].key = "auditor" /\ edges[k].to = {"audit_lane"})
    <3>1. edges[k].from = "role_route" => k = 6 \/ k = 7
      BY <1>2, SMTT(60) DEF Edge, EdgeWithKey
    <3>2. edges[6].key = "auditor" /\ edges[6].to = {"audit_lane"}
      BY <1>2 DEF EdgeWithKey
    <3>3. edges[7].key = "default"
      BY <1>2 DEF EdgeWithKey
    <3> QED
      BY <3>1, <3>2, <3>3
  <2> HIDE DEF edges
  <2> QED
    BY <1>3, <2>1, <2>2, <2>3, <2>4, <2>5, <2>6, <2>7, <2>8, <2>9 DEF Serves
<1>5. /\ 1 \in DOMAIN edges /\ Serves(edges[1], "gov_architect", CONTINUE)
      /\ 2 \in DOMAIN edges /\ Serves(edges[2], "plan", CONTINUE)
      /\ 3 \in DOMAIN edges /\ Serves(edges[3], "handoff_builder", CONTINUE)
      /\ 4 \in DOMAIN edges /\ Serves(edges[4], "build", CONTINUE)
      /\ 5 \in DOMAIN edges /\ Serves(edges[5], "handoff_auditor", CONTINUE)
  BY <1>2 DEF Edge, EdgeWithKey, Serves
<1>6. \/ next = END /\ \A k \in DOMAIN edges : ~Serves(edges[k], n, key)
      \/ \E k \in DOMAIN edges : Serves(edges[k], n, key) /\ next \in edges[k].to
  BY <1>1, <1>4, Follow DEF Transition
<1> HIDE DEF edges
<1> QED
  BY <1>3, <1>4, <1>5, <1>6

LEMMA ContLeads ==
  ASSUME NEW s, NEW n
  PROVE  R!ResolveNext(s, n, Cont) = R!ResolveNext(s, n, Transition(CONTINUE))
BY DEF R!ResolveNext, R!Routing!Successors, Cont, Transition

LEMMA RolesGuided ==
  ASSUME NEW s, IsState(s), NEW role, NEW config, Get(s, "echo") # "fallback",
         NEW t, t = ApplyRoleGuidance(s, RolesManifest, role, config)
  PROVE  /\ IsState(t) /\ Guided(t, RolesManifest) /\ Get(t, "echo") # "fallback"
         /\ Has(t, "agent_role") /\ t.ctx["agent_role"] = role
<1>1. /\ IsState(t)
      /\ {"agent_role", "governance_guidance", "role_system_prompt"} \subseteq DOMAIN t.ctx
      /\ DOMAIN s.ctx \subseteq DOMAIN t.ctx /\ DOMAIN t.ctx \subseteq DOMAIN s.ctx \cup GuidanceKeys
      /\ t.ctx["agent_role"] = role
      /\ t.ctx["governance_guidance"] = ComposeGuidance(RolesManifest, role)
      /\ t.ctx["role_system_prompt"] = Preamble(role)
      /\ \A k \in DOMAIN s.ctx \ GuidanceKeys : t.ctx[k] = s.ctx[k]
  BY GuidanceApplied
<1>2. "echo" \notin GuidanceKeys
  BY DEF GuidanceKeys
<1> QED
  BY <1>1, <1>2 DEF Guided, Has, Get

\* A key that is none of the guidance is written.
LEMMA RolesWrites ==
  ASSUME NEW s, IsState(s), Guided(s, RolesManifest), Get(s, "echo") # "fallback",
         NEW key, key \notin GuidanceKeys, NEW value, key = "echo" => value # "fallback",
         NEW t, t = Put(s, key, value)
  PROVE  /\ IsState(t) /\ Guided(t, RolesManifest) /\ Get(t, "echo") # "fallback"
<1>1. /\ IsState(t) /\ DOMAIN t.ctx = DOMAIN s.ctx \cup {key} /\ t.ctx[key] = value
      /\ \A k \in DOMAIN s.ctx \ {key} : t.ctx[k] = s.ctx[k]
  BY PutIs
<1>2. Guided(t, RolesManifest)
  BY <1>1 DEF Guided, Has, GuidanceKeys
<1> QED
  BY <1>1, <1>2 DEF Get, Has

LEMMA RolesStart ==
  ASSUME flow = "roles", NEW s, RolesGood(END, s)
  PROVE  RolesGood("gov_architect", Attach(s))
<1>1. PICK t : t = Attach(s)
  OBVIOUS
<1>2. IsState(t) /\ Guided(t, RolesManifest) /\ Get(t, "echo") # "fallback"
  <2>1. t = Put(s, "run_id", "run") /\ "run_id" \notin GuidanceKeys
    BY <1>1 DEF Attach, GuidanceKeys
  <2> QED
    BY <2>1, RolesWrites DEF RolesGood
<1>3. "gov_architect" \in RolesGraph.nodes \ {"fallback"} /\ "gov_architect" # "role_route"
  BY RolesNodes
<1> QED
  BY <1>1, <1>2, <1>3 DEF RolesGood

LEMMA RolesStep ==
  ASSUME flow = "roles", NEW n \in Graph(flow).nodes, NEW s, RolesGood(n, s),
         NEW r \in Execute(flow, n, s), r.ok, NEW next \in R!ResolveNext(r.s, n, r.out)
  PROVE  RolesGood(next, r.s)
<1>1. r \in RolesNode(n, s)
      /\ n \in {"gov_architect", "plan", "handoff_builder", "build", "handoff_auditor",
                "role_route", "audit_lane", "done"}
  BY FlowTable, RolesNodes DEF RolesGood
<1>2. IsState(s) /\ Guided(s, RolesManifest) /\ Get(s, "echo") # "fallback"
  BY DEF RolesGood
<1>3. /\ END \notin RolesGraph.nodes
      /\ {"plan", "handoff_builder", "build", "handoff_auditor", "role_route", "audit_lane",
          "done"} \subseteq RolesGraph.nodes \ {"fallback"}
  BY RolesNodes
<1>4. "auditor" # CONTINUE /\ "auditor" # None
  BY KeysApart, NamesAreApart DEF RouteKeys, NamedRoles
<1>5. r.out = Cont => next \in R!ResolveNext(r.s, n, Transition(CONTINUE))
  BY ContLeads
<1>6. CASE n \in {"gov_architect", "handoff_builder", "handoff_auditor"}
  <2>1. PICK role, config : /\ r = Result(ApplyRoleGuidance(s, RolesManifest, role, config), Cont)
                            /\ n = "handoff_auditor" => role = "auditor"
    BY <1>1, <1>6 DEF RolesNode, GovernanceNode, RoleHandoffNode
  <2>2. r.s = ApplyRoleGuidance(s, RolesManifest, role, config) /\ r.out = Cont
    BY <2>1 DEF Result
  <2>3. /\ IsState(r.s) /\ Guided(r.s, RolesManifest) /\ Get(r.s, "echo") # "fallback"
        /\ Has(r.s, "agent_role") /\ r.s.ctx["agent_role"] = role
    BY <1>2, <2>2, RolesGuided
  <2>4. next \in {"plan", "build", "role_route"} /\ (next = "role_route" => role = "auditor")
    BY <1>5, <1>6, <2>1, <2>2, RolesLeads
  <2> QED
    BY <1>3, <2>3, <2>4 DEF RolesGood
<1>7. CASE n \in {"plan", "build", "audit_lane", "done"}
  <2>1. PICK key, value : /\ r = Result(Put(s, key, value), Cont) /\ key \notin GuidanceKeys
                          /\ key = "echo" => value # "fallback"
    BY <1>1, <1>7 DEF RolesNode, EchoNode, GuidanceKeys
  <2>2. r.s = Put(s, key, value) /\ r.out = Cont
    BY <2>1 DEF Result
  <2>3. /\ IsState(r.s) /\ Guided(r.s, RolesManifest) /\ Get(r.s, "echo") # "fallback"
    BY <1>2, <2>1, <2>2, RolesWrites
  <2>4. next \in {"handoff_builder", "handoff_auditor", "done", END}
    BY <1>5, <1>7, <2>2, RolesLeads
  <2> QED
    BY <1>3, <2>3, <2>4 DEF RolesGood
<1>8. CASE n = "role_route"
  <2>1. AgentRole(s) = "auditor"
    BY <1>8 DEF RolesGood, AgentRole, Get, RoleOfTag, NamedRoles
  <2>2. r = Result(s, Transition("auditor"))
    BY <1>1, <1>4, <1>8, <2>1 DEF RolesNode, RoleRouterNode
  <2>3. r.s = s /\ r.out = Transition("auditor")
    BY <2>2 DEF Result
  <2>4. next \in R!ResolveNext(r.s, n, Transition("auditor"))
    BY <2>3
  <2>5. next \in {"audit_lane", END}
    BY <1>4, <1>8, <2>4, RolesLeads
  <2> QED
    BY <1>2, <1>3, <2>3, <2>5 DEF RolesGood
<1> QED
  BY <1>1, <1>6, <1>7, <1>8
-----------------------------------------------------------------------------
(* dev *)

LEMMA DevLeads ==
  ASSUME flow = "dev", NEW s, NEW n, NEW out, NEW next \in R!ResolveNext(s, n, out), next = "ship",
         out.kind \in {"transition", "finish"}
  PROVE  n = "quality_gate" /\ out.kind = "transition" /\ out.key = "passed"
<1> DEFINE edges == DevGraph.edges
<1>1. EdgesAt(flow, s) = edges
  BY FlowTable
<1>2. edges = <<Edge("implement", "quality_gate"), EdgeWithKey("quality_gate", "ship", "passed"),
      EdgeWithKey("quality_gate", "human_review", "needs_approval"),
      EdgeWithKey("quality_gate", "review", "review"),
      EdgeWithKey("quality_gate", "fix_loop", "gate_failed"), Edge("review", "done"),
      Edge("done", END), Edge("fix_loop", "implement")>>
  BY DEF DevGraph, CompiledGraph
<1>3. END # "ship"
  BY NamesAreApart DEF FlowNames, Graph, GraphAt, DevGraph, CompiledGraph
<1>4. ASSUME NEW k \in DOMAIN edges, "ship" \in edges[k].to PROVE k = 2
  BY <1>2, <1>3, <1>4 DEF Edge, EdgeWithKey
<1>5. \A k \in DOMAIN edges : k \in Nat /\ edges[k].to # {}
  BY EdgesLead
<1>6. edges[2].from = "quality_gate" /\ edges[2].key = "passed"
  BY <1>2 DEF EdgeWithKey
<1>7. "passed" # NoKey
  BY KeysApart DEF RouteKeys
<1>8. /\ out.kind = "finish" => next = END
      /\ out.kind = "transition" =>
           \/ next = END
           \/ \E k \in DOMAIN edges : Serves(edges[k], n, out.key) /\ next \in edges[k].to
  BY <1>1, <1>5, Follow
<1> HIDE DEF edges
<1> QED
  BY <1>3, <1>4, <1>6, <1>7, <1>8 DEF Serves

LEMMA DevStart ==
  ASSUME flow = "dev", NEW s, DevGood(END, s)
  PROVE  DevGood("implement", Attach(s))
<1>1. PICK t : t = Put(s, "run_id", "run")
  OBVIOUS
<1>2. IsState(t) /\ Has(t, "blocking") /\ t.ctx["blocking"] = s.ctx["blocking"]
  BY <1>1, PutIs DEF DevGood, Has
<1>3. DevGood("implement", t)
  BY <1>2 DEF DevGood
<1> QED
  BY <1>1, <1>3 DEF Attach

\* What the gate lets through to ship.
LEMMA GatePasses ==
  ASSUME NEW s, IsState(s), Has(s, "blocking"), s.ctx["blocking"] \in BOOLEAN, NEW config,
         config.blockOnFailure = Get(s, "blocking"), NEW allowed,
         NEW r \in QualityGateNode(s, config, allowed)
  PROVE  /\ IsState(r.s) /\ Has(r.s, "blocking") /\ r.s.ctx["blocking"] = s.ctx["blocking"]
         /\ r.out.kind = "transition"
         /\ r.out.key = "passed" =>
              /\ r.s.ctx["change_risk_level"] = "low" /\ ~r.s.ctx["merge_blocker"]
              /\ r.s.ctx["blocking"] => r.s.ctx["gate_passed"]
<1> DEFINE risk == Classify(GetOr(s, "change_risk", NoRisk))
<1>1. PICK gate \in RunChecks(config, allowed) :
        r = LET passed == gate.passed \/ ~config.blockOnFailure
            IN  Result(PutAll(s, [gate_result |-> gate, change_risk_level |-> risk,
                                  merge_blocker |-> MergeBlocked(risk, passed),
                                  gate_passed |-> gate.passed]),
                       Transition(ApprovalRoute(risk, passed)))
  BY DEF QualityGateNode
<1> DEFINE passed == gate.passed \/ ~config.blockOnFailure
           v == [gate_result |-> gate, change_risk_level |-> risk,
                 merge_blocker |-> MergeBlocked(risk, passed), gate_passed |-> gate.passed]
<1>2. r.s = PutAll(s, v) /\ r.out = Transition(ApprovalRoute(risk, passed))
  BY <1>1 DEF Result
<1>3. /\ DOMAIN v = {"gate_result", "change_risk_level", "merge_blocker", "gate_passed"}
      /\ v["change_risk_level"] = risk /\ v["merge_blocker"] = MergeBlocked(risk, passed)
      /\ v["gate_passed"] = gate.passed
  OBVIOUS
<1>4. risk \in {"low", "medium", "high"}
  BY DEF Classify
<1>5. ApprovalRoute(risk, passed) = "passed" => passed /\ risk = "low"
  <2> HIDE DEF risk, passed
  <2> QED
    BY <1>4 DEF ApprovalRoute
<1>6. risk = "low" /\ passed => ~MergeBlocked(risk, passed)
  BY DEF MergeBlocked
<1>7. /\ IsState(r.s) /\ DOMAIN r.s.ctx = DOMAIN s.ctx \cup DOMAIN v
      /\ \A k \in DOMAIN v : r.s.ctx[k] = v[k]
      /\ \A k \in DOMAIN s.ctx \ DOMAIN v : r.s.ctx[k] = s.ctx[k]
  <2> HIDE DEF v
  <2> QED
    BY <1>2, PutAllIs
<1>8. r.out.kind = "transition" /\ r.out.key = ApprovalRoute(risk, passed)
  BY <1>2 DEF Transition
<1>9. Get(s, "blocking") = s.ctx["blocking"]
  BY DEF Get
<1>10. passed /\ s.ctx["blocking"] => gate.passed
  BY <1>9
<1>11. Has(r.s, "blocking") /\ r.s.ctx["blocking"] = s.ctx["blocking"]
  BY <1>3, <1>7 DEF Has
<1>12. /\ r.s.ctx["change_risk_level"] = risk /\ r.s.ctx["merge_blocker"] = MergeBlocked(risk, passed)
       /\ r.s.ctx["gate_passed"] = gate.passed
  BY <1>3, <1>7
<1> HIDE DEF risk, passed, v
<1> QED
  BY <1>5, <1>6, <1>7, <1>8, <1>10, <1>11, <1>12

LEMMA DevStep ==
  ASSUME flow = "dev", NEW n \in Graph(flow).nodes, NEW s, DevGood(n, s),
         NEW r \in Execute(flow, n, s), r.ok, NEW next \in R!ResolveNext(r.s, n, r.out)
  PROVE  DevGood(next, r.s)
<1>1. r \in DevNode(n, s)
  BY FlowTable
<1>2. IsState(s) /\ Has(s, "blocking") /\ s.ctx["blocking"] \in BOOLEAN
  BY DEF DevGood
<1>3. CASE n = "implement"
  <2>1. PICK v : r = Result(PutAll(s, v), Cont) /\ DOMAIN v = {"change_summary", "change_risk"}
    <3>1. PICK risk \in DevRisks :
            r = Result(PutAll(s, [change_summary |-> "modules", change_risk |-> risk]), Cont)
      BY <1>1, <1>3 DEF DevNode, ImplementNode
    <3>2. PICK v : v = [change_summary |-> "modules", change_risk |-> risk]
      OBVIOUS
    <3>3. DOMAIN v = {"change_summary", "change_risk"}
      BY <3>2
    <3> QED
      BY <3>1, <3>2, <3>3
  <2>2. r.s = PutAll(s, v) /\ r.out.kind = "transition"
    BY <2>1 DEF Result, Cont
  <2>3. IsState(r.s) /\ Has(r.s, "blocking") /\ r.s.ctx["blocking"] = s.ctx["blocking"]
    BY <1>2, <2>1, <2>2, PutAllIs DEF Has
  <2>4. next # "ship"
    BY <1>3, <2>2, DevLeads
  <2> QED
    BY <1>2, <2>3, <2>4 DEF DevGood
<1>4. CASE n = "quality_gate"
  <2>1. PICK config : r \in QualityGateNode(s, config, {"listed"})
                      /\ config.blockOnFailure = Get(s, "blocking")
    BY <1>1, <1>4 DEF DevNode
  <2>2. /\ IsState(r.s) /\ Has(r.s, "blocking") /\ r.s.ctx["blocking"] = s.ctx["blocking"]
        /\ r.out.kind = "transition"
        /\ r.out.key = "passed" =>
              /\ r.s.ctx["change_risk_level"] = "low" /\ ~r.s.ctx["merge_blocker"]
              /\ r.s.ctx["blocking"] => r.s.ctx["gate_passed"]
    BY <1>2, <2>1, GatePasses
  <2>3. next = "ship" => r.out.key = "passed"
    BY <2>2, DevLeads
  <2> QED
    BY <1>2, <2>2, <2>3 DEF DevGood
<1>5. CASE n \in {"ship", "human_review", "fix_loop"}
  <2>1. PICK x \in {"done", "implement"} : r = Result(s, OrFinish(x))
    BY <1>1, <1>5 DEF DevNode, StaticTransitionNode
  <2>2. r.s = s /\ r.out = OrFinish(x)
    BY <2>1 DEF Result
  <2>3. next \in {END, x}
    BY <2>2 DEF R!ResolveNext, R!Routing!Successors, OrFinish, Finish, ContinueTo
  <2>4. END # "ship"
    BY NamesAreApart DEF FlowNames, Graph, GraphAt, DevGraph, CompiledGraph
  <2> QED
    BY <1>2, <2>2, <2>3, <2>4 DEF DevGood
<1>6. CASE n \notin {"implement", "quality_gate", "ship", "human_review", "fix_loop"}
  <2>1. r = Result(Put(s, "echo", n), Cont)
    BY <1>1, <1>6 DEF DevNode, EchoNode
  <2>2. r.s = Put(s, "echo", n) /\ r.out.kind = "transition"
    BY <2>1 DEF Result, Cont
  <2>3. IsState(r.s) /\ Has(r.s, "blocking") /\ r.s.ctx["blocking"] = s.ctx["blocking"]
    BY <1>2, <2>2, PutIs DEF Has
  <2>4. next # "ship"
    BY <1>6, <2>2, DevLeads
  <2> QED
    BY <1>2, <2>3, <2>4 DEF DevGood
<1> QED
  BY <1>3, <1>4, <1>5, <1>6
-----------------------------------------------------------------------------
(* hitl, operator *)

LEMMA HitlLeads ==
  ASSUME flow \in {"hitl", "operator"}, NEW s, NEW n, NEW out, out.kind = "transition",
         NEW next \in R!ResolveNext(s, n, out), next = "ship"
  PROVE  n = "checkpoint" /\ out.key = "approved"
<1>1. PICK waits \in BOOLEAN : EdgesAt(flow, s) = HitlGraph(waits).edges
  BY FlowTable
<1> DEFINE edges == HitlGraph(waits).edges
<1>2. edges = <<EdgeWithKey("checkpoint", "wait", "awaiting_approval"),
      EdgeWithKey("checkpoint", "ship", "approved"),
      Edge("wait", IF waits THEN END ELSE "apply_edits"), Edge("apply_edits", "grant"),
      Edge("grant", "checkpoint"), Edge("ship", END)>>
  BY DEF HitlGraph, CompiledGraph
<1>3. END # "ship"
  BY NamesAreApart DEF FlowNames, Graph, GraphAt, HitlGraph, CompiledGraph
<1>4. ASSUME NEW k \in DOMAIN edges, "ship" \in edges[k].to PROVE k = 2
  BY <1>2, <1>3, <1>4 DEF Edge, EdgeWithKey
<1>5. \A k \in DOMAIN edges : k \in Nat /\ edges[k].to # {}
  BY EdgesLead
<1>6. edges[2].from = "checkpoint" /\ edges[2].key = "approved"
  BY <1>2 DEF EdgeWithKey
<1>7. "approved" # NoKey
  BY KeysApart DEF RouteKeys
<1>8. \/ next = END
      \/ \E k \in DOMAIN edges : Serves(edges[k], n, out.key) /\ next \in edges[k].to
  BY <1>1, <1>5, Follow
<1> HIDE DEF edges
<1> QED
  BY <1>3, <1>4, <1>6, <1>7, <1>8 DEF Serves

LEMMA WithReviewIs ==
  ASSUME NEW s, IsState(s), NEW r, NEW t, t = WithReview(s, r)
  PROVE  /\ IsState(t) /\ Review(t) = r /\ DOMAIN t.ctx = DOMAIN s.ctx \cup {"review"}
         /\ \A k \in DOMAIN s.ctx \ {"review"} : t.ctx[k] = s.ctx[k]
<1>1. /\ IsState(t) /\ t.ctx["review"] = r /\ DOMAIN t.ctx = DOMAIN s.ctx \cup {"review"}
      /\ \A k \in DOMAIN s.ctx \ {"review"} : t.ctx[k] = s.ctx[k]
  BY PutIs DEF WithReview
<1> QED
  BY <1>1 DEF Review, GetOr, Has

\* What an event more in the log changes.
LEMMA LogGrows ==
  ASSUME NEW events, IsSeq(events), NEW e, NEW b
  PROVE  /\ IsSeq(Append(events, e)) /\ ToSet(Append(events, e)) = ToSet(events) \cup {e}
         /\ After(b, Append(events, e)) \subseteq After(b, events) \cup {e}
<1>1. /\ IsSeq(Append(events, e)) /\ Len(events) \in Nat /\ DOMAIN events = 1 .. Len(events)
      /\ DOMAIN Append(events, e) = 1 .. Len(events) + 1
      /\ \A k \in 1 .. Len(events) : Append(events, e)[k] = events[k]
      /\ Append(events, e)[Len(events) + 1] = e
  BY AppendIs
<1>2. \A k \in DOMAIN Append(events, e) :
        \/ k \in DOMAIN events /\ Append(events, e)[k] = events[k]
        \/ Append(events, e)[k] = e
  BY <1>1
<1>3. ToSet(Append(events, e)) = ToSet(events) \cup {e}
  BY <1>1, <1>2 DEF ToSet
<1>4. After(b, Append(events, e)) \subseteq After(b, events) \cup {e}
  BY <1>1, <1>2 DEF After
<1> QED
  BY <1>1, <1>3, <1>4

\* Editing takes no decision back, deciding is the last word.
LEMMA WordStands ==
  ASSUME NEW events, IsSeq(events), NEW d, NEW e
  PROVE  /\ e.kind = "intervention_edited" /\ IsLastWord(d, events) => IsLastWord(d, Append(events, e))
         /\ e = Recorded(d.request, d.verdict) => IsLastWord(d, Append(events, e))
<1>1. /\ Len(events) \in Nat /\ DOMAIN events = 1 .. Len(events)
      /\ DOMAIN Append(events, e) = 1 .. Len(events) + 1
      /\ \A k \in 1 .. Len(events) : Append(events, e)[k] = events[k]
      /\ Append(events, e)[Len(events) + 1] = e
  BY AppendIs
<1>2. ASSUME e.kind = "intervention_edited", IsLastWord(d, events) PROVE IsLastWord(d, Append(events, e))
  <2>1. PICK k \in DOMAIN events : /\ events[k] = Recorded(d.request, d.verdict)
                                /\ \A j \in DOMAIN events : j > k => events[j].kind = "intervention_edited"
    BY <1>2 DEF IsLastWord
  <2>2. \A j \in DOMAIN Append(events, e) : j > k => Append(events, e)[j].kind = "intervention_edited"
    BY <1>1, <1>2, <2>1
  <2> QED
    BY <1>1, <2>1, <2>2 DEF IsLastWord
<1>3. ASSUME e = Recorded(d.request, d.verdict) PROVE IsLastWord(d, Append(events, e))
  <2>1. \A j \in DOMAIN Append(events, e) : ~(j > Len(events) + 1)
    BY <1>1
  <2> QED
    BY <1>1, <1>3, <2>1 DEF IsLastWord
<1> QED
  BY <1>2, <1>3

\* An edit or a decision more: the review still tells one story.
LEMMA FitsMore ==
  ASSUME NEW r, NEW y, NEW asked, NEW q, NEW b, ReviewFits(r, y, asked, q, b), NEW e, NEW p,
         p.log = Append(r.log, e), p.request = r.request, e.kind # "checkpoint_created",
         p.edits \in {NoEdits, r.edits} \/ e = Edited(p.edits),
         \/ e.kind = "intervention_edited" /\ p.decision = r.decision
         \/ /\ r.request # NoRequest
            /\ \E v \in Verdicts : /\ e = Recorded(r.request, v)
                                    /\ p.decision = [request |-> r.request, verdict |-> v]
  PROVE  ReviewFits(p, y, asked, q, b)
<1>1. IsSeq(r.log)
  BY DEF ReviewFits
<1>2. /\ IsSeq(p.log) /\ ToSet(p.log) = ToSet(r.log) \cup {e}
      /\ After(b, p.log) \subseteq After(b, r.log) \cup {e}
  BY <1>1, LogGrows
<1>3. Created(q.id) # e
  BY DEF Created
<1>4. asked /\ Created(q.id) \in After(b, p.log) => y = q.summary \/ Edited(y) \in ToSet(p.log)
  BY <1>2, <1>3 DEF ReviewFits
<1>5. p.edits # NoEdits => Edited(p.edits) \in ToSet(p.log)
  BY <1>2 DEF ReviewFits
<1>6. CASE e.kind = "intervention_edited" /\ p.decision = r.decision
  <2>1. p.decision # NoDecision =>
          /\ \E v \in Verdicts : p.decision = [request |-> p.request, verdict |-> v]
          /\ IsLastWord(p.decision, p.log)
    BY <1>1, <1>6, WordStands DEF ReviewFits
  <2> QED
    BY <1>2, <1>4, <1>5, <1>6, <2>1 DEF ReviewFits
<1>7. ASSUME r.request # NoRequest, NEW v \in Verdicts, e = Recorded(r.request, v),
             p.decision = [request |-> r.request, verdict |-> v]
      PROVE  ReviewFits(p, y, asked, q, b)
  <2>1. p.decision.request = r.request /\ p.decision.verdict = v
    BY <1>7
  <2>2. IsLastWord(p.decision, p.log)
    BY <1>1, <1>7, <2>1, WordStands
  <2> QED
    BY <1>2, <1>4, <1>5, <1>7, <2>2 DEF ReviewFits
<1> QED
  BY <1>6, <1>7

\* A key that is none of the review's is written.
LEMMA OtherKey ==
  ASSUME NEW s, IsState(s), NEW b, ReviewIsOf(s, b), NEW t, NEW key, NEW value, t = Put(s, key, value),
         key \notin {"review", "approval_request", "change_summary", "change_risk_level"}
  PROVE  /\ IsState(t) /\ Review(t) = Review(s) /\ ReviewIsOf(t, b)
         /\ t.ctx["change_risk_level"] = s.ctx["change_risk_level"]
<1>1. /\ IsState(t) /\ DOMAIN t.ctx = DOMAIN s.ctx \cup {key}
      /\ \A k \in DOMAIN s.ctx \ {key} : t.ctx[k] = s.ctx[k]
  BY PutIs
<1>2. Review(t) = Review(s) /\ Has(t, "approval_request") = Has(s, "approval_request")
  BY <1>1 DEF Review, GetOr, Has
<1>3. Has(s, "approval_request") => t.ctx["approval_request"] = s.ctx["approval_request"]
  BY <1>1 DEF Has
<1>4. t.ctx["change_risk_level"] = s.ctx["change_risk_level"]
      /\ t.ctx["change_summary"] = s.ctx["change_summary"]
  BY <1>1 DEF ReviewIsOf
<1> QED
  BY <1>1, <1>2, <1>3, <1>4 DEF ReviewIsOf, ReviewFits

\* A review takes the place of the one before, the summary and the request stay.
LEMMA ReviewChanges ==
  ASSUME NEW s, IsState(s), NEW b, ReviewIsOf(s, b), NEW r, NEW t, t = WithReview(s, r),
         ReviewFits(r, s.ctx["change_summary"], Has(s, "approval_request"),
                    s.ctx["approval_request"], b)
  PROVE  /\ IsState(t) /\ Review(t) = r /\ ReviewIsOf(t, b)
         /\ t.ctx["change_risk_level"] = s.ctx["change_risk_level"]
<1>1. /\ IsState(t) /\ Review(t) = r /\ DOMAIN t.ctx = DOMAIN s.ctx \cup {"review"}
      /\ \A k \in DOMAIN s.ctx \ {"review"} : t.ctx[k] = s.ctx[k]
  BY WithReviewIs
<1>2. Has(t, "approval_request") = Has(s, "approval_request")
      /\ (Has(s, "approval_request") => t.ctx["approval_request"] = s.ctx["approval_request"])
  BY <1>1 DEF Has
<1>3. t.ctx["change_risk_level"] = s.ctx["change_risk_level"]
      /\ t.ctx["change_summary"] = s.ctx["change_summary"]
  BY <1>1 DEF ReviewIsOf
<1> QED
  BY <1>1, <1>2, <1>3 DEF ReviewIsOf, ReviewFits

\* The edits become the summary.
LEMMA PatchedIs ==
  ASSUME NEW s, IsState(s), NEW b, ReviewIsOf(s, b), NEW t, t = Patched(s)
  PROVE  /\ IsState(t) /\ Review(t) = Review(s) /\ ReviewIsOf(t, b)
         /\ t.ctx["change_risk_level"] = s.ctx["change_risk_level"]
<1>1. CASE Review(s).edits = NoEdits
  BY <1>1 DEF Patched
<1>2. CASE Review(s).edits # NoEdits
  <2>1. /\ IsState(t) /\ DOMAIN t.ctx = DOMAIN s.ctx \cup {"change_summary"}
        /\ t.ctx["change_summary"] = Review(s).edits
        /\ \A k \in DOMAIN s.ctx \ {"change_summary"} : t.ctx[k] = s.ctx[k]
    BY <1>2, PutIs DEF Patched
  <2>2. Review(t) = Review(s) /\ Has(t, "approval_request") = Has(s, "approval_request")
        /\ (Has(s, "approval_request") => t.ctx["approval_request"] = s.ctx["approval_request"])
    BY <2>1 DEF Review, GetOr, Has
  <2>3. Edited(Review(s).edits) \in ToSet(Review(s).log)
    BY <1>2 DEF ReviewIsOf, ReviewFits
  <2>4. t.ctx["change_risk_level"] = s.ctx["change_risk_level"]
    BY <2>1 DEF ReviewIsOf
  <2> QED
    BY <2>1, <2>2, <2>3, <2>4 DEF ReviewIsOf, ReviewFits
<1> QED
  BY <1>1, <1>2

\* A new request asks about the summary there is, with no decision yet.
LEMMA Asked ==
  ASSUME NEW s, IsState(s), NEW b, ReviewIsOf(s, b), NEW r, NEW risk, NEW q, q = Request(s, risk),
         r.request = q.id, r.decision = NoDecision, r.edits = Review(s).edits, NEW e,
         r.log = Append(Review(s).log, e),
         NEW t, t = Put(WithReview(s, r), "approval_request", q)
  PROVE  /\ IsState(t) /\ Review(t) = r /\ ReviewIsOf(t, b)
         /\ t.ctx["change_risk_level"] = s.ctx["change_risk_level"]
<1>1. PICK u : u = WithReview(s, r)
  OBVIOUS
<1>2. /\ IsState(u) /\ Review(u) = r /\ DOMAIN u.ctx = DOMAIN s.ctx \cup {"review"}
      /\ \A k \in DOMAIN s.ctx \ {"review"} : u.ctx[k] = s.ctx[k]
  BY <1>1, WithReviewIs
<1>3. /\ IsState(t) /\ DOMAIN t.ctx = DOMAIN u.ctx \cup {"approval_request"}
      /\ t.ctx["approval_request"] = q
      /\ \A k \in DOMAIN u.ctx \ {"approval_request"} : t.ctx[k] = u.ctx[k]
  BY <1>1, <1>2, PutIs
<1>4. Review(t) = r /\ Has(t, "approval_request")
  BY <1>2, <1>3 DEF Review, GetOr, Has
<1>5. t.ctx["change_risk_level"] = s.ctx["change_risk_level"]
      /\ t.ctx["change_summary"] = s.ctx["change_summary"]
  BY <1>2, <1>3 DEF ReviewIsOf
<1>6. q.summary = s.ctx["change_summary"]
  BY DEF Request, Get, Has, ReviewIsOf
<1>7. IsSeq(Review(s).log)
  BY DEF ReviewIsOf, ReviewFits
<1>8. IsSeq(r.log) /\ ToSet(Review(s).log) \subseteq ToSet(r.log)
  <2>1. PICK events : events = Review(s).log
    OBVIOUS
  <2>2. IsSeq(Append(events, e)) /\ ToSet(Append(events, e)) = ToSet(events) \cup {e}
    BY <1>7, <2>1, LogGrows
  <2>3. r.log = Append(events, e)
    BY <2>1
  <2> QED
    BY <2>1, <2>2, <2>3
<1>9. r.edits # NoEdits => Edited(r.edits) \in ToSet(r.log)
  BY <1>8 DEF ReviewIsOf, ReviewFits
<1>10. ReviewFits(r, t.ctx["change_summary"], TRUE, t.ctx["approval_request"], b)
  BY <1>3, <1>5, <1>6, <1>8, <1>9 DEF ReviewFits
<1>11. Has(t, "approval_request") = TRUE
  BY <1>4 DEF Has
<1> QED
  BY <1>2, <1>3, <1>4, <1>5, <1>10, <1>11 DEF ReviewIsOf

\* A checkpoint stops with no decision: what it asks is about the summary there is.
LEMMA StopIs ==
  ASSUME NEW s, IsState(s), IsReview(Review(s)), NEW b, ReviewIsOf(s, b),
         Review(s).decision = NoDecision, NEW risk, NEW t, t = Stop(s, risk)
  PROVE  IsState(t) /\ IsReview(Review(t)) /\ ReviewIsOf(t, b)
<1>1. PICK q : q = Request(s, risk)
  OBVIOUS
<1>2. PICK r : r = [Review(s) EXCEPT !.log = Append(@, Created(q.id)), !.request = q.id,
                                     !.paused = TRUE]
  OBVIOUS
<1>3. /\ IsReview(r) /\ r.request = q.id /\ r.decision = Review(s).decision
      /\ r.edits = Review(s).edits /\ r.log = Append(Review(s).log, Created(q.id))
  BY <1>2 DEF IsReview
<1>5. t = Put(WithReview(s, r), "approval_request", q)
  BY <1>1, <1>2 DEF Stop
<1>6. IsState(t) /\ Review(t) = r /\ ReviewIsOf(t, b)
  BY <1>1, <1>3, <1>5, Asked
<1> QED
  BY <1>3, <1>6

LEMMA UnpausedIs ==
  ASSUME NEW s, IsState(s), IsReview(Review(s)), NEW b, ReviewIsOf(s, b), NEW t, t = Unpaused(s)
  PROVE  /\ IsState(t) /\ IsReview(Review(t)) /\ ReviewIsOf(t, b)
         /\ Review(t).decision = Review(s).decision
         /\ t.ctx["change_risk_level"] = s.ctx["change_risk_level"]
<1>1. PICK r : r = [Review(s) EXCEPT !.paused = FALSE]
  OBVIOUS
<1>2. /\ IsReview(r) /\ r.request = Review(s).request /\ r.decision = Review(s).decision
      /\ r.edits = Review(s).edits /\ r.log = Review(s).log
  BY <1>1 DEF IsReview
<1>3. ReviewFits(r, s.ctx["change_summary"], Has(s, "approval_request"),
                 s.ctx["approval_request"], b)
  BY <1>2 DEF ReviewIsOf, ReviewFits
<1>4. t = WithReview(s, r)
  BY <1>1 DEF Unpaused
<1> QED
  BY <1>2, <1>3, <1>4, ReviewChanges

\* The queued edits are taken over, and stay queued.
LEMMA EditsApplied ==
  ASSUME NEW s, IsState(s), IsReview(Review(s)), NEW b, ReviewIsOf(s, b),
         NEW t, t = WithReview(Patched(s), ApplyEdits(Review(s)))
  PROVE  IsState(t) /\ IsReview(Review(t)) /\ ReviewIsOf(t, b)
<1>1. PICK u : u = Patched(s)
  OBVIOUS
<1>2. IsState(u) /\ Review(u) = Review(s) /\ ReviewIsOf(u, b)
  BY <1>1, PatchedIs
<1>3. PICK r : r = ApplyEdits(Review(s))
  OBVIOUS
<1>4. PICK p : p = [Review(s) EXCEPT !.patched = Review(s).edits]
  OBVIOUS
<1>5. /\ IsReview(p) /\ p.request = Review(s).request /\ p.decision = Review(s).decision
      /\ p.edits = Review(s).edits /\ p.log = Review(s).log
  BY <1>4 DEF IsReview
<1>6. r = Review(s) \/ r = p
  BY <1>3, <1>4 DEF ApplyEdits
<1>7. /\ IsReview(r) /\ r.request = Review(u).request /\ r.decision = Review(u).decision
      /\ r.edits = Review(u).edits /\ r.log = Review(u).log
  BY <1>2, <1>5, <1>6
<1>8. ReviewFits(r, u.ctx["change_summary"], Has(u, "approval_request"),
                 u.ctx["approval_request"], b)
  BY <1>2, <1>7 DEF ReviewIsOf, ReviewFits
<1>9. t = WithReview(u, r)
  BY <1>1, <1>3
<1> QED
  BY <1>2, <1>7, <1>8, <1>9, ReviewChanges

\* Only a low risk is allowed without asking.
LEMMA RisksAsked ==
  ASSUME NEW matrix \in {DefaultMatrix, DenyHigh}, NEW risk \in {"low", "medium", "high"},
         matrix[risk] = "allow"
  PROVE  risk = "low"
BY DEF DefaultMatrix, DenyHigh

LEMMA CheckpointKeeps ==
  ASSUME NEW matrix \in {DefaultMatrix, DenyHigh}, NEW s, IsState(s), IsReview(Review(s)),
         NEW b, ReviewIsOf(s, b), NEW r \in ApprovalCheckpointNode(s, matrix)
  PROVE  /\ IsState(r.s) /\ IsReview(Review(r.s)) /\ ReviewIsOf(r.s, b)
         /\ r.out.kind = "transition" /\ (r.out.key = "approved" => LetThrough(r.s))
<1> DEFINE decision == Review(s).decision
           risk == GetOr(s, "change_risk_level", "medium")
<1>1. risk = s.ctx["change_risk_level"] /\ risk \in {"low", "medium", "high"}
  BY DEF GetOr, Has, ReviewIsOf
<1>2. CASE decision # NoDecision
  <2>1. r = Result(Unpaused(s), Transition(decision.verdict))
    BY <1>2 DEF ApprovalCheckpointNode
  <2>2. r.s = Unpaused(s) /\ r.out.kind = "transition" /\ r.out.key = decision.verdict
    BY <2>1 DEF Result, Transition
  <2>3. /\ IsState(r.s) /\ IsReview(Review(r.s)) /\ ReviewIsOf(r.s, b)
        /\ Review(r.s).decision = decision
    BY <2>2, UnpausedIs
  <2> QED
    BY <1>2, <2>2, <2>3 DEF LetThrough
<1>3. CASE decision = NoDecision /\ matrix[risk] = "allow"
  <2>1. r = Result(s, Transition("approved"))
    BY <1>3 DEF ApprovalCheckpointNode
  <2>2. r.s = s /\ r.out.kind = "transition"
    BY <2>1 DEF Result, Transition
  <2>3. risk = "low"
    BY <1>1, <1>3, RisksAsked
  <2> QED
    BY <1>1, <1>3, <2>2, <2>3 DEF LetThrough
<1>4. CASE decision = NoDecision /\ matrix[risk] = "deny"
  <2>1. r = Result(Stop(s, risk), Transition("denied"))
    BY <1>4 DEF ApprovalCheckpointNode
  <2>2. r.s = Stop(s, risk) /\ r.out.kind = "transition" /\ r.out.key = "denied"
    BY <2>1 DEF Result, Transition
  <2>3. IsState(r.s) /\ IsReview(Review(r.s)) /\ ReviewIsOf(r.s, b)
    BY <1>4, <2>2, StopIs
  <2> QED
    BY <2>2, <2>3
<1>5. CASE decision = NoDecision /\ matrix[risk] \notin {"allow", "deny"}
  <2>1. r = Result(Put(Stop(s, risk), "explanation", Explanation(s, risk)),
                   Transition("awaiting_approval"))
    BY <1>5 DEF ApprovalCheckpointNode
  <2>2. PICK u : u = Stop(s, risk)
    OBVIOUS
  <2>3. PICK v : v = Explanation(s, risk)
    OBVIOUS
  <2>4. r.s = Put(u, "explanation", v) /\ r.out.kind = "transition" /\ r.out.key = "awaiting_approval"
    BY <2>1, <2>2, <2>3 DEF Result, Transition
  <2>5. IsState(u) /\ IsReview(Review(u)) /\ ReviewIsOf(u, b)
    BY <1>5, <2>2, StopIs
  <2>6. IsState(r.s) /\ Review(r.s) = Review(u) /\ ReviewIsOf(r.s, b)
    BY <2>4, <2>5, OtherKey
  <2> QED
    BY <2>4, <2>5, <2>6
<1> QED
  BY <1>2, <1>3, <1>4, <1>5

\* The approval of the node answers the request of the review.
LEMMA GrantKeeps ==
  ASSUME NEW s, IsState(s), IsReview(Review(s)), NEW b, ReviewIsOf(s, b),
         NEW r \in GrantApprovalNode(s), r.ok
  PROVE  IsState(r.s) /\ IsReview(Review(r.s)) /\ ReviewIsOf(r.s, b) /\ r.out = Cont
<1>1. PICK review : review = Review(s)
  OBVIOUS
<1>2. PICK d : d = [request |-> review.request, verdict |-> "approved"]
  OBVIOUS
<1>3. PICK p : p = [review EXCEPT !.log = Append(@, Recorded(review.request, "approved")),
                                  !.decision = d, !.paused = FALSE]
  OBVIOUS
<1>4. /\ IsReview(p) /\ p.request = review.request /\ p.decision = d /\ p.edits = review.edits
      /\ p.log = Append(review.log, Recorded(review.request, "approved"))
  BY <1>1, <1>3 DEF IsReview
<1>5. MayDecide(review) /\ r = Result(WithReview(s, p), Cont)
  BY <1>1, <1>2, <1>3 DEF GrantApprovalNode, Failure
<1>6. r.s = WithReview(s, p) /\ r.out = Cont /\ review.request # NoRequest
  BY <1>5 DEF Result, MayDecide
<1>7. ReviewFits(p, s.ctx["change_summary"], Has(s, "approval_request"),
                 s.ctx["approval_request"], b)
  <2>1. PICK e : e = Recorded(review.request, "approved")
    OBVIOUS
  <2>2. e.kind = "decision_recorded" /\ "approved" \in Verdicts
    BY <2>1 DEF Recorded, Verdicts
  <2>3. ReviewFits(review, s.ctx["change_summary"], Has(s, "approval_request"),
                   s.ctx["approval_request"], b)
    BY <1>1 DEF ReviewIsOf
  <2>4. \E v \in Verdicts : /\ e = Recorded(review.request, v)
                            /\ p.decision = [request |-> review.request, verdict |-> v]
    BY <1>2, <1>4, <2>1, <2>2
  <2> QED
    BY <1>4, <1>6, <2>1, <2>2, <2>3, <2>4, FitsMore
<1> QED
  BY <1>4, <1>6, <1>7, ReviewChanges

LEMMA HitlStart ==
  ASSUME flow \in {"hitl", "operator"}, NEW s, HitlGood(END, s, change, before), change > 0
  PROVE  HitlGood("checkpoint", Attach(s), change, before)
<1>1. PICK t : t = Put(s, "run_id", "run")
  OBVIOUS
<1>2. change # 0 /\ IsState(s) /\ IsReview(Review(s)) /\ ReviewIsOf(s, before)
  BY DEF HitlGood
<1>3. IsState(t) /\ Review(t) = Review(s) /\ ReviewIsOf(t, before)
  BY <1>1, <1>2, OtherKey
<1>4. HitlGood("checkpoint", t, change, before)
  BY <1>2, <1>3 DEF HitlGood
<1> QED
  BY <1>1, <1>4 DEF Attach

LEMMA HitlStep ==
  ASSUME flow \in {"hitl", "operator"}, NEW n \in Graph(flow).nodes, NEW s, HitlGood(n, s, change, before),
         NEW r \in Execute(flow, n, s), r.ok, NEW next \in R!ResolveNext(r.s, n, r.out)
  PROVE  HitlGood(next, r.s, change, before)
<1>1. PICK matrix \in {DefaultMatrix, DenyHigh} : r \in HitlNode(n, s, matrix)
  BY FlowTable
<1>2. n # END
  BY NamesAreApart DEF FlowNames
<1>3. change # 0 /\ IsState(s) /\ IsReview(Review(s)) /\ ReviewIsOf(s, before)
  BY <1>2 DEF HitlGood
<1>4. /\ IsState(r.s) /\ IsReview(Review(r.s)) /\ ReviewIsOf(r.s, before)
      /\ r.out.kind = "transition"
      /\ n = "checkpoint" /\ r.out.key = "approved" => LetThrough(r.s)
  <2>1. CASE n = "checkpoint"
    <3>1. r \in ApprovalCheckpointNode(s, matrix)
      BY <1>1, <2>1 DEF HitlNode
    <3> QED
      BY <1>3, <3>1, CheckpointKeeps
  <2>2. CASE n = "apply_edits"
    <3>1. r = Result(WithReview(Patched(s), ApplyEdits(Review(s))), Cont)
      BY <1>1, <2>2 DEF HitlNode, EditInterventionNode
    <3>2. r.s = WithReview(Patched(s), ApplyEdits(Review(s))) /\ r.out.kind = "transition"
      BY <3>1 DEF Result, Cont
    <3> QED
      BY <1>3, <2>2, <3>2, EditsApplied
  <2>3. CASE n = "grant"
    <3>1. r \in GrantApprovalNode(s)
      BY <1>1, <2>3 DEF HitlNode
    <3>2. IsState(r.s) /\ IsReview(Review(r.s)) /\ ReviewIsOf(r.s, before) /\ r.out = Cont
      BY <1>3, <3>1, GrantKeeps
    <3> QED
      BY <2>3, <3>2 DEF Cont
  <2>4. CASE n \notin {"checkpoint", "apply_edits", "grant"}
    <3>1. r = Result(Put(s, "echo", n), Cont)
      BY <1>1, <2>4 DEF HitlNode, EchoNode
    <3>2. r.s = Put(s, "echo", n) /\ r.out.kind = "transition"
      BY <3>1 DEF Result, Cont
    <3>3. IsState(r.s) /\ Review(r.s) = Review(s) /\ ReviewIsOf(r.s, before)
      BY <1>3, <3>2, OtherKey
    <3> QED
      BY <1>3, <2>4, <3>2, <3>3
  <2> QED
    BY <2>1, <2>2, <2>3, <2>4
<1>5. next = "ship" => n = "checkpoint" /\ r.out.key = "approved"
  BY <1>4, HitlLeads
<1> QED
  BY <1>3, <1>4, <1>5 DEF HitlGood

\* The operator's step: what is kept still is about the change put up.
LEMMA PauseKeeps ==
  ASSUME NEW s, IsState(s), IsReview(Review(s)), NEW b, ReviewIsOf(s, b), NEW risk,
         NEW t, t = ControllerPause(s, risk)
  PROVE  IsState(t) /\ IsReview(Review(t)) /\ ReviewIsOf(t, b)
<1>1. PICK q : q = Request(s, risk)
  OBVIOUS
<1>2. PICK r : r = Pause(Review(s), q.id)
  OBVIOUS
<1>3. /\ IsReview(r) /\ r.request = q.id /\ r.decision = NoDecision /\ r.edits = Review(s).edits
      /\ r.log = Append(Review(s).log, Created(q.id))
  BY <1>2 DEF Pause, IsReview
<1>5. t = Put(WithReview(s, r), "approval_request", q)
  BY <1>1, <1>2 DEF ControllerPause
<1>6. IsState(t) /\ Review(t) = r /\ ReviewIsOf(t, b)
  BY <1>1, <1>3, <1>5, Asked
<1> QED
  BY <1>3, <1>6

LEMMA EditKeeps ==
  ASSUME NEW s, IsState(s), IsReview(Review(s)), NEW b, ReviewIsOf(s, b), NEW x,
         NEW t, t = ControllerEdit(s, x)
  PROVE  IsState(t) /\ IsReview(Review(t)) /\ ReviewIsOf(t, b)
<1>1. PICK r : r = QueueEdits(Review(s), x)
  OBVIOUS
<1>2. PICK e : e = Edited(x)
  OBVIOUS
<1>3. /\ IsReview(r) /\ r.request = Review(s).request /\ r.decision = Review(s).decision
      /\ r.edits = x /\ r.log = Append(Review(s).log, e)
  BY <1>1, <1>2 DEF QueueEdits, IsReview
<1>4. e.kind = "intervention_edited" /\ e.kind # "checkpoint_created"
  BY <1>2 DEF Edited
<1>5. ReviewFits(r, s.ctx["change_summary"], Has(s, "approval_request"),
                 s.ctx["approval_request"], b)
  <2>1. ReviewFits(Review(s), s.ctx["change_summary"], Has(s, "approval_request"),
                   s.ctx["approval_request"], b)
    BY DEF ReviewIsOf
  <2> QED
    BY <1>2, <1>3, <1>4, <2>1, FitsMore
<1>6. t = WithReview(s, r)
  BY <1>1 DEF ControllerEdit
<1> QED
  BY <1>3, <1>5, <1>6, ReviewChanges

LEMMA DecideKeeps ==
  ASSUME NEW s, IsState(s), IsReview(Review(s)), NEW b, ReviewIsOf(s, b), MayDecide(Review(s)),
         NEW verdict \in Verdicts, NEW t, t = ControllerDecide(s, verdict)
  PROVE  IsState(t) /\ IsReview(Review(t)) /\ ReviewIsOf(t, b)
<1>1. PICK u : u = IF verdict = "approved" THEN Patched(s) ELSE s
  OBVIOUS
<1>2. IsState(u) /\ Review(u) = Review(s) /\ ReviewIsOf(u, b)
  BY <1>1, PatchedIs
<1>3. PICK seen : seen = IF verdict = "approved" THEN ApplyEdits(Review(s)) ELSE Review(s)
  OBVIOUS
<1>4. PICK p : p = [Review(s) EXCEPT !.patched = Review(s).edits]
  OBVIOUS
<1>5. seen = Review(s) \/ seen = p
  BY <1>3, <1>4 DEF ApplyEdits
<1>6. IsReview(p) /\ p.request = Review(s).request /\ p.log = Review(s).log
  BY <1>4 DEF IsReview
<1>7. IsReview(seen) /\ seen.request = Review(s).request /\ seen.log = Review(s).log
  BY <1>5, <1>6
<1>8. PICK d : d = [request |-> Review(s).request, verdict |-> verdict]
  OBVIOUS
<1>9. PICK r : r = [seen EXCEPT !.log = Append(@, Recorded(Review(s).request, verdict)),
                                !.decision = d, !.paused = FALSE, !.edits = NoEdits]
  OBVIOUS
<1>10. /\ IsReview(r) /\ r.request = Review(u).request /\ r.decision = d /\ r.edits = NoEdits
       /\ r.log = Append(Review(u).log, Recorded(Review(u).request, verdict))
  BY <1>2, <1>7, <1>9 DEF IsReview
<1>11. r = Decide(Review(s), verdict)
  BY <1>3, <1>8, <1>9 DEF Decide
<1>12. ReviewFits(r, u.ctx["change_summary"], Has(u, "approval_request"),
                  u.ctx["approval_request"], b)
  <2>1. PICK e : e = Recorded(Review(u).request, verdict)
    OBVIOUS
  <2>2. e.kind = "decision_recorded"
    BY <2>1 DEF Recorded
  <2>3. Review(u).request # NoRequest
    BY <1>2 DEF MayDecide
  <2>4. ReviewFits(Review(u), u.ctx["change_summary"], Has(u, "approval_request"),
                   u.ctx["approval_request"], b)
    BY <1>2 DEF ReviewIsOf
  <2>5. \E v \in Verdicts : /\ e = Recorded(Review(u).request, v)
                            /\ r.decision = [request |-> Review(u).request, verdict |-> v]
    BY <1>2, <1>8, <1>10, <2>1
  <2> QED
    BY <1>10, <2>1, <2>2, <2>3, <2>4, <2>5, FitsMore
<1>13. t = WithReview(u, r)
  BY <1>1, <1>11 DEF ControllerDecide
<1> QED
  BY <1>2, <1>10, <1>12, <1>13, ReviewChanges

LEMMA ResumeKeeps ==
  ASSUME NEW s, IsState(s), IsReview(Review(s)), NEW b, ReviewIsOf(s, b),
         NEW t, t = ControllerResume(s)
  PROVE  IsState(t) /\ IsReview(Review(t)) /\ ReviewIsOf(t, b)
<1>1. PICK u : u = WithReview(Patched(s), ApplyEdits(Review(s)))
  OBVIOUS
<1>2. IsState(u) /\ IsReview(Review(u)) /\ ReviewIsOf(u, b)
  BY <1>1, EditsApplied
<1>3. t = Unpaused(u)
  BY <1>1 DEF ControllerResume
<1> QED
  BY <1>2, <1>3, UnpausedIs

LEMMA HitlOperates ==
  ASSUME flow \in {"hitl", "operator"}, HitlGood(END, kept, change, before), change \in Nat, Operate
  PROVE  HitlGood(END, kept, change, before)'
<1>1. flow' = flow /\ change' = change /\ before' = before /\ change # 0
  BY DEF Operate, Keep
<1>3. IsState(kept) /\ IsReview(Review(kept)) /\ ReviewIsOf(kept, before)
  BY <1>1 DEF HitlGood
<1>4. IsState(kept') /\ IsReview(Review(kept')) /\ ReviewIsOf(kept', before)
  <2>1. CASE kept' = ControllerPause(kept, Get(kept, "change_risk_level"))
    BY <1>3, <2>1, PauseKeeps
  <2>2. CASE kept' = ControllerEdit(kept, Edits[change])
    BY <1>3, <2>2, EditKeeps
  <2>3. CASE MayDecide(Review(kept)) /\ \E verdict \in Verdicts : kept' = ControllerDecide(kept, verdict)
    BY <1>3, <2>3, DecideKeeps
  <2>4. CASE kept' = ControllerResume(kept)
    BY <1>3, <2>4, ResumeKeeps
  <2> QED
    BY <2>1, <2>2, <2>3, <2>4 DEF Operate, Keep
<1>5. HitlGood(END, kept', change, before)
  <2>1. "ship" # END
    BY NamesAreApart DEF FlowNames, Graph, GraphAt, HitlGraph, CompiledGraph
  <2> QED
    BY <1>1, <1>4, <2>1 DEF HitlGood
<1> QED
  BY <1>1, <1>5

\* A new change is put up: nothing was asked about it yet.
LEMMA HitlChanges ==
  ASSUME flow \in {"hitl", "operator"}, HitlGood(END, kept, change, before), change \in Nat,
         NewChange
  PROVE  HitlGood(END, kept, change, before)' /\ change' \in Nat
<1>1. /\ change' = change + 1 /\ change' # 0 /\ change' \in Nat
      /\ before' = Len(Review(kept).log)
      /\ IsState(kept) /\ IsReview(Review(kept))
  BY DEF NewChange, HitlGood
<1>2. PICK risk \in {"low", "medium", "high"} :
        kept' = PutAll(kept, [change_summary |-> Summaries[change + 1], change_risk_level |-> risk])
  BY DEF NewChange, Keep
<1>3. PICK v : v = [change_summary |-> Summaries[change + 1], change_risk_level |-> risk]
  OBVIOUS
<1>4. /\ DOMAIN v = {"change_summary", "change_risk_level"}
      /\ v["change_risk_level"] = risk
  BY <1>3
<1>5. /\ IsState(kept') /\ DOMAIN kept'.ctx = DOMAIN kept.ctx \cup {"change_summary", "change_risk_level"}
      /\ kept'.ctx["change_risk_level"] = risk
      /\ \A k \in DOMAIN kept.ctx \ {"change_summary", "change_risk_level"} : kept'.ctx[k] = kept.ctx[k]
  BY <1>1, <1>2, <1>3, <1>4, PutAllIs
<1>6. Review(kept') = Review(kept)
  BY <1>5 DEF Review, GetOr, Has
<1>7. Has(kept', "approval_request") = Has(kept, "approval_request")
      /\ (Has(kept, "approval_request") =>
            kept'.ctx["approval_request"] = kept.ctx["approval_request"])
  BY <1>5 DEF Has
<1>8. IsSeq(Review(kept).log)
  <2>1. CASE change = 0
    <3>1. Review(kept).log = <<>> /\ <<>> \in Seq({})
      BY <2>1 DEF HitlGood, NoReview
    <3> QED
      BY <3>1 DEF IsSeq
  <2>2. CASE change # 0
    BY <2>2 DEF HitlGood, ReviewIsOf, ReviewFits
  <2> QED
    BY <2>1, <2>2
<1>9. After(before', Review(kept).log) = {}
  <2>1. \A k \in DOMAIN Review(kept).log : ~(k > Len(Review(kept).log))
    BY <1>8 DEF IsSeq
  <2> QED
    BY <1>1, <2>1 DEF After
<1>10. ReviewFits(Review(kept), kept'.ctx["change_summary"], Has(kept', "approval_request"),
                  kept'.ctx["approval_request"], before')
  <2>1. CASE change = 0
    <3>1. Review(kept) = NoReview /\ ~Has(kept, "approval_request")
      BY <2>1 DEF HitlGood
    <3>2. NoReview.edits = NoEdits /\ NoReview.request = NoRequest /\ NoReview.decision = NoDecision
      BY DEF NoReview
    <3> QED
      BY <1>7, <1>8, <3>1, <3>2 DEF ReviewFits
  <2>2. CASE change # 0
    <3>1. ReviewFits(Review(kept), kept.ctx["change_summary"], Has(kept, "approval_request"),
                     kept.ctx["approval_request"], before)
      BY <2>2 DEF HitlGood, ReviewIsOf
    <3> QED
      BY <1>7, <1>9, <3>1 DEF ReviewFits
  <2> QED
    BY <2>1, <2>2
<1>11. ReviewIsOf(kept', before')
  BY <1>5, <1>6, <1>10 DEF ReviewIsOf
<1>12. "ship" # END
  BY NamesAreApart DEF FlowNames, Graph, GraphAt, HitlGraph, CompiledGraph
<1> QED
  BY <1>1, <1>5, <1>6, <1>11, <1>12 DEF HitlGood
-----------------------------------------------------------------------------
(* release *)

LEMMA ReleaseLeads ==
  ASSUME flow = "release", NEW s, NEW n, NEW out, out.kind = "transition",
         NEW next \in R!ResolveNext(s, n, out)
  PROVE  /\ next = "released" => \/ n = "coordinate" /\ out.key = "complete"
                                 \/ n = "release_gate" /\ out.key = "release_approved"
         /\ next = "release_gate" => n = "aggregate_ci" /\ out.key = "ci_passed"
         /\ n = "coordinate" /\ out.key = "execute_change" => next = "complete_change"
<1> DEFINE edges == ReleaseGraph.edges
<1>1. EdgesAt(flow, s) = edges
  BY FlowTable
<1>2. edges =
    <<EdgeWithKey("coordinate", "complete_change", "execute_change"),
      EdgeWithKey("coordinate", "released", "complete"),
      EdgeWithKey("coordinate", "blocked", "blocked"), Edge("complete_change", "coordinate"),
      Edge("coordinate", "aggregate_ci"), EdgeWithKey("aggregate_ci", "release_gate", "ci_passed"),
      EdgeWithKey("aggregate_ci", "blocked", "ci_failed"),
      EdgeWithKey("release_gate", "released", "release_approved"),
      EdgeWithKey("release_gate", "blocked", "release_blocked"),
      Edge("released", END), Edge("blocked", END)>>
  BY DEF ReleaseGraph, CompiledGraph
<1>3. END # "released" /\ END # "release_gate"
  BY NamesAreApart DEF FlowNames, Graph, GraphAt, ReleaseGraph, CompiledGraph
<1>4. \A k \in DOMAIN edges : "released" \in edges[k].to => k = 2 \/ k = 8
  BY <1>2, <1>3, SMTT(60) DEF Edge, EdgeWithKey
<1>5. \A k \in DOMAIN edges : "release_gate" \in edges[k].to => k = 6
  BY <1>2, <1>3, SMTT(60) DEF Edge, EdgeWithKey
<1>6. \A k \in DOMAIN edges : edges[k].from = "coordinate" => k = 1 \/ k = 2 \/ k = 3 \/ k = 5
  BY <1>2, SMTT(60) DEF Edge, EdgeWithKey
<1>7. /\ 1 \in DOMAIN edges /\ edges[1].to = {"complete_change"} /\ edges[1].from = "coordinate"
      /\ edges[1].key = "execute_change"
      /\ edges[2].key = "complete" /\ edges[2].from = "coordinate"
      /\ edges[3].key = "blocked" /\ edges[5].key = NoKey
  BY <1>2 DEF Edge, EdgeWithKey
<1>8. /\ edges[6].key = "ci_passed" /\ edges[6].from = "aggregate_ci"
      /\ edges[8].key = "release_approved" /\ edges[8].from = "release_gate"
  BY <1>2 DEF EdgeWithKey
<1>9. \A k \in DOMAIN edges : k \in Nat /\ edges[k].to # {}
  BY EdgesLead
<1>10. \A x \in {"complete", "release_approved", "ci_passed", "execute_change"} :
         x # NoKey /\ x # CONTINUE
  BY KeysApart DEF RouteKeys
<1>11. \/ next = END /\ \A k \in DOMAIN edges : ~Serves(edges[k], n, out.key)
       \/ \E k \in DOMAIN edges : Serves(edges[k], n, out.key) /\ next \in edges[k].to
  BY <1>1, <1>9, Follow
<1> HIDE DEF edges
<1>12. next = "released" => \/ n = "coordinate" /\ out.key = "complete"
                            \/ n = "release_gate" /\ out.key = "release_approved"
  BY <1>3, <1>4, <1>7, <1>8, <1>10, <1>11 DEF Serves
<1>13. next = "release_gate" => n = "aggregate_ci" /\ out.key = "ci_passed"
  BY <1>3, <1>5, <1>8, <1>10, <1>11 DEF Serves
<1>14. n = "coordinate" /\ out.key = "execute_change" => next = "complete_change"
  BY <1>6, <1>7, <1>10, <1>11 DEF Serves
<1> QED
  BY <1>12, <1>13, <1>14

\* Blocking and marking keep the shape of a change graph.
LEMMA BlockingIs ==
  ASSUME NEW g, IsChangeGraph(g), NEW t, t = PropagateBlocks(g)
  PROVE  /\ IsChangeGraph(t) /\ DOMAIN t.changes = DOMAIN g.changes /\ t.objective = g.objective
         /\ \A c \in DOMAIN g.changes : t.changes[c].deps = g.changes[c].deps
<1> DEFINE blocked == AllBlocked(g)
<1>1. PICK h : h = [c \in DOMAIN g.changes |->
                      IF c \in blocked THEN [g.changes[c] EXCEPT !.status = "blocked"]
                      ELSE g.changes[c]]
  OBVIOUS
<1>2. t = [g EXCEPT !.changes = h]
  BY <1>1 DEF PropagateBlocks
<1>3. t.objective = g.objective /\ t.changes = h /\ t = [objective |-> t.objective, changes |-> t.changes]
  BY <1>2 DEF IsChangeGraph
<1>4. ASSUME NEW c \in DOMAIN g.changes
      PROVE  /\ h[c] = [repo |-> h[c].repo, status |-> h[c].status, deps |-> h[c].deps]
             /\ h[c].deps = g.changes[c].deps
  <2>1. g.changes[c] = [repo |-> g.changes[c].repo, status |-> g.changes[c].status,
                        deps |-> g.changes[c].deps]
    BY DEF IsChangeGraph
  <2>2. h[c] = g.changes[c] \/ h[c] = [g.changes[c] EXCEPT !.status = "blocked"]
    BY <1>1
  <2> QED
    BY <2>1, <2>2
<1>5. DOMAIN h = DOMAIN g.changes /\ h = [c \in DOMAIN h |-> h[c]] /\ DOMAIN h \subseteq Nat
  BY <1>1 DEF IsChangeGraph
<1> QED
  BY <1>3, <1>4, <1>5 DEF IsChangeGraph

LEMMA MarkIs ==
  ASSUME NEW g, IsChangeGraph(g), NEW c, NEW status, NEW t, t = MarkStatus(g, c, status)
  PROVE  /\ IsChangeGraph(t) /\ DOMAIN t.changes = DOMAIN g.changes /\ t.objective = g.objective
         /\ \A d \in DOMAIN g.changes : t.changes[d].deps = g.changes[d].deps
         /\ status # "ci_failed" =>
              \A d \in DOMAIN g.changes : d # c => t.changes[d].status = g.changes[d].status
<1>1. CASE c \notin DOMAIN g.changes
  BY <1>1 DEF MarkStatus
<1>2. CASE c \in DOMAIN g.changes
  <2>1. PICK m : m = [g EXCEPT !.changes[c].status = status]
    OBVIOUS
  <2>2. PICK v : v = [g.changes[c] EXCEPT !.status = status]
    OBVIOUS
  <2>3. PICK h : h = [g.changes EXCEPT ![c] = v]
    OBVIOUS
  <2>4. m = [g EXCEPT !.changes = h]
    BY <2>1, <2>2, <2>3
  <2>5. m.objective = g.objective /\ m.changes = h /\ m = [objective |-> m.objective, changes |-> m.changes]
    BY <2>4 DEF IsChangeGraph
  <2>6. /\ DOMAIN h = DOMAIN g.changes /\ h = [d \in DOMAIN h |-> h[d]] /\ DOMAIN h \subseteq Nat
        /\ h[c] = v /\ \A d \in DOMAIN g.changes : d # c => h[d] = g.changes[d]
    BY <1>2, <2>3 DEF IsChangeGraph
  <2>7. /\ v = [repo |-> v.repo, status |-> v.status, deps |-> v.deps]
        /\ v.deps = g.changes[c].deps
    <3>1. g.changes[c] = [repo |-> g.changes[c].repo, status |-> g.changes[c].status,
                          deps |-> g.changes[c].deps]
      BY <1>2 DEF IsChangeGraph
    <3> QED
      BY <2>2, <3>1
  <2>8. IsChangeGraph(m)
    BY <2>5, <2>6, <2>7 DEF IsChangeGraph
  <2>9. /\ DOMAIN m.changes = DOMAIN g.changes
        /\ \A d \in DOMAIN g.changes : m.changes[d].deps = g.changes[d].deps
        /\ \A d \in DOMAIN g.changes : d # c => m.changes[d].status = g.changes[d].status
    BY <2>5, <2>6, <2>7
  <2>10. IF status = "ci_failed" THEN t = PropagateBlocks(m) ELSE t = m
    BY <1>2, <2>1 DEF MarkStatus
  <2>11. CASE status = "ci_failed"
    <3>1. t = PropagateBlocks(m)
      BY <2>10, <2>11
    <3>2. /\ IsChangeGraph(t) /\ DOMAIN t.changes = DOMAIN m.changes /\ t.objective = m.objective
          /\ \A d \in DOMAIN m.changes : t.changes[d].deps = m.changes[d].deps
      BY <2>8, <3>1, BlockingIs
    <3> QED
      BY <2>5, <2>9, <2>11, <3>2
  <2>12. CASE status # "ci_failed"
    BY <2>5, <2>8, <2>9, <2>10, <2>12
  <2> QED
    BY <2>11, <2>12
<1> QED
  BY <1>1, <1>2

\* A ready change that is begun leaves what it depends on as it was.
LEMMA ReadyIs ==
  ASSUME NEW g, IsChangeGraph(g), ReadyChanges(g) # {}, NEW c, c = Min(ReadyChanges(g)),
         NEW t, t = MarkStatus(g, c, "in_progress")
  PROVE  IsChangeGraph(t) /\ t.changes[c].deps \subseteq StatusIn(t, Done)
<1>1. ReadyChanges(g) \subseteq DOMAIN g.changes /\ DOMAIN g.changes \subseteq Nat
  BY DEF ReadyChanges, StatusIn, IsChangeGraph
<1>2. c \in ReadyChanges(g)
  BY <1>1, MinIs
<1>3. /\ c \in DOMAIN g.changes /\ g.changes[c].status = "pending"
      /\ g.changes[c].deps \subseteq StatusIn(g, Done)
  BY <1>2 DEF ReadyChanges, StatusIn
<1>4. /\ IsChangeGraph(t) /\ DOMAIN t.changes = DOMAIN g.changes
      /\ \A d \in DOMAIN g.changes : t.changes[d].deps = g.changes[d].deps
      /\ \A d \in DOMAIN g.changes : d # c => t.changes[d].status = g.changes[d].status
  BY MarkIs
<1>5. c \notin StatusIn(g, Done)
  BY <1>3 DEF StatusIn, Done
<1>6. StatusIn(g, Done) \subseteq StatusIn(t, Done)
  BY <1>4, <1>5 DEF StatusIn
<1> QED
  BY <1>3, <1>4, <1>6

\* A report that passed has seen signals, none of them failing or running.
LEMMA ReportIs ==
  ASSUME NEW objective, NEW x, \A k \in DOMAIN x : x[k].conclusion \in Conclusions,
         Aggregate(objective, x).passed
  PROVE  GreenSignals(x)
<1>1. /\ ReposWith(x, "failure") = {} /\ x # <<>>
      /\ ReposWith(x, "pending") \ ReposWith(x, "failure") = {}
  BY DEF Aggregate
<1>2. ReposWith(x, "pending") = {}
  BY <1>1
<1>3. ASSUME NEW k \in DOMAIN x PROVE x[k].conclusion \in {"success", "skipped"}
  <2>1. x[k].conclusion # "failure"
    BY <1>1 DEF ReposWith
  <2>2. x[k].conclusion # "pending"
    BY <1>2 DEF ReposWith
  <2> QED
    BY <2>1, <2>2 DEF Conclusions
<1> QED
  BY <1>1, <1>3 DEF GreenSignals

\* A key that is none of the release's is written.
LEMMA ReleaseWrites ==
  ASSUME NEW s, NEW n, ReleaseGood(n, s), ~Has(s, "current_repo_change"), NEW key, NEW value,
         key \notin {"change_graph", "ci_signals", "current_repo_change"},
         NEW t, t = Put(s, key, value), NEW next, n # END \/ next = END \/ Has(s, "ci_signals"),
         next = "release_gate" =>
           /\ Has(s, "change_graph") /\ key = "ci_aggregate"
           /\ value.passed => GreenSignals(s.ctx["ci_signals"]) /\ Has(s, "ci_signals"),
         next = "released" =>
           /\ Has(s, "change_graph") /\ Has(s, "ci_signals")
           /\ StatusIn(s.ctx["change_graph"], Done) = DOMAIN s.ctx["change_graph"].changes
           /\ AllReleased(s.ctx["change_graph"]) \/ GreenSignals(s.ctx["ci_signals"])
  PROVE  ReleaseGood(next, t)
<1>1. IsState(s)
  BY DEF ReleaseGood
<1>2. /\ IsState(t) /\ DOMAIN t.ctx = DOMAIN s.ctx \cup {key} /\ t.ctx[key] = value
      /\ \A k \in DOMAIN s.ctx \ {key} : t.ctx[k] = s.ctx[k]
  BY <1>1, PutIs
<1>3. /\ Has(t, "change_graph") = Has(s, "change_graph")
      /\ Has(t, "ci_signals") = Has(s, "ci_signals") /\ ~Has(t, "current_repo_change")
      /\ Has(s, "change_graph") => t.ctx["change_graph"] = s.ctx["change_graph"]
      /\ Has(s, "ci_signals") => t.ctx["ci_signals"] = s.ctx["ci_signals"]
  BY <1>2 DEF Has
<1>4. next = "release_gate" =>
        /\ {"change_graph", "ci_aggregate"} \subseteq DOMAIN t.ctx
        /\ t.ctx["ci_aggregate"].passed => GreenSignals(t.ctx["ci_signals"])
  BY <1>2, <1>3 DEF Has
<1>5. Has(t, "change_graph") /\ next # END => Has(t, "ci_signals")
  BY <1>3 DEF ReleaseGood
<1>6. /\ Has(t, "change_graph") => IsChangeGraph(t.ctx["change_graph"])
      /\ Has(t, "ci_signals") =>
           \A k \in DOMAIN t.ctx["ci_signals"] : t.ctx["ci_signals"][k].conclusion \in Conclusions
  BY <1>3 DEF ReleaseGood
<1>7. next = "released" =>
        /\ Has(t, "change_graph")
        /\ StatusIn(t.ctx["change_graph"], Done) = DOMAIN t.ctx["change_graph"].changes
        /\ AllReleased(t.ctx["change_graph"]) \/ GreenSignals(t.ctx["ci_signals"])
  BY <1>3
<1> QED
  BY <1>2, <1>3, <1>4, <1>5, <1>6, <1>7 DEF ReleaseGood

LEMMA ReleaseEnds ==
  /\ flow = "release" => \A n \in {"coordinate", "complete_change", "release_gate", "released"} : n # END
BY NamesAreApart DEF FlowNames, Graph, GraphAt, ReleaseGraph, CompiledGraph

LEMMA ReleaseStart ==
  ASSUME flow = "release", NEW s, ReleaseGood(END, s), NEW u \in ReleaseInputs(s)
  PROVE  ReleaseGood("coordinate", Attach(u))
<1>1. "complete_change" # END /\ "coordinate" # END
  BY ReleaseEnds
<1>2. IsState(s) /\ ~Has(s, "current_repo_change")
  BY <1>1 DEF ReleaseGood
<1>3. ReleaseGood("coordinate", u) /\ ~Has(u, "current_repo_change")
  <2>1. CASE ~Has(s, "change_graph")
    <3>1. u = s
      BY <2>1 DEF ReleaseInputs
    <3> QED
      BY <1>2, <2>1, <3>1 DEF ReleaseGood
  <2>2. CASE Has(s, "change_graph")
    <3> DEFINE g == s.ctx["change_graph"]
    <3>11. PICK h \in Rollouts(s), x \in Signals : u = PutAll(s, [change_graph |-> h, ci_signals |-> x])
      BY <2>2 DEF ReleaseInputs
    <3>1. h = g \/ \E c, status : h = MarkStatus(g, c, status)
      BY DEF Rollouts
    <3>2. IsChangeGraph(g)
      BY <2>2 DEF ReleaseGood
    <3>3. IsChangeGraph(h)
      BY <3>1, <3>2, MarkIs
    <3>4. PICK v : v = [change_graph |-> h, ci_signals |-> x]
      OBVIOUS
    <3>5. DOMAIN v = {"change_graph", "ci_signals"} /\ v["change_graph"] = h /\ v["ci_signals"] = x
      BY <3>4
    <3>6. u = PutAll(s, v)
      BY <3>4, <3>11
    <3>7. /\ IsState(u) /\ DOMAIN u.ctx = DOMAIN s.ctx \cup {"change_graph", "ci_signals"}
          /\ u.ctx["change_graph"] = h /\ u.ctx["ci_signals"] = x
      BY <1>2, <3>5, <3>6, PutAllIs
    <3>8. \A k \in DOMAIN x : x[k].conclusion \in Conclusions
      <4>1. x = <<>> \/ x = <<Signal("b", "skipped")>>
            \/ \E a, b \in {"success", "failure", "pending"} : x = <<Signal("a", a), Signal("b", b)>>
        BY <3>1 DEF Signals
      <4>2. CASE x = <<>> \/ x = <<Signal("b", "skipped")>>
        BY <4>2 DEF Signal, Conclusions
      <4>3. CASE \E a, b \in {"success", "failure", "pending"} : x = <<Signal("a", a), Signal("b", b)>>
        BY <4>3 DEF Signal, Conclusions
      <4> QED
        BY <4>1, <4>2, <4>3
    <3>9. ~Has(u, "current_repo_change")
      BY <1>2, <3>7 DEF Has
    <3> QED
      BY <3>3, <3>7, <3>8, <3>9 DEF ReleaseGood, Has
  <2> QED
    BY <2>1, <2>2
<1>4. ReleaseGood("coordinate", Put(u, "run_id", "run"))
  BY <1>1, <1>3, ReleaseWrites
<1> QED
  BY <1>4 DEF Attach

LEMMA CoordinatorKeeps ==
  ASSUME flow = "release", NEW s, ReleaseGood("coordinate", s),
         NEW r \in MultiRepoCoordinatorNode(s), r.ok,
         NEW next \in R!ResolveNext(r.s, "coordinate", r.out)
  PROVE  ReleaseGood(next, r.s)
<1> DEFINE g == s.ctx["change_graph"]
           c == Min(ReadyChanges(g))
           h == MarkStatus(g, c, "in_progress")
           begun == PutAll(s, [change_graph |-> h, current_repo_change |-> c])
<1>1. "coordinate" # END
  BY ReleaseEnds
<1>2. /\ Has(s, "change_graph") /\ Has(s, "ci_signals") /\ IsState(s) /\ IsChangeGraph(g)
      /\ ~Has(s, "current_repo_change")
      /\ \A k \in DOMAIN s.ctx["ci_signals"] : s.ctx["ci_signals"][k].conclusion \in Conclusions
  <2>1. Has(s, "change_graph")
    BY DEF MultiRepoCoordinatorNode, Failure
  <2> QED
    BY <1>1, <2>1 DEF ReleaseGood
<1>3. /\ r.out.kind = "transition"
      /\ \/ AllReleased(g) /\ r.s = s /\ r.out.key = "complete"
         \/ r.s = s /\ r.out.key \in {"blocked", CONTINUE}
         \/ ReadyChanges(g) # {} /\ r.s = begun /\ r.out.key = "execute_change"
  <2> HIDE DEF begun
  <2>1. \/ AllReleased(g) /\ r = Result(s, Transition("complete"))
        \/ r = Result(s, Transition("blocked")) \/ r = Result(s, Cont)
        \/ ReadyChanges(g) # {} /\ r = Result(begun, Transition("execute_change"))
    BY <1>2 DEF MultiRepoCoordinatorNode, Failure, begun
  <2> HIDE DEF g
  <2> QED
    BY <2>1 DEF Result, Cont, Transition
<1>4. \A x \in {"complete", "blocked", "execute_change"} : x # CONTINUE
  BY KeysApart DEF RouteKeys
<1>5. CASE AllReleased(g) /\ r.s = s /\ r.out.key = "complete"
  <2>1. StatusIn(g, Done) = DOMAIN g.changes
    BY <1>5 DEF AllReleased, StatusIn, Done
  <2>2. next # "release_gate"
    BY <1>3, ReleaseLeads
  <2> QED
    BY <1>2, <1>5, <2>1, <2>2 DEF ReleaseGood
<1>6. CASE r.s = s /\ r.out.key \in {"blocked", CONTINUE}
  <2>1. next # "release_gate" /\ next # "released"
    BY <1>3, <1>4, <1>6, ReleaseLeads
  <2> QED
    BY <1>2, <1>6, <2>1 DEF ReleaseGood
<1>7. CASE ReadyChanges(g) # {} /\ r.s = begun /\ r.out.key = "execute_change"
  <2>1. next = "complete_change"
    BY <1>3, <1>7, ReleaseLeads
  <2> DEFINE t == r.s
  <2>2. PICK v : v = [change_graph |-> h, current_repo_change |-> c]
    OBVIOUS
  <2>3. /\ DOMAIN v = {"change_graph", "current_repo_change"} /\ v["change_graph"] = h
        /\ v["current_repo_change"] = c
    BY <2>2
  <2>4. t = PutAll(s, v)
    BY <1>7, <2>2
  <2>5. IsChangeGraph(h) /\ h.changes[c].deps \subseteq StatusIn(h, Done)
    BY <1>2, <1>7, ReadyIs
  <2> HIDE DEF t, h, c
  <2>6. /\ IsState(t) /\ DOMAIN t.ctx = DOMAIN s.ctx \cup {"change_graph", "current_repo_change"}
        /\ t.ctx["change_graph"] = h /\ t.ctx["current_repo_change"] = c
        /\ \A k \in DOMAIN s.ctx \ {"change_graph", "current_repo_change"} : t.ctx[k] = s.ctx[k]
    BY <1>2, <2>3, <2>4, PutAllIs
  <2>7. Has(t, "ci_signals") /\ t.ctx["ci_signals"] = s.ctx["ci_signals"]
    BY <1>2, <2>6 DEF Has
  <2>8. ReleaseGood("complete_change", t)
    BY <1>2, <2>5, <2>6, <2>7 DEF ReleaseGood, Has
  <2> QED
    BY <2>1, <2>8 DEF t
<1> QED
  BY <1>3, <1>5, <1>6, <1>7

LEMMA CompletionKeeps ==
  ASSUME flow = "release", NEW s, ReleaseGood("complete_change", s),
         NEW r \in CompleteRepoChangeNode(s), r.ok,
         NEW next \in R!ResolveNext(r.s, "complete_change", r.out)
  PROVE  ReleaseGood(next, r.s)
<1> DEFINE h == MarkStatus(s.ctx["change_graph"], s.ctx["current_repo_change"], "ci_passed")
<1>1. "complete_change" # END
  BY ReleaseEnds
<1>2. Has(s, "change_graph") /\ r = Result(Unset(Put(s, "change_graph", h), "current_repo_change"), Cont)
  BY DEF CompleteRepoChangeNode, Failure
<1>3. /\ Has(s, "ci_signals") /\ IsState(s) /\ IsChangeGraph(s.ctx["change_graph"])
      /\ \A k \in DOMAIN s.ctx["ci_signals"] : s.ctx["ci_signals"][k].conclusion \in Conclusions
  BY <1>1, <1>2 DEF ReleaseGood
<1>4. IsChangeGraph(h)
  BY <1>3, MarkIs
<1> HIDE DEF h
<1>5. PICK u : u = Put(s, "change_graph", h)
  OBVIOUS
<1>6. /\ IsState(u) /\ DOMAIN u.ctx = DOMAIN s.ctx \cup {"change_graph"} /\ u.ctx["change_graph"] = h
      /\ \A k \in DOMAIN s.ctx \ {"change_graph"} : u.ctx[k] = s.ctx[k]
  BY <1>3, <1>5, PutIs
<1>7. r.s = Unset(u, "current_repo_change") /\ r.out.kind = "transition"
  BY <1>2, <1>5 DEF Result, Cont
<1>8. /\ IsState(r.s) /\ DOMAIN r.s.ctx = DOMAIN u.ctx \ {"current_repo_change"}
      /\ \A k \in DOMAIN u.ctx \ {"current_repo_change"} : r.s.ctx[k] = u.ctx[k]
  BY <1>6, <1>7, UnsetIs
<1>9. /\ Has(r.s, "change_graph") /\ r.s.ctx["change_graph"] = h /\ ~Has(r.s, "current_repo_change")
      /\ Has(r.s, "ci_signals") /\ r.s.ctx["ci_signals"] = s.ctx["ci_signals"]
  BY <1>3, <1>6, <1>8 DEF Has
<1>10. next # "release_gate" /\ next # "released"
  BY <1>7, ReleaseLeads
<1> QED
  BY <1>3, <1>4, <1>8, <1>9, <1>10 DEF ReleaseGood

LEMMA ReleaseStep ==
  ASSUME flow = "release", NEW n \in Graph(flow).nodes, NEW s, ReleaseGood(n, s),
         NEW r \in Execute(flow, n, s), r.ok, NEW next \in R!ResolveNext(r.s, n, r.out)
  PROVE  ReleaseGood(next, r.s)
<1>1. r \in ReleaseNode(n, s)
  BY FlowTable
<1>2. n # END
  BY NamesAreApart DEF FlowNames
<1>3. CASE n = "coordinate"
  BY <1>1, <1>3, CoordinatorKeeps DEF ReleaseNode
<1>4. CASE n = "complete_change"
  BY <1>1, <1>4, CompletionKeeps DEF ReleaseNode
<1>5. CASE n = "aggregate_ci"
  <2>1. r \in CiAggregateNode(s)
    BY <1>1, <1>5 DEF ReleaseNode
  <2> DEFINE x == GetOr(s, "ci_signals", <<>>)
             report == Aggregate(s.ctx["change_graph"].objective, x)
             key == IF report.passed THEN "ci_passed" ELSE "ci_failed"
  <2>2. Has(s, "change_graph") /\ r = Result(Put(s, "ci_aggregate", report), Transition(key))
    BY <2>1 DEF CiAggregateNode, Failure
  <2>3. /\ ~Has(s, "current_repo_change") /\ Has(s, "ci_signals") /\ x = s.ctx["ci_signals"]
        /\ \A k \in DOMAIN x : x[k].conclusion \in Conclusions
    BY <1>2, <1>5, <2>2 DEF ReleaseGood, GetOr
  <2>4. report.passed => GreenSignals(x)
    BY <2>3, ReportIs
  <2> HIDE DEF report, x
  <2>5. r.s = Put(s, "ci_aggregate", report) /\ r.out.kind = "transition" /\ r.out.key = key
    BY <2>2 DEF Result, Transition
  <2>6. next # "released"
    BY <1>5, <2>5, ReleaseLeads
  <2> QED
    BY <1>2, <2>2, <2>3, <2>4, <2>5, <2>6, ReleaseWrites
<1>6. CASE n = "release_gate"
  <2>1. r \in ReleaseGateNode(s)
    BY <1>1, <1>6 DEF ReleaseNode
  <2> DEFINE g == s.ctx["change_graph"]
             report == s.ctx["ci_aggregate"]
             gate == EvaluateRelease(g, report)
             key == IF gate.released THEN "release_approved" ELSE "release_blocked"
  <2>2. Has(s, "change_graph") /\ r = Result(Put(s, "release_gate", gate), Transition(key))
    BY <2>1 DEF ReleaseGateNode, Failure
  <2>3. gate.released => report.passed /\ StatusIn(g, Done) = DOMAIN g.changes
    BY DEF EvaluateRelease, Blocked, Approved
  <2>4. /\ ~Has(s, "current_repo_change") /\ Has(s, "ci_signals")
        /\ report.passed => GreenSignals(s.ctx["ci_signals"])
    BY <1>2, <1>6, <2>2 DEF ReleaseGood
  <2> HIDE DEF gate, report
  <2>5. r.s = Put(s, "release_gate", gate) /\ r.out.kind = "transition" /\ r.out.key = key
    BY <2>2 DEF Result, Transition
  <2>6. next # "release_gate" /\ (next = "released" => gate.released)
    BY <1>6, <2>5, ReleaseLeads
  <2> QED
    BY <1>2, <2>2, <2>3, <2>4, <2>5, <2>6, ReleaseWrites
<1>7. CASE n \notin {"coordinate", "complete_change", "aggregate_ci", "release_gate"}
  <2>1. r = Result(Put(s, "echo", n), Cont)
    BY <1>1, <1>7 DEF ReleaseNode, EchoNode
  <2>2. r.s = Put(s, "echo", n) /\ r.out.kind = "transition"
    BY <2>1 DEF Result, Cont
  <2>3. ~Has(s, "current_repo_change")
    BY <1>7 DEF ReleaseGood
  <2>4. next # "release_gate" /\ next # "released"
    BY <1>7, <2>2, ReleaseLeads
  <2> QED
    BY <1>2, <2>2, <2>3, <2>4, ReleaseWrites
<1> QED
  BY <1>3, <1>4, <1>5, <1>6, <1>7
-----------------------------------------------------------------------------
(* tenant, enterprise *)

LEMMA TenantLeads ==
  ASSUME flow \in {"enterprise", "tenant"}, NEW s, NEW n, NEW out, out.kind = "transition",
         NEW next \in R!ResolveNext(s, n, out)
  PROVE  /\ next = "secret_scope" => n = "tenant_guard" /\ out.key = "allowed"
         /\ next = "budget_guard" => n = "secret_scope"
         /\ next = "slo_record" => n = "budget_guard" /\ out.key = "within_budget"
         /\ n = "budget_guard" /\ out.key = "within_budget" => next = "slo_record"
<1> DEFINE edges == EnterpriseGraph("tenant_guard").edges
<1>1. EdgesAt(flow, s) = edges
  BY FlowTable
<1>2. edges =
    <<Edge("enterprise_setup", "tenant_guard"), EdgeWithKey("tenant_guard", "secret_scope", "allowed"),
      EdgeWithKey("tenant_guard", "blocked", "denied"),
      EdgeWithKey("secret_scope", "budget_guard", "scoped"),
      EdgeWithKey("secret_scope", "blocked", "missing_scope"),
      EdgeWithKey("budget_guard", "slo_record", "within_budget"),
      EdgeWithKey("budget_guard", "blocked", "over_budget"), Edge("slo_record", "audit_export"),
      EdgeWithKey("audit_export", "complete", "exported"),
      EdgeWithKey("audit_export", "blocked", "failed_checks"), Edge("complete", END),
      Edge("blocked", END)>>
  BY DEF EnterpriseGraph, CompiledGraph
<1>3. END # "secret_scope" /\ END # "budget_guard" /\ END # "slo_record"
  BY NamesAreApart DEF FlowNames, Graph, GraphAt, EnterpriseGraph, CompiledGraph
<1>4. \A k \in DOMAIN edges : "secret_scope" \in edges[k].to => k = 2
  BY <1>2, <1>3 DEF Edge, EdgeWithKey
<1>5. \A k \in DOMAIN edges : "budget_guard" \in edges[k].to => k = 4
  BY <1>2, <1>3 DEF Edge, EdgeWithKey
<1>6. \A k \in DOMAIN edges : "slo_record" \in edges[k].to => k = 6
  BY <1>2, <1>3 DEF Edge, EdgeWithKey
<1>7. \A k \in DOMAIN edges : edges[k].from = "budget_guard" => k = 6 \/ k = 7
  BY <1>2 DEF Edge, EdgeWithKey
<1>8. /\ edges[2].from = "tenant_guard" /\ edges[2].key = "allowed" /\ edges[4].from = "secret_scope"
      /\ 6 \in DOMAIN edges /\ edges[6].from = "budget_guard" /\ edges[6].key = "within_budget"
      /\ edges[6].to = {"slo_record"} /\ edges[7].key = "over_budget"
  BY <1>2 DEF EdgeWithKey
<1>9. \A k \in DOMAIN edges : k \in Nat /\ edges[k].to # {}
  BY <1>2 DEF Edge, EdgeWithKey
<1>10. \A x \in {"allowed", "within_budget", "over_budget"} : x # NoKey /\ x # CONTINUE
  BY KeysApart DEF RouteKeys
<1>11. \/ next = END /\ \A k \in DOMAIN edges : ~Serves(edges[k], n, out.key)
       \/ \E k \in DOMAIN edges : Serves(edges[k], n, out.key) /\ next \in edges[k].to
  BY <1>1, <1>9, Follow
<1> HIDE DEF edges
<1>12. next = "secret_scope" => n = "tenant_guard" /\ out.key = "allowed"
  BY <1>3, <1>4, <1>8, <1>10, <1>11 DEF Serves
<1>13. next = "budget_guard" => n = "secret_scope"
  BY <1>3, <1>5, <1>8, <1>11 DEF Serves
<1>14. next = "slo_record" => n = "budget_guard" /\ out.key = "within_budget"
  BY <1>3, <1>6, <1>8, <1>10, <1>11 DEF Serves
<1>15. n = "budget_guard" /\ out.key = "within_budget" => next = "slo_record"
  BY <1>7, <1>8, <1>10, <1>11 DEF Serves
<1> QED
  BY <1>12, <1>13, <1>14, <1>15

\* The accounts are the budget, the tracker and the log, and nothing else.
AccountKeys == {"cost_budget", "slo_tracker", "audit_log"}

LEMMA SameAccounts ==
  ASSUME NEW s, NEW t, \A k \in AccountKeys : Has(s, k) => Has(t, k) /\ t.ctx[k] = s.ctx[k],
         NEW x, NEW y, Accounts(s, x, y)
  PROVE  Accounts(t, x, y)
<1>1. /\ AccountKeys \subseteq DOMAIN s.ctx /\ AccountKeys \subseteq DOMAIN t.ctx
      /\ t.ctx["cost_budget"] = s.ctx["cost_budget"] /\ t.ctx["slo_tracker"] = s.ctx["slo_tracker"]
      /\ t.ctx["audit_log"] = s.ctx["audit_log"]
  BY DEF Accounts, AccountKeys, Has
<1> QED
  BY <1>1 DEF Accounts, SpendingIsAccounted, AccountKeys

\* Room for a run may be given up.
LEMMA LessAdmitted ==
  ASSUME NEW s, NEW x, NEW y \in {0, 1}, Accounts(s, x, y)
  PROVE  Accounts(s, x, 0)
<1> DEFINE attempts == s.ctx["slo_tracker"].attempts["workflow_success"]
           many == Cardinality(LetIn(s.ctx["audit_log"]))
<1>1. attempts \in Nat /\ attempts + y <= many
  BY DEF Accounts
<1>2. many \in Nat
  <2>1. IsSeq(s.ctx["audit_log"])
    BY DEF Accounts
  <2>2. Len(s.ctx["audit_log"]) \in Nat /\ DOMAIN s.ctx["audit_log"] = 1 .. Len(s.ctx["audit_log"])
    BY <2>1, AppendIs
  <2>3. LetIn(s.ctx["audit_log"]) \subseteq 1 .. Len(s.ctx["audit_log"])
    BY <2>2 DEF LetIn
  <2>4. IsFiniteSet(1 .. Len(s.ctx["audit_log"]))
    BY <2>2, FS_Interval
  <2>5. IsFiniteSet(LetIn(s.ctx["audit_log"]))
    BY <2>3, <2>4, FS_Subset
  <2> QED
    BY <2>5, FS_CardinalityType
<1>3. attempts + 0 <= many
  <2> HIDE DEF attempts, many
  <2> QED
    BY <1>1, <1>2
<1> QED
  BY <1>3 DEF Accounts

LEMMA TenantStart ==
  ASSUME flow \in {"enterprise", "tenant"}, NEW s, TenantGood(END, s), NEW u \in Inputs(s)
  PROVE  TenantGood(Graph(flow).entry, u)
<1>1. /\ END # "slo_record" /\ END # "secret_scope" /\ END # "budget_guard"
  BY NamesAreApart DEF FlowNames, Graph, GraphAt, EnterpriseGraph, CompiledGraph
<1>2. IsState(s) /\ (Has(s, "cost_budget") => Accounts(s, 0, 0))
  BY <1>1 DEF TenantGood
<1>3. CASE flow = "enterprise"
  <2>1. u = s
    BY <1>3 DEF Inputs
  <2>2. Graph(flow).entry = "enterprise_setup"
    BY <1>3, FlowTable
  <2> QED
    BY <1>2, <1>3, <2>1, <2>2 DEF TenantGood
<1>4. CASE flow = "tenant"
  <2>1. PICK subject, p : u = PutAll(s, [rbac_subject |-> subject, permission |-> p])
    <3>1. u \in TenantInputs(s)
      BY <1>4 DEF Inputs
    <3>2. PICK t \in {"acme", "other"}, role \in RbacRoles, p \in {"execute", "manage_secrets"} :
            u = PutAll(s, [rbac_subject |-> Subject(t, {role}), permission |-> p])
      BY <3>1, SMTT(30) DEF TenantInputs
    <3> QED
      BY <3>2
  <2>2. PICK v : v = [rbac_subject |-> subject, permission |-> p]
    OBVIOUS
  <2>3. DOMAIN v = {"rbac_subject", "permission"} /\ u = PutAll(s, v)
    BY <2>1, <2>2
  <2>4. /\ IsState(u) /\ DOMAIN u.ctx = DOMAIN s.ctx \cup {"rbac_subject", "permission"}
        /\ \A k \in DOMAIN s.ctx \ {"rbac_subject", "permission"} : u.ctx[k] = s.ctx[k]
    BY <1>2, <2>3, PutAllIs
  <2>5. \A k \in AccountKeys : Has(s, k) => Has(u, k) /\ u.ctx[k] = s.ctx[k]
    BY <2>4 DEF AccountKeys, Has
  <2>6. Has(s, "cost_budget") /\ Accounts(s, 0, 0)
    BY <1>2, <1>4 DEF TenantGood
  <2>7. Accounts(u, 0, 0) /\ Has(u, "cost_budget")
    BY <2>5, <2>6, SameAccounts DEF AccountKeys
  <2>8. Graph(flow).entry = "tenant_guard"
    BY <1>4, FlowTable
  <2> QED
    BY <2>4, <2>7, <2>8 DEF TenantGood
<1> QED
  BY <1>3, <1>4

\* Setting up opens empty accounts.
LEMMA SetupOpens ==
  ASSUME NEW s, IsState(s), NEW r \in EnterpriseSetupNode(s, Limit)
  PROVE  IsState(r.s) /\ Has(r.s, "cost_budget") /\ Accounts(r.s, 0, 0) /\ r.out = Cont
<1>1. PICK tracker, scopes, subject : tracker = Register(NoTracker, "workflow_success", 95)
                                      /\ scopes = {{"git:read"}} /\ subject = Subject("acme", {"operator"})
  OBVIOUS
<1>2. PICK v : v = [tenant_id |-> "acme", rbac_subject |-> subject, audit_log |-> <<>>,
                    cost_budget |-> Budget(Limit), scoped_credentials |-> scopes,
                    slo_tracker |-> tracker]
  OBVIOUS
<1>3. r = Result(PutAll(s, v), Cont)
  BY <1>1, <1>2 DEF EnterpriseSetupNode
<1>4. r.s = PutAll(s, v) /\ r.out = Cont
  BY <1>3 DEF Result
<1>5. /\ AccountKeys \subseteq DOMAIN v /\ v["cost_budget"] = Budget(Limit)
      /\ v["slo_tracker"] = tracker /\ v["audit_log"] = <<>>
  BY <1>2 DEF AccountKeys
<1>6. /\ IsState(r.s) /\ AccountKeys \subseteq DOMAIN r.s.ctx
      /\ r.s.ctx["cost_budget"] = Budget(Limit)
      /\ r.s.ctx["slo_tracker"] = tracker /\ r.s.ctx["audit_log"] = <<>>
  <2>1. /\ IsState(r.s) /\ DOMAIN r.s.ctx = DOMAIN s.ctx \cup DOMAIN v
        /\ \A k \in DOMAIN v : r.s.ctx[k] = v[k]
    BY <1>4, PutAllIs
  <2> QED
    BY <1>5, <2>1 DEF AccountKeys
<1>7. /\ tracker = [targets |-> tracker.targets, attempts |-> tracker.attempts,
                    successes |-> tracker.successes]
      /\ tracker.attempts = Counting(<<>>, "workflow_success")
  BY <1>1 DEF Register, NoTracker
<1>8. "workflow_success" \in DOMAIN tracker.attempts /\ tracker.attempts["workflow_success"] = 0
  BY <1>7 DEF Counting
<1>9. IsSeq(<<>>) /\ LetIn(<<>>) = {} /\ Cardinality({}) = 0 /\ VerifyChain(<<>>)
  <2>1. <<>> \in Seq({})
    OBVIOUS
  <2>2. DOMAIN <<>> = {}
    OBVIOUS
  <2>3. Cardinality({}) = 0
    BY FS_EmptySet
  <2> QED
    BY <2>1, <2>2, <2>3 DEF IsSeq, LetIn, VerifyChain
<1>10. PICK b : b = Budget(Limit)
  OBVIOUS
<1>11. b = [limit |-> b.limit, spent |-> b.spent] /\ b.limit = 3 /\ b.spent = 0
  BY <1>10 DEF Budget, Limit
<1> DEFINE t == r.s
<1> HIDE DEF t
<1>14. /\ t.ctx["cost_budget"] = b /\ t.ctx["slo_tracker"] = tracker /\ t.ctx["audit_log"] = <<>>
       /\ AccountKeys \subseteq DOMAIN t.ctx
  BY <1>6, <1>10 DEF t
<1> DEFINE attempts == tracker.attempts["workflow_success"]
           many == Cardinality(LetIn(<<>>))
<1>16. attempts = 0 /\ many = 0
  BY <1>8, <1>9
<1>12. SpendingIsAccounted(t, 0)
  <2>1. /\ b.spent <= b.limit /\ b.spent = 2 * (tracker.attempts["workflow_success"] + 0)
        /\ tracker.attempts["workflow_success"] + 0 <= Cardinality(LetIn(<<>>))
    <3> HIDE DEF attempts, many
    <3>1. b.spent <= b.limit /\ b.spent = 2 * (attempts + 0) /\ attempts + 0 <= many
      BY <1>11, <1>16
    <3> QED
      BY <3>1 DEF attempts, many
  <2> QED
    BY <1>9, <1>14, <2>1 DEF SpendingIsAccounted, Cost
<1>13. Accounts(t, 0, 0)
  <2>1. /\ b.limit \in Nat /\ b.spent \in Nat /\ tracker.attempts["workflow_success"] \in Nat
        /\ tracker.attempts["workflow_success"] + 0 <= Cardinality(LetIn(<<>>))
    <3> HIDE DEF attempts, many
    <3>1. b.limit \in Nat /\ b.spent \in Nat /\ attempts \in Nat /\ attempts + 0 <= many
      BY <1>11, <1>16
    <3> QED
      BY <3>1 DEF attempts, many
  <2> QED
    BY <1>7, <1>8, <1>9, <1>11, <1>12, <1>14, <2>1 DEF Accounts, AccountKeys
<1> QED
  BY <1>4, <1>6, <1>13 DEF Has, AccountKeys, t

\* A record appended chains on to the last one; those before keep their links.
LEMMA ChainGrows ==
  ASSUME NEW q, IsSeq(q), VerifyChain(q), NEW e, e.prev = PrevHash(q)
  PROVE  VerifyChain(Append(q, e))
<1> DEFINE p == Append(q, e)
           L == Len(q)
<1>1. /\ IsSeq(p) /\ L \in Nat /\ DOMAIN q = 1 .. L /\ DOMAIN p = 1 .. L + 1
      /\ \A k \in 1 .. L : p[k] = q[k]
      /\ p[L + 1] = e
  BY AppendIs
<1>2. ASSUME NEW k \in 0 .. L PROVE SubSeq(p, 1, k) = SubSeq(q, 1, k)
  <2>1. /\ SubSeq(p, 1, k) = [i \in 1 .. 1 + k - 1 |-> p[i + 1 - 1]]
        /\ SubSeq(q, 1, k) = [i \in 1 .. 1 + k - 1 |-> q[i + 1 - 1]]
    OBVIOUS
  <2> HIDE DEF p, L
  <2>2. \A i \in 1 .. 1 + k - 1 : p[i + 1 - 1] = q[i + 1 - 1]
    BY <1>1, <1>2
  <2> QED
    BY <2>1, <2>2
<1>3. SubSeq(q, 1, L) = q
  <2>1. PICK S : q \in Seq(S)
    BY DEF IsSeq
  <2> QED
    BY <2>1
<1> HIDE DEF p, L
<1>4. ASSUME NEW k \in 1 .. L + 1 PROVE p[k].prev = PrevHash(SubSeq(p, 1, k - 1))
  <2>1. k - 1 \in 0 .. L
    BY <1>1
  <2>2. SubSeq(p, 1, k - 1) = SubSeq(q, 1, k - 1)
    BY <1>2, <2>1
  <2>3. CASE k = L + 1
    <3>1. k - 1 = L
      BY <1>1, <2>3
    <3> QED
      BY <1>1, <1>3, <2>2, <2>3, <3>1
  <2>4. CASE k # L + 1
    <3>1. k \in 1 .. L
      BY <1>1, <2>4
    <3> QED
      BY <1>1, <2>2, <3>1 DEF VerifyChain
  <2> QED
    BY <2>3, <2>4
<1> QED
  BY <1>1, <1>4 DEF VerifyChain, p

\* The guard's record: of the tenant or an administrator of the platform if it lets in.
LEMMA GuardRecords ==
  ASSUME NEW s, IsState(s), Has(s, "cost_budget"), Accounts(s, 0, 0), NEW permission,
         NEW r \in TenantGuardNode(s, permission), r.ok
  PROVE  /\ IsState(r.s) /\ Has(r.s, "cost_budget") /\ r.out.kind = "transition"
         /\ Accounts(r.s, 0, 0)
         /\ r.out.key = "allowed" => Accounts(r.s, 0, 1)
<1> DEFINE tenant == Get(s, "tenant_id")
           subject == s.ctx["rbac_subject"]
           allowed == CheckAccess(subject, tenant, permission)
           outcome == IF allowed THEN "allowed" ELSE "denied"
           q == s.ctx["audit_log"]
           L == Len(q)
           t == r.s
<1>1. PICK e : e = [sequence |-> L + 1, tenant |-> tenant, actor |-> subject,
                    outcome |-> outcome, detail |-> Redact(permission, tenant), prev |-> PrevHash(q)]
  OBVIOUS
<1>2. /\ AccountKeys \subseteq DOMAIN s.ctx /\ IsSeq(q) /\ SpendingIsAccounted(s, 0)
  BY DEF Accounts, AccountKeys
<1>3. GetOr(s, "audit_log", <<>>) = q
  BY <1>2 DEF GetOr, Has, AccountKeys
<1>4. r = Result(Put(s, "audit_log", Append(q, e)), Transition(outcome))
  BY <1>1, <1>3 DEF TenantGuardNode, AuditAppend, Failure
<1>5. t = Put(s, "audit_log", Append(q, e)) /\ r.out.kind = "transition" /\ r.out.key = outcome
  BY <1>4 DEF Result, Transition
<1>6. /\ e.tenant = tenant /\ e.actor = subject /\ e.outcome = outcome /\ e.prev = PrevHash(q)
  BY <1>1
<1>7. e.outcome = "allowed" => e.actor.tenant = e.tenant \/ "platform_admin" \in e.actor.roles
  BY <1>6 DEF CheckAccess, HasRole
<1> HIDE DEF t
<1>8. /\ IsState(t) /\ DOMAIN t.ctx = DOMAIN s.ctx /\ t.ctx["audit_log"] = Append(q, e)
      /\ t.ctx["cost_budget"] = s.ctx["cost_budget"] /\ t.ctx["slo_tracker"] = s.ctx["slo_tracker"]
  <2>2. PICK w : w = Append(q, e)
    OBVIOUS
  <2>3. t = Put(s, "audit_log", w)
    BY <1>5, <2>2
  <2>1. /\ IsState(t) /\ DOMAIN t.ctx = DOMAIN s.ctx \cup {"audit_log"} /\ t.ctx["audit_log"] = w
        /\ \A k \in DOMAIN s.ctx \ {"audit_log"} : t.ctx[k] = s.ctx[k]
    BY <2>3, PutIs
  <2> QED
    BY <1>2, <2>1, <2>2 DEF AccountKeys
<1>9. /\ IsSeq(Append(q, e)) /\ L \in Nat /\ DOMAIN q = 1 .. L /\ DOMAIN Append(q, e) = 1 .. L + 1
      /\ \A k \in 1 .. L : Append(q, e)[k] = q[k]
      /\ Append(q, e)[L + 1] = e
  BY <1>2, AppendIs
<1>10. VerifyChain(Append(q, e))
  BY <1>2, <1>6, ChainGrows DEF SpendingIsAccounted
<1> HIDE DEF q, L
<1>11. LetIn(Append(q, e)) = IF outcome = "allowed" THEN LetIn(q) \cup {L + 1} ELSE LetIn(q)
  BY <1>6, <1>9 DEF LetIn
<1>12. IsFiniteSet(LetIn(q)) /\ Cardinality(LetIn(q)) \in Nat
  <2>3. LetIn(q) \subseteq 1 .. L
    BY <1>9 DEF LetIn
  <2>1. IsFiniteSet(1 .. L) /\ LetIn(q) \subseteq 1 .. L
    <3>1. L \in Nat
      BY <1>9
    <3>2. IsFiniteSet(1 .. L)
      BY <3>1, FS_Interval
    <3> QED
      BY <2>3, <3>2
  <2>2. IsFiniteSet(LetIn(q))
    BY <2>1, FS_Subset
  <2> QED
    BY <2>2, FS_CardinalityType
<1>13. outcome = "allowed" => Cardinality(LetIn(Append(q, e))) = Cardinality(LetIn(q)) + 1
  <2>1. L + 1 \notin LetIn(q)
    BY <1>9 DEF LetIn
  <2>2. Cardinality(LetIn(q) \cup {L + 1}) = Cardinality(LetIn(q)) + 1
    BY <1>12, <2>1, FS_AddElement
  <2> QED
    BY <1>11, <2>2
<1>14. \A k \in LetIn(Append(q, e)) :
         \/ Append(q, e)[k].actor.tenant = Append(q, e)[k].tenant
         \/ "platform_admin" \in Append(q, e)[k].actor.roles
  <2>1. \A k \in LetIn(q) : q[k].actor.tenant = q[k].tenant \/ "platform_admin" \in q[k].actor.roles
    BY <1>2 DEF SpendingIsAccounted, q
  <2>2. LetIn(q) \subseteq 1 .. L
    BY <1>9 DEF LetIn
  <2> QED
    BY <1>6, <1>7, <1>9, <1>11, <2>1, <2>2
<1> DEFINE attempts == s.ctx["slo_tracker"].attempts["workflow_success"]
<1>15. /\ attempts \in Nat /\ attempts + 0 <= Cardinality(LetIn(q))
  BY DEF Accounts, q
<1>16. /\ attempts + 0 <= Cardinality(LetIn(Append(q, e)))
       /\ outcome = "allowed" => attempts + 1 <= Cardinality(LetIn(Append(q, e)))
  <2> HIDE DEF attempts
  <2>1. Cardinality(LetIn(Append(q, e))) = Cardinality(LetIn(q))
        \/ Cardinality(LetIn(Append(q, e))) = Cardinality(LetIn(q)) + 1
    BY <1>11, <1>13
  <2> QED
    BY <1>12, <1>13, <1>15, <2>1
<1>17. SpendingIsAccounted(t, 0)
  BY <1>2, <1>8, <1>10, <1>14, <1>16 DEF SpendingIsAccounted, q
<1>18. Accounts(t, 0, 0) /\ (outcome = "allowed" => Accounts(t, 0, 1))
  BY <1>8, <1>9, <1>16, <1>17 DEF Accounts
<1> QED
  BY <1>5, <1>8, <1>18 DEF Has, t

\* A step that leaves the accounts alone.
LEMMA TenantKeeps ==
  ASSUME flow \in {"enterprise", "tenant"}, NEW s, NEW x, NEW y \in {0, 1}, IsState(s),
         Has(s, "cost_budget") => Accounts(s, x, y), NEW t, IsState(t), DOMAIN s.ctx \subseteq DOMAIN t.ctx,
         \A k \in AccountKeys : Has(s, k) => t.ctx[k] = s.ctx[k],
         NEW next, Has(s, "cost_budget") \/ (next = END /\ flow # "tenant"),
         Has(t, "cost_budget") => Has(s, "cost_budget"),
         x = IF next = "slo_record" THEN 1 ELSE 0,
         y = 1 \/ next \notin {"secret_scope", "budget_guard", "slo_record"}
  PROVE  TenantGood(next, t)
<1>1. \A k \in AccountKeys : Has(s, k) => Has(t, k) /\ t.ctx[k] = s.ctx[k]
  BY DEF Has
<1>2. Has(t, "cost_budget") => Accounts(t, x, y) /\ Accounts(t, x, 0)
  BY <1>1, SameAccounts, LessAdmitted
<1>3. next \notin {"enterprise_setup", END} \/ flow = "tenant" => Has(t, "cost_budget")
  BY DEF Has
<1> QED
  BY <1>2, <1>3 DEF TenantGood

\* A run that fits the budget is charged.
LEMMA BudgetCharges ==
  ASSUME NEW s, IsState(s), Accounts(s, 0, 1), NEW r \in BudgetGuardNode(s, Cost), r.ok
  PROVE  /\ r.out.kind = "transition"
         /\ \/ r.out.key = "over_budget" /\ r.s = s
            \/ /\ r.out.key = "within_budget" /\ IsState(r.s) /\ Has(r.s, "cost_budget")
               /\ Accounts(r.s, 1, 1)
<1> DEFINE budget == s.ctx["cost_budget"]
           attempts == s.ctx["slo_tracker"].attempts["workflow_success"]
           t == r.s
<1>1. /\ AccountKeys \subseteq DOMAIN s.ctx /\ budget = [limit |-> budget.limit, spent |-> budget.spent]
      /\ budget.limit \in Nat /\ budget.spent \in Nat /\ attempts \in Nat
      /\ SpendingIsAccounted(s, 0)
  BY DEF Accounts, AccountKeys
<1>2. CASE ~WithinBudget(budget, Cost)
  <2>1. r = Result(s, Transition("over_budget"))
    BY <1>1, <1>2 DEF BudgetGuardNode, Has, AccountKeys
  <2> QED
    BY <2>1 DEF Result, Transition
<1>3. CASE WithinBudget(budget, Cost)
  <2>1. PICK b : b = Charge(budget, Cost)
    OBVIOUS
  <2>2. r = Result(Put(s, "cost_budget", b), Transition("within_budget"))
    BY <1>1, <1>3, <2>1 DEF BudgetGuardNode, Has, AccountKeys
  <2>3. t = Put(s, "cost_budget", b) /\ r.out.kind = "transition" /\ r.out.key = "within_budget"
    BY <2>2 DEF Result, Transition
  <2> HIDE DEF t
  <2>4. /\ IsState(t) /\ DOMAIN t.ctx = DOMAIN s.ctx /\ t.ctx["cost_budget"] = b
        /\ t.ctx["slo_tracker"] = s.ctx["slo_tracker"] /\ t.ctx["audit_log"] = s.ctx["audit_log"]
    <3>1. /\ IsState(t) /\ DOMAIN t.ctx = DOMAIN s.ctx \cup {"cost_budget"}
          /\ t.ctx["cost_budget"] = b
          /\ \A k \in DOMAIN s.ctx \ {"cost_budget"} : t.ctx[k] = s.ctx[k]
      BY <2>3, PutIs
    <3> QED
      BY <1>1, <3>1 DEF AccountKeys
  <2>5. b = [budget EXCEPT !.spent = budget.spent + Cost]
    BY <2>1 DEF Charge
  <2>6. /\ b = [limit |-> b.limit, spent |-> b.spent]
        /\ b.limit = budget.limit /\ b.spent = budget.spent + 2
    BY <1>1, <2>5 DEF Cost
  <2>7. budget.spent = 2 * (attempts + 0) /\ budget.spent + 2 <= budget.limit
    BY <1>1, <1>3 DEF SpendingIsAccounted, WithinBudget, Cost
  <2>8. /\ b.spent \in Nat /\ b.limit \in Nat /\ b.spent <= b.limit /\ b.spent = 2 * (attempts + 1)
    <3> HIDE DEF budget, attempts
    <3> QED
      BY <1>1, <2>6, <2>7
  <2>9. attempts + 1 <= Cardinality(LetIn(s.ctx["audit_log"]))
    BY DEF Accounts
  <2>10. SpendingIsAccounted(t, 1)
    BY <1>1, <2>4, <2>8, <2>9 DEF SpendingIsAccounted, Cost
  <2>11. Accounts(t, 1, 1)
    BY <1>1, <2>4, <2>6, <2>8, <2>10 DEF Accounts, AccountKeys
  <2> QED
    BY <1>1, <2>3, <2>4, <2>11 DEF Has, AccountKeys, t
<1> QED
  BY <1>2, <1>3

\* The run that was charged is counted.
LEMMA SloCounts ==
  ASSUME NEW s, IsState(s), Accounts(s, 1, 1), NEW r \in SloRecordNode(s, "workflow_success", TRUE)
  PROVE  IsState(r.s) /\ Has(r.s, "cost_budget") /\ Accounts(r.s, 0, 0) /\ r.out = Cont
<1> DEFINE old == s.ctx["slo_tracker"]
           attempts == old.attempts["workflow_success"]
           t == r.s
<1>1. /\ AccountKeys \subseteq DOMAIN s.ctx /\ "workflow_success" \in DOMAIN old.attempts
      /\ attempts \in Nat /\ SpendingIsAccounted(s, 1)
      /\ attempts + 1 <= Cardinality(LetIn(s.ctx["audit_log"]))
  BY DEF Accounts, AccountKeys
<1>2. GetOr(s, "slo_tracker", NoTracker) = old
  BY <1>1 DEF GetOr, Has, AccountKeys
<1>3. PICK tracker : tracker = RecordSlo(old, "workflow_success", TRUE)
  OBVIOUS
<1>4. PICK v : v = [slo_tracker |-> tracker, slo_dashboard |-> Dashboard(tracker)]
  OBVIOUS
<1>5. r = Result(PutAll(s, v), Cont)
  BY <1>2, <1>3, <1>4 DEF SloRecordNode
<1>6. t = PutAll(s, v) /\ r.out = Cont
  BY <1>5 DEF Result
<1>7. DOMAIN v = {"slo_tracker", "slo_dashboard"} /\ v["slo_tracker"] = tracker
  BY <1>4
<1> HIDE DEF t
<1>8. /\ IsState(t) /\ AccountKeys \subseteq DOMAIN t.ctx /\ t.ctx["slo_tracker"] = tracker
      /\ t.ctx["cost_budget"] = s.ctx["cost_budget"] /\ t.ctx["audit_log"] = s.ctx["audit_log"]
  <2>1. /\ IsState(t) /\ DOMAIN t.ctx = DOMAIN s.ctx \cup DOMAIN v
        /\ \A k \in DOMAIN v : t.ctx[k] = v[k]
        /\ \A k \in DOMAIN s.ctx \ DOMAIN v : t.ctx[k] = s.ctx[k]
    BY <1>6, PutAllIs
  <2> QED
    BY <1>1, <1>7, <2>1 DEF AccountKeys
<1>9. PICK counts : counts = Counting(old.attempts, "workflow_success")
  OBVIOUS
<1>10. "workflow_success" \in DOMAIN counts /\ counts["workflow_success"] = attempts
       /\ counts = [n \in DOMAIN counts |-> counts[n]]
  BY <1>1, <1>9 DEF Counting
<1>11. /\ tracker = [targets |-> tracker.targets, attempts |-> tracker.attempts,
                     successes |-> tracker.successes]
       /\ tracker.attempts = Bump(old.attempts, "workflow_success")
  BY <1>3 DEF RecordSlo
<1>12. tracker.attempts = [counts EXCEPT !["workflow_success"] = counts["workflow_success"] + 1]
  BY <1>9, <1>11 DEF Bump
<1>13. /\ "workflow_success" \in DOMAIN tracker.attempts
       /\ tracker.attempts["workflow_success"] = attempts + 1
  BY <1>10, <1>12
<1> DEFINE many == Cardinality(LetIn(s.ctx["audit_log"]))
           after == tracker.attempts["workflow_success"]
           budget == s.ctx["cost_budget"]
<1>14. budget.spent = 2 * (attempts + 1)
  BY <1>1 DEF SpendingIsAccounted, Cost
<1>15. after \in Nat /\ after + 0 <= many /\ budget.spent = 2 * (after + 0)
  <2>1. after = attempts + 1 /\ attempts \in Nat /\ attempts + 1 <= many
    BY <1>1, <1>13
  <2> HIDE DEF attempts, many, after, budget
  <2> QED
    BY <1>14, <2>1
<1>16. SpendingIsAccounted(t, 0)
  BY <1>1, <1>8, <1>15 DEF SpendingIsAccounted, Cost
<1>17. Accounts(t, 0, 0)
  BY <1>8, <1>11, <1>13, <1>15, <1>16 DEF Accounts, AccountKeys
<1> QED
  BY <1>6, <1>8, <1>17 DEF Has, AccountKeys, t

LEMMA TenantStep ==
  ASSUME flow \in {"enterprise", "tenant"}, NEW n \in Graph(flow).nodes, NEW s, TenantGood(n, s),
         NEW r \in Execute(flow, n, s), r.ok, NEW next \in R!ResolveNext(r.s, n, r.out)
  PROVE  TenantGood(next, r.s)
<1>1. r \in EnterpriseNode(n, s)
  BY FlowTable
<1>2. n # END
  BY NamesAreApart DEF FlowNames
<1>3. /\ IsState(s) /\ (n # "enterprise_setup" => Has(s, "cost_budget"))
      /\ Has(s, "cost_budget") =>
           Accounts(s, IF n = "slo_record" THEN 1 ELSE 0,
                       IF n \in {"secret_scope", "budget_guard", "slo_record"} THEN 1 ELSE 0)
  BY <1>2 DEF TenantGood
<1>4. Cont.kind = "transition"
  BY DEF Cont
<1>5. CASE n = "enterprise_setup"
  <2>1. r \in EnterpriseSetupNode(s, Limit)
    BY <1>1, <1>5 DEF EnterpriseNode
  <2>2. IsState(r.s) /\ Has(r.s, "cost_budget") /\ Accounts(r.s, 0, 0) /\ r.out = Cont
    BY <1>3, <2>1, SetupOpens
  <2>3. next \notin {"secret_scope", "budget_guard", "slo_record"}
    BY <1>4, <1>5, <2>2, TenantLeads
  <2> QED
    BY <2>2, <2>3 DEF TenantGood
<1>6. CASE n = "tenant_guard"
  <2>1. r \in TenantGuardNode(s, GetOr(s, "permission", "execute"))
    BY <1>1, <1>6 DEF EnterpriseNode
  <2>2. Has(s, "cost_budget") /\ Accounts(s, 0, 0)
    BY <1>3, <1>6
  <2>3. /\ IsState(r.s) /\ Has(r.s, "cost_budget") /\ r.out.kind = "transition"
        /\ Accounts(r.s, 0, 0) /\ (r.out.key = "allowed" => Accounts(r.s, 0, 1))
    BY <1>3, <2>1, <2>2, GuardRecords
  <2>4. /\ next \notin {"budget_guard", "slo_record"}
        /\ next = "secret_scope" => r.out.key = "allowed"
    BY <1>6, <2>3, TenantLeads
  <2> QED
    BY <2>3, <2>4 DEF TenantGood
<1>7. CASE n = "secret_scope"
  <2>1. PICK key : r = Result(s, Transition(key))
    BY <1>1, <1>7 DEF EnterpriseNode, SecretScopeNode
  <2>2. r.s = s /\ r.out.kind = "transition"
    BY <2>1 DEF Result, Transition
  <2>3. Has(s, "cost_budget") /\ Accounts(s, 0, 1)
    BY <1>3, <1>7
  <2>4. next # "slo_record"
    BY <1>7, <2>2, TenantLeads
  <2> QED
    BY <1>3, <2>2, <2>3, <2>4, TenantKeeps
<1>8. CASE n = "budget_guard"
  <2>1. r \in BudgetGuardNode(s, Cost)
    BY <1>1, <1>8 DEF EnterpriseNode
  <2>2. Has(s, "cost_budget") /\ Accounts(s, 0, 1)
    BY <1>3, <1>8
  <2>3. /\ r.out.kind = "transition"
        /\ \/ r.out.key = "over_budget" /\ r.s = s
           \/ /\ r.out.key = "within_budget" /\ IsState(r.s) /\ Has(r.s, "cost_budget")
              /\ Accounts(r.s, 1, 1)
    BY <1>3, <2>1, <2>2, BudgetCharges
  <2>4. CASE r.out.key = "over_budget" /\ r.s = s
    <3>1. next # "slo_record"
      BY <1>8, <2>3, <2>4, TenantLeads
    <3> QED
      BY <1>3, <2>2, <2>4, <3>1, TenantKeeps
  <2>5. CASE r.out.key = "within_budget" /\ IsState(r.s) /\ Has(r.s, "cost_budget")
             /\ Accounts(r.s, 1, 1)
    <3>1. next = "slo_record"
      BY <1>8, <2>3, <2>5, TenantLeads
    <3> QED
      BY <2>5, <3>1 DEF TenantGood
  <2> QED
    BY <2>3, <2>4, <2>5
<1>9. CASE n = "slo_record"
  <2>1. r \in SloRecordNode(s, "workflow_success", TRUE)
    BY <1>1, <1>9 DEF EnterpriseNode
  <2>2. Has(s, "cost_budget") /\ Accounts(s, 1, 1)
    BY <1>3, <1>9
  <2>3. IsState(r.s) /\ Has(r.s, "cost_budget") /\ Accounts(r.s, 0, 0) /\ r.out = Cont
    BY <1>3, <2>1, <2>2, SloCounts
  <2>4. next \notin {"secret_scope", "budget_guard", "slo_record"}
    BY <1>4, <1>9, <2>3, TenantLeads
  <2> QED
    BY <2>3, <2>4 DEF TenantGood
<1>10. CASE n \notin {"enterprise_setup", "tenant_guard", "secret_scope", "budget_guard", "slo_record"}
  <2>1. PICK key, value, out : /\ r = Result(Put(s, key, value), out) /\ key \notin AccountKeys
                               /\ out.kind = "transition"
    <3>1. CASE n = "audit_export"
      <4>1. PICK out : r = Result(Put(s, "compliance_export", ExportTenant(s.ctx["audit_log"], s.ctx["tenant_id"])), out)
                       /\ out.kind = "transition"
        BY <1>1, <3>1 DEF EnterpriseNode, AuditExportNode, Failure, Transition
      <4> QED
        BY <4>1 DEF AccountKeys
    <3>2. CASE n # "audit_export"
      <4>1. r = Result(Put(s, "echo", n), Cont)
        BY <1>1, <1>10, <3>2 DEF EnterpriseNode, EchoNode
      <4> QED
        BY <1>4, <4>1 DEF AccountKeys
    <3> QED
      BY <3>1, <3>2
  <2>2. r.s = Put(s, key, value) /\ r.out.kind = "transition"
    BY <2>1 DEF Result
  <2>3. /\ IsState(r.s) /\ DOMAIN r.s.ctx = DOMAIN s.ctx \cup {key}
        /\ \A k \in DOMAIN s.ctx \ {key} : r.s.ctx[k] = s.ctx[k]
    BY <1>3, <2>2, PutIs
  <2>4. \A k \in AccountKeys : Has(s, k) => r.s.ctx[k] = s.ctx[k]
    BY <2>1, <2>3 DEF Has
  <2>5. Has(s, "cost_budget") /\ Accounts(s, 0, 0)
    BY <1>3, <1>10
  <2>6. next \notin {"secret_scope", "budget_guard", "slo_record"}
    BY <1>10, <2>2, TenantLeads
  <2> QED
    BY <1>3, <2>3, <2>4, <2>5, <2>6, TenantKeeps
<1> QED
  BY <1>5, <1>6, <1>7, <1>8, <1>9, <1>10
-----------------------------------------------------------------------------
(* Each flow by itself, put together. *)

LEMMA ShipIsNoEnd == END # "ship"
BY NamesAreApart DEF FlowNames, Graph, GraphAt, DevGraph, CompiledGraph

LEMMA EndIs ==
  /\ \A n \in {"call_model", "execute_tools", "gov_init", "tools", "role_route", "checkpoint", "complete_change",
               "release_gate", "released", "secret_scope", "budget_guard", "slo_record",
               "enterprise_setup", "ship"} : END # n
<1>1. END \notin {"call_model", "execute_tools"}
  BY NamesAreApart DEF FlowNames, Graph, GraphAt, ReactGraph, CompiledGraph
<1>2. END \notin {"gov_init", "tools"}
  BY NamesAreApart DEF FlowNames, Graph, GraphAt, GovernanceGraph, CompiledGraph
<1>3. END # "role_route"
  BY NamesAreApart DEF FlowNames, Graph, GraphAt, RolesGraph, CompiledGraph
<1>4. END # "checkpoint"
  BY NamesAreApart DEF FlowNames, Graph, GraphAt, HitlGraph, CompiledGraph
<1>5. END \notin {"complete_change", "release_gate", "released"}
  BY NamesAreApart DEF FlowNames, Graph, GraphAt, ReleaseGraph, CompiledGraph
<1>6. END \notin {"secret_scope", "budget_guard", "slo_record", "enterprise_setup"}
  BY NamesAreApart DEF FlowNames, Graph, GraphAt, EnterpriseGraph, CompiledGraph
<1> QED
  BY <1>1, <1>2, <1>3, <1>4, <1>5, <1>6, ShipIsNoEnd

\* An agent may start in a state in which it answered before.
LEMMA ReactStarts ==
  ASSUME flow = "react", NEW s \in Starts(flow)
  PROVE  ReactGood(END, s)
<1>1. /\ IsState(Empty) /\ Empty.messages = <<>> /\ Empty.calls = <<>> /\ Empty.complete = FALSE
  BY EmptyIs
<1>2. IsSeq(<<>>) /\ DOMAIN <<>> = {} /\ <<>> \in Seq(Calls) /\ Len(<<>>) = 0
  <2>1. <<>> \in Seq(Calls) /\ DOMAIN <<>> = {} /\ Len(<<>>) = 0
    OBVIOUS
  <2> QED
    BY <2>1 DEF IsSeq
<1>3. CASE s = Empty
  <2>1. ~DoneBefore(s, Len(s.messages) + 1)
    BY <1>1, <1>2, <1>3 DEF DoneBefore
  <2> QED
    BY <1>1, <1>2, <1>3, <2>1, EndIs DEF ReactGood
<1>4. ASSUME s = Answered(Say(Empty, User("earlier")), Response("bye", <<>>))
      PROVE  ReactGood(END, s)
  <2>1. PICK a, m, u : a = Response("bye", <<>>) /\ m = User("earlier") /\ u = Say(Empty, m)
    OBVIOUS
  <2>2. a.calls = <<>> /\ m.role = "user"
    BY <2>1 DEF Response, User, Message
  <2>3. /\ IsState(u) /\ u.messages = Append(<<>>, m) /\ u.complete = FALSE
    BY <1>1, <2>1, SayIs
  <2>4. /\ IsSeq(u.messages) /\ DOMAIN u.messages = 1 .. 1 /\ Len(u.messages) = 1
        /\ u.messages[1] = m
    <3>1. \A q : IsSeq(q) /\ Len(q) = 0 => /\ IsSeq(Append(q, m)) /\ DOMAIN Append(q, m) = 1 .. 1
                                             /\ Len(Append(q, m)) = 1 /\ Append(q, m)[1] = m
      <4> SUFFICES ASSUME NEW q, IsSeq(q), Len(q) = 0
                   PROVE  /\ IsSeq(Append(q, m)) /\ DOMAIN Append(q, m) = 1 .. 1
                          /\ Len(Append(q, m)) = 1 /\ Append(q, m)[1] = m
        OBVIOUS
      <4>1. /\ IsSeq(Append(q, m)) /\ Len(Append(q, m)) = Len(q) + 1
            /\ DOMAIN Append(q, m) = 1 .. Len(q) + 1 /\ Append(q, m)[Len(q) + 1] = m
        BY AppendIs
      <4>2. Len(q) + 1 = 1
        OBVIOUS
      <4> QED
        BY <4>1, <4>2, Zenon
    <3>2. IsSeq(<<>>) /\ Len(<<>>) = 0
      BY <1>2
    <3> QED
      BY <2>3, <3>1, <3>2
  <2>5. PICK x : x = Assistant([prompt |-> PromptOf(u), calls |-> a.calls])
    OBVIOUS
  <2>6. x.role = "assistant" /\ x.content.calls = <<>>
    BY <2>2, <2>5 DEF Assistant, Message
  <2>7. /\ IsState(s) /\ s.calls = <<>> /\ s.complete = TRUE /\ s.messages = Append(u.messages, x)
    <3>1. u.complete \in BOOLEAN /\ s = Answered(u, a)
      BY <1>4, <2>1, <2>3
    <3>2. /\ IsState(s) /\ s.calls = a.calls /\ s.complete = (u.complete \/ a.calls = <<>>)
          /\ s.messages = Append(u.messages, x)
      BY <2>3, <2>4, <2>5, <3>1, AnsweredIs
    <3> QED
      BY <2>2, <3>2
  <2>8. /\ IsSeq(s.messages) /\ DOMAIN s.messages = 1 .. 2 /\ Len(s.messages) = 2
        /\ s.messages[1] = m /\ s.messages[2] = x
    BY <2>4, <2>7, AppendIs
  <2>9. DoneBefore(s, Len(s.messages) + 1)
    BY <2>6, <2>8 DEF DoneBefore
  <2>10. ASSUME NEW k \in DOMAIN s.messages, s.messages[k].role = "assistant"
         PROVE  /\ s.messages[k].content.calls \in Seq(Calls)
                /\ AnswersFollow(s, k, Due(s, k))
    <3>1. k = 2 /\ s.messages[k].content.calls = <<>>
      BY <2>2, <2>6, <2>8, <2>10
    <3>2. Due(s, k) = <<>>
      BY <3>1 DEF Due
    <3>3. k + Len(<<>>) + 1 \notin DOMAIN s.messages
      BY <1>2, <2>8, <3>1
    <3> QED
      BY <1>2, <3>1, <3>2, <3>3 DEF AnswersFollow
  <2> QED
    BY <1>2, <2>7, <2>8, <2>9, <2>10, EndIs DEF ReactGood
<1> QED
  BY <1>3, <1>4 DEF Starts

LEMMA GoodStarts ==
  ASSUME flow \in FlowNames, change = 0, NEW s \in Starts(flow)
  PROVE  Good(END, s)
<1>1. /\ IsState(Empty) /\ Empty.messages = <<>> /\ Empty.calls = <<>> /\ Empty.complete = FALSE
      /\ \A k : ~Has(Empty, k)
  BY EmptyIs DEF Has
<1>2. IsSeq(<<>>) /\ DOMAIN <<>> = {} /\ <<>> \in Seq(Calls)
  <2>1. <<>> \in Seq(Calls) /\ DOMAIN <<>> = {}
    OBVIOUS
  <2> QED
    BY <2>1 DEF IsSeq
<1>3. flow \notin {"release", "tenant", "dev", "pipeline", "react"} => s = Empty
  BY DEF Starts
<1>4. CASE flow = "react"
  BY <1>4, ReactStarts, EndIs DEF Good
<1>5. CASE flow = "governance"
  BY <1>1, <1>2, <1>3, <1>5, EndIs DEF Good, GovernanceGood, Guided, OnlyReadsRan
<1>6. CASE flow = "roles"
  <2>1. Get(Empty, "echo") # "fallback"
    BY <1>1, <1>6, NamesAreApart DEF Get, FlowNames, Graph, GraphAt, RolesGraph, CompiledGraph
  <2> QED
    BY <1>1, <1>3, <1>6, <2>1, EndIs DEF Good, RolesGood, Guided
<1>7. CASE flow = "dev"
  <2>1. PICK b \in BOOLEAN : s = Put(Empty, "blocking", b)
    BY <1>7 DEF Starts
  <2>2. IsState(s) /\ Has(s, "blocking") /\ s.ctx["blocking"] = b
    BY <1>1, <2>1, PutIs DEF Has
  <2>3. DevGood(END, s)
    BY <2>1, <2>2, EndIs DEF DevGood
  <2> QED
    BY <1>7, <2>3 DEF Good
<1>8. CASE flow \in {"hitl", "operator"}
  <2>1. Review(Empty) = NoReview /\ IsReview(NoReview)
    BY <1>1 DEF Review, GetOr, NoReview, IsReview
  <2>2. HitlGood(END, s, change, before)
    BY <1>1, <1>3, <1>8, <2>1 DEF HitlGood
  <2> QED
    BY <1>8, <2>2 DEF Good
<1>9. CASE flow = "release"
  <2>1. IsState(s) /\ DOMAIN s.ctx \subseteq {"change_graph"}
        /\ (Has(s, "change_graph") => IsChangeGraph(s.ctx["change_graph"]))
    <3>1. s = Empty \/ \E g \in Changes : s = Put(Empty, "change_graph", g)
      BY <1>9 DEF Starts
    <3>2. CASE s = Empty
      BY <1>1, <3>2, EmptyIs
    <3>3. ASSUME NEW g \in Changes, s = Put(Empty, "change_graph", g)
          PROVE  /\ IsState(s) /\ DOMAIN s.ctx \subseteq {"change_graph"}
                 /\ IsChangeGraph(s.ctx["change_graph"])
      <4>1. IsState(s) /\ DOMAIN s.ctx = {"change_graph"} /\ s.ctx["change_graph"] = g
        BY <3>3, EmptyIs, PutIs
      <4>2. /\ g = ChangeGraph(g.objective, g.changes) /\ DOMAIN g.changes \subseteq Nat
            /\ g.changes = [c \in DOMAIN g.changes |-> Change(g.changes[c].repo, g.changes[c].deps)]
        BY ChangesArePending
      <4>3. ASSUME NEW c \in DOMAIN g.changes
            PROVE  g.changes[c] = [repo |-> g.changes[c].repo, status |-> g.changes[c].status,
                                   deps |-> g.changes[c].deps]
        <5>1. PICK a, d, v : v = [repo |-> a, status |-> "pending", deps |-> d] /\ g.changes[c] = v
          BY <4>2 DEF Change
        <5>2. v = [repo |-> v.repo, status |-> v.status, deps |-> v.deps]
          BY <5>1
        <5> QED
          BY <5>1, <5>2
      <4>4. g.changes = [c \in DOMAIN g.changes |-> g.changes[c]]
        BY <4>2
      <4>5. g = [objective |-> g.objective, changes |-> g.changes]
        BY <4>2 DEF ChangeGraph
      <4> QED
        BY <4>1, <4>2, <4>3, <4>4, <4>5 DEF IsChangeGraph
    <3> QED
      BY <3>1, <3>2, <3>3
  <2>2. ReleaseGood(END, s)
    BY <2>1, EndIs DEF ReleaseGood, Has
  <2> QED
    BY <1>9, <2>2, EndIs DEF Good
<1>10. CASE flow = "enterprise"
  BY <1>1, <1>3, <1>10, EndIs DEF Good, TenantGood
<1>11. CASE flow = "tenant"
  <2>1. PICK r \in EnterpriseSetupNode(Empty, Limit) : s = r.s
    BY <1>11 DEF Starts
  <2>2. IsState(s) /\ Has(s, "cost_budget") /\ Accounts(s, 0, 0)
    BY <1>1, <2>1, SetupOpens
  <2>3. TenantGood(END, s)
    BY <2>2, EndIs DEF TenantGood
  <2> QED
    BY <1>11, <2>3, EndIs DEF Good
<1>12. CASE flow \in {"rag", "worker", "pipeline"}
  BY <1>12, EndIs DEF Good
<1> QED
  BY <1>4, <1>5, <1>6, <1>7, <1>8, <1>9, <1>10, <1>11, <1>12 DEF FlowNames

LEMMA GoodStart ==
  ASSUME flow \in FlowNames, Good(END, kept), MayStart, NEW s \in Inputs(kept),
         NEW t, t = IF R!Traced THEN Attach(s) ELSE s
  PROVE  Good(Graph(flow).entry, t)
<1>1. /\ flow \in RecordedFlows => t = Attach(s)
      /\ flow \notin RecordedFlows => t = s
  BY RecordedIs
<1>2. flow \notin {"react", "governance", "release", "tenant"} => s = kept
  BY DEF Inputs
<1>3. CASE flow = "react"
  <2>1. t = Say(kept, User("question"))
    BY <1>1, <1>3 DEF Inputs, RecordedFlows
  <2>2. Graph(flow).entry = "call_model"
    BY <1>3, FlowTable DEF ReactGraph, CompiledGraph
  <2> QED
    BY <1>3, <2>1, <2>2, ReactStart DEF Good
<1>4. CASE flow = "governance"
  <2>1. PICK calls \in BoundedSeq(Calls, 2) : t = [kept EXCEPT !.calls = calls]
    <3>1. t \in {[kept EXCEPT !.calls = calls] : calls \in BoundedSeq(Calls, 2)}
      BY <1>1, <1>4 DEF Inputs, RecordedFlows
    <3> QED
      BY <3>1
  <2>2. Graph(flow).entry = "gov_init"
    BY <1>4, FlowTable DEF GovernanceGraph, CompiledGraph
  <2> QED
    BY <1>4, <2>1, <2>2, GovernanceStart DEF Good
<1>5. CASE flow = "roles"
  <2>1. t = Attach(kept) /\ Graph(flow).entry = "gov_architect"
    BY <1>1, <1>2, <1>5, FlowTable DEF RecordedFlows, RolesGraph, CompiledGraph
  <2> QED
    BY <1>5, <2>1, RolesStart DEF Good
<1>6. CASE flow = "dev"
  <2>1. t = Attach(kept) /\ Graph(flow).entry = "implement"
    BY <1>1, <1>2, <1>6, FlowTable DEF RecordedFlows, DevGraph, CompiledGraph
  <2> QED
    BY <1>6, <2>1, DevStart DEF Good
<1>7. CASE flow \in {"hitl", "operator"}
  <2>1. t = Attach(kept) /\ Graph(flow).entry = "checkpoint"
    BY <1>1, <1>2, <1>7, FlowTable DEF RecordedFlows, HitlGraph, CompiledGraph
  <2>2. change > 0
    BY <1>7 DEF MayStart
  <2> QED
    BY <1>7, <2>1, <2>2, HitlStart DEF Good
<1>8. CASE flow = "release"
  <2>1. t = Attach(s) /\ s \in ReleaseInputs(kept) /\ Graph(flow).entry = "coordinate"
    BY <1>1, <1>8, FlowTable DEF RecordedFlows, Inputs, ReleaseGraph, CompiledGraph
  <2> QED
    BY <1>8, <2>1, ReleaseStart DEF Good
<1>9. CASE flow \in {"enterprise", "tenant"}
  <2>1. t = s
    BY <1>1, <1>9 DEF RecordedFlows
  <2>2. TenantGood(Graph(flow).entry, s)
    BY <1>9, TenantStart DEF Good
  <2> QED
    BY <1>9, <2>1, <2>2 DEF Good
<1>10. CASE flow \in {"rag", "worker", "pipeline"}
  BY <1>10 DEF Good
<1> QED
  BY <1>3, <1>4, <1>5, <1>6, <1>7, <1>8, <1>9, <1>10 DEF FlowNames

LEMMA GoodStep ==
  ASSUME flow \in FlowNames, NEW n \in Graph(flow).nodes, NEW s, Good(n, s),
         NEW r \in Execute(flow, n, s), r.ok, NEW next \in R!ResolveNext(r.s, n, r.out)
  PROVE  Good(next, r.s)
<1>1. CASE flow = "react"
  BY <1>1, ReactStep DEF Good
<1>2. CASE flow = "governance"
  BY <1>2, GovernanceStep DEF Good
<1>3. CASE flow = "roles"
  BY <1>3, RolesStep DEF Good
<1>4. CASE flow = "dev"
  BY <1>4, DevStep DEF Good
<1>5. CASE flow \in {"hitl", "operator"}
  BY <1>5, HitlStep DEF Good
<1>6. CASE flow = "release"
  BY <1>6, ReleaseStep DEF Good
<1>7. CASE flow \in {"enterprise", "tenant"}
  BY <1>7, TenantStep DEF Good
<1>8. CASE flow \in {"rag", "worker", "pipeline"}
  BY <1>8 DEF Good
<1> QED
  BY <1>1, <1>2, <1>3, <1>4, <1>5, <1>6, <1>7, <1>8 DEF FlowNames

LEMMA GoodStays ==
  ASSUME UNCHANGED <<flow, change, before>>
  PROVE  \A n, s : Good(n, s)' <=> Good(n, s)
BY DEF Good, TenantGood

LEMMA FlowInit == Init => FlowInv
<1> SUFFICES ASSUME Init PROVE FlowInv
  OBVIOUS
<1>1. /\ turn = 0 /\ change = 0 /\ flow \in FlowNames /\ kept \in Starts(flow)
      /\ run = [i \in 1 .. MaxTurns |-> R!NoRun]
  BY FlowsAreNamed DEF Init
<1>2. RunsAreRuns
  BY <1>1 DEF RunsAreRuns, IsRun, R!NoRun
<1>3. \A i \in 1 .. MaxTurns : run[i].status = "idle"
  BY <1>1 DEF R!NoRun, R!Invocation
<1>4. Good(END, kept)
  BY <1>1, GoodStarts
<1> QED
  BY <1>1, <1>2, <1>3, <1>4 DEF FlowInv

\* One invocation changes, and the caller's state may.
LEMMA FlowChanges ==
  ASSUME FlowInv, NEW i \in 1 .. MaxTurns, NEW a, NEW b, NEW c, NEW d,
         run' = [run EXCEPT ![i] = R!Invocation(a, b, c, d)], UNCHANGED <<flow, change, before>>,
         turn' \in Nat, Good(END, kept'),
         a = "running" => Good(b, d), a = "done" => b = END /\ Good(END, d)
  PROVE  FlowInv'
<1>1. \A n, s : Good(n, s)' <=> Good(n, s)
  BY GoodStays
<1>2. RunsAreRuns' /\ run'[i] = R!Invocation(a, b, c, d)
      /\ \A j \in 1 .. MaxTurns : j # i => run'[j] = run[j]
  <2>1. RunsAreRuns
    BY DEF FlowInv
  <2>2. IsRun(R!Invocation(a, b, c, d))
    BY DEF IsRun
  <2> QED
    BY <2>1, <2>2, RunChanges
<1>3. run'[i].status = a /\ run'[i].node = b /\ run'[i].state = d
  BY <1>2 DEF R!Invocation
<1>4. ASSUME NEW j \in 1 .. MaxTurns
      PROVE  /\ run'[j].status = "running" => Good(run'[j].node, run'[j].state)
             /\ run'[j].status = "done" => run'[j].node = END /\ Good(END, run'[j].state)
  <2>1. CASE j = i
    BY <1>3, <2>1
  <2>2. CASE j # i
    BY <1>2, <2>2 DEF FlowInv
  <2> QED
    BY <2>1, <2>2
<1> QED
  BY <1>1, <1>2, <1>4 DEF FlowInv

LEMMA FlowCalls ==
  ASSUME FlowInv, NEW i \in 1 .. MaxTurns, Call(i)
  PROVE  FlowInv'
<1>1. PICK s \in Inputs(kept) : R!Invoke(i, s)
  BY DEF Call
<1>2. PICK t : t = IF R!Traced THEN Attach(s) ELSE s
  OBVIOUS
<1>3. PICK a \in {"running", "failed"} : run' = [run EXCEPT ![i] = R!Invocation(a, Graph(flow).entry, 0, t)]
  BY <1>1, <1>2 DEF R!Invoke
<1>4. /\ MayStart /\ flow \in FlowNames /\ Good(END, kept) /\ UNCHANGED <<flow, change, before>>
      /\ kept' = kept /\ turn' \in Nat
  BY DEF Call, FlowInv
<1>5. Good(Graph(flow).entry, t)
  BY <1>2, <1>4, GoodStart
<1> QED
  BY <1>3, <1>4, <1>5, FlowChanges

LEMMA FlowReturns ==
  ASSUME FlowInv, NEW i \in 1 .. MaxTurns, Return(i)
  PROVE  FlowInv'
<1>1. /\ run' = [run EXCEPT ![i] = R!Invocation("idle", None, 0, None)]
      /\ UNCHANGED <<flow, change, before>> /\ turn' \in Nat
      /\ kept' = IF run[i].status = "done" THEN run[i].state ELSE kept
  BY DEF Return, R!NoRun, FlowInv
<1>2. Good(END, kept')
  BY <1>1 DEF FlowInv
<1> QED
  BY <1>1, <1>2, FlowChanges

LEMMA FlowRuns ==
  ASSUME FlowInv, NEW i \in 1 .. MaxTurns, Run(i)
  PROVE  FlowInv'
<1>1. /\ RunsAreRuns /\ flow \in FlowNames /\ turn \in Nat /\ Good(END, kept)
      /\ run[i].status = "running" => Good(run[i].node, run[i].state)
  BY DEF FlowInv
<1>2. CASE Ends(i)
  <2>1. PICK a \in {"done", "limit", "failed"} :
          /\ run' = [run EXCEPT ![i] = R!Invocation(a, run[i].node, run[i].iterations, run[i].state)]
          /\ a = "done" => run[i].node = END
    BY <1>2 DEF Ends
  <2>2. run[i].status = "running" /\ UNCHANGED <<flow, kept, turn, change, before>>
    BY <1>2 DEF Ends
  <2>3. a = "done" => run[i].node = END /\ Good(END, run[i].state)
    BY <1>1, <2>1, <2>2
  <2> QED
    BY <1>1, <2>1, <2>2, <2>3, FlowChanges
<1>3. CASE R!Step(i) /\ UNCHANGED <<flow, kept, turn, change, before>>
  <2>1. run[i].status = "running" /\ run[i].node \in Graph(flow).nodes
    BY <1>3 DEF R!Step, R!MayExecute
  <2>2. PICK r \in Execute(flow, run[i].node, run[i].state) :
          /\ r.ok
          /\ \E next \in R!ResolveNext(r.s, run[i].node, r.out) :
               run' = [run EXCEPT ![i] = R!Invocation("running", next, run[i].iterations + 1, r.s)]
    BY <1>3 DEF R!Step
  <2>3. PICK next \in R!ResolveNext(r.s, run[i].node, r.out) :
          run' = [run EXCEPT ![i] = R!Invocation("running", next, run[i].iterations + 1, r.s)]
    BY <2>2
  <2>4. Good(next, r.s)
    BY <1>1, <2>1, <2>2, GoodStep
  <2> QED
    BY <1>1, <1>3, <2>3, <2>4, FlowChanges
<1> QED
  BY <1>1, <1>2, <1>3, RunCases

\* Between runs, the operator.
LEMMA FlowOperates ==
  ASSUME FlowInv, NewChange \/ Operate
  PROVE  FlowInv'
<1>1. /\ flow \in {"hitl", "operator"} /\ Idle /\ UNCHANGED <<flow, run, turn>>
  BY DEF NewChange, Operate, Reviewed, Keep
<1>2. /\ RunsAreRuns /\ turn \in Nat /\ change \in Nat /\ flow \in FlowNames
      /\ HitlGood(END, kept, change, before)
  BY <1>1 DEF FlowInv, Good
<1>3. HitlGood(END, kept, change, before)' /\ change' \in Nat
  <2>1. CASE NewChange
    BY <1>1, <1>2, <2>1, HitlChanges
  <2>2. CASE Operate
    <3>1. change' = change
      BY <2>2 DEF Operate
    <3> QED
      BY <1>1, <1>2, <2>2, <3>1, HitlOperates
  <2> QED
    BY <2>1, <2>2
<1>4. Good(END, kept)'
  BY <1>1, <1>3, EndIs DEF Good
<1>5. \A i \in 1 .. MaxTurns : run'[i].status = "idle"
  BY <1>1 DEF Idle
<1>6. RunsAreRuns'
  BY <1>1, <1>2 DEF RunsAreRuns
<1> QED
  BY <1>1, <1>2, <1>3, <1>4, <1>5, <1>6 DEF FlowInv

LEMMA FlowNext == FlowInv /\ [Next]_vars => FlowInv'
<1> SUFFICES ASSUME FlowInv, [Next]_vars PROVE FlowInv'
  OBVIOUS
<1>1. CASE \E i \in 1 .. MaxTurns : Call(i) \/ Return(i) \/ Run(i)
  BY <1>1, FlowCalls, FlowReturns, FlowRuns
<1>2. CASE NewChange \/ Operate
  BY <1>2, FlowOperates
<1>3. CASE UNCHANGED vars
  <2>1. UNCHANGED <<flow, run, kept, turn, change, before>>
    BY <1>3 DEF vars
  <2>2. \A n, s : Good(n, s)' <=> Good(n, s)
    BY <2>1, GoodStays
  <2>3. RunsAreRuns'
    BY <2>1 DEF FlowInv, RunsAreRuns
  <2> QED
    BY <2>1, <2>2, <2>3 DEF FlowInv
<1> QED
  BY <1>1, <1>2, <1>3 DEF Next

LEMMA FlowAlways == Spec => []FlowInv
BY FlowInit, FlowNext, PTL DEF Spec
-----------------------------------------------------------------------------
(* What the workflows promise. *)

LEMMA StatesAreGood ==
  ASSUME FlowInv, NEW s \in States
  PROVE  \E n : Good(n, s)
<1>1. CASE s = kept
  BY <1>1 DEF FlowInv
<1>2. CASE s # kept
  <2>1. PICK i \in 1 .. MaxTurns : Under(i) /\ s = run[i].state
    BY <1>2 DEF States
  <2> QED
    BY <2>1 DEF FlowInv, Under
<1> QED
  BY <1>1, <1>2

\* CallsAreAnswered, for every set of tools' calls and answers of the model and any
\* number of turns: until it is done the agent of examples/react_agent.rs never asks its
\* model again with a call unanswered; from then on it answers none, whatever the model
\* calls for in later turns; and no tool message answers what was not called (LLMNode,
\* ToolNode, the router).
THEOREM CallsAnswered == Spec => []CallsAreAnswered
<1>1. FlowInv => CallsAreAnswered
  <2> SUFFICES ASSUME FlowInv, flow = "react", NEW s \in States, NEW k \in DOMAIN s.messages,
                      s.messages[k].role = "assistant"
               PROVE  IF s.calls # <<>> /\ k = Len(s.messages)
                      THEN s.messages[k].content.calls = s.calls
                      ELSE AnswersFollow(s, k, Due(s, k))
    BY DEF CallsAreAnswered
  <2>1. PICK n : ReactGood(n, s)
    BY StatesAreGood DEF Good
  <2> QED
    BY <2>1 DEF ReactGood
<1> QED
  BY <1>1, FlowAlways, PTL

\* GuidanceIsCurrent, for all calls a caller may make: a role never stands beside the
\* guidance of another, no call of the architect's but a read has run, and the role
\* router does not fall back (GovernanceNode, RoleHandoffNode, ToolNode, RoleRouterNode).
THEOREM GuidanceCurrent == Spec => []GuidanceIsCurrent
<1>1. FlowInv => GuidanceIsCurrent
  <2> SUFFICES ASSUME FlowInv, flow \in {"governance", "roles"}, NEW s \in States
               PROVE  /\ Has(s, "agent_role") =>
                           /\ s.ctx["governance_guidance"] =
                                ComposeGuidance(IF flow = "roles" THEN RolesManifest
                                                ELSE GovernanceManifest, s.ctx["agent_role"])
                           /\ s.ctx["role_system_prompt"] = Preamble(s.ctx["agent_role"])
                      /\ \A k \in DOMAIN s.messages :
                           /\ flow = "governance" /\ s.messages[k].role = "tool"
                           /\ s.messages[k].content \in Ran
                           => \A c \in Calls : c.id = s.messages[k].call => c.name = "read_file"
                      /\ "fallback" # Get(s, "echo")
    BY DEF GuidanceIsCurrent
  <2>1. PICK n : Good(n, s)
    BY StatesAreGood
  <2>2. CASE flow = "governance"
    <3>1. GovernanceGood(n, s)
      BY <2>1, <2>2 DEF Good
    <3>2. None # "fallback"
      BY NamesAreApart DEF FlowNames, Graph, GraphAt, RolesGraph, CompiledGraph
    <3>3. Get(s, "echo") = None
      BY <3>1 DEF GovernanceGood, Get
    <3> QED
      BY <2>2, <3>1, <3>2, <3>3 DEF GovernanceGood, Guided, OnlyReadsRan
  <2>3. CASE flow = "roles"
    <3>1. RolesGood(n, s)
      BY <2>1, <2>3 DEF Good
    <3> QED
      BY <2>3, <3>1 DEF RolesGood, Guided
  <2> QED
    BY <2>2, <2>3
<1> QED
  BY <1>1, FlowAlways, PTL

LEMMA SinceIsAfter == \A events : Since(events) = After(before, events)
BY DEF Since, After

\* What stands before ship, as it was let through.
LEMMA ShipsWhatWasLetThrough ==
  ASSUME NEW s, ReviewIsOf(s, before), LetThrough(s)
  PROVE  LET review == Review(s)
             request == Get(s, "approval_request")
             summary == Get(s, "change_summary")
         IN  IF review.decision = NoDecision THEN Get(s, "change_risk_level") = "low"
             ELSE /\ review.decision = [request |-> request.id, verdict |-> "approved"]
                  /\ IsLastWord(review.decision, review.log)
                  /\ Created(request.id) \in Since(review.log) =>
                       summary = request.summary \/ Edited(summary) \in ToSet(review.log)
<1>1. /\ Get(s, "change_risk_level") = s.ctx["change_risk_level"]
      /\ Get(s, "change_summary") = s.ctx["change_summary"]
  BY DEF ReviewIsOf, Get, Has
<1>2. CASE Review(s).decision = NoDecision
  BY <1>1, <1>2 DEF LetThrough
<1>3. CASE Review(s).decision # NoDecision
  <2>1. PICK r, y, q : /\ r = Review(s) /\ y = s.ctx["change_summary"]
                       /\ q = s.ctx["approval_request"]
    OBVIOUS
  <2>2. ReviewFits(r, y, Has(s, "approval_request"), q, before)
    BY <2>1 DEF ReviewIsOf
  <2>3. /\ Has(s, "approval_request") /\ r.request = q.id
        /\ IsLastWord(r.decision, r.log)
        /\ Created(q.id) \in After(before, r.log) => y = q.summary \/ Edited(y) \in ToSet(r.log)
    BY <1>3, <2>1, <2>2 DEF ReviewFits
  <2>4. PICK v : r.decision = [request |-> q.id, verdict |-> v]
    BY <1>3, <2>1, <2>2, <2>3 DEF ReviewFits
  <2>5. r.decision = [request |-> q.id, verdict |-> "approved"]
    BY <1>3, <2>1, <2>4 DEF LetThrough
  <2>6. Get(s, "approval_request") = q
    BY <2>1, <2>3 DEF Get
  <2> QED
    BY <1>1, <1>3, <2>1, <2>3, <2>5, <2>6, SinceIsAfter
<1> QED
  BY <1>2, <1>3

\* ApprovalsStand, for every number of runs and changes and any order of what the
\* operator does: a run that stands before ship was let through by the policy or by an
\* approval that is the last word on its request; an approval asked for since the change
\* was put up is for what ships, but for edits (ApprovalCheckpointNode,
\* GrantApprovalNode, HitlController, QualityGateNode).
THEOREM ApprovalsHold == Spec => []ApprovalsStand
<1>1. FlowInv => ApprovalsStand
  <2> SUFFICES ASSUME FlowInv, NEW i \in 1 .. MaxTurns, NEW s, s = run[i].state
               PROVE  /\ Ships(i, {"dev"}) =>
                           /\ s.ctx["change_risk_level"] = "low" /\ ~s.ctx["merge_blocker"]
                           /\ s.ctx["blocking"] => s.ctx["gate_passed"]
                      /\ Ships(i, {"hitl", "operator"}) =>
                           LET review == Review(s)
                               request == Get(s, "approval_request")
                               summary == Get(s, "change_summary")
                           IN  IF review.decision = NoDecision
                               THEN Get(s, "change_risk_level") = "low"
                               ELSE /\ review.decision = [request |-> request.id, verdict |-> "approved"]
                                    /\ IsLastWord(review.decision, review.log)
                                    /\ Created(request.id) \in Since(review.log) =>
                                         \/ summary = request.summary
                                         \/ Edited(summary) \in ToSet(review.log)
    BY DEF ApprovalsStand
  <2>1. run[i].status = "running" /\ run[i].node = "ship" => Good("ship", s)
    BY DEF FlowInv
  <2>2. ASSUME Ships(i, {"dev"})
        PROVE  /\ s.ctx["change_risk_level"] = "low" /\ ~s.ctx["merge_blocker"]
               /\ s.ctx["blocking"] => s.ctx["gate_passed"]
    BY <2>1, <2>2 DEF Ships, Good, DevGood
  <2>3. ASSUME Ships(i, {"hitl", "operator"}) PROVE ReviewIsOf(s, before) /\ LetThrough(s)
    <3>1. HitlGood("ship", s, change, before)
      BY <2>1, <2>3 DEF Ships, Good
    <3> QED
      BY <3>1, ShipIsNoEnd DEF HitlGood
  <2> QED
    BY <2>2, <2>3, ShipsWhatWasLetThrough
<1> QED
  BY <1>1, FlowAlways, PTL

\* ReleaseIsJustified, for every change graph a rollout may start with: a change is
\* worked on only when all it depends on has passed, and nothing is released behind a
\* change that has not, or on a report that is not green (MultiRepoCoordinatorNode,
\* CompleteRepoChangeNode, CiAggregateNode, ReleaseGateNode).
THEOREM ReleaseJustified == Spec => []ReleaseIsJustified
<1>1. FlowInv => ReleaseIsJustified
  <2> SUFFICES ASSUME FlowInv, flow = "release", NEW i \in 1 .. MaxTurns, run[i].status = "running",
                      NEW s, s = run[i].state
               PROVE  /\ Has(s, "current_repo_change") =>
                           s.ctx["change_graph"].changes[s.ctx["current_repo_change"]].deps
                             \subseteq StatusIn(s.ctx["change_graph"], Done)
                      /\ run[i].node = "released" =>
                           /\ StatusIn(s.ctx["change_graph"], Done) = DOMAIN s.ctx["change_graph"].changes
                           /\ \/ AllReleased(s.ctx["change_graph"])
                              \/ /\ s.ctx["ci_signals"] # <<>>
                                 /\ \A k \in DOMAIN s.ctx["ci_signals"] :
                                      s.ctx["ci_signals"][k].conclusion \in {"success", "skipped"}
    BY DEF ReleaseIsJustified
  <2>1. ReleaseGood(run[i].node, s)
    BY DEF FlowInv, Good
  <2> QED
    BY <2>1 DEF ReleaseGood, GreenSignals
<1> QED
  BY <1>1, FlowAlways, PTL

\* SpendingIsControlled, for every number of runs: what a tenant spent is what its
\* recorded runs cost and within its limit, no more of them than were let in, and the
\* audit log is a chain that lets in nobody of another tenant (TenantGuardNode,
\* BudgetGuardNode, SloRecordNode, AuditLog::append).
THEOREM SpendingControlled == Spec => []SpendingIsControlled
<1>1. FlowInv => SpendingIsControlled
  <2> SUFFICES ASSUME FlowInv, flow \in {"tenant", "enterprise"}
               PROVE  /\ Has(kept, "cost_budget") => SpendingIsAccounted(kept, 0)
                      /\ \A i \in 1 .. MaxTurns : Under(i) /\ Has(run[i].state, "cost_budget") =>
                           SpendingIsAccounted(run[i].state, IF run[i].node = "slo_record" THEN 1 ELSE 0)
    BY DEF SpendingIsControlled
  <2>1. ASSUME NEW n, NEW s, Good(n, s), Has(s, "cost_budget")
        PROVE  SpendingIsAccounted(s, IF n = "slo_record" THEN 1 ELSE 0)
    BY <2>1 DEF Good, TenantGood, Accounts
  <2>2. Has(kept, "cost_budget") => SpendingIsAccounted(kept, 0)
    BY <2>1, EndIs DEF FlowInv
  <2>3. ASSUME NEW i \in 1 .. MaxTurns, Under(i), Has(run[i].state, "cost_budget")
        PROVE  SpendingIsAccounted(run[i].state, IF run[i].node = "slo_record" THEN 1 ELSE 0)
    <3>1. Good(run[i].node, run[i].state)
      BY <2>3 DEF FlowInv, Under
    <3> QED
      BY <2>1, <2>3, <3>1
  <2> QED
    BY <2>2, <2>3
<1> QED
  BY <1>1, FlowAlways, PTL
=============================================================================
