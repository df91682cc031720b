-------------------------------- MODULE Flows --------------------------------
(* The workflows of examples/ and one more: their graphs, their own nodes, and   *)
(* what the callers put into the state before a run.                             *)
EXTENDS Governance, QualityGates, Approvals, Releases, Enterprise

CONSTANTS Flows,        \* the workflows looked at
          Answers,      \* what the model may answer
          Calls,        \* the tool calls a caller or a model makes
          Changes       \* the change graph a rollout starts with

Registry == {"shell", "read_file", "get_weather"}

Edge(from, to) == [from |-> from, key |-> NoKey, kind |-> "direct", to |-> {to}]
EdgeWithKey(from, to, key) == [from |-> from, key |-> key, kind |-> "direct", to |-> {to}]
ConditionalEdge(from, to) == [from |-> from, key |-> NoKey, kind |-> "conditional", to |-> {to}]
CompiledGraph(nodes, entry, edges) == [nodes |-> nodes, entry |-> entry, edges |-> edges]
-----------------------------------------------------------------------------
\* examples/react_agent.rs. Its tools are not in the default policy, and have a
\* timeout here; the model answers through LLMNode, which does what the example's
\* node does.
ReactGraph(s) == CompiledGraph({"call_model", "execute_tools"}, "call_model",
    <<ConditionalEdge("call_model", AgentRouter(s, "execute_tools")),
      Edge("execute_tools", "call_model")>>)
ReactNode(n, s) ==
    CASE n = "call_model" -> LLMNode(s, Answers)
      [] n = "execute_tools" -> ToolNode(s, Registry, None, TRUE)

\* examples/governance_workflow.rs
GovernanceManifest == <<<<"text", "preface">>, <<"tag", "all">>, <<"text", "system-wide">>,
                        <<"tag", "architect">>, <<"text", "plan">>,
                        <<"tag", "builder">>, <<"text", "implement">>>>
GovernanceGraph == CompiledGraph({"gov_init", "tools", "to_builder", "done"}, "gov_init",
    <<Edge("gov_init", "tools"), Edge("tools", "to_builder"), Edge("to_builder", "done")>>)
GovernanceFlowNode(n, s) ==
    CASE n = "gov_init" -> GovernanceNode(s, GovernanceManifest, "architect")
      [] n = "tools" -> ToolNode(s, Registry, None, TRUE)
      [] n = "to_builder" -> RoleHandoffNode(s, GovernanceManifest, "builder")
      [] n = "done" -> StaticTransitionNode(s, END)

\* examples/role_orchestration_workflow.rs
RolesManifest == GovernanceManifest \o <<<<"tag", "auditor">>, <<"text", "verify">>>>
RolesGraph == CompiledGraph(
    {"gov_architect", "plan", "handoff_builder", "build", "handoff_auditor", "role_route",
     "audit_lane", "fallback", "done"}, "gov_architect",
    <<Edge("gov_architect", "plan"), Edge("plan", "handoff_builder"),
      Edge("handoff_builder", "build"), Edge("build", "handoff_auditor"),
      Edge("handoff_auditor", "role_route"), EdgeWithKey("role_route", "audit_lane", "auditor"),
      EdgeWithKey("role_route", "fallback", "default"), Edge("audit_lane", "done"),
      Edge("fallback", "done"), Edge("done", END)>>)
RolesNode(n, s) ==
    CASE n = "gov_architect" -> GovernanceNode(s, RolesManifest, "architect")
      [] n = "plan" -> EchoNode(s, "design_note", "note")
      [] n = "handoff_builder" -> RoleHandoffNode(s, RolesManifest, "builder")
      [] n = "build" -> EchoNode(s, "change_summary", "landed")
      [] n = "handoff_auditor" -> RoleHandoffNode(s, RolesManifest, "auditor")
      [] n = "role_route" -> RoleRouterNode(s, "default")
      [] OTHER -> EchoNode(s, "echo", n)
-----------------------------------------------------------------------------
\* examples/autonomous_dev_workflow.rs, with a second check that may fail, and
\* one that is not allowed.
DevChecks == <<[name |-> "echo_check", program |-> "listed", arg |-> "plain"],
               [name |-> "test", program |-> "listed", arg |-> "plain"]>>
DevRisks == {NoRisk, [NoRisk EXCEPT !.files = "more"], [NoRisk EXCEPT !.git = TRUE]}
DevGraph == CompiledGraph(
    {"implement", "quality_gate", "ship", "human_review", "review", "fix_loop", "done"},
    "implement",
    <<Edge("implement", "quality_gate"), EdgeWithKey("quality_gate", "ship", "passed"),
      EdgeWithKey("quality_gate", "human_review", "needs_approval"),
      EdgeWithKey("quality_gate", "review", "review"),
      EdgeWithKey("quality_gate", "fix_loop", "gate_failed"), Edge("review", "done"),
      Edge("done", END), Edge("fix_loop", "implement")>>)
DevNode(n, s) ==
    CASE n = "implement" -> ImplementNode(s, DevRisks)
      [] n = "quality_gate" ->
           QualityGateNode(s, [checks |-> DevChecks, blockOnFailure |-> Get(s, "blocking")],
                           {"listed"})
      [] n \in {"ship", "human_review"} -> StaticTransitionNode(s, "done")
      [] n = "fix_loop" -> StaticTransitionNode(s, "implement")
      [] OTHER -> EchoNode(s, "echo", n)

\* examples/hitl_workflow.rs; for an operator outside the graph the run ends at
\* wait instead.
HitlGraph(waits) == CompiledGraph({"checkpoint", "wait", "apply_edits", "grant", "ship"},
    "checkpoint",
    <<EdgeWithKey("checkpoint", "wait", "awaiting_approval"),
      EdgeWithKey("checkpoint", "ship", "approved"),
      Edge("wait", IF waits THEN END ELSE "apply_edits"), Edge("apply_edits", "grant"),
      Edge("grant", "checkpoint"), Edge("ship", END)>>)
HitlNode(n, s, matrix) ==
    CASE n = "checkpoint" -> ApprovalCheckpointNode(s, matrix)
      [] n = "apply_edits" -> EditInterventionNode(s)
      [] n = "grant" -> GrantApprovalNode(s)
      [] OTHER -> EchoNode(s, "echo", n)

\* examples/multirepo_cicd_workflow.rs
ReleaseGraph == CompiledGraph(
    {"coordinate", "complete_change", "aggregate_ci", "release_gate", "released", "blocked"},
    "coordinate",
    <<EdgeWithKey("coordinate", "complete_change", "execute_change"),
      EdgeWithKey("coordinate", "released", "complete"),
      EdgeWithKey("coordinate", "blocked", "blocked"), Edge("complete_change", "coordinate"),
      Edge("coordinate", "aggregate_ci"), EdgeWithKey("aggregate_ci", "release_gate", "ci_passed"),
      EdgeWithKey("aggregate_ci", "blocked", "ci_failed"),
      EdgeWithKey("release_gate", "released", "release_approved"),
      EdgeWithKey("release_gate", "blocked", "release_blocked"),
      Edge("released", END), Edge("blocked", END)>>)
ReleaseNode(n, s) ==
    CASE n = "coordinate" -> MultiRepoCoordinatorNode(s)
      [] n = "complete_change" -> CompleteRepoChangeNode(s)
      [] n = "aggregate_ci" -> CiAggregateNode(s)
      [] n = "release_gate" -> ReleaseGateNode(s)
      [] OTHER -> EchoNode(s, "echo", n)

\* examples/enterprise_workflow.rs; a tenant's later runs start past the setup.
Cost == 2
Limit == 3
EnterpriseGraph(entry) == CompiledGraph(
    {"enterprise_setup", "tenant_guard", "secret_scope", "budget_guard", "slo_record",
     "audit_export", "complete", "blocked"}, entry,
    <<Edge("enterprise_setup", "tenant_guard"), EdgeWithKey("tenant_guard", "secret_scope", "allowed"),
      EdgeWithKey("tenant_guard", "blocked", "denied"),
      EdgeWithKey("secret_scope", "budget_guard", "scoped"),
      EdgeWithKey("secret_scope", "blocked", "missing_scope"),
      EdgeWithKey("budget_guard", "slo_record", "within_budget"),
      EdgeWithKey("budget_guard", "blocked", "over_budget"), Edge("slo_record", "audit_export"),
      EdgeWithKey("audit_export", "complete", "exported"),
      EdgeWithKey("audit_export", "blocked", "failed_checks"), Edge("complete", END),
      Edge("blocked", END)>>)
EnterpriseNode(n, s) ==
    CASE n = "enterprise_setup" -> EnterpriseSetupNode(s, Limit)
      [] n = "tenant_guard" -> TenantGuardNode(s, GetOr(s, "permission", "execute"))
      [] n = "secret_scope" -> SecretScopeNode(s, "git:read")
      [] n = "budget_guard" -> BudgetGuardNode(s, Cost)
      [] n = "slo_record" -> SloRecordNode(s, "workflow_success", TRUE)
      [] n = "audit_export" -> AuditExportNode(s)
      [] OTHER -> EchoNode(s, "echo", n)

\* examples/rag_workflow.rs
RagGraph == CompiledGraph({"rag_retrieval", "rag_generation"}, "rag_retrieval",
    <<Edge("rag_retrieval", "rag_generation"), Edge("rag_generation", END)>>)
RagNode(n, s) ==
    CASE n = "rag_retrieval" -> {Result(Put(s, "retrieved_context", <<"about", Get(s, "query")>>), Cont)}
      [] n = "rag_generation" ->
           LET answer == <<"based on", Get(s, "retrieved_context")>>
           IN  {Result(Say(Put(s, "response", answer), Assistant(answer)), Finish)}

\* The workers of examples/streaming_events.rs name their successors.
Workers == <<"fetch", "process", "transform", "save">>
WorkerGraph == CompiledGraph({Workers[k] : k \in DOMAIN Workers}, Workers[1], <<>>)
WorkerNode(n, s) ==
    LET k == CHOOSE j \in DOMAIN Workers : Workers[j] = n
    IN  {Result(Put(s, "processed", GetOr(s, "processed", 0) + 1),
                IF k = Len(Workers) THEN Finish ELSE ContinueTo(Workers[k + 1]))}

\* No program's: a graph that puts the crate's own nodes to use, those that no
\* example has, and one node that does what any node may.
PipelineGraph == CompiledGraph(
    {"router", "pause", "ask", "choose", "work", "static", "echo", "jump", "stop"}, "router",
    <<Edge("pause", "ask"), Edge("work", "stop"), EdgeWithKey("work", "router", "retry"),
      Edge("echo", END)>>)
PipelineNode(n, s) ==
    CASE n = "router" -> ContextRouterNode(s, "topic", [a |-> "pause", b |-> "choose"], "jump")
      [] n = "pause" -> DelayNode(s)
      [] n = "ask" -> ConditionalNode(s, HasToolCalls(s), "work", END)
      [] n = "choose" -> BranchNode(s, <<[holds |-> IsComplete(s), target |-> END],
                                         [holds |-> ContextBool(s, "urgent"), target |-> "work"]>>,
                                    "jump")
      [] n = "work" -> {Result(MarkComplete(s), o) :
                          o \in {Cont, ContinueTo(END), ContinueTo("gone"), RouteTo("static"),
                                 Transition("retry"), Transition("nowhere")}}
                       \cup {Failure(s), Result(Unset(s, "topic"), Cont)}
      [] n = "static" -> StaticTransitionNode(s, "echo")
      [] n = "echo" -> EchoNode(s, "echo", "hello")
      [] n = "jump" -> RouteToNode(s, "echo")
      [] n = "stop" -> FinishNode(s)
-----------------------------------------------------------------------------
GraphAt(flow, s) ==
    CASE flow = "react" -> ReactGraph(s)
      [] flow = "governance" -> GovernanceGraph
      [] flow = "roles" -> RolesGraph
      [] flow = "dev" -> DevGraph
      [] flow = "hitl" -> HitlGraph(FALSE)
      [] flow = "operator" -> HitlGraph(TRUE)
      [] flow = "release" -> ReleaseGraph
      [] flow = "enterprise" -> EnterpriseGraph("enterprise_setup")
      [] flow = "tenant" -> EnterpriseGraph("tenant_guard")
      [] flow = "rag" -> RagGraph
      [] flow = "worker" -> WorkerGraph
      [] flow = "pipeline" -> PipelineGraph

Graph(flow) == GraphAt(flow, Empty)
EdgesAt(flow, s) == GraphAt(flow, s).edges

Execute(flow, n, s) ==
    CASE flow = "react" -> ReactNode(n, s)
      [] flow = "governance" -> GovernanceFlowNode(n, s)
      [] flow = "roles" -> RolesNode(n, s)
      [] flow = "dev" -> DevNode(n, s)
      [] flow = "hitl" -> HitlNode(n, s, DefaultMatrix)
      [] flow = "operator" -> HitlNode(n, s, DenyHigh)
      [] flow = "release" -> ReleaseNode(n, s)
      [] flow \in {"enterprise", "tenant"} -> EnterpriseNode(n, s)
      [] flow = "rag" -> RagNode(n, s)
      [] flow = "worker" -> WorkerNode(n, s)
      [] flow = "pipeline" -> PipelineNode(n, s)

FlowNames == {"react", "governance", "roles", "dev", "hitl", "operator", "release", "enterprise",
              "tenant", "rag", "worker", "pipeline"}
ASSUME FlowsAreNamed == Flows \subseteq FlowNames

\* The keys the nodes answer with, apart from continuing.
RouteKeys ==
    {"passed", "needs_approval", "review", "gate_failed", "awaiting_approval", "approved", "denied",
     "execute_change", "complete", "blocked", "ci_passed", "ci_failed", "release_approved",
     "release_blocked", "allowed", "scoped", "missing_scope", "within_budget", "over_budget",
     "exported", "failed_checks", "default", "retry", "nowhere"} \cup NamedRoles \cup CustomRoles

\* The names and keys of the crate itself are none a workflow uses.
ASSUME NamesAreApart ==
    /\ None # END /\ None \notin NamedRoles \cup CustomRoles
    /\ \A f \in FlowNames : {None, END} \cap (Graph(f).nodes \cup {"gone"}) = {}
ASSUME KeysAreApart == NoKey # CONTINUE /\ {NoKey, CONTINUE} \cap RouteKeys = {}

\* The id of a call is that of one tool's.
ASSUME IdsNameTools == \A c, d \in Calls : c.id = d.id => c.name = d.name
ASSUME AnswersCallTools == \A r \in Answers : r.calls \in Seq(Calls)

\* A rollout starts with nothing done.
ASSUME ChangesArePending == \A g \in Changes :
    /\ g = ChangeGraph(g.objective, g.changes) /\ DOMAIN g.changes \subseteq Nat
    /\ g.changes = [c \in DOMAIN g.changes |-> Change(g.changes[c].repo, g.changes[c].deps)]

\* What runs the graph.
Host(flow) == IF flow \in {"roles", "dev", "hitl", "operator", "release", "pipeline"}
              THEN "traced" ELSE "graph"
Valid(flow, s) ==
    flow = "pipeline" => Validate(s, {"topic"}, [topic |-> {"a", "b", "c"}])

\* attach_run_context
Attach(s) == Put(s, "run_id", "run")
=============================================================================
