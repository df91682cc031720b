------------------------------ MODULE Workflows ------------------------------
(* A caller runs a workflow, keeps the state it gets back and runs it again.     *)
(* Invoking moves a copy in: a run that fails leaves the caller what it had. Of  *)
(* the pipeline, two invocations of one runner may be under way at a time.        *)
EXTENDS Flows

CONSTANTS MaxTurns,     \* invocations in a behaviour
          MaxChanges,   \* changes put up for review
          MaxEvents,    \* approval events up to which the operator acts
          MaxVisits(_)  \* RunnerConfig::max_iterations, by flow

VARIABLES flow,
          run,          \* run[i]: invocation i
          log,          \* the runner's transition log
          kept,         \* the caller's state
          turn,         \* the last invocation made
          change,       \* the last change put up for review
          before        \* for the properties: events in the approval log before it

vars == <<flow, run, log, kept, turn, change, before>>

R == INSTANCE TracedRunner WITH Invocations <- 1 .. MaxTurns, MaxIterations <- MaxVisits

\* What the caller starts with.
Starts(f) ==
    CASE f = "release" -> {Put(Empty, "change_graph", g) : g \in Changes} \cup {Empty}
      [] f = "tenant" -> {r.s : r \in EnterpriseSetupNode(Empty, Limit)}
      [] f = "dev" -> {Put(Empty, "blocking", b) : b \in BOOLEAN}
      [] f = "pipeline" -> {Put([Empty EXCEPT !.calls = calls], "topic", t) :
                              calls \in {<<>>, <<CHOOSE c \in Calls : TRUE>>},
                              t \in {"a", "b", "c", "mistyped"}}
                           \cup {PutAll(Empty, [topic |-> "b", urgent |-> TRUE])}
      [] f = "react" -> {Empty, Answered(Say(Empty, User("earlier")), Response("bye", <<>>))}
      [] OTHER -> {Empty}

Init ==
    /\ flow \in Flows
    /\ run = [i \in 1 .. MaxTurns |-> R!NoRun]
    /\ log = <<>> /\ turn = 0 /\ change = 0 /\ before = 0
    /\ kept \in Starts(flow)

Idle == \A i \in 1 .. MaxTurns : run[i].status = "idle"
MayStart == /\ turn < MaxTurns /\ (Idle \/ flow = "pipeline")
            /\ flow \in {"hitl", "operator"} => change > 0

\* What a caller invokes with: the state it kept, and its next question.
Signals == {<<>>} \cup {<<Signal("a", x), Signal("b", y)>> : x, y \in {"success", "failure", "pending"}}
           \cup {<<Signal("b", "skipped")>>}
Rollouts(s) ==
    {s.ctx["change_graph"]} \cup
    {MarkStatus(s.ctx["change_graph"], c, status) :
       c \in DOMAIN s.ctx["change_graph"].changes, status \in {"ci_failed", "released", "pending"}}
ReleaseInputs(s) ==
    IF ~Has(s, "change_graph") THEN {s}
    ELSE {PutAll(s, [change_graph |-> g, ci_signals |-> x]) : g \in Rollouts(s), x \in Signals}
TenantInputs(s) ==
    {PutAll(s, [rbac_subject |-> Subject(t, {role}), permission |-> p]) :
       t \in {"acme", "other"}, role \in RbacRoles, p \in {"execute", "manage_secrets"}}
Inputs(s) ==
    CASE flow = "react" -> {Say(s, User("question"))}
      [] flow = "governance" -> {[s EXCEPT !.calls = calls] : calls \in BoundedSeq(Calls, 2)}
      [] flow = "release" -> ReleaseInputs(s)
      [] flow = "tenant" -> TenantInputs(s)
      [] OTHER -> {s}

Call(i) ==
    /\ MayStart /\ i = turn + 1
    /\ \E s \in Inputs(kept) : R!Invoke(i, s)
    /\ turn' = i
    /\ UNCHANGED <<flow, log, kept, change, before>>

\* The runner answers: the final state, or an error without one.
Return(i) ==
    /\ run[i].status \in {"done", "failed", "limit"}
    /\ kept' = IF run[i].status = "done" THEN run[i].state ELSE kept
    /\ run' = [run EXCEPT ![i] = R!NoRun]
    /\ UNCHANGED <<flow, log, turn, change, before>>

Run(i) == R!RunNext(i) /\ UNCHANGED <<flow, kept, turn, change, before>>
-----------------------------------------------------------------------------
(* Between runs, the operator of the review workflows. *)

Summaries == <<"change 1", "change 2", "change 3">>
Edits == <<"edit 1", "edit 2", "edit 3">>

Reviewed == flow \in {"hitl", "operator"} /\ Idle

Keep(s) == kept' = s /\ UNCHANGED <<flow, run, log, turn>>

\* The next change is put up in the state there is: the request, the decision and
\* the edits of the last one stay where they are.
NewChange ==
    /\ Reviewed /\ change < MaxChanges
    /\ \E risk \in {"low", "medium", "high"} :
         Keep(PutAll(kept, [change_summary |-> Summaries[change + 1], change_risk_level |-> risk]))
    /\ change' = change + 1
    /\ before' = Len(Review(kept).log)

\* The controller's methods, in any order, as often as they are allowed.
Operate ==
    /\ Reviewed /\ change > 0 /\ turn < MaxTurns /\ UNCHANGED <<change, before>>
    /\ Len(Review(kept).log) < MaxEvents
    /\ \/ Keep(ControllerPause(kept, Get(kept, "change_risk_level")))
       \/ MayQueueEdits(Review(kept)) /\ Keep(ControllerEdit(kept, Edits[change]))
       \/ MayDecide(Review(kept)) /\ \E verdict \in Verdicts : Keep(ControllerDecide(kept, verdict))
       \/ Keep(ControllerResume(kept))

Next ==
    \/ \E i \in 1 .. MaxTurns : Call(i) \/ Return(i) \/ Run(i)
    \/ NewChange
    \/ Operate

Spec == Init /\ [][Next]_vars
-----------------------------------------------------------------------------
(* Properties *)

\* The states around: the caller's, and those of the runs that go on.
Under(i) == run[i].status \in {"running", "done"}
States == {kept} \cup {run[i].state : i \in {j \in 1 .. MaxTurns : Under(j)}}

\* Tool messages answer these calls right behind message k, and nothing else.
AnswersFollow(s, k, calls) ==
    /\ \A j \in DOMAIN calls :
         /\ k + j \in DOMAIN s.messages
         /\ s.messages[k + j].role = "tool" /\ s.messages[k + j].call = calls[j].id
    /\ k + Len(calls) + 1 \in DOMAIN s.messages => s.messages[k + Len(calls) + 1].role # "tool"

\* The agent was done before message k: an earlier answer called for no tool.
DoneBefore(s, k) ==
    \E j \in 1 .. k - 1 : s.messages[j].role = "assistant" /\ s.messages[j].content.calls = <<>>

\* The calls of message k that are to be answered.
Due(s, k) == IF DoneBefore(s, k) THEN <<>> ELSE s.messages[k].content.calls

\* Until the agent is done every call the model makes is answered, once and in order,
\* before the model is asked again, whatever the policy or the tool says of it and
\* however turns end; what is still unanswered is pending in the state. Nothing
\* takes is_complete back: of a later turn in the same state no call is ever
\* answered, the router ends the run (LLMNode and ToolNode around AgentRouter).
CallsAreAnswered ==
    flow = "react" => \A s \in States : \A k \in DOMAIN s.messages :
        s.messages[k].role = "assistant" =>
            IF s.calls # <<>> /\ k = Len(s.messages) THEN s.messages[k].content.calls = s.calls
            ELSE AnswersFollow(s, k, Due(s, k))

\* The guidance in a state is the manifest's for the role in the state, and what
\* a tool did the role of that time could do: of the architect's calls only reads
\* ever run (GovernanceNode, RoleHandoffNode, ToolNode and RoleRouterNode together).
GuidanceIsCurrent ==
    flow \in {"governance", "roles"} => \A s \in States :
        /\ Has(s, "agent_role") =>
             /\ s.ctx["governance_guidance"] =
                  ComposeGuidance(IF flow = "roles" THEN RolesManifest ELSE GovernanceManifest,
                                  s.ctx["agent_role"])
             /\ s.ctx["role_system_prompt"] = Preamble(s.ctx["agent_role"])
        /\ \A k \in DOMAIN s.messages :
             /\ flow = "governance" /\ s.messages[k].role = "tool"
             /\ s.messages[k].content \in Ran
             => \A c \in Calls : c.id = s.messages[k].call => c.name = "read_file"
        /\ "fallback" # Get(s, "echo")

\* Invocation i is about to ship what it holds, in a flow of these.
Ships(i, flows) == flow \in flows /\ run[i].status = "running" /\ run[i].node = "ship"

\* The events since the change was put up.
Since(events) == {events[k] : k \in {j \in DOMAIN events : j > before}}

\* The decision in a state is the last word: nothing was decided after it, and no
\* review was asked for after it.
IsLastWord(decision, events) ==
    \E k \in DOMAIN events :
        /\ events[k] = Recorded(decision.request, decision.verdict)
        /\ \A j \in DOMAIN events : j > k => events[j].kind = "intervention_edited"

\* What ships was let through by the policy, as low risk and undecided, or by an
\* approval that nobody took back with a pause or a denial; and an approval given
\* for this change lets through what was shown for it or an operator's edit, nothing
\* else (ApprovalCheckpointNode, GrantApprovalNode, the controller). A gate that
\* blocks lets nothing ship that failed a check or may not be merged.
ApprovalsStand ==
    \A i \in 1 .. MaxTurns :
        LET s == run[i].state
            review == Review(s)
            request == Get(s, "approval_request")
            summary == Get(s, "change_summary")
        IN  /\ Ships(i, {"dev"}) =>
                 /\ s.ctx["change_risk_level"] = "low" /\ ~s.ctx["merge_blocker"]
                 /\ s.ctx["blocking"] => s.ctx["gate_passed"]
            /\ Ships(i, {"hitl", "operator"}) =>
                 IF review.decision = NoDecision THEN Get(s, "change_risk_level") = "low"
                 ELSE /\ review.decision = [request |-> request.id, verdict |-> "approved"]
                      /\ IsLastWord(review.decision, review.log)
                      /\ Created(request.id) \in Since(review.log) =>
                           summary = request.summary \/ Edited(summary) \in ToSet(review.log)

\* A change is worked on when all it depends on has passed, and a rollout is
\* released only when every change has passed or was released before, none of
\* them behind a failed one, and no repository reports a failing or a running
\* check (MultiRepoCoordinatorNode, CiAggregateNode, ReleaseGateNode).
ReleaseIsJustified ==
    flow = "release" => \A i \in 1 .. MaxTurns : run[i].status = "running" =>
        LET s == run[i].state
            graph == s.ctx["change_graph"]
            signals == s.ctx["ci_signals"]
        IN  /\ Has(s, "current_repo_change") =>
                 graph.changes[s.ctx["current_repo_change"]].deps \subseteq StatusIn(graph, Done)
            /\ run[i].node = "released" =>
                 /\ StatusIn(graph, Done) = DOMAIN graph.changes
                 /\ \/ AllReleased(graph)
                    \/ /\ signals # <<>>
                       /\ \A k \in DOMAIN signals : signals[k].conclusion \in {"success", "skipped"}

\* The records that let somebody in.
LetIn(records) == {k \in DOMAIN records : records[k].outcome = "allowed"}

\* The accounts of a tenant, with a run in them that is charged and not yet recorded.
SpendingIsAccounted(s, charged) ==
    LET budget == s.ctx["cost_budget"]
        attempts == s.ctx["slo_tracker"].attempts["workflow_success"]
        records == s.ctx["audit_log"]
    IN  /\ budget.spent <= budget.limit
        /\ budget.spent = Cost * (attempts + charged)
        /\ attempts + charged <= Cardinality(LetIn(records))
        /\ \A k \in LetIn(records) :
             \/ records[k].actor.tenant = records[k].tenant
             \/ "platform_admin" \in records[k].actor.roles
        /\ VerifyChain(records)

\* A tenant's spending stays within its limit, is what its recorded runs cost,
\* and each of them was let in by the audit log, whose records are chained and
\* show nobody from another tenant let in (TenantGuardNode, BudgetGuardNode,
\* SloRecordNode, AuditExportNode, over several runs).
SpendingIsControlled ==
    flow \in {"tenant", "enterprise"} =>
        /\ Has(kept, "cost_budget") => SpendingIsAccounted(kept, 0)
        /\ \A i \in 1 .. MaxTurns : Under(i) /\ Has(run[i].state, "cost_budget") =>
             SpendingIsAccounted(run[i].state, IF run[i].node = "slo_record" THEN 1 ELSE 0)

\* The records invocation i made before record k, and where a record leads.
EarlierOf(i, k) == {j \in 1 .. k - 1 : log[j].by = i}
Led(k) == IF log[k].next = None THEN END ELSE log[k].next

\* i comes to this node, with this count, after its records before k.
Follows(i, k, node, iteration) ==
    /\ EarlierOf(i, k) = {} => node = Graph(flow).entry /\ iteration = 0
    /\ \A j \in EarlierOf(i, k) :
         (\A x \in EarlierOf(i, k) : x <= j) => node = Led(j) /\ iteration = log[j].iteration + 1

\* What each invocation recorded is a walk of its graph from the entry, numbered
\* from 0, that replaying the recorded outputs would take again; an invocation
\* under way stands where its last record leads. A record cannot tell a node that
\* continued to the end by name (TransitionRecord, ReplayRunner).
ReplayAgrees ==
    /\ \A k \in DOMAIN log :
         /\ Follows(log[k].by, k, log[k].node, log[k].iteration)
         /\ ~(log[k].label = "continue_to" /\ log[k].next = None) =>
              Led(k) \in R!ReplayLeads(log[k])
    /\ \A i \in 1 .. MaxTurns : run[i].status = "running" /\ R!Traced =>
         Follows(i, Len(log) + 1, run[i].node, run[i].iterations)
-----------------------------------------------------------------------------
(* What documents say and the code does not do. *)

\* "Pauses execution when policy requires human approval for the current risk level"
\* (hitl/node.rs:18), and a decision has the "request this decision applies to"
\* (hitl/types.rs:86): what is not of low risk ships on a decision made since it was
\* put up. In the code any decision left in the state will do.
NothingShipsUnapproved ==
    \A i \in 1 .. MaxTurns : Ships(i, {"hitl", "operator"}) =>
        LET s == run[i].state
        IN  \/ Get(s, "change_risk_level") = "low"
            \/ \E event \in Since(Review(s).log) : event.kind = "decision_recorded"
-----------------------------------------------------------------------------
\* Small instances of what the workflows are given.

MCFlows == FlowNames

\* A tool everybody may use, one only some may, one that is never registered.
MCCalls == {ToolCall("c1", "shell", "plain"), ToolCall("c2", "shell", "sudo"),
            ToolCall("c3", "read_file", "plain"), ToolCall("c4", "get_weather", "plain")}

MCAnswers == {Response("bye", <<>>)} \cup
             {Response("try", <<c>>) : c \in {x \in MCCalls : x.id \in {"c1", "c4"}}} \cup
             {Response("try", <<ToolCall("c1", "shell", "plain"), ToolCall("c3", "read_file", "plain")>>)}

\* A chain, a change that waits for one that is not there, a cycle.
MCChanges ==
    {ChangeGraph("o", (1 :> Change("a", {})) @@ (2 :> Change("b", {1}))),
     ChangeGraph("o", (1 :> Change("a", {3})) @@ (2 :> Change("b", {}))),
     ChangeGraph("o", (1 :> Change("a", {2})) @@ (2 :> Change("b", {1})))}

\* Enough for every workflow to end, except the one that retries and the agent.
MCMaxVisits(f) == IF f \in {"react", "pipeline"} THEN 4 ELSE 9
==============================================================================
