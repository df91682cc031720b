----------------------------- MODULE Governance -----------------------------
(* Which tools an agent may use, and how a role's guidance gets into the state: *)
(* tools/policy.rs and governance/. A role is its tag. A command is a class: no  *)
(* command, a harmless one, one that matches a blocked pattern. Then the nodes    *)
(* that ask a model and run the tools it calls.                                   *)
EXTENDS AgentStates

-----------------------------------------------------------------------------
(* tools/policy.rs *)

Capability == {"read_file", "write_file", "shell", "network", "git"}
PolicyDecision == {"allow", "deny", "require_approval"}
Violation == {"blocked_pattern", "not_registered"}

\* ToolExecutionPolicy: nothing is known, so nothing is allowed.
NoPolicy == [caps |-> <<>>, denied |-> {}, approval |-> {}, blocked |-> {}]
AllowTool(policy, tool, cap) ==
    [policy EXCEPT !.caps = [t \in DOMAIN policy.caps \cup {tool} |->
                               IF t = tool THEN {cap} ELSE policy.caps[t]]]
DenyTools(policy, tools) == [policy EXCEPT !.denied = @ \cup tools]
RequireApproval(policy, tools) == [policy EXCEPT !.approval = @ \cup tools]
PermissivePolicy == [AllowTool(NoPolicy, "shell", "shell") EXCEPT !.blocked = {"sudo"}]

\* ToolPolicyEngine::evaluate: a decision or a violation.
Evaluate(policy, tool, command) ==
    IF tool \in policy.denied THEN "deny"
    ELSE IF tool \in policy.approval THEN "require_approval"
    ELSE IF command \in policy.blocked THEN "blocked_pattern"
    ELSE IF tool \in DOMAIN policy.caps THEN "allow"
    ELSE "not_registered"
-----------------------------------------------------------------------------
(* governance/: roles, manifests, guidance *)

NamedRoles == {"all", "architect", "builder", "auditor", "human"}
CustomRoles == {"claude", "codex"}

\* A role tag that does not parse, "two words" say, is no role.
RoleOfTag(tag) == IF tag \in NamedRoles \cup CustomRoles THEN tag ELSE None

\* AgentRole::receives
Receives(role, target) == target = "all" \/ role = target

\* A manifest is a sequence of lines: <<"tag", role>>, or <<"text", t>>, which
\* a malformed tag counts as too.
Boundary(line) == line[1] = "tag"

\* parse_blocks: what comes before the first tag belongs to nobody.
ParseBlocks(manifest) ==
    LET tags == SetToSortSeq({k \in DOMAIN manifest : Boundary(manifest[k])}, <)
        end(i) == IF i = Len(tags) THEN Len(manifest) ELSE tags[i + 1] - 1
    IN  [i \in DOMAIN tags |->
           [role |-> manifest[tags[i]][2], line |-> tags[i],
            content |-> [k \in 1 .. end(i) - tags[i] |-> manifest[tags[i] + k][2]]]]

\* blocks_for: the universal role reads everything.
BlocksFor(blocks, role) ==
    SelectSeq(blocks, LAMBDA b : role = "all" \/ Receives(role, b.role))

\* compose_guidance
ComposeGuidance(manifest, role) ==
    FlattenSeq([i \in DOMAIN BlocksFor(ParseBlocks(manifest), role) |->
                  BlocksFor(ParseBlocks(manifest), role)[i].content])

\* tool_policy_for_role
PolicyForRole(role) ==
    LET read == AllowTool(NoPolicy, "read_file", "read_file")
        run == AllowTool(read, "shell", "shell")
    IN  CASE role = "architect" -> DenyTools(read, {"shell", "write_file", "git_push"})
          [] role = "builder" -> AllowTool(AllowTool(run, "write_file", "write_file"),
                                           "git_status", "git")
          [] role = "auditor" -> run
          [] role = "human" -> RequireApproval(read, {"write_file", "shell", "git_push"})
          [] OTHER -> PermissivePolicy

\* agent_role_from_state and tool_policy_for_state.
AgentRole(s) == RoleOfTag(Get(s, "agent_role"))
PolicyForState(s, fallback) ==
    PolicyForRole(IF AgentRole(s) = None THEN fallback ELSE AgentRole(s))

\* GovernanceConfig. The derived default injects and stores nothing.
DefaultConfig == [inject |-> FALSE, store |-> FALSE]
PermissiveConfig == [inject |-> TRUE, store |-> TRUE]
ContextOnly == [inject |-> FALSE, store |-> TRUE]

\* role_system_prompt
Preamble(role) == <<"preamble", IF role \in NamedRoles THEN role ELSE "custom">>

\* Mutant: a handoff keeps guidance that is there already.
ApplyRoleGuidanceOnce(s, manifest, role, config) ==
    LET kept == Put(s, "agent_role", role)
    IN  IF Has(s, "governance_guidance") THEN kept
        ELSE PutAll(kept, [governance_guidance |-> ComposeGuidance(manifest, role),
                           role_system_prompt |-> Preamble(role)])

\* apply_role_guidance
ApplyRoleGuidance(s, manifest, role, config) ==
    LET guidance == ComposeGuidance(manifest, role)
        guided == PutAll(s, [agent_role |-> role, governance_guidance |-> guidance,
                             role_system_prompt |-> Preamble(role)])
        told == IF config.store THEN Put(guided, "tool_policy_role", role) ELSE guided
    IN  IF config.inject
        THEN [told EXCEPT !.messages = <<System(<<Preamble(role), guidance>>)>> \o @]
        ELSE told
-----------------------------------------------------------------------------
(* The nodes *)

GovernanceNode(s, manifest, role) ==
    {Result(ApplyRoleGuidance(s, manifest, role, DefaultConfig), Cont)}

RoleHandoffNode(s, manifest, role) ==
    {Result(ApplyRoleGuidance(s, manifest, role, PermissiveConfig), Cont)}

RoleRouterNode(s, default) ==
    {Result(s, Transition(IF AgentRole(s) = None THEN default ELSE AgentRole(s)))}

\* Routes by the tag as it stands in the context.
RoleTargetRouterNode(s, routes, default) == ContextRouterNode(s, "agent_role", routes, default)
-----------------------------------------------------------------------------
(* The two halves of a ReAct agent: the node that asks a model (nodes/llm.rs)   *)
(* and the node that runs the tools it called (nodes/tool.rs). What the model    *)
(* and the tools do is theirs: every answer the caller allows for.               *)

\* LLMResponse
Response(text, calls) == [text |-> text, calls |-> calls]

\* The system prompt the model is asked under: the role's preamble and guidance
\* from the state, before the node's own.
PromptOf(s) ==
    LET guidance == GetOr(s, "governance_guidance", <<>>)
    IN  <<Get(s, "role_system_prompt"), guidance>>

\* What LLMNode makes of an answer. A message keeps what it was asked under.
Answered(s, response) ==
    LET said == [Say(s, Assistant([prompt |-> PromptOf(s), calls |-> response.calls]))
                   EXCEPT !.calls = response.calls]
    IN  IF response.calls = <<>> THEN MarkComplete(said) ELSE said

\* LLMNode: one of the provider's answers, or its error.
LLMNode(s, responses) ==
    {Result(Answered(s, r), Cont) : r \in responses} \cup {Failure(s)}

\* execute_with_policy, as the texts a result may have. A tool that ran answers,
\* fails, or is cut off by the node's timeout.
Ran == {"ok", "error", "timeout"}
ResultsOf(call, policy, registry, timed) ==
    LET verdict == Evaluate(policy, call.name, call.command)
    IN  IF verdict # "allow" THEN {verdict}
        ELSE IF call.name \notin registry THEN {"not_found"}
        ELSE IF timed THEN Ran ELSE Ran \ {"timeout"}

\* Mutant: an error ends the round.
ResultListsShort(calls, policy, registry, timed) ==
    {SubSeq(r, 1, Min({k \in DOMAIN r : r[k] # "ok"} \cup {Len(r)})) :
       r \in {f \in [DOMAIN calls -> Ran \cup Violation \cup PolicyDecision \cup {"not_found"}] :
                \A k \in DOMAIN calls : f[k] \in ResultsOf(calls[k], policy, registry, timed)}}

\* One result for every call, in the order of the calls.
ResultLists(calls, policy, registry, timed) ==
    {f \in [DOMAIN calls -> Ran \cup Violation \cup PolicyDecision \cup {"not_found"}] :
       \A k \in DOMAIN calls : f[k] \in ResultsOf(calls[k], policy, registry, timed)}

\* ToolNode. The policy is the node's own or, without one, that of the role in
\* the state; with no role, the builder's.
ToolNode(s, registry, ownPolicy, timed) ==
    LET policy == IF ownPolicy # None THEN ownPolicy ELSE PolicyForState(s, "builder")
        after(results) ==
            [s EXCEPT !.calls = <<>>,
                      !.messages = s.messages \o [k \in DOMAIN results |->
                                           ToolMessage(s.calls[k].id, results[k])]]
    IN  IF s.calls = <<>> THEN {Result(s, Cont)}
        ELSE {Result(after(r), Cont) : r \in ResultLists(s.calls, policy, registry, timed)}

\* AgentRouter of the react example, over a state.
AgentRouter(s, tools) ==
    IF s.complete THEN END ELSE IF s.calls # <<>> THEN tools ELSE END
=============================================================================
