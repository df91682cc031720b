---------------------------- MODULE AgentStates ----------------------------
(* The state a graph's nodes work on (state.rs), what they answer (NodeOutput   *)
(* in graph.rs), and the nodes of the crate itself. A context holds the keys     *)
(* that are set; a value of another type than the reader expects reads as        *)
(* absent, so every key keeps one type here. The iteration counter is the host's *)
(* (TracedRunner!Step).                                                          *)
EXTENDS Naturals, Sequences, SequencesExt, FiniteSetsExt

CONSTANTS None, NoKey, CONTINUE, END

AgentState(messages, calls, context) ==
    [messages |-> messages, calls |-> calls, ctx |-> context, complete |-> FALSE]

Empty == AgentState(<<>>, <<>>, <<>>)

Message(role, content, call) == [role |-> role, content |-> content, call |-> call]
System(text) == Message("system", text, None)
User(text) == Message("user", text, None)
Assistant(text) == Message("assistant", text, None)
ToolMessage(id, text) == Message("tool", text, id)

Say(s, message) == [s EXCEPT !.messages = Append(@, message)]

ToolCall(id, name, command) == [id |-> id, name |-> name, command |-> command]

Has(s, key) == key \in DOMAIN s.ctx
Get(s, key) == IF Has(s, key) THEN s.ctx[key] ELSE None
GetOr(s, key, default) == IF Has(s, key) THEN s.ctx[key] ELSE default
PutAll(s, values) ==
    [s EXCEPT !.ctx = [k \in DOMAIN s.ctx \cup DOMAIN values |->
                         IF k \in DOMAIN values THEN values[k] ELSE s.ctx[k]]]
Put(s, key, value) == PutAll(s, [k \in {key} |-> value])
Unset(s, key) == [s EXCEPT !.ctx = [k \in DOMAIN s.ctx \ {key} |-> s.ctx[k]]]

\* StateValidator::validate: the keys that must be there, and for some the values
\* of the type they must have.
Validate(s, required, typed) ==
    required \subseteq DOMAIN s.ctx /\ \A k \in DOMAIN typed : Has(s, k) /\ s.ctx[k] \in typed[k]

MarkComplete(s) == [s EXCEPT !.complete = TRUE]
-----------------------------------------------------------------------------
(* NodeOutput, in the form GraphRouting reads: what a run loop does with it is  *)
(* in kind, the variant in label.                                                *)

Finish == [label |-> "finish", kind |-> "finish", target |-> None, key |-> NoKey]
Cont == [label |-> "continue", kind |-> "transition", target |-> None, key |-> CONTINUE]
ContinueTo(node) == [label |-> "continue_to", kind |-> "goto", target |-> node, key |-> NoKey]
RouteTo(node) == [label |-> "route", kind |-> "goto", target |-> node, key |-> NoKey]
Transition(key) == [label |-> "transition", kind |-> "transition", target |-> None, key |-> key]

\* NodeOutput::target
TargetOf(out) == IF out.label = "transition" THEN out.key ELSE out.target

\* What a node may do: the state it leaves and its output, or an error.
Result(s, out) == [ok |-> TRUE, s |-> s, out |-> out]
Failure(s) == [ok |-> FALSE, s |-> s, out |-> Finish]
-----------------------------------------------------------------------------
(* The nodes that come with the crate and only write the context or route:     *)
(* nodes/mod.rs, nodes/conditional.rs, nodes/function.rs. Each operator is the  *)
(* set of results execute may have. They are total: none of them fails.          *)

EchoNode(s, key, message) == {Result(Put(s, key, message), Cont)}

\* DelayNode, FunctionNode::passthrough: nothing but time passes.
DelayNode(s) == {Result(s, Cont)}

\* FunctionNode::finish and FunctionNode::route_to.
FinishNode(s) == {Result(s, Finish)}
RouteToNode(s, target) == {Result(s, ContinueTo(target))}

\* The end is a Finish, any other target a node by name.
OrFinish(target) == IF target = END THEN Finish ELSE ContinueTo(target)

StaticTransitionNode(s, target) == {Result(s, OrFinish(target))}

\* ContextRouterNode: routes is a function from context values to nodes.
ContextRouterNode(s, key, routes, default) ==
    {Result(s, IF Get(s, key) \in DOMAIN routes THEN ContinueTo(routes[Get(s, key)])
               ELSE IF default # None THEN ContinueTo(default)
               ELSE Finish)}

\* ConditionalNode and its constructors.
ConditionalNode(s, holds, yes, no) == {Result(s, OrFinish(IF holds THEN yes ELSE no))}
IsComplete(s) == s.complete
HasToolCalls(s) == s.calls # <<>>
ContextBool(s, key) == GetOr(s, key, FALSE)

\* BranchNode: the first branch [holds, target] whose condition holds.
BranchNode(s, branches, default) ==
    LET open == {i \in DOMAIN branches : branches[i].holds}
    IN  {Result(s, OrFinish(IF open = {} THEN default ELSE branches[Min(open)].target))}
=============================================================================
