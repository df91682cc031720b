---------------------------- MODULE TracedRunner ----------------------------
(* TracedRunner (execution/traced_runner.rs): the run loop over a graph whose   *)
(* nodes are Execute, with the log of transitions all invocations of a runner    *)
(* share, and what ReplayRunner makes of a record (execution/replay.rs). The     *)
(* state of an invocation is its own, so one turn of the loop is one step; the    *)
(* log is not. Without a log and a validator it is GraphRunner (runner.rs).       *)
EXTENDS AgentStates

CONSTANTS Invocations,        \* the invocations a runner may have at a time
          MaxIterations(_),   \* RunnerConfig::max_iterations, by flow
          Host(_),            \* "traced" or "graph", by flow
          Graph(_),           \* the flow's graph: [nodes, entry, edges]
          EdgesAt(_, _),      \* its edges, conditional ones resolved in a state
          Execute(_, _, _),   \* flow, node, state -> results
          Valid(_, _),        \* StateValidator::validate, by flow
          Attach(_)           \* attach_run_context

VARIABLES flow, run, log

Invocation(status, node, iterations, state) ==
    [status |-> status, node |-> node, iterations |-> iterations, state |-> state]
NoRun == Invocation("idle", None, 0, None)

\* The graph as it routes in state s.
Routing(s) == INSTANCE GraphRouting WITH
    Nodes <- Graph(flow).nodes, Entry <- Graph(flow).entry, Edges <- EdgesAt(flow, s),
    Outputs <- [n \in Graph(flow).nodes |-> {}]

\* resolve_next
ResolveNext(s, node, out) == Routing(s)!Successors(node, out)

Traced == Host(flow) = "traced"
Accepted(s) == ~Traced \/ Valid(flow, s)

\* invoke: the state is moved in; an invalid one is refused.
Invoke(i, s) ==
    LET given == IF Traced THEN Attach(s) ELSE s
    IN  run' = [run EXCEPT ![i] =
                  Invocation(IF Accepted(given) THEN "running" ELSE "failed",
                             Graph(flow).entry, 0, given)]

AtEnd(i) == run[i].status = "running" /\ run[i].node = END
AtLimit(i) == run[i].status = "running" /\ run[i].node # END
              /\ run[i].iterations >= MaxIterations(flow)
MayExecute(i) == run[i].status = "running" /\ run[i].node # END
                 /\ run[i].iterations < MaxIterations(flow)

Fails(i) == run' = [run EXCEPT ![i].status = "failed"] /\ UNCHANGED log

Complete(i) == AtEnd(i) /\ run' = [run EXCEPT ![i].status = "done"] /\ UNCHANGED log
HitLimit(i) == AtLimit(i) /\ run' = [run EXCEPT ![i].status = "limit"] /\ UNCHANGED log
MissingNode(i) == MayExecute(i) /\ run[i].node \notin Graph(flow).nodes /\ Fails(i)

\* Mutant: the record is made after the loop's counter has moved on.
RecordLate(i, node, iteration, out, next) ==
    [by |-> i, iteration |-> iteration + 1, node |-> node, label |-> out.label,
     next |-> IF next = END THEN None ELSE next, target |-> TargetOf(out)]

\* TransitionRecord::from_step. `by` is not in the record: all invocations of a
\* runner carry the same run id.
Record(i, node, iteration, out, next) ==
    [by |-> i, iteration |-> iteration, node |-> node, label |-> out.label,
     next |-> IF next = END THEN None ELSE next, target |-> TargetOf(out)]

\* One turn: the node runs, the state is validated, the edge followed, the
\* transition recorded.
Step(i) ==
    /\ MayExecute(i) /\ run[i].node \in Graph(flow).nodes
    /\ \E r \in Execute(flow, run[i].node, run[i].state) :
         /\ r.ok /\ Accepted(r.s)
         /\ \E next \in ResolveNext(r.s, run[i].node, r.out) :
              /\ run' = [run EXCEPT ![i] = Invocation("running", next, run[i].iterations + 1, r.s)]
              /\ log' = IF Traced
                        THEN Append(log, Record(i, run[i].node, run[i].iterations, r.out, next))
                        ELSE log

\* The node fails, or leaves a state that is not valid: the step is in no record.
StepFails(i) ==
    /\ MayExecute(i) /\ run[i].node \in Graph(flow).nodes
    /\ \E r \in Execute(flow, run[i].node, run[i].state) : ~r.ok \/ ~Accepted(r.s)
    /\ Fails(i)

RunNext(i) == Complete(i) \/ HitLimit(i) \/ MissingNode(i) \/ Step(i) \/ StepFails(i)
-----------------------------------------------------------------------------
(* Replay *)

\* output_from_record, as [label, target-or-key].
Replayed(r) ==
    CASE r.label = "finish" -> <<"finish", None>>
      [] r.label = "continue_to" -> IF r.next = None THEN <<"continue", None>>
                                    ELSE <<"continue_to", r.next>>
      [] r.label = "route" -> IF r.target = None THEN <<"continue", None>>
                              ELSE <<"route", r.target>>
      [] r.label = "transition" -> <<"transition", r.target>>
      [] OTHER -> <<"continue", None>>

\* Where a replayed output leads, in a graph that routes the same in every state.
ReplayLeads(r) ==
    LET out == Replayed(r)
    IN  ResolveNext(Empty, r.node,
            CASE out[1] = "finish" -> Finish
              [] out[1] = "continue" -> Cont
              [] out[1] = "continue_to" -> ContinueTo(out[2])
              [] out[1] = "route" -> RouteTo(out[2])
              [] out[1] = "transition" -> Transition(out[2]))
=============================================================================
