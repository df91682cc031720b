------------------------------ MODULE Releases ------------------------------
(* Coordinated changes of several repositories: cicd/. A change graph is         *)
(* [objective, changes], changes a function from ids (numbers, in the order of   *)
(* the names) to [repo, status, deps]; a CI signal is [repo, conclusion].         *)
EXTENDS AgentStates

ChangeStatus == {"pending", "in_progress", "ci_passed", "ci_failed", "released", "blocked"}
Conclusions == {"success", "failure", "pending", "skipped"}

Change(repo, deps) == [repo |-> repo, status |-> "pending", deps |-> deps]
ChangeGraph(objective, changes) == [objective |-> objective, changes |-> changes]
Signal(repo, conclusion) == [repo |-> repo, conclusion |-> conclusion]

StatusIn(graph, statuses) ==
    {c \in DOMAIN graph.changes : graph.changes[c].status \in statuses}
Done == {"ci_passed", "released"}
Broken == {"ci_failed", "blocked"}


\* ready_changes: a dependency that is not in the graph is never met.
ReadyChanges(graph) ==
    {c \in StatusIn(graph, {"pending"}) : graph.changes[c].deps \subseteq StatusIn(graph, Done)}

\* has_cycles: some changes that each wait for another of them.
HasCycles(graph) ==
    \E waiting \in SUBSET DOMAIN graph.changes \ {{}} :
      \A c \in waiting : graph.changes[c].deps \cap waiting # {}

\* One pass of propagate_blocks, and its fixpoint.
BlockedBy(graph, broken) ==
    {c \in StatusIn(graph, {"pending", "in_progress"}) : graph.changes[c].deps \cap broken # {}}
AllBlocked(graph) ==
    LET reach[k \in Nat] ==
          IF k = 0 THEN StatusIn(graph, Broken) ELSE reach[k - 1] \cup BlockedBy(graph, reach[k - 1])
    IN  reach[Cardinality(DOMAIN graph.changes)] \ StatusIn(graph, Broken)
PropagateBlocks(graph) ==
    LET blocked == AllBlocked(graph)
    IN  [graph EXCEPT !.changes = [c \in DOMAIN @ |->
            IF c \in blocked THEN [@[c] EXCEPT !.status = "blocked"] ELSE @[c]]]

\* mark_status
MarkStatus(graph, change, status) ==
    IF change \notin DOMAIN graph.changes THEN graph
    ELSE LET marked == [graph EXCEPT !.changes[change].status = status]
         IN  IF status = "ci_failed" THEN PropagateBlocks(marked) ELSE marked

AllReleased(graph) ==
    DOMAIN graph.changes # {} /\ StatusIn(graph, {"released"}) = DOMAIN graph.changes
HasRolloutFailure(graph) == StatusIn(graph, Broken) # {}
-----------------------------------------------------------------------------
ReposWith(signals, conclusion) ==
    {signals[k].repo : k \in {j \in DOMAIN signals : signals[j].conclusion = conclusion}}

\* Mutant: no signal at all is good news.
AggregateQuiet(objective, signals) ==
    LET failing == ReposWith(signals, "failure")
        pending == ReposWith(signals, "pending") \ failing
    IN  [objective |-> objective, failing |-> failing, pending |-> pending,
         passed |-> failing = {}]

\* CiAggregator::aggregate: a repository nobody reports on holds nothing up.
Aggregate(objective, signals) ==
    LET failing == ReposWith(signals, "failure")
        pending == ReposWith(signals, "pending") \ failing
    IN  [objective |-> objective, failing |-> failing, pending |-> pending,
         passed |-> failing = {} /\ pending = {} /\ signals # <<>>]

\* ReleaseGateResult
Blocked(reason) == [released |-> FALSE, reason |-> reason, batch |-> {}]
Approved(batch) == [released |-> TRUE, reason |-> "", batch |-> batch]

\* ReleaseOrchestrator::evaluate and create_batch.
EvaluateRelease(graph, report) ==
    CASE graph.objective # report.objective -> Blocked("objective mismatch")
      [] graph.objective = report.objective /\ ~report.passed ->
           Blocked(IF report.failing # {} THEN "failed" ELSE "pending")
      [] OTHER ->
           IF HasRolloutFailure(graph) THEN Blocked("upstream failure")
           ELSE IF StatusIn(graph, Done) # DOMAIN graph.changes THEN Blocked("not ready")
           ELSE Approved(StatusIn(graph, {"ci_passed"}))
-----------------------------------------------------------------------------
(* The nodes *)

MultiRepoCoordinatorNode(s) ==
    LET graph == s.ctx["change_graph"]
        next == Min(ReadyChanges(graph))
    IN  IF ~Has(s, "change_graph") \/ HasCycles(graph) THEN {Failure(s)}
        ELSE IF AllReleased(graph) THEN {Result(s, Transition("complete"))}
        ELSE IF HasRolloutFailure(graph) THEN {Result(s, Transition("blocked"))}
        ELSE IF ReadyChanges(graph) = {} THEN {Result(s, Cont)}
        ELSE {Result(PutAll(s, [change_graph |-> MarkStatus(graph, next, "in_progress"),
                                current_repo_change |-> next]),
                     Transition("execute_change"))}

\* What is in progress counts as passed.
CompleteRepoChangeNode(s) ==
    IF ~Has(s, "current_repo_change") \/ ~Has(s, "change_graph") THEN {Failure(s)}
    ELSE {Result(Unset(Put(s, "change_graph",
                            MarkStatus(s.ctx["change_graph"], s.ctx["current_repo_change"],
                                       "ci_passed")),
                        "current_repo_change"), Cont)}

CiAggregateNode(s) ==
    IF ~Has(s, "change_graph") THEN {Failure(s)}
    ELSE LET report == Aggregate(s.ctx["change_graph"].objective, GetOr(s, "ci_signals", <<>>))
         IN  {Result(Put(s, "ci_aggregate", report),
                     Transition(IF report.passed THEN "ci_passed" ELSE "ci_failed"))}

ReleaseGateNode(s) ==
    IF ~Has(s, "change_graph") \/ ~Has(s, "ci_aggregate") THEN {Failure(s)}
    ELSE LET gate == EvaluateRelease(s.ctx["change_graph"], s.ctx["ci_aggregate"])
         IN  {Result(Put(s, "release_gate", gate),
                     Transition(IF gate.released THEN "release_approved" ELSE "release_blocked"))}
=============================================================================
