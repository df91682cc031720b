# A verification project for oxidizedgraph

oxidizedgraph is a Rust library and server for agent workflows: a graph of nodes
is executed step by step over a shared agent state, runs are checkpointed and
resumed, epics are planned into tasks and healed when tasks fail, graphs run
other graphs in parallel, and an orchestrator server spawns worker Jobs in a
Kubernetes cluster for tasks it is sent over JSON-RPC. The modules here are
translated from the Rust code under `src/src/` (paths below are relative to it)
and from the workflows under `src/examples/`; each definition names the code it
stands for in `PROJECT.json` under `map`.

## 1. Inventory

| Component | State | Operations | What is hard | What makes it correct | Here |
|---|---|---|---|---|---|
| Compiled graph (`graph.rs`) | nodes, edges, entry | builder, `compile`, `get_next_node_for_transition` | keyed and unkeyed edges, routers naming missing nodes | the first matching edge decides; no edge means END | `GraphRouting`, `GraphDiff` |
| Graph diffs (`diff.rs`) | two compiled graphs | `diff`, its summary | several edges of one key | changes are counted once, equal graphs differ in nothing | `GraphDiff` |
| Graph runner (`runner.rs`) | current node, iterations, agent state | `invoke`, `run_loop` | cyclic graphs, limit reached with the last step | END before limit before lookup; every run returns | `RunLoop` |
| Checkpointing (`checkpoint/`) | two maps: checkpoints by id, ids by thread | `save`, `load`, `load_by_id`, `delete`, `delete_thread`; `invoke`, `resume`, `resume_from` | runs stopped between save and effect, resumed twice, concurrent deletions | a checkpoint pairs a state with the node that comes next | `CheckpointLog`, `MemoryCheckpointer`, `CheckpointRunner` |
| SurrealDB checkpointer (`checkpoint/surreal.rs`) | one table | the same trait | order by the text of `created_at`; a failed save of unknown effect; restarts | the latest checkpoint is the last one saved | `SurrealCheckpointer` |
| A2A task service (`a2a/`) | task store | `SendMessage`, `GetTask`, `CancelTask` | whole tasks are copied out, kept over an await and put back | reported outcomes are true; a task keeps its Job; polling settles it once the Job is over | `TaskLifecycle`, `A2ATasks` |
| Worker spawners (`worker/`) | Jobs in the cluster | `spawn`, `status` | lost answers, Jobs removed by their time to live | (with the service) | `A2ATasks` |
| Planning and healing (`planning/`) | plan, attempts per task, recovery log | `propagate_blocked_status`, `update_task_status`, `inject_recovery_task`, `next_tasks`, `has_cycles`, `SchedulerNode::execute` | failures, recoveries of recoveries, several agents at once | blocking is exact, nothing overtakes its dependencies, attempts are bounded, plans complete | `EpicPlan`, `SchedulerNode`, `PlanAlgorithms` |
| Events (`events/`) | broadcast channel, subscribers, metrics | `publish`, `subscribe`, `recv`; `StreamingRunner`'s `invoke`, `resume`; `MetricsHandler` | lagging subscribers, events before the save they announce | who follows the events knows the run; metrics are exact without a lag; the end is heard | `EventBus`, `StreamingRunner` |
| Subgraphs (`orchestration/`) | tasks, handles, active set, the parent's context | `execute` of both nodes, join strategies, mappers, mergers, `spawn`, `join_*`, `abort` | completion order, failures, aborts, panics, drops | a join delivers what its strategy promises, as soon as it can, in any order | `Subgraphs`, `SubgraphSpawner`, `Orchestration` |
| Server (`bin/server.rs`) | sessions | create, execute, checkpoint, restore, pause, edit, approve, deny | sessions copied, run and written back; handles replaced by restore | executions do not mix; who waits for answers loses nothing | `SessionServer` |
| Human in the loop (`hitl/`) | pause, edits, approvals | `HitlController`, four graph nodes, approval matrix | a decision or edits of an earlier change still in the state | what ships was let through by the policy or by an approval that stands | `HumanReview`, `Approvals` |
| Decision memory (`memory/decision/`) | a map and three indexes under four locks; or one table | `record`, `delete`, listings | steps of several callers between the locks | both backends answer alike | `DecisionStores` |
| Repository memory (`memory.rs`) | documents, inverted index, episodes, decisions | `index_document`, `remove_document`, `record_*`, queries, `pack` | positions in the index after a removal; exact fits of a budget | a query finds what is there, in order, within the budget | `RepositoryMemory` |
| Traced runs (`execution/`) | transition log | `invoke`, `run_loop`, replay, validation | one log for all invocations of a runner | what was recorded leads along the run | `TracedRunner` |
| Tool and LLM nodes (`nodes/`, `tools/policy.rs`) | messages, pending calls | `execute` | several calls of which some are denied, unknown or fail | until the agent is done each call is answered once, in order, before the model is asked again | `AgentStates`, `Governance` |
| Governance (`governance/`) | role, guidance, tool policies | manifest, guidance, four nodes | a handoff changes the role under composed guidance | guidance and tools are the role's | `Governance` |
| Guardrails (`guardrails/`) | findings, gate, risk | command validation, gate, classifier, merge blocker | precedence of findings | the gate's verdict decides what ships | `QualityGates` |
| Release coordination (`cicd/`) | change graph, statuses, signals | `ready_changes`, `propagate_blocks`, aggregation, gate | one-way blocking; no signals, or pending and skipped ones | only what is green and unblocked is released | `Releases` |
| Enterprise controls (`enterprise/`) | audit chain, budgets, SLOs | `append`, `verify_chain`, `charge`, guards | sequences of guards over several runs | spending is bounded and accounted for | `Enterprise` |
| Example workflows (`examples/`) | the graphs above, put together | - | one state through all components, used again | (as above) | `Flows`, `Workflows` |
| Plan progress, git, deprecated core, sites | - | - | - | - | no (section 6) |

How they interact: a runner calls a node's `execute` with the shared
`Arc<RwLock<AgentState>>` and routes on the returned `NodeOutput`; the
checkpointing, streaming and traced runners are the same loop with saves, events
and records in it. A subgraph node runs such a loop over a state derived from the
parent's and merges what comes back. `SchedulerNode` and the nodes of hitl,
governance, guardrails, cicd and enterprise are nodes of such a graph and keep
their state in the agent state's context, where the next run finds it. The server runs a graph on a
clone of a session; the A2A service shares nothing with the graphs but a server
process.

## 2. Modules

    GraphRouting ── RunLoop (what every runner promises)
         │             ▲ implements
         └──────── CheckpointRunner ── MCCheckpointRunner
                       │ INSTANCE        CheckpointRunnerProofs
                   MemoryCheckpointer ── MemoryCheckpointerProofs
                       │ implements
                   CheckpointLog ◄ implements ─ SurrealCheckpointer
    TaskLifecycle ◄ implements ─ A2ATasks ── A2ATasksProofs
    EpicPlan ─┬─ SchedulerNode ──┐
              └─ PlanAlgorithms ─┼─ Planning
    GraphRouting ── GraphDiff ───┴─ SchedulerNodeProofs
    HumanReview ─┬─ SessionServer ── SessionServerProofs
                 └─ Approvals (below)
    RunLoop ◄ implements ─ StreamingRunner ── MCStreamingRunner
                              │ INSTANCE     StreamingRunnerProofs
                           EventBus, MemoryCheckpointer
    Subgraphs ── SubgraphSpawner ── Orchestration ─┐
    DecisionStores, SurrealCheckpointer ──────────┼─ JoinsAndIndexesProofs
         │          │        RepositoryMemory ────┘
         └──────────┴────────────┴── Stores
    AgentStates ─┬─ Governance ───┐
                 ├─ QualityGates ─┤
                 ├─ Approvals ────┼─ Flows ── Workflows ── WorkflowsProofs
                 ├─ Releases ─────┤              │ INSTANCE
                 └─ Enterprise ───┘          TracedRunner

### Graph and run loop
`GraphRouting` has the compiled graph as constants. A node's `execute` is any of
the outputs `Outputs[n]`: `finish`, `goto` (a named target) or a transition key;
a conditional edge leads to any name its router may return, nodes that do not
exist included. `Successors` is the `match` on `NodeOutput` in `run_loop`.

`RunLoop` is the loop: `Complete`, `HitLimit`, `MissingNode`, `Step`, `NodeFails`
are its exits and its body in the order of the code's tests; `Dropped` is a
future dropped at an await. The agent state is abstracted to its iteration
counter and the sequence of executed nodes, `path`. That is the data the
properties need: a state is what the nodes in `path` made of the fresh one, so
"skipped" and "applied twice" are visible in it.

### Checkpoints
`MemoryCheckpointer` has the two maps of `memory.rs` and one action per method
that writes them (each is one step: the methods hold both locks); ids are drawn
from a counter where the code draws UUIDs. `Latest` is `load`.
`CheckpointLog` is the promise: a log per thread that saves append to and deletions
take checkpoints out of. A backend in the memory of a process may lose all of them
at once (`Lose`), when the process ends.

`CheckpointRunner` runs several calls over one store. `phase` is where a call
is: `top` at the head of the loop, `exec` between the pre-execution save and the
end of the node's execution. `Enter` is lookup and save, `Execute` the node, the
counting and the routing. `SaveFails` is a `save` that returns an error, with or
without having stored (a remote backend may do either). Deletions by clients
happen between any two steps. The agent state that `Execute` produces is a
record with one entry for every executed node, as in `RunLoop`.

`SurrealCheckpointer` is the other implementation of the trait. `rows` is its
table, `pending` the checkpoints that runs have created and not yet saved, `New`
is `Checkpoint::new` with what the clock says. `Crash` ends the process: an
in-memory database goes with it, a file or a remote one stays. `List` is the
`SELECT … ORDER BY created_at DESC`, of which `load` takes the first: the k-th row is
the one that k - 1 rows are later than. The order of the texts is the order of the
times, whatever the length of their fractions.

### A2A tasks
`A2ATasks` splits each handler at its await: `Send`, `Spawn`/`SpawnFails`,
`FinishSend`; `Get`, `Observe`/`ObserveFails`, `FinishGet`; `Cancel` holds the
store's lock and is one step. `calls[c].copy` is the handler's local task. The
cluster side (`JobStarts`, `JobFinishes`, `JobRemoved`) is external. A client of
a `Polite` task sends one request about it at a time; other clients overlap
requests. The model stands for the server's process life; the store is in memory.
`TaskLifecycle` is the life of one task as `types.rs` describes it.

### Planning
`EpicPlan` has the plan and its pure functions. Block propagation, cycle search
and downstream count are written as least fixed points, and `PlanAlgorithms`
runs the loops of the code against them, step by step: the repeated pass; the
colouring search of `has_cycles`, whose calls under way are a `path` (`Descend` is the
loop over all tasks, `Look` the loop over dependencies, `Leave` the return); and the walk
from every task that `prioritize_tasks` counts (`WalkFrom`, `Pop`, `Tally`). Tasks and
dependencies are met in any order.
`SchedulerNode` starts with the plan `PlanningNode` stored: any plan a decomposer
may return. `Cyclic`, `Replan`, `Idle`, `Dispatch` are the branches of `execute`.
It holds the write lock throughout, so each is one step. Agents that
run tasks report through `update_task_status` between two of them. A scheduler
node is configured once with registered recovery tasks (`manual`) and/or self
healing. Recovery tasks of one pass are injected together (`Injected`), where the
code injects one after the other: the results are equal, because recovery ids of
different tasks differ and a failed task's dependencies are not rewritten by the
injection for another.

### Sessions and human review
`HumanReview` has the operations of `HitlController` on the review part of an
agent state: the six context keys of `hitl/types.rs`, without the explanation,
which is a text for operators. Edits patch one context key that is not one of the six.

`SessionServer` has the session endpoints. A handle stands for one
`Arc<RwLock<AgentState>>`; `sessions` maps ids to handles and `states` handles to
states. `Lookup` is `get_session_shared`: from then on a request works on its
handle, which `Restore` may have taken from the session meanwhile. `execute` is
`Copy` (read lock), `Run` (the workflow on the copy and `write_back_session`: no
other request sees the copy in between) and `SaveCopy`. The hitl requests change
the state under its write lock and are one step after the lookup, as is the
snapshot of `checkpoint`. States no handle leads to are forgotten. The client of a
`Polite` session waits for each answer before it sends the next request.

### Events
`EventBus` is the broadcast channel: the last `Capacity` events (a power of two
in the library) and, for each receiver, how many of them it has not read and
whether unread ones were overwritten, which `recv` learns as `Lagged`, logs, and
goes on from the oldest event held. `Handle` is one turn of `spawn_handler`'s loop
with `MetricsHandler::handle`; each subscriber has a handler of its own.

`StreamingRunner` is the loop of `events/runner.rs`, over the same store as
`CheckpointRunner`. Its steps end at the awaits of saves and nodes: `Enter`
publishes and `Save` stores and publishes. `views` is history: what all events of
a thread say so far. Events name only a thread, so the model's clients run one call
per thread at a time; calls on different threads share the bus and interleave.

### Subgraphs
A task is what tokio gives: it runs until it returns, panics or an
abort lands, some time after it was requested. `Subgraphs` is one call of
`ParallelSubgraphs::execute` (a task per subgraph; `Collect` is one turn of the
loop over `futures.next()`, with the strategy's decision `StopsAt` and the
aborts) or of `SubgraphNode::execute`, which awaits its run inline (`Return`).
A context is a partial function from keys to values that say who wrote them, so
merges show what came from where. The mapper and merger of a slot are found by the
subgraph's name, as in the code.

`SubgraphSpawner` is the caller's side: `Spawn` registers a name and starts a
task, `RunEnds` is the spawned body, which takes the name off when it is reached,
then `join_all` (`JoinNext`) or `join_first`. `Orchestration` puts the two
together: the first spawned graph contains the node, so aborting it drops the node
in the middle of its join (`AbortLandsOnNode`), which leaves the subgraphs of a
parallel node running. Next to it runs another graph, perhaps of the same name.

### Stores
`DecisionStores` has both backends of the decision memory under the same calls.
`Record` and `Delete` are the part under `by_id`'s lock, then `IndexStep` takes one
index lock after the other; listings copy the ids out of an index (`ListBegins`)
and look them up later (`ListEnds`); other callers come in between. `table` is
`SurrealDecisionStore`: one statement per call, at the instant the memory store
touches `by_id`. `RepositoryMemory` is the document index, where a removal shifts
all positions the inverted index holds, episodes, decisions, the scoring and
sorting of queries and the packing of a context into its budget. Texts are
sequences of terms, scores are the code's integers. `Stores` makes one instance of
the three parts that share nothing, so that one run explores each of them.

### Agents and their workflows
A node of a graph is an operator from a state to the set of results
`execute` may have (`AgentStates!Result`: the state it leaves and its `NodeOutput`,
or an error): it holds the state's lock or is awaited by its run alone, so a node
is one step. The set has several members where the node's outcome is not its own:
a model's answer, a tool's result, the exit code of a command. `AgentStates` has also
the nodes that only write and route; `Governance` tool policies, roles, the
manifest's blocks, the governance nodes, the model and the tool node;
`QualityGates`, `Approvals`, `Releases` and `Enterprise` the nodes and types of
their directories. The hash of an audit record is the record itself: injective,
which is what a chain needs.

`TracedRunner` is `invoke` and `run_loop` of the traced runner, and of the plain
one when it records nothing. `Flows` has the graphs of `examples/` with their own
nodes, and `pipeline`, which is no program's: it puts the nodes no example uses into
one graph.
`Workflows` is the caller: it invokes a flow, keeps the state it gets back, or the
one it had when the run failed (the runner took a copy), changes the inputs and invokes
again. It takes nothing out of a state: a question is one more message (`Inputs`), the
next change is a new summary and risk (`NewChange`), and whatever nodes left, the end
of the agent's work, a request, a decision and edits, is still there. The examples run
once over a fresh state; that a state is run again is what a session does with it, or
any caller of `invoke` that goes on with what it got. Between runs an operator uses the
methods of `HitlController` in any order and as often as they allow (`Operate`). Of
`pipeline` two invocations of one runner are under way at a time and write to its one log.
`before` is history: how long the approval log was when the change was put up.

### Diffs
`GraphDiff` builds graphs with the builder's methods, applied to an old and a new
side, and compares `diff` of what they compile to with a definition by counting.
`Planning` makes one run of this, `PlanAlgorithms` and `SchedulerNode`, which share no
state: an instance is one of the three while the other two rest.

## 3. Runs

| Run | Question | Bounds | States |
|---|---|---|---|
| `checkpoints` | Do concurrent, resumed, failing and dropped runs over a store that clients delete from keep checkpoints and runs consistent, and do both implement their promises? | 2 calls, 2 threads, 3-node graph, limit 2 | 83,816 |
| `a2a_tasks` | Do overlapping requests with stale copies stay truthful, and does polling settle a task whose Job is over? | 2 tasks, 2 requests in flight | 127,316 |
| `planning` | Are blocking, ordering, attempts and healing right under any order of failures? Do the code's loops compute the least fixed points and end, and are diffs exact? | 5 plans × 4 nodes, 3 failures; every plan over ≤ 3 ids; two graphs 3 edits apart, from 2 origins | 461,779 |
| `sessions` | Do overlapping requests and restores keep reviews consistent and executions apart, and does a client that waits lose nothing? | 2 sessions, 2 requests in flight, 5 requests | 3,193,704 |
| `streaming` | Do events tell the runs truly, also to a handler that lags, and is this runner the run loop? | 2 calls, 2 threads (symmetric), 2 nodes, limit 2, channel of 2, 1 handler that may come and go | 972,121 |
| `subgraphs` | Do joins keep their promise in any order of ends, failures, panics, aborts and drops, promptly, and is the active set exact? | nodes with 0 to 2 subgraphs, every strategy, `WaitN` of 0, 1, 2 and 3, 2 spawned graphs, 2 keys | 376,768 |
| `stores` | Do the decision stores agree, are listings and queries exact, and does SurrealDB keep the checkpointer's log? | 2 ids, 2 callers (symmetric), 3 changing calls; 3 checkpoints, 3 threads; 4 documents, 2 episodes, 3 decisions | 174,961 |
| `workflows` | Do the workflows keep their promises when they run twice over one state, under any answers and decisions? | 12 flows, 2 invocations, 2 changes, 5 approval events, 4 or 9 iterations | 518,687 |
| `checkpoint_every_execution` (violation) | Is every executed node saved? | 1 thread, limit 3 | |
| `a2a_terminal` (violation) | Is a terminal state final? | 1 task, 2 requests | |
| `audit_log` (violation) | Is the approval log append-only? | 1 session, 3 requests | |
| `stale_approval` (violation) | Is a change that needs an approval shipped on one of its own? | 2 changes, 2 invocations | |

Why the bounds are enough. Two calls are needed for a race on a store and one
of them can hold what the other deletes; either may resume what the other wrote,
so chains of resumes have length two, and the graph has a cycle, a finish, a
keyed edge that shadows an unkeyed one and a router that names a missing node.
With limit 2 a run meets every exit with zero, one and two nodes executed. Two requests on one task show every overtaking of
copies; a third only repeats one of them. A channel of two overflows
with every double publish (resume, a failing node) that meets an unread event. Five requests
to two sessions are enough to pause, decide and pause again across an execute or
a restore, and for a request to hold a handle that the next one has replaced.
Three failures suffice for a failure, its failed recovery,
and the recovery of that, with two classes whose policies differ (1 and 2
attempts). Three ids suffice for self loops, two- and three-cycles, shared and
dangling dependencies. Two subgraphs arrive in either order, one of them may fail,
panic or be late, and `WaitN` meets too few, just enough and more than there
are. Two callers with three changing calls let a record replace what another is
still indexing while a listing is under way. Three checkpoints on three threads are
one out of order on the loose thread between two of a strict one, or one for each
of the two strict ones and a crash that takes both. Two
invocations are one on a state that has been through the whole workflow before.
Where a workflow has a loop (`react`, `pipeline`) four iterations let the model be
asked again after an answer; nine are more than the longest of the others takes.

Deadlock is not checked: every system here may come to rest (all calls
answered, ids used up).

### The properties
- `CheckpointsAreWalks`: what a checkpoint or a run holds is a walk of the graph
  that leads to the node it continues with. A resume that skipped or repeated a
  node would break it, through any chain of resumes.
- `BoundedLoss`: with a checkpoint per node, a run that stops at any instant has
  lost at most one executed node.
- `AnswersAreDurable`: the state returned to a caller is stored.
- `WellFormed`: budgets, and the store's indexes under deletions against runs still
  saving.
- `ImplementsRunLoop`, `ImplementsLog`: runner and store against their promises.
- `EveryRunReturns`: cyclic graphs return.
- `OutcomesAreTrue`, `JobStaysAttached`: stale copies never invent an outcome or
  lose a Job. `FollowsLifecycle`: a task whose client waits for answers follows
  `TaskLifecycle`, whatever other tasks' clients do. `PollingSettles`: a task whose Job is
  over (ended, or removed) becomes terminal for good, though stale answers are still to
  be written back.
- `BlockedIsExact`, `DependenciesFirst`, `AttemptsAreBounded`, `StaysAcyclic`,
  `EventuallyComplete`: see the comments in `SchedulerNode`.
- `ReviewsAreConsistent`: what is pending, decided, queued and logged agrees in
  every state that can be seen or restored. `ExecutionsDoNotMix`: no state pairs one
  execution's output with another's input. `PoliteSessionsAreAtomic`: a client that
  waits for answers sees its requests take effect one after the other, as a whole.
- `FollowersKnow`: what a thread's events say is where its run is, and a checkpoint
  they name can be resumed from. `MetricsAreExact`: a handler that was there from the
  beginning and did not lag counts what happened, failed, limited and resumed runs
  included. `TheEndIsHeard`: a lag never costs the newest event.
  `ImplementsRunLoop` again, for this runner.
- `JoinKeepsItsPromise`: a node that answers ok has as many completed subgraphs as
  its strategy asks for and no failed one among those it heard; one that answers
  an error, or is dropped, has not touched the parent. `ArrivalOrderIsInvisible`:
  when all results were heard and go under keys of their own, the parent's
  context does not show their order. `ActiveIsExact`: who runs is counted
  and who is counted wrongly was aborted, panicked or has a namesake.
  `JoinsArePrompt`: liveness of joins although other subgraphs may run for ever.
- `BackendsAgree`: away from ids that two changing calls overlapped on, every
  index names exactly what a `SELECT` finds, once per mention. Such an overlap does damage
  the indexes (section 4). `AllListingsAreExact`: a
  listing under concurrent changes is exact on all other decisions, newest first.
  `RetrievalIsExact`: a query of the repository's memory finds every match, in order,
  up to its limit, and a packed context fits. `SurrealKeepsTheLog`: on threads with one
  run at a time the table is a `CheckpointLog`, newest first, through failed saves,
  restarts and threads that do otherwise.
- `CallsAreAnswered`, `GuidanceIsCurrent`, `ApprovalsStand`, `ReleaseIsJustified`,
  `SpendingIsControlled`, `ReplayAgrees`: the promises of the workflows, each across
  several nodes and two invocations (see the comments in `Workflows`). Two of them are
  weaker than one may expect, because the code is. `CallsAreAnswered` asks for answers
  until the agent is done, and says that no call of a later turn is ever answered
  (section 4). `ApprovalsStand` says what an approval is good for: what ships was let
  through as low risk and undecided, or by an approval that is the last word of the log,
  and if it was asked for since the change was put up, for what was shown or an edit.
  That the approval is of this change at all is the question of `stale_approval`.
  `ReplayAgrees` tells the records of two invocations apart by a history field, `by`;
  the records of the code cannot be told apart (section 4).
- `LoopBlocksLeastSet`: the repeated pass ends with exactly the least set blocked,
  in whatever order it meets the tasks, and the searches end. `LoopsAreExact`: what the
  three loops leave is what `EpicPlan` says.
  `DiffsAreExact`: applying a diff to one graph gives the other, its counts add up, and
  graphs whose diff is empty lead the same way.

Each has a mutant: a plausible bug in one definition that makes its run fail.

### Fairness
- `CheckpointRunner!FairSpec`: weak fairness of each started run's loop. The
  async runtime polls a task until it returns; nothing obliges callers to start
  one, nor is any particular result of a node assumed.
- `A2ATasks!PolledSpec`: for polled tasks, the client keeps asking (strong
  fairness of `Get`: other requests occupy the slots in between), the
  cluster is reachable again and again (strong fairness of `Observe`; it fails
  otherwise), and an answered handler now and then gets to finish rather than being
  dropped (strong fairness of `FinishGet`). Nothing is assumed of the other tasks, nor
  of any Job: `build_job` sets a time to live for finished Jobs and a limit of retries,
  no deadline (worker/k8s.rs:96), so a worker that hangs, or an image that cannot be
  pulled, is polled as working for ever. `PollingSettles` begins where a Job is over.
- `Planning!PartSpec`: the graph comes back to the scheduler and agents end, both
  weakly. Whether they succeed is open; failures are bounded. The loop over a plan goes
  on (weak): it is a `while`, or a recursion, in one function.
- `Orchestration!Fairness`: requested aborts land and whoever awaits a task that
  has ended is woken, both the runtime's part and weak. No graph is assumed to
  end by itself; the caller is not assumed to spawn or to abort.

## 4. What the violations show
Four statements of docs or comments that the code does not keep; the
findings in `PROJECT.json` quote them. (1) "Save checkpoint after every node
execution": the save is before. (2) A canceled task can be working again.
(3) The append-only approval log of a session loses what was logged while an
`execute` ran: the write-back replaces the whole state. (4) `ApprovalCheckpointNode`
"pauses execution when policy requires human approval for the current risk level", but
takes the branch of any decision it finds: the approval of one change lets the next
through, of medium or high risk and never shown to anybody, if it is put up in the same
state.

Noted while modelling, without a run. Planning and tasks: a
Job that succeeded and was cleaned up before a poll is reported failed; a dependency that is not in
the plan leaves a pending task the scheduler waits for, where it says "Remaining tasks are
Blocked or Running" (planning/node.rs:298); a recovery is recorded and
counted although the plan it went into is dropped (planning/node.rs:271); a manual
recovery task registered for a task that fails twice makes the plan depend on
itself, and the scheduler fails from then on (this is why `StaysAcyclic` asks for
`manual = <<>>`); recoveries of recoveries have attempts of their own, so an
original task may be retried more often than `max_attempts`; `PlanProgress` leaves
failed tasks out of what remains.

Runs: `max_checkpoints_per_thread` is never read; `RunResult::Interrupted` is never
constructed; a run of the streaming runner that ends at a missing node or a
failed save publishes no `graph_error`, and one whose last save fails has
published `graph_completed`; `EventReceiver::try_recv` answers `None` to a receiver
that lagged although events are there (events/bus.rs:122); a traced or plain run
that fails or meets its limit loses the state it made; a transition record cannot
tell a node that named the end from one that finished; the log "for a run"
(execution/transition.rs:118) is one per runner, so a second invocation appends to it under
the same run id, with iterations from 0 again, and what it returns as `transition_log` holds
the transitions of both.

Reviews: `pause` keeps edits queued for the request before it, and an approval of
the new request, or `resume` without any, applies them, to a later change too if it is put
up in the same state; `execute` runs a paused session. A caller that goes on with a state
must itself take the last decision and edits out of it: nothing in the crate does.

Agents: nothing takes `is_complete` back (`mark_complete` and two nodes of
nodes/conditional.rs set it). Once an answer of the model asked for no tool, `AgentRouter` of the example ends every
later run over that state right after the model's turn: the calls that turn makes are
never run, and the turn after it asks the model over a conversation with calls that have
no answers.

Other nodes: `GovernanceNode` leaves `tool_policy_role` as an earlier handoff set it
(nothing reads that key: `ToolNode` goes by `agent_role`); `RiskClassifier`
has a derived `Default` whose threshold is 0, unlike `new`; in the rollout example the edge
from `coordinate` on `complete` leads straight to `released`, so the aggregate and
the gate see only rollouts that had to wait; blocked changes stay blocked when what they
wait for passes later. A term that is given twice in a query counts twice in the
scores. Two changing calls on one id that overlap in the memory decision store may leave its
indexes wrong for good (such ids are `raced`, of which `BackendsAgree` says nothing): of two
records the second finds the first one's decision and removes index entries that are not
there yet, then both add theirs, and `list_by_tag` returns the decision twice, although
the comment at memory/decision/memory.rs:67 rules out "stale duplicates"; a record and a
delete may leave index entries without a record. An empty `GraphDiff` does not show the order of edges with one
key, of which routing takes the first.

## 5. Proofs

Proved for every value of the constants, with the assumptions the modules name:
`GraphCompiles`, `EndIsNoNode`, `MaxIterationsIsNat`, `SomeThread`,
`EveryNodeIsFlags` (runner); `SomeClients` (A2A); `PlansArePlans`, `LimitsAreNat`,
`ManualInjective`, `IdsAssumption`
(scheduler and planner loops: a plan has finitely many ids); `PoliteAreSessions`, `BoundsAreNat` (sessions);
`CapacityIsPositive`, `SavesAreKnown` (streaming: a channel has a slot, and a run's
configuration is one the builder can make); `SetupsAssumption`, `KidsAssumption`,
`HandlesAssumption` (subgraphs); `ContentsAreDecisions` (decision stores);
`WritersAssumption`, `BoundIsNat` (SurrealDB); `MemoriesAssumption` (repository memory:
texts are sequences, sizes, times and limits are numbers); `BuildersAssumption`
(diffs: both sides start from a builder, no node is named END, a transition key is not
the mark of an unkeyed edge); `FlowsAreNamed`, `NamesAreApart`,
`KeysAreApart`, `IdsNameTools`, `AnswersCallTools`, `ChangesArePending` (workflows: the
examples' own node names and keys are not those of the crate, an id of a call is given
to one tool's calls, a change graph starts with nothing done). They say what the
constants are, nothing about behaviour.

- `MemoryCheckpointerProofs`: a store written by any interleaving of its methods
  has agreeing indexes (`StoreIsConsistent`); the invariant adds that all ids are
  at most the counter. It also is the abstract log (`StoreKeepsTheLog`): what the log
  has for an id is found along the thread's list, in its order (`AlongIs`), so
  appending, taking one out and emptying a list are the log's three steps. The
  preservation lemmas are stated for one method each and cited by the proofs
  of both runners.
- `CheckpointRunnerProofs`: `StayWellFormed`, `ResumesWalks`,
  `LossIsBounded`, `AnswersHold`. The inductive invariant `IndInv` is a
  conjunction per run (`RunOK`, `RunLoss`) and per checkpoint. `BoundedLoss` is
  not inductive alone: it needs that a run's last checkpoint, while stored, is not
  written by anyone else, which holds because ids are fresh, and that a run at
  `top` after executing has a checkpoint whose path is one node shorter. Walks
  are closed under `Execute` by a lemma on `Append`. `RunsThePlainLoop` and
  `StoreStaysALog` are the two refinements: every step is a step of
  `RunLoop` under the mapping in `CheckpointRunner` or leaves its variables alone
  (`Enter`, saves, deletions), one lemma per action; and of the log.
- `A2ATasksProofs`: `TypeCorrect`, `OutcomesTrue`, `JobsStayAttached`,
  `PoliteTasksFollow` (the detailed service implements `TaskLifecycle` for tasks
  with a polite client). `OutcomesAreTrue` needs that the copies and answers in
  flight are true as well; `PoliteTasksFollow` needs that the only request about
  such a task holds a copy equal to the stored task.
- `SchedulerNodeProofs`: `TypeCorrect`, `BlockingIsExact`, `AttemptsBounded`,
  `NeverCyclic`, `OrderIsKept`. `BlockedIsFixpoint` shows that the least set
  `BlockedTasks` is a fixed point (remove a task that has no blocked dependency
  and the rest is still closed), so every plan that comes out of propagation is
  exact; each way of changing a plan ends with a propagation. The attempts need
  that a failed task has a known class. The last two theorems assume
  `RecoveryIdsAreFresh` (recovery ids are injective and no decomposer's plan mentions
  one) and speak of schedulers without registered recovery tasks; their
  invariant is that a recovery id occurs in the plan only if its attempt was
  counted, so the next one is new. A cycle of the new plan minus the new tasks would be
  a cycle of the old one.
  The second part is `DiffsStayExact`, for any two builders, whatever was done to them.
  The invariant is small (`Builders`: finite nodes, none named END, two kinds of edges);
  the argument is about `diff` itself (`DiffTells`). How many elements some sets have
  together (`Together`) agrees for two families if it does index by index (`SumsAgree`, by
  induction over a finite set), so the sizes of bags do. A group of edges has of a shape
  what the graph has, or nothing if the shape is of another key (`GroupIs`); on one key
  taking out and putting in gives the other group, replaced pairs included
  (`EdgeChangeIs`); and no shape gets changes from two keys (`AllOfIs`), so it does for the
  graph (`EdgesPatched`), and the counts add up over the keys (`EdgesCounted`). With an
  empty diff, shapes agree, and a graph with one edge per key leads where its edge
  leads (`LeadsIs`); a router is not part of a shape, hence the hypothesis that the
  routers are the same.
  The third is `LoopsStayExact`, for plans over any finite set of ids. Propagation
  (`LoopOK`) blocks no task that need not be, and has reached the least set when a pass
  finds nothing (`PassIs`). In `has_cycles` (`CyclesOK`) the ids being visited are those
  on the path, each call depends on the next, and the visited ids are closed under
  dependencies and hold no set that keeps depending on itself; so an id met while it is
  being visited closes a cycle on the path (`LookIs`), and one that is left makes none
  (`LeaveIs`). A walk (`WalkOK`) visits only ids its task is downstream of, and lacks
  what is below an id on the stack alone; when the stack is empty, what it did not
  visit is closed, so it has all (`WalkEnds`).
- `SessionServerProofs`: `ReviewsStayConsistent`, `ExecutionsStayApart`,
  `PoliteRequestsAreAtomic`. The states of sessions are consistent because all others
  are that can become one: those behind handles that a request still holds, the saved
  ones and the copies in flight (`AllGood`). No two sessions share a handle,
  and a request's handle is its own session's or nobody's (`Owned`), so that a
  late write-back cannot reach another session. The action property needs that the
  one request of a polite session runs on a copy of the state it will replace
  (`OneAtATime`). `Consistent` is over places in the log, so the review operations are
  shown to keep it through how an event moves the last creation and the last decision.
- `StreamingRunnerProofs`: all the safety of the streaming runner.
  `FollowersStayInformed`: what a run may be doing when its events say so is fixed
  phase by phase (`RunOK`, `Shows`); one run per thread is active, and named
  checkpoints stay resumable because saves only add. `EndsAreHeard`: a receiver has
  never more unread than the channel holds, and one with nothing unread has heard
  the newest (`BusInv`). `MetricsStayExact`: for a handler that has missed nothing, the
  executions, ends and errors that have happened are those it counted plus those in its
  unread events (`CountInv`). Executions are counted as pairs of a run
  and a place in its path, so that a step adds one to the set; each action
  either publishes as many events of a kind as it makes things of that kind
  happen, or none of both (`StepCounts`), and reading moves one event from the
  unread to the counted. It needs that no state counts more iterations than it
  has nodes in its path. `RunsThePlainLoop`: this runner implements `RunLoop`, too.
- `JoinsAndIndexesProofs` has the components whose proofs count in sequences.
  `ActiveStaysExact` is inductive with the types of the
  handles. `JoinsKeepTheirPromise` needs that every result heard is what its subgraph
  ended with (`HeardIsTrue`: an ended task changes no more), and that what has been
  heard while the node waits was not enough to stop (`NotEnoughYet`), for each
  strategy; the counts of results are those of sequences that are all of one outcome.
  `ArrivalOrderStaysInvisible`: what merging leaves is a function of the set of slots
  merged (`Whole`), shown by induction over the results (`OneMore`, `MergeAllIs`);
  it stays so because no subgraph runs on once every slot has been heard.
  `IndexesAgreeWithTheTable`: entries in an index are counted
  (`Mentions`), and the invariant says for every decision what the count is: that of
  its content while no call is at it (`Resting`), and while one is, what the steps
  that call has left leave room for (`Halfway`): all entries of the old content before
  they are removed, none before those of the new one are added. One call at
  most is at an id that is not `raced` (`Alone`), and steps come removals first
  (`Orderly`). What `retain` leaves is shown by induction over the vector (`PrunedIs`;
  `Induction` is stated for a set, which the provers can instantiate).
  `ListingsStayExact`: what a listing has copied is right about every id that no call
  was at since (`Copied`), which the steps of the others keep because they mark
  what they touch. `TheTableIsALog`: checkpoints have ids of their own, and where one
  run at a time saves, the one it has still to save is later than all of its thread
  (`TableInv`), so a save goes to the end of the list and a deletion leaves the order
  of the others. Both rest on lemmas about lists by rank: a linear order has every
  rank once (`Ranks`), a list by rank is sorted, and two sorted lists of one set are
  equal (`OneOrder`). The attempt showed that the log of earlier versions was too
  strict: with two such threads a crash of an in-memory database empties two logs in
  one step, hence `Lose`.
  `RetrievalStaysExact`: the index has a position under a term exactly when the document
  there has it (`Inverts`), through removals that move the others up (`WithoutIs`), and
  no two documents or decisions have one id (`OneEach`). So what a query finds by its
  terms is all that could score, the ranking is a linear order and its first few outrank
  the rest (`QueryIs`). What a context holds after n of the sections offered is told by
  `Packing`, an invariant of the recursion; sizes are added up by counting tokens, a sum
  the provers can reason about (`TokensAppended`).
- `WorkflowsProofs`: all properties of the workflows, for every flow, number of
  invocations, answers, changes and signals. `ReplaysAgree` goes by the log alone:
  `LogInv` says for each invocation which record leads on to which (`Follows`), whatever
  the other one wrote in between. `CallsAnswered`, `GuidanceCurrent`, `ApprovalsHold`,
  `ReleaseJustified` and `SpendingControlled` go by `FlowInv`: before each node of a flow
  the state a run holds is as that node needs it (`Good`, by flow: `ReactGood`,
  `GovernanceGood`, …), and at the end as the next invocation does, as is the state the
  caller keeps. No property is inductive alone: a run that stands before `ship` was let
  through nodes earlier, by a decision that must still answer the request there is and be
  the last word of the log, and what was asked since the change was put up must still be
  about its summary or an edit in the log (`ReviewFits`), whatever the operator and the
  earlier runs did; a node that finds calls unanswered relies on the model's message being
  the last that had some, and `is_complete` must say exactly whether an answer without
  calls is in the conversation (`ReactGood`); what a tenant spent is one run ahead of what is recorded between
  the budget guard and the SLO record, and only there. One lemma per
  flow says that each of its nodes leads from `Good` to `Good`.

Only model-checked is liveness (`EveryRunReturns`, `PollingSettles`,
`EventuallyComplete`, `JoinsArePrompt`, `LoopBlocksLeastSet`), which is out of the proof
system's reach.

`TypeCorrect` of `A2ATasksProofs` and `SchedulerNodeProofs` is the typing the other
invariants there rest on; no run lists it on its own.

## 6. Not modelled
`PROJECT.json` lists every component with its status. Left out:
- the file system and processes: discovery, symlinks and the validator of the
  governance files, `tools/sandbox.rs`, git helpers, command output;
- reports and renderings nothing depends on: plan progress, the run timeline of
  hitl, `to_mermaid`, logging handlers, `try_recv`, the read-only endpoints and the
  command line of the server, the manifest `build_job` writes;
- what is not part of the crate: the deprecated core (`runtime.rs`, `edge.rs`, …)
  and `nodes/quality.rs`, which are in no module tree; the sites and manifests.

Of the modelled parts: payloads, timestamps beyond their order, messages' wording,
logging, lock poisoning (it needs a panic while a lock is held). Contexts are
untyped maps in the code; a value of a type the reader does not expect reads as
absent, which the model has at the one place where a flow does that (`pipeline`'s
`mistyped` topic).

## 7. Plan
1. (done) Graph and checkpoints; A2A tasks; planning; sessions and reviews; events.
2. (done) Subgraphs; decision and repository memory; the SurrealDB checkpointer;
   the traced runner and the workflows over all nodes; diffs.
3. (done) Proofs: both runners (their invariants, the refinement of the run loop, the
   store as a log, exact metrics), sessions, joins and the active set, the decision
   stores and their listings, SurrealDB's log, the repository's memory, graph diffs, the
   planner's loops, all properties of the workflows.
