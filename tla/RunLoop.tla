------------------------------- MODULE RunLoop -------------------------------
(***************************************************************************)
(* GraphRunner::run_loop (runner.rs), and with it the promise every runner *)
(* of the crate makes: each loop iteration tests END, then the iteration   *)
(* limit, then looks the node up, executes it, counts, and routes.         *)
(*                                                                         *)
(* A run is one call of invoke or invoke_shared.  The agent state is       *)
(* abstracted to its iteration counter and to the sequence of the nodes    *)
(* whose effects it holds; the loop itself never contends for its lock.    *)
(***************************************************************************)
EXTENDS GraphRouting

CONSTANTS Runs,           \* calls of invoke
          MaxIterations   \* RunnerConfig::max_iterations

VARIABLE runs

AgentState == [iteration : Nat, path : Seq(Nodes)]
FreshState == [iteration |-> 0, path |-> <<>>]

Outcome == {"none", "completed", "limit", "not_found", "node_failed", "dropped"}

\* Node names a loop may meet: a router's answer need not be a node.
Names == Nodes \cup {END} \cup UNION {After(n) : n \in Nodes}

Run == [phase   : {"idle", "running", "done"},
        node    : Names,
        st      : AgentState,
        iters   : 0 .. MaxIterations,
        outcome : Outcome]

NotStarted == [phase |-> "idle", node |-> Entry, st |-> FreshState,
               iters |-> 0, outcome |-> "none"]

Init == runs = [r \in Runs |-> NotStarted]

-----------------------------------------------------------------------------

\* Executing `node` applies its effect and bumps the counter.
Executed(s, node) == [iteration |-> s.iteration + 1, path |-> Append(s.path, node)]

Ends(r, outcome) ==
  runs' = [runs EXCEPT ![r].phase = "done", ![r].outcome = outcome]

Running(r) == runs[r].phase = "running"

Complete(r) ==
  /\ Running(r)
  /\ runs[r].node = END
  /\ Ends(r, "completed")

HitLimit(r) ==
  /\ Running(r)
  /\ runs[r].node # END
  /\ runs[r].iters >= MaxIterations
  /\ Ends(r, "limit")

\* The test that the loop goes on to look up and execute its node.
MayExecute(r) == runs[r].node # END /\ runs[r].iters < MaxIterations

MissingNode(r) ==
  /\ Running(r)
  /\ MayExecute(r)
  /\ runs[r].node \notin Nodes
  /\ Ends(r, "not_found")

Step(r) ==
  /\ Running(r)
  /\ MayExecute(r)
  /\ runs[r].node \in Nodes
  /\ \E out \in Outputs[runs[r].node] :
       \E next \in Successors(runs[r].node, out) :
         runs' = [runs EXCEPT ![r].st    = Executed(@, runs[r].node),
                              ![r].iters = @ + 1,
                              ![r].node  = next]

NodeFails(r) ==
  /\ Running(r)
  /\ MayExecute(r)
  /\ runs[r].node \in Nodes
  /\ Ends(r, "node_failed")

\* The caller drops the future, or the task is aborted, at an await.
Dropped(r) ==
  /\ Running(r)
  /\ Ends(r, "dropped")

Loop(r) == Complete(r) \/ HitLimit(r) \/ MissingNode(r) \/ Step(r) \/ NodeFails(r)

\* The loop may be entered at any node with any saved state, which is what a
\* runner that resumes from a checkpoint does; invoke enters it at the entry
\* point with the caller's state.
BeginAnywhere(r) ==
  /\ runs[r].phase = "idle"
  /\ runs'[r] \in Run
  /\ runs'[r].phase = "running" /\ runs'[r].iters = 0 /\ runs'[r].outcome = "none"
  /\ runs' = [runs EXCEPT ![r] = runs'[r]]

ResumableNext == \E r \in Runs : BeginAnywhere(r) \/ Loop(r) \/ Dropped(r)

ResumableSpec == Init /\ [][ResumableNext]_runs
=============================================================================
