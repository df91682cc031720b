-------------------------- MODULE CheckpointRunner --------------------------
(***************************************************************************)
(* CheckpointingRunner (checkpoint/runner.rs) over a shared Checkpointer:  *)
(* several calls of invoke, resume and resume_from run concurrently, on    *)
(* the same threads or on different ones, while clients delete             *)
(* checkpoints.  A loop iteration is two steps, because another task can   *)
(* run at the await between them: the loop head with its save, and the     *)
(* node's execution.                                                       *)
(***************************************************************************)
EXTENDS GraphRouting

CONSTANTS Runs,            \* calls of invoke, resume and resume_from
          Threads,
          MaxIterations,   \* RunnerConfig::max_iterations
          EveryNode        \* CheckpointConfig::checkpoint_every_node of each
                           \* call's runner

ASSUME MaxIterationsIsNat == MaxIterations \in Nat
ASSUME SomeThread         == Threads # {}
ASSUME EveryNodeIsFlags   == EveryNode \in [Runs -> BOOLEAN]

VARIABLES runs, checkpoints, threads, lastId

Names      == Nodes \cup {END} \cup UNION {After(n) : n \in Nodes}
AgentState == [iteration : Nat, path : Seq(Nodes)]
FreshState == [iteration |-> 0, path |-> <<>>]

Store == INSTANCE MemoryCheckpointer WITH NodeNames <- Names, SavedState <- AgentState

storeVars == <<checkpoints, threads, lastId>>
vars      == <<runs, checkpoints, threads, lastId>>

Outcome == {"none", "completed", "limit", "not_found", "node_failed", "dropped",
            "no_checkpoint", "save_failed"}

\* thread is meaningful once the run has started; saved is the id of the last
\* checkpoint this run wrote, 0 before the first.
Run == [phase   : {"idle", "top", "exec", "done"},
        thread  : Threads,
        node    : Names,
        st      : AgentState,
        iters   : 0 .. MaxIterations,
        outcome : Outcome,
        saved   : Nat]

NotStarted == [phase |-> "idle", thread |-> CHOOSE t \in Threads : TRUE,
               node |-> Entry, st |-> FreshState, iters |-> 0,
               outcome |-> "none", saved |-> 0]

Init ==
  /\ runs = [r \in Runs |-> NotStarted]
  /\ Store!StoreInit

-----------------------------------------------------------------------------
\* Starting a run.

Begin(r, t, node, s) ==
  runs' = [runs EXCEPT ![r].phase = "top", ![r].thread = t,
                       ![r].node = node, ![r].st = s]

Invoke(r, t) ==
  /\ runs[r].phase = "idle"
  /\ Begin(r, t, Entry, FreshState)
  /\ UNCHANGED storeVars

Ends(r, outcome) ==
  runs' = [runs EXCEPT ![r].phase = "done", ![r].outcome = outcome]

\* Mutant: a resumed run starts over at the entry point, with the saved state.
StartFromEntry(r, id) ==
  /\ runs[r].phase = "idle"
  /\ IF id \in Store!Stored
     THEN Begin(r, checkpoints[id].thread, Entry, checkpoints[id].st)
     ELSE Ends(r, "no_checkpoint")
  /\ UNCHANGED storeVars

\* A run that starts from checkpoint id, or fails because there is none (0).
StartFrom(r, id) ==
  /\ runs[r].phase = "idle"
  /\ IF id \in Store!Stored
     THEN LET cp == checkpoints[id] IN Begin(r, cp.thread, cp.node, cp.st)
     ELSE Ends(r, "no_checkpoint")
  /\ UNCHANGED storeVars

Resume(r, t) == StartFrom(r, Store!Latest(t))

\* The caller names any id ever drawn, deleted ones included.
ResumeFrom(r, id) == StartFrom(r, id)

-----------------------------------------------------------------------------
\* The loop.

Here(r) == [thread |-> runs[r].thread, node |-> runs[r].node, st |-> runs[r].st]

\* Mutants: the limit is tested before END; with `>`.
AtLimitFirst(r) == runs[r].iters >= MaxIterations
AtLimitLate(r)  == runs[r].node # END /\ runs[r].iters > MaxIterations

AtTop(r)      == runs[r].phase = "top"
AtEnd(r)      == runs[r].node = END
AtLimit(r)    == runs[r].node # END /\ runs[r].iters >= MaxIterations
MayExecute(r) == runs[r].node # END /\ runs[r].iters < MaxIterations

\* Write a checkpoint of where the run is and return.
SaveAndEnd(r, outcome) ==
  /\ Store!Save(Here(r))
  /\ runs' = [runs EXCEPT ![r].phase = "done", ![r].outcome = outcome,
                          ![r].saved = lastId + 1]

\* Mutant: no checkpoint of the state a run is stopped with at the limit.
HitLimitUnsaved(r) ==
  AtTop(r) /\ AtLimit(r) /\ Ends(r, "limit") /\ UNCHANGED storeVars

Complete(r) == AtTop(r) /\ AtEnd(r) /\ SaveAndEnd(r, "completed")

HitLimit(r) == AtTop(r) /\ AtLimit(r) /\ SaveAndEnd(r, "limit")

MissingNode(r) ==
  /\ AtTop(r)
  /\ MayExecute(r)
  /\ runs[r].node \notin Nodes
  /\ Ends(r, "not_found")
  /\ UNCHANGED storeVars

\* Mutant: a save before the first node only.
EnterFirstOnly(r) ==
  /\ AtTop(r) /\ MayExecute(r) /\ runs[r].node \in Nodes
  /\ IF EveryNode[r] /\ runs[r].iters = 0
     THEN /\ Store!Save(Here(r))
          /\ runs' = [runs EXCEPT ![r].phase = "exec", ![r].saved = lastId + 1]
     ELSE /\ runs' = [runs EXCEPT ![r].phase = "exec"]
          /\ UNCHANGED storeVars

\* The node exists: save the state it will start from, if so configured.
Enter(r) ==
  /\ AtTop(r)
  /\ MayExecute(r)
  /\ runs[r].node \in Nodes
  /\ IF EveryNode[r]
     THEN /\ Store!Save(Here(r))
          /\ runs' = [runs EXCEPT ![r].phase = "exec", ![r].saved = lastId + 1]
     ELSE /\ runs' = [runs EXCEPT ![r].phase = "exec"]
          /\ UNCHANGED storeVars

\* A save that reports an error ends the run; a remote backend may have stored
\* the checkpoint all the same.
SaveFails(r) ==
  /\ AtTop(r)
  /\ AtEnd(r) \/ AtLimit(r) \/ (MayExecute(r) /\ runs[r].node \in Nodes /\ EveryNode[r])
  /\ \/ Ends(r, "save_failed") /\ UNCHANGED storeVars
     \/ SaveAndEnd(r, "save_failed")

Execute(r) ==
  /\ runs[r].phase = "exec"
  /\ \E out \in Outputs[runs[r].node] :
       \E next \in Successors(runs[r].node, out) :
         runs' = [runs EXCEPT
                    ![r].phase = "top",
                    ![r].st    = [iteration |-> @.iteration + 1,
                                  path |-> Append(@.path, runs[r].node)],
                    ![r].iters = @ + 1,
                    ![r].node  = next]
  /\ UNCHANGED storeVars

NodeFails(r) ==
  /\ runs[r].phase = "exec"
  /\ Ends(r, "node_failed")
  /\ UNCHANGED storeVars

\* The caller drops the future, its task is aborted, or the process that runs
\* it stops while the store survives.
Dropped(r) ==
  /\ runs[r].phase \in {"top", "exec"}
  /\ Ends(r, "dropped")
  /\ UNCHANGED storeVars

Loop(r) == \/ Complete(r) \/ HitLimit(r) \/ MissingNode(r) \/ Enter(r)
           \/ SaveFails(r) \/ Execute(r) \/ NodeFails(r)

Start(r) == \/ \E t \in Threads : Invoke(r, t) \/ Resume(r, t)
            \/ \E id \in 1 .. lastId : ResumeFrom(r, id)

Deletion == /\ \/ \E id \in Store!Stored : Store!Delete(id)
               \/ \E t \in Threads : Store!DeleteThread(t)
            /\ UNCHANGED runs

Next == \/ \E r \in Runs : Start(r) \/ Loop(r) \/ Dropped(r)
        \/ Deletion

Spec == Init /\ [][Next]_vars

\* A run that has been started is polled until it returns.
FairSpec == Spec /\ \A r \in Runs : WF_vars(Loop(r))

-----------------------------------------------------------------------------
\* Runs and store are well formed: no run executes more than its budget, and the
\* store's two indexes agree, whatever runs and deletions interleave.
WellFormed ==
  /\ runs \in [Runs -> Run]
  /\ Store!StoreTypeOK
  /\ Store!StoreInv

\* Every checkpoint pairs a state with the node that comes next after exactly
\* the nodes that state holds, so a resume neither skips a node nor applies one
\* twice to the state; so does every run, however often its thread was resumed.
CheckpointsAreWalks ==
  /\ \A id \in Store!Stored :
       /\ IsWalk(checkpoints[id].st.path, checkpoints[id].node)
       /\ checkpoints[id].st.iteration = Len(checkpoints[id].st.path)
  /\ \A r \in Runs :
       /\ IsWalk(runs[r].st.path, runs[r].node)
       /\ runs[r].st.iteration = Len(runs[r].st.path)

\* With a checkpoint per node, a run that stops at any moment loses at most one
\* executed node: the last checkpoint it wrote, while nobody deletes it, is the
\* state it started its current node from, or the one before.
BoundedLoss ==
  \A r \in Runs : EveryNode[r] =>
    /\ runs[r].phase = "exec" => runs[r].saved # 0
    /\ runs[r].phase \in {"top", "exec"} /\ runs[r].saved \in Store!Stored =>
         LET done == runs[r].st.path
             kept == checkpoints[runs[r].saved].st.path
         IN  \/ kept = done
             \/ runs[r].phase = "top" /\ Len(done) > 0 /\ kept = SubSeq(done, 1, Len(done) - 1)

\* A caller told "completed" or "recursion limit" finds the state it was told
\* about in the store, until somebody deletes it.
AnswersAreDurable ==
  \A r \in Runs :
    runs[r].outcome \in {"completed", "limit"} =>
      /\ runs[r].saved # 0
      /\ runs[r].saved \in Store!Stored => checkpoints[runs[r].saved] = Here(r)

\* Every run returns, resumed ones and those over a shrinking store included.
EveryRunReturns ==
  \A r \in Runs : runs[r].phase \in {"top", "exec"} ~> runs[r].phase = "done"

\* Apart from its checkpoints this runner is the plain run loop: same checks in
\* the same order, same routing, same results.  A failed save looks like a
\* dropped run to the loop, a missing checkpoint like one that never started.
LoopRun(run) ==
  [phase   |-> CASE run.phase \in {"top", "exec"}      -> "running"
                 [] run.outcome = "no_checkpoint"      -> "idle"
                 [] OTHER                              -> run.phase,
   node    |-> run.node,
   st      |-> run.st,
   iters   |-> run.iters,
   outcome |-> CASE run.outcome = "save_failed"   -> "dropped"
                 [] run.outcome = "no_checkpoint" -> "none"
                 [] OTHER                         -> run.outcome]

LoopRuns == [r \in Runs |-> LoopRun(runs[r])]

Loops == INSTANCE RunLoop WITH runs <- LoopRuns

ImplementsRunLoop == Loops!ResumableSpec

\* The store keeps its own promise under these runs.
ImplementsLog == Store!ImplementsLog

-----------------------------------------------------------------------------
\* What the configuration's documentation says and the code does not do.

\* "Save checkpoint after every node execution" (checkpoint/mod.rs:105): a run
\* that returned by itself left a checkpoint of all it had executed.
EveryExecutionIsSaved ==
  \A r \in Runs :
    /\ EveryNode[r]
    /\ runs[r].outcome \in {"completed", "limit", "not_found", "node_failed"}
    /\ runs[r].iters > 0
    /\ runs[r].saved \in Store!Stored
    => checkpoints[runs[r].saved].st = runs[r].st
=============================================================================
