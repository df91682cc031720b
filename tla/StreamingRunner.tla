--------------------------- MODULE StreamingRunner ---------------------------
(***************************************************************************)
(* StreamingRunner (events/runner.rs): the run loop with events, and with  *)
(* checkpoints if it has a checkpointer.  A step ends where another task   *)
(* can run: at the await of a save and of a node.                          *)
(*                                                                         *)
(* Events carry no run id, only the thread: a thread's client runs it one  *)
(* call at a time here (the runner does not ask for it).                   *)
(***************************************************************************)
EXTENDS GraphRouting, FiniteSets

CONSTANTS Runs,           \* calls of invoke and resume
          Threads,
          MaxIterations,  \* RunnerConfig::max_iterations
          Saves,          \* Saves[r]: "never" (no checkpointer), "at limit" or "every node"
          Subscribers,
          Capacity        \* of the event channel

ASSUME MaxIterationsIsNat == MaxIterations \in Nat
ASSUME CapacityIsPositive == Capacity \in Nat \ {0}
ASSUME SavesAreKnown      == Saves \in [Runs -> {"never", "at limit", "every node"}]

VARIABLES runs, checkpoints, threads, lastId,
          channel, receivers, subscriberCount, metrics,
          views   \* history: what all events so far say of each thread

Names      == Nodes \cup {END} \cup UNION {After(n) : n \in Nodes}
AgentState == [iteration : Nat, path : Seq(Nodes)]
FreshState == [iteration |-> 0, path |-> <<>>]

Store == INSTANCE MemoryCheckpointer WITH NodeNames <- Names, SavedState <- AgentState
Bus   == INSTANCE EventBus

storeVars == <<checkpoints, threads, lastId>>
vars      == <<runs, storeVars, channel, receivers, subscriberCount, metrics, views>>

\* top: the loop's head.  entered, ending and limit: before a save.  exec: in the
\* node.
Phases  == {"idle", "top", "entered", "exec", "ending", "limit", "done"}
Active  == {"top", "entered", "exec", "ending", "limit"}
Outcome == {"none", "completed", "limit", "not_found", "node_failed", "dropped",
            "no_checkpoint", "save_failed"}

NoThread == "no thread yet"

Run == [phase : Phases, thread : Threads \cup {NoThread}, node : Names, st : AgentState,
        iters : 0 .. MaxIterations, outcome : Outcome]

NotStarted == [phase |-> "idle", thread |-> NoThread, node |-> Entry,
               st |-> FreshState, iters |-> 0, outcome |-> "none"]

-----------------------------------------------------------------------------
\* What somebody who follows all events of a thread knows.
Unknown == [status |-> "unknown", node |-> Entry, inside |-> FALSE, iters |-> 0, saved |-> 0]

Followed(view, event) ==
  CASE event.kind = "restored"  -> [view EXCEPT !.saved = event.id]
    [] event.kind = "started"   -> [view EXCEPT !.status = "running", !.node = event.node,
                                                !.iters = 0, !.inside = FALSE]
    [] event.kind = "entered"   -> [view EXCEPT !.node = event.node, !.iters = event.iteration,
                                                !.inside = TRUE]
    [] event.kind = "saved"     -> [view EXCEPT !.saved = event.id]
    [] event.kind = "exited"    -> [view EXCEPT !.node = event.next, !.iters = @ + 1,
                                                !.inside = FALSE]
    [] event.kind = "failed"    -> [view EXCEPT !.inside = FALSE]
    [] event.kind = "error"     -> [view EXCEPT !.status = "error"]
    [] event.kind = "completed" -> [view EXCEPT !.status = "completed", !.iters = event.iterations]

Publish(t, events) ==
  /\ Bus!Publish(events)
  /\ views' = [views EXCEPT ![t] =
                 IF Len(events) = 1 THEN Followed(@, events[1])
                 ELSE Followed(Followed(@, events[1]), events[2])]

Silent == UNCHANGED <<channel, receivers, subscriberCount, metrics, views>>

\* The events of a run, on its thread.
Restored(id)       == [kind |-> "restored", id |-> id]
Started(node)      == [kind |-> "started", node |-> node]
Entered(node, i)   == [kind |-> "entered", node |-> node, iteration |-> i]
Exited(node, next) == [kind |-> "exited", node |-> node, next |-> next]
Failed(node)       == [kind |-> "failed", node |-> node]
Saved(id)          == [kind |-> "saved", id |-> id]
Completed(i)       == [kind |-> "completed", iterations |-> i]
Error              == [kind |-> "error"]

Init ==
  /\ runs = [r \in Runs |-> NotStarted]
  /\ Store!StoreInit
  /\ Bus!BusInit
  /\ views = [t \in Threads |-> Unknown]

-----------------------------------------------------------------------------
\* A run begins.

Free(t) == \A r \in Runs : runs[r].phase \in Active => runs[r].thread # t

Begin(r, t, node, st) ==
  runs' = [runs EXCEPT ![r].phase = "top", ![r].thread = t, ![r].node = node, ![r].st = st]

Invoke(r, t) ==
  /\ runs[r].phase = "idle" /\ Free(t)
  /\ Begin(r, t, Entry, FreshState)
  /\ Publish(t, <<Started(Entry)>>)
  /\ UNCHANGED storeVars

Ends(r, outcome) == runs' = [runs EXCEPT ![r].phase = "done", ![r].outcome = outcome]
Goes(r, phase)   == runs' = [runs EXCEPT ![r].phase = phase]

Resume(r, t) ==
  /\ runs[r].phase = "idle" /\ Free(t) /\ Saves[r] # "never"
  /\ LET id == Store!Latest(t) IN
     IF id \in Store!Stored
     THEN LET cp == checkpoints[id] IN
          Begin(r, t, cp.node, cp.st) /\ Publish(t, <<Restored(id), Started(cp.node)>>)
     ELSE Ends(r, "no_checkpoint") /\ Silent
  /\ UNCHANGED storeVars

-----------------------------------------------------------------------------
\* The loop.

\* Mutant: one execution too many.
MayExecuteOnceMore(r) == runs[r].node # END /\ runs[r].iters <= MaxIterations

AtTop(r)      == runs[r].phase = "top"
MayExecute(r) == runs[r].node # END /\ runs[r].iters < MaxIterations

\* END: announced before the state is saved.
Finish(r) ==
  /\ AtTop(r) /\ runs[r].node = END
  /\ Publish(runs[r].thread, <<Completed(runs[r].iters)>>)
  /\ IF Saves[r] = "every node" THEN Goes(r, "ending") ELSE Ends(r, "completed")
  /\ UNCHANGED storeVars

HitLimit(r) ==
  /\ AtTop(r) /\ runs[r].node # END /\ runs[r].iters >= MaxIterations
  /\ Publish(runs[r].thread, <<Error>>)
  /\ IF Saves[r] # "never" THEN Goes(r, "limit") ELSE Ends(r, "limit")
  /\ UNCHANGED storeVars

\* Of a node that does not exist nothing is published.
MissingNode(r) ==
  /\ AtTop(r) /\ MayExecute(r) /\ runs[r].node \notin Nodes
  /\ Ends(r, "not_found")
  /\ Silent
  /\ UNCHANGED storeVars

Enter(r) ==
  /\ AtTop(r) /\ MayExecute(r) /\ runs[r].node \in Nodes
  /\ Publish(runs[r].thread, <<Entered(runs[r].node, runs[r].iters)>>)
  /\ Goes(r, IF Saves[r] = "every node" THEN "entered" ELSE "exec")
  /\ UNCHANGED storeVars

Here(r) == [thread |-> runs[r].thread, node |-> runs[r].node, st |-> runs[r].st]

\* Mutant: the event is published whatever became of the save.
SaveAnnounced(r) ==
  /\ runs[r].phase \in {"entered", "ending"}
  /\ IF runs[r].phase = "entered" THEN Goes(r, "exec") ELSE Ends(r, "completed")
  /\ Store!Save(Here(r)) \/ UNCHANGED storeVars
  /\ Publish(runs[r].thread, <<Saved(lastId + 1)>>)

\* The saves before a node and at END, each with its event.
Save(r) ==
  /\ runs[r].phase \in {"entered", "ending"}
  /\ IF runs[r].phase = "entered" THEN Goes(r, "exec") ELSE Ends(r, "completed")
  /\ Store!Save(Here(r))
  /\ Publish(runs[r].thread, <<Saved(lastId + 1)>>)

\* The one at the limit has no event.
SaveAtLimit(r) ==
  /\ runs[r].phase = "limit"
  /\ Ends(r, "limit")
  /\ Store!Save(Here(r))
  /\ Silent

\* A save may fail, having stored the checkpoint or not.
SaveFails(r) ==
  /\ runs[r].phase \in {"entered", "ending", "limit"}
  /\ Ends(r, "save_failed")
  /\ Store!Save(Here(r)) \/ UNCHANGED storeVars
  /\ Silent

Execute(r) ==
  /\ runs[r].phase = "exec"
  /\ \E out \in Outputs[runs[r].node] : \E next \in Successors(runs[r].node, out) :
       /\ runs' = [runs EXCEPT ![r].phase = "top",
                               ![r].st    = [iteration |-> @.iteration + 1,
                                             path |-> Append(@.path, runs[r].node)],
                               ![r].iters = @ + 1,
                               ![r].node  = next]
       /\ Publish(runs[r].thread, <<Exited(runs[r].node, next)>>)
  /\ UNCHANGED storeVars

NodeFails(r) ==
  /\ runs[r].phase = "exec"
  /\ Ends(r, "node_failed")
  /\ Publish(runs[r].thread, <<Failed(runs[r].node), Error>>)
  /\ UNCHANGED storeVars

\* The future is dropped at an await.
Dropped(r) ==
  /\ runs[r].phase \in {"entered", "exec", "ending", "limit"}
  /\ Ends(r, "dropped")
  /\ Silent
  /\ UNCHANGED storeVars

Loop(r) == \/ Finish(r) \/ HitLimit(r) \/ MissingNode(r) \/ Enter(r) \/ Save(r)
           \/ SaveAtLimit(r) \/ SaveFails(r) \/ Execute(r) \/ NodeFails(r)

Subscription == Bus!BusNext /\ UNCHANGED <<runs, storeVars, views>>

Next == \/ \E r \in Runs : \/ \E t \in Threads : Invoke(r, t) \/ Resume(r, t)
                           \/ Loop(r) \/ Dropped(r)
        \/ Subscription

Spec == Init /\ [][Next]_vars

-----------------------------------------------------------------------------
TypeOK ==
  /\ runs \in [Runs -> Run]
  /\ Store!StoreTypeOK
  /\ Bus!BusTypeOK

\* The run the events of thread t are telling about.
Current(t) == {r \in Runs : runs[r].phase \in Active /\ runs[r].thread = t}

\* Who follows all events of a thread knows, at every moment, where its run is:
\* the node, whether it is being executed, how many were; and a checkpoint it was
\* told of can be resumed from (the publishes of run_loop and resume).
FollowersKnow ==
  /\ \A t \in Threads : \A r \in Current(t) :
       LET view == views[t] IN
       /\ view.node = runs[r].node
       /\ view.iters = runs[r].iters
       /\ view.inside <=> runs[r].phase \in {"entered", "exec"}
       /\ view.status = CASE runs[r].phase = "ending" -> "completed"
                          [] runs[r].phase = "limit"  -> "error"
                          [] OTHER                    -> "running"
  /\ \A t \in Threads : views[t].saved # 0 =>
       views[t].saved \in Store!Stored /\ checkpoints[views[t].saved].thread = t

\* The executions of node n by the calls: which call, at which place of its path.
Visits(run, n) == {i \in Len(run.st.path) - run.iters + 1 .. Len(run.st.path) : run.st.path[i] = n}
Executed(n)    == UNION {{r} \X Visits(runs[r], n) : r \in Runs}

\* The call reached END or stopped at the limit, whatever became of its save.
Finished(run) == run.node = END /\ run.phase \in {"ending", "done"}

Limited(run) == /\ run.node # END /\ run.iters >= MaxIterations
                /\ run.phase \in {"limit", "done"} /\ run.outcome # "no_checkpoint"

Reached == {r \in Runs : Finished(runs[r])}
Broken  == {r \in Runs : Limited(runs[r]) \/ runs[r].outcome = "node_failed"}

\* A handler that was there from the beginning and was never told of a lag has,
\* once it has read everything, counted exactly what happened.
MetricsAreExact ==
  \A s \in Subscribers :
    receivers[s].on /\ receivers[s].lossless /\ ~receivers[s].overwritten /\ receivers[s].unread = 0 =>
      /\ \A n \in Nodes : metrics[s].executions[n] = Cardinality(Executed(n))
      /\ metrics[s].completed = Cardinality(Reached)
      /\ metrics[s].errored = Cardinality(Broken)

\* However far a handler lags, the newest event reaches it: with nothing left to
\* read, the last event it read is the last one published, so it knows how each
\* story ended (the channel overwrites the oldest event, recv goes on after a lag).
TheEndIsHeard ==
  \A s \in Subscribers :
    receivers[s].unread = 0 /\ receivers[s].heard # Bus!NoEvent =>
      receivers[s].heard = Bus!Newest

\* Apart from its events and checkpoints this runner is the plain run loop.
LoopRun(run) ==
  [phase   |-> CASE run.outcome = "no_checkpoint"             -> "idle"
                 [] run.phase \in {"ending", "limit"}         -> "done"
                 [] run.phase \in {"top", "entered", "exec"}  -> "running"
                 [] OTHER                                     -> run.phase,
   node    |-> run.node,
   st      |-> run.st,
   iters   |-> run.iters,
   outcome |-> CASE Finished(run) -> "completed"
                 [] Limited(run)  -> "limit"
                 [] OTHER         -> CASE run.outcome = "no_checkpoint" -> "none"
                                       [] run.outcome = "save_failed"   -> "dropped"
                                       [] OTHER                         -> run.outcome]

LoopRuns == [r \in Runs |-> LoopRun(runs[r])]

Loops == INSTANCE RunLoop WITH runs <- LoopRuns

ImplementsRunLoop == Loops!ResumableSpec
=============================================================================
