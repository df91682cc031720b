------------------------------- MODULE A2ATasks -------------------------------
(***************************************************************************)
(* The orchestrator's JSON-RPC task service (a2a/rpc.rs) with its store    *)
(* (a2a/store.rs) and the worker Jobs it spawns (worker/).                 *)
(*                                                                         *)
(* The handlers of concurrent requests run interleaved.  SendMessage and   *)
(* GetTask copy a task out of the store, await the cluster, change the     *)
(* copy and put the whole copy back; CancelTask changes the task in place  *)
(* under the store's lock.  A request is in flight in a slot of `calls`.   *)
(*                                                                         *)
(* A task is [state, job]: job tells whether worker_job is set, and the    *)
(* Job of task t is jobs[t].  Timestamps and messages are left out, and so *)
(* are the states no code assigns (rejected, input and auth required).     *)
(***************************************************************************)
EXTENDS Naturals

CONSTANTS Tasks,    \* ids SendMessage may draw
          Calls,    \* slots for requests in flight
          Polite,   \* tasks whose client waits for one answer about the task
                    \* before it sends the next request about it
          Polled    \* tasks whose client never stops asking

ASSUME SomeClients == Polite \subseteq Tasks /\ Polled \subseteq Tasks

VARIABLES tasks,   \* the store: id -> task
          jobs,    \* the cluster: [status, result] of each task's Job
          calls    \* requests in flight

vars == <<tasks, jobs, calls>>

Terminal   == {"completed", "failed", "canceled"}
TaskState  == {"submitted", "working"} \cup Terminal
Task       == [state : TaskState, job : BOOLEAN]
Submitted  == [state |-> "submitted", job |-> FALSE]

\* What status() may report; "none" is a Job that was never created.
JobStatus == {"none", "pending", "running", "succeeded", "failed", "not_found"}
Job       == [status : JobStatus, result : {"none", "succeeded", "failed"}]

\* copy is the handler's local task, answer the cluster's reply.
Idle == [op |-> "idle"]
Call == [op : {"send", "get"}, task : Tasks, copy : Task,
         answer : {"waiting", "spawned", "error"} \cup JobStatus]

Stored == DOMAIN tasks

Init ==
  /\ tasks = <<>>
  /\ jobs  = [t \in Tasks |-> [status |-> "none", result |-> "none"]]
  /\ calls = [c \in Calls |-> Idle]

\* TaskStore::upsert: the whole task is replaced.
Upsert(t, task) ==
  tasks' = [u \in Stored \cup {t} |-> IF u = t THEN task ELSE tasks[u]]

Awaits(c, op, t, copy) ==
  calls' = [calls EXCEPT ![c] = [op |-> op, task |-> t, copy |-> copy,
                                 answer |-> "waiting"]]
Replied(c, answer) == calls' = [calls EXCEPT ![c].answer = answer]
Returns(c)         == calls' = [calls EXCEPT ![c] = Idle]

InFlight(c, op)   == calls[c].op = op
Waiting(c, op)    == InFlight(c, op) /\ calls[c].answer = "waiting"
Answered(c, op)   == InFlight(c, op) /\ calls[c].answer # "waiting"

-----------------------------------------------------------------------------
\* SendMessage

Send(c, t) ==
  /\ calls[c] = Idle
  /\ t \notin Stored
  /\ Upsert(t, Submitted)
  /\ Awaits(c, "send", t, Submitted)
  /\ UNCHANGED jobs

\* The cluster creates the Job; the reply may be lost on the way.
Spawn(c) ==
  /\ Waiting(c, "send")
  /\ jobs' = [jobs EXCEPT ![calls[c].task].status = "pending"]
  /\ \E answer \in {"spawned", "error"} : Replied(c, answer)
  /\ UNCHANGED tasks

SpawnFails(c) ==
  /\ Waiting(c, "send")
  /\ Replied(c, "error")
  /\ UNCHANGED <<tasks, jobs>>

\* mark_working or mark_failed on the copy made before the await.
FinishSend(c) ==
  /\ Answered(c, "send")
  /\ Upsert(calls[c].task,
            IF calls[c].answer = "spawned" THEN [state |-> "working", job |-> TRUE]
            ELSE [calls[c].copy EXCEPT !.state = "failed"])
  /\ Returns(c)
  /\ UNCHANGED jobs

-----------------------------------------------------------------------------
\* GetTask and CancelTask.  Nobody knows a task's id before its Job exists
\* (the worker is given it) or SendMessage has answered.

Known(t) == t \in Stored /\ (jobs[t].status # "none" \/ tasks[t].state # "submitted")

Quiet(t) == ~ \E c \in Calls : calls[c] # Idle /\ calls[c].task = t

MayAsk(t) == Known(t) /\ (t \in Polite => Quiet(t))

\* Mutant: the cluster is asked about tasks that have no Job attached, too.
GetAnyTask(c, t) ==
  /\ calls[c] = Idle /\ MayAsk(t)
  /\ Awaits(c, "get", t, tasks[t])
  /\ UNCHANGED <<tasks, jobs>>

\* A task without a Job is answered from the store: no step.
Get(c, t) ==
  /\ calls[c] = Idle
  /\ MayAsk(t)
  /\ tasks[t].job
  /\ Awaits(c, "get", t, tasks[t])
  /\ UNCHANGED <<tasks, jobs>>

Observe(c, t) ==
  /\ Waiting(c, "get")
  /\ calls[c].task = t
  /\ Replied(c, jobs[t].status)
  /\ UNCHANGED <<tasks, jobs>>

\* status() fails: the stored task is answered as it was read.
ObserveFails(c) ==
  /\ Waiting(c, "get")
  /\ Returns(c)
  /\ UNCHANGED <<tasks, jobs>>

\* Mutants: a Job that is gone has completed; it is still worked on.
OptimistState(status) == CASE status \in {"pending", "running"}     -> "working"
                           [] status \in {"succeeded", "not_found"} -> "completed"
                           [] status = "failed"                     -> "failed"
PatientState(status)  == CASE status \in {"pending", "running", "not_found"} -> "working"
                           [] status = "succeeded"                           -> "completed"
                           [] status = "failed"                              -> "failed"

WorkerState(status) == CASE status \in {"pending", "running"}  -> "working"
                         [] status = "succeeded"               -> "completed"
                         [] status \in {"failed", "not_found"} -> "failed"

\* Mutant: terminal states are overwritten, too.
SyncedAlways(task, status) == [task EXCEPT !.state = WorkerState(status)]

\* sync_task_with_worker
Synced(task, status) ==
  IF task.state \in Terminal THEN task ELSE [task EXCEPT !.state = WorkerState(status)]

FinishGet(c, t) ==
  /\ Answered(c, "get")
  /\ calls[c].task = t
  /\ Upsert(t, Synced(calls[c].copy, calls[c].answer))
  /\ Returns(c)
  /\ UNCHANGED jobs

\* The Job is not told.
Cancel(t) ==
  /\ MayAsk(t)
  /\ tasks[t].state \notin Terminal
  /\ tasks' = [tasks EXCEPT ![t].state = "canceled"]
  /\ UNCHANGED <<jobs, calls>>

\* The client goes away and the server drops the handler at its await.
Disconnect(c) ==
  /\ calls[c] # Idle
  /\ Returns(c)
  /\ UNCHANGED <<tasks, jobs>>

-----------------------------------------------------------------------------
\* The cluster: a Job runs once (backoff limit 0) and is removed after its
\* time to live, or by anyone before.

JobBecomes(t, job) == jobs' = [jobs EXCEPT ![t] = job] /\ UNCHANGED <<tasks, calls>>

JobStarts(t) ==
  /\ jobs[t].status = "pending"
  /\ JobBecomes(t, [status |-> "running", result |-> "none"])

JobFinishes(t) ==
  /\ jobs[t].status = "running"
  /\ \E result \in {"succeeded", "failed"} :
       JobBecomes(t, [status |-> result, result |-> result])

JobRemoved(t) ==
  /\ jobs[t].status \in {"pending", "running", "succeeded", "failed"}
  /\ JobBecomes(t, [jobs[t] EXCEPT !.status = "not_found"])

-----------------------------------------------------------------------------
Cluster(t) == JobStarts(t) \/ JobFinishes(t) \/ JobRemoved(t)

Handler(c) == \/ Spawn(c) \/ SpawnFails(c) \/ FinishSend(c) \/ ObserveFails(c)
              \/ Disconnect(c)
              \/ \E t \in Tasks : Send(c, t) \/ Observe(c, t) \/ FinishGet(c, t)

Next == \/ \E t \in Tasks : Cluster(t) \/ Cancel(t) \/ (\E c \in Calls : Get(c, t))
        \/ \E c \in Calls : Handler(c)

Spec == Init /\ [][Next]_vars

\* The clients of polled tasks keep asking, and the cluster answers again and
\* again. Nothing obliges a Job to start or to end: build_job sets no deadline.
PolledSpec ==
  /\ Spec
  /\ \A t \in Polled :
       /\ SF_vars(\E c \in Calls : Get(c, t))
       /\ SF_vars(\E c \in Calls : Observe(c, t))
       /\ SF_vars(\E c \in Calls : FinishGet(c, t))

-----------------------------------------------------------------------------
\* Store, cluster and requests are well formed; a request in flight is about a
\* stored task.
TypeOK ==
  /\ Stored \subseteq Tasks
  /\ tasks \in [Stored -> Task]
  /\ jobs \in [Tasks -> Job]
  /\ \A c \in Calls : calls[c] # Idle => calls[c] \in Call /\ calls[c].task \in Stored

\* Once a task has its Job attached no request takes it away or returns the
\* task to "submitted", whatever copy it puts back: the task stays pollable.
JobStaysAttached ==
  [][\A t \in Stored : tasks[t].job => tasks'[t].job /\ tasks'[t].state # "submitted"]_vars

\* The service never invents an outcome: "completed" is reported only of a Job
\* that succeeded, and "failed" of a task with a Job only if that Job failed or
\* is gone, however late the answer it is taken from.
OutcomesAreTrue ==
  \A t \in Stored :
    /\ tasks[t].state = "completed" => jobs[t].result = "succeeded"
    /\ tasks[t].state = "failed" /\ tasks[t].job =>
         jobs[t].status = "not_found" \/ jobs[t].result = "failed"

\* The Job of t has ended or is gone. One that hangs never does.
JobOver(t) == t \in Stored /\ tasks[t].job /\ jobs[t].status \in {"succeeded", "failed", "not_found"}

\* Once its Job is over a task settles for good if its client keeps polling,
\* however many slow and stale answers are still to be written back.
PollingSettles ==
  \A t \in Polled : JobOver(t) ~> [](t \in Stored /\ tasks[t].state \in Terminal)

\* A task whose client sends one request at a time follows the task lifecycle;
\* in particular a terminal state is final.
Lifecycle == INSTANCE TaskLifecycle WITH
  Tasks <- Polite,
  life  <- [t \in Polite |-> IF t \in Stored THEN tasks[t].state ELSE "none"]

FollowsLifecycle == Lifecycle!Spec

-----------------------------------------------------------------------------
\* What documents and comments say and the code does not do.

\* "Whether the task has reached a terminal state" (a2a/types.rs:29): a task in
\* a terminal state stays in it.
TerminalIsFinal ==
  [][\A t \in Stored : tasks[t].state \in Terminal => tasks'[t].state = tasks[t].state]_vars

=============================================================================
