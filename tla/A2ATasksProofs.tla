--------------------------- MODULE A2ATasksProofs ---------------------------
(***************************************************************************)
(* Proofs about the task service for any number of tasks and of requests   *)
(* in flight.  What makes the outcomes true is that a copy a handler holds *)
(* across its await was true when it was made, and that a Job's end, once  *)
(* observed, does not change any more: IndInv says so of every request in  *)
(* flight.                                                                 *)
(***************************************************************************)
EXTENDS A2ATasks, TLAPS

\* What a task says about its Job, of a stored task or of a copy.
TaskTrue(task, t) ==
  /\ task.state = "completed" => jobs[t].result = "succeeded"
  /\ task.state = "failed" /\ task.job =>
       jobs[t].status = "not_found" \/ jobs[t].result = "failed"

\* A status the cluster answered says nothing that stops being true.
AnswerTrue(answer, t) ==
  /\ answer = "succeeded" => jobs[t].result = "succeeded"
  /\ answer = "failed"    => jobs[t].result = "failed"
  /\ answer = "not_found" => jobs[t].status = "not_found"

JobTrue(t) ==
  /\ jobs[t].status = "succeeded" => jobs[t].result = "succeeded"
  /\ jobs[t].status = "failed"    => jobs[t].result = "failed"
  /\ jobs[t].status # "none"      => t \in Stored
  /\ jobs[t].status \in {"none", "pending", "running"} => jobs[t].result = "none"

Attached(task, t) == task.job => task.state # "submitted" /\ jobs[t].status # "none"

GetOK(call) ==
  /\ TaskTrue(call.copy, call.task)
  /\ Attached(call.copy, call.task)
  /\ call.copy.job
  /\ tasks[call.task].job
  /\ AnswerTrue(call.answer, call.task)
  /\ call.answer \in (JobStatus \ {"none"}) \cup {"waiting"}

SendOK(call) ==
  /\ ~ tasks[call.task].job
  /\ call.copy = Submitted
  /\ call.answer \in {"waiting", "spawned", "error"}
  /\ call.answer = "waiting" => jobs[call.task].status = "none"
  /\ call.answer = "spawned" => jobs[call.task].status # "none"

Typed == /\ Stored \subseteq Tasks
         /\ tasks \in [Stored -> Task]
         /\ jobs \in [Tasks -> Job]
         /\ calls \in [Calls -> {Idle} \cup Call]

CallOK(call) ==
  /\ call \in {Idle} \cup Call
  /\ call.op # "idle" => call.task \in Stored
  /\ call.op = "get"  => GetOK(call)
  /\ call.op = "send" => SendOK(call)

OneSender == \A c, d \in Calls :
  calls[c].op = "send" /\ calls[d].op = "send" /\ calls[c].task = calls[d].task => c = d

IndInv ==
  /\ Typed
  /\ \A t \in Stored : TaskTrue(tasks[t], t) /\ Attached(tasks[t], t)
  /\ \A t \in Tasks : JobTrue(t)
  /\ \A c \in Calls : CallOK(calls[c])
  /\ OneSender

-----------------------------------------------------------------------------
\* What a step may do to a Job: no end is taken back.
Grows(t) ==
  /\ jobs[t].result # "none"      => jobs'[t].result = jobs[t].result
  /\ jobs[t].status = "not_found" => jobs'[t].status = "not_found"
  /\ jobs[t].status # "none"      => jobs'[t].status # "none"

LEMMA Persists ==
  ASSUME NEW t, Grows(t), NEW task, NEW answer
  PROVE  /\ TaskTrue(task, t) => TaskTrue(task, t)'
         /\ Attached(task, t) => Attached(task, t)'
         /\ AnswerTrue(answer, t) => AnswerTrue(answer, t)'
BY DEF Grows, TaskTrue, Attached, AnswerTrue

\* Requests a step is not about stay sound.
LEMMA CallPersists ==
  ASSUME NEW call, CallOK(call),
         \A t \in Tasks : Grows(t),
         Stored \subseteq Stored',
         call.op # "idle" => tasks'[call.task].job = tasks[call.task].job,
         call.op = "send" /\ call.answer = "waiting" =>
           jobs'[call.task].status = jobs[call.task].status
  PROVE  CallOK(call)'
<1>1. call.op # "idle" => call \in Call /\ call.task \in Tasks /\ Grows(call.task)
  BY DEF CallOK, Idle, Call
<1>2. call.op = "get" => GetOK(call)'
  <2> SUFFICES ASSUME call.op = "get" PROVE GetOK(call)'
    OBVIOUS
  <2>1. GetOK(call) /\ Grows(call.task) /\ tasks'[call.task].job = tasks[call.task].job
    BY <1>1 DEF CallOK
  <2>2. /\ TaskTrue(call.copy, call.task)' /\ Attached(call.copy, call.task)'
        /\ AnswerTrue(call.answer, call.task)'
    BY <2>1, Persists DEF GetOK
  <2> QED
    BY <2>1, <2>2 DEF GetOK
<1>3. call.op = "send" => SendOK(call)'
  <2> SUFFICES ASSUME call.op = "send" PROVE SendOK(call)'
    OBVIOUS
  <2>1. SendOK(call) /\ Grows(call.task) /\ tasks'[call.task].job = tasks[call.task].job
    BY <1>1 DEF CallOK
  <2> QED
    BY <2>1 DEF SendOK, Grows
<1> QED
  BY <1>2, <1>3 DEF CallOK

\* TaskStore::upsert stores the task given and leaves the others alone.
LEMMA UpsertStores ==
  ASSUME Typed, NEW t \in Tasks, NEW task \in Task, Upsert(t, task)
  PROVE  /\ Stored' = Stored \cup {t}
         /\ Stored' \subseteq Tasks
         /\ tasks' \in [Stored' -> Task]
         /\ tasks'[t] = task
         /\ \A u \in Stored : u # t => tasks'[u] = tasks[u]
BY DEF Typed, Upsert, Stored

\* A step that only changes Jobs, in the way Grows allows.
LEMMA JobStep ==
  ASSUME IndInv, NEW t \in Tasks, NEW job \in Job, t \in Stored,
         jobs' = [jobs EXCEPT ![t] = job], UNCHANGED <<tasks, calls>>,
         Grows(t), jobs[t].status # "none",
         job.status = "succeeded" => job.result = "succeeded",
         job.status = "failed" => job.result = "failed",
         job.status \in {"none", "pending", "running"} => job.result = "none"
  PROVE  IndInv'
<1>0. Typed /\ Stored' = Stored /\ jobs'[t] = job
      /\ \A u \in Tasks : u # t => jobs'[u] = jobs[u]
  BY DEF IndInv, Typed, Stored
<1>1. Typed'
  BY <1>0 DEF Typed, Stored
<1>2. \A u \in Tasks : Grows(u)
  BY <1>0 DEF Grows
<1>3. \A u \in Stored' : TaskTrue(tasks[u], u)' /\ Attached(tasks[u], u)'
  <2> TAKE u \in Stored'
  <2>1. PICK now : now = tasks[u] /\ TaskTrue(now, u) /\ Attached(now, u) /\ u \in Tasks
    BY <1>0 DEF IndInv, Typed
  <2>2. TaskTrue(now, u)' /\ Attached(now, u)'
    BY <1>2, <2>1, Persists
  <2> QED
    BY <2>1, <2>2 DEF TaskTrue, Attached
<1>4. \A u \in Tasks : JobTrue(u)'
  <2> TAKE u \in Tasks
  <2>1. CASE u = t
    BY <1>0, <2>1 DEF JobTrue, Stored
  <2>2. CASE u # t
    BY <1>0, <2>2 DEF IndInv, JobTrue, Stored
  <2> QED
    BY <2>1, <2>2
<1>5. \A c \in Calls : CallOK(calls[c])'
  <2> TAKE c \in Calls
  <2>1. PICK now : now = calls[c] /\ CallOK(now)
    BY DEF IndInv
  <2>2. now.op = "send" /\ now.answer = "waiting" =>
          jobs'[now.task].status = jobs[now.task].status
    BY <1>0, <2>1 DEF CallOK, SendOK, Idle, Call
  <2>3. CallOK(now)'
    BY <1>0, <1>2, <2>1, <2>2, CallPersists
  <2> QED
    BY <2>1, <2>3 DEF CallOK, GetOK, SendOK, TaskTrue, Attached, AnswerTrue
<1> QED
  BY <1>1, <1>3, <1>4, <1>5 DEF IndInv, OneSender

\* Requests after a step of request c.
LEMMA CallsAfter ==
  ASSUME IndInv, NEW c \in Calls, NEW call,
         calls' = [calls EXCEPT ![c] = call], CallOK(call)',
         \A t \in Tasks : Grows(t),
         Stored \subseteq Stored',
         \A d \in Calls \ {c} : calls[d].op # "idle" =>
           /\ tasks'[calls[d].task].job = tasks[calls[d].task].job
           /\ calls[d].op = "send" /\ calls[d].answer = "waiting" =>
                jobs'[calls[d].task].status = jobs[calls[d].task].status
           /\ calls[d].op = "send" /\ call.op = "send" => calls[d].task # call.task
  PROVE  /\ calls' \in [Calls -> {Idle} \cup Call]
         /\ \A d \in Calls : CallOK(calls[d])'
         /\ OneSender'
<1>0. /\ calls \in [Calls -> {Idle} \cup Call] /\ calls'[c] = call
      /\ \A d \in Calls : d # c => calls'[d] = calls[d]
  BY DEF IndInv, Typed
<1>1. call \in {Idle} \cup Call
  BY DEF CallOK
<1>2. ASSUME NEW d \in Calls PROVE CallOK(calls[d])'
  <2>1. CASE d = c
    BY <1>0, <2>1 DEF CallOK, GetOK, SendOK, TaskTrue, Attached, AnswerTrue
  <2>2. CASE d # c
    <3>1. PICK now : now = calls[d] /\ CallOK(now)
      BY DEF IndInv
    <3>2. CallOK(now)'
      BY <2>2, <3>1, CallPersists
    <3> QED
      BY <1>0, <2>2, <3>1, <3>2 DEF CallOK, GetOK, SendOK, TaskTrue, Attached, AnswerTrue
  <2> QED
    BY <2>1, <2>2
<1>3. OneSender'
  <2> SUFFICES ASSUME NEW d \in Calls, NEW e \in Calls,
                      calls'[d].op = "send", calls'[e].op = "send",
                      calls'[d].task = calls'[e].task
               PROVE  d = e
    BY DEF OneSender
  <2>1. CASE d # c /\ e # c
    BY <1>0, <2>1 DEF IndInv, OneSender
  <2>2. CASE d = c \/ e = c
    BY <1>0, <2>2
  <2> QED
    BY <2>1, <2>2
<1> QED
  BY <1>0, <1>1, <1>2, <1>3

\* A step of request c that leaves store and cluster alone.
LEMMA CallStep ==
  ASSUME IndInv, NEW c \in Calls, NEW call,
         calls' = [calls EXCEPT ![c] = call], UNCHANGED <<tasks, jobs>>,
         CallOK(call),
         call.op = "send" => calls[c].op = "send" /\ calls[c].task = call.task
  PROVE  IndInv'
<1>1. Stored' = Stored /\ \A t \in Tasks : Grows(t)
  BY DEF Stored, Grows
<1>2. CallOK(call)'
  BY <1>1 DEF CallOK, GetOK, SendOK, TaskTrue, Attached, AnswerTrue
<1>3. \A d \in Calls \ {c} : calls[d].op = "send" /\ call.op = "send" =>
        calls[d].task # call.task
  BY DEF IndInv, OneSender
<1>4. /\ calls' \in [Calls -> {Idle} \cup Call]
      /\ \A d \in Calls : CallOK(calls[d])'
      /\ OneSender'
  BY <1>1, <1>2, <1>3, CallsAfter
<1> QED
  BY <1>1, <1>4 DEF IndInv, Typed, TaskTrue, Attached, JobTrue

\* A step of request c that stores a task and frees the slot.  No request about
\* the task is confused by it: the task keeps its Job, if it had one, or no
\* other request is about it.
LEMMA UpsertStep ==
  ASSUME IndInv, NEW c \in Calls, NEW t \in Stored, NEW task \in Task,
         Upsert(t, task), Returns(c), UNCHANGED jobs,
         TaskTrue(task, t), Attached(task, t),
         \A d \in Calls \ {c} : calls[d].op # "idle" /\ calls[d].task = t =>
           task.job = tasks[t].job
  PROVE  IndInv'
<1>0. Typed /\ t \in Tasks
  BY DEF IndInv, Typed
<1>1. /\ Stored' = Stored /\ Stored' \subseteq Tasks /\ tasks' \in [Stored' -> Task]
      /\ tasks'[t] = task /\ \A u \in Stored : u # t => tasks'[u] = tasks[u]
  BY <1>0, UpsertStores
<1>2. \A u \in Tasks : Grows(u)
  BY DEF Grows
<1>3. CallOK(Idle)'
  BY DEF CallOK, Idle
<1>4. \A d \in Calls \ {c} : calls[d].op # "idle" =>
        tasks'[calls[d].task].job = tasks[calls[d].task].job
  BY <1>1 DEF IndInv, CallOK
<1>5. /\ calls' \in [Calls -> {Idle} \cup Call]
      /\ \A d \in Calls : CallOK(calls[d])'
      /\ OneSender'
  <2>1. calls' = [calls EXCEPT ![c] = Idle] /\ Idle.op # "send"
    BY DEF Returns, Idle
  <2> QED
    BY <1>1, <1>2, <1>3, <1>4, <2>1, CallsAfter
<1>6. \A u \in Stored' : TaskTrue(tasks[u], u)' /\ Attached(tasks[u], u)'
  <2> TAKE u \in Stored'
  <2>1. PICK now : now = tasks'[u] /\ TaskTrue(now, u) /\ Attached(now, u)
    BY <1>1 DEF IndInv
  <2> QED
    BY <2>1 DEF TaskTrue, Attached
<1>7. \A u \in Tasks : JobTrue(u)'
  BY <1>1 DEF IndInv, JobTrue
<1> QED
  BY <1>0, <1>1, <1>5, <1>6, <1>7 DEF IndInv, Typed

-----------------------------------------------------------------------------
LEMMA InitOK == Init => IndInv
BY DEF Init, IndInv, Typed, Stored, Job, JobStatus, JobTrue, CallOK, Idle, OneSender

LEMMA SendKeeps ==
  ASSUME IndInv, NEW c \in Calls, NEW t \in Tasks, Send(c, t)
  PROVE  IndInv'
<1> DEFINE call == [op |-> "send", task |-> t, copy |-> Submitted, answer |-> "waiting"]
<1>0. Typed /\ Submitted \in Task
  BY DEF IndInv, Submitted, Task, TaskState
<1>1. /\ Stored' = Stored \cup {t} /\ Stored' \subseteq Tasks /\ tasks' \in [Stored' -> Task]
      /\ tasks'[t] = Submitted /\ \A u \in Stored : u # t => tasks'[u] = tasks[u]
  BY <1>0, UpsertStores DEF Send
<1>2. jobs' = jobs /\ t \notin Stored /\ calls' = [calls EXCEPT ![c] = call]
      /\ \A u \in Tasks : Grows(u)
  BY DEF Send, Awaits, Grows
<1>3. jobs[t].status = "none"
  BY <1>2 DEF IndInv, JobTrue
<1>4. CallOK(call)'
  BY <1>0, <1>1, <1>2, <1>3 DEF CallOK, SendOK, Call, Submitted
<1>5. \A d \in Calls \ {c} : calls[d].op # "idle" =>
        calls[d].task # t /\ calls[d].task \in Stored
  BY <1>2 DEF IndInv, CallOK
<1>6. /\ calls' \in [Calls -> {Idle} \cup Call]
      /\ \A d \in Calls : CallOK(calls[d])'
      /\ OneSender'
  <2> HIDE DEF call
  <2>1. call.task = t
    BY DEF call
  <2> QED
    BY <1>1, <1>2, <1>4, <1>5, <2>1, CallsAfter
<1>7. \A u \in Stored' : TaskTrue(tasks[u], u)' /\ Attached(tasks[u], u)'
  <2> TAKE u \in Stored'
  <2>1. PICK now : now = tasks'[u] /\ TaskTrue(now, u) /\ Attached(now, u)
    <3>1. CASE u = t
      BY <1>1, <3>1 DEF TaskTrue, Attached, Submitted
    <3>2. CASE u # t
      BY <1>1, <3>2 DEF IndInv
    <3> QED
      BY <3>1, <3>2
  <2> QED
    BY <1>2, <2>1 DEF TaskTrue, Attached
<1>8. \A u \in Tasks : JobTrue(u)'
  BY <1>1, <1>2 DEF IndInv, JobTrue
<1> QED
  BY <1>0, <1>1, <1>2, <1>6, <1>7, <1>8 DEF IndInv, Typed

\* The cluster creates the Job of the task that request c has just stored.
LEMMA SpawnKeeps ==
  ASSUME IndInv, NEW c \in Calls, Spawn(c)
  PROVE  IndInv'
<1>0. PICK t, answer : /\ t = calls[c].task /\ answer \in {"spawned", "error"}
                       /\ Replied(c, answer)
  BY DEF Spawn
<1>a. PICK job : job = [jobs[t] EXCEPT !.status = "pending"]
  OBVIOUS
<1>b. PICK call : call = [calls[c] EXCEPT !.answer = answer]
  OBVIOUS
<1>1. /\ calls[c] \in Call /\ calls[c].op = "send" /\ calls[c].answer = "waiting"
      /\ t \in Stored /\ t \in Tasks /\ Typed /\ SendOK(calls[c]) /\ JobTrue(t)
  BY <1>0 DEF IndInv, Typed, Spawn, Waiting, InFlight, CallOK, Idle
<1>2. /\ tasks' = tasks /\ Stored' = Stored
      /\ jobs' = [jobs EXCEPT ![t] = job] /\ calls' = [calls EXCEPT ![c] = call]
  BY <1>0, <1>a, <1>b DEF Spawn, Replied, Stored
<1>3. jobs[t].status = "none" /\ jobs[t].result = "none" /\ jobs[t] \in Job
  BY <1>0, <1>1 DEF SendOK, JobTrue, Typed
<1>4. job \in Job /\ job.status = "pending" /\ job.result = "none"
  BY <1>3, <1>a DEF Job, JobStatus
<1>5. jobs' \in [Tasks -> Job] /\ jobs'[t] = job /\ \A u \in Tasks : u # t => jobs'[u] = jobs[u]
  BY <1>1, <1>2, <1>4 DEF Typed
<1>6. \A u \in Tasks : Grows(u)
  BY <1>3, <1>4, <1>5 DEF Grows
<1>7. CallOK(call)'
  <2>1. /\ call \in Call /\ call.op = "send" /\ call.task = t /\ call.copy = calls[c].copy
        /\ call.answer = answer
    BY <1>0, <1>1, <1>b DEF Call
  <2>2. SendOK(call)'
    BY <1>0, <1>1, <1>2, <1>4, <1>5, <2>1 DEF SendOK
  <2> QED
    BY <1>1, <1>2, <2>1, <2>2 DEF CallOK
<1>8. \A d \in Calls \ {c} : calls[d].op # "idle" =>
        /\ calls[d].task \in Tasks
        /\ calls[d].op = "send" => calls[d].task # t
  BY <1>0, <1>1 DEF IndInv, CallOK, OneSender, Call, Idle
<1>9. /\ calls' \in [Calls -> {Idle} \cup Call]
      /\ \A d \in Calls : CallOK(calls[d])'
      /\ OneSender'
  <2>1. call.task = t
    BY <1>0, <1>1, <1>b DEF Call
  <2>2. \A d \in Calls \ {c} : calls[d].op # "idle" =>
          /\ tasks'[calls[d].task].job = tasks[calls[d].task].job
          /\ calls[d].op = "send" /\ calls[d].answer = "waiting" =>
               jobs'[calls[d].task].status = jobs[calls[d].task].status
          /\ calls[d].op = "send" /\ call.op = "send" => calls[d].task # call.task
    BY <1>2, <1>5, <1>8, <2>1
  <2> QED
    BY <1>2, <1>6, <1>7, <2>1, <2>2, CallsAfter
<1>10. \A u \in Stored' : TaskTrue(tasks[u], u)' /\ Attached(tasks[u], u)'
  <2> TAKE u \in Stored'
  <2>1. PICK now : now = tasks[u] /\ TaskTrue(now, u) /\ Attached(now, u) /\ u \in Tasks
    BY <1>1, <1>2 DEF IndInv, Typed
  <2>2. TaskTrue(now, u)' /\ Attached(now, u)'
    BY <1>6, <2>1, Persists
  <2> QED
    BY <1>2, <2>1, <2>2 DEF TaskTrue, Attached
<1>11. \A u \in Tasks : JobTrue(u)'
  <2> TAKE u \in Tasks
  <2>1. CASE u = t
    BY <1>1, <1>2, <1>4, <1>5, <2>1 DEF JobTrue
  <2>2. CASE u # t
    BY <1>2, <1>5, <2>2 DEF IndInv, JobTrue
  <2> QED
    BY <2>1, <2>2
<1> QED
  BY <1>1, <1>2, <1>5, <1>9, <1>10, <1>11 DEF IndInv, Typed

LEMMA SpawnFailsKeeps ==
  ASSUME IndInv, NEW c \in Calls, SpawnFails(c)
  PROVE  IndInv'
<1>0. PICK now : now = calls[c] /\ CallOK(now)
  BY DEF IndInv
<1> DEFINE call == [now EXCEPT !.answer = "error"]
<1>1. now \in Call /\ now.op = "send" /\ calls' = [calls EXCEPT ![c] = call]
  BY <1>0 DEF SpawnFails, Waiting, InFlight, Replied, CallOK, Idle
<1>2. call \in Call /\ call.op = "send" /\ call.task = now.task /\ call.copy = now.copy
      /\ call.answer = "error"
  BY <1>1 DEF Call
<1> HIDE DEF call
<1>3. CallOK(call)
  BY <1>0, <1>1, <1>2 DEF CallOK, SendOK
<1> QED
  BY <1>0, <1>1, <1>2, <1>3, CallStep DEF SpawnFails

LEMMA FinishSendKeeps ==
  ASSUME IndInv, NEW c \in Calls, FinishSend(c)
  PROVE  IndInv'
<1>0. PICK now : now = calls[c] /\ CallOK(now)
  BY DEF IndInv
<1>1. /\ now \in Call /\ now.op = "send" /\ now.answer \in {"spawned", "error"}
      /\ SendOK(now) /\ now.task \in Stored
  BY <1>0 DEF FinishSend, Answered, InFlight, CallOK, SendOK, Idle
<1> DEFINE task == IF now.answer = "spawned" THEN [state |-> "working", job |-> TRUE]
                   ELSE [now.copy EXCEPT !.state = "failed"]
<1>2. task \in Task /\ TaskTrue(task, now.task) /\ Attached(task, now.task)
  <2>1. task.state \in {"working", "failed"} /\ task \in Task
        /\ task.job = (now.answer = "spawned") /\ (task.job => task.state = "working")
    <3>1. CASE now.answer = "spawned"
      BY <3>1 DEF Task, TaskState
    <3>2. CASE now.answer # "spawned"
      <4>1. task = [Submitted EXCEPT !.state = "failed"]
        BY <1>1, <3>2 DEF SendOK
      <4>2. task = [state |-> "failed", job |-> FALSE]
        BY <4>1 DEF Submitted
      <4> QED
        BY <3>2, <4>2 DEF Task, TaskState, Terminal
    <3> QED
      BY <3>1, <3>2
  <2> HIDE DEF task
  <2> QED
    BY <1>1, <2>1 DEF SendOK, TaskTrue, Attached
<1>3. \A d \in Calls \ {c} : calls[d].op # "idle" => calls[d].task # now.task
  <2> TAKE d \in Calls \ {c}
  <2> HAVE calls[d].op # "idle"
  <2>1. calls[d].op = "get" => calls[d].task # now.task
    BY <1>1 DEF IndInv, CallOK, GetOK, SendOK
  <2>2. calls[d].op = "send" => calls[d].task # now.task
    BY <1>0, <1>1 DEF IndInv, OneSender
  <2> QED
    BY <2>1, <2>2 DEF IndInv, CallOK, Idle, Call
<1>4. Upsert(now.task, task) /\ Returns(c) /\ UNCHANGED jobs
  BY <1>0 DEF FinishSend
<1> HIDE DEF task
<1> QED
  BY <1>1, <1>2, <1>3, <1>4, UpsertStep

LEMMA GetKeeps ==
  ASSUME IndInv, NEW c \in Calls, NEW t \in Tasks, Get(c, t)
  PROVE  IndInv'
<1>0. PICK copy : copy = tasks[t]
  OBVIOUS
<1> DEFINE call == [op |-> "get", task |-> t, copy |-> copy, answer |-> "waiting"]
<1>1. /\ t \in Stored /\ copy.job /\ copy \in Task /\ TaskTrue(copy, t) /\ Attached(copy, t)
      /\ tasks[t].job
  BY <1>0 DEF Get, MayAsk, Known, IndInv, Typed
<1>2. CallOK(call)
  BY <1>1 DEF CallOK, GetOK, Call, AnswerTrue
<1>3. calls' = [calls EXCEPT ![c] = call] /\ call.op = "get" /\ UNCHANGED <<tasks, jobs>>
  BY <1>0 DEF Get, Awaits
<1> HIDE DEF call
<1> QED
  BY <1>2, <1>3, CallStep

LEMMA ObserveKeeps ==
  ASSUME IndInv, NEW c \in Calls, NEW t \in Tasks, Observe(c, t)
  PROVE  IndInv'
<1>0. PICK now, status : now = calls[c] /\ CallOK(now) /\ status = jobs[t].status
  BY DEF IndInv
<1> DEFINE call == [now EXCEPT !.answer = status]
<1>1. /\ now \in Call /\ now.op = "get" /\ now.task = t /\ GetOK(now)
      /\ calls' = [calls EXCEPT ![c] = call]
  BY <1>0 DEF Observe, Waiting, InFlight, Replied, CallOK, Idle
<1>2. status \in JobStatus /\ status # "none" /\ AnswerTrue(status, t)
  BY <1>0, <1>1 DEF IndInv, Typed, Job, JobTrue, AnswerTrue, GetOK, Attached
<1>3. /\ call \in Call /\ call.op = "get" /\ call.task = t /\ call.copy = now.copy
      /\ call.answer = status
  BY <1>1, <1>2 DEF Call
<1> HIDE DEF call
<1>4. CallOK(call)
  BY <1>0, <1>1, <1>2, <1>3 DEF CallOK, GetOK
<1> QED
  BY <1>1, <1>3, <1>4, CallStep DEF Observe

LEMMA ReturnsKeeps ==
  ASSUME IndInv, NEW c \in Calls, Returns(c), UNCHANGED <<tasks, jobs>>
  PROVE  IndInv'
<1>1. CallOK(Idle) /\ Idle.op # "send"
  BY DEF CallOK, Idle
<1> QED
  BY <1>1, CallStep DEF Returns

LEMMA FinishGetKeeps ==
  ASSUME IndInv, NEW c \in Calls, NEW t \in Tasks, FinishGet(c, t)
  PROVE  IndInv'
<1>0. PICK now : now = calls[c] /\ CallOK(now)
  BY DEF IndInv
<1>1. /\ now \in Call /\ now.op = "get" /\ now.task = t /\ GetOK(now) /\ t \in Stored
      /\ now.answer \in JobStatus \ {"none"} /\ now.copy \in Task
  BY <1>0 DEF FinishGet, Answered, InFlight, CallOK, GetOK, Idle, Call
<1>2. PICK task : task = Synced(now.copy, now.answer)
  OBVIOUS
<1>3. task \in Task /\ task.job /\ TaskTrue(task, t) /\ Attached(task, t)
  BY <1>1, <1>2 DEF Synced, WorkerState, Task, TaskState, Terminal, JobStatus, GetOK,
     TaskTrue, Attached, AnswerTrue
<1>4. Upsert(t, task) /\ Returns(c) /\ UNCHANGED jobs
  BY <1>0, <1>2 DEF FinishGet
<1>5. tasks[t].job = task.job
  BY <1>1, <1>3 DEF GetOK, IndInv, Typed, Task
<1> QED
  BY <1>1, <1>3, <1>4, <1>5, UpsertStep

LEMMA CancelKeeps ==
  ASSUME IndInv, NEW t \in Tasks, Cancel(t)
  PROVE  IndInv'
<1>0. /\ Typed /\ t \in Stored /\ tasks[t] \in Task /\ UNCHANGED <<jobs, calls>>
      /\ TaskTrue(tasks[t], t) /\ Attached(tasks[t], t)
  BY DEF Cancel, MayAsk, Known, IndInv, Typed
<1>1. PICK task : task = [tasks[t] EXCEPT !.state = "canceled"]
  OBVIOUS
<1>2. task \in Task /\ task.job = tasks[t].job /\ task.state = "canceled"
  BY <1>0, <1>1 DEF Task, TaskState, Terminal
<1>3. /\ Stored' = Stored /\ tasks' \in [Stored -> Task] /\ tasks'[t] = task
      /\ \A u \in Stored : u # t => tasks'[u] = tasks[u]
  BY <1>0, <1>1, <1>2 DEF Cancel, Typed, Stored
<1>4. \A u \in Tasks : Grows(u)
  BY <1>0 DEF Grows
<1>5. \A c \in Calls : CallOK(calls[c])'
  <2> TAKE c \in Calls
  <2>1. PICK now : now = calls[c] /\ CallOK(now)
    BY DEF IndInv
  <2>2. now.op # "idle" => tasks'[now.task].job = tasks[now.task].job
    BY <1>2, <1>3, <2>1 DEF CallOK
  <2>3. CallOK(now)'
    BY <1>0, <1>3, <1>4, <2>1, <2>2, CallPersists
  <2> QED
    BY <1>0, <2>1, <2>3 DEF CallOK, GetOK, SendOK, TaskTrue, Attached, AnswerTrue
<1>6. \A u \in Stored' : TaskTrue(tasks[u], u)' /\ Attached(tasks[u], u)'
  <2> TAKE u \in Stored'
  <2>1. PICK now : now = tasks'[u] /\ TaskTrue(now, u) /\ Attached(now, u)
    <3>1. CASE u = t
      BY <1>0, <1>2, <1>3, <3>1 DEF TaskTrue, Attached
    <3>2. CASE u # t
      BY <1>3, <3>2 DEF IndInv
    <3> QED
      BY <3>1, <3>2
  <2> QED
    BY <1>0, <2>1 DEF TaskTrue, Attached
<1>7. \A u \in Tasks : JobTrue(u)'
  BY <1>0, <1>3 DEF IndInv, JobTrue
<1> QED
  BY <1>0, <1>3, <1>5, <1>6, <1>7 DEF IndInv, Typed, OneSender

LEMMA ClusterKeeps ==
  ASSUME IndInv, NEW t \in Tasks, Cluster(t)
  PROVE  IndInv'
<1>0. jobs[t] \in Job /\ JobTrue(t)
  BY DEF IndInv, Typed
<1>1. CASE JobStarts(t)
  <2>1. PICK job : job = [status |-> "running", result |-> "none"]
    OBVIOUS
  <2>2. job \in Job /\ jobs' = [jobs EXCEPT ![t] = job] /\ jobs[t].status = "pending"
        /\ UNCHANGED <<tasks, calls>>
    BY <1>1, <2>1 DEF JobStarts, JobBecomes, Job, JobStatus
  <2>3. jobs'[t] = job
    BY <2>2 DEF IndInv, Typed
  <2>4. Grows(t) /\ t \in Stored
    BY <1>0, <2>1, <2>2, <2>3 DEF Grows, JobTrue
  <2> QED
    BY <2>1, <2>2, <2>4, JobStep
<1>2. CASE JobFinishes(t)
  <2>1. PICK result \in {"succeeded", "failed"} :
          JobBecomes(t, [status |-> result, result |-> result])
    BY <1>2 DEF JobFinishes
  <2>2. PICK job : job = [status |-> result, result |-> result]
    OBVIOUS
  <2>3. job \in Job /\ jobs' = [jobs EXCEPT ![t] = job] /\ jobs[t].status = "running"
        /\ UNCHANGED <<tasks, calls>>
    BY <1>2, <2>1, <2>2 DEF JobFinishes, JobBecomes, Job, JobStatus
  <2>4. jobs'[t] = job
    BY <2>3 DEF IndInv, Typed
  <2>5. Grows(t) /\ t \in Stored
    BY <1>0, <2>2, <2>3, <2>4 DEF Grows, JobTrue
  <2> QED
    BY <2>2, <2>3, <2>5, JobStep
<1>3. CASE JobRemoved(t)
  <2>1. PICK job : job = [jobs[t] EXCEPT !.status = "not_found"]
    OBVIOUS
  <2>2. /\ job \in Job /\ job.status = "not_found" /\ job.result = jobs[t].result
        /\ jobs' = [jobs EXCEPT ![t] = job]
        /\ jobs[t].status \in {"pending", "running", "succeeded", "failed"}
        /\ UNCHANGED <<tasks, calls>>
    BY <1>0, <1>3, <2>1 DEF JobRemoved, JobBecomes, Job, JobStatus
  <2>3. jobs'[t] = job
    BY <2>2 DEF IndInv, Typed
  <2>4. Grows(t) /\ t \in Stored
    BY <1>0, <2>2, <2>3 DEF Grows, JobTrue
  <2> QED
    BY <2>2, <2>4, JobStep
<1> QED
  BY <1>1, <1>2, <1>3 DEF Cluster

LEMMA NextKeeps == IndInv /\ [Next]_vars => IndInv'
<1> SUFFICES ASSUME IndInv, [Next]_vars PROVE IndInv'
  OBVIOUS
<1>1. ASSUME NEW t \in Tasks, Cluster(t) PROVE IndInv'
  BY <1>1, ClusterKeeps
<1>2. ASSUME NEW t \in Tasks, Cancel(t) PROVE IndInv'
  BY <1>2, CancelKeeps
<1>3. ASSUME NEW t \in Tasks, NEW c \in Calls, Get(c, t) PROVE IndInv'
  BY <1>3, GetKeeps
<1>4. ASSUME NEW c \in Calls, Handler(c) PROVE IndInv'
  <2>1. CASE Spawn(c)
    BY <2>1, SpawnKeeps
  <2>2. CASE SpawnFails(c)
    BY <2>2, SpawnFailsKeeps
  <2>3. CASE FinishSend(c)
    BY <2>3, FinishSendKeeps
  <2>4. CASE ObserveFails(c) \/ Disconnect(c)
    BY <2>4, ReturnsKeeps DEF ObserveFails, Disconnect
  <2>5. CASE \E t \in Tasks : Send(c, t) \/ Observe(c, t) \/ FinishGet(c, t)
    BY <2>5, SendKeeps, ObserveKeeps, FinishGetKeeps
  <2> QED
    BY <1>4, <2>1, <2>2, <2>3, <2>4, <2>5 DEF Handler
<1>5. CASE UNCHANGED vars
  BY <1>5 DEF vars, IndInv, Typed, Stored, TaskTrue, Attached, JobTrue, CallOK, GetOK,
     SendOK, AnswerTrue, OneSender
<1> QED
  BY <1>1, <1>2, <1>3, <1>4, <1>5 DEF Next

THEOREM Inductive == Spec => []IndInv
<1> QED
  BY InitOK, NextKeeps, PTL DEF Spec

-----------------------------------------------------------------------------
\* Store, cluster and requests stay well formed.
THEOREM TypeCorrect == Spec => []TypeOK
<1>1. IndInv => TypeOK
  BY DEF IndInv, Typed, TypeOK, CallOK, Idle, Call
<1> QED
  BY <1>1, Inductive, PTL

\* No interleaving of requests makes the service report an outcome its Job did
\* not have.
THEOREM OutcomesTrue == Spec => []OutcomesAreTrue
<1>1. IndInv => OutcomesAreTrue
  BY DEF IndInv, OutcomesAreTrue, TaskTrue
<1> QED
  BY <1>1, Inductive, PTL

\* What FinishSend and FinishGet store.
LEMMA FinishSendStores ==
  ASSUME IndInv, NEW c \in Calls, FinishSend(c)
  PROVE  \E t \in Stored : \E task \in Task :
           /\ calls[c].task = t /\ calls[c].op = "send" /\ ~ tasks[t].job
           /\ task.state \in {"working", "failed"}
           /\ Upsert(t, task)
<1>0. PICK now : now = calls[c] /\ CallOK(now)
  BY DEF IndInv
<1>1. /\ now \in Call /\ now.op = "send" /\ now.answer \in {"spawned", "error"}
      /\ SendOK(now) /\ now.task \in Stored
  BY <1>0 DEF FinishSend, Answered, InFlight, CallOK, SendOK, Idle
<1>2. PICK task : task = IF now.answer = "spawned" THEN [state |-> "working", job |-> TRUE]
                         ELSE [now.copy EXCEPT !.state = "failed"]
  OBVIOUS
<1>3. task \in Task /\ task.state \in {"working", "failed"}
  <2>1. CASE now.answer = "spawned"
    BY <1>2, <2>1 DEF Task, TaskState
  <2>2. CASE now.answer # "spawned"
    <3>1. task = [Submitted EXCEPT !.state = "failed"]
      BY <1>1, <1>2, <2>2 DEF SendOK
    <3>2. task = [state |-> "failed", job |-> FALSE]
      BY <3>1 DEF Submitted
    <3> QED
      BY <3>2 DEF Task, TaskState, Terminal
  <2> QED
    BY <2>1, <2>2
<1>4. Upsert(now.task, task)
  BY <1>0, <1>2 DEF FinishSend
<1> QED
  BY <1>0, <1>1, <1>3, <1>4 DEF SendOK

LEMMA FinishGetStores ==
  ASSUME IndInv, NEW c \in Calls, NEW t \in Tasks, FinishGet(c, t)
  PROVE  \E copy, task \in Task :
           /\ t \in Stored /\ calls[c].task = t /\ calls[c].op = "get"
           /\ calls[c].copy = copy /\ copy.state # "submitted" /\ task.job
           /\ task.state \in {"working"} \cup Terminal
           /\ copy.state \in Terminal => task = copy
           /\ Upsert(t, task)
<1>0. PICK now : now = calls[c] /\ CallOK(now)
  BY DEF IndInv
<1>1. /\ now \in Call /\ now.op = "get" /\ now.task = t /\ GetOK(now) /\ t \in Stored
      /\ now.answer \in JobStatus \ {"none"} /\ now.copy \in Task
  BY <1>0 DEF FinishGet, Answered, InFlight, CallOK, GetOK, Idle, Call
<1>2. PICK task : task = Synced(now.copy, now.answer)
  OBVIOUS
<1>3. /\ now.copy.state # "submitted" /\ task \in Task /\ task.job
      /\ task.state \in {"working"} \cup Terminal
      /\ now.copy.state \in Terminal => task = now.copy
  BY <1>1, <1>2 DEF Synced, WorkerState, Task, TaskState, Terminal, JobStatus, GetOK, Attached
<1>4. Upsert(t, task)
  BY <1>0, <1>2 DEF FinishGet
<1> QED
  BY <1>0, <1>1, <1>3, <1>4

\* A task never loses its Job to a stale copy.
THEOREM JobsStayAttached == Spec => JobStaysAttached
<1> DEFINE Kept == \A t \in Stored :
                     tasks[t].job => tasks'[t].job /\ tasks'[t].state # "submitted"
<1>1. IndInv /\ [Next]_vars => Kept \/ UNCHANGED vars
  <2> SUFFICES ASSUME IndInv, Next PROVE Kept
    OBVIOUS
  <2>0. Typed /\ \A t \in Stored : tasks[t].job => tasks[t].state # "submitted"
    BY DEF IndInv, Attached
  <2>1. CASE UNCHANGED tasks
    BY <2>0, <2>1
  <2>2. ASSUME NEW t \in Tasks, Cancel(t) PROVE Kept
    BY <2>0, <2>2 DEF Cancel, MayAsk, Known, Typed, Task, Stored
  <2>3. ASSUME NEW c \in Calls, NEW t \in Tasks, Send(c, t) PROVE Kept
    <3>1. t \notin Stored /\ Upsert(t, Submitted) /\ Submitted \in Task
      BY <2>3 DEF Send, Submitted, Task, TaskState
    <3> QED
      BY <2>0, <3>1, UpsertStores
  <2>4. ASSUME NEW c \in Calls, FinishSend(c) PROVE Kept
    <3>1. PICK t \in Stored : \E task \in Task : ~ tasks[t].job /\ Upsert(t, task)
      BY <2>4, FinishSendStores
    <3> QED
      BY <2>0, <3>1, UpsertStores DEF Typed
  <2>5. ASSUME NEW c \in Calls, NEW t \in Tasks, FinishGet(c, t) PROVE Kept
    <3>1. PICK task \in Task : /\ task.job /\ task.state \in {"working"} \cup Terminal
                               /\ Upsert(t, task)
      BY <2>5, FinishGetStores
    <3>2. task.state # "submitted"
      BY <3>1 DEF Terminal
    <3> QED
      BY <2>0, <3>1, <3>2, UpsertStores
  <2> QED
    BY <2>1, <2>2, <2>3, <2>4, <2>5 DEF Next, Handler, Cluster, JobStarts, JobFinishes,
       JobRemoved, JobBecomes, Get, Spawn, SpawnFails, Observe, ObserveFails, Disconnect
<1>2. IndInv /\ [Next]_vars => [Kept]_vars
  BY <1>1
<1> HIDE DEF Kept
<1>3. Spec => [][Kept]_vars
  BY <1>2, Inductive, PTL DEF Spec
<1> QED
  BY <1>3 DEF JobStaysAttached, Kept

-----------------------------------------------------------------------------
(***************************************************************************)
(* Polite tasks, whose clients wait for one answer before they ask the     *)
(* next: a copy in flight is the stored task, and every step is one of the *)
(* task lifecycle.                                                         *)
(***************************************************************************)
SerialInv ==
  /\ \A c, d \in Calls :
       /\ calls[c].op # "idle" /\ calls[d].op # "idle"
       /\ calls[c].task = calls[d].task /\ calls[c].task \in Polite
       => c = d
  /\ \A c \in Calls : calls[c].op # "idle" /\ calls[c].task \in Polite =>
       /\ calls[c].op = "get"  => calls[c].copy = tasks[calls[c].task]
       /\ calls[c].op = "send" => tasks[calls[c].task].state = "submitted"

LifeOf(t) == IF t \in Stored THEN tasks[t].state ELSE "none"

LEMMA QuietMeans ==
  ASSUME IndInv, NEW t \in Polite, MayAsk(t), NEW c \in Calls, calls[c].op # "idle"
  PROVE  calls[c].task # t
BY DEF MayAsk, Quiet, Idle

LEMMA LifeBecomes ==
  ASSUME NEW t \in Polite, NEW state,
         LifeOf(t)' = state, \A u \in Polite : u # t => LifeOf(u)' = LifeOf(u)
  PROVE  \A from : LifeOf(t) \in from => Lifecycle!Becomes(t, from, state)
BY DEF LifeOf, Lifecycle!Becomes

LEMMA UpsertLives ==
  ASSUME Typed, NEW t \in Tasks, NEW task \in Task, Upsert(t, task)
  PROVE  LifeOf(t)' = task.state /\ \A u \in Tasks : u # t => LifeOf(u)' = LifeOf(u)
BY UpsertStores DEF LifeOf

LEMMA LifeStays ==
  ASSUME \A u \in Polite : LifeOf(u)' = LifeOf(u)
  PROVE  UNCHANGED [t \in Polite |-> IF t \in Stored THEN tasks[t].state ELSE "none"]
BY DEF LifeOf

LEMMA SerialInit == Init => IndInv /\ SerialInv /\ Lifecycle!Init
BY InitOK, SomeClients DEF Init, Idle, SerialInv, Lifecycle!Init, Stored

\* SerialInv after a step of request c.
LEMMA SerialAfter ==
  ASSUME IndInv, SerialInv, NEW c \in Calls, NEW call,
         calls' = [calls EXCEPT ![c] = call],
         call.op # "idle" /\ call.task \in Polite =>
           /\ \A d \in Calls \ {c} : calls[d].op # "idle" => calls[d].task # call.task
           /\ call.op = "get"  => call.copy = tasks'[call.task]
           /\ call.op = "send" => tasks'[call.task].state = "submitted",
         \A d \in Calls \ {c} : calls[d].op # "idle" /\ calls[d].task \in Polite =>
           tasks'[calls[d].task] = tasks[calls[d].task]
  PROVE  SerialInv'
<1>0. calls'[c] = call /\ \A d \in Calls : d # c => calls'[d] = calls[d]
  BY DEF IndInv, Typed
<1>1. ASSUME NEW d \in Calls, NEW e \in Calls, calls'[d].op # "idle", calls'[e].op # "idle",
             calls'[d].task = calls'[e].task, calls'[d].task \in Polite
      PROVE  d = e
  <2>1. CASE d # c /\ e # c
    BY <1>0, <1>1, <2>1 DEF SerialInv
  <2>2. CASE d = c \/ e = c
    BY <1>0, <1>1, <2>2
  <2> QED
    BY <2>1, <2>2
<1>2. ASSUME NEW d \in Calls, calls'[d].op # "idle", calls'[d].task \in Polite
      PROVE  /\ calls'[d].op = "get"  => calls'[d].copy = tasks'[calls'[d].task]
             /\ calls'[d].op = "send" => tasks'[calls'[d].task].state = "submitted"
  <2>1. CASE d = c
    BY <1>0, <1>2, <2>1
  <2>2. CASE d # c
    BY <1>0, <1>2, <2>2 DEF SerialInv
  <2> QED
    BY <2>1, <2>2
<1> QED
  BY <1>1, <1>2 DEF SerialInv

LEMMA SerialKeeps ==
  ASSUME IndInv, SerialInv, [Next]_vars
  PROVE  SerialInv'
<1>0. Typed /\ \A c \in Calls : calls[c].op # "idle" => calls[c].task \in Stored
  BY DEF IndInv, CallOK
<1>1. CASE UNCHANGED <<tasks, calls>>
  BY <1>1 DEF SerialInv
<1>2. ASSUME NEW t \in Tasks, Cancel(t) PROVE SerialInv'
  <2>1. UNCHANGED calls /\ \A u \in Stored : u # t => tasks'[u] = tasks[u]
    BY <1>0, <1>2 DEF Cancel, MayAsk, Known, Typed, Stored
  <2>2. t \in Polite => \A c \in Calls : calls[c].op # "idle" => calls[c].task # t
    BY <1>2, QuietMeans DEF Cancel
  <2> QED
    BY <1>0, <2>1, <2>2 DEF SerialInv
<1>3. ASSUME NEW t \in Tasks, NEW c \in Calls, Get(c, t) PROVE SerialInv'
  <2>1. PICK call : call = [op |-> "get", task |-> t, copy |-> tasks[t], answer |-> "waiting"]
    OBVIOUS
  <2>2. calls' = [calls EXCEPT ![c] = call] /\ UNCHANGED tasks
    BY <1>3, <2>1 DEF Get, Awaits
  <2>3. t \in Polite => \A d \in Calls : calls[d].op # "idle" => calls[d].task # t
    BY <1>3, QuietMeans DEF Get
  <2>4. call.op = "get" /\ call.task = t /\ call.copy = tasks[t]
    BY <2>1
  <2> QED
    BY <2>2, <2>3, <2>4, SerialAfter
<1>4. ASSUME NEW c \in Calls, NEW t \in Tasks, Send(c, t) PROVE SerialInv'
  <2>1. PICK call : call = [op |-> "send", task |-> t, copy |-> Submitted, answer |-> "waiting"]
    OBVIOUS
  <2>2. calls' = [calls EXCEPT ![c] = call] /\ t \notin Stored /\ Upsert(t, Submitted)
        /\ Submitted \in Task
    BY <1>4, <2>1 DEF Send, Awaits, Submitted, Task, TaskState
  <2>3. tasks'[t].state = "submitted" /\ \A u \in Stored : tasks'[u] = tasks[u]
    BY <1>0, <2>2, UpsertStores DEF Submitted
  <2>4. call.op = "send" /\ call.task = t
    BY <2>1
  <2> QED
    BY <1>0, <2>2, <2>3, <2>4, SerialAfter
<1>5. ASSUME NEW c \in Calls, calls[c].op # "idle", NEW answer, Replied(c, answer), UNCHANGED tasks
      PROVE  SerialInv'
  <2>1. PICK now : now = calls[c] /\ CallOK(now)
    BY DEF IndInv
  <2>2. PICK call : call = [now EXCEPT !.answer = answer]
    OBVIOUS
  <2>3. now \in Call
    BY <1>5, <2>1 DEF CallOK, Idle
  <2>4. /\ call.op = now.op /\ call.task = now.task /\ call.copy = now.copy
        /\ calls' = [calls EXCEPT ![c] = call]
    BY <1>5, <2>1, <2>2, <2>3 DEF Call, Replied
  <2> QED
    BY <1>5, <2>1, <2>4, SerialAfter DEF SerialInv
<1>6. ASSUME NEW c \in Calls, Returns(c), UNCHANGED tasks PROVE SerialInv'
  BY <1>6, SerialAfter DEF Returns, Idle
<1>7. ASSUME NEW c \in Calls, calls[c].op # "idle", Returns(c), NEW task \in Task,
             Upsert(calls[c].task, task)
      PROVE  SerialInv'
  <2>1. calls[c].task \in Polite =>
          \A d \in Calls \ {c} : calls[d].op # "idle" => calls[d].task # calls[c].task
    BY <1>7 DEF SerialInv
  <2>2. PICK t \in Stored : t = calls[c].task
    BY <1>0, <1>7
  <2>3. \A u \in Stored : u # t => tasks'[u] = tasks[u]
    BY <1>0, <1>7, <2>2, UpsertStores DEF Typed
  <2> QED
    BY <1>0, <1>7, <2>1, <2>2, <2>3, SerialAfter DEF Returns, Idle
<1>8. ASSUME NEW c \in Calls, Handler(c) PROVE SerialInv'
  <2>1. CASE Spawn(c) \/ SpawnFails(c) \/ \E t \in Tasks : Observe(c, t)
    BY <1>5, <2>1 DEF Spawn, SpawnFails, Observe, Waiting, InFlight
  <2>2. CASE ObserveFails(c) \/ Disconnect(c)
    BY <1>6, <2>2 DEF ObserveFails, Disconnect
  <2>3. CASE FinishSend(c)
    BY <1>7, <2>3, FinishSendStores DEF FinishSend
  <2>4. ASSUME NEW t \in Tasks, FinishGet(c, t) PROVE SerialInv'
    <3>1. PICK task \in Task : /\ calls[c].task = t /\ calls[c].op = "get"
                               /\ Upsert(t, task)
      BY <2>4, FinishGetStores
    <3>2. Returns(c)
      BY <2>4 DEF FinishGet
    <3> QED
      BY <1>7, <3>1, <3>2
  <2>5. CASE \E t \in Tasks : Send(c, t)
    BY <1>4, <2>5
  <2> QED
    BY <1>8, <2>1, <2>2, <2>3, <2>4, <2>5 DEF Handler
<1>9. ASSUME NEW t \in Tasks, Cluster(t) PROVE UNCHANGED <<tasks, calls>>
  BY <1>9 DEF Cluster, JobStarts, JobFinishes, JobRemoved, JobBecomes
<1> QED
  BY <1>1, <1>2, <1>3, <1>8, <1>9 DEF Next, vars

\* A step on task t is a step of its life, or of none if t is not polite.
LEMMA LifeMoves ==
  ASSUME NEW t \in Tasks, NEW from, NEW state, LifeOf(t)' = state,
         \A u \in Tasks : u # t => LifeOf(u)' = LifeOf(u),
         t \in Polite => LifeOf(t) \in from,
         \A u \in Polite : Lifecycle!Becomes(u, from, state) => Lifecycle!Next
  PROVE  Lifecycle!Next \/ \A u \in Polite : LifeOf(u)' = LifeOf(u)
<1>1. CASE t \in Polite
  BY <1>1, LifeBecomes, SomeClients
<1>2. CASE t \notin Polite
  BY <1>2, SomeClients
<1> QED
  BY <1>1, <1>2

LEMMA SerialMaps ==
  ASSUME IndInv, SerialInv, Next
  PROVE  Lifecycle!Next \/ \A u \in Polite : LifeOf(u)' = LifeOf(u)
<1> DEFINE Mapped == Lifecycle!Next \/ \A u \in Polite : LifeOf(u)' = LifeOf(u)
<1>0. Typed
  BY DEF IndInv
<1>a. \A u \in Polite : \A end \in Terminal :
        Lifecycle!Becomes(u, {"submitted", "working"}, end) => Lifecycle!Next
  BY DEF Lifecycle!Next, Lifecycle!Settle, Lifecycle!Terminal, Terminal
<1>1. CASE UNCHANGED tasks
  BY <1>1 DEF LifeOf, Stored
<1>2. ASSUME NEW t \in Tasks, Cancel(t) PROVE Mapped
  <2>1. LifeOf(t) \in {"submitted", "working"}
    BY <1>0, <1>2 DEF Cancel, MayAsk, Known, LifeOf, Typed, Task, TaskState
  <2>2. LifeOf(t)' = "canceled" /\ \A u \in Tasks : u # t => LifeOf(u)' = LifeOf(u)
    BY <1>0, <1>2 DEF Cancel, MayAsk, Known, LifeOf, Typed, Task, Stored
  <2>3. \A u \in Polite :
          Lifecycle!Becomes(u, {"submitted", "working"}, "canceled") => Lifecycle!Next
    BY <1>a DEF Terminal
  <2> QED
    BY <2>1, <2>2, <2>3, LifeMoves
<1>3. ASSUME NEW c \in Calls, NEW t \in Tasks, Send(c, t) PROVE Mapped
  <2>1. LifeOf(t) = "none" /\ Upsert(t, Submitted) /\ Submitted \in Task
    BY <1>3 DEF Send, LifeOf, Submitted, Task, TaskState
  <2>2. LifeOf(t)' = "submitted" /\ \A u \in Tasks : u # t => LifeOf(u)' = LifeOf(u)
    BY <1>0, <2>1, UpsertLives DEF Submitted
  <2>3. \A u \in Polite : Lifecycle!Becomes(u, {"none"}, "submitted") => Lifecycle!Next
    BY DEF Lifecycle!Next, Lifecycle!Submit
  <2>4. LifeOf(t) \in {"none"}
    BY <2>1
  <2> QED
    BY <2>2, <2>3, <2>4, LifeMoves
<1>4. ASSUME NEW c \in Calls, FinishSend(c) PROVE Mapped
  <2>1. PICK t \in Stored : \E task \in Task :
          calls[c].task = t /\ calls[c].op = "send" /\ task.state \in {"working", "failed"}
          /\ Upsert(t, task)
    BY <1>4, FinishSendStores
  <2>2. PICK task \in Task : /\ calls[c].task = t /\ calls[c].op = "send"
                             /\ task.state \in {"working", "failed"} /\ Upsert(t, task)
    BY <2>1
  <2>3. t \in Tasks /\ (t \in Polite => LifeOf(t) = "submitted")
    BY <1>0, <2>2 DEF SerialInv, LifeOf, Typed
  <2>4. LifeOf(t)' = task.state /\ \A u \in Tasks : u # t => LifeOf(u)' = LifeOf(u)
    BY <1>0, <2>2, <2>3, UpsertLives
  <2>5. CASE task.state = "working"
    <3>1. \A u \in Polite : Lifecycle!Becomes(u, {"submitted"}, "working") => Lifecycle!Next
      BY DEF Lifecycle!Next, Lifecycle!Work
    <3>2. t \in Polite => LifeOf(t) \in {"submitted"}
      BY <2>3
    <3>3. LifeOf(t)' = "working"
      BY <2>4, <2>5
    <3> QED
      BY <2>3, <2>4, <3>1, <3>2, <3>3, LifeMoves
  <2>6. CASE task.state = "failed"
    <3>1. \A u \in Polite :
            Lifecycle!Becomes(u, {"submitted", "working"}, "failed") => Lifecycle!Next
      BY <1>a DEF Terminal
    <3>2. t \in Polite => LifeOf(t) \in {"submitted", "working"}
      BY <2>3
    <3>3. LifeOf(t)' = "failed"
      BY <2>4, <2>6
    <3> QED
      BY <2>3, <2>4, <3>1, <3>2, <3>3, LifeMoves
  <2> QED
    BY <2>2, <2>5, <2>6
<1>5. ASSUME NEW c \in Calls, NEW t \in Tasks, FinishGet(c, t) PROVE Mapped
  <2>1. PICK copy \in Task, task \in Task :
          /\ t \in Stored /\ calls[c].task = t /\ calls[c].op = "get"
          /\ calls[c].copy = copy /\ copy.state # "submitted" /\ task.job
          /\ task.state \in {"working"} \cup Terminal
          /\ copy.state \in Terminal => task = copy
          /\ Upsert(t, task)
    BY <1>5, FinishGetStores
  <2>2. t \in Polite => LifeOf(t) = copy.state
    BY <2>1 DEF SerialInv, LifeOf
  <2>3. LifeOf(t)' = task.state /\ \A u \in Tasks : u # t => LifeOf(u)' = LifeOf(u)
    BY <1>0, <2>1, UpsertLives
  <2>4. CASE task.state = copy.state
    BY <2>2, <2>3, <2>4, SomeClients
  <2>5. CASE task.state # copy.state
    <3>1. copy.state = "working" /\ task.state \in Terminal
      BY <2>1, <2>5 DEF Task, TaskState
    <3>2. t \in Polite => LifeOf(t) \in {"submitted", "working"}
      BY <2>2, <3>1
    <3>3. \A u \in Polite :
            Lifecycle!Becomes(u, {"submitted", "working"}, task.state) => Lifecycle!Next
      BY <1>a, <3>1
    <3> QED
      BY <2>3, <3>2, <3>3, LifeMoves
  <2> QED
    BY <2>4, <2>5
<1> QED
  BY <1>1, <1>2, <1>3, <1>4, <1>5 DEF Next, Handler, Cluster, JobStarts, JobFinishes,
     JobRemoved, JobBecomes, Get, Spawn, SpawnFails, Observe, ObserveFails, Disconnect

\* A task whose client sends one request at a time follows the lifecycle.
THEOREM PoliteTasksFollow == Spec => FollowsLifecycle
<1>1. IndInv /\ SerialInv /\ [Next]_vars => (IndInv /\ SerialInv)'
  BY NextKeeps, SerialKeeps
<1>2. Spec => [](IndInv /\ SerialInv)
  BY <1>1, SerialInit, PTL DEF Spec
<1>3. IndInv /\ SerialInv /\ [Next]_vars =>
        [Lifecycle!Next]_([t \in Polite |-> IF t \in Stored THEN tasks[t].state ELSE "none"])
  <2>1. UNCHANGED vars => \A u \in Polite : LifeOf(u)' = LifeOf(u)
    BY DEF vars, LifeOf, Stored
  <2> QED
    BY <2>1, SerialMaps, LifeStays
<1> QED
  BY <1>2, <1>3, SerialInit, PTL DEF Spec, FollowsLifecycle, Lifecycle!Spec
=============================================================================
