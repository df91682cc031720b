------------------------------- MODULE EpicPlan -------------------------------
(***************************************************************************)
(* The plan of an epic and the pure functions over it (planning/plan.rs,   *)
(* planning/scheduler.rs).  A plan maps a task id to its task; a task has  *)
(* a status, the ids it depends on and the class of its last error.  An id *)
(* a task depends on need not be in the plan.                              *)
(***************************************************************************)
EXTENDS Naturals, FiniteSets

CONSTANT Classes   \* failure classes of classify_failure

NoError == "no error"
Status  == {"pending", "running", "completed", "failed", "blocked"}

NewTask(deps) == [status |-> "pending", deps |-> deps, error |-> NoError]

IsPlan(plan) ==
  \A t \in DOMAIN plan : /\ DOMAIN plan[t] = {"status", "deps", "error"}
                         /\ plan[t].status \in Status
                         /\ plan[t].error \in Classes \cup {NoError}

WithStatus(plan, status) == {t \in DOMAIN plan : plan[t].status = status}

\* Tasks a failure upstream stops.
Stoppable(plan) == {t \in DOMAIN plan : plan[t].status \in {"pending", "running", "blocked"}}

\* The tasks block propagation ends with: the least set of stoppable tasks that
\* holds every one with a dependency that failed or is in the set.
BlockedTasks(plan) ==
  LET Closed(B) == \A t \in Stoppable(plan) :
                     plan[t].deps \cap (WithStatus(plan, "failed") \cup B) # {} => t \in B
  IN  {t \in Stoppable(plan) : \A B \in SUBSET Stoppable(plan) : Closed(B) => t \in B}

\* Mutants of Propagated: a blocked task stays blocked; blocking does not reach
\* beyond the direct dependents of a failure.
Latched(plan) ==
  [t \in DOMAIN plan |->
     IF t \in BlockedTasks(plan) THEN [plan[t] EXCEPT !.status = "blocked"] ELSE plan[t]]
PropagatedOnce(plan) ==
  [t \in DOMAIN plan |->
     IF t \in Stoppable(plan) /\ plan[t].deps \cap WithStatus(plan, "failed") # {}
     THEN [plan[t] EXCEPT !.status = "blocked"]
     ELSE IF plan[t].status = "blocked" THEN [plan[t] EXCEPT !.status = "pending"]
     ELSE plan[t]]

\* propagate_blocked_status: recomputed from scratch, so that a task whose
\* upstream recovered is pending again.
Propagated(plan) ==
  LET blocked == BlockedTasks(plan)
  IN  [t \in DOMAIN plan |->
         IF t \in blocked                  THEN [plan[t] EXCEPT !.status = "blocked"]
         ELSE IF plan[t].status = "blocked" THEN [plan[t] EXCEPT !.status = "pending"]
         ELSE plan[t]]

\* update_task_status, and the error a failing task is given after it.
Updated(plan, t, status) == Propagated([plan EXCEPT ![t].status = status])


FailedWith(plan, t, class) == [Updated(plan, t, "failed") EXCEPT ![t].error = class]

\* inject_recovery_task for every task of `failed` (rec[t] is the recovery task
\* of t): it takes over t's dependencies and t depends on it alone.
Injected(plan, failed, rec) ==
  Propagated([t \in DOMAIN plan \cup {rec[f] : f \in failed} |->
     IF t \in failed                      THEN NewTask({rec[t]})
     ELSE IF \E f \in failed : rec[f] = t THEN NewTask(plan[CHOOSE f \in failed : rec[f] = t].deps)
     ELSE plan[t]])

\* Mutant: a dependency that is not in the plan does not count.
NextTasksLenient(plan) ==
  {t \in WithStatus(plan, "pending") :
     \A d \in plan[t].deps \cap DOMAIN plan : plan[d].status = "completed"}

\* Scheduler::next_tasks
NextTasks(plan) ==
  {t \in WithStatus(plan, "pending") :
     \A d \in plan[t].deps : d \in DOMAIN plan /\ plan[d].status = "completed"}

\* Scheduler::has_cycles: some tasks all depend on one of themselves.
HasCycles(plan) ==
  \E S \in SUBSET DOMAIN plan : S # {} /\ \A t \in S : plan[t].deps \cap S # {}

\* What depends on `below`, directly or not.
Downstream(plan, below) ==
  LET Closed(D) == \A t \in DOMAIN plan : plan[t].deps \cap (D \cup {below}) # {} => t \in D
  IN  {t \in DOMAIN plan : \A D \in SUBSET DOMAIN plan : Closed(D) => t \in D}

\* prioritize_tasks: the tasks that may come first.  Tasks that block as many
\* others are in any order, the order of a hash map.
Prioritized(plan, ready) ==
  {t \in ready : \A u \in ready :
     Cardinality(Downstream(plan, u)) <= Cardinality(Downstream(plan, t))}
=============================================================================
