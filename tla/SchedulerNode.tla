---------------------------- MODULE SchedulerNode ----------------------------
(***************************************************************************)
(* SchedulerNode (planning/node.rs) at work on an epic plan, with the      *)
(* agents that execute the tasks it hands out.                             *)
(*                                                                         *)
(* execute() holds the state's write lock throughout, so it is one step.   *)
(* Agents end running tasks between two such steps, in any order: the      *)
(* scheduler hands out the next ready task while others run.               *)
(***************************************************************************)
EXTENDS EpicPlan

CONSTANTS Plans,             \* plans a decomposer may produce
          Schedulers,        \* scheduler nodes: [manual, selfHealing]
          RecoveryId(_, _),  \* "recovery_<task id>_<attempt>"
          MaxAttempts,       \* class -> RetryPolicy::max_attempts
          MaxFailures        \* bound on how often agents fail

\* manual maps a task id to the recovery task registered for it, if there is
\* one; selfHealing is set by with_self_healing.
ASSUME PlansArePlans   == \A p \in Plans : IsPlan(p) /\ \A t \in DOMAIN p : p[t] = NewTask(p[t].deps)
ASSUME LimitsAreNat    == MaxAttempts \in [Classes -> Nat] /\ MaxFailures \in Nat
ASSUME ManualInjective == \A s \in Schedulers : \A f, g \in DOMAIN s.manual :
                            s.manual[f] = s.manual[g] => f = g

VARIABLES node,       \* the scheduler node, which does not change
          plan,       \* context "epic_plan"
          attempts,   \* context "task_attempts"
          route,      \* how the last execute() left
          failures    \* failed executions so far

vars == <<node, plan, attempts, route, failures>>

Route == {"none", "cycles", "replan_injected", "replan_needed", "complete",
          "blocked", "continue", "execute_task"}

Init == /\ node \in Schedulers
        /\ plan \in Plans
        /\ attempts = <<>>
        /\ route = "none"
        /\ failures = 0

-----------------------------------------------------------------------------
Attempts(t) == IF t \in DOMAIN attempts THEN attempts[t] ELSE 0

Failed == WithStatus(plan, "failed")

\* Mutant: one attempt more than the policy allows.
RetryableOnceMore(t) == Attempts(t) <= MaxAttempts[plan[t].error]

\* The policy allows another attempt.
Retryable(t) == Attempts(t) < MaxAttempts[plan[t].error]

\* Failed tasks that get a recovery task in this pass.
Recoverable == {t \in Failed : IF node.selfHealing THEN Retryable(t) ELSE t \in DOMAIN node.manual}

\* Mutant: every attempt has the same recovery task.
SameRecoveryFor(t) == IF t \in DOMAIN node.manual THEN node.manual[t] ELSE RecoveryId(t, 1)

RecoveryFor(t) == IF t \in DOMAIN node.manual THEN node.manual[t] ELSE RecoveryId(t, Attempts(t) + 1)

CountAttempts ==
  IF node.selfHealing
  THEN attempts' = [t \in DOMAIN attempts \cup Recoverable |->
                      Attempts(t) + (IF t \in Recoverable THEN 1 ELSE 0)]
  ELSE UNCHANGED attempts

Leaves(r) == route' = r /\ UNCHANGED <<node, failures>>

\* The plan has a cycle: execute() fails.
Cyclic ==
  /\ HasCycles(plan)
  /\ Leaves("cycles")
  /\ UNCHANGED <<plan, attempts>>

\* Attempts are counted whether or not the new plan is saved.
Replan ==
  /\ ~ HasCycles(plan)
  /\ Failed # {}
  /\ CountAttempts
  /\ IF Recoverable = Failed
     THEN /\ plan' = Injected(plan, Failed, [t \in Failed |-> RecoveryFor(t)])
          /\ Leaves("replan_injected")
     ELSE UNCHANGED plan /\ Leaves("replan_needed")

Idle ==
  /\ ~ HasCycles(plan)
  /\ Failed = {}
  /\ NextTasks(plan) = {}
  /\ Leaves(IF WithStatus(plan, "completed") = DOMAIN plan THEN "complete"
            ELSE IF WithStatus(plan, "blocked") # {} THEN "blocked" ELSE "continue")
  /\ UNCHANGED <<plan, attempts>>

Dispatch ==
  /\ ~ HasCycles(plan)
  /\ Failed = {}
  /\ \E t \in Prioritized(plan, NextTasks(plan)) : plan' = Updated(plan, t, "running")
  /\ Leaves("execute_task")
  /\ UNCHANGED attempts

Execute == Cyclic \/ Replan \/ Idle \/ Dispatch

\* An agent reports the end of its task through update_task_status.
Succeeds(t) ==
  /\ t \in WithStatus(plan, "running")
  /\ plan' = Updated(plan, t, "completed")
  /\ UNCHANGED <<node, attempts, route, failures>>

Fails(t) ==
  /\ t \in WithStatus(plan, "running")
  /\ failures < MaxFailures
  /\ failures' = failures + 1
  /\ \E class \in Classes : plan' = FailedWith(plan, t, class)
  /\ UNCHANGED <<node, attempts, route>>

AgentEnds == \E t \in DOMAIN plan : Succeeds(t) \/ Fails(t)

Next == Execute \/ AgentEnds

Spec == Init /\ [][Next]_vars

-----------------------------------------------------------------------------
\* Plan, attempts and routes are well formed.
TypeOK ==
  /\ IsPlan(plan)
  /\ \A t \in DOMAIN attempts : attempts[t] \in Nat
  /\ route \in Route
  /\ failures \in 0 .. MaxFailures

\* A task that waits or runs is blocked exactly if something it depends on
\* failed or is blocked, after any sequence of failures and recoveries.
BlockedIsExact ==
  \A t \in Stoppable(plan) :
    plan[t].status = "blocked" <=>
      plan[t].deps \cap (WithStatus(plan, "failed") \cup WithStatus(plan, "blocked")) # {}

\* No task runs or has run ahead of what it depends on, recovery tasks put in
\* later included.
DependenciesFirst ==
  \A t \in WithStatus(plan, "running") \cup WithStatus(plan, "completed") :
    plan[t].deps \subseteq WithStatus(plan, "completed")

\* No task gets more recovery attempts than the largest policy allows.
AttemptsAreBounded ==
  \A t \in DOMAIN attempts : \E class \in Classes : attempts[t] <= MaxAttempts[class]

\* Recovery tasks with ids of their own never make a plan cyclic, so execute()
\* never fails for what it did to the plan itself.
StaysAcyclic ==
  [][node.manual = <<>> /\ ~ HasCycles(plan) => ~ HasCycles(plan')]_vars

\* Under self healing, a sound plan that is never given up is completed: what a
\* failure blocked resumes once the failure is recovered.
Sound(p) == ~ HasCycles(p) /\ \A t \in DOMAIN p : p[t].deps \subseteq DOMAIN p

EventuallyComplete ==
  /\ node.selfHealing /\ node.manual = <<>> /\ Sound(plan)
  /\ [](route # "replan_needed")
  => <>(route = "complete")

=============================================================================
