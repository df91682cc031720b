------------------------- MODULE SchedulerNodeProofs -------------------------
(***************************************************************************)
(* Proofs about SchedulerNode, for any plans, policies and number of       *)
(* failures.  Lemmas about EpicPlan's operators come first, then what each *)
(* way of changing a plan preserves, then the steps of the node.  The      *)
(* second part is about GraphDiff: the diff of any two graphs a builder    *)
(* makes is exact.  It rests on sums over finite sets and on bags.  The    *)
(* last part is about PlanAlgorithms: the planner's loops compute what     *)
(* EpicPlan's operators say.                                               *)
(***************************************************************************)
EXTENDS SchedulerNode, PlanAlgorithms, GraphDiff, TLAPS, FiniteSetTheorems, SequenceTheorems

\* The parts of the properties that speak of one plan.
Exact(p) ==
  \A t \in Stoppable(p) :
    p[t].status = "blocked" <=>
      p[t].deps \cap (WithStatus(p, "failed") \cup WithStatus(p, "blocked")) # {}

Classified(p) == \A t \in WithStatus(p, "failed") : p[t].error \in Classes

InOrder(p) ==
  \A t \in WithStatus(p, "running") \cup WithStatus(p, "completed") :
    p[t].deps \subseteq WithStatus(p, "completed")

\* Every id a plan mentions.
Mentioned(p) == DOMAIN p \cup UNION {p[u].deps : u \in DOMAIN p}

PlanOK(p) == IsPlan(p) /\ Exact(p) /\ Classified(p)

-----------------------------------------------------------------------------
\* Block propagation.

\* The blocked tasks are a fixed point: exactly those with a dependency that
\* failed or is blocked (propagate_blocked_status's loop can stop).
LEMMA BlockedIsFixpoint ==
  ASSUME NEW p
  PROVE  \A t : t \in BlockedTasks(p) <=>
           /\ t \in Stoppable(p)
           /\ p[t].deps \cap (WithStatus(p, "failed") \cup BlockedTasks(p)) # {}
<1> DEFINE F == WithStatus(p, "failed")
           S == Stoppable(p)
           B == BlockedTasks(p)
           Closed(C) == \A t \in S : p[t].deps \cap (F \cup C) # {} => t \in C
<1>1. B = {t \in S : \A C \in SUBSET S : Closed(C) => t \in C}
  BY DEF BlockedTasks
<1> HIDE DEF B, F, S
<1>2. B \subseteq S
  BY <1>1
<1>3. Closed(B)
  <2> SUFFICES ASSUME NEW t \in S, p[t].deps \cap (F \cup B) # {},
                      NEW C \in SUBSET S, Closed(C)
               PROVE  t \in C
    BY <1>1
  <2>1. B \subseteq C
    BY <1>1
  <2> QED BY <2>1
<1>4. ASSUME NEW t \in B PROVE p[t].deps \cap (F \cup B) # {}
  <2> SUFFICES ASSUME p[t].deps \cap (F \cup B) = {} PROVE FALSE
    OBVIOUS
  <2> DEFINE C == B \ {t}
  <2>1. Closed(C)
    <3> SUFFICES ASSUME NEW u \in S, p[u].deps \cap (F \cup C) # {} PROVE u \in C
      OBVIOUS
    <3>1. u \in B
      BY <1>3
    <3>2. u # t
      OBVIOUS
    <3> QED BY <3>1, <3>2
  <2>2. C \in SUBSET S
    BY <1>2
  <2>3. t \in C
    BY <1>1, <2>1, <2>2
  <2> QED BY <2>3
<1> QED BY <1>2, <1>3, <1>4 DEF B, F, S

\* Propagation changes nothing but the statuses of stoppable tasks.
LEMMA PropagatedFields ==
  ASSUME NEW p, IsPlan(p)
  PROVE  /\ DOMAIN Propagated(p) = DOMAIN p
         /\ \A t \in DOMAIN p :
              /\ DOMAIN Propagated(p)[t] = DOMAIN p[t]
              /\ Propagated(p)[t].deps = p[t].deps
              /\ Propagated(p)[t].error = p[t].error
              /\ Propagated(p)[t].status =
                   IF t \in BlockedTasks(p) THEN "blocked"
                   ELSE IF p[t].status = "blocked" THEN "pending"
                   ELSE p[t].status
BY DEF IsPlan, Propagated

\* ... so the settled statuses stay, and no task starts to run.
LEMMA PropagatedStatuses ==
  ASSUME NEW p, IsPlan(p)
  PROVE  /\ WithStatus(Propagated(p), "failed")    = WithStatus(p, "failed")
         /\ WithStatus(Propagated(p), "completed") = WithStatus(p, "completed")
         /\ WithStatus(Propagated(p), "blocked")   = BlockedTasks(p)
         /\ WithStatus(Propagated(p), "running") \subseteq WithStatus(p, "running")
         /\ Stoppable(Propagated(p)) = Stoppable(p)
<1>1. BlockedTasks(p) \subseteq Stoppable(p)
  BY BlockedIsFixpoint
<1>2. \A t \in BlockedTasks(p) : p[t].status \in {"pending", "running", "blocked"}
  BY <1>1 DEF Stoppable
<1>3. BlockedTasks(p) \subseteq DOMAIN p
  BY <1>1 DEF Stoppable
<1> QED BY PropagatedFields, <1>2, <1>3 DEF WithStatus, Stoppable

\* Whatever a plan was, after propagation its blocked tasks are exact.
LEMMA PropagatedIsExact ==
  ASSUME NEW p, IsPlan(p)
  PROVE  /\ IsPlan(Propagated(p))
         /\ Exact(Propagated(p))
         /\ Classified(p) => Classified(Propagated(p))
         /\ InOrder(p) => InOrder(Propagated(p))
         /\ Mentioned(Propagated(p)) = Mentioned(p)
<1> DEFINE q == Propagated(p)
<1>1. /\ DOMAIN q = DOMAIN p
      /\ \A t \in DOMAIN p :
              /\ DOMAIN q[t] = DOMAIN p[t]
              /\ q[t].deps = p[t].deps
              /\ q[t].error = p[t].error
              /\ q[t].status = IF t \in BlockedTasks(p) THEN "blocked"
                               ELSE IF p[t].status = "blocked" THEN "pending"
                               ELSE p[t].status
  BY PropagatedFields
<1>2. /\ WithStatus(q, "failed")    = WithStatus(p, "failed")
      /\ WithStatus(q, "completed") = WithStatus(p, "completed")
      /\ WithStatus(q, "blocked")   = BlockedTasks(p)
      /\ WithStatus(q, "running") \subseteq WithStatus(p, "running")
      /\ Stoppable(q) = Stoppable(p)
  BY PropagatedStatuses
<1> HIDE DEF q
<1>3. IsPlan(q)
  BY <1>1 DEF IsPlan, Status
<1>4. Exact(q)
  <2> SUFFICES ASSUME NEW t \in Stoppable(q)
               PROVE  q[t].status = "blocked" <=>
                        q[t].deps \cap (WithStatus(q, "failed") \cup WithStatus(q, "blocked")) # {}
    BY DEF Exact
  <2>1. t \in Stoppable(p) /\ t \in DOMAIN q
    BY <1>2 DEF Stoppable
  <2>2. q[t].status = "blocked" <=> t \in BlockedTasks(p)
    BY <1>2, <2>1 DEF WithStatus
  <2>3. q[t].deps = p[t].deps
    BY <1>1, <2>1
  <2>4. t \in BlockedTasks(p) <=> p[t].deps \cap (WithStatus(p, "failed") \cup BlockedTasks(p)) # {}
    BY BlockedIsFixpoint, <2>1
  <2> QED BY <1>2, <2>2, <2>3, <2>4
<1>5. Classified(p) => Classified(q)
  <2>1. WithStatus(p, "failed") \subseteq DOMAIN p
    BY DEF WithStatus
  <2> QED BY <1>1, <1>2, <2>1 DEF Classified
<1>6. InOrder(p) => InOrder(q)
  <2> SUFFICES ASSUME InOrder(p),
                      NEW t \in WithStatus(q, "running") \cup WithStatus(q, "completed")
               PROVE  q[t].deps \subseteq WithStatus(q, "completed")
    BY DEF InOrder
  <2>1. t \in WithStatus(p, "running") \cup WithStatus(p, "completed")
    BY <1>2
  <2>2. t \in DOMAIN p
    BY <2>1 DEF WithStatus
  <2> QED BY <1>1, <1>2, <2>1, <2>2 DEF InOrder
<1>7. Mentioned(q) = Mentioned(p)
  BY <1>1 DEF Mentioned
<1> QED BY <1>3, <1>4, <1>5, <1>6, <1>7 DEF q

-----------------------------------------------------------------------------
\* The ways a plan changes.

\* Plans with the same dependencies have the same cycles and mention the same ids.
LEMMA SameDependencies ==
  ASSUME NEW p, NEW q, DOMAIN q = DOMAIN p, \A t \in DOMAIN p : q[t].deps = p[t].deps
  PROVE  (HasCycles(q) <=> HasCycles(p)) /\ Mentioned(q) = Mentioned(p)
BY DEF HasCycles, Mentioned

\* What setting a status does to the fields of a plan.
LEMMA WithNewStatus ==
  ASSUME NEW p, IsPlan(p), NEW t \in DOMAIN p, NEW s \in Status
  PROVE  LET q == [p EXCEPT ![t].status = s]
         IN  /\ IsPlan(q)
             /\ DOMAIN q = DOMAIN p
             /\ \A u \in DOMAIN p : q[u].deps = p[u].deps /\ q[u].error = p[u].error
             /\ \A u \in DOMAIN p : q[u].status = IF u = t THEN s ELSE p[u].status
BY DEF IsPlan

\* update_task_status as a whole: the plan stays well formed and exact, its
\* dependencies do not change, and it stays in order if it was after the change.
LEMMA UpdatedOK ==
  ASSUME NEW p, IsPlan(p), NEW t \in DOMAIN p, NEW s \in Status
  PROVE  /\ IsPlan(Updated(p, t, s)) /\ Exact(Updated(p, t, s))
         /\ DOMAIN Updated(p, t, s) = DOMAIN p
         /\ \A u \in DOMAIN p : Updated(p, t, s)[u].deps = p[u].deps
         /\ \A u \in DOMAIN p : Updated(p, t, s)[u].error = p[u].error
         /\ s # "failed" => WithStatus(Updated(p, t, s), "failed") \subseteq WithStatus(p, "failed")
         /\ s = "failed" => WithStatus(Updated(p, t, s), "failed") \subseteq WithStatus(p, "failed") \cup {t}
         /\ InOrder([p EXCEPT ![t].status = s]) => InOrder(Updated(p, t, s))
<1> DEFINE m == [p EXCEPT ![t].status = s]
<1>1. /\ IsPlan(m)
      /\ DOMAIN m = DOMAIN p
      /\ \A u \in DOMAIN p : m[u].deps = p[u].deps /\ m[u].error = p[u].error
      /\ \A u \in DOMAIN p : m[u].status = IF u = t THEN s ELSE p[u].status
  BY WithNewStatus
<1>2. Updated(p, t, s) = Propagated(m)
  BY DEF Updated
<1> HIDE DEF m
<1>3. IsPlan(Propagated(m)) /\ Exact(Propagated(m)) /\ (InOrder(m) => InOrder(Propagated(m)))
  BY <1>1, PropagatedIsExact
<1>4. /\ DOMAIN Propagated(m) = DOMAIN m
      /\ \A u \in DOMAIN m : /\ Propagated(m)[u].deps = m[u].deps
                             /\ Propagated(m)[u].error = m[u].error
  BY <1>1, PropagatedFields
<1>5. WithStatus(Propagated(m), "failed") = WithStatus(m, "failed")
  BY <1>1, PropagatedStatuses
<1>6. /\ s # "failed" => WithStatus(m, "failed") \subseteq WithStatus(p, "failed")
      /\ s = "failed" => WithStatus(m, "failed") \subseteq WithStatus(p, "failed") \cup {t}
  BY <1>1 DEF WithStatus
<1> QED BY <1>1, <1>2, <1>3, <1>4, <1>5, <1>6 DEF m

\* ... and what failed has its class, unless the task fails now.
LEMMA UpdatedPlanOK ==
  ASSUME NEW p, IsPlan(p), Classified(p), NEW t \in DOMAIN p, NEW s \in Status, s # "failed"
  PROVE  PlanOK(Updated(p, t, s))
<1>1. /\ IsPlan(Updated(p, t, s)) /\ Exact(Updated(p, t, s))
      /\ \A u \in DOMAIN p : Updated(p, t, s)[u].error = p[u].error
      /\ WithStatus(Updated(p, t, s), "failed") \subseteq WithStatus(p, "failed")
  BY UpdatedOK
<1>2. Classified(Updated(p, t, s))
  BY <1>1 DEF Classified, WithStatus
<1> QED BY <1>1, <1>2 DEF PlanOK

\* A ready task may run, a running one may end: the plan stays in order.
LEMMA StatusInOrder ==
  ASSUME NEW p, IsPlan(p), InOrder(p), NEW t \in DOMAIN p, NEW s \in Status,
         \/ s = "running" /\ t \in NextTasks(p)
         \/ s \in {"completed", "failed"} /\ t \in WithStatus(p, "running")
  PROVE  InOrder([p EXCEPT ![t].status = s])
<1> DEFINE m == [p EXCEPT ![t].status = s]
<1>1. /\ DOMAIN m = DOMAIN p
      /\ \A u \in DOMAIN p : m[u].deps = p[u].deps
      /\ \A u \in DOMAIN p : m[u].status = IF u = t THEN s ELSE p[u].status
  BY WithNewStatus
<1>2. p[t].deps \subseteq WithStatus(p, "completed") /\ p[t].status # "completed"
  BY DEF InOrder, NextTasks, WithStatus
<1> HIDE DEF m
<1>3. WithStatus(p, "completed") \subseteq WithStatus(m, "completed")
  BY <1>1, <1>2 DEF WithStatus
<1>4. \A u \in DOMAIN p : u # t /\ u \in WithStatus(m, "running") \cup WithStatus(m, "completed")
        => u \in WithStatus(p, "running") \cup WithStatus(p, "completed")
  BY <1>1 DEF WithStatus
<1>5. WithStatus(m, "running") \cup WithStatus(m, "completed") \subseteq DOMAIN p
  BY <1>1 DEF WithStatus
<1>6. InOrder(m)
  BY <1>1, <1>2, <1>3, <1>4, <1>5 DEF InOrder
<1> QED BY <1>6 DEF m

\* A failure with its class.
LEMMA FailedWithOK ==
  ASSUME NEW p, IsPlan(p), Classified(p), NEW t \in WithStatus(p, "running"),
         NEW class \in Classes
  PROVE  /\ PlanOK(FailedWith(p, t, class))
         /\ DOMAIN FailedWith(p, t, class) = DOMAIN p
         /\ \A u \in DOMAIN p : FailedWith(p, t, class)[u].deps = p[u].deps
         /\ InOrder(p) => InOrder(FailedWith(p, t, class))
<1> DEFINE m == Updated(p, t, "failed")
           q == FailedWith(p, t, class)
<1>1. t \in DOMAIN p
  BY DEF WithStatus
<1>2. /\ IsPlan(m) /\ Exact(m)
      /\ DOMAIN m = DOMAIN p
      /\ \A u \in DOMAIN p : m[u].deps = p[u].deps
      /\ \A u \in DOMAIN p : m[u].error = p[u].error
      /\ WithStatus(m, "failed") \subseteq WithStatus(p, "failed") \cup {t}
      /\ InOrder([p EXCEPT ![t].status = "failed"]) => InOrder(m)
  <2>1. "failed" \in Status
    BY DEF Status
  <2>2. /\ IsPlan(m) /\ Exact(m)
        /\ DOMAIN m = DOMAIN p
        /\ \A u \in DOMAIN p : m[u].deps = p[u].deps
        /\ \A u \in DOMAIN p : m[u].error = p[u].error
        /\ WithStatus(m, "failed") \subseteq WithStatus(p, "failed") \cup {t}
        /\ InOrder([p EXCEPT ![t].status = "failed"]) => InOrder(m)
    BY <1>1, <2>1, UpdatedOK
  <2> HIDE DEF m
  <2> QED BY <2>2
<1>3. q = [m EXCEPT ![t].error = class]
  BY DEF FailedWith
<1>4. InOrder(p) => InOrder(m)
  <2> SUFFICES ASSUME InOrder(p) PROVE InOrder(m)
    OBVIOUS
  <2>1. InOrder([p EXCEPT ![t].status = "failed"])
    BY <1>1, StatusInOrder DEF Status
  <2> QED BY <2>1, <1>2
<1> HIDE DEF m, q
<1>5. /\ DOMAIN q = DOMAIN m
      /\ IsPlan(q)
      /\ \A u \in DOMAIN m : q[u].status = m[u].status /\ q[u].deps = m[u].deps
      /\ \A u \in DOMAIN m : q[u].error = IF u = t THEN class ELSE m[u].error
  BY <1>2, <1>3 DEF IsPlan
<1>6. /\ Stoppable(q) = Stoppable(m)
      /\ \A s : WithStatus(q, s) = WithStatus(m, s)
  BY <1>5 DEF Stoppable, WithStatus
<1>7. Exact(q)
  <2>1. Stoppable(m) \subseteq DOMAIN m
    BY DEF Stoppable
  <2> QED BY <1>2, <1>5, <1>6, <2>1 DEF Exact
<1>8. Classified(q)
  BY <1>2, <1>5, <1>6 DEF Classified, WithStatus
<1>9. InOrder(m) => InOrder(q)
  <2>1. WithStatus(m, "running") \cup WithStatus(m, "completed") \subseteq DOMAIN m
    BY DEF WithStatus
  <2> QED BY <1>5, <1>6, <2>1 DEF InOrder
<1> QED BY <1>2, <1>4, <1>5, <1>7, <1>8, <1>9 DEF q, m, PlanOK

\* The plan inject_recovery_task makes of p, before propagation.
Rewritten(p, failed, rec) ==
  [t \in DOMAIN p \cup {rec[f] : f \in failed} |->
     IF t \in failed                      THEN NewTask({rec[t]})
     ELSE IF \E f \in failed : rec[f] = t THEN NewTask(p[CHOOSE f \in failed : rec[f] = t].deps)
     ELSE p[t]]

\* A new task waits, has no error and the dependencies it is given.
LEMMA NewTaskFields ==
  ASSUME NEW deps
  PROVE  /\ DOMAIN NewTask(deps) = {"status", "deps", "error"}
         /\ NewTask(deps).status = "pending" /\ NewTask(deps).status \in Status
         /\ NewTask(deps).deps = deps
         /\ NewTask(deps).error = NoError
BY DEF NewTask, Status

\* Injecting a recovery task for every failed task leaves a plan that is well
\* formed and exact, with no failed task.
LEMMA InjectedOK ==
  ASSUME NEW p, IsPlan(p), NEW rec
  PROVE  PlanOK(Injected(p, WithStatus(p, "failed"), rec))
<1> DEFINE F == WithStatus(p, "failed")
           m == Rewritten(p, F, rec)
<1>1. Injected(p, F, rec) = Propagated(m)
  BY DEF Injected, Rewritten
<1>2. IsPlan(m)
  <2> SUFFICES ASSUME NEW t \in DOMAIN m
               PROVE  /\ DOMAIN m[t] = {"status", "deps", "error"}
                      /\ m[t].status \in Status
                      /\ m[t].error \in Classes \cup {NoError}
    BY DEF IsPlan
  <2>1. CASE t \in F \/ \E f \in F : rec[f] = t
    BY <2>1 DEF Rewritten, NewTask, Status
  <2>2. CASE ~ (t \in F \/ \E f \in F : rec[f] = t)
    <3>1. t \in DOMAIN p /\ m[t] = p[t]
      BY <2>2 DEF Rewritten
    <3> QED BY <3>1 DEF IsPlan
  <2> QED BY <2>1, <2>2
<1>3. WithStatus(m, "failed") = {}
  <2> SUFFICES ASSUME NEW t \in DOMAIN m, m[t].status = "failed" PROVE FALSE
    BY DEF WithStatus
  <2>1. CASE t \in F \/ \E f \in F : rec[f] = t
    BY <2>1 DEF Rewritten, NewTask
  <2>2. CASE ~ (t \in F \/ \E f \in F : rec[f] = t)
    <3>1. t \in DOMAIN p /\ m[t] = p[t]
      BY <2>2 DEF Rewritten
    <3> QED BY <2>2, <3>1 DEF WithStatus
  <2> QED BY <2>1, <2>2
<1> HIDE DEF m
<1>4. Classified(m)
  BY <1>3 DEF Classified
<1> QED BY <1>1, <1>2, <1>4, PropagatedIsExact DEF PlanOK

\* Recovery ids that are new to the plan keep it in order and acyclic.
LEMMA InjectedFresh ==
  ASSUME NEW p, IsPlan(p), NEW rec,
         \A f \in WithStatus(p, "failed") : rec[f] \notin Mentioned(p),
         \A f, g \in WithStatus(p, "failed") : rec[f] = rec[g] => f = g
  PROVE  LET q == Injected(p, WithStatus(p, "failed"), rec)
         IN  /\ InOrder(p) => InOrder(q)
             /\ ~ HasCycles(p) => ~ HasCycles(q)
             /\ Mentioned(q) \subseteq Mentioned(p) \cup {rec[f] : f \in WithStatus(p, "failed")}
<1> DEFINE F == WithStatus(p, "failed")
           R == {rec[f] : f \in F}
           m == Rewritten(p, F, rec)
<1>1. Injected(p, F, rec) = Propagated(m)
  BY DEF Injected, Rewritten
<1>2. F \subseteq DOMAIN p /\ DOMAIN p \subseteq Mentioned(p) /\ R \cap Mentioned(p) = {}
  BY DEF WithStatus, Mentioned
<1>3. DOMAIN m = DOMAIN p \cup R
  BY DEF Rewritten
<1>4. \A f \in F : /\ DOMAIN m[f] = {"status", "deps", "error"}
                   /\ m[f].status = "pending" /\ m[f].deps = {rec[f]} /\ m[f].error = NoError
  <2> SUFFICES ASSUME NEW f \in F
               PROVE  /\ DOMAIN m[f] = {"status", "deps", "error"}
                      /\ m[f].status = "pending" /\ m[f].deps = {rec[f]} /\ m[f].error = NoError
    OBVIOUS
  <2>1. PICK d : d = {rec[f]}
    OBVIOUS
  <2>2. m[f] = NewTask(d)
    BY <1>2, <2>1 DEF Rewritten
  <2> HIDE DEF m
  <2> QED BY <2>1, <2>2, NewTaskFields
<1>5. \A f \in F : m[rec[f]] = NewTask(p[f].deps)
  <2> SUFFICES ASSUME NEW f \in F PROVE m[rec[f]] = NewTask(p[f].deps)
    OBVIOUS
  <2>1. rec[f] \notin F /\ rec[f] \in R
    BY <1>2
  <2>2. (CHOOSE g \in F : rec[g] = rec[f]) = f
    OBVIOUS
  <2> QED BY <2>1, <2>2 DEF Rewritten
<1>6. \A t \in DOMAIN p \ F : m[t] = p[t]
  BY <1>2 DEF Rewritten
<1> HIDE DEF m, F
<1>7. IsPlan(m)
  <2> SUFFICES ASSUME NEW t \in DOMAIN m
               PROVE  /\ DOMAIN m[t] = {"status", "deps", "error"}
                      /\ m[t].status \in Status
                      /\ m[t].error \in Classes \cup {NoError}
    BY DEF IsPlan
  <2>1. CASE t \in F
    BY <2>1, <1>4 DEF Status
  <2>2. CASE t \in R
    BY <2>2, <1>5, NewTaskFields
  <2>3. CASE t \in DOMAIN p \ F
    BY <2>3, <1>6 DEF IsPlan
  <2> QED BY <1>3, <2>1, <2>2, <2>3
<1>8. /\ \A f \in F : m[f].deps = {rec[f]} /\ m[f].status = "pending"
      /\ \A f \in F : m[rec[f]].deps = p[f].deps /\ m[rec[f]].status = "pending"
      /\ \A t \in DOMAIN p \ F : m[t].deps = p[t].deps /\ m[t].status = p[t].status
  BY <1>4, <1>5, <1>6, NewTaskFields
<1>9. InOrder(p) => InOrder(m)
  <2>1. WithStatus(m, "completed") = WithStatus(p, "completed")
    BY <1>2, <1>3, <1>8 DEF WithStatus, F
  <2>2. WithStatus(m, "running") = WithStatus(p, "running")
    BY <1>2, <1>3, <1>8 DEF WithStatus, F
  <2>3. \A t \in WithStatus(p, "completed") \cup WithStatus(p, "running") : t \in DOMAIN p \ F
    BY DEF WithStatus, F
  <2> QED BY <1>8, <2>1, <2>2, <2>3 DEF InOrder
<1>10. ASSUME HasCycles(m) PROVE HasCycles(p)
  <2>1. PICK S \in SUBSET DOMAIN m : S # {} /\ \A t \in S : m[t].deps \cap S # {}
    BY <1>10 DEF HasCycles
  <2> DEFINE T == S \ R
  <2>2. \A f \in F : p[f].deps \cap R = {}
    BY <1>2 DEF Mentioned
  <2>3. \A t \in DOMAIN p : p[t].deps \cap R = {}
    BY <1>2 DEF Mentioned
  <2>4. ASSUME NEW f \in F, rec[f] \in S PROVE p[f].deps \cap T # {}
    <3>1. m[rec[f]].deps \cap S # {}
      BY <2>1, <2>4
    <3> QED BY <3>1, <1>8, <2>2
  <2>5. ASSUME NEW t \in T PROVE p[t].deps \cap T # {}
    <3>1. t \in DOMAIN p /\ m[t].deps \cap S # {}
      BY <2>1, <1>3
    <3>2. CASE t \in F
      <4>1. rec[t] \in S
        BY <3>1, <3>2, <1>8
      <4> QED BY <3>2, <4>1, <2>4
    <3>3. CASE t \notin F
      BY <3>1, <3>3, <1>8, <2>3
    <3> QED BY <3>2, <3>3
  <2>6. T # {}
    <3>1. PICK x \in S : TRUE
      BY <2>1
    <3>2. CASE x \in R
      <4>1. PICK f \in F : x = rec[f]
        BY <3>2
      <4> QED BY <4>1, <2>4
    <3>3. CASE x \notin R
      BY <3>3
    <3> QED BY <3>2, <3>3
  <2>7. T \in SUBSET DOMAIN p
    BY <2>1, <1>3
  <2> QED BY <2>5, <2>6, <2>7 DEF HasCycles
<1>11. Mentioned(m) \subseteq Mentioned(p) \cup R
  <2>1. \A t \in DOMAIN m : m[t].deps \subseteq Mentioned(p) \cup R
    <3> SUFFICES ASSUME NEW t \in DOMAIN m PROVE m[t].deps \subseteq Mentioned(p) \cup R
      OBVIOUS
    <3>1. CASE t \in F
      BY <3>1, <1>8
    <3>2. CASE t \in R
      <4>1. PICK f \in F : t = rec[f]
        BY <3>2
      <4> QED BY <4>1, <1>2, <1>8 DEF Mentioned
    <3>3. CASE t \in DOMAIN p \ F
      BY <3>3, <1>8 DEF Mentioned
    <3> QED BY <1>3, <3>1, <3>2, <3>3
  <2> QED BY <2>1, <1>2, <1>3 DEF Mentioned
<1>12. /\ InOrder(m) => InOrder(Propagated(m))
       /\ Mentioned(Propagated(m)) = Mentioned(m)
  BY <1>7, PropagatedIsExact
<1>13. HasCycles(Propagated(m)) <=> HasCycles(m)
  <2>1. DOMAIN Propagated(m) = DOMAIN m /\ \A t \in DOMAIN m : Propagated(m)[t].deps = m[t].deps
    BY <1>7, PropagatedFields
  <2> QED BY <2>1, SameDependencies
<1> QED BY <1>1, <1>9, <1>10, <1>11, <1>12, <1>13 DEF F

-----------------------------------------------------------------------------
\* The scheduler node.

\* Ids of recovery tasks tell the task and the attempt apart, and no plan a
\* decomposer produces mentions one.
RecoveryIdsAreFresh ==
  /\ \A t, u : \A m, n \in Nat : RecoveryId(t, m) = RecoveryId(u, n) => t = u /\ m = n
  /\ \A p \in Plans : \A t : \A n \in Nat : RecoveryId(t, n) \notin Mentioned(p)

\* Only attempts that were counted have a recovery task in the plan.
AttemptsCoverIds ==
  \A t : \A n \in Nat : RecoveryId(t, n) \in Mentioned(plan) => n <= Attempts(t)

\* The inductive invariant; the second part is about schedulers that have no
\* recovery tasks registered.
IndInv == /\ TypeOK
          /\ node \in Schedulers
          /\ PlanOK(plan)
          /\ AttemptsAreBounded

Generated == node.manual = <<>> => AttemptsCoverIds /\ InOrder(plan)

\* A plan a decomposer has just produced satisfies the invariant.
LEMMA InitHolds == Init => IndInv
<1> SUFFICES ASSUME Init PROVE IndInv
  OBVIOUS
<1>1. PICK p \in Plans : p = plan
  BY DEF Init
<1>2. IsPlan(p) /\ \A t \in DOMAIN p : p[t].status = "pending"
  BY PlansArePlans, NewTaskFields
<1>3. WithStatus(p, "failed") = {} /\ WithStatus(p, "blocked") = {}
  BY <1>2 DEF WithStatus
<1>4. PlanOK(p)
  BY <1>2, <1>3 DEF PlanOK, Exact, Classified, Stoppable
<1>5. DOMAIN attempts = {}
  BY DEF Init
<1> QED BY <1>1, <1>4, <1>5, LimitsAreNat DEF Init, IndInv, TypeOK, PlanOK, Route, AttemptsAreBounded

\* ... and mentions no recovery task.
LEMMA InitGenerated == ASSUME RecoveryIdsAreFresh PROVE Init => Generated
<1> SUFFICES ASSUME Init PROVE Generated
  OBVIOUS
<1>1. PICK p \in Plans : p = plan
  BY DEF Init
<1>2. \A t \in DOMAIN p : p[t].status = "pending"
  BY PlansArePlans, NewTaskFields
<1>3. InOrder(p)
  BY <1>2 DEF InOrder, WithStatus
<1>4. \A t : \A n \in Nat : RecoveryId(t, n) \notin Mentioned(p)
  BY DEF RecoveryIdsAreFresh
<1> QED BY <1>1, <1>3, <1>4 DEF Generated, AttemptsCoverIds

\* How a replanning pass counts.
LEMMA Counting ==
  ASSUME IndInv, CountAttempts
  PROVE  /\ \A t \in DOMAIN attempts' : attempts'[t] \in Nat
         /\ AttemptsAreBounded'
         /\ \A t : Attempts(t)' >= Attempts(t) /\ Attempts(t) \in Nat /\ Attempts(t)' \in Nat
         /\ node.selfHealing => \A t \in Recoverable : Attempts(t)' = Attempts(t) + 1
<1>1. \A t : Attempts(t) \in Nat
  BY DEF IndInv, TypeOK, Attempts
<1>2. CASE ~ node.selfHealing
  BY <1>1, <1>2 DEF CountAttempts, IndInv, TypeOK, Attempts, AttemptsAreBounded
<1>3. CASE node.selfHealing
  <2>1. attempts' = [t \in DOMAIN attempts \cup Recoverable |->
                       Attempts(t) + (IF t \in Recoverable THEN 1 ELSE 0)]
    BY <1>3 DEF CountAttempts
  <2>2. \A t : Attempts(t)' = Attempts(t) + (IF t \in Recoverable THEN 1 ELSE 0)
    BY <2>1, <1>1 DEF Attempts
  <2>3. \A t \in Recoverable : plan[t].error \in Classes /\ Attempts(t) < MaxAttempts[plan[t].error]
    BY <1>3 DEF Recoverable, Retryable, Failed, IndInv, PlanOK, Classified
  <2>4. AttemptsAreBounded'
    <3> SUFFICES ASSUME NEW t \in DOMAIN attempts'
                 PROVE  \E class \in Classes : attempts'[t] <= MaxAttempts[class]
      BY DEF AttemptsAreBounded
    <3>1. CASE t \in Recoverable
      <4>1. attempts'[t] = Attempts(t) + 1
        BY <2>1, <3>1
      <4>2. PICK class \in Classes : class = plan[t].error
        BY <2>3, <3>1
      <4>3. MaxAttempts[class] \in Nat
        BY LimitsAreNat
      <4>4. attempts'[t] <= MaxAttempts[class]
        BY <4>1, <4>2, <4>3, <2>3, <3>1, <1>1
      <4> QED BY <4>4
    <3>2. CASE t \notin Recoverable
      <4>1. t \in DOMAIN attempts /\ attempts'[t] = attempts[t]
        BY <2>1, <3>2, <1>1 DEF Attempts, IndInv, TypeOK
      <4> QED BY <4>1 DEF IndInv, AttemptsAreBounded
    <3> QED BY <3>1, <3>2
  <2>5. \A t \in DOMAIN attempts' : attempts'[t] \in Nat
    BY <2>1, <1>1
  <2> QED BY <2>2, <2>4, <2>5, <1>1
<1> QED BY <1>2, <1>3

\* Every step keeps the invariant.
LEMMA StepHolds == IndInv /\ [Next]_vars => IndInv'
<1> SUFFICES ASSUME IndInv, [Next]_vars PROVE IndInv'
  OBVIOUS
<1>1. PICK p : p = plan
  OBVIOUS
<1>2. IsPlan(p) /\ Classified(p)
  BY <1>1 DEF IndInv, PlanOK
<1>3. ASSUME UNCHANGED <<node, plan, attempts, failures>>, route' \in Route PROVE IndInv'
  BY <1>3 DEF IndInv, TypeOK, PlanOK, AttemptsAreBounded
<1>4. ASSUME PlanOK(plan'), route' \in Route, UNCHANGED <<node, attempts>>,
             failures' \in 0 .. MaxFailures
      PROVE  IndInv'
  BY <1>4 DEF IndInv, TypeOK, PlanOK, AttemptsAreBounded
<1>5. ASSUME NEW t \in DOMAIN p, NEW s \in Status \ {"failed"}, plan' = Updated(p, t, s)
      PROVE  PlanOK(plan')
  <2>1. s \in Status /\ s # "failed"
    OBVIOUS
  <2> QED BY <1>2, <1>5, <2>1, UpdatedPlanOK
<1>6. CASE Cyclic
  BY <1>6, <1>3 DEF Cyclic, Leaves, Route
<1>7. CASE Idle
  BY <1>7, <1>3 DEF Idle, Leaves, Route
<1>8. CASE Dispatch
  <2>1. PICK t \in Prioritized(plan, NextTasks(plan)) : plan' = Updated(plan, t, "running")
    BY <1>8 DEF Dispatch
  <2>2. t \in DOMAIN p
    BY <1>1, <2>1 DEF Prioritized, NextTasks, WithStatus
  <2>3. "running" \in Status \ {"failed"}
    BY DEF Status
  <2>4. PlanOK(plan')
    BY <1>1, <1>5, <2>1, <2>2, <2>3
  <2> QED BY <1>8, <1>4, <2>4 DEF Dispatch, Leaves, Route, IndInv, TypeOK
<1>9. CASE Replan
  <2>1. AttemptsAreBounded' /\ \A t \in DOMAIN attempts' : attempts'[t] \in Nat
    BY <1>9, Counting DEF Replan
  <2>2. UNCHANGED <<node, failures>> /\ route' \in Route
    BY <1>9 DEF Replan, Leaves, Route
  <2>3. PlanOK(plan')
    <3>1. CASE UNCHANGED plan
      BY <3>1 DEF IndInv, PlanOK
    <3>2. CASE plan' = Injected(plan, Failed, [t \in Failed |-> RecoveryFor(t)])
      <4>1. PICK rec : rec = [t \in Failed |-> RecoveryFor(t)]
        OBVIOUS
      <4>2. plan' = Injected(p, WithStatus(p, "failed"), rec)
        BY <1>1, <3>2, <4>1 DEF Failed
      <4>3. PlanOK(Injected(p, WithStatus(p, "failed"), rec))
        BY <1>2, InjectedOK
      <4> QED BY <4>2, <4>3
    <3> QED BY <1>9, <3>1, <3>2 DEF Replan
  <2> QED BY <2>1, <2>2, <2>3 DEF IndInv, TypeOK, PlanOK
<1>10. ASSUME NEW t \in DOMAIN plan, Succeeds(t) PROVE IndInv'
  <2>1. "completed" \in Status \ {"failed"}
    BY DEF Status
  <2>2. PlanOK(plan')
    BY <1>1, <1>5, <1>10, <2>1 DEF Succeeds
  <2> QED BY <1>10, <1>4, <2>2 DEF Succeeds, IndInv, TypeOK
<1>11. ASSUME NEW t \in DOMAIN plan, Fails(t) PROVE IndInv'
  <2>1. PICK class \in Classes : plan' = FailedWith(p, t, class)
    BY <1>1, <1>11 DEF Fails
  <2>2. t \in WithStatus(p, "running")
    BY <1>1, <1>11 DEF Fails
  <2>3. PlanOK(plan')
    BY <1>2, <2>1, <2>2, FailedWithOK
  <2>4. failures' \in 0 .. MaxFailures
    BY <1>11, LimitsAreNat DEF Fails, IndInv, TypeOK
  <2> QED BY <1>11, <1>4, <2>3, <2>4 DEF Fails, IndInv, TypeOK
<1>12. CASE UNCHANGED vars
  BY <1>12, <1>3 DEF vars, IndInv, TypeOK
<1> QED BY <1>6, <1>7, <1>8, <1>9, <1>10, <1>11, <1>12 DEF Next, Execute, AgentEnds

\* A plan changed from p to q by a status, not by an injection, and in order.
SameShape(p, q) ==
  /\ HasCycles(q) <=> HasCycles(p)
  /\ Mentioned(q) = Mentioned(p)
  /\ InOrder(p) => InOrder(q)

\* update_task_status keeps a plan's shape.
LEMMA UpdatedShape ==
  ASSUME NEW p, IsPlan(p), NEW t \in DOMAIN p, NEW s \in Status,
         \/ s = "running" /\ t \in NextTasks(p)
         \/ s \in {"completed", "failed"} /\ t \in WithStatus(p, "running")
  PROVE  SameShape(p, Updated(p, t, s))
<1>1. /\ DOMAIN Updated(p, t, s) = DOMAIN p
      /\ \A u \in DOMAIN p : Updated(p, t, s)[u].deps = p[u].deps
  BY UpdatedOK
<1>2. InOrder(p) => InOrder([p EXCEPT ![t].status = s])
  BY StatusInOrder
<1>3. InOrder([p EXCEPT ![t].status = s]) => InOrder(Updated(p, t, s))
  BY UpdatedOK
<1> QED BY <1>1, <1>2, <1>3, SameDependencies DEF SameShape

\* ... and so does the report of a failure.
LEMMA FailedWithShape ==
  ASSUME NEW p, IsPlan(p), Classified(p), NEW t \in WithStatus(p, "running"),
         NEW class \in Classes
  PROVE  SameShape(p, FailedWith(p, t, class))
<1>1. /\ DOMAIN FailedWith(p, t, class) = DOMAIN p
      /\ \A u \in DOMAIN p : FailedWith(p, t, class)[u].deps = p[u].deps
      /\ InOrder(p) => InOrder(FailedWith(p, t, class))
  BY FailedWithOK
<1> QED BY <1>1, SameDependencies DEF SameShape

\* A step of the node or of an agent either keeps the plan's shape and the
\* attempts' order, or injects fresh recovery tasks.
LEMMA StepGenerated ==
  ASSUME RecoveryIdsAreFresh, IndInv, Generated, node.manual = <<>>, [Next]_vars
  PROVE  Generated' /\ (~ HasCycles(plan) => ~ HasCycles(plan'))
<1>1. PICK p : p = plan
  OBVIOUS
<1>2. PICK q : q = plan'
  OBVIOUS
<1>3. IsPlan(p) /\ Classified(p)
  BY <1>1 DEF IndInv, PlanOK
<1>4. AttemptsCoverIds /\ InOrder(p)
  BY <1>1 DEF Generated
<1>5. ASSUME SameShape(p, q), \A t : Attempts(t)' >= Attempts(t) /\ Attempts(t) \in Nat /\ Attempts(t)' \in Nat
      PROVE  Generated' /\ (~ HasCycles(plan) => ~ HasCycles(plan'))
  <2>1. AttemptsCoverIds'
    <3> SUFFICES ASSUME NEW t, NEW n \in Nat, RecoveryId(t, n) \in Mentioned(q)
                 PROVE  n <= Attempts(t)'
      BY <1>2 DEF AttemptsCoverIds
    <3>1. n <= Attempts(t)
      BY <1>1, <1>4, <1>5 DEF SameShape, AttemptsCoverIds
    <3> QED BY <3>1, <1>5
  <2> QED BY <2>1, <1>1, <1>2, <1>4, <1>5 DEF Generated, SameShape
<1>6. ASSUME UNCHANGED attempts
      PROVE  \A t : Attempts(t)' >= Attempts(t) /\ Attempts(t) \in Nat /\ Attempts(t)' \in Nat
  BY <1>6 DEF IndInv, TypeOK, Attempts
<1>7. SameShape(p, p)
  BY DEF SameShape
<1>8. CASE Cyclic \/ Idle \/ UNCHANGED vars
  BY <1>1, <1>2, <1>5, <1>6, <1>7, <1>8 DEF Cyclic, Idle, vars
<1>9. CASE Dispatch
  <2>1. PICK t \in Prioritized(plan, NextTasks(plan)) : plan' = Updated(plan, t, "running")
    BY <1>9 DEF Dispatch
  <2>2. t \in NextTasks(p) /\ t \in DOMAIN p
    BY <1>1, <2>1 DEF Prioritized, NextTasks, WithStatus
  <2>3. "running" \in Status
    BY DEF Status
  <2>4. SameShape(p, Updated(p, t, "running"))
    BY <1>3, <2>2, <2>3, UpdatedShape
  <2> QED BY <1>1, <1>2, <1>5, <1>6, <1>9, <2>1, <2>4 DEF Dispatch
<1>10. ASSUME NEW t \in DOMAIN plan, Succeeds(t)
       PROVE  Generated' /\ (~ HasCycles(plan) => ~ HasCycles(plan'))
  <2>1. t \in WithStatus(p, "running") /\ t \in DOMAIN p /\ q = Updated(p, t, "completed")
    BY <1>1, <1>2, <1>10 DEF Succeeds
  <2>2. "completed" \in Status
    BY DEF Status
  <2>3. SameShape(p, Updated(p, t, "completed"))
    BY <1>3, <2>1, <2>2, UpdatedShape
  <2> QED BY <1>5, <1>6, <1>10, <2>1, <2>3 DEF Succeeds
<1>11. ASSUME NEW t \in DOMAIN plan, Fails(t)
       PROVE  Generated' /\ (~ HasCycles(plan) => ~ HasCycles(plan'))
  <2>1. PICK class \in Classes : plan' = FailedWith(plan, t, class)
    BY <1>11 DEF Fails
  <2>2. t \in WithStatus(p, "running")
    BY <1>1, <1>11 DEF Fails
  <2>3. SameShape(p, FailedWith(p, t, class))
    BY <1>3, <2>2, FailedWithShape
  <2> QED BY <1>1, <1>2, <1>5, <1>6, <1>11, <2>1, <2>3 DEF Fails
<1>12. CASE Replan
  <2>1. /\ \A t : Attempts(t)' >= Attempts(t) /\ Attempts(t) \in Nat /\ Attempts(t)' \in Nat
        /\ node.selfHealing => \A t \in Recoverable : Attempts(t)' = Attempts(t) + 1
    BY <1>12, Counting DEF Replan
  <2>2. CASE UNCHANGED plan
    BY <1>1, <1>2, <1>5, <1>7, <2>1, <2>2
  <2>3. CASE Recoverable = Failed /\ plan' = Injected(plan, Failed, [t \in Failed |-> RecoveryFor(t)])
    <3>1. node.selfHealing
      <4> SUFFICES ASSUME ~ node.selfHealing PROVE FALSE
        OBVIOUS
      <4>1. Recoverable = {}
        BY DEF Recoverable
      <4> QED BY <4>1, <2>3, <1>12 DEF Replan
    <3>2. PICK rec : rec = [t \in Failed |-> RecoveryFor(t)]
      OBVIOUS
    <3> DEFINE F == WithStatus(p, "failed")
    <3>3. F = Failed
      BY <1>1 DEF Failed
    <3>4. q = Injected(p, F, rec)
      BY <1>1, <1>2, <2>3, <3>2, <3>3
    <3>5. \A f \in F : rec[f] = RecoveryId(f, Attempts(f) + 1)
      BY <3>2, <3>3 DEF RecoveryFor
    <3>6. \A f \in F : Attempts(f)' = Attempts(f) + 1
      BY <2>1, <2>3, <3>1, <3>3
    <3>7. \A f \in F : rec[f] \notin Mentioned(p)
      <4> SUFFICES ASSUME NEW f \in F, rec[f] \in Mentioned(p) PROVE FALSE
        OBVIOUS
      <4>1. Attempts(f) \in Nat /\ Attempts(f) + 1 \in Nat
        BY <2>1
      <4>2. RecoveryId(f, Attempts(f) + 1) \in Mentioned(plan)
        BY <1>1, <3>5
      <4>3. Attempts(f) + 1 <= Attempts(f)
        BY <1>4, <4>1, <4>2 DEF AttemptsCoverIds
      <4> QED BY <4>1, <4>3
    <3>8. \A f, g \in F : rec[f] = rec[g] => f = g
      <4> SUFFICES ASSUME NEW f \in F, NEW g \in F, rec[f] = rec[g] PROVE f = g
        OBVIOUS
      <4>1. Attempts(f) + 1 \in Nat /\ Attempts(g) + 1 \in Nat
        BY <2>1
      <4> QED BY <3>5, <4>1 DEF RecoveryIdsAreFresh
    <3>9. /\ InOrder(p) => InOrder(Injected(p, F, rec))
          /\ ~ HasCycles(p) => ~ HasCycles(Injected(p, F, rec))
          /\ Mentioned(Injected(p, F, rec)) \subseteq Mentioned(p) \cup {rec[f] : f \in F}
      BY <1>3, <3>7, <3>8, InjectedFresh
    <3> HIDE DEF F
    <3>10. AttemptsCoverIds'
      <4> SUFFICES ASSUME NEW t, NEW n \in Nat, RecoveryId(t, n) \in Mentioned(q)
                   PROVE  n <= Attempts(t)'
        BY <1>2 DEF AttemptsCoverIds
      <4>1. CASE RecoveryId(t, n) \in Mentioned(p)
        <5>1. n <= Attempts(t)
          BY <1>1, <1>4, <4>1 DEF AttemptsCoverIds
        <5> QED BY <2>1, <5>1
      <4>2. CASE \E f \in F : RecoveryId(t, n) = rec[f]
        <5>1. PICK f \in F : RecoveryId(t, n) = RecoveryId(f, Attempts(f) + 1)
          BY <4>2, <3>5
        <5>2. Attempts(f) + 1 \in Nat
          BY <2>1
        <5>3. t = f /\ n = Attempts(f) + 1
          BY <5>1, <5>2 DEF RecoveryIdsAreFresh
        <5>4. n = Attempts(f)'
          BY <3>6, <5>3
        <5>5. Attempts(f)' = Attempts(t)'
          BY <5>3
        <5> QED BY <5>4, <5>5, <2>1
      <4> QED BY <3>4, <3>9, <4>1, <4>2
    <3> QED BY <1>1, <1>2, <1>4, <3>4, <3>9, <3>10 DEF Generated
  <2> QED BY <1>12, <2>2, <2>3 DEF Replan
<1> QED BY <1>8, <1>9, <1>10, <1>11, <1>12 DEF Next, Execute, AgentEnds

\* Every step keeps the second part of the invariant.
LEMMA GeneratedHolds ==
  ASSUME RecoveryIdsAreFresh
  PROVE  IndInv /\ Generated /\ [Next]_vars => Generated'
<1>1. CASE node.manual = <<>>
  BY <1>1, StepGenerated
<1>2. CASE node.manual # <<>>
  <2> SUFFICES ASSUME [Next]_vars PROVE Generated'
    OBVIOUS
  <2>1. UNCHANGED node
    BY DEF Next, vars, Execute, Cyclic, Idle, Dispatch, Replan, Leaves, AgentEnds, Succeeds, Fails
  <2> QED BY <1>2, <2>1 DEF Generated
<1> QED BY <1>1, <1>2

-----------------------------------------------------------------------------
\* Plans, attempts and routes stay well formed (SchedulerNode::execute and the
\* agents' update_task_status).
THEOREM TypeCorrect == Spec => []TypeOK
<1>1. IndInv => TypeOK
  BY DEF IndInv
<1> QED BY InitHolds, StepHolds, <1>1, PTL DEF Spec

\* Whatever fails and is recovered, the tasks propagate_blocked_status leaves
\* blocked are exactly those with a failed or blocked dependency.
THEOREM BlockingIsExact == Spec => []BlockedIsExact
<1>1. IndInv => BlockedIsExact
  BY DEF IndInv, PlanOK, Exact, BlockedIsExact
<1> QED BY InitHolds, StepHolds, <1>1, PTL DEF Spec

\* SchedulerNode never counts more attempts for a task than the largest policy
\* allows, although a task may fail with a different class each time.
THEOREM AttemptsBounded == Spec => []AttemptsAreBounded
<1>1. IndInv => AttemptsAreBounded
  BY DEF IndInv
<1> QED BY InitHolds, StepHolds, <1>1, PTL DEF Spec

\* Without registered recovery tasks and with ids of its own for the generated
\* ones, no injection makes the plan cyclic.
THEOREM NeverCyclic == ASSUME RecoveryIdsAreFresh PROVE Spec => StaysAcyclic
<1>1. IndInv /\ Generated /\ [Next]_vars
        => [node.manual = <<>> /\ ~ HasCycles(plan) => ~ HasCycles(plan')]_vars
  BY StepGenerated
<1> QED BY InitHolds, InitGenerated, StepHolds, GeneratedHolds, <1>1, PTL DEF Spec, StaysAcyclic

\* Without registered recovery tasks, no task runs or has run ahead of what it
\* depends on, through any rewriting of the plan.
THEOREM OrderIsKept ==
  ASSUME RecoveryIdsAreFresh PROVE Spec => [](node.manual = <<>> => DependenciesFirst)
<1>1. Generated => (node.manual = <<>> => DependenciesFirst)
  BY DEF Generated, InOrder, DependenciesFirst
<1> QED BY InitHolds, InitGenerated, StepHolds, GeneratedHolds, <1>1, PTL DEF Spec

-----------------------------------------------------------------------------
\* Induction over the natural numbers, for a set: were some m missing, counting
\* down from it would map its missing predecessors into one place fewer.
LEMMA Induction ==
  ASSUME NEW S, 0 \in S, \A n \in Nat : n \in S => n + 1 \in S
  PROVE  Nat \subseteq S
<1> SUFFICES ASSUME NEW m \in Nat, m \notin S PROVE FALSE
  OBVIOUS
<1> DEFINE A == {n \in 0 .. m : n \notin S}
           B == A \ {m}
           f == [n \in A |-> n - 1]
<1>1. ASSUME NEW n \in A PROVE n # 0 /\ n - 1 \in B
  OBVIOUS
<1>2. f \in [A -> B]
  BY <1>1
<1>3. IsFiniteSet(A) /\ m \in A
  <2>1. IsFiniteSet(0 .. m)
    BY FS_Interval
  <2> QED
    BY <2>1, FS_Subset
<1>4. IsFiniteSet(B) /\ Cardinality(B) < Cardinality(A)
  <2>1. Cardinality(A) \in Nat
    BY <1>3, FS_CardinalityType
  <2> QED
    BY <2>1, <1>3, FS_RemoveElement
<1>5. \E x, y \in A : x # y /\ f[x] = f[y]
  <2> HIDE DEF A, B, f
  <2> QED
    BY <1>2, <1>3, <1>4, FS_PigeonHole
<1> QED
  BY <1>5


\* Induction over a finite set, for a set of its subsets.
LEMMA FiniteInduction ==
  ASSUME NEW S, IsFiniteSet(S), NEW F, {} \in F,
         \A T \in SUBSET S : \A x \in S : T \in F /\ x \notin T => T \cup {x} \in F
  PROVE  S \in F
<1> DEFINE P == {n \in Nat : \A T \in SUBSET S : Cardinality(T) = n => T \in F}
<1>1. 0 \in P
  <2> SUFFICES ASSUME NEW T \in SUBSET S, Cardinality(T) = 0 PROVE T \in F
    OBVIOUS
  <2>1. IsFiniteSet(T)
    BY FS_Subset
  <2> QED
    BY <2>1, FS_EmptySet
<1>2. ASSUME NEW n \in Nat, n \in P PROVE n + 1 \in P
  <2> SUFFICES ASSUME NEW T \in SUBSET S, Cardinality(T) = n + 1 PROVE T \in F
    OBVIOUS
  <2>1. IsFiniteSet(T) /\ T # {}
    BY FS_Subset, FS_EmptySet
  <2>2. PICK x \in T : TRUE
    BY <2>1
  <2>3. Cardinality(T \ {x}) = n /\ T \ {x} \in SUBSET S
    <3>1. Cardinality(T \ {x}) = IF x \in T THEN Cardinality(T) - 1 ELSE Cardinality(T)
      BY <2>1, FS_RemoveElement
    <3> QED
      BY <2>2, <3>1
  <2>4. T \ {x} \in F
    BY <1>2, <2>3
  <2>5. (T \ {x}) \cup {x} \in F
    BY <2>2, <2>3, <2>4
  <2>6. (T \ {x}) \cup {x} = T
    BY <2>2
  <2> QED
    BY <2>5, <2>6
<1> HIDE DEF P
<1>3. Cardinality(S) \in P
  BY <1>1, <1>2, Induction, FS_CardinalityType
<1> QED
  BY <1>3 DEF P
-----------------------------------------------------------------------------
\* Diffs of graphs.  First how many elements some sets have together.

Pairs(f) == UNION {{x} \X f[x] : x \in DOMAIN f}

\* The elements of all the sets, each with the index of its set.
LEMMA PairsIs ==
  ASSUME NEW f
  PROVE  /\ Together(f) = Cardinality(Pairs(f))
         /\ \A p : p \in Pairs(f) <=> \E x \in DOMAIN f : \E y \in f[x] : p = <<x, y>>
<1>1. Together(f) = Cardinality(Pairs(f))
  BY DEF Together, Pairs
<1>2. ASSUME NEW p PROVE p \in Pairs(f) <=> \E x \in DOMAIN f : \E y \in f[x] : p = <<x, y>>
  BY DEF Pairs
<1> QED
  BY <1>1, <1>2

\* One more set adds its elements.
LEMMA OneMore ==
  ASSUME NEW T, NEW x, x \notin T, NEW f,
         IsFiniteSet(f[x]), IsFiniteSet(Pairs([y \in T |-> f[y]]))
  PROVE  LET more == [y \in T \cup {x} |-> f[y]]
             less == [y \in T |-> f[y]]
         IN  IsFiniteSet(Pairs(more)) /\ Together(more) = Together(less) + Cardinality(f[x])
<1> DEFINE more == [y \in T \cup {x} |-> f[y]]
           less == [y \in T |-> f[y]]
           new  == {x} \X f[x]
<1>1. Pairs(more) = Pairs(less) \cup new
  <2>1. \A p : p \in new <=> \E y \in f[x] : p = <<x, y>>
    OBVIOUS
  <2>2. \A p : p \in Pairs(less) <=> \E z \in T : \E y \in f[z] : p = <<z, y>>
    BY PairsIs
  <2>3. \A p : p \in Pairs(more) <=> \E z \in T \cup {x} : \E y \in f[z] : p = <<z, y>>
    BY PairsIs
  <2> HIDE DEF more, less, new
  <2>4. ASSUME NEW p PROVE p \in Pairs(more) <=> p \in Pairs(less) \cup new
    BY <2>1, <2>2, <2>3
  <2> QED
    BY <2>4
<1>2. IsFiniteSet(new) /\ Cardinality(new) = Cardinality(f[x])
  <2>1. IsFiniteSet({x}) /\ Cardinality({x}) = 1 /\ Cardinality(f[x]) \in Nat
    BY FS_Singleton, FS_CardinalityType
  <2>2. IsFiniteSet(new) /\ Cardinality(new) = Cardinality({x}) * Cardinality(f[x])
    BY <2>1, FS_Product
  <2> QED
    BY <2>1, <2>2
<1>3. Pairs(less) \cap new = {}
  <2> SUFFICES ASSUME NEW p \in Pairs(less), p \in new PROVE FALSE
    OBVIOUS
  <2>1. PICK z \in T : \E y \in f[z] : p = <<z, y>>
    BY PairsIs
  <2>2. p[1] = z /\ p[1] = x
    BY <2>1
  <2> QED
    BY <2>1, <2>2
<1> HIDE DEF new
<1>4. /\ IsFiniteSet(Pairs(less) \cup new)
      /\ Cardinality(Pairs(less) \cup new) = Cardinality(Pairs(less)) + Cardinality(new)
  <2> HIDE DEF less
  <2>1. IsFiniteSet(Pairs(less))
    BY DEF less
  <2>2. /\ IsFiniteSet(Pairs(less) \cup new)
        /\ Cardinality(Pairs(less) \cup new)
             = Cardinality(Pairs(less)) + Cardinality(new) - Cardinality(Pairs(less) \cap new)
    BY <1>2, <2>1, FS_Union
  <2>3. Cardinality(Pairs(less) \cap new) = 0
    BY <1>3, FS_EmptySet
  <2>4. Cardinality(Pairs(less)) \in Nat /\ Cardinality(new) \in Nat
    BY <1>2, <2>1, FS_CardinalityType
  <2> QED
    BY <2>2, <2>3, <2>4
<1> HIDE DEF more, less
<1>5. Together(more) = Cardinality(Pairs(more)) /\ Together(less) = Cardinality(Pairs(less))
  BY PairsIs
<1> QED
  BY <1>1, <1>2, <1>4, <1>5 DEF more, less

\* Finitely many finite sets have finitely many elements together.
LEMMA PairsFinite ==
  ASSUME NEW S, IsFiniteSet(S), NEW f, \A x \in S : IsFiniteSet(f[x])
  PROVE  IsFiniteSet(Pairs([x \in S |-> f[x]]))
<1> DEFINE On(T) == [x \in T |-> f[x]]
           F == {T \in SUBSET S : IsFiniteSet(Pairs(On(T)))}
<1>1. {} \in F
  <2>1. Pairs(On({})) = {}
    BY PairsIs
  <2> HIDE DEF On
  <2> QED
    BY <2>1, FS_EmptySet
<1>2. ASSUME NEW T \in SUBSET S, NEW x \in S, T \in F, x \notin T PROVE T \cup {x} \in F
  <2>1. IsFiniteSet(Pairs(On(T))) /\ IsFiniteSet(f[x])
    BY <1>2
  <2>2. IsFiniteSet(Pairs(On(T \cup {x})))
    BY <1>2, <2>1, OneMore
  <2> HIDE DEF On
  <2> QED
    BY <2>2
<1> HIDE DEF F
<1>3. S \in F
  BY <1>1, <1>2, FiniteInduction
<1> QED
  BY <1>3 DEF F

\* Sums agree if they do element by element.
SumOver(S, f) == Together([x \in S |-> f[x]])
Balanced(S, f, g, h, j) ==
  \A x \in S : /\ IsFiniteSet(f[x]) /\ IsFiniteSet(g[x]) /\ IsFiniteSet(h[x]) /\ IsFiniteSet(j[x])
               /\ Cardinality(f[x]) + Cardinality(g[x]) = Cardinality(h[x]) + Cardinality(j[x])

LEMMA SumsAgree ==
  ASSUME NEW S, IsFiniteSet(S), NEW f, NEW g, NEW h, NEW j, Balanced(S, f, g, h, j)
  PROVE  SumOver(S, f) \in Nat /\ SumOver(S, f) + SumOver(S, g) = SumOver(S, h) + SumOver(S, j)
<1> DEFINE On(e, T) == [x \in T |-> e[x]]
           Agree(T) == /\ IsFiniteSet(Pairs(On(f, T))) /\ IsFiniteSet(Pairs(On(g, T)))
                       /\ IsFiniteSet(Pairs(On(h, T))) /\ IsFiniteSet(Pairs(On(j, T)))
                       /\ Together(On(f, T)) + Together(On(g, T)) = Together(On(h, T)) + Together(On(j, T))
           F == {T \in SUBSET S : Agree(T)}
<1>1. {} \in F
  <2>1. \A e : Pairs(On(e, {})) = {}
    BY PairsIs
  <2>2. \A e : IsFiniteSet(Pairs(On(e, {}))) /\ Together(On(e, {})) = 0
    <3> HIDE DEF On
    <3> QED
      BY <2>1, PairsIs, FS_EmptySet
  <2> HIDE DEF On
  <2> QED
    BY <2>2
<1>2. ASSUME NEW T \in SUBSET S, NEW x \in S, T \in F, x \notin T PROVE T \cup {x} \in F
  <2>1. Agree(T)
    BY <1>2
  <2>2. \A e \in {f, g, h, j} : IsFiniteSet(e[x]) /\ Cardinality(e[x]) \in Nat
    BY FS_CardinalityType DEF Balanced
  <2>3. ASSUME NEW e \in {f, g, h, j}
        PROVE  /\ IsFiniteSet(Pairs(On(e, T \cup {x})))
               /\ Together(On(e, T \cup {x})) = Together(On(e, T)) + Cardinality(e[x])
               /\ Together(On(e, T)) \in Nat
    <3>1. IsFiniteSet(Pairs(On(e, T)))
      BY <2>1
    <3>2. Together(On(e, T)) \in Nat
      <4> HIDE DEF On
      <4> QED
        BY <3>1, PairsIs, FS_CardinalityType
    <3>3. IsFiniteSet(e[x])
      BY <2>2
    <3>4. /\ IsFiniteSet(Pairs(On(e, T \cup {x})))
          /\ Together(On(e, T \cup {x})) = Together(On(e, T)) + Cardinality(e[x])
      BY <1>2, <3>1, <3>3, OneMore
    <3> HIDE DEF On
    <3> QED
      BY <3>2, <3>4
  <2>4. Cardinality(f[x]) + Cardinality(g[x]) = Cardinality(h[x]) + Cardinality(j[x])
    BY DEF Balanced
  <2> HIDE DEF On
  <2>5. Agree(T \cup {x})
    BY <2>1, <2>2, <2>3, <2>4
  <2> HIDE DEF Agree
  <2> QED
    BY <2>5
<1>3. S \in F
  <2> HIDE DEF F
  <2> QED
    BY <1>1, <1>2, FiniteInduction
<1>4. Together(On(f, S)) \in Nat
  <2> HIDE DEF On
  <2>1. IsFiniteSet(Pairs(On(f, S)))
    BY <1>3
  <2> QED
    BY <2>1, PairsIs, FS_CardinalityType
<1> QED
  BY <1>3, <1>4 DEF SumOver

\* Sets that are empty make no difference.
LEMMA EmptyOnes ==
  ASSUME NEW S, NEW T, T \subseteq S, NEW f, NEW g,
         \A x \in T : f[x] = g[x], \A x \in S : x \notin T => g[x] = {}
  PROVE  Together([x \in T |-> f[x]]) = Together([x \in S |-> g[x]])
<1> DEFINE a == [x \in T |-> f[x]]
           b == [x \in S |-> g[x]]
<1>1. \A p : p \in Pairs(a) <=> \E x \in T : \E y \in f[x] : p = <<x, y>>
  BY PairsIs
<1>2. \A p : p \in Pairs(b) <=> \E x \in S : \E y \in g[x] : p = <<x, y>>
  BY PairsIs
<1> HIDE DEF a, b
<1>3. ASSUME NEW p PROVE p \in Pairs(a) <=> p \in Pairs(b)
  BY <1>1, <1>2
<1>4. Pairs(a) = Pairs(b)
  BY <1>3
<1> QED
  BY <1>4, PairsIs DEF a, b

\* A set is as large as the parts it is split into.
LEMMA Parts ==
  ASSUME NEW P, IsFiniteSet(P), NEW h
  PROVE  Together([x \in {h[i] : i \in P} |-> {i \in P : h[i] = x}]) = Cardinality(P)
<1> DEFINE f == [x \in {h[i] : i \in P} |-> {i \in P : h[i] = x}]
           at == [i \in P |-> <<h[i], i>>]
<1>1. \A p : p \in Pairs(f) <=> \E i \in P : p = <<h[i], i>>
  <2>1. \A p : p \in Pairs(f) <=> \E x \in DOMAIN f : \E y \in f[x] : p = <<x, y>>
    BY PairsIs
  <2> QED
    BY <2>1
<1>2. at \in Bijection(P, Pairs(f))
  <2> HIDE DEF f
  <2>1. at \in [P -> Pairs(f)]
    BY <1>1
  <2>2. \A i, k \in P : at[i] = at[k] => i = k
    OBVIOUS
  <2>3. \A p \in Pairs(f) : \E i \in P : at[i] = p
    BY <1>1
  <2> HIDE DEF at
  <2> QED
    BY <2>1, <2>2, <2>3 DEF Bijection, Injection, Surjection, IsInjective
<1> HIDE DEF f, at
<1>3. ExistsBijection(P, Pairs(f))
  BY <1>2 DEF ExistsBijection
<1> QED
  BY <1>3, FS_Bijection, PairsIs DEF f

-----------------------------------------------------------------------------
\* Bags.

IsBag(b) ==
  /\ b = [x \in DOMAIN b |-> b[x]] /\ IsFiniteSet(DOMAIN b)
  /\ \A x \in DOMAIN b : b[x] \in Nat /\ b[x] > 0

\* A bag has of each what it has, at least one of what is in it.
LEMMA BagTimes ==
  ASSUME NEW b, IsBag(b)
  PROVE  \A x : Times(b, x) \in Nat /\ (Times(b, x) > 0 <=> x \in DOMAIN b)
BY DEF IsBag, Times

\* A bag is told by how often it has what.
LEMMA BagsEqual ==
  ASSUME NEW b, NEW c, IsBag(b), IsBag(c), \A x : Times(b, x) = Times(c, x)
  PROVE  b = c
<1>1. DOMAIN b = DOMAIN c
  <2>1. \A x : x \in DOMAIN b <=> x \in DOMAIN c
    BY BagTimes
  <2> QED
    BY <2>1
<1>2. \A x \in DOMAIN b : b[x] = c[x]
  BY <1>1 DEF Times
<1> QED
  BY <1>1, <1>2 DEF IsBag

\* Taking one bag out of another, and putting one into another.
LEMMA BagMinus ==
  ASSUME NEW b, NEW c, IsBag(b), IsBag(c)
  PROVE  /\ IsBag(b (-) c)
         /\ \A x : Times(b (-) c, x)
                     = IF Times(b, x) > Times(c, x) THEN Times(b, x) - Times(c, x) ELSE 0
<1> DEFINE d == b (-) c
           D == {x \in DOMAIN b : Times(b, x) - Times(c, x) > 0}
<1>1. d = [x \in D |-> Times(b, x) - Times(c, x)]
  <2>1. \A x \in DOMAIN b : (IF x \in DOMAIN c THEN b[x] - c[x] ELSE b[x]) = Times(b, x) - Times(c, x)
    BY DEF Times, IsBag
  <2> QED
    BY <2>1 DEF (-)
<1>2. IsFiniteSet(D)
  <2>1. D \in SUBSET DOMAIN b
    OBVIOUS
  <2> HIDE DEF D
  <2> QED
    BY <2>1, FS_Subset DEF IsBag
<1>3. \A x : Times(b, x) \in Nat /\ Times(c, x) \in Nat /\ (Times(b, x) > 0 <=> x \in DOMAIN b)
  BY BagTimes
<1> HIDE DEF d
<1>4. DOMAIN d = D /\ \A x \in D : d[x] = Times(b, x) - Times(c, x) /\ d[x] \in Nat /\ d[x] > 0
  BY <1>1, <1>3
<1>5. \A x : x \in D <=> Times(b, x) > Times(c, x)
  BY <1>3
<1> HIDE DEF D
<1>6. IsBag(d)
  BY <1>1, <1>2, <1>4 DEF IsBag
<1>7. \A x : Times(d, x) = IF Times(b, x) > Times(c, x) THEN Times(b, x) - Times(c, x) ELSE 0
  <2> TAKE x
  <2>1. Times(d, x) = IF x \in D THEN d[x] ELSE 0
    BY <1>4 DEF Times
  <2> QED
    BY <1>4, <1>5, <2>1
<1> QED
  BY <1>6, <1>7 DEF d

LEMMA BagPlus ==
  ASSUME NEW b, NEW c, IsBag(b), IsBag(c)
  PROVE  /\ IsBag(b (+) c)
         /\ \A x : Times(b (+) c, x) = Times(b, x) + Times(c, x)
<1> DEFINE d == b (+) c
           D == (DOMAIN b) \cup (DOMAIN c)
<1>1. d = [x \in D |-> Times(b, x) + Times(c, x)]
  BY DEF (+), Times
<1>2. IsFiniteSet(D)
  BY FS_Union DEF IsBag
<1>3. \A x : /\ Times(b, x) \in Nat /\ (Times(b, x) > 0 <=> x \in DOMAIN b)
             /\ Times(c, x) \in Nat /\ (Times(c, x) > 0 <=> x \in DOMAIN c)
  BY BagTimes
<1> HIDE DEF d
<1>4. DOMAIN d = D /\ \A x \in D : d[x] = Times(b, x) + Times(c, x) /\ d[x] \in Nat /\ d[x] > 0
  BY <1>1, <1>3
<1>5. IsBag(d)
  <2> HIDE DEF D
  <2> QED
    BY <1>1, <1>2, <1>4 DEF IsBag
<1>6. \A x : Times(d, x) = Times(b, x) + Times(c, x)
  <2> TAKE x
  <2>1. Times(d, x) = IF x \in D THEN d[x] ELSE 0
    BY <1>4 DEF Times
  <2>2. x \notin D => Times(b, x) = 0 /\ Times(c, x) = 0
    BY <1>3
  <2> QED
    BY <1>4, <2>1, <2>2
<1> QED
  BY <1>5, <1>6 DEF d

\* A set as a bag has each of its elements once.
LEMMA BagOfSet ==
  ASSUME NEW S, IsFiniteSet(S)
  PROVE  IsBag(SetToBag(S)) /\ \A x : Times(SetToBag(S), x) = IF x \in S THEN 1 ELSE 0
BY DEF SetToBag, IsBag, Times

\* A bag with no more of anything is part of the other.
LEMMA BagsWithin ==
  ASSUME NEW b, NEW c, IsBag(b), IsBag(c), \A x : Times(b, x) <= Times(c, x)
  PROVE  b \sqsubseteq c
<1>1. ASSUME NEW x \in DOMAIN b PROVE x \in DOMAIN c /\ b[x] <= c[x]
  <2>1. Times(b, x) > 0 /\ Times(b, x) \in Nat /\ Times(c, x) \in Nat /\ Times(b, x) <= Times(c, x)
    BY BagTimes
  <2>2. x \in DOMAIN c
    BY <2>1, BagTimes
  <2> QED
    BY <2>1, <2>2 DEF Times
<1> QED
  BY <1>1 DEF \sqsubseteq

\* The numbers from 1 to n are n.
LEMMA UpTo == \A n \in Nat : IsFiniteSet(1 .. n) /\ Cardinality(1 .. n) = n
<1> SUFFICES ASSUME NEW n \in Nat PROVE IsFiniteSet(1 .. n) /\ Cardinality(1 .. n) = n
  OBVIOUS
<1>1. IsFiniteSet(1 .. n) /\ Cardinality(1 .. n) = IF 1 > n THEN 0 ELSE n - 1 + 1
  <2>1. 1 \in Int /\ n \in Int
    OBVIOUS
  <2> QED
    BY <2>1, FS_Interval
<1> QED
  BY <1>1

\* The size of a bag is a sum over any set it lies in.
LEMMA SizeOver ==
  ASSUME NEW b, IsBag(b), NEW S, IsFiniteSet(S), DOMAIN b \subseteq S
  PROVE  Size(b) \in Nat /\ Size(b) = Together([x \in S |-> 1 .. Times(b, x)])
<1> DEFINE f == [x \in DOMAIN b |-> 1 .. b[x]]
           g == [x \in S |-> 1 .. Times(b, x)]
           none == [x \in S |-> {}]
<1>1. \A x \in DOMAIN b : f[x] = g[x]
  BY DEF Times
<1>2. \A x \in S : x \notin DOMAIN b => g[x] = {}
  BY DEF Times
<1>3. f = [x \in DOMAIN b |-> f[x]] /\ g = [x \in S |-> g[x]]
  OBVIOUS
<1>4. Size(b) = Together(f)
  BY DEF Size
<1>5. \A x \in S : IsFiniteSet(g[x])
  BY BagTimes, UpTo
<1> HIDE DEF f, g
<1>6. Together([x \in DOMAIN b |-> f[x]]) = Together([x \in S |-> g[x]])
  BY <1>1, <1>2, EmptyOnes
<1>7. SumOver(S, g) \in Nat
  <2>1. Balanced(S, g, g, g, g)
    BY <1>5 DEF Balanced
  <2> QED
    BY <2>1, SumsAgree
<1> QED
  BY <1>3, <1>4, <1>6, <1>7 DEF g, SumOver

\* What one bag has more than another is as much more as the bag is larger.
LEMMA SizesAgree ==
  ASSUME NEW b, NEW c, IsBag(b), IsBag(c)
  PROVE  Size(c (-) b) + Size(b) = Size(b (-) c) + Size(c)
<1> DEFINE S == (DOMAIN b) \cup (DOMAIN c)
           f == [x \in S |-> 1 .. Times(c (-) b, x)]
           g == [x \in S |-> 1 .. Times(b, x)]
           h == [x \in S |-> 1 .. Times(b (-) c, x)]
           j == [x \in S |-> 1 .. Times(c, x)]
<1>1. IsFiniteSet(S)
  BY FS_Union DEF IsBag
<1>2. /\ IsBag(c (-) b) /\ IsBag(b (-) c)
      /\ \A x : /\ Times(b, x) \in Nat /\ Times(c, x) \in Nat
                /\ Times(c (-) b, x) = IF Times(c, x) > Times(b, x) THEN Times(c, x) - Times(b, x) ELSE 0
                /\ Times(b (-) c, x) = IF Times(b, x) > Times(c, x) THEN Times(b, x) - Times(c, x) ELSE 0
  BY BagMinus, BagTimes
<1>3. DOMAIN (c (-) b) \subseteq S /\ DOMAIN (b (-) c) \subseteq S
  <2>1. \A x : x \in DOMAIN (c (-) b) => Times(c, x) > 0
    BY <1>2, BagTimes
  <2>2. \A x : x \in DOMAIN (b (-) c) => Times(b, x) > 0
    BY <1>2, BagTimes
  <2> QED
    BY <2>1, <2>2, BagTimes
<1>4. ASSUME NEW x \in S
      PROVE  /\ IsFiniteSet(f[x]) /\ IsFiniteSet(g[x]) /\ IsFiniteSet(h[x]) /\ IsFiniteSet(j[x])
             /\ Cardinality(f[x]) + Cardinality(g[x]) = Cardinality(h[x]) + Cardinality(j[x])
  <2>1. /\ f[x] = 1 .. Times(c (-) b, x) /\ g[x] = 1 .. Times(b, x)
        /\ h[x] = 1 .. Times(b (-) c, x) /\ j[x] = 1 .. Times(c, x)
    OBVIOUS
  <2>2. /\ Times(c (-) b, x) \in Nat /\ Times(b (-) c, x) \in Nat
        /\ Times(b, x) \in Nat /\ Times(c, x) \in Nat
        /\ Times(c (-) b, x) + Times(b, x) = Times(b (-) c, x) + Times(c, x)
    BY <1>2
  <2> HIDE DEF f, g, h, j, S
  <2> QED
    BY <2>1, <2>2, UpTo
<1>5. f = [x \in S |-> f[x]] /\ g = [x \in S |-> g[x]] /\ h = [x \in S |-> h[x]] /\ j = [x \in S |-> j[x]]
  OBVIOUS
<1>6. Size(c (-) b) = Together(f) /\ Size(b) = Together(g) /\ Size(b (-) c) = Together(h) /\ Size(c) = Together(j)
  <2>1. DOMAIN b \subseteq S /\ DOMAIN c \subseteq S
    OBVIOUS
  <2> HIDE DEF S
  <2> QED
    BY <1>1, <1>2, <1>3, <2>1, SizeOver
<1> HIDE DEF f, g, h, j, S
<1>7. SumOver(S, f) + SumOver(S, g) = SumOver(S, h) + SumOver(S, j)
  <2>1. Balanced(S, f, g, h, j)
    BY <1>4 DEF Balanced
  <2> QED
    BY <1>1, <2>1, SumsAgree
<1> QED
  BY <1>5, <1>6, <1>7 DEF SumOver

\* A bag of one has one element, once.
LEMMA SizeOne ==
  ASSUME NEW b, IsBag(b), Size(b) = 1
  PROVE  \E x : DOMAIN b = {x} /\ b[x] = 1
<1> DEFINE f == [x \in DOMAIN b |-> 1 .. b[x]]
<1>1. \A p : p \in Pairs(f) <=> \E x \in DOMAIN b : \E n \in 1 .. b[x] : p = <<x, n>>
  <2>1. \A p : p \in Pairs(f) <=> \E x \in DOMAIN f : \E n \in f[x] : p = <<x, n>>
    BY PairsIs
  <2>2. DOMAIN f = DOMAIN b /\ \A x \in DOMAIN b : f[x] = 1 .. b[x]
    OBVIOUS
  <2> HIDE DEF f
  <2> QED
    BY <2>1, <2>2
<1>2. Cardinality(Pairs(f)) = 1
  BY PairsIs DEF Size
<1>3. IsFiniteSet(Pairs(f))
  <2>1. f = [x \in DOMAIN b |-> f[x]]
    OBVIOUS
  <2>2. \A x \in DOMAIN b : IsFiniteSet(f[x])
    BY UpTo DEF IsBag
  <2> HIDE DEF f
  <2> QED
    BY <2>1, <2>2, PairsFinite DEF IsBag
<1> HIDE DEF f
<1>4. PICK p : Pairs(f) = {p}
  BY <1>2, <1>3, FS_Singleton
<1>5. PICK x \in DOMAIN b : \E n \in 1 .. b[x] : p = <<x, n>>
  BY <1>1, <1>4
<1>6. \A y \in DOMAIN b : \A n \in 1 .. b[y] : <<y, n>> = p
  BY <1>1, <1>4
<1>7. ASSUME NEW y \in DOMAIN b PROVE y = x /\ b[y] = 1
  <2>1. b[y] \in Nat /\ b[y] > 0
    BY DEF IsBag
  <2>2. <<y, 1>> = p /\ <<y, b[y]>> = p
    BY <1>6, <2>1
  <2>3. p[1] = x /\ p[1] = y /\ p[2] = 1 /\ p[2] = b[y]
    BY <1>5, <2>2
  <2> QED
    BY <2>3
<1> QED
  BY <1>7


\* Sums of sets of the same sizes are the same.
LEMMA SumsSame ==
  ASSUME NEW S, IsFiniteSet(S), NEW f, NEW g,
         \A x \in S : IsFiniteSet(f[x]) /\ IsFiniteSet(g[x]) /\ Cardinality(f[x]) = Cardinality(g[x])
  PROVE  SumOver(S, f) = SumOver(S, g)
<1> DEFINE none == [x \in S |-> {}]
<1>1. \A x \in S : IsFiniteSet(none[x]) /\ Cardinality(none[x]) = 0
  BY FS_EmptySet
<1> HIDE DEF none
<1>2. Balanced(S, f, none, g, none) /\ Balanced(S, g, none, f, none) /\ Balanced(S, none, f, g, none)
  <2>1. \A x \in S : Cardinality(f[x]) \in Nat /\ Cardinality(g[x]) \in Nat
    BY FS_CardinalityType
  <2> QED
    BY <1>1, <2>1 DEF Balanced
<1>3. /\ SumOver(S, f) \in Nat /\ SumOver(S, f) + SumOver(S, none) = SumOver(S, g) + SumOver(S, none)
      /\ SumOver(S, g) \in Nat /\ SumOver(S, none) \in Nat
  BY <1>2, SumsAgree
<1> QED
  BY <1>3

\* The image of a finite set is finite.
LEMMA ImageFinite ==
  ASSUME NEW S, IsFiniteSet(S), NEW h
  PROVE  IsFiniteSet({h[i] : i \in S})
<1> DEFINE T == {h[i] : i \in S}
           f == [i \in S |-> h[i]]
<1>1. f \in Surjection(S, T)
  BY DEF Surjection
<1> HIDE DEF T, f
<1> QED
  BY <1>1, FS_Surjection DEF ExistsSurjection, T

\* A sum over one index.
LEMMA One ==
  ASSUME NEW x, NEW f, IsFiniteSet(f[x])
  PROVE  SumOver({x}, f) = Cardinality(f[x])
<1> DEFINE less == [y \in {} |-> f[y]]
           more == [y \in {} \cup {x} |-> f[y]]
<1>1. Pairs(less) = {}
  BY PairsIs
<1>2. IsFiniteSet(Pairs(less)) /\ Together(less) = 0
  <2> HIDE DEF less
  <2> QED
    BY <1>1, PairsIs, FS_EmptySet
<1>3. x \notin {}
  OBVIOUS
<1>4. Together(more) = Together(less) + Cardinality(f[x])
  BY <1>2, <1>3, OneMore
<1>5. more = [y \in {x} |-> f[y]]
  OBVIOUS
<1>6. Cardinality(f[x]) \in Nat
  BY FS_CardinalityType
<1> HIDE DEF less, more
<1> QED
  BY <1>2, <1>4, <1>5, <1>6 DEF SumOver

\* The key a shape is compared under.
KeyOf(s) == <<s.from, s.key>>

\* A shape is compared under the key of its edge.
LEMMA KeyOfShape == \A edge : KeyOf(EdgeShape(edge)) = Group(edge)
BY DEF KeyOf, EdgeShape, Group

\* ShapesAt is a bag: of every shape the edges that have it.
LEMMA ShapesAtIs ==
  ASSUME NEW edges, NEW P, IsFiniteSet(P)
  PROVE  /\ IsBag(ShapesAt(edges, P))
         /\ \A s : Times(ShapesAt(edges, P), s) = Cardinality({i \in P : EdgeShape(edges[i]) = s})
         /\ Size(ShapesAt(edges, P)) = Cardinality(P)
<1> DEFINE h == [i \in P |-> EdgeShape(edges[i])]
           D == {h[i] : i \in P}
           At(s) == {i \in P : h[i] = s}
           b == [s \in D |-> Cardinality(At(s))]
<1>1. ShapesAt(edges, P) = b /\ \A s : At(s) = {i \in P : EdgeShape(edges[i]) = s}
  BY DEF ShapesAt
<1>2. IsFiniteSet(D)
  <2> HIDE DEF h
  <2> QED
    BY ImageFinite
<1>3. \A s : IsFiniteSet(At(s)) /\ Cardinality(At(s)) \in Nat
  <2> SUFFICES ASSUME NEW s PROVE IsFiniteSet(At(s)) /\ Cardinality(At(s)) \in Nat
    OBVIOUS
  <2>1. At(s) \in SUBSET P
    OBVIOUS
  <2> HIDE DEF At
  <2> QED
    BY <2>1, FS_Subset, FS_CardinalityType
<1>4. \A s : IF s \in D THEN Cardinality(At(s)) > 0 ELSE Cardinality(At(s)) = 0
  <2> SUFFICES ASSUME NEW s PROVE IF s \in D THEN Cardinality(At(s)) > 0 ELSE Cardinality(At(s)) = 0
    OBVIOUS
  <2>1. s \in D <=> At(s) # {}
    OBVIOUS
  <2> HIDE DEF At, D
  <2> QED
    BY <2>1, <1>3, FS_EmptySet
<1>5. IsBag(b)
  <2> HIDE DEF D, At
  <2> QED
    BY <1>2, <1>3, <1>4 DEF IsBag
<1>6. \A s : Times(b, s) = Cardinality(At(s))
  <2> HIDE DEF D, At
  <2> QED
    BY <1>4 DEF Times
<1>7. Size(b) = Cardinality(P)
  <2> DEFINE f == [s \in D |-> 1 .. Times(b, s)]
             g == [s \in D |-> At(s)]
  <2>1. SumOver(D, g) = Cardinality(P)
    <3>1. Together(g) = Cardinality(P)
      <4> HIDE DEF h
      <4> QED
        BY Parts, Zenon
    <3>2. [s \in D |-> g[s]] = g
      OBVIOUS
    <3> QED
      BY <3>1, <3>2 DEF SumOver
  <2>2. SumOver(D, f) = Size(b)
    <3>1. Size(b) = Together(f)
      <4> HIDE DEF D, At
      <4>1. DOMAIN b \subseteq D
        OBVIOUS
      <4> HIDE DEF b
      <4> QED
        BY <1>2, <1>5, <4>1, SizeOver
    <3>2. [s \in D |-> f[s]] = f
      OBVIOUS
    <3> QED
      BY <3>1, <3>2 DEF SumOver
  <2>3. \A s \in D : IsFiniteSet(f[s]) /\ IsFiniteSet(g[s]) /\ Cardinality(f[s]) = Cardinality(g[s])
    <3> HIDE DEF D, At, b
    <3> QED
      BY <1>3, <1>6, UpTo
  <2> HIDE DEF f, g, D, b
  <2> QED
    BY <1>2, <2>1, <2>2, <2>3, SumsSame
<1> HIDE DEF b, At
<1> QED
  BY <1>1, <1>5, <1>6, <1>7

\* group_by_key: the group of a key is what the shapes of the graph have under it.
LEMMA GroupIs ==
  ASSUME NEW edges, IsFiniteSet(Seen(edges)), NEW k
  PROVE  LET bag == GroupOf(GroupByKey(edges), k)
         IN  /\ IsBag(bag)
             /\ \A s : Times(bag, s) = IF KeyOf(s) = k THEN Times(ShapesAt(edges, Seen(edges)), s) ELSE 0
             /\ Size(bag) = Cardinality({i \in Seen(edges) : Group(edges[i]) = k})
<1> DEFINE P == {i \in Seen(edges) : Group(edges[i]) = k}
<1>1. GroupOf(GroupByKey(edges), k) = ShapesAt(edges, P)
  <2>1. CASE k \in DOMAIN GroupByKey(edges)
    BY <2>1 DEF GroupOf, GroupByKey
  <2>2. CASE k \notin DOMAIN GroupByKey(edges)
    <3>1. P = {}
      BY <2>2 DEF GroupByKey
    <3>2. ShapesAt(edges, {}) = EmptyBag
      BY DEF ShapesAt, EmptyBag, SetToBag
    <3> QED
      BY <2>2, <3>1, <3>2 DEF GroupOf
  <2> QED
    BY <2>1, <2>2
<1>2. IsFiniteSet(P)
  <2>1. P \in SUBSET Seen(edges)
    OBVIOUS
  <2> HIDE DEF P
  <2> QED
    BY <2>1, FS_Subset
<1>3. ASSUME NEW s
      PROVE  Times(ShapesAt(edges, P), s) = IF KeyOf(s) = k THEN Times(ShapesAt(edges, Seen(edges)), s) ELSE 0
  <2>1. /\ Times(ShapesAt(edges, P), s) = Cardinality({i \in P : EdgeShape(edges[i]) = s})
        /\ Times(ShapesAt(edges, Seen(edges)), s)
             = Cardinality({i \in Seen(edges) : EdgeShape(edges[i]) = s})
    <3> HIDE DEF P
    <3> QED
      BY <1>2, ShapesAtIs
  <2>2. CASE KeyOf(s) = k
    <3>1. {i \in P : EdgeShape(edges[i]) = s} = {i \in Seen(edges) : EdgeShape(edges[i]) = s}
      BY <2>2, KeyOfShape
    <3> QED
      BY <2>1, <2>2, <3>1
  <2>3. CASE KeyOf(s) # k
    <3>1. {i \in P : EdgeShape(edges[i]) = s} = {}
      BY <2>3, KeyOfShape
    <3> QED
      BY <2>1, <2>3, <3>1, FS_EmptySet
  <2> QED
    BY <2>2, <2>3
<1>4. IsBag(ShapesAt(edges, P)) /\ Size(ShapesAt(edges, P)) = Cardinality(P)
  <2> HIDE DEF P
  <2> QED
    BY <1>2, ShapesAtIs
<1> QED
  BY <1>1, <1>3, <1>4

\* What the change of one key takes from a bag, and what it puts into it.
OutOf(c) == c.removed (+) SetToBag({p[1] : p \in c.replaced})
Into(c) == c.added (+) SetToBag({p[2] : p \in c.replaced})

\* The empty bag has nothing.
LEMMA EmptyBagIs == IsBag(EmptyBag) /\ (\A s : Times(EmptyBag, s) = 0) /\ Size(EmptyBag) = 0
<1>1. IsBag(EmptyBag) /\ \A s : Times(EmptyBag, s) = 0
  BY BagOfSet, FS_EmptySet DEF EmptyBag
<1>2. Size(EmptyBag) = 0
  <2> DEFINE f == [x \in DOMAIN EmptyBag |-> 1 .. EmptyBag[x]]
  <2>1. DOMAIN EmptyBag = {}
    BY DEF EmptyBag, SetToBag
  <2>2. Pairs(f) = {}
    BY <2>1, PairsIs
  <2> HIDE DEF f
  <2>3. Together(f) = 0
    BY <2>2, PairsIs, FS_EmptySet
  <2> QED
    BY <2>3 DEF f, Size
<1> QED
  BY <1>1, <1>2

\* The arithmetic of one shape: what goes out and comes in.
LEMMA Within ==
  ASSUME NEW x \in Nat, NEW y \in Nat, NEW out \in Nat, NEW in \in Nat,
         \/ x > y /\ out = x - y /\ in = 0
         \/ ~ (x > y) /\ out = 0 /\ in = y - x
         \/ out = x /\ in = y
  PROVE  out <= x /\ x - out + in = y /\ in <= y
OBVIOUS

\* Adding nothing to a bag.
LEMMA PlusNothing ==
  ASSUME NEW b, IsBag(b)
  PROVE  IsBag(b (+) EmptyBag) /\ \A s : Times(b (+) EmptyBag, s) = Times(b, s)
<1>1. IsBag(b (+) EmptyBag) /\ \A s : Times(b (+) EmptyBag, s) = Times(b, s) + Times(EmptyBag, s)
  BY EmptyBagIs, BagPlus
<1>2. \A s : Times(b, s) \in Nat /\ Times(EmptyBag, s) = 0
  BY BagTimes, EmptyBagIs
<1> QED
  BY <1>1, <1>2

\* diff_edges on one key: taking out and putting in turns one group into the other,
\* with a pair that replaces one another or without.
LEMMA EdgeChangeIs ==
  ASSUME NEW bs, NEW as, IsBag(bs), IsBag(as)
  PROVE  LET c == EdgeChange(bs, as)
         IN  /\ IsBag(c.added) /\ IsBag(c.removed) /\ IsBag(OutOf(c)) /\ IsBag(Into(c))
             /\ \A s : /\ Times(OutOf(c), s) <= Times(bs, s)
                       /\ Times(bs, s) - Times(OutOf(c), s) + Times(Into(c), s) = Times(as, s)
                       /\ Times(Into(c), s) <= Times(as, s)
             /\ Size(c.added) + Size(bs) = Size(c.removed) + Size(as)
<1> DEFINE c == EdgeChange(bs, as)
<1>0. \A s : Times(bs, s) \in Nat /\ Times(as, s) \in Nat
  BY BagTimes
<1>1. CASE ~ (Size(bs) = 1 /\ Size(as) = 1)
  <2>1. c.added = as (-) bs /\ c.removed = bs (-) as /\ c.replaced = {}
    BY <1>1 DEF EdgeChange
  <2>2. /\ IsBag(as (-) bs) /\ IsBag(bs (-) as)
        /\ \A s : /\ Times(as (-) bs, s) = IF Times(as, s) > Times(bs, s) THEN Times(as, s) - Times(bs, s) ELSE 0
                  /\ Times(bs (-) as, s) = IF Times(bs, s) > Times(as, s) THEN Times(bs, s) - Times(as, s) ELSE 0
    BY BagMinus
  <2>3. OutOf(c) = (bs (-) as) (+) EmptyBag /\ Into(c) = (as (-) bs) (+) EmptyBag
    BY <2>1 DEF OutOf, Into, EmptyBag
  <2>4. /\ IsBag(OutOf(c)) /\ IsBag(Into(c))
        /\ \A s : Times(OutOf(c), s) = Times(bs (-) as, s) /\ Times(Into(c), s) = Times(as (-) bs, s)
    <3> HIDE DEF c
    <3> QED
      BY <2>2, <2>3, PlusNothing
  <2>5. Size(as (-) bs) + Size(bs) = Size(bs (-) as) + Size(as)
    BY SizesAgree
  <2> HIDE DEF c
  <2>6. \A s : /\ Times(OutOf(c), s) <= Times(bs, s)
               /\ Times(bs, s) - Times(OutOf(c), s) + Times(Into(c), s) = Times(as, s)
               /\ Times(Into(c), s) <= Times(as, s)
    <3> TAKE s
    <3> DEFINE tb == Times(bs, s)
               ta == Times(as, s)
               out == Times(OutOf(c), s)
               in == Times(Into(c), s)
    <3>1. /\ tb \in Nat /\ ta \in Nat
          /\ out = (IF tb > ta THEN tb - ta ELSE 0) /\ in = (IF ta > tb THEN ta - tb ELSE 0)
      BY <1>0, <2>2, <2>4
    <3> HIDE DEF tb, ta, out, in
    <3>2. /\ out \in Nat /\ in \in Nat
          /\ \/ tb > ta /\ out = tb - ta /\ in = 0
             \/ ~ (tb > ta) /\ out = 0 /\ in = ta - tb
             \/ out = tb /\ in = ta
      BY <3>1
    <3>3. out <= tb /\ tb - out + in = ta /\ in <= ta
      BY <3>1, <3>2, Within
    <3> QED
      BY <3>3 DEF tb, ta, out, in
  <2> QED
    BY <2>1, <2>2, <2>4, <2>5, <2>6 DEF c
<1>2. CASE Size(bs) = 1 /\ Size(as) = 1
  <2>1. PICK x : DOMAIN bs = {x} /\ bs[x] = 1
    BY <1>2, SizeOne
  <2>2. PICK y : DOMAIN as = {y} /\ as[y] = 1
    BY <1>2, SizeOne
  <2>3. /\ c.added = EmptyBag /\ c.removed = EmptyBag
        /\ c.replaced = IF bs = as THEN {} ELSE {x} \X {y}
    BY <1>2, <2>1, <2>2 DEF EdgeChange
  <2>4. \A s : Times(bs, s) = (IF s \in {x} THEN 1 ELSE 0) /\ Times(as, s) = IF s \in {y} THEN 1 ELSE 0
    BY <2>1, <2>2 DEF Times
  <2>5. \E X, Y : /\ OutOf(c) = EmptyBag (+) SetToBag(X) /\ Into(c) = EmptyBag (+) SetToBag(Y)
                  /\ IsFiniteSet(X) /\ IsFiniteSet(Y)
                  /\ IF bs = as THEN X = {} /\ Y = {} ELSE X = {x} /\ Y = {y}
    <3>1. CASE bs = as
      <4>1. {p[1] : p \in c.replaced} = {} /\ {p[2] : p \in c.replaced} = {}
        BY <2>3, <3>1
      <4> HIDE DEF c
      <4> QED
        BY <2>3, <3>1, <4>1, FS_EmptySet DEF OutOf, Into
    <3>2. CASE bs # as
      <4>1. {p[1] : p \in c.replaced} = {x} /\ {p[2] : p \in c.replaced} = {y}
        <5>1. c.replaced = {<<x, y>>}
          BY <2>3, <3>2
        <5> HIDE DEF c
        <5> QED
          BY <5>1
      <4> HIDE DEF c
      <4> QED
        BY <2>3, <3>2, <4>1, FS_Singleton DEF OutOf, Into
    <3> QED
      BY <3>1, <3>2
  <2>6. PICK X, Y : /\ OutOf(c) = EmptyBag (+) SetToBag(X) /\ Into(c) = EmptyBag (+) SetToBag(Y)
                    /\ IsFiniteSet(X) /\ IsFiniteSet(Y)
                    /\ IF bs = as THEN X = {} /\ Y = {} ELSE X = {x} /\ Y = {y}
    BY <2>5
  <2> HIDE DEF c
  <2>7. /\ IsBag(SetToBag(X)) /\ \A s : Times(SetToBag(X), s) = IF s \in X THEN 1 ELSE 0
        /\ IsBag(SetToBag(Y)) /\ \A s : Times(SetToBag(Y), s) = IF s \in Y THEN 1 ELSE 0
    BY <2>6, BagOfSet
  <2>8. /\ IsBag(OutOf(c)) /\ IsBag(Into(c))
        /\ \A s : /\ Times(OutOf(c), s) = Times(EmptyBag, s) + Times(SetToBag(X), s)
                  /\ Times(Into(c), s) = Times(EmptyBag, s) + Times(SetToBag(Y), s)
    BY <2>6, <2>7, EmptyBagIs, BagPlus
  <2>9. \A s : /\ Times(OutOf(c), s) = IF s \in X THEN 1 ELSE 0
               /\ Times(Into(c), s) = IF s \in Y THEN 1 ELSE 0
    BY <2>7, <2>8, EmptyBagIs
  <2>10. \A s : /\ Times(OutOf(c), s) <= Times(bs, s)
                /\ Times(bs, s) - Times(OutOf(c), s) + Times(Into(c), s) = Times(as, s)
                /\ Times(Into(c), s) <= Times(as, s)
    <3> TAKE s
    <3> DEFINE tb == Times(bs, s)
               ta == Times(as, s)
               out == Times(OutOf(c), s)
               in == Times(Into(c), s)
    <3>1. /\ tb \in Nat /\ ta \in Nat
          /\ out = (IF s \in X THEN 1 ELSE 0) /\ in = (IF s \in Y THEN 1 ELSE 0)
          /\ tb = (IF s \in {x} THEN 1 ELSE 0) /\ ta = (IF s \in {y} THEN 1 ELSE 0)
          /\ bs = as => tb = ta
      BY <1>0, <2>4, <2>9
    <3> HIDE DEF tb, ta, out, in
    <3>2. /\ out \in Nat /\ in \in Nat
          /\ bs = as => out = 0 /\ in = 0 /\ tb = ta
          /\ bs # as => out = tb /\ in = ta
      BY <2>6, <3>1
    <3>3. out <= tb /\ tb - out + in = ta /\ in <= ta
      <4>1. (out = 0 /\ in = 0 /\ tb = ta) \/ (out = tb /\ in = ta)
        <5>1. CASE bs = as
          BY <3>2, <5>1
        <5>2. CASE bs # as
          BY <3>2, <5>2
        <5> QED
          BY <5>1, <5>2
      <4>2. tb \in Nat /\ ta \in Nat /\ out \in Nat /\ in \in Nat
        BY <3>1, <3>2
      <4> QED
        BY <4>1, <4>2
    <3> QED
      BY <3>3 DEF tb, ta, out, in
  <2> QED
    BY <1>2, <2>3, <2>8, <2>10, EmptyBagIs DEF c
<1> QED
  BY <1>1, <1>2

\* Bags that hold different keys, taken together.
LEMMA AllOfIs ==
  ASSUME NEW C, IsFiniteSet(C), NEW f,
         \A k \in C : IsBag(f[k]) /\ \A s : Times(f[k], s) > 0 => KeyOf(s) = k
  PROVE  LET all == AllOf([k \in C |-> f[k]])
         IN  /\ IsBag(all)
             /\ \A s : Times(all, s) = IF KeyOf(s) \in C THEN Times(f[KeyOf(s)], s) ELSE 0
<1> DEFINE bags == [k \in C |-> f[k]]
           D == UNION {DOMAIN bags[k] : k \in C}
           N(s) == [k \in C |-> 1 .. Times(f[k], s)]
           all == AllOf(bags)
<1>1. all = [s \in D |-> Together(N(s))]
  BY DEF AllOf
<1>2. IsFiniteSet(D)
  <2>1. IsFiniteSet({DOMAIN bags[k] : k \in C})
    <3> HIDE DEF bags
    <3> DEFINE d == [k \in C |-> DOMAIN bags[k]]
    <3>1. {DOMAIN bags[k] : k \in C} = {d[k] : k \in C}
      OBVIOUS
    <3> HIDE DEF d
    <3>2. IsFiniteSet({d[k] : k \in C})
      BY ImageFinite
    <3> QED
      BY <3>1, <3>2
  <2>2. \A T \in {DOMAIN bags[k] : k \in C} : IsFiniteSet(T)
    BY DEF IsBag
  <2> QED
    BY <2>1, <2>2, FS_UNION
<1>3. ASSUME NEW s
      PROVE  Together(N(s)) = IF KeyOf(s) \in C THEN Times(f[KeyOf(s)], s) ELSE 0
  <2> DEFINE K == KeyOf(s)
             n == N(s)
  <2>1. \A k \in C : /\ Times(f[k], s) \in Nat /\ (k # K => Times(f[k], s) = 0)
                     /\ IsFiniteSet(n[k]) /\ Cardinality(n[k]) = Times(f[k], s)
    <3>1. \A k \in C : Times(f[k], s) \in Nat /\ n[k] = 1 .. Times(f[k], s)
      BY BagTimes
    <3> HIDE DEF n
    <3> QED
      BY <3>1, UpTo
  <2>2. n = [k \in C |-> n[k]]
    OBVIOUS
  <2>3. \A k \in C : k # K => n[k] = {}
    BY <2>1
  <2> HIDE DEF n, K
  <2>4. CASE K \in C
    <3>1. Together([k \in {K} |-> n[k]]) = Together([k \in C |-> n[k]])
      <4>1. {K} \subseteq C /\ (\A x \in {K} : n[x] = n[x]) /\ (\A x \in C : x \notin {K} => n[x] = {})
        BY <2>3, <2>4
      <4> QED
        BY <4>1, EmptyOnes
    <3>2. SumOver({K}, n) = Cardinality(n[K])
      BY <2>1, <2>4, One
    <3> QED
      BY <2>1, <2>2, <2>4, <3>1, <3>2 DEF n, K, SumOver
  <2>5. CASE K \notin C
    <3>1. \A k \in C : n[k] = {}
      BY <2>3, <2>5
    <3>2. Pairs(n) = {}
      BY <2>2, <3>1, PairsIs
    <3>3. Together(n) = 0
      BY <3>2, PairsIs, FS_EmptySet
    <3> QED
      BY <2>5, <3>3 DEF n, K
  <2> QED
    BY <2>4, <2>5
<1>4. ASSUME NEW s PROVE s \in D <=> (KeyOf(s) \in C /\ Times(f[KeyOf(s)], s) > 0)
  <2>1. s \in D <=> \E k \in C : s \in DOMAIN f[k]
    OBVIOUS
  <2>2. \A k \in C : s \in DOMAIN f[k] <=> Times(f[k], s) > 0
    BY BagTimes
  <2> QED
    BY <2>1, <2>2
<1>5. \A s : KeyOf(s) \in C => Times(f[KeyOf(s)], s) \in Nat
  BY BagTimes
<1> DEFINE v == [s \in D |-> Together(N(s))]
<1>6. DOMAIN v = D /\ \A s \in D : v[s] = Times(f[KeyOf(s)], s) /\ v[s] \in Nat /\ v[s] > 0
  <2> HIDE DEF D, N
  <2> QED
    BY <1>3, <1>4, <1>5
<1>7. v = [s \in DOMAIN v |-> v[s]]
  OBVIOUS
<1> HIDE DEF v, D, N
<1>8. IsBag(v)
  BY <1>2, <1>6, <1>7 DEF IsBag
<1>9. \A s : Times(v, s) = IF KeyOf(s) \in C THEN Times(f[KeyOf(s)], s) ELSE 0
  <2> TAKE s
  <2>1. Times(v, s) = IF s \in D THEN v[s] ELSE 0
    BY <1>6 DEF Times
  <2>2. KeyOf(s) \in C /\ s \notin D => Times(f[KeyOf(s)], s) = 0
    BY <1>4, <1>5
  <2> QED
    BY <1>4, <1>6, <2>1, <2>2
<1> QED
  BY <1>1, <1>8, <1>9 DEF v


\* The group of shapes under one key, and the keys of a graph's groups.
GroupsAt(g, k) == GroupOf(GroupByKey(g.edges), k)
GroupKeys(g) == DOMAIN GroupByKey(g.edges)
InGroup(g, k) == {i \in Seen(g.edges) : Group(g.edges[i]) = k}

\* diff_edges: a change per key whose groups differ, no other.
LEMMA ChangesAre ==
  ASSUME NEW before, NEW after, IsFiniteSet(Seen(before.edges)), IsFiniteSet(Seen(after.edges))
  PROVE  LET changes == EdgeChanges(before, after)
         IN  /\ \A k \in DOMAIN changes : changes[k] = EdgeChange(GroupsAt(before, k), GroupsAt(after, k))
             /\ IsFiniteSet(GroupKeys(before) \cup GroupKeys(after))
             /\ DOMAIN changes \subseteq GroupKeys(before) \cup GroupKeys(after)
             /\ IsFiniteSet(DOMAIN changes)
             /\ \A k : k \notin DOMAIN changes => GroupsAt(before, k) = GroupsAt(after, k)
<1> DEFINE changes == EdgeChanges(before, after)
           K == GroupKeys(before) \cup GroupKeys(after)
           C == {k \in K : GroupsAt(after, k) # GroupsAt(before, k)}
<1>1. changes = [k \in C |-> EdgeChange(GroupsAt(before, k), GroupsAt(after, k))]
  BY DEF EdgeChanges, GroupsAt, GroupKeys
<1>2. ASSUME NEW g, IsFiniteSet(Seen(g.edges)) PROVE IsFiniteSet(GroupKeys(g))
  <2> DEFINE h == [i \in Seen(g.edges) |-> Group(g.edges[i])]
  <2>1. GroupKeys(g) = {h[i] : i \in Seen(g.edges)}
    BY DEF GroupKeys, GroupByKey
  <2> HIDE DEF h
  <2> QED
    BY <1>2, <2>1, ImageFinite
<1>3. IsFiniteSet(K)
  BY <1>2, FS_Union
<1>4. IsFiniteSet(C)
  <2>1. C \in SUBSET K
    OBVIOUS
  <2> HIDE DEF C, K
  <2> QED
    BY <1>3, <2>1, FS_Subset
<1>5. ASSUME NEW k, k \notin C PROVE GroupsAt(before, k) = GroupsAt(after, k)
  BY <1>5 DEF GroupsAt, GroupOf, GroupKeys
<1>6. DOMAIN changes = C /\ C \subseteq K
  BY <1>1
<1> HIDE DEF changes, C
<1> QED
  BY <1>1, <1>3, <1>4, <1>5, <1>6 DEF changes

\* GroupIs, for a graph.
LEMMA GroupsAtIs ==
  ASSUME NEW g, IsFiniteSet(Seen(g.edges)), NEW k
  PROVE  /\ IsBag(GroupsAt(g, k))
         /\ \A s : Times(GroupsAt(g, k), s) = IF KeyOf(s) = k THEN Times(Shapes(g), s) ELSE 0
         /\ IsFiniteSet(InGroup(g, k)) /\ Size(GroupsAt(g, k)) = Cardinality(InGroup(g, k))
<1>1. InGroup(g, k) \in SUBSET Seen(g.edges)
  BY DEF InGroup
<1> QED
  BY <1>1, GroupIs, FS_Subset DEF GroupsAt, Shapes, InGroup

\* Taking the changes of every key out of the shapes of a graph, and putting
\* them in, gives the shapes of the other.
LEMMA EdgesPatched ==
  ASSUME NEW before, NEW after, IsFiniteSet(Seen(before.edges)), IsFiniteSet(Seen(after.edges))
  PROVE  ShapesPatched(Shapes(before), EdgeChanges(before, after)) = Shapes(after)
<1> DEFINE changes == EdgeChanges(before, after)
           C == DOMAIN changes
           f == [k \in C |-> OutOf(changes[k])]
           g == [k \in C |-> Into(changes[k])]
           out == AllOf(f)
           in == AllOf(g)
           b == Shapes(before)
           a == Shapes(after)
<1>1. ShapesPatched(b, changes) = IF out \sqsubseteq b THEN (b (-) out) (+) in ELSE None
  <2>1. f = [k \in C |-> changes[k].removed (+) SetToBag({p[1] : p \in changes[k].replaced})]
    BY DEF OutOf
  <2>2. g = [k \in C |-> changes[k].added (+) SetToBag({p[2] : p \in changes[k].replaced})]
    BY DEF Into
  <2> HIDE DEF changes, f, g, b
  <2> QED
    BY <2>1, <2>2 DEF ShapesPatched
<1>2. IsBag(b) /\ IsBag(a) /\ \A s : Times(b, s) \in Nat /\ Times(a, s) \in Nat
  <2>1. IsBag(b) /\ IsBag(a)
    BY ShapesAtIs DEF Shapes
  <2> QED
    BY <2>1, BagTimes
<1>3. /\ IsFiniteSet(C)
      /\ \A k \in C : changes[k] = EdgeChange(GroupsAt(before, k), GroupsAt(after, k))
      /\ \A k : k \notin C => GroupsAt(before, k) = GroupsAt(after, k)
  <2>1. \A k \in DOMAIN EdgeChanges(before, after) :
          EdgeChanges(before, after)[k] = EdgeChange(GroupsAt(before, k), GroupsAt(after, k))
    BY ChangesAre
  <2>2. /\ IsFiniteSet(DOMAIN EdgeChanges(before, after))
        /\ \A k : k \notin DOMAIN EdgeChanges(before, after) => GroupsAt(before, k) = GroupsAt(after, k)
    BY ChangesAre
  <2> QED
    BY <2>1, <2>2
<1>4. \A k : IsBag(GroupsAt(before, k)) /\ IsBag(GroupsAt(after, k))
  BY GroupsAtIs
<1>5. \A k, s : /\ Times(GroupsAt(before, k), s) = IF KeyOf(s) = k THEN Times(b, s) ELSE 0
                /\ Times(GroupsAt(after, k), s) = IF KeyOf(s) = k THEN Times(a, s) ELSE 0
  BY GroupsAtIs
<1> HIDE DEF changes, b, a
<1>6. ASSUME NEW k \in C
      PROVE  /\ IsBag(f[k]) /\ IsBag(g[k])
             /\ \A s : /\ Times(f[k], s) <= Times(GroupsAt(before, k), s)
                       /\ Times(g[k], s) <= Times(GroupsAt(after, k), s)
                       /\ Times(GroupsAt(before, k), s) - Times(f[k], s) + Times(g[k], s)
                            = Times(GroupsAt(after, k), s)
  <2>1. f[k] = OutOf(EdgeChange(GroupsAt(before, k), GroupsAt(after, k)))
    BY <1>3
  <2>2. g[k] = Into(EdgeChange(GroupsAt(before, k), GroupsAt(after, k)))
    BY <1>3
  <2> HIDE DEF f, g
  <2> QED
    BY <1>4, <2>1, <2>2, EdgeChangeIs
<1>7. \A k \in C : /\ IsBag(f[k]) /\ \A s : Times(f[k], s) > 0 => KeyOf(s) = k
                   /\ IsBag(g[k]) /\ \A s : Times(g[k], s) > 0 => KeyOf(s) = k
  <2> SUFFICES ASSUME NEW k \in C, NEW s
               PROVE  /\ Times(f[k], s) > 0 => KeyOf(s) = k
                      /\ Times(g[k], s) > 0 => KeyOf(s) = k
    BY <1>6
  <2>1. /\ Times(f[k], s) \in Nat /\ Times(f[k], s) <= Times(GroupsAt(before, k), s)
        /\ Times(g[k], s) \in Nat /\ Times(g[k], s) <= Times(GroupsAt(after, k), s)
    <3> HIDE DEF f, g
    <3> QED
      BY <1>6, BagTimes
  <2>2. KeyOf(s) # k => Times(GroupsAt(before, k), s) = 0 /\ Times(GroupsAt(after, k), s) = 0
    BY <1>5
  <2> HIDE DEF f, g
  <2> QED
    BY <2>1, <2>2
<1>8. f = [k \in C |-> f[k]] /\ g = [k \in C |-> g[k]]
  OBVIOUS
<1> HIDE DEF f, g, C
<1>9. /\ IsBag(out) /\ \A s : Times(out, s) = IF KeyOf(s) \in C THEN Times(f[KeyOf(s)], s) ELSE 0
      /\ IsBag(in) /\ \A s : Times(in, s) = IF KeyOf(s) \in C THEN Times(g[KeyOf(s)], s) ELSE 0
  <2>1. LET all == AllOf([k \in C |-> f[k]])
        IN  /\ IsBag(all)
            /\ \A s : Times(all, s) = IF KeyOf(s) \in C THEN Times(f[KeyOf(s)], s) ELSE 0
    BY <1>3, <1>7, AllOfIs
  <2>2. LET all == AllOf([k \in C |-> g[k]])
        IN  /\ IsBag(all)
            /\ \A s : Times(all, s) = IF KeyOf(s) \in C THEN Times(g[KeyOf(s)], s) ELSE 0
    BY <1>3, <1>7, AllOfIs
  <2> QED
    BY <1>8, <2>1, <2>2
<1> HIDE DEF out, in
<1>10. ASSUME NEW s
       PROVE  /\ Times(out, s) \in Nat /\ Times(in, s) \in Nat
              /\ Times(out, s) <= Times(b, s)
              /\ Times(b, s) - Times(out, s) + Times(in, s) = Times(a, s)
  <2>1. Times(GroupsAt(before, KeyOf(s)), s) = Times(b, s) /\ Times(GroupsAt(after, KeyOf(s)), s) = Times(a, s)
    BY <1>5
  <2>2. Times(out, s) \in Nat /\ Times(in, s) \in Nat
    BY <1>9, BagTimes
  <2>3. CASE KeyOf(s) \in C
    BY <1>6, <1>9, <2>1, <2>2, <2>3
  <2>4. CASE KeyOf(s) \notin C
    <3>1. Times(out, s) = 0 /\ Times(in, s) = 0 /\ Times(a, s) = Times(b, s)
      BY <1>3, <1>9, <2>1, <2>4
    <3>2. Times(b, s) \in Nat
      BY <1>2
    <3> QED
      BY <3>1, <3>2
  <2> QED
    BY <2>2, <2>3, <2>4
<1>11. out \sqsubseteq b
  BY <1>2, <1>9, <1>10, BagsWithin
<1> DEFINE rest == b (-) out
           made == rest (+) in
<1>12. IsBag(rest) /\ \A s : Times(rest, s) = Times(b, s) - Times(out, s)
  <2>1. /\ IsBag(b (-) out)
        /\ \A s : Times(b (-) out, s) = IF Times(b, s) > Times(out, s) THEN Times(b, s) - Times(out, s) ELSE 0
    BY <1>2, <1>9, BagMinus
  <2>2. ASSUME NEW s PROVE Times(rest, s) = Times(b, s) - Times(out, s)
    <3> DEFINE tb == Times(b, s)
               out1 == Times(out, s)
               r == Times(rest, s)
    <3>1. tb \in Nat /\ out1 \in Nat /\ out1 <= tb /\ r = IF tb > out1 THEN tb - out1 ELSE 0
      BY <1>2, <1>10, <2>1
    <3> HIDE DEF tb, out1, r
    <3>2. r = tb - out1
      BY <3>1
    <3> QED
      BY <3>2 DEF tb, out1, r
  <2> QED
    BY <2>1, <2>2
<1> HIDE DEF rest
<1>13. IsBag(made) /\ \A s : Times(made, s) = Times(rest, s) + Times(in, s)
  BY <1>9, <1>12, BagPlus
<1> HIDE DEF made
<1>14. \A s : Times(made, s) = Times(a, s)
  BY <1>10, <1>12, <1>13
<1>15. made = a
  BY <1>2, <1>13, <1>14, BagsEqual
<1> QED
  BY <1>1, <1>11, <1>15 DEF made, rest, changes, a, b

\* What edges were added to a graph and taken from it is what it has more.
LEMMA EdgesCounted ==
  ASSUME NEW before, NEW after, IsFiniteSet(Seen(before.edges)), IsFiniteSet(Seen(after.edges)),
         NEW d, d.edges = EdgeChanges(before, after)
  PROVE  Summary(d).edgesAdded + Size(Shapes(before)) = Summary(d).edgesRemoved + Size(Shapes(after))
<1> DEFINE changes == d.edges
           C == DOMAIN changes
           K == GroupKeys(before) \cup GroupKeys(after)
           added == [k \in C |-> 1 .. Size(changes[k].added)]
           removed == [k \in C |-> 1 .. Size(changes[k].removed)]
           more == [k \in K |-> IF k \in C THEN added[k] ELSE {}]
           less == [k \in K |-> IF k \in C THEN removed[k] ELSE {}]
           ofBefore == [k \in K |-> InGroup(before, k)]
           ofAfter == [k \in K |-> InGroup(after, k)]
<1>1. Summary(d).edgesAdded = Together(added) /\ Summary(d).edgesRemoved = Together(removed)
  BY DEF Summary
<1>2. /\ IsFiniteSet(K) /\ C \subseteq K
      /\ \A k \in C : changes[k] = EdgeChange(GroupsAt(before, k), GroupsAt(after, k))
      /\ \A k : k \notin C => GroupsAt(before, k) = GroupsAt(after, k)
  <2>1. changes = EdgeChanges(before, after)
    OBVIOUS
  <2> HIDE DEF changes
  <2> QED
    BY <2>1, ChangesAre
<1>3. Together(added) = SumOver(K, more) /\ Together(removed) = SumOver(K, less)
  <2>1. added = [k \in C |-> added[k]] /\ removed = [k \in C |-> removed[k]]
    OBVIOUS
  <2>2. /\ \A k \in C : added[k] = more[k] /\ removed[k] = less[k]
        /\ \A k \in K : k \notin C => more[k] = {} /\ less[k] = {}
    BY <1>2
  <2> HIDE DEF added, removed, more, less, C, K
  <2>3. Together([k \in C |-> added[k]]) = Together([k \in K |-> more[k]])
    BY <1>2, <2>2, EmptyOnes
  <2>4. Together([k \in C |-> removed[k]]) = Together([k \in K |-> less[k]])
    BY <1>2, <2>2, EmptyOnes
  <2> QED
    BY <2>1, <2>3, <2>4 DEF SumOver
<1>4. ASSUME NEW g, IsFiniteSet(Seen(g.edges)), GroupKeys(g) \subseteq K
      PROVE  SumOver(K, [k \in K |-> InGroup(g, k)]) = Size(Shapes(g))
  <2> DEFINE P == Seen(g.edges)
             h == [i \in P |-> Group(g.edges[i])]
             T == {h[i] : i \in P}
             in == [k \in K |-> InGroup(g, k)]
             part == [k \in T |-> {i \in P : h[i] = k}]
  <2>1. T = GroupKeys(g)
    BY DEF GroupKeys, GroupByKey
  <2>2. Together(part) = Cardinality(P)
    <3> HIDE DEF h, P
    <3>1. IsFiniteSet(P)
      BY <1>4 DEF P
    <3> QED
      BY <3>1, Parts, Zenon
  <2>3. /\ \A k \in T : part[k] = in[k]
        /\ \A k \in K : k \notin T => in[k] = {}
    BY <1>4, <2>1 DEF InGroup
  <2>4. part = [k \in T |-> part[k]]
    OBVIOUS
  <2>5. Size(Shapes(g)) = Cardinality(P)
    BY <1>4, ShapesAtIs DEF Shapes
  <2> HIDE DEF part, in, T, P, K
  <2>6. Together([k \in T |-> part[k]]) = Together([k \in K |-> in[k]])
    BY <1>4, <2>1, <2>3, EmptyOnes
  <2> QED
    BY <2>2, <2>4, <2>5, <2>6 DEF SumOver, in
<1>5. SumOver(K, ofBefore) = Size(Shapes(before)) /\ SumOver(K, ofAfter) = Size(Shapes(after))
  BY <1>4
<1>6. ASSUME NEW k \in K
      PROVE  /\ IsFiniteSet(more[k]) /\ IsFiniteSet(ofBefore[k])
             /\ IsFiniteSet(less[k]) /\ IsFiniteSet(ofAfter[k])
             /\ Cardinality(more[k]) + Cardinality(ofBefore[k]) = Cardinality(less[k]) + Cardinality(ofAfter[k])
  <2> DEFINE bs == GroupsAt(before, k)
             as == GroupsAt(after, k)
  <2>1. /\ IsBag(bs) /\ IsFiniteSet(InGroup(before, k)) /\ Size(bs) = Cardinality(InGroup(before, k))
        /\ IsBag(as) /\ IsFiniteSet(InGroup(after, k)) /\ Size(as) = Cardinality(InGroup(after, k))
    BY GroupsAtIs
  <2>2. ofBefore[k] = InGroup(before, k) /\ ofAfter[k] = InGroup(after, k)
    OBVIOUS
  <2>3. CASE k \in C
    <3> DEFINE c == EdgeChange(bs, as)
    <3>1. IsBag(c.added) /\ IsBag(c.removed) /\ Size(c.added) + Size(bs) = Size(c.removed) + Size(as)
      <4> HIDE DEF bs, as
      <4> QED
        BY <2>1, EdgeChangeIs DEF bs, as
    <3>2. more[k] = 1 .. Size(c.added) /\ less[k] = 1 .. Size(c.removed)
      BY <1>2, <2>3
    <3>3. Size(c.added) \in Nat /\ Size(c.removed) \in Nat
      <4> HIDE DEF c
      <4>1. \A x : IsBag(x) => IsFiniteSet(DOMAIN x) /\ DOMAIN x \subseteq DOMAIN x
        BY DEF IsBag
      <4> QED
        BY <3>1, <4>1, SizeOver
    <3> HIDE DEF c, bs, as, more, less, ofBefore, ofAfter
    <3> QED
      BY <2>1, <2>2, <3>1, <3>2, <3>3, UpTo
  <2>4. CASE k \notin C
    <3>1. bs = as
      BY <1>2, <2>4
    <3>2. more[k] = {} /\ less[k] = {}
      BY <2>4
    <3>3. Cardinality(ofBefore[k]) = Cardinality(ofAfter[k])
      BY <2>1, <2>2, <3>1
    <3> HIDE DEF bs, as, more, less, ofBefore, ofAfter
    <3> QED
      BY <2>1, <2>2, <3>2, <3>3, FS_EmptySet
  <2> QED
    BY <2>3, <2>4
<1> HIDE DEF K, C, more, less, ofBefore, ofAfter
<1>7. Balanced(K, more, ofBefore, less, ofAfter)
  BY <1>6 DEF Balanced
<1>8. SumOver(K, more) + SumOver(K, ofBefore) = SumOver(K, less) + SumOver(K, ofAfter)
  BY <1>2, <1>7, SumsAgree
<1> QED
  BY <1>1, <1>3, <1>5, <1>8


\* diff_nodes: its changes turn the nodes of one graph into those of the other.
LEMMA NodesPatchedIs ==
  ASSUME NEW before, NEW after,
         before.nodes = [i \in DOMAIN before.nodes |-> before.nodes[i]],
         after.nodes = [i \in DOMAIN after.nodes |-> after.nodes[i]],
         END \notin DOMAIN before.nodes, END \notin DOMAIN after.nodes
  PROVE  NodesPatched(before.nodes, NodeChanges(before, after)) = after.nodes
<1> DEFINE B == DOMAIN before.nodes
           A == DOMAIN after.nodes
           changes == NodeChanges(before, after)
           gone == {c.id : c \in {d \in changes : d.kind = "removed"}}
           put == {c \in changes : c.kind # "removed"}
           D == (B \ gone) \cup {c.id : c \in put}
           patched == NodesPatched(before.nodes, changes)
<1>1. UserNodeIds(before) = B /\ UserNodeIds(after) = A
  BY DEF UserNodeIds
<1>2. changes =
        {[kind |-> "removed", id |-> i, before |-> before.nodes[i], after |-> None] : i \in B \ A}
        \cup {[kind |-> "added", id |-> i, before |-> None, after |-> after.nodes[i]] : i \in A \ B}
        \cup {[kind |-> "described", id |-> i, before |-> before.nodes[i], after |-> after.nodes[i]] :
                i \in {j \in A \cap B : after.nodes[j] # before.nodes[j]}}
  BY <1>1 DEF NodeChanges
<1>3. patched = [i \in D |-> IF \E c \in put : c.id = i
                               THEN (CHOOSE c \in put : c.id = i).after ELSE before.nodes[i]]
  BY DEF NodesPatched
<1> HIDE DEF changes, patched
<1>4. gone = B \ A
  <2>1. ASSUME NEW i \in B \ A PROVE \E c \in changes : c.kind = "removed" /\ c.id = i
    <3> DEFINE c == [kind |-> "removed", id |-> i, before |-> before.nodes[i], after |-> None]
    <3>1. c \in changes /\ c.kind = "removed" /\ c.id = i
      BY <1>2, <2>1
    <3> QED
      BY <3>1
  <2>2. ASSUME NEW c \in changes, c.kind = "removed" PROVE c.id \in B \ A
    BY <1>2, <2>2
  <2> HIDE DEF A, B
  <2> QED
    BY <2>1, <2>2
<1>5. \A c \in put : c.id \in A /\ c.after = after.nodes[c.id]
  BY <1>2
<1>6. \A i : (\E c \in put : c.id = i) <=> i \in A /\ (i \notin B \/ after.nodes[i] # before.nodes[i])
  <2> TAKE i
  <2>1. ASSUME NEW c \in put, c.id = i PROVE i \in A /\ (i \notin B \/ after.nodes[i] # before.nodes[i])
    BY <1>2, <2>1
  <2>2. ASSUME i \in A, i \notin B PROVE \E c \in put : c.id = i
    <3> DEFINE c == [kind |-> "added", id |-> i, before |-> None, after |-> after.nodes[i]]
    <3>1. c \in put /\ c.id = i
      BY <1>2, <2>2
    <3> QED
      BY <3>1
  <2>3. ASSUME i \in A, i \in B, after.nodes[i] # before.nodes[i] PROVE \E c \in put : c.id = i
    <3> DEFINE c == [kind |-> "described", id |-> i, before |-> before.nodes[i], after |-> after.nodes[i]]
    <3>1. c \in put /\ c.id = i
      BY <1>2, <2>3
    <3> QED
      BY <3>1
  <2> HIDE DEF put, A, B
  <2> QED
    BY <2>1, <2>2, <2>3
<1>7. D = A
  <2>1. \A i : i \in D <=> (i \in B /\ i \notin gone) \/ \E c \in put : c.id = i
    OBVIOUS
  <2> HIDE DEF put, gone, D, A, B
  <2> QED
    BY <1>4, <1>6, <2>1
<1>8. ASSUME NEW i \in A PROVE patched[i] = after.nodes[i]
  <2>1. CASE \E c \in put : c.id = i
    <3>1. patched[i] = (CHOOSE c \in put : c.id = i).after
      BY <1>3, <1>7, <2>1
    <3> HIDE DEF put
    <3>2. (CHOOSE c \in put : c.id = i) \in put /\ (CHOOSE c \in put : c.id = i).id = i
      BY <2>1
    <3> QED
      BY <1>5, <3>1, <3>2
  <2>2. CASE ~ \E c \in put : c.id = i
    <3>1. patched[i] = before.nodes[i]
      BY <1>3, <1>7, <2>2
    <3> HIDE DEF put
    <3> QED
      BY <1>6, <2>2, <3>1
  <2> QED
    BY <2>1, <2>2
<1>9. patched = [i \in D |-> patched[i]]
  <2>1. DOMAIN patched = D /\ patched = [i \in DOMAIN patched |-> patched[i]]
    BY <1>3
  <2> HIDE DEF D
  <2> QED
    BY <2>1
<1> HIDE DEF D
<1>10. patched = after.nodes
  BY <1>7, <1>8, <1>9
<1> QED
  BY <1>10 DEF patched, changes

\* An injective image is as large as the set.
LEMMA CountIs ==
  ASSUME NEW S, IsFiniteSet(S), NEW T, NEW f, T = {f[i] : i \in S},
         \A i, j \in S : f[i] = f[j] => i = j
  PROVE  Cardinality(T) = Cardinality(S)
<1> DEFINE g == [i \in S |-> f[i]]
<1>1. g \in [S -> T] /\ (\A i, j \in S : g[i] = g[j] => i = j) /\ \A t \in T : \E i \in S : g[i] = t
  OBVIOUS
<1> HIDE DEF g
<1>2. g \in Bijection(S, T)
  BY <1>1 DEF Bijection, Injection, Surjection, IsInjective
<1> QED
  BY <1>2, FS_Bijection DEF ExistsBijection

\* What nodes were added and removed is what one graph has more.
LEMMA NodesCounted ==
  ASSUME NEW before, NEW after,
         IsFiniteSet(DOMAIN before.nodes), IsFiniteSet(DOMAIN after.nodes),
         END \notin DOMAIN before.nodes, END \notin DOMAIN after.nodes,
         NEW d, d.nodes = NodeChanges(before, after)
  PROVE  Summary(d).nodesAdded + Cardinality(DOMAIN before.nodes)
           = Summary(d).nodesRemoved + Cardinality(DOMAIN after.nodes)
<1> DEFINE B == DOMAIN before.nodes
           A == DOMAIN after.nodes
           Added == {c \in d.nodes : c.kind = "added"}
           Removed == {c \in d.nodes : c.kind = "removed"}
           Put(i) == [kind |-> "added", id |-> i, before |-> None, after |-> after.nodes[i]]
           Gone(i) == [kind |-> "removed", id |-> i, before |-> before.nodes[i], after |-> None]
           put == [i \in A \ B |-> Put(i)]
           gone == [i \in B \ A |-> Gone(i)]
<1>1. UserNodeIds(before) = B /\ UserNodeIds(after) = A
  BY DEF UserNodeIds
<1>2. d.nodes =
        {Gone(i) : i \in B \ A} \cup {Put(i) : i \in A \ B}
        \cup {[kind |-> "described", id |-> i, before |-> before.nodes[i], after |-> after.nodes[i]] :
                i \in {j \in A \cap B : after.nodes[j] # before.nodes[j]}}
  BY <1>1 DEF NodeChanges
<1>3. Summary(d).nodesAdded = Cardinality(Added) /\ Summary(d).nodesRemoved = Cardinality(Removed)
  BY DEF Summary
<1>4. Added = {Put(i) : i \in A \ B} /\ Removed = {Gone(i) : i \in B \ A}
  BY <1>2
<1>5. Added = {put[i] : i \in A \ B} /\ Removed = {gone[i] : i \in B \ A}
  BY <1>4
<1>6. /\ \A i, j \in A \ B : put[i] = put[j] => i = j
      /\ \A i, j \in B \ A : gone[i] = gone[j] => i = j
  <2>1. (\A i \in A \ B : put[i].id = i) /\ \A i \in B \ A : gone[i].id = i
    OBVIOUS
  <2> HIDE DEF put, gone
  <2> QED
    BY <2>1
<1> HIDE DEF put, gone, Added, Removed, A, B
<1>7. /\ IsFiniteSet(A) /\ IsFiniteSet(B) /\ IsFiniteSet(A \ B) /\ IsFiniteSet(B \ A)
      /\ Cardinality(A) \in Nat /\ Cardinality(B) \in Nat
      /\ Cardinality(A \ B) \in Nat /\ Cardinality(B \ A) \in Nat
  <2>1. IsFiniteSet(A) /\ IsFiniteSet(B)
    BY DEF A, B
  <2>2. A \ B \in SUBSET A /\ B \ A \in SUBSET B
    OBVIOUS
  <2>3. IsFiniteSet(A \ B) /\ IsFiniteSet(B \ A)
    BY <2>1, <2>2, FS_Subset
  <2> QED
    BY <2>1, <2>3, FS_CardinalityType
<1>8. Cardinality(Added) = Cardinality(A \ B) /\ Cardinality(Removed) = Cardinality(B \ A)
  BY <1>5, <1>6, <1>7, CountIs
<1>9. ASSUME NEW X, NEW Y, IsFiniteSet(X), IsFiniteSet(Y), IsFiniteSet(X \ Y)
      PROVE  Cardinality(X \cup Y) = Cardinality(X \ Y) + Cardinality(Y)
  <2>1. X \cup Y = (X \ Y) \cup Y /\ (X \ Y) \cap Y = {}
    OBVIOUS
  <2>2. Cardinality((X \ Y) \cup Y) = Cardinality(X \ Y) + Cardinality(Y) - Cardinality((X \ Y) \cap Y)
    BY <1>9, FS_Union
  <2>3. Cardinality(X \ Y) \in Nat /\ Cardinality(Y) \in Nat /\ Cardinality((X \ Y) \cap Y) = 0
    BY <1>9, <2>1, FS_CardinalityType, FS_EmptySet
  <2>4. Cardinality(X \cup Y) = Cardinality((X \ Y) \cup Y)
    BY <2>1
  <2> QED
    BY <2>2, <2>3, <2>4
<1>10. Cardinality(A \ B) + Cardinality(B) = Cardinality(B \ A) + Cardinality(A)
  <2>1. A \cup B = B \cup A
    OBVIOUS
  <2>2. Cardinality(A \cup B) = Cardinality(A \ B) + Cardinality(B)
    BY <1>7, <1>9
  <2>3. Cardinality(B \cup A) = Cardinality(B \ A) + Cardinality(A)
    BY <1>7, <1>9
  <2> QED
    BY <2>1, <2>2, <2>3
<1> QED
  BY <1>3, <1>8, <1>10 DEF A, B

\* A graph does not differ from itself.
LEMMA NoDifference == \A g : IsEmpty(Diff(g, g))
<1> SUFFICES ASSUME NEW g PROVE IsEmpty(Diff(g, g))
  OBVIOUS
<1>1. NodeChanges(g, g) = {}
  BY DEF NodeChanges
<1>2. DOMAIN EdgeChanges(g, g) = {}
  BY DEF EdgeChanges
<1> QED
  BY <1>1, <1>2 DEF IsEmpty, Diff, Changed

\* Where a node leads in a graph that gives it one edge per key at most: to the
\* target of the edge a diff sees, or to END.
Told(key) == IF key = CONTINUE THEN NoKey ELSE key
LeadsTo(edge) == IF edge.to = {} THEN {END} ELSE edge.to

LEMMA LeadsIs ==
  ASSUME NEW g, NEW n \in Nat, DOMAIN g.edges = 1 .. n, Unambiguous(g),
         NEW from, from # END, NEW key, key \in Keys \cup {CONTINUE}
  PROVE  \/ \E i \in Seen(g.edges) :
              Group(g.edges[i]) = <<from, Told(key)>> /\ Leads(g, from, key) = LeadsTo(g.edges[i])
         \/ /\ \A i \in Seen(g.edges) : Group(g.edges[i]) # <<from, Told(key)>>
            /\ Leads(g, from, key) = {END}
<1> DEFINE E == g.edges
           I == {i \in DOMAIN E : E[i].from = from /\ Key(E[i]) = Told(key)}
           keyed == {i \in {j \in DOMAIN E : E[j].from = from} : E[i].key = key}
           unkeyed == {i \in {j \in DOMAIN E : E[j].from = from} : E[i].key = NoKey /\ key = CONTINUE}
           First1(S) == Routing(E)!First(S)
           next == IF keyed # {} THEN E[First1(keyed)].to
                   ELSE IF unkeyed # {} THEN E[First1(unkeyed)].to ELSE {}
<1>1. Leads(g, from, key) = IF next = {} THEN {END} ELSE next
  <2>1. Routing(E)!NextFor(from, key) = next
    BY DEF Routing!NextFor, Routing!Outgoing
  <2> DEFINE out == [kind |-> "transition", key |-> key]
  <2>2. Leads(g, from, key) = Routing(E)!Successors(from, out)
    BY DEF Leads
  <2>3. out.kind = "transition" /\ out.key = key
    OBVIOUS
  <2> HIDE DEF out, next
  <2> QED
    BY <2>1, <2>2, <2>3 DEF Routing!Successors
<1>2. key # NoKey /\ NoKey # CONTINUE
  BY BuildersAssumption
<1>3. I = keyed \cup unkeyed
  BY <1>2 DEF Key, Told
<1>4. \A i, j \in I : i = j
  BY DEF Unambiguous
<1>5. \A i \in I : i \in Nat
  OBVIOUS
<1> HIDE DEF keyed, unkeyed
<1>6. ASSUME NEW S, S \subseteq I, NEW i \in S PROVE First1(S) = i
  <2>1. S = {i} /\ i \in Nat
    BY <1>4, <1>5, <1>6
  <2> QED
    BY <2>1 DEF Routing!First
<1>7. \A i \in I : next = E[i].to
  <2> SUFFICES ASSUME NEW i \in I PROVE next = E[i].to
    OBVIOUS
  <2>1. CASE i \in keyed
    <3>1. First1(keyed) = i
      BY <1>3, <1>6, <2>1
    <3> QED
      BY <2>1, <3>1
  <2>2. CASE i \notin keyed
    <3>1. i \in unkeyed /\ keyed = {}
      BY <1>3, <1>4, <2>2
    <3>2. First1(unkeyed) = i
      BY <1>3, <1>6, <3>1
    <3> QED
      BY <3>1, <3>2
  <2> QED
    BY <2>1, <2>2
<1>8. I = {} => next = {}
  BY <1>3
<1> HIDE DEF next
<1>9. CASE \E i \in I : i \in Seen(g.edges)
  <2>1. PICK i \in I : i \in Seen(g.edges)
    BY <1>9
  <2>2. Group(E[i]) = <<from, Told(key)>>
    BY DEF Group
  <2> QED
    BY <1>1, <1>7, <2>1, <2>2 DEF LeadsTo
<1>10. CASE ~ \E i \in I : i \in Seen(g.edges)
  <2>1. Leads(g, from, key) = {END}
    <3>1. CASE I = {}
      BY <1>1, <1>8, <3>1
    <3>2. CASE I # {}
      <4>1. PICK i \in I : TRUE
        BY <3>2
      <4>2. E[i].from # END /\ ToEnd(E[i])
        BY <1>10, <4>1 DEF Seen
      <4>3. E[i].to = {END}
        BY <4>2 DEF ToEnd
      <4> QED
        BY <1>1, <1>7, <4>1, <4>3
    <3> QED
      BY <3>1, <3>2
  <2>2. ASSUME NEW i \in Seen(g.edges), Group(g.edges[i]) = <<from, Told(key)>> PROVE FALSE
    <3>1. i \in I
      BY <2>2 DEF Group, Seen
    <3> QED
      BY <1>10, <3>1
  <2> QED
    BY <2>1, <2>2
<1> QED
  BY <1>9, <1>10


\* An empty diff tells that the shapes of the edges are the same.
LEMMA SameShapes ==
  ASSUME NEW before, NEW after, IsFiniteSet(Seen(before.edges)), IsFiniteSet(Seen(after.edges)),
         IsEmpty(Diff(before, after))
  PROVE  Shapes(before) = Shapes(after)
<1>1. DOMAIN EdgeChanges(before, after) = {}
  BY DEF IsEmpty, Diff
<1>2. \A k : GroupsAt(before, k) = GroupsAt(after, k)
  BY <1>1, ChangesAre
<1>3. \A s : Times(Shapes(before), s) = Times(Shapes(after), s)
  <2> TAKE s
  <2>1. /\ Times(GroupsAt(before, KeyOf(s)), s) = Times(Shapes(before), s)
        /\ Times(GroupsAt(after, KeyOf(s)), s) = Times(Shapes(after), s)
    BY GroupsAtIs
  <2> QED
    BY <1>2, <2>1
<1>4. IsBag(Shapes(before)) /\ IsBag(Shapes(after))
  BY ShapesAtIs DEF Shapes
<1> QED
  BY <1>3, <1>4, BagsEqual

\* The shapes of a graph are those of the edges a diff looks at.
LEMMA ShapesOf ==
  \A g, s : s \in DOMAIN Shapes(g) <=> \E i \in Seen(g.edges) : EdgeShape(g.edges[i]) = s
BY DEF Shapes, ShapesAt

\* Edges of one shape lead to the same, if the routers are the same.
LEMMA SameEdge ==
  ASSUME NEW before, NEW after,
         \A l \in DOMAIN after.edges : after.edges[l].kind \in {"direct", "conditional"},
         Unambiguous(before), RoutersOf(before) = RoutersOf(after),
         NEW i \in Seen(before.edges), NEW j \in Seen(after.edges),
         EdgeShape(after.edges[j]) = EdgeShape(before.edges[i])
  PROVE  after.edges[j].to = before.edges[i].to /\ Group(after.edges[j]) = Group(before.edges[i])
<1> DEFINE x == before.edges[i]
           y == after.edges[j]
<1>1. /\ x.from = y.from /\ Key(x) = Key(y) /\ x.kind = y.kind
      /\ (IF x.kind = "direct" THEN x.to ELSE {}) = (IF y.kind = "direct" THEN y.to ELSE {})
  BY DEF EdgeShape
<1>2. Group(y) = Group(x)
  BY <1>1 DEF Group
<1>3. CASE x.kind = "direct"
  BY <1>1, <1>2, <1>3
<1>4. CASE x.kind # "direct"
  <2>1. y.kind = "conditional"
    BY <1>1, <1>4 DEF Seen
  <2>2. y \in RoutersOf(after)
    BY <2>1 DEF RoutersOf, ToSet, Seen
  <2>3. PICK l \in DOMAIN before.edges : before.edges[l] = y
    BY <2>2 DEF RoutersOf, ToSet
  <2>4. l = i
    BY <1>1, <2>3 DEF Unambiguous, Seen
  <2> QED
    BY <1>2, <2>3, <2>4
<1> QED
  BY <1>3, <1>4

\* The diff of any two builders is exact.
LEMMA DiffTells ==
  ASSUME NEW before, NEW after, IsBuilder(before), IsBuilder(after)
  PROVE  DiffIsExact(before, after)
<1> DEFINE d == Diff(before, after)
<1>1. \A g \in {before, after} : IsFiniteSet(Seen(g.edges)) /\ DOMAIN g.edges = 1 .. Len(g.edges)
  <2> SUFFICES ASSUME NEW g \in {before, after}
               PROVE  IsFiniteSet(Seen(g.edges)) /\ DOMAIN g.edges = 1 .. Len(g.edges)
    OBVIOUS
  <2>1. Len(g.edges) \in Nat /\ DOMAIN g.edges = 1 .. Len(g.edges)
    BY DEF IsBuilder
  <2>2. Seen(g.edges) \in SUBSET (1 .. Len(g.edges)) /\ IsFiniteSet(1 .. Len(g.edges))
    BY <2>1, UpTo DEF Seen
  <2> QED
    BY <2>1, <2>2, FS_Subset
<1>2. NodesPatched(before.nodes, d.nodes) = after.nodes
  <2>1. d.nodes = NodeChanges(before, after)
    BY DEF Diff
  <2>2. /\ before.nodes = [i \in DOMAIN before.nodes |-> before.nodes[i]]
        /\ after.nodes = [i \in DOMAIN after.nodes |-> after.nodes[i]]
        /\ END \notin DOMAIN before.nodes /\ END \notin DOMAIN after.nodes
    BY DEF IsBuilder
  <2> HIDE DEF d
  <2> QED
    BY <2>1, <2>2, NodesPatchedIs
<1>3. ShapesPatched(Shapes(before), d.edges) = Shapes(after)
  <2>1. d.edges = EdgeChanges(before, after)
    BY DEF Diff
  <2> HIDE DEF d
  <2> QED
    BY <1>1, <2>1, EdgesPatched
<1>4. /\ PartPatched(before.entry, d.entry) = after.entry
      /\ PartPatched(before.name, d.name) = after.name
      /\ PartPatched(before.description, d.description) = after.description
  <2>1. \A x, y : PartPatched(x, Changed(x, y)) = y
    BY DEF PartPatched, Changed
  <2> QED
    BY <2>1 DEF Diff
<1>5. Summary(d).nodesAdded + Cardinality(DOMAIN before.nodes)
        = Summary(d).nodesRemoved + Cardinality(DOMAIN after.nodes)
  <2>1. d.nodes = NodeChanges(before, after)
    BY DEF Diff
  <2>2. /\ IsFiniteSet(DOMAIN before.nodes) /\ IsFiniteSet(DOMAIN after.nodes)
        /\ END \notin DOMAIN before.nodes /\ END \notin DOMAIN after.nodes
    BY DEF IsBuilder
  <2> HIDE DEF d
  <2> QED
    BY <2>1, <2>2, NodesCounted
<1>6. Summary(d).edgesAdded + Size(Shapes(before)) = Summary(d).edgesRemoved + Size(Shapes(after))
  <2>1. d.edges = EdgeChanges(before, after)
    BY DEF Diff
  <2> HIDE DEF d
  <2> QED
    BY <1>1, <2>1, EdgesCounted
<1>7. ASSUME IsEmpty(d), Unambiguous(before), Unambiguous(after), RoutersOf(before) = RoutersOf(after),
             NEW from \in DOMAIN after.nodes, NEW key \in Keys \cup {CONTINUE}
      PROVE  Leads(before, from, key) = Leads(after, from, key)
  <2>1. from # END
    BY DEF IsBuilder
  <2> DEFINE k == <<from, Told(key)>>
             Led(g) == \/ \E i \in Seen(g.edges) :
                             Group(g.edges[i]) = k /\ Leads(g, from, key) = LeadsTo(g.edges[i])
                       \/ /\ \A i \in Seen(g.edges) : Group(g.edges[i]) # k
                          /\ Leads(g, from, key) = {END}
  <2>2. Led(before) /\ Led(after)
    <3>1. \A g \in {before, after} : \E n \in Nat : DOMAIN g.edges = 1 .. n
      BY <1>1 DEF IsBuilder
    <3> QED
      BY <1>7, <2>1, <3>1, LeadsIs
  <2>9. Shapes(before) = Shapes(after)
    <3> HIDE DEF d
    <3> QED
      BY <1>1, <1>7, SameShapes DEF d
  <2>3. ASSUME NEW i \in Seen(before.edges)
        PROVE  \E j \in Seen(after.edges) : /\ after.edges[j].to = before.edges[i].to
                                            /\ Group(after.edges[j]) = Group(before.edges[i])
    <3>1. PICK j \in Seen(after.edges) : EdgeShape(after.edges[j]) = EdgeShape(before.edges[i])
      BY <2>9, ShapesOf
    <3>2. after.edges[j].to = before.edges[i].to /\ Group(after.edges[j]) = Group(before.edges[i])
      BY <1>7, <3>1, SameEdge DEF IsBuilder
    <3> QED
      BY <3>2
  <2>4. ASSUME NEW j \in Seen(after.edges)
        PROVE  \E i \in Seen(before.edges) : /\ after.edges[j].to = before.edges[i].to
                                             /\ Group(after.edges[j]) = Group(before.edges[i])
    <3>1. PICK i \in Seen(before.edges) : EdgeShape(after.edges[j]) = EdgeShape(before.edges[i])
      BY <2>9, ShapesOf
    <3>2. after.edges[j].to = before.edges[i].to /\ Group(after.edges[j]) = Group(before.edges[i])
      BY <1>7, <3>1, SameEdge DEF IsBuilder
    <3> QED
      BY <3>2
  <2>5. \A i, j \in Seen(after.edges) : Group(after.edges[i]) = Group(after.edges[j]) => i = j
    BY <1>7 DEF Unambiguous, Group, Seen
  <2>6. CASE \E i \in Seen(before.edges) : Group(before.edges[i]) = k
    <3>1. PICK i \in Seen(before.edges) :
            Group(before.edges[i]) = k /\ Leads(before, from, key) = LeadsTo(before.edges[i])
      BY <2>2, <2>6
    <3>2. PICK j \in Seen(after.edges) : /\ after.edges[j].to = before.edges[i].to
                                         /\ Group(after.edges[j]) = k
      BY <2>3, <3>1
    <3>3. Leads(after, from, key) = LeadsTo(after.edges[j])
      BY <2>2, <2>5, <3>2
    <3> QED
      BY <3>1, <3>2, <3>3 DEF LeadsTo
  <2>7. CASE ~ \E i \in Seen(before.edges) : Group(before.edges[i]) = k
    <3>1. \A j \in Seen(after.edges) : Group(after.edges[j]) # k
      BY <2>4, <2>7
    <3> QED
      BY <2>2, <2>7, <3>1
  <2> QED
    BY <2>6, <2>7
<1> HIDE DEF d
<1> QED
  BY <1>2, <1>3, <1>4, <1>5, <1>6, <1>7, NoDifference DEF DiffIsExact, d


\* add_node, add_edge and the setters make builders of builders.
LEMMA NodeAdded ==
  ASSUME NEW b, NEW id, id # END, NEW text, IsBuilder(b)
  PROVE  IsBuilder(AddNode(b, id, text))
<1> DEFINE c == AddNode(b, id, text)
           D == DOMAIN b.nodes \cup {id}
<1>1. /\ c.nodes = [i \in D |-> c.nodes[i]] /\ DOMAIN c.nodes = D
      /\ c.edges = b.edges /\ c.entry = b.entry /\ c.name = b.name /\ c.description = b.description
      /\ c = [nodes |-> c.nodes, edges |-> c.edges, entry |-> c.entry, name |-> c.name,
              description |-> c.description]
  <2> DEFINE more == [i \in D |-> IF i = id THEN text ELSE b.nodes[i]]
  <2>1. DOMAIN more = D /\ more = [i \in D |-> more[i]]
    OBVIOUS
  <2>2. c = [b EXCEPT !.nodes = more]
    BY DEF AddNode
  <2> HIDE DEF more
  <2>3. b = [nodes |-> b.nodes, edges |-> b.edges, entry |-> b.entry, name |-> b.name,
             description |-> b.description]
    BY DEF IsBuilder
  <2>4. c = [nodes |-> more, edges |-> b.edges, entry |-> b.entry, name |-> b.name,
             description |-> b.description]
    BY <2>2, <2>3
  <2> HIDE DEF c, D
  <2> QED
    BY <2>1, <2>4
<1>2. IsFiniteSet(D) /\ END \notin D
  BY FS_AddElement DEF IsBuilder
<1> HIDE DEF c, D
<1> QED
  BY <1>1, <1>2 DEF IsBuilder, c

LEMMA EdgeAdded ==
  ASSUME NEW b, NEW edge, edge.kind \in {"direct", "conditional"}, IsBuilder(b)
  PROVE  IsBuilder(AddEdge(b, edge))
<1> DEFINE c == AddEdge(b, edge)
           n == Len(b.edges)
           S == {b.edges[i] : i \in 1 .. n} \cup {edge}
<1>1. n \in Nat /\ b.edges = [i \in 1 .. n |-> b.edges[i]]
  BY DEF IsBuilder
<1>2. b.edges \in Seq(S)
  BY <1>1
<1>3. /\ Append(b.edges, edge) \in Seq(S) /\ Len(Append(b.edges, edge)) = n + 1
      /\ \A i \in 1 .. n : Append(b.edges, edge)[i] = b.edges[i]
      /\ Append(b.edges, edge)[n + 1] = edge
  BY <1>2, AppendProperties
<1>4. c = [b EXCEPT !.edges = Append(b.edges, edge)]
  BY DEF AddEdge
<1>5. b = [nodes |-> b.nodes, edges |-> b.edges, entry |-> b.entry, name |-> b.name,
           description |-> b.description]
  BY DEF IsBuilder
<1> DEFINE more == Append(b.edges, edge)
<1> HIDE DEF more
<1>6. c = [nodes |-> b.nodes, edges |-> more, entry |-> b.entry, name |-> b.name,
           description |-> b.description]
  BY <1>4, <1>5 DEF more
<1>7. /\ Len(more) \in Nat /\ more = [i \in 1 .. Len(more) |-> more[i]] /\ DOMAIN more = 1 .. Len(more)
  BY <1>1, <1>3 DEF more
<1>8. \A i \in DOMAIN more : more[i].kind \in {"direct", "conditional"}
  <2> SUFFICES ASSUME NEW i \in 1 .. n + 1 PROVE more[i].kind \in {"direct", "conditional"}
    BY <1>3, <1>7 DEF more
  <2>1. CASE i = n + 1
    BY <1>3, <2>1 DEF more
  <2>2. CASE i # n + 1
    <3>1. i \in 1 .. n /\ i \in DOMAIN b.edges
      BY <1>1, <2>2
    <3> QED
      BY <1>3, <3>1 DEF more, IsBuilder
  <2> QED
    BY <2>1, <2>2
<1> HIDE DEF c
<1> QED
  BY <1>6, <1>7, <1>8 DEF IsBuilder, c

LEMMA FieldSet ==
  ASSUME NEW b, NEW x, IsBuilder(b)
  PROVE  IsBuilder(SetName(b, x)) /\ IsBuilder(SetDescription(b, x)) /\ IsBuilder(SetEntryPoint(b, x))
<1>1. b = [nodes |-> b.nodes, edges |-> b.edges, entry |-> b.entry, name |-> b.name,
           description |-> b.description]
  BY DEF IsBuilder
<1>2. SetName(b, x) = [nodes |-> b.nodes, edges |-> b.edges, entry |-> b.entry, name |-> x,
                       description |-> b.description]
  BY <1>1 DEF SetName
<1>3. SetDescription(b, x) = [nodes |-> b.nodes, edges |-> b.edges, entry |-> b.entry, name |-> b.name,
                              description |-> x]
  BY <1>1 DEF SetDescription
<1>4. SetEntryPoint(b, x) = [nodes |-> b.nodes, edges |-> b.edges, entry |-> x, name |-> b.name,
                             description |-> b.description]
  BY <1>1 DEF SetEntryPoint
<1>5. IsBuilder(SetName(b, x))
  BY <1>2 DEF IsBuilder
<1>6. IsBuilder(SetDescription(b, x))
  BY <1>3 DEF IsBuilder
<1>7. IsBuilder(SetEntryPoint(b, x))
  BY <1>4 DEF IsBuilder
<1> QED
  BY <1>5, <1>6, <1>7

\* Both sides stay builders.
Builders == sides = [s \in Sides |-> sides[s]] /\ \A s \in Sides : IsBuilder(sides[s])

LEMMA StaysBuilders == Builders /\ [DiffNext]_diffVars => Builders'
<1> SUFFICES ASSUME Builders, [DiffNext]_diffVars PROVE Builders'
  OBVIOUS
<1>0. ASSUME NEW s \in Sides, NEW b, IsBuilder(b), Edit(s, b) PROVE Builders'
  BY <1>0 DEF Builders, Edit
<1>1. \A s \in Sides : IsBuilder(sides[s])
  BY DEF Builders
<1>2. CASE Describe
  BY <1>0, <1>1, <1>2, FieldSet DEF Describe
<1>3. CASE PutNode
  <2>1. PICK s \in Sides, id \in Names, text \in Texts \cup {None} : Edit(s, AddNode(sides[s], id, text))
    BY <1>3 DEF PutNode
  <2>2. id # END
    BY BuildersAssumption
  <2> QED
    BY <1>0, <1>1, <2>1, <2>2, NodeAdded
<1>4. CASE Enter
  BY <1>0, <1>1, <1>4, FieldSet DEF Enter
<1>5. /\ \A from, key, to : DirectEdge(from, key, to).kind = "direct"
      /\ \A from, key, r : ConditionalEdge(from, key, r).kind = "conditional"
  BY DEF DirectEdge, ConditionalEdge
<1>6. CASE Connect
  BY <1>0, <1>1, <1>5, <1>6, EdgeAdded DEF Connect
<1>7. CASE EndAfter
  BY <1>0, <1>1, <1>5, <1>7, EdgeAdded DEF EndAfter, AddEdgeToEnd
<1>8. CASE UNCHANGED diffVars
  BY <1>8 DEF diffVars, Builders
<1> QED
  BY <1>2, <1>3, <1>4, <1>6, <1>7, <1>8 DEF DiffNext

\* DiffsAreExact follows.
LEMMA BuildersTell == Builders => DiffsAreExact
<1> SUFFICES ASSUME Builders PROVE DiffsAreExact
  OBVIOUS
<1> DEFINE b == sides["before"]
           a == sides["after"]
<1>1. IsBuilder(b) /\ IsBuilder(a)
  BY DEF Builders, Sides
<1>2. Compile(b) \in {b, None} /\ Compile(a) \in {a, None}
  BY DEF Compile
<1>3. DiffIsExact(b, a)
  BY <1>1, DiffTells
<1> HIDE DEF a, b
<1>4. Compile(b) # None /\ Compile(a) # None => DiffIsExact(Compile(b), Compile(a))
  BY <1>2, <1>3
<1> QED
  BY <1>4 DEF DiffsAreExact, a, b

\* DiffsAreExact, for any names, keys, routers and texts and any number of edits
\* on either side: the diff of two compiled graphs turns one into the other, its
\* counts add up, and an empty one means the graphs lead the same way
\* (CompiledGraph::diff).
THEOREM DiffsStayExact == DiffSpec => []DiffsAreExact
<1>1. DiffInit => Builders
  BY BuildersAssumption DEF DiffInit, Builders, Sides
<1> QED
  BY <1>1, StaysBuilders, BuildersTell, PTL DEF DiffSpec

-----------------------------------------------------------------------------
\* The loops of the planner.  First the loop of propagate_blocked_status.

IsGiven(g) == \E D \in SUBSET Ids : g \in [D -> AnyTask]

\* A task whose block was lifted.
Lifted(task) == IF task.status = "blocked" THEN [task EXCEPT !.status = "pending"] ELSE task
Blocked(task) == [task EXCEPT !.status = "blocked"]

\* Between two passes: tasks that must be blocked may be, others are not.
HalfBlocked(g, p) ==
  /\ p = [t \in DOMAIN g |-> p[t]]
  /\ \A t \in DOMAIN g : \/ p[t] = Lifted(g[t])
                         \/ t \in BlockedTasks(g) /\ p[t] = Blocked(g[t])

LoopOK ==
  /\ IsGiven(given)
  /\ pc = "reset" => tasks = given
  /\ pc = "loop" => HalfBlocked(given, tasks)
  /\ pc = "done" => tasks = Propagated(given)

\* What lifting and blocking leave of a task.
LEMMA TaskIs ==
  ASSUME NEW task \in AnyTask
  PROVE  /\ task.status \in Status /\ task.deps \subseteq Ids
         /\ Lifted(task).deps = task.deps /\ Blocked(task).deps = task.deps
         /\ Blocked(task).status = "blocked" /\ Lifted(task).status # "blocked"
         /\ Lifted(task).status = "failed" <=> task.status = "failed"
         /\ Lifted(task).status \in {"pending", "running"} <=> task.status \in {"pending", "running", "blocked"}
         /\ [Lifted(task) EXCEPT !.status = "blocked"] = Blocked(task)
BY DEF AnyTask, Status, Lifted, Blocked

\* One pass blocks only tasks that must be blocked.
LEMMA PassIs ==
  ASSUME LoopOK, pc = "loop"
  PROVE  /\ \A t \in DOMAIN given : t \in Blocks => t \in BlockedTasks(given) /\ tasks[t] = Lifted(given[t])
         /\ Blocks = {} => tasks = Propagated(given)
<1> DEFINE F == WithStatus(given, "failed")
           B == WithStatus(tasks, "blocked")
<1>1. HalfBlocked(given, tasks) /\ DOMAIN tasks = DOMAIN given
  BY DEF LoopOK, HalfBlocked
<1>2. \A t \in DOMAIN given : given[t] \in AnyTask
  BY DEF LoopOK, IsGiven
<1>3. \A t \in DOMAIN given :
        /\ tasks[t].deps = given[t].deps
        /\ tasks[t].status = "failed" <=> (given[t].status = "failed")
        /\ tasks[t].status = "blocked" => t \in BlockedTasks(given)
        /\ tasks[t].status # "blocked" => tasks[t] = Lifted(given[t])
        /\ t \in Stoppable(given) <=> tasks[t].status \in {"pending", "running", "blocked"}
  <2> SUFFICES ASSUME NEW t \in DOMAIN given
               PROVE  /\ tasks[t].deps = given[t].deps
                      /\ tasks[t].status = "failed" <=> (given[t].status = "failed")
                      /\ tasks[t].status = "blocked" => t \in BlockedTasks(given)
                      /\ tasks[t].status # "blocked" => tasks[t] = Lifted(given[t])
                      /\ t \in Stoppable(given) <=> tasks[t].status \in {"pending", "running", "blocked"}
    OBVIOUS
  <2>1. given[t] \in AnyTask
    BY <1>2
  <2>2. CASE tasks[t] = Lifted(given[t])
    BY <2>1, <2>2, TaskIs DEF Stoppable
  <2>3. CASE t \in BlockedTasks(given) /\ tasks[t] = Blocked(given[t])
    <3>1. t \in Stoppable(given)
      BY <2>3 DEF BlockedTasks
    <3>2. given[t].status # "failed"
      BY <3>1 DEF Stoppable
    <3> QED
      BY <2>1, <2>3, <3>1, <3>2, TaskIs
  <2> QED
    BY <1>1, <2>2, <2>3 DEF HalfBlocked
<1>4. WithStatus(tasks, "failed") = F /\ B \subseteq BlockedTasks(given)
  BY <1>1, <1>3 DEF WithStatus
<1>5. ASSUME NEW t \in DOMAIN given, t \in Blocks
      PROVE  t \in BlockedTasks(given) /\ tasks[t] = Lifted(given[t])
  <2>1. tasks[t].status \in {"pending", "running"} /\ tasks[t].deps \cap (F \cup B) # {}
    BY <1>4, <1>5 DEF Blocks, WithStatus
  <2>2. t \in Stoppable(given) /\ tasks[t] = Lifted(given[t]) /\ given[t].deps \cap (F \cup BlockedTasks(given)) # {}
    <3> HIDE DEF F, B
    <3> QED
      BY <1>3, <1>4, <2>1
  <2> QED
    BY <2>2, BlockedIsFixpoint
<1>6. ASSUME Blocks = {} PROVE tasks = Propagated(given)
  <2>1. \A t \in Stoppable(given) : given[t].deps \cap (F \cup B) # {} => t \in B
    <3> SUFFICES ASSUME NEW t \in Stoppable(given), given[t].deps \cap (F \cup B) # {}, t \notin B
                 PROVE  FALSE
      OBVIOUS
    <3>1. t \in DOMAIN given /\ t \in DOMAIN tasks
      BY <1>1 DEF Stoppable
    <3>2. tasks[t].status \in {"pending", "running"} /\ tasks[t].deps \cap (F \cup B) # {}
      BY <1>3, <3>1 DEF WithStatus
    <3>3. t \in Blocks
      BY <1>4, <3>1, <3>2 DEF Blocks, WithStatus
    <3> QED
      BY <1>6, <3>3
  <2>2. B \in SUBSET Stoppable(given)
    BY <1>4 DEF BlockedTasks
  <2>3. BlockedTasks(given) \subseteq B
    <3> HIDE DEF B
    <3> QED
      BY <2>1, <2>2 DEF BlockedTasks
  <2>4. \A t \in DOMAIN given : tasks[t] = IF t \in BlockedTasks(given) THEN Blocked(given[t]) ELSE Lifted(given[t])
    <3> SUFFICES ASSUME NEW t \in DOMAIN given
                 PROVE  tasks[t] = IF t \in BlockedTasks(given) THEN Blocked(given[t]) ELSE Lifted(given[t])
      OBVIOUS
    <3>1. CASE t \in BlockedTasks(given)
      <4>1. tasks[t].status = "blocked"
        BY <2>3, <3>1 DEF WithStatus
      <4>2. tasks[t] # Lifted(given[t])
        BY <1>2, <4>1, TaskIs
      <4> QED
        BY <1>1, <3>1, <4>2 DEF HalfBlocked
    <3>2. CASE t \notin BlockedTasks(given)
      BY <1>1, <3>2 DEF HalfBlocked
    <3> QED
      BY <3>1, <3>2
  <2>5. Propagated(given) = [t \in DOMAIN given |-> IF t \in BlockedTasks(given) THEN Blocked(given[t]) ELSE Lifted(given[t])]
    BY DEF Propagated, Blocked, Lifted
  <2>6. tasks = [t \in DOMAIN given |-> tasks[t]]
    BY <1>1 DEF HalfBlocked
  <2> QED
    BY <2>4, <2>5, <2>6
<1> QED
  BY <1>5, <1>6

\* Every step of a loop keeps it half blocked until it is done.
LEMMA LoopStays == LoopOK /\ [PlanNext]_planVars => LoopOK'
<1> SUFFICES ASSUME LoopOK, [PlanNext]_planVars PROVE LoopOK'
  OBVIOUS
<1>1. CASE Reset
  <2>1. /\ tasks' = [t \in DOMAIN given |-> Lifted(given[t])] /\ given' = given /\ pc' = "loop"
    BY <1>1 DEF Reset, LoopOK, Lifted
  <2>2. HalfBlocked(given, tasks')
    BY <2>1 DEF HalfBlocked
  <2> QED
    BY <2>1, <2>2 DEF LoopOK
<1>2. CASE Pass
  <2>1. /\ pc = "loop" /\ given' = given /\ HalfBlocked(given, tasks) /\ DOMAIN tasks = DOMAIN given
        /\ tasks' = [t \in DOMAIN given |-> IF t \in Blocks THEN [tasks[t] EXCEPT !.status = "blocked"] ELSE tasks[t]]
        /\ pc' = IF Blocks = {} THEN "done" ELSE "loop"
    BY <1>2 DEF Pass, LoopOK, HalfBlocked
  <2>2. \A t \in DOMAIN given : given[t] \in AnyTask
    BY DEF LoopOK, IsGiven
  <2>3. HalfBlocked(given, tasks')
    <3>1. ASSUME NEW t \in DOMAIN given
          PROVE  \/ tasks'[t] = Lifted(given[t])
                 \/ t \in BlockedTasks(given) /\ tasks'[t] = Blocked(given[t])
      <4>1. CASE t \in Blocks
        <5>1. tasks[t] = Lifted(given[t]) /\ t \in BlockedTasks(given)
          BY <2>1, <4>1, PassIs
        <5>2. tasks'[t] = [Lifted(given[t]) EXCEPT !.status = "blocked"]
          BY <2>1, <4>1, <5>1
        <5> QED
          BY <2>2, <5>1, <5>2, TaskIs
      <4>2. CASE t \notin Blocks
        BY <2>1, <4>2 DEF HalfBlocked
      <4> QED
        BY <4>1, <4>2
    <3>2. tasks' = [t \in DOMAIN given |-> tasks'[t]]
      BY <2>1
    <3> QED
      BY <3>1, <3>2 DEF HalfBlocked
  <2>4. Blocks = {} => tasks' = Propagated(given)
    <3> SUFFICES ASSUME Blocks = {} PROVE tasks' = Propagated(given)
      OBVIOUS
    <3>1. tasks' = [t \in DOMAIN given |-> tasks[t]]
      BY <2>1
    <3>2. tasks = [t \in DOMAIN given |-> tasks[t]]
      BY <2>1 DEF HalfBlocked
    <3>3. tasks = Propagated(given)
      BY <2>1, PassIs
    <3> QED
      BY <3>1, <3>2, <3>3
  <2> QED
    BY <2>1, <2>3, <2>4 DEF LoopOK
<1>3. CASE Descend \/ Look \/ Leave \/ NoCycle
  BY <1>3 DEF LoopOK, Descend, Look, Leave, NoCycle
<1>4. CASE WalkFrom \/ Pop \/ Tally
  BY <1>4 DEF LoopOK, WalkFrom, Pop, Tally
<1>5. CASE UNCHANGED planVars
  BY <1>5 DEF LoopOK, planVars
<1> QED
  BY <1>1, <1>2, <1>3, <1>4, <1>5 DEF PlanNext

-----------------------------------------------------------------------------
\* The search of has_cycles.

Needs(g, t) == IF t \in DOMAIN g THEN g[t].deps ELSE {}

\* p is the path of calls, m the marks: an id is being visited if it is on the
\* path, the calls follow dependencies, what a call has looked at is visited or
\* is the next call, and the visited ids are closed and without a cycle.
OnPath(p, i) == \E k \in 1 .. Len(p) : p[k].node = i

PathOK(g, p, m) ==
  /\ \A k, l \in 1 .. Len(p) : p[k].node = p[l].node => k = l
  /\ \A k \in 1 .. Len(p) : p[k].node \in Ids /\ p[k].deps \subseteq Needs(g, p[k].node)
  /\ \A k \in 1 .. Len(p) : \A d \in Needs(g, p[k].node) \ p[k].deps :
       m[d] = 2 \/ (k < Len(p) /\ d = p[k + 1].node)
  /\ \A k \in 1 .. Len(p) : k < Len(p) => p[k + 1].node \in Needs(g, p[k].node)

MarksOK(g, p, m) ==
  /\ m \in [Ids -> {0, 1, 2}]
  /\ \A i \in Ids : m[i] = 1 <=> OnPath(p, i)
  /\ \A t \in Ids : m[t] = 2 => \A d \in Needs(g, t) : m[d] = 2
  /\ \A S \in SUBSET Ids : (\A t \in S : m[t] = 2 /\ Needs(g, t) \cap S # {}) => S = {}

CyclesOK ==
  /\ path \in Seq([node : Ids, deps : SUBSET Ids])
  /\ PathOK(given, path, mark) /\ MarksOK(given, path, mark)
  /\ pc = "cyclic" => HasCycles(given)
  /\ pc = "acyclic" => ~ HasCycles(given)

\* What a task needs are ids; an id that is not in the plan needs nothing.
LEMMA NeedsAre ==
  ASSUME NEW g, IsGiven(g)
  PROVE  DOMAIN g \subseteq Ids /\ \A t : Needs(g, t) \subseteq Ids /\ (t \notin DOMAIN g => Needs(g, t) = {})
BY DEF IsGiven, AnyTask, Needs

\* The path without the innermost call.
LEMMA FrontIs ==
  ASSUME NEW C, NEW p \in Seq(C), p # <<>>
  PROVE  LET n == Len(p)
             r == SubSeq(p, 1, n - 1)
         IN  /\ n \in Nat /\ n > 0 /\ \A k \in 1 .. n : p[k] \in C
             /\ r \in Seq(C) /\ Len(r) = n - 1 /\ \A k \in 1 .. n - 1 : r[k] = p[k]
<1> DEFINE n == Len(p)
<1>1. n \in Nat /\ n > 0 /\ \A k \in 1 .. n : p[k] \in C
  BY EmptySeq, LenProperties
<1> HIDE DEF n
<1>2. 1 \in Int /\ n - 1 \in Int /\ \A i \in 1 .. n - 1 : p[i] \in C
  BY <1>1
<1>3. /\ SubSeq(p, 1, n - 1) \in Seq(C)
      /\ Len(SubSeq(p, 1, n - 1)) = IF 1 <= n - 1 THEN n - 1 - 1 + 1 ELSE 0
      /\ \A i \in 1 .. n - 1 - 1 + 1 : SubSeq(p, 1, n - 1)[i] = p[1 + i - 1]
  BY <1>2, SubSeqProperties
<1>4. Len(SubSeq(p, 1, n - 1)) = n - 1 /\ \A k \in 1 .. n - 1 : SubSeq(p, 1, n - 1)[k] = p[k]
  BY <1>1, <1>3
<1> QED
  BY <1>1, <1>3, <1>4 DEF n

\* The path with one dependency of the innermost call looked at.
LEMMA SeenIs ==
  ASSUME NEW p \in Seq([node : Ids, deps : SUBSET Ids]), p # <<>>, NEW d
  PROVE  LET n == Len(p)
             q == Append(SubSeq(p, 1, n - 1), [p[n] EXCEPT !.deps = @ \ {d}])
         IN  /\ n \in Nat /\ n > 0 /\ q \in Seq([node : Ids, deps : SUBSET Ids]) /\ Len(q) = n
             /\ \A k \in 1 .. n : /\ q[k].node = p[k].node
                                  /\ q[k].deps = IF k = n THEN p[k].deps \ {d} ELSE p[k].deps
<1> DEFINE C == [node : Ids, deps : SUBSET Ids]
           n == Len(p)
           r == SubSeq(p, 1, n - 1)
           c == [p[n] EXCEPT !.deps = @ \ {d}]
           q == Append(r, c)
<1>1. /\ n \in Nat /\ n > 0 /\ \A k \in 1 .. n : p[k] \in C
      /\ r \in Seq(C) /\ Len(r) = n - 1 /\ \A k \in 1 .. n - 1 : r[k] = p[k]
  <2> HIDE DEF C
  <2>1. p \in Seq(C)
    BY DEF C
  <2> QED
    BY <2>1, FrontIs
<1>2. c \in C /\ c.node = p[n].node /\ c.deps = p[n].deps \ {d}
  BY <1>1
<1> HIDE DEF C, r, c
<1>4. q \in Seq(C) /\ Len(q) = n /\ q[n] = c /\ \A k \in 1 .. n - 1 : q[k] = p[k]
  <2>1. /\ Append(r, c) \in Seq(C) /\ Len(Append(r, c)) = Len(r) + 1
        /\ \A k \in 1 .. Len(r) : Append(r, c)[k] = r[k]
        /\ Append(r, c)[Len(r) + 1] = c
    BY <1>1, <1>2, AppendProperties
  <2> QED
    BY <1>1, <2>1
<1> HIDE DEF q
<1>5. ASSUME NEW k \in 1 .. n
      PROVE  q[k].node = p[k].node /\ q[k].deps = IF k = n THEN p[k].deps \ {d} ELSE p[k].deps
  <2>1. CASE k = n
    BY <1>2, <1>4, <2>1
  <2>2. CASE k # n
    <3>1. k \in 1 .. n - 1
      BY <1>1, <2>2
    <3> QED
      BY <1>4, <2>2, <3>1
  <2> QED
    BY <2>1, <2>2
<1> QED
  BY <1>1, <1>4, <1>5 DEF q, r, c, C

\* The path with one more call.
LEMMA CallAppended ==
  ASSUME NEW q \in Seq([node : Ids, deps : SUBSET Ids]), NEW c \in [node : Ids, deps : SUBSET Ids]
  PROVE  LET r == Append(q, c)
         IN  /\ Len(q) \in Nat /\ r \in Seq([node : Ids, deps : SUBSET Ids]) /\ Len(r) = Len(q) + 1
             /\ r[Len(r)] = c /\ \A k \in 1 .. Len(q) : r[k] = q[k]
BY AppendProperties

\* A call of dfs for an id no search has met: the first, or one the innermost
\* call makes.
Callable(g, q, m, t) ==
  /\ m[t] = 0
  /\ \A k, l \in 1 .. Len(q) : q[k].node = q[l].node => k = l
  /\ \A k \in 1 .. Len(q) : q[k].node \in Ids /\ q[k].deps \subseteq Needs(g, q[k].node)
  /\ \A k \in 1 .. Len(q) : \A d \in Needs(g, q[k].node) \ q[k].deps :
       m[d] = 2 \/ (k < Len(q) /\ d = q[k + 1].node) \/ (k = Len(q) /\ d = t)
  /\ \A k \in 1 .. Len(q) : k < Len(q) => q[k + 1].node \in Needs(g, q[k].node)
  /\ Len(q) > 0 => t \in Needs(g, q[Len(q)].node)
  /\ MarksOK(g, q, m)

\* Such a call keeps the path and the marks in order.
LEMMA CallIs ==
  ASSUME NEW g, IsGiven(g), NEW q \in Seq([node : Ids, deps : SUBSET Ids]), NEW m,
         NEW t \in Ids, Callable(g, q, m, t)
  PROVE  LET r == Append(q, [node |-> t, deps |-> Needs(g, t)])
         IN  /\ r \in Seq([node : Ids, deps : SUBSET Ids])
             /\ PathOK(g, r, [m EXCEPT ![t] = 1]) /\ MarksOK(g, r, [m EXCEPT ![t] = 1])
<1> USE DEF Callable
<1> DEFINE c == [node |-> t, deps |-> Needs(g, t)]
           r == Append(q, c)
           marks == [m EXCEPT ![t] = 1]
           n == Len(q)
<1>1. c \in [node : Ids, deps : SUBSET Ids] /\ c.node = t /\ c.deps = Needs(g, t)
  BY NeedsAre
<1> HIDE DEF c
<1>2. /\ n \in Nat /\ r \in Seq([node : Ids, deps : SUBSET Ids]) /\ Len(r) = n + 1
      /\ r[n + 1] = c /\ \A k \in 1 .. n : r[k] = q[k]
  BY <1>1, CallAppended
<1> HIDE DEF r
<1>3. m \in [Ids -> {0, 1, 2}] /\ marks \in [Ids -> {0, 1, 2}] /\ marks[t] = 1
      /\ \A i \in Ids : i # t => marks[i] = m[i]
  BY DEF MarksOK
<1>4. \A i \in Ids : marks[i] = 2 <=> m[i] = 2
  BY <1>3
<1> HIDE DEF marks
<1>5. \A k \in 1 .. n : q[k].node # t
  BY DEF MarksOK, OnPath
<1>6. \A i \in Ids : marks[i] = 1 <=> OnPath(r, i)
  <2> SUFFICES ASSUME NEW i \in Ids PROVE marks[i] = 1 <=> OnPath(r, i)
    OBVIOUS
  <2>1. OnPath(r, i) <=> i = t \/ OnPath(q, i)
    <3>1. ASSUME NEW k \in 1 .. n + 1, r[k].node = i PROVE i = t \/ OnPath(q, i)
      <4>1. CASE k = n + 1
        BY <1>1, <1>2, <3>1, <4>1
      <4>2. CASE k # n + 1
        <5>1. k \in 1 .. n
          BY <1>2, <4>2
        <5> QED
          BY <1>2, <3>1, <5>1 DEF OnPath
      <4> QED
        BY <4>1, <4>2
    <3>2. n + 1 \in 1 .. n + 1 /\ r[n + 1].node = t
      BY <1>1, <1>2
    <3>3. ASSUME NEW k \in 1 .. n, q[k].node = i PROVE k \in 1 .. n + 1 /\ r[k].node = i
      BY <1>2, <3>3
    <3> QED
      BY <1>2, <3>1, <3>2, <3>3 DEF OnPath
  <2> QED
    BY <1>3, <2>1 DEF MarksOK
<1>7. \A u \in Ids : marks[u] = 2 => \A d \in Needs(g, u) : marks[d] = 2
  BY <1>4, NeedsAre DEF MarksOK
<1>8. \A S \in SUBSET Ids : (\A u \in S : marks[u] = 2 /\ Needs(g, u) \cap S # {}) => S = {}
  BY <1>4 DEF MarksOK
<1>9. MarksOK(g, r, marks)
  BY <1>3, <1>6, <1>7, <1>8 DEF MarksOK
<1>10. \A k \in 1 .. n + 1 : k \in 1 .. n \/ k = n + 1
  BY <1>2
<1>11. ASSUME NEW k \in 1 .. n + 1, NEW l \in 1 .. n + 1, r[k].node = r[l].node PROVE k = l
  BY <1>1, <1>2, <1>5, <1>10, <1>11
<1>12. ASSUME NEW k \in 1 .. n + 1
       PROVE  /\ r[k].node \in Ids /\ r[k].deps \subseteq Needs(g, r[k].node)
              /\ \A d \in Needs(g, r[k].node) \ r[k].deps : marks[d] = 2 \/ (k < n + 1 /\ d = r[k + 1].node)
              /\ k < n + 1 => r[k + 1].node \in Needs(g, r[k].node)
  <2>1. CASE k = n + 1
    BY <1>1, <1>2, <2>1
  <2>2. CASE k \in 1 .. n
    <3>1. r[k] = q[k] /\ k < n + 1
      BY <1>2, <2>2
    <3>2. q[k].node \in Ids /\ q[k].deps \subseteq Needs(g, q[k].node)
      BY <2>2
    <3>3. IF k = n THEN r[k + 1].node = t ELSE k < n /\ k + 1 \in 1 .. n /\ r[k + 1].node = q[k + 1].node
      BY <1>1, <1>2, <2>2
    <3>4. ASSUME NEW d \in Needs(g, q[k].node) \ q[k].deps PROVE marks[d] = 2 \/ d = r[k + 1].node
      <4>1. d \in Ids
        BY NeedsAre
      <4>2. m[d] = 2 \/ (k < n /\ d = q[k + 1].node) \/ (k = n /\ d = t)
        BY <2>2
      <4> QED
        BY <1>2, <1>4, <3>3, <4>1, <4>2
    <3>5. r[k + 1].node \in Needs(g, q[k].node)
      BY <1>2, <2>2, <3>3
    <3> QED
      BY <3>1, <3>2, <3>4, <3>5
  <2> QED
    BY <1>10, <2>1, <2>2
<1>13. PathOK(g, r, marks)
  BY <1>2, <1>11, <1>12 DEF PathOK
<1> QED
  BY <1>2, <1>9, <1>13 DEF r, marks, c

\* What Look finds.
LEMMA LookIs ==
  ASSUME IsGiven(given), CyclesOK, Look
  PROVE  /\ path' \in Seq([node : Ids, deps : SUBSET Ids])
         /\ PathOK(given, path', mark') /\ MarksOK(given, path', mark')
         /\ pc' = "cyclic" => HasCycles(given)
         /\ pc' # "acyclic"
<1> DEFINE n == Len(path)
           C == [node : Ids, deps : SUBSET Ids]
<1>1. PICK d \in Top.deps :
        LET seen == Append(Rest, [Top EXCEPT !.deps = @ \ {d}])
        IN  \/ mark[d] = 1 /\ pc' = "cyclic" /\ UNCHANGED cyclesVars
            \/ mark[d] = 0 /\ mark' = [mark EXCEPT ![d] = 1]
               /\ path' = Append(seen, Call(d)) /\ UNCHANGED pc
            \/ mark[d] = 2 /\ path' = seen /\ UNCHANGED <<pc, mark>>
  BY DEF Look
<1> DEFINE q == Append(SubSeq(path, 1, n - 1), [path[n] EXCEPT !.deps = @ \ {d}])
<1>2. q = Append(Rest, [Top EXCEPT !.deps = @ \ {d}]) /\ Top = path[n] /\ pc = "cycles"
  BY DEF Look, Rest, Top
<1>3. /\ n \in Nat /\ n > 0 /\ q \in Seq(C) /\ Len(q) = n
      /\ \A k \in 1 .. n : /\ q[k].node = path[k].node
                           /\ q[k].deps = IF k = n THEN path[k].deps \ {d} ELSE path[k].deps
  <2>1. path \in Seq(C) /\ path # <<>>
    BY DEF CyclesOK, Look
  <2> QED
    BY <2>1, SeenIs
<1> HIDE DEF q
<1>4. PathOK(given, path, mark) /\ MarksOK(given, path, mark) /\ n \in 1 .. n
  BY <1>3 DEF CyclesOK
<1>5. d \in Needs(given, path[n].node) /\ d \in Ids
  <2>1. d \in Needs(given, path[n].node)
    BY <1>1, <1>2, <1>4 DEF PathOK
  <2> QED
    BY <2>1, NeedsAre
<1>6. /\ \A k, l \in 1 .. n : q[k].node = q[l].node => k = l
      /\ \A k \in 1 .. n : q[k].node \in Ids /\ q[k].deps \subseteq Needs(given, q[k].node)
      /\ \A k \in 1 .. n : k < n => q[k + 1].node \in Needs(given, q[k].node)
  <2>1. \A k \in 1 .. n : k < n => k + 1 \in 1 .. n
    BY <1>3
  <2> HIDE DEF n
  <2> QED
    BY <1>3, <1>4, <2>1 DEF PathOK, n
<1>7. ASSUME NEW k \in 1 .. n, NEW e \in Needs(given, q[k].node) \ q[k].deps
      PROVE  mark[e] = 2 \/ (k < n /\ e = q[k + 1].node) \/ (k = n /\ e = d)
  <2>1. CASE e \in path[k].deps
    BY <1>3, <1>7, <2>1
  <2>2. CASE e \notin path[k].deps
    <3>1. mark[e] = 2 \/ (k < n /\ e = path[k + 1].node)
      BY <1>3, <1>4, <2>2 DEF PathOK
    <3>2. k < n => k + 1 \in 1 .. n
      BY <1>3
    <3> QED
      BY <1>3, <3>1, <3>2
  <2> QED
    BY <2>1, <2>2
<1>8. MarksOK(given, q, mark)
  <2>1. \A i : OnPath(q, i) <=> OnPath(path, i)
    BY <1>3 DEF OnPath
  <2> QED
    BY <1>4, <2>1 DEF MarksOK
<1>9. CASE mark[d] = 1 /\ pc' = "cyclic" /\ UNCHANGED cyclesVars
  <2>1. path' = path /\ mark' = mark /\ pc' = "cyclic"
    BY <1>9 DEF cyclesVars
  <2>2. PICK j \in 1 .. n : path[j].node = d
    BY <1>4, <1>5, <1>9 DEF MarksOK, OnPath
  <2> DEFINE S == {path[k].node : k \in j .. n}
  <2>3. d \in S
    BY <1>3, <2>2
  <2>4. ASSUME NEW t \in S PROVE t \in DOMAIN given /\ given[t].deps \cap S # {}
    <3>1. PICK k \in j .. n : t = path[k].node
      BY <2>4
    <3>2. \E e \in S : e \in Needs(given, t)
      <4>1. CASE k = n
        BY <1>5, <2>3, <3>1, <4>1
      <4>2. CASE k # n
        <5>1. k \in 1 .. n /\ k < n /\ k + 1 \in j .. n
          BY <1>3, <2>2, <4>2
        <5>2. path[k + 1].node \in Needs(given, path[k].node)
          BY <1>4, <5>1 DEF PathOK
        <5> QED
          BY <3>1, <5>1, <5>2
      <4> QED
        BY <4>1, <4>2
    <3> HIDE DEF S
    <3>3. t \in DOMAIN given
      BY <3>2, NeedsAre
    <3> QED
      BY <3>2, <3>3 DEF Needs
  <2> HIDE DEF S
  <2>5. S \in SUBSET DOMAIN given /\ S # {}
    BY <2>3, <2>4
  <2>6. HasCycles(given)
    BY <2>4, <2>5 DEF HasCycles
  <2> QED
    BY <2>1, <2>6 DEF CyclesOK
<1>10. CASE mark[d] = 0 /\ mark' = [mark EXCEPT ![d] = 1] /\ path' = Append(q, Call(d)) /\ UNCHANGED pc
  <2>1. Call(d) = [node |-> d, deps |-> Needs(given, d)]
    BY DEF Call, Deps, Needs
  <2>2. d \in Needs(given, q[n].node)
    BY <1>3, <1>4, <1>5
  <2>3. \A k \in 1 .. n : \A e \in Needs(given, q[k].node) \ q[k].deps :
          mark[e] = 2 \/ (k < n /\ e = q[k + 1].node) \/ (k = n /\ e = d)
    BY <1>7
  <2>4. Callable(given, q, mark, d)
    BY <1>3, <1>6, <1>8, <1>10, <2>2, <2>3 DEF Callable
  <2>5. q \in Seq([node : Ids, deps : SUBSET Ids])
    BY <1>3
  <2>6. LET r == Append(q, [node |-> d, deps |-> Needs(given, d)])
        IN  /\ r \in Seq([node : Ids, deps : SUBSET Ids])
            /\ PathOK(given, r, [mark EXCEPT ![d] = 1]) /\ MarksOK(given, r, [mark EXCEPT ![d] = 1])
    BY <1>5, <2>4, <2>5, CallIs
  <2> QED
    BY <1>2, <1>10, <2>1, <2>6
<1>11. CASE mark[d] = 2 /\ path' = q /\ UNCHANGED <<pc, mark>>
  <2>1. \A k \in 1 .. n : \A e \in Needs(given, q[k].node) \ q[k].deps :
          mark[e] = 2 \/ (k < n /\ e = q[k + 1].node)
    BY <1>7, <1>11
  <2>2. PathOK(given, q, mark)
    BY <1>3, <1>6, <2>1 DEF PathOK
  <2> QED
    BY <1>2, <1>3, <1>8, <1>11, <2>2
<1> QED
  BY <1>1, <1>2, <1>9, <1>10, <1>11

\* When a call returns, its id is visited: all it needs is, and it needs neither
\* itself nor anything that needs it.
LEMMA LeaveIs ==
  ASSUME IsGiven(given), CyclesOK, Leave
  PROVE  /\ path' \in Seq([node : Ids, deps : SUBSET Ids])
         /\ PathOK(given, path', mark') /\ MarksOK(given, path', mark')
<1> DEFINE n == Len(path)
           C == [node : Ids, deps : SUBSET Ids]
           t == path[n].node
<1>1. path \in Seq(C) /\ path # <<>> /\ PathOK(given, path, mark) /\ MarksOK(given, path, mark)
  BY DEF CyclesOK, Leave
<1>2. /\ n \in Nat /\ n > 0 /\ path' \in Seq(C) /\ Len(path') = n - 1
      /\ \A k \in 1 .. n - 1 : path'[k] = path[k]
  <2>1. path' = SubSeq(path, 1, n - 1)
    BY DEF Leave, Rest
  <2> HIDE DEF C
  <2> QED
    BY <1>1, <2>1, FrontIs
<1>3. path[n].deps = {} /\ mark' = [mark EXCEPT ![t] = 2]
  BY DEF Leave, Top
<1>4. n \in 1 .. n /\ t \in Ids /\ mark[t] = 1
  <2>1. n \in 1 .. n
    BY <1>2
  <2>2. t \in Ids
    BY <1>1, <2>1 DEF PathOK
  <2> QED
    BY <1>1, <2>1, <2>2 DEF MarksOK, OnPath
<1>5. mark \in [Ids -> {0, 1, 2}] /\ mark' \in [Ids -> {0, 1, 2}] /\ mark'[t] = 2
      /\ \A i \in Ids : i # t => mark'[i] = mark[i]
  BY <1>1, <1>3, <1>4 DEF MarksOK
<1>6. \A d \in Needs(given, t) : d \in Ids /\ mark[d] = 2
  <2>1. \A d \in Needs(given, t) \ path[n].deps : mark[d] = 2
    BY <1>1, <1>2, <1>4 DEF PathOK
  <2> QED
    BY <1>3, <2>1, NeedsAre
<1> HIDE DEF t
<1>7. \A i \in Ids : mark'[i] = 1 <=> OnPath(path', i)
  <2> SUFFICES ASSUME NEW i \in Ids PROVE mark'[i] = 1 <=> OnPath(path', i)
    OBVIOUS
  <2>1. OnPath(path', i) <=> \E k \in 1 .. n - 1 : path[k].node = i
    BY <1>2 DEF OnPath
  <2>2. CASE i = t
    <3>1. \A k \in 1 .. n - 1 : path[k].node # t
      <4> SUFFICES ASSUME NEW k \in 1 .. n - 1, path[k].node = t PROVE FALSE
        OBVIOUS
      <4>1. k \in 1 .. n /\ k # n
        BY <1>2
      <4> QED
        BY <1>1, <1>4, <4>1 DEF PathOK, t
    <3> QED
      BY <1>5, <2>1, <2>2, <3>1
  <2>3. CASE i # t
    <3>1. OnPath(path, i) <=> \E k \in 1 .. n - 1 : path[k].node = i
      <4>1. \A k \in 1 .. n : k \in 1 .. n - 1 \/ k = n
        BY <1>2
      <4>2. \A k \in 1 .. n - 1 : k \in 1 .. n
        BY <1>2
      <4> QED
        BY <2>3, <4>1, <4>2 DEF OnPath, t
    <3> QED
      BY <1>1, <1>5, <2>1, <2>3, <3>1 DEF MarksOK
  <2> QED
    BY <2>2, <2>3
<1>8. \A u \in Ids : mark'[u] = 2 => \A d \in Needs(given, u) : mark'[d] = 2
  <2> SUFFICES ASSUME NEW u \in Ids, mark'[u] = 2, NEW d \in Needs(given, u) PROVE mark'[d] = 2
    OBVIOUS
  <2>1. d \in Ids
    BY NeedsAre
  <2>2. mark[d] = 2
    BY <1>1, <1>5, <1>6 DEF MarksOK
  <2> QED
    BY <1>5, <2>1, <2>2
<1>9. ASSUME NEW S \in SUBSET Ids, \A u \in S : mark'[u] = 2 /\ Needs(given, u) \cap S # {}
      PROVE  S = {}
  <2> DEFINE R == S \ {t}
  <2>1. \A u \in R : mark[u] = 2 /\ t \notin Needs(given, u)
    <3> SUFFICES ASSUME NEW u \in R PROVE mark[u] = 2 /\ t \notin Needs(given, u)
      OBVIOUS
    <3>1. mark[u] = 2
      BY <1>5, <1>9
    <3> QED
      BY <1>1, <1>4, <3>1 DEF MarksOK
  <2>2. \A u \in R : Needs(given, u) \cap R # {}
    BY <1>9, <2>1
  <2>3. R = {}
    <3>1. R \in SUBSET Ids
      OBVIOUS
    <3> HIDE DEF R
    <3> QED
      BY <1>1, <2>1, <2>2, <3>1 DEF MarksOK
  <2>4. t \notin Needs(given, t)
    BY <1>4, <1>6
  <2>5. t \notin S
    BY <1>9, <2>3, <2>4
  <2> QED
    BY <2>3, <2>5
<1>10. MarksOK(given, path', mark')
  BY <1>5, <1>7, <1>8, <1>9 DEF MarksOK
<1>11. ASSUME NEW k \in 1 .. n - 1
       PROVE  /\ path'[k].node \in Ids /\ path'[k].deps \subseteq Needs(given, path'[k].node)
              /\ \A d \in Needs(given, path'[k].node) \ path'[k].deps :
                   mark'[d] = 2 \/ (k < n - 1 /\ d = path'[k + 1].node)
              /\ k < n - 1 => path'[k + 1].node \in Needs(given, path'[k].node)
  <2>1. k \in 1 .. n /\ k < n /\ k + 1 \in 1 .. n /\ path'[k] = path[k]
    BY <1>2
  <2>2. k < n - 1 => path'[k + 1] = path[k + 1]
    BY <1>2
  <2>3. path[k].node \in Ids /\ path[k].deps \subseteq Needs(given, path[k].node)
    BY <1>1, <2>1 DEF PathOK
  <2>4. ASSUME NEW d \in Needs(given, path[k].node) \ path[k].deps
        PROVE  mark'[d] = 2 \/ (k < n - 1 /\ d = path'[k + 1].node)
    <3>1. mark[d] = 2 \/ d = path[k + 1].node
      BY <1>1, <2>1 DEF PathOK
    <3>2. d \in Ids
      BY NeedsAre
    <3>3. CASE mark[d] = 2
      BY <1>5, <3>2, <3>3
    <3>4. CASE d = path[k + 1].node
      <4>1. CASE k + 1 = n
        BY <1>5, <3>4, <4>1 DEF t
      <4>2. CASE k + 1 # n
        BY <1>2, <2>1, <2>2, <3>4, <4>2
      <4> QED
        BY <4>1, <4>2
    <3> QED
      BY <3>1, <3>3, <3>4
  <2>5. path[k + 1].node \in Needs(given, path[k].node)
    BY <1>1, <2>1 DEF PathOK
  <2> QED
    BY <2>1, <2>2, <2>3, <2>4, <2>5
<1>12. ASSUME NEW k \in 1 .. n - 1, NEW l \in 1 .. n - 1, path'[k].node = path'[l].node PROVE k = l
  <2>1. k \in 1 .. n /\ l \in 1 .. n
    BY <1>2
  <2> QED
    BY <1>1, <1>2, <1>12, <2>1 DEF PathOK
<1>13. PathOK(given, path', mark')
  BY <1>2, <1>11, <1>12 DEF PathOK
<1> QED
  BY <1>2, <1>10, <1>13

\* Every step of has_cycles keeps the path and the marks as they should be.
LEMMA CyclesStay == IsGiven(given) /\ CyclesOK /\ [PlanNext]_planVars => CyclesOK'
<1> SUFFICES ASSUME IsGiven(given), CyclesOK, [PlanNext]_planVars PROVE CyclesOK'
  OBVIOUS
<1>1. CASE Descend
  <2>1. PICK t \in DOMAIN given : mark[t] = 0 /\ mark' = [mark EXCEPT ![t] = 1] /\ path' = <<Call(t)>>
    BY <1>1 DEF Descend
  <2>2. t \in Ids /\ path = <<>> /\ pc = "cycles" /\ pc' = pc /\ given' = given
    BY <1>1, NeedsAre DEF Descend
  <2>3. Call(t) = [node |-> t, deps |-> Needs(given, t)]
    BY DEF Call, Deps, Needs
  <2> DEFINE c == Call(t)
             q == <<>>
  <2>4. q \in Seq([node : Ids, deps : SUBSET Ids]) /\ Len(q) = 0 /\ MarksOK(given, q, mark)
    BY <2>2 DEF CyclesOK
  <2>5. Append(q, c) = <<c>>
    <3> HIDE DEF c
    <3> QED
      OBVIOUS
  <2>6. Callable(given, q, mark, t)
    <3>1. \A k \in 1 .. Len(q) : FALSE
      BY <2>4
    <3> HIDE DEF q
    <3> QED
      BY <2>1, <2>4, <3>1 DEF Callable
  <2> HIDE DEF q
  <2>7. LET r == Append(q, [node |-> t, deps |-> Needs(given, t)])
        IN  /\ r \in Seq([node : Ids, deps : SUBSET Ids])
            /\ PathOK(given, r, [mark EXCEPT ![t] = 1]) /\ MarksOK(given, r, [mark EXCEPT ![t] = 1])
    BY <2>2, <2>4, <2>6, CallIs
  <2> QED
    BY <2>1, <2>2, <2>3, <2>5, <2>7 DEF CyclesOK
<1>2. CASE Look
  BY <1>2, LookIs DEF CyclesOK, Look
<1>3. CASE Leave
  BY <1>3, LeaveIs DEF CyclesOK, Leave
<1>4. CASE NoCycle
  <2>1. /\ path' = path /\ mark' = mark /\ given' = given /\ pc' = "acyclic"
        /\ path = <<>> /\ \A t \in DOMAIN given : mark[t] # 0
    BY <1>4 DEF NoCycle, cyclesVars
  <2>2. \A t \in DOMAIN given : t \in Ids /\ mark[t] = 2
    <3> SUFFICES ASSUME NEW t \in DOMAIN given PROVE t \in Ids /\ mark[t] = 2
      OBVIOUS
    <3>1. t \in Ids
      BY NeedsAre
    <3>2. ~ OnPath(path, t)
      BY <2>1 DEF OnPath
    <3> QED
      BY <2>1, <3>1, <3>2 DEF CyclesOK, MarksOK
  <2>3. ASSUME NEW S \in SUBSET DOMAIN given, \A t \in S : given[t].deps \cap S # {} PROVE S = {}
    <3>1. S \in SUBSET Ids /\ \A t \in S : mark[t] = 2 /\ Needs(given, t) \cap S # {}
      BY <2>2, <2>3 DEF Needs
    <3> QED
      BY <3>1 DEF CyclesOK, MarksOK
  <2>4. ~ HasCycles(given)
    BY <2>3 DEF HasCycles
  <2> QED
    BY <2>1, <2>4 DEF CyclesOK
<1>5. CASE Reset \/ Pass
  BY <1>5 DEF CyclesOK, Reset, Pass, cyclesVars
<1>6. CASE WalkFrom \/ Pop \/ Tally
  BY <1>6 DEF CyclesOK, WalkFrom, Pop, Tally, cyclesVars
<1>7. CASE UNCHANGED planVars
  BY <1>7 DEF CyclesOK, planVars, cyclesVars
<1> QED
  BY <1>1, <1>2, <1>3, <1>4, <1>5, <1>6, <1>7 DEF PlanNext

-----------------------------------------------------------------------------
\* The walks of prioritize_tasks.

ClosedAbove(g, below, D) == \A t \in DOMAIN g : g[t].deps \cap (D \cup {below}) # {} => t \in D

\* What is downstream of i among the tasks walked from.
Walked(g, rest, i) == {t \in DOMAIN g \ rest : t \in Downstream(g, i)}

\* s is the task the walk began with, st the stack, v the ids visited: s depends on
\* all of them, and on nothing else through an id that was popped.
WalkOK(g, s, st, v) ==
  /\ s \in DOMAIN g /\ st \subseteq v \cup {s}
  /\ v \subseteq Ids /\ \A t \in v : s \in Downstream(g, t)
  /\ \A t \in (v \cup {s}) \ st : Needs(g, t) \subseteq v

CountOK ==
  /\ left \subseteq DOMAIN given
  /\ counts = [i \in Ids |-> Cardinality(Walked(given, left, i))]
  /\ pc = "walk" => start \in left /\ WalkOK(given, start, stack, visited)
  /\ pc = "counted" => left = {}

\* Downstream, by the sets closed above the id.
LEMMA DownstreamIs ==
  ASSUME NEW g, NEW b, NEW s
  PROVE  s \in Downstream(g, b) <=> /\ s \in DOMAIN g
                                    /\ \A D \in SUBSET DOMAIN g : ClosedAbove(g, b, D) => s \in D
BY DEF Downstream, ClosedAbove

\* A task is downstream of what it depends on, and of what that depends on.
LEMMA FurtherDown ==
  ASSUME NEW g, NEW t, NEW x \in Needs(g, t), NEW s, s = t \/ s \in Downstream(g, t)
  PROVE  s \in Downstream(g, x)
<1>1. t \in DOMAIN g /\ x \in g[t].deps
  BY DEF Needs
<1>2. ASSUME NEW D \in SUBSET DOMAIN g, ClosedAbove(g, x, D)
      PROVE  t \in D /\ ClosedAbove(g, t, D)
  <2>1. t \in D
    BY <1>1, <1>2 DEF ClosedAbove
  <2> QED
    BY <1>2, <2>1 DEF ClosedAbove
<1>3. s \in DOMAIN g
  BY <1>1, DownstreamIs
<1>4. ASSUME NEW D \in SUBSET DOMAIN g, ClosedAbove(g, x, D) PROVE s \in D
  BY <1>2, <1>4, DownstreamIs
<1> QED
  BY <1>3, <1>4, DownstreamIs

\* With an empty stack the walk has visited all the task is downstream of.
LEMMA WalkEnds ==
  ASSUME NEW g, NEW s, NEW v, WalkOK(g, s, {}, v), NEW b, s \in Downstream(g, b)
  PROVE  b \in v
<1> SUFFICES ASSUME b \notin v PROVE FALSE
  OBVIOUS
<1> DEFINE D == DOMAIN g \ (v \cup {s})
<1>1. ASSUME NEW t \in DOMAIN g, g[t].deps \cap (D \cup {b}) # {} PROVE t \in D
  <2> SUFFICES ASSUME t \notin D PROVE FALSE
    OBVIOUS
  <2>1. g[t].deps \subseteq v
    BY DEF WalkOK, Needs
  <2> QED
    BY <1>1, <2>1
<1>2. ClosedAbove(g, b, D)
  BY <1>1 DEF ClosedAbove
<1>3. D \in SUBSET DOMAIN g /\ s \notin D
  OBVIOUS
<1> HIDE DEF D
<1> QED
  BY <1>2, <1>3, DownstreamIs

\* A pop visits ids the task is downstream of, and leaves none out.
LEMMA PopIs ==
  ASSUME IsGiven(given), WalkOK(given, start, stack, visited), Pop
  PROVE  WalkOK(given, start, stack', visited')
<1>1. PICK t \in stack : /\ stack' = (stack \ {t}) \cup (Deps(t) \ visited)
                         /\ visited' = visited \cup (Deps(t) \ visited)
  BY DEF Pop
<1>2. Deps(t) = Needs(given, t) /\ Needs(given, t) \subseteq Ids
  BY NeedsAre DEF Deps, Needs
<1>3. t = start \/ start \in Downstream(given, t)
  BY DEF WalkOK
<1>4. \A x \in Needs(given, t) : start \in Downstream(given, x)
  BY <1>3, FurtherDown
<1>5. ASSUME NEW x \in (visited' \cup {start}) \ stack' PROVE Needs(given, x) \subseteq visited'
  <2>1. CASE x = t
    BY <1>1, <1>2, <2>1
  <2>2. CASE x # t
    <3>1. x \in (visited \cup {start}) \ stack
      BY <1>1, <1>5, <2>2
    <3> QED
      BY <1>1, <3>1 DEF WalkOK
  <2> QED
    BY <2>1, <2>2
<1> QED
  BY <1>1, <1>2, <1>4, <1>5 DEF WalkOK

\* What the tallies count is finite, for the ids are.
LEMMA WalkedFinite ==
  ASSUME IsGiven(given), NEW rest, NEW i
  PROVE  IsFiniteSet(Walked(given, rest, i)) /\ Cardinality(Walked(given, rest, i)) \in Nat
<1>1. Walked(given, rest, i) \in SUBSET Ids
  BY NeedsAre DEF Walked
<1> QED
  BY <1>1, IdsAssumption, FS_Subset, FS_CardinalityType

\* A walk that ends is tallied once for every id it visited.
LEMMA TallyIs ==
  ASSUME IsGiven(given), CountOK, Tally
  PROVE  CountOK'
<1>1. /\ start \in left /\ WalkOK(given, start, {}, visited) /\ left \subseteq DOMAIN given
      /\ left' = left \ {start} /\ given' = given
      /\ counts' = [i \in Ids |-> IF i \in visited THEN counts[i] + 1 ELSE counts[i]]
      /\ pc' \in {"count", "counted"} /\ (pc' = "counted" => left' = {})
  BY DEF Tally, CountOK
<1>2. ASSUME NEW i \in Ids PROVE counts'[i] = Cardinality(Walked(given, left', i))
  <2> DEFINE W == Walked(given, left, i)
  <2>1. IsFiniteSet(W) /\ start \notin W /\ counts[i] = Cardinality(W)
    BY <1>1, WalkedFinite DEF CountOK, Walked
  <2>2. CASE i \in visited
    <3>1. start \in Downstream(given, i)
      BY <1>1, <2>2 DEF WalkOK
    <3>2. Walked(given, left', i) = W \cup {start}
      BY <1>1, <3>1 DEF Walked
    <3> HIDE DEF W
    <3>3. Cardinality(W \cup {start}) = Cardinality(W) + 1
      BY <2>1, FS_AddElement
    <3> QED
      BY <1>1, <2>1, <2>2, <3>2, <3>3
  <2>3. CASE i \notin visited
    <3>1. start \notin Downstream(given, i)
      BY <1>1, <2>3, WalkEnds
    <3>2. Walked(given, left', i) = W
      BY <1>1, <3>1 DEF Walked
    <3> QED
      BY <1>1, <2>1, <2>3, <3>2
  <2> QED
    BY <2>2, <2>3
<1>3. counts' = [i \in Ids |-> counts'[i]]
  BY <1>1
<1>4. counts' = [i \in Ids |-> Cardinality(Walked(given, left', i))]
  BY <1>2, <1>3
<1> QED
  BY <1>1, <1>4 DEF CountOK

\* Every step of the walks keeps the counts those of the walks tallied.
LEMMA CountStays == IsGiven(given) /\ CountOK /\ [PlanNext]_planVars => CountOK'
<1> SUFFICES ASSUME IsGiven(given), CountOK, [PlanNext]_planVars PROVE CountOK'
  OBVIOUS
<1>1. CASE WalkFrom
  <2>1. /\ start' \in left /\ stack' = {start'} /\ visited' = {} /\ pc' = "walk"
        /\ left' = left /\ counts' = counts /\ given' = given
    BY <1>1 DEF WalkFrom
  <2>2. WalkOK(given, start', stack', visited')
    BY <2>1 DEF WalkOK, CountOK
  <2> QED
    BY <2>1, <2>2 DEF CountOK
<1>2. CASE Pop
  <2>1. WalkOK(given, start, stack', visited')
    BY <1>2, PopIs DEF Pop, CountOK
  <2> QED
    BY <1>2, <2>1 DEF CountOK, Pop
<1>3. CASE Tally
  BY <1>3, TallyIs
<1>4. CASE Descend \/ Look \/ Leave \/ NoCycle
  <2>1. /\ pc = "cycles" /\ pc' \in {"cycles", "cyclic", "acyclic"}
        /\ given' = given /\ left' = left /\ counts' = counts
    BY <1>4 DEF Descend, Look, Leave, NoCycle, countVars
  <2> QED
    BY <2>1 DEF CountOK
<1>5. CASE Reset \/ Pass
  <2>1. pc' \in {"loop", "done"} /\ given' = given /\ left' = left /\ counts' = counts
    BY <1>5 DEF Reset, Pass, countVars
  <2> QED
    BY <2>1 DEF CountOK
<1>6. CASE UNCHANGED planVars
  BY <1>6 DEF CountOK, planVars, countVars
<1> QED
  BY <1>1, <1>2, <1>3, <1>4, <1>5, <1>6 DEF PlanNext

\* All three loops begin well.
LEMMA LoopsBegin == PlanInit => LoopOK /\ CyclesOK /\ CountOK
<1> SUFFICES ASSUME PlanInit PROVE LoopOK /\ CyclesOK /\ CountOK
  OBVIOUS
<1>1. /\ IsGiven(given) /\ tasks = given /\ pc \in {"reset", "cycles", "count"}
      /\ path = <<>> /\ mark = [i \in Ids |-> 0] /\ left = DOMAIN given
      /\ counts = [i \in Ids |-> 0]
  BY DEF PlanInit, IsGiven
<1>2. LoopOK
  BY <1>1 DEF LoopOK
<1>3. \A i : ~ OnPath(path, i)
  BY <1>1 DEF OnPath
<1>4. CyclesOK
  BY <1>1, <1>3 DEF CyclesOK, PathOK, MarksOK
<1>5. ASSUME NEW i \in Ids PROVE Cardinality(Walked(given, left, i)) = 0
  <2>1. Walked(given, left, i) = {}
    BY <1>1 DEF Walked
  <2> QED
    BY <2>1, FS_EmptySet
<1>6. counts = [i \in Ids |-> Cardinality(Walked(given, left, i))]
  BY <1>1, <1>5
<1> QED
  BY <1>1, <1>2, <1>4, <1>6 DEF CountOK

\* LoopsAreExact, for any plans over any finite set of ids: the loop that blocks
\* tasks leaves the least set blocked, has_cycles finds a cycle exactly if there
\* is one, and the walks of prioritize_tasks count what is downstream
\* (Scheduler::has_cycles, prioritize_tasks, propagate_blocked_status).
THEOREM LoopsStayExact == PlanSpec => []LoopsAreExact
<1>1. PlanInit => LoopOK /\ CyclesOK /\ CountOK
  BY LoopsBegin
<1>2. LoopOK /\ CyclesOK /\ CountOK /\ [PlanNext]_planVars => LoopOK' /\ CyclesOK' /\ CountOK'
  BY LoopStays, CyclesStay, CountStays DEF LoopOK
<1>3. LoopOK /\ CyclesOK /\ CountOK => LoopsAreExact
  <2> SUFFICES ASSUME LoopOK, CyclesOK, CountOK PROVE LoopsAreExact
    OBVIOUS
  <2>1. pc = "counted" => \A t \in Ids : counts[t] = Cardinality(Downstream(given, t))
    <3> SUFFICES ASSUME pc = "counted", NEW t \in Ids
                 PROVE  counts[t] = Cardinality(Downstream(given, t))
      OBVIOUS
    <3>1. left = {} /\ counts[t] = Cardinality(Walked(given, left, t))
      BY DEF CountOK
    <3>2. Walked(given, {}, t) = Downstream(given, t)
      BY DEF Walked, Downstream
    <3> QED
      BY <3>1, <3>2
  <2> QED
    BY <2>1 DEF LoopsAreExact, LoopOK, CyclesOK
<1> QED
  BY <1>1, <1>2, <1>3, PTL DEF PlanSpec
=============================================================================
