--------------------------- MODULE PlanAlgorithms ---------------------------
(***************************************************************************)
(* The loops behind EpicPlan's operators, as the code runs them:           *)
(* propagate_blocked_status pass by pass, the colouring search of          *)
(* has_cycles call by call, with the frames of the recursion as a path,    *)
(* and the walks of prioritize_tasks, one from every task.  Tasks and what *)
(* they depend on are met in any order: the maps they are in have none.    *)
(***************************************************************************)
EXTENDS EpicPlan, Sequences

CONSTANT Ids   \* ids of tasks: a plan holds some, and tasks may depend on all

ASSUME IdsAssumption == IsFiniteSet(Ids)

VARIABLES given,    \* the plan the method is called on
          tasks,    \* the plan being changed
          pc,
          path,     \* has_cycles: the calls of dfs under way, each with its node
                    \* and the dependencies it has yet to look at
          mark,     \* 0 unvisited, 1 visiting, 2 visited
          left,     \* prioritize_tasks: the tasks still to walk from
          start,    \* the task the walk began with
          stack, visited, counts

cyclesVars == <<path, mark>>
countVars == <<left, start, stack, visited, counts>>
planVars == <<given, tasks, pc, cyclesVars, countVars>>

AnyTask == [status : Status, deps : SUBSET Ids, error : {NoError}]

\* One of the three methods is called; the searches do not ask for a status.
PlanInit ==
  /\ given \in UNION {[D -> AnyTask] : D \in SUBSET Ids}
  /\ tasks = given
  /\ \/ pc = "reset"
     \/ pc \in {"cycles", "count"} /\ \A t \in DOMAIN given : given[t].status = "pending"
  /\ path = <<>> /\ mark = [i \in Ids |-> 0]
  /\ left = DOMAIN given /\ start = "none" /\ stack = {} /\ visited = {}
  /\ counts = [i \in Ids |-> 0]

Reset ==
  /\ pc = "reset"
  /\ tasks' = [t \in DOMAIN tasks |-> IF tasks[t].status = "blocked"
                             THEN [tasks[t] EXCEPT !.status = "pending"] ELSE tasks[t]]
  /\ pc' = "loop"
  /\ UNCHANGED <<given, cyclesVars, countVars>>

\* Mutant: tasks already blocked are blocked again.
BlocksAgain ==
  LET bad == WithStatus(tasks, "failed") \cup WithStatus(tasks, "blocked")
  IN  {t \in Stoppable(tasks) : tasks[t].deps \cap bad # {}}

\* What one pass blocks: it looks at the failed and blocked tasks as they were
\* when the pass began.
Blocks ==
  LET bad == WithStatus(tasks, "failed") \cup WithStatus(tasks, "blocked")
  IN  {t \in WithStatus(tasks, "pending") \cup WithStatus(tasks, "running") :
         tasks[t].deps \cap bad # {}}

Pass ==
  /\ pc = "loop"
  /\ tasks' = [t \in DOMAIN tasks |-> IF t \in Blocks THEN [tasks[t] EXCEPT !.status = "blocked"]
                             ELSE tasks[t]]
  /\ pc' = IF Blocks = {} THEN "done" ELSE "loop"
  /\ UNCHANGED <<given, cyclesVars, countVars>>

-----------------------------------------------------------------------------
(* has_cycles *)

\* What a task depends on; an id that is not in the plan on nothing.
Deps(t) == IF t \in DOMAIN given THEN given[t].deps ELSE {}

Top == path[Len(path)]
Rest == SubSeq(path, 1, Len(path) - 1)
Call(t) == [node |-> t, deps |-> Deps(t)]

\* dfs is called for a task that no search has met yet.
Descend ==
  /\ pc = "cycles" /\ path = <<>>
  /\ \E t \in DOMAIN given : /\ mark[t] = 0
                            /\ mark' = [mark EXCEPT ![t] = 1]
                            /\ path' = <<Call(t)>>
  /\ UNCHANGED <<given, tasks, pc, countVars>>

\* Mutant: an id that was searched before counts as one on the path.
LookStrict ==
  /\ pc = "cycles" /\ path # <<>>
  /\ \E d \in Top.deps :
       LET seen == Append(Rest, [Top EXCEPT !.deps = @ \ {d}])
       IN  \/ mark[d] # 0 /\ pc' = "cyclic" /\ UNCHANGED cyclesVars
           \/ mark[d] = 0 /\ mark' = [mark EXCEPT ![d] = 1]
              /\ path' = Append(seen, Call(d)) /\ UNCHANGED pc
  /\ UNCHANGED <<given, tasks, countVars>>

\* The innermost call looks at a dependency.
Look ==
  /\ pc = "cycles" /\ path # <<>>
  /\ \E d \in Top.deps :
       LET seen == Append(Rest, [Top EXCEPT !.deps = @ \ {d}])
       IN  \/ mark[d] = 1 /\ pc' = "cyclic" /\ UNCHANGED cyclesVars
           \/ mark[d] = 0 /\ mark' = [mark EXCEPT ![d] = 1]
              /\ path' = Append(seen, Call(d)) /\ UNCHANGED pc
           \/ mark[d] = 2 /\ path' = seen /\ UNCHANGED <<pc, mark>>
  /\ UNCHANGED <<given, tasks, countVars>>

\* It has looked at all, and returns.
Leave ==
  /\ pc = "cycles" /\ path # <<>> /\ Top.deps = {}
  /\ mark' = [mark EXCEPT ![Top.node] = 2]
  /\ path' = Rest
  /\ UNCHANGED <<given, tasks, pc, countVars>>

NoCycle ==
  /\ pc = "cycles" /\ path = <<>> /\ \A t \in DOMAIN given : mark[t] # 0
  /\ pc' = "acyclic"
  /\ UNCHANGED <<given, tasks, cyclesVars, countVars>>

-----------------------------------------------------------------------------
(* prioritize_tasks *)

WalkFrom ==
  /\ pc = "count"
  /\ \E t \in left : start' = t /\ stack' = {t}
  /\ visited' = {}
  /\ pc' = "walk"
  /\ UNCHANGED <<given, tasks, cyclesVars, left, counts>>

Pop ==
  /\ pc = "walk"
  /\ \E t \in stack :
       LET new == Deps(t) \ visited
       IN  stack' = (stack \ {t}) \cup new /\ visited' = visited \cup new
  /\ UNCHANGED <<given, tasks, pc, cyclesVars, left, start, counts>>

Tally ==
  /\ pc = "walk" /\ stack = {}
  /\ counts' = [i \in Ids |-> IF i \in visited THEN counts[i] + 1 ELSE counts[i]]
  /\ left' = left \ {start}
  /\ pc' = IF left' = {} THEN "counted" ELSE "count"
  /\ UNCHANGED <<given, tasks, cyclesVars, start, stack, visited>>

PlanNext == Reset \/ Pass \/ Descend \/ Look \/ Leave \/ NoCycle \/ WalkFrom \/ Pop \/ Tally

PlanSpec == PlanInit /\ [][PlanNext]_planVars

-----------------------------------------------------------------------------
\* The loop of propagate_blocked_status ends and stays with exactly the tasks
\* blocked that are downstream of a failure through tasks that can be stopped:
\* no cycle of tasks keeps itself blocked, and none keeps the loop going. Nor
\* does one keep a search going.
LoopBlocksLeastSet ==
  <>[] \/ pc = "done" /\ tasks = Propagated(given)
       \/ pc \in {"cyclic", "acyclic", "counted"}
       \/ pc = "count" /\ DOMAIN given = {}   \* there is nothing to walk from

\* What the loops leave is what EpicPlan's operators say, in whatever order they
\* meet the tasks: a plan comes out of propagation with the least set blocked;
\* has_cycles finds a cycle exactly if there is one; and the walks count for
\* every task what is downstream of it once, through dependencies that are
\* shared, that are not in the plan, and on cyclic plans as well.
LoopsAreExact ==
  /\ pc = "done" => tasks = Propagated(given)
  /\ pc = "cyclic" => HasCycles(given)
  /\ pc = "acyclic" => ~ HasCycles(given)
  /\ pc = "counted" => \A t \in Ids : counts[t] = Cardinality(Downstream(given, t))
=============================================================================
