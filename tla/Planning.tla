------------------------------ MODULE Planning ------------------------------
(* The scheduler node at work on small plans, the loops it and the plan are     *)
(* made of, and the diff of two graphs. The three share no state: an instance   *)
(* is one of them, and the others rest.                                         *)
EXTENDS SchedulerNode, PlanAlgorithms, GraphDiff, TLC

VARIABLE part

allVars == <<part, vars, planVars, diffVars>>

NoScheduler ==
    /\ node = [manual |-> <<>>, selfHealing |-> FALSE] /\ plan = <<>>
    /\ attempts = <<>> /\ route = "none" /\ failures = 0
NoLoop == given = <<>> /\ pc = "count" /\ PlanInit
NoDiff == sides = [s \in Sides |-> NewBuilder] /\ edits = 0

Scheduling == part = "scheduler" /\ UNCHANGED <<part, planVars, diffVars>>
Looping == part = "loops" /\ UNCHANGED <<part, vars, diffVars>>
Diffing == part = "diff" /\ UNCHANGED <<part, vars, planVars>>

\* What rests has no plan, and compares no graphs.
PartInit ==
    \/ part = "scheduler" /\ Init /\ NoLoop /\ NoDiff
    \/ part = "loops" /\ PlanInit /\ NoScheduler /\ NoDiff
    \/ part = "diff" /\ DiffInit /\ NoScheduler /\ NoLoop

PartNext ==
    \/ Next /\ Scheduling
    \/ PlanNext /\ Looping
    \/ DiffNext /\ Diffing

\* The graph comes back to the scheduler and every agent ends; the loop over a
\* plan goes on until it is done.
PartSpec ==
    /\ PartInit /\ [][PartNext]_allVars
    /\ WF_allVars(Execute /\ Scheduling) /\ WF_allVars(AgentEnds /\ Scheduling)
    /\ WF_allVars(PlanNext /\ Looping)
-----------------------------------------------------------------------------
\* Plans of two or three tasks. A task id is a sequence: the task it stems from,
\* then the number of each recovery attempt.

MCRecoveryId(t, n) == Append(t, n)

A == <<"a">>
B == <<"b">>
C == <<"c">>

\* A chain, a diamond's upper half and lower half, a dependency that is not there,
\* a cycle.
Chain    == (A :> NewTask({})) @@ (B :> NewTask({A})) @@ (C :> NewTask({B}))
Fork     == (A :> NewTask({})) @@ (B :> NewTask({A})) @@ (C :> NewTask({A}))
Join     == (A :> NewTask({})) @@ (B :> NewTask({})) @@ (C :> NewTask({A, B}))
Dangling == (A :> NewTask({})) @@ (B :> NewTask({<<"z">>}))
Loop     == (A :> NewTask({B})) @@ (B :> NewTask({A}))

MCPlans == {Chain, Fork, Join, Dangling, Loop}

Policies == ("compile" :> 1) @@ ("test" :> 2)

\* A node that only reports failures, one with a recovery task registered, one
\* that heals, and one that does both.
MCSchedulers == {[manual |-> m, selfHealing |-> h] : m \in {<<>>, A :> <<"fix">>}, h \in BOOLEAN}

\* The graphs that are compared start as nothing yet, or as a loop of two nodes
\* that ends on request.
MCOrigins(new) ==
    {AddNode(new, "x", None),
     AddEdge(AddEdge(AddNode(AddNode(SetEntryPoint(new, "x"), "x", None), "y", "d"),
                     DirectEdge("x", NoKey, "y")),
             DirectEdge("y", "loop", "x"))}
=============================================================================
