-------------------------- MODULE SubgraphSpawner --------------------------
(* SubgraphSpawner with SpawnBuilder: graphs spawned by name, the set of names  *)
(* it believes active, and the caller that joins them all or races them. A      *)
(* spawned graph is a task as those of Subgraphs are.                           *)
EXTENDS Subgraphs

CONSTANTS Handles,   \* spawned graphs, 1 .. n in the order they are spawned
          Namings    \* the ways the caller, or generate_id, may name them

ASSUME HandlesAssumption == 1 \in Handles /\ Handles \subseteq Nat

VARIABLES nameOf,    \* the name each graph is spawned under; never changes
          joins,     \* "all" or "first": what the builder's owner awaits
          task,      \* the task behind each handle, or NotSpawned
          active,    \* the spawner's set of active names
          joined,    \* handles join_all or join_first has heard, in order
          caller     \* "building", "joining" or "done"

spawnVars == <<nameOf, joins, task, active, joined, caller>>

NotSpawned == [state |-> "unborn", aborted |-> FALSE]

SpawnInit ==
    /\ nameOf \in Namings
    /\ joins \in {"all", "first"}
    /\ task = [h \in Handles |-> NotSpawned]
    /\ active = {}
    /\ joined = <<>>
    /\ caller = "building"

\* spawn registers the name and starts the task; the handles come one by one.
Spawn(h) ==
    /\ caller = "building" /\ task[h] = NotSpawned
    /\ \A g \in 1 .. h - 1 : task[g] # NotSpawned
    /\ active' = active \cup {nameOf[h]}
    /\ task' = [task EXCEPT ![h] = NewTask]
    /\ UNCHANGED <<nameOf, joins, joined, caller>>

\* Mutant: a run that fails stays in the active set.
RunEndsTracked(h, how) ==
    /\ MayEnd(task[h], how)
    /\ task' = [task EXCEPT ![h].state = how]
    /\ active' = IF how = "completed" THEN active \ {nameOf[h]} ELSE active
    /\ UNCHANGED <<nameOf, joins, joined, caller>>

\* The spawned task's body: the name leaves the active set when invoke has
\* returned; a panic or an abort never gets there.
RunEnds(h, how) ==
    /\ MayEnd(task[h], how)
    /\ task' = [task EXCEPT ![h].state = how]
    /\ active' = IF how \in {"completed", "failed"}
                 THEN active \ {nameOf[h]} ELSE active
    /\ UNCHANGED <<nameOf, joins, joined, caller>>

AllSpawned == \A h \in Handles : task[h] # NotSpawned

BeginJoin ==
    /\ caller = "building" /\ AllSpawned
    /\ caller' = "joining"
    /\ UNCHANGED <<nameOf, joins, task, active, joined>>

\* join_all awaits one handle after the other.
JoinNext ==
    /\ caller = "joining" /\ joins = "all"
    /\ LET h == Len(joined) + 1
       IN  /\ Ended(task[h])
           /\ joined' = Append(joined, h)
           /\ caller' = IF joined' = [i \in Handles |-> i] THEN "done" ELSE caller
    /\ UNCHANGED <<nameOf, joins, task, active>>

\* join_first takes a handle that has ended and aborts all of them.
JoinFirst(h) ==
    /\ caller = "joining" /\ joins = "first"
    /\ Ended(task[h])
    /\ joined' = <<h>>
    /\ task' = [g \in Handles |-> Abort(task[g])]
    /\ caller' = "done"
    /\ UNCHANGED <<nameOf, joins, active>>

\* Whoever holds a handle may abort it.
AbortHandle(h) ==
    /\ Running(task[h]) /\ ~task[h].aborted
    /\ task' = [task EXCEPT ![h] = Abort(@)]
    /\ UNCHANGED <<nameOf, joins, active, joined, caller>>
=============================================================================
