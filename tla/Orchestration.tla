---------------------------- MODULE Orchestration ----------------------------
(* A caller spawns graphs with a SubgraphSpawner; the first of them is a graph  *)
(* whose node runs subgraphs of its own. Aborting that graph drops the node in  *)
(* the middle of its join. The other spawned graphs are opaque.                *)
EXTENDS SubgraphSpawner

CONSTANT Setups   \* the nodes the instance is checked for

ASSUME SetupsAssumption == Setups \subseteq ParallelNodes \cup SubgraphNodes

vars == <<nodeVars, spawnVars>>

Parent == 1   \* the handle of the graph with the node

\* The parent's context before the node: every shared key is there.
InitialContext == [k \in Keys |-> Plain(0)]

Init ==
    /\ SpawnInit
    /\ setup \in Setups
    /\ node = "idle"
    /\ kids = <<>> /\ out = <<>> /\ heard = <<>>
    /\ ctx = InitialContext

StartNode == Running(task[Parent]) /\ Start /\ UNCHANGED spawnVars
EndKid(i, how) == KidEnds(i, how) /\ UNCHANGED spawnVars
CollectKid(i) == Collect(i) /\ UNCHANGED spawnVars
ReturnKid == Return /\ UNCHANGED spawnVars

\* The parent graph's own end follows its node's answer; a panic in a subgraph
\* awaited inline is a panic of the parent.
ParentEnds(how) ==
    /\ CASE how = "completed" -> node = "ok"
         [] how = "failed" -> node = "err"
         [] how = "panicked" -> setup.kind = "single" /\ node = "waiting"
                                  /\ kids[1].state = "panicked"
         [] how = "cancelled" -> node \notin {"idle", "waiting"}
    /\ RunEnds(Parent, how)
    /\ UNCHANGED nodeVars

AbortLandsOnNode ==
    RunEnds(Parent, "cancelled")
      /\ IF node = "idle" THEN UNCHANGED nodeVars ELSE Drop

OtherEnds(h, how) == h # Parent /\ RunEnds(h, how) /\ UNCHANGED nodeVars

CallerStep ==
    /\ \/ \E h \in Handles : Spawn(h) \/ JoinFirst(h) \/ AbortHandle(h)
       \/ BeginJoin
       \/ JoinNext
    /\ UNCHANGED nodeVars

Next ==
    \/ StartNode
    \/ \E i \in Slots, how \in Ends : EndKid(i, how)
    \/ \E i \in Slots : CollectKid(i)
    \/ ReturnKid
    \/ \E how \in Ends : ParentEnds(how)
    \/ AbortLandsOnNode
    \/ \E h \in Handles, how \in Ends : OtherEnds(h, how)
    \/ CallerStep

\* The runtime lands aborts and wakes whoever waits for a task that has ended.
\* That a graph ever ends by itself is not assumed.
Fairness ==
    /\ \A i \in 1 .. MaxKids :
          /\ WF_vars(i \in Slots /\ EndKid(i, "cancelled"))
          /\ WF_vars(i \in Slots /\ CollectKid(i))
    /\ WF_vars(ReturnKid) /\ WF_vars(AbortLandsOnNode)
    /\ \A how \in Ends : WF_vars(ParentEnds(how))
    /\ \A h \in Handles :
          /\ WF_vars(OtherEnds(h, "cancelled"))
          /\ WF_vars(JoinFirst(h) /\ UNCHANGED nodeVars)
    /\ WF_vars(JoinNext /\ UNCHANGED nodeVars)

Spec == Init /\ [][Next]_vars /\ Fairness
-----------------------------------------------------------------------------
(* Properties *)

KidsThat(outcome) == {i \in DOMAIN kids : Ended(kids[i]) /\ Outcome(kids[i]) = outcome}
Distinct(kidSeq) == \A i, j \in DOMAIN kidSeq : kidSeq[i].id = kidSeq[j].id => i = j

\* A node that answers ok has what its strategy asks for: every subgraph for
\* WaitAll and FailFast, one for WaitFirst, n of them for WaitN when there are
\* as many; no result it has heard is a failure. A node that answers with an
\* error has heard one, and has left the parent's context as it found it.
JoinKeepsItsPromise ==
    /\ node = "ok" =>
          LET done == CountOf(heard, "completed")
              all  == Len(setup.kids)
          IN  /\ Collected \subseteq KidsThat("completed")
              /\ CASE setup.join.kind \in {"WaitAll", "FailFast"} -> done = all
                   [] setup.join.kind = "WaitFirst" -> done = Min({1, all})
                   [] setup.join.kind = "WaitN" ->
                         done = Min({Max({1, setup.join.n}), all})
    /\ node # "ok" => ctx = InitialContext
    /\ node = "err" => Collected \cap KidsThat("failed") # {}

\* What the parent holds after a join that heard every subgraph does not depend
\* on the order their results arrived in, whenever each subgraph comes back
\* under a key of its own.
Separate ==
    /\ Distinct(setup.kids)
    /\ \/ \A i \in Slots : setup.kids[i].merger = "namespace"
       \/ \A i, j \in Slots :
             /\ setup.kids[i].merger = "keys"
             /\ i # j => OwnKey(i) # OwnKey(j)

ArrivalOrderIsInvisible ==
    node = "ok" /\ Collected = Slots /\ Separate =>
        ctx = MergeAll([i \in Slots |-> [slot |-> i, outcome |-> "completed"]],
                       InitialContext)

\* A graph that runs is counted active unless another one of its name has
\* returned, and a name that is counted although no graph of that name runs is
\* that of a graph that was aborted or panicked.
Returned(h) == task[h].state \in {"completed", "failed"}
Namesakes(h) == {g \in Handles \ {h} : nameOf[g] = nameOf[h]}

ActiveIsExact ==
    /\ \A h \in Handles : Running(task[h]) =>
          nameOf[h] \in active \/ \E g \in Namesakes(h) : Returned(g)
    /\ \A name \in active : \E h \in Handles :
          nameOf[h] = name /\ task[h].state \in {"running", "cancelled", "panicked"}

\* A join is over as soon as its strategy has what it needs, however long the
\* other subgraphs run, and leaves none of them running; so is join_first. The
\* subgraphs of a node that was dropped in the middle are not covered.
Enough ==
    \/ \A i \in Slots : Ended(kids[i])
    \/ setup.join.kind = "WaitFirst" /\ \E i \in Slots : Ended(kids[i])
    \/ setup.join.kind \in {"FailFast", "WaitN"} /\ KidsThat("failed") # {}
    \/ setup.join.kind = "WaitN" /\ setup.join.n > 0
         /\ Cardinality(KidsThat("completed")) >= setup.join.n

JoinsArePrompt ==
    /\ (node = "waiting" /\ setup.kind = "parallel" /\ Enough) ~> node # "waiting"
    /\ node \in {"ok", "err"} ~> \A i \in DOMAIN kids : Ended(kids[i])
    /\ (caller = "joining" /\ joins = "first" /\ \E h \in Handles : Ended(task[h]))
          ~> (caller = "done" /\ \A h \in Handles : Ended(task[h]))
-----------------------------------------------------------------------------
\* Small instances of the nodes, and of the names of two spawned graphs.

ParallelWith(kidSeq, joinSet) ==
    {[kind |-> "parallel", join |-> j, kids |-> kidSeq] : j \in joinSet}

MCSetups ==
    LET keys(id) == AddedWithHandlers(id, "extract", "keys")
        whole(id) == AddedWithHandlers(id, "clone", "all")
        wait(kind) == [kind |-> kind, n |-> 0]
        waitN(n) == [kind |-> "WaitN", n |-> n]
    IN  ParallelWith(<<Added("web"), Added("docs")>>,
                 {wait("WaitAll"), wait("WaitFirst"), waitN(0), waitN(3)})
          \cup ParallelWith(<<keys("web"), keys("docs")>>, {wait("FailFast"), waitN(1)})
          \cup ParallelWith(<<whole("web"), keys("web")>>, {waitN(2)})
          \cup ParallelWith(<<>>, {wait("WaitFirst")})
          \cup {[kind |-> "single", join |-> wait("WaitAll"), kids |-> <<whole("docs")>>]}

MCNamings == {<<"r0", "r0">>, <<"r0", "r1">>}
=============================================================================
