----------------------- MODULE JoinsAndIndexesProofs -----------------------
(***************************************************************************)
(* Components whose proofs rest on the same counting in sequences.  For    *)
(* any set of nodes, subgraphs and spawned graphs: a join keeps its        *)
(* promise and does not show the order results arrived in, and the         *)
(* spawner's set of active names is exact.  For any number of callers,     *)
(* decisions and calls: the indexes of the decision store in memory answer *)
(* as the table of the SurrealDB store does, and listings are exact.  For  *)
(* any number of threads: the table of the SurrealDB checkpointer, as it   *)
(* is listed, is the log the Checkpointer trait promises.  For any         *)
(* documents, queries and budgets: retrieval from the memory of a          *)
(* repository is exact.                                                    *)
(***************************************************************************)
EXTENDS Orchestration, DecisionStores, SurrealCheckpointer, RepositoryMemory, TLAPS, SequenceTheorems, FiniteSetTheorems

-----------------------------------------------------------------------------
\* Induction over the natural numbers, for a set: were some m missing, counting
\* down from it would map its missing predecessors into one place fewer.
LEMMA Induction ==
  ASSUME NEW S, 0 \in S, \A n \in Nat : n \in S => n + 1 \in S
  PROVE  Nat \subseteq S
<1> SUFFICES ASSUME NEW m \in Nat, m \notin S PROVE FALSE
  OBVIOUS
<1> DEFINE A == {n \in 0 .. m : n \notin S}
           B == A \ {m}
           f == [n \in A |-> n - 1]
<1>1. ASSUME NEW n \in A PROVE n # 0 /\ n - 1 \in B
  OBVIOUS
<1>2. f \in [A -> B]
  BY <1>1
<1>3. IsFiniteSet(A) /\ m \in A
  <2>1. IsFiniteSet(0 .. m)
    BY FS_Interval
  <2> QED
    BY <2>1, FS_Subset
<1>4. IsFiniteSet(B) /\ Cardinality(B) < Cardinality(A)
  <2>1. Cardinality(A) \in Nat
    BY <1>3, FS_CardinalityType
  <2> QED
    BY <2>1, <1>3, FS_RemoveElement
<1>5. \E x, y \in A : x # y /\ f[x] = f[y]
  <2> HIDE DEF A, B, f
  <2> QED
    BY <1>2, <1>3, <1>4, FS_PigeonHole
<1> QED
  BY <1>5

-----------------------------------------------------------------------------
\* Sorting.  In a finite set with a strict linear order, the number of elements
\* before one tells its place, and there is one way to list the set in order.

Rank(S, R, x) == Cardinality({y \in S : <<y, x>> \in R})

Linear(S, R) ==
  /\ IsFiniteSet(S)
  /\ \A x \in S : <<x, x>> \notin R
  /\ \A x, y \in S : x = y \/ <<x, y>> \in R \/ <<y, x>> \in R
  /\ \A x, y, z \in S : <<x, y>> \in R /\ <<y, z>> \in R => <<x, z>> \in R

Sorted(q, S, R) ==
  /\ q \in Seq(S) /\ Len(q) = Cardinality(S)
  /\ \A j, k \in 1 .. Len(q) : j < k => <<q[j], q[k]>> \in R

LEMMA RanksRise ==
  ASSUME NEW S, NEW R, Linear(S, R), NEW x \in S, NEW z \in S, <<x, z>> \in R
  PROVE  Rank(S, R, x) < Rank(S, R, z)
<1> DEFINE A == {y \in S : <<y, x>> \in R}
           B == {y \in S : <<y, z>> \in R}
<1>1. A \subseteq B /\ x \in B /\ x \notin A /\ A \subseteq S /\ B \subseteq S
  BY DEF Linear
<1>2. IsFiniteSet(B) /\ IsFiniteSet(A)
  BY <1>1, FS_Subset DEF Linear
<1>3. Cardinality(A) <= Cardinality(B) /\ Cardinality(A) # Cardinality(B)
  <2> HIDE DEF A, B
  <2>1. A \in SUBSET B
    BY <1>1
  <2> QED
    BY <1>1, <1>2, <2>1, FS_Subset
<1>4. Cardinality(A) \in Nat /\ Cardinality(B) \in Nat
  BY <1>2, FS_CardinalityType
<1> QED
  BY <1>3, <1>4 DEF Rank

LEMMA Ranks ==
  ASSUME NEW S, NEW R, Linear(S, R)
  PROVE  /\ Cardinality(S) \in Nat
         /\ \A x \in S : Rank(S, R, x) \in 0 .. Cardinality(S) - 1
         /\ \A x, z \in S : Rank(S, R, x) = Rank(S, R, z) => x = z
         /\ \A k \in 0 .. Cardinality(S) - 1 : \E x \in S : Rank(S, R, x) = k
<1> DEFINE N == Cardinality(S)
<1>1. N \in Nat /\ IsFiniteSet(S)
  BY FS_CardinalityType DEF Linear
<1>2. ASSUME NEW x \in S PROVE Rank(S, R, x) \in 0 .. N - 1
  <2> DEFINE A == {y \in S : <<y, x>> \in R}
  <2>1. A \in SUBSET S /\ A # S
    BY DEF Linear
  <2> HIDE DEF A
  <2>2. IsFiniteSet(A) /\ Cardinality(A) <= N /\ Cardinality(A) # N
    BY <1>1, <2>1, FS_Subset
  <2>3. Cardinality(A) \in Nat
    BY <2>2, FS_CardinalityType
  <2> QED
    BY <1>1, <2>2, <2>3 DEF Rank, A
<1>3. ASSUME NEW x \in S, NEW z \in S, Rank(S, R, x) = Rank(S, R, z)
      PROVE  x = z
  <2>1. CASE <<x, z>> \in R
    BY <1>2, <1>3, <2>1, RanksRise
  <2>2. CASE <<z, x>> \in R
    BY <1>2, <1>3, <2>2, RanksRise
  <2> QED
    BY <2>1, <2>2 DEF Linear
<1>4. ASSUME NEW k \in 0 .. N - 1, \A x \in S : Rank(S, R, x) # k
      PROVE  FALSE
  <2> DEFINE T == (0 .. N - 1) \ {k}
             f == [x \in S |-> Rank(S, R, x)]
  <2>1. f \in [S -> T]
    BY <1>2, <1>4
  <2>2. IsFiniteSet(0 .. N - 1) /\ Cardinality(0 .. N - 1) = N
    BY <1>1, FS_Interval
  <2>3. IsFiniteSet(T) /\ Cardinality(T) = N - 1
    BY <2>2, FS_RemoveElement
  <2>4. \E x, y \in S : x # y /\ f[x] = f[y]
    <3> HIDE DEF T, f
    <3> QED
      BY <1>1, <2>1, <2>3, FS_PigeonHole
  <2> QED
    BY <1>3, <2>4
<1> QED
  BY <1>1, <1>2, <1>3, <1>4

\* In a list in order, what stands at place k has k - 1 elements before it.
LEMMA Places ==
  ASSUME NEW S, NEW R, Linear(S, R), NEW q, Sorted(q, S, R)
  PROVE  \A k \in 1 .. Len(q) : Rank(S, R, q[k]) = k - 1
<1> DEFINE N == Len(q)
           r(k) == Rank(S, R, q[k])
<1>1. N \in Nat /\ \A k \in 1 .. N : q[k] \in S /\ r(k) \in 0 .. N - 1
  BY Ranks DEF Sorted
<1>2. ASSUME NEW j \in 1 .. N, NEW k \in 1 .. N, j < k PROVE r(j) < r(k)
  BY <1>1, <1>2, RanksRise DEF Sorted
<1> HIDE DEF r
<1> DEFINE Up == {n \in Nat : n + 1 \in 1 .. N => r(n + 1) >= n}
           Down == {n \in Nat : N - n \in 1 .. N => r(N - n) <= N - n - 1}
<1>3. Nat \subseteq Up
  <2>1. 0 \in Up
    BY <1>1
  <2>2. ASSUME NEW n \in Nat, n \in Up PROVE n + 1 \in Up
    <3> SUFFICES ASSUME n + 1 + 1 \in 1 .. N PROVE r(n + 1 + 1) >= n + 1
      OBVIOUS
    <3>1. n + 1 \in 1 .. N /\ n + 1 < n + 1 + 1
      BY <1>1
    <3>2. r(n + 1) < r(n + 1 + 1) /\ r(n + 1) >= n
      BY <1>2, <2>2, <3>1
    <3> QED
      BY <1>1, <3>1, <3>2
  <2> HIDE DEF Up
  <2> QED
    BY <2>1, <2>2, Induction
<1>4. Nat \subseteq Down
  <2>1. 0 \in Down
    BY <1>1
  <2>2. ASSUME NEW n \in Nat, n \in Down PROVE n + 1 \in Down
    <3> SUFFICES ASSUME N - (n + 1) \in 1 .. N PROVE r(N - (n + 1)) <= N - (n + 1) - 1
      OBVIOUS
    <3>1. N - n \in 1 .. N /\ N - (n + 1) < N - n
      BY <1>1
    <3>2. r(N - (n + 1)) < r(N - n) /\ r(N - n) <= N - n - 1
      BY <1>2, <2>2, <3>1
    <3>3. r(N - n) \in Int /\ r(N - (n + 1)) \in Int
      BY <1>1, <3>1
    <3> QED
      BY <1>1, <3>2, <3>3
  <2> HIDE DEF Down
  <2> QED
    BY <2>1, <2>2, Induction
<1> SUFFICES ASSUME NEW k \in 1 .. N PROVE r(k) = k - 1
  BY DEF r
<1>5. k - 1 \in Up /\ N - k \in Down
  <2>1. k - 1 \in Nat /\ N - k \in Nat
    BY <1>1
  <2> HIDE DEF Up, Down
  <2> QED
    BY <1>3, <1>4, <2>1
<1>6. k - 1 + 1 = k /\ N - (N - k) = k
  BY <1>1
<1> QED
  BY <1>1, <1>5, <1>6

LEMMA OneOrder ==
  ASSUME NEW S, NEW R, Linear(S, R), NEW p, NEW q, Sorted(p, S, R), Sorted(q, S, R)
  PROVE  p = q
<1>1. Len(p) = Len(q) /\ Len(p) \in Nat /\ p \in Seq(S) /\ q \in Seq(S)
  BY Ranks DEF Sorted
<1>2. ASSUME NEW k \in 1 .. Len(p) PROVE p[k] = q[k]
  <2>1. p[k] \in S /\ q[k] \in S
    BY <1>1
  <2>2. Rank(S, R, p[k]) = k - 1 /\ Rank(S, R, q[k]) = k - 1
    BY <1>1, Places
  <2> QED
    BY <2>1, <2>2, Ranks
<1> QED
  BY <1>1, <1>2

\* A list in order has everything in it.
LEMMA AllInOrder ==
  ASSUME NEW S, NEW R, Linear(S, R), NEW q, Sorted(q, S, R), NEW x \in S
  PROVE  \E k \in 1 .. Len(q) : q[k] = x
<1> DEFINE k == Rank(S, R, x) + 1
<1>1. k \in 1 .. Len(q) /\ q[k] \in S
  BY Ranks DEF Sorted
<1>2. Rank(S, R, q[k]) = Rank(S, R, x)
  <2>1. Rank(S, R, q[k]) = k - 1 /\ Rank(S, R, x) \in Int
    BY <1>1, Places, Ranks
  <2> QED
    BY <2>1
<1> QED
  BY <1>1, <1>2, Ranks

\* The list that has at place k the one with k - 1 elements before it is in order.
LEMMA ByRankInOrder ==
  ASSUME NEW S, NEW R, Linear(S, R), NEW q,
         q = [k \in 1 .. Cardinality(S) |-> q[k]],
         \A k \in 1 .. Cardinality(S) : q[k] \in S /\ Rank(S, R, q[k]) = k - 1
  PROVE  Sorted(q, S, R)
<1>1. q \in Seq(S) /\ Len(q) = Cardinality(S)
  BY Ranks
<1>2. ASSUME NEW j \in 1 .. Len(q), NEW k \in 1 .. Len(q), j < k
      PROVE  <<q[j], q[k]>> \in R
  <2>1. q[j] \in S /\ q[k] \in S /\ Rank(S, R, q[j]) = j - 1 /\ Rank(S, R, q[k]) = k - 1
    BY <1>1
  <2>2. ~(Rank(S, R, q[k]) < Rank(S, R, q[j])) /\ q[j] # q[k]
    BY <1>2, <2>1
  <2> QED
    BY <2>1, <2>2, RanksRise DEF Linear
<1> QED
  BY <1>1, <1>2 DEF Sorted

-----------------------------------------------------------------------------
\* What a spawned task is.
Task == [state : Ends \cup {"running"}, aborted : BOOLEAN]

-----------------------------------------------------------------------------
\* The spawner.  A name leaves the active set with the first graph of that name
\* that returns, and only then.

Spawned ==
  /\ task \in [Handles -> Task \cup {NotSpawned}]
  /\ ActiveIsExact

LEMMA SpawnOK ==
  ASSUME Spawned, NEW h \in Handles, Spawn(h)
  PROVE  Spawned'
<1>1. /\ task[h] = NotSpawned /\ nameOf' = nameOf
      /\ active' = active \cup {nameOf[h]}
      /\ task' = [task EXCEPT ![h] = NewTask]
  BY DEF Spawn
<1>2. /\ task'[h] = NewTask /\ NewTask \in Task /\ NewTask.state = "running"
      /\ \A g \in Handles \ {h} : task'[g] = task[g]
      /\ task[h].state = "unborn"
  BY <1>1 DEF Spawned, NewTask, Task, NotSpawned
<1>3. task' \in [Handles -> Task \cup {NotSpawned}]
  BY <1>1, <1>2 DEF Spawned
<1>4. ASSUME NEW g \in Handles, Running(task'[g])
      PROVE  nameOf[g] \in active' \/ \E k \in Namesakes(g) : task'[k].state \in {"completed", "failed"}
  <2>1. CASE g = h
    BY <2>1, <1>1
  <2>2. CASE g # h
    <3>1. nameOf[g] \in active \/ \E k \in Namesakes(g) : task[k].state \in {"completed", "failed"}
      BY <2>2, <1>2, <1>4 DEF Spawned, ActiveIsExact, Returned
    <3> QED
      BY <3>1, <1>1, <1>2 DEF Namesakes
  <2> QED
    BY <2>1, <2>2
<1>5. ASSUME NEW name \in active'
      PROVE  \E g \in Handles :
               nameOf[g] = name /\ task'[g].state \in {"running", "cancelled", "panicked"}
  <2>1. CASE name \in active
    BY <2>1, <1>2 DEF Spawned, ActiveIsExact
  <2>2. CASE name = nameOf[h]
    BY <2>2, <1>2
  <2> QED
    BY <2>1, <2>2, <1>1
<1> QED
  BY <1>1, <1>3, <1>4, <1>5 DEF Spawned, ActiveIsExact, Namesakes, Returned

LEMMA RunEndsOK ==
  ASSUME Spawned, NEW h \in Handles, NEW how \in Ends, RunEnds(h, how)
  PROVE  Spawned'
<1>1. /\ task[h].state = "running" /\ nameOf' = nameOf
      /\ task' = [task EXCEPT ![h].state = how]
      /\ active' = IF how \in {"completed", "failed"} THEN active \ {nameOf[h]} ELSE active
  BY DEF RunEnds, MayEnd, Running
<1>2. task[h] \in Task
  BY <1>1 DEF Spawned, NotSpawned
<1>3. /\ task'[h] \in Task /\ task'[h].state = how
      /\ \A g \in Handles \ {h} : task'[g] = task[g]
      /\ task' = [g \in Handles |-> task'[g]]
  BY <1>1, <1>2 DEF Spawned, Task
<1>4. task' \in [Handles -> Task \cup {NotSpawned}]
  BY <1>3 DEF Spawned
<1>5. ASSUME NEW g \in Handles, Running(task'[g])
      PROVE  nameOf[g] \in active' \/ \E k \in Namesakes(g) : task'[k].state \in {"completed", "failed"}
  <2>1. g # h
    BY <1>3, <1>5 DEF Running, Ends
  <2>2. CASE nameOf[g] = nameOf[h] /\ how \in {"completed", "failed"}
    BY <2>1, <2>2, <1>3 DEF Namesakes
  <2>3. CASE ~(nameOf[g] = nameOf[h] /\ how \in {"completed", "failed"})
    <3>1. nameOf[g] \in active \/ \E k \in Namesakes(g) : task[k].state \in {"completed", "failed"}
      BY <2>1, <1>3, <1>5 DEF Spawned, ActiveIsExact, Returned
    <3>2. \A k \in Handles : task[k].state \in {"completed", "failed"} => task'[k] = task[k]
      BY <1>1, <1>3
    <3> QED
      BY <2>3, <3>1, <3>2, <1>1 DEF Namesakes
  <2> QED
    BY <2>2, <2>3
<1>6. ASSUME NEW name \in active'
      PROVE  \E g \in Handles :
               nameOf[g] = name /\ task'[g].state \in {"running", "cancelled", "panicked"}
  <2>1. PICK g \in Handles :
          nameOf[g] = name /\ task[g].state \in {"running", "cancelled", "panicked"}
    BY <1>1 DEF Spawned, ActiveIsExact
  <2>2. CASE g = h
    BY <2>1, <2>2, <1>1, <1>3 DEF Ends
  <2>3. CASE g # h
    BY <2>1, <2>3, <1>3
  <2> QED
    BY <2>2, <2>3
<1> QED
  BY <1>1, <1>4, <1>5, <1>6 DEF Spawned, ActiveIsExact, Namesakes, Returned

\* Aborting tasks, any of them, ends none.
LEMMA AbortsOK ==
  ASSUME Spawned, UNCHANGED <<nameOf, active>>,
         task' = [g \in Handles |-> task'[g]],
         \A g \in Handles : task'[g] \in {task[g], Abort(task[g])}
  PROVE  Spawned'
<1>1. ASSUME NEW g \in Handles
      PROVE  task'[g] \in Task \cup {NotSpawned} /\ task'[g].state = task[g].state
  <2>1. task[g] \in Task \cup {NotSpawned}
    BY DEF Spawned
  <2>2. CASE task[g].state = "running"
    <3>1. task[g] \in Task
      BY <2>1, <2>2 DEF NotSpawned
    <3> QED
      BY <2>2, <3>1 DEF Abort, Running, Task
  <2>3. CASE task[g].state # "running"
    BY <2>1, <2>3 DEF Abort, Running
  <2> QED
    BY <2>2, <2>3
<1> QED
  BY <1>1 DEF Spawned, ActiveIsExact, Namesakes, Returned, Running

LEMMA SpawnerOK == Spawned /\ [Next]_vars => Spawned'
<1> SUFFICES ASSUME Spawned, [Next]_vars PROVE Spawned'
  OBVIOUS
<1>1. ASSUME NEW h \in Handles, Spawn(h) PROVE Spawned'
  BY <1>1, SpawnOK
<1>2. ASSUME NEW h \in Handles, NEW how \in Ends, RunEnds(h, how) PROVE Spawned'
  BY <1>2, RunEndsOK
<1>3. ASSUME NEW h \in Handles, JoinFirst(h) PROVE Spawned'
  BY <1>3, AbortsOK DEF JoinFirst
<1>4. ASSUME NEW h \in Handles, AbortHandle(h) PROVE Spawned'
  <2>1. /\ UNCHANGED <<nameOf, active>>
        /\ task' = [g \in Handles |-> task'[g]]
        /\ \A g \in Handles : task'[g] \in {task[g], Abort(task[g])}
    BY <1>4 DEF AbortHandle, Spawned
  <2> QED
    BY <2>1, AbortsOK
<1>5. CASE UNCHANGED <<nameOf, task, active>>
  BY <1>5 DEF Spawned, ActiveIsExact, Namesakes, Returned
<1>6. ParentEnds("completed") \/ ParentEnds("failed") \/ ParentEnds("panicked")
        \/ ParentEnds("cancelled") \/ AbortLandsOnNode => Spawned'
  BY <1>2, HandlesAssumption DEF ParentEnds, AbortLandsOnNode, Parent, Ends
<1> QED
  BY <1>1, <1>2, <1>3, <1>4, <1>5, <1>6
  DEF Next, vars, spawnVars, StartNode, EndKid, CollectKid, ReturnKid, OtherEnds, CallerStep,
      BeginJoin, JoinNext, Ends

\* Of two graphs spawned under one name, the one that returns first takes the name
\* out of active_runs while the other runs: that, and a graph that was aborted or
\* panicked before it could take its name out, is all that is ever wrong with the
\* set (SubgraphSpawner::spawn and its task).
THEOREM ActiveStaysExact == Spec => []ActiveIsExact
<1>1. Init => Spawned
  BY DEF Init, SpawnInit, Spawned, ActiveIsExact, NotSpawned, Running
<1>2. Spawned => ActiveIsExact
  BY DEF Spawned
<1> QED
  BY <1>1, <1>2, SpawnerOK, PTL DEF Spec

-----------------------------------------------------------------------------
\* The node.  Until it answers nothing has been aborted, the results it has heard
\* are what the subgraphs ended with, and none of them was enough to stop.

Result == [slot : Slots, outcome : {"completed", "failed"}]

AllCompleted(results) == \A r \in DOMAIN results : results[r].outcome = "completed"

NodeTyped ==
  /\ setup \in ParallelNodes \cup SubgraphNodes
  /\ node \in {"idle", "waiting", "ok", "err", "dropped"}
  /\ node = "idle" \/ kids = <<>> \/ kids \in [Slots -> Task]
  /\ heard \in Seq(Result)

HeardIsTrue ==
  \A r \in DOMAIN heard :
    /\ kids \in [Slots -> Task]
    /\ Ended(kids[heard[r].slot])
    /\ Outcome(kids[heard[r].slot]) = heard[r].outcome

NotEnoughYet ==
  /\ node = "idle" => heard = <<>> /\ kids = <<>>
  /\ node = "waiting" =>
       /\ kids \in [Slots -> Task]
       /\ \A i \in Slots : ~kids[i].aborted /\ kids[i].state # "cancelled"
       /\ Len(heard) < Len(setup.kids)
       /\ heard # <<>> =>
            /\ setup.kind = "parallel"
            /\ setup.join.kind # "WaitFirst"
            /\ setup.join.kind \in {"FailFast", "WaitN"} => AllCompleted(heard)
            /\ setup.join.kind = "WaitN" => Len(heard) < setup.join.n

Promised ==
  /\ node = "ok" =>
       /\ AllCompleted(heard)
       /\ CASE setup.join.kind \in {"WaitAll", "FailFast"} -> Len(heard) = Len(setup.kids)
            [] setup.join.kind = "WaitFirst" -> Len(heard) = Min({1, Len(setup.kids)})
            [] setup.join.kind = "WaitN" ->
                 Len(heard) = Min({Max({1, setup.join.n}), Len(setup.kids)})
  /\ node # "ok" => ctx = InitialContext
  /\ node = "err" => \E r \in DOMAIN heard : heard[r].outcome = "failed"

Joining == NodeTyped /\ HeardIsTrue /\ NotEnoughYet /\ Promised

-----------------------------------------------------------------------------
\* Counting results.

LEMMA SetupIs ==
  ASSUME NodeTyped
  PROVE  /\ Len(setup.kids) \in Nat /\ Slots = 1 .. Len(setup.kids)
         /\ setup.kids = <<>> <=> Len(setup.kids) = 0
         /\ setup.kind = "single" => Len(setup.kids) = 1 /\ setup.join.kind = "WaitAll"
         /\ setup.join.kind \in {"WaitAll", "WaitFirst", "FailFast", "WaitN"}
         /\ setup.join.n \in Nat
<1>1. CASE setup \in ParallelNodes
  <2>1. PICK j \in JoinStrategy, k \in SeqOf(SubgraphConfig, MaxKids) :
          setup = [kind |-> "parallel", join |-> j, kids |-> k]
    BY <1>1 DEF ParallelNodes
  <2>2. PICK m \in 0 .. MaxKids : k \in [1 .. m -> SubgraphConfig]
    BY DEF SeqOf
  <2>3. k \in Seq(SubgraphConfig) /\ m \in Nat
    BY <2>2, KidsAssumption, SeqDef
  <2>4. Len(k) \in Nat /\ DOMAIN k = 1 .. Len(k)
    BY <2>3, LenProperties
  <2>5. k = <<>> <=> Len(k) = 0
    BY <2>3, EmptySeq
  <2>6. j.kind \in {"WaitAll", "WaitFirst", "FailFast", "WaitN"} /\ j.n \in Nat
    BY KidsAssumption DEF JoinStrategy
  <2> QED
    BY <2>1, <2>4, <2>5, <2>6 DEF Slots
<1>2. CASE setup \in SubgraphNodes
  <2>1. PICK k \in SubgraphConfig :
          setup = [kind |-> "single", join |-> [kind |-> "WaitAll", n |-> 0], kids |-> <<k>>]
    BY <1>2 DEF SubgraphNodes
  <2> QED
    BY <2>1 DEF Slots
<1> QED
  BY <1>1, <1>2 DEF NodeTyped

\* Of results that are all of one outcome the count is their number.
LEMMA Counts ==
  ASSUME NEW S, NEW results \in Seq(S)
  PROVE  /\ \A outcome : CountOf(results, outcome) \in Nat
         /\ AllCompleted(results) => CountOf(results, "completed") = Len(results)
         /\ CountOf(results, "failed") > 0 <=> \E r \in DOMAIN results : results[r].outcome = "failed"
<1> DEFINE With(outcome) == {r \in DOMAIN results : results[r].outcome = outcome}
<1>1. DOMAIN results = 1 .. Len(results) /\ Len(results) \in Nat
  BY LenProperties
<1>2. IsFiniteSet(1 .. Len(results)) /\ Cardinality(1 .. Len(results)) = Len(results)
  <2>1. \A n \in Nat : IsFiniteSet(1 .. n) /\ Cardinality(1 .. n) = n
    <3> SUFFICES ASSUME NEW n \in Nat PROVE IsFiniteSet(1 .. n) /\ Cardinality(1 .. n) = n
      OBVIOUS
    <3>1. IsFiniteSet(1 .. n) /\ Cardinality(1 .. n) = IF 1 > n THEN 0 ELSE n - 1 + 1
      BY FS_Interval
    <3> QED
      BY <3>1
  <2> QED
    BY <1>1, <2>1
<1>3. ASSUME NEW outcome
      PROVE  IsFiniteSet(With(outcome)) /\ Cardinality(With(outcome)) \in Nat
  BY <1>1, <1>2, FS_Subset, FS_CardinalityType
<1>4. AllCompleted(results) => With("completed") = 1 .. Len(results)
  BY <1>1 DEF AllCompleted
<1>5. Cardinality(With("failed")) = 0 <=> With("failed") = {}
  BY <1>3, FS_EmptySet
<1>6. With("failed") = {} <=> ~\E r \in DOMAIN results : results[r].outcome = "failed"
  OBVIOUS
<1>7. \A outcome : CountOf(results, outcome) = Cardinality(With(outcome))
  BY DEF CountOf
<1> HIDE DEF With
<1> QED
  BY <1>2, <1>3, <1>4, <1>5, <1>6, <1>7

LEMMA MinMax ==
  \A a, b \in Nat : /\ Min({a, b}) = IF a <= b THEN a ELSE b
                    /\ Max({a, b}) = IF a <= b THEN b ELSE a
<1> SUFFICES ASSUME NEW a \in Nat, NEW b \in Nat
             PROVE  /\ Min({a, b}) = IF a <= b THEN a ELSE b
                    /\ Max({a, b}) = IF a <= b THEN b ELSE a
  OBVIOUS
<1>1. \E x \in {a, b} : \A y \in {a, b} : x <= y
  OBVIOUS
<1>2. \E x \in {a, b} : \A y \in {a, b} : x >= y
  OBVIOUS
<1>3. Min({a, b}) \in {a, b} /\ \A y \in {a, b} : Min({a, b}) <= y
  BY <1>1 DEF Min
<1>4. Max({a, b}) \in {a, b} /\ \A y \in {a, b} : Max({a, b}) >= y
  BY <1>2 DEF Max
<1> QED
  BY <1>3, <1>4

\* What has been heard of a task that has ended stays true: it changes no more.
LEMMA EndedStays ==
  ASSUME HeardIsTrue, NodeTyped, UNCHANGED <<setup, heard>>, kids' \in [Slots -> Task],
         \A i \in Slots : Ended(kids[i]) => kids'[i] = kids[i]
  PROVE  HeardIsTrue'
<1> SUFFICES ASSUME NEW r \in DOMAIN heard
             PROVE  /\ Ended(kids'[heard[r].slot])
                    /\ Outcome(kids'[heard[r].slot]) = heard[r].outcome
  BY DEF HeardIsTrue, Slots
<1>1. heard[r].slot \in Slots
  <2>1. heard \in Seq(Result)
    BY DEF NodeTyped
  <2>2. heard[r] \in Result
    BY <2>1, ElementOfSeq, LenProperties
  <2> QED
    BY <2>2 DEF Result
<1> QED
  BY <1>1 DEF HeardIsTrue

-----------------------------------------------------------------------------
\* The steps of the node.

LEMMA StartOK ==
  ASSUME Joining, Start
  PROVE  Joining'
<1>1. /\ node = "idle" /\ heard = <<>> /\ UNCHANGED <<setup, heard, ctx>> /\ ctx = InitialContext
      /\ Slots' = Slots
  BY DEF Start, Joining, NotEnoughYet, Promised, Slots
<1>2. heard' = <<>> /\ DOMAIN heard' = {} /\ Len(heard') = 0
  BY <1>1, EmptySeq, LenProperties
<1>3. /\ Len(setup.kids) \in Nat /\ (setup.kids = <<>> <=> Len(setup.kids) = 0)
      /\ setup.join.kind \in {"WaitAll", "WaitFirst", "FailFast", "WaitN"}
      /\ setup.join.n \in Nat
  BY SetupIs DEF Joining
<1>4. CASE setup.kids = <<>>
  <2>1. node' = "ok" /\ UNCHANGED kids /\ kids = <<>>
    BY <1>1, <1>4 DEF Start, Joining, NotEnoughYet
  <2>2. Min({1, 0}) = 0 /\ Min({Max({1, setup.join.n}), 0}) = 0
    <3>1. \A n \in Nat : Max({1, n}) \in Nat /\ Min({1, 0}) = 0
      BY MinMax
    <3>2. \A n \in Nat : Min({n, 0}) = 0
      BY MinMax
    <3> QED
      BY <1>3, <3>1, <3>2
  <2>3. Len(setup.kids) = 0
    BY <1>3, <1>4
  <2>4. Promised'
    BY <1>1, <1>2, <1>3, <2>1, <2>2, <2>3 DEF Promised, AllCompleted
  <2> QED
    BY <1>1, <1>2, <2>1, <2>4 DEF Joining, NodeTyped, HeardIsTrue, NotEnoughYet, Result
<1>5. CASE setup.kids # <<>>
  <2>1. /\ node' = "waiting"
        /\ kids' = [i \in Slots |-> NewTask]
    BY <1>5 DEF Start
  <2>2. kids' \in [Slots -> Task] /\ \A i \in Slots : kids'[i] = NewTask
    BY <2>1 DEF NewTask, Task
  <2>3. NotEnoughYet'
    BY <1>1, <1>2, <1>3, <1>5, <2>1, <2>2 DEF NotEnoughYet, NewTask
  <2>4. Promised' /\ HeardIsTrue'
    BY <1>1, <1>2, <2>1 DEF Promised, HeardIsTrue, Joining, InitialContext
  <2> QED
    BY <1>1, <2>1, <2>2, <2>3, <2>4 DEF Joining, NodeTyped, Result
<1> QED
  BY <1>4, <1>5

LEMMA KidEndsOK ==
  ASSUME Joining, NEW i \in Slots, NEW how \in Ends, KidEnds(i, how)
  PROVE  Joining'
<1>1. /\ kids # <<>> /\ MayEnd(kids[i], how) /\ kids[i].state = "running"
      /\ kids' = [kids EXCEPT ![i].state = how]
      /\ UNCHANGED <<setup, node, heard, ctx>> /\ Slots' = Slots
  BY DEF KidEnds, MayEnd, Running, Slots
<1>2. node # "idle" /\ kids \in [Slots -> Task]
  BY <1>1 DEF Joining, NodeTyped, NotEnoughYet
<1>3. /\ kids' \in [Slots -> Task]
      /\ kids'[i].state = how /\ kids'[i].aborted = kids[i].aborted
      /\ \A j \in Slots \ {i} : kids'[j] = kids[j]
  BY <1>1, <1>2 DEF Task
<1>4. NodeTyped'
  BY <1>1, <1>3 DEF Joining, NodeTyped, Result
<1>5. HeardIsTrue'
  BY <1>1, <1>3, EndedStays DEF Joining, Ended, Ends
<1>6. NotEnoughYet'
  <2>1. node = "waiting" => how # "cancelled"
    BY <1>1 DEF Joining, NotEnoughYet, MayEnd
  <2> QED
    BY <1>1, <1>2, <1>3, <2>1 DEF Joining, NotEnoughYet, AllCompleted
<1>7. Promised'
  BY <1>1 DEF Joining, Promised, InitialContext, AllCompleted
<1> QED
  BY <1>4, <1>5, <1>6, <1>7 DEF Joining

\* The answer to results that are true and enough.
LEMMA AnswerOK ==
  ASSUME Joining, node = "waiting", Answer(heard'), UNCHANGED setup,
         kids' \in [Slots -> Task], heard' \in Seq(Result), HeardIsTrue',
         AllCompleted(heard') =>
           CASE setup.join.kind \in {"WaitAll", "FailFast"} -> Len(heard') = Len(setup.kids)
             [] setup.join.kind = "WaitFirst" -> Len(heard') = Min({1, Len(setup.kids)})
             [] setup.join.kind = "WaitN" ->
                  Len(heard') = Min({Max({1, setup.join.n}), Len(setup.kids)})
  PROVE  Joining'
<1>1. CountOf(heard', "failed") > 0 <=> \E r \in DOMAIN heard' : heard'[r].outcome = "failed"
  BY Counts
<1>2. (~\E r \in DOMAIN heard' : heard'[r].outcome = "failed") => AllCompleted(heard')
  <2>1. \A r \in DOMAIN heard' : heard'[r] \in Result
    BY ElementOfSeq, LenProperties
  <2> QED
    BY <2>1 DEF Result, AllCompleted
<1>3. node' \in {"ok", "err"} /\ Slots' = Slots
  BY DEF Answer, Slots
<1>4. NodeTyped'
  BY <1>3 DEF Joining, NodeTyped, Result
<1>5. NotEnoughYet'
  BY <1>3 DEF NotEnoughYet
<1>6. Promised'
  <2>1. CASE CountOf(heard', "failed") > 0
    <3>1. node' = "err" /\ ctx' = ctx /\ ctx = InitialContext
      BY <2>1 DEF Answer, Joining, Promised
    <3> QED
      BY <2>1, <3>1, <1>1 DEF Promised, InitialContext
  <2>2. CASE ~(CountOf(heard', "failed") > 0)
    <3>1. node' = "ok" /\ AllCompleted(heard')
      BY <2>2, <1>1, <1>2 DEF Answer
    <3> QED
      BY <3>1 DEF Promised, AllCompleted
  <2> QED
    BY <2>1, <2>2
<1> QED
  BY <1>4, <1>5, <1>6 DEF Joining

LEMMA CollectOK ==
  ASSUME Joining, NEW i \in Slots, Collect(i)
  PROVE  Joining'
<1> DEFINE result == [slot |-> i, outcome |-> Outcome(kids[i])]
           n == Len(heard)
           all == Len(setup.kids)
<1>1. /\ setup.kind = "parallel" /\ node = "waiting" /\ Ended(kids[i])
      /\ heard' = Append(heard, result) /\ setup' = setup /\ Slots' = Slots
  BY DEF Collect, Slots
<1>2. /\ kids \in [Slots -> Task] /\ n < all /\ heard \in Seq(Result)
      /\ n \in Nat /\ all \in Nat /\ setup.join.n \in Nat
      /\ setup.join.kind \in {"WaitAll", "WaitFirst", "FailFast", "WaitN"}
      /\ \A j \in Slots : kids[j].state # "cancelled"
  BY <1>1, SetupIs, LenProperties DEF Joining, NodeTyped, NotEnoughYet
<1>3. result \in Result
  BY <1>1, <1>2 DEF Result, Outcome, Ended, Ends
<1>4. result.slot = i /\ result.outcome = Outcome(kids[i])
  OBVIOUS
<1> HIDE DEF result
<1>5. /\ heard' \in Seq(Result) /\ Len(heard') = n + 1
      /\ DOMAIN heard = 1 .. n /\ DOMAIN heard' = 1 .. n + 1
      /\ \A r \in 1 .. n : heard'[r] = heard[r]
      /\ heard'[n + 1] = result /\ Last(heard') = result
  BY <1>1, <1>2, <1>3, AppendProperties, LenProperties DEF Last
<1>6. kids' \in [Slots -> Task] /\ \A j \in Slots : Ended(kids[j]) => kids'[j] = kids[j]
  <2>1. kids' = kids \/ kids' = [j \in Slots |-> Abort(kids[j])]
    BY DEF Collect
  <2>2. ASSUME NEW j \in Slots
        PROVE  Abort(kids[j]) \in Task /\ (Ended(kids[j]) => Abort(kids[j]) = kids[j])
    BY <1>2 DEF Abort, Running, Ended, Ends, Task
  <2> QED
    BY <2>1, <2>2, <1>2
<1>7. HeardIsTrue'
  <2> SUFFICES ASSUME NEW r \in DOMAIN heard'
               PROVE  /\ Ended(kids'[heard'[r].slot])
                      /\ Outcome(kids'[heard'[r].slot]) = heard'[r].outcome
    BY <1>1, <1>6 DEF HeardIsTrue, Slots
  <2>1. CASE r = n + 1
    BY <2>1, <1>1, <1>4, <1>5, <1>6
  <2>2. CASE r # n + 1
    <3>1. r \in 1 .. n /\ heard'[r] = heard[r]
      BY <2>2, <1>2, <1>5
    <3>2. heard[r] \in Result
      BY <3>1, <1>2, ElementOfSeq
    <3>3. /\ heard[r].slot \in Slots /\ Ended(kids[heard[r].slot])
          /\ Outcome(kids[heard[r].slot]) = heard[r].outcome
      BY <3>1, <3>2, <1>5 DEF Joining, HeardIsTrue, Result
    <3> QED
      BY <3>1, <3>3, <1>6
  <2> QED
    BY <2>1, <2>2
<1>8. /\ AllCompleted(heard') <=> AllCompleted(heard) /\ result.outcome = "completed"
      /\ AllCompleted(heard') => CountOf(heard', "completed") = n + 1
  <2>1. AllCompleted(heard') <=> AllCompleted(heard) /\ result.outcome = "completed"
    BY <1>2, <1>5 DEF AllCompleted
  <2> QED
    BY <2>1, <1>5, Counts
<1>9. /\ heard # <<>> <=> n > 0
      /\ n > 0 => /\ setup.join.kind # "WaitFirst"
                  /\ setup.join.kind \in {"FailFast", "WaitN"} => AllCompleted(heard)
                  /\ setup.join.kind = "WaitN" => n < setup.join.n
  BY <1>1, <1>2, EmptySeq DEF Joining, NotEnoughYet
<1>10. n = 0 => AllCompleted(heard)
  BY <1>5 DEF AllCompleted
<1> HIDE DEF n, all
<1>11. CASE StopsAt(heard') \/ n + 1 = all
  <2>1. Answer(heard')
    BY <1>5, <1>11 DEF Collect, all
  <2>2. CASE AllCompleted(heard')
    <3>1. setup.join.kind \in {"WaitAll", "FailFast"} => n + 1 = all
      BY <2>2, <1>5, <1>8, <1>11 DEF StopsAt
    <3>2. setup.join.kind = "WaitFirst" => n + 1 = Min({1, all})
      <4>1. \A k \in Nat : Min({1, k}) = IF 1 <= k THEN 1 ELSE k
        BY MinMax
      <4> QED
        BY <4>1, <1>2, <1>9
    <3>3. setup.join.kind = "WaitN" => n + 1 = Min({Max({1, setup.join.n}), all})
      <4> SUFFICES ASSUME setup.join.kind = "WaitN"
                   PROVE  n + 1 = Min({Max({1, setup.join.n}), all})
        OBVIOUS
      <4>1. \A k \in Nat : Max({1, k}) = IF 1 <= k THEN k ELSE 1
        BY MinMax
      <4>2. \A k \in Nat : Min({k, all}) = IF k <= all THEN k ELSE all
        BY MinMax, <1>2
      <4>3. n + 1 >= setup.join.n \/ n + 1 = all
        BY <2>2, <1>5, <1>8, <1>11 DEF StopsAt
      <4>4. n = 0 \/ n < setup.join.n
        BY <1>2, <1>9
      <4> QED
        BY <4>1, <4>2, <4>3, <4>4, <1>2
    <3>4. CASE setup.join.kind \in {"WaitAll", "FailFast"}
      BY <3>1, <3>4, <1>1, <1>5, <1>6, <1>7, <2>1, AnswerOK DEF all
    <3>5. CASE setup.join.kind = "WaitFirst"
      BY <3>2, <3>5, <1>1, <1>5, <1>6, <1>7, <2>1, AnswerOK DEF all
    <3>6. CASE setup.join.kind = "WaitN"
      BY <3>3, <3>6, <1>1, <1>5, <1>6, <1>7, <2>1, AnswerOK DEF all
    <3> QED
      BY <3>4, <3>5, <3>6, <1>2
  <2>3. CASE ~AllCompleted(heard')
    BY <2>1, <2>3, <1>1, <1>5, <1>6, <1>7, AnswerOK
  <2> QED
    BY <2>2, <2>3
<1>12. CASE ~StopsAt(heard') /\ n + 1 # all
  <2>1. UNCHANGED <<kids, node, ctx, setup>>
    BY <1>5, <1>12 DEF Collect, all
  <2>2. /\ setup.join.kind # "WaitFirst"
        /\ setup.join.kind \in {"FailFast", "WaitN"} => result.outcome = "completed"
        /\ setup.join.kind = "WaitN" => ~(CountOf(heard', "completed") >= setup.join.n)
    BY <1>3, <1>5, <1>12 DEF StopsAt, Result
  <2>3. setup.join.kind \in {"FailFast", "WaitN"} => AllCompleted(heard')
    BY <2>2, <1>2, <1>8, <1>9, <1>10
  <2>4. setup.join.kind = "WaitN" => n + 1 < setup.join.n
    BY <2>2, <2>3, <1>2, <1>8
  <2>5. NotEnoughYet'
    BY <2>1, <2>2, <2>3, <2>4, <1>1, <1>2, <1>5, <1>12
    DEF NotEnoughYet, Joining, n, all
  <2>6. Promised'
    BY <2>1, <1>1 DEF Joining, Promised, InitialContext
  <2>7. NodeTyped'
    BY <2>1, <1>1, <1>5, <1>6 DEF Joining, NodeTyped, Result
  <2> QED
    BY <2>5, <2>6, <2>7, <1>7 DEF Joining
<1> QED
  BY <1>11, <1>12

LEMMA ReturnOK ==
  ASSUME Joining, Return
  PROVE  Joining'
<1> DEFINE result == [slot |-> 1, outcome |-> kids[1].state]
<1>1. /\ setup.kind = "single" /\ node = "waiting"
      /\ kids[1].state \in {"completed", "failed"}
      /\ heard' = <<result>> /\ Answer(heard')
      /\ UNCHANGED <<setup, kids, out>> /\ Slots' = Slots
  BY DEF Return, Slots
<1>2. /\ Len(setup.kids) = 1 /\ setup.join.kind = "WaitAll" /\ 1 \in Slots
      /\ kids \in [Slots -> Task]
  BY <1>1, SetupIs DEF Joining, NotEnoughYet
<1>3. result \in Result /\ result.slot = 1 /\ result.outcome = kids[1].state
  BY <1>1, <1>2 DEF Result
<1> HIDE DEF result
<1>4. /\ heard' \in Seq(Result) /\ Len(heard') = 1
      /\ DOMAIN heard' = {1} /\ heard'[1] = result
  BY <1>1, <1>3
<1>5. HeardIsTrue'
  BY <1>1, <1>2, <1>3, <1>4 DEF HeardIsTrue, Ended, Ends, Outcome
<1> QED
  BY <1>1, <1>2, <1>4, <1>5, AnswerOK

LEMMA DropOK ==
  ASSUME Joining, Drop
  PROVE  Joining'
<1>1. /\ node = "waiting" /\ node' = "dropped" /\ UNCHANGED <<setup, out, heard, ctx>>
      /\ Slots' = Slots /\ kids \in [Slots -> Task]
  BY DEF Drop, Joining, NotEnoughYet, Slots
<1>2. kids' \in [Slots -> Task] /\ \A i \in Slots : Ended(kids[i]) => kids'[i] = kids[i]
  BY <1>1 DEF Drop, Running, Ended, Ends, Task
<1>3. NodeTyped'
  BY <1>1, <1>2 DEF Joining, NodeTyped, Result
<1>4. HeardIsTrue'
  BY <1>1, <1>2, EndedStays DEF Joining
<1> QED
  BY <1>1, <1>3, <1>4 DEF Joining, NotEnoughYet, Promised, InitialContext

LEMMA NodeOK == Joining /\ [Next]_vars => Joining'
<1> SUFFICES ASSUME Joining, [Next]_vars PROVE Joining'
  OBVIOUS
<1>1. ASSUME NEW i \in Slots, NEW how \in Ends, KidEnds(i, how) PROVE Joining'
  BY <1>1, KidEndsOK
<1>2. ASSUME NEW i \in Slots, Collect(i) PROVE Joining'
  BY <1>2, CollectOK
<1>3. CASE UNCHANGED nodeVars
  BY <1>3 DEF nodeVars, Joining, NodeTyped, HeardIsTrue, NotEnoughYet, Promised, Slots,
              Result, AllCompleted, InitialContext
<1> QED
  BY <1>1, <1>2, <1>3, StartOK, ReturnOK, DropOK
  DEF Next, vars, StartNode, EndKid, CollectKid, ReturnKid, ParentEnds, AbortLandsOnNode,
      OtherEnds, CallerStep

LEMMA JoinsFromTheStart == Init => Joining
<1> SUFFICES ASSUME Init PROVE Joining
  OBVIOUS
<1>1. heard = <<>> /\ <<>> \in Seq(Result) /\ DOMAIN <<>> = {}
  BY EmptySeq, LenProperties DEF Init
<1> QED
  BY <1>1, SetupsAssumption
  DEF Init, Joining, NodeTyped, HeardIsTrue, NotEnoughYet, Promised

\* A parallel node answers ok with every subgraph completed for WaitAll and
\* FailFast, one for WaitFirst and n for WaitN if there are as many, and leaves the
\* parent's context alone unless it answers ok (ParallelSubgraphs::execute).
THEOREM JoinsKeepTheirPromise == Spec => []JoinKeepsItsPromise
<1>1. Init => Joining
  BY JoinsFromTheStart
<1>2. Joining => JoinKeepsItsPromise
  <2> SUFFICES ASSUME Joining PROVE JoinKeepsItsPromise
    OBVIOUS
  <2>1. heard \in Seq(Result)
    BY DEF Joining, NodeTyped
  <2>2. ASSUME NEW r \in DOMAIN heard
        PROVE  /\ heard[r].slot \in Slots /\ Ended(kids[heard[r].slot]) /\ DOMAIN kids = Slots
               /\ Outcome(kids[heard[r].slot]) = heard[r].outcome
    <3>1. heard[r] \in Result
      BY <2>1, ElementOfSeq, LenProperties
    <3> QED
      BY <3>1 DEF Joining, HeardIsTrue, Result
  <2>3. AllCompleted(heard) => /\ Collected \subseteq KidsThat("completed")
                               /\ CountOf(heard, "completed") = Len(heard)
    BY <2>1, <2>2, Counts DEF Collected, KidsThat, AllCompleted
  <2>4. node = "err" => Collected \cap KidsThat("failed") # {}
    BY <2>2 DEF Joining, Promised, Collected, KidsThat
  <2> QED
    BY <2>3, <2>4 DEF Joining, Promised, JoinKeepsItsPromise
<1> QED
  BY <1>1, <1>2, NodeOK, PTL DEF Spec

-----------------------------------------------------------------------------
\* Merging.  When each subgraph comes back under keys of its own, what a set of
\* slots leaves in the parent depends on the set alone.

Kept(i) ==
  IF setup.kids[i].merger = "namespace" THEN {setup.kids[i].id}
  ELSE DOMAIN out[i] \cap {OwnKey(i)}

Given(i, k) ==
  IF setup.kids[i].merger = "namespace" THEN Json(out[i]) ELSE out[i][k]

Whole(S, parent) ==
  [k \in DOMAIN parent \cup UNION {Kept(i) : i \in S} |->
     IF \E i \in S : k \in Kept(i) THEN Given(CHOOSE i \in S : k \in Kept(i), k)
     ELSE parent[k]]

LEMMA OwnPlaces ==
  ASSUME NodeTyped, Separate, NEW i \in Slots
  PROVE  /\ MergerOf(i) = i
         /\ \A j \in Slots : j # i => Kept(i) \cap Kept(j) = {}
         /\ \A parent : MergedInto(i, parent, out[i]) =
              [k \in Kept(i) \cup DOMAIN parent |->
                 IF k \in Kept(i) THEN Given(i, k) ELSE parent[k]]
<1>1. Slots \subseteq Nat
  BY SetupIs
<1>2. \A j \in Slots : setup.kids[j].id = setup.kids[i].id <=> j = i
  BY DEF Separate, Distinct, Slots
<1>3. MergerOf(i) = i
  <2>1. {j \in Slots : setup.kids[j].id = setup.kids[i].id} = {i}
    BY <1>2
  <2>2. Max({i}) = i
    <3>1. \A n \in Nat : Max({n, n}) = n
      BY MinMax
    <3>2. {i} = {i, i}
      OBVIOUS
    <3> QED
      BY <1>1, <3>1, <3>2
  <2> QED
    BY <2>1, <2>2 DEF MergerOf
<1>4. ASSUME NEW parent
      PROVE  MergedInto(i, parent, out[i]) =
              [k \in Kept(i) \cup DOMAIN parent |->
                 IF k \in Kept(i) THEN Given(i, k) ELSE parent[k]]
  <2>1. CASE setup.kids[i].merger = "namespace"
    BY <2>1 DEF MergedInto, Kept, Given, Extended
  <2>2. CASE setup.kids[i].merger = "keys"
    <3> DEFINE own == DOMAIN out[i] \cap {OwnKey(i)}
    <3>1. MergedInto(i, parent, out[i]) = Extended(parent, [k \in own |-> out[i][k]])
      BY <2>2 DEF MergedInto
    <3>2. Kept(i) = own /\ \A k : Given(i, k) = out[i][k]
      BY <2>2 DEF Kept, Given
    <3> HIDE DEF own
    <3> QED
      BY <3>1, <3>2 DEF Extended
  <2> QED
    BY <2>1, <2>2 DEF Separate
<1>5. ASSUME NEW j \in Slots, j # i PROVE Kept(i) \cap Kept(j) = {}
  BY <1>2, <1>5 DEF Separate, Kept
<1> QED
  BY <1>3, <1>4, <1>5

LEMMA OneMore ==
  ASSUME NodeTyped, Separate, NEW S \in SUBSET Slots, NEW i \in Slots, NEW parent
  PROVE  MergedInto(MergerOf(i), Whole(S, parent), out[i]) = Whole(S \cup {i}, parent)
<1> DEFINE T == S \cup {i}
           before == Whole(S, parent)
           after == Whole(T, parent)
           In(R, k) == CHOOSE j \in R : k \in Kept(j)
<1>1. MergedInto(MergerOf(i), before, out[i]) =
        [k \in Kept(i) \cup DOMAIN before |-> IF k \in Kept(i) THEN Given(i, k) ELSE before[k]]
  <2> HIDE DEF before
  <2> QED
    BY OwnPlaces
<1>2. Kept(i) \cup DOMAIN before = DOMAIN after
  BY DEF Whole
<1>3. ASSUME NEW k \in DOMAIN after
      PROVE  after[k] = IF k \in Kept(i) THEN Given(i, k) ELSE before[k]
  <2>1. CASE k \in Kept(i)
    <3>1. \A j \in T : k \in Kept(j) <=> j = i
      BY <2>1, OwnPlaces
    <3>2. In(T, k) = i
      BY <3>1
    <3> QED
      BY <2>1, <3>1, <3>2 DEF Whole
  <2>2. CASE k \notin Kept(i)
    <3>1. k \in DOMAIN before
      BY <1>2, <2>2
    <3>2. CASE \E j \in S : k \in Kept(j)
      <4>1. In(S, k) \in S /\ k \in Kept(In(S, k)) /\ In(T, k) \in T /\ k \in Kept(In(T, k))
        BY <3>2
      <4>2. In(T, k) = In(S, k)
        <5> HIDE DEF In
        <5> QED
          BY <4>1, <2>2, OwnPlaces
      <4> QED
        BY <3>1, <3>2, <4>2, <1>3, <2>2 DEF Whole
    <3>3. CASE ~\E j \in S : k \in Kept(j)
      BY <3>1, <3>3, <1>3, <2>2 DEF Whole
    <3> QED
      BY <3>2, <3>3
  <2> QED
    BY <2>1, <2>2
<1>4. after = [k \in DOMAIN after |-> after[k]]
  BY DEF Whole
<1> HIDE DEF before, after
<1>5. after = [k \in DOMAIN after |-> IF k \in Kept(i) THEN Given(i, k) ELSE before[k]]
  BY <1>3, <1>4
<1>6. MergedInto(MergerOf(i), before, out[i]) = after
  BY <1>1, <1>2, <1>5
<1> QED
  BY <1>6 DEF before, after

\* Merging completed results one by one, whatever their order.
LEMMA MergeAllIs ==
  ASSUME NodeTyped, Separate, NEW results \in Seq(Result), AllCompleted(results),
         NEW parent, parent = [k \in DOMAIN parent |-> parent[k]]
  PROVE  MergeAll(results, parent) = Whole({results[r].slot : r \in DOMAIN results}, parent)
<1> DEFINE L == Len(results)
           Then(context, r) == IF results[r].outcome = "completed"
                               THEN MergedInto(MergerOf(results[r].slot), context,
                                               out[results[r].slot])
                               ELSE context
           Body(g, n) == IF n = 0 THEN parent ELSE Then(g[n - 1], n)
           Fits(g, m) == DOMAIN g = 0 .. m /\ g = [n \in 0 .. m |-> Body(g, n)]
           First(n) == {results[r].slot : r \in 1 .. n}
           merged == CHOOSE g : g = [n \in 0 .. Len(results) |->
                       IF n = 0 THEN parent
                       ELSE IF results[n].outcome = "completed"
                            THEN MergedInto(MergerOf(results[n].slot), g[n - 1],
                                            out[results[n].slot])
                            ELSE g[n - 1]]
<1>1. L \in Nat /\ DOMAIN results = 1 .. L /\ \A r \in 1 .. L : results[r] \in Result
  BY LenProperties, ElementOfSeq
<1>2. MergeAll(results, parent) = merged[L]
  BY DEF MergeAll
<1>3. \E g : g = [n \in 0 .. L |-> Body(g, n)]
  <2> DEFINE P == {m \in Nat : \E g : Fits(g, m)}
  <2> HIDE DEF Then
  <2>1. 0 \in P
    <3>1. Fits([n \in 0 .. 0 |-> parent], 0)
      OBVIOUS
    <3> QED
      BY <3>1
  <2>2. ASSUME NEW m \in Nat, m \in P
        PROVE  m + 1 \in P
    <3>1. PICK g : Fits(g, m)
      BY <2>2
    <3> DEFINE h == [n \in 0 .. m + 1 |-> IF n = m + 1 THEN Body(g, n) ELSE g[n]]
    <3>2. ASSUME NEW n \in 0 .. m + 1
          PROVE  h[n] = Body(h, n)
      <4>1. n # 0 => n - 1 \in 0 .. m /\ n - 1 # m + 1
        OBVIOUS
      <4>2. Body(h, n) = Body(g, n)
        BY <4>1
      <4>3. n # m + 1 => g[n] = Body(g, n)
        <5> HIDE DEF Body
        <5> QED
          BY <3>1
      <4> QED
        BY <4>2, <4>3
    <3>3. DOMAIN h = 0 .. m + 1 /\ h = [n \in 0 .. m + 1 |-> h[n]]
      OBVIOUS
    <3>4. h = [n \in 0 .. m + 1 |-> Body(h, n)]
      <4> HIDE DEF h, Body
      <4> QED
        BY <3>2, <3>3
    <3>5. Fits(h, m + 1)
      <4> HIDE DEF h, Body
      <4> QED
        BY <3>3, <3>4
    <3> HIDE DEF h, Fits
    <3> QED
      BY <3>5
  <2> HIDE DEF P, Fits
  <2>3. Nat \subseteq P
    BY <2>1, <2>2, Induction
  <2>4. L \in P
    BY <1>1, <2>3
  <2> QED
    BY <2>4 DEF P, Fits
<1>4. merged = [n \in 0 .. L |-> Body(merged, n)]
  BY <1>3
<1>5. ASSUME NEW n \in 0 .. L
      PROVE  merged[n] = Body(merged, n)
  <2> HIDE DEF merged, Body
  <2> QED
    BY <1>4
<1> HIDE DEF merged
<1> DEFINE Q == {n \in Nat : n <= L => merged[n] = Whole(First(n), parent)}
<1>6. 0 \in Q
  <2>1. First(0) = {} /\ merged[0] = parent
    BY <1>1, <1>5
  <2>2. Whole({}, parent) = parent
    BY DEF Whole
  <2> HIDE DEF First
  <2> QED
    BY <2>1, <2>2
<1>7. ASSUME NEW n \in Nat, n \in Q
      PROVE  n + 1 \in Q
  <2> SUFFICES ASSUME n + 1 <= L PROVE merged[n + 1] = Whole(First(n + 1), parent)
    OBVIOUS
  <2> DEFINE slot == results[n + 1].slot
  <2>1. n + 1 \in 1 .. L /\ n + 1 \in 0 .. L /\ n <= L /\ (n + 1) - 1 = n /\ n + 1 # 0
    BY <1>1
  <2>2. /\ slot \in Slots /\ results[n + 1].outcome = "completed"
        /\ First(n) \in SUBSET Slots
        /\ First(n + 1) = First(n) \cup {slot}
    <3>1. \A r \in 1 .. L : results[r].slot \in Slots
      BY <1>1 DEF Result
    <3>2. First(n) \in SUBSET Slots
      BY <3>1, <2>1
    <3>3. 1 .. n + 1 = (1 .. n) \cup {n + 1}
      OBVIOUS
    <3> QED
      BY <3>1, <3>2, <3>3, <2>1, <1>1 DEF AllCompleted
  <2>3. merged[n + 1] = MergedInto(MergerOf(slot), merged[n], out[slot])
    <3>1. merged[n + 1] = Then(merged[n], n + 1)
      <4> HIDE DEF Then
      <4> QED
        BY <2>1, <1>5
    <3> QED
      BY <3>1, <2>2
  <2>4. merged[n] = Whole(First(n), parent)
    BY <1>7, <2>1
  <2> HIDE DEF slot, First
  <2> QED
    BY <2>2, <2>3, <2>4, OneMore
<1>8. L \in Q
  <2> HIDE DEF Q
  <2>1. Nat \subseteq Q
    BY <1>6, <1>7, Induction
  <2> QED
    BY <2>1, <1>1
<1>9. First(L) = {results[r].slot : r \in DOMAIN results}
  BY <1>1
<1>10. merged[L] = Whole(First(L), parent)
  BY <1>1, <1>8
<1> HIDE DEF First, L
<1> QED
  BY <1>2, <1>9, <1>10

-----------------------------------------------------------------------------
\* Every slot heard and answered: no subgraph runs on, so nothing moves again.

Merged == node = "ok" /\ Collected = Slots /\ Separate => ctx = Whole(Slots, InitialContext)

LEMMA AnswerMerges ==
  ASSUME Joining, Joining', node = "waiting", Answer(heard'), UNCHANGED <<setup, out>>
  PROVE  Merged'
<1> SUFFICES ASSUME node' = "ok", Collected' = Slots', Separate'
             PROVE  ctx' = Whole(Slots, InitialContext)'
  BY DEF Merged
<1>1. /\ Slots' = Slots /\ Result' = Result /\ ctx = InitialContext
      /\ NodeTyped /\ heard' \in Seq(Result) /\ AllCompleted(heard')
  BY DEF Joining, NodeTyped, Promised, Slots, Result, AllCompleted
<1>2. Separate
  BY <1>1 DEF Separate
<1>3. ctx' = MergeAll(heard', InitialContext)
  BY <1>1 DEF Answer
<1>4. ctx' = Whole({heard'[r].slot : r \in DOMAIN heard'}, InitialContext)
  <2>1. InitialContext = [k \in DOMAIN InitialContext |-> InitialContext[k]]
    BY DEF InitialContext
  <2> QED
    BY <1>1, <1>2, <1>3, <2>1, MergeAllIs
<1>5. ctx' = Whole(Slots, InitialContext)
  BY <1>1, <1>4 DEF Collected
<1>6. Whole(Slots, InitialContext)' = Whole(Slots, InitialContext)
  BY <1>1 DEF Whole, Kept, Given, InitialContext
<1> QED
  BY <1>5, <1>6

LEMMA MergedOK == Joining /\ Joining' /\ Merged /\ [Next]_vars => Merged'
<1> SUFFICES ASSUME Joining, Joining', Merged, [Next]_vars PROVE Merged'
  OBVIOUS
<1>1. CASE Start
  <2> SUFFICES ASSUME node' = "ok", Collected' = Slots'
               PROVE  ctx' = Whole(Slots, InitialContext)'
    BY DEF Merged
  <2>1. /\ setup.kids = <<>> /\ ctx' = ctx /\ ctx = InitialContext /\ Slots' = Slots
    BY <1>1 DEF Start, Joining, Promised, Slots
  <2>2. Slots' = {}
    BY <2>1, SetupIs DEF Joining
  <2>3. Whole(Slots, InitialContext)' = InitialContext
    BY <2>2 DEF Whole, InitialContext
  <2> QED
    BY <2>1, <2>3
<1>2. ASSUME NEW i \in Slots, NEW how \in Ends, KidEnds(i, how)
      PROVE  Merged'
  <2>1. Running(kids[i]) /\ UNCHANGED <<setup, node, heard, ctx>>
    BY <1>2 DEF KidEnds, MayEnd
  <2>2. Collected # Slots
    <3> SUFFICES ASSUME NEW r \in DOMAIN heard PROVE heard[r].slot # i
      BY DEF Collected
    <3>1. Ended(kids[heard[r].slot])
      BY DEF Joining, HeardIsTrue
    <3> QED
      BY <2>1, <3>1 DEF Ended, Ends, Running
  <2> QED
    BY <2>1, <2>2 DEF Merged, Collected, Slots
<1>3. ASSUME NEW i \in Slots, Collect(i)
      PROVE  Merged'
  <2>1. CASE Answer(heard')
    BY <1>3, <2>1, AnswerMerges DEF Collect
  <2>2. CASE node' = node
    BY <1>3, <2>2 DEF Collect, Merged
  <2> QED
    BY <1>3, <2>1, <2>2 DEF Collect
<1>4. CASE Return
  BY <1>4, AnswerMerges DEF Return
<1>5. CASE Drop
  BY <1>5 DEF Drop, Merged
<1>6. CASE UNCHANGED nodeVars
  <2>1. UNCHANGED <<node, ctx, setup, out, heard>> /\ Slots' = Slots /\ Collected' = Collected
    BY <1>6 DEF nodeVars, Slots, Collected
  <2>2. Separate' <=> Separate
    BY <2>1 DEF Separate
  <2>3. Whole(Slots, InitialContext)' = Whole(Slots, InitialContext)
    BY <2>1 DEF Whole, Kept, Given, InitialContext
  <2> QED
    BY <2>1, <2>2, <2>3 DEF Merged
<1> QED
  BY <1>1, <1>2, <1>3, <1>4, <1>5, <1>6
  DEF Next, vars, StartNode, EndKid, CollectKid, ReturnKid, ParentEnds, AbortLandsOnNode,
      OtherEnds, CallerStep

\* When every result was heard and each subgraph comes back under keys of its own,
\* the parent holds what merging them in the order they were added gives, whatever
\* order they arrived in (the merge loop of ParallelSubgraphs::execute).
THEOREM ArrivalOrderStaysInvisible == Spec => []ArrivalOrderIsInvisible
<1> DEFINE inOrder == [i \in Slots |-> [slot |-> i, outcome |-> "completed"]]
<1>1. Init => Merged
  BY DEF Init, Merged
<1>2. Init => Joining
  BY JoinsFromTheStart
<1>3. Joining /\ Merged => ArrivalOrderIsInvisible
  <2> SUFFICES ASSUME Joining, Merged, node = "ok", Collected = Slots, Separate
               PROVE  ctx = MergeAll(inOrder, InitialContext)
    BY DEF ArrivalOrderIsInvisible
  <2>1. NodeTyped /\ Len(setup.kids) \in Nat /\ Slots = 1 .. Len(setup.kids)
    BY SetupIs DEF Joining
  <2>2. inOrder \in [1 .. Len(setup.kids) -> Result]
    BY <2>1 DEF Result
  <2>3. inOrder \in Seq(Result) /\ AllCompleted(inOrder)
    BY <2>1, <2>2, SeqDef DEF AllCompleted
  <2>4. {inOrder[r].slot : r \in DOMAIN inOrder} = Slots
    OBVIOUS
  <2>5. InitialContext = [k \in DOMAIN InitialContext |-> InitialContext[k]]
    BY DEF InitialContext
  <2> HIDE DEF inOrder
  <2>6. MergeAll(inOrder, InitialContext) = Whole(Slots, InitialContext)
    BY <2>1, <2>3, <2>4, <2>5, MergeAllIs
  <2> QED
    BY <2>6 DEF Merged
<1> QED
  BY <1>1, <1>2, <1>3, NodeOK, MergedOK, PTL DEF Spec
-----------------------------------------------------------------------------
\* Counting in vectors.

LEMMA MentionsCount ==
  ASSUME NEW S, NEW v \in Seq(S), NEW x
  PROVE  /\ IsFiniteSet({k \in DOMAIN v : v[k] = x})
         /\ Mentions(v, x) \in Nat
         /\ Mentions(v, x) > 0 <=> x \in ToSet(v)
<1> DEFINE P == {k \in DOMAIN v : v[k] = x}
<1>1. IsFiniteSet(P) /\ Cardinality(P) \in Nat
  <2>1. Len(v) \in Nat /\ DOMAIN v = 1 .. Len(v)
    BY LenProperties
  <2>2. IsFiniteSet(1 .. Len(v))
    BY <2>1, FS_Interval
  <2>3. IsFiniteSet(P)
    BY <2>1, <2>2, FS_Subset
  <2> QED
    BY <2>3, FS_CardinalityType
<1>2. Cardinality(P) = 0 <=> P = {}
  <2> HIDE DEF P
  <2> QED
    BY <1>1, FS_EmptySet
<1>3. P = {} <=> x \notin ToSet(v)
  BY DEF ToSet
<1> QED
  BY <1>1, <1>2, <1>3 DEF Mentions

LEMMA NothingMentions == \A x : Mentions(<<>>, x) = 0
<1> TAKE x
<1>1. {k \in DOMAIN <<>> : <<>>[k] = x} = {}
  OBVIOUS
<1> QED
  BY <1>1, FS_EmptySet DEF Mentions

\* Entries that go behind a vector.
Copies(m, x) == [n \in 1 .. m |-> x]

LEMMA MentionsAdded ==
  ASSUME NEW S, NEW v \in Seq(S), NEW id \in S, NEW m \in Nat
  PROVE  LET w == v \o Copies(m, id) IN
         /\ w \in Seq(S)
         /\ Mentions(w, id) = Mentions(v, id) + m
         /\ \A x : x # id => Mentions(w, x) = Mentions(v, x)
<1> USE DEF Copies
<1> DEFINE t == [n \in 1 .. m |-> id]
           w == v \o t
<1>1. t \in Seq(S) /\ Len(t) = m /\ Len(v) \in Nat /\ DOMAIN v = 1 .. Len(v)
  <2>1. t \in Seq(S)
    BY SeqDef
  <2>2. DOMAIN t = 1 .. m
    OBVIOUS
  <2> QED
    BY <2>1, <2>2, LenProperties
<1>2. /\ w \in Seq(S) /\ Len(w) = Len(v) + m
      /\ \A k \in 1 .. Len(w) : w[k] = IF k <= Len(v) THEN v[k] ELSE t[k - Len(v)]
  <2> HIDE DEF t
  <2> QED
    BY <1>1, ConcatProperties
<1>3. DOMAIN w = 1 .. Len(v) + m
  <2> HIDE DEF w
  <2> QED
    BY <1>2, LenProperties
<1>4. \A k \in Len(v) + 1 .. Len(v) + m : w[k] = id
  <2> TAKE k \in Len(v) + 1 .. Len(v) + m
  <2>1. k \in 1 .. Len(w) /\ ~(k <= Len(v)) /\ k - Len(v) \in 1 .. m
    BY <1>1, <1>2
  <2>2. w[k] = t[k - Len(v)]
    <3> HIDE DEF w, t
    <3> QED
      BY <2>1, <1>2
  <2> QED
    BY <2>1, <2>2
<1>5. \A k \in 1 .. Len(v) : w[k] = v[k]
  <2> HIDE DEF w, t
  <2> QED
    BY <1>1, <1>2
<1> HIDE DEF w, t
<1>6. ASSUME NEW x, x # id PROVE Mentions(w, x) = Mentions(v, x)
  <2>1. {k \in DOMAIN w : w[k] = x} = {k \in DOMAIN v : v[k] = x}
    BY <1>1, <1>3, <1>4, <1>5, <1>6
  <2> QED
    BY <2>1 DEF Mentions
<1>7. Mentions(w, id) = Mentions(v, id) + m
  <2> DEFINE O == {k \in DOMAIN v : v[k] = id}
             N == Len(v) + 1 .. Len(v) + m
  <2>1. {k \in DOMAIN w : w[k] = id} = O \cup N
    BY <1>1, <1>3, <1>4, <1>5
  <2>2. O \cap N = {}
    BY <1>1
  <2>3. IsFiniteSet(O) /\ Cardinality(O) \in Nat
    BY MentionsCount DEF Mentions
  <2>4. IsFiniteSet(N) /\ Cardinality(N) = m
    <3>1. \A a, b \in Int : IsFiniteSet(a .. b) /\ Cardinality(a .. b) = IF a > b THEN 0 ELSE b - a + 1
      BY FS_Interval
    <3> DEFINE a == Len(v) + 1
               b == Len(v) + m
    <3>2. a \in Int /\ b \in Int /\ (IF a > b THEN 0 ELSE b - a + 1) = m
      BY <1>1
    <3> HIDE DEF a, b
    <3>3. IsFiniteSet(a .. b) /\ Cardinality(a .. b) = m
      BY <3>1, <3>2
    <3> QED
      BY <3>3 DEF a, b
  <2> HIDE DEF O, N
  <2>5. Cardinality(O \cup N) = Cardinality(O) + Cardinality(N)
    <3>1. Cardinality(O \cap N) = 0
      BY <2>2, FS_EmptySet
    <3>2. Cardinality(O \cup N) = Cardinality(O) + Cardinality(N) - Cardinality(O \cap N)
      BY <2>3, <2>4, FS_Union
    <3> QED
      BY <3>1, <3>2, <2>3, <2>4
  <2>6. Mentions(w, id) = Cardinality(O \cup N)
    BY <2>1 DEF Mentions
  <2>7. Mentions(v, id) = Cardinality(O)
    BY DEF Mentions, O
  <2> QED
    BY <2>4, <2>5, <2>6, <2>7
<1> QED
  BY <1>2, <1>6, <1>7 DEF w, t

\* One entry behind a vector.
LEMMA MentionsAppended ==
  ASSUME NEW S, NEW v \in Seq(S), NEW e \in S
  PROVE  /\ Append(v, e) \in Seq(S)
         /\ Mentions(Append(v, e), e) = Mentions(v, e) + 1
         /\ \A x : x # e => Mentions(Append(v, e), x) = Mentions(v, x)
<1>1. Append(v, e) = v \o Copies(1, e)
  <2>1. Copies(1, e) = <<e>>
    BY DEF Copies
  <2> QED
    BY <2>1, AppendIsConcat
<1>2. 1 \in Nat
  OBVIOUS
<1> QED
  BY <1>1, <1>2, MentionsAdded

\* What `retain` leaves: everything but the id that goes.
LEMMA PrunedIs ==
  ASSUME NEW S, NEW ids \in Seq(S), NEW id
  PROVE  /\ Pruned(ids, id) \in Seq(S)
         /\ Mentions(Pruned(ids, id), id) = 0
         /\ \A x : x # id => Mentions(Pruned(ids, id), x) = Mentions(ids, x)
<1> DEFINE L == Len(ids)
           Body(g, n) == IF n = 0 THEN <<>>
                         ELSE IF ids[n] = id THEN g[n - 1] ELSE Append(g[n - 1], ids[n])
           Fits(g, m) == DOMAIN g = 0 .. m /\ g = [n \in 0 .. m |-> Body(g, n)]
           First(n, x) == {k \in 1 .. n : ids[k] = x}
           kept == CHOOSE g : g = [n \in 0 .. Len(ids) |->
                     IF n = 0 THEN <<>>
                     ELSE IF ids[n] = id THEN g[n - 1] ELSE Append(g[n - 1], ids[n])]
<1>1. L \in Nat /\ DOMAIN ids = 1 .. L /\ \A k \in 1 .. L : ids[k] \in S
  BY LenProperties, ElementOfSeq
<1>2. Pruned(ids, id) = kept[L]
  BY DEF Pruned
<1>3. \E g : g = [n \in 0 .. L |-> Body(g, n)]
  <2> DEFINE P == {m \in Nat : \E g : Fits(g, m)}
  <2>1. 0 \in P
    <3>1. Fits([n \in 0 .. 0 |-> <<>>], 0)
      OBVIOUS
    <3> QED
      BY <3>1
  <2>2. ASSUME NEW m \in Nat, m \in P
        PROVE  m + 1 \in P
    <3>1. PICK g : Fits(g, m)
      BY <2>2
    <3> DEFINE h == [n \in 0 .. m + 1 |-> IF n = m + 1 THEN Body(g, n) ELSE g[n]]
    <3>2. ASSUME NEW n \in 0 .. m + 1
          PROVE  h[n] = Body(h, n)
      <4>1. n # 0 => n - 1 \in 0 .. m /\ n - 1 # m + 1
        OBVIOUS
      <4>2. Body(h, n) = Body(g, n)
        BY <4>1
      <4>3. n # m + 1 => g[n] = Body(g, n)
        <5> HIDE DEF Body
        <5> QED
          BY <3>1
      <4> QED
        BY <4>2, <4>3
    <3>3. DOMAIN h = 0 .. m + 1 /\ h = [n \in 0 .. m + 1 |-> h[n]]
      OBVIOUS
    <3>4. h = [n \in 0 .. m + 1 |-> Body(h, n)]
      <4> HIDE DEF h, Body
      <4> QED
        BY <3>2, <3>3
    <3>5. Fits(h, m + 1)
      <4> HIDE DEF h, Body
      <4> QED
        BY <3>3, <3>4
    <3> HIDE DEF h, Fits
    <3> QED
      BY <3>5
  <2> HIDE DEF P, Fits
  <2>3. Nat \subseteq P
    BY <2>1, <2>2, Induction
  <2>4. L \in P
    BY <1>1, <2>3
  <2> QED
    BY <2>4 DEF P, Fits
<1>4. kept = [n \in 0 .. L |-> Body(kept, n)]
  BY <1>3
<1>5. kept[0] = <<>>
  <2>1. 0 \in 0 .. L
    BY <1>1
  <2>2. kept[0] = Body(kept, 0)
    <3> HIDE DEF Body, kept
    <3> QED
      BY <1>4, <2>1
  <2> HIDE DEF kept
  <2> QED
    BY <2>2
<1>6. ASSUME NEW n \in 1 .. L
      PROVE  kept[n] = IF ids[n] = id THEN kept[n - 1] ELSE Append(kept[n - 1], ids[n])
  <2>1. n \in 0 .. L /\ n # 0
    BY <1>1
  <2>2. kept[n] = Body(kept, n)
    <3> HIDE DEF Body, kept
    <3> QED
      BY <1>4, <2>1
  <2> HIDE DEF kept
  <2> QED
    BY <2>1, <2>2
<1> HIDE DEF kept
<1> DEFINE Filtered(n) == /\ kept[n] \in Seq(S) /\ Mentions(kept[n], id) = 0
                          /\ \A x : x # id => Mentions(kept[n], x) = Cardinality(First(n, x))
           Q == {n \in Nat : n <= L => Filtered(n)}
<1>7. 0 \in Q
  <2>1. \A x : First(0, x) = {}
    OBVIOUS
  <2>2. <<>> \in Seq(S)
    OBVIOUS
  <2> HIDE DEF First
  <2> QED
    BY <1>5, <2>1, <2>2, NothingMentions, FS_EmptySet
<1>8. ASSUME NEW n \in Nat, n \in Q
      PROVE  n + 1 \in Q
  <2> SUFFICES ASSUME n + 1 <= L PROVE Filtered(n + 1)
    OBVIOUS
  <2>1. /\ n + 1 \in 1 .. L /\ n <= L /\ (n + 1) - 1 = n
    BY <1>1
  <2>2. /\ Filtered(n) /\ ids[n + 1] \in S
        /\ kept[n + 1] = IF ids[n + 1] = id THEN kept[n] ELSE Append(kept[n], ids[n + 1])
    BY <2>1, <1>8, <1>1, <1>6
  <2>3. \A x : x # ids[n + 1] => First(n + 1, x) = First(n, x)
    BY <2>1
  <2>4. CASE ids[n + 1] = id
    <3> HIDE DEF First
    <3> QED
      BY <2>2, <2>3, <2>4
  <2>5. CASE ids[n + 1] # id
    <3> DEFINE e == ids[n + 1]
    <3>1. First(n + 1, e) = First(n, e) \cup {n + 1} /\ n + 1 \notin First(n, e)
      BY <2>1
    <3>2. IsFiniteSet(First(n, e))
      <4>1. IsFiniteSet(1 .. n)
        BY <2>1, FS_Interval
      <4> QED
        BY <4>1, FS_Subset
    <3>3. Cardinality(First(n + 1, e)) = Cardinality(First(n, e)) + 1
      <4> HIDE DEF First
      <4> QED
        BY <3>1, <3>2, FS_AddElement
    <3>4. /\ kept[n + 1] \in Seq(S)
          /\ Mentions(kept[n + 1], e) = Mentions(kept[n], e) + 1
          /\ \A x : x # e => Mentions(kept[n + 1], x) = Mentions(kept[n], x)
      <4>1. kept[n + 1] = Append(kept[n], e) /\ kept[n] \in Seq(S) /\ e \in S
        BY <2>2, <2>5
      <4> HIDE DEF e
      <4> QED
        BY <4>1, MentionsAppended
    <3> HIDE DEF First
    <3>5. Mentions(kept[n], e) = Cardinality(First(n, e)) /\ e # id
      BY <2>2, <2>5
    <3> QED
      BY <2>2, <2>3, <3>3, <3>4, <3>5
  <2> QED
    BY <2>4, <2>5
<1>9. L \in Q
  <2> HIDE DEF Q
  <2>1. Nat \subseteq Q
    BY <1>7, <1>8, Induction
  <2> QED
    BY <2>1, <1>1
<1>10. \A x : First(L, x) = {k \in DOMAIN ids : ids[k] = x}
  BY <1>1
<1> HIDE DEF First
<1>11. Filtered(L)
  BY <1>1, <1>9
<1>12. \A x : Mentions(ids, x) = Cardinality(First(L, x))
  BY <1>10 DEF Mentions
<1> QED
  BY <1>2, <1>11, <1>12

-----------------------------------------------------------------------------
\* The invariant.  An index is out of step with byId only for decisions that
\* calls are under way for, and what it then holds is told by the steps they
\* have left: all entries of the old content until they are removed, none until
\* those of the new are added.

Steps == {"remove", "add"} \X By
Call  == [op : {"idle", "list", "record", "delete"}, id : Ids \cup {None}, todo : Seq(Steps),
          new : Contents \cup {None}, old : Contents \cup {None}, by : By \cup {None},
          key : STRING \cup {None}, ids : Seq(Ids), dirty : SUBSET Ids]

Entries(by, key, c)  == IF c = None THEN 0 ELSE Mentions(KeysOf(by, c), key)
Left(todo, what, by) == <<what, by>> \in ToSet(todo)

Typed ==
  /\ byId \in [Ids -> Contents \cup {None}]
  /\ table = [i \in Ids |-> FromRow(byId[i])]
  /\ index = [by \in By |-> index[by]]
  /\ \A by \in By : index[by] \in [IndexKeys(by) -> Seq(Ids)]
  /\ call \in [Callers -> Call]
  /\ raced \subseteq Ids

\* Entries are removed before any are added, and what is to be removed or added
\* is there.
InOrder(c) ==
  /\ c.id \in Ids /\ c.todo # <<>>
  /\ \A i, j \in DOMAIN c.todo : i < j =>
       c.todo[i] # c.todo[j] /\ (c.todo[j][1] = "remove" => c.todo[i][1] = "remove")
  /\ \A by \in By :
       /\ Left(c.todo, "remove", by) => c.old # None /\ (c.new # None => Left(c.todo, "add", by))
       /\ Left(c.todo, "add", by) => c.new # None

Between(todo, by, key, old, new) ==
  IF Left(todo, "remove", by) THEN Entries(by, key, old)
  ELSE IF Left(todo, "add", by) THEN 0 ELSE Entries(by, key, new)

Resting ==
  \A id \in Ids : id \notin raced /\ id \notin InFlight =>
    \A by \in By : \A key \in IndexKeys(by) :
      Mentions(index[by][key], id) = Entries(by, key, byId[id])

UnderWay(p) == Changing(p) /\ call[p].id \notin raced

Halfway ==
  \A p \in Callers : UnderWay(p) =>
    /\ byId[call[p].id] = call[p].new
    /\ \A by \in By : \A key \in IndexKeys(by) :
         Mentions(index[by][key], call[p].id) =
           Between(call[p].todo, by, key, call[p].old, call[p].new)

Alone ==
  \A p, q \in Callers : UnderWay(p) /\ Changing(q) /\ call[q].id = call[p].id => q = p

Orderly == \A p \in Callers : Changing(p) => InOrder(call[p])

IndInv == Typed /\ Orderly /\ Alone /\ Resting /\ Halfway

-----------------------------------------------------------------------------
\* What decisions are found by.

LEMMA KeysTyped ==
  ASSUME NEW c \in Contents, NEW by \in By
  PROVE  /\ KeysOf(by, c) \in Seq(STRING)
         /\ ToSet(KeysOf(by, c)) \subseteq IndexKeys(by)
         /\ c # None /\ FromRow(c) # None
         /\ KeysOf(by, FromRow(c)) = KeysOf(by, c)
<1>1. c \in Decision /\ c # None
  BY ContentsAreDecisions
<1>2. /\ FromRow(c) \in Decision
      /\ FromRow(c).run = c.run /\ FromRow(c).change = c.change /\ FromRow(c).tags = c.tags
  <2> DEFINE m == IF c.metadata = "null" THEN "{}" ELSE c.metadata
  <2>1. m \in {"null", "{}", "obj"}
    BY <1>1 DEF Decision
  <2>2. FromRow(c) = [c EXCEPT !.metadata = m]
    BY <1>1 DEF FromRow
  <2> HIDE DEF m
  <2> QED
    BY <1>1, <2>1, <2>2 DEF Decision
<1>3. FromRow(c) # None
  BY <1>2, ContentsAreDecisions
<1>4. KeysOf(by, c) \in Seq(STRING) /\ KeysOf(by, FromRow(c)) = KeysOf(by, c)
  <2>1. c.run \in STRING /\ c.change \in STRING /\ c.tags \in Seq(STRING)
    BY <1>1 DEF Decision
  <2>2. CASE by = "run"
    BY <1>2, <2>1, <2>2 DEF KeysOf
  <2>3. CASE by = "change"
    BY <1>2, <2>1, <2>3 DEF KeysOf
  <2>4. CASE by = "tag"
    BY <1>2, <2>1, <2>4 DEF KeysOf
  <2> QED
    BY <2>2, <2>3, <2>4 DEF By
<1>5. ToSet(KeysOf(by, c)) \subseteq IndexKeys(by)
  BY DEF IndexKeys
<1> QED
  BY <1>1, <1>3, <1>4, <1>5

LEMMA EntriesCount ==
  ASSUME NEW c \in Contents \cup {None}, NEW by \in By, NEW key
  PROVE  /\ Entries(by, key, c) \in Nat
         /\ Entries(by, key, c) > 0 <=> c # None /\ key \in ToSet(KeysOf(by, c))
<1>1. CASE c = None
  BY <1>1 DEF Entries
<1>2. CASE c \in Contents
  <2>1. KeysOf(by, c) \in Seq(STRING) /\ c # None
    BY <1>2, KeysTyped
  <2>2. /\ Mentions(KeysOf(by, c), key) \in Nat
        /\ Mentions(KeysOf(by, c), key) > 0 <=> key \in ToSet(KeysOf(by, c))
    BY <2>1, MentionsCount
  <2> QED
    BY <2>1, <2>2 DEF Entries
<1> QED
  BY <1>1, <1>2

\* One index changes, for one decision.
LEMMA PruneChanges ==
  ASSUME Typed, NEW by \in By, NEW id \in Ids, NEW old \in Contents, Prune(by, id, old)
  PROVE  /\ index' = [b \in By |-> index'[b]]
         /\ \A b \in By : index'[b] \in [IndexKeys(b) -> Seq(Ids)]
         /\ \A b \in By \ {by} : index'[b] = index[b]
         /\ \A key \in IndexKeys(by) :
              /\ Mentions(index[by][key], id) = Entries(by, key, old) =>
                   Mentions(index'[by][key], id) = 0
              /\ \A x : x # id => Mentions(index'[by][key], x) = Mentions(index[by][key], x)
<1>1. /\ index' = [b \in By |-> index'[b]]
      /\ \A b \in By \ {by} : index'[b] = index[b]
      /\ index'[by] = [k \in IndexKeys(by) |->
           IF k \in ToSet(KeysOf(by, old)) THEN Pruned(index[by][k], id) ELSE index[by][k]]
  BY DEF Typed, Prune
<1>2. index[by] \in [IndexKeys(by) -> Seq(Ids)]
  BY DEF Typed
<1>3. ASSUME NEW key \in IndexKeys(by)
      PROVE  /\ index'[by][key] \in Seq(Ids)
             /\ Mentions(index[by][key], id) = Entries(by, key, old) =>
                  Mentions(index'[by][key], id) = 0
             /\ \A x : x # id => Mentions(index'[by][key], x) = Mentions(index[by][key], x)
  <2>0. index[by][key] \in Seq(Ids)
    BY <1>2
  <2>1. CASE key \in ToSet(KeysOf(by, old))
    <3>1. index'[by][key] = Pruned(index[by][key], id)
      BY <1>1, <2>1
    <3> QED
      BY <3>1, <2>0, PrunedIs
  <2>2. CASE key \notin ToSet(KeysOf(by, old))
    <3>1. index'[by][key] = index[by][key]
      BY <1>1, <2>2
    <3>2. Entries(by, key, old) = 0
      BY <2>2, EntriesCount
    <3> QED
      BY <3>1, <3>2, <2>0
  <2> QED
    BY <2>1, <2>2
<1>4. index'[by] \in [IndexKeys(by) -> Seq(Ids)]
  BY <1>1, <1>3
<1>5. \A b \in By : index'[b] \in [IndexKeys(b) -> Seq(Ids)]
  BY <1>1, <1>4 DEF Typed
<1> QED
  BY <1>1, <1>3, <1>5

LEMMA EnterChanges ==
  ASSUME Typed, NEW by \in By, NEW id \in Ids, NEW new \in Contents, Enter(by, id, new)
  PROVE  /\ index' = [b \in By |-> index'[b]]
         /\ \A b \in By : index'[b] \in [IndexKeys(b) -> Seq(Ids)]
         /\ \A b \in By \ {by} : index'[b] = index[b]
         /\ \A key \in IndexKeys(by) :
              /\ Mentions(index[by][key], id) = 0 =>
                   Mentions(index'[by][key], id) = Entries(by, key, new)
              /\ \A x : x # id => Mentions(index'[by][key], x) = Mentions(index[by][key], x)
<1>1. /\ index' = [b \in By |-> index'[b]]
      /\ \A b \in By \ {by} : index'[b] = index[b]
      /\ index'[by] = [k \in IndexKeys(by) |->
           index[by][k] \o Copies(Mentions(KeysOf(by, new), k), id)]
  BY DEF Typed, Enter, Copies
<1>2. index[by] \in [IndexKeys(by) -> Seq(Ids)]
  BY DEF Typed
<1>3. ASSUME NEW key \in IndexKeys(by)
      PROVE  /\ index'[by][key] \in Seq(Ids)
             /\ Mentions(index[by][key], id) = 0 =>
                  Mentions(index'[by][key], id) = Entries(by, key, new)
             /\ \A x : x # id => Mentions(index'[by][key], x) = Mentions(index[by][key], x)
  <2> DEFINE m == Mentions(KeysOf(by, new), key)
             v == index[by][key]
  <2>0. v \in Seq(Ids)
    BY <1>2
  <2>1. m \in Nat /\ Entries(by, key, new) = m
    BY KeysTyped, EntriesCount DEF Entries
  <2>2. index'[by][key] = v \o Copies(m, id)
    BY <1>1
  <2> HIDE DEF m, v
  <2>3. /\ v \o Copies(m, id) \in Seq(Ids)
        /\ Mentions(v \o Copies(m, id), id) = Mentions(v, id) + m
        /\ \A x : x # id => Mentions(v \o Copies(m, id), x) = Mentions(v, x)
    BY <2>0, <2>1, MentionsAdded
  <2>4. Mentions(v, id) = 0 => Mentions(index'[by][key], id) = Entries(by, key, new)
    BY <2>1, <2>2, <2>3
  <2>5. \A x : x # id => Mentions(index'[by][key], x) = Mentions(v, x)
    BY <2>2, <2>3
  <2> QED
    BY <2>2, <2>3, <2>4, <2>5 DEF v
<1>4. index'[by] \in [IndexKeys(by) -> Seq(Ids)]
  BY <1>1, <1>3
<1>5. \A b \in By : index'[b] \in [IndexKeys(b) -> Seq(Ids)]
  BY <1>1, <1>4 DEF Typed
<1> QED
  BY <1>1, <1>3, <1>5

-----------------------------------------------------------------------------
\* Calls that begin.

LEMMA Begun ==
  ASSUME Typed, NEW p \in Callers, NEW id \in Ids, NEW begun \in Call,
         begun.op \in {"record", "delete"}, begun.id = id, call[p] = Idle, Begin(p, id, begun)
  PROVE  /\ call' \in [Callers -> Call]
         /\ call'[p] = begun /\ Changing(p)' /\ ~Changing(p)
         /\ \A q \in Callers \ {p} :
              /\ Changing(q)' <=> Changing(q)
              /\ Changing(q) => call'[q] = call[q]
         /\ InFlight' = InFlight \cup {id}
         /\ raced' \subseteq Ids /\ raced \subseteq raced'
         /\ id \in InFlight => id \in raced'
<1>1. /\ call' = [q \in Callers |-> CASE q = p -> begun
                    [] call[q].op = "list" -> [call[q] EXCEPT !.dirty = @ \cup {id}]
                    [] OTHER -> call[q]]
      /\ raced' = IF id \in InFlight THEN raced \cup {id} ELSE raced
  BY DEF Begin
<1>2. call'[p] = begun
  <2>1. call'[p] = CASE p = p -> begun
                     [] call[p].op = "list" -> [call[p] EXCEPT !.dirty = @ \cup {id}]
                     [] OTHER -> call[p]
    BY <1>1
  <2>2. call[p].op # "list"
    BY DEF Idle, Change
  <2> QED
    BY <2>1, <2>2
<1>3. ~Changing(p)
  BY DEF Changing, Idle, Change
<1>4. ASSUME NEW q \in Callers \ {p}
      PROVE  /\ call'[q] \in Call
             /\ call[q].op = "list" => call'[q].op = "list"
             /\ call[q].op # "list" => call'[q] = call[q]
  <2>1. call[q] \in Call
    BY DEF Typed
  <2>2. CASE call[q].op = "list"
    <3>1. call'[q] = [call[q] EXCEPT !.dirty = call[q].dirty \cup {id}]
      BY <1>1, <2>2
    <3> QED
      BY <2>1, <2>2, <3>1 DEF Call
  <2>3. CASE call[q].op # "list"
    <3>1. call'[q] = call[q]
      BY <1>1, <2>3
    <3> QED
      BY <2>1, <2>3, <3>1
  <2> QED
    BY <2>2, <2>3
<1>5. call' \in [Callers -> Call]
  <2>1. call' = [q \in Callers |-> call'[q]]
    BY <1>1
  <2> QED
    BY <1>2, <1>4, <2>1
<1>6. Changing(p)'
  BY <1>2 DEF Changing
<1>7. \A q \in Callers \ {p} : (Changing(q)' <=> Changing(q)) /\ (Changing(q) => call'[q] = call[q])
  BY <1>4 DEF Changing
<1>8. InFlight' = InFlight \cup {id}
  <2>1. InFlight' = {call'[q].id : q \in {r \in Callers : Changing(r)'}}
    BY DEF InFlight
  <2>2. ASSUME NEW x \in InFlight' PROVE x \in InFlight \cup {id}
    <3>1. PICK q \in Callers : Changing(q)' /\ x = call'[q].id
      BY <2>1, <2>2
    <3> QED
      BY <3>1, <1>2, <1>7 DEF InFlight
  <2>3. ASSUME NEW x \in InFlight PROVE x \in InFlight'
    <3>1. PICK q \in Callers : Changing(q) /\ x = call[q].id
      BY <2>3 DEF InFlight
    <3>2. q # p
      BY <3>1, <1>3
    <3> QED
      BY <3>1, <3>2, <1>7, <2>1
  <2>4. id \in InFlight'
    BY <1>2, <1>6, <2>1
  <2> QED
    BY <2>2, <2>3, <2>4
<1>9. raced' \subseteq Ids /\ raced \subseteq raced' /\ (id \in InFlight => id \in raced')
  BY <1>1 DEF Typed
<1> QED
  BY <1>2, <1>3, <1>5, <1>6, <1>7, <1>8, <1>9

LEMMA BeginOK ==
  ASSUME IndInv, NEW p \in Callers, NEW id \in Ids, NEW c \in Contents \cup {None},
         NEW begun \in Call, begun.op \in {"record", "delete"}, begun.id = id,
         begun.new = c, begun.old = byId[id], InOrder(begun),
         \A by \in By : \A key \in IndexKeys(by) :
           Entries(by, key, byId[id]) = Between(begun.todo, by, key, byId[id], c),
         call[p] = Idle, Begin(p, id, begun),
         byId' = [byId EXCEPT ![id] = c], table' = [table EXCEPT ![id] = FromRow(c)],
         UNCHANGED index
  PROVE  IndInv'
<1>0. Typed /\ Orderly /\ Alone /\ Resting /\ Halfway
  BY DEF IndInv
<1>1. /\ call' \in [Callers -> Call]
      /\ call'[p] = begun /\ Changing(p)' /\ ~Changing(p)
      /\ \A q \in Callers \ {p} :
           /\ Changing(q)' <=> Changing(q)
           /\ Changing(q) => call'[q] = call[q]
      /\ InFlight' = InFlight \cup {id}
      /\ raced' \subseteq Ids /\ raced \subseteq raced'
      /\ id \in InFlight => id \in raced'
  BY <1>0, Begun
<1>2. /\ byId' \in [Ids -> Contents \cup {None}]
      /\ byId'[id] = c /\ \A x \in Ids \ {id} : byId'[x] = byId[x]
  BY <1>0 DEF Typed
<1>3. Typed'
  <2>1. table' = [x \in Ids |-> FromRow(byId'[x])]
    BY <1>0, <1>2 DEF Typed
  <2> QED
    BY <1>0, <1>1, <1>2, <2>1 DEF Typed
<1>4. \A q \in Callers : UnderWay(q)' /\ q # p => UnderWay(q) /\ call[q].id # id /\ call'[q] = call[q]
  <2> TAKE q \in Callers
  <2> HAVE UnderWay(q)' /\ q # p
  <2>1. Changing(q) /\ call'[q] = call[q] /\ call[q].id \notin raced'
    BY <1>1 DEF UnderWay
  <2>2. call[q].id \in InFlight
    BY <2>1 DEF InFlight
  <2> QED
    BY <1>1, <2>1, <2>2 DEF UnderWay
<1>5. Orderly'
  <2>1. ASSUME NEW q \in Callers, Changing(q)' PROVE InOrder(call'[q])
    BY <1>0, <1>1, <2>1 DEF Orderly
  <2> QED
    BY <2>1 DEF Orderly
<1>6. Alone'
  <2> SUFFICES ASSUME NEW q \in Callers, NEW r \in Callers, UnderWay(q)', Changing(r)',
                      call'[r].id = call'[q].id
               PROVE  r = q
    BY DEF Alone
  <2>1. CASE q = p
    <3>1. r # p => id \in InFlight
      BY <2>1, <1>1 DEF InFlight
    <3>2. id \notin raced'
      BY <2>1, <1>1 DEF UnderWay
    <3> QED
      BY <2>1, <3>1, <3>2, <1>1
  <2>2. CASE q # p
    <3>1. UnderWay(q) /\ call[q].id # id /\ call'[q] = call[q]
      BY <2>2, <1>4
    <3>2. r # p
      BY <3>1, <1>1
    <3> QED
      BY <3>1, <3>2, <1>0, <1>1 DEF Alone
  <2> QED
    BY <2>1, <2>2
<1>7. Resting'
  <2>1. ASSUME NEW x \in Ids, x \notin raced', x \notin InFlight',
               NEW by \in By, NEW key \in IndexKeys(by)
        PROVE  Mentions(index'[by][key], x) = Entries(by, key, byId'[x])
    <3>1. x # id /\ x \notin raced /\ x \notin InFlight
      BY <2>1, <1>1
    <3> QED
      BY <3>1, <1>0, <1>2 DEF Resting
  <2> QED
    BY <2>1 DEF Resting, IndexKeys, Entries, By
<1>8. Halfway'
  <2>1. ASSUME NEW q \in Callers, UnderWay(q)'
        PROVE  /\ byId'[call'[q].id] = call'[q].new
               /\ \A by \in By : \A key \in IndexKeys(by) :
                    Mentions(index'[by][key], call'[q].id) =
                      Between(call'[q].todo, by, key, call'[q].old, call'[q].new)
    <3>1. CASE q = p
      <4>1. id \notin raced /\ id \notin InFlight
        BY <2>1, <3>1, <1>1 DEF UnderWay
      <4>2. \A by \in By : \A key \in IndexKeys(by) :
              Mentions(index[by][key], id) = Entries(by, key, byId[id])
        BY <4>1, <1>0 DEF Resting
      <4> QED
        BY <3>1, <4>2, <1>1, <1>2
    <3>2. CASE q # p
      <4>1. UnderWay(q) /\ call[q].id # id /\ call'[q] = call[q]
        BY <2>1, <3>2, <1>4
      <4>2. call[q].id \in Ids
        BY <4>1, <1>0 DEF Orderly, InOrder, UnderWay
      <4> QED
        BY <4>1, <4>2, <1>0, <1>2 DEF Halfway
    <3> QED
      BY <3>1, <3>2
  <2> QED
    BY <2>1 DEF Halfway
<1> QED
  BY <1>3, <1>5, <1>6, <1>7, <1>8 DEF IndInv

LEMMA ThreeAndThree ==
  ASSUME NEW a, NEW b, NEW c, NEW d, NEW e, NEW f
  PROVE  <<a, b, c>> \o <<d, e, f>> = <<a, b, c, d, e, f>>
<1> DEFINE S == {a, b, c, d, e, f}
           s == <<a, b, c>>
           t == <<d, e, f>>
           u == <<a, b, c, d, e, f>>
<1>1. s \in Seq(S) /\ t \in Seq(S) /\ u \in Seq(S) /\ Len(s) = 3 /\ Len(t) = 3 /\ Len(u) = 6
  OBVIOUS
<1>2. /\ s \o t \in Seq(S) /\ Len(s \o t) = 6
      /\ \A i \in 1 .. 6 : (s \o t)[i] = IF i <= 3 THEN s[i] ELSE t[i - 3]
  <2> HIDE DEF s, t, S
  <2>1. /\ s \o t \in Seq(S) /\ Len(s \o t) = Len(s) + Len(t)
        /\ \A i \in 1 .. Len(s) + Len(t) : (s \o t)[i] = IF i <= Len(s) THEN s[i] ELSE t[i - Len(s)]
    BY <1>1, ConcatProperties
  <2>2. Len(s) + Len(t) = 6
    BY <1>1
  <2> QED
    BY <1>1, <2>1, <2>2
<1>3. /\ (s \o t)[1] = a /\ (s \o t)[2] = b /\ (s \o t)[3] = c
      /\ (s \o t)[4] = d /\ (s \o t)[5] = e /\ (s \o t)[6] = f
  <2> DEFINE w == s \o t
  <2>1. \A i \in 1 .. 6 : w[i] = IF i <= 3 THEN s[i] ELSE t[i - 3]
    BY <1>2
  <2> HIDE DEF w
  <2>2. w[1] = s[1] /\ w[2] = s[2] /\ w[3] = s[3] /\ w[4] = t[1] /\ w[5] = t[2] /\ w[6] = t[3]
    <3> HIDE DEF s, t
    <3> QED
      BY <2>1
  <2> QED
    BY <2>2 DEF w
<1>4. s \o t = u
  <2> DEFINE w == s \o t
  <2>1. w \in Seq(S) /\ Len(w) = Len(u) /\ \A i \in 1 .. 6 : i \in {1, 2, 3, 4, 5, 6}
    BY <1>1, <1>2
  <2>2. w[1] = u[1] /\ w[2] = u[2] /\ w[3] = u[3] /\ w[4] = u[4] /\ w[5] = u[5] /\ w[6] = u[6]
    BY <1>3
  <2>3. \A i \in 1 .. Len(w) : w[i] = u[i]
    <3> HIDE DEF w, u
    <3> QED
      BY <2>1, <2>2, <1>1
  <2>4. u \in Seq(S) /\ w \in Seq(S) /\ Len(w) = Len(u)
    BY <1>1, <2>1
  <2> HIDE DEF w, u, S
  <2>5. w = u
    BY <2>3, <2>4, SeqEqual
  <2> QED
    BY <2>5 DEF w
<1> QED
  BY <1>4

LEMMA SixMembers ==
  ASSUME NEW a, NEW b, NEW c, NEW d, NEW e, NEW f, NEW u, u = <<a, b, c, d, e, f>>
  PROVE  ToSet(u) = {a, b, c, d, e, f}
<1>1. DOMAIN u = {1, 2, 3, 4, 5, 6}
  OBVIOUS
<1>2. u[1] = a /\ u[2] = b /\ u[3] = c /\ u[4] = d /\ u[5] = e /\ u[6] = f
  OBVIOUS
<1> QED
  BY <1>1, <1>2 DEF ToSet

\* The orders in which record and delete go through the indexes.
LEMMA Orders ==
  ASSUME NEW todo \in {Removals, Additions, Removals \o Additions}
  PROVE  /\ todo \in Seq(Steps) /\ todo # <<>>
         /\ \A i, j \in DOMAIN todo : i < j =>
              todo[i] # todo[j] /\ (todo[j][1] = "remove" => todo[i][1] = "remove")
         /\ \A by \in By : /\ Left(todo, "remove", by) <=> todo # Additions
                           /\ Left(todo, "add", by) <=> todo # Removals
<1>1. CASE todo = Removals
  <2>1. todo = <<<<"remove", "run">>, <<"remove", "change">>, <<"remove", "tag">>>>
    BY <1>1 DEF Removals
  <2>2. ToSet(todo) = {<<"remove", "run">>, <<"remove", "change">>, <<"remove", "tag">>}
    BY <2>1 DEF ToSet
  <2>3. todo # Additions
    BY <2>1 DEF Additions
  <2> QED
    BY <1>1, <2>1, <2>2, <2>3 DEF Steps, By, Left
<1>2. CASE todo = Additions
  <2>1. todo = <<<<"add", "run">>, <<"add", "change">>, <<"add", "tag">>>>
    BY <1>2 DEF Additions
  <2>2. ToSet(todo) = {<<"add", "run">>, <<"add", "change">>, <<"add", "tag">>}
    BY <2>1 DEF ToSet
  <2>3. todo # Removals
    BY <2>1 DEF Removals
  <2> QED
    BY <1>2, <2>1, <2>2, <2>3 DEF Steps, By, Left
<1>3. CASE todo = Removals \o Additions
  <2>1. todo = <<<<"remove", "run">>, <<"remove", "change">>, <<"remove", "tag">>,
                 <<"add", "run">>, <<"add", "change">>, <<"add", "tag">>>>
    BY <1>3, ThreeAndThree DEF Removals, Additions
  <2>2. ToSet(todo) = {<<"remove", "run">>, <<"remove", "change">>, <<"remove", "tag">>,
                       <<"add", "run">>, <<"add", "change">>, <<"add", "tag">>}
    <3> DEFINE r1 == <<"remove", "run">>
               r2 == <<"remove", "change">>
               r3 == <<"remove", "tag">>
               a1 == <<"add", "run">>
               a2 == <<"add", "change">>
               a3 == <<"add", "tag">>
    <3>1. todo = <<r1, r2, r3, a1, a2, a3>>
      BY <2>1
    <3> HIDE DEF r1, r2, r3, a1, a2, a3
    <3>2. ToSet(todo) = {r1, r2, r3, a1, a2, a3}
      BY <3>1, SixMembers
    <3> QED
      BY <3>2 DEF r1, r2, r3, a1, a2, a3
  <2>3. todo # Removals /\ todo # Additions
    BY <2>1 DEF Removals, Additions
  <2> QED
    BY <2>1, <2>2, <2>3 DEF Steps, By, Left
<1> QED
  BY <1>1, <1>2, <1>3

LEMMA RecordOK ==
  ASSUME IndInv, NEW p \in Callers, NEW id \in Ids, NEW c \in Contents, Record(p, id, c)
  PROVE  IndInv'
<1> DEFINE todo == (IF byId[id] = None THEN <<>> ELSE Removals) \o Additions
           begun == Change("record", id, todo, c, byId[id])
<1>1. /\ call[p] = Idle /\ Begin(p, id, begun) /\ UNCHANGED index
      /\ byId' = [byId EXCEPT ![id] = c] /\ table' = [table EXCEPT ![id] = FromRow(c)]
  BY DEF Record, Upsert
<1>2. byId[id] \in Contents \cup {None} /\ c # None
  BY KeysTyped DEF IndInv, Typed, By
<1>3. todo = IF byId[id] = None THEN Additions ELSE Removals \o Additions
  BY Orders, ConcatEmptySeq
<1> HIDE DEF todo
<1>4. begun = Change("record", id, todo, c, byId[id])
  OBVIOUS
<1> HIDE DEF begun
<1>5. /\ todo \in Seq(Steps) /\ todo # <<>>
      /\ \A i, j \in DOMAIN todo : i < j =>
           todo[i] # todo[j] /\ (todo[j][1] = "remove" => todo[i][1] = "remove")
      /\ \A by \in By : Left(todo, "add", by) /\ (Left(todo, "remove", by) <=> byId[id] # None)
  <2>1. /\ Removals \o Additions # Additions /\ Removals \o Additions # Removals
        /\ Additions # Removals
    BY DEF Removals, Additions
  <2> QED
    BY <1>3, <2>1, Orders
<1>6. begun \in Call
  BY <1>2, <1>4, <1>5 DEF Call, Change
<1>7. InOrder(begun)
  BY <1>2, <1>4, <1>5 DEF InOrder, Change
<1>8. \A by \in By : \A key \in IndexKeys(by) :
        Entries(by, key, byId[id]) = Between(begun.todo, by, key, byId[id], c)
  BY <1>4, <1>5 DEF Between, Entries, Change
<1>9. begun.op \in {"record", "delete"} /\ begun.id = id /\ begun.new = c /\ begun.old = byId[id]
  BY <1>4 DEF Change
<1> QED
  BY <1>1, <1>6, <1>7, <1>8, <1>9, BeginOK

LEMMA DeleteOK ==
  ASSUME IndInv, NEW p \in Callers, NEW id \in Ids, Delete(p, id)
  PROVE  IndInv'
<1> DEFINE begun == Change("delete", id, Removals, None, byId[id])
<1>1. /\ call[p] = Idle /\ Begin(p, id, begun) /\ UNCHANGED index
      /\ byId' = [byId EXCEPT ![id] = None] /\ table' = [table EXCEPT ![id] = FromRow(None)]
  BY DEF Delete, DeleteRow, FromRow
<1>2. byId[id] \in Contents /\ byId[id] # None
  BY DEF Delete, IndInv, Typed
<1>4. begun = Change("delete", id, Removals, None, byId[id])
  OBVIOUS
<1> HIDE DEF begun
<1>5. /\ Removals \in Seq(Steps) /\ Removals # <<>>
      /\ \A i, j \in DOMAIN Removals : i < j =>
           Removals[i] # Removals[j] /\ (Removals[j][1] = "remove" => Removals[i][1] = "remove")
      /\ \A by \in By : Left(Removals, "remove", by) /\ ~Left(Removals, "add", by)
  <2>1. Additions # Removals
    BY DEF Removals, Additions
  <2> QED
    BY <2>1, Orders
<1>6. begun \in Call
  BY <1>2, <1>4, <1>5 DEF Call, Change
<1>7. InOrder(begun)
  BY <1>2, <1>4, <1>5 DEF InOrder, Change
<1>8. \A by \in By : \A key \in IndexKeys(by) :
        Entries(by, key, byId[id]) = Between(begun.todo, by, key, byId[id], None)
  BY <1>4, <1>5 DEF Between, Change
<1>9. begun.op \in {"record", "delete"} /\ begun.id = id /\ begun.new = None /\ begun.old = byId[id]
  BY <1>4 DEF Change
<1> QED
  BY <1>1, <1>6, <1>7, <1>8, <1>9, BeginOK

-----------------------------------------------------------------------------
\* Calls that go on.

\* What is left when the first step of several is done.
LEMMA OneStepLess ==
  ASSUME NEW c \in Call, InOrder(c)
  PROVE  LET rest == Tail(c.todo) IN
         /\ Head(c.todo) \in ToSet(c.todo)
         /\ rest \in Seq(Steps)
         /\ ToSet(rest) = ToSet(c.todo) \ {Head(c.todo)}
         /\ \A i, j \in DOMAIN rest : i < j =>
              rest[i] # rest[j] /\ (rest[j][1] = "remove" => rest[i][1] = "remove")
         /\ Head(c.todo)[1] = "add" => \A step \in ToSet(c.todo) : step[1] # "remove"
<1> DEFINE s == c.todo
           rest == Tail(s)
<1>1. /\ s \in Seq(Steps) /\ s # <<>>
      /\ \A i, j \in DOMAIN s : i < j =>
           s[i] # s[j] /\ (s[j][1] = "remove" => s[i][1] = "remove")
  BY DEF Call, InOrder
<1> HIDE DEF s
<1>2. /\ Len(s) \in Nat \ {0} /\ DOMAIN s = 1 .. Len(s) /\ Head(s) = s[1]
      /\ rest \in Seq(Steps) /\ DOMAIN rest = 1 .. Len(s) - 1
      /\ \A i \in 1 .. Len(s) - 1 : rest[i] = s[i + 1]
  <2>1. Len(s) \in Nat /\ DOMAIN s = 1 .. Len(s) /\ Len(s) # 0
    BY <1>1, LenProperties, EmptySeq
  <2>2. /\ Head(s) = s[1] /\ rest \in Seq(Steps) /\ Len(rest) = Len(s) - 1
        /\ \A i \in 1 .. Len(rest) : rest[i] = s[i + 1]
    BY <1>1, HeadTailProperties
  <2>3. DOMAIN rest = 1 .. Len(rest)
    BY <2>2, LenProperties
  <2> HIDE DEF rest
  <2> QED
    BY <2>1, <2>2, <2>3
<1> HIDE DEF rest
<1>3. 1 \in DOMAIN s
  BY <1>2
<1>4. \A i \in DOMAIN rest : i + 1 \in DOMAIN s /\ i + 1 # 1 /\ rest[i] = s[i + 1]
  BY <1>2
<1>5. \A k \in DOMAIN s : k # 1 => k - 1 \in DOMAIN rest /\ rest[k - 1] = s[k]
  BY <1>2
<1>6. ToSet(rest) = ToSet(s) \ {Head(s)}
  <2>1. ASSUME NEW x \in ToSet(rest) PROVE x \in ToSet(s) /\ x # Head(s)
    <3>1. PICK i \in DOMAIN rest : x = rest[i]
      BY <2>1 DEF ToSet
    <3>2. i + 1 \in DOMAIN s /\ x = s[i + 1] /\ 1 < i + 1
      BY <3>1, <1>2, <1>4
    <3> QED
      BY <3>2, <1>1, <1>2, <1>3 DEF ToSet
  <2>2. ASSUME NEW x \in ToSet(s), x # Head(s) PROVE x \in ToSet(rest)
    <3>1. PICK k \in DOMAIN s : x = s[k]
      BY <2>2 DEF ToSet
    <3>2. k # 1
      BY <2>2, <3>1, <1>2
    <3> QED
      BY <3>1, <3>2, <1>5 DEF ToSet
  <2> QED
    BY <2>1, <2>2
<1>7. ASSUME NEW i \in DOMAIN rest, NEW j \in DOMAIN rest, i < j
      PROVE  rest[i] # rest[j] /\ (rest[j][1] = "remove" => rest[i][1] = "remove")
  <2>1. i + 1 \in DOMAIN s /\ j + 1 \in DOMAIN s /\ i + 1 < j + 1
    BY <1>2, <1>4, <1>7
  <2> QED
    BY <2>1, <1>1, <1>4
<1>8. ASSUME Head(s)[1] = "add", NEW step \in ToSet(s)
      PROVE  step[1] # "remove"
  <2>1. PICK k \in DOMAIN s : step = s[k]
    BY DEF ToSet
  <2>2. CASE k = 1
    BY <2>1, <2>2, <1>2, <1>8
  <2>3. CASE k # 1
    <3>1. 1 < k
      BY <2>3, <1>2
    <3> QED
      BY <2>1, <3>1, <1>1, <1>2, <1>3, <1>8
  <2> QED
    BY <2>2, <2>3
<1>9. Head(s) \in ToSet(s)
  BY <1>2, <1>3 DEF ToSet
<1> QED
  BY <1>2, <1>6, <1>7, <1>8, <1>9 DEF s, rest

\* One index is brought a step further.
LEMMA StepMoves ==
  ASSUME IndInv, NEW p \in Callers, IndexStep(p)
  PROVE  LET c    == call[p]
             rest == Tail(c.todo)
         IN  /\ index' = [b \in By |-> index'[b]]
             /\ \A b \in By : index'[b] \in [IndexKeys(b) -> Seq(Ids)]
             /\ \A b \in By : \A key \in IndexKeys(b) :
                  /\ UnderWay(p) => Mentions(index'[b][key], c.id) = Between(rest, b, key, c.old, c.new)
                  /\ \A x : x # c.id => Mentions(index'[b][key], x) = Mentions(index[b][key], x)
             /\ \A b \in By :
                  /\ Left(rest, "remove", b) => c.old # None /\ (c.new # None => Left(rest, "add", b))
                  /\ Left(rest, "add", b) => c.new # None
<1> DEFINE c == call[p]
           rest == Tail(c.todo)
           step == Head(c.todo)
<1>1. /\ Typed /\ c \in Call /\ InOrder(c) /\ Changing(p)
      /\ c.id \in Ids /\ c.old \in Contents \cup {None} /\ c.new \in Contents \cup {None}
  <2>1. Changing(p)
    BY DEF IndexStep
  <2>2. Typed /\ call[p] \in Call /\ InOrder(call[p])
    BY <2>1 DEF IndInv, Typed, Orderly
  <2> QED
    BY <2>1, <2>2 DEF Call, InOrder
<1>2. /\ step \in ToSet(c.todo) /\ ToSet(rest) = ToSet(c.todo) \ {step}
      /\ step[1] = "add" => \A s \in ToSet(c.todo) : s[1] # "remove"
  BY <1>1, OneStepLess
<1>3. ToSet(c.todo) \subseteq Steps
  BY <1>1 DEF Call, ToSet
<1>4. PICK what \in {"remove", "add"}, by \in By : step = <<what, by>>
  BY <1>2, <1>3 DEF Steps
<1>5. /\ what = "remove" => Prune(by, c.id, c.old)
      /\ what = "add" => Enter(by, c.id, c.new)
  BY <1>4 DEF IndexStep
<1>6. /\ UnderWay(p) => \A b \in By : \A key \in IndexKeys(b) :
           Mentions(index[b][key], c.id) = Between(c.todo, b, key, c.old, c.new)
      /\ \A b \in By :
           /\ Left(c.todo, "remove", b) => c.old # None /\ (c.new # None => Left(c.todo, "add", b))
           /\ Left(c.todo, "add", b) => c.new # None
  BY <1>1 DEF IndInv, Halfway, InOrder
<1> HIDE DEF c, rest, step
<1>7. CASE what = "remove"
  <2>1. Left(c.todo, "remove", by) /\ c.old \in Contents
    BY <1>1, <1>2, <1>4, <1>6, <1>7 DEF Left
  <2>2. \A b \in By : /\ Left(rest, "remove", b) <=> Left(c.todo, "remove", b) /\ b # by
                      /\ Left(rest, "add", b) <=> Left(c.todo, "add", b)
    BY <1>2, <1>4, <1>7 DEF Left
  <2>3. /\ index' = [b \in By |-> index'[b]]
        /\ \A b \in By : index'[b] \in [IndexKeys(b) -> Seq(Ids)]
        /\ \A b \in By \ {by} : index'[b] = index[b]
        /\ \A key \in IndexKeys(by) :
             /\ Mentions(index[by][key], c.id) = Entries(by, key, c.old) =>
                  Mentions(index'[by][key], c.id) = 0
             /\ \A x : x # c.id => Mentions(index'[by][key], x) = Mentions(index[by][key], x)
    BY <1>1, <1>5, <1>7, <2>1, PruneChanges
  <2>4. ASSUME UnderWay(p), NEW b \in By, NEW key \in IndexKeys(b)
        PROVE  Mentions(index'[b][key], c.id) = Between(rest, b, key, c.old, c.new)
    <3>1. CASE b = by
      <4>1. Mentions(index[by][key], c.id) = Entries(by, key, c.old)
        BY <1>6, <2>1, <2>4, <3>1 DEF Between
      <4>2. Mentions(index'[by][key], c.id) = 0
        BY <2>3, <2>4, <3>1, <4>1
      <4>3. Left(rest, "add", by) \/ c.new = None
        BY <1>6, <2>1, <2>2
      <4> QED
        BY <2>2, <3>1, <4>2, <4>3 DEF Between, Entries
    <3>2. CASE b # by
      <4>1. index'[b] = index[b]
        BY <2>3, <3>2
      <4> QED
        BY <1>6, <2>2, <2>4, <3>2, <4>1 DEF Between
    <3> QED
      BY <3>1, <3>2
  <2> QED
    BY <1>6, <2>2, <2>3, <2>4 DEF c, rest
<1>8. CASE what = "add"
  <2>1. Left(c.todo, "add", by) /\ c.new \in Contents /\ \A b \in By : ~Left(c.todo, "remove", b)
    BY <1>1, <1>2, <1>4, <1>6, <1>8 DEF Left
  <2>2. \A b \in By : /\ ~Left(rest, "remove", b)
                      /\ Left(rest, "add", b) <=> Left(c.todo, "add", b) /\ b # by
    BY <1>2, <1>4, <1>8, <2>1 DEF Left
  <2>3. /\ index' = [b \in By |-> index'[b]]
        /\ \A b \in By : index'[b] \in [IndexKeys(b) -> Seq(Ids)]
        /\ \A b \in By \ {by} : index'[b] = index[b]
        /\ \A key \in IndexKeys(by) :
             /\ Mentions(index[by][key], c.id) = 0 =>
                  Mentions(index'[by][key], c.id) = Entries(by, key, c.new)
             /\ \A x : x # c.id => Mentions(index'[by][key], x) = Mentions(index[by][key], x)
    BY <1>1, <1>5, <1>8, <2>1, EnterChanges
  <2>4. ASSUME UnderWay(p), NEW b \in By, NEW key \in IndexKeys(b)
        PROVE  Mentions(index'[b][key], c.id) = Between(rest, b, key, c.old, c.new)
    <3>1. CASE b = by
      <4>1. Mentions(index[by][key], c.id) = 0
        BY <1>6, <2>1, <2>4, <3>1 DEF Between
      <4>2. Mentions(index'[by][key], c.id) = Entries(by, key, c.new)
        BY <2>3, <2>4, <3>1, <4>1
      <4> QED
        BY <2>2, <3>1, <4>2 DEF Between
    <3>2. CASE b # by
      <4>1. index'[b] = index[b]
        BY <2>3, <3>2
      <4> QED
        BY <1>6, <2>1, <2>2, <2>4, <3>2, <4>1 DEF Between
    <3> QED
      BY <3>1, <3>2
  <2> QED
    BY <1>6, <2>2, <2>3, <2>4 DEF c, rest
<1> QED
  BY <1>7, <1>8

LEMMA IndexStepOK ==
  ASSUME IndInv, NEW p \in Callers, IndexStep(p)
  PROVE  IndInv'
<1> DEFINE c == call[p]
           rest == Tail(c.todo)
<1>0. Typed /\ Orderly /\ Alone /\ Resting /\ Halfway
  BY DEF IndInv
<1>1. /\ Changing(p) /\ c \in Call /\ InOrder(c) /\ c.id \in Ids
      /\ call' = [call EXCEPT ![p] = IF rest = <<>> THEN Idle ELSE [c EXCEPT !.todo = rest]]
      /\ byId' = byId /\ table' = table /\ raced' = raced
  BY <1>0 DEF IndexStep, Typed, Orderly, InOrder
<1>2. /\ rest \in Seq(Steps)
      /\ \A i, j \in DOMAIN rest : i < j =>
           rest[i] # rest[j] /\ (rest[j][1] = "remove" => rest[i][1] = "remove")
  BY <1>1, OneStepLess
<1>3. /\ index' = [b \in By |-> index'[b]]
      /\ \A b \in By : index'[b] \in [IndexKeys(b) -> Seq(Ids)]
      /\ \A b \in By : \A key \in IndexKeys(b) :
           /\ UnderWay(p) => Mentions(index'[b][key], c.id) = Between(rest, b, key, c.old, c.new)
           /\ \A x : x # c.id => Mentions(index'[b][key], x) = Mentions(index[b][key], x)
      /\ \A b \in By :
           /\ Left(rest, "remove", b) => c.old # None /\ (c.new # None => Left(rest, "add", b))
           /\ Left(rest, "add", b) => c.new # None
  BY StepMoves
<1>4. UnderWay(p) => byId[c.id] = c.new
  BY <1>0 DEF Halfway
<1> HIDE DEF c, rest
<1>5. /\ rest = <<>> => call'[p] = Idle /\ call'[p] \in Call /\ ~Changing(p)'
      /\ rest # <<>> => /\ call'[p] \in Call /\ Changing(p)'
                        /\ call'[p].id = c.id /\ call'[p].todo = rest
                        /\ call'[p].old = c.old /\ call'[p].new = c.new
  <2>1. CASE rest = <<>>
    <3>1. call'[p] = Idle
      BY <1>0, <1>1, <2>1 DEF Typed
    <3>2. Idle \in Call
      BY DEF Idle, Change, Call
    <3>3. ~Changing(p)'
      BY <3>1 DEF Changing, Idle, Change
    <3> QED
      BY <2>1, <3>1, <3>2, <3>3
  <2>2. CASE rest # <<>>
    <3>1. call'[p] = [c EXCEPT !.todo = rest]
      BY <1>0, <1>1, <2>2 DEF Typed
    <3>2. /\ [c EXCEPT !.todo = rest] \in Call
          /\ [c EXCEPT !.todo = rest].op = c.op /\ [c EXCEPT !.todo = rest].id = c.id
          /\ [c EXCEPT !.todo = rest].todo = rest
          /\ [c EXCEPT !.todo = rest].old = c.old /\ [c EXCEPT !.todo = rest].new = c.new
      BY <1>1, <1>2 DEF Call
    <3>3. Changing(p)'
      BY <1>1, <3>1, <3>2 DEF Changing, c
    <3> QED
      BY <2>2, <3>1, <3>2, <3>3
  <2> QED
    BY <2>1, <2>2
<1>6. \A q \in Callers \ {p} : call'[q] = call[q] /\ (Changing(q)' <=> Changing(q))
  BY <1>0, <1>1 DEF Typed, Changing
<1>7. \A q \in Callers : Changing(q)' => Changing(q) /\ call'[q].id = call[q].id
  BY <1>1, <1>5, <1>6 DEF c
<1>8. \A q \in Callers : UnderWay(q)' => UnderWay(q)
  BY <1>1, <1>7 DEF UnderWay
<1>9. Typed'
  <2>1. call' \in [Callers -> Call]
    BY <1>0, <1>1, <1>5, <1>6 DEF Typed
  <2> QED
    BY <1>0, <1>1, <1>3, <2>1 DEF Typed
<1>10. Orderly'
  <2>1. ASSUME NEW q \in Callers, Changing(q)' PROVE InOrder(call'[q])
    <3>1. CASE q = p
      BY <2>1, <3>1, <1>1, <1>2, <1>3, <1>5 DEF InOrder
    <3>2. CASE q # p
      BY <2>1, <3>2, <1>0, <1>6 DEF Orderly
    <3> QED
      BY <3>1, <3>2
  <2> QED
    BY <2>1 DEF Orderly
<1>11. Alone'
  <2> SUFFICES ASSUME NEW q \in Callers, NEW r \in Callers, UnderWay(q)', Changing(r)',
                      call'[r].id = call'[q].id
               PROVE  r = q
    BY DEF Alone
  <2>1. UnderWay(q) /\ Changing(r) /\ Changing(q)'
    BY <1>7, <1>8 DEF UnderWay
  <2> QED
    BY <2>1, <1>0, <1>7 DEF Alone
<1>12. Resting'
  <2>1. ASSUME NEW x \in Ids, x \notin raced', x \notin InFlight',
               NEW by \in By, NEW key \in IndexKeys(by)
        PROVE  Mentions(index'[by][key], x) = Entries(by, key, byId'[x])
    <3>1. \A q \in Callers : Changing(q)' => call'[q].id # x
      BY <2>1 DEF InFlight
    <3>2. CASE x = c.id
      <4>1. rest = <<>>
        BY <3>1, <3>2, <1>5
      <4>2. UnderWay(p)
        BY <2>1, <3>2, <1>1 DEF UnderWay, c
      <4>3. Mentions(index'[by][key], x) = Between(rest, by, key, c.old, c.new)
        BY <3>2, <4>2, <1>3
      <4>4. ~Left(rest, "remove", by) /\ ~Left(rest, "add", by)
        BY <4>1 DEF Left, ToSet
      <4> QED
        BY <3>2, <4>2, <4>3, <4>4, <1>1, <1>4 DEF Between
    <3>3. CASE x # c.id
      <4>1. x \notin InFlight
        <5> SUFFICES ASSUME NEW q \in Callers, Changing(q), call[q].id = x PROVE FALSE
          BY DEF InFlight
        <5>1. q # p
          BY <3>3 DEF c
        <5> QED
          BY <5>1, <3>1, <1>6
      <4>2. Mentions(index[by][key], x) = Entries(by, key, byId[x])
        BY <2>1, <4>1, <1>0, <1>1 DEF Resting
      <4> QED
        BY <3>3, <4>2, <1>1, <1>3
    <3> QED
      BY <3>2, <3>3
  <2> QED
    BY <2>1 DEF Resting, IndexKeys, Entries, By
<1>13. Halfway'
  <2>1. ASSUME NEW q \in Callers, UnderWay(q)'
        PROVE  /\ byId'[call'[q].id] = call'[q].new
               /\ \A by \in By : \A key \in IndexKeys(by) :
                    Mentions(index'[by][key], call'[q].id) =
                      Between(call'[q].todo, by, key, call'[q].old, call'[q].new)
    <3>0. UnderWay(q) /\ Changing(q)'
      BY <2>1, <1>8 DEF UnderWay
    <3>1. CASE q = p
      <4>1. rest # <<>> /\ UnderWay(p)
        BY <3>0, <3>1, <1>5
      <4> QED
        BY <3>1, <4>1, <1>1, <1>3, <1>4, <1>5
    <3>2. CASE q # p
      <4>1. call'[q] = call[q]
        BY <3>2, <1>6
      <4>2. call[q].id # c.id
        BY <3>0, <3>2, <1>0, <1>1 DEF Alone, c
      <4>3. /\ byId[call[q].id] = call[q].new
            /\ \A by \in By : \A key \in IndexKeys(by) :
                 Mentions(index[by][key], call[q].id) =
                   Between(call[q].todo, by, key, call[q].old, call[q].new)
        BY <3>0, <1>0 DEF Halfway
      <4>4. \A by \in By : \A key \in IndexKeys(by) :
              Mentions(index'[by][key], call[q].id) = Mentions(index[by][key], call[q].id)
        BY <4>2, <1>3
      <4> QED
        BY <4>1, <4>3, <4>4, <1>1
    <3> QED
      BY <3>1, <3>2
  <2> QED
    BY <2>1 DEF Halfway
<1> QED
  BY <1>9, <1>10, <1>11, <1>12, <1>13 DEF IndInv

\* A listing touches nothing but its own call.
LEMMA ListingOK ==
  ASSUME IndInv, NEW p \in Callers, ~Changing(p), NEW d \in Call,
         d.op \notin {"record", "delete"}, call' = [call EXCEPT ![p] = d],
         UNCHANGED <<byId, index, table, raced, calls>>
  PROVE  IndInv'
<1>0. Typed /\ Orderly /\ Alone /\ Resting /\ Halfway
  BY DEF IndInv
<1>1. call' \in [Callers -> Call] /\ call'[p] = d /\ \A q \in Callers \ {p} : call'[q] = call[q]
  BY <1>0 DEF Typed
<1>2. \A q \in Callers : /\ Changing(q)' <=> Changing(q)
                         /\ Changing(q) => call'[q] = call[q]
  BY <1>1 DEF Changing
<1>3. InFlight' = InFlight
  BY <1>2 DEF InFlight
<1>4. Typed'
  BY <1>0, <1>1 DEF Typed
<1>5. Orderly'
  BY <1>0, <1>2 DEF Orderly
<1>6. Alone'
  BY <1>0, <1>2 DEF Alone, UnderWay
<1>7. Resting'
  BY <1>0, <1>3 DEF Resting
<1>8. Halfway'
  BY <1>0, <1>2 DEF Halfway, UnderWay
<1> QED
  BY <1>4, <1>5, <1>6, <1>7, <1>8 DEF IndInv

LEMMA KeysAreTexts ==
  ASSUME NEW by \in By
  PROVE  IndexKeys(by) \subseteq STRING
<1> SUFFICES ASSUME NEW key \in IndexKeys(by) PROVE key \in STRING
  OBVIOUS
<1>1. PICK c \in Contents : key \in ToSet(KeysOf(by, c))
  BY DEF IndexKeys
<1>2. KeysOf(by, c) \in Seq(STRING)
  BY KeysTyped
<1> QED
  BY <1>1, <1>2, LenProperties, ElementOfSeq DEF ToSet

LEMMA InitOK == StoreInit => IndInv
<1> SUFFICES ASSUME StoreInit PROVE IndInv
  OBVIOUS
<1>1. /\ byId = [i \in Ids |-> None] /\ table = [i \in Ids |-> None]
      /\ index = [by \in By |-> [k \in IndexKeys(by) |-> <<>>]]
      /\ call = [p \in Callers |-> Idle] /\ raced = {}
  BY DEF StoreInit
<1>2. Idle \in Call /\ Idle.op = "idle"
  BY DEF Idle, Change, Call
<1>3. \A p \in Callers : ~Changing(p)
  BY <1>1, <1>2 DEF Changing
<1>4. Typed
  <2>1. \A by \in By : index[by] \in [IndexKeys(by) -> Seq(Ids)]
    BY <1>1
  <2> QED
    BY <1>1, <1>2, <2>1 DEF Typed, FromRow
<1>5. Resting
  <2>1. \A by \in By : \A key \in IndexKeys(by) : index[by][key] = <<>>
    BY <1>1
  <2> QED
    BY <1>1, <2>1, NothingMentions DEF Resting, Entries
<1> QED
  BY <1>3, <1>4, <1>5 DEF IndInv, Orderly, Alone, Halfway, UnderWay

LEMMA NextOK == IndInv /\ [StoreNext]_storeVars => IndInv'
<1> SUFFICES ASSUME IndInv, [StoreNext]_storeVars PROVE IndInv'
  OBVIOUS
<1>1. ASSUME NEW p \in Callers, NEW id \in Ids, Delete(p, id) PROVE IndInv'
  BY <1>1, DeleteOK
<1>2. ASSUME NEW p \in Callers, NEW id \in Ids, NEW c \in Contents, Record(p, id, c) PROVE IndInv'
  BY <1>2, RecordOK
<1>3. ASSUME NEW p \in Callers, IndexStep(p) PROVE IndInv'
  BY <1>3, IndexStepOK
<1>4. ASSUME NEW p \in Callers, NEW by \in By, NEW key \in IndexKeys(by), ListBegins(p, by, key)
      PROVE  IndInv'
  <2> DEFINE d == Listing(by, key, index[by][key], InFlight)
  <2>1. call[p] = Idle /\ call' = [call EXCEPT ![p] = d] /\ UNCHANGED <<byId, index, table, raced, calls>>
    BY <1>4 DEF ListBegins
  <2>2. ~Changing(p)
    BY <2>1 DEF Changing, Idle, Change
  <2>3. index[by][key] \in Seq(Ids) /\ key \in STRING /\ InFlight \subseteq Ids
    BY KeysAreTexts DEF IndInv, Typed, InFlight, Orderly, InOrder
  <2>4. d \in Call /\ d.op = "list"
    BY <2>3 DEF Listing, Call
  <2> HIDE DEF d
  <2> QED
    BY <2>1, <2>2, <2>4, ListingOK
<1>5. ASSUME NEW p \in Callers, ListEnds(p) PROVE IndInv'
  <2>1. ~Changing(p) /\ call' = [call EXCEPT ![p] = Idle] /\ UNCHANGED <<byId, index, table, raced, calls>>
    BY <1>5 DEF ListEnds, Changing
  <2>2. Idle \in Call /\ Idle.op = "idle"
    BY DEF Idle, Change, Call
  <2> QED
    BY <2>1, <2>2, ListingOK
<1>6. ASSUME UNCHANGED storeVars PROVE IndInv'
  BY <1>6 DEF storeVars, IndInv, Typed, Orderly, Alone, Resting, Halfway, UnderWay, InFlight, Changing
<1> QED
  BY <1>1, <1>2, <1>3, <1>4, <1>5, <1>6 DEF StoreNext

\* The counts of the invariant say that the backends agree.
LEMMA IndexesAgree == IndInv => BackendsAgree
<1> SUFFICES ASSUME IndInv, NEW id \in Ids, id \notin raced, id \notin InFlight,
                    NEW by \in By, NEW key \in IndexKeys(by)
             PROVE  LET entries == Mentions(index[by][key], id) IN
                    /\ (entries > 0) = (id \in SelectWhere(by, key))
                    /\ entries > 0 => entries = Mentions(KeysOf(by, byId[id]), key)
  BY DEF BackendsAgree
<1> DEFINE entries == Mentions(index[by][key], id)
           content == byId[id]
<1>1. entries = Entries(by, key, content) /\ content \in Contents \cup {None}
      /\ table[id] = FromRow(content)
  BY DEF IndInv, Resting, Typed
<1>2. id \in SelectWhere(by, key) <=> table[id] # None /\ key \in ToSet(KeysOf(by, table[id]))
  BY DEF SelectWhere
<1> HIDE DEF entries, content
<1>3. table[id] # None /\ key \in ToSet(KeysOf(by, table[id])) <=>
        content # None /\ key \in ToSet(KeysOf(by, content))
  BY <1>1, KeysTyped DEF FromRow
<1>4. entries > 0 <=> id \in SelectWhere(by, key)
  BY <1>1, <1>2, <1>3, EntriesCount
<1>5. entries > 0 => entries = Mentions(KeysOf(by, content), key)
  BY <1>1 DEF Entries
<1> QED
  BY <1>4, <1>5 DEF entries, content

-----------------------------------------------------------------------------
DecisionSpec == StoreInit /\ [][StoreNext]_storeVars

\* The two backends answer alike, away from ids that changing calls have
\* overlapped on or are at: what an index of MemoryDecisionStore names of a
\* decision is what a SELECT of SurrealDecisionStore finds, as often as the
\* decision mentions it.
THEOREM IndexesAgreeWithTheTable == DecisionSpec => []BackendsAgree
  BY IndexesAgree, InitOK, NextOK, PTL DEF DecisionSpec

-----------------------------------------------------------------------------
\* Listings.  What one has copied out of an index is right about every decision
\* that no call has changed since: those are clean.

Copied(p) ==
  /\ call[p].by \in By /\ call[p].key \in IndexKeys(call[p].by)
  /\ \A id \in Ids \ (raced \cup call[p].dirty) :
       id \in ToSet(call[p].ids) <=> id \in SelectWhere(call[p].by, call[p].key)

ListingsInv == \A p \in Callers : call[p].op = "list" => Copied(p)

\* A listing goes on while another call begins or takes a step.
LEMMA CopyStays ==
  ASSUME NEW q \in Callers, call[q].op = "list", Copied(q), NEW id, raced \subseteq raced',
         \/ call'[q] = call[q] /\ table' = table
         \/ /\ call'[q] = [call[q] EXCEPT !.dirty = @ \cup {id}]
            /\ table' = [table EXCEPT ![id] = table'[id]],
         Typed
  PROVE  Copied(q)'
<1>1. call[q] \in Call
  BY DEF Typed
<1>2. CASE call'[q] = call[q] /\ table' = table
  BY <1>2 DEF Copied, SelectWhere
<1>3. CASE /\ call'[q] = [call[q] EXCEPT !.dirty = @ \cup {id}]
           /\ table' = [table EXCEPT ![id] = table'[id]]
  <2>1. /\ call'[q].by = call[q].by /\ call'[q].key = call[q].key /\ call'[q].ids = call[q].ids
        /\ call'[q].dirty = call[q].dirty \cup {id}
    BY <1>1, <1>3 DEF Call
  <2>2. \A x \in Ids \ {id} : table'[x] = table[x]
    BY <1>3 DEF Typed
  <2>3. \A x \in Ids \ {id} :
          x \in SelectWhere(call[q].by, call[q].key)' <=> x \in SelectWhere(call[q].by, call[q].key)
    BY <2>1, <2>2 DEF SelectWhere
  <2> QED
    BY <2>1, <2>3 DEF Copied
<1> QED
  BY <1>2, <1>3

LEMMA CopiesStart == StoreInit => ListingsInv
  BY DEF StoreInit, ListingsInv, Idle, Change

LEMMA CopiesOK == IndInv /\ ListingsInv /\ [StoreNext]_storeVars => ListingsInv'
<1> SUFFICES ASSUME IndInv, ListingsInv, [StoreNext]_storeVars, NEW q \in Callers,
                    call'[q].op = "list"
             PROVE  Copied(q)'
  BY DEF ListingsInv
<1>0. Typed /\ call \in [Callers -> Call]
  BY DEF IndInv, Typed
<1>1. ASSUME NEW p \in Callers, NEW id \in Ids,
             NEW begun, begun.op # "list", call[p] = Idle, Begin(p, id, begun), NEW c,
             table' = [table EXCEPT ![id] = FromRow(c)]
      PROVE  Copied(q)'
  <2>1. /\ call'[q] = CASE q = p -> begun
                         [] call[q].op = "list" -> [call[q] EXCEPT !.dirty = @ \cup {id}]
                         [] OTHER -> call[q]
        /\ raced \subseteq raced'
    BY <1>1 DEF Begin
  <2>2. q # p /\ call[q].op = "list"
    <3>1. CASE q = p
      <4>1. call[q].op # "list"
        BY <1>1, <3>1 DEF Idle, Change
      <4>2. call'[q] = begun
        BY <2>1, <3>1, <4>1
      <4> QED
        BY <1>1, <4>2
    <3>2. CASE q # p /\ call[q].op # "list"
      <4>1. call'[q] = call[q]
        BY <2>1, <3>2
      <4> QED
        BY <3>2, <4>1
    <3> QED
      BY <3>1, <3>2
  <2>3. call'[q] = [call[q] EXCEPT !.dirty = @ \cup {id}]
    BY <2>1, <2>2
  <2>4. table' = [table EXCEPT ![id] = table'[id]]
    BY <1>0, <1>1 DEF Typed
  <2> QED
    BY <1>0, <2>1, <2>2, <2>3, <2>4, CopyStays DEF ListingsInv
<1>2. ASSUME NEW p \in Callers, NEW id \in Ids, Delete(p, id) PROVE Copied(q)'
  <2> DEFINE begun == Change("delete", id, Removals, None, byId[id])
  <2>1. begun.op # "list"
    BY DEF Change
  <2>2. /\ call[p] = Idle /\ Begin(p, id, begun)
        /\ table' = [table EXCEPT ![id] = FromRow(None)]
    BY <1>2 DEF Delete, DeleteRow, FromRow
  <2> HIDE DEF begun
  <2> QED
    BY <1>1, <2>1, <2>2
<1>3. ASSUME NEW p \in Callers, NEW id \in Ids, NEW c \in Contents, Record(p, id, c) PROVE Copied(q)'
  <2> DEFINE todo == (IF byId[id] = None THEN <<>> ELSE Removals) \o Additions
             begun == Change("record", id, todo, c, byId[id])
  <2>1. begun.op # "list"
    BY DEF Change
  <2>2. call[p] = Idle /\ Begin(p, id, begun) /\ table' = [table EXCEPT ![id] = FromRow(c)]
    BY <1>3 DEF Record, Upsert
  <2> HIDE DEF begun
  <2> QED
    BY <1>1, <2>1, <2>2
<1>4. ASSUME NEW p \in Callers, NEW d, d.op # "list" \/ p # q,
             call' = [call EXCEPT ![p] = d], UNCHANGED <<table, raced>>
      PROVE  Copied(q)'
  <2>1. p # q /\ call'[q] = call[q]
    BY <1>0, <1>4
  <2>2. Copied(q) /\ call[q].op = "list"
    BY <2>1 DEF ListingsInv
  <2> QED
    BY <1>0, <1>4, <2>1, <2>2, CopyStays
<1>5. ASSUME NEW p \in Callers, IndexStep(p) PROVE Copied(q)'
  <2> DEFINE rest == Tail(call[p].todo)
             d == IF rest = <<>> THEN Idle ELSE [call[p] EXCEPT !.todo = rest]
  <2>1. call' = [call EXCEPT ![p] = d] /\ UNCHANGED <<table, raced>>
    BY <1>5 DEF IndexStep
  <2>2. d.op # "list"
    BY <1>0, <1>5 DEF IndexStep, Changing, Idle, Change, Call
  <2> HIDE DEF d
  <2> QED
    BY <1>4, <2>1, <2>2
<1>6. ASSUME NEW p \in Callers, NEW by \in By, NEW key \in IndexKeys(by), ListBegins(p, by, key)
      PROVE  Copied(q)'
  <2> DEFINE d == Listing(by, key, index[by][key], InFlight)
  <2>1. call' = [call EXCEPT ![p] = d] /\ UNCHANGED <<byId, index, table, raced>>
    BY <1>6 DEF ListBegins
  <2>2. CASE p # q
    <3> HIDE DEF d
    <3> QED
      BY <1>4, <2>1, <2>2
  <2>3. CASE p = q
    <3>1. call'[q] = d
      BY <1>0, <2>1, <2>3
    <3>2. /\ call'[q].by = by /\ call'[q].key = key /\ call'[q].ids = index[by][key]
          /\ call'[q].dirty = InFlight
      BY <3>1 DEF Listing
    <3>3. index[by][key] \in Seq(Ids)
      BY <1>0 DEF Typed
    <3>4. \A id \in Ids \ (raced \cup InFlight) :
             id \in ToSet(index[by][key]) <=> id \in SelectWhere(by, key)
      <4> SUFFICES ASSUME NEW id \in Ids \ (raced \cup InFlight)
                   PROVE  id \in ToSet(index[by][key]) <=> id \in SelectWhere(by, key)
        OBVIOUS
      <4>1. (Mentions(index[by][key], id) > 0) = (id \in SelectWhere(by, key))
        BY IndexesAgree DEF BackendsAgree
      <4> QED
        BY <3>3, <4>1, MentionsCount
    <3>5. SelectWhere(by, key)' = SelectWhere(by, key)
      BY <2>1 DEF SelectWhere
    <3> HIDE DEF d
    <3> QED
      BY <2>1, <3>2, <3>4, <3>5 DEF Copied
  <2> QED
    BY <2>2, <2>3
<1>7. ASSUME NEW p \in Callers, ListEnds(p) PROVE Copied(q)'
  <2>1. call' = [call EXCEPT ![p] = Idle] /\ Idle.op # "list" /\ UNCHANGED <<table, raced>>
    BY <1>7 DEF ListEnds, Idle, Change
  <2> QED
    BY <1>4, <2>1
<1>8. ASSUME UNCHANGED storeVars PROVE Copied(q)'
  <2>1. call' = call /\ table' = table /\ raced' = raced
    BY <1>8 DEF storeVars
  <2> QED
    BY <1>0, <2>1, CopyStays DEF ListingsInv
<1> QED
  BY <1>2, <1>3, <1>5, <1>6, <1>7, <1>8 DEF StoreNext

\* The sort loses nothing and puts the newest first.
LEMMA SortedIs ==
  ASSUME Typed, NEW ids \in Seq(Ids)
  PROVE  LET ps == SortedNewestFirst(ids)
             found == {k \in DOMAIN ids : byId[ids[k]] # None}
         IN  /\ DOMAIN ps = 1 .. Len(ps) /\ \A n \in DOMAIN ps : ps[n] \in found
             /\ \A k \in found : \E n \in DOMAIN ps : ps[n] = k
             /\ \A m, n \in DOMAIN ps : m < n => byId[ids[ps[m]]].at >= byId[ids[ps[n]]].at
<1> DEFINE found == {k \in DOMAIN ids : byId[ids[k]] # None}
           Before(j, k) == \/ byId[ids[j]].at > byId[ids[k]].at
                           \/ byId[ids[j]].at = byId[ids[k]].at /\ j < k
           R == {w \in found \X found : Before(w[1], w[2])}
           ps == SortedNewestFirst(ids)
<1>1. /\ found \in SUBSET Nat /\ IsFiniteSet(found)
      /\ \A k \in found : byId[ids[k]].at \in Nat
  <2>1. Len(ids) \in Nat /\ DOMAIN ids = 1 .. Len(ids) /\ \A k \in DOMAIN ids : ids[k] \in Ids
    OBVIOUS
  <2>2. IsFiniteSet(1 .. Len(ids))
    BY <2>1, FS_Interval
  <2>3. IsFiniteSet(found)
    BY <2>1, <2>2, FS_Subset
  <2>4. \A k \in found : byId[ids[k]] \in Decision
    BY <2>1, ContentsAreDecisions DEF Typed
  <2>5. \A k \in found : byId[ids[k]].at \in Nat
    BY <2>4 DEF Decision
  <2> QED
    BY <2>1, <2>3, <2>5
<1>2. \A j, k \in found : <<j, k>> \in R <=> Before(j, k)
  OBVIOUS
<1>3. Linear(found, R)
  <2>1. \A k \in found : <<k, k>> \notin R
    BY <1>1, <1>2
  <2>2. \A j, k \in found : j = k \/ <<j, k>> \in R \/ <<k, j>> \in R
    <3> SUFFICES ASSUME NEW j \in found, NEW k \in found, j # k
                 PROVE  Before(j, k) \/ Before(k, j)
      BY <1>2
    <3> QED
      BY <1>1
  <2>3. \A i, j, k \in found : <<i, j>> \in R /\ <<j, k>> \in R => <<i, k>> \in R
    <3> SUFFICES ASSUME NEW i \in found, NEW j \in found, NEW k \in found,
                        Before(i, j), Before(j, k)
                 PROVE  Before(i, k)
      BY <1>2
    <3> QED
      BY <1>1
  <2> HIDE DEF found, R
  <2> QED
    BY <1>1, <2>1, <2>2, <2>3 DEF Linear
<1>4. ASSUME NEW n \in 1 .. Cardinality(found)
      PROVE  ps[n] \in found /\ Rank(found, R, ps[n]) = n - 1
  <2> DEFINE P(k) == Cardinality({j \in found : Before(j, k)}) = n - 1
  <2>1. ASSUME NEW k \in found
        PROVE  Cardinality({j \in found : Before(j, k)}) = Rank(found, R, k)
    <3>1. {j \in found : Before(j, k)} = {j \in found : <<j, k>> \in R}
      BY <1>2
    <3> HIDE DEF found, R, Before
    <3> QED
      BY <3>1 DEF Rank
  <2>2. \E k \in found : P(k)
    <3> HIDE DEF found, R, Before
    <3>1. n - 1 \in 0 .. Cardinality(found) - 1
      BY <1>3, Ranks
    <3> QED
      BY <1>3, <2>1, <3>1, Ranks
  <2>3. ps[n] = CHOOSE k \in found : P(k)
    BY DEF SortedNewestFirst
  <2>4. ps[n] \in found /\ P(ps[n])
    <3> HIDE DEF P, found, ps
    <3> QED
      BY <2>2, <2>3
  <2> HIDE DEF found, R, Before, ps
  <2> QED
    BY <2>1, <2>4
<1>5. ps = [n \in 1 .. Cardinality(found) |-> ps[n]]
  <2> DEFINE g(n) == CHOOSE k \in found : Cardinality({j \in found : Before(j, k)}) = n - 1
  <2>1. ps = [n \in 1 .. Cardinality(found) |-> g(n)]
    BY DEF SortedNewestFirst
  <2> HIDE DEF g, found, ps
  <2> QED
    BY <2>1
<1> HIDE DEF found, R, ps
<1>6. Sorted(ps, found, R)
  BY <1>3, <1>4, <1>5, ByRankInOrder
<1>7. Len(ps) \in Nat /\ DOMAIN ps = 1 .. Len(ps) /\ \A n \in DOMAIN ps : ps[n] \in found
  BY <1>6 DEF Sorted
<1>8. \A k \in found : \E n \in DOMAIN ps : ps[n] = k
  BY <1>3, <1>6, <1>7, AllInOrder
<1>9. ASSUME NEW m \in DOMAIN ps, NEW n \in DOMAIN ps, m < n
      PROVE  byId[ids[ps[m]]].at >= byId[ids[ps[n]]].at
  <2>1. <<ps[m], ps[n]>> \in R /\ ps[m] \in found /\ ps[n] \in found
    BY <1>6, <1>7, <1>9 DEF Sorted
  <2>2. Before(ps[m], ps[n])
    BY <2>1 DEF R
  <2> DEFINE x == byId[ids[ps[m]]].at
             y == byId[ids[ps[n]]].at
  <2>3. x \in Nat /\ y \in Nat
    BY <1>1, <2>1
  <2>4. x > y \/ x = y
    BY <2>2
  <2> HIDE DEF x, y
  <2>5. x >= y
    BY <2>3, <2>4
  <2> QED
    BY <2>5 DEF x, y
<1> QED
  BY <1>7, <1>8, <1>9 DEF found, ps

\* AllListingsAreExact, for every number of callers, decisions and calls: a listing
\* that ends while others record and delete names each decision that no call was
\* changing exactly when the table has it, and the newest first (list_by_run,
\* list_by_change, list_by_tag and sorted_newest_first).
THEOREM ListingsStayExact == DecisionSpec => []AllListingsAreExact
<1>1. IndInv /\ ListingsInv => AllListingsAreExact
  <2> SUFFICES ASSUME IndInv, ListingsInv, NEW p \in Callers, call[p].op = "list"
               PROVE  ListingIsExact(p)
    BY DEF AllListingsAreExact
  <2> DEFINE ids == call[p].ids
             ps == SortedNewestFirst(ids)
             found == {k \in DOMAIN ids : byId[ids[k]] # None}
  <2>1. Typed /\ ids \in Seq(Ids) /\ Copied(p)
    BY DEF IndInv, Typed, Call, ListingsInv
  <2>2. /\ DOMAIN ps = 1 .. Len(ps) /\ \A n \in DOMAIN ps : ps[n] \in found
        /\ \A k \in found : \E n \in DOMAIN ps : ps[n] = k
        /\ \A m, n \in DOMAIN ps : m < n => byId[ids[ps[m]]].at >= byId[ids[ps[n]]].at
    BY <2>1, SortedIs
  <2>3. Listed(p) = [n \in DOMAIN ps |-> ids[ps[n]]]
    BY DEF Listed
  <2> HIDE DEF ps
  <2>4. \A m, n \in DOMAIN Listed(p) : m < n =>
           byId[Listed(p)[m]].at >= byId[Listed(p)[n]].at
    BY <2>2, <2>3
  <2>5. ASSUME NEW id \in Ids \ (raced \cup call[p].dirty)
        PROVE  id \in ToSet(Listed(p)) <=> id \in SelectWhere(call[p].by, call[p].key)
    <3>1. id \in ToSet(Listed(p)) <=> id \in ToSet(ids) /\ byId[id] # None
      <4>1. ToSet(Listed(p)) = {Listed(p)[n] : n \in DOMAIN ps}
        BY <2>3 DEF ToSet
      <4>2. ToSet(ids) = {ids[k] : k \in DOMAIN ids}
        BY DEF ToSet
      <4>3. ASSUME id \in ToSet(Listed(p)) PROVE id \in ToSet(ids) /\ byId[id] # None
        <5>1. PICK n \in DOMAIN ps : id = ids[ps[n]]
          BY <2>3, <4>1, <4>3
        <5> QED
          BY <2>2, <4>2, <5>1
      <4>4. ASSUME id \in ToSet(ids), byId[id] # None PROVE id \in ToSet(Listed(p))
        <5>1. PICK k \in DOMAIN ids : id = ids[k]
          BY <4>2, <4>4
        <5>2. PICK n \in DOMAIN ps : ps[n] = k
          BY <2>2, <4>4, <5>1
        <5> QED
          BY <2>3, <4>1, <5>1, <5>2
      <4> QED
        BY <4>3, <4>4
    <3>2. id \in ToSet(ids) <=> id \in SelectWhere(call[p].by, call[p].key)
      BY <2>1, <2>5 DEF Copied
    <3>3. id \in SelectWhere(call[p].by, call[p].key) => byId[id] # None
      BY <2>1 DEF SelectWhere, Typed, FromRow
    <3> QED
      BY <3>1, <3>2, <3>3
  <2> QED
    BY <2>4, <2>5 DEF ListingIsExact
<1> QED
  BY <1>1, InitOK, NextOK, CopiesStart, CopiesOK, PTL DEF DecisionSpec

-----------------------------------------------------------------------------
\* The table of the SurrealDB checkpointer.

Row == [id : Nat, thread : Threads, at : Nat]
LaterPairs == {p \in Row \X Row : Later(p[1], p[2])}

Apart(found) == \A c, d \in found : c.id = d.id => c = d

LEMMA NewestFirstInOrder ==
  ASSUME NEW found \in SUBSET Row, IsFiniteSet(found), Apart(found)
  PROVE  /\ Linear(found, LaterPairs)
         /\ Sorted(NewestFirst(found), found, LaterPairs)
<1>1. \A c, d \in found : <<c, d>> \in LaterPairs <=> Later(c, d)
  BY DEF LaterPairs
<1>2. \A c \in found : c.id \in Nat /\ c.at \in Nat
  BY DEF Row
<1>3. Linear(found, LaterPairs)
  <2>1. \A c \in found : <<c, c>> \notin LaterPairs
    BY <1>1, <1>2 DEF Later
  <2>2. \A c, d \in found : c = d \/ <<c, d>> \in LaterPairs \/ <<d, c>> \in LaterPairs
    <3> SUFFICES ASSUME NEW c \in found, NEW d \in found, c # d
                 PROVE  <<c, d>> \in LaterPairs \/ <<d, c>> \in LaterPairs
      OBVIOUS
    <3>1. c.id # d.id
      BY DEF Apart
    <3> QED
      BY <1>1, <1>2, <3>1 DEF Later
  <2>3. \A c, d, e \in found :
           <<c, d>> \in LaterPairs /\ <<d, e>> \in LaterPairs => <<c, e>> \in LaterPairs
    BY <1>1, <1>2 DEF Later
  <2> QED
    BY <2>1, <2>2, <2>3 DEF Linear
<1> DEFINE q == NewestFirst(found)
<1>4. ASSUME NEW k \in 1 .. Cardinality(found)
      PROVE  q[k] \in found /\ Rank(found, LaterPairs, q[k]) = k - 1
  <2> DEFINE P(c) == Cardinality({d \in found : Later(d, c)}) = k - 1
  <2>1. ASSUME NEW c \in found
        PROVE  Cardinality({d \in found : Later(d, c)}) = Rank(found, LaterPairs, c)
    <3>1. {d \in found : Later(d, c)} = {d \in found : <<d, c>> \in LaterPairs}
      BY <1>1
    <3> QED
      BY <3>1 DEF Rank
  <2>2. \E c \in found : P(c)
    <3>1. k - 1 \in 0 .. Cardinality(found) - 1
      BY <1>3, Ranks
    <3> QED
      BY <1>3, <2>1, <3>1, Ranks
  <2>3. q[k] = CHOOSE c \in found : P(c)
    BY DEF NewestFirst
  <2>4. q[k] \in found /\ P(q[k])
    <3> HIDE DEF P
    <3> QED
      BY <2>2, <2>3
  <2> QED
    BY <2>1, <2>4
<1>5. q = [k \in 1 .. Cardinality(found) |-> q[k]]
  BY DEF NewestFirst
<1> QED
  BY <1>3, <1>4, <1>5, ByRankInOrder

\* Reverse turns a list as it is read into the log: what is found later goes to
\* its end, and what is deleted comes out of its place.
LEMMA SaveAppended ==
  ASSUME NEW found \in SUBSET Row, IsFiniteSet(found), NEW c \in Row, c \notin found,
         Apart(found \cup {c}), \A d \in found : Later(c, d)
  PROVE  Reverse(NewestFirst(found \cup {c})) = Append(Reverse(NewestFirst(found)), c)
<1> DEFINE q == NewestFirst(found)
           N == Len(q)
           p == [k \in 1 .. N + 1 |-> IF k = 1 THEN c ELSE q[k - 1]]
           all == found \cup {c}
<1>1. /\ Linear(found, LaterPairs) /\ Sorted(q, found, LaterPairs)
      /\ N = Cardinality(found) /\ N \in Nat
  <2>1. Apart(found)
    BY DEF Apart
  <2>2. Linear(found, LaterPairs) /\ Sorted(q, found, LaterPairs)
    BY <2>1, NewestFirstInOrder
  <2> QED
    BY <2>2, Ranks DEF Sorted
<1>2. IsFiniteSet(all) /\ Cardinality(all) = N + 1
  BY <1>1, FS_AddElement
<1>3. Linear(all, LaterPairs) /\ Sorted(NewestFirst(all), all, LaterPairs)
  BY <1>2, NewestFirstInOrder
<1>4. \A k \in 1 .. N : q[k] \in found
  BY <1>1 DEF Sorted
<1>5. p \in Seq(all) /\ Len(p) = N + 1
  <2>1. \A k \in 1 .. N + 1 : p[k] \in all
    BY <1>1, <1>4
  <2> QED
    BY <1>1, <2>1
<1>6. ASSUME NEW j \in 1 .. N + 1, NEW k \in 1 .. N + 1, j < k
      PROVE  <<p[j], p[k]>> \in LaterPairs
  <2>1. k - 1 \in 1 .. N /\ p[k] = q[k - 1] /\ q[k - 1] \in found
    BY <1>1, <1>4, <1>6
  <2>2. CASE j = 1
    BY <2>1, <2>2 DEF LaterPairs
  <2>3. CASE j # 1
    <3>1. j - 1 \in 1 .. N /\ j - 1 < k - 1 /\ p[j] = q[j - 1]
      BY <1>1, <1>6, <2>3
    <3> QED
      BY <1>1, <2>1, <3>1 DEF Sorted
  <2> QED
    BY <2>2, <2>3
<1>7. Sorted(p, all, LaterPairs)
  BY <1>2, <1>5, <1>6 DEF Sorted
<1>8. NewestFirst(all) = p
  BY <1>3, <1>7, OneOrder
<1>9. Reverse(p) = Append(Reverse(q), c)
  <2> HIDE DEF q
  <2>1. Reverse(p) = [i \in 1 .. N + 1 |-> p[N + 1 - i + 1]]
    BY <1>5 DEF Reverse
  <2>2. Reverse(q) = [i \in 1 .. N |-> q[N - i + 1]] /\ Reverse(q) \in Seq(found)
        /\ Len(Reverse(q)) = N
    <3>1. \A i \in 1 .. N : q[N - i + 1] \in found
      BY <1>1, <1>4
    <3> QED
      BY <1>1, <3>1 DEF Reverse
  <2>3. ASSUME NEW i \in 1 .. N + 1 PROVE Reverse(p)[i] = Append(Reverse(q), c)[i]
    <3>1. CASE i = N + 1
      <4>1. Reverse(p)[i] = p[1] /\ p[1] = c
        BY <1>1, <2>1, <3>1
      <4> QED
        BY <1>1, <2>2, <3>1, <4>1
    <3>2. CASE i # N + 1
      <4>1. i \in 1 .. N /\ N + 1 - i + 1 \in 1 .. N + 1 /\ N + 1 - i + 1 # 1
            /\ N + 1 - i + 1 - 1 = N - i + 1
        BY <1>1, <3>2
      <4>2. Reverse(p)[i] = q[N - i + 1]
        BY <2>1, <4>1
      <4>3. Append(Reverse(q), c)[i] = Reverse(q)[i]
        BY <2>2, <4>1
      <4> QED
        BY <2>2, <4>1, <4>2, <4>3
    <3> QED
      BY <3>1, <3>2
  <2>4. Append(Reverse(q), c) \in Seq(all) /\ Len(Append(Reverse(q), c)) = N + 1
    BY <1>1, <2>2
  <2>5. Reverse(p) \in Seq(all) /\ Len(Reverse(p)) = N + 1
    <3>1. \A i \in 1 .. N + 1 : p[N + 1 - i + 1] \in all
      <4>1. \A k \in 1 .. N + 1 : p[k] \in all
        BY <1>5
      <4>2. \A i \in 1 .. N + 1 : N + 1 - i + 1 \in 1 .. N + 1
        BY <1>1
      <4> HIDE DEF p, all
      <4> QED
        BY <4>1, <4>2
    <3> HIDE DEF p, all
    <3> QED
      BY <1>1, <2>1, <3>1
  <2> QED
    BY <2>3, <2>4, <2>5
<1> QED
  BY <1>8, <1>9

LEMMA DeleteTakenOut ==
  ASSUME NEW found \in SUBSET Row, IsFiniteSet(found), Apart(found), NEW c \in found
  PROVE  \E k \in 1 .. Len(Reverse(NewestFirst(found))) :
            Reverse(NewestFirst(found \ {c})) = RemoveAt(Reverse(NewestFirst(found)), k)
<1> DEFINE q == NewestFirst(found)
           N == Len(q)
           rest == found \ {c}
<1>1. /\ Linear(found, LaterPairs) /\ Sorted(q, found, LaterPairs)
      /\ N = Cardinality(found) /\ N \in Nat
  <2>1. Linear(found, LaterPairs) /\ Sorted(q, found, LaterPairs)
    BY NewestFirstInOrder
  <2> QED
    BY <2>1, Ranks DEF Sorted
<1>2. PICK m \in 1 .. N : q[m] = c
  BY <1>1, AllInOrder
<1>3. IsFiniteSet(rest) /\ Cardinality(rest) = N - 1
  BY <1>1, FS_RemoveElement
<1>4. Linear(rest, LaterPairs) /\ Sorted(NewestFirst(rest), rest, LaterPairs)
  BY <1>3, NewestFirstInOrder DEF Apart
<1>5. \A k \in 1 .. N : q[k] \in found /\ (k # m => q[k] \in rest)
  <2>1. ASSUME NEW k \in 1 .. N PROVE q[k] \in found /\ (k # m => q[k] # c)
    <3>1. Rank(found, LaterPairs, q[k]) = k - 1 /\ Rank(found, LaterPairs, q[m]) = m - 1
      BY <1>1, Places
    <3> QED
      BY <1>1, <1>2, <3>1 DEF Sorted
  <2> QED
    BY <2>1
<1> DEFINE At(k) == IF k < m THEN k ELSE k + 1
           p == [k \in 1 .. N - 1 |-> q[At(k)]]
<1>6. ASSUME NEW k \in 1 .. N - 1 PROVE At(k) \in 1 .. N /\ At(k) # m
  BY <1>1
<1>7. p \in Seq(rest) /\ Len(p) = N - 1
  <2>1. \A k \in 1 .. N - 1 : p[k] \in rest
    BY <1>5, <1>6
  <2>2. N - 1 \in Nat
    BY <1>1, <1>2
  <2> HIDE DEF At
  <2> QED
    BY <2>1, <2>2
<1>8. ASSUME NEW j \in 1 .. N - 1, NEW k \in 1 .. N - 1, j < k
      PROVE  <<p[j], p[k]>> \in LaterPairs
  <2>1. At(j) < At(k) /\ p[j] = q[At(j)] /\ p[k] = q[At(k)]
    BY <1>1, <1>8
  <2> QED
    BY <1>1, <1>6, <2>1 DEF Sorted
<1>9. NewestFirst(rest) = p
  <2>1. Sorted(p, rest, LaterPairs)
    BY <1>3, <1>7, <1>8 DEF Sorted
  <2> QED
    BY <1>4, <2>1, OneOrder
<1> DEFINE k == N - m + 1
           r == Reverse(q)
<1>10. k \in 1 .. N /\ r = [i \in 1 .. N |-> q[N - i + 1]] /\ r \in Seq(found) /\ Len(r) = N
  <2> HIDE DEF q
  <2>1. \A i \in 1 .. N : q[N - i + 1] \in found
    BY <1>1, <1>5
  <2> QED
    BY <1>1, <2>1 DEF Reverse
<1>11. Reverse(p) = RemoveAt(r, k)
  <2> HIDE DEF q, p, r, k
  <2>1. Reverse(p) = [i \in 1 .. N - 1 |-> p[N - 1 - i + 1]]
    BY <1>7 DEF Reverse
  <2>2. Reverse(p) \in Seq(rest) /\ Len(Reverse(p)) = N - 1
    <3>1. \A i \in 1 .. N - 1 : p[N - 1 - i + 1] \in rest
      BY <1>1, <1>7
    <3>2. N - 1 \in Nat
      BY <1>1, <1>2
    <3> HIDE DEF rest
    <3> QED
      BY <2>1, <3>1, <3>2
  <2> DEFINE u == SubSeq(r, 1, k - 1)
             v == SubSeq(r, k + 1, Len(r))
  <2>3. u \in Seq(found) /\ Len(u) = k - 1 /\ \A i \in 1 .. k - 1 : u[i] = r[i]
    BY <1>1, <1>10
  <2>4. v \in Seq(found) /\ Len(v) = N - k /\ \A i \in 1 .. N - k : v[i] = r[i + k]
    BY <1>1, <1>10
  <2>5. u \o v \in Seq(found) /\ Len(u \o v) = N - 1
        /\ \A i \in 1 .. N - 1 : (u \o v)[i] = IF i < k THEN r[i] ELSE r[i + 1]
    <3> HIDE DEF u, v
    <3>0. k - 1 \in Nat /\ N - k \in Nat /\ k - 1 + (N - k) = N - 1
      BY <1>1, <1>10
    <3>1. u \o v \in Seq(found) /\ Len(u \o v) = N - 1
      BY <2>3, <2>4, <3>0
    <3>2. ASSUME NEW i \in 1 .. N - 1
          PROVE  (u \o v)[i] = IF i < k THEN r[i] ELSE r[i + 1]
      <4>1. CASE i < k
        <5>1. i \in 1 .. k - 1
          BY <1>1, <1>10, <4>1
        <5>2. (u \o v)[i] = u[i]
          BY <2>3, <2>4, <3>0, <5>1
        <5> QED
          BY <2>3, <4>1, <5>1, <5>2
      <4>2. CASE ~(i < k)
        <5>1. i - (k - 1) \in 1 .. N - k /\ i - (k - 1) + k = i + 1
          BY <1>1, <1>10, <4>2
        <5>2. (u \o v)[i] = v[i - (k - 1)]
          <6>1. i \in 1 .. k - 1 + (N - k) /\ i > k - 1
            BY <1>1, <1>10, <3>0, <4>2
          <6> QED
            BY <2>3, <2>4, <3>0, <6>1
        <5> QED
          BY <2>4, <4>2, <5>1, <5>2
      <4> QED
        BY <4>1, <4>2
    <3> QED
      BY <3>1, <3>2
  <2>6. ASSUME NEW i \in 1 .. N - 1 PROVE Reverse(p)[i] = (u \o v)[i]
    <3>1. Reverse(p)[i] = p[N - i] /\ N - i \in 1 .. N - 1
      BY <1>1, <2>1
    <3>2. p[N - i] = q[At(N - i)]
      BY <3>1 DEF p
    <3>3. i < k <=> ~(N - i < m)
      BY <1>1 DEF k
    <3>4. r[i] = q[N - i + 1] /\ r[i + 1] = q[N - i]
      <4>1. i \in 1 .. N /\ i + 1 \in 1 .. N /\ N - (i + 1) + 1 = N - i
        BY <1>1
      <4> QED
        BY <1>10, <4>1
    <3> QED
      BY <2>5, <3>1, <3>2, <3>3, <3>4
  <2> HIDE DEF u, v
  <2>7. Reverse(p) = u \o v
    <3> DEFINE x == Reverse(p)
               y == u \o v
    <3>1. x \in Seq(found) /\ Len(x) = N - 1
      BY <2>2
    <3>2. y \in Seq(found) /\ Len(y) = N - 1
      BY <2>5
    <3>3. \A i \in 1 .. N - 1 : x[i] = y[i]
      BY <2>6
    <3> HIDE DEF x, y
    <3>4. x = y
      BY <3>1, <3>2, <3>3
    <3> QED
      BY <3>4 DEF x, y
  <2> QED
    BY <2>7 DEF RemoveAt, u, v
<1> QED
  BY <1>9, <1>10, <1>11

\* No two checkpoints share an id; where one run at a time saves, the checkpoint
\* it has still to save is later than all of its thread.
TableInv ==
  /\ created \in Nat /\ clock \in Nat /\ clock <= created /\ created <= MaxCheckpoints
  /\ rows \cup pending \subseteq [id : 1 .. created, thread : Threads, at : 1 .. clock]
  /\ IsFiniteSet(rows) /\ rows \cap pending = {}
  /\ Apart(rows \cup pending)
  /\ \A c \in pending : c.thread \in SingleWriters =>
        \A d \in rows \cup pending : d.thread = c.thread /\ d # c => c.at > d.at

LEMMA NewOK ==
  ASSUME TableInv, NEW t \in Threads, NEW now \in 1 .. clock + 1, New(t, now)
  PROVE  TableInv'
<1> DEFINE c == [id |-> created + 1, thread |-> t, at |-> now]
           Old == [id : 1 .. created, thread : Threads, at : 1 .. clock]
           All == [id : 1 .. created + 1, thread : Threads, at : 1 .. clock']
<1>1. /\ clock' \in Nat /\ clock <= clock' /\ now <= clock' /\ clock' <= created + 1
      /\ created' = created + 1 /\ created' <= MaxCheckpoints /\ created' \in Nat
  <2>1. clock' = Max({now, clock})
    BY DEF New
  <2>2. clock' \in {now, clock} /\ now <= clock' /\ clock <= clock'
    <3> DEFINE P(x) == x \in {now, clock} /\ \A y \in {now, clock} : x >= y
    <3>1. \E x : P(x)
      <4>1. CASE now >= clock
        BY <4>1 DEF TableInv
      <4>2. CASE ~(now >= clock)
        BY <4>2 DEF TableInv
      <4> QED
        BY <4>1, <4>2
    <3>2. P(CHOOSE x : P(x))
      <4> HIDE DEF P
      <4> QED
        BY <3>1
    <3>3. Max({now, clock}) = CHOOSE x : P(x)
      BY DEF Max
    <3> QED
      BY <2>1, <3>2, <3>3
  <2> QED
    BY <2>2, BoundIsNat DEF New, TableInv
<1>2. rows' = rows /\ pending' = pending \cup {c}
  BY DEF New
<1>3. rows \cup pending \subseteq Old /\ Old \subseteq All /\ c \in All
  BY <1>1 DEF TableInv
<1>4. \A d \in rows \cup pending : d.id # c.id /\ d # c
  BY <1>1, <1>3 DEF TableInv
<1>5. Apart((rows \cup pending) \cup {c})
  BY <1>4 DEF TableInv, Apart
<1>6. ASSUME NEW e \in pending \cup {c}, e.thread \in SingleWriters,
             NEW d \in (rows \cup pending) \cup {c}, d.thread = e.thread, d # e
      PROVE  e.at > d.at
  <2>1. CASE e = c
    <3>1. d \in rows \cup pending /\ now > clock
      BY <1>6, <2>1 DEF New
    <3> QED
      BY <1>1, <1>3, <2>1, <3>1 DEF TableInv
  <2>2. CASE e # c
    <3>1. e \in pending
      BY <1>6, <2>2
    <3>2. d # c
      BY <1>6, <3>1 DEF New
    <3> QED
      BY <1>6, <3>1, <3>2 DEF TableInv
  <2> QED
    BY <2>1, <2>2
<1> QED
  <2>1. rows' \cup pending' = (rows \cup pending) \cup {c}
    BY <1>2
  <2>2. rows' \cap pending' = {}
    BY <1>2, <1>4 DEF TableInv
  <2>3. (rows \cup pending) \cup {c} \subseteq All
    BY <1>3
  <2> HIDE DEF c, All
  <2>4. /\ rows' \cup pending' \subseteq [id : 1 .. created', thread : Threads, at : 1 .. clock']
    BY <1>1, <2>1, <2>3 DEF All
  <2>5. IsFiniteSet(rows') /\ Apart(rows' \cup pending')
    BY <1>2, <1>5, <2>1 DEF TableInv
  <2>6. \A e \in pending' : e.thread \in SingleWriters =>
           \A d \in rows' \cup pending' : d.thread = e.thread /\ d # e => e.at > d.at
    BY <1>2, <1>6, <2>1
  <2> QED
    BY <1>1, <2>2, <2>4, <2>5, <2>6 DEF TableInv, Apart

\* The other steps leave fewer checkpoints, or one in the table that was not.
LEMMA FewerOK ==
  ASSUME TableInv, rows' \subseteq rows \cup pending, pending' \subseteq pending,
         rows' \cap pending' = {}, IsFiniteSet(rows'), UNCHANGED <<clock, created>>
  PROVE  TableInv'
<1>1. rows' \cup pending' \subseteq rows \cup pending
  OBVIOUS
<1>2. Apart(rows' \cup pending')
  BY <1>1 DEF TableInv, Apart
<1>3. \A c \in pending' : c.thread \in SingleWriters =>
         \A d \in rows' \cup pending' : d.thread = c.thread /\ d # c => c.at > d.at
  BY <1>1 DEF TableInv
<1>4. clock' = clock /\ created' = created
  OBVIOUS
<1> QED
  BY <1>1, <1>2, <1>3, <1>4 DEF TableInv, Apart

LEMMA TableOK == TableInv /\ [CkptNext]_ckptVars => TableInv'
<1> SUFFICES ASSUME TableInv, [CkptNext]_ckptVars PROVE TableInv'
  OBVIOUS
<1>1. ASSUME NEW t \in Threads, NEW now \in 1 .. clock + 1, New(t, now) PROVE TableInv'
  BY <1>1, NewOK
<1>2. ASSUME Open \/ UNCHANGED ckptVars PROVE TableInv'
  <2>1. rows' = rows /\ pending' = pending /\ clock' = clock /\ created' = created
    BY <1>2 DEF Open, ckptVars
  <2> QED
    BY <2>1, FewerOK DEF TableInv
<1>3. ASSUME Crash PROVE TableInv'
  <2>1. rows' \subseteq rows /\ pending' = {} /\ clock' = clock /\ created' = created
    BY <1>3 DEF Crash
  <2>2. IsFiniteSet(rows')
    BY <2>1, FS_Subset DEF TableInv
  <2> QED
    BY <2>1, <2>2, FewerOK
<1>4. ASSUME NEW c \in pending, Save(c) \/ SaveFails(c) PROVE TableInv'
  <2>1. /\ rows' \in {rows, rows \cup {c}} /\ pending' = pending \ {c}
        /\ clock' = clock /\ created' = created
    BY <1>4 DEF Save, SaveFails
  <2>2. IsFiniteSet(rows')
    BY <2>1, FS_AddElement DEF TableInv
  <2>3. rows' \cap pending' = {}
    BY <2>1 DEF TableInv
  <2>4. rows' \subseteq rows \cup pending
    BY <2>1
  <2> QED
    BY <2>1, <2>2, <2>3, <2>4, FewerOK
<1>5. ASSUME NEW gone, DeleteRows(gone) PROVE TableInv'
  <2>1. rows' = rows \ gone /\ pending' = pending /\ clock' = clock /\ created' = created
    BY <1>5 DEF DeleteRows
  <2>2. IsFiniteSet(rows')
    BY <2>1, FS_Subset DEF TableInv
  <2>3. rows' \cap pending' = {}
    BY <2>1 DEF TableInv
  <2> QED
    BY <2>1, <2>2, <2>3, FewerOK
<1> QED
  BY <1>1, <1>2, <1>3, <1>4, <1>5 DEF CkptNext, DeleteById, DeleteThread

-----------------------------------------------------------------------------
\* The table as a log.

TableLogs == [t \in SingleWriters |-> Reverse(List(t))]

LEMMA RowsAreRows ==
  ASSUME TableInv, NEW t
  PROVE  /\ RowsOf(t) \in SUBSET Row /\ IsFiniteSet(RowsOf(t)) /\ Apart(RowsOf(t))
         /\ \A c \in RowsOf(t) : c.thread = t
<1>1. RowsOf(t) \subseteq rows /\ \A c \in RowsOf(t) : c.thread = t
  BY DEF RowsOf
<1>2. rows \subseteq Row
  BY DEF TableInv, Row
<1>3. IsFiniteSet(RowsOf(t))
  BY <1>1, FS_Subset DEF TableInv
<1>4. Apart(RowsOf(t))
  BY <1>1 DEF TableInv, Apart
<1> QED
  BY <1>1, <1>2, <1>3, <1>4

LEMMA ListsAreSeqs ==
  ASSUME NEW found \in SUBSET Row, IsFiniteSet(found), Apart(found)
  PROVE  Reverse(NewestFirst(found)) \in Seq(Row)
<1> DEFINE q == NewestFirst(found)
<1>1. q \in Seq(found) /\ Len(q) \in Nat
  BY NewestFirstInOrder DEF Sorted
<1> HIDE DEF q
<1>2. \A i \in 1 .. Len(q) : q[Len(q) - i + 1] \in Row
  BY <1>1
<1> QED
  BY <1>1, <1>2 DEF Reverse, q

LEMMA NothingListed == Reverse(NewestFirst({})) = <<>>
<1>1. Cardinality({}) = 0
  BY FS_EmptySet
<1>2. NewestFirst({}) = [k \in 1 .. 0 |-> CHOOSE c \in {} : Cardinality({d \in {} : Later(d, c)}) = k - 1]
  BY <1>1 DEF NewestFirst
<1>3. NewestFirst({}) = <<>>
  BY <1>2
<1> QED
  BY <1>3 DEF Reverse

LEMMA StoredOK ==
  ASSUME TableInv, NEW c \in pending, rows' = rows \cup {c}
  PROVE  UNCHANGED TableLogs \/ \E t \in SingleWriters : Log!Save(t)
<1> DEFINE t == c.thread
<1>1. /\ c \in [id : 1 .. created, thread : Threads, at : 1 .. clock]
      /\ c \in Row /\ c \notin rows /\ t \in Threads
  BY DEF TableInv, Row
<1>2. ASSUME NEW u, u # t PROVE RowsOf(u)' = RowsOf(u)
  BY <1>2 DEF RowsOf
<1>3. CASE t \notin SingleWriters
  <2>1. \A u \in SingleWriters : Reverse(List(u))' = Reverse(List(u))
    BY <1>2, <1>3 DEF List
  <2> QED
    BY <2>1 DEF TableLogs
<1>4. CASE t \in SingleWriters
  <2>1. RowsOf(t)' = RowsOf(t) \cup {c} /\ c \notin RowsOf(t)
    BY <1>1 DEF RowsOf
  <2>2. /\ RowsOf(t) \in SUBSET Row /\ IsFiniteSet(RowsOf(t))
    BY RowsAreRows
  <2>3. Apart(RowsOf(t) \cup {c})
    BY DEF TableInv, Apart, RowsOf
  <2>4. \A d \in RowsOf(t) : Later(c, d)
    BY <1>1, <1>4 DEF TableInv, RowsOf, Later
  <2> DEFINE s == Reverse(List(t))
  <2>5. Reverse(List(t))' = Append(s, c)
    <3>1. Reverse(NewestFirst(RowsOf(t) \cup {c})) = Append(Reverse(NewestFirst(RowsOf(t))), c)
      BY <1>1, <2>1, <2>2, <2>3, <2>4, SaveAppended
    <3> QED
      BY <2>1, <3>1 DEF List
  <2>6. ASSUME NEW u \in SingleWriters, u # t PROVE Reverse(List(u))' = Reverse(List(u))
    BY <1>2, <2>6 DEF List
  <2>7. TableLogs' = [TableLogs EXCEPT ![t] = Append(s, c)] /\ TableLogs[t] = s /\ TableLogs'[t] = Append(s, c)
    <3> HIDE DEF s
    <3>1. TableLogs' = [u \in SingleWriters |-> Reverse(List(u))']
      BY DEF TableLogs
    <3>2. TableLogs' = [u \in SingleWriters |-> IF u = t THEN Append(s, c) ELSE TableLogs[u]]
      BY <2>5, <2>6, <3>1 DEF TableLogs
    <3>3. TableLogs[t] = s
      BY <1>4 DEF TableLogs, s
    <3> QED
      BY <1>4, <3>2, <3>3 DEF TableLogs
  <2>8. s \in Seq(Row)
    BY <2>2, RowsAreRows, ListsAreSeqs DEF List
  <2>9. c \in [id : 1 .. MaxCheckpoints, thread : SingleWriters, at : 1 .. MaxCheckpoints]
    BY <1>1, <1>4, BoundIsNat DEF TableInv
  <2>10. LET n == Len(s) + 1 IN n \in DOMAIN Append(s, c) /\ Append(s, c)[n] = c
    BY <1>1, <2>8
  <2>11. Log!Save(t)
    <3> HIDE DEF s, t
    <3> QED
      BY <2>7, <2>9, <2>10 DEF Log!Save, TableLogs
  <2> QED
    BY <1>4, <2>11
<1> QED
  BY <1>3, <1>4

LEMMA DeletedOK ==
  ASSUME TableInv, NEW c \in rows, rows' = rows \ {c}
  PROVE  UNCHANGED TableLogs \/ \E t \in SingleWriters : Log!Delete(t)
<1> DEFINE t == c.thread
           s == Reverse(List(t))
<1>1. RowsOf(t)' = RowsOf(t) \ {c} /\ c \in RowsOf(t)
  BY DEF RowsOf
<1>2. ASSUME NEW u, u # t PROVE Reverse(List(u))' = Reverse(List(u))
  <2>1. RowsOf(u)' = RowsOf(u)
    BY <1>2 DEF RowsOf
  <2> QED
    BY <2>1 DEF List
<1>3. CASE t \notin SingleWriters
  BY <1>2, <1>3 DEF TableLogs
<1>4. CASE t \in SingleWriters
  <2>1. RowsOf(t) \in SUBSET Row /\ IsFiniteSet(RowsOf(t)) /\ Apart(RowsOf(t))
    BY RowsAreRows
  <2>2. PICK k \in 1 .. Len(s) : Reverse(NewestFirst(RowsOf(t) \ {c})) = RemoveAt(s, k)
    BY <1>1, <2>1, DeleteTakenOut DEF List
  <2>3. Reverse(List(t))' = RemoveAt(s, k)
    BY <1>1, <2>2 DEF List
  <2> HIDE DEF s, t
  <2>4. TableLogs' = [u \in SingleWriters |-> IF u = t THEN RemoveAt(s, k) ELSE TableLogs[u]]
    BY <1>2, <2>3 DEF TableLogs
  <2>5. TableLogs[t] = s
    BY <1>4 DEF TableLogs, s
  <2>6. TableLogs' = [TableLogs EXCEPT ![t] = RemoveAt(@, k)]
    BY <1>4, <2>4, <2>5 DEF TableLogs
  <2>7. Log!RemoveAt(s, k) = RemoveAt(s, k)
    BY DEF Log!RemoveAt, RemoveAt
  <2>8. TableLogs' = [TableLogs EXCEPT ![t] = Log!RemoveAt(@, k)]
    BY <1>4, <2>5, <2>6, <2>7 DEF TableLogs
  <2>9. Log!Delete(t)
    BY <2>2, <2>5, <2>8 DEF Log!Delete, TableLogs
  <2> QED
    BY <1>4, <2>9
<1> QED
  BY <1>3, <1>4

LEMMA ThreadDeletedOK ==
  ASSUME NEW t, rows' = rows \ RowsOf(t)
  PROVE  UNCHANGED TableLogs \/ \E u \in SingleWriters : Log!DeleteThread(u)
<1>1. RowsOf(t)' = {}
  BY DEF RowsOf
<1>2. ASSUME NEW u, u # t PROVE Reverse(List(u))' = Reverse(List(u))
  <2>1. RowsOf(u)' = RowsOf(u)
    BY <1>2 DEF RowsOf
  <2> QED
    BY <2>1 DEF List
<1>3. Reverse(List(t))' = <<>>
  BY <1>1, NothingListed DEF List
<1>4. CASE t \notin SingleWriters
  BY <1>2, <1>4 DEF TableLogs
<1>5. CASE t \in SingleWriters
  <2>1. TableLogs' = [TableLogs EXCEPT ![t] = <<>>]
    BY <1>2, <1>3, <1>5 DEF TableLogs
  <2> QED
    BY <1>5, <2>1 DEF Log!DeleteThread, TableLogs
<1> QED
  BY <1>4, <1>5

LEMMA LogOK == TableInv /\ [CkptNext]_ckptVars => [Log!Next]_TableLogs
<1> SUFFICES ASSUME TableInv, [CkptNext]_ckptVars PROVE [Log!Next]_TableLogs
  OBVIOUS
<1>1. ASSUME rows' = rows PROVE UNCHANGED TableLogs
  <2>1. \A t \in SingleWriters : Reverse(List(t))' = Reverse(List(t))
    BY <1>1 DEF List, RowsOf
  <2> QED
    BY <2>1 DEF TableLogs
<1>2. ASSUME NEW t \in Threads, NEW now \in 1 .. clock + 1, New(t, now) PROVE UNCHANGED TableLogs
  BY <1>1, <1>2 DEF New
<1>3. ASSUME Open \/ UNCHANGED ckptVars PROVE UNCHANGED TableLogs
  BY <1>1, <1>3 DEF Open, ckptVars
<1>4. ASSUME Crash PROVE UNCHANGED TableLogs \/ Log!Lose
  <2>1. rows' = rows \/ rows' = {}
    BY <1>4 DEF Crash
  <2>2. ASSUME rows' = {} PROVE Log!Lose
    <3>1. ASSUME NEW t PROVE Reverse(List(t))' = <<>>
      <4>1. RowsOf(t)' = {}
        BY <2>2 DEF RowsOf
      <4> QED
        BY <4>1, NothingListed DEF List
    <3> QED
      BY <3>1 DEF Log!Lose
  <2> QED
    BY <1>1, <2>1, <2>2
<1>5. ASSUME NEW c \in pending, Save(c) \/ SaveFails(c)
      PROVE  UNCHANGED TableLogs \/ \E t \in SingleWriters : Log!Save(t)
  <2>1. rows' = rows \/ rows' = rows \cup {c}
    BY <1>5 DEF Save, SaveFails
  <2> QED
    BY <1>1, <2>1, StoredOK
<1>6. ASSUME NEW c \in rows, DeleteById(c)
      PROVE  UNCHANGED TableLogs \/ \E t \in SingleWriters : Log!Delete(t)
  BY <1>6, DeletedOK DEF DeleteById, DeleteRows
<1>7. ASSUME NEW t \in Threads, DeleteThread(t)
      PROVE  UNCHANGED TableLogs \/ \E u \in SingleWriters : Log!DeleteThread(u)
  BY <1>7, ThreadDeletedOK DEF DeleteThread, DeleteRows
<1> QED
  BY <1>2, <1>3, <1>4, <1>5, <1>6, <1>7 DEF CkptNext, Log!Next

\* SurrealKeepsTheLog, for every number of threads and checkpoints: what load and
\* list answer on threads with one run at a time is a log the saves append to, however
\* the other threads' clocks run, whichever saves fail, and across restarts
\* (SurrealCheckpointer's statements).
THEOREM TheTableIsALog == CkptSpec => SurrealKeepsTheLog
<1>1. CkptInit => TableInv
  BY FS_EmptySet, BoundIsNat DEF CkptInit, TableInv, Apart
<1>2. CkptInit => Log!Init
  <2> SUFFICES ASSUME CkptInit PROVE Log!Init
    OBVIOUS
  <2>1. \A t : RowsOf(t) = {}
    BY DEF CkptInit, RowsOf
  <2>2. \A t : Reverse(List(t)) = <<>>
    BY <2>1, NothingListed DEF List
  <2> QED
    BY <2>2 DEF Log!Init
<1>3. TableInv /\ [CkptNext]_ckptVars => [Log!Next]_TableLogs
  BY LogOK
<1> QED
  BY <1>1, <1>2, <1>3, TableOK, PTL DEF CkptSpec, SurrealKeepsTheLog, Log!Spec, TableLogs
-----------------------------------------------------------------------------
\* What an agent remembers of a repository.

\* A set listed by rank is in order.
LEMMA OrderedIs ==
  ASSUME NEW S, NEW R, Linear(S, R)
  PROVE  Sorted(Ordered(S, R), S, R)
<1> DEFINE q == Ordered(S, R)
           N == Cardinality(S)
           P(k, x) == Cardinality({y \in S : <<y, x>> \in R}) = k - 1
           g(k) == CHOOSE x \in S : P(k, x)
<1>1. q = [k \in 1 .. N |-> g(k)]
  BY DEF Ordered
<1>2. ASSUME NEW k \in 1 .. N PROVE q[k] \in S /\ Rank(S, R, q[k]) = k - 1
  <2>1. N \in Nat /\ k - 1 \in 0 .. N - 1
    BY Ranks
  <2>2. \E x \in S : P(k, x)
    <3>1. PICK x \in S : Rank(S, R, x) = k - 1
      BY <2>1, Ranks
    <3> QED
      BY <3>1 DEF Rank
  <2>3. g(k) \in S /\ P(k, g(k))
    <3> HIDE DEF P
    <3> QED
      BY <2>2
  <2>4. q[k] = g(k)
    <3> HIDE DEF g, q
    <3> QED
      BY <1>1
  <2> HIDE DEF g, q
  <2> QED
    BY <2>3, <2>4 DEF Rank
<1>3. q = [k \in 1 .. N |-> q[k]]
  <2> HIDE DEF g, q
  <2> QED
    BY <1>1
<1> HIDE DEF q
<1>4. Sorted(q, S, R)
  BY <1>2, <1>3, ByRankInOrder
<1> QED
  BY <1>4 DEF q

\* The places picked rise, and what is picked is what stands there.
LEMMA PickedIs ==
  ASSUME NEW T, NEW seq \in Seq(T), NEW P \in SUBSET DOMAIN seq
  PROVE  LET q == Picked(seq, P)
         IN  /\ q \in Seq(T)
             /\ \E place \in [DOMAIN q -> P] :
                  /\ \A k \in DOMAIN q : q[k] = seq[place[k]]
                  /\ \A j, k \in DOMAIN q : j < k => place[j] < place[k]
                  /\ \A i \in P : \E k \in DOMAIN q : place[k] = i
<1> DEFINE R == {p \in P \X P : p[1] < p[2]}
           place == Ordered(P, R)
           q == Picked(seq, P)
<1>1. Len(seq) \in Nat /\ DOMAIN seq = 1 .. Len(seq) /\ \A i \in DOMAIN seq : seq[i] \in T
  OBVIOUS
<1>2. P \subseteq Nat /\ IsFiniteSet(P)
  <2>1. IsFiniteSet(1 .. Len(seq))
    BY <1>1, FS_Interval
  <2> QED
    BY <1>1, <2>1, FS_Subset
<1>3. \A i, j \in P : <<i, j>> \in R <=> i < j
  OBVIOUS
<1>4. Linear(P, R)
  <2> HIDE DEF R
  <2> QED
    BY <1>2, <1>3 DEF Linear
<1>5. Sorted(place, P, R)
  BY <1>4, OrderedIs
<1>6. q = [k \in DOMAIN place |-> seq[place[k]]]
  BY DEF Picked
<1> HIDE DEF R, place, q
<1>7. place \in Seq(P) /\ DOMAIN place = 1 .. Len(place) /\ Len(place) \in Nat
  BY <1>5 DEF Sorted
<1>8. q \in Seq(T) /\ DOMAIN q = DOMAIN place
  <2>1. \A k \in 1 .. Len(place) : seq[place[k]] \in T
    BY <1>1, <1>7
  <2> QED
    BY <1>6, <1>7, <2>1
<1>9. ASSUME NEW j \in DOMAIN q, NEW k \in DOMAIN q, j < k PROVE place[j] < place[k]
  <2>1. j \in 1 .. Len(place) /\ k \in 1 .. Len(place) /\ place[j] \in P /\ place[k] \in P
    BY <1>7, <1>8
  <2>2. <<place[j], place[k]>> \in R
    BY <1>5, <1>9, <2>1 DEF Sorted
  <2> QED
    BY <1>3, <2>1, <2>2
<1>10. ASSUME NEW i \in P PROVE \E k \in DOMAIN q : place[k] = i
  <2>1. \E k \in 1 .. Len(place) : place[k] = i
    BY <1>4, <1>5, AllInOrder
  <2> QED
    BY <1>7, <1>8, <2>1
<1>11. place \in [DOMAIN q -> P] /\ \A k \in DOMAIN q : q[k] = seq[place[k]]
  BY <1>6, <1>7, <1>8
<1> QED
  BY <1>8, <1>9, <1>10, <1>11 DEF q

\* A text is split into a sequence of terms.
LEMMA TextTokens ==
  ASSUME NEW x, IsText(x)
  PROVE  Len(Tokenize(x)) \in Nat /\ DOMAIN Tokenize(x) = 1 .. Len(Tokenize(x))
<1> DEFINE T == {x[i] : i \in 1 .. Len(x)}
           P == {i \in DOMAIN x : x[i] \notin Short}
<1>1. x \in Seq(T)
  <2>1. Len(x) \in Nat /\ x = [i \in 1 .. Len(x) |-> x[i]]
    BY DEF IsText
  <2>2. \A i \in 1 .. Len(x) : x[i] \in T
    OBVIOUS
  <2> HIDE DEF T
  <2> QED
    BY <2>1, <2>2
<1>2. Picked(x, P) \in Seq(T)
  <2>1. P \in SUBSET DOMAIN x
    OBVIOUS
  <2> HIDE DEF T, P
  <2> QED
    BY <1>1, <2>1, PickedIs
<1> QED
  BY <1>2 DEF Tokenize

\* A sort that keeps the order of what it cannot tell apart.
Weak(S, B) ==
  /\ \A x, y \in S : <<x, y>> \in B => <<y, x>> \notin B
  /\ \A x, y, z \in S : <<x, z>> \in B => <<x, y>> \in B \/ <<y, z>> \in B

LEMMA RankedIs ==
  ASSUME NEW S, NEW seq \in Seq(S), NEW B, Weak(S, B)
  PROVE  /\ Ranked(seq, B) \in Seq(S)
         /\ \A j, k \in DOMAIN Ranked(seq, B) : j < k => <<Ranked(seq, B)[k], Ranked(seq, B)[j]>> \notin B
<1> DEFINE D == DOMAIN seq
           Before(j, k) == \/ <<seq[j], seq[k]>> \in B
                           \/ <<seq[k], seq[j]>> \notin B /\ j < k
           R == {p \in D \X D : Before(p[1], p[2])}
           order == Ordered(D, R)
           r == Ranked(seq, B)
<1>1. Len(seq) \in Nat /\ D = 1 .. Len(seq) /\ \A i \in D : seq[i] \in S
  OBVIOUS
<1>2. IsFiniteSet(D) /\ D \subseteq Nat
  <2>1. IsFiniteSet(1 .. Len(seq))
    BY <1>1, FS_Interval
  <2> QED
    BY <1>1, <2>1
<1>3. \A j, k \in D : <<j, k>> \in R <=> Before(j, k)
  OBVIOUS
<1>4. Linear(D, R)
  <2>1. \A j \in D : ~Before(j, j)
    BY <1>1, <1>2 DEF Weak
  <2>2. \A j, k \in D : j = k \/ Before(j, k) \/ Before(k, j)
    BY <1>1, <1>2 DEF Weak
  <2>3. ASSUME NEW i \in D, NEW j \in D, NEW k \in D, Before(i, j), Before(j, k) PROVE Before(i, k)
    <3>1. seq[i] \in S /\ seq[j] \in S /\ seq[k] \in S /\ i \in Nat /\ j \in Nat /\ k \in Nat
      BY <1>1, <1>2
    <3>2. i < j /\ j < k => i < k
      BY <3>1
    <3> QED
      BY <2>3, <3>1, <3>2 DEF Weak
  <2> HIDE DEF D, R, Before
  <2> QED
    BY <1>2, <1>3, <2>1, <2>2, <2>3 DEF Linear
<1>5. Sorted(order, D, R)
  BY <1>4, OrderedIs
<1>6. r = [k \in DOMAIN order |-> seq[order[k]]]
  BY DEF Ranked
<1> HIDE DEF R, order, r, D
<1>7. order \in Seq(D) /\ DOMAIN order = 1 .. Len(order) /\ Len(order) \in Nat
  BY <1>5 DEF Sorted
<1>8. r \in Seq(S) /\ DOMAIN r = DOMAIN order
  <2>1. \A k \in 1 .. Len(order) : seq[order[k]] \in S
    BY <1>1, <1>7
  <2> QED
    BY <1>6, <1>7, <2>1
<1>9. ASSUME NEW j \in DOMAIN r, NEW k \in DOMAIN r, j < k PROVE <<r[k], r[j]>> \notin B
  <2>1. order[j] \in D /\ order[k] \in D /\ <<order[j], order[k]>> \in R
    BY <1>5, <1>7, <1>8, <1>9 DEF Sorted
  <2>2. Before(order[j], order[k])
    BY <1>3, <2>1
  <2>3. r[j] = seq[order[j]] /\ r[k] = seq[order[k]] /\ r[j] \in S /\ r[k] \in S
    BY <1>1, <1>6, <1>8, <2>1
  <2> QED
    BY <2>2, <2>3 DEF Weak
<1> QED
  BY <1>8, <1>9 DEF r

LEMMA MinOfTwo ==
  ASSUME NEW a \in Nat, NEW b \in Nat
  PROVE  Min({a, b}) = IF a <= b THEN a ELSE b
<1> DEFINE m == IF a <= b THEN a ELSE b
           P(z) == z \in {a, b} /\ \A y \in {a, b} : z =< y
<1>1. P(m) /\ \A z : P(z) => z = m
  OBVIOUS
<1>2. (CHOOSE z : P(z)) = m
  <2> HIDE DEF P, m
  <2> QED
    BY <1>1
<1> QED
  BY <1>2 DEF Min

\* The first n of a sequence, or all there are.
LEMMA TruncatedIs ==
  ASSUME NEW S, NEW seq \in Seq(S), NEW n \in Nat
  PROVE  LET q == Truncated(seq, n)
         IN  /\ q \in Seq(S)
             /\ Len(q) = Min({n, Len(seq)})
             /\ Len(q) \in 0 .. Len(seq)
             /\ \A k \in 1 .. Len(q) : q[k] = seq[k]
<1>1. Len(seq) \in Nat
  OBVIOUS
<1> DEFINE m == Min({n, Len(seq)})
<1>2. m \in 0 .. Len(seq)
  BY <1>1, MinOfTwo
<1>3. Truncated(seq, n) = SubSeq(seq, 1, m)
  BY DEF Truncated
<1> HIDE DEF m
<1>4. /\ SubSeq(seq, 1, m) \in Seq(S) /\ Len(SubSeq(seq, 1, m)) = m
      /\ \A k \in 1 .. m : SubSeq(seq, 1, m)[k] = seq[k]
  BY <1>1, <1>2
<1> QED
  BY <1>2, <1>3, <1>4 DEF m

\* Texts are found by their terms.
LEMMA ScoreIs ==
  ASSUME NEW d \in Documents, NEW terms, Len(terms) \in Nat, DOMAIN terms = 1 .. Len(terms)
  PROVE  /\ Score(d, terms) \in Nat
         /\ Score(d, terms) > 0 => \E k \in DOMAIN terms : terms[k] \in Terms(d)
<1> DEFINE D == DOMAIN terms
           content == Tokenize(d.content)
           In(text) == {k \in D : terms[k] \in ToSet(text)}
           Twice == {p \in D \X DOMAIN content : terms[p[1]] = content[p[2]]}
<1>1. IsFiniteSet(D)
  BY FS_Interval
<1>2. \A text : IsFiniteSet(In(text)) /\ Cardinality(In(text)) \in Nat
  <2> TAKE text
  <2>1. In(text) \in SUBSET D
    OBVIOUS
  <2> HIDE DEF D, In
  <2> QED
    BY <1>1, <2>1, FS_Subset, FS_CardinalityType
<1>3. IsFiniteSet(Twice) /\ Cardinality(Twice) \in Nat
  <2>1. IsText(d.content)
    BY MemoriesAssumption
  <2>2. IsFiniteSet(DOMAIN content)
    BY <2>1, TextTokens, FS_Interval
  <2>3. IsFiniteSet(D \X DOMAIN content)
    BY <1>1, <2>2, FS_Product
  <2>4. Twice \in SUBSET (D \X DOMAIN content)
    OBVIOUS
  <2> HIDE DEF Twice, D, content
  <2> QED
    BY <2>3, <2>4, FS_Subset, FS_CardinalityType
<1>4. Score(d, terms) = 3 * Cardinality(In(Tokenize(d.path))) + 4 * Cardinality(In(Tokenize(d.symbol)))
                        + Cardinality(In(content)) + Cardinality(Twice)
  BY DEF Score
<1>5. Score(d, terms) \in Nat
  <2> HIDE DEF In, Twice, content, D
  <2> QED
    BY <1>2, <1>3, <1>4
<1>6. ASSUME \A k \in D : terms[k] \notin Terms(d) PROVE Score(d, terms) = 0
  <2>1. \A text \in {Tokenize(d.path), Tokenize(d.symbol), content} : In(text) = {}
    BY <1>6 DEF Terms
  <2>2. Twice = {}
    BY <1>6 DEF Terms, ToSet
  <2>3. Cardinality({}) = 0
    BY FS_EmptySet
  <2> HIDE DEF In, Twice, D, content
  <2>4. /\ Cardinality(In(Tokenize(d.path))) = 0 /\ Cardinality(In(Tokenize(d.symbol))) = 0
        /\ Cardinality(In(content)) = 0 /\ Cardinality(Twice) = 0
    BY <2>1, <2>2, <2>3
  <2> QED
    BY <1>4, <2>4
<1> QED
  BY <1>5, <1>6

-----------------------------------------------------------------------------
\* The inverted index has a position under a term exactly when the document
\* there has the term; no two documents, and no two decisions, have one id.
Inverts(entries, docs) ==
  \A t : \A i : t \in DOMAIN entries /\ i \in entries[t] <=> i \in DOMAIN docs /\ t \in Terms(docs[i])
OneEach(seq) == \A j, k \in DOMAIN seq : seq[j].id = seq[k].id => j = k

MemoryInv ==
  /\ documents \in Seq(Documents) /\ OneEach(documents) /\ Inverts(inverted, documents)
  /\ episodes \in Seq(Runs)
  /\ decisions \in Seq(Designs) /\ OneEach(decisions)

\* Documents behind one that is removed move up.
LEMMA WithoutIs ==
  ASSUME MemoryInv, NEW id
  PROVE  LET rest == Without(id)
         IN  /\ rest.docs \in Seq(Documents) /\ OneEach(rest.docs) /\ Inverts(rest.index, rest.docs)
             /\ \A k \in DOMAIN rest.docs : rest.docs[k].id # id
<1> DEFINE at == PositionOf(id)
           N == Len(documents)
<1>0. N \in Nat /\ DOMAIN documents = 1 .. N /\ \A k \in 1 .. N : documents[k] \in Documents
  BY DEF MemoryInv
<1>1. CASE at = {}
  <2>1. Without(id).docs = documents /\ Without(id).index = inverted
    BY <1>1 DEF Without
  <2>2. \A k \in DOMAIN documents : documents[k].id # id
    BY <1>1 DEF PositionOf
  <2> QED
    BY <2>1, <2>2 DEF MemoryInv
<1>2. CASE at # {}
  <2>1. PICK m \in DOMAIN documents : documents[m].id = id
    BY <1>2 DEF PositionOf
  <2>2. at = {m} /\ m \in 1 .. N
    BY <1>0, <2>1 DEF PositionOf, MemoryInv, OneEach
  <2>3. Min(at) = m
    <3>1. Min({m, m}) = m
      BY <1>0, <2>2, MinOfTwo
    <3>2. {m, m} = at
      BY <2>2
    <3> QED
      BY <3>1, <3>2
  <2> DEFINE docs == RemoveAt(documents, m)
             u == SubSeq(documents, 1, m - 1)
             v == SubSeq(documents, m + 1, Len(documents))
             Was(k) == IF k < m THEN k ELSE k + 1
  <2>4. Without(id).docs = docs /\ Without(id).index = RebuildInvertedIndex(docs)
    BY <1>2, <2>3 DEF Without
  <2>5. u \in Seq(Documents) /\ Len(u) = m - 1 /\ \A k \in 1 .. m - 1 : u[k] = documents[k]
    BY <1>0, <2>2 DEF MemoryInv
  <2>6. v \in Seq(Documents) /\ Len(v) = N - m /\ \A k \in 1 .. N - m : v[k] = documents[k + m]
    BY <1>0, <2>2 DEF MemoryInv
  <2>7. docs = u \o v
    BY DEF RemoveAt
  <2> HIDE DEF u, v, docs
  <2>8. docs \in Seq(Documents) /\ Len(docs) = N - 1 /\ DOMAIN docs = 1 .. N - 1
    <3>1. m - 1 \in Nat /\ N - m \in Nat /\ m - 1 + (N - m) = N - 1
      BY <1>0, <2>2
    <3>2. u \o v \in Seq(Documents) /\ Len(u \o v) = N - 1
      BY <2>5, <2>6, <3>1
    <3> QED
      BY <2>7, <3>2
  <2>9. ASSUME NEW k \in 1 .. N - 1 PROVE docs[k] = documents[Was(k)]
    <3>0. m - 1 \in Nat /\ N - m \in Nat
      BY <1>0, <2>2
    <3>1. CASE k < m
      <4>1. k \in 1 .. m - 1
        BY <1>0, <2>2, <3>1
      <4>2. (u \o v)[k] = u[k]
        BY <2>5, <2>6, <3>0, <4>1
      <4> QED
        BY <2>5, <2>7, <3>1, <4>1, <4>2
    <3>2. CASE ~(k < m)
      <4>1. k - (m - 1) \in 1 .. N - m /\ k - (m - 1) + m = k + 1
        BY <1>0, <2>2, <3>2
      <4>2. (u \o v)[k] = v[k - (m - 1)]
        <5>1. k \in 1 .. m - 1 + (N - m) /\ k > m - 1
          BY <1>0, <2>2, <3>2
        <5> QED
          BY <2>5, <2>6, <3>0, <5>1
      <4> QED
        BY <2>6, <2>7, <3>2, <4>1, <4>2
    <3> QED
      BY <3>1, <3>2
  <2>10. \A k \in 1 .. N - 1 : Was(k) \in 1 .. N /\ Was(k) # m
    BY <1>0, <2>2
  <2>11. OneEach(docs)
    <3> SUFFICES ASSUME NEW j \in 1 .. N - 1, NEW k \in 1 .. N - 1, docs[j].id = docs[k].id
                 PROVE  j = k
      BY <2>8 DEF OneEach
    <3>1. Was(j) = Was(k)
      <4> HIDE DEF Was
      <4>1. docs[j] = documents[Was(j)] /\ docs[k] = documents[Was(k)]
        BY <2>9
      <4>2. Was(j) \in DOMAIN documents /\ Was(k) \in DOMAIN documents
        BY <1>0, <2>10
      <4> QED
        BY <4>1, <4>2 DEF MemoryInv, OneEach
    <3> QED
      BY <1>0, <2>2, <3>1
  <2>12. ASSUME NEW k \in DOMAIN docs PROVE docs[k].id # id
    <3> HIDE DEF Was
    <3>1. docs[k] = documents[Was(k)] /\ Was(k) \in DOMAIN documents /\ Was(k) # m
      BY <1>0, <2>8, <2>9, <2>10
    <3> QED
      BY <2>2, <3>1 DEF PositionOf
  <2>13. Inverts(RebuildInvertedIndex(docs), docs)
    BY DEF Inverts, RebuildInvertedIndex
  <2> QED
    BY <2>4, <2>8, <2>11, <2>12, <2>13
<1> QED
  BY <1>1, <1>2

LEMMA IndexDocumentOK ==
  ASSUME MemoryInv, NEW d \in Documents, IndexDocument(d)
  PROVE  MemoryInv'
<1> DEFINE docs == Without(d.id).docs
           entries == Without(d.id).index
           n == Len(docs) + 1
<1>1. /\ docs \in Seq(Documents) /\ OneEach(docs) /\ Inverts(entries, docs)
      /\ \A k \in DOMAIN docs : docs[k].id # d.id
  BY WithoutIs
<1>2. /\ documents' = Append(docs, d) /\ inverted' = WithPosition(entries, Terms(d), n)
      /\ UNCHANGED <<episodes, decisions>>
  BY DEF IndexDocument
<1> HIDE DEF docs, entries
<1>3. /\ Len(docs) \in Nat /\ DOMAIN docs = 1 .. Len(docs) /\ DOMAIN Append(docs, d) = 1 .. n
      /\ Append(docs, d) \in Seq(Documents) /\ Append(docs, d)[n] = d
      /\ \A k \in DOMAIN docs : Append(docs, d)[k] = docs[k] /\ k # n
  BY <1>1
<1>4. OneEach(Append(docs, d))
  BY <1>1, <1>3 DEF OneEach
<1>5. Inverts(WithPosition(entries, Terms(d), n), Append(docs, d))
  <2> DEFINE next == WithPosition(entries, Terms(d), n)
  <2> SUFFICES ASSUME NEW t, NEW i
               PROVE  t \in DOMAIN next /\ i \in next[t]
                      <=> i \in DOMAIN Append(docs, d) /\ t \in Terms(Append(docs, d)[i])
    BY DEF Inverts
  <2>1. t \in DOMAIN next /\ i \in next[t]
        <=> (t \in DOMAIN entries /\ i \in entries[t]) \/ (t \in Terms(d) /\ i = n)
    BY DEF WithPosition
  <2>2. i \in DOMAIN Append(docs, d) <=> i \in DOMAIN docs \/ i = n
    BY <1>3
  <2> HIDE DEF next
  <2> QED
    BY <1>1, <1>3, <2>1, <2>2 DEF Inverts
<1> QED
  BY <1>2, <1>3, <1>4, <1>5 DEF MemoryInv

\* The decision of the id that is recorded goes, the others stay, one of each.
LEMMA RecordDecisionOK ==
  ASSUME MemoryInv, NEW m \in Designs, RecordDecision(m)
  PROVE  MemoryInv'
<1> DEFINE P == {j \in DOMAIN decisions : decisions[j].id # m.id}
           q == Picked(decisions, P)
<1>1. decisions \in Seq(Designs) /\ P \in SUBSET DOMAIN decisions
  BY DEF MemoryInv
<1>2. /\ q \in Seq(Designs)
      /\ \E place \in [DOMAIN q -> P] :
           /\ \A k \in DOMAIN q : q[k] = decisions[place[k]]
           /\ \A j, k \in DOMAIN q : j < k => place[j] < place[k]
           /\ \A i \in P : \E k \in DOMAIN q : place[k] = i
  <2> HIDE DEF P
  <2> QED
    BY <1>1, PickedIs
<1>3. decisions' = Append(q, m) /\ UNCHANGED <<documents, inverted, episodes>>
  BY DEF RecordDecision
<1>4. PICK place \in [DOMAIN q -> P] :
           /\ \A k \in DOMAIN q : q[k] = decisions[place[k]]
           /\ \A j, k \in DOMAIN q : j < k => place[j] < place[k]
  BY <1>2
<1> HIDE DEF q
<1>5. Len(q) \in Nat /\ DOMAIN q = 1 .. Len(q)
  BY <1>2
<1>6. ASSUME NEW j \in DOMAIN q, NEW k \in DOMAIN q, q[j].id = q[k].id PROVE j = k
  <2>1. place[j] \in DOMAIN decisions /\ place[k] \in DOMAIN decisions /\ place[j] = place[k]
    BY <1>4, <1>6 DEF MemoryInv, OneEach
  <2>2. ~(j < k) /\ ~(k < j)
    <3>1. place[j] \in Nat
      BY <1>1, <2>1
    <3> QED
      BY <1>4, <2>1, <3>1
  <2> QED
    BY <1>5, <2>2
<1>7. \A k \in DOMAIN q : q[k].id # m.id
  BY <1>4
<1>8. OneEach(Append(q, m)) /\ Append(q, m) \in Seq(Designs)
  <2>1. /\ DOMAIN Append(q, m) = 1 .. Len(q) + 1 /\ Append(q, m)[Len(q) + 1] = m
        /\ \A k \in DOMAIN q : Append(q, m)[k] = q[k]
    BY <1>2, <1>5
  <2>2. \A k \in 1 .. Len(q) + 1 : k \in DOMAIN q \/ k = Len(q) + 1
    BY <1>5
  <2> QED
    BY <1>2, <1>6, <1>7, <2>1, <2>2 DEF OneEach
<1> QED
  BY <1>3, <1>8 DEF MemoryInv, Inverts

LEMMA MemoryOK == MemoryInv /\ [MemoryNext]_memoryVars => MemoryInv'
<1> SUFFICES ASSUME MemoryInv, [MemoryNext]_memoryVars PROVE MemoryInv'
  OBVIOUS
<1>1. ASSUME NEW d \in Documents, RemoveDocument(d.id) PROVE MemoryInv'
  <2>1. /\ documents' = Without(d.id).docs /\ inverted' = Without(d.id).index
        /\ UNCHANGED <<episodes, decisions>>
    BY <1>1 DEF RemoveDocument
  <2> QED
    BY <2>1, WithoutIs DEF MemoryInv
<1>2. ASSUME NEW e \in Runs, RecordEpisode(e) PROVE MemoryInv'
  BY <1>2 DEF RecordEpisode, MemoryInv, Inverts
<1>3. CASE UNCHANGED memoryVars
  BY <1>3 DEF memoryVars, MemoryInv, Inverts
<1> QED
  BY <1>1, <1>2, <1>3, IndexDocumentOK, RecordDecisionOK DEF MemoryNext

-----------------------------------------------------------------------------
\* A query finds what matches, no document by way of a position it no longer has.
LEMMA QueryIs ==
  ASSUME MemoryInv, NEW q \in Queries
  PROVE  QueryIsExact(q) /\ Query(q) \in Seq(Documents)
<1> DEFINE terms == Tokenize(q.terms)
           answer == Query(q)
           Matches(d) == MatchesRepo(d, q) /\ MatchesPath(d, q)
           matches == {d \in ToSet(documents) : Matches(d) /\ Score(d, terms) >= Max({q.min, 1})}
           candidates == UNION {inverted[t] : t \in ToSet(terms) \cap DOMAIN inverted}
           hits == {d \in {documents[i] : i \in candidates \cap DOMAIN documents} :
                      Matches(d) /\ Score(d, terms) > 0 /\ Score(d, terms) >= q.min}
           R == {p \in hits \X hits : Outranks(terms, p[1], p[2])}
<1>1. Len(terms) \in Nat /\ DOMAIN terms = 1 .. Len(terms) /\ q.limit \in Nat /\ q.min \in Nat
  BY MemoriesAssumption, TextTokens
<1>2. Len(documents) \in Nat /\ DOMAIN documents = 1 .. Len(documents)
      /\ ToSet(documents) = {documents[i] : i \in DOMAIN documents}
      /\ ToSet(documents) \subseteq Documents /\ IsFiniteSet(ToSet(documents))
  <2>1. documents \in Seq(Documents)
    BY DEF MemoryInv
  <2>2. Len(documents) \in Nat /\ DOMAIN documents = 1 .. Len(documents)
        /\ \A i \in DOMAIN documents : documents[i] \in Documents
    BY <2>1
  <2>3. IsFiniteSet(DOMAIN documents)
    BY <2>2, FS_Interval
  <2>4. IsFiniteSet({documents[i] : i \in DOMAIN documents})
    <3> DEFINE f == [i \in DOMAIN documents |-> documents[i]]
    <3>1. f \in Surjection(DOMAIN documents, {documents[i] : i \in DOMAIN documents})
      BY DEF Surjection
    <3> HIDE DEF f
    <3> QED
      BY <2>3, <3>1, FS_Surjection
  <2> QED
    BY <2>2, <2>4 DEF ToSet
<1>3. \A d \in ToSet(documents) : Score(d, terms) \in Nat
  BY <1>1, <1>2, ScoreIs
<1>4. \A n \in Nat : n >= Max({q.min, 1}) <=> n > 0 /\ n >= q.min
  <2>1. Max({q.min, 1}) = IF q.min >= 1 THEN q.min ELSE 1
    <3> DEFINE m == IF q.min >= 1 THEN q.min ELSE 1
               P(z) == z \in {q.min, 1} /\ \A y \in {q.min, 1} : z >= y
    <3>1. P(m) /\ \A z : P(z) => z = m
      BY <1>1
    <3>2. (CHOOSE z : P(z)) = m
      <4> HIDE DEF P, m
      <4> QED
        BY <3>1
    <3> QED
      BY <3>2 DEF Max
  <2> QED
    BY <1>1, <2>1
<1>5. hits = matches
  <2>1. ASSUME NEW d \in hits PROVE d \in matches
    BY <1>2, <1>3, <1>4
  <2>2. ASSUME NEW d \in matches PROVE d \in hits
    <3>1. d \in ToSet(documents) /\ Matches(d) /\ Score(d, terms) > 0 /\ Score(d, terms) >= q.min
      BY <1>3, <1>4
    <3>2. PICK i \in DOMAIN documents : d = documents[i]
      BY <1>2, <3>1
    <3>3. PICK k \in DOMAIN terms : terms[k] \in Terms(d)
      <4>1. d \in Documents
        BY <1>2, <3>1
      <4> HIDE DEF terms
      <4> QED
        BY <1>1, <3>1, <4>1, ScoreIs
    <3>4. terms[k] \in DOMAIN inverted /\ i \in inverted[terms[k]]
      BY <3>2, <3>3 DEF MemoryInv, Inverts
    <3>5. terms[k] \in ToSet(terms)
      BY <3>3 DEF ToSet
    <3>6. i \in candidates
      BY <3>4, <3>5
    <3> HIDE DEF candidates, terms, Matches
    <3> QED
      BY <3>1, <3>2, <3>6
  <2> HIDE DEF hits, matches
  <2> QED
    BY <2>1, <2>2
<1>6. hits \subseteq ToSet(documents) /\ IsFiniteSet(hits) /\ Cardinality(hits) \in Nat
  <2>1. hits \in SUBSET ToSet(documents)
    BY <1>5
  <2> HIDE DEF hits
  <2> QED
    BY <1>2, <2>1, FS_Subset, FS_CardinalityType
<1>7. \A d, e \in hits : <<d, e>> \in R <=> Outranks(terms, d, e)
  OBVIOUS
<1>8. Linear(hits, R)
  <2>1. \A d, e \in hits : d.id = e.id => d = e
    <3> SUFFICES ASSUME NEW d \in ToSet(documents), NEW e \in ToSet(documents), d.id = e.id
                 PROVE  d = e
      BY <1>6
    <3> QED
      BY <1>2 DEF MemoryInv, OneEach
  <2>2. \A d \in hits : Score(d, terms) \in Nat /\ d.id \in Nat
    BY <1>2, <1>3, <1>6, MemoriesAssumption
  <2> HIDE DEF hits, R, terms
  <2>3. \A d \in hits : <<d, d>> \notin R
    BY <1>7, <2>2 DEF Outranks
  <2>4. ASSUME NEW d \in hits, NEW e \in hits, d # e PROVE <<d, e>> \in R \/ <<e, d>> \in R
    <3>1. Outranks(terms, d, e) \/ Outranks(terms, e, d)
      <4>1. d.id # e.id /\ d.id \in Nat /\ e.id \in Nat
        BY <2>1, <2>2, <2>4
      <4>2. Score(d, terms) \in Nat /\ Score(e, terms) \in Nat
        BY <2>2
      <4> QED
        BY <4>1, <4>2 DEF Outranks
    <3> QED
      BY <1>7, <3>1
  <2>5. \A c, d, e \in hits : <<c, d>> \in R /\ <<d, e>> \in R => <<c, e>> \in R
    BY <1>7, <2>2 DEF Outranks
  <2> QED
    BY <1>6, <2>3, <2>4, <2>5 DEF Linear
<1> DEFINE all == Ordered(hits, R)
<1>9. Sorted(all, hits, R)
  <2> HIDE DEF hits, R
  <2> QED
    BY <1>8, OrderedIs
<1>10. CASE q.limit = 0 \/ terms = <<>>
  <2>1. answer = <<>>
    BY <1>10 DEF Query
  <2>2. terms = <<>> => hits = {}
    <3> SUFFICES ASSUME terms = <<>> PROVE hits = {}
      OBVIOUS
    <3>1. ToSet(terms) = {}
      BY DEF ToSet
    <3>2. candidates = {}
      BY <3>1
    <3> QED
      BY <3>2
  <2>3. Cardinality({}) = 0
    BY FS_EmptySet
  <2> HIDE DEF terms, answer, hits, matches
  <2>4. Min({q.limit, Cardinality(hits)}) = 0
    <3>1. q.limit = 0 \/ Cardinality(hits) = 0
      BY <1>10, <2>2, <2>3
    <3>2. Min({q.limit, Cardinality(hits)})
            = IF q.limit <= Cardinality(hits) THEN q.limit ELSE Cardinality(hits)
      BY <1>1, <1>6, MinOfTwo
    <3> QED
      BY <1>1, <1>6, <3>1, <3>2
  <2>5. Len(answer) = 0 /\ DOMAIN answer = {} /\ answer \in Seq(Documents) /\ ToSet(answer) = {}
    BY <2>1 DEF ToSet
  <2> QED
    BY <1>5, <2>4, <2>5 DEF QueryIsExact, answer, matches, terms, Matches
<1>11. CASE ~(q.limit = 0 \/ terms = <<>>)
  <2>1. answer = Truncated(all, q.limit)
    BY <1>11 DEF Query
  <2> HIDE DEF all, answer, hits, R, terms
  <2>2. all \in Seq(hits) /\ Len(all) = Cardinality(hits) /\ hits \subseteq Documents
    BY <1>2, <1>6, <1>9 DEF Sorted
  <2>3. /\ answer \in Seq(hits) /\ Len(answer) = Min({q.limit, Len(all)})
        /\ Len(answer) \in 0 .. Len(all) /\ \A k \in 1 .. Len(answer) : answer[k] = all[k]
    BY <1>1, <2>1, <2>2, TruncatedIs
  <2>4. answer \in Seq(Documents) /\ DOMAIN answer = 1 .. Len(answer) /\ Len(answer) \in Nat
        /\ \A k \in DOMAIN answer : answer[k] \in hits
    <3>1. DOMAIN answer = 1 .. Len(answer) /\ \A k \in DOMAIN answer : answer[k] \in hits
      BY <2>3
    <3>2. answer \in Seq(Documents)
      BY <2>2, <2>3
    <3>3. Len(answer) \in Nat
      BY <2>3
    <3> QED
      BY <3>1, <3>2, <3>3
  <2>5. Len(answer) = Min({q.limit, Cardinality(matches)}) /\ ToSet(answer) \subseteq matches
    BY <1>5, <2>2, <2>3, <2>4 DEF ToSet
  <2>6. ASSUME NEW i \in DOMAIN answer, NEW d \in matches \ {answer[j] : j \in 1 .. i}
        PROVE  Outranks(terms, answer[i], d)
    <3>1. PICK k \in 1 .. Len(all) : all[k] = d
      <4>1. d \in hits
        BY <1>5
      <4> HIDE DEF matches
      <4> QED
        BY <1>8, <1>9, <4>1, AllInOrder
    <3>2. i \in 1 .. Len(all) /\ answer[i] = all[i] /\ i < k
      <4>1. i \in 1 .. Len(answer) /\ i \in 1 .. Len(all) /\ Len(all) \in Nat
        BY <2>2, <2>3, <2>4
      <4>2. ASSUME k <= i PROVE FALSE
        <5>1. k \in 1 .. i /\ k \in 1 .. Len(answer)
          BY <4>1, <4>2
        <5>2. answer[k] = d
          BY <2>3, <3>1, <5>1
        <5> QED
          BY <2>6, <5>1, <5>2
      <4>3. k \in Int /\ i \in Int
        BY <4>1
      <4>4. i < k
        BY <4>2, <4>3
      <4>5. answer[i] = all[i]
        BY <2>3, <4>1
      <4> QED
        BY <4>1, <4>4, <4>5
    <3>3. <<all[i], all[k]>> \in R
      BY <1>9, <3>2 DEF Sorted
    <3> QED
      BY <1>5, <1>7, <2>4, <3>1, <3>2, <3>3
  <2> QED
    BY <2>4, <2>5, <2>6 DEF QueryIsExact, answer, matches, terms, Matches
<1> QED
  BY <1>10, <1>11

\* Attempts that failed are told with the newest first.
LEMMA AttemptsAre ==
  ASSUME MemoryInv, NEW t
  PROVE  LET failed == FailedAttemptsForTask(t)
         IN  /\ failed \in Seq(Runs)
             /\ \A j, k \in DOMAIN failed : j < k => failed[j].at >= failed[k].at
<1> DEFINE P == {j \in DOMAIN episodes : episodes[j].task = t}
           B == Newer(Runs)
           found == EpisodesForTask(t)
           F == {j \in DOMAIN found : found[j].outcome \in {"failure", "blocked"}}
           failed == FailedAttemptsForTask(t)
<1>1. Picked(episodes, P) \in Seq(Runs)
  <2>1. episodes \in Seq(Runs) /\ P \in SUBSET DOMAIN episodes
    BY DEF MemoryInv
  <2> HIDE DEF P
  <2> QED
    BY <2>1, PickedIs
<1>2. \A d, e \in Runs : d.at \in Nat /\ (<<d, e>> \in B <=> d.at > e.at)
  BY MemoriesAssumption DEF Newer
<1>3. Weak(Runs, B)
  <2> HIDE DEF B
  <2>1. \A x, y \in Runs : <<x, y>> \in B => <<y, x>> \notin B
    BY <1>2
  <2>2. ASSUME NEW x \in Runs, NEW y \in Runs, NEW z \in Runs, <<x, z>> \in B
        PROVE  <<x, y>> \in B \/ <<y, z>> \in B
    <3>1. x.at \in Nat /\ y.at \in Nat /\ z.at \in Nat /\ x.at > z.at
      BY <1>2, <2>2
    <3>2. x.at > y.at \/ y.at > z.at
      BY <3>1
    <3> QED
      BY <1>2, <3>2
  <2> QED
    BY <2>1, <2>2 DEF Weak
<1>4. found = Ranked(Picked(episodes, P), B)
  BY DEF EpisodesForTask
<1> HIDE DEF P, B, found
<1>5. found \in Seq(Runs) /\ \A j, k \in DOMAIN found : j < k => <<found[k], found[j]>> \notin B
  BY <1>1, <1>3, <1>4, RankedIs
<1>6. failed = Picked(found, F)
  BY DEF FailedAttemptsForTask, found, F
<1>7. F \in SUBSET DOMAIN found
  BY DEF F
<1> HIDE DEF F, failed
<1>8. /\ failed \in Seq(Runs)
      /\ \E place \in [DOMAIN failed -> F] :
           /\ \A k \in DOMAIN failed : failed[k] = found[place[k]]
           /\ \A j, k \in DOMAIN failed : j < k => place[j] < place[k]
  BY <1>5, <1>6, <1>7, PickedIs
<1>9. ASSUME NEW j \in DOMAIN failed, NEW k \in DOMAIN failed, j < k
      PROVE  failed[j].at >= failed[k].at
  <2>1. PICK place \in [DOMAIN failed -> F] :
           /\ \A n \in DOMAIN failed : failed[n] = found[place[n]]
           /\ \A m, n \in DOMAIN failed : m < n => place[m] < place[n]
    BY <1>8
  <2>2. place[j] \in DOMAIN found /\ place[k] \in DOMAIN found /\ place[j] < place[k]
    BY <1>7, <1>9, <2>1
  <2>3. <<failed[k], failed[j]>> \notin B /\ failed[k] \in Runs /\ failed[j] \in Runs
    BY <1>5, <2>1, <2>2
  <2>4. ~(failed[k].at > failed[j].at) /\ failed[k].at \in Nat /\ failed[j].at \in Nat
    BY <1>2, <2>3
  <2> QED
    BY <2>4
<1> QED
  BY <1>8, <1>9 DEF failed

LEMMA DecisionsAre ==
  ASSUME MemoryInv, NEW query, IsText(query), NEW limit \in Nat
  PROVE  QueryDecisions(query, limit) \in Seq(Designs)
<1> DEFINE terms == Tokenize(query)
           Found(d) == Cardinality({k \in DOMAIN terms : terms[k] \in ToSet(Tokenize(d.text))})
           P == {j \in DOMAIN decisions : Found(decisions[j]) > 0}
           B == {p \in Designs \X Designs :
                   \/ Found(p[1]) > Found(p[2])
                   \/ Found(p[1]) = Found(p[2]) /\ p \in Newer(Designs)}
<1>1. \A d : Found(d) \in Nat
  <2> TAKE d
  <2>1. IsFiniteSet(DOMAIN terms)
    BY TextTokens, FS_Interval
  <2>2. IsFiniteSet({k \in DOMAIN terms : terms[k] \in ToSet(Tokenize(d.text))})
    <3> HIDE DEF terms
    <3> QED
      BY <2>1, FS_Subset
  <2> QED
    BY <2>2, FS_CardinalityType
<1>2. \A d, e \in Designs : d.at \in Nat /\
         (<<d, e>> \in B <=> Found(d) > Found(e) \/ (Found(d) = Found(e) /\ d.at > e.at))
  <2> HIDE DEF Found
  <2> QED
    BY MemoriesAssumption DEF Newer
<1>3. Weak(Designs, B)
  <2> HIDE DEF B, Found
  <2>1. \A x, y \in Designs : <<x, y>> \in B => <<y, x>> \notin B
    BY <1>1, <1>2
  <2>2. ASSUME NEW x \in Designs, NEW y \in Designs, NEW z \in Designs, <<x, z>> \in B
        PROVE  <<x, y>> \in B \/ <<y, z>> \in B
    <3> DEFINE More(d, e) == Found(d) > Found(e) \/ (Found(d) = Found(e) /\ d.at > e.at)
    <3>1. /\ x.at \in Nat /\ y.at \in Nat /\ z.at \in Nat
          /\ Found(x) \in Nat /\ Found(y) \in Nat /\ Found(z) \in Nat
      BY <1>1, <1>2
    <3>2. More(x, z)
      BY <1>2, <2>2
    <3>3. More(x, y) \/ More(y, z)
      BY <3>1, <3>2
    <3> QED
      BY <1>2, <3>3
  <2> QED
    BY <2>1, <2>2 DEF Weak
<1>4. Picked(decisions, P) \in Seq(Designs)
  <2>1. decisions \in Seq(Designs) /\ P \in SUBSET DOMAIN decisions
    BY DEF MemoryInv
  <2> HIDE DEF P
  <2> QED
    BY <2>1, PickedIs
<1>5. Ranked(Picked(decisions, P), B) \in Seq(Designs)
  <2> HIDE DEF P, B
  <2> QED
    BY <1>3, <1>4, RankedIs
<1>6. Truncated(Ranked(Picked(decisions, P), B), limit) \in Seq(Designs)
  <2> HIDE DEF P, B
  <2> QED
    BY <1>5, TruncatedIs
<1>7. QueryDecisions(query, limit)
        = IF terms = <<>> \/ limit = 0 THEN <<>> ELSE Truncated(Ranked(Picked(decisions, P), B), limit)
  BY DEF QueryDecisions
<1> HIDE DEF terms, P, B
<1> QED
  BY <1>6, <1>7

-----------------------------------------------------------------------------
\* The packing of a context.
Sections == Documents \cup Runs \cup Designs

LEMMA SectionsAre == \A s \in Sections : s.size \in Nat
BY MemoriesAssumption DEF Sections

\* A section that is added adds its size.
LEMMA TokensAppended ==
  ASSUME NEW s \in Seq(Sections), NEW x \in Sections
  PROVE  Tokens(s) \in Nat /\ Tokens(Append(s, x)) = Tokens(s) + x.size
<1> DEFINE Block(t, k) == {k} \X (1 .. t[k].size)
           Blocks(t) == {Block(t, k) : k \in DOMAIN t}
           n == Len(s) + 1
           t == Append(s, x)
           new == {n} \X (1 .. x.size)
<1>1. /\ Len(s) \in Nat /\ DOMAIN s = 1 .. Len(s) /\ DOMAIN t = 1 .. n
      /\ t[n] = x /\ \A k \in DOMAIN s : t[k] = s[k] /\ s[k] \in Sections
  OBVIOUS
<1>2. IsFiniteSet(UNION Blocks(s))
  <2>1. IsFiniteSet(DOMAIN s)
    BY <1>1, FS_Interval
  <2>2. IsFiniteSet(Blocks(s))
    <3> DEFINE f == [k \in DOMAIN s |-> Block(s, k)]
    <3>1. f \in Surjection(DOMAIN s, Blocks(s))
      BY DEF Surjection
    <3> HIDE DEF f, Blocks
    <3> QED
      BY <2>1, <3>1, FS_Surjection
  <2>3. \A B \in Blocks(s) : IsFiniteSet(B)
    <3> SUFFICES ASSUME NEW k \in DOMAIN s PROVE IsFiniteSet(Block(s, k))
      OBVIOUS
    <3>1. s[k].size \in Nat
      BY <1>1, SectionsAre
    <3>2. IsFiniteSet({k}) /\ IsFiniteSet(1 .. s[k].size)
      <4>1. 1 \in Int /\ s[k].size \in Int
        BY <3>1
      <4> QED
        BY <4>1, FS_Interval, FS_Singleton
    <3> QED
      BY <3>2, FS_Product
  <2> HIDE DEF Blocks
  <2> QED
    BY <2>2, <2>3, FS_UNION
<1>3. IsFiniteSet(new) /\ Cardinality(new) = x.size
  <2>1. x.size \in Nat
    BY SectionsAre
  <2>2. IsFiniteSet({n}) /\ Cardinality({n}) = 1
    BY FS_Singleton
  <2>3. IsFiniteSet(1 .. x.size) /\ Cardinality(1 .. x.size) = x.size
    <3>1. 1 \in Int /\ x.size \in Int
      BY <2>1
    <3>2. IsFiniteSet(1 .. x.size)
          /\ Cardinality(1 .. x.size) = IF 1 > x.size THEN 0 ELSE x.size - 1 + 1
      BY <3>1, FS_Interval
    <3> QED
      BY <2>1, <3>2
  <2>4. Cardinality(new) = Cardinality({n}) * Cardinality(1 .. x.size)
    <3> HIDE DEF n
    <3> QED
      BY <2>2, <2>3, FS_Product
  <2> QED
    BY <2>1, <2>2, <2>3, <2>4, FS_Product
<1>4. UNION Blocks(t) = (UNION Blocks(s)) \cup new
  <2>1. \A k \in DOMAIN s : Block(t, k) = Block(s, k)
    BY <1>1
  <2>2. Block(t, n) = new
    BY <1>1
  <2>3. DOMAIN t = DOMAIN s \cup {n}
    BY <1>1
  <2> HIDE DEF Block, new, t, n
  <2> QED
    BY <2>1, <2>2, <2>3
<1>5. (UNION Blocks(s)) \cap new = {}
  <2> SUFFICES ASSUME NEW k \in DOMAIN s, NEW p \in Block(s, k), p \in new PROVE FALSE
    OBVIOUS
  <2>1. p[1] = k /\ p[1] = n
    OBVIOUS
  <2>2. k # n
    BY <1>1
  <2> QED
    BY <2>1, <2>2
<1>6. Tokens(s) = Cardinality(UNION Blocks(s)) /\ Tokens(t) = Cardinality(UNION Blocks(t))
  BY DEF Tokens
<1> HIDE DEF Blocks, new, t
<1>7. Cardinality((UNION Blocks(s)) \cup new)
        = Cardinality(UNION Blocks(s)) + Cardinality(new)
  <2>1. Cardinality({}) = 0
    BY FS_EmptySet
  <2>2. Cardinality((UNION Blocks(s)) \cup new)
          = Cardinality(UNION Blocks(s)) + Cardinality(new) - Cardinality((UNION Blocks(s)) \cap new)
    BY <1>2, <1>3, FS_Union
  <2>3. Cardinality(UNION Blocks(s)) \in Nat /\ Cardinality(new) \in Nat
    BY <1>2, <1>3, FS_CardinalityType
  <2>4. Cardinality((UNION Blocks(s)) \cap new) = 0
    BY <1>5, <2>1
  <2> QED
    BY <2>2, <2>3, <2>4
<1>8. Cardinality(UNION Blocks(s)) \in Nat
  BY <1>2, FS_CardinalityType
<1> QED
  BY <1>3, <1>4, <1>6, <1>7, <1>8 DEF t

\* What has been packed of the first n sections offered.
Packing(p, offered, n, budget) ==
  /\ p = [sections |-> p.sections, tokens |-> p.tokens, truncated |-> p.truncated]
  /\ p.sections \in Seq(Sections) /\ Len(p.sections) <= n
  /\ p.tokens = Tokens(p.sections) /\ p.tokens <= budget
  /\ p.truncated \in BOOLEAN /\ (p.truncated <=> Len(p.sections) < n)
  /\ \A k \in 1 .. n :
       offered[k] \in ToSet(p.sections) \/ p.tokens + offered[k].size > budget

LEMMA AppendSectionOK ==
  ASSUME NEW offered \in Seq(Sections), NEW n \in Nat, n + 1 <= Len(offered), NEW budget \in Nat,
         NEW p, Packing(p, offered, n, budget)
  PROVE  Packing(AppendSection(p, offered[n + 1], budget), offered, n + 1, budget)
<1> DEFINE x == offered[n + 1]
           q == AppendSection(p, x, budget)
<1>1. x \in Sections /\ x.size \in Nat /\ \A k \in 1 .. n + 1 : offered[k] \in Sections /\ offered[k].size \in Nat
  <2>1. \A k \in 1 .. n + 1 : k \in 1 .. Len(offered)
    OBVIOUS
  <2> QED
    BY <2>1, SectionsAre
<1>2. /\ p.sections \in Seq(Sections) /\ Len(p.sections) <= n /\ Len(p.sections) \in Nat
      /\ p.tokens = Tokens(p.sections) /\ p.tokens <= budget /\ p.tokens \in Nat
      /\ p.truncated \in BOOLEAN /\ (p.truncated <=> Len(p.sections) < n)
      /\ p = [sections |-> p.sections, tokens |-> p.tokens, truncated |-> p.truncated]
      /\ \A k \in 1 .. n : offered[k] \in ToSet(p.sections) \/ p.tokens + offered[k].size > budget
  BY <1>1, TokensAppended DEF Packing
<1>3. CASE p.tokens + x.size > budget
  <2>1. q = [sections |-> p.sections, tokens |-> p.tokens, truncated |-> TRUE]
    BY <1>2, <1>3 DEF AppendSection
  <2>2. \A k \in 1 .. n + 1 : k \in 1 .. n \/ k = n + 1
    OBVIOUS
  <2> HIDE DEF q
  <2> QED
    BY <1>2, <1>3, <2>1, <2>2 DEF Packing, q
<1>4. CASE ~(p.tokens + x.size > budget)
  <2>1. q = [sections |-> Append(p.sections, x), tokens |-> p.tokens + x.size, truncated |-> p.truncated]
    BY <1>2, <1>4 DEF AppendSection
  <2> DEFINE more == Append(p.sections, x)
  <2>2. more \in Seq(Sections) /\ Len(more) = Len(p.sections) + 1
    BY <1>1, <1>2
  <2>3. ToSet(more) = ToSet(p.sections) \cup {x}
    <3>1. /\ DOMAIN p.sections = 1 .. Len(p.sections) /\ DOMAIN more = 1 .. Len(p.sections) + 1
          /\ more[Len(p.sections) + 1] = x /\ \A k \in DOMAIN p.sections : more[k] = p.sections[k]
      BY <1>1, <1>2
    <3>2. DOMAIN more = DOMAIN p.sections \cup {Len(p.sections) + 1}
      BY <1>2, <3>1
    <3> HIDE DEF more
    <3> QED
      BY <3>1, <3>2 DEF ToSet
  <2>4. Tokens(more) = p.tokens + x.size
    BY <1>1, <1>2, TokensAppended
  <2> HIDE DEF more, x
  <2>5. \A k \in 1 .. n + 1 :
          offered[k] \in ToSet(more) \/ p.tokens + x.size + offered[k].size > budget
    <3> SUFFICES ASSUME NEW k \in 1 .. n + 1, offered[k] \notin ToSet(more)
                 PROVE  p.tokens + x.size + offered[k].size > budget
      OBVIOUS
    <3>1. k \in 1 .. n
      BY <2>3 DEF x
    <3>2. p.tokens + offered[k].size > budget /\ offered[k].size \in Nat
      BY <1>1, <1>2, <2>3, <3>1
    <3> QED
      BY <1>1, <1>2, <3>2
  <2>6. p.truncated <=> Len(more) < n + 1
    BY <1>2, <2>2
  <2>7. Len(more) <= n + 1 /\ p.tokens + x.size <= budget
    BY <1>1, <1>2, <1>4, <2>2
  <2> HIDE DEF q
  <2> QED
    BY <1>2, <2>1, <2>2, <2>4, <2>5, <2>6, <2>7 DEF Packing, q, x, more
<1> QED
  BY <1>3, <1>4

\* So packing all that is offered keeps it: the recursion of Pack goes by Induction.
LEMMA PackIs ==
  ASSUME NEW b \in Budgets, NEW docs, NEW eps, NEW decs,
         Offered(b, docs, eps, decs) \in Seq(Sections)
  PROVE  LET offered == Offered(b, docs, eps, decs)
         IN  Packing(Pack(b, docs, eps, decs), offered, Len(offered), Budget(b))
<1> DEFINE offered == Offered(b, docs, eps, decs)
           L == Len(offered)
           none == [sections |-> <<>>, tokens |-> 0, truncated |-> FALSE]
           Body(g, n) == IF n = 0 THEN none ELSE AppendSection(g[n - 1], offered[n], Budget(b))
           Fits(g, m) == DOMAIN g = 0 .. m /\ g = [n \in 0 .. m |-> Body(g, n)]
           packed == CHOOSE g : g = [n \in 0 .. Len(offered) |->
                       IF n = 0 THEN [sections |-> <<>>, tokens |-> 0, truncated |-> FALSE]
                       ELSE AppendSection(g[n - 1], offered[n], Budget(b))]
<1>1. offered \in Seq(Sections) /\ L \in Nat
  OBVIOUS
<1>2. Pack(b, docs, eps, decs) = packed[L]
  BY DEF Pack
<1> HIDE DEF offered
<1>3. \E g : g = [n \in 0 .. L |-> Body(g, n)]
  <2> DEFINE P == {m \in Nat : \E g : Fits(g, m)}
  <2>1. 0 \in P
    <3>1. Fits([n \in 0 .. 0 |-> none], 0)
      OBVIOUS
    <3> QED
      BY <3>1
  <2>2. ASSUME NEW m \in Nat, m \in P PROVE m + 1 \in P
    <3>1. PICK g : Fits(g, m)
      BY <2>2
    <3> DEFINE h == [n \in 0 .. m + 1 |-> IF n = m + 1 THEN Body(g, n) ELSE g[n]]
    <3>2. ASSUME NEW n \in 0 .. m + 1 PROVE h[n] = Body(h, n)
      <4>1. n # 0 => n - 1 \in 0 .. m /\ n - 1 # m + 1
        OBVIOUS
      <4>2. Body(h, n) = Body(g, n)
        BY <4>1
      <4>3. n # m + 1 => g[n] = Body(g, n)
        <5> HIDE DEF Body
        <5> QED
          BY <3>1
      <4> QED
        BY <4>2, <4>3
    <3>3. DOMAIN h = 0 .. m + 1 /\ h = [n \in 0 .. m + 1 |-> h[n]]
      OBVIOUS
    <3>4. h = [n \in 0 .. m + 1 |-> Body(h, n)]
      <4> HIDE DEF h, Body
      <4> QED
        BY <3>2, <3>3
    <3>5. Fits(h, m + 1)
      <4> HIDE DEF h, Body
      <4> QED
        BY <3>3, <3>4
    <3> HIDE DEF h, Fits
    <3> QED
      BY <3>5
  <2> HIDE DEF P, Fits
  <2>3. Nat \subseteq P
    BY <2>1, <2>2, Induction
  <2>4. L \in P
    BY <1>1, <2>3
  <2> QED
    BY <2>4 DEF P, Fits
<1>4. packed = [n \in 0 .. L |-> Body(packed, n)]
  BY <1>3
<1> HIDE DEF packed
<1>5. Budget(b) \in Nat
  BY MemoriesAssumption DEF Budget
<1>6. Tokens(<<>>) = 0
  <2>1. UNION {{k} \X (1 .. <<>>[k].size) : k \in DOMAIN <<>>} = {}
    OBVIOUS
  <2> QED
    BY <2>1, FS_EmptySet DEF Tokens
<1> DEFINE Q == {n \in Nat : n <= L => Packing(packed[n], offered, n, Budget(b))}
<1>7. 0 \in Q
  <2>1. packed[0] = none
    BY <1>1, <1>4
  <2>2. Packing(none, offered, 0, Budget(b))
    BY <1>5, <1>6 DEF Packing
  <2> HIDE DEF none
  <2> QED
    BY <2>1, <2>2
<1>8. ASSUME NEW n \in Nat, n \in Q PROVE n + 1 \in Q
  <2> SUFFICES ASSUME n + 1 <= L PROVE Packing(packed[n + 1], offered, n + 1, Budget(b))
    OBVIOUS
  <2>1. Packing(packed[n], offered, n, Budget(b))
    BY <1>1, <1>8
  <2>2. packed[n + 1] = AppendSection(packed[n], offered[n + 1], Budget(b))
    <3>1. n + 1 \in 0 .. L /\ n + 1 # 0 /\ n + 1 - 1 = n
      BY <1>1
    <3>2. packed[n + 1] = Body(packed, n + 1)
      <4> HIDE DEF Body
      <4> QED
        BY <1>4, <3>1
    <3> QED
      BY <3>1, <3>2
  <2>3. Packing(AppendSection(packed[n], offered[n + 1], Budget(b)), offered, n + 1, Budget(b))
    BY <1>1, <1>5, <2>1, AppendSectionOK
  <2> QED
    BY <2>2, <2>3
<1>9. L \in Q
  <2> HIDE DEF Q
  <2> QED
    BY <1>1, <1>7, <1>8, Induction
<1> QED
  BY <1>1, <1>2, <1>9 DEF offered

\* RetrievalIsExact, for any documents, attempts, decisions, queries and budgets:
\* what is remembered of a repository is found again, whatever was replaced and
\* removed in between, and a prompt keeps to its budget (RepositoryIndex,
\* AgentMemoryStore, ContextPacker::pack).
THEOREM RetrievalStaysExact == MemorySpec => []RetrievalIsExact
<1>1. MemoryInit => MemoryInv
  <2> SUFFICES ASSUME MemoryInit PROVE MemoryInv
    OBVIOUS
  <2>1. documents = <<>> /\ inverted = <<>> /\ episodes = <<>> /\ decisions = <<>>
    BY DEF MemoryInit
  <2>2. \A S : <<>> \in Seq(S)
    OBVIOUS
  <2> QED
    BY <2>1, <2>2 DEF MemoryInv, OneEach, Inverts
<1>2. MemoryInv => RetrievalIsExact
  <2> SUFFICES ASSUME MemoryInv PROVE RetrievalIsExact
    OBVIOUS
  <2>1. ASSUME NEW b \in Budgets, NEW q \in Queries, NEW t PROVE PackIsExact(b, q, t)
    <3> DEFINE docs == Query(q)
               eps == FailedAttemptsForTask(t)
               decs == QueryDecisions(q.terms, q.limit)
               offered == Offered(b, docs, eps, decs)
               packed == Pack(b, docs, eps, decs)
    <3>1. docs \in Seq(Documents) /\ eps \in Seq(Runs) /\ decs \in Seq(Designs)
      BY QueryIs, AttemptsAre, DecisionsAre, MemoriesAssumption
    <3>2. b.documents \in Nat /\ b.episodes \in Nat /\ b.decisions \in Nat
      BY MemoriesAssumption
    <3> HIDE DEF docs, eps, decs
    <3>3. /\ Truncated(docs, b.documents) \in Seq(Documents)
          /\ Truncated(eps, b.episodes) \in Seq(Runs)
          /\ Truncated(decs, b.decisions) \in Seq(Designs)
      BY <3>1, <3>2, TruncatedIs
    <3>4. offered \in Seq(Sections)
      <4>1. Seq(Documents) \subseteq Seq(Sections) /\ Seq(Runs) \subseteq Seq(Sections)
            /\ Seq(Designs) \subseteq Seq(Sections)
        BY DEF Sections
      <4> QED
        BY <3>3, <4>1 DEF Offered
    <3>5. Packing(packed, offered, Len(offered), Budget(b))
      BY <3>4, PackIs
    <3> HIDE DEF offered, packed
    <3>6. \A s \in ToSet(offered) \ ToSet(packed.sections) : packed.tokens + s.size > Budget(b)
      <4> SUFFICES ASSUME NEW k \in DOMAIN offered, offered[k] \notin ToSet(packed.sections)
                   PROVE  packed.tokens + offered[k].size > Budget(b)
        BY DEF ToSet
      <4> QED
        BY <3>4, <3>5 DEF Packing
    <3> QED
      BY <3>5, <3>6 DEF PackIsExact, Packing, docs, eps, decs, offered, packed
  <2>2. \A q \in Queries : QueryIsExact(q)
    BY QueryIs
  <2>3. \A j, k \in DOMAIN decisions : decisions[j].id = decisions[k].id => j = k
    BY DEF MemoryInv, OneEach
  <2>4. ASSUME NEW t
        PROVE  LET failed == FailedAttemptsForTask(t)
               IN  \A j, k \in DOMAIN failed : j < k => failed[j].at >= failed[k].at
    BY AttemptsAre
  <2> QED
    BY <2>1, <2>2, <2>3, <2>4 DEF RetrievalIsExact
<1> QED
  BY <1>1, <1>2, MemoryOK, PTL DEF MemorySpec
=============================================================================
