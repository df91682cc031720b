----------------------- MODULE CheckpointRunnerProofs -----------------------
(***************************************************************************)
(* For every graph that compiles, any number of runs, threads and          *)
(* iterations: what is stored is always a walk of the graph, a stopped run *)
(* loses at most one executed node, and answers are durable.               *)
(***************************************************************************)
EXTENDS CheckpointRunner, TLAPS, SequenceTheorems

StoreFacts == INSTANCE MemoryCheckpointerProofs
                WITH NodeNames <- Names, SavedState <- AgentState

USE DEF Store!Stored

-----------------------------------------------------------------------------
\* The inductive invariant: CheckpointsAreWalks, BoundedLoss and
\* AnswersAreDurable, split into what they say of one run, with the fact that
\* ties a run to the store: the id it remembers was drawn before now, so that
\* no later checkpoint takes its place.

WalkOK(st, node) == IsWalk(st.path, node) /\ st.iteration = Len(st.path)

StoredWalks == \A id \in Store!Stored : WalkOK(checkpoints[id].st, checkpoints[id].node)

RunLoss(r, run) ==
  EveryNode[r] =>
    /\ run.phase = "exec" => run.saved # 0
    /\ run.phase \in {"top", "exec"} /\ run.saved \in Store!Stored =>
         \/ checkpoints[run.saved].st.path = run.st.path
         \/ /\ run.phase = "top" /\ Len(run.st.path) > 0
            /\ checkpoints[run.saved].st.path = SubSeq(run.st.path, 1, Len(run.st.path) - 1)

RunAnswer(run) ==
  run.outcome \in {"completed", "limit"} =>
    /\ run.saved # 0
    /\ run.saved \in Store!Stored =>
         checkpoints[run.saved] = [thread |-> run.thread, node |-> run.node, st |-> run.st]

RunOK(r, run) ==
  /\ run \in Run
  /\ run.saved <= lastId
  /\ WalkOK(run.st, run.node)
  /\ run.phase \in {"idle", "top", "exec"} => run.outcome = "none"
  /\ run.phase = "idle" => run.saved = 0 /\ run.iters = 0
  /\ run.phase = "exec" => run.node \in Nodes /\ run.iters < MaxIterations
  /\ RunLoss(r, run)
  /\ RunAnswer(run)

IndInv ==
  /\ Store!StoreTypeOK
  /\ Store!StoreInv
  /\ StoredWalks
  /\ DOMAIN runs = Runs
  /\ runs = [r \in Runs |-> runs[r]]
  /\ \A r \in Runs : RunOK(r, runs[r])

-----------------------------------------------------------------------------
\* What the steps of the store do, from the proofs about the store.

LEMMA SaveStep ==
  ASSUME Store!StoreTypeOK, Store!StoreInv, NEW cp \in Store!Checkpoint, Store!Save(cp)
  PROVE  /\ Store!StoreTypeOK' /\ Store!StoreInv'
         /\ lastId \in Nat /\ lastId' = lastId + 1
         /\ lastId' \notin Store!Stored
         /\ Store!Stored' = Store!Stored \cup {lastId'}
         /\ checkpoints'[lastId'] = cp
         /\ \A id \in Store!Stored : checkpoints'[id] = checkpoints[id]
<1>1. Store!StoreTypeOK' /\ Store!StoreInv'
  BY StoreFacts!SaveKeeps
  DEF StoreFacts!StoreTypeOK, StoreFacts!StoreInv, StoreFacts!Checkpoint, StoreFacts!Save,
      StoreFacts!Stored, StoreFacts!ListsAreSound, StoreFacts!ListsAreComplete,
      StoreFacts!ListsAreOrdered, StoreFacts!ToSet,
      Store!StoreTypeOK, Store!StoreInv, Store!Checkpoint, Store!Save,
      Store!ListsAreSound, Store!ListsAreComplete, Store!ListsAreOrdered, Store!ToSet
<1>2. lastId \in Nat /\ lastId' = lastId + 1 /\ lastId' \notin Store!Stored
  BY DEF Store!Save, Store!StoreTypeOK
<1> QED
  BY <1>1, <1>2 DEF Store!Save

LEMMA DeletionStep ==
  ASSUME Store!StoreTypeOK, Store!StoreInv, Deletion
  PROVE  /\ Store!StoreTypeOK' /\ Store!StoreInv'
         /\ lastId' = lastId
         /\ Store!Stored' \subseteq Store!Stored
         /\ \A id \in Store!Stored' : checkpoints'[id] = checkpoints[id]
<1>1. ASSUME NEW id \in Store!Stored, Store!Delete(id)
      PROVE  /\ Store!StoreTypeOK' /\ Store!StoreInv'
             /\ lastId' = lastId
             /\ Store!Stored' \subseteq Store!Stored
             /\ \A x \in Store!Stored' : checkpoints'[x] = checkpoints[x]
  <2>1. Store!StoreTypeOK' /\ Store!StoreInv'
    BY <1>1, StoreFacts!DeleteKeeps
    DEF StoreFacts!StoreTypeOK, StoreFacts!StoreInv, StoreFacts!Checkpoint, StoreFacts!Delete,
        StoreFacts!Stored, StoreFacts!ListsAreSound, StoreFacts!ListsAreComplete,
        StoreFacts!ListsAreOrdered, StoreFacts!ToSet, StoreFacts!Retain, StoreFacts!Forget,
        StoreFacts!RemoveAt,
        Store!StoreTypeOK, Store!StoreInv, Store!Checkpoint, Store!Delete,
        Store!ListsAreSound, Store!ListsAreComplete, Store!ListsAreOrdered, Store!ToSet,
        Store!Retain, Store!Forget, Store!RemoveAt
  <2> QED
    BY <1>1, <2>1 DEF Store!Delete, Store!Forget
<1>2. ASSUME NEW t \in Threads, Store!DeleteThread(t)
      PROVE  /\ Store!StoreTypeOK' /\ Store!StoreInv'
             /\ lastId' = lastId
             /\ Store!Stored' \subseteq Store!Stored
             /\ \A x \in Store!Stored' : checkpoints'[x] = checkpoints[x]
  <2>1. Store!StoreTypeOK' /\ Store!StoreInv'
    BY <1>2, StoreFacts!DeleteThreadKeeps
    DEF StoreFacts!StoreTypeOK, StoreFacts!StoreInv, StoreFacts!Checkpoint, StoreFacts!DeleteThread,
        StoreFacts!Stored, StoreFacts!ListsAreSound, StoreFacts!ListsAreComplete,
        StoreFacts!ListsAreOrdered, StoreFacts!ToSet, StoreFacts!Forget,
        Store!StoreTypeOK, Store!StoreInv, Store!Checkpoint, Store!DeleteThread,
        Store!ListsAreSound, Store!ListsAreComplete, Store!ListsAreOrdered, Store!ToSet,
        Store!Forget
  <2> QED
    BY <1>2, <2>1 DEF Store!DeleteThread, Store!Forget
<1> QED
  BY <1>1, <1>2 DEF Deletion

\* A run that does not move stays as it should be, whatever is saved or deleted.
LEMMA OthersStayOK ==
  ASSUME NEW r \in Runs, NEW run, RunOK(r, run), lastId \in Nat, lastId' \in Nat, lastId <= lastId',
         \A id \in Store!Stored' : id <= lastId => id \in Store!Stored /\ checkpoints'[id] = checkpoints[id]
  PROVE  RunOK(r, run)'
BY DEF RunOK, RunLoss, RunAnswer, Run

-----------------------------------------------------------------------------
\* Steps of one run.

\* Executing a node extends a walk by that node and leads to a successor.
LEMMA WalkExtends ==
  ASSUME NEW path \in Seq(Nodes), NEW node \in Nodes, IsWalk(path, node),
         NEW out \in Outputs[node], NEW next \in Successors(node, out)
  PROVE  /\ Append(path, node) \in Seq(Nodes)
         /\ Len(Append(path, node)) = Len(path) + 1
         /\ IsWalk(Append(path, node), next)
         /\ next \in Names
<1> DEFINE longer == Append(path, node)
<1>0. next \in After(node)
  BY DEF After
<1>1. next \in Names
  BY <1>0 DEF Names
<1>2. /\ Len(path) \in Nat
      /\ longer \in Seq(Nodes) /\ Len(longer) = Len(path) + 1 /\ longer # <<>>
      /\ \A i \in 1 .. Len(path) : longer[i] = path[i]
      /\ longer[Len(path) + 1] = node
  BY AppendProperties, LenProperties
<1> HIDE DEF longer
<1>3. longer[1] = Entry
  <2>1. CASE path = <<>>
    BY <2>1, <1>2, EmptySeq DEF IsWalk
  <2>2. CASE path # <<>>
    <3>1. 1 \in 1 .. Len(path)
      BY <2>2, <1>2, EmptySeq
    <3> QED
      BY <2>2, <3>1, <1>2 DEF IsWalk
  <2> QED
    BY <2>1, <2>2
<1>4. ASSUME NEW i \in 1 .. Len(longer) - 1
      PROVE  longer[i + 1] \in After(longer[i])
  <2>0. path # <<>>
    BY <1>2, EmptySeq
  <2>1. CASE i < Len(path)
    <3>1. i \in 1 .. Len(path) - 1 /\ i \in 1 .. Len(path) /\ i + 1 \in 1 .. Len(path)
      BY <2>1, <1>2
    <3>2. path[i + 1] \in After(path[i])
      BY <3>1, <2>0 DEF IsWalk
    <3> QED
      BY <3>1, <3>2, <1>2
  <2>2. CASE i = Len(path)
    <3>1. i \in 1 .. Len(path)
      BY <2>2, <1>2
    <3>2. node \in After(path[Len(path)])
      BY <2>0 DEF IsWalk
    <3> QED
      BY <2>2, <3>1, <3>2, <1>2
  <2> QED
    BY <2>1, <2>2, <1>2
<1>5. next \in After(longer[Len(longer)])
  BY <1>0, <1>2
<1>6. IsWalk(longer, next)
  BY <1>2, <1>3, <1>4, <1>5 DEF IsWalk
<1> QED
  BY <1>1, <1>2, <1>6 DEF longer

\* A step of run r that leaves the store alone.
LEMMA RunStep ==
  ASSUME IndInv, NEW r \in Runs, NEW run, RunOK(r, run),
         runs' = [runs EXCEPT ![r] = run], UNCHANGED storeVars
  PROVE  IndInv'
<1>1. \A q \in Runs : runs'[q] = IF q = r THEN run ELSE runs[q]
  BY DEF IndInv
<1>2. DOMAIN runs' = Runs /\ runs' = [q \in Runs |-> runs'[q]]
  BY DEF IndInv
<1>3. ASSUME NEW q \in Runs
      PROVE  RunOK(q, runs[q])'
  <2>1. PICK now : now = runs'[q] /\ RunOK(q, now)
    BY <1>1 DEF IndInv
  <2>2. RunOK(q, now)'
    BY <2>1 DEF RunOK, RunLoss, RunAnswer, storeVars
  <2> QED
    BY <2>1, <2>2 DEF RunOK, RunLoss, RunAnswer
<1>4. (Store!StoreTypeOK /\ Store!StoreInv /\ StoredWalks)'
  BY DEF IndInv, storeVars, Store!StoreTypeOK, Store!StoreInv, Store!ListsAreSound,
         Store!ListsAreComplete, Store!ListsAreOrdered, StoredWalks
<1> QED
  BY <1>2, <1>3, <1>4 DEF IndInv

\* A step of run r that saves where the run is.
LEMMA SavingStep ==
  ASSUME IndInv, NEW r \in Runs, NEW run,
         runs' = [runs EXCEPT ![r] = run],
         Store!Save(Here(r)),
         run \in Run, run.saved = lastId + 1,
         run.thread = runs[r].thread, run.node = runs[r].node, run.st = runs[r].st,
         run.phase \in {"exec", "done"},
         run.phase = "exec" => run.node \in Nodes /\ run.iters < MaxIterations /\ run.outcome = "none"
  PROVE  IndInv'
<1>0. RunOK(r, runs[r])
  BY DEF IndInv
<1>1. Here(r) \in Store!Checkpoint
  BY <1>0 DEF Here, RunOK, Run, Store!Checkpoint
<1>2. /\ Store!StoreTypeOK' /\ Store!StoreInv'
      /\ lastId \in Nat /\ lastId' = lastId + 1 /\ lastId' \in Nat
      /\ Store!Stored' = Store!Stored \cup {lastId'}
      /\ checkpoints'[lastId'] = Here(r)
      /\ \A id \in Store!Stored : checkpoints'[id] = checkpoints[id]
  <2>1. Store!StoreTypeOK /\ Store!StoreInv
    BY DEF IndInv
  <2>2. PICK cp \in Store!Checkpoint : cp = Here(r)
    BY <1>1
  <2>3. Store!Save(cp)
    BY <2>2
  <2>4. /\ Store!StoreTypeOK' /\ Store!StoreInv'
        /\ lastId \in Nat /\ lastId' = lastId + 1
        /\ Store!Stored' = Store!Stored \cup {lastId'}
        /\ checkpoints'[lastId'] = cp
        /\ \A id \in Store!Stored : checkpoints'[id] = checkpoints[id]
    BY <2>1, <2>3, SaveStep
  <2> QED
    BY <2>2, <2>4
<1>3. \A q \in Runs : runs'[q] = IF q = r THEN run ELSE runs[q]
  BY DEF IndInv
<1>4. DOMAIN runs' = Runs /\ runs' = [q \in Runs |-> runs'[q]]
  <2>1. DOMAIN runs = Runs /\ runs = [q \in Runs |-> runs[q]]
    BY DEF IndInv
  <2> QED
    BY <2>1
<1>5. StoredWalks'
  <2>1. WalkOK(runs[r].st, runs[r].node)
    BY <1>0 DEF RunOK
  <2> QED
    BY <2>1, <1>2 DEF IndInv, StoredWalks, Here, WalkOK
<1>6. RunOK(r, run)'
  <2>1. run.saved # 0 /\ run.saved <= lastId' /\ checkpoints'[run.saved] = Here(r)
    BY <1>2
  <2>2. RunLoss(r, run)' /\ RunAnswer(run)'
    BY <2>1 DEF RunLoss, RunAnswer, Here
  <2> QED
    BY <2>1, <2>2, <1>0 DEF RunOK
<1>7. ASSUME NEW q \in Runs \ {r}
      PROVE  RunOK(q, runs[q])'
  <2>1. RunOK(q, runs[q]) /\ runs'[q] = runs[q]
    BY <1>3 DEF IndInv
  <2>2. \A id \in Store!Stored' : id <= lastId =>
          id \in Store!Stored /\ checkpoints'[id] = checkpoints[id]
    BY <1>2
  <2>3. lastId <= lastId'
    BY <1>2
  <2>4. PICK now : now = runs[q]
    OBVIOUS
  <2>5. RunOK(q, now)'
    BY <2>1, <2>2, <2>3, <2>4, <1>2, OthersStayOK
  <2> QED
    BY <2>1, <2>4, <2>5 DEF RunOK, RunLoss, RunAnswer
<1>8. RunOK(r, runs[r])'
  BY <1>3, <1>6 DEF RunOK, RunLoss, RunAnswer
<1> QED
  BY <1>2, <1>4, <1>5, <1>7, <1>8 DEF IndInv

-----------------------------------------------------------------------------

LEMMA InitOK == Init => IndInv
<1> SUFFICES ASSUME Init PROVE IndInv
  OBVIOUS
<1>1. Store!StoreTypeOK /\ Store!StoreInv
  BY StoreFacts!StoreStarts
  DEF Init, StoreFacts!StoreTypeOK, StoreFacts!StoreInv, StoreFacts!Checkpoint,
      StoreFacts!StoreInit, StoreFacts!Stored, StoreFacts!ListsAreSound,
      StoreFacts!ListsAreComplete, StoreFacts!ListsAreOrdered, StoreFacts!ToSet,
      Store!StoreTypeOK, Store!StoreInv, Store!Checkpoint, Store!StoreInit,
      Store!ListsAreSound, Store!ListsAreComplete, Store!ListsAreOrdered, Store!ToSet
<1>2. Store!Stored = {} /\ lastId = 0
  BY DEF Init, Store!StoreInit
<1>3. NotStarted \in Run
  BY GraphCompiles, SomeThread, MaxIterationsIsNat, EmptySeq
  DEF NotStarted, Run, Outcome, Names, AgentState, FreshState, Compiles
<1>4. WalkOK(FreshState, Entry)
  BY EmptySeq DEF WalkOK, IsWalk, FreshState
<1>5. \A r \in Runs : RunOK(r, NotStarted)
  BY <1>2, <1>3, <1>4 DEF RunOK, RunLoss, RunAnswer, NotStarted
<1> QED
  BY <1>1, <1>2, <1>5 DEF Init, IndInv, StoredWalks

\* A run begins on a walk, its own fresh one or a stored one.
LEMMA BeginOK ==
  ASSUME IndInv, NEW r \in Runs, runs[r].phase = "idle",
         NEW t \in Threads, NEW node \in Names, NEW s \in AgentState, WalkOK(s, node),
         Begin(r, t, node, s), UNCHANGED storeVars
  PROVE  IndInv'
<1> DEFINE run == [runs[r] EXCEPT !.phase = "top", !.thread = t, !.node = node, !.st = s]
<1>1. runs' = [runs EXCEPT ![r] = run]
  BY DEF Begin
<1>2. RunOK(r, runs[r]) /\ 0 \notin Store!Stored
  BY DEF IndInv, Store!StoreTypeOK
<1>3. RunOK(r, run)
  BY <1>2 DEF RunOK, Run, RunLoss, RunAnswer
<1> HIDE DEF run
<1> QED
  BY <1>1, <1>3, RunStep

\* A run ends without touching the store.
LEMMA EndsOK ==
  ASSUME IndInv, NEW r \in Runs, NEW outcome \in Outcome \ {"completed", "limit"},
         Ends(r, outcome), UNCHANGED storeVars
  PROVE  IndInv'
<1> DEFINE run == [runs[r] EXCEPT !.phase = "done", !.outcome = outcome]
<1>1. runs' = [runs EXCEPT ![r] = run]
  BY DEF Ends
<1>2. RunOK(r, runs[r])
  BY DEF IndInv
<1>3. RunOK(r, run)
  BY <1>2 DEF RunOK, Run, RunLoss, RunAnswer
<1> HIDE DEF run
<1> QED
  BY <1>1, <1>3, RunStep

LEMMA SaveAndEndOK ==
  ASSUME IndInv, NEW r \in Runs, NEW outcome \in Outcome, SaveAndEnd(r, outcome)
  PROVE  IndInv'
<1> DEFINE run == [runs[r] EXCEPT !.phase = "done", !.outcome = outcome, !.saved = lastId + 1]
<1>1. runs' = [runs EXCEPT ![r] = run] /\ Store!Save(Here(r))
  BY DEF SaveAndEnd
<1>2. RunOK(r, runs[r]) /\ lastId + 1 \in Nat
  BY DEF IndInv, Store!StoreTypeOK
<1>3. /\ run \in Run /\ run.saved = lastId + 1 /\ run.phase = "done"
      /\ run.thread = runs[r].thread /\ run.node = runs[r].node /\ run.st = runs[r].st
  BY <1>2 DEF RunOK, Run
<1> HIDE DEF run
<1> QED
  BY <1>1, <1>3, SavingStep

LEMMA StartOK ==
  ASSUME IndInv, NEW r \in Runs, Start(r)
  PROVE  IndInv'
<1>1. ASSUME NEW t \in Threads, Invoke(r, t)
      PROVE  IndInv'
  <2>1. Entry \in Names /\ FreshState \in AgentState /\ WalkOK(FreshState, Entry)
    BY GraphCompiles, EmptySeq DEF Compiles, Names, FreshState, AgentState, WalkOK, IsWalk
  <2> QED
    BY <1>1, <2>1, BeginOK DEF Invoke
<1>2. ASSUME NEW id, StartFrom(r, id)
      PROVE  IndInv'
  <2>1. CASE id \in Store!Stored
    <3> DEFINE cp == checkpoints[id]
    <3>1. cp \in Store!Checkpoint /\ WalkOK(cp.st, cp.node)
      BY <2>1 DEF IndInv, StoredWalks, Store!StoreTypeOK
    <3>2. cp.thread \in Threads /\ cp.node \in Names /\ cp.st \in AgentState
      BY <3>1 DEF Store!Checkpoint
    <3>3. /\ runs[r].phase = "idle" /\ UNCHANGED storeVars
          /\ Begin(r, cp.thread, cp.node, cp.st)
      BY <1>2, <2>1 DEF StartFrom
    <3> HIDE DEF cp
    <3> QED
      BY <3>1, <3>2, <3>3, BeginOK
  <2>2. CASE id \notin Store!Stored
    <3>1. "no_checkpoint" \in Outcome \ {"completed", "limit"}
      BY DEF Outcome
    <3> QED
      BY <1>2, <2>2, <3>1, EndsOK DEF StartFrom
  <2> QED
    BY <2>1, <2>2
<1> QED
  BY <1>1, <1>2 DEF Start, Resume, ResumeFrom

LEMMA LoopOK ==
  ASSUME IndInv, NEW r \in Runs, Loop(r)
  PROVE  IndInv'
<1>0. /\ RunOK(r, runs[r]) /\ lastId + 1 \in Nat
      /\ \A o \in Outcome \ {"completed", "limit"} :
           Ends(r, o) /\ UNCHANGED storeVars => IndInv'
      /\ \A o \in Outcome : SaveAndEnd(r, o) => IndInv'
  BY EndsOK, SaveAndEndOK DEF IndInv, Store!StoreTypeOK
<1>1. CASE Complete(r)
  BY <1>1, <1>0 DEF Complete, Outcome
<1>2. CASE HitLimit(r)
  BY <1>2, <1>0 DEF HitLimit, Outcome
<1>3. CASE MissingNode(r)
  BY <1>3, <1>0 DEF MissingNode, Outcome
<1>4. CASE Enter(r)
  <2>1. CASE EveryNode[r]
    <3> DEFINE run == [runs[r] EXCEPT !.phase = "exec", !.saved = lastId + 1]
    <3>1. runs' = [runs EXCEPT ![r] = run] /\ Store!Save(Here(r))
      BY <1>4, <2>1 DEF Enter
    <3>2. /\ run \in Run /\ run.saved = lastId + 1 /\ run.phase = "exec"
          /\ run.thread = runs[r].thread /\ run.node = runs[r].node /\ run.st = runs[r].st
          /\ run.node \in Nodes /\ run.iters < MaxIterations /\ run.outcome = "none"
      BY <1>4, <1>0 DEF Enter, AtTop, MayExecute, RunOK, Run
    <3> HIDE DEF run
    <3> QED
      BY <3>1, <3>2, SavingStep
  <2>2. CASE ~EveryNode[r]
    <3> DEFINE run == [runs[r] EXCEPT !.phase = "exec"]
    <3>1. runs' = [runs EXCEPT ![r] = run] /\ UNCHANGED storeVars
      BY <1>4, <2>2 DEF Enter
    <3>2. RunOK(r, run)
      BY <1>4, <1>0, <2>2 DEF Enter, AtTop, MayExecute, RunOK, Run, RunLoss, RunAnswer
    <3> HIDE DEF run
    <3> QED
      BY <3>1, <3>2, RunStep
  <2> QED
    BY <2>1, <2>2
<1>5. CASE SaveFails(r)
  BY <1>5, <1>0 DEF SaveFails, Outcome
<1>6. CASE Execute(r)
  <2>0. PICK out \in Outputs[runs[r].node] :
          \E next \in Successors(runs[r].node, out) :
            runs' = [runs EXCEPT
                       ![r].phase = "top",
                       ![r].st    = [iteration |-> @.iteration + 1,
                                     path |-> Append(@.path, runs[r].node)],
                       ![r].iters = @ + 1,
                       ![r].node  = next]
    BY <1>6 DEF Execute
  <2>1. PICK next \in Successors(runs[r].node, out) :
            runs' = [runs EXCEPT
                       ![r].phase = "top",
                       ![r].st    = [iteration |-> @.iteration + 1,
                                     path |-> Append(@.path, runs[r].node)],
                       ![r].iters = @ + 1,
                       ![r].node  = next]
    BY <2>0
  <2> DEFINE old == runs[r].st
             new == [iteration |-> old.iteration + 1, path |-> Append(old.path, runs[r].node)]
             run == [runs[r] EXCEPT !.phase = "top", !.st = new, !.iters = @ + 1, !.node = next]
  <2>2. /\ runs[r].phase = "exec" /\ runs[r].node \in Nodes /\ runs[r].iters < MaxIterations
        /\ runs[r].iters \in 0 .. MaxIterations
        /\ old.path \in Seq(Nodes) /\ old.iteration \in Nat /\ old.iteration = Len(old.path)
        /\ IsWalk(old.path, runs[r].node)
    BY <1>0, <1>6 DEF Execute, RunOK, WalkOK, Run, AgentState
  <2>3. /\ new.path \in Seq(Nodes) /\ Len(new.path) = Len(old.path) + 1
        /\ IsWalk(new.path, next) /\ next \in Names
    BY <2>2, WalkExtends
  <2>4. SubSeq(new.path, 1, Len(new.path) - 1) = old.path
    BY <2>2, <2>3
  <2>5. new \in AgentState /\ WalkOK(new, next)
    BY <2>2, <2>3 DEF AgentState, WalkOK
  <2>6. Len(new.path) > 0
    BY <2>2, <2>3
  <2> HIDE DEF new
  <2>7. /\ run.st = new /\ run.node = next /\ run.phase = "top"
        /\ run.saved = runs[r].saved /\ run.outcome = runs[r].outcome
        /\ run \in Run
    <3>1. /\ runs[r] \in Run /\ next \in Names /\ new \in AgentState
      BY <1>0, <2>3, <2>5 DEF RunOK
    <3>2. runs[r].iters + 1 \in 0 .. MaxIterations
      BY <2>2, MaxIterationsIsNat
    <3> QED
      BY <3>1, <3>2 DEF Run
  <2>8. RunLoss(r, run)
    BY <1>0, <2>2, <2>4, <2>6, <2>7 DEF RunOK, RunLoss
  <2>9. RunOK(r, run)
    BY <1>0, <2>2, <2>5, <2>7, <2>8 DEF RunOK, RunAnswer
  <2>10. runs' = [runs EXCEPT ![r] = run] /\ UNCHANGED storeVars
    BY <1>6, <2>1 DEF Execute, new
  <2> HIDE DEF run
  <2> QED
    BY <2>9, <2>10, RunStep
<1>7. CASE NodeFails(r)
  BY <1>7, <1>0 DEF NodeFails, Outcome
<1> QED
  BY <1>1, <1>2, <1>3, <1>4, <1>5, <1>6, <1>7 DEF Loop

LEMMA NextOK == IndInv /\ [Next]_vars => IndInv'
<1> SUFFICES ASSUME IndInv, [Next]_vars PROVE IndInv'
  OBVIOUS
<1>1. ASSUME NEW r \in Runs, Start(r) PROVE IndInv'
  BY <1>1, StartOK
<1>2. ASSUME NEW r \in Runs, Loop(r) PROVE IndInv'
  BY <1>2, LoopOK
<1>3. ASSUME NEW r \in Runs, Dropped(r) PROVE IndInv'
  <2>1. "dropped" \in Outcome \ {"completed", "limit"}
    BY DEF Outcome
  <2> QED
    BY <1>3, <2>1, EndsOK DEF Dropped
<1>4. CASE Deletion
  <2>1. /\ Store!StoreTypeOK' /\ Store!StoreInv'
        /\ lastId' = lastId /\ lastId \in Nat
        /\ Store!Stored' \subseteq Store!Stored
        /\ \A id \in Store!Stored' : checkpoints'[id] = checkpoints[id]
        /\ runs' = runs
    BY <1>4, DeletionStep DEF IndInv, Store!StoreTypeOK, Deletion
  <2>2. StoredWalks'
    BY <2>1 DEF IndInv, StoredWalks
  <2>3. ASSUME NEW q \in Runs PROVE RunOK(q, runs[q])'
    <3>1. PICK now : now = runs[q] /\ RunOK(q, now)
      BY DEF IndInv
    <3>2. RunOK(q, now)'
      BY <2>1, <3>1, OthersStayOK
    <3> QED
      BY <2>1, <3>1, <3>2 DEF RunOK, RunLoss, RunAnswer
  <2> QED
    BY <2>1, <2>2, <2>3 DEF IndInv
<1>5. CASE UNCHANGED vars
  BY <1>5 DEF vars, IndInv, Store!StoreTypeOK, Store!StoreInv, Store!ListsAreSound,
     Store!ListsAreComplete, Store!ListsAreOrdered, StoredWalks, RunOK, RunLoss, RunAnswer
<1> QED
  BY <1>1, <1>2, <1>3, <1>4, <1>5 DEF Next

THEOREM Inductive == Spec => []IndInv
<1> QED
  BY InitOK, NextOK, PTL DEF Spec

-----------------------------------------------------------------------------
\* Runs and store are well formed, for all values of the constants: the two indexes
\* of the store agree under any interleaving of runs and deletions.
THEOREM StayWellFormed == Spec => []WellFormed
<1>1. IndInv => WellFormed
  BY DEF IndInv, WellFormed, RunOK
<1> QED
  BY <1>1, Inductive, PTL

\* A resumed execution continues a walk of the graph: no node is skipped and
\* none applied twice to the state.
THEOREM ResumesWalks == Spec => []CheckpointsAreWalks
<1>1. IndInv => CheckpointsAreWalks
  BY DEF IndInv, CheckpointsAreWalks, StoredWalks, RunOK, WalkOK
<1> QED
  BY <1>1, Inductive, PTL

\* A run that stops at any moment loses at most one executed node.
THEOREM LossIsBounded == Spec => []BoundedLoss
<1>1. IndInv => BoundedLoss
  BY DEF IndInv, BoundedLoss, RunOK, RunLoss
<1> QED
  BY <1>1, Inductive, PTL

\* What a caller is told about is stored.
THEOREM AnswersHold == Spec => []AnswersAreDurable
<1>1. IndInv => AnswersAreDurable
  BY DEF IndInv, AnswersAreDurable, RunOK, RunAnswer, Here
<1> QED
  BY <1>1, Inductive, PTL

-----------------------------------------------------------------------------
\* The runner implements the plain run loop: every step of a run is a step of
\* the loop, or none of its business.

LEMMA LoopOperators ==
  /\ Loops!Names = Names
  /\ Loops!AgentState = AgentState
  /\ \A from, out : Loops!Successors(from, out) = Successors(from, out)
<1>1. \A from, out : Loops!Successors(from, out) = Successors(from, out)
  BY DEF Loops!Successors, Loops!NextFor, Loops!Outgoing, Loops!First,
         Successors, NextFor, Outgoing, First
<1>2. \A from : Loops!After(from) = After(from)
  BY <1>1 DEF Loops!After, After
<1>3. Loops!Names = Names
  BY <1>2 DEF Loops!Names, Names
<1> QED
  BY <1>1, <1>3 DEF Loops!AgentState, AgentState

\* One run moves, in the loop as in the runner.
LEMMA MappedStep ==
  ASSUME IndInv, NEW r \in Runs, NEW run, runs' = [runs EXCEPT ![r] = run]
  PROVE  /\ LoopRuns' = [LoopRuns EXCEPT ![r] = LoopRun(run)]
         /\ LoopRuns[r] = LoopRun(runs[r]) /\ LoopRuns'[r] = LoopRun(run)
         /\ DOMAIN LoopRuns = Runs
<1>1. \A q \in Runs : runs'[q] = IF q = r THEN run ELSE runs[q]
  BY DEF IndInv
<1>2. LoopRuns = [q \in Runs |-> LoopRun(runs[q])]
  BY DEF LoopRuns
<1>3. LoopRuns' = [q \in Runs |-> LoopRun(runs'[q])]
  BY DEF LoopRuns, LoopRun
<1>4. [LoopRuns EXCEPT ![r] = LoopRun(run)] = [q \in Runs |-> IF q = r THEN LoopRun(run) ELSE LoopRuns[q]]
  BY <1>2
<1> HIDE DEF LoopRuns, LoopRun
<1>5. LoopRuns' = [q \in Runs |-> IF q = r THEN LoopRun(run) ELSE LoopRuns[q]]
  BY <1>1, <1>2, <1>3
<1> QED
  BY <1>1, <1>2, <1>3, <1>4, <1>5

\* A run that starts with a thread, a node and a state enters the loop there.
LEMMA BeginMaps ==
  ASSUME IndInv, NEW r \in Runs, runs[r].phase = "idle",
         NEW t \in Threads, NEW node \in Names, NEW s \in AgentState, Begin(r, t, node, s)
  PROVE  Loops!BeginAnywhere(r)
<1> DEFINE run == [runs[r] EXCEPT !.phase = "top", !.thread = t, !.node = node, !.st = s]
<1>1. runs' = [runs EXCEPT ![r] = run]
  BY DEF Begin
<1>2. /\ runs[r] \in Run /\ runs[r].outcome = "none" /\ runs[r].iters \in 0 .. MaxIterations
      /\ runs[r].iters = 0
  BY DEF IndInv, RunOK, Run
<1>3. /\ LoopRuns' = [LoopRuns EXCEPT ![r] = LoopRun(run)]
      /\ LoopRuns[r] = LoopRun(runs[r]) /\ LoopRuns'[r] = LoopRun(run)
  BY <1>1, MappedStep
<1>4. LoopRun(runs[r]).phase = "idle"
  BY <1>2 DEF LoopRun
<1>5. LoopRun(run) = [phase |-> "running", node |-> node, st |-> s, iters |-> 0, outcome |-> "none"]
  BY <1>2 DEF LoopRun, Run
<1>6. LoopRun(run) \in Loops!Run
  BY <1>5, MaxIterationsIsNat, LoopOperators DEF Loops!Run, Loops!Outcome
<1> HIDE DEF run
<1>7. LoopRuns[r].phase = "idle"
  BY <1>3, <1>4
<1>8. LoopRuns'[r] \in Loops!Run
  BY <1>3, <1>6
<1>9. /\ LoopRuns'[r].phase = "running" /\ LoopRuns'[r].iters = 0 
      /\ LoopRuns'[r].outcome = "none"
  BY <1>3, <1>5
<1>10. LoopRuns' = [LoopRuns EXCEPT ![r] = LoopRuns'[r]]
  BY <1>3
<1> QED
  BY <1>7, <1>8, <1>9, <1>10 DEF Loops!BeginAnywhere

\* A run ends, in the loop as in the runner; what the loop calls a dropped run
\* is also one whose save failed.
LEMMA EndMaps ==
  ASSUME IndInv, NEW r \in Runs, runs[r].phase \in {"top", "exec"},
         NEW outcome \in Outcome \ {"none", "no_checkpoint"},
         Ends(r, outcome) \/ SaveAndEnd(r, outcome)
  PROVE  /\ LoopRuns[r].phase = "running"
         /\ LoopRuns[r].node = runs[r].node /\ LoopRuns[r].iters = runs[r].iters
         /\ Loops!Ends(r, IF outcome = "save_failed" THEN "dropped" ELSE outcome)
<1> DEFINE shown == IF outcome = "save_failed" THEN "dropped" ELSE outcome
           ended == [runs[r] EXCEPT !.phase = "done", !.outcome = outcome]
           saved == [runs[r] EXCEPT !.phase = "done", !.outcome = outcome, !.saved = lastId + 1]
<1>1. runs[r] \in Run /\ runs[r].outcome = "none"
  BY DEF IndInv, RunOK
<1>2. runs' = [runs EXCEPT ![r] = ended] \/ runs' = [runs EXCEPT ![r] = saved]
  BY DEF Ends, SaveAndEnd
<1> DEFINE now == [phase |-> "running", node |-> runs[r].node, st |-> runs[r].st,
                   iters |-> runs[r].iters, outcome |-> "none"]
<1>3. LoopRun(runs[r]) = now
  BY <1>1 DEF LoopRun
<1>4. /\ ended.phase = "done" /\ ended.outcome = outcome /\ ended.node = runs[r].node
      /\ ended.st = runs[r].st /\ ended.iters = runs[r].iters
      /\ saved.phase = "done" /\ saved.outcome = outcome /\ saved.node = runs[r].node
      /\ saved.st = runs[r].st /\ saved.iters = runs[r].iters
  BY <1>1 DEF Run
<1> HIDE DEF ended, saved
<1> DEFINE stopped == [phase |-> "done", node |-> runs[r].node, st |-> runs[r].st,
                       iters |-> runs[r].iters, outcome |-> shown]
<1>5. LoopRun(ended) = stopped /\ LoopRun(saved) = stopped
  BY <1>4 DEF LoopRun, Outcome
<1>6. /\ LoopRuns' = [LoopRuns EXCEPT ![r] = stopped]
      /\ LoopRuns[r] = LoopRun(runs[r]) /\ DOMAIN LoopRuns = Runs
  BY <1>2, <1>5, MappedStep
<1> HIDE DEF shown
<1>7. /\ now = [phase |-> "running", node |-> runs[r].node, st |-> runs[r].st,
                iters |-> runs[r].iters, outcome |-> "none"]
      /\ now.phase = "running" /\ now.node = runs[r].node /\ now.iters = runs[r].iters
  OBVIOUS
<1> HIDE DEF now
<1> DEFINE halted == [now EXCEPT !.phase = "done"]
<1>9. [phase |-> "done", node |-> runs[r].node, st |-> runs[r].st,
       iters |-> runs[r].iters, outcome |-> "none"] = halted
  BY <1>7
<1> HIDE DEF halted
<1>10. stopped = [halted EXCEPT !.outcome = shown]
  BY <1>9
<1> HIDE DEF stopped
<1>8. LoopRuns' = [LoopRuns EXCEPT ![r].phase = "done", ![r].outcome = shown]
  BY <1>3, <1>6, <1>10 DEF halted
<1> QED
  BY <1>3, <1>6, <1>7, <1>8 DEF Loops!Ends, shown

LEMMA LoopMaps ==
  ASSUME IndInv, NEW r \in Runs, Loop(r)
  PROVE  Loops!Loop(r) \/ Loops!Dropped(r) \/ LoopRuns' = LoopRuns
<1>1. CASE Complete(r)
  BY <1>1, EndMaps DEF Complete, AtTop, AtEnd, Outcome,
     Loops!Loop, Loops!Complete, Loops!Running
<1>2. CASE HitLimit(r)
  BY <1>2, EndMaps DEF HitLimit, AtTop, AtLimit, Outcome,
     Loops!Loop, Loops!HitLimit, Loops!Running
<1>3. CASE MissingNode(r)
  BY <1>3, EndMaps DEF MissingNode, AtTop, MayExecute, Outcome,
     Loops!Loop, Loops!MissingNode, Loops!Running, Loops!MayExecute
<1>4. CASE Enter(r)
  <2> DEFINE run == runs'[r]
  <2>1. runs[r] \in Run
    BY DEF IndInv, RunOK
  <2>2. /\ runs' = [runs EXCEPT ![r] = run]
        /\ runs[r].phase = "top" /\ run.phase = "exec" /\ run.outcome = runs[r].outcome
        /\ run.node = runs[r].node /\ run.st = runs[r].st /\ run.iters = runs[r].iters
    BY <1>4, <2>1 DEF Enter, AtTop, IndInv, Run
  <2> HIDE DEF run
  <2>3. LoopRun(run) = LoopRun(runs[r])
    BY <2>2 DEF LoopRun
  <2>4. LoopRuns' = [LoopRuns EXCEPT ![r] = LoopRun(run)] /\ LoopRuns[r] = LoopRun(runs[r])
    BY <2>2, MappedStep
  <2> QED
    BY <2>3, <2>4 DEF LoopRuns
<1>5. CASE SaveFails(r)
  BY <1>5, EndMaps DEF SaveFails, AtTop, Outcome,
     Loops!Dropped, Loops!Running
<1>6. CASE Execute(r)
  <2> DEFINE Goes(next) ==
               runs' = [runs EXCEPT
                          ![r].phase = "top",
                          ![r].st    = [iteration |-> @.iteration + 1,
                                        path |-> Append(@.path, runs[r].node)],
                          ![r].iters = @ + 1,
                          ![r].node  = next]
  <2>p. PICK out \in Outputs[runs[r].node] :
          \E next \in Successors(runs[r].node, out) : Goes(next)
    BY <1>6 DEF Execute
  <2>0. PICK next \in Successors(runs[r].node, out) : Goes(next)
    BY <2>p
  <2> DEFINE run == runs'[r]
             new == [iteration |-> runs[r].st.iteration + 1,
                     path |-> Append(runs[r].st.path, runs[r].node)]
  <2>1. /\ runs[r] \in Run /\ runs[r].phase = "exec" /\ runs[r].outcome = "none"
        /\ runs[r].node \in Nodes /\ runs[r].iters < MaxIterations
    BY <1>6 DEF Execute, IndInv, RunOK
  <2>2. /\ runs' = [runs EXCEPT ![r] = run]
        /\ run.phase = "top" /\ run.outcome = "none" /\ run.node = next
        /\ run.st = new /\ run.iters = runs[r].iters + 1
    BY <2>0, <2>1 DEF IndInv, Run
  <2> HIDE DEF run
  <2>3. /\ LoopRuns' = [LoopRuns EXCEPT ![r] = LoopRun(run)]
        /\ LoopRuns[r] = LoopRun(runs[r]) /\ DOMAIN LoopRuns = Runs
    BY <2>2, MappedStep
  <2> DEFINE now == [phase |-> "running", node |-> runs[r].node, st |-> runs[r].st,
                     iters |-> runs[r].iters, outcome |-> "none"]
  <2>4. LoopRun(runs[r]) = now
    BY <2>1 DEF LoopRun
  <2>5. LoopRun(run) = [phase |-> "running", node |-> next, st |-> new,
                        iters |-> runs[r].iters + 1, outcome |-> "none"]
    BY <2>2 DEF LoopRun
  <2>6. new = Loops!Executed(now.st, now.node)
    BY DEF Loops!Executed
  <2> HIDE DEF new
  <2>11. /\ now = [phase |-> "running", node |-> runs[r].node, st |-> runs[r].st,
                   iters |-> runs[r].iters, outcome |-> "none"]
         /\ now.node = runs[r].node /\ now.iters = runs[r].iters /\ now.phase = "running"
    OBVIOUS
  <2> HIDE DEF now
  <2> DEFINE taken == [now EXCEPT !.st = new]
             counted == [taken EXCEPT !.iters = now.iters + 1]
  <2>12. [phase |-> "running", node |-> runs[r].node, st |-> new,
          iters |-> runs[r].iters, outcome |-> "none"] = taken
    BY <2>11
  <2> HIDE DEF taken
  <2>13. [phase |-> "running", node |-> runs[r].node, st |-> new,
          iters |-> runs[r].iters + 1, outcome |-> "none"] = counted
    BY <2>11, <2>12
  <2> HIDE DEF counted
  <2>14. [phase |-> "running", node |-> next, st |-> new,
          iters |-> runs[r].iters + 1, outcome |-> "none"] = [counted EXCEPT !.node = next]
    BY <2>13
  <2>10. LoopRun(run) = [[[now EXCEPT !.st = new] EXCEPT !.iters = now.iters + 1] EXCEPT !.node = next]
    BY <2>5, <2>14 DEF counted, taken
  <2>7. LoopRuns' = [LoopRuns EXCEPT ![r].st    = Loops!Executed(@, LoopRuns[r].node),
                                     ![r].iters = @ + 1,
                                     ![r].node  = next]
    BY <2>3, <2>4, <2>6, <2>10
  <2>8. /\ Loops!Running(r) /\ Loops!MayExecute(r) /\ LoopRuns[r].node = runs[r].node
    BY <2>1, <2>3, <2>4, <2>11, EndIsNoNode DEF Loops!Running, Loops!MayExecute
  <2>9. next \in Loops!Successors(LoopRuns[r].node, out)
    BY <2>0, <2>8, LoopOperators
  <2> QED
    BY <2>0, <2>1, <2>7, <2>8, <2>9 DEF Loops!Loop, Loops!Step
<1>7. CASE NodeFails(r)
  <2>1. /\ runs[r].phase = "exec" /\ runs[r].node \in Nodes /\ runs[r].iters < MaxIterations
        /\ runs[r].node # END
    BY <1>7, EndIsNoNode DEF NodeFails, IndInv, RunOK
  <2> QED
    BY <1>7, <2>1, EndMaps DEF NodeFails, Outcome,
       Loops!Loop, Loops!NodeFails, Loops!Running, Loops!MayExecute
<1> QED
  BY <1>1, <1>2, <1>3, <1>4, <1>5, <1>6, <1>7 DEF Loop

LEMMA StartMaps ==
  ASSUME IndInv, NEW r \in Runs, Start(r)
  PROVE  Loops!BeginAnywhere(r) \/ LoopRuns' = LoopRuns
<1>1. ASSUME NEW t \in Threads, Invoke(r, t)
      PROVE  Loops!BeginAnywhere(r)
  <2>1. Entry \in Names /\ FreshState \in AgentState
    BY GraphCompiles, EmptySeq DEF Compiles, Names, FreshState, AgentState
  <2> QED
    BY <1>1, <2>1, BeginMaps DEF Invoke
<1>2. ASSUME NEW id, StartFrom(r, id)
      PROVE  Loops!BeginAnywhere(r) \/ LoopRuns' = LoopRuns
  <2>1. CASE id \in Store!Stored
    <3> DEFINE cp == checkpoints[id]
    <3>1. cp.thread \in Threads /\ cp.node \in Names /\ cp.st \in AgentState
      BY <2>1 DEF IndInv, Store!StoreTypeOK, Store!Checkpoint
    <3>2. runs[r].phase = "idle" /\ Begin(r, cp.thread, cp.node, cp.st)
      BY <1>2, <2>1 DEF StartFrom
    <3> HIDE DEF cp
    <3> QED
      BY <3>1, <3>2, BeginMaps
  <2>2. CASE id \notin Store!Stored
    <3> DEFINE run == [runs[r] EXCEPT !.phase = "done", !.outcome = "no_checkpoint"]
    <3>1. runs[r] \in Run /\ runs[r].phase = "idle" /\ runs[r].outcome = "none"
      BY <1>2 DEF StartFrom, IndInv, RunOK
    <3>2. runs' = [runs EXCEPT ![r] = run]
      BY <1>2, <2>2 DEF StartFrom, Ends
    <3>3. LoopRun(run) = LoopRun(runs[r])
      BY <3>1 DEF LoopRun, Run
    <3> HIDE DEF run
    <3>4. LoopRuns' = [LoopRuns EXCEPT ![r] = LoopRuns[r]]
      BY <3>2, <3>3, MappedStep
    <3> QED
      BY <3>4 DEF LoopRuns
  <2> QED
    BY <2>1, <2>2
<1> QED
  BY <1>1, <1>2 DEF Start, Resume, ResumeFrom

\* CheckpointingRunner keeps the promise of the plain runner: apart from what it
\* stores, every run is a run of run_loop, entered where a checkpoint says.
THEOREM RunsThePlainLoop == Spec => ImplementsRunLoop
<1>1. Init => Loops!Init
  BY DEF Init, Loops!Init, LoopRuns, LoopRun, NotStarted, Loops!NotStarted,
     FreshState, Loops!FreshState
<1>2. IndInv /\ [Next]_vars => [Loops!ResumableNext]_LoopRuns
  <2> SUFFICES ASSUME IndInv, [Next]_vars
               PROVE  Loops!ResumableNext \/ LoopRuns' = LoopRuns
    OBVIOUS
  <2>1. ASSUME NEW r \in Runs, Start(r)
        PROVE  Loops!ResumableNext \/ LoopRuns' = LoopRuns
    BY <2>1, StartMaps DEF Loops!ResumableNext
  <2>2. ASSUME NEW r \in Runs, Loop(r)
        PROVE  Loops!ResumableNext \/ LoopRuns' = LoopRuns
    BY <2>2, LoopMaps DEF Loops!ResumableNext
  <2>3. ASSUME NEW r \in Runs, Dropped(r)
        PROVE  Loops!ResumableNext
    <3>1. Loops!Dropped(r)
      BY <2>3, EndMaps DEF Dropped, Outcome, Loops!Dropped, Loops!Running
    <3> QED
      BY <3>1 DEF Loops!ResumableNext
  <2>4. CASE Deletion \/ UNCHANGED vars
    BY <2>4 DEF Deletion, vars, LoopRuns
  <2> QED
    BY <2>1, <2>2, <2>3, <2>4 DEF Next
<1> QED
  BY <1>1, <1>2, Inductive, PTL DEF Spec, ImplementsRunLoop, Loops!ResumableSpec

-----------------------------------------------------------------------------
\* The store under these runs.

\* Whatever a run or a client does, the store takes one of its own steps or none.
LEMMA StoreMoves ==
  ASSUME IndInv, [Next]_vars
  PROVE  [Store!StoreNext]_storeVars
<1>1. ASSUME NEW r \in Runs, Store!Save(Here(r))
      PROVE  Store!StoreNext
  <2>1. Here(r) \in Store!Checkpoint
    BY DEF IndInv, RunOK, Here, Run, Store!Checkpoint
  <2> QED
    BY <1>1, <2>1 DEF Store!StoreNext
<1>2. ASSUME NEW r \in Runs, Start(r) \/ Loop(r) \/ Dropped(r)
      PROVE  Store!Save(Here(r)) \/ UNCHANGED storeVars
  BY <1>2 DEF Start, Invoke, Resume, ResumeFrom, StartFrom, Loop, Complete, HitLimit,
              MissingNode, Enter, SaveFails, SaveAndEnd, Execute, NodeFails, Dropped
<1>3. CASE Deletion
  BY <1>3 DEF Deletion, Store!StoreNext
<1>4. CASE UNCHANGED vars
  BY <1>4 DEF vars, storeVars
<1> QED
  BY <1>1, <1>2, <1>3, <1>4 DEF Next

\* The store keeps a log of checkpoints per thread, however many runs save to it
\* while clients delete from it.
THEOREM StoreStaysALog == Spec => ImplementsLog
<1>1. Init => Store!Log!Init
  BY StoreFacts!LogsStart
  DEF Init, Store!StoreInit, Store!Log!Init, Store!Logs,
      StoreFacts!StoreInit, StoreFacts!Log!Init, StoreFacts!Logs
<1>2. IndInv /\ [Next]_vars => [Store!Log!Next]_(Store!Logs)
  <2> SUFFICES ASSUME IndInv, [Next]_vars
               PROVE  [Store!Log!Next]_(Store!Logs)
    OBVIOUS
  <2>1. Store!StoreTypeOK /\ Store!StoreInv /\ [Store!StoreNext]_storeVars
    BY StoreMoves DEF IndInv
  <2>2. StoreFacts!StoreTypeOK /\ StoreFacts!StoreInv
    BY <2>1
    DEF StoreFacts!StoreTypeOK, StoreFacts!StoreInv, StoreFacts!Checkpoint, StoreFacts!Stored,
        StoreFacts!ListsAreSound, StoreFacts!ListsAreComplete, StoreFacts!ListsAreOrdered,
        StoreFacts!ToSet,
        Store!StoreTypeOK, Store!StoreInv, Store!Checkpoint,
        Store!ListsAreSound, Store!ListsAreComplete, Store!ListsAreOrdered, Store!ToSet
  <2>3. [StoreFacts!StoreNext]_(StoreFacts!storeVars)
    BY <2>1
    DEF StoreFacts!StoreNext, StoreFacts!Save, StoreFacts!Delete, StoreFacts!DeleteThread,
        StoreFacts!Stored, StoreFacts!Checkpoint, StoreFacts!Retain, StoreFacts!Forget,
        StoreFacts!RemoveAt, StoreFacts!ToSet, StoreFacts!storeVars, storeVars,
        Store!StoreNext, Store!Save, Store!Delete, Store!DeleteThread,
        Store!Checkpoint, Store!Retain, Store!Forget, Store!RemoveAt, Store!ToSet
  <2>4. [StoreFacts!Log!Next]_(StoreFacts!Logs)
    BY <2>2, <2>3, StoreFacts!StepIsLogged
  <2>5. StoreFacts!Logs = Store!Logs /\ (StoreFacts!Logs)' = (Store!Logs)'
    BY DEF StoreFacts!Logs, Store!Logs
  <2>6. StoreFacts!Checkpoint = Store!Checkpoint
    BY DEF StoreFacts!Checkpoint, Store!Checkpoint
  <2>7. ASSUME NEW t \in Threads, StoreFacts!Log!Save(t)
        PROVE  Store!Log!Save(t)
    BY <2>5, <2>6, <2>7 DEF StoreFacts!Log!Save, Store!Log!Save
  <2>8. ASSUME NEW t \in Threads, StoreFacts!Log!Delete(t)
        PROVE  Store!Log!Delete(t)
    BY <2>5, <2>8 DEF StoreFacts!Log!Delete, StoreFacts!Log!RemoveAt,
                      Store!Log!Delete, Store!Log!RemoveAt
  <2>9. ASSUME NEW t \in Threads, StoreFacts!Log!DeleteThread(t)
        PROVE  Store!Log!DeleteThread(t)
    BY <2>5, <2>9 DEF StoreFacts!Log!DeleteThread, Store!Log!DeleteThread
  <2>10. ASSUME StoreFacts!Log!Lose PROVE Store!Log!Lose
    BY <2>5, <2>10 DEF StoreFacts!Log!Lose, Store!Log!Lose
  <2> QED
    BY <2>4, <2>5, <2>7, <2>8, <2>9, <2>10 DEF StoreFacts!Log!Next, Store!Log!Next
<1> QED
  BY <1>1, <1>2, Inductive, PTL DEF Spec, ImplementsLog, Store!ImplementsLog, Store!Log!Spec
=============================================================================
