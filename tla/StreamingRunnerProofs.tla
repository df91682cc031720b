------------------------ MODULE StreamingRunnerProofs ------------------------
(***************************************************************************)
(* For every graph that compiles, any number of calls, threads, handlers   *)
(* and any capacity: who follows the events of a thread knows where its    *)
(* run is, the newest event reaches every handler however far it lags, and *)
(* apart from its events and checkpoints the runner is the plain run loop. *)
(***************************************************************************)
EXTENDS StreamingRunner, TLAPS, SequenceTheorems, FiniteSetTheorems

StoreFacts == INSTANCE MemoryCheckpointerProofs
                WITH NodeNames <- Names, SavedState <- AgentState

USE DEF Store!Stored

-----------------------------------------------------------------------------
\* The inductive invariant of the runs, the store and the views: what one run
\* may look like in each phase, at most one active run per thread, and views
\* that show it.

View == [status : {"unknown", "running", "completed", "error"}, node : Names,
         inside : BOOLEAN, iters : Nat, saved : Nat]

Shows(view, run) ==
  /\ view.node = run.node
  /\ view.iters = run.iters
  /\ view.inside <=> run.phase \in {"entered", "exec"}
  /\ view.status = CASE run.phase = "ending" -> "completed"
                     [] run.phase = "limit"  -> "error"
                     [] OTHER                -> "running"

Resumable(t, saved) == saved # 0 => saved \in Store!Stored /\ checkpoints[saved].thread = t

RunOK(run) ==
  /\ run \in Run
  /\ run.phase \in Active => run.thread \in Threads
  /\ run.phase # "done" => run.outcome = "none"
  /\ run.phase = "idle" => run.iters = 0 /\ run.node = Entry
  /\ run.phase \in {"entered", "exec"} => run.node \in Nodes /\ run.iters < MaxIterations
  /\ run.phase = "ending" => run.node = END
  /\ run.phase = "limit" => run.node # END /\ run.iters >= MaxIterations

\* No run but r works on thread t.
Alone(r, t) == \A q \in Runs \ {r} : runs[q].phase \in Active => runs[q].thread # t

Seen == \A t \in Threads : /\ views[t] \in View
                           /\ Resumable(t, views[t].saved)
                           /\ \A r \in Current(t) : Shows(views[t], runs[r])

IndInv ==
  /\ Store!StoreTypeOK
  /\ Store!StoreInv
  /\ runs = [r \in Runs |-> runs[r]]
  /\ \A r \in Runs : RunOK(runs[r])
  /\ \A r \in Runs : runs[r].phase \in Active => Alone(r, runs[r].thread)
  /\ views = [t \in Threads |-> views[t]]
  /\ Seen

-----------------------------------------------------------------------------
\* What one event tells a follower.

LEMMA ViewChanges ==
  ASSUME NEW v \in View
  PROVE  /\ \A x \in {"running", "completed", "error"} : [v EXCEPT !.status = x] \in View
         /\ \A x \in Names : [v EXCEPT !.node = x] \in View
         /\ \A x \in BOOLEAN : [v EXCEPT !.inside = x] \in View
         /\ \A x \in Nat : [v EXCEPT !.iters = x] \in View
BY DEF View

LEMMA Follows ==
  ASSUME NEW v \in View
  PROVE  /\ \A id \in Nat : LET w == Followed(v, Restored(id)) IN
              w \in View /\ w.saved = id
         /\ \A n \in Names : LET w == Followed(v, Started(n)) IN
              /\ w \in View /\ w.saved = v.saved
              /\ w.node = n /\ w.iters = 0 /\ w.inside = FALSE /\ w.status = "running"
         /\ \A n \in Names, i \in Nat : LET w == Followed(v, Entered(n, i)) IN
              /\ w \in View /\ w.saved = v.saved
              /\ w.node = n /\ w.iters = i /\ w.inside = TRUE /\ w.status = v.status
         /\ \A id \in Nat : LET w == Followed(v, Saved(id)) IN
              /\ w \in View /\ w.saved = id
              /\ w.node = v.node /\ w.iters = v.iters /\ w.inside = v.inside /\ w.status = v.status
         /\ \A n, m \in Names : LET w == Followed(v, Exited(n, m)) IN
              /\ w \in View /\ w.saved = v.saved
              /\ w.node = m /\ w.iters = v.iters + 1 /\ w.inside = FALSE /\ w.status = v.status
         /\ \A n \in Names : LET w == Followed(v, Failed(n)) IN
              w \in View /\ w.saved = v.saved
         /\ LET w == Followed(v, Error) IN
              /\ w \in View /\ w.saved = v.saved
              /\ w.node = v.node /\ w.iters = v.iters /\ w.inside = v.inside /\ w.status = "error"
         /\ \A i \in Nat : LET w == Followed(v, Completed(i)) IN
              /\ w \in View /\ w.saved = v.saved
              /\ w.node = v.node /\ w.iters = i /\ w.inside = v.inside /\ w.status = "completed"
<1>1. \A id \in Nat : Followed(v, Restored(id)) = [v EXCEPT !.saved = id]
  BY DEF Followed, Restored
<1>2. \A n \in Names : Followed(v, Started(n)) =
        [v EXCEPT !.status = "running", !.node = n, !.iters = 0, !.inside = FALSE]
  BY DEF Followed, Started
<1>3. \A n \in Names, i \in Nat : Followed(v, Entered(n, i)) =
        [v EXCEPT !.node = n, !.iters = i, !.inside = TRUE]
  BY DEF Followed, Entered
<1>4. \A id \in Nat : Followed(v, Saved(id)) = [v EXCEPT !.saved = id]
  BY DEF Followed, Saved
<1>5. \A n, m \in Names : Followed(v, Exited(n, m)) =
        [v EXCEPT !.node = m, !.iters = @ + 1, !.inside = FALSE]
  BY DEF Followed, Exited
<1>6. \A n \in Names : Followed(v, Failed(n)) = [v EXCEPT !.inside = FALSE]
  BY DEF Followed, Failed
<1>7. Followed(v, Error) = [v EXCEPT !.status = "error"]
  BY DEF Followed, Error
<1>8. \A i \in Nat : Followed(v, Completed(i)) = [v EXCEPT !.status = "completed", !.iters = i]
  BY DEF Followed, Completed
<1>11. \A id \in Nat : LET w == Followed(v, Restored(id)) IN w \in View /\ w.saved = id
  BY <1>1 DEF View
<1>12. \A n \in Names : LET w == Followed(v, Started(n)) IN
         /\ w \in View /\ w.saved = v.saved
         /\ w.node = n /\ w.iters = 0 /\ w.inside = FALSE /\ w.status = "running"
  <2> TAKE n \in Names
  <2> DEFINE a == [v EXCEPT !.status = "running"]
             b == [a EXCEPT !.node = n]
             c == [b EXCEPT !.iters = 0]
             w == [c EXCEPT !.inside = FALSE]
  <2>1. a \in View /\ b \in View /\ c \in View /\ w \in View
    BY ViewChanges
  <2>2. Followed(v, Started(n)) = w
    BY <1>2
  <2>3. w.saved = v.saved /\ w.node = n /\ w.iters = 0 /\ w.inside = FALSE /\ w.status = "running"
    BY DEF View
  <2> QED
    BY <2>1, <2>2, <2>3
<1>13. \A n \in Names, i \in Nat : LET w == Followed(v, Entered(n, i)) IN
         /\ w \in View /\ w.saved = v.saved
         /\ w.node = n /\ w.iters = i /\ w.inside = TRUE /\ w.status = v.status
  <2> TAKE n \in Names, i \in Nat
  <2> DEFINE a == [v EXCEPT !.node = n]
             b == [a EXCEPT !.iters = i]
             w == [b EXCEPT !.inside = TRUE]
  <2>1. a \in View /\ b \in View /\ w \in View
    BY ViewChanges
  <2>2. Followed(v, Entered(n, i)) = w
    BY <1>3
  <2>3. w.saved = v.saved /\ w.node = n /\ w.iters = i /\ w.inside = TRUE /\ w.status = v.status
    BY DEF View
  <2> QED
    BY <2>1, <2>2, <2>3
<1>14. \A id \in Nat : LET w == Followed(v, Saved(id)) IN
         /\ w \in View /\ w.saved = id
         /\ w.node = v.node /\ w.iters = v.iters /\ w.inside = v.inside /\ w.status = v.status
  BY <1>4 DEF View
<1>15. \A n, m \in Names : LET w == Followed(v, Exited(n, m)) IN
         /\ w \in View /\ w.saved = v.saved
         /\ w.node = m /\ w.iters = v.iters + 1 /\ w.inside = FALSE /\ w.status = v.status
  <2> TAKE n, m \in Names
  <2> DEFINE more == v.iters + 1
             a == [v EXCEPT !.node = m]
             b == [a EXCEPT !.iters = more]
             w == [b EXCEPT !.inside = FALSE]
  <2>0. more \in Nat
    BY DEF View
  <2>1. a \in View /\ b \in View /\ w \in View
    <3> HIDE DEF more
    <3> QED
      BY <2>0, ViewChanges
  <2>2. Followed(v, Exited(n, m)) = w
    BY <1>5 DEF View
  <2>3. w.saved = v.saved /\ w.node = m /\ w.iters = v.iters + 1 /\ w.inside = FALSE /\ w.status = v.status
    BY DEF View
  <2> QED
    BY <2>1, <2>2, <2>3
<1>16. \A n \in Names : LET w == Followed(v, Failed(n)) IN w \in View /\ w.saved = v.saved
  BY <1>6 DEF View
<1>17. LET w == Followed(v, Error) IN
         /\ w \in View /\ w.saved = v.saved
         /\ w.node = v.node /\ w.iters = v.iters /\ w.inside = v.inside /\ w.status = "error"
  BY <1>7 DEF View
<1>18. \A i \in Nat : LET w == Followed(v, Completed(i)) IN
         /\ w \in View /\ w.saved = v.saved
         /\ w.node = v.node /\ w.iters = i /\ w.inside = v.inside /\ w.status = "completed"
  <2> SUFFICES ASSUME NEW i \in Nat, NEW w, w = Followed(v, Completed(i))
               PROVE  /\ w \in View /\ w.saved = v.saved
                      /\ w.node = v.node /\ w.iters = i /\ w.inside = v.inside /\ w.status = "completed"
    OBVIOUS
  <2> QED
    BY <1>8 DEF View
<1> QED
  BY <1>11, <1>12, <1>13, <1>14, <1>15, <1>16, <1>17, <1>18

LEMMA PublishFollowed ==
  ASSUME NEW t, NEW e, Publish(t, <<e>>)
  PROVE  views' = [views EXCEPT ![t] = Followed(views[t], e)]
BY DEF Publish

LEMMA PublishTwoFollowed ==
  ASSUME NEW t, NEW e, NEW f, Publish(t, <<e, f>>)
  PROVE  views' = [views EXCEPT ![t] = Followed(Followed(views[t], e), f)]
BY DEF Publish

-----------------------------------------------------------------------------
\* A step of run r on thread t, which no other run works on: the run goes on as
\* it should, the view is what the events of the step make it, and the store
\* keeps what it has.

Grows == /\ Store!StoreTypeOK' /\ Store!StoreInv'
         /\ \A id \in Store!Stored : id \in Store!Stored' /\ checkpoints'[id] = checkpoints[id]

\* Resumable after the step (its arguments are those of before it).
ResumableThen(t, saved) ==
  saved # 0 => saved \in Store!Stored' /\ checkpoints'[saved].thread = t

LEMMA RunMoves ==
  ASSUME IndInv, NEW r \in Runs, NEW t \in Threads, Alone(r, t), Grows,
         NEW run, runs' = [runs EXCEPT ![r] = run], RunOK(run),
         NEW view \in View, views' = [views EXCEPT ![t] = view], ResumableThen(t, view.saved),
         run.phase \in Active => run.thread = t /\ Shows(view, run),
         runs[r].phase \in Active => runs[r].thread = t
  PROVE  IndInv'
<1>1. /\ runs' = [q \in Runs |-> runs'[q]] /\ runs'[r] = run
      /\ \A q \in Runs \ {r} : runs'[q] = runs[q]
  BY DEF IndInv
<1>2. /\ views' = [s \in Threads |-> views'[s]] /\ views'[t] = view
      /\ \A s \in Threads \ {t} : views'[s] = views[s]
  BY DEF IndInv
<1>3. \A q \in Runs : RunOK(runs'[q])
  BY <1>1 DEF IndInv
<1>4. \A q, p \in Runs : /\ q # p
                         /\ runs'[q].phase \in Active
                         /\ runs'[p].phase \in Active
                         => runs'[q].thread # runs'[p].thread
  <2> SUFFICES ASSUME NEW q \in Runs, NEW p \in Runs, q # p,
                      runs'[q].phase \in Active, runs'[p].phase \in Active
               PROVE  runs'[q].thread # runs'[p].thread
    OBVIOUS
  <2>1. CASE q = r
    BY <2>1, <1>1 DEF Alone
  <2>2. CASE p = r
    BY <2>2, <1>1 DEF Alone
  <2>3. CASE q # r /\ p # r
    BY <2>3, <1>1 DEF Alone, IndInv
  <2> QED
    BY <2>1, <2>2, <2>3
<1>5. \A q \in Runs : runs'[q].phase \in Active => Alone(q, runs[q].thread)'
  BY <1>4 DEF Alone
<1>6. ASSUME NEW s \in Threads
      PROVE  /\ views'[s] \in View
             /\ Resumable(s, views[s].saved)'
             /\ \A q \in Current(s)' : Shows(views'[s], runs'[q])
  <2>1. CASE s = t
    <3>1. \A q \in Current(s)' : q = r /\ run.phase \in Active
      BY <2>1, <1>1 DEF Current, Alone
    <3> QED
      BY <2>1, <3>1, <1>1, <1>2 DEF Resumable, ResumableThen
  <2>2. CASE s # t
    <3>1. views'[s] = views[s] /\ views[s] \in View /\ Resumable(s, views[s].saved)
      BY <2>2, <1>2 DEF IndInv, Seen
    <3>2. Resumable(s, views[s].saved)'
      BY <3>1 DEF Resumable, Grows
    <3>3. ASSUME NEW q \in Current(s)'
          PROVE  q \in Current(s) /\ runs'[q] = runs[q]
      BY <2>2, <1>1 DEF Current
    <3> QED
      BY <3>1, <3>2, <3>3 DEF IndInv, Seen
  <2> QED
    BY <2>1, <2>2
<1>7. Seen'
  BY <1>6 DEF Seen, View, Shows
<1> QED
  BY <1>1, <1>2, <1>3, <1>5, <1>7 DEF IndInv, Grows, RunOK

\* The same for a step that publishes nothing and ends the run.
LEMMA RunStops ==
  ASSUME IndInv, NEW r \in Runs, NEW t \in Threads, Alone(r, t), Grows,
         runs[r].phase \in Active => runs[r].thread = t,
         NEW outcome \in Outcome, Ends(r, outcome), views' = views
  PROVE  IndInv'
<1> DEFINE run == [runs[r] EXCEPT !.phase = "done", !.outcome = outcome]
<1>1. runs' = [runs EXCEPT ![r] = run]
  BY DEF Ends
<1>2. RunOK(run) /\ run.phase \notin Active
  BY DEF IndInv, RunOK, Run, Phases, Active
<1>3. /\ views[t] \in View /\ Resumable(t, views[t].saved)
      /\ views' = [views EXCEPT ![t] = views[t]]
  BY DEF IndInv, Seen
<1>4. ResumableThen(t, views[t].saved)
  BY <1>3 DEF Resumable, ResumableThen, Grows
<1> HIDE DEF run
<1> QED
  BY <1>1, <1>2, <1>3, <1>4, RunMoves

-----------------------------------------------------------------------------

LEMMA InitOK == Init => IndInv
<1> SUFFICES ASSUME Init PROVE IndInv
  OBVIOUS
<1>1. Store!StoreTypeOK /\ Store!StoreInv
  BY StoreFacts!StoreStarts
  DEF Init, StoreFacts!StoreTypeOK, StoreFacts!StoreInv, StoreFacts!Checkpoint,
      StoreFacts!StoreInit, StoreFacts!Stored, StoreFacts!ListsAreSound,
      StoreFacts!ListsAreComplete, StoreFacts!ListsAreOrdered, StoreFacts!ToSet,
      Store!StoreTypeOK, Store!StoreInv, Store!Checkpoint, Store!StoreInit,
      Store!ListsAreSound, Store!ListsAreComplete, Store!ListsAreOrdered, Store!ToSet
<1>2. Entry \in Names
  BY GraphCompiles DEF Compiles, Names
<1>3. NotStarted \in Run
  BY <1>2, MaxIterationsIsNat, EmptySeq
  DEF NotStarted, Run, Phases, Outcome, AgentState, FreshState
<1>4. RunOK(NotStarted) /\ NotStarted.phase \notin Active
  BY <1>3 DEF RunOK, NotStarted, Active
<1>5. Unknown \in View /\ Unknown.saved = 0
  BY <1>2 DEF Unknown, View
<1>6. runs = [r \in Runs |-> NotStarted] /\ views = [t \in Threads |-> Unknown]
  BY DEF Init
<1> HIDE DEF NotStarted, Unknown
<1>7. Seen
  BY <1>4, <1>5, <1>6 DEF Seen, Current, Resumable
<1> QED
  BY <1>1, <1>4, <1>6, <1>7 DEF IndInv

\* What a save does to the store, from the proofs about the store.
LEMMA SaveGrows ==
  ASSUME IndInv, NEW r \in Runs, runs[r].phase \in Active, Store!Save(Here(r))
  PROVE  /\ Grows
         /\ lastId + 1 \in Nat /\ lastId + 1 \in Store!Stored'
         /\ checkpoints'[lastId + 1].thread = runs[r].thread
<1>1. Here(r) \in Store!Checkpoint
  BY DEF IndInv, RunOK, Here, Run, Store!Checkpoint
<1>2. PICK cp \in Store!Checkpoint : cp = Here(r)
  BY <1>1
<1>3. Store!StoreTypeOK' /\ Store!StoreInv'
  <2>1. Store!StoreTypeOK /\ Store!StoreInv /\ Store!Save(cp)
    BY <1>2 DEF IndInv
  <2> QED
    BY <2>1, StoreFacts!SaveKeeps
    DEF StoreFacts!StoreTypeOK, StoreFacts!StoreInv, StoreFacts!Checkpoint, StoreFacts!Save,
        StoreFacts!Stored, StoreFacts!ListsAreSound, StoreFacts!ListsAreComplete,
        StoreFacts!ListsAreOrdered, StoreFacts!ToSet,
        Store!StoreTypeOK, Store!StoreInv, Store!Checkpoint, Store!Save,
        Store!ListsAreSound, Store!ListsAreComplete, Store!ListsAreOrdered, Store!ToSet
<1>4. lastId \in Nat /\ Store!Stored \subseteq 1 .. lastId
  BY DEF IndInv, Store!StoreTypeOK
<1>5. /\ Store!Stored' = Store!Stored \cup {lastId + 1}
      /\ checkpoints'[lastId + 1] = Here(r)
      /\ \A id \in Store!Stored : checkpoints'[id] = checkpoints[id]
  BY <1>4 DEF Store!Save
<1> QED
  BY <1>3, <1>4, <1>5 DEF Grows, Here

LEMMA StoreRests ==
  ASSUME IndInv, UNCHANGED storeVars
  PROVE  Grows
BY DEF IndInv, Grows, storeVars, Store!StoreTypeOK, Store!StoreInv, Store!ListsAreSound,
       Store!ListsAreComplete, Store!ListsAreOrdered

\* A run is started on a thread that nobody works on.
LEMMA BeginOK ==
  ASSUME IndInv, NEW r \in Runs, NEW t \in Threads, runs[r].phase = "idle", Free(t),
         NEW node \in Names, NEW st \in AgentState, Begin(r, t, node, st),
         NEW v \in View, Resumable(t, v.saved),
         views' = [views EXCEPT ![t] = Followed(v, Started(node))],
         UNCHANGED storeVars
  PROVE  IndInv'
<1> DEFINE run  == [runs[r] EXCEPT !.phase = "top", !.thread = t, !.node = node, !.st = st]
           view == Followed(v, Started(node))
<1>1. runs' = [runs EXCEPT ![r] = run] /\ views' = [views EXCEPT ![t] = view]
  BY DEF Begin
<1>2. RunOK(runs[r])
  BY DEF IndInv
<1>3. /\ RunOK(run) /\ run.thread = t /\ run.node = node
      /\ run.iters = 0 /\ run.phase = "top"
  BY <1>2 DEF RunOK, Run, Phases, Active
<1>4. /\ view \in View /\ view.saved = v.saved
      /\ view.node = node /\ view.iters = 0 /\ view.inside = FALSE /\ view.status = "running"
  BY Follows
<1> HIDE DEF run, view
<1>5. Shows(view, run)
  BY <1>3, <1>4 DEF Shows
<1>6. ResumableThen(t, view.saved)
  BY <1>4 DEF Resumable, ResumableThen, storeVars
<1>7. Alone(r, t) /\ runs[r].phase \notin Active
  BY DEF Free, Alone, Active
<1> QED
  BY <1>1, <1>3, <1>4, <1>5, <1>6, <1>7, StoreRests, RunMoves

LEMMA StartOK ==
  ASSUME IndInv, NEW r \in Runs, NEW t \in Threads, Invoke(r, t) \/ Resume(r, t)
  PROVE  IndInv'
<1>0. views[t] \in View /\ Resumable(t, views[t].saved) /\ lastId \in Nat
  BY DEF IndInv, Seen, Store!StoreTypeOK
<1>1. CASE Invoke(r, t)
  <2>1. Entry \in Names /\ FreshState \in AgentState
    BY GraphCompiles, EmptySeq DEF Compiles, Names, FreshState, AgentState
  <2>2. views' = [views EXCEPT ![t] = Followed(views[t], Started(Entry))]
    BY <1>1, PublishFollowed DEF Invoke
  <2> QED
    BY <1>0, <1>1, <2>1, <2>2, BeginOK DEF Invoke
<1>2. CASE Resume(r, t)
  <2> DEFINE id == Store!Latest(t)
             cp == checkpoints[id]
  <2>1. CASE id \in Store!Stored
    <3>1. id \in Nat /\ cp.thread = t
      <4>1. id # 0 /\ id \in Nat
        BY <1>0, <2>1 DEF IndInv, Store!StoreTypeOK
      <4>2. threads[t] \in Seq(1 .. lastId) /\ threads[t] # <<>> /\ id = threads[t][Len(threads[t])]
        BY <4>1 DEF IndInv, Store!StoreTypeOK, Store!Latest
      <4>3. Len(threads[t]) \in 1 .. Len(threads[t])
        BY <4>2, EmptySeq
      <4> QED
        BY <4>1, <4>2, <4>3 DEF IndInv, Store!StoreInv, Store!ListsAreSound
    <3>2. cp.node \in Names /\ cp.st \in AgentState
      BY <2>1 DEF IndInv, Store!StoreTypeOK, Store!Checkpoint
    <3>3. /\ runs[r].phase = "idle" /\ Free(t) /\ UNCHANGED storeVars
          /\ Begin(r, t, cp.node, cp.st)
          /\ Publish(t, <<Restored(id), Started(cp.node)>>)
      BY <1>2, <2>1 DEF Resume
    <3> DEFINE v == Followed(views[t], Restored(id))
    <3>4. v \in View /\ v.saved = id
      <4>1. \A x \in Nat : LET w == Followed(views[t], Restored(x)) IN w \in View /\ w.saved = x
        BY <1>0, Follows
      <4> QED
        BY <3>1, <4>1
    <3>5. Resumable(t, v.saved)
      BY <2>1, <3>1, <3>4 DEF Resumable, ResumableThen
    <3>6. views' = [views EXCEPT ![t] = Followed(v, Started(cp.node))]
      <4>1. PICK a, b : a = Restored(id) /\ b = Started(cp.node)
        OBVIOUS
      <4>2. Publish(t, <<a, b>>)
        BY <3>3, <4>1
      <4> HIDE DEF cp, id
      <4> QED
        BY <4>1, <4>2, PublishTwoFollowed
    <3> HIDE DEF cp, v
    <3> QED
      BY <3>2, <3>3, <3>4, <3>5, <3>6, BeginOK
  <2>2. CASE id \notin Store!Stored
    <3>1. Alone(r, t) /\ runs[r].phase \notin Active
      BY <1>2 DEF Resume, Free, Alone, Active
    <3>2. Ends(r, "no_checkpoint") /\ views' = views /\ UNCHANGED storeVars
      BY <1>2, <2>2 DEF Resume, Silent
    <3>3. "no_checkpoint" \in Outcome
      BY DEF Outcome
    <3> QED
      BY <3>1, <3>2, <3>3, StoreRests, RunStops
  <2> QED
    BY <2>1, <2>2
<1> QED
  BY <1>1, <1>2

LEMMA LoopOK ==
  ASSUME IndInv, NEW r \in Runs, Loop(r) \/ Dropped(r)
  PROVE  IndInv'
<1> DEFINE t == runs[r].thread
           v == views[t]
<1>0. /\ RunOK(runs[r]) /\ runs[r].phase \in Active /\ runs[r].phase # "done"
      /\ t \in Threads /\ Alone(r, t) /\ runs[r].thread = t
  BY DEF IndInv, RunOK, Active, Loop, Dropped, Finish, HitLimit, MissingNode, Enter, AtTop, Save,
         SaveAtLimit, SaveFails, Execute, NodeFails
<1>1. /\ v \in View /\ Resumable(t, v.saved) /\ Shows(v, runs[r])
  BY <1>0 DEF IndInv, Seen, Current
<1>2. ASSUME NEW outcome \in Outcome, Ends(r, outcome), views' = views, Grows
      PROVE  IndInv'
  BY <1>0, <1>2, RunStops
<1>3. ASSUME Grows, NEW e, Publish(t, <<e>>), NEW run, RunOK(run), run.thread = t,
             runs' = [runs EXCEPT ![r] = run], NEW view, view = Followed(v, e),
             view \in View, view.saved = v.saved,
             run.phase \in Active => Shows(view, run)
      PROVE  IndInv'
  <2>1. views' = [views EXCEPT ![t] = view]
    BY <1>3, PublishFollowed
  <2>2. ResumableThen(t, view.saved)
    BY <1>1, <1>3 DEF Resumable, ResumableThen, Grows
  <2> HIDE DEF t
  <2> QED
    BY <1>0, <1>3, <2>1, <2>2, RunMoves
<1>4. ASSUME NEW outcome \in Outcome, NEW run, run = [runs[r] EXCEPT !.phase = "done", !.outcome = outcome]
      PROVE  RunOK(run) /\ run.thread = t /\ run.phase \notin Active
  BY <1>0, <1>4 DEF RunOK, Run, Phases, Active
<1>5. ASSUME UNCHANGED storeVars PROVE Grows
  BY <1>5, StoreRests
<1>6. runs[r].node \in Names /\ runs[r].iters \in Nat /\ runs[r].iters \in 0 .. MaxIterations
  BY <1>0, MaxIterationsIsNat DEF RunOK, Run
<1>11. CASE Finish(r)
  <2> DEFINE e    == Completed(runs[r].iters)
             view == Followed(v, e)
  <2>1. Publish(t, <<e>>) /\ Grows /\ runs[r].phase = "top" /\ runs[r].node = END
    BY <1>11, <1>5 DEF Finish, AtTop
  <2>2. /\ view \in View /\ view.saved = v.saved /\ view.node = v.node
        /\ view.iters = runs[r].iters /\ view.inside = v.inside /\ view.status = "completed"
    <3>1. \A i \in Nat : LET w == Followed(v, Completed(i)) IN
            /\ w \in View /\ w.saved = v.saved
            /\ w.node = v.node /\ w.iters = i /\ w.inside = v.inside /\ w.status = "completed"
      BY <1>1, Follows
    <3> QED
      BY <3>1, <1>6
  <2>3. CASE Goes(r, "ending")
    <3> DEFINE run == [runs[r] EXCEPT !.phase = "ending"]
    <3>1. runs' = [runs EXCEPT ![r] = run]
      BY <2>3 DEF Goes
    <3>2. /\ RunOK(run) /\ run.thread = t /\ run.phase = "ending"
          /\ run.node = runs[r].node /\ run.iters = runs[r].iters
      BY <1>0, <2>1 DEF RunOK, Run, Phases, Active
    <3> HIDE DEF run, view, e
    <3>3. Shows(view, run)
      BY <1>1, <2>1, <2>2, <3>2 DEF Shows
    <3> QED
      BY <1>3, <2>1, <2>2, <3>1, <3>2, <3>3 DEF view
  <2>4. CASE Ends(r, "completed")
    <3> DEFINE run == [runs[r] EXCEPT !.phase = "done", !.outcome = "completed"]
    <3>1. runs' = [runs EXCEPT ![r] = run]
      BY <2>4 DEF Ends
    <3>2. RunOK(run) /\ run.thread = t /\ run.phase \notin Active
      BY <1>4 DEF Outcome
    <3> HIDE DEF run, view, e
    <3> QED
      BY <1>3, <2>1, <2>2, <3>1, <3>2 DEF view
  <2> QED
    BY <1>11, <2>3, <2>4 DEF Finish
<1>12. CASE HitLimit(r)
  <2> DEFINE view == Followed(v, Error)
  <2>1. /\ Publish(t, <<Error>>) /\ Grows /\ runs[r].phase = "top"
        /\ runs[r].node # END /\ runs[r].iters >= MaxIterations
    BY <1>12, <1>5 DEF HitLimit, AtTop
  <2>2. /\ view \in View /\ view.saved = v.saved /\ view.node = v.node
        /\ view.iters = v.iters /\ view.inside = v.inside /\ view.status = "error"
    BY <1>1, Follows
  <2>3. CASE Goes(r, "limit")
    <3> DEFINE run == [runs[r] EXCEPT !.phase = "limit"]
    <3>1. runs' = [runs EXCEPT ![r] = run]
      BY <2>3 DEF Goes
    <3>2. /\ RunOK(run) /\ run.thread = t /\ run.phase = "limit"
          /\ run.node = runs[r].node /\ run.iters = runs[r].iters
      BY <1>0, <2>1 DEF RunOK, Run, Phases, Active
    <3> HIDE DEF run, view
    <3>3. Shows(view, run)
      BY <1>1, <2>1, <2>2, <3>2 DEF Shows
    <3> QED
      BY <1>3, <2>1, <2>2, <3>1, <3>2, <3>3 DEF view
  <2>4. CASE Ends(r, "limit")
    <3> DEFINE run == [runs[r] EXCEPT !.phase = "done", !.outcome = "limit"]
    <3>1. runs' = [runs EXCEPT ![r] = run]
      BY <2>4 DEF Ends
    <3>2. RunOK(run) /\ run.thread = t /\ run.phase \notin Active
      BY <1>4 DEF Outcome
    <3> HIDE DEF run, view
    <3> QED
      BY <1>3, <2>1, <2>2, <3>1, <3>2 DEF view
  <2> QED
    BY <1>12, <2>3, <2>4 DEF HitLimit
<1>13. CASE MissingNode(r)
  BY <1>13, <1>2, <1>5 DEF MissingNode, Silent, Outcome
<1>14. CASE Enter(r)
  <2> DEFINE e    == Entered(runs[r].node, runs[r].iters)
             view == Followed(v, e)
             next == IF Saves[r] = "every node" THEN "entered" ELSE "exec"
             run  == [runs[r] EXCEPT !.phase = next]
  <2>1. /\ Publish(t, <<e>>) /\ Grows /\ runs[r].phase = "top" /\ runs' = [runs EXCEPT ![r] = run]
        /\ runs[r].node \in Nodes /\ runs[r].iters < MaxIterations
    BY <1>14, <1>5 DEF Enter, AtTop, MayExecute, Goes
  <2>2. /\ view \in View /\ view.saved = v.saved /\ view.node = runs[r].node
        /\ view.iters = runs[r].iters /\ view.inside = TRUE /\ view.status = v.status
    <3>1. \A n \in Names, i \in Nat : LET w == Followed(v, Entered(n, i)) IN
            /\ w \in View /\ w.saved = v.saved
            /\ w.node = n /\ w.iters = i /\ w.inside = TRUE /\ w.status = v.status
      BY <1>1, Follows
    <3> QED
      BY <3>1, <1>6
  <2>3. next \in {"entered", "exec"}
    OBVIOUS
  <2> HIDE DEF next
  <2>4. /\ RunOK(run) /\ run.thread = t /\ run.phase = next
        /\ run.node = runs[r].node /\ run.iters = runs[r].iters
    BY <1>0, <2>1, <2>3 DEF RunOK, Run, Phases, Active
  <2> HIDE DEF run, view, e
  <2>5. Shows(view, run)
    BY <1>1, <2>1, <2>2, <2>3, <2>4 DEF Shows
  <2> QED
    BY <1>3, <2>1, <2>2, <2>4, <2>5 DEF view
<1>15. CASE Save(r)
  <2> DEFINE e    == Saved(lastId + 1)
             view == Followed(v, e)
  <2>1. /\ Store!Save(Here(r)) /\ Publish(t, <<e>>) /\ runs[r].phase \in {"entered", "ending"}
    BY <1>15 DEF Save
  <2>2. /\ Grows /\ lastId + 1 \in Nat /\ lastId + 1 \in Store!Stored'
        /\ checkpoints'[lastId + 1].thread = t
    BY <1>0, <2>1, SaveGrows
  <2>3. /\ view \in View /\ view.saved = lastId + 1 /\ view.node = v.node
        /\ view.iters = v.iters /\ view.inside = v.inside /\ view.status = v.status
    <3>1. \A id \in Nat : LET w == Followed(v, Saved(id)) IN
            /\ w \in View /\ w.saved = id
            /\ w.node = v.node /\ w.iters = v.iters /\ w.inside = v.inside /\ w.status = v.status
      BY <1>1, Follows
    <3> QED
      BY <3>1, <2>2
  <2>4. ResumableThen(t, view.saved)
    BY <2>2, <2>3 DEF Resumable, ResumableThen
  <2>5. views' = [views EXCEPT ![t] = view]
    BY <2>1, PublishFollowed
  <2>6. CASE runs[r].phase = "entered"
    <3> DEFINE run == [runs[r] EXCEPT !.phase = "exec"]
    <3>1. runs' = [runs EXCEPT ![r] = run]
      BY <1>15, <2>6 DEF Save, Goes
    <3>2. /\ RunOK(run) /\ run.thread = t /\ run.phase = "exec"
          /\ run.node = runs[r].node /\ run.iters = runs[r].iters
      BY <1>0, <2>6 DEF RunOK, Run, Phases, Active
    <3> HIDE DEF run, view
    <3>3. Shows(view, run)
      BY <1>1, <2>3, <2>6, <3>2 DEF Shows
    <3> QED
      BY <1>0, <2>2, <2>3, <2>4, <2>5, <3>1, <3>2, <3>3, RunMoves
  <2>7. CASE runs[r].phase = "ending"
    <3> DEFINE run == [runs[r] EXCEPT !.phase = "done", !.outcome = "completed"]
    <3>1. runs' = [runs EXCEPT ![r] = run]
      BY <1>15, <2>7 DEF Save, Ends
    <3>2. RunOK(run) /\ run.phase \notin Active
      BY <1>4 DEF Outcome
    <3> HIDE DEF run, view
    <3> QED
      BY <1>0, <2>2, <2>3, <2>4, <2>5, <3>1, <3>2, RunMoves
  <2> QED
    BY <2>1, <2>6, <2>7
<1>16. CASE SaveAtLimit(r)
  BY <1>0, <1>16, <1>2, SaveGrows DEF SaveAtLimit, Silent, Outcome
<1>17. CASE SaveFails(r)
  BY <1>0, <1>17, <1>2, <1>5, SaveGrows DEF SaveFails, Silent, Outcome
<1>18. CASE Execute(r)
  <2> DEFINE old == runs[r].st
             new == [iteration |-> old.iteration + 1, path |-> Append(old.path, runs[r].node)]
             Ran(next) ==
               /\ runs' = [runs EXCEPT ![r].phase = "top",
                                       ![r].st    = [iteration |-> @.iteration + 1,
                                                     path |-> Append(@.path, runs[r].node)],
                                       ![r].iters = @ + 1,
                                       ![r].node  = next]
               /\ Publish(runs[r].thread, <<Exited(runs[r].node, next)>>)
  <2>1. PICK out \in Outputs[runs[r].node] :
          \E next \in Successors(runs[r].node, out) : Ran(next)
    BY <1>18 DEF Execute
  <2>2. PICK next \in Successors(runs[r].node, out) : Ran(next)
    BY <2>1
  <2> DEFINE run  == [runs[r] EXCEPT !.phase = "top", !.st = new, !.iters = @ + 1, !.node = next]
             e    == Exited(runs[r].node, next)
             view == Followed(v, e)
  <2>3. /\ runs[r].phase = "exec" /\ runs[r].node \in Nodes /\ runs[r].iters < MaxIterations
        /\ old.path \in Seq(Nodes) /\ old.iteration \in Nat
    BY <1>0, <1>18 DEF Execute, RunOK, Run, AgentState
  <2>4. next \in Names
    BY <2>2, <2>3 DEF Names, After
  <2>5. new \in AgentState
    BY <2>3, AppendProperties DEF AgentState
  <2>6. Publish(t, <<e>>) /\ Grows
    BY <1>18, <1>5, <2>2 DEF Execute
  <2>7. runs' = [runs EXCEPT ![r] = run]
    BY <2>2
  <2> HIDE DEF new
  <2>8. /\ RunOK(run) /\ run.thread = t /\ run.phase = "top"
        /\ run.node = next /\ run.iters = runs[r].iters + 1
    <3>1. runs[r].iters + 1 \in 0 .. MaxIterations
      BY <1>6, <2>3, MaxIterationsIsNat
    <3> QED
      BY <1>0, <2>3, <2>4, <2>5, <3>1 DEF RunOK, Run, Phases, Active
  <2>9. /\ view \in View /\ view.saved = v.saved /\ view.node = next
        /\ view.iters = v.iters + 1 /\ view.inside = FALSE /\ view.status = v.status
    <3>1. \A n, m \in Names : LET w == Followed(v, Exited(n, m)) IN
            /\ w \in View /\ w.saved = v.saved
            /\ w.node = m /\ w.iters = v.iters + 1 /\ w.inside = FALSE /\ w.status = v.status
      BY <1>1, Follows
    <3> QED
      BY <3>1, <1>6, <2>4
  <2> HIDE DEF run, view, e
  <2>10. Shows(view, run)
    BY <1>1, <2>3, <2>8, <2>9 DEF Shows
  <2> QED
    BY <1>3, <2>6, <2>7, <2>8, <2>9, <2>10 DEF view
<1>19. CASE NodeFails(r)
  <2> DEFINE e    == Failed(runs[r].node)
             w    == Followed(v, e)
             view == Followed(w, Error)
             run  == [runs[r] EXCEPT !.phase = "done", !.outcome = "node_failed"]
  <2>1. Publish(t, <<e, Error>>) /\ Grows /\ runs' = [runs EXCEPT ![r] = run]
    BY <1>19, <1>5 DEF NodeFails, Ends
  <2>2. RunOK(run) /\ run.phase \notin Active
    BY <1>4 DEF Outcome
  <2>3. w \in View /\ w.saved = v.saved
    <3>1. \A n \in Names : LET x == Followed(v, Failed(n)) IN x \in View /\ x.saved = v.saved
      BY <1>1, Follows
    <3> QED
      BY <3>1, <1>6
  <2>4. view \in View /\ view.saved = v.saved
    <3> HIDE DEF w
    <3> QED
      BY <2>3, Follows
  <2>5. views' = [views EXCEPT ![t] = view]
    <3> HIDE DEF e
    <3> QED
      BY <2>1, PublishTwoFollowed
  <2> HIDE DEF view, run
  <2>6. ResumableThen(t, view.saved)
    BY <1>1, <2>1, <2>4 DEF Resumable, ResumableThen, Grows
  <2> QED
    BY <1>0, <2>1, <2>2, <2>4, <2>5, <2>6, RunMoves
<1>20. CASE Dropped(r)
  BY <1>20, <1>2, <1>5 DEF Dropped, Silent, Outcome
<1> QED
  BY <1>11, <1>12, <1>13, <1>14, <1>15, <1>16, <1>17, <1>18, <1>19, <1>20 DEF Loop

LEMMA NextOK == IndInv /\ [Next]_vars => IndInv'
<1> SUFFICES ASSUME IndInv, [Next]_vars PROVE IndInv'
  OBVIOUS
<1>1. ASSUME NEW r \in Runs, NEW t \in Threads, Invoke(r, t) \/ Resume(r, t)
      PROVE  IndInv'
  BY <1>1, StartOK
<1>2. ASSUME NEW r \in Runs, Loop(r) \/ Dropped(r)
      PROVE  IndInv'
  BY <1>2, LoopOK
<1>3. CASE Subscription \/ UNCHANGED vars
  <2>1. UNCHANGED <<runs, checkpoints, threads, lastId, views>>
    BY <1>3 DEF Subscription, vars, storeVars
  <2> QED
    BY <2>1 DEF IndInv, Store!StoreTypeOK, Store!StoreInv, Store!ListsAreSound,
       Store!ListsAreComplete, Store!ListsAreOrdered, RunOK, Alone, Seen, Resumable, Current, Shows
<1> QED
  BY <1>1, <1>2, <1>3 DEF Next

THEOREM Inductive == Spec => []IndInv
<1> QED
  BY InitOK, NextOK, PTL DEF Spec

\* The events of a thread tell who follows them, at every moment, where its run
\* is, and of checkpoints that can be resumed from.
THEOREM FollowersStayInformed == Spec => []FollowersKnow
<1>1. IndInv => FollowersKnow
  BY DEF IndInv, Seen, Shows, Resumable, FollowersKnow
<1> QED
  BY <1>1, Inductive, PTL

-----------------------------------------------------------------------------
\* The channel and its receivers.

\* What can be sent.
Event ==
  [kind : {"restored", "saved"}, id : Nat] \cup
  [kind : {"started", "failed"}, node : Names] \cup
  [kind : {"entered"}, node : Names, iteration : Nat] \cup
  [kind : {"exited"}, node : Names, next : Names] \cup
  [kind : {"completed"}, iterations : Nat] \cup
  [kind : {"error"}]

Receiver == [on : BOOLEAN, unread : Nat, overwritten : BOOLEAN, lossless : BOOLEAN,
             heard : Event \cup {Bus!NoEvent}]

\* A receiver is never further behind than the channel reaches back, and one that
\* has nothing left to read holds the newest event, if any.
ReceiverOK(receiver) ==
  /\ receiver \in Receiver
  /\ receiver.unread <= Len(channel)
  /\ ~receiver.on => receiver.unread = 0 /\ receiver.heard = Bus!NoEvent
  /\ receiver.unread = 0 => receiver.heard \in {Bus!NoEvent, Bus!Newest}

BusInv ==
  /\ channel \in Seq(Event)
  /\ Len(channel) <= Capacity
  /\ receivers = [s \in Subscribers |-> receivers[s]]
  /\ \A s \in Subscribers : ReceiverOK(receivers[s])

\* Every event a step publishes is one of these.
LEMMA EventsAreTyped ==
  ASSUME IndInv, NEW r \in Runs, NEW t \in Threads,
         Invoke(r, t) \/ Resume(r, t) \/ Loop(r) \/ Dropped(r)
  PROVE  \/ UNCHANGED <<channel, receivers>>
         \/ \E events \in Seq(Event) \ {<<>>} : Bus!Publish(events)
<1> DEFINE Sent(events) == events \in Seq(Event) /\ events # <<>>
<1>0. /\ runs[r].node \in Names /\ runs[r].iters \in Nat /\ lastId \in Nat /\ Entry \in Names
      /\ \A id \in Store!Stored : id \in Nat /\ checkpoints[id].node \in Names
  BY MaxIterationsIsNat, GraphCompiles
  DEF IndInv, RunOK, Run, Store!StoreTypeOK, Store!Checkpoint, Names, Compiles
<1>1. ASSUME NEW e \in Event, NEW u, Publish(u, <<e>>)
      PROVE  \E events \in Seq(Event) \ {<<>>} : Bus!Publish(events)
  <2>1. <<e>> \in Seq(Event) /\ Len(<<e>>) = 1
    OBVIOUS
  <2>2. <<e>> # <<>>
    BY <2>1, EmptySeq
  <2>3. Bus!Publish(<<e>>)
    BY <1>1 DEF Publish
  <2> QED
    BY <2>1, <2>2, <2>3
<1>2. ASSUME NEW e \in Event, NEW f \in Event, NEW u, Publish(u, <<e, f>>)
      PROVE  \E events \in Seq(Event) \ {<<>>} : Bus!Publish(events)
  <2>1. <<e, f>> \in Seq(Event) /\ Len(<<e, f>>) = 2
    OBVIOUS
  <2>2. <<e, f>> # <<>>
    BY <2>1, EmptySeq
  <2>3. Bus!Publish(<<e, f>>)
    BY <1>2 DEF Publish
  <2> QED
    BY <2>1, <2>2, <2>3
<1>3. /\ \A id \in Nat : Restored(id) \in Event /\ Saved(id) \in Event
      /\ \A n \in Names : Started(n) \in Event /\ Failed(n) \in Event
      /\ \A n \in Names, i \in Nat : Entered(n, i) \in Event
      /\ \A n, m \in Names : Exited(n, m) \in Event
      /\ \A i \in Nat : Completed(i) \in Event
      /\ Error \in Event
  BY DEF Event, Restored, Saved, Started, Failed, Entered, Exited, Completed, Error
<1>4. CASE Invoke(r, t)
  BY <1>4, <1>0, <1>1, <1>3 DEF Invoke
<1>5. CASE Resume(r, t)
  <2> DEFINE id == Store!Latest(t)
  <2>1. CASE id \in Store!Stored
    BY <1>5, <2>1, <1>0, <1>2, <1>3 DEF Resume
  <2> QED
    BY <1>5, <2>1 DEF Resume, Silent
<1>6. CASE Execute(r)
  <2>1. PICK out \in Outputs[runs[r].node] :
          \E next \in Successors(runs[r].node, out) :
            Publish(runs[r].thread, <<Exited(runs[r].node, next)>>)
    BY <1>6 DEF Execute
  <2>2. PICK next \in Successors(runs[r].node, out) :
          Publish(runs[r].thread, <<Exited(runs[r].node, next)>>)
    BY <2>1
  <2>3. next \in Names
    BY <1>6, <2>2 DEF Execute, Names, After, IndInv, RunOK
  <2> QED
    BY <2>2, <2>3, <1>0, <1>1, <1>3
<1>7. CASE Finish(r)
  BY <1>7, <1>0, <1>1, <1>3 DEF Finish
<1>8. CASE HitLimit(r)
  BY <1>8, <1>1, <1>3 DEF HitLimit
<1>9. CASE Enter(r)
  BY <1>9, <1>0, <1>1, <1>3 DEF Enter
<1>10. CASE Save(r)
  BY <1>10, <1>0, <1>1, <1>3 DEF Save
<1>11. CASE NodeFails(r)
  BY <1>11, <1>0, <1>2, <1>3 DEF NodeFails
<1>12. CASE MissingNode(r) \/ SaveAtLimit(r) \/ SaveFails(r) \/ Dropped(r)
  BY <1>12 DEF MissingNode, SaveAtLimit, SaveFails, Dropped, Silent
<1> QED
  BY <1>4, <1>5, <1>6, <1>7, <1>8, <1>9, <1>10, <1>11, <1>12 DEF Loop

LEMMA PublishKeeps ==
  ASSUME BusInv, NEW events \in Seq(Event) \ {<<>>}, Bus!Publish(events)
  PROVE  BusInv'
<1> DEFINE all  == channel \o events
           kept == Bus!Smaller(Capacity, Len(all))
<1>1. /\ all \in Seq(Event) /\ Len(all) = Len(channel) + Len(events)
      /\ Len(channel) \in Nat /\ Len(events) \in Nat /\ Len(events) > 0
  BY EmptySeq DEF BusInv
<1> HIDE DEF all
<1>2. kept \in 1 .. Len(all) /\ kept <= Capacity
  BY <1>1, CapacityIsPositive DEF Bus!Smaller
<1>3. channel' = SubSeq(all, Len(all) - kept + 1, Len(all))
  BY DEF Bus!Publish, all
<1>4. channel' \in Seq(Event) /\ Len(channel') = kept
  BY <1>1, <1>2, <1>3
<1>5. Len(channel) <= kept /\ Len(events) <= Len(all)
  BY <1>1, CapacityIsPositive DEF BusInv, Bus!Smaller
<1>6. ASSUME NEW s \in Subscribers
      PROVE  ReceiverOK(receivers[s])'
  <2> DEFINE old == receivers[s]
             new == receivers'[s]
  <2>0. ReceiverOK(old) /\ old \in Receiver
    BY DEF BusInv, ReceiverOK
  <2>1. CASE ~old.on
    <3>1. new = [old EXCEPT !.lossless = FALSE]
      BY <2>1 DEF Bus!Publish
    <3>2. new \in Receiver /\ ~new.on /\ new.unread = 0 /\ new.heard = Bus!NoEvent
      BY <2>0, <2>1, <3>1 DEF ReceiverOK, Receiver
    <3> QED
      BY <3>2, <1>2, <1>4 DEF ReceiverOK, Receiver
  <2>2. CASE old.on
    <3> DEFINE unread == Bus!Smaller(old.unread + Len(events), Capacity)
               over   == old.overwritten \/ old.unread + Len(events) > Capacity
    <3>1. new = [old EXCEPT !.unread = unread, !.overwritten = over]
      BY <2>2 DEF Bus!Publish
    <3>2. unread \in Nat /\ 0 < unread /\ unread <= kept
      BY <2>0, <1>1, CapacityIsPositive DEF Bus!Smaller, ReceiverOK, Receiver
    <3>3. over \in BOOLEAN
      OBVIOUS
    <3> HIDE DEF unread, over
    <3>4. new \in Receiver /\ new.on /\ new.unread = unread
      BY <2>0, <2>2, <3>1, <3>2, <3>3 DEF Receiver
    <3> QED
      BY <3>2, <3>4, <1>4 DEF ReceiverOK, Receiver
  <2> QED
    BY <2>1, <2>2
<1>7. receivers' = [s \in Subscribers |-> receivers'[s]]
  BY DEF Bus!Publish
<1> QED
  BY <1>2, <1>4, <1>6, <1>7 DEF BusInv, Event

LEMMA HandleKeeps ==
  ASSUME BusInv, NEW s \in Subscribers, Bus!Handle(s)
  PROVE  BusInv'
<1> DEFINE old   == receivers[s]
           event == channel[Len(channel) - old.unread + 1]
           new   == Bus!Read(old, event)
<1>1. /\ ReceiverOK(old) /\ old \in Receiver /\ old.on /\ old.unread > 0 /\ old.unread \in Nat
      /\ receivers' = [receivers EXCEPT ![s] = new] /\ channel' = channel
  BY DEF Bus!Handle, BusInv, ReceiverOK, Receiver
<1>2. Len(channel) \in Nat /\ channel \in Seq(Event) /\ old.unread <= Len(channel)
  BY <1>1 DEF BusInv, ReceiverOK
<1>3. Len(channel) - old.unread + 1 \in 1 .. Len(channel)
  BY <1>1, <1>2
<1>4. event \in Event
  BY <1>2, <1>3
<1>5. old.unread = 1 => event = Bus!Newest
  <2>1. channel # <<>>
    BY <1>2, <1>3, EmptySeq
  <2> QED
    BY <2>1, <1>2 DEF Bus!Newest
<1> HIDE DEF event
<1>6. new \in Receiver /\ new.on = old.on /\ new.unread = old.unread - 1 /\ new.heard = event
  <2> DEFINE less == old.unread - 1
             kept == old.lossless /\ ~old.overwritten
             a == [old EXCEPT !.unread = less]
             b == [a EXCEPT !.overwritten = FALSE]
             c == [b EXCEPT !.lossless = kept]
             d == [c EXCEPT !.heard = event]
  <2>1. less \in Nat /\ kept \in BOOLEAN
    BY <1>1
  <2>2. new = d
    BY <1>1 DEF Bus!Read, Receiver
  <2> HIDE DEF less, kept, new
  <2>3. a \in Receiver /\ a.on = old.on /\ a.unread = less
    BY <1>1, <2>1 DEF Receiver
  <2> HIDE DEF a
  <2>4. b \in Receiver /\ b.on = old.on /\ b.unread = less
    BY <2>3 DEF Receiver
  <2> HIDE DEF b
  <2>5. c \in Receiver /\ c.on = old.on /\ c.unread = less
    BY <2>1, <2>4 DEF Receiver
  <2> HIDE DEF c
  <2>6. d \in Receiver /\ d.on = old.on /\ d.unread = less /\ d.heard = event
    BY <1>4, <2>5 DEF Receiver
  <2> QED
    BY <2>2, <2>6 DEF less
<1> HIDE DEF new
<1>8. ReceiverOK(new)
  BY <1>1, <1>2, <1>5, <1>6 DEF ReceiverOK, Receiver
<1>9. \A q \in Subscribers : ReceiverOK(receivers'[q])
  BY <1>1, <1>8 DEF BusInv
<1>10. \A q \in Subscribers : ReceiverOK(receivers[q])'
  BY <1>1, <1>9 DEF ReceiverOK, Bus!Newest
<1> QED
  BY <1>1, <1>10 DEF BusInv

LEMMA BusKeeps ==
  ASSUME BusInv, Bus!BusNext
  PROVE  BusInv'
<1>1. ASSUME NEW s \in Subscribers, Bus!Handle(s)
      PROVE  BusInv'
  BY <1>1, HandleKeeps
<1>2. ASSUME NEW s \in Subscribers, NEW new \in Receiver, receivers' = [receivers EXCEPT ![s] = new],
             UNCHANGED channel,
             new.unread = 0, new.heard = receivers[s].heard \/ new.heard = Bus!NoEvent,
             ~new.on => new.heard = Bus!NoEvent, receivers[s].unread = 0 \/ new.heard = Bus!NoEvent
      PROVE  BusInv'
  <2>1. ReceiverOK(new)
    BY <1>2 DEF BusInv, ReceiverOK, Receiver
  <2>2. \A q \in Subscribers : ReceiverOK(receivers'[q])
    BY <1>2, <2>1 DEF BusInv
  <2>3. \A q \in Subscribers : ReceiverOK(receivers[q])'
    BY <1>2, <2>2 DEF ReceiverOK, Bus!Newest
  <2> QED
    BY <1>2, <2>3 DEF BusInv
<1>3. ASSUME NEW s \in Subscribers, Bus!Subscribe(s)
      PROVE  BusInv'
  <2> DEFINE new == [receivers[s] EXCEPT !.on = TRUE]
  <2>1. ReceiverOK(receivers[s]) /\ ~receivers[s].on
    BY <1>3 DEF BusInv, Bus!Subscribe
  <2>2. new \in Receiver /\ new.on /\ new.unread = 0 /\ new.heard = receivers[s].heard
    BY <2>1 DEF ReceiverOK, Receiver
  <2>3. receivers' = [receivers EXCEPT ![s] = new] /\ UNCHANGED channel
    BY <1>3 DEF Bus!Subscribe
  <2> HIDE DEF new
  <2> QED
    BY <1>2, <2>1, <2>2, <2>3 DEF ReceiverOK
<1>4. ASSUME NEW s \in Subscribers, Bus!Unsubscribe(s)
      PROVE  BusInv'
  <2> DEFINE new == [Bus!Gone EXCEPT !.lossless = FALSE]
  <2>1. new \in Receiver /\ new.unread = 0 /\ new.heard = Bus!NoEvent
    BY DEF Bus!Gone, Receiver
  <2>2. receivers' = [receivers EXCEPT ![s] = new] /\ UNCHANGED channel
    BY <1>4 DEF Bus!Unsubscribe
  <2> HIDE DEF new
  <2> QED
    BY <1>2, <2>1, <2>2
<1> QED
  BY <1>1, <1>3, <1>4 DEF Bus!BusNext

THEOREM BusInductive == Spec => []BusInv
<1>1. Init => BusInv
  <2> SUFFICES ASSUME Init PROVE BusInv
    OBVIOUS
  <2>1. channel = <<>> /\ receivers = [s \in Subscribers |-> Bus!Gone]
    BY DEF Init, Bus!BusInit
  <2>2. Bus!Gone \in Receiver /\ Bus!Gone.unread = 0 /\ Bus!Gone.heard = Bus!NoEvent
    BY DEF Bus!Gone, Receiver
  <2>3. channel \in Seq(Event) /\ Len(channel) = 0
    BY <2>1, EmptySeq
  <2>4. \A s \in Subscribers : ReceiverOK(receivers[s])
    BY <2>1, <2>2, <2>3 DEF ReceiverOK
  <2> QED
    BY <2>1, <2>3, <2>4, CapacityIsPositive DEF BusInv
<1>2. IndInv /\ BusInv /\ [Next]_vars => BusInv'
  <2> SUFFICES ASSUME IndInv, BusInv, [Next]_vars PROVE BusInv'
    OBVIOUS
  <2>1. CASE UNCHANGED <<channel, receivers>>
    BY <2>1 DEF BusInv, ReceiverOK, Bus!Newest
  <2>2. CASE \E r \in Runs : (\E t \in Threads : Invoke(r, t) \/ Resume(r, t)) \/ Loop(r) \/ Dropped(r)
    <3>1. PICK r \in Runs : (\E t \in Threads : Invoke(r, t) \/ Resume(r, t)) \/ Loop(r) \/ Dropped(r)
      BY <2>2
    <3>2. Loop(r) \/ Dropped(r) => runs[r].phase \in Active
      BY DEF Active, Loop, Dropped, Finish, HitLimit, MissingNode, Enter, AtTop, Save,
             SaveAtLimit, SaveFails, Execute, NodeFails
    <3>3. \E t \in Threads : Invoke(r, t) \/ Resume(r, t) \/ Loop(r) \/ Dropped(r)
      BY <3>1, <3>2 DEF IndInv, RunOK
    <3>4. \/ UNCHANGED <<channel, receivers>>
          \/ \E events \in Seq(Event) \ {<<>>} : Bus!Publish(events)
      BY <3>3, EventsAreTyped
    <3> QED
      BY <3>4, <2>1, PublishKeeps
  <2>3. CASE Subscription
    BY <2>3, BusKeeps DEF Subscription
  <2>4. CASE UNCHANGED vars
    BY <2>1, <2>4 DEF vars
  <2> QED
    BY <2>2, <2>3, <2>4 DEF Next
<1> QED
  BY <1>1, <1>2, Inductive, PTL DEF Spec

\* However far a handler lags, the newest event reaches it.
THEOREM EndsAreHeard == Spec => []TheEndIsHeard
<1>1. BusInv => TheEndIsHeard
  BY DEF BusInv, ReceiverOK, TheEndIsHeard
<1> QED
  BY <1>1, BusInductive, PTL

-----------------------------------------------------------------------------
\* The runner implements the plain run loop: every step of a run is a step of
\* the loop, or none of its business.

LEMMA LoopOperators ==
  /\ Loops!Names = Names
  /\ Loops!AgentState = AgentState
  /\ \A from, out : Loops!Successors(from, out) = Successors(from, out)
<1>1. \A from, out : Loops!Successors(from, out) = Successors(from, out)
  BY DEF Loops!Successors, Loops!NextFor, Loops!Outgoing, Loops!First,
         Successors, NextFor, Outgoing, First
<1>2. \A from : Loops!After(from) = After(from)
  BY <1>1 DEF Loops!After, After
<1>3. Loops!Names = Names
  BY <1>2 DEF Loops!Names, Names
<1> QED
  BY <1>1, <1>3 DEF Loops!AgentState, AgentState

\* One run moves, in the loop as in the runner.
LEMMA MappedStep ==
  ASSUME IndInv, NEW r \in Runs, NEW run, runs' = [runs EXCEPT ![r] = run]
  PROVE  /\ LoopRuns' = [LoopRuns EXCEPT ![r] = LoopRun(run)]
         /\ LoopRuns[r] = LoopRun(runs[r]) /\ LoopRuns'[r] = LoopRun(run)
         /\ DOMAIN LoopRuns = Runs
<1>1. \A q \in Runs : runs'[q] = IF q = r THEN run ELSE runs[q]
  BY DEF IndInv
<1>2. LoopRuns = [q \in Runs |-> LoopRun(runs[q])]
  BY DEF LoopRuns
<1>3. LoopRuns' = [q \in Runs |-> LoopRun(runs'[q])]
  BY DEF LoopRuns, LoopRun, Finished, Limited
<1>4. [LoopRuns EXCEPT ![r] = LoopRun(run)] = [q \in Runs |-> IF q = r THEN LoopRun(run) ELSE LoopRuns[q]]
  BY <1>2
<1> HIDE DEF LoopRuns, LoopRun
<1>5. LoopRuns' = [q \in Runs |-> IF q = r THEN LoopRun(run) ELSE LoopRuns[q]]
  BY <1>1, <1>2, <1>3
<1> QED
  BY <1>1, <1>2, <1>3, <1>4, <1>5

\* The loop does not see a step that leaves what it knows of the run alone.
LEMMA Unseen ==
  ASSUME IndInv, NEW r \in Runs, NEW run, runs' = [runs EXCEPT ![r] = run],
         LoopRun(run) = LoopRun(runs[r])
  PROVE  LoopRuns' = LoopRuns
BY MappedStep DEF LoopRuns

\* A run that starts with a thread, a node and a state enters the loop there.
LEMMA BeginMaps ==
  ASSUME IndInv, NEW r \in Runs, runs[r].phase = "idle",
         NEW t \in Threads, NEW node \in Names, NEW st \in AgentState, Begin(r, t, node, st)
  PROVE  Loops!BeginAnywhere(r)
<1> DEFINE run == [runs[r] EXCEPT !.phase = "top", !.thread = t, !.node = node, !.st = st]
<1>1. runs' = [runs EXCEPT ![r] = run]
  BY DEF Begin
<1>2. /\ runs[r] \in Run /\ runs[r].outcome = "none" /\ runs[r].iters \in 0 .. MaxIterations
      /\ runs[r].iters = 0
  BY DEF IndInv, RunOK, Run
<1>3. /\ LoopRuns' = [LoopRuns EXCEPT ![r] = LoopRun(run)]
      /\ LoopRuns[r] = LoopRun(runs[r]) /\ LoopRuns'[r] = LoopRun(run)
  BY <1>1, MappedStep
<1>4. LoopRun(runs[r]).phase = "idle"
  BY <1>2 DEF LoopRun, Finished, Limited
<1>5. LoopRun(run) = [phase |-> "running", node |-> node, st |-> st, iters |-> 0, outcome |-> "none"]
  BY <1>2 DEF LoopRun, Run, Finished, Limited
<1>6. LoopRun(run) \in Loops!Run
  BY <1>5, MaxIterationsIsNat, LoopOperators DEF Loops!Run, Loops!Outcome
<1> HIDE DEF run
<1>7. LoopRuns[r].phase = "idle" /\ LoopRuns'[r] \in Loops!Run
  BY <1>3, <1>4, <1>6
<1>8. /\ LoopRuns'[r].phase = "running" /\ LoopRuns'[r].iters = 0
      /\ LoopRuns'[r].outcome = "none"
  BY <1>3, <1>5
<1>9. LoopRuns' = [LoopRuns EXCEPT ![r] = LoopRuns'[r]]
  BY <1>3
<1> QED
  BY <1>7, <1>8, <1>9 DEF Loops!BeginAnywhere

\* A run the loop sees running.
LEMMA RunningMaps ==
  ASSUME IndInv, NEW r \in Runs, runs[r].phase \in {"top", "entered", "exec"}
  PROVE  /\ LoopRun(runs[r]) = [phase |-> "running", node |-> runs[r].node, st |-> runs[r].st,
                                iters |-> runs[r].iters, outcome |-> "none"]
         /\ LoopRuns[r] = LoopRun(runs[r])
         /\ LoopRuns[r].phase = "running"
         /\ LoopRuns[r].node = runs[r].node /\ LoopRuns[r].iters = runs[r].iters
<1>1. runs[r].outcome = "none"
  BY DEF IndInv, RunOK
<1>2. LoopRun(runs[r]) = [phase |-> "running", node |-> runs[r].node, st |-> runs[r].st,
                          iters |-> runs[r].iters, outcome |-> "none"]
  BY <1>1 DEF LoopRun, Finished, Limited
<1> QED
  BY <1>2 DEF LoopRuns

\* A run ends, in the loop as in the runner.
LEMMA EndMaps ==
  ASSUME IndInv, NEW r \in Runs, runs[r].phase \in {"top", "entered", "exec"},
         NEW run, runs' = [runs EXCEPT ![r] = run], NEW shown,
         LoopRun(run) = [phase |-> "done", node |-> runs[r].node, st |-> runs[r].st,
                         iters |-> runs[r].iters, outcome |-> shown]
  PROVE  Loops!Ends(r, shown)
<1> DEFINE now == [phase |-> "running", node |-> runs[r].node, st |-> runs[r].st,
                   iters |-> runs[r].iters, outcome |-> "none"]
           stopped == [phase |-> "done", node |-> runs[r].node, st |-> runs[r].st,
                       iters |-> runs[r].iters, outcome |-> shown]
<1>1. LoopRun(runs[r]) = now
  BY RunningMaps
<1>2. /\ LoopRuns' = [LoopRuns EXCEPT ![r] = stopped]
      /\ LoopRuns[r] = now /\ DOMAIN LoopRuns = Runs
  BY <1>1, MappedStep
<1>3. now = [phase |-> "running", node |-> runs[r].node, st |-> runs[r].st,
             iters |-> runs[r].iters, outcome |-> "none"]
  OBVIOUS
<1> HIDE DEF now
<1> DEFINE halted == [now EXCEPT !.phase = "done"]
<1>4. [phase |-> "done", node |-> runs[r].node, st |-> runs[r].st,
       iters |-> runs[r].iters, outcome |-> "none"] = halted
  BY <1>3
<1> HIDE DEF halted
<1>5. stopped = [halted EXCEPT !.outcome = shown]
  BY <1>4
<1> HIDE DEF stopped
<1> QED
  BY <1>2, <1>5 DEF halted, Loops!Ends

LEMMA StartMaps ==
  ASSUME IndInv, NEW r \in Runs, NEW t \in Threads, Invoke(r, t) \/ Resume(r, t)
  PROVE  Loops!BeginAnywhere(r) \/ LoopRuns' = LoopRuns
<1>1. CASE Invoke(r, t)
  <2>1. Entry \in Names /\ FreshState \in AgentState
    BY GraphCompiles, EmptySeq DEF Compiles, Names, FreshState, AgentState
  <2> QED
    BY <1>1, <2>1, BeginMaps DEF Invoke
<1>2. CASE Resume(r, t)
  <2> DEFINE id == Store!Latest(t)
             cp == checkpoints[id]
  <2>1. CASE id \in Store!Stored
    <3>1. cp.node \in Names /\ cp.st \in AgentState
      BY <2>1 DEF IndInv, Store!StoreTypeOK, Store!Checkpoint
    <3>2. runs[r].phase = "idle" /\ Begin(r, t, cp.node, cp.st)
      BY <1>2, <2>1 DEF Resume
    <3> HIDE DEF cp
    <3> QED
      BY <3>1, <3>2, BeginMaps
  <2>2. CASE id \notin Store!Stored
    <3> DEFINE run == [runs[r] EXCEPT !.phase = "done", !.outcome = "no_checkpoint"]
    <3>1. /\ runs[r] \in Run /\ runs[r].phase = "idle" /\ runs[r].outcome = "none"
          /\ runs[r].node # END
      BY <1>2, GraphCompiles, EndIsNoNode DEF Resume, IndInv, RunOK, Compiles
    <3>2. runs' = [runs EXCEPT ![r] = run]
      BY <1>2, <2>2 DEF Resume, Ends
    <3>3. LoopRun(run) = LoopRun(runs[r])
      BY <3>1 DEF LoopRun, Run, Finished, Limited
    <3> HIDE DEF run
    <3> QED
      BY <3>2, <3>3, Unseen
  <2> QED
    BY <2>1, <2>2
<1> QED
  BY <1>1, <1>2

LEMMA LoopMaps ==
  ASSUME IndInv, NEW r \in Runs, Loop(r) \/ Dropped(r)
  PROVE  Loops!Loop(r) \/ Loops!Dropped(r) \/ LoopRuns' = LoopRuns
<1> DEFINE Stopped(shown) == [phase |-> "done", node |-> runs[r].node, st |-> runs[r].st,
                              iters |-> runs[r].iters, outcome |-> shown]
           Gone(phase)    == [runs[r] EXCEPT !.phase = phase]
           Ended(outcome) == [runs[r] EXCEPT !.phase = "done", !.outcome = outcome]
           Moving         == runs[r].phase \in {"top", "entered", "exec"}
<1>0. RunOK(runs[r]) /\ runs[r] \in Run /\ runs[r].iters \in Nat
  BY MaxIterationsIsNat DEF IndInv, RunOK, Run
<1>1. \A phase : /\ Gone(phase).phase = phase /\ Gone(phase).node = runs[r].node
                 /\ Gone(phase).st = runs[r].st /\ Gone(phase).iters = runs[r].iters
                 /\ Gone(phase).outcome = runs[r].outcome
  BY <1>0 DEF Run
<1>2. \A o : /\ Ended(o).phase = "done" /\ Ended(o).node = runs[r].node
             /\ Ended(o).st = runs[r].st /\ Ended(o).iters = runs[r].iters
             /\ Ended(o).outcome = o
  BY <1>0 DEF Run
<1>3. ASSUME Moving, NEW run, runs' = [runs EXCEPT ![r] = run], NEW shown,
             LoopRun(run) = Stopped(shown)
      PROVE  /\ Loops!Ends(r, shown) /\ Loops!Running(r)
             /\ LoopRuns[r].node = runs[r].node /\ LoopRuns[r].iters = runs[r].iters
  BY <1>3, EndMaps, RunningMaps DEF Loops!Running
<1>4. \A p : Goes(r, p) => runs' = [runs EXCEPT ![r] = Gone(p)]
  BY DEF Goes
<1>5. \A o : Ends(r, o) => runs' = [runs EXCEPT ![r] = Ended(o)]
  BY DEF Ends
<1> HIDE DEF Gone, Ended
<1>11. CASE Finish(r)
  <2>1. runs[r].phase = "top" /\ runs[r].node = END
    BY <1>11 DEF Finish, AtTop
  <2>2. PICK run \in {Gone("ending"), Ended("completed")} : runs' = [runs EXCEPT ![r] = run]
    BY <1>4, <1>5, <1>11 DEF Finish
  <2>3. runs[r].outcome = "none"
    BY <1>0, <2>1 DEF RunOK
  <2>4. LoopRun(run) = Stopped("completed")
    BY <1>1, <1>2, <2>1, <2>2, <2>3 DEF LoopRun, Finished, Limited
  <2>5. Loops!Complete(r)
    BY <1>3, <2>1, <2>2, <2>4 DEF Loops!Complete
  <2> QED
    BY <2>5 DEF Loops!Loop
<1>12. CASE HitLimit(r)
  <2>1. runs[r].phase = "top" /\ runs[r].node # END /\ runs[r].iters >= MaxIterations
    BY <1>12 DEF HitLimit, AtTop
  <2>2. PICK run \in {Gone("limit"), Ended("limit")} : runs' = [runs EXCEPT ![r] = run]
    BY <1>4, <1>5, <1>12 DEF HitLimit
  <2>3. runs[r].outcome = "none"
    BY <1>0, <2>1 DEF RunOK
  <2>4. LoopRun(run) = Stopped("limit")
    BY <1>1, <1>2, <2>1, <2>2, <2>3 DEF LoopRun, Finished, Limited
  <2>5. Loops!HitLimit(r)
    BY <1>3, <2>1, <2>2, <2>4 DEF Loops!HitLimit
  <2> QED
    BY <2>5 DEF Loops!Loop
<1>13. CASE MissingNode(r)
  <2>1. /\ runs[r].phase = "top" /\ runs[r].node # END /\ runs[r].iters < MaxIterations
        /\ runs[r].node \notin Nodes /\ runs' = [runs EXCEPT ![r] = Ended("not_found")]
    BY <1>5, <1>13 DEF MissingNode, AtTop, MayExecute
  <2>2. LoopRun(Ended("not_found")) = Stopped("not_found")
    BY <1>0, <1>2, <2>1, MaxIterationsIsNat DEF LoopRun, Finished, Limited
  <2>3. Loops!MissingNode(r)
    BY <1>3, <2>1, <2>2 DEF Loops!MissingNode, Loops!MayExecute
  <2> QED
    BY <2>3 DEF Loops!Loop
<1>14. CASE Enter(r)
  <2>1. runs[r].phase = "top" /\ runs[r].outcome = "none"
    BY <1>0, <1>14 DEF Enter, AtTop, RunOK
  <2>2. PICK run \in {Gone("entered"), Gone("exec")} : runs' = [runs EXCEPT ![r] = run]
    BY <1>4, <1>14 DEF Enter
  <2>3. LoopRun(run) = LoopRun(runs[r])
    BY <1>1, <2>1, <2>2 DEF LoopRun, Finished, Limited
  <2> QED
    BY <2>2, <2>3, Unseen
<1>15. CASE Save(r)
  <2>1. CASE runs[r].phase = "entered"
    <3>1. runs[r].outcome = "none" /\ runs' = [runs EXCEPT ![r] = Gone("exec")]
      BY <1>0, <1>4, <1>15, <2>1 DEF Save, RunOK
    <3>2. LoopRun(Gone("exec")) = LoopRun(runs[r])
      BY <1>1, <2>1, <3>1 DEF LoopRun, Finished, Limited
    <3> QED
      BY <3>1, <3>2, Unseen
  <2>2. CASE runs[r].phase = "ending"
    <3>1. runs' = [runs EXCEPT ![r] = Ended("completed")]
      BY <1>5, <1>15, <2>2 DEF Save
    <3>2. runs[r].node = END /\ runs[r].outcome = "none"
      BY <1>0, <2>2 DEF RunOK
    <3>3. LoopRun(Ended("completed")) = LoopRun(runs[r])
      BY <1>2, <2>2, <3>2 DEF LoopRun, Finished, Limited
    <3> QED
      BY <3>1, <3>3, Unseen
  <2> QED
    BY <1>15, <2>1, <2>2 DEF Save
<1>16. ASSUME NEW o \in {"limit", "save_failed", "dropped"}, Ends(r, o), runs[r].phase \in {"ending", "limit"},
              runs[r].phase = "ending" => o # "limit"
       PROVE  LoopRuns' = LoopRuns
  <2>1. /\ runs' = [runs EXCEPT ![r] = Ended(o)] /\ runs[r].outcome = "none"
        /\ runs[r].phase = "ending" => runs[r].node = END
        /\ runs[r].phase = "limit" => runs[r].node # END /\ runs[r].iters >= MaxIterations
    BY <1>0, <1>5, <1>16 DEF RunOK
  <2>2. LoopRun(Ended(o)) = LoopRun(runs[r])
    BY <1>2, <1>16, <2>1 DEF LoopRun, Finished, Limited
  <2> QED
    BY <2>1, <2>2, Unseen
<1>17. ASSUME NEW o \in {"save_failed", "dropped"}, Ends(r, o), runs[r].phase \in {"entered", "exec"}
       PROVE  Loops!Dropped(r)
  <2>1. /\ runs' = [runs EXCEPT ![r] = Ended(o)] /\ runs[r].outcome = "none"
        /\ runs[r].node # END /\ runs[r].iters < MaxIterations
    BY <1>0, <1>5, <1>17, EndIsNoNode DEF RunOK
  <2>2. LoopRun(Ended(o)) = Stopped("dropped")
    BY <1>0, <1>2, <1>17, <2>1, MaxIterationsIsNat DEF LoopRun, Finished, Limited
  <2> QED
    BY <1>3, <1>17, <2>1, <2>2 DEF Loops!Dropped
<1>18. CASE SaveAtLimit(r)
  BY <1>16, <1>18 DEF SaveAtLimit
<1>19. CASE SaveFails(r)
  BY <1>16, <1>17, <1>19 DEF SaveFails
<1>20. CASE Dropped(r)
  BY <1>16, <1>17, <1>20 DEF Dropped
<1>21. CASE NodeFails(r)
  <2>1. /\ runs' = [runs EXCEPT ![r] = Ended("node_failed")] /\ runs[r].phase = "exec"
        /\ runs[r].node \in Nodes /\ runs[r].node # END /\ runs[r].iters < MaxIterations
    BY <1>0, <1>5, <1>21, EndIsNoNode DEF NodeFails, RunOK
  <2>2. LoopRun(Ended("node_failed")) = Stopped("node_failed")
    BY <1>0, <1>2, <2>1, MaxIterationsIsNat DEF LoopRun, Finished, Limited
  <2>3. Loops!NodeFails(r)
    BY <1>3, <2>1, <2>2 DEF Loops!NodeFails, Loops!MayExecute
  <2> QED
    BY <2>3 DEF Loops!Loop
<1>22. CASE Execute(r)
  <2> DEFINE new == [iteration |-> runs[r].st.iteration + 1,
                     path |-> Append(runs[r].st.path, runs[r].node)]
             Ran(next) ==
               runs' = [runs EXCEPT ![r].phase = "top",
                                    ![r].st    = [iteration |-> @.iteration + 1,
                                                  path |-> Append(@.path, runs[r].node)],
                                    ![r].iters = @ + 1,
                                    ![r].node  = next]
  <2>p. PICK out \in Outputs[runs[r].node] :
          \E next \in Successors(runs[r].node, out) : Ran(next)
    BY <1>22 DEF Execute
  <2>0. PICK next \in Successors(runs[r].node, out) : Ran(next)
    BY <2>p
  <2> DEFINE run == runs'[r]
  <2>1. /\ runs[r].phase = "exec" /\ runs[r].outcome = "none"
        /\ runs[r].node \in Nodes /\ runs[r].iters < MaxIterations
    BY <1>0, <1>22 DEF Execute, RunOK
  <2>2. /\ runs' = [runs EXCEPT ![r] = run]
        /\ run.phase = "top" /\ run.outcome = "none" /\ run.node = next
        /\ run.st = new /\ run.iters = runs[r].iters + 1
    BY <1>0, <2>0, <2>1 DEF IndInv, Run
  <2> HIDE DEF run
  <2>3. /\ LoopRuns' = [LoopRuns EXCEPT ![r] = LoopRun(run)]
        /\ LoopRuns[r] = LoopRun(runs[r]) /\ DOMAIN LoopRuns = Runs
    BY <2>2, MappedStep
  <2> DEFINE now == [phase |-> "running", node |-> runs[r].node, st |-> runs[r].st,
                     iters |-> runs[r].iters, outcome |-> "none"]
  <2>4. LoopRun(runs[r]) = now
    BY <2>1, RunningMaps
  <2>5. LoopRun(run) = [phase |-> "running", node |-> next, st |-> new,
                        iters |-> runs[r].iters + 1, outcome |-> "none"]
    BY <2>2 DEF LoopRun, Finished, Limited
  <2>6. new = Loops!Executed(now.st, now.node)
    BY DEF Loops!Executed
  <2> HIDE DEF new
  <2>7. /\ now = [phase |-> "running", node |-> runs[r].node, st |-> runs[r].st,
                  iters |-> runs[r].iters, outcome |-> "none"]
        /\ now.node = runs[r].node /\ now.iters = runs[r].iters /\ now.phase = "running"
    OBVIOUS
  <2> HIDE DEF now
  <2> DEFINE taken   == [now EXCEPT !.st = new]
             counted == [taken EXCEPT !.iters = now.iters + 1]
  <2>8. [phase |-> "running", node |-> runs[r].node, st |-> new,
         iters |-> runs[r].iters, outcome |-> "none"] = taken
    BY <2>7
  <2> HIDE DEF taken
  <2>9. [phase |-> "running", node |-> runs[r].node, st |-> new,
         iters |-> runs[r].iters + 1, outcome |-> "none"] = counted
    BY <2>7, <2>8
  <2> HIDE DEF counted
  <2>10. [phase |-> "running", node |-> next, st |-> new,
          iters |-> runs[r].iters + 1, outcome |-> "none"] = [counted EXCEPT !.node = next]
    BY <2>9
  <2>11. LoopRun(run) = [[[now EXCEPT !.st = new] EXCEPT !.iters = now.iters + 1] EXCEPT !.node = next]
    BY <2>5, <2>10 DEF counted, taken
  <2>12. LoopRuns' = [LoopRuns EXCEPT ![r].st    = Loops!Executed(@, LoopRuns[r].node),
                                      ![r].iters = @ + 1,
                                      ![r].node  = next]
    BY <2>3, <2>4, <2>6, <2>11
  <2>13. /\ Loops!Running(r) /\ Loops!MayExecute(r) /\ LoopRuns[r].node = runs[r].node
    BY <2>1, <2>3, <2>4, <2>7, EndIsNoNode DEF Loops!Running, Loops!MayExecute
  <2>14. next \in Loops!Successors(LoopRuns[r].node, out)
    BY <2>0, <2>13, LoopOperators
  <2> QED
    BY <2>0, <2>1, <2>12, <2>13, <2>14 DEF Loops!Loop, Loops!Step
<1> QED
  BY <1>11, <1>12, <1>13, <1>14, <1>15, <1>18, <1>19, <1>20, <1>21, <1>22 DEF Loop

\* Apart from its events and its checkpoints, every run of this runner is a run
\* of run_loop, whatever becomes of its saves.
THEOREM RunsThePlainLoop == Spec => ImplementsRunLoop
<1>1. Init => Loops!Init
  BY DEF Init, Loops!Init, LoopRuns, LoopRun, Finished, Limited, NotStarted, Loops!NotStarted,
     FreshState, Loops!FreshState
<1>2. IndInv /\ [Next]_vars => [Loops!ResumableNext]_LoopRuns
  <2> SUFFICES ASSUME IndInv, [Next]_vars
               PROVE  Loops!ResumableNext \/ LoopRuns' = LoopRuns
    OBVIOUS
  <2>1. ASSUME NEW r \in Runs, NEW t \in Threads, Invoke(r, t) \/ Resume(r, t)
        PROVE  Loops!ResumableNext \/ LoopRuns' = LoopRuns
    BY <2>1, StartMaps DEF Loops!ResumableNext
  <2>2. ASSUME NEW r \in Runs, Loop(r) \/ Dropped(r)
        PROVE  Loops!ResumableNext \/ LoopRuns' = LoopRuns
    BY <2>2, LoopMaps DEF Loops!ResumableNext
  <2>3. CASE Subscription \/ UNCHANGED vars
    BY <2>3 DEF Subscription, vars, LoopRuns, LoopRun, Finished, Limited
  <2> QED
    BY <2>1, <2>2, <2>3 DEF Next
<1> QED
  BY <1>1, <1>2, Inductive, PTL DEF Spec, ImplementsRunLoop, Loops!ResumableSpec

-----------------------------------------------------------------------------
\* What the handlers count, and what they have still to read of it: an event is
\* named by how many younger ones the channel holds.

Exits(n)    == {e \in Event : e.kind = "exited" /\ e.node = n}
Completions == {e \in Event : e.kind = "completed"}
Errors      == {e \in Event : e.kind = "error"}
Uncounted   == {e \in Event : e.kind \notin {"exited", "completed", "error"}}

Pending(s, E)    == {j \in 0 .. receivers[s].unread - 1 : channel[Len(channel) - j] \in E}
Fresh(events, E) == {j \in 0 .. Len(events) - 1 : events[Len(events) - j] \in E}

One(e, E) == IF e \in E THEN 1 ELSE 0

LEMMA PendingIsFinite ==
  ASSUME BusInv, NEW s \in Subscribers, NEW E
  PROVE  IsFiniteSet(Pending(s, E)) /\ Cardinality(Pending(s, E)) \in Nat
<1>1. receivers[s].unread - 1 \in Int
  BY DEF BusInv, ReceiverOK, Receiver
<1>2. \A b \in Int : IsFiniteSet(0 .. b)
  <2>1. \A a, b \in Int : IsFiniteSet(a .. b)
    BY FS_Interval
  <2> QED
    BY <2>1
<1>3. Pending(s, E) \subseteq 0 .. receivers[s].unread - 1
  BY DEF Pending
<1>4. IsFiniteSet(Pending(s, E))
  BY <1>1, <1>2, <1>3, FS_Subset
<1> QED
  BY <1>4, FS_CardinalityType

LEMMA ShiftKeepsSize ==
  ASSUME NEW S, S \subseteq Nat, IsFiniteSet(S), NEW d \in Nat
  PROVE  LET T == {j + d : j \in S} IN IsFiniteSet(T) /\ Cardinality(T) = Cardinality(S)
<1> DEFINE T == {j + d : j \in S}
           f == [j \in S |-> j + d]
<1>1. f \in Bijection(S, T)
  BY DEF Bijection, Injection, Surjection, IsInjective
<1>2. ExistsBijection(S, T)
  BY <1>1 DEF ExistsBijection
<1> QED
  BY <1>2, FS_Bijection

\* A receiver that was there from the beginning and has lost no event.
Faithful(receiver) == receiver.lossless /\ ~receiver.overwritten

LEMMA PublishReaches ==
  ASSUME NEW events \in Seq(Event) \ {<<>>}, Bus!Publish(events), NEW s \in Subscribers
  PROVE  /\ LET all == channel \o events
            IN  channel' = SubSeq(all, Len(all) - Bus!Smaller(Capacity, Len(all)) + 1, Len(all))
         /\ ~receivers[s].on => receivers'[s] = [receivers[s] EXCEPT !.lossless = FALSE]
         /\ receivers[s].on => receivers'[s] =
              [receivers[s] EXCEPT !.unread = Bus!Smaller(receivers[s].unread + Len(events), Capacity),
                                   !.overwritten = receivers[s].overwritten
                                                     \/ receivers[s].unread + Len(events) > Capacity]
<1> DEFINE all  == channel \o events
           old  == receivers[s]
           new  == receivers'[s]
           over == old.overwritten \/ old.unread + Len(events) > Capacity
<1>1. channel' = SubSeq(all, Len(all) - Bus!Smaller(Capacity, Len(all)) + 1, Len(all))
  BY DEF Bus!Publish
<1>2. ~old.on => new = [old EXCEPT !.lossless = FALSE]
  BY DEF Bus!Publish
<1>3. old.on => new = [old EXCEPT !.unread = Bus!Smaller(old.unread + Len(events), Capacity),
                                  !.overwritten = over]
  BY DEF Bus!Publish
<1> QED
  BY <1>1, <1>2, <1>3

LEMMA LateIsNotFaithful ==
  \A receiver \in Receiver : ~Faithful([receiver EXCEPT !.lossless = FALSE])
BY DEF Faithful, Receiver

\* A receiver that loses nothing has the events published now to read after those
\* it had before.
LEMMA PendingGrows ==
  ASSUME BusInv, NEW events \in Seq(Event) \ {<<>>}, Bus!Publish(events),
         NEW s \in Subscribers, Faithful(receivers'[s]), NEW E
  PROVE  /\ Faithful(receivers[s])
         /\ Cardinality(Pending(s, E)') = Cardinality(Pending(s, E)) + Cardinality(Fresh(events, E))
<1> DEFINE all  == channel \o events
           kept == Bus!Smaller(Capacity, Len(all))
           u    == receivers[s].unread
           d    == Len(events)
<1>1. /\ channel \in Seq(Event) /\ all \in Seq(Event) /\ Len(all) = Len(channel) + d
      /\ Len(channel) \in Nat /\ d \in Nat /\ d > 0
      /\ \A i \in 1 .. Len(channel) : all[i] = channel[i]
      /\ \A i \in 1 .. d : all[Len(channel) + i] = events[i]
  BY EmptySeq DEF BusInv
<1>2. receivers[s] \in Receiver /\ u \in Nat /\ u <= Len(channel)
  BY DEF BusInv, ReceiverOK, Receiver
<1>3. Faithful(receivers[s]) /\ receivers'[s].unread = u + d /\ u + d <= Capacity
  <2> DEFINE old   == receivers[s]
             new   == receivers'[s]
             total == u + d
             least == Bus!Smaller(total, Capacity)
             lost  == old.overwritten \/ total > Capacity
  <2>0. Faithful(new)
    OBVIOUS
  <2>1. ~old.on => new = [old EXCEPT !.lossless = FALSE]
    BY PublishReaches
  <2>2. old.on => new = [old EXCEPT !.unread = least, !.overwritten = lost]
    BY PublishReaches
  <2>3. total \in Nat /\ Capacity \in Nat
    BY <1>1, <1>2, CapacityIsPositive
  <2>4. old \in Receiver
    BY <1>2
  <2>5. old.on
    <3> HIDE DEF old, new
    <3> QED
      BY <2>0, <2>1, <2>4, LateIsNotFaithful
  <2>6. new.unread = least /\ new.overwritten = lost /\ new.lossless = old.lossless
    <3>1. new = [old EXCEPT !.unread = least, !.overwritten = lost]
      BY <2>2, <2>5
    <3> HIDE DEF old, new, least, lost
    <3> QED
      BY <2>4, <3>1 DEF Receiver
  <2>7. Faithful(old) /\ ~(total > Capacity)
    <3> HIDE DEF old, new, total
    <3> QED
      BY <2>0, <2>6 DEF Faithful
  <2>8. total <= Capacity /\ least = total
    <3> HIDE DEF total
    <3> QED
      BY <2>3, <2>7 DEF Bus!Smaller
  <2> QED
    BY <2>6, <2>7, <2>8
<1>4. channel' = SubSeq(all, Len(all) - kept + 1, Len(all))
  BY PublishReaches
<1> HIDE DEF all
<1>5. kept \in 1 .. Len(all) /\ u + d <= kept
  BY <1>1, <1>2, <1>3, CapacityIsPositive DEF Bus!Smaller
<1>6. Len(channel') = kept /\ \A i \in 1 .. kept : channel'[i] = all[Len(all) - kept + i]
  BY <1>1, <1>4, <1>5
<1> HIDE DEF kept
<1>7. ASSUME NEW j \in 0 .. (u + d) - 1
      PROVE  channel'[Len(channel') - j] = all[Len(all) - j]
  <2>1. kept - j \in 1 .. kept
    BY <1>1, <1>2, <1>5
  <2>2. Len(all) - kept + (kept - j) = Len(all) - j
    BY <1>1, <1>5
  <2> QED
    BY <1>6, <2>1, <2>2
<1>8. ASSUME NEW j \in 0 .. d - 1
      PROVE  all[Len(all) - j] = events[d - j]
  <2>1. d - j \in 1 .. d /\ Len(channel) + (d - j) = Len(all) - j
    BY <1>1
  <2> QED
    BY <1>1, <2>1
<1>9. ASSUME NEW j \in 0 .. u - 1
      PROVE  all[Len(all) - (j + d)] = channel[Len(channel) - j]
  <2>1. Len(channel) - j \in 1 .. Len(channel) /\ Len(all) - (j + d) = Len(channel) - j
    BY <1>1, <1>2
  <2> QED
    BY <1>1, <2>1
<1> DEFINE now   == {j \in 0 .. (u + d) - 1 : channel'[Len(channel') - j] \in E}
           old   == {j \in 0 .. u - 1 : channel[Len(channel) - j] \in E}
           moved == {j + d : j \in old}
           new   == {j \in 0 .. d - 1 : events[d - j] \in E}
<1>10. Pending(s, E)' = now /\ Pending(s, E) = old /\ Fresh(events, E) = new
  <2>1. Pending(s, E)' = {j \in 0 .. receivers'[s].unread - 1 : channel'[Len(channel') - j] \in E}
    BY DEF Pending
  <2>2. Pending(s, E)' = now
    <3> DEFINE m == receivers'[s].unread
               k == u + d
    <3>1. m = k
      BY <1>3
    <3>2. Pending(s, E)' = {j \in 0 .. m - 1 : channel'[Len(channel') - j] \in E}
      BY <2>1, Zenon
    <3> HIDE DEF m, k
    <3>3. Pending(s, E)' = {j \in 0 .. k - 1 : channel'[Len(channel') - j] \in E}
      BY <3>1, <3>2, Zenon
    <3> QED
      BY <3>3 DEF k
  <2>3. Pending(s, E) = old
    BY DEF Pending
  <2>4. Fresh(events, E) = new
    BY DEF Fresh
  <2> QED
    BY <2>2, <2>3, <2>4
<1>11. now = new \cup moved
  <2>1. ASSUME NEW j \in now
        PROVE  j \in new \cup moved
    <3>1. CASE j < d
      <4>1. j \in 0 .. d - 1
        BY <1>1, <1>2, <3>1
      <4> QED
        BY <2>1, <4>1, <1>7, <1>8
    <3>2. CASE j >= d
      <4>1. j - d \in 0 .. u - 1 /\ (j - d) + d = j
        BY <1>1, <1>2, <3>2
      <4>2. channel[Len(channel) - (j - d)] \in E
        <5>1. channel'[Len(channel') - j] \in E /\ j \in 0 .. (u + d) - 1
          BY <2>1
        <5>2. all[Len(all) - j] \in E
          BY <5>1, <1>7
        <5>3. all[Len(all) - ((j - d) + d)] = channel[Len(channel) - (j - d)]
          BY <4>1, <1>9
        <5> QED
          BY <4>1, <5>2, <5>3
      <4>3. j - d \in old
        BY <4>1, <4>2
      <4> QED
        BY <4>1, <4>3
    <3> QED
      BY <1>1, <1>2, <3>1, <3>2
  <2>2. ASSUME NEW j \in new
        PROVE  j \in now
    <3>1. j \in 0 .. (u + d) - 1
      BY <1>1, <1>2
    <3> QED
      BY <2>2, <3>1, <1>7, <1>8
  <2>3. ASSUME NEW j \in old
        PROVE  j + d \in now
    <3>1. j + d \in 0 .. (u + d) - 1 /\ j \in 0 .. u - 1
      BY <1>1, <1>2
    <3> QED
      BY <2>3, <3>1, <1>7, <1>9
  <2> QED
    BY <2>1, <2>2, <2>3
<1>12. /\ IsFiniteSet(old) /\ Cardinality(old) \in Nat
       /\ IsFiniteSet(new) /\ Cardinality(new) \in Nat
  <2>1. \A a, b \in Int : IsFiniteSet(a .. b)
    BY FS_Interval
  <2>3. 0 \in Int /\ d - 1 \in Int
    BY <1>1
  <2>4. IsFiniteSet(0 .. d - 1)
    BY <2>1, <2>3
  <2>2. IsFiniteSet(new)
    BY <2>4, FS_Subset
  <2> QED
    BY <1>10, <2>2, PendingIsFinite, FS_CardinalityType
<1>13. IsFiniteSet(moved) /\ Cardinality(moved) = Cardinality(old)
  <2>1. old \subseteq Nat
    BY <1>2
  <2> HIDE DEF old
  <2> QED
    BY <1>1, <1>12, <2>1, ShiftKeepsSize
<1>14. new \cap moved = {}
  BY <1>1, <1>2
<1>15. Cardinality(new \cup moved) = Cardinality(new) + Cardinality(old)
  <2> HIDE DEF new, moved, old
  <2>1. Cardinality(new \cap moved) = 0
    BY <1>14, FS_EmptySet
  <2>2. Cardinality(new \cup moved) = Cardinality(new) + Cardinality(moved) - Cardinality(new \cap moved)
    BY <1>12, <1>13, FS_Union
  <2> QED
    BY <1>12, <1>13, <2>1, <2>2
<1>16. Cardinality(now) = Cardinality(old) + Cardinality(new)
  <2> HIDE DEF new, moved, old, now
  <2> QED
    BY <1>11, <1>12, <1>15
<1> HIDE DEF new, old, now, moved
<1> QED
  BY <1>3, <1>10, <1>16

\* Reading takes the oldest event a receiver has not read.
LEMMA PendingShrinks ==
  ASSUME BusInv, NEW s \in Subscribers, Bus!Handle(s), NEW E
  PROVE  LET event == channel[Len(channel) - receivers[s].unread + 1]
         IN  Cardinality(Pending(s, E)') = Cardinality(Pending(s, E)) - One(event, E)
<1> DEFINE u     == receivers[s].unread
           event == channel[Len(channel) - u + 1]
<1>1. /\ receivers[s] \in Receiver /\ u \in Nat /\ u > 0 /\ u <= Len(channel)
      /\ channel \in Seq(Event) /\ Len(channel) \in Nat /\ channel' = channel
      /\ receivers' = [receivers EXCEPT ![s] = Bus!Read(receivers[s], event)]
  BY DEF BusInv, ReceiverOK, Receiver, Bus!Handle
<1>2. receivers'[s].unread = u - 1
  BY <1>1 DEF BusInv, Bus!Read, Receiver
<1>3. Len(channel) - (u - 1) = Len(channel) - u + 1 /\ u - 1 \in 0 .. u - 1
  BY <1>1
<1>4. u - 1 \in Pending(s, E) <=> event \in E
  BY <1>3 DEF Pending
<1>5. Pending(s, E)' = Pending(s, E) \ {u - 1}
  BY <1>1, <1>2 DEF Pending
<1>6. IsFiniteSet(Pending(s, E)) /\ Cardinality(Pending(s, E)) \in Nat
  BY PendingIsFinite
<1>7. Cardinality(Pending(s, E)') =
        IF u - 1 \in Pending(s, E) THEN Cardinality(Pending(s, E)) - 1 ELSE Cardinality(Pending(s, E))
  BY <1>5, <1>6, FS_RemoveElement
<1>8. One(event, E) = IF u - 1 \in Pending(s, E) THEN 1 ELSE 0
  BY <1>4 DEF One
<1>9. Cardinality(Pending(s, E)') = Cardinality(Pending(s, E)) - One(event, E)
  <2> HIDE DEF event, u
  <2> QED
    BY <1>6, <1>7, <1>8
<1> QED
  BY <1>9

-----------------------------------------------------------------------------
\* What happened, against what was counted and what is still to be read.

Metrics == [events : Nat, completed : Nat, errored : Nat, saved : Nat,
            executions : [Nodes -> Nat], failures : [Nodes -> Nat]]

Exact(s) ==
  Faithful(receivers[s]) =>
    /\ \A n \in Nodes :
         Cardinality(Executed(n)) = metrics[s].executions[n] + Cardinality(Pending(s, Exits(n)))
    /\ Cardinality(Reached) = metrics[s].completed + Cardinality(Pending(s, Completions))
    /\ Cardinality(Broken) = metrics[s].errored + Cardinality(Pending(s, Errors))

Limits == /\ IsFiniteSet(Reached) /\ IsFiniteSet(Broken)
          /\ \A n \in Nodes : IsFiniteSet(Executed(n))
          /\ \A r \in Runs : runs[r].iters <= Len(runs[r].st.path)

CountInv ==
  /\ Limits
  /\ metrics = [s \in Subscribers |-> metrics[s]]
  /\ \A s \in Subscribers : metrics[s] \in Metrics /\ Exact(s)

Bad(run) == Limited(run) \/ run.outcome = "node_failed"

\* What the last event of a step says of the run that took it.
Tells(f, old, new) ==
  /\ new.iters <= Len(new.st.path)
  /\ Finished(new) <=> (Finished(old) \/ f \in Completions)
  /\ f \in Completions => ~Finished(old)
  /\ Bad(new) <=> (Bad(old) \/ f \in Errors)
  /\ f \in Errors => ~Bad(old)
  /\ \A n \in Nodes :
       IF f \in Exits(n)
       THEN /\ Visits(new, n) = Visits(old, n) \cup {Len(new.st.path)}
            /\ Len(new.st.path) \notin Visits(old, n)
       ELSE Visits(new, n) = Visits(old, n)

\* ... and of how much has happened.
Counts(f) ==
  /\ Limits'
  /\ Cardinality(Reached') = Cardinality(Reached) + One(f, Completions)
  /\ Cardinality(Broken') = Cardinality(Broken) + One(f, Errors)
  /\ \A n \in Nodes : Cardinality(Executed(n)') = Cardinality(Executed(n)) + One(f, Exits(n))

LEMMA GrowsByOne ==
  ASSUME NEW S, IsFiniteSet(S), NEW x, NEW T, NEW f, NEW E,
         T = IF f \in E THEN S \cup {x} ELSE S, f \in E => x \notin S
  PROVE  IsFiniteSet(T) /\ Cardinality(T) = Cardinality(S) + One(f, E)
<1>1. Cardinality(S) \in Nat
  BY FS_CardinalityType
<1>2. CASE f \in E
  BY <1>2, FS_AddElement DEF One
<1>3. CASE f \notin E
  BY <1>1, <1>3 DEF One
<1> QED
  BY <1>2, <1>3

LEMMA RunTells ==
  ASSUME IndInv, Limits, NEW r \in Runs, NEW new, runs' = [runs EXCEPT ![r] = new],
         NEW f, Tells(f, runs[r], new)
  PROVE  Counts(f)
<1>1. \A q \in Runs : runs'[q] = IF q = r THEN new ELSE runs[q]
  BY DEF IndInv
<1>2. Reached' = IF f \in Completions THEN Reached \cup {r} ELSE Reached
  <2>1. Reached' = {q \in Runs : Finished(runs'[q])}
    BY DEF Reached, Finished
  <2> QED
    BY <1>1, <2>1 DEF Tells, Reached
<1>3. f \in Completions => r \notin Reached
  BY DEF Tells, Reached
<1>4. Broken' = IF f \in Errors THEN Broken \cup {r} ELSE Broken
  <2>1. Broken' = {q \in Runs : Bad(runs'[q])}
    BY DEF Broken, Bad, Limited
  <2>2. Broken = {q \in Runs : Bad(runs[q])}
    BY DEF Broken, Bad
  <2> QED
    BY <1>1, <2>1, <2>2 DEF Tells
<1>5. f \in Errors => r \notin Broken
  BY DEF Tells, Broken, Bad
<1>6. ASSUME NEW n \in Nodes
      PROVE  /\ IsFiniteSet(Executed(n)')
             /\ Cardinality(Executed(n)') = Cardinality(Executed(n)) + One(f, Exits(n))
  <2> DEFINE x == <<r, Len(new.st.path)>>
  <2>1. Executed(n)' = UNION {{q} \X Visits(runs'[q], n) : q \in Runs}
    BY DEF Executed, Visits
  <2>2. \A e : e \in Executed(n)' <=> \E q \in Runs : \E i \in Visits(runs'[q], n) : e = <<q, i>>
    BY <2>1
  <2>3. \A e : e \in Executed(n) <=> \E q \in Runs : \E i \in Visits(runs[q], n) : e = <<q, i>>
    BY DEF Executed
  <2>4. CASE f \in Exits(n)
    <3>1. /\ Visits(new, n) = Visits(runs[r], n) \cup {Len(new.st.path)}
          /\ Len(new.st.path) \notin Visits(runs[r], n)
      BY <2>4 DEF Tells
    <3>2. Executed(n)' = Executed(n) \cup {x}
      BY <1>1, <2>2, <2>3, <3>1
    <3>3. x \notin Executed(n)
      BY <2>3, <3>1
    <3> QED
      BY <2>4, <3>2, <3>3, GrowsByOne DEF Limits
  <2>5. CASE f \notin Exits(n)
    <3>1. Visits(new, n) = Visits(runs[r], n)
      BY <2>5 DEF Tells
    <3>2. \A q \in Runs : Visits(runs'[q], n) = Visits(runs[q], n)
      BY <1>1, <3>1
    <3>3. \A e : e \in Executed(n)' <=> e \in Executed(n)
      BY <2>2, <2>3, <3>2
    <3>4. Executed(n)' = Executed(n)
      BY <3>3
    <3> QED
      BY <2>5, <3>4, GrowsByOne DEF Limits
  <2> QED
    BY <2>4, <2>5
<1>7. \A q \in Runs : runs'[q].iters <= Len(runs'[q].st.path)
  BY <1>1 DEF Limits, Tells
<1>8. IsFiniteSet(Reached') /\ Cardinality(Reached') = Cardinality(Reached) + One(f, Completions)
  BY <1>2, <1>3, GrowsByOne DEF Limits
<1>9. IsFiniteSet(Broken') /\ Cardinality(Broken') = Cardinality(Broken) + One(f, Errors)
  BY <1>4, <1>5, GrowsByOne DEF Limits
<1> QED
  BY <1>6, <1>7, <1>8, <1>9 DEF Counts, Limits

\* What a publish leaves to be read of each kind.
LEMMA FreshIsOne ==
  ASSUME NEW f, NEW E
  PROVE  Cardinality(Fresh(<<f>>, E)) = One(f, E)
<1>1. Fresh(<<f>>, E) = IF f \in E THEN {0} ELSE {}
  BY DEF Fresh
<1> QED
  BY <1>1, FS_EmptySet, FS_Singleton DEF One

LEMMA FreshIsTheLast ==
  ASSUME NEW e, NEW f, NEW E, e \notin E
  PROVE  Cardinality(Fresh(<<e, f>>, E)) = One(f, E)
<1>1. Len(<<e, f>>) = 2 /\ <<e, f>>[2] = f /\ <<e, f>>[1] = e
  OBVIOUS
<1>2. 0 .. 2 - 1 = {0, 1}
  OBVIOUS
<1>3. Fresh(<<e, f>>, E) = {j \in {0, 1} : <<e, f>>[2 - j] \in E}
  BY <1>1, <1>2 DEF Fresh
<1>4. Fresh(<<e, f>>, E) = IF f \in E THEN {0} ELSE {}
  BY <1>1, <1>3
<1> QED
  BY <1>4, FS_EmptySet, FS_Singleton DEF One

\* The events one step publishes, of which all but the last is not counted.
Publishes(f) ==
  \/ f = Bus!NoEvent /\ UNCHANGED <<channel, receivers, metrics>>
  \/ f \in Event /\ Bus!Publish(<<f>>)
  \/ f \in Event /\ \E e \in Uncounted : Bus!Publish(<<e, f>>)

LEMMA PublishesReach ==
  ASSUME BusInv, NEW f, Publishes(f), NEW s \in Subscribers, Faithful(receivers'[s]),
         NEW E, E \in {Completions, Errors} \cup {Exits(n) : n \in Nodes}
  PROVE  /\ Faithful(receivers[s])
         /\ Cardinality(Pending(s, E)') = Cardinality(Pending(s, E)) + One(f, E)
<1>1. Cardinality(Pending(s, E)) \in Nat
  BY PendingIsFinite
<1>2. CASE f = Bus!NoEvent /\ UNCHANGED <<channel, receivers, metrics>>
  <2>1. f.kind = "none"
    BY <1>2 DEF Bus!NoEvent
  <2>2. f \notin E
    BY <2>1 DEF Completions, Errors, Exits
  <2>3. Pending(s, E)' = Pending(s, E) /\ receivers' = receivers
    BY <1>2 DEF Pending
  <2> QED
    BY <1>1, <2>2, <2>3 DEF One
<1>3. CASE f \in Event /\ Bus!Publish(<<f>>)
  <2>1. <<f>> \in Seq(Event) /\ Len(<<f>>) = 1
    BY <1>3
  <2>2. <<f>> \in Seq(Event) \ {<<>>}
    BY <2>1, EmptySeq
  <2> QED
    BY <1>3, <2>2, PendingGrows, FreshIsOne
<1>4. ASSUME f \in Event, NEW e \in Uncounted, Bus!Publish(<<e, f>>)
      PROVE  /\ Faithful(receivers[s])
             /\ Cardinality(Pending(s, E)') = Cardinality(Pending(s, E)) + One(f, E)
  <2>1. e \in Event /\ e \notin E
    BY DEF Uncounted, Completions, Errors, Exits
  <2>2. <<e, f>> \in Seq(Event) /\ Len(<<e, f>>) = 2
    BY <1>4, <2>1
  <2>3. <<e, f>> \in Seq(Event) \ {<<>>}
    BY <2>2, EmptySeq
  <2> DEFINE events == <<e, f>>
  <2>4. events \in Seq(Event) \ {<<>>} /\ Bus!Publish(events)
    BY <1>4, <2>3
  <2>5. Cardinality(Fresh(events, E)) = One(f, E)
    BY <2>1, FreshIsTheLast
  <2> HIDE DEF events
  <2>6. /\ Faithful(receivers[s])
        /\ Cardinality(Pending(s, E)') = Cardinality(Pending(s, E)) + Cardinality(Fresh(events, E))
    BY <2>4, PendingGrows
  <2> QED
    BY <2>5, <2>6
<1> QED
  BY <1>2, <1>3, <1>4 DEF Publishes

LEMMA PublishingStaysExact ==
  ASSUME BusInv, CountInv, NEW f, Publishes(f), Counts(f)
  PROVE  CountInv'
<1>1. metrics' = metrics
  BY DEF Publishes, Bus!Publish
<1>2. ASSUME NEW s \in Subscribers
      PROVE  metrics'[s] \in Metrics /\ Exact(s)'
  <2>1. metrics'[s] = metrics[s] /\ metrics[s] \in Metrics
    BY <1>1 DEF CountInv
  <2>2. ASSUME Faithful(receivers'[s])
        PROVE  /\ \A n \in Nodes : Cardinality(Executed(n)') =
                    metrics[s].executions[n] + Cardinality(Pending(s, Exits(n))')
               /\ Cardinality(Reached') = metrics[s].completed + Cardinality(Pending(s, Completions)')
               /\ Cardinality(Broken') = metrics[s].errored + Cardinality(Pending(s, Errors)')
    <3>1. \A E \in {Completions, Errors} \cup {Exits(n) : n \in Nodes} :
            /\ Faithful(receivers[s]) /\ Cardinality(Pending(s, E)) \in Nat /\ One(f, E) \in {0, 1}
            /\ Cardinality(Pending(s, E)') = Cardinality(Pending(s, E)) + One(f, E)
      BY <2>2, PublishesReach, PendingIsFinite DEF One
    <3>2. /\ Faithful(receivers[s])
          /\ metrics[s].completed \in Nat /\ metrics[s].errored \in Nat
          /\ \A n \in Nodes : metrics[s].executions[n] \in Nat
      BY <2>1, <3>1 DEF Metrics
    <3> QED
      BY <3>1, <3>2 DEF CountInv, Exact, Counts
  <2>3. Exact(s)'
    BY <2>1, <2>2 DEF Exact, Faithful
  <2> QED
    BY <2>1, <2>3
<1> QED
  BY <1>1, <1>2 DEF CountInv, Counts

LEMMA OneMoreAt ==
  ASSUME NEW g \in [Nodes -> Nat], NEW x
  PROVE  /\ [g EXCEPT ![x] = @ + 1] \in [Nodes -> Nat]
         /\ \A n \in Nodes : [g EXCEPT ![x] = @ + 1][n] = IF n = x THEN g[n] + 1 ELSE g[n]
<1>1. CASE x \in Nodes
  BY <1>1
<1>2. CASE x \notin Nodes
  <2>1. [g EXCEPT ![x] = @ + 1] = g
    BY <1>2
  <2> QED
    BY <1>2, <2>1
<1> QED
  BY <1>1, <1>2

\* The handler counts an event as what it is.
LEMMA CountedOnce ==
  ASSUME NEW m \in Metrics, NEW e \in Event
  PROVE  LET c == Bus!Counted(m, e) IN
         /\ c \in Metrics
         /\ c.completed = m.completed + One(e, Completions)
         /\ c.errored = m.errored + One(e, Errors)
         /\ \A n \in Nodes : c.executions[n] = m.executions[n] + One(e, Exits(n))
<1> DEFINE more == m.events + 1
           k == [m EXCEPT !.events = more]
<1>1. /\ k \in Metrics /\ k.completed = m.completed /\ k.errored = m.errored
      /\ k.executions = m.executions /\ m.executions \in [Nodes -> Nat]
      /\ m.completed \in Nat /\ m.errored \in Nat
  BY DEF Metrics
<1> HIDE DEF k
<1>2. /\ e.kind # "completed" => One(e, Completions) = 0
      /\ e.kind = "completed" => One(e, Completions) = 1
      /\ e.kind # "error" => One(e, Errors) = 0
      /\ e.kind = "error" => One(e, Errors) = 1
      /\ \A n \in Nodes : One(e, Exits(n)) = IF e.kind = "exited" /\ e.node = n THEN 1 ELSE 0
  BY DEF One, Completions, Errors, Exits
<1>3. CASE e.kind = "completed"
  <2>1. Bus!Counted(m, e) = [k EXCEPT !.completed = @ + 1]
    BY <1>3 DEF Bus!Counted, k
  <2> QED
    BY <1>1, <1>2, <1>3, <2>1 DEF Metrics
<1>4. CASE e.kind = "error"
  <2>1. Bus!Counted(m, e) = [k EXCEPT !.errored = @ + 1]
    BY <1>4 DEF Bus!Counted, k
  <2> QED
    BY <1>1, <1>2, <1>4, <2>1 DEF Metrics
<1>5. CASE e.kind = "exited"
  <2> DEFINE ran == [k.executions EXCEPT ![e.node] = @ + 1]
  <2>1. Bus!Counted(m, e) = [k EXCEPT !.executions = ran]
    BY <1>5 DEF Bus!Counted, k
  <2>2. /\ ran \in [Nodes -> Nat] /\ k.executions \in [Nodes -> Nat]
        /\ \A n \in Nodes : ran[n] = IF n = e.node THEN k.executions[n] + 1 ELSE k.executions[n]
    BY <1>1, OneMoreAt
  <2>3. \A n \in Nodes : ran[n] = m.executions[n] + One(e, Exits(n))
    <3> TAKE n \in Nodes
    <3> HIDE DEF ran
    <3>1. One(e, Exits(n)) = IF e.node = n THEN 1 ELSE 0
      BY <1>2, <1>5
    <3>2. /\ ran[n] = IF n = e.node THEN k.executions[n] + 1 ELSE k.executions[n]
          /\ k.executions[n] = m.executions[n] /\ m.executions[n] \in Nat
      BY <1>1, <2>2
    <3> QED
      BY <3>1, <3>2
  <2> HIDE DEF ran
  <2>4. /\ [k EXCEPT !.executions = ran] \in Metrics
        /\ [k EXCEPT !.executions = ran].executions = ran
        /\ [k EXCEPT !.executions = ran].completed = k.completed
        /\ [k EXCEPT !.executions = ran].errored = k.errored
    BY <1>1, <2>2 DEF Metrics
  <2> QED
    BY <1>1, <1>2, <1>5, <2>1, <2>3, <2>4
<1>6. CASE e.kind = "failed"
  <2> DEFINE lost == [k.failures EXCEPT ![e.node] = @ + 1]
  <2>1. Bus!Counted(m, e) = [k EXCEPT !.failures = lost]
    BY <1>6 DEF Bus!Counted, k
  <2>2. lost \in [Nodes -> Nat]
    <3>1. k.failures \in [Nodes -> Nat]
      BY <1>1 DEF Metrics
    <3> QED
      BY <3>1, OneMoreAt
  <2> HIDE DEF lost
  <2> QED
    BY <1>1, <1>2, <1>6, <2>1, <2>2 DEF Metrics
<1>7. CASE e.kind = "saved"
  <2>1. Bus!Counted(m, e) = [k EXCEPT !.saved = @ + 1]
    BY <1>7 DEF Bus!Counted, k
  <2> QED
    BY <1>1, <1>2, <1>7, <2>1 DEF Metrics
<1>8. CASE e.kind \notin {"completed", "error", "exited", "failed", "saved"}
  <2>1. Bus!Counted(m, e) = k
    BY <1>8 DEF Bus!Counted, k
  <2> QED
    BY <1>1, <1>2, <1>8, <2>1 DEF Metrics
<1> QED
  BY <1>3, <1>4, <1>5, <1>6, <1>7, <1>8

LEMMA RunsRest ==
  ASSUME runs' = runs
  PROVE  /\ Reached' = Reached /\ Broken' = Broken
         /\ \A n : Executed(n)' = Executed(n)
         /\ Limits => Limits'
<1>1. Reached' = Reached /\ Broken' = Broken
  BY DEF Reached, Broken, Finished, Limited
<1>2. \A n : Executed(n)' = Executed(n)
  BY DEF Executed, Visits
<1> QED
  BY <1>1, <1>2 DEF Limits

LEMMA HandlingStaysExact ==
  ASSUME BusInv, CountInv, NEW s \in Subscribers, Bus!Handle(s), runs' = runs
  PROVE  CountInv'
<1> DEFINE event == channel[Len(channel) - receivers[s].unread + 1]
<1>1. event \in Event
  <2>1. /\ receivers[s].unread \in Nat /\ receivers[s].unread > 0
        /\ receivers[s].unread <= Len(channel)
        /\ channel \in Seq(Event) /\ Len(channel) \in Nat
    BY DEF BusInv, ReceiverOK, Receiver, Bus!Handle
  <2>2. Len(channel) - receivers[s].unread + 1 \in 1 .. Len(channel)
    BY <2>1
  <2> QED
    BY <2>1, <2>2
<1>2. /\ metrics' = [metrics EXCEPT ![s] = Bus!Counted(metrics[s], event)]
      /\ receivers' = [receivers EXCEPT ![s] = Bus!Read(receivers[s], event)]
      /\ channel' = channel
  BY DEF Bus!Handle
<1> DEFINE m == metrics[s]
           c == Bus!Counted(m, event)
<1>3. /\ c \in Metrics /\ m \in Metrics
      /\ c.completed = m.completed + One(event, Completions)
      /\ c.errored = m.errored + One(event, Errors)
      /\ \A n \in Nodes : c.executions[n] = m.executions[n] + One(event, Exits(n))
  BY <1>1, CountedOnce DEF CountInv
<1>4. \A E : /\ Cardinality(Pending(s, E)') = Cardinality(Pending(s, E)) - One(event, E)
            /\ Cardinality(Pending(s, E)) \in Nat /\ One(event, E) \in {0, 1}
  BY PendingShrinks, PendingIsFinite DEF One
<1>5. /\ m.completed \in Nat /\ m.errored \in Nat
      /\ \A n \in Nodes : m.executions[n] \in Nat
  BY <1>3 DEF Metrics
<1>6. Faithful(Bus!Read(receivers[s], event)) => Faithful(receivers[s])
  <2>1. receivers[s] \in Receiver
    BY DEF BusInv, ReceiverOK
  <2> DEFINE less == receivers[s].unread - 1
             kept == receivers[s].lossless /\ ~receivers[s].overwritten
             new  == [receivers[s] EXCEPT !.unread = less, !.overwritten = FALSE,
                                          !.lossless = kept, !.heard = event]
  <2>2. new.lossless = kept
    BY <2>1 DEF Receiver
  <2>3. Bus!Read(receivers[s], event) = new
    BY DEF Bus!Read
  <2> QED
    BY <2>2, <2>3 DEF Faithful
<1>7. /\ Reached' = Reached /\ Broken' = Broken /\ Limits'
      /\ \A n : Executed(n)' = Executed(n)
  BY RunsRest DEF CountInv
<1>8. metrics' = [q \in Subscribers |-> metrics'[q]] /\ metrics'[s] = c
  BY <1>2 DEF CountInv
<1> HIDE DEF event, c, m
<1>9. ASSUME Faithful(receivers'[s])
      PROVE  /\ \A n \in Nodes : Cardinality(Executed(n)') =
                  c.executions[n] + Cardinality(Pending(s, Exits(n))')
             /\ Cardinality(Reached') = c.completed + Cardinality(Pending(s, Completions)')
             /\ Cardinality(Broken') = c.errored + Cardinality(Pending(s, Errors)')
  <2>1. Faithful(receivers[s])
    <3>1. receivers'[s] = Bus!Read(receivers[s], event)
      BY <1>2 DEF BusInv
    <3> QED
      BY <1>6, <1>9, <3>1
  <2>2. /\ \A n \in Nodes : Cardinality(Executed(n)) = m.executions[n] + Cardinality(Pending(s, Exits(n)))
        /\ Cardinality(Reached) = m.completed + Cardinality(Pending(s, Completions))
        /\ Cardinality(Broken) = m.errored + Cardinality(Pending(s, Errors))
    BY <2>1 DEF CountInv, Exact, m
  <2> QED
    BY <1>3, <1>4, <1>5, <1>7, <2>2
<1>10. Exact(s)'
  BY <1>8, <1>9 DEF Exact, Faithful
<1>11. ASSUME NEW q \in Subscribers, q # s
       PROVE  metrics'[q] \in Metrics /\ Exact(q)'
  <2>1. metrics'[q] = metrics[q] /\ receivers'[q] = receivers[q]
    BY <1>2, <1>11 DEF CountInv, BusInv
  <2>2. \A E : Pending(q, E)' = Pending(q, E)
    BY <1>2, <2>1 DEF Pending
  <2> QED
    BY <1>7, <2>1, <2>2 DEF CountInv, Exact, Faithful
<1> QED
  BY <1>3, <1>7, <1>8, <1>10, <1>11 DEF CountInv

LEMMA SubscribingStaysExact ==
  ASSUME BusInv, CountInv, NEW s \in Subscribers, Bus!Subscribe(s) \/ Bus!Unsubscribe(s),
         runs' = runs
  PROVE  CountInv'
<1>1. /\ Reached' = Reached /\ Broken' = Broken /\ Limits'
      /\ \A n : Executed(n)' = Executed(n)
  BY RunsRest DEF CountInv
<1>2. channel' = channel /\ metrics' = [q \in Subscribers |-> metrics'[q]]
  BY DEF Bus!Subscribe, Bus!Unsubscribe, CountInv
<1>3. ASSUME NEW q \in Subscribers, metrics'[q] = metrics[q],
             receivers'[q].unread = receivers[q].unread,
             Faithful(receivers'[q]) => Faithful(receivers[q])
      PROVE  metrics'[q] \in Metrics /\ Exact(q)'
  <2>1. \A E : Pending(q, E)' = Pending(q, E)
    BY <1>2, <1>3 DEF Pending
  <2> QED
    BY <1>1, <1>3, <2>1 DEF CountInv, Exact, Faithful
<1>4. ASSUME NEW q \in Subscribers, q # s
      PROVE  metrics'[q] \in Metrics /\ Exact(q)'
  <2>1. metrics'[q] = metrics[q] /\ receivers'[q] = receivers[q]
    BY <1>4 DEF Bus!Subscribe, Bus!Unsubscribe, CountInv, BusInv
  <2> QED
    BY <1>3, <2>1
<1>5. CASE Bus!Subscribe(s)
  <2>1. /\ metrics'[s] = metrics[s] /\ receivers[s] \in Receiver
        /\ receivers'[s] = [receivers[s] EXCEPT !.on = TRUE]
    BY <1>5 DEF Bus!Subscribe, BusInv, ReceiverOK
  <2>2. /\ receivers'[s].unread = receivers[s].unread
        /\ receivers'[s].lossless = receivers[s].lossless
        /\ receivers'[s].overwritten = receivers[s].overwritten
    BY <2>1 DEF Receiver
  <2>3. metrics'[s] \in Metrics /\ Exact(s)'
    BY <1>3, <2>1, <2>2 DEF Faithful
  <2> QED
    BY <1>1, <1>2, <1>4, <2>3 DEF CountInv
<1>6. CASE Bus!Unsubscribe(s)
  <2>1. /\ metrics'[s] = Bus!NoMetrics
        /\ receivers'[s] = [Bus!Gone EXCEPT !.lossless = FALSE]
    BY <1>6 DEF Bus!Unsubscribe, BusInv, CountInv
  <2>2. Bus!NoMetrics \in Metrics
    BY DEF Bus!NoMetrics, Metrics
  <2>3. receivers'[s].lossless = FALSE
    BY <2>1 DEF Bus!Gone
  <2>4. Exact(s)'
    BY <2>3 DEF Exact, Faithful
  <2> QED
    BY <1>1, <1>2, <1>4, <2>1, <2>2, <2>4 DEF CountInv
<1> QED
  BY <1>5, <1>6

\* Which events count, and as what.
Quiet(f) == f \notin Completions /\ f \notin Errors /\ \A n : f \notin Exits(n)

LEMMA WhatCounts ==
  /\ Quiet(Bus!NoEvent)
  /\ \A f \in Uncounted : f \in Event /\ Quiet(f)
  /\ \A id \in Nat : Restored(id) \in Uncounted /\ Saved(id) \in Uncounted
  /\ \A n \in Names : Started(n) \in Uncounted /\ Failed(n) \in Uncounted
  /\ \A n \in Names, i \in Nat : Entered(n, i) \in Uncounted
  /\ \A i \in Nat : /\ Completed(i) \in Completions /\ Completed(i) \in Event
                    /\ Completed(i) \notin Errors /\ \A n : Completed(i) \notin Exits(n)
  /\ Error \in Errors /\ Error \in Event /\ Error \notin Completions
  /\ \A n : Error \notin Exits(n)
  /\ \A n, m \in Names : /\ Exited(n, m) \in Event /\ Exited(n, m) \notin Completions
                         /\ Exited(n, m) \notin Errors
                         /\ \A k : Exited(n, m) \in Exits(k) <=> k = n
<1>1. Quiet(Bus!NoEvent)
  BY DEF Quiet, Completions, Errors, Exits, Bus!NoEvent
<1>2. \A f \in Uncounted : f \in Event /\ Quiet(f)
  BY DEF Quiet, Completions, Errors, Exits, Uncounted
<1>3. \A id \in Nat : Restored(id) \in Uncounted /\ Saved(id) \in Uncounted
  BY DEF Uncounted, Event, Restored, Saved
<1>4. \A n \in Names : Started(n) \in Uncounted /\ Failed(n) \in Uncounted
  BY DEF Uncounted, Event, Started, Failed
<1>5. \A n \in Names, i \in Nat : Entered(n, i) \in Uncounted
  BY DEF Uncounted, Event, Entered
<1>6. \A i \in Nat : /\ Completed(i) \in Completions /\ Completed(i) \in Event
                     /\ Completed(i) \notin Errors /\ \A n : Completed(i) \notin Exits(n)
  BY DEF Completions, Errors, Exits, Event, Completed
<1>7. /\ Error \in Errors /\ Error \in Event /\ Error \notin Completions
      /\ \A n : Error \notin Exits(n)
  BY DEF Completions, Errors, Exits, Event, Error
<1>8. \A n, m \in Names : /\ Exited(n, m) \in Event /\ Exited(n, m) \notin Completions
                          /\ Exited(n, m) \notin Errors
                          /\ \A k : Exited(n, m) \in Exits(k) <=> k = n
  BY DEF Completions, Errors, Exits, Event, Exited
<1> QED
  BY <1>1, <1>2, <1>3, <1>4, <1>5, <1>6, <1>7, <1>8

LEMMA StepCounts ==
  ASSUME IndInv, BusInv, CountInv, NEW r \in Runs, NEW t \in Threads,
         Invoke(r, t) \/ Resume(r, t) \/ Loop(r) \/ Dropped(r)
  PROVE  CountInv'
<1> DEFINE run            == runs[r]
           Gone(phase)    == [run EXCEPT !.phase = phase]
           Ended(outcome) == [run EXCEPT !.phase = "done", !.outcome = outcome]
           Begun(node, st) == [run EXCEPT !.phase = "top", !.thread = t, !.node = node, !.st = st]
<1>0. /\ RunOK(run) /\ run \in Run /\ run.iters \in Nat /\ run.iters <= Len(run.st.path)
      /\ run.node \in Names /\ lastId \in Nat /\ MaxIterations \in Nat
      /\ run.st.path \in Seq(Nodes)
  BY MaxIterationsIsNat DEF IndInv, RunOK, Run, CountInv, Limits, Store!StoreTypeOK, AgentState
<1>1. \A phase : /\ Gone(phase).phase = phase /\ Gone(phase).node = run.node
                 /\ Gone(phase).st = run.st /\ Gone(phase).iters = run.iters
                 /\ Gone(phase).outcome = run.outcome
  BY <1>0 DEF Run
<1>2. \A o : /\ Ended(o).phase = "done" /\ Ended(o).node = run.node
             /\ Ended(o).st = run.st /\ Ended(o).iters = run.iters
             /\ Ended(o).outcome = o
  BY <1>0 DEF Run
<1>3. \A p : Goes(r, p) => runs' = [runs EXCEPT ![r] = Gone(p)]
  BY DEF Goes
<1>4. \A o : Ends(r, o) => runs' = [runs EXCEPT ![r] = Ended(o)]
  BY DEF Ends
<1>5. \A node, st : Begin(r, t, node, st) => runs' = [runs EXCEPT ![r] = Begun(node, st)]
  BY DEF Begin
<1>6. \A node, st : /\ Begun(node, st).phase = "top" /\ Begun(node, st).node = node
                    /\ Begun(node, st).st = st /\ Begun(node, st).iters = run.iters
                    /\ Begun(node, st).outcome = run.outcome
  BY <1>0 DEF Run
<1> HIDE DEF Gone, Ended, Begun
<1>7. ASSUME NEW new, runs' = [runs EXCEPT ![r] = new], NEW f, Publishes(f), Tells(f, run, new)
      PROVE  CountInv'
  BY <1>7, RunTells, PublishingStaysExact DEF CountInv
<1>8. ASSUME NEW new, new.st = run.st, new.iters = run.iters, NEW f, \A n : f \notin Exits(n),
             Finished(new) <=> (Finished(run) \/ f \in Completions), f \in Completions => ~Finished(run),
             Bad(new) <=> (Bad(run) \/ f \in Errors), f \in Errors => ~Bad(run)
      PROVE  Tells(f, run, new)
  <2>1. \A n : Visits(new, n) = Visits(run, n)
    BY <1>8 DEF Visits
  <2> QED
    BY <1>0, <1>8, <2>1 DEF Tells
<1>9. ASSUME NEW new, runs' = [runs EXCEPT ![r] = new], new.st = run.st, new.iters = run.iters,
             NEW f, Publishes(f), Quiet(f), Finished(new) <=> Finished(run), Bad(new) <=> Bad(run)
      PROVE  CountInv'
  <2>1. Tells(f, run, new)
    BY <1>8, <1>9 DEF Quiet
  <2> QED
    BY <1>7, <1>9, <2>1
<1>10. \A f \in Uncounted : Bus!Publish(<<f>>) => Publishes(f) /\ Quiet(f)
  BY WhatCounts DEF Publishes
<1>11. Silent => Publishes(Bus!NoEvent) /\ Quiet(Bus!NoEvent)
  BY WhatCounts DEF Silent, Publishes
<1>12. ASSUME NEW new, runs' = [runs EXCEPT ![r] = new], new.st = run.st, new.iters = run.iters,
              Silent, Finished(new) <=> Finished(run), Bad(new) <=> Bad(run)
       PROVE  CountInv'
  BY <1>9, <1>11, <1>12
<1>13. ASSUME run.phase = "idle", NEW node, NEW st \in AgentState, Begin(r, t, node, st),
              NEW f, Publishes(f), Quiet(f)
       PROVE  CountInv'
  <2> DEFINE new == Begun(node, st)
  <2>1. /\ runs' = [runs EXCEPT ![r] = new] /\ run.iters = 0 /\ run.outcome = "none"
        /\ new.phase = "top" /\ new.st = st /\ new.iters = 0 /\ new.outcome = "none"
    BY <1>0, <1>5, <1>6, <1>13 DEF RunOK
  <2>2. Len(st.path) \in Nat
    BY <1>13 DEF AgentState
  <2> HIDE DEF new
  <2>3. \A n : Visits(new, n) = Visits(run, n)
    <3>1. Len(st.path) - 0 + 1 .. Len(st.path) = {} /\ Len(run.st.path) - 0 + 1 .. Len(run.st.path) = {}
      BY <1>0, <2>2
    <3> QED
      BY <2>1, <3>1 DEF Visits
  <2>4. ~Finished(run) /\ ~Finished(new) /\ ~Bad(run) /\ ~Bad(new)
    BY <1>13, <2>1 DEF Finished, Bad, Limited
  <2>5. Tells(f, run, new)
    BY <1>13, <2>1, <2>2, <2>3, <2>4 DEF Tells, Quiet
  <2> QED
    BY <1>7, <1>13, <2>1, <2>5
<1>14. CASE Invoke(r, t)
  <2>1. FreshState \in AgentState /\ Entry \in Names
    BY GraphCompiles, EmptySeq DEF Compiles, Names, FreshState, AgentState
  <2>2. Started(Entry) \in Uncounted
    BY <2>1, WhatCounts
  <2>3. Publishes(Started(Entry)) /\ Quiet(Started(Entry))
    BY <1>10, <1>14, <2>2 DEF Invoke, Publish
  <2> QED
    BY <1>13, <1>14, <2>1, <2>3 DEF Invoke
<1>15. CASE Resume(r, t)
  <2> DEFINE id == Store!Latest(t)
             cp == checkpoints[id]
  <2>1. run.phase = "idle" /\ run.outcome = "none" /\ run.node = Entry /\ Entry # END
    BY <1>0, <1>15, GraphCompiles, EndIsNoNode DEF Resume, RunOK, Compiles
  <2>2. CASE id \in Store!Stored
    <3>1. cp.node \in Names /\ cp.st \in AgentState /\ id \in Nat
      BY <1>0, <2>2 DEF IndInv, Store!StoreTypeOK, Store!Checkpoint
    <3>2. Begin(r, t, cp.node, cp.st) /\ Bus!Publish(<<Restored(id), Started(cp.node)>>)
      BY <1>15, <2>2 DEF Resume, Publish
    <3>3. /\ Restored(id) \in Uncounted /\ Started(cp.node) \in Uncounted
          /\ Started(cp.node) \in Event /\ Quiet(Started(cp.node))
      BY <3>1, WhatCounts
    <3>4. Publishes(Started(cp.node))
      BY <3>2, <3>3 DEF Publishes
    <3> HIDE DEF cp
    <3> QED
      BY <1>13, <2>1, <3>1, <3>2, <3>3, <3>4
  <2>3. CASE id \notin Store!Stored
    <3>1. runs' = [runs EXCEPT ![r] = Ended("no_checkpoint")] /\ Silent
      BY <1>4, <1>15, <2>3 DEF Resume
    <3>2. /\ ~Finished(run) /\ ~Finished(Ended("no_checkpoint"))
          /\ ~Bad(run) /\ ~Bad(Ended("no_checkpoint"))
      BY <1>2, <2>1 DEF Finished, Bad, Limited
    <3> QED
      BY <1>2, <1>12, <3>1, <3>2
  <2> QED
    BY <2>2, <2>3
<1>16. CASE Finish(r)
  <2> DEFINE f == Completed(run.iters)
  <2>1. run.phase = "top" /\ run.node = END /\ run.outcome = "none"
    BY <1>0, <1>16 DEF Finish, AtTop, RunOK
  <2>2. PICK new \in {Gone("ending"), Ended("completed")} : runs' = [runs EXCEPT ![r] = new]
    BY <1>3, <1>4, <1>16 DEF Finish
  <2>3. /\ f \in Completions /\ f \in Event /\ f \notin Errors /\ \A n : f \notin Exits(n)
    BY <1>0, WhatCounts
  <2>4. Publishes(f)
    BY <1>16, <2>3 DEF Finish, Publish, Publishes
  <2>5. /\ Finished(new) /\ ~Finished(run) /\ ~Bad(new) /\ ~Bad(run)
        /\ new.st = run.st /\ new.iters = run.iters
    BY <1>1, <1>2, <2>1, <2>2 DEF Finished, Bad, Limited
  <2>6. Tells(f, run, new)
    BY <1>8, <2>3, <2>5
  <2> QED
    BY <1>7, <2>2, <2>4, <2>6
<1>17. CASE HitLimit(r)
  <2>1. run.phase = "top" /\ run.node # END /\ run.iters >= MaxIterations /\ run.outcome = "none"
    BY <1>0, <1>17 DEF HitLimit, AtTop, RunOK
  <2>2. PICK new \in {Gone("limit"), Ended("limit")} : runs' = [runs EXCEPT ![r] = new]
    BY <1>3, <1>4, <1>17 DEF HitLimit
  <2>3. Publishes(Error)
    BY <1>17, WhatCounts DEF HitLimit, Publish, Publishes
  <2>4. /\ Bad(new) /\ ~Bad(run) /\ ~Finished(new) /\ ~Finished(run)
        /\ new.st = run.st /\ new.iters = run.iters
    BY <1>1, <1>2, <2>1, <2>2 DEF Finished, Bad, Limited
  <2>5. Tells(Error, run, new)
    BY <1>8, <2>4, WhatCounts
  <2> QED
    BY <1>7, <2>2, <2>3, <2>5
<1>18. CASE MissingNode(r)
  <2>1. /\ run.phase = "top" /\ run.node # END /\ run.iters < MaxIterations /\ run.outcome = "none"
        /\ runs' = [runs EXCEPT ![r] = Ended("not_found")] /\ Silent
    BY <1>0, <1>4, <1>18 DEF MissingNode, MayExecute, AtTop, RunOK
  <2>2. /\ ~Finished(run) /\ ~Finished(Ended("not_found"))
        /\ ~Bad(run) /\ ~Bad(Ended("not_found"))
    BY <1>0, <1>2, <2>1 DEF Finished, Bad, Limited
  <2> QED
    BY <1>2, <1>12, <2>1, <2>2
<1>19. CASE Enter(r)
  <2> DEFINE f == Entered(run.node, run.iters)
  <2>1. run.phase = "top" /\ run.outcome = "none"
    BY <1>0, <1>19 DEF Enter, AtTop, RunOK
  <2>2. PICK new \in {Gone("entered"), Gone("exec")} : runs' = [runs EXCEPT ![r] = new]
    BY <1>3, <1>19 DEF Enter
  <2>3. f \in Uncounted
    BY <1>0, WhatCounts
  <2>4. Publishes(f) /\ Quiet(f)
    BY <1>10, <1>19, <2>3 DEF Enter, Publish
  <2>5. /\ ~Bad(new) /\ ~Bad(run) /\ ~Finished(new) /\ ~Finished(run)
        /\ new.st = run.st /\ new.iters = run.iters
    BY <1>1, <2>1, <2>2 DEF Finished, Bad, Limited
  <2> QED
    BY <1>9, <2>2, <2>4, <2>5
\* Where the loop stands at a save or at an await, and what an end makes of it.
<1>20. ASSUME run.phase \in {"entered", "exec", "ending", "limit"}
       PROVE  /\ run.outcome = "none"
              /\ Finished(run) <=> run.phase = "ending"
              /\ Bad(run) <=> run.phase = "limit"
              /\ \A o \in {"completed", "limit", "save_failed", "dropped"} :
                   /\ Finished(Ended(o)) <=> run.phase = "ending"
                   /\ Bad(Ended(o)) <=> run.phase = "limit"
  <2>1. /\ run.outcome = "none"
        /\ run.phase \in {"entered", "exec"} => run.node # END /\ ~(run.iters >= MaxIterations)
        /\ run.phase = "ending" => run.node = END
        /\ run.phase = "limit" => run.node # END /\ run.iters >= MaxIterations
    BY <1>0, <1>20, EndIsNoNode DEF RunOK
  <2> QED
    BY <1>2, <1>20, <2>1 DEF Finished, Bad, Limited
<1>21. CASE Save(r)
  <2>1. Saved(lastId + 1) \in Uncounted
    BY <1>0, WhatCounts
  <2>2. Publishes(Saved(lastId + 1)) /\ Quiet(Saved(lastId + 1))
    BY <1>10, <1>21, <2>1 DEF Save, Publish
  <2>3. CASE run.phase = "entered"
    <3>1. runs' = [runs EXCEPT ![r] = Gone("exec")]
      BY <1>3, <1>21, <2>3 DEF Save
    <3>2. ~Finished(Gone("exec")) /\ ~Bad(Gone("exec")) /\ ~Finished(run) /\ ~Bad(run)
      BY <1>1, <1>20, <2>3 DEF Finished, Bad, Limited
    <3> QED
      BY <1>1, <1>9, <2>2, <3>1, <3>2
  <2>4. CASE run.phase = "ending"
    <3>1. runs' = [runs EXCEPT ![r] = Ended("completed")]
      BY <1>4, <1>21, <2>4 DEF Save
    <3>2. /\ Finished(Ended("completed")) <=> Finished(run)
          /\ Bad(Ended("completed")) <=> Bad(run)
      BY <1>20, <2>4
    <3> QED
      BY <1>2, <1>9, <2>2, <3>1, <3>2
  <2> QED
    BY <1>21, <2>3, <2>4 DEF Save
<1>22. ASSUME NEW o \in {"limit", "save_failed", "dropped"}, Ends(r, o), Silent,
              run.phase \in {"entered", "exec", "ending", "limit"}
       PROVE  CountInv'
  <2>1. runs' = [runs EXCEPT ![r] = Ended(o)]
    BY <1>4, <1>22
  <2>2. (Finished(Ended(o)) <=> Finished(run)) /\ (Bad(Ended(o)) <=> Bad(run))
    BY <1>20, <1>22
  <2> QED
    BY <1>2, <1>12, <1>22, <2>1, <2>2
<1>23. CASE SaveAtLimit(r) \/ SaveFails(r) \/ Dropped(r)
  BY <1>22, <1>23 DEF SaveAtLimit, SaveFails, Dropped
<1>24. CASE Execute(r)
  <2>1. PICK out \in Outputs[run.node] : \E next \in Successors(run.node, out) :
          /\ runs' = [runs EXCEPT ![r].phase = "top",
                                  ![r].st    = [iteration |-> @.iteration + 1,
                                                path |-> Append(@.path, run.node)],
                                  ![r].iters = @ + 1,
                                  ![r].node  = next]
          /\ Publish(run.thread, <<Exited(run.node, next)>>)
    BY <1>24 DEF Execute
  <2>2. PICK next \in Successors(run.node, out) :
          /\ runs' = [runs EXCEPT ![r].phase = "top",
                                  ![r].st    = [iteration |-> @.iteration + 1,
                                                path |-> Append(@.path, run.node)],
                                  ![r].iters = @ + 1,
                                  ![r].node  = next]
          /\ Publish(run.thread, <<Exited(run.node, next)>>)
    BY <2>1
  <2> DEFINE st  == [iteration |-> run.st.iteration + 1, path |-> Append(run.st.path, run.node)]
             new == [run EXCEPT !.phase = "top", !.st = st, !.iters = run.iters + 1, !.node = next]
             f   == Exited(run.node, next)
             L   == Len(run.st.path)
  <2>3. /\ run.phase = "exec" /\ run.node \in Nodes /\ run.outcome = "none" /\ next \in Names
        /\ ~Finished(run) /\ ~Bad(run)
    BY <1>0, <1>20, <1>24, <2>2 DEF Execute, RunOK, Names, After
  <2>4. runs' = [runs EXCEPT ![r] = new]
    BY <2>2
  <2>5. /\ new.phase = "top" /\ new.st = st /\ new.iters = run.iters + 1
        /\ new.outcome = "none"
    BY <1>0, <2>3 DEF Run
  <2>6. /\ Len(st.path) = L + 1 /\ L \in Nat /\ st.path[L + 1] = run.node
        /\ \A i \in 1 .. L : st.path[i] = run.st.path[i]
    BY <1>0, <2>3
  <2>7. /\ f \in Event /\ f \notin Completions /\ f \notin Errors
        /\ \A n : f \in Exits(n) <=> n = run.node
    <3>1. run.node \in Names
      BY <1>0
    <3> QED
      BY <2>3, <3>1, WhatCounts
  <2>8. Publishes(f)
    BY <2>2, <2>7 DEF Publish, Publishes
  <2> HIDE DEF st, new, f
  <2>9. ~Finished(new) /\ ~Bad(new)
    BY <2>5 DEF Finished, Bad, Limited
  <2>10. ASSUME NEW n
         PROVE  /\ Visits(new, n) = IF n = run.node THEN Visits(run, n) \cup {L + 1} ELSE Visits(run, n)
                /\ L + 1 \notin Visits(run, n)
    <3>1. Visits(new, n) = {i \in (L + 1) - (run.iters + 1) + 1 .. L + 1 : st.path[i] = n}
      BY <2>5, <2>6 DEF Visits
    <3>2. Visits(run, n) = {i \in L - run.iters + 1 .. L : run.st.path[i] = n}
      BY DEF Visits
    <3>3. /\ (L + 1) - (run.iters + 1) + 1 .. L + 1 = (L - run.iters + 1 .. L) \cup {L + 1}
          /\ L + 1 \notin L - run.iters + 1 .. L
          /\ L - run.iters + 1 .. L \subseteq 1 .. L
      <4>1. run.iters \in Nat /\ L \in Nat /\ run.iters <= L
        BY <1>0, <2>6
      <4>2. \A l, i \in Nat : i <= l =>
              /\ (l + 1) - (i + 1) + 1 .. l + 1 = (l - i + 1 .. l) \cup {l + 1}
              /\ l + 1 \notin l - i + 1 .. l
              /\ l - i + 1 .. l \subseteq 1 .. l
        OBVIOUS
      <4> HIDE DEF L
      <4> QED
        BY <4>1, <4>2
    <3> QED
      BY <2>6, <3>1, <3>2, <3>3
  <2>11. Tells(f, run, new)
    BY <1>0, <2>3, <2>5, <2>6, <2>7, <2>9, <2>10 DEF Tells
  <2> QED
    BY <1>7, <2>4, <2>8, <2>11
<1>25. CASE NodeFails(r)
  <2>1. /\ run.phase = "exec" /\ runs' = [runs EXCEPT ![r] = Ended("node_failed")]
        /\ Bus!Publish(<<Failed(run.node), Error>>)
    BY <1>4, <1>25 DEF NodeFails, Publish
  <2>2. Failed(run.node) \in Uncounted
    BY <1>0, WhatCounts
  <2>3. Publishes(Error)
    BY <2>1, <2>2, WhatCounts DEF Publishes
  <2>4. /\ ~Finished(run) /\ ~Bad(run) /\ Bad(Ended("node_failed")) /\ ~Finished(Ended("node_failed"))
    <3>1. run.node # END /\ ~Finished(run) /\ ~Bad(run)
      BY <1>0, <1>20, <2>1, EndIsNoNode DEF RunOK
    <3> QED
      BY <1>2, <3>1 DEF Finished, Bad
  <2>5. Tells(Error, run, Ended("node_failed"))
    BY <1>2, <1>8, <2>4, WhatCounts
  <2> QED
    BY <1>7, <2>1, <2>3, <2>5
<1> QED
  BY <1>14, <1>15, <1>16, <1>17, <1>18, <1>19, <1>21, <1>23, <1>24, <1>25 DEF Loop

\* For every graph, handlers and capacity: a handler that was there from the
\* beginning and was never told of a lag has counted, once it has read everything,
\* exactly what happened.
THEOREM MetricsStayExact == Spec => []MetricsAreExact
<1>1. Init => CountInv
  <2> SUFFICES ASSUME Init PROVE CountInv
    OBVIOUS
  <2>1. /\ \A r \in Runs : runs[r] = NotStarted
        /\ receivers = [s \in Subscribers |-> Bus!Gone] /\ metrics = [s \in Subscribers |-> Bus!NoMetrics]
    BY DEF Init, Bus!BusInit
  <2>2. Len(<<>>) = 0
    OBVIOUS
  <2>3. ~Finished(NotStarted) /\ ~Limited(NotStarted) /\ NotStarted.outcome # "node_failed"
    BY DEF NotStarted, Finished, Limited
  <2>4. \A n : Visits(NotStarted, n) = {}
    BY DEF Visits, NotStarted, FreshState
  <2>5. /\ Reached = {} /\ Broken = {} /\ \A n : Executed(n) = {}
        /\ \A r \in Runs : runs[r].iters <= Len(runs[r].st.path)
    <3>1. Reached = {} /\ Broken = {}
      BY <2>1, <2>3 DEF Reached, Broken
    <3>2. \A n : Executed(n) = {}
      BY <2>1, <2>4 DEF Executed
    <3>3. \A r \in Runs : runs[r].iters <= Len(runs[r].st.path)
      BY <2>1, <2>2 DEF NotStarted, FreshState
    <3> QED
      BY <3>1, <3>2, <3>3
  <2>6. Bus!NoMetrics \in Metrics
    BY DEF Bus!NoMetrics, Metrics
  <2>7. \A s \in Subscribers : \A E : Pending(s, E) = {}
    <3>1. \A s \in Subscribers : receivers[s].unread = 0
      BY <2>1 DEF Bus!Gone
    <3> QED
      BY <3>1 DEF Pending
  <2>8. ASSUME NEW s \in Subscribers
        PROVE  metrics[s] \in Metrics /\ Exact(s)
    <3>1. /\ metrics[s] = Bus!NoMetrics
          /\ \A n \in Nodes : metrics[s].executions[n] = 0
          /\ metrics[s].completed = 0 /\ metrics[s].errored = 0
      BY <2>1 DEF Bus!NoMetrics
    <3>2. Cardinality({}) = 0
      BY FS_EmptySet
    <3>3. /\ \A n \in Nodes : Cardinality(Executed(n)) = 0 /\ Cardinality(Pending(s, Exits(n))) = 0
          /\ Cardinality(Reached) = 0 /\ Cardinality(Broken) = 0
          /\ Cardinality(Pending(s, Completions)) = 0 /\ Cardinality(Pending(s, Errors)) = 0
      BY <2>5, <2>7, <3>2
    <3>4. Exact(s)
      BY <3>1, <3>3 DEF Exact
    <3> QED
      BY <2>6, <3>1, <3>4
  <2> QED
    BY <2>1, <2>5, <2>8, FS_EmptySet DEF CountInv, Limits
<1>2. IndInv /\ BusInv /\ CountInv /\ [Next]_vars => CountInv'
  <2> SUFFICES ASSUME IndInv, BusInv, CountInv, [Next]_vars PROVE CountInv'
    OBVIOUS
  <2>1. CASE \E r \in Runs : (\E t \in Threads : Invoke(r, t) \/ Resume(r, t)) \/ Loop(r) \/ Dropped(r)
    <3>1. PICK r \in Runs : (\E t \in Threads : Invoke(r, t) \/ Resume(r, t)) \/ Loop(r) \/ Dropped(r)
      BY <2>1
    <3>2. Loop(r) \/ Dropped(r) => runs[r].phase \in Active
      BY DEF Active, Loop, Dropped, Finish, HitLimit, MissingNode, Enter, AtTop, Save,
             SaveAtLimit, SaveFails, Execute, NodeFails
    <3>3. \E t \in Threads : Invoke(r, t) \/ Resume(r, t) \/ Loop(r) \/ Dropped(r)
      BY <3>1, <3>2 DEF IndInv, RunOK
    <3> QED
      BY <3>3, StepCounts
  <2>2. CASE Subscription
    <3>1. runs' = runs /\ Bus!BusNext
      BY <2>2 DEF Subscription
    <3>2. PICK s \in Subscribers : Bus!Subscribe(s) \/ Bus!Unsubscribe(s) \/ Bus!Handle(s)
      BY <3>1 DEF Bus!BusNext
    <3> QED
      BY <3>1, <3>2, HandlingStaysExact, SubscribingStaysExact
  <2>3. CASE UNCHANGED vars
    <3>1. runs' = runs /\ channel' = channel /\ receivers' = receivers /\ metrics' = metrics
      BY <2>3 DEF vars
    <3>2. \A s, E : Pending(s, E)' = Pending(s, E)
      BY <3>1 DEF Pending
    <3>3. \A s \in Subscribers : Exact(s)'
      BY <3>1, <3>2, RunsRest DEF Exact, Faithful, CountInv
    <3> QED
      BY <3>1, <3>3, RunsRest DEF CountInv
  <2> QED
    BY <2>1, <2>2, <2>3 DEF Next
<1>3. BusInv /\ CountInv => MetricsAreExact
  <2> SUFFICES ASSUME BusInv, CountInv, NEW s \in Subscribers, receivers[s].lossless,
                      ~receivers[s].overwritten, receivers[s].unread = 0
               PROVE  /\ \A n \in Nodes : metrics[s].executions[n] = Cardinality(Executed(n))
                      /\ metrics[s].completed = Cardinality(Reached)
                      /\ metrics[s].errored = Cardinality(Broken)
    BY DEF MetricsAreExact
  <2>1. Faithful(receivers[s]) /\ \A E : Pending(s, E) = {}
    BY DEF Faithful, Pending
  <2>2. /\ metrics[s].completed \in Nat /\ metrics[s].errored \in Nat
        /\ \A n \in Nodes : metrics[s].executions[n] \in Nat
    BY DEF CountInv, Metrics
  <2>3. \A E : Cardinality(Pending(s, E)) = 0
    BY <2>1, FS_EmptySet
  <2>4. /\ \A n \in Nodes : Cardinality(Executed(n)) = metrics[s].executions[n] + 0
        /\ Cardinality(Reached) = metrics[s].completed + 0
        /\ Cardinality(Broken) = metrics[s].errored + 0
    BY <2>1, <2>3 DEF CountInv, Exact
  <2> QED
    BY <2>2, <2>4
<1> QED
  BY <1>1, <1>2, <1>3, Inductive, BusInductive, PTL DEF Spec
=============================================================================
