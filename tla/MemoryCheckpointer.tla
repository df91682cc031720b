------------------------- MODULE MemoryCheckpointer -------------------------
(***************************************************************************)
(* MemoryCheckpointer (checkpoint/memory.rs): a map from checkpoint id to  *)
(* checkpoint and, per thread, the list of its ids in the order they were  *)
(* saved.  One lock guards both, so each method is one step.               *)
(*                                                                         *)
(* Checkpoint::new draws a fresh uuid.  Ids are numbers here and lastId is *)
(* the last one drawn: what matters is that no two checkpoints share one.  *)
(* `threads` has an empty list where the code may have none: no method     *)
(* tells the two apart.                                                    *)
(***************************************************************************)
EXTENDS SequencesExt

CONSTANTS Threads,     \* thread ids
          NodeNames,   \* values of Checkpoint::node_id
          SavedState   \* values of Checkpoint::state

VARIABLES checkpoints,   \* id -> checkpoint
          threads,       \* thread -> ids, oldest first
          lastId

storeVars == <<checkpoints, threads, lastId>>

Checkpoint == [thread : Threads, node : NodeNames, st : SavedState]

StoreInit ==
  /\ checkpoints = <<>>
  /\ threads = [t \in Threads |-> <<>>]
  /\ lastId = 0

Stored == DOMAIN checkpoints

-----------------------------------------------------------------------------


\* Checkpoint::new followed by save.
Save(cp) ==
  /\ lastId' = lastId + 1
  /\ checkpoints' = [id \in Stored \cup {lastId'} |->
                       IF id = lastId' THEN cp ELSE checkpoints[id]]
  /\ threads' = [threads EXCEPT ![cp.thread] = Append(@, lastId')]

\* load(thread): the id it answers with, 0 for None.
Latest(t) == IF threads[t] = <<>> THEN 0 ELSE threads[t][Len(threads[t])]

\* Mutant: the ids after the deleted one go with it.
RetainBefore(ids, gone) ==
  IF gone \in ToSet(ids)
  THEN SubSeq(ids, 1, (CHOOSE k \in 1 .. Len(ids) : ids[k] = gone) - 1)
  ELSE ids

\* ids.retain(|id| id != gone), for a list that holds an id at most once.
Retain(ids, gone) ==
  IF gone \in ToSet(ids)
  THEN RemoveAt(ids, CHOOSE k \in 1 .. Len(ids) : ids[k] = gone)
  ELSE ids

Forget(ids) == checkpoints' = [id \in Stored \ ids |-> checkpoints[id]]

\* Mutant: the id stays in the list of its thread.
DeleteOneIndex(id) ==
  id \in Stored /\ Forget({id}) /\ UNCHANGED <<threads, lastId>>

\* delete(id) of a checkpoint that is there; of any other it does nothing.
Delete(id) ==
  /\ id \in Stored
  /\ Forget({id})
  /\ threads' = [threads EXCEPT ![checkpoints[id].thread] = Retain(@, id)]
  /\ UNCHANGED lastId

DeleteThread(t) ==
  /\ Forget(ToSet(threads[t]))
  /\ threads' = [threads EXCEPT ![t] = <<>>]
  /\ UNCHANGED lastId

StoreNext ==
  \/ \E cp \in Checkpoint : Save(cp)
  \/ \E id \in Stored : Delete(id)
  \/ \E t \in Threads : DeleteThread(t)

StoreSpec == StoreInit /\ [][StoreNext]_storeVars

-----------------------------------------------------------------------------
StoreTypeOK ==
  /\ lastId \in Nat
  /\ Stored \subseteq 1 .. lastId
  /\ checkpoints \in [Stored -> Checkpoint]
  /\ threads \in [Threads -> Seq(1 .. lastId)]

\* A thread's list names stored checkpoints of that thread and no others, so
\* load and list never miss one and never answer with another thread's.
ListsAreSound ==
  \A t \in Threads : \A i \in 1 .. Len(threads[t]) :
    /\ threads[t][i] \in Stored
    /\ checkpoints[threads[t][i]].thread = t

\* Every stored checkpoint is in the list of its thread: none is reachable by
\* load_by_id that load, list and delete_thread do not see.
ListsAreComplete ==
  \A id \in Stored : id \in ToSet(threads[checkpoints[id].thread])

\* Lists are in the order of creation, whatever was deleted in between, so
\* load answers with the newest checkpoint that is left.
ListsAreOrdered ==
  \A t \in Threads : \A i, j \in 1 .. Len(threads[t]) :
    i < j => threads[t][i] < threads[t][j]

StoreInv == ListsAreSound /\ ListsAreComplete /\ ListsAreOrdered

\* The store implements the trait's promise: a log per thread.
Logs == [t \in Threads |-> [i \in 1 .. Len(threads[t]) |-> checkpoints[threads[t][i]]]]

Log == INSTANCE CheckpointLog WITH Checkpoints <- Checkpoint, log <- Logs

ImplementsLog == Log!Spec
=============================================================================
