---------------------------- MODULE CheckpointLog ----------------------------
(***************************************************************************)
(* What the Checkpointer trait promises (checkpoint/mod.rs), independent   *)
(* of how a backend stores it: every thread has a log of checkpoints, a    *)
(* save appends to the log of its thread, a delete takes one checkpoint    *)
(* out and leaves the order of the others, delete_thread empties a log.    *)
(* load answers with the last element, list with the log reversed.         *)
(***************************************************************************)
EXTENDS SequencesExt

CONSTANTS Threads,      \* thread ids
          Checkpoints   \* the checkpoints there may be

VARIABLE log            \* log[t]: checkpoints of thread t, oldest first

Init == log = [t \in Threads |-> <<>>]

\* The checkpoint appended is any: the caller chose it.
Save(t) ==
  LET n == Len(log[t]) + 1
  IN  /\ n \in DOMAIN log'[t]
      /\ log'[t][n] \in Checkpoints
      /\ log' = [log EXCEPT ![t] = Append(@, log'[t][n])]

Delete(t) ==
  \E k \in 1 .. Len(log[t]) : log' = [log EXCEPT ![t] = RemoveAt(@, k)]

DeleteThread(t) == log' = [log EXCEPT ![t] = <<>>]

\* A backend in the memory of a process ends with it, and all logs with the backend.
Lose == log' = [t \in Threads |-> <<>>]

Next == Lose \/ \E t \in Threads : Save(t) \/ Delete(t) \/ DeleteThread(t)

Spec == Init /\ [][Next]_log
=============================================================================
