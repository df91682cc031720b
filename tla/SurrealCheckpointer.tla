------------------------- MODULE SurrealCheckpointer -------------------------
(* SurrealCheckpointer: one table of checkpoints, one statement per method.     *)
(* load and list go by created_at, which Checkpoint::new takes from the clock,  *)
(* not by the order of the saves. The database is in this process's memory, in  *)
(* a file or remote; a statement on a remote one may fail with or without       *)
(* effect, and a restart of the process keeps what is not in its memory.        *)
EXTENDS Naturals, Sequences, SequencesExt, FiniteSetsExt

CONSTANTS Threads,        \* thread ids
          SingleWriters,  \* the threads on which one run at a time saves
          MaxCheckpoints  \* bound on the checkpoints created

ASSUME WritersAssumption == SingleWriters \subseteq Threads
ASSUME BoundIsNat == MaxCheckpoints \in Nat

VARIABLES mode,     \* "mem", "file" or "remote", chosen when it is first opened
          open,     \* whether the process has the store open
          rows,     \* checkpoints in the table: [id, thread, at]
          pending,  \* checkpoints created and not yet saved
          clock,    \* created_at of the newest checkpoint
          created   \* number of checkpoints created

ckptVars == <<mode, open, rows, pending, clock, created>>

CkptInit ==
    /\ mode = "unknown" /\ open = FALSE
    /\ rows = {} /\ pending = {} /\ clock = 0 /\ created = 0

\* memory(), file() or the builder's build(): connect, sign in, select and
\* define the indexes, none of which touches a row. Any of them may fail.
Open ==
    /\ ~open /\ open' = TRUE
    /\ IF mode = "unknown" THEN mode' \in {"mem", "file", "remote"} ELSE UNCHANGED mode
    /\ UNCHANGED <<rows, pending, clock, created>>

\* The process ends: runs lose what they had not saved.
Crash ==
    /\ open /\ open' = FALSE
    /\ rows' = IF mode = "mem" THEN {} ELSE rows
    /\ pending' = {}
    /\ UNCHANGED <<mode, clock, created>>

\* Checkpoint::new. Where one run at a time saves, the next checkpoint is
\* created when the last one has been saved, and the clock has gone on; on the
\* other threads two instants may coincide or come out of order.
New(t, now) ==
    /\ open /\ created < MaxCheckpoints
    /\ t \in SingleWriters => now > clock /\ \A c \in pending : c.thread # t
    /\ clock' = Max({now, clock}) /\ created' = created + 1
    /\ pending' = pending \cup {[id |-> created + 1, thread |-> t, at |-> now]}
    /\ UNCHANGED <<mode, open, rows>>

\* save: one row more, under the checkpoint's own id.
Save(c) ==
    /\ open /\ c \in pending
    /\ rows' = rows \cup {c} /\ pending' = pending \ {c}
    /\ UNCHANGED <<mode, open, clock, created>>

\* The connection breaks before or after the statement has taken effect.
SaveFails(c) ==
    /\ open /\ mode = "remote" /\ c \in pending
    /\ rows' \in {rows, rows \cup {c}} /\ pending' = pending \ {c}
    /\ UNCHANGED <<mode, open, clock, created>>

DeleteRows(gone) ==
    /\ open /\ rows' = rows \ gone
    /\ UNCHANGED <<mode, open, pending, clock, created>>

DeleteById(c) == c \in rows /\ DeleteRows({c})
RowsOf(t) == {c \in rows : c.thread = t}
DeleteThread(t) == DeleteRows(RowsOf(t))

\* Mutant: oldest first.
ById(t) == SetToSortSeq(RowsOf(t), LAMBDA a, b : a.id < b.id)

\* WHERE thread_id = t ORDER BY created_at DESC: the k-th row is the one that
\* k - 1 are later than. created_at is text, of a length that depends on the
\* fraction; as '+' sorts before '.' and before the digits, the order of the
\* texts is the order of the times. load is the same statement with LIMIT 1.
Later(a, b) == a.at > b.at \/ (a.at = b.at /\ a.id > b.id)
NewestFirst(found) ==
    [k \in 1 .. Cardinality(found) |->
       CHOOSE c \in found : Cardinality({d \in found : Later(d, c)}) = k - 1]
List(t) == NewestFirst(RowsOf(t))

CkptNext ==
    \/ Open \/ Crash
    \/ \E t \in Threads, now \in 1 .. clock + 1 : New(t, now)
    \/ \E c \in pending : Save(c) \/ SaveFails(c)
    \/ \E c \in rows : DeleteById(c)
    \/ \E t \in Threads : DeleteThread(t)

CkptSpec == CkptInit /\ [][CkptNext]_ckptVars

\* Threads with one run at a time keep the log the Checkpointer trait promises,
\* as MemoryCheckpointer does (MemoryCheckpointer!Log), through failed saves,
\* restarts and whatever happens on other threads.
Log == INSTANCE CheckpointLog WITH
          Threads <- SingleWriters,
          Checkpoints <- [id : 1 .. MaxCheckpoints, thread : SingleWriters,
                          at : 1 .. MaxCheckpoints],
          log <- [t \in SingleWriters |-> Reverse(List(t))]

SurrealKeepsTheLog == Log!Spec
=============================================================================
