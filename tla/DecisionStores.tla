--------------------------- MODULE DecisionStores ---------------------------
(* The two backends of DecisionStore side by side, under the same calls.       *)
(* MemoryDecisionStore holds the decisions and three indexes, each behind a     *)
(* lock of its own: record, delete and the listings take them one after the     *)
(* other, and calls on other threads come in between. SurrealDecisionStore has  *)
(* one table and one statement per call, so it is what a caller expects of the  *)
(* trait: its statement happens where the memory store touches by_id.           *)
EXTENDS Naturals, Sequences, SequencesExt, FiniteSetsExt

CONSTANTS Ids,        \* decision ids
          Contents,   \* what decisions may say
          Callers,    \* threads that call the store
          MaxCalls,   \* bound on record and delete calls
          None

\* The fields of a Decision but for its id and the texts nobody looks it up by;
\* of its metadata, whether it is null, an empty object or another value.
Decision == [run : STRING, change : STRING, tags : Seq(STRING), at : Nat,
             metadata : {"null", "{}", "obj"}]

ASSUME ContentsAreDecisions == Contents \subseteq Decision /\ None \notin Decision

VARIABLES byId,    \* id -> content or None
          index,   \* "run", "change", "tag" -> key -> sequence of ids
          table,   \* the rows of the SurrealDB table, by id
          call,    \* the call each thread is in
          raced,   \* ids two changing calls have overlapped on
          calls    \* changing calls made so far

storeVars == <<byId, index, table, call, raced, calls>>

By == {"run", "change", "tag"}
KeysOf(by, c) ==
    CASE by = "run" -> <<c.run>> [] by = "change" -> <<c.change>> [] by = "tag" -> c.tags
IndexKeys(by) == UNION {ToSet(KeysOf(by, c)) : c \in Contents}

\* How often x occurs in a vector.
Mentions(v, x) == Cardinality({k \in DOMAIN v : v[k] = x})

\* A call: the steps it has still to take, the content it records, the content
\* it replaced or removed, and for a listing the ids it has read.
Change(op, id, todo, new, old) ==
    [op |-> op, id |-> id, todo |-> todo, new |-> new, old |-> old,
     by |-> None, key |-> None, ids |-> <<>>, dirty |-> {}]
Listing(by, key, ids, dirty) ==
    [op |-> "list", id |-> None, todo |-> <<>>, new |-> None, old |-> None,
     by |-> by, key |-> key, ids |-> ids, dirty |-> dirty]
Idle == Change("idle", None, <<>>, None, None)

StoreInit ==
    /\ byId = [i \in Ids |-> None] /\ table = [i \in Ids |-> None]
    /\ index = [by \in By |-> [k \in IndexKeys(by) |-> <<>>]]
    /\ call = [p \in Callers |-> Idle]
    /\ raced = {} /\ calls = 0

Removals == <<<<"remove", "run">>, <<"remove", "change">>, <<"remove", "tag">>>>
Additions == <<<<"add", "run">>, <<"add", "change">>, <<"add", "tag">>>>

Changing(p) == call[p].op \in {"record", "delete"}
InFlight == {call[p].id : p \in {q \in Callers : Changing(q)}}

-----------------------------------------------------------------------------
(* SurrealDecisionStore *)

\* What a decision turns into on its way through a row.
FromRow(c) == IF c = None THEN None
              ELSE [c EXCEPT !.metadata = IF @ = "null" THEN "{}" ELSE @]

Upsert(id, c) == table' = [table EXCEPT ![id] = FromRow(c)]
DeleteRow(id) == table' = [table EXCEPT ![id] = None]
SelectWhere(by, key) ==
    {i \in Ids : table[i] # None /\ key \in ToSet(KeysOf(by, table[i]))}
-----------------------------------------------------------------------------
(* MemoryDecisionStore *)

\* One changing call begins: it overlaps every changing call on its id, and
\* every listing under way may see it half done.
Begin(p, id, begun) ==
    /\ call' = [q \in Callers |->
                  CASE q = p -> begun
                    [] call[q].op = "list" -> [call[q] EXCEPT !.dirty = @ \cup {id}]
                    [] OTHER -> call[q]]
    /\ raced' = IF id \in InFlight THEN raced \cup {id} ELSE raced
    /\ calls < MaxCalls /\ calls' = calls + 1

\* record up to the release of by_id. The entries of a replaced decision go
\* before the new ones come.
Record(p, id, c) ==
    /\ call[p] = Idle
    /\ byId' = [byId EXCEPT ![id] = c]
    /\ Upsert(id, c)
    /\ LET todo == (IF byId[id] = None THEN <<>> ELSE Removals) \o Additions
       IN  Begin(p, id, Change("record", id, todo, c, byId[id]))
    /\ UNCHANGED index

\* delete; of an id that is not there it does nothing.
Delete(p, id) ==
    /\ call[p] = Idle
    /\ byId[id] # None
    /\ byId' = [byId EXCEPT ![id] = None]
    /\ DeleteRow(id)
    /\ Begin(p, id, Change("delete", id, Removals, None, byId[id]))
    /\ UNCHANGED index

\* Mutant: only the first entry is taken out.
PrunedOnce(ids, id) ==
    IF id \in ToSet(ids)
    THEN RemoveAt(ids, Min({k \in DOMAIN ids : ids[k] = id})) ELSE ids

\* ids.retain(|x| x != id)
Pruned(ids, id) ==
    LET kept[n \in 0 .. Len(ids)] ==
          IF n = 0 THEN <<>>
          ELSE IF ids[n] = id THEN kept[n - 1] ELSE Append(kept[n - 1], ids[n])
    IN  kept[Len(ids)]

\* remove_from_indexes on one index.
Prune(by, id, old) ==
    index' = [index EXCEPT ![by] = [k \in IndexKeys(by) |->
                IF k \in ToSet(KeysOf(by, old)) THEN Pruned(@[k], id) ELSE @[k]]]

\* record on one index; a tag given twice is entered twice.
Enter(by, id, new) ==
    index' = [index EXCEPT ![by] = [k \in IndexKeys(by) |->
                @[k] \o [n \in 1 .. Mentions(KeysOf(by, new), k) |-> id]]]

\* One lock is taken, one index changed, the lock released.
IndexStep(p) ==
    /\ Changing(p)
    /\ LET step == Head(call[p].todo)
           rest == Tail(call[p].todo)
       IN  /\ \/ step[1] = "remove" /\ Prune(step[2], call[p].id, call[p].old)
              \/ step[1] = "add" /\ Enter(step[2], call[p].id, call[p].new)
           /\ call' = [call EXCEPT ![p] = IF rest = <<>> THEN Idle
                                          ELSE [@ EXCEPT !.todo = rest]]
    /\ UNCHANGED <<byId, table, raced, calls>>

\* list_by_run, list_by_change, list_by_tag: the ids are copied out of the
\* index, then looked up and sorted.
ListBegins(p, by, key) ==
    /\ call[p] = Idle
    /\ call' = [call EXCEPT ![p] = Listing(by, key, index[by][key], InFlight)]
    /\ UNCHANGED <<byId, index, table, raced, calls>>

\* Mutant: the sort keeps one of several equally old decisions.
NewestUnique(ids) ==
    SetToSortSeq({k \in DOMAIN ids : byId[ids[k]] # None
                     /\ ~\E j \in DOMAIN ids : j < k /\ byId[ids[j]] # None
                           /\ byId[ids[j]].at = byId[ids[k]].at},
                 LAMBDA j, k : byId[ids[j]].at > byId[ids[k]].at)

\* sorted_newest_first, as positions of ids: a stable sort on created_at puts
\* at place n what n - 1 of the decisions found come before.
SortedNewestFirst(ids) ==
    LET found == {k \in DOMAIN ids : byId[ids[k]] # None}
        Before(j, k) == \/ byId[ids[j]].at > byId[ids[k]].at
                        \/ byId[ids[j]].at = byId[ids[k]].at /\ j < k
    IN  [n \in 1 .. Cardinality(found) |->
           CHOOSE k \in found : Cardinality({j \in found : Before(j, k)}) = n - 1]

Listed(p) == LET ps == SortedNewestFirst(call[p].ids)
             IN  [k \in DOMAIN ps |-> call[p].ids[ps[k]]]

ListEnds(p) ==
    /\ call[p].op = "list"
    /\ call' = [call EXCEPT ![p] = Idle]
    /\ UNCHANGED <<byId, index, table, raced, calls>>

StoreNext ==
    \E p \in Callers :
        \/ \E id \in Ids : Delete(p, id) \/ \E c \in Contents : Record(p, id, c)
        \/ IndexStep(p)
        \/ \E by \in By : \E key \in IndexKeys(by) : ListBegins(p, by, key)
        \/ ListEnds(p)
-----------------------------------------------------------------------------
(* Properties *)

\* What a lookup by run, change or tag finds of a decision is what the other
\* backend finds, and once per mention, for every id that no two changing calls
\* have overlapped on and none is under way for: the four locks keep together.
BackendsAgree ==
    \A id \in Ids \ (raced \cup InFlight) : \A by \in By : \A key \in IndexKeys(by) :
        LET entries == Mentions(index[by][key], id)
        IN  /\ (entries > 0) = (id \in SelectWhere(by, key))
            /\ entries > 0 => entries = Mentions(KeysOf(by, byId[id]), key)

\* What a listing answers, should it end now: one that runs while decisions are
\* recorded and deleted is exact on those no call was changing meanwhile, and
\* newest first throughout.
ListingIsExact(p) ==
    /\ \A id \in Ids \ (raced \cup call[p].dirty) :
          id \in ToSet(Listed(p)) <=> id \in SelectWhere(call[p].by, call[p].key)
    /\ \A j, k \in DOMAIN Listed(p) : j < k => byId[Listed(p)[j]].at >= byId[Listed(p)[k]].at

AllListingsAreExact ==
    \A p \in Callers : call[p].op = "list" => ListingIsExact(p)
=============================================================================
