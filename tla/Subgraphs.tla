----------------------------- MODULE Subgraphs -----------------------------
(* A node that runs other graphs: ParallelSubgraphs spawns one task per        *)
(* subgraph and joins them by a strategy; SubgraphNode runs one inline. Both    *)
(* derive the child's state from the parent's and merge the child's back.       *)
(* The parent's state is its context, a partial function from keys to values.  *)
EXTENDS Naturals, Sequences, SequencesExt, FiniteSetsExt

CONSTANTS Keys,        \* context keys that parent and children share
          Writes,      \* the sets of keys a run of a subgraph may write
          SubgraphIds, \* names a subgraph is added under
          MaxKids      \* subgraphs of one node, at most

ASSUME KidsAssumption == MaxKids \in Nat \ {0} /\ Writes \subseteq SUBSET Keys /\ Writes # {}

VARIABLES setup,  \* how the node was built; never changes
          node,   \* what has become of the one call of execute
          kids,   \* the task of each subgraph, in the order they were added
          out,    \* the final context of each subgraph that completed
          heard,  \* results collected so far, in order of arrival
          ctx     \* the parent's context

nodeVars == <<setup, node, kids, out, heard, ctx>>

Slots == DOMAIN setup.kids
-----------------------------------------------------------------------------
(* Tasks of the tokio runtime: a task runs until its future returns or panics, *)
(* or until an abort takes effect, which it does some time after the request   *)
(* and not at all on a task that has ended.                                    *)

Ends == {"completed", "failed", "panicked", "cancelled"}

NewTask == [state |-> "running", aborted |-> FALSE]

Running(t) == t.state = "running"
Ended(t) == t.state \in Ends

Abort(t) == IF Running(t) THEN [t EXCEPT !.aborted = TRUE] ELSE t

\* How a task may end in its next step.
MayEnd(t, how) == Running(t) /\ (how = "cancelled" => t.aborted)

\* What awaiting the handle of an ended task gives: SubgraphHandle::join and
\* the wrapper execute_all puts around a handle turn a panic into a failure.
Outcome(t) == IF t.state = "panicked" THEN "failed" ELSE t.state
-----------------------------------------------------------------------------
(* Building a node *)

JoinStrategy ==
    [kind : {"WaitAll", "WaitFirst", "FailFast"}, n : {0}]
      \cup [kind : {"WaitN"}, n : 0 .. MaxKids + 1]

\* add_subgraph: the whole parent state goes in, the child's comes back under
\* the subgraph's own key.
Added(id) == [id |-> id, mapper |-> "clone", merger |-> "namespace"]

\* add_subgraph_with_handlers, with the mappers and mergers the module offers.
AddedWithHandlers(id, mapper, merger) ==
    [id |-> id, mapper |-> mapper, merger |-> merger]

SubgraphConfig ==
    {Added(id) : id \in SubgraphIds}
      \cup {AddedWithHandlers(id, "extract", "keys") : id \in SubgraphIds}
      \cup {AddedWithHandlers(id, "clone", "all") : id \in SubgraphIds}

ParallelNodes ==
    {[kind |-> "parallel", join |-> j, kids |-> k] :
        j \in JoinStrategy, k \in SeqOf(SubgraphConfig, MaxKids)}

\* SubgraphNode::new, with_state_mapper and with_result_merger.
SubgraphNodes ==
    {[kind |-> "single", join |-> [kind |-> "WaitAll", n |-> 0], kids |-> <<k>>] :
        k \in SubgraphConfig}

-----------------------------------------------------------------------------
(* Mapping in and merging back. Key k of the subgraph at slot i is the one     *)
(* extract_context and merge_context_keys of that slot are given.              *)

Plain(who) == <<"plain", who>>
Json(context) == <<"json", context>>

OwnKey(i) == LET ks == SetToSeq(Keys) IN ks[1 + (i % Len(ks))]

ChildState(i, parent) ==
    IF setup.kids[i].mapper = "clone"
    THEN parent
    ELSE [k \in DOMAIN parent \cap {OwnKey(i)} |-> parent[k]]

\* Each entry is inserted; one of the same key gives way.
Extended(context, entries) ==
    [k \in DOMAIN entries \cup DOMAIN context |->
        IF k \in DOMAIN entries THEN entries[k] ELSE context[k]]

\* Mutant: merge_context_keys forgets its keys.
MergedWhole(i, parent, child) ==
    IF setup.kids[i].merger = "namespace"
    THEN Extended(parent, [k \in {setup.kids[i].id} |-> Json(child)])
    ELSE Extended(parent, child)

MergedInto(i, parent, child) ==
    CASE setup.kids[i].merger = "namespace" ->
            Extended(parent, [k \in {setup.kids[i].id} |-> Json(child)])
      [] setup.kids[i].merger = "all" -> Extended(parent, child)
      [] setup.kids[i].merger = "keys" ->
            Extended(parent, [k \in DOMAIN child \cap {OwnKey(i)} |-> child[k]])

\* The merger is looked up by name: of two subgraphs with one name the one
\* added last decides for both.
MergerOf(i) == Max({j \in Slots : setup.kids[j].id = setup.kids[i].id})

MergeAll(results, parent) ==
    LET merged[n \in 0 .. Len(results)] ==
          IF n = 0 THEN parent
          ELSE IF results[n].outcome = "completed"
               THEN MergedInto(MergerOf(results[n].slot), merged[n - 1], out[results[n].slot])
               ELSE merged[n - 1]
    IN  merged[Len(results)]
-----------------------------------------------------------------------------
(* ParallelSubgraphs::execute *)

Start ==
    /\ node = "idle"
    /\ IF setup.kids = <<>>
       THEN /\ node' = "ok"
            /\ UNCHANGED <<kids, out>>
       ELSE /\ node' = "waiting"
            /\ kids' = [i \in Slots |-> NewTask]
            /\ out' = [i \in Slots |-> ChildState(i, ctx)]
    /\ UNCHANGED <<setup, heard, ctx>>

\* One run of a subgraph's graph ends; when it completes it has written some
\* keys of its own state.
KidEnds(i, how) ==
    /\ kids # <<>>
    /\ MayEnd(kids[i], how)
    /\ kids' = [kids EXCEPT ![i].state = how]
    /\ IF how = "completed"
       THEN \E w \in Writes : out' = [out EXCEPT ![i] = Extended(@, [k \in w |-> Plain(i)])]
       ELSE UNCHANGED out
    /\ UNCHANGED <<setup, node, heard, ctx>>

Collected == {heard[r].slot : r \in DOMAIN heard}
CountOf(results, outcome) ==
    Cardinality({r \in DOMAIN results : results[r].outcome = outcome})

\* Mutant: WaitN counts one completion too many.
StopsLate(results) ==
    \/ setup.join.kind = "WaitFirst"
    \/ setup.join.kind = "FailFast" /\ Last(results).outcome = "failed"
    \/ setup.join.kind = "WaitN" /\ CountOf(results, "completed") > setup.join.n

\* The join strategy's decision after a result has been appended.
StopsAt(results) ==
    LET last == Last(results).outcome
    IN  \/ setup.join.kind = "WaitFirst"
        \/ setup.join.kind \in {"FailFast", "WaitN"} /\ last = "failed"
        \/ setup.join.kind = "WaitN" /\ CountOf(results, "completed") >= setup.join.n

\* What execute does with the results: one failure is the node's failure and
\* leaves the parent as it was.
Answer(results) ==
    IF CountOf(results, "failed") > 0
    THEN node' = "err" /\ UNCHANGED ctx
    ELSE node' = "ok" /\ ctx' = MergeAll(results, ctx)

\* Mutant: the rest is not aborted when the join is over.
CollectOnly(i) ==
    /\ setup.kind = "parallel" /\ node = "waiting"
    /\ Ended(kids[i]) /\ i \notin Collected
    /\ heard' = Append(heard, [slot |-> i, outcome |-> Outcome(kids[i])])
    /\ IF StopsAt(heard') \/ Len(heard') = Len(setup.kids)
       THEN Answer(heard')
       ELSE UNCHANGED <<node, ctx>>
    /\ UNCHANGED <<setup, kids, out>>

\* futures.next() yields the result of a subgraph that has ended. Between the
\* last of them and the node's answer nothing is awaited.
Collect(i) ==
    /\ setup.kind = "parallel" /\ node = "waiting"
    /\ Ended(kids[i]) /\ i \notin Collected
    /\ heard' = Append(heard, [slot |-> i, outcome |-> Outcome(kids[i])])
    /\ IF StopsAt(heard')
       THEN /\ kids' = [j \in Slots |-> Abort(kids[j])]
            /\ Answer(heard')
       ELSE /\ UNCHANGED kids
            /\ IF Len(heard') = Len(setup.kids)
               THEN Answer(heard')
               ELSE UNCHANGED <<node, ctx>>
    /\ UNCHANGED <<setup, out>>

(* SubgraphNode::execute awaits the run itself. *)
Return ==
    /\ setup.kind = "single" /\ node = "waiting"
    /\ kids[1].state \in {"completed", "failed"}
    /\ heard' = <<[slot |-> 1, outcome |-> kids[1].state]>>
    /\ Answer(heard')
    /\ UNCHANGED <<setup, kids, out>>

\* The future of execute is dropped while it waits, as when the run around it
\* is aborted. Tasks that were spawned go on; a run awaited inline is gone.
Drop ==
    /\ node = "waiting"
    /\ node' = "dropped"
    /\ kids' = IF setup.kind = "single" /\ Running(kids[1])
               THEN [kids EXCEPT ![1] = [state |-> "cancelled", aborted |-> TRUE]]
               ELSE kids
    /\ UNCHANGED <<setup, out, heard, ctx>>
=============================================================================
