------------------------------- MODULE Stores -------------------------------
(* The stores a team may swap for one another: the in-memory and the SurrealDB  *)
(* decision store under the same calls, a SurrealDB checkpointer against the     *)
(* promise MemoryCheckpointer keeps, or the memory of a repository. They share   *)
(* no state; an instance is one of the three.                                    *)
EXTENDS DecisionStores, SurrealCheckpointer, RepositoryMemory

VARIABLE part

vars == <<part, storeVars, ckptVars, memoryVars>>

Init ==
    /\ part \in {"decisions", "checkpoints", "memory"}
    /\ StoreInit /\ CkptInit /\ MemoryInit

Next ==
    \/ part = "decisions" /\ StoreNext /\ UNCHANGED <<part, ckptVars, memoryVars>>
    \/ part = "checkpoints" /\ CkptNext /\ UNCHANGED <<part, storeVars, memoryVars>>
    \/ part = "memory" /\ MemoryNext /\ UNCHANGED <<part, storeVars, ckptVars>>

Spec == Init /\ [][Next]_vars
-----------------------------------------------------------------------------
\* Small instances of what the three stores are given.

\* Two runs, two artifacts, a tag given once, twice or not at all.
MCContents ==
    {[run |-> "r1", change |-> "f", tags |-> <<"perf">>, at |-> 1, metadata |-> "null"],
     [run |-> "r2", change |-> "f", tags |-> <<"perf", "perf">>, at |-> 1, metadata |-> "obj"],
     [run |-> "r2", change |-> "g", tags |-> <<>>, at |-> 2, metadata |-> "null"]}

\* Two versions of one document, a document of the same score as another, one
\* in another repository; terms found in paths, symbols and contents.
Doc(id, repo, path, symbol, content, size) ==
    [id |-> id, repo |-> repo, path |-> path, symbol |-> symbol, content |-> content, size |-> size]
MCDocuments ==
    {Doc(1, "here", <<"src", "pack">>, <<>>, <<"retry", "a", "retry">>, 2),
     Doc(1, "here", <<"src", "pack">>, <<"retry">>, <<"pack">>, 3),
     Doc(2, "here", <<"src", "lib">>, <<>>, <<"retry", "retry">>, 5),
     Doc(3, "there", <<"pack">>, <<>>, <<"pack">>, 2)}
MCRuns == {[task |-> "t", outcome |-> "failure", at |-> 2, size |-> 3],
           [task |-> "t", outcome |-> "blocked", at |-> 1, size |-> 2],
           [task |-> "t", outcome |-> "success", at |-> 3, size |-> 2]}
MCDesigns == {[id |-> "d", repo |-> "here", text |-> <<"pack", "a">>, at |-> 1, size |-> 2],
              [id |-> "d", repo |-> "here", text |-> <<"retry">>, at |-> 3, size |-> 4],
              [id |-> "e", repo |-> "here", text |-> <<"retry", "pack">>, at |-> 2, size |-> 2]}
Ask(terms, repo, prefixes, limit, min) ==
    [terms |-> terms, repo |-> repo, prefixes |-> prefixes, limit |-> limit, min |-> min]
MCQueries == {Ask(<<"retry", "pack">>, Anywhere, {}, 8, 0), Ask(<<"pack">>, "here", {}, 1, 0),
              Ask(<<"retry", "retry">>, Anywhere, {<<"src">>}, 2, 5), Ask(<<"a">>, Anywhere, {}, 8, 0),
              Ask(<<"pack">>, Anywhere, {}, 0, 0)}
MCBudgets == {[max |-> 9, reserved |-> 1, documents |-> 2, episodes |-> 1, decisions |-> 1],
              [max |-> 5, reserved |-> 0, documents |-> 6, episodes |-> 3, decisions |-> 3],
              [max |-> 1, reserved |-> 2, documents |-> 6, episodes |-> 3, decisions |-> 3]}

\* Ids and callers are used alike everywhere.
MCSymmetry == Permutations(Ids) \cup Permutations(Callers)
=============================================================================
