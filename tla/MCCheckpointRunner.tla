------------------------- MODULE MCCheckpointRunner -------------------------
(* Two calls on one or two threads of a graph with a cycle, a keyed edge      *)
(* that shadows an unkeyed one, a router that may name a missing node and a   *)
(* node that may finish.  The runner of the first call saves a checkpoint     *)
(* before every node, the one of the second does not.                         *)
EXTENDS CheckpointRunner, TLC

CONSTANTS plan, act, ghost, retry, r1, r2

MCNodes == {plan, act}
MCEdges == << [from |-> plan, key |-> NoKey,    kind |-> "direct",      to |-> {act}],
              [from |-> act,  key |-> NoKey,    kind |-> "direct",      to |-> {END}],
              [from |-> act,  key |-> CONTINUE, kind |-> "conditional", to |-> {plan, ghost}],
              [from |-> act,  key |-> retry,    kind |-> "direct",      to |-> {act}],
              [from |-> act,  key |-> retry,    kind |-> "direct",      to |-> {END}] >>

Key(k) == [kind |-> "transition", key |-> k]
MCOutputs == (plan :> {Key(CONTINUE), [kind |-> "goto", target |-> END]})
          @@ (act  :> {Key(CONTINUE), Key(retry), [kind |-> "finish"]})

MCRuns  == {r1, r2}
Both    == [r \in MCRuns |-> r = r1]
Always  == [r \in MCRuns |-> TRUE]
=============================================================================
