-------------------------- MODULE MCStreamingRunner --------------------------
(* Two calls over two threads and a channel that holds two events: the runner  *)
(* of the first saves at every node, that of the second when it is stopped.    *)
(* The graph loops, finishes, and has a router that may name a missing node.   *)
EXTENDS StreamingRunner, TLC

CONSTANTS plan, act, ghost, r1, r2, t1, t2

MCNodes == {plan, act}
MCEdges == << [from |-> plan, key |-> NoKey, kind |-> "conditional", to |-> {act, ghost}],
              [from |-> act,  key |-> NoKey, kind |-> "direct",      to |-> {plan}] >>

MCOutputs == (plan :> {[kind |-> "transition", key |-> CONTINUE], [kind |-> "finish"]})
          @@ (act  :> {[kind |-> "transition", key |-> CONTINUE]})

MCThreads == {t1, t2}
MCRuns  == {r1, r2}
MCSaves == (r1 :> "every node") @@ (r2 :> "at limit")
Symmetry  == Permutations(MCThreads)
=============================================================================
