---------------------------- MODULE GraphRouting ----------------------------
(***************************************************************************)
(* The compiled graph (graph.rs): nodes, edges in insertion order, and the *)
(* rule that picks the next node from what a node returned.                *)
(*                                                                         *)
(* An edge is [from, key, kind, to].  key is the transition key or NoKey.  *)
(* A direct edge has one target; a conditional edge has the set of names   *)
(* its router may return, which compile() does not look at: a router may   *)
(* name a node that does not exist.                                        *)
(***************************************************************************)
EXTENDS Naturals, Sequences

CONSTANTS Nodes,      \* ids of the user's nodes
          END,        \* "__end__"
          Entry,      \* the entry point
          Edges,      \* sequence of edges
          Outputs,    \* Outputs[n]: what node n may return
          NoKey,      \* the key of an unkeyed edge
          CONTINUE    \* the transition key of NodeOutput::Continue(None)

Outgoing(from) == {i \in DOMAIN Edges : Edges[i].from = from}

\* GraphBuilder::compile accepts the graph.
Compiles ==
  /\ Entry \in Nodes
  /\ \A i \in DOMAIN Edges :
       /\ Edges[i].from \in Nodes \cup {END}
       /\ Edges[i].kind = "direct" => Edges[i].to \subseteq Nodes \cup {END}

First(indices) == CHOOSE i \in indices : \A j \in indices : i <= j

\* get_next_node_for_transition: the ids it may return; {} stands for None.
\* The first edge with exactly this key wins; unkeyed edges serve CONTINUE.
NextFor(from, key) ==
  LET keyed   == {i \in Outgoing(from) : Edges[i].key = key}
      unkeyed == {i \in Outgoing(from) : Edges[i].key = NoKey /\ key = CONTINUE}
  IN  IF keyed # {}        THEN Edges[First(keyed)].to
      ELSE IF unkeyed # {} THEN Edges[First(unkeyed)].to
      ELSE {}

\* The node a run loop visits after `from` returned `out`: END on Finish, the
\* target the node named (Continue(Some) and Route), or where the key leads
\* (Continue(None) is the key CONTINUE), which is END without an edge for it.
Successors(from, out) ==
  CASE out.kind = "finish"     -> {END}
    [] out.kind = "goto"       -> {out.target}
    [] out.kind = "transition" -> LET next == NextFor(from, out.key)
                                  IN  IF next = {} THEN {END} ELSE next

\* Every node that may follow `from`.
After(from) == UNION {Successors(from, out) : out \in Outputs[from]}

\* path is a sequence of executed nodes a graph execution may have produced,
\* with `node` to be visited next.
IsWalk(path, node) ==
  IF path = <<>> THEN node = Entry
  ELSE /\ path[1] = Entry
       /\ \A i \in 1 .. Len(path) - 1 : path[i + 1] \in After(path[i])
       /\ node \in After(path[Len(path)])

ASSUME GraphCompiles == Compiles
ASSUME EndIsNoNode   == END \notin Nodes
=============================================================================
