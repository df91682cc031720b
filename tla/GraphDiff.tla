------------------------------ MODULE GraphDiff ------------------------------
(* Two editions of a workflow: a graph builder that is edited on two sides, the *)
(* graphs both sides compile, and the diff between them (graph.rs, diff.rs).    *)
(* Nodes are what a diff sees of them, a description; an edge has the form      *)
(* GraphRouting gives it, and a router is known by the ids it may return.       *)
EXTENDS Naturals, Sequences, SequencesExt, FiniteSetsExt, Bags

CONSTANTS Names,        \* node ids the builder is given, known or not
          END, NoKey, CONTINUE,
          Keys,         \* transition keys of keyed edges
          Routers,      \* what the routers of conditional edges may return
          Texts,        \* descriptions and names
          None,
          Origins(_),   \* builders, given the empty one, both sides may start from
          MaxEdits      \* bound on the edits of both sides together

VARIABLES sides,  \* the builders: before and after
          edits

diffVars == <<sides, edits>>
Sides == {"before", "after"}

-----------------------------------------------------------------------------
(* GraphBuilder *)

NewBuilder == [nodes |-> <<>>, edges |-> <<>>, entry |-> None, name |-> None,
               description |-> None]

SetName(b, text) == [b EXCEPT !.name = text]
SetDescription(b, text) == [b EXCEPT !.description = text]
SetEntryPoint(b, id) == [b EXCEPT !.entry = id]

\* A second node with the id of a first takes its place.
AddNode(b, id, text) ==
    [b EXCEPT !.nodes = [i \in DOMAIN @ \cup {id} |-> IF i = id THEN text ELSE b.nodes[i]]]

DirectEdge(from, key, to) == [from |-> from, key |-> key, kind |-> "direct", to |-> {to}]
ConditionalEdge(from, key, router) ==
    [from |-> from, key |-> key, kind |-> "conditional", to |-> router]
AddEdge(b, edge) == [b EXCEPT !.edges = Append(@, edge)]
AddEdgeToEnd(b, from) == AddEdge(b, DirectEdge(from, NoKey, END))

\* compile: the graph, or None for an error. The routers are not asked.
Compile(b) ==
    LET ids == DOMAIN b.nodes \cup {END}
    IN  IF /\ b.entry \in DOMAIN b.nodes
           /\ \A i \in DOMAIN b.edges :
                /\ b.edges[i].from \in ids
                /\ b.edges[i].kind = "direct" => b.edges[i].to \subseteq ids
        THEN b ELSE None

-----------------------------------------------------------------------------
(* CompiledGraph::diff *)

\* What a diff sees of an edge: where a conditional one leads is opaque, and a
\* key CONTINUE is the default path.
Key(edge) == IF edge.key = CONTINUE THEN NoKey ELSE edge.key
EdgeShape(edge) ==
    [from |-> edge.from, to |-> IF edge.kind = "direct" THEN edge.to ELSE {},
     key |-> Key(edge), type |-> edge.kind]

\* The builder injects END into every graph and diffs pass over it.
ToEnd(edge) == edge.from = END \/ (edge.kind = "direct" /\ edge.to = {END})
UserNodeIds(g) == DOMAIN g.nodes \ {END}

NodeChanges(before, after) ==
    LET b == UserNodeIds(before)
        a == UserNodeIds(after)
    IN  {[kind |-> "removed", id |-> i, before |-> before.nodes[i], after |-> None] : i \in b \ a}
        \cup {[kind |-> "added", id |-> i, before |-> None, after |-> after.nodes[i]] : i \in a \ b}
        \cup {[kind |-> "described", id |-> i, before |-> before.nodes[i], after |-> after.nodes[i]] :
                i \in {j \in a \cap b : after.nodes[j] # before.nodes[j]}}

\* How many elements some sets have together.
Together(f) == Cardinality(UNION {{x} \X f[x] : x \in DOMAIN f})

\* How often a bag has one, and how many it has.
Times(bag, x) == IF x \in DOMAIN bag THEN bag[x] ELSE 0
Size(bag) == Together([x \in DOMAIN bag |-> 1 .. bag[x]])

\* The edges a diff looks at, and the bag of the shapes of some of them.
Seen(edges) == {i \in DOMAIN edges : ~ ToEnd(edges[i])}
ShapesAt(edges, places) ==
    [s \in {EdgeShape(edges[i]) : i \in places} |->
       Cardinality({i \in places : EdgeShape(edges[i]) = s})]
Group(edge) == <<edge.from, Key(edge)>>

\* Mutant: two edges of one key and one shape count once.
GroupByKeyOnce(edges) ==
    [k \in {Group(edges[i]) : i \in Seen(edges)} |->
       SetToBag({EdgeShape(edges[i]) : i \in {j \in Seen(edges) : Group(edges[j]) = k}})]

\* The edges by (from, key), as a bag of shapes each.
GroupByKey(edges) ==
    [k \in {Group(edges[i]) : i \in Seen(edges)} |->
       ShapesAt(edges, {j \in Seen(edges) : Group(edges[j]) = k})]

\* The changes of one key: bags of shapes added and removed, and the pair that
\* replaces one another when there is one on either side.
EdgeChange(bs, as) ==
    IF Size(bs) = 1 /\ Size(as) = 1
    THEN [added |-> EmptyBag, removed |-> EmptyBag,
          replaced |-> IF bs = as THEN {} ELSE (DOMAIN bs) \X (DOMAIN as)]
    ELSE [added |-> as (-) bs, removed |-> bs (-) as, replaced |-> {}]

\* diff_edges, by key; keys without a change are left out.
GroupOf(groups, k) == IF k \in DOMAIN groups THEN groups[k] ELSE EmptyBag
EdgeChanges(before, after) ==
    LET b == GroupByKey(before.edges)
        a == GroupByKey(after.edges)
        changed == {k \in DOMAIN a \cup DOMAIN b : GroupOf(a, k) # GroupOf(b, k)}
    IN  [k \in changed |-> EdgeChange(GroupOf(b, k), GroupOf(a, k))]

\* A part that did not change is not mentioned.
Changed(before, after) == IF before = after THEN <<>> ELSE <<before, after>>

Diff(before, after) ==
    [nodes |-> NodeChanges(before, after), edges |-> EdgeChanges(before, after),
     entry |-> Changed(before.entry, after.entry), name |-> Changed(before.name, after.name),
     description |-> Changed(before.description, after.description)]

IsEmpty(d) ==
    d.nodes = {} /\ DOMAIN d.edges = {} /\ d.entry = <<>> /\ d.name = <<>> /\ d.description = <<>>

Summary(d) ==
    LET Count(kind) == Cardinality({c \in d.nodes : c.kind = kind})
    IN  [nodesAdded |-> Count("added"), nodesRemoved |-> Count("removed"),
         nodesChanged |-> Count("described"),
         edgesAdded |-> Together([k \in DOMAIN d.edges |-> 1 .. Size(d.edges[k].added)]),
         edgesRemoved |-> Together([k \in DOMAIN d.edges |-> 1 .. Size(d.edges[k].removed)]),
         edgesReplaced |-> Together([k \in DOMAIN d.edges |-> d.edges[k].replaced])]

-----------------------------------------------------------------------------
\* What a builder is: the fields it has, no node END, two kinds of edges.
IsBuilder(b) ==
    /\ b = [nodes |-> b.nodes, edges |-> b.edges, entry |-> b.entry, name |-> b.name,
            description |-> b.description]
    /\ b.nodes = [i \in DOMAIN b.nodes |-> b.nodes[i]]
    /\ IsFiniteSet(DOMAIN b.nodes) /\ END \notin DOMAIN b.nodes
    /\ Len(b.edges) \in Nat /\ b.edges = [i \in 1 .. Len(b.edges) |-> b.edges[i]]
    /\ \A i \in DOMAIN b.edges : b.edges[i].kind \in {"direct", "conditional"}

ASSUME BuildersAssumption ==
    /\ END \notin Names /\ NoKey \notin Keys /\ NoKey # CONTINUE
    /\ \A b \in Origins(NewBuilder) : IsBuilder(b)

DiffInit ==
    /\ \E b \in Origins(NewBuilder) : sides = [s \in Sides |-> b]
    /\ edits = 0

Edit(s, b) == edits < MaxEdits /\ edits' = edits + 1 /\ sides' = [sides EXCEPT ![s] = b]

Describe == \E s \in Sides, text \in Texts : \/ Edit(s, SetDescription(sides[s], text))
                                           \/ Edit(s, SetName(sides[s], text))
PutNode == \E s \in Sides, id \in Names, text \in Texts \cup {None} :
    Edit(s, AddNode(sides[s], id, text))
Enter == \E s \in Sides, id \in Names : Edit(s, SetEntryPoint(sides[s], id))
Connect ==
    \E s \in Sides, from \in Names, key \in Keys \cup {NoKey} :
      \/ \E to \in Names : Edit(s, AddEdge(sides[s], DirectEdge(from, key, to)))
      \/ \E r \in Routers : Edit(s, AddEdge(sides[s], ConditionalEdge(from, key, r)))
EndAfter == \E s \in Sides, from \in Names :
    \/ Edit(s, AddEdgeToEnd(sides[s], from))
    \/ \E key \in Keys : Edit(s, AddEdge(sides[s], DirectEdge(from, key, END)))

DiffNext == Describe \/ PutNode \/ Enter \/ Connect \/ EndAfter
DiffSpec == DiffInit /\ [][DiffNext]_diffVars

-----------------------------------------------------------------------------
(* What a diff promises *)

Shapes(g) == ShapesAt(g.edges, Seen(g.edges))

\* A change list applied to the graph it was computed from.
NodesPatched(nodes, changes) ==
    LET gone == {c.id : c \in {d \in changes : d.kind = "removed"}}
        put  == {c \in changes : c.kind # "removed"}
    IN  [i \in (DOMAIN nodes \ gone) \cup {c.id : c \in put} |->
           IF \E c \in put : c.id = i THEN (CHOOSE c \in put : c.id = i).after ELSE nodes[i]]
AllOf(bags) ==
    [s \in UNION {DOMAIN bags[k] : k \in DOMAIN bags} |->
       Together([k \in DOMAIN bags |-> 1 .. Times(bags[k], s)])]
ShapesPatched(shapes, changes) ==
    LET out == AllOf([k \in DOMAIN changes |->
                        changes[k].removed (+) SetToBag({p[1] : p \in changes[k].replaced})])
        in  == AllOf([k \in DOMAIN changes |->
                        changes[k].added (+) SetToBag({p[2] : p \in changes[k].replaced})])
    IN  IF out \sqsubseteq shapes THEN (shapes (-) out) (+) in ELSE None
PartPatched(part, change) == IF change = <<>> THEN part ELSE change[2]

\* Where a node leads (GraphRouting), and graphs in which that does not depend
\* on which of two edges was added first.
Routing(edges) == INSTANCE GraphRouting WITH
    Nodes <- Names, Entry <- None, Outputs <- <<>>, Edges <- edges
Leads(g, from, key) == Routing(g.edges)!Successors(from, [kind |-> "transition", key |-> key])
Unambiguous(g) ==
    \A i, j \in DOMAIN g.edges :
      g.edges[i].from = g.edges[j].from /\ Key(g.edges[i]) = Key(g.edges[j]) => i = j
RoutersOf(g) == {e \in ToSet(g.edges) : e.kind = "conditional"}

DiffIsExact(before, after) ==
    LET d == Diff(before, after)
        n == Summary(d)
    IN  /\ NodesPatched(before.nodes, d.nodes) = after.nodes
        /\ ShapesPatched(Shapes(before), d.edges) = Shapes(after)
        /\ PartPatched(before.entry, d.entry) = after.entry
        /\ PartPatched(before.name, d.name) = after.name
        /\ PartPatched(before.description, d.description) = after.description
        /\ n.nodesAdded + Cardinality(DOMAIN before.nodes)
             = n.nodesRemoved + Cardinality(DOMAIN after.nodes)
        /\ n.edgesAdded + Size(Shapes(before))
             = n.edgesRemoved + Size(Shapes(after))
        /\ IsEmpty(Diff(before, before))
        /\ IsEmpty(d) /\ Unambiguous(before) /\ Unambiguous(after)
             /\ RoutersOf(before) = RoutersOf(after)
             => \A from \in DOMAIN after.nodes, key \in Keys \cup {CONTINUE} :
                  Leads(before, from, key) = Leads(after, from, key)

\* A diff of two compiled graphs is exact: applied to one it gives the other,
\* two edges of one key and any number of equal edges included; its counts add
\* up; and when it is empty the graphs lead every node to the same next one,
\* edges to END left aside, unless two edges share a key, where the order that
\* decides is not part of a diff.
DiffsAreExact ==
    LET before == Compile(sides["before"])
        after == Compile(sides["after"])
    IN  before # None /\ after # None => DiffIsExact(before, after)
=============================================================================
