---------------------------- MODULE PluginGraphs ----------------------------
(***************************************************************************)
(* ordered() asked once, for any graph of dependencies:  the lists of the  *)
(* manifests are any of Lists, and any plugin may be unreadable.           *)
(***************************************************************************)
EXTENDS PluginOrder, FiniteSets

CONSTANT Lists      \* what a manifest may name

ASSUME ListsAssumption == \A list \in Lists : list \in Seq(Needs(list))

VARIABLES graph, ordering

NoAnswer == [order |-> <<>>, cyclic |-> {}]

GraphInit == /\ graph \in [Plugins -> Lists \cup {Unreadable}]
             /\ ordering = NoAnswer

Ask ==
    /\ ordering = NoAnswer
    /\ ordering' = LET found == Ordered(graph) IN [order |-> found.order, cyclic |-> found.cyclic]
    /\ UNCHANGED graph

GraphSpec == GraphInit /\ [][Ask]_<<graph, ordering>>

-----------------------------------------------------------------------------
(* What ordered() promises of the graph.                                   *)

Answered == ordering # NoAnswer
At(p) == CHOOSE i \in 1..Len(ordering.order) : ordering.order[i] = p

\* Every readable plugin is ordered exactly once, so none is forgotten by a
\* start and none is started twice by one.
OrdersAll ==
    Answered => /\ {ordering.order[i] : i \in 1..Len(ordering.order)} = Readable(graph)
                /\ Len(ordering.order) = Cardinality(Readable(graph))

\* "Orders the loaded plugins so every dependency comes first": one pass over
\* the order starts everything that can start, because a plugin stands behind
\* every dependency it does not share a cycle with.
DependenciesFirst ==
    Answered => \A p \in Readable(graph) : \A q \in Readable(graph) :
                    Edge(graph, p, q) /\ p \notin Reach(graph, q) => At(q) < At(p)

\* Both hold of the one ordering.
OrdersRight == OrdersAll /\ DependenciesFirst

\* A plugin is told to be in a cycle only when it is in one, and a graph with a
\* cycle has at least one plugin told so.
CyclesReal ==
    Answered => /\ \A p \in ordering.cyclic : InCycle(graph, p)
                /\ (\E p \in Readable(graph) : InCycle(graph, p)) => ordering.cyclic # {}
=============================================================================
