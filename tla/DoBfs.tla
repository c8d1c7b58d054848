------------------------------- MODULE DoBfs --------------------------------
(***************************************************************************)
(* bfs_direction_optimized (dobfs.rs): breadth-first search level by       *)
(* level.  A level is expanded top-down, along the out-edges of the        *)
(* frontier, or bottom-up, by asking every unvisited node whether the      *)
(* reverse graph gives it a parent in the frontier.  A heuristic chooses   *)
(* the direction anew at every level.  The bitsets of the code are the     *)
(* words of the sets here; they matter where their zeros are scanned.      *)
(***************************************************************************)
EXTENDS VisitedFilter

CONSTANTS
    MaxId,      \* the largest node id
    Alpha,      \* ALPHA
    Beta        \* BETA

Nodes == 0..MaxId
Pairs == Nodes \X Nodes

ASSUME DoBfsAssumption ==
    /\ MaxId \in Nat
    /\ Alpha \in Nat \ {0}
    /\ Beta \in Nat \ {0}

VARIABLES
    forward, reverse,   \* the base edges of the two graphs
    forwardDelta,       \* forward has delta mutations
    reverseDelta,       \* reverse has delta mutations
    start, maxDepth,    \* the arguments
    at,                 \* "idle", "check", "level", "expand", or how the call ended
    visited,            \* visited_bits
    frontier,           \* the nodes of the current level
    levels,             \* the levels recorded so far
    outEdges            \* visited_out_edges

arguments == <<forward, reverse, forwardDelta, reverseDelta, start, maxDepth>>
kernelVars == <<arguments, at, visited, frontier, levels, outEdges>>

\* node_count(): one more than the largest endpoint.
NodeCount(edges) ==
    IF edges = {} THEN 0 ELSE Max(UNION {{p[1], p[2]} : p \in edges}) + 1

Transposed(edges) == {<<p[2], p[1]>> : p \in edges}
Successors(edges, nodes) == {p[2] : p \in {q \in edges : q[1] \in nodes}}

\* The nodes within d steps of the roots.
Reach(edges, roots, d) ==
    LET reach[k \in 0..d] ==
            IF k = 0 THEN roots ELSE reach[k - 1] \cup Successors(edges, reach[k - 1])
    IN  reach[d]

\* The shape check compares counts only.
SameShape(edges, reversed) ==
    /\ NodeCount(edges) = NodeCount(reversed)
    /\ Cardinality(edges) = Cardinality(reversed)

\* The delta of forward is looked at last.
Check ==
    /\ at = "check"
    /\ at' = IF ~SameShape(forward, reverse) \/ reverseDelta THEN "refused"
              ELSE IF forwardDelta THEN "delegated"
              ELSE IF start >= NodeCount(forward) THEN "empty"
              ELSE "level"
    /\ visited' = IF at' = "level" THEN {start} ELSE {}
    /\ frontier' = visited'
    /\ UNCHANGED <<arguments, levels, outEdges>>

\* Record the level; stop at the depth limit.
RecordLevel ==
    LET depth == Len(levels)
    IN  /\ at = "level"
        /\ levels' = Append(levels, frontier)
        /\ at' = IF depth >= maxDepth THEN "done" ELSE "expand"
        /\ UNCHANGED <<arguments, visited, frontier, outEdges>>

FrontierOutEdges == Cardinality({p \in forward : p[1] \in frontier})

UnvisitedEdges ==
    LET seen == outEdges + FrontierOutEdges
    IN  IF seen > Cardinality(forward) THEN 0 ELSE Cardinality(forward) - seen

BottomUp ==
    /\ FrontierOutEdges > UnvisitedEdges \div Alpha
    /\ Cardinality(frontier) >= NodeCount(forward) \div Beta

\* Mutant: the edges of the next frontier are counted too early.
AdvanceCountsNext(next) ==
    /\ at = "expand"
    /\ at' = IF next = {} THEN "done" ELSE "level"
    /\ visited' = visited \cup next
    /\ frontier' = next
    /\ outEdges' = outEdges + Cardinality({p \in forward : p[1] \in next})
    /\ UNCHANGED <<arguments, levels>>

\* The next frontier; none ends the search.
Advance(next) ==
    /\ at = "expand"
    /\ at' = IF next = {} THEN "done" ELSE "level"
    /\ visited' = visited \cup next
    /\ frontier' = next
    /\ outEdges' = outEdges + FrontierOutEdges
    /\ UNCHANGED <<arguments, levels>>

\* The nodes that are not visited, as the scan of the words finds them.
Unvisited == UnvisitedNodes(WordsOf(visited, NodeCount(forward)), NodeCount(forward))

\* Mutant: the parents are looked up in the forward graph.
ExpandBottomUpForward ==
    /\ BottomUp
    /\ Advance({n \in Unvisited : Successors(forward, {n}) \cap frontier # {}})

ExpandBottomUp ==
    /\ BottomUp
    /\ Advance({n \in Unvisited : Successors(reverse, {n}) \cap frontier # {}})

ExpandTopDown ==
    /\ ~BottomUp
    /\ Advance(Successors(forward, frontier) \ visited)

-----------------------------------------------------------------------------
KernelInit ==
    /\ forward = {}
    /\ reverse = {}
    /\ forwardDelta = FALSE
    /\ reverseDelta = FALSE
    /\ start = 0
    /\ maxDepth = 0
    /\ at = "idle"
    /\ visited = {}
    /\ frontier = {}
    /\ levels = <<>>
    /\ outEdges = 0

\* The call: the base edges of both graphs and whether their deltas are empty.
Begin(edges, hasDelta, reversed, reversedHasDelta, from, depth) ==
    /\ at = "idle"
    /\ at' = "check"
    /\ forward' = edges
    /\ forwardDelta' = hasDelta
    /\ reverse' = reversed
    /\ reverseDelta' = reversedHasDelta
    /\ start' = from
    /\ maxDepth' = depth
    /\ UNCHANGED <<visited, frontier, levels, outEdges>>

KernelStep == Check \/ RecordLevel \/ ExpandBottomUp \/ ExpandTopDown

-----------------------------------------------------------------------------
Within(d) == Reach(forward, {start}, d)
AtDistance(d) == Within(d) \ (IF d = 0 THEN {} ELSE Within(d - 1))

(* "Level membership, depths, and counts are identical to bfs": given the  *)
(* transpose, the levels are the distance classes of the start, without    *)
(* gaps, up to max_depth, whichever way each of them was expanded.         *)
LevelsAreDistances ==
    at = "done" /\ reverse = Transposed(forward) =>
        /\ \A d \in DOMAIN levels : levels[d] = AtDistance(d - 1) /\ levels[d] # {}
        /\ Len(levels) <= maxDepth => AtDistance(Len(levels)) = {}
        /\ Len(levels) <= maxDepth + 1

(* The edge estimate of the heuristic counts the out-edges of every level  *)
(* before the current one once, so its subtraction never saturates.        *)
EstimateIsExact ==
    at = "expand" => outEdges =
        Cardinality({p \in forward : \E d \in 1..(Len(levels) - 1) : p[1] \in levels[d]})
=============================================================================
