-------------------------------- MODULE Bfs ---------------------------------
(***************************************************************************)
(* bfs_bounded (bfs.rs): breadth-first search from several start nodes     *)
(* over a live graph, bounded in depth and in the number of nodes.  One    *)
(* thread searches; others insert and delete edges between its steps.  The *)
(* search asks once, before its loop, whether the delta is empty: if so it *)
(* reads base slices to the end, otherwise it asks the merged iterator at  *)
(* every node.  The slices are filtered by a backend of VisitedFilter and  *)
(* may name a node several times.  EdgeReads has the reads of the delta at *)
(* their finest grain; here the neighbors of one node are read in one step.*)
(***************************************************************************)
EXTENDS VisitedFilter

CONSTANTS
    NodeCount,    \* the nodes of the base layer are 0..NodeCount-1
    DeltaNodes,   \* nodes beyond them, which only delta insertions name
    Bases,        \* the base layers that are tried: the slice of every node
    StartLists,   \* the lists of start nodes that are tried
    Depths,       \* values of max_depth
    Caps,         \* values of max_nodes
    Mutable,      \* the edges that other threads insert and delete
    MaxWrites,    \* bound on the mutations made
    Searchers     \* the machines that search

BaseNodes == 0..(NodeCount - 1)
Nodes == BaseNodes \cup DeltaNodes
Pairs == Nodes \X Nodes

ASSUME BfsAssumption ==
    /\ NodeCount \in Nat \ {0}
    /\ DeltaNodes \subseteq Nat \ BaseNodes
    /\ \A b \in Bases : b \in [BaseNodes -> Seq(BaseNodes)]
    /\ \A s \in StartLists : s \in Seq(Nodes)
    /\ Depths \subseteq Nat
    /\ Caps \subseteq Nat
    /\ Mutable \subseteq Pairs
    /\ MaxWrites \in Nat
    /\ Searchers \subseteq Machines

VARIABLES
    base, ins, dels,                \* the graph
    starts, maxDepth, maxNodes,     \* the arguments
    machine,                        \* where the search runs
    at,                             \* "admit", "probe", "search" or "done"
    tracker,                        \* visited_tracker
    admitted,                       \* how many of them were admitted
    queue,                          \* pairs <<node, depth>>
    fast,                           \* delta_empty, as it was read
    visited,                        \* BfsResult: visited and depths, paired
    levels, level, depth,           \* levels, current_level, current_depth
    always, ever,                   \* history: edges shown throughout, at some time
    writes                          \* the mutations so far

graphVars == <<base, ins, dels>>
arguments == <<starts, maxDepth, maxNodes, machine>>
result    == <<visited, levels, level, depth>>
history   == <<always, ever, writes>>
vars == <<graphVars, arguments, at, tracker, admitted, queue, fast, result, history>>

BaseEdges == UNION {{<<n, m>> : m \in ToSet(base[n])} : n \in BaseNodes}
Shown == (BaseEdges \ dels) \cup ins

(***************************************************************************)
(* Reading the neighbors: base slices through the filter, or the merged    *)
(* iterator, which yields the base edges without a tombstone and then the  *)
(* insertions, in the order of the map, that were not yielded yet.         *)
(***************************************************************************)
Slice(node) == IF node \in BaseNodes THEN base[node] ELSE <<>>

Filtered(node) == FilterUnvisited(SelectBackend(machine), Slice(node), tracker.words)

\* Mutant: base slices also beside a delta.
MergedBaseOnly(node) == {Slice(node)}

Merged(node) ==
    LET kept == Keep(Slice(node), {n \in Nodes : <<node, n>> \notin dels})
        inserted == {n \in Nodes : <<node, n>> \in ins} \ ToSet(kept)
    IN  {kept \o order : order \in SetToSeqs(inserted)}

ReadNeighbors(node) == IF fast THEN {Filtered(node)} ELSE Merged(node)

(***************************************************************************)
(* The start nodes are admitted in order, up to the cap.                   *)
(***************************************************************************)
AdmitStart ==
    LET start == Head(starts)
        new == start \in BaseNodes /\ ~Marked(tracker, start)
    IN  /\ at = "admit"
        /\ starts # <<>>
        /\ admitted < maxNodes
        /\ starts' = Tail(starts)
        /\ IF new
           THEN /\ tracker' = TestAndSet(tracker, start)
                /\ queue' = Append(queue, <<start, 0>>)
                /\ admitted' = admitted + 1
           ELSE UNCHANGED <<tracker, queue, admitted>>
        /\ UNCHANGED <<graphVars, maxDepth, maxNodes, machine, at, fast, result, history>>

StartsAdmitted ==
    /\ at = "admit"
    /\ starts = <<>> \/ admitted >= maxNodes
    /\ at' = IF queue = <<>> THEN "done" ELSE "probe"
    /\ UNCHANGED <<graphVars, arguments, tracker, admitted, queue, fast, result, history>>

\* Mutant: only the insertions are asked.
ProbeInsertionsOnly ==
    /\ at = "probe"
    /\ at' = "search"
    /\ fast' = (ins = {})
    /\ UNCHANGED <<graphVars, arguments, tracker, admitted, queue, result, history>>

\* delta().is_empty(), once.
Probe ==
    /\ at = "probe"
    /\ at' = "search"
    /\ fast' = (ins = {} /\ dels = {})
    /\ UNCHANGED <<graphVars, arguments, tracker, admitted, queue, result, history>>

(***************************************************************************)
(* One iteration of the loop: pop a node, close the level if it is deeper, *)
(* record the node, and admit its unmarked neighbors up to the cap.        *)
(***************************************************************************)
Record(node, d) ==
    /\ levels' = IF d > depth THEN Append(levels, level) ELSE levels
    /\ level'  = Append(IF d > depth THEN <<>> ELSE level, node)
    /\ depth'  = IF d > depth THEN d ELSE depth
    /\ visited' = Append(visited, <<node, d>>)

Expands(d) == d < maxDepth /\ admitted < maxNodes

\* Mutant: a batch from the filter is not checked again.
AdmitFiltered(search, n, d) ==
    IF search.admitted >= maxNodes \/ (~fast /\ Marked(search.tracker, n)) THEN search
    ELSE [tracker |-> TestAndSet(search.tracker, n),
          queue |-> Append(search.queue, <<n, d>>),
          admitted |-> search.admitted + 1]

\* A neighbor is admitted while there is room, and once.
Admit(search, n, d) ==
    IF search.admitted >= maxNodes \/ Marked(search.tracker, n) THEN search
    ELSE [tracker |-> TestAndSet(search.tracker, n),
          queue |-> Append(search.queue, <<n, d>>),
          admitted |-> search.admitted + 1]

\* The neighbors are admitted one after the other.
AdmitAll(search, neighbors, d) ==
    LET after[i \in 0..Len(neighbors)] ==
            IF i = 0 THEN search ELSE Admit(after[i - 1], neighbors[i], d)
    IN  after[Len(neighbors)]

Pop ==
    /\ at = "search"
    /\ queue # <<>>
    /\ LET node == Head(queue)[1]
           d == Head(queue)[2]
           popped == [tracker |-> tracker, queue |-> Tail(queue), admitted |-> admitted]
       IN  /\ Record(node, d)
           /\ \E neighbors \in IF Expands(d) THEN ReadNeighbors(node) ELSE {<<>>} :
                 LET search == AdmitAll(popped, neighbors, d + 1)
                 IN  /\ queue' = search.queue
                     /\ tracker' = search.tracker
                     /\ admitted' = search.admitted
    /\ UNCHANGED <<graphVars, arguments, at, fast, history>>

Return ==
    /\ at = "search"
    /\ queue = <<>>
    /\ at' = "done"
    /\ levels' = IF level = <<>> THEN levels ELSE Append(levels, level)
    /\ level' = <<>>
    /\ UNCHANGED <<graphVars, arguments, tracker, admitted, queue, fast,
                   visited, depth, history>>

(***************************************************************************)
(* Writers.                                                                *)
(***************************************************************************)
Mutated ==
    /\ at # "done"
    /\ writes < MaxWrites
    /\ writes' = writes + 1
    /\ always' = always \cap Shown'
    /\ ever' = ever \cup Shown'
    /\ UNCHANGED <<arguments, at, tracker, admitted, queue, fast, result>>

Insert(edge) ==
    /\ dels' = dels \ {edge}
    /\ ins' = ins \cup {edge}
    /\ UNCHANGED base
    /\ Mutated

Delete(edge) ==
    /\ ins' = ins \ {edge}
    /\ dels' = dels \cup {edge}
    /\ UNCHANGED base
    /\ Mutated

-----------------------------------------------------------------------------
Init ==
    /\ base \in Bases
    /\ ins \in {{}} \cup {{edge} : edge \in Mutable}
    /\ dels \in {{}} \cup {{edge} : edge \in BaseEdges}
    /\ ins \cap dels = {}
    /\ starts \in StartLists
    /\ maxDepth \in Depths
    /\ maxNodes \in Caps
    /\ at = "admit"
    /\ machine \in Searchers
    /\ tracker = NewVisited(NodeCount)
    /\ admitted = 0
    /\ queue = <<>>
    /\ fast = FALSE
    /\ visited = <<>>
    /\ levels = <<>>
    /\ level = <<>>
    /\ depth = 0
    /\ always = Shown
    /\ ever = Shown
    /\ writes = 0

Search == AdmitStart \/ StartsAdmitted \/ Probe \/ Pop \/ Return

Next == Search \/ \E edge \in Mutable : Insert(edge) \/ Delete(edge)

Spec == Init /\ [][Next]_vars

-----------------------------------------------------------------------------
Done == at = "done"
DepthOf == [n \in {v[1] : v \in ToSet(visited)} |->
               (CHOOSE v \in ToSet(visited) : v[1] = n)[2]]
Roots == {v[1] : v \in {x \in ToSet(visited) : x[2] = 0}}

Successors(edges, nodes) == {e[2] : e \in {x \in edges : x[1] \in nodes}}

\* The nodes within d steps of the roots along the edges.
Reach(roots, edges, d) ==
    LET reach[k \in 0..d] ==
            IF k = 0 THEN roots ELSE reach[k - 1] \cup Successors(edges, reach[k - 1])
    IN  reach[d]

Within(edges, d) == Reach(Roots, edges, d)

(* Nothing is made up: a node reported at depth d is d steps of edges away *)
(* from a start that were each shown at some moment of the search, and no  *)
(* fewer steps of edges that were shown all along can reach it, unless the *)
(* cap kept nodes out.                                                     *)
DepthsAreJustified ==
    Done => \A v \in ToSet(visited) :
        /\ v[1] \in Within(ever, v[2])
        /\ admitted < maxNodes /\ v[2] > 0 => v[1] \notin Within(always, v[2] - 1)

(* Nothing is missed: whatever is reachable within max_depth along edges   *)
(* that were shown all along is reported, unless the cap was reached.      *)
StableReachIsReported ==
    Done /\ admitted < maxNodes => Within(always, maxDepth) \subseteq DOMAIN DepthOf

(* The result holds every admitted node once, in order of depth, within    *)
(* both limits, and levels lists the same nodes depth by depth.            *)
ResultIsConsistent ==
    Done =>
        /\ Len(visited) = admitted /\ admitted <= maxNodes
        /\ Cardinality(DOMAIN DepthOf) = Len(visited)
        /\ \A n \in Nodes : Marked(tracker, n) <=> n \in DOMAIN DepthOf
        /\ \A i \in DOMAIN visited : visited[i][2] <= maxDepth
        /\ FlattenSeq(levels) = [i \in DOMAIN visited |-> visited[i][1]]
        /\ \A d \in DOMAIN levels : \A n \in ToSet(levels[d]) : DepthOf[n] = d - 1

(* "Every backend is equivalence-tested against the scalar reference":     *)
(* whatever was visited so far, every kernel lets the same neighbors pass  *)
(* in the same order, with a slice that ends inside, at or behind a chunk, *)
(* and also when some indices are beyond the words (simd.rs:14).           *)
BackendsAgree ==
    at = "search" => \A n \in BaseNodes, backend \in Backends, k \in 0..Len(tracker.words) :
        LET words == SubSeq(tracker.words, 1, k)
        IN  FilterUnvisited(backend, Slice(n), words) = ScalarFilter(Slice(n), words)
=============================================================================
