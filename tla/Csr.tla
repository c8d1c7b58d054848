-------------------------------- MODULE Csr ---------------------------------
(***************************************************************************)
(* The base layer of a graph as a value: how CsrBuilder::build turns a     *)
(* list of edges into shards (builder.rs), what a shard stores (shard.rs)  *)
(* and how a node is looked up (csr.rs).  Node ids are naturals; an edge   *)
(* carries its weight, or NoWeight.  Sequences count from 1 here, so the   *)
(* shard of index k in the code is shards[k + 1].                          *)
(***************************************************************************)
EXTENDS Keeping

CONSTANTS
    U32Max,     \* u32::MAX: the largest node id and the largest edge count
    NoWeight    \* the weight of an edge that has none

ASSUME U32Assumption == U32Max \in Nat \ {0}

PointerBytes == 4
EdgeBytes(weighted) == IF weighted THEN 8 ELSE 4

CeilDiv(a, b) == (a + b - 1) \div b
AtLeastOne(n) == Max({n, 1})

EdgesFrom(edges, n) == Keep(edges, {e \in ToSet(edges) : e.src = n})
EdgesBelow(edges, n) == Keep(edges, {e \in ToSet(edges) : e.src < n})

\* A stable sort by source.
SortedBySource(edges) == FlattenSeq([n \in 1..(U32Max + 1) |-> EdgesFrom(edges, n - 1)])

\* Mutant: the destinations are not looked at.
SourcesOnly(edges) == {edges[i].src : i \in DOMAIN edges}

Endpoints(edges) == UNION {{edges[i].src, edges[i].dst} : i \in DOMAIN edges}

(***************************************************************************)
(* build_csr_arrays: row pointers are the running sum of the degrees, and  *)
(* the k-th edge goes to the next free slot of its source.                 *)
(***************************************************************************)
RowPtrs(edges, nodes) == [n \in 0..nodes |-> Len(EdgesBelow(edges, n))]

Slot(edges, rowPtrs, k) ==
    rowPtrs[edges[k].src] + Len(EdgesFrom(SubSeq(edges, 1, k - 1), edges[k].src))

Columns(edges, rowPtrs) ==
    [p \in 1..Len(edges) |->
        edges[CHOOSE k \in DOMAIN edges : Slot(edges, rowPtrs, k) = p - 1]]

(***************************************************************************)
(* partition_into_shards: a shard takes the target number of nodes, and    *)
(* gives nodes back while it is over the budget and has more than one.     *)
(***************************************************************************)
ShardMemory(rowPtrs, first, end, edgeBytes) ==
    (end - first + 1) * PointerBytes + (rowPtrs[end] - rowPtrs[first]) * edgeBytes

TargetNodes(nodes, edgeCount, edgeBytes, size) ==
    LET total == (nodes + 1) * PointerBytes + edgeCount * edgeBytes
    IN  AtLeastOne(CeilDiv(size, AtLeastOne(CeilDiv(total, nodes))))

\* Mutant: the shard is closed at the target, whatever it weighs.
EndAtTarget(rowPtrs, first, limit, edgeBytes, size) == limit

EndNode(rowPtrs, first, limit, edgeBytes, size) ==
    Max({end \in (first + 1)..limit :
            \/ end = first + 1
            \/ ShardMemory(rowPtrs, first, end, edgeBytes) <= size})

Shard(id, first, end, rowPtrs, columns, weighted) ==
    LET mine == SubSeq(columns, rowPtrs[first] + 1, rowPtrs[end])
    IN  [id |-> id, first |-> first, end |-> end, weighted |-> weighted,
         rowPtrs |-> [i \in 0..(end - first) |-> rowPtrs[first + i] - rowPtrs[first]],
         columns |-> mine]

\* The first nodes of the shards and the end of the last, if a shard that
\* starts at n ends at ends[n].
Cuts(ends, nodes) ==
    LET cuts[n \in 0..nodes] == IF n = nodes THEN <<n>> ELSE <<n>> \o cuts[ends[n]]
    IN  cuts[0]

Shards(nodes, rowPtrs, columns, weighted, size) ==
    LET bytes == EdgeBytes(weighted)
        target == TargetNodes(nodes, Len(columns), bytes, size)
        cuts == Cuts([n \in 0..(nodes - 1) |->
                        EndNode(rowPtrs, n, Min({n + target, nodes}), bytes, size)], nodes)
    IN  [i \in 1..(Len(cuts) - 1) |->
            Shard(i - 1, cuts[i], cuts[i + 1], rowPtrs, columns, weighted)]

\* Mutant: the id is not advanced behind the last shard.
ShardIdsRunOutLater(shards) == Len(shards) > U32Max + 1

\* shard_id counts on in u32 behind every shard, behind the last as well.
ShardIdsRunOut(shards) == Len(shards) > U32Max

(***************************************************************************)
(* build.  An error takes the place of the graph.                          *)
(***************************************************************************)
EmptyGraph == [error |-> "none", nodeCount |-> 0, edgeCount |-> 0, shards |-> <<>>]
InvalidEdge == [error |-> "InvalidEdge"]
UnsupportedGraphSize == [error |-> "UnsupportedGraphSize"]
Failed(result) == result.error # "none"

\* Mutant: the weights are paired in the wrong order.
ZippedFromEnd(edges, weights) ==
    [i \in 1..Min({Len(edges), Len(weights)}) |->
        [edges[i] EXCEPT !.weight = weights[Len(weights) + 1 - i]]]

Zipped(edges, weights) ==
    [i \in 1..Min({Len(edges), Len(weights)}) |->
        [edges[i] EXCEPT !.weight = weights[i]]]

Build(added, weights, weighted, size) ==
    LET edges == SortedBySource(IF weighted THEN Zipped(added, weights) ELSE added)
        nodes == Max(Endpoints(edges) \cup {0}) + 1
        rowPtrs == RowPtrs(edges, nodes)
        shards == Shards(nodes, rowPtrs, Columns(edges, rowPtrs), weighted, size)
    IN  CASE added = <<>> -> EmptyGraph
          [] \E n \in Endpoints(added) : n > U32Max -> InvalidEdge
          [] OTHER ->
             IF Len(edges) > U32Max \/ ShardIdsRunOut(shards) THEN UnsupportedGraphSize
             ELSE [error |-> "none", nodeCount |-> nodes, edgeCount |-> Len(edges),
                   shards |-> shards]

(***************************************************************************)
(* Lookups.                                                                *)
(***************************************************************************)
ContainsNode(g, node) == node < g.nodeCount

NoPlace == <<0, 0>>

\* The last shard that starts at or before the node, if it holds the node.
GlobalToShard(g, node) ==
    LET k == Len(Keep(g.shards, {s \in ToSet(g.shards) : s.first <= node}))
    IN  IF k > 0 /\ node \in g.shards[k].first..(g.shards[k].end - 1)
        THEN <<k, node - g.shards[k].first>> ELSE NoPlace

NoNode == -1

\* Mutant: the offset is not compared with the nodes of the shard.
ShardToGlobalUnchecked(g, k, offset) ==
    IF k \in DOMAIN g.shards THEN g.shards[k].first + offset ELSE NoNode

ShardToGlobal(g, k, offset) ==
    IF k \in DOMAIN g.shards /\ offset < g.shards[k].end - g.shards[k].first
    THEN g.shards[k].first + offset ELSE NoNode

\* The edges of one node, in the order they are stored.
NeighborSlice(shard, offset) ==
    SubSeq(shard.columns, shard.rowPtrs[offset] + 1, shard.rowPtrs[offset + 1])

BaseNeighborSlice(g, node) ==
    LET place == GlobalToShard(g, node)
    IN  IF place = NoPlace THEN <<>>
        ELSE NeighborSlice(g.shards[place[1]], place[2])

BaseContains(g, from, to) ==
    \E i \in DOMAIN BaseNeighborSlice(g, from) : BaseNeighborSlice(g, from)[i].dst = to

\* What the arrays of a shard take (its header is not counted).
ShardBytes(shard) ==
    PointerBytes * Cardinality(DOMAIN shard.rowPtrs)
        + Len(shard.columns) * (IF shard.weighted THEN 4 + 4 ELSE 4)

-----------------------------------------------------------------------------
\* For the properties: two nodes in a row are never in one shard, because the
\* target is one node or because every two of them are over the size.
NodesStayApart(edges, weighted, size) ==
    LET bytes == EdgeBytes(weighted)
        degree(n) == Len(EdgesFrom(edges, n))
    IN  \/ TargetNodes(U32Max + 1, Len(edges), bytes, size) = 1
        \/ \A n \in 0..(U32Max - 1) :
              3 * PointerBytes + (degree(n) + degree(n + 1)) * bytes > size

\* The graph has a node for every id of u32, and each is a shard of its own.
TooManyShards(edges, weighted, size) ==
    /\ \E i \in DOMAIN edges : edges[i].src = U32Max \/ edges[i].dst = U32Max
    /\ NodesStayApart(edges, weighted, size)
=============================================================================
