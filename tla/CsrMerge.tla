------------------------------ MODULE CsrMerge ------------------------------
(***************************************************************************)
(* A graph that CsrBuild built, with its delta layer, used by one thread   *)
(* (csr.rs): insert and delete, compact, which merges the delta into a new *)
(* base, and transpose, which builds the reversed graph.  Both hand an     *)
(* edge list to CsrBuilder again, so the order of the edges, their         *)
(* multiplicity, their weights and the nodes of the new graph are the      *)
(* result of Csr!Build.  What concurrent callers can do to a delta is in   *)
(* DeltaLayer, to the swap in Compaction.                                  *)
(***************************************************************************)
EXTENDS CsrBuild

CONSTANTS
    DefaultWeight,  \* 1.0, the weight of an insertion without one
    OpIds,          \* the node ids that are used once the graph is built
    OpSize,         \* bound: graphs of this shard size are used further,
    OpEdges,        \* bound: if no more edges than this were added
    MaxOps          \* bound on the calls made then

ASSUME MergeAssumption ==
    /\ OpIds \subseteq Ids \cap (0..U32Max)
    /\ NoWeight # DefaultWeight

VARIABLES
    graph,    \* the base layer
    ins,      \* delta insertions: ins[p] is the payload of key p, or Absent
    dels,     \* delta tombstones
    reverse,  \* what the last transpose returned, or NoReverse
    called,   \* the last call, and whether it returned an error
    ops       \* the calls so far

graphVars == <<graph, ins, dels, reverse, called, ops>>
allVars == <<builder, graphVars>>

Pairs == OpIds \X OpIds
Absent == "absent"
NoReverse == [error |-> "NoReverse"]
Inserted == {p \in Pairs : ins[p] # Absent}

PairEdge(p, w) == Edge(p[1], p[2], w)
BuildFrom(merged, withWeights) ==
    Build(merged, [i \in DOMAIN merged |-> merged[i].weight], withWeights, DefaultSize)

Returns(call, failed) == called' = [call |-> call, failed |-> failed]

(***************************************************************************)
(* What neighbors yields: the base edges without a tombstone, then the     *)
(* insertions (in the order of the hash map) that were not yielded yet.    *)
(***************************************************************************)
Kept(node) == SelectSeq(BaseNeighborSlice(graph, node),
                        LAMBDA e : <<e.src, e.dst>> \notin dels)

Copies(p) ==
    LET kept == Len(SelectSeq(Kept(p[1]), LAMBDA e : e.dst = p[2]))
    IN  IF kept = 0 /\ p \in Inserted THEN 1 ELSE kept

(***************************************************************************)
(* Mutations.                                                              *)
(***************************************************************************)
Insert(p, w) ==
    /\ dels' = dels \ {p}
    /\ ins' = [ins EXCEPT ![p] = w]
    /\ Returns("insert", FALSE)
    /\ UNCHANGED <<graph, reverse>>

Delete(p) ==
    /\ ins' = [ins EXCEPT ![p] = Absent]
    /\ dels' = dels \cup {p}
    /\ Returns("delete", FALSE)
    /\ UNCHANGED <<graph, reverse>>

(***************************************************************************)
(* compact and transpose walk the shards in order, skip what is tombstoned *)
(* and add the insertions that the base does not hold.                     *)
(***************************************************************************)
ShardEdges(shard) ==
    FlattenSeq([i \in 1..(shard.end - shard.first) |-> NeighborSlice(shard, i - 1)])

BaseEdges ==
    SelectSeq(FlattenSeq([k \in DOMAIN graph.shards |-> ShardEdges(graph.shards[k])]),
              LAMBDA e : <<e.src, e.dst>> \notin dels)

\* Mutant: an insertion over a base edge is added once more.
NewInsertionsTwice == Inserted

NewInsertions == {p \in Inserted : ~BaseContains(graph, p[1], p[2])}

HasWeights == \E k \in DOMAIN graph.shards : graph.shards[k].weighted

\* Mutant: the payload is not looked at.
MergedWeightDefault(p) == IF HasWeights THEN DefaultWeight ELSE NoWeight

MergedWeight(p) == IF ~HasWeights THEN NoWeight
                   ELSE IF ins[p] = NoWeight THEN DefaultWeight ELSE ins[p]

\* The graph with the delta merged in, if the hash map of the insertions is
\* walked in this order.
Merged(order) ==
    BuildFrom(BaseEdges \o [i \in DOMAIN order |-> PairEdge(order[i], MergedWeight(order[i]))],
              HasWeights)

\* The delta is drained first, also when build refuses the merged edges.
Compact ==
    /\ \E order \in SetToSeqs(NewInsertions) :
          LET merged == Merged(order)
          IN  /\ graph' = IF Failed(merged) THEN graph ELSE merged
              /\ Returns("compact", Failed(merged))
    /\ ins' = [p \in Pairs |-> Absent]
    /\ dels' = {}
    /\ UNCHANGED reverse

Reversed(e) == [src |-> e.dst, dst |-> e.src, weight |-> NoWeight]

\* Mutant: the snapshot leaves out the delta insertions.
TransposeBaseOnly ==
    /\ reverse' = BuildFrom([i \in DOMAIN BaseEdges |-> Reversed(BaseEdges[i])], FALSE)
    /\ Returns("transpose", Failed(reverse'))
    /\ UNCHANGED <<graph, ins, dels>>

Transpose ==
    /\ \E order \in SetToSeqs(NewInsertions) :
          LET list == BaseEdges \o [i \in DOMAIN order |-> PairEdge(order[i], NoWeight)]
          IN  reverse' = BuildFrom([i \in DOMAIN list |-> Reversed(list[i])], FALSE)
    /\ Returns("transpose", Failed(reverse'))
    /\ UNCHANGED <<graph, ins, dels>>

-----------------------------------------------------------------------------
\* Until build returns there is no graph, and the delta of a new one is empty.
GraphInit ==
    /\ BuilderInit
    /\ graph = NotBuilt
    /\ ins = [p \in Pairs |-> Absent]
    /\ dels = {}
    /\ reverse = NoReverse
    /\ called = [call |-> "none", failed |-> FALSE]
    /\ ops = 0

BuilderStep ==
    /\ BuilderNext
    /\ graph' = built'
    /\ UNCHANGED <<ins, dels, reverse, called, ops>>

Usable ==
    /\ built # NotBuilt /\ ~Failed(built)
    /\ shardSize = OpSize
    /\ Len(added) <= OpEdges
    /\ Endpoints(added) \subseteq OpIds

GraphStep ==
    /\ Usable
    /\ ops < MaxOps
    /\ ops' = ops + 1
    /\ \/ \E p \in Pairs : \/ \E w \in Weights \cup {NoWeight} : Insert(p, w)
                           \/ Delete(p)
       \/ Compact
       \/ Transpose
    /\ UNCHANGED builder

GraphNext == BuilderStep \/ GraphStep

GraphSpec == GraphInit /\ [][GraphNext]_allVars

-----------------------------------------------------------------------------
Compacted  == called'.call = "compact" /\ ~called'.failed
Transposed == called'.call = "transpose" /\ ~called'.failed

WeightsOf(p) == {e.weight : e \in {x \in ToSet(Kept(p[1])) : x.dst = p[2]}}

(* compact changes nothing that a query can see: every edge keeps its      *)
(* multiplicity, "NeighborIter yields such pairs once, and compaction      *)
(* preserves those semantics" (csr.rs:307-309).                            *)
CompactKeepsTopology ==
    [][Compacted => \A p \in Pairs : Copies(p)' = Copies(p)]_allVars

(* Base edges that stay keep their order and their weights, or stay        *)
(* without.  An insertion that is new to a base with weights brings its    *)
(* own or 1.0 (csr.rs:275-315), "weights attached to delta insertions ...  *)
(* are carried over" (csr.rs:262-264).  That is not so of a base without   *)
(* weights, the empty one too: no edge has a weight afterwards, whatever   *)
(* the insertion brought.  One over a base edge brings none either: the    *)
(* weight of the base edge stays.                                          *)
CompactKeepsWeights ==
    [][Compacted =>
        /\ \A n \in Ids : IsPrefix(Kept(n), Kept(n)')
        /\ \A p \in NewInsertions :
              WeightsOf(p)' = {CASE ~HasWeights -> NoWeight
                                 [] HasWeights /\ ins[p] = NoWeight -> DefaultWeight
                                 [] OTHER -> ins[p]}]_allVars

(* The transpose is the reversal of what neighbors shows, delta included,  *)
(* and without a delta it has the shape that the direction-optimizing BFS  *)
(* asks of it (dobfs.rs:62).  A builder whose surplus was dropped may have *)
(* left a node without any edge, which no transpose has.                   *)
TransposeReverses ==
    [][Transposed =>
        /\ \A p \in Pairs : Copies(p) =
              Len(SelectSeq(BaseNeighborSlice(reverse', p[2]), LAMBDA e : e.dst = p[1]))
        /\ (Inserted = {} /\ dels = {} /\ ~Mixed) =>
              /\ reverse'.nodeCount = graph.nodeCount
              /\ reverse'.edgeCount = graph.edgeCount]_allVars

(* A node with an edge to or from it is a legal start of a traversal after *)
(* compact, also when only a delta insertion had named it.                 *)
EndpointsAreKnown ==
    [][Compacted => \A p \in Pairs : Copies(p) > 0 =>
        ContainsNode(graph', p[1]) /\ ContainsNode(graph', p[2])]_allVars
=============================================================================
