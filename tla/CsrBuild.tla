------------------------------ MODULE CsrBuild ------------------------------
(***************************************************************************)
(* The life of a CsrBuilder (builder.rs): any sequence of with_shard_size, *)
(* with_edges and with_weighted_edges, and then build, which consumes it.  *)
(* An iterator of several plain edges is as many with_edges steps.         *)
(***************************************************************************)
EXTENDS Csr

CONSTANTS
    Ids,        \* the node ids that callers use; some may not fit in u32
    Weights,    \* the weights of weighted edges
    Sizes,      \* the shard sizes that are tried
    DefaultSize,\* DEFAULT_SHARD_SIZE
    MaxEdges,   \* bound on the edges added without weights
    MaxWeighted \* bound on the edges added when some have weights

ASSUME BuildAssumption ==
    /\ Ids \subseteq Nat
    /\ NoWeight \notin Weights
    /\ Sizes \cup {DefaultSize} \subseteq Nat
    /\ MaxEdges \in Nat
    /\ MaxWeighted \in Nat

VARIABLES
    edges,      \* CsrBuilder::edges
    weights,    \* CsrBuilder::weights
    weighted,   \* CsrBuildConfig::include_weights
    shardSize,  \* CsrBuildConfig::shard_size
    built,      \* what build returned, or NotBuilt
    added       \* history: the edges as the caller gave them

builder == <<edges, weights, weighted, shardSize, built, added>>

NotBuilt == [error |-> "NotBuilt"]
Edge(a, b, w) == [src |-> a, dst |-> b, weight |-> w]

WithShardSize(size) ==
    /\ built = NotBuilt
    /\ shardSize' = size
    /\ UNCHANGED <<edges, weights, weighted, built, added>>

WithEdges(a, b) ==
    /\ built = NotBuilt
    /\ Len(edges) < IF weighted THEN MaxWeighted ELSE MaxEdges
    /\ edges' = Append(edges, Edge(a, b, NoWeight))
    /\ added' = Append(added, Edge(a, b, NoWeight))
    /\ UNCHANGED <<weights, weighted, shardSize, built>>

\* An empty iterator asks for weights as well.
WithNoWeightedEdges ==
    /\ built = NotBuilt
    /\ weighted' = TRUE
    /\ UNCHANGED <<edges, weights, shardSize, built, added>>

WithWeightedEdge(a, b, w) ==
    /\ built = NotBuilt
    /\ Len(edges) < MaxWeighted
    /\ weighted' = TRUE
    /\ edges' = Append(edges, Edge(a, b, NoWeight))
    /\ weights' = Append(weights, w)
    /\ added' = Append(added, Edge(a, b, w))
    /\ UNCHANGED <<shardSize, built>>

BuildGraph ==
    /\ built = NotBuilt
    /\ built' = Build(edges, weights, weighted, shardSize)
    /\ UNCHANGED <<edges, weights, weighted, shardSize, added>>

BuilderInit ==
    /\ edges = <<>>
    /\ weights = <<>>
    /\ weighted = FALSE
    /\ shardSize = DefaultSize
    /\ built = NotBuilt
    /\ added = <<>>

BuilderNext ==
    \/ \E size \in Sizes : WithShardSize(size)
    \/ \E a, b \in Ids : WithEdges(a, b) \/ \E w \in Weights : WithWeightedEdge(a, b, w)
    \/ WithNoWeightedEdges
    \/ BuildGraph

BuilderSpec == BuilderInit /\ [][BuilderNext]_builder

-----------------------------------------------------------------------------
Graph == ~Failed(built)

\* Plain and weighted edges in one builder: build pairs edges with weights by
\* position and drops the edges that are left over (builder.rs:87).
Mixed == weighted /\ Len(weights) # Len(edges)

Outgoing(node) == EdgesFrom(added, node)

(* Whatever the sharding, looking up a node in the built graph gives its   *)
(* edges with their weights, duplicates included, in the order they were   *)
(* added (sort, row pointers, partition and binary search together).       *)
AdjacencyAsAdded ==
    Graph /\ ~Mixed => \A n \in 0..U32Max : BaseNeighborSlice(built, n) = Outgoing(n)

(* global_to_shard and shard_to_global are inverse: every node of the      *)
(* graph has a place that leads back to it, no other id has one, and every *)
(* index and offset either is the place of a node or leads nowhere         *)
(* (csr.rs:133-158).                                                       *)
LookupsInvert ==
    Graph =>
        /\ \A n \in 0..(U32Max + 1) :
              LET place == GlobalToShard(built, n)
              IN  IF ContainsNode(built, n)
                  THEN place # NoPlace /\ ShardToGlobal(built, place[1], place[2]) = n
                  ELSE place = NoPlace
        /\ \A k \in 1..(Len(built.shards) + 1), offset \in 0..(U32Max + 1) :
              LET n == ShardToGlobal(built, k, offset)
              IN  n # NoNode =>
                    ContainsNode(built, n) /\ GlobalToShard(built, n) = <<k, offset>>

(* The arrays of a shard, weights included, fit in the configured size     *)
(* unless the shard is a single node (builder.rs:268).                     *)
ShardsFit ==
    Graph => \A k \in DOMAIN built.shards :
        LET s == built.shards[k]
        IN  s.end > s.first + 1 => ShardBytes(s) <= shardSize

(* build refuses exactly the graphs that do not fit in u32: those with an  *)
(* id or a number of edges beyond it, and those that have all ids of u32   *)
(* as nodes and no two of them in a shard (builder.rs:76, 288-294).  From  *)
(* the others nothing that was added is lost, unless plain and weighted    *)
(* edges are mixed.                                                        *)
RefusedOrComplete ==
    (built # NotBuilt /\ ~Mixed) =>
        IF \/ \E i \in DOMAIN added : added[i].src > U32Max \/ added[i].dst > U32Max
           \/ Len(added) > U32Max
           \/ TooManyShards(added, weighted, shardSize)
        THEN Failed(built)
        ELSE ~Failed(built) /\ built.edgeCount = Len(added)
=============================================================================
