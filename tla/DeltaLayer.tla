----------------------------- MODULE DeltaLayer -----------------------------
(***************************************************************************)
(* The delta layer of a graph: a concurrent map of inserted edges and a    *)
(* concurrent set of tombstones (delta.rs).  Each map operation is atomic, *)
(* but insert and delete touch BOTH maps, one after the other, and a drain *)
(* walks a map entry by entry and then removes what it collected key by    *)
(* key.  One action per map operation exposes every interleaving of        *)
(* writers, drains and clears.                                             *)
(***************************************************************************)
EXTENDS Naturals, FiniteSets

CONSTANTS
    Writers,    \* threads that call insert and delete
    Sweepers,   \* threads that call drain_insertions, drain_deletions, clear
    Edges,      \* the (from, to) keys
    Data,       \* the EdgeData payloads
    NoData,     \* "this key is not in the insertions map"
    Deleted,    \* history: the last finished mutation of an edge deleted it
    Writes      \* Writes[w]: the edges that writer w may insert or delete

ASSUME ConstantsAssumption ==
    /\ NoData \notin Data
    /\ Deleted \notin Data
    /\ Deleted # NoData
    /\ Writes \in [Writers -> SUBSET Edges]

VARIABLES
    insertions,  \* DashMap<(NodeId, NodeId), EdgeData>
    deletions,   \* DashSet<(NodeId, NodeId)>
    op,          \* op[w]: the mutation whose second map operation w still owes
    sweep,       \* sweep[s]: the progress of sweeper s over a map
    latest,      \* history: what the last finished mutation of an edge did
    outIns,      \* history: payloads drained since an edge's last mutation
    outDels      \* history: tombstones drained since an edge's last mutation

deltaVars == <<insertions, deletions, op, sweep, latest, outIns, outDels>>
history   == <<latest, outIns, outDels>>

(***************************************************************************)
(* Writers.  op[w] is Idle between calls.                                  *)
(***************************************************************************)
Idle == [kind |-> "idle"]
Mutation ==
    {Idle} \cup [kind : {"insert"}, edge : Edges, data : Data]
           \cup [kind : {"delete"}, edge : Edges]

Pending(w, e) == op[w] # Idle /\ op[w].edge = e

\* Mutant: insert leaves the tombstone behind.
InsertKeepTombstone(w, e, d) ==
    /\ op[w] = Idle
    /\ e \in Writes[w]
    /\ op' = [op EXCEPT ![w] = [kind |-> "insert", edge |-> e, data |-> d]]
    /\ UNCHANGED <<insertions, deletions, sweep, history>>

\* insert, first half: drop the tombstone of the edge, if there is one.
InsertRemoveTombstone(w, e, d) ==
    /\ op[w] = Idle
    /\ e \in Writes[w]
    /\ deletions' = deletions \ {e}
    /\ op' = [op EXCEPT ![w] = [kind |-> "insert", edge |-> e, data |-> d]]
    /\ UNCHANGED <<insertions, sweep, history>>

\* insert, second half: store the edge.
InsertStore(w) ==
    /\ op[w].kind = "insert"
    /\ insertions' = [insertions EXCEPT ![op[w].edge] = op[w].data]
    /\ op' = [op EXCEPT ![w] = Idle]
    /\ latest' = [latest EXCEPT ![op[w].edge] = op[w].data]
    /\ outIns' = [outIns EXCEPT ![op[w].edge] = {}]
    /\ outDels' = outDels \ {op[w].edge}
    /\ UNCHANGED <<deletions, sweep>>

\* delete, first half: drop the insertion of the edge, if there is one.
DeleteRemoveInsertion(w, e) ==
    /\ op[w] = Idle
    /\ e \in Writes[w]
    /\ insertions' = [insertions EXCEPT ![e] = NoData]
    /\ op' = [op EXCEPT ![w] = [kind |-> "delete", edge |-> e]]
    /\ UNCHANGED <<deletions, sweep, history>>

\* delete, second half: add the tombstone.
DeleteAddTombstone(w) ==
    /\ op[w].kind = "delete"
    /\ deletions' = deletions \cup {op[w].edge}
    /\ op' = [op EXCEPT ![w] = Idle]
    /\ latest' = [latest EXCEPT ![op[w].edge] = Deleted]
    /\ outIns' = [outIns EXCEPT ![op[w].edge] = {}]
    /\ outDels' = outDels \ {op[w].edge}
    /\ UNCHANGED <<insertions, sweep>>

(***************************************************************************)
(* Sweeps.  A drain first visits every key in some order (the iteration    *)
(* locks one shard of the map at a time, and keys hash to shards), cloning *)
(* what it meets into got, and only then removes the keys of got.          *)
(* clear visits the keys of the insertions and then those of the           *)
(* tombstones, dropping each as it goes.                                   *)
(***************************************************************************)
Rest == [kind |-> "rest"]
Sweep ==
    {Rest}
    \cup [kind : {"collect_ins", "remove_ins"}, todo : SUBSET Edges,
          got : [Edges -> Data \cup {NoData}]]
    \cup [kind : {"collect_dels", "remove_dels"}, todo : SUBSET Edges,
          got : SUBSET Edges]
    \cup [kind : {"clear_ins", "clear_dels"}, todo : SUBSET Edges]

BeginSweep(s, call) ==
    /\ sweep[s] = Rest
    /\ sweep' = [sweep EXCEPT ![s] = call]
    /\ UNCHANGED <<insertions, deletions, op, history>>

DrainInsertions(s) ==
    BeginSweep(s, [kind |-> "collect_ins", todo |-> Edges,
                   got |-> [e \in Edges |-> NoData]])
DrainDeletions(s) ==
    BeginSweep(s, [kind |-> "collect_dels", todo |-> Edges, got |-> {}])
Clear(s) ==
    BeginSweep(s, [kind |-> "clear_ins", todo |-> Edges])

\* The iteration of drain_insertions meets (or misses) key e.
CollectInsertion(s, e) ==
    /\ sweep[s].kind = "collect_ins"
    /\ e \in sweep[s].todo
    /\ sweep' = [sweep EXCEPT ![s].todo = @ \ {e},
                              ![s].got[e] = insertions[e]]
    /\ UNCHANGED <<insertions, deletions, op, history>>

\* Mutant: the drain ends with a clear of the whole map.
CollectedThenClear(s) ==
    /\ sweep[s].kind = "collect_ins"
    /\ sweep[s].todo = {}
    /\ sweep' = [sweep EXCEPT ![s].kind = "remove_ins", ![s].todo = Edges]
    /\ UNCHANGED <<insertions, deletions, op, history>>

\* The collected keys become the keys to remove.
CollectedInsertions(s) ==
    /\ sweep[s].kind = "collect_ins"
    /\ sweep[s].todo = {}
    /\ sweep' = [sweep EXCEPT
          ![s].kind = "remove_ins",
          ![s].todo = {e \in Edges : sweep[s].got[e] # NoData}]
    /\ UNCHANGED <<insertions, deletions, op, history>>

\* Mutant: the drain returns what its removals find, not what it cloned; a key
\* that a writer has removed in between has no value to unwrap.
RemoveInsertionTaken(s, e) ==
    /\ sweep[s].kind = "remove_ins"
    /\ e \in sweep[s].todo
    /\ insertions' = [insertions EXCEPT ![e] = NoData]
    /\ sweep' = [sweep EXCEPT ![s].todo = @ \ {e}]
    /\ outIns' = [outIns EXCEPT ![e] = @ \cup {insertions[e]}]
    /\ UNCHANGED <<deletions, op, latest, outDels>>

\* The second loop removes a collected key, whatever its value is by now.
RemoveInsertion(s, e) ==
    /\ sweep[s].kind = "remove_ins"
    /\ e \in sweep[s].todo
    /\ insertions' = [insertions EXCEPT ![e] = NoData]
    /\ sweep' = [sweep EXCEPT ![s].todo = @ \ {e}]
    /\ outIns' = [outIns EXCEPT ![e] = @ \cup {sweep[s].got[e]}]
    /\ UNCHANGED <<deletions, op, latest, outDels>>

CollectDeletion(s, e) ==
    /\ sweep[s].kind = "collect_dels"
    /\ e \in sweep[s].todo
    /\ sweep' = [sweep EXCEPT ![s].todo = @ \ {e},
                              ![s].got = @ \cup ({e} \cap deletions)]
    /\ UNCHANGED <<insertions, deletions, op, history>>

CollectedDeletions(s) ==
    /\ sweep[s].kind = "collect_dels"
    /\ sweep[s].todo = {}
    /\ sweep' = [sweep EXCEPT ![s].kind = "remove_dels",
                              ![s].todo = sweep[s].got]
    /\ UNCHANGED <<insertions, deletions, op, history>>

RemoveDeletion(s, e) ==
    /\ sweep[s].kind = "remove_dels"
    /\ e \in sweep[s].todo
    /\ deletions' = deletions \ {e}
    /\ sweep' = [sweep EXCEPT ![s].todo = @ \ {e}]
    /\ outDels' = outDels \cup {e}
    /\ UNCHANGED <<insertions, op, latest, outIns>>

\* clear forgets an entry for good, so the history forgets the mutation.
ClearInsertion(s, e) ==
    /\ sweep[s].kind = "clear_ins"
    /\ e \in sweep[s].todo
    /\ insertions' = [insertions EXCEPT ![e] = NoData]
    /\ sweep' = [sweep EXCEPT ![s].todo = @ \ {e}]
    /\ latest' = IF insertions[e] = NoData THEN latest
                 ELSE [latest EXCEPT ![e] = NoData]
    /\ UNCHANGED <<deletions, op, outIns, outDels>>

ClearedInsertions(s) ==
    /\ sweep[s].kind = "clear_ins"
    /\ sweep[s].todo = {}
    /\ sweep' = [sweep EXCEPT ![s] = [kind |-> "clear_dels", todo |-> Edges]]
    /\ UNCHANGED <<insertions, deletions, op, history>>

ClearDeletion(s, e) ==
    /\ sweep[s].kind = "clear_dels"
    /\ e \in sweep[s].todo
    /\ deletions' = deletions \ {e}
    /\ sweep' = [sweep EXCEPT ![s].todo = @ \ {e}]
    /\ latest' = IF e \in deletions THEN [latest EXCEPT ![e] = NoData]
                 ELSE latest
    /\ UNCHANGED <<insertions, op, outIns, outDels>>

FinishSweep(s) ==
    /\ sweep[s].kind \in {"remove_ins", "remove_dels", "clear_dels"}
    /\ sweep[s].todo = {}
    /\ sweep' = [sweep EXCEPT ![s] = Rest]
    /\ UNCHANGED <<insertions, deletions, op, history>>

-----------------------------------------------------------------------------
Init ==
    /\ insertions = [e \in Edges |-> NoData]
    /\ deletions = {}
    /\ op = [w \in Writers |-> Idle]
    /\ sweep = [s \in Sweepers |-> Rest]
    /\ latest = [e \in Edges |-> NoData]
    /\ outIns = [e \in Edges |-> {}]
    /\ outDels = {}

WriterStep(w) ==
    \/ \E e \in Edges, d \in Data : InsertRemoveTombstone(w, e, d)
    \/ InsertStore(w)
    \/ \E e \in Edges : DeleteRemoveInsertion(w, e)
    \/ DeleteAddTombstone(w)

SweeperStep(s) ==
    \/ DrainInsertions(s) \/ DrainDeletions(s) \/ Clear(s)
    \/ CollectedInsertions(s) \/ CollectedDeletions(s) \/ ClearedInsertions(s)
    \/ FinishSweep(s)
    \/ \E e \in Edges :
          \/ CollectInsertion(s, e) \/ RemoveInsertion(s, e)
          \/ CollectDeletion(s, e)  \/ RemoveDeletion(s, e)
          \/ ClearInsertion(s, e)   \/ ClearDeletion(s, e)

Next ==
    \/ \E w \in Writers : WriterStep(w)
    \/ \E s \in Sweepers : SweeperStep(s)

Spec == Init /\ [][Next]_deltaVars

-----------------------------------------------------------------------------
(* The maps hold edges and payloads, threads are in a phase of their calls,*)
(* and whatever a drain returns has a payload, also if a writer removes or *)
(* replaces the key between the two loops of the drain (delta.rs:138-147). *)
TypeOK ==
    /\ insertions \in [Edges -> Data \cup {NoData}]
    /\ deletions \in SUBSET Edges
    /\ op \in [Writers -> Mutation]
    /\ sweep \in [Sweepers -> Sweep]
    /\ latest \in [Edges -> Data \cup {NoData, Deleted}]
    /\ outIns \in [Edges -> SUBSET Data]
    /\ outDels \in SUBSET Edges

Inserted == {e \in Edges : insertions[e] # NoData}

\* At most one thread mutates the edge.
Exclusive(e) == \A v, w \in Writers : e \in Writes[v] \cap Writes[w] => v = w

(* CsrGraph::compact (csr.rs:307) relies on "disjoint from tombstones by   *)
(* DeltaLayer invariants": an edge is never inserted and tombstoned at     *)
(* once.  It holds of an edge with one writer (the discipline of the test  *)
(* concurrent_access), whatever the others do, and fails of a shared edge: *)
(* one inserts it between the two steps of another that deletes it.        *)
Disjoint == \A e \in Edges : Exclusive(e) => ~(e \in Inserted /\ e \in deletions)

(* No finished mutation leaves an edge without a trace: unless it was      *)
(* cleared or is being written again, the edge is still in one of the maps *)
(* or was handed to the caller of a drain after the mutation.  This is     *)
(* what "Drains all insertions for compaction" owes its caller while       *)
(* writers keep writing, and it needs the removal loop to remove the       *)
(* collected keys and no others.                                           *)
NoMutationVanishes ==
    \A e \in Edges :
        (latest[e] # NoData /\ \A w \in Writers : ~Pending(w, e))
            => \/ e \in Inserted \cup deletions
               \/ outIns[e] \cap Data # {}
               \/ e \in outDels
=============================================================================
