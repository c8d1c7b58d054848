------------------------------ MODULE Queries -------------------------------
(***************************************************************************)
(* The catalog entry of one graph name and the SQL queries on it (udtf.rs, *)
(* exec/graph_traversal.rs).  An entry holds the graph, a transpose that   *)
(* is built on first use, and the dictionary of a string-keyed graph.      *)
(* graph_traverse looks the name up three times - dictionary, graph,       *)
(* transpose -, graph_nodes, which a query joins to it, once more, and the *)
(* plan keeps what was found until it is executed.                         *)
(*                                                                         *)
(* A mutation of a delta is two steps, one per map, as in the code; so are *)
(* the two snapshots behind a transpose and the two reads behind the test  *)
(* for an empty delta.  A compaction has two steps, with all that writers  *)
(* and queries do in between (Compaction has its other steps).  Graphs are *)
(* sets of edges; multiplicity is the subject of CsrMerge.                 *)
(***************************************************************************)
EXTENDS NodeDictionary, FiniteSets

CONSTANTS
    Queriers,      \* the queries
    Writers,       \* the threads that write
    Pairs,         \* the edges that writers insert and delete
    Bases,         \* the edge sets that are registered without a table
    PairedBases,   \* those that are registered with their transpose
    Tables,        \* the string-keyed tables that are loaded
    Inputs,        \* calls: what each query asks for (key or NoKey, inward, capped,
                   \* joined); mutations: how many there are at most beside them
    NoKey,         \* an integer start node
    NoDictionary,  \* a graph that is not string-keyed
    MinDelta,      \* the delta size at which the policy compacts
    MaxEntries     \* bound on the entries created

ASSUME QueriesAssumption ==
    /\ Pairs \subseteq Nat \X Nat
    /\ Bases \cup PairedBases \subseteq SUBSET Pairs
    /\ \A edges \in Bases \cup PairedBases : IsFiniteSet(edges)
    /\ MinDelta \in Nat \ {0}
    /\ \A rows \in Tables : rows \in Seq(ToSet(rows))

VARIABLES
    graphs,      \* every graph that was built
    entries,     \* every entry that was created
    catalog,     \* the entry registered under the name, or None
    query,       \* what each query has found so far
    compaction,  \* the compaction at work: its entry and the merged edges
    op,          \* the mutation that each writer has begun
    mutations    \* the mutations that may still begin

vars == <<graphs, entries, catalog, query, compaction, op, mutations>>

None == 0
Idle == [entry |-> None, merged |-> {}]
NoOp == [kind |-> "none", graph |-> None, pair |-> <<0, 0>>]
NoWatch == [shown |-> {}, held |-> {}, busy |-> {}]
NewQuery(call) ==
    [at |-> IF call.key = NoKey THEN "get" ELSE "key", call |-> call, start |-> 0,
     keyed |-> None, got |-> None, looked |-> None, reverse |-> None, named |-> None,
     dels |-> {}, watched |-> NoWatch, sweeps |-> 0, kernel |-> "none", pair |-> <<{}, {}>>]

(***************************************************************************)
(* A graph.  Not in the code are keys, the dictionary its ids come from;   *)
(* rows, the table it was loaded from; sweeps, how often its delta was     *)
(* drained or cleared; and source: the graph that it is a transpose of,    *)
(* with the sweeps of that graph before the building of the transpose, and *)
(* what neighbors and has_edge answered of that graph meanwhile: the edges *)
(* shown at some moment, and those held at every moment.                   *)
(***************************************************************************)
Source(of, sweeps, shown, held) ==
    [of |-> of, sweeps |-> sweeps, shown |-> shown, held |-> held]
NoSource == Source(None, 0, {}, {})

Built(edges, keys, rows, source) ==
    [base |-> edges, ins |-> {}, dels |-> {}, keys |-> keys, rows |-> rows,
     source |-> source, sweeps |-> 0]

Shown(g) == (g.base \ g.dels) \cup g.ins
Held(g) == (g.base \cup g.ins) \ g.dels
DeltaEmpty(g) == g.ins = {} /\ g.dels = {}
Flip(edges) == {<<p[2], p[1]>> : p \in edges}
NodeCount(edges) ==
    IF edges = {} THEN 0 ELSE Max(UNION {{p[1], p[2]} : p \in edges}) + 1

\* What compact and transpose make of a base and of two reads of the delta:
\* an insertion over a base edge is skipped, even if the edge was dropped.
MergedEdges(base, dels, ins) == (base \ dels) \cup (ins \ base)

\* of: the registration that the entry goes back to (not in the code).
Entry(forward, reverse, dictionary, of) ==
    [forward |-> forward, reverse |-> reverse, dictionary |-> dictionary, of |-> of]

CanAdd == Len(entries) < MaxEntries
NewGraph == Len(graphs) + 1
NewEntry == Len(entries) + 1

(***************************************************************************)
(* Registration.                                                           *)
(***************************************************************************)
Insert(entry) ==
    /\ entries' = Append(entries, entry)
    /\ catalog' = NewEntry

Register(edges) ==
    /\ CanAdd
    /\ graphs' = Append(graphs, Built(edges, NoDictionary, <<>>, NoSource))
    /\ Insert(Entry(NewGraph, None, NoDictionary, NewEntry))
    /\ UNCHANGED <<query, compaction, op, mutations>>

\* The caller hands the transpose in, a true one (nothing checks it;
\* GraphTraversal has what a wrong one does).
RegisterWithReverse(edges) ==
    /\ CanAdd
    /\ graphs' = graphs \o <<Built(edges, NoDictionary, <<>>, NoSource),
                             Built(Flip(edges), NoDictionary, <<>>,
                                   Source(NewGraph, 0, edges, edges))>>
    /\ Insert(Entry(NewGraph, NewGraph + 1, NoDictionary, NewEntry))
    /\ UNCHANGED <<query, compaction, op, mutations>>

\* The loader encodes a table and registers the graph with the dictionary.
RegisterWithDictionary(rows) ==
    LET projected == Projected(rows)
    IN  /\ CanAdd
        /\ graphs' = Append(graphs,
              Built(ToSet(projected.edges), projected.dictionary, rows, NoSource))
        /\ Insert(Entry(NewGraph, None, projected.dictionary, NewEntry))
        /\ UNCHANGED <<query, compaction, op, mutations>>

Deregister ==
    /\ catalog # None
    /\ catalog' = None
    /\ UNCHANGED <<graphs, entries, query, compaction, op, mutations>>

(***************************************************************************)
(* What a query watches (not in the code): between its two reads of a      *)
(* delta, the edges shown and held, and those that writers are at.         *)
(***************************************************************************)
Busy(ops, f) == {ops[w].pair : w \in {v \in Writers : ops[v].graph = f /\ ops[v].kind # "clear"}}

Watch(g, busy) == [shown |-> Shown(g), held |-> Held(g), busy |-> busy]

Watching(q, f) ==
    \/ query[q].at = "walk" /\ entries[query[q].looked].forward = f
    \/ query[q].at = "probed" /\ entries[query[q].got].forward = f

\* Graph f becomes g, with the mutations of ops under way.
Watched(f, g, ops) ==
    [q \in Queriers |->
        IF ~Watching(q, f) THEN query[q]
        ELSE [query[q] EXCEPT !.watched =
                 [shown |-> @.shown \cup Shown(g), held |-> @.held \cap Held(g),
                  busy |-> @.busy \cup Busy(ops, f)]]]

Swept(g) == [g EXCEPT !.sweeps = @ + 1]

(***************************************************************************)
(* Writers hold any graph that was ever registered.  insert, delete and    *)
(* clear change one map after the other.                                   *)
(***************************************************************************)
\* Writer w makes g of graph f.
Written(w, f, g, next) ==
    LET ops == [op EXCEPT ![w] = next]
    IN  /\ op' = ops
        /\ graphs' = [graphs EXCEPT ![f] = g]
        /\ query' = Watched(f, g, ops)
        /\ UNCHANGED <<entries, catalog, compaction>>

\* The first half of an operation.
Begin(w, kind, f, p, g) ==
    /\ op[w] = NoOp
    /\ mutations > 0
    /\ mutations' = mutations - 1
    /\ Written(w, f, g, [kind |-> kind, graph |-> f, pair |-> p])

\* The second half.
Finish(w, kind, g) ==
    /\ op[w].kind = kind
    /\ Written(w, op[w].graph, g, NoOp)
    /\ UNCHANGED mutations

InsertRemoveTombstone(w, f, p) ==
    Begin(w, "insert", f, p, [graphs[f] EXCEPT !.dels = @ \ {p}])
InsertStore(w) ==
    Finish(w, "insert", [graphs[op[w].graph] EXCEPT !.ins = @ \cup {op[w].pair}])

DeleteRemoveInsertion(w, f, p) ==
    Begin(w, "delete", f, p, [graphs[f] EXCEPT !.ins = @ \ {p}])
DeleteAddTombstone(w) ==
    Finish(w, "delete", [graphs[op[w].graph] EXCEPT !.dels = @ \cup {op[w].pair}])

ClearInsertions(w, f) == Begin(w, "clear", f, NoOp.pair, Swept([graphs[f] EXCEPT !.ins = {}]))
ClearTombstones(w) == Finish(w, "clear", Swept([graphs[op[w].graph] EXCEPT !.dels = {}]))

(***************************************************************************)
(* compact_if_needed: drain and build, then replay and swap.               *)
(***************************************************************************)
Drained(f) == Swept([graphs[f] EXCEPT !.ins = {}, !.dels = {}])

CompactDrain ==
    LET e == catalog
        g == graphs[entries[e].forward]
    IN  /\ compaction = Idle
        /\ catalog # None
        /\ Cardinality(g.ins) + Cardinality(g.dels) >= MinDelta
        /\ compaction' = [entry |-> e, merged |-> MergedEdges(g.base, g.dels, g.ins)]
        /\ graphs' = [graphs EXCEPT ![entries[e].forward] = Drained(entries[e].forward)]
        /\ query' = Watched(entries[e].forward, Drained(entries[e].forward), op)
        /\ UNCHANGED <<entries, catalog, op, mutations>>

\* What reached the old delta since the drain moves to the new graph, the
\* insertions first.
Replayed(old, merged) ==
    [Built(merged, old.keys, <<>>, NoSource) EXCEPT
        !.ins = old.ins \ old.dels, !.dels = old.dels]

\* Mutant: the memoized transpose moves to the new entry.
SwapKeepsReverse ==
    LET e == compaction.entry
        old == graphs[entries[e].forward]
    IN  /\ compaction # Idle
        /\ CanAdd
        /\ graphs' = Append([graphs EXCEPT ![entries[e].forward] = Drained(entries[e].forward)],
                            Replayed(old, compaction.merged))
        /\ Insert(Entry(NewGraph, entries[e].reverse, entries[e].dictionary, entries[e].of))
        /\ compaction' = Idle
        /\ query' = Watched(entries[e].forward, Drained(entries[e].forward), op)
        /\ UNCHANGED <<op, mutations>>

\* Mutant: the dictionary is forgotten.
SwapDropsDictionary ==
    LET e == compaction.entry
        old == graphs[entries[e].forward]
    IN  /\ compaction # Idle
        /\ CanAdd
        /\ graphs' = Append([graphs EXCEPT ![entries[e].forward] = Drained(entries[e].forward)],
                            Replayed(old, compaction.merged))
        /\ Insert(Entry(NewGraph, None, NoDictionary, entries[e].of))
        /\ compaction' = Idle
        /\ query' = Watched(entries[e].forward, Drained(entries[e].forward), op)
        /\ UNCHANGED <<op, mutations>>

CompactSwap ==
    LET e == compaction.entry
        old == graphs[entries[e].forward]
    IN  /\ compaction # Idle
        /\ CanAdd
        /\ graphs' = Append([graphs EXCEPT ![entries[e].forward] = Drained(entries[e].forward)],
                            Replayed(old, compaction.merged))
        /\ Insert(Entry(NewGraph, None, entries[e].dictionary, entries[e].of))
        /\ compaction' = Idle
        /\ query' = Watched(entries[e].forward, Drained(entries[e].forward), op)
        /\ UNCHANGED <<op, mutations>>

(***************************************************************************)
(* graph_traverse: call, with its arguments parsed.                        *)
(***************************************************************************)
Step(q, from, to) ==
    /\ query[q].at = from
    /\ query' = [query EXCEPT ![q] = to]
    /\ UNCHANGED <<compaction, op, mutations, catalog>>

\* A query that joins graph_nodes goes on with its call.
Traversed(q) == IF query[q].call.joined THEN "nodes" ELSE "planned"

\* The string start node is resolved with the dictionary of the moment.
ResolveKey(q) ==
    LET key == query[q].call.key
        dictionary == entries[catalog].dictionary
        known == catalog # None /\ dictionary # NoDictionary /\ Knows(dictionary, key)
    IN  /\ Step(q, "key",
              IF known
              THEN [query[q] EXCEPT !.at = "get", !.start = IdOf(dictionary, key),
                        !.keyed = catalog]
              ELSE [query[q] EXCEPT !.at = "refused"])
        /\ UNCHANGED <<graphs, entries>>

GetGraph(q) ==
    /\ Step(q, "get", [query[q] EXCEPT !.got = catalog,
                           !.at = IF catalog = None THEN "refused" ELSE "reverse"])
    /\ UNCHANGED <<graphs, entries>>

\* An outgoing query takes the transpose if there is one, an incoming query
\* has to build it.
LookupReverse(q) ==
    LET missing == catalog = None \/ entries[catalog].reverse = None
    IN  /\ Step(q, "reverse",
              IF missing
              THEN [query[q] EXCEPT !.looked = catalog,
                        !.at = IF query[q].call.inward /\ catalog # None
                               THEN "build" ELSE Traversed(q)]
              ELSE [query[q] EXCEPT !.looked = catalog, !.at = Traversed(q),
                        !.reverse = entries[catalog].reverse])
        /\ UNCHANGED <<graphs, entries>>

\* transpose snapshots the tombstones, walks the base, and then snapshots the
\* insertions, without any lock.
SnapshotTombstones(q) ==
    LET f == entries[query[q].looked].forward
    IN  /\ Step(q, "build", [query[q] EXCEPT !.at = "walk", !.dels = graphs[f].dels,
              !.sweeps = graphs[f].sweeps, !.watched = Watch(graphs[f], Busy(op, f))])
        /\ UNCHANGED <<graphs, entries>>

\* (What it does with ids that do not fit is in CsrMerge and GraphTraversal:
\* the call returns the error.)
BuildTranspose(q) ==
    LET f == entries[query[q].looked].forward
        merged == MergedEdges(graphs[f].base, query[q].dels, graphs[f].ins)
        source == Source(f, query[q].sweeps, query[q].watched.shown, query[q].watched.held)
    IN  /\ Step(q, "walk", [query[q] EXCEPT !.at = "set", !.dels = {}, !.sweeps = 0,
              !.watched = NoWatch, !.reverse = NewGraph])
        /\ graphs' = Append(graphs, Built(Flip(merged), NoDictionary, <<>>, source))
        /\ UNCHANGED entries

\* Mutant: the query goes on with the copy that it built.
SetReverseOwn(q) ==
    LET e == query[q].looked
        kept == IF entries[e].reverse = None THEN query[q].reverse ELSE entries[e].reverse
    IN  /\ Step(q, "set", [query[q] EXCEPT !.at = Traversed(q)])
        /\ entries' = [entries EXCEPT ![e].reverse = kept]
        /\ UNCHANGED graphs

\* The first transpose is kept, and every query goes on with that one.
SetReverse(q) ==
    LET e == query[q].looked
        kept == IF entries[e].reverse = None THEN query[q].reverse ELSE entries[e].reverse
    IN  /\ Step(q, "set", [query[q] EXCEPT !.at = Traversed(q), !.reverse = kept])
        /\ entries' = [entries EXCEPT ![e].reverse = kept]
        /\ UNCHANGED graphs

\* graph_nodes: the dictionary of the moment, as a table.
GraphNodes(q) ==
    LET known == catalog # None /\ entries[catalog].dictionary # NoDictionary
    IN  /\ Step(q, "nodes", IF known THEN [query[q] EXCEPT !.at = "planned", !.named = catalog]
                            ELSE [query[q] EXCEPT !.at = "refused"])
        /\ UNCHANGED <<graphs, entries>>

(***************************************************************************)
(* GraphTraversalExec: execute.  The plan is executed some time later, on  *)
(* the graphs it holds.                                                    *)
(***************************************************************************)
\* validate_spec: an incoming search needs the transpose.
Invalid(q) == query[q].call.inward /\ query[q].reverse = None

SameShape(g, r) ==
    /\ NodeCount(g.base) = NodeCount(r.base)
    /\ Cardinality(g.base) = Cardinality(r.base)

Searched(q) == graphs[entries[query[q].got].forward]

\* The checks of bfs_direction_optimized begin with the counts.
Execute(q) ==
    /\ Step(q, "planned", [query[q] EXCEPT !.at = CASE Invalid(q) -> "refused"
          [] /\ query[q].reverse # None /\ ~query[q].call.capped
             /\ SameShape(Searched(q), graphs[query[q].reverse]) -> "probe"
          [] OTHER -> "plain"])
    /\ UNCHANGED <<graphs, entries>>

\* is_empty reads one map after the other.
ProbeInsertions(q) ==
    LET f == entries[query[q].got].forward
    IN  /\ Step(q, "probe", IF graphs[f].ins # {} THEN [query[q] EXCEPT !.at = "plain"]
              ELSE [query[q] EXCEPT !.at = "probed", !.watched = Watch(graphs[f], Busy(op, f))])
        /\ UNCHANGED <<graphs, entries>>

Optimized(q) ==
    [query[q] EXCEPT !.at = "done", !.sweeps = Searched(q).sweeps, !.kernel = "optimized",
        !.pair = <<Searched(q).base, graphs[query[q].reverse].base>>]

\* Mutant: the tombstones are not looked at.
ProbeNoTombstones(q) ==
    /\ Step(q, "probed", Optimized(q))
    /\ UNCHANGED <<graphs, entries>>

ProbeTombstones(q) ==
    LET none == Searched(q).dels = {} /\ DeltaEmpty(graphs[query[q].reverse])
    IN  /\ Step(q, "probed", IF none THEN Optimized(q)
                             ELSE [query[q] EXCEPT !.at = "plain", !.watched = NoWatch])
        /\ UNCHANGED <<graphs, entries>>

SearchPlain(q) ==
    /\ Step(q, "plain", [query[q] EXCEPT !.at = "done", !.kernel = "plain"])
    /\ UNCHANGED <<graphs, entries>>

-----------------------------------------------------------------------------
Init ==
    /\ graphs = <<>>
    /\ entries = <<>>
    /\ catalog = None
    /\ \E input \in Inputs :
          /\ query = [q \in Queriers |-> NewQuery(input.calls[q])]
          /\ mutations = input.mutations
    /\ compaction = Idle
    /\ op = [w \in Writers |-> NoOp]

Catalog ==
    \/ \E edges \in Bases : Register(edges)
    \/ \E edges \in PairedBases : RegisterWithReverse(edges)
    \/ \E rows \in Tables : RegisterWithDictionary(rows)
    \/ Deregister
    \/ CompactDrain
    \/ CompactSwap

Write(w) ==
    \/ \E e \in DOMAIN entries :
          LET f == entries[e].forward
          IN  \/ \E p \in Pairs : InsertRemoveTombstone(w, f, p) \/ DeleteRemoveInsertion(w, f, p)
              \/ ClearInsertions(w, f)
    \/ InsertStore(w)
    \/ DeleteAddTombstone(w)
    \/ ClearTombstones(w)

Query(q) ==
    \/ ResolveKey(q)
    \/ GetGraph(q)
    \/ LookupReverse(q)
    \/ SnapshotTombstones(q)
    \/ BuildTranspose(q)
    \/ SetReverse(q)
    \/ GraphNodes(q)
    \/ Execute(q)
    \/ ProbeInsertions(q)
    \/ ProbeTombstones(q)
    \/ SearchPlain(q)

Next ==
    \/ Catalog
    \/ \E w \in Writers : Write(w)
    \/ \E q \in Queriers : Query(q)

Spec == Init /\ [][Next]_vars

-----------------------------------------------------------------------------
Planned(q) == query[q].at \in {"planned", "probe", "probed", "plain", "done"}

(* A transpose that the catalog hands out was built from the graph of its  *)
(* own entry, also after compactions ("which resets the memoized           *)
(* transpose", udtf.rs:170-172), and edge by edge it is a reversal of that *)
(* graph while it was built: no edge is in it that neighbors did not show  *)
(* at one moment, none is missing that has_edge confirmed at every moment. *)
(* Of two edges it may be the reversal at two moments (csr.rs:352, 380).   *)
TransposeWasTrue ==
    \A e \in DOMAIN entries : entries[e].reverse # None =>
        LET r == graphs[entries[e].reverse]
        IN  /\ r.source.of = entries[e].forward
            /\ r.base \subseteq Flip(r.source.shown)
            /\ Flip(r.source.held) \subseteq r.base

(* All queries that asked one entry for its transpose traverse the same    *)
(* one, although each may have built its own (udtf.rs:188-197).            *)
OneTranspose ==
    \A q, r \in Queriers :
        (/\ Planned(q) /\ Planned(r)
         /\ query[q].looked = query[r].looked
         /\ query[q].reverse # None /\ query[r].reverse # None)
        => query[q].reverse = query[r].reverse

(* When the direction-optimizing search really runs, its two graphs are    *)
(* transposes of each other, whatever was written since the transpose was  *)
(* built, and also if the delta is found empty between the two halves of a *)
(* mutation.  Excepted are the queries that met a swap or a registration   *)
(* between their lookups, those whose graph was drained or cleared since   *)
(* the building of the transpose began, and those during whose test of the *)
(* delta writers were at two edges or more: there only the counts are      *)
(* compared (dobfs.rs:62-98).                                              *)
PairIsCoherent ==
    \A q \in Queriers : query[q].kernel = "optimized" =>
        \/ query[q].pair[2] = Flip(query[q].pair[1])
        \/ query[q].got # query[q].looked
        \/ query[q].sweeps # graphs[query[q].reverse].source.sweeps
        \/ \E p, o \in query[q].watched.busy : p # o

(* Ids keep their keys: an entry's dictionary is the one its graph was     *)
(* encoded with, through every compaction and swap; a string start node is *)
(* that key in the graph that is searched, and joining graph_nodes gives   *)
(* every node of that graph its key, unless the name was registered anew   *)
(* between the lookups (udtf.rs:237-242, 312-320).                         *)
KeysKeepTheirMeaning ==
    /\ \A e \in DOMAIN entries :
          entries[e].dictionary = graphs[entries[e].forward].keys
    /\ \A q \in Queriers : Planned(q) =>
          LET searched == entries[query[q].got]
              Same(e) == e # None /\ entries[e].of = searched.of
          IN  /\ Same(query[q].keyed) =>
                    KeyOf(graphs[searched.forward].keys, query[q].start) = query[q].call.key
              /\ Same(query[q].named) => \A id \in 0..(NodeCount(graphs[searched.forward].base) - 1) :
                    <<id, KeyOf(graphs[searched.forward].keys, id)>>
                        \in ToBatch(entries[query[q].named].dictionary)

(* A loaded graph decodes to the rows of its table that have no null end,  *)
(* and to nothing else (dictionary.rs:17, "Bidirectional mapping").        *)
LoadedIsTheTable ==
    \A e \in DOMAIN entries :
        LET g == graphs[entries[e].forward]
        IN  g.rows # <<>> =>
               {<<KeyOf(g.keys, p[1]), KeyOf(g.keys, p[2])>> : p \in g.base}
                   = {<<r.from, r.to>> : r \in {x \in ToSet(g.rows) : Null \notin {x.from, x.to}}}
               /\ IsInjective(g.keys)
=============================================================================
