# FusionGraph in TLA+

FusionGraph keeps graphs in compressed sparse rows (CSR) beside a small mutable
delta layer, and answers traversals over both from SQL. This directory models the
parts of it that carry state or an algorithm worth checking. TLC checks the models
on small instances; TLAPS proves theorems about most of them for every instance.

## The system

| Component | State | Operations | What is hard | What makes it correct |
|---|---|---|---|---|
| Delta layer (`delta.rs`) | a concurrent map of insertions, a concurrent set of tombstones | insert, delete, clear, two drains, reads | every operation is several map operations; drains run beside writers | the maps are disjoint; no finished mutation disappears; a read is true of some moment |
| CSR base and builder (`csr.rs`, `csr/*.rs`) | immutable shards of row pointers, columns, weights | builder calls, build, lookups, compact, transpose | boundaries of shards and of u32, order and weights through sort and merge | every edge is found where it was put; compact and transpose keep the topology |
| Graph catalog (`udtf.rs`) | a map from names to entries (graph, memoized transpose, dictionary) | register (three ways), deregister, get, reverse, compact_if_needed | no lock is held from lookup to swap; writers and queries hold graphs by `Arc` | writes survive a compaction; a query works on one graph |
| BFS (`traversal/bfs.rs`) | queue, tracker (words and an overflow set), result | bfs_bounded | the graph changes during the search; two limits; repeated neighbors in a batch | reported depths are justified; reachable nodes are reported |
| Visited filter (`traversal/simd.rs`) | none | filter_unvisited_into of four backends | chunks, lanes, remainders, indices beyond the words | every backend computes what the scalar one does |
| Direction-optimizing BFS (`traversal/dobfs.rs`) | bitsets, levels, edge estimate | bfs_direction_optimized | two ways to expand a level, padding bits | the levels are those of a BFS |
| Circuit breaker (`circuit_breaker.rs`) | four atomics | check, record_success, record_failure, reset | every call is several atomic accesses | never stuck beside a threshold; open is left |
| CSR builder operator (`exec/csr_builder.rs`) | edge and weight buffers, a sink | execute, poll_next | polling, waking, a memory limit, errors midway | the graph is the input; the stream ends |
| Ontology (`fusiongraph-ontology`) | definitions | validate, parse_file | which checks guard which later step | labels are unique and defined where they are used |
| Ontology loader (`loader.rs`), dictionary (`dictionary.rs`) | one graph at a time, key ids | register_ontology_graphs(_as_of) | a failure midway, overlapping loads, tables that change, string keys | a graph is one version of its table; a load that stops leaves a prefix |
| Table provider (`provider.rs`) | graph, batches, a flag | materialize, scan, create_traversal_plan | a failure or a dropped future midway | graph and batches change together |
| Table functions (`udtf.rs`, `exec/graph_traversal.rs`) | a plan holding graphs | call, scan, execute | several lookups of one name; optional arguments; the choice of the kernel | forward, reverse and dictionary belong together; the rows are the answer of the call |

Writers and queries get a graph from the catalog and keep it by `Arc`; writers mutate its
delta directly. `compact_if_needed` drains that delta, builds a new base, replays what
reached the old delta meanwhile and swaps the entry. A traversal planned by
`graph_traverse` keeps the graph (and its transpose) it found at planning time. Graphs come
into the catalog from callers, and from the loader, which reads an ontology and the tables of a
session and builds numeric graphs with the builder operator, keyed ones with a dictionary; a
table provider keeps a graph of its own.

## The modules and the code

| Module | Models | State and actions |
|---|---|---|
| `DeltaLayer` | `delta.rs` | `insertions` and `deletions` are the two concurrent maps; `op[w]` and `sweep[s]` are the program counters of threads inside `insert`/`delete` and inside `drain_insertions`/`drain_deletions`/`clear`. One action per operation on one map. `latest`, `outIns`, `outDels` are history. |
| `EdgeReads` | `delta.rs`, the reads of `csr.rs` | extends `DeltaLayer`: `has_edge`, `neighbors` and the test of the empty delta, one map read per action. `answers[r]` collects what was true during the query. |
| `EdgeReadsProofs`, `CompactionProofs`, `BfsProofs`, `QueriesProofs`, `OntologyLoadProofs`, `CsrProofs`, `GraphTraversalProofs`, `CircuitBreakerProofs` | | the theorems about the module in their name, with their inductive invariants and lemmas; `EdgeReadsProofs` also those about `DeltaLayer`, `BfsProofs` those about `VisitedFilter`, `CsrProofs` those about `CsrBuild` and `BuildStream`, which both call the build of `Csr`. |
| `Compaction` | `compact_if_needed` of `udtf.rs`, `compact` of `csr.rs` | graphs have numbers (the `Arc`s); `current` is the catalog's entry, `handle[w]` the `Arc` a writer holds, `comp[c]` a call of `compact_if_needed`. Each drain is two actions, collecting and removing. `truth` and `excuse` are history: what the last finished mutation of an edge did, and what happened to it that the code does not guard against. |
| `Csr` | `builder.rs`, `shard.rs`, the lookups of `csr.rs` | pure: the sort, the arrays, the partition into shards, the binary search and the lookups. |
| `CsrBuild` | the builder's calls | `with_shard_size`, `with_edges`, `with_weighted_edges`, `build`; the graph built is an ordinary value of `Csr`. `added` is history: the edges as the caller gave them. |
| `CsrMerge` | `compact` and `transpose` of `csr.rs` | extends `CsrBuild`: the graph that was built, with a delta, used by one thread; the arrays are those of `Csr`. |
| `Keeping` | | pure: the elements of a sequence that are in a set, as a recursive function. The filters of nodes, rows and warnings are this one. |
| `VisitedFilter` | `traversal/simd.rs`, the tracker of `bfs.rs` | pure: words are sets of bits; the scalar filter and the vector kernels by chunks, lanes, masks and remainder; the choice of the backend. |
| `Bfs` | `traversal/bfs.rs` | one search, popping one node per step, with the filter of its machine, while other threads change the delta. |
| `DoBfs` | `traversal/dobfs.rs` | the kernel of one search, one level per step, both ways to expand a level on words of bits. |
| `GraphTraversal` | `graph_traverse` of `udtf.rs`, `exec/graph_traversal.rs` | extends `DoBfs`: `step` goes from `Call`, which parses `args` and memoizes the transpose, through `Scan` and `Execute` to the kernel's levels and the rows; or a program makes the plan itself. |
| `Ontology` | `schema.rs`, `validation.rs`, `parser.rs` | pure: definitions, lookups, `Validate`, `ParseFile`, and what the loader reads of an ontology. The errors of `Validate` are a set; each carries its place in the list of the code, so that the first one is known. |
| `OntologyLoad` | `loader.rs`, `provider.rs` | `load[l]` is a call of `register_ontology_graphs_as_of`, one step per table read and one per registration; `work` is the call of `materialize`, `provider` what the provider shows; `tables` and `published` are the session's tables with all their versions. Futures may be dropped where they wait. |
| `BuildStream` | `exec/csr_builder.rs`, `build_edge_graph` of `loader.rs` | streams of one plan that share its sink. `PollNext` is one call of `poll_next`; `woken` and `waiting` are the two places a waker may be. The build is that of `Csr`. |
| `NodeDictionary` | `dictionary.rs`, the key encoding of `loader.rs` | pure: a dictionary is the sequence of its keys. |
| `Queries` | the catalog, `graph_traverse` and `graph_nodes` of `udtf.rs`, `exec/graph_traversal.rs` | `entries` and `graphs` are the heap, `catalog` the entry of the name, `query[q]` a call: its lookups of dictionary, graph and transpose, the two snapshots a transpose is built from, the lookup of the `graph_nodes` it joins, the execution of its plan and the two reads that find a delta empty are separate steps. `op[w]` is a writer inside `insert`, `delete` or `clear`, one step per map. History are the number of sweeps (drains and clears) of a graph, what a transpose was built from (`source`), and what was shown, held and under mutation between the two reads of a query (`watched`). Writers write to graphs that were registered, not to transposes, of which a search refuses one with a delta. |
| `CircuitBreaker` | `circuit_breaker.rs` | the four atomics, one action per access; time is the age of the last failure, which shrinks when the wall clock is set back. |
| `AtomicBreaker` | the same, as documented | the abstract breaker: every call is one step. |
| `CircuitBreakerHistory` | | `CircuitBreaker` with the history that maps it to `AtomicBreaker`. |

`MCEdgeReads`, `MCCompaction`, `MCBfs`, `MCGraphTraversal`, `MCBuildStream`, `MCQueries` and
`MCOntologyLoad` only give inputs to the module in their name.

Three components are modelled at two grains. `Compaction` takes `compact_if_needed` apart
and has only sets of edges; `CsrMerge` takes its merge apart and has weights, copies and
shards; `Queries` takes the effect of a compaction on transposes and dictionaries
and has two steps for it, draining and swapping, but takes the operations of writers apart. A query's lookups are taken apart in
`Queries`, where a search is a test, a choice of kernel and a pair of graphs; `GraphTraversal` has one
call on a catalog that stands still and computes its rows.

## The runs

| Run | Question | Bounds |
|---|---|---|
| `EdgeReads` | Are the maps disjoint, are mutations kept through drains, is every read true of some moment? | Two writers, an edge of one and an edge of both, a sweeper, a reader. Every property is about one edge, and needs at most its two writers, one sweep and one read. |
| `Compaction` | What does a writer keep when its name is compacted, registered again or deregistered? Do `has_edge` and `neighbors` agree? | One writer, two compactors, an ordinary edge and one the CSR cannot hold, 3 graphs, 1 further registration, 3 mutations (4 were tried too). Two compactions that overlap need three graphs; a mutation before, during and after one needs three mutations. |
| `CompactionLate` | Does every write during a compaction survive? **No** (see below). | One writer, one compactor, one edge. |
| `Csr` | Is every edge found where it was put, in every sharding, and is exactly what fits in u32 accepted? Do `compact` and `transpose` keep topology, weights and nodes? | `U32Max` is 3, so that ids, counts and shards at and beyond it occur; shard sizes 1, 12, 20 and 32 bytes cut before, at and after a node; up to 4 plain or 3 weighted edges. Graphs of up to two edges between nodes 0 and 3, with and without weights, are used further, with any three calls: an insertion, a deletion and the compaction that merges both. |
| `Bfs` | Is the result justified and complete although the delta changes? Do all backends filter alike? | 3 base nodes in words of 2 bits, so that there is a second, half-used word; one node only the delta names; 12 bases whose slices leave a chunk empty, full or with a remainder and repeat nodes (chunks of 4, and of 2 for NEON); 2 mutations at any step, depths 0 and 2, caps that bind and do not. The search runs with AVX2; `BackendsAgree` compares all of them in every state of a search, on every slice and with fewer words than the slice needs. |
| `GraphTraversal` | Are the rows the answer of the call, whichever kernel is chosen? Are the kernel's levels those of a BFS? | All 4096 loop-free graphs of 4 nodes with their transposes, in words of 3 bits; about 140 argument lists, 4 scans and 70 plans on graphs with and without a delta, with a delta that names an id no base holds, and with a transpose that is absent, true, stale (mutated since, or drained) or another graph, of the same counts too. `U32Max` is 12, above every number of edges. `Alpha` is 2 and `Beta` 4, so that both switches of direction happen at this size. |
| `OntologyLoad` | Is every graph one version of its table? What is left by a load that stops, or by one that overlaps another? Does the provider change at once? | Two loads of 10 calls (TOML, JSON and unknown files, unreadable ones, every validation error, a snapshot in time), or two materializations: they share only the tables, so no behaviour needs both. Two tables with two contents each, two changes; an overlap that goes back to older data needs one change and two loads. |
| `BuildStream` | Is the published graph the input; does every stream end, with an error exactly when it should? | Two streams, two batches each, limits of 32 and 31 bytes around two edges, `U32Max` 3. |
| `Queries` | Do transposes, dictionaries and graphs that a query uses belong together, also after a join with `graph_nodes`? What is a transpose the transpose of, and when do two graphs that are searched together fit? | Two inputs of one run. Two queries beside one mutation, all three registrations, two entries at most. Or, with `Never`, one query beside two writers and four mutations of an edge and its reversal, two of them with a second entry: two may be half done while the transpose is built and two more while the delta is tested. There `Bounded` leaves out what the first input has (tables, transposes of the caller) and what follows the end of the query: nothing changes what it holds then, nor builds another transpose. |
| `Breaker` | Do counters and state agree at rest; is an open circuit left? | Two threads, thresholds 2, timeout 2, a clock set back by up to 2 ticks at any time. Counters saturate at their threshold, ages at timeout plus 2: the code only compares them with threshold and timeout. |
| `BreakerSequential` | Do the accesses of one thread add up to whole calls? | One thread, a clock set back once; `InstantCalls` lets time pass between calls only. |
| `BreakerErased` | Can a recorded success be erased? **Yes** (see below). | Two threads. |

`CHECK_DEADLOCK FALSE` stands where the model really stops: one search, one builder or one
stream ends, or a bound on mutations, graphs or calls is reached.

### Fairness

`Breaker`: time passes (`WF` of `Tick`; the clock is set back finitely often), a call that began runs on (`WF` of `Continue`), and a
caller that is refused asks again, although other calls may come in between (`SF` of
`CheckLoadState`; the refusal is a retryable error). Nothing is assumed of the calls that
report failures: they may go on for ever.

`BuildStream`: a task that was woken is polled again, which is what an executor owes a
future, and the input yields its next item or ends. A task that sleeps is *not* polled, so
`StreamsEnd` fails if `poll_next` returns `Pending` without waking its task.

## What the code does not promise

Two statements of the sources do not hold as they are written:

- *"writers racing a compaction lose no data"* (`udtf.rs:204-206`). A mutation that lands in
  the old delta after the replay has drained that map and before the swap is lost
  (`CompactionLate`).
- *"concurrent checks cannot erase successes that have already been recorded"*
  (`circuit_breaker.rs:125-127`). The thread that wins the exchange stores 0 in a second
  step, and a success may have been counted in between (`BreakerErased`). The breaker then
  needs one more success; `CountersAgreeAtRest` shows that it is never stuck.

The other properties say exactly how far they go. Their exceptions are behaviours of the
code that the models show:

- Delta layer: two writers of one edge can leave it both inserted and tombstoned (`Disjoint`
  is about edges with one writer), after which `has_edge` and `neighbors` disagree about it.
  A payload stored between the two loops of a drain over a key that was collected is
  dropped; the edge itself is not.
- Compaction (`excuse`): a mutation through an `Arc` that was replaced already is not seen;
  a base edge re-inserted between the drain of the tombstones and that of the insertions
  is removed from the base and not added; a compaction whose build fails has drained the
  delta; two compactions that overlap and both swap may drop what was written before the second swap. From the drain to
  the swap the registered graph shows deleted base edges again. A swap puts back a name that was
  deregistered, or registered anew, meanwhile: the guarantee is about the
  entry that descends from the last registration.
- Builder: plain and weighted edges in one builder are paired by position, and the surplus is
  dropped (`Mixed`), which may leave a node without an edge that no transpose has. The shard id is
  advanced behind the last shard as well, so that a graph with every id of u32 as a node and each
  node in a shard of its own is refused, one shard before the ids really run out (`RefusedOrComplete`).
- Compaction and weights: the doc of `compact` says that weights of delta insertions "are carried over"
  (`csr.rs:262-264`). It asks the base whether there are weights (`csr.rs:275`); if the base has none, weighted
  insertions lose theirs, so a graph that grew from an empty one never has any. An insertion over a
  base edge does not change its weight either. `CompactKeepsWeights` says all of this.
- Queries, the transpose: `transpose` snapshots the tombstones, walks the base and then snapshots the
  insertions (`csr.rs:352`, `:380`). Of two edges it may show two moments, for example a graph
  with an edge that was deleted in between and one that was inserted after that, which no caller
  ever saw together. `TransposeWasTrue` therefore speaks edge by edge: none is in the transpose that
  `neighbors` showed at no moment, none is missing that `has_edge` confirmed at all of them.
- Queries, the pair: only the counts of the two graphs are compared. The direction-optimizing search
  runs on graphs that are no transposes of each other in three cases (`PairIsCoherent`). The
  lookups of graph and transpose met different entries. Or the delta was drained by a
  compaction, or cleared, since the building of the transpose began. Or, while the two reads of
  `is_empty` ran, writers were at two edges or more: `insert` and `delete` take an edge out of one map
  before they put it into the other, so that two halves may leave the delta empty, one of an edge that
  the transpose has too many and one of an edge that it lacks. One edge alone always shows in the counts.
- Queries, the caller: `register_with_reverse` takes any graph as the transpose. In `Queries` it is a
  true one; in `GraphTraversal` it is any.
- Traversals: a wrong transpose of other counts is noticed and the plain search runs; one of the
  same counts is not, and an uncapped search from one start then answers by it (`Misled` in
  `CallIsAnswered`): it may come from `register_with_reverse` or be left by a drain. An incoming call is
  refused if the transpose it has to build does not fit in u32, since a delta takes ids that no base
  holds. Only plans without a cap and with one start use the optimized kernel. A start
  node that only the delta names gives an empty answer, and an incoming answer is as old as the
  memoized transpose. `max_hops` beyond u32 is refused after the transpose was built and kept.
  Nodes inserted beyond a dictionary have no row in `graph_nodes`.
- Loader: a load that fails or is dropped has registered the graphs of the edges before; of two
  loads that overlap, the later registration stays, with the data it had read.
  `extract_numeric` gives keys with the same digits one id: it strips everything that is no digit, while
  `docs/FusionGraph_Ontology_Schema.md:101` gives the regular expression `(\d+)`, which would take the first run of
  digits; the model does what the code does. `weight_default`,
  `skip_null_targets`, `allow_self_loops`, `edge_direction` and the filter of a node are parsed and not read.
- Provider: `id_transform`, weights and validity are not looked at, and the tables of one
  materialization are read one after the other.
- Comments about backends: `simd.rs:11` says that avx512 delegates to the scalar code, the code
  calls the AVX2 kernel; both compute the same (`BackendsAgree`).
- Builder operator: a second execution of a plan leaves the first graph in the sink, even if its
  input was different: the sink is a `OnceLock`, and `PublishedIsTheInput` speaks of the execution that set it.
- Breaker with several threads: it may close with fewer successes than the threshold asks,
  overrule a failed probe, open with fewer failures, or probe before the
  timeout. Only `CountersAgreeAtRest` and `OpenIsLeft` hold of several threads;
  `ImplementsDocumented` holds of one.

## The proofs

Every theorem is about all values of the constants that satisfy the assumption which the
model declares; TLC checks these assumptions on every run. Each theorem comes from an invariant
that every action keeps; TLC checked the invariants of `CompactionProofs`, `BfsProofs`,
`QueriesProofs`, `OntologyLoadProofs` and `GraphTraversalProofs` on instances of their runs, those of `QueriesProofs` with fewer queries
and mutations.

| Theorem | States | Holds for |
|---|---|---|
| `EdgeReadsProofs!TypeCorrect`, `DisjointMaps`, `MutationsSurvive` | `TypeOK`, `Disjoint`, `NoMutationVanishes` | any writers, sweepers, edges, payloads and assignment of edges to writers |
| `EdgeReadsProofs!AnswersJustified` | `AnswersAreJustified` | the same, any readers and base |
| `CompactionProofs!TypeCorrect`, `LookupsAlwaysAgree`, `UnexcusedWritesAlwaysSurvive` | `TypeOK`, `LookupsAgree`, `UnexcusedWritesSurvive` | finitely many edges and compactions, any writers (one per edge), any thresholds and bounds |
| `BfsProofs!BackendsAlwaysAgree`, `ResultsAreConsistent`, `DepthsAreAlwaysJustified`, `StableReachIsAlwaysReported` | `BackendsAgree`, `ResultIsConsistent`, `DepthsAreJustified`, `StableReachIsReported` | any finite base, starts, limits and machine, any number of mutations, any width of a word, any even number of lanes |
| `QueriesProofs!TransposesWereTrue`, `TransposeIsUnique`, `OptimizedPairsAreCoherent`, `LoadedGraphsAreTheirTables` | `TransposeWasTrue`, `OneTranspose`, `PairIsCoherent`, `LoadedIsTheTable` | any queries, writers, graphs, tables and mutations |
| `QueriesProofs!KeysAlwaysKeepTheirMeaning`, `StartsAlwaysKeepTheirKeys` | `KeysKeepTheirMeaning`; without the hypothesis, its two parts that need no `graph_nodes` | writers that insert no node which the dictionary does not have; nothing for the second |
| `OntologyLoadProofs!LoadsArePrefixes`, `NewerDataAlwaysStays`, `ProviderAlwaysChangesAtOnce` | `LoadIsAPrefix`, and the action properties `NewerDataStays`, `ProviderChangesAtOnce` | any files, ontologies, tables and loads |
| `OntologyLoadProofs!LoadsAreSnapshots`, `ProviderIsAlwaysCoherent` | `LoadedIsASnapshot`, `ProviderIsCoherent` | the same, any rows, transforms, instants and limits |
| `CsrProofs!AdjacencyIsAsAdded`, `LookupsAreInverse`, `ShardsAlwaysFit`, `BuildIsRefusedOrComplete` | `AdjacencyAsAdded`, `LookupsInvert`, `ShardsFit`, `RefusedOrComplete` | any builder calls, ids, weights and shard sizes, any `U32Max` above 0 |
| `CsrProofs!EveryStreamAnswersOnce`, `TheGraphIsTheInput` | `OneAnswer`, `PublishedIsTheInput` | any streams, batches and plans, the same `U32Max` |
| `GraphTraversalProofs!LevelsAlwaysAreDistances`, `EstimateIsAlwaysExact`, `CallsAreAnswered` | `LevelsAreDistances`, `EstimateIsExact`, `CallIsAnswered` | any finite graphs, any graph as the transpose, any argument lists and plans, any width of a word, `Alpha` and `Beta` |
| `CircuitBreakerProofs!TypeCorrect`, `CountersAgree` | `TypeOK`, `CountersAgreeAtRest` | any threads, thresholds, timeout and settings of the clock |
| `CircuitBreakerProofs!OneCallerSeesWholeCalls` | `ImplementsDocumented` | one thread whose calls are shorter than a tick, any thresholds and timeout |

The invariants, and why the property alone is not enough:

- **Delta layer.** `TypeOK` is inductive as it stands, given that `NoData` and `Deleted` are no
  payloads. `Disjoint` is not: the second half of an insertion adds its edge whatever the
  tombstones are. `PendingInv` is the missing half: a mutation that is half done has taken
  its edge out of the opposite map, and nobody else puts an edge with one writer back. The lemma
  `SweepOnlyRemoves` settles all steps of drains and clears at once. `NoMutationVanishes` rests on
  `CollectedInv`: what a drain of the insertions has still to remove was collected with a
  payload, so that a removal always leaves the edge in a result.
- **Reads.** `KnowledgeInv` says what each program point of a read has found out: that an edge
  was visible at some moment, or was not, given what the reads before have returned. The lemma
  `ReadersOnlyRead` gives all theorems about `DeltaLayer` to `EdgeReads`.
- **Compaction.** `RoomInv` keeps the numbers of the graphs in their bound. `LookupsAgree` needs
  `DisjointInv` for *every* graph, which needs `PrivateInv`: until the swap the new graph is known to
  its compaction alone, and its maps are empty until the replay fills them. For
  `UnexcusedWritesSurvive` the invariant looks ahead: an edge is as it was
  written in the registered graph *and* in what each compaction of that graph would deliver if it
  ran to its end now (`Delivers`, one disjunct per phase), or the merge is going to meet it twice
  (`WillCollide`), or another compaction whose end will excuse it has already taken it (`Holds`).
- **Plain search.** The results are properties of the order of admission, the popped nodes followed by
  the queue. `Sound` says of it, also between two admissions of one step, that no node occurs twice and exactly its
  nodes are marked, that depths do not fall, and that each node that is no start was entered over
  an edge from a popped one a step nearer. For completeness every expanded node must have admitted its stable
  successors at most one step deeper (`Complete`). That needs `TwoDepths`: if the queue could
  hold nodes of three depths, a marked successor might have been admitted too deep. `HistoryIsTrue`
  justifies the probe: a search that met an empty delta may go on with base slices, since what was shown
  ever since is in the base. `LevelsAreVisited` has the levels name the popped nodes.
  `FiltersAgree` takes the kernels apart by chunks, halves and remainder; `AdmitAllKeeps` goes along a batch
  that may repeat a node. The lemmas on induction are repeated in the other modules that need
  them: a module cannot extend two specifications that share names.
- **Queries.** `Walks` follows a query from its snapshot of the tombstones to that of the insertions:
  the base without those tombstones, and the insertions of every moment, have been shown, and
  what has been held all along is in both. So the transpose lies between the two (`Reversal`), which
  is `TransposeWasTrue`. `PairIsCoherent` is not inductive, and the counts alone prove nothing. What
  closes the argument is where graph and transpose may differ (`Differences`): only on edges that the
  delta has, or that a writer has taken out of one map and not yet put into the other (`Touched`).
  A mutation never shrinks that set, only drains and clears do, and these the property counts. When the two
  reads have found both maps empty, all differences are edges that writers were at in between (`Probes`).
  If that was at most one edge, two bases of the same size cannot differ in it, and are transposes of
  each other.
  That a start node keeps its key rests on `KeyInv`: the entries that compactions make of one
  registration share its dictionary, and a start node is its key in the dictionary it was resolved with.
  `LoadedIsTheTable` is about the encoding, which `TablesInv` carries through compactions: interning adds
  a key only if it is new and moves none (`InternsKey`), so after the last row each id still decodes to the
  key it was given (`TablesDecode`). `IdsInv` says that graphs of one registration name ids of its dictionary
  only. It needs the hypothesis `WritersKeepToTheIds`: `insert_edge` takes any two nodes, and
  one that the dictionary does not know has no row in `graph_nodes`.
- **Loads.** `GoodLoad` says that the names registered are those of the edges before `next`, and that
  a scan met no version older than the beginning of the load; `CatalogInv` traces every
  graph to an edge its load is past. That no edge replaces another's graph is the lemma
  `ValidNames`: validation refuses a label that occurs twice, and a graph name determines the label.
  The ontologies are those a file holds (`ParsedOntology`). `WorkInv` says the same of the
  batches of a materialization. For `LoadedIsASnapshot` the invariant looks into a load: what it has
  scanned and will register is a version of its table (`ScannedInv`), and versions are never changed, only
  followed by others (`Grows`). What is left is a lemma about the two ways to build (`GraphIsSnapshot`):
  filtering, casting and numbering the rows gives the edges of `Wanted`, in the order of the table.
  `MaterializedInv` says that a materialization holds the rows of the edges before `next` and their
  concatenation as edges; the rows of one label are found again because
  validation made the labels distinct.
- **Build.** `BuildIsRight` is one lemma about `Build`, used for the builder and for the stream. When shards run
  out is counted: a partition has as many shards as nodes exactly if no two nodes share one (`CutsCount`), and
  only then, with all ids as nodes, are there more than u32 counts (`ShardCount`). `SortedBySource` keeps
  the edges of each node, and those of the nodes before it come first, so that a row
  pointer counts them; a slot is the place of its edge in the sorted list, so that `Columns` is that
  list (`EdgesFrom` is a slice of it). The partition is a sequence of cuts that rises from 0 to the
  number of nodes (`IsCut`); each node is in one shard (`NodeHasShard`), which the binary search finds, and its
  row pointers in the shard are those of the whole less an offset (`RowInShard`). `IsGraphOf` says of a
  graph all that follows. The builder's own invariant is `HoldsAdded`: the weights are those of all
  edges exactly as long as their numbers agree.
- **Streams.** `InputInv`: nothing comes after an error or the end of an input, so a
  stream that meets the end has taken all. `OutputInv`: a stream has yielded one item exactly when it is
  finished, and one that is no error only after the sink was set, by itself or another. What the item
  is rests on a second invariant, `DataInv`: the buffer of a stream that has not answered is the
  rows of the batches it has taken and within the limit (`Ready`), and a stream has answered with an error
  exactly if its input is bad (`Answered`), which no later batch changes (`BadStays`).
- **Searches.** `LevelInv` says that the frontier is disjoint from the `Past` levels, whose edges
  have been counted, and `DistanceInv` that all of them are distance classes if the reverse graph
  is the transpose. Two lemmas carry it. `ZerosAreUnvisited`: the scan over the zeros of the words
  finds all unvisited nodes, and no padding bits. `BothWaysFindTheSame`: given the transpose, it finds
  what the top-down expansion finds. What the recursive function in `Reach` computes is `ReachUnfolds`. The
  library's induction theorems have an operator as parameter, so it goes by induction over a
  *set* of numbers (`SetInduction`), which follows from the well-founded order of finite sets.
  `OutcomeInv` compares how arguments are parsed with how they are documented (`ParsesAsDocumented`).
- **Answers.** `PlanInv` and `KernelAsked` carry the question from the arguments to the graphs that are
  searched; a transpose that passes the search's check is then the true one or the call is `Misled`
  (`CheckedIsTranspose`): nothing is assumed of the transpose that is resident. Both searches
  find the distance classes (`AreLevels`). `OrdersAreRows` counts: in any order that
  goes level by level, the rows up to depth d are as many as the nodes within d steps, so that a position tells
  its depth.
- **Breaker.** `CountersAgreeAtRest` says nothing while calls run; `SomeoneRights` does: a
  counter at its threshold in the state where it matters is always being dealt with by some thread.
  The refinement maps the breaker to the state in which the last call left it.

Model-checked only:

- the liveness properties `OpenIsLeft` and `StreamsEnd`: fairness and `ENABLED` are out of the
  prover's reach;
- `CsrMerge`: the bags of copies that `compact` and `transpose` count. Both end in a call of
  `Build`, of which `BuildIsRight` says what it makes of the list; what is left is that the lists
  they give it hold each edge as often as it was shown.

## Abstractions

Node ids, keys, payloads and weights are small sets. `u32::MAX` is the constant `U32Max`, and the sizes
of arrays are computed from 4 bytes per entry as in the code. Iteration over a concurrent map
visits its keys in any order and meets each change or not, as `DashMap` permits. `DeltaLayer`
takes the loops of a drain apart key by key; in `Compaction` each of the two loops is one step, and in
`Queries` a snapshot of one map and a drain of both are one step each.
A word of a visited bitset is the set of its bits, `WordBits` and the numbers of lanes are
constants, and a gather or shift is what it does to each lane. Tables have one partition and an order of rows. In `OntologyLoad` a scan fails
where a label, a table or an id does; a weight that cannot be cast to `f32` (`loader.rs:230`, `:277`) and a column that the table
does not have are not modelled: such a load stops at that edge as one does whose table is missing. Other tasks do not call
`catalog.deregister` in that module, so `LoadIsAPrefix` speaks of a catalog that only loads write to. The count
`edges_examined` is left out: nothing decides by it. `f32` values are only copied, so weights are model values.

Not modelled: the atomic bitset, each of whose operations is one access of one word and which
nothing calls; the syntax of TOML and JSON (serde) and the fields of an ontology that no code reads;
the schemas and accessors of the table provider; errors and types, which are data; the generators of
benchmark graphs; the FFI bridge and the Iceberg extension, which pass data to other
libraries; checksums and statistics of the base layer, which nothing reads; DataFusion itself (external).

## What comes next

`CsrMerge` on top of `BuildIsRight`: the list that `compact` builds from holds, for every node, the base edges that are
no tombstones and the insertions that are new, and that of `transpose` their reversals. The four properties
of that module then follow as those of `CsrBuild` do.
