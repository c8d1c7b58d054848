---------------------------- MODULE OntologyLoad ----------------------------
(***************************************************************************)
(* Ontologies brought to life while their tables change: loads run         *)
(* register_ontology_graphs_as_of (loader.rs) edge by edge and register    *)
(* each graph as soon as it is built; a GraphTableProvider (provider.rs)   *)
(* materializes all edges and shows the result at its end only.  Both are  *)
(* async: tables are replaced or dropped between their steps, two loads    *)
(* overlap, and a caller may drop a future, which cancels it.  The numbers *)
(* of a published table are its versions.                                  *)
(*                                                                         *)
(* A key is the text of an id with the number that it casts to and the     *)
(* number that is left of it without its other characters, if any.         *)
(***************************************************************************)
EXTENDS Integers, Ontology, NodeDictionary

CONSTANTS
    Loads,         \* the loads
    Calls,         \* what they may be asked: a file and an instant, or None
    TableNames,    \* the tables of the session
    Contents,      \* the row lists that each table may hold
    Provided,      \* the ontology of the provider
    NoWeight,      \* the weight in a graph without weights
    DefaultWeight, \* 1.0
    NoNumber,      \* a key that does not cast
    U32Max,        \* u32::MAX
    Limits,        \* the limits of a scan, or None
    MaxChanges,    \* bound on the tables replaced or dropped
    MaxRounds      \* bound on the materializations begun

\* The ontologies in the files.
Ontologies == {o \in UNION {{c.file.toml, c.file.json} : c \in Calls} : o # None}

ASSUME LoadAssumption ==
    /\ \A o \in Ontologies \cup {Provided} :
          /\ o.idType \in IdTypes
          /\ \A node \in ToSet(o.nodes) : node.transform \in IdTransforms
          /\ o.edges \in Seq(ToSet(o.edges))
          /\ \A edge \in ToSet(o.edges) : edge.source \in TableNames
          /\ o.nodes \in Seq(ToSet(o.nodes)) /\ None \notin ToSet(o.nodes)
    /\ \A t \in TableNames : \A rows \in Contents[t] :
          /\ rows \in Seq(ToSet(rows))
          /\ \A row \in ToSet(rows) :
                /\ {row.validFrom, row.validTo} \subseteq Int \cup {Null}
                /\ row.from # Null => row.from.text # Null
                /\ row.to # Null => row.to.text # Null
    /\ \A call \in Calls : call.asOf \in Int \cup {None}
    /\ Limits \subseteq Nat \cup {None}
    /\ DefaultWeight # Null
    /\ U32Max \in Nat
    /\ MaxChanges \in Nat
    /\ MaxRounds \in Nat

VARIABLES
    tables,     \* the current version of each table, 0 when it is not there
    published,  \* every version of each table
    catalog,    \* the graphs that are registered, by their names
    load,       \* the calls of register_ontology_graphs_as_of
    provider,   \* GraphTableProvider: graph, batches, materialized
    work,       \* the call of materialize at work
    served,     \* what the provider answered last
    rounds,     \* the materializations begun
    changes     \* the tables replaced or dropped

vars == <<tables, published, catalog, load, provider, work, served, rounds, changes>>

\* The rows of a table that is there.
Rows(t) == published[t][tables[t]]

(***************************************************************************)
(* Rows to edges.                                                          *)
(***************************************************************************)
\* Mutant: an edge without an end is not valid.
ValidAtClosed(edge, row, instant) ==
    /\ edge.validFrom => row.validFrom # Null /\ row.validFrom <= instant
    /\ edge.validTo => row.validTo # Null /\ row.validTo > instant

\* A null valid_from compares to null, which a filter does not let through.
ValidAt(edge, row, instant) ==
    /\ edge.validFrom => row.validFrom # Null /\ row.validFrom <= instant
    /\ edge.validTo => row.validTo = Null \/ row.validTo > instant

TemporalFilter(edge, rows, asOf) ==
    IF asOf = None THEN rows ELSE Keep(rows, {row \in ToSet(rows) : ValidAt(edge, row, asOf)})

WithEnds(rows) == Keep(rows, {row \in ToSet(rows) : Null \notin {row.from, row.to}})

WeightOf(edge, row) ==
    CASE ~edge.weighted -> NoWeight
      [] edge.weighted /\ row.weight = Null -> DefaultWeight
      [] OTHER -> row.weight

\* A cast that fails is an error of the whole query, in a row without its
\* other end too.
NumericId(key, extract) ==
    IF key = Null THEN Null ELSE IF extract THEN key.digits ELSE key.number

Uncastable(rows, extractFrom, extractTo) ==
    \E i \in DOMAIN rows : NoNumber \in {NumericId(rows[i].from, extractFrom),
                                         NumericId(rows[i].to, extractTo)}

NumericEdges(rows, extractFrom, extractTo) ==
    LET kept == WithEnds(rows)
    IN  [i \in DOMAIN kept |-> <<NumericId(kept[i].from, extractFrom),
                                 NumericId(kept[i].to, extractTo)>>]

TooLarge(edges) == \E i \in DOMAIN edges : edges[i][1] > U32Max \/ edges[i][2] > U32Max

\* build_edge_graph: cast, then build; None is an error.
NumericGraph(o, edge, rows) ==
    LET edges == NumericEdges(rows, Extracts(o, edge.from), Extracts(o, edge.to))
    IN  IF Uncastable(rows, Extracts(o, edge.from), Extracts(o, edge.to)) \/ TooLarge(edges)
        THEN None ELSE [edges |-> edges, dictionary |-> None]

\* build_edge_graph_with_dictionary: every key is a text.
Text(key) == IF key = Null THEN Null ELSE key.text
Texts(rows) == UNION {{Text(row.from), Text(row.to)} : row \in ToSet(rows)}

\* A dictionary is Some.
ASSUME DictionaryAssumption ==
    None \notin Seq(UNION {Texts(rows) : rows \in UNION {Contents[t] : t \in TableNames}})

KeyedGraph(rows) ==
    LET projected == Projected([i \in DOMAIN rows |->
                        [from |-> Text(rows[i].from), to |-> Text(rows[i].to)]])
    IN  [edges |-> projected.edges, dictionary |-> projected.dictionary]

BuildEdgeGraph(o, edge, rows) ==
    IF NeedsDictionary(o, edge) THEN KeyedGraph(rows) ELSE NumericGraph(o, edge, rows)

Weights(edge, rows) ==
    LET kept == WithEnds(rows)
    IN  [i \in DOMAIN kept |-> WeightOf(edge, kept[i])]

(***************************************************************************)
(* The session's tables, which other tasks replace and drop.               *)
(***************************************************************************)
Change == changes < MaxChanges /\ changes' = changes + 1

Publish(t, rows) ==
    /\ Change
    /\ published' = [published EXCEPT ![t] = Append(@, rows)]
    /\ tables' = [tables EXCEPT ![t] = Len(published[t]) + 1]
    /\ UNCHANGED <<catalog, load, provider, work, served, rounds>>

DropTable(t) ==
    /\ Change
    /\ tables[t] # 0
    /\ tables' = [tables EXCEPT ![t] = 0]
    /\ UNCHANGED <<published, catalog, load, provider, work, served, rounds>>

(***************************************************************************)
(* register_ontology_graphs_as_of.                                         *)
(***************************************************************************)
NotCalled == [at |-> "new", ontology |-> None, asOf |-> None, next |-> 1, rows |-> <<>>,
              version |-> 0, names |-> <<>>, since |-> [t \in TableNames |-> 0]]

LoadStep(l, from, to) ==
    /\ load[l].at = from
    /\ load' = [load EXCEPT ![l] = to]
    /\ UNCHANGED <<tables, published, provider, work, served, rounds, changes>>

\* from_file, and the validation at the start of the load.
BeginLoad(l, call) ==
    LET parsed == ParseFile(call.file)
        o == parsed.ontology
        begun == [load[l] EXCEPT !.ontology = o, !.asOf = call.asOf, !.since = tables]
    IN  /\ LoadStep(l, "new",
              CASE parsed.error # "none" -> [load[l] EXCEPT !.at = "failed"]
                [] parsed.error = "none" /\ ValidateOrError(o) # Ok ->
                      [load[l] EXCEPT !.at = "failed"]
                [] OTHER -> [begun EXCEPT !.at = IF o.edges = <<>> THEN "ok" ELSE "scan"])
        /\ UNCHANGED catalog

EdgeOf(l) == load[l].ontology.edges[load[l].next]

\* Mutant: the plan of a scan with an instant is kept and used again.
ScanTableCached(l) ==
    LET t == EdgeOf(l).source
        version == IF load[l].asOf = None THEN tables[t] ELSE 1
    IN  /\ LoadStep(l, "scan",
              IF tables[t] = 0 THEN [load[l] EXCEPT !.at = "failed"]
              ELSE [load[l] EXCEPT !.at = "register", !.version = version,
                        !.rows = published[t][version]])
        /\ UNCHANGED catalog

\* ctx.table and the scan of the edge's table.
ScanTable(l) ==
    LET t == EdgeOf(l).source
    IN  /\ LoadStep(l, "scan",
              IF tables[t] = 0 THEN [load[l] EXCEPT !.at = "failed"]
              ELSE [load[l] EXCEPT !.at = "register", !.version = tables[t], !.rows = Rows(t)])
        /\ UNCHANGED catalog

\* Filter, build and register; by, edge, version and since are not in the code.
RegisterGraph(l) ==
    LET o == load[l].ontology
        edge == EdgeOf(l)
        rows == TemporalFilter(edge, load[l].rows, load[l].asOf)
        graph == BuildEdgeGraph(o, edge, rows)
        name == GraphName(o, edge)
        last == load[l].next = Len(o.edges)
    IN  /\ load[l].at = "register"
        /\ \/ /\ graph = None
              /\ LoadStep(l, "register", [load[l] EXCEPT !.at = "failed"])
              /\ UNCHANGED catalog
           \/ /\ graph # None
              /\ LoadStep(l, "register",
                    [load[l] EXCEPT !.at = IF last THEN "ok" ELSE "scan", !.next = @ + 1,
                         !.names = Append(@, name), !.rows = <<>>])
              /\ catalog' = [n \in DOMAIN catalog \cup {name} |->
                    IF n # name THEN catalog[n]
                    ELSE [edges |-> graph.edges, weights |-> Weights(edge, rows),
                          dictionary |-> graph.dictionary, by |-> l, edge |-> load[l].next,
                          version |-> load[l].version]]

\* The future is dropped where it waits.
CancelLoad(l) ==
    /\ load[l].at \in {"scan", "register"}
    /\ LoadStep(l, load[l].at, [load[l] EXCEPT !.at = "cancelled"])
    /\ UNCHANGED catalog

(***************************************************************************)
(* GraphTableProvider.  materialize has the provider for itself (&mut).    *)
(***************************************************************************)
Unmaterialized == [edges |-> <<>>, batches |-> <<>>, materialized |-> FALSE]
Idle == [next |-> 0, edges |-> <<>>, batches |-> <<>>, since |-> [t \in TableNames |-> 0]]

\* Mutant: what an earlier call has collected is still there.
BeginMaterializeAgain ==
    /\ work.next = 0
    /\ rounds < MaxRounds
    /\ rounds' = rounds + 1
    /\ ValidateOrError(Provided) = Ok
    /\ work' = [work EXCEPT !.next = 1, !.edges = provider.edges, !.since = tables]
    /\ UNCHANGED <<tables, published, catalog, load, provider, served, changes>>

BeginMaterialize ==
    /\ work.next = 0
    /\ rounds < MaxRounds
    /\ rounds' = rounds + 1
    /\ work' = IF ValidateOrError(Provided) # Ok THEN Idle
               ELSE [Idle EXCEPT !.next = 1, !.since = tables]
    /\ UNCHANGED <<tables, published, catalog, load, provider, served, changes>>

\* One edge definition: scan, cast and collect.  The provider looks neither
\* at id_transform nor at weights nor at the time.
CollectBatch ==
    LET edge == Provided.edges[work.next]
        edges == NumericEdges(Rows(edge.source), FALSE, FALSE)
    IN  /\ work.next \in DOMAIN Provided.edges
        /\ work' = IF tables[edge.source] = 0 \/ Uncastable(Rows(edge.source), FALSE, FALSE)
                   THEN Idle
                   ELSE [work EXCEPT !.next = @ + 1, !.edges = @ \o edges,
                             !.batches = Append(@, [label |-> edge.label, edges |-> edges,
                                                    version |-> tables[edge.source]])]
        /\ UNCHANGED <<tables, published, catalog, load, provider, served, rounds, changes>>

\* Mutant: the batches are shown although the graph could not be built.
FinishMaterializeEarly ==
    /\ work.next > Len(Provided.edges)
    /\ provider' = IF TooLarge(work.edges) THEN [provider EXCEPT !.batches = work.batches]
                   ELSE [edges |-> work.edges, batches |-> work.batches, materialized |-> TRUE]
    /\ work' = Idle
    /\ UNCHANGED <<tables, published, catalog, load, served, rounds, changes>>

\* The graph is built, and only then the provider changes.
FinishMaterialize ==
    /\ work.next > Len(Provided.edges)
    /\ provider' = IF TooLarge(work.edges) THEN provider
                   ELSE [edges |-> work.edges, batches |-> work.batches, materialized |-> TRUE]
    /\ work' = Idle
    /\ UNCHANGED <<tables, published, catalog, load, served, rounds, changes>>

CancelMaterialize ==
    /\ work.next \in DOMAIN Provided.edges
    /\ work' = Idle
    /\ UNCHANGED <<tables, published, catalog, load, provider, served, rounds, changes>>

NotServed == [rows |-> None, limit |-> None, graph |-> None]

\* scan, with its limit or without, and create_traversal_plan.
Serve(limit) ==
    LET rows == FlattenSeq([i \in DOMAIN provider.batches |->
                    [k \in DOMAIN provider.batches[i].edges |->
                        [edge |-> provider.batches[i].edges[k],
                         label |-> provider.batches[i].label]]])
    IN  /\ work.next = 0
        /\ served' = IF ~provider.materialized THEN NotServed
                     ELSE [rows |-> IF limit = None \/ limit >= Len(rows) THEN rows
                                    ELSE SubSeq(rows, 1, limit),
                           limit |-> limit, graph |-> provider.edges]
        /\ UNCHANGED <<tables, published, catalog, load, provider, work, rounds, changes>>

-----------------------------------------------------------------------------
\* Loads and provider share nothing but the tables, so that a behaviour has
\* either loads or materializations.
Init ==
    /\ \E rows \in [TableNames -> UNION {Contents[t] : t \in TableNames}] :
          /\ \A t \in TableNames : rows[t] \in Contents[t]
          /\ published = [t \in TableNames |-> <<rows[t]>>]
    /\ tables = [t \in TableNames |-> 1]
    /\ catalog = <<>>
    /\ \/ load = [l \in Loads |-> NotCalled] /\ rounds = MaxRounds
       \/ load = [l \in Loads |-> [NotCalled EXCEPT !.at = "none"]] /\ rounds = 0
    /\ provider = Unmaterialized
    /\ work = Idle
    /\ served = NotServed
    /\ changes = 0

Load(l) ==
    \/ \E call \in Calls : BeginLoad(l, call)
    \/ ScanTable(l)
    \/ RegisterGraph(l)
    \/ CancelLoad(l)

Provider ==
    \/ BeginMaterialize
    \/ CollectBatch
    \/ FinishMaterialize
    \/ CancelMaterialize
    \/ \E limit \in Limits : Serve(limit)

Session == \E t \in TableNames : DropTable(t) \/ \E rows \in Contents[t] : Publish(t, rows)

Next == Session \/ Provider \/ \E l \in Loads : Load(l)

Spec == Init /\ [][Next]_vars

-----------------------------------------------------------------------------
Begun(l) == load[l].ontology # None
NamesOf(o) == [i \in DOMAIN o.edges |-> GraphName(o, o.edges[i])]

\* The rows that a graph is to have, by the comment of the function:
\* "valid_from <= as_of AND (valid_to IS NULL OR valid_to > as_of)".
Wanted(edge, rows, asOf) ==
    Keep(rows, {row \in ToSet(rows) :
        /\ row.from # Null /\ row.to # Null
        /\ (asOf # None /\ edge.validFrom) => (row.validFrom # Null /\ ~(asOf < row.validFrom))
        /\ (asOf # None /\ edge.validTo /\ row.validTo # Null) => asOf < row.validTo})

(* A registered graph is one version of its table: edge by edge the rows   *)
(* that were valid at the instant, in their order, with their weights, and *)
(* its ids are the keys of those rows, through the dictionary or as        *)
(* numbers by the transform of either node (loader.rs:44-78, 95-99).       *)
LoadedIsASnapshot ==
    \A name \in DOMAIN catalog :
        LET g == catalog[name]
            o == load[g.by].ontology
            edge == o.edges[g.edge]
            rows == Wanted(edge, published[edge.source][g.version], load[g.by].asOf)
            Is(id, key, node) ==
                CASE g.dictionary # None -> KeyOf(g.dictionary, id) = key.text
                  [] g.dictionary = None /\ Node(o, node).transform = "extract_numeric" ->
                        id = key.digits
                  [] OTHER -> id = key.number
        IN  /\ Len(g.edges) = Len(rows)
            /\ \A i \in DOMAIN rows :
                  /\ Is(g.edges[i][1], rows[i].from, edge.from)
                  /\ Is(g.edges[i][2], rows[i].to, edge.to)
                  /\ edge.weighted =>
                        g.weights[i] \in {rows[i].weight, DefaultWeight} \ {Null}
                        /\ (rows[i].weight # Null => g.weights[i] = rows[i].weight)
            /\ g.dictionary # None => IsInjective(g.dictionary)
            /\ (g.dictionary # None) <=>
                  \/ o.idType = "string"
                  \/ \E node \in ToSet(o.nodes) : /\ node.label \in {edge.from, edge.to}
                                                 /\ node.transform \in {"hash_u64", "hash_u32",
                                                                        "uuid_to_u128"}

(* A load that fails or is dropped midway has registered exactly the edges *)
(* before the one it stopped at, a load that ends well all of them "in     *)
(* edge-definition order" (loader.rs:52), and no edge of a load replaces   *)
(* the graph of another of its edges.                                      *)
LoadIsAPrefix ==
    \A l \in Loads : Begun(l) =>
        LET names == load[l].names
            all == NamesOf(load[l].ontology)
            Mine(i) == all[i] \in DOMAIN catalog /\ catalog[all[i]].by = l
        IN  /\ IsPrefix(names, all)
            /\ load[l].at = "ok" <=> names = all
            /\ \A i \in DOMAIN all :
                  /\ i <= Len(names) => all[i] \in DOMAIN catalog
                  /\ Mine(i) => i <= Len(names) /\ catalog[all[i]].edge = i

(* A name goes back to an older version of its table only when the load    *)
(* that registers it had begun before the newer one was published: loads   *)
(* that do not overlap never undo one another (loader.rs:117-141).         *)
NewerDataStays ==
    [][\A name \in DOMAIN catalog : catalog'[name] # catalog[name] =>
        LET old == catalog[name]
            new == catalog'[name]
            t == load[new.by].ontology.edges[new.edge].source
        IN  (load[old.by].ontology.edges[old.edge].source = t /\ new.version < old.version)
                => load[new.by].since[t] < old.version]_vars

(* What the provider serves is one materialization: the rows of a scan,    *)
(* cut at its limit only, are the edges of the graph that is traversed,    *)
(* and the rows of each label are one version of its table, without the    *)
(* rows that miss an end (provider.rs:26-31).                              *)
ProviderIsCoherent ==
    served # NotServed =>
        LET shown == [i \in DOMAIN served.rows |-> served.rows[i].edge]
            whole == served.limit = None \/ Len(served.graph) <= served.limit
        IN  /\ IsPrefix(shown, served.graph)
            /\ Len(shown) = IF whole THEN Len(served.graph) ELSE served.limit
            /\ whole => \A e \in ToSet(Provided.edges) : \E v \in DOMAIN published[e.source] :
                  LET all == published[e.source][v]
                      rows == Keep(all, {row \in ToSet(all) : row.from # Null /\ row.to # Null})
                      mine == Keep(served.rows, {row \in ToSet(served.rows) : row.label = e.label})
                  IN  [i \in DOMAIN mine |-> mine[i].edge]
                         = [i \in DOMAIN rows |-> <<rows[i].from.number, rows[i].to.number>>]

(* A materialization that fails or is dropped leaves the provider as it    *)
(* was; one that ends well replaces graph and batches together, and has    *)
(* read every table as it was at some moment of the call                   *)
(* (provider.rs:252-254).                                                  *)
ProviderChangesAtOnce ==
    [][provider' # provider =>
        /\ provider'.materialized
        /\ Labels(provider'.batches) = Labels(Provided.edges)
        /\ \A i \in DOMAIN Provided.edges :
              provider'.batches[i].version >= work.since[Provided.edges[i].source]]_vars
=============================================================================
