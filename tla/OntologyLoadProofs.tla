-------------------------- MODULE OntologyLoadProofs --------------------------
(***************************************************************************)
(* Proofs about OntologyLoad, for any tables, files, ontologies and loads. *)
(***************************************************************************)
EXTENDS OntologyLoad, FiniteSetTheorems, WellFoundedInduction, TLAPS

TableRows == UNION {Contents[t] : t \in TableNames}
RowLists == TableRows \cup {<<>>}
Instants == {call.asOf : call \in Calls} \cup {None}
GraphNames == UNION {{GraphName(o, o.edges[i]) : i \in DOMAIN o.edges} : o \in Ontologies}

LoadRecord ==
    [at : {"new", "none", "scan", "register", "ok", "failed", "cancelled"},
     ontology : Ontologies \cup {None}, asOf : Instants, next : Nat, rows : RowLists,
     version : Nat, names : Seq(GraphNames), since : [TableNames -> Nat]]

WorkRecord ==
    [next : Nat, edges : {work.edges}, batches : Seq(ToSet(work.batches)),
     since : [TableNames -> Nat]]

TypeInv ==
    /\ published \in [TableNames -> Seq(RowLists)]
    /\ tables \in [TableNames -> Nat]
    /\ load \in [Loads -> LoadRecord]
    /\ work \in WorkRecord

\* A table that is there is at its latest version.
TablesInv == \A t \in TableNames : tables[t] # 0 => tables[t] = Len(published[t])

\* What a load knows: its ontology is valid, it is at the edge after the ones
\* that it has registered, and it scans no version older than its beginning.
Progressed(r) ==
    /\ ValidateOrError(r.ontology) = Ok
    /\ r.next \in 1..(Len(r.ontology.edges) + 1)
    /\ Len(r.names) = r.next - 1
    /\ \A i \in 1..(r.next - 1) : r.names[i] = GraphName(r.ontology, r.ontology.edges[i])
    /\ r.at = "ok" <=> r.next = Len(r.ontology.edges) + 1
    /\ r.at = "register" => r.version >= r.since[r.ontology.edges[r.next].source]

GoodLoad(r) ==
    /\ \A t \in TableNames : r.since[t] <= Len(published[t])
    /\ r.at \in {"new", "none"} => r.ontology = None /\ r.next = 1 /\ r.names = <<>>
    /\ r.ontology = None => r.at \in {"new", "none", "failed"}
    /\ r.ontology # None =>
          /\ Progressed(r)
          /\ \A i \in 1..(r.next - 1) : r.names[i] \in DOMAIN catalog

LoadInv == \A l \in Loads : GoodLoad(load[l])

\* A registered graph is that of an edge which its load is past.
Registered(name, g) ==
    /\ g.by \in Loads
    /\ load[g.by].ontology # None
    /\ g.edge \in 1..(load[g.by].next - 1)
    /\ name = GraphName(load[g.by].ontology, load[g.by].ontology.edges[g.edge])
    /\ g.version \in Nat

CatalogInv == \A name \in DOMAIN catalog : Registered(name, catalog[name])

\* What a materialization has collected.
WorkInv ==
    /\ \A t \in TableNames : work.since[t] <= Len(published[t])
    /\ work.next # 0 =>
          /\ work.next \in 1..(Len(Provided.edges) + 1)
          /\ Len(work.batches) = work.next - 1
          /\ \A i \in 1..(work.next - 1) :
                /\ work.batches[i].label = Provided.edges[i].label
                /\ work.batches[i].version >= work.since[Provided.edges[i].source]

Inv == TypeInv /\ TablesInv /\ LoadInv /\ CatalogInv /\ WorkInv

-----------------------------------------------------------------------------
(* The edges of an ontology are a list, and their tables are known.        *)
LEMMA EdgesAreAList ==
    ASSUME NEW o \in Ontologies \cup {Provided}
    PROVE  /\ Len(o.edges) \in Nat
           /\ DOMAIN o.edges = 1..Len(o.edges)
           /\ \A i \in DOMAIN o.edges : o.edges[i].source \in TableNames
<1>1. o.edges \in Seq(ToSet(o.edges)) /\ \A edge \in ToSet(o.edges) : edge.source \in TableNames
  BY LoadAssumption
<1>2. \A i \in DOMAIN o.edges : o.edges[i] \in ToSet(o.edges)
  BY DEF ToSet
<1> QED
  BY <1>1, <1>2

(* In a valid ontology two edges have different graph names: validation    *)
(* refuses a label that occurs twice.                                      *)
LEMMA ValidNames ==
    ASSUME NEW o \in Ontologies \cup {Provided}, ValidateOrError(o) = Ok,
           NEW i \in DOMAIN o.edges, NEW j \in DOMAIN o.edges,
           GraphName(o, o.edges[i]) = GraphName(o, o.edges[j])
    PROVE  i = j
<1>1. Validate(o).errors = {}
  BY DEF ValidateOrError, Ok
<1>2. DuplicateEdges(o) = {}
  BY <1>1 DEF Validate
<1>3. Repeated(o.edges) = {}
  BY <1>2 DEF DuplicateEdges
<1>4. o.edges[i].label = o.edges[j].label
  BY DEF GraphName
<1>5. i \in Nat /\ j \in Nat /\ i >= 1 /\ j >= 1
  BY EdgesAreAList
<1>6. ~(i < j)
  BY <1>3, <1>4, <1>5 DEF Repeated
<1>7. ~(j < i)
  BY <1>3, <1>4, <1>5 DEF Repeated
<1> QED
  BY <1>5, <1>6, <1>7

(* A file that parses holds one of the ontologies.                         *)
LEMMA ParsedOntology ==
    ASSUME NEW call \in Calls, ParseFile(call.file).error = "none"
    PROVE  ParseFile(call.file).ontology \in Ontologies /\ ParseFile(call.file).ontology # None
<1> DEFINE toml == call.file.toml
           json == call.file.json
<1>1. \A o \in {toml, json} : o # None => o \in Ontologies
  BY DEF Ontologies
<1>2. ASSUME ParseFile(call.file) = ParseToml(call.file)
      PROVE  ParseFile(call.file).ontology \in Ontologies /\ ParseFile(call.file).ontology # None
  <2>1. toml # None
    BY <1>2 DEF ParseToml, Parsed
  <2> QED
    BY <1>1, <1>2, <2>1 DEF ParseToml, Parsed
<1>3. ASSUME ParseFile(call.file) = ParseJson(call.file)
      PROVE  ParseFile(call.file).ontology \in Ontologies /\ ParseFile(call.file).ontology # None
  <2>1. json # None
    BY <1>3 DEF ParseJson, Parsed
  <2> QED
    BY <1>1, <1>3, <2>1 DEF ParseJson, Parsed
<1>4. ParseFile(call.file) # [error |-> "IoError"]
  OBVIOUS
<1> QED
  BY <1>2, <1>3, <1>4 DEF ParseFile


(* Appending to a list keeps what is in it.                                *)
LEMMA AppendKeeps ==
    ASSUME NEW S, NEW s \in Seq(S), NEW e
    PROVE  /\ Append(s, e) \in Seq(ToSet(Append(s, e)))
           /\ Len(Append(s, e)) = Len(s) + 1
           /\ \A i \in 1..Len(s) : Append(s, e)[i] = s[i]
           /\ Append(s, e)[Len(s) + 1] = e
<1> DEFINE a == Append(s, e)
<1>1. a \in Seq(S \cup {e}) /\ Len(a) = Len(s) + 1
  OBVIOUS
<1>2. \A i \in 1..Len(a) : a[i] \in ToSet(a)
  BY <1>1 DEF ToSet
<1>3. a \in Seq(ToSet(a))
  <2> HIDE DEF a
  <2> QED
    BY <1>1, <1>2
<1> QED
  BY <1>1, <1>3

-----------------------------------------------------------------------------
(* The initial states satisfy the invariant.                               *)
LEMMA InitInv == Init => Inv
<1> SUFFICES ASSUME Init PROVE Inv
  OBVIOUS
<1>1. published \in [TableNames -> Seq(RowLists)] /\ \A t \in TableNames : Len(published[t]) = 1
  <2>1. PICK rows \in [TableNames -> UNION {Contents[t] : t \in TableNames}] :
           published = [t \in TableNames |-> <<rows[t]>>]
    BY DEF Init
  <2> QED
    BY <2>1 DEF RowLists, TableRows
<1>2. tables \in [TableNames -> Nat] /\ \A t \in TableNames : tables[t] = 1
  BY DEF Init
<1>3. ASSUME NEW l \in Loads
      PROVE  /\ load[l] \in LoadRecord
             /\ load[l].at \in {"new", "none"}
             /\ load[l].ontology = None /\ load[l].next = 1 /\ load[l].names = <<>>
             /\ \A t \in TableNames : load[l].since[t] = 0
  <2>0. /\ [t \in TableNames |-> 0] \in [TableNames -> Nat]
        /\ <<>> \in Seq(GraphNames) /\ <<>> \in RowLists /\ None \in Instants
    <3>1. <<>> \in RowLists
      BY DEF RowLists
    <3>2. None \in Instants
      BY Zenon DEF Instants
    <3>3. [t \in TableNames |-> 0] \in [TableNames -> Nat] /\ <<>> \in Seq(GraphNames)
      OBVIOUS
    <3> QED
      BY <3>1, <3>2, <3>3
  <2>1. \A at \in {"new", "none"} :
           [at |-> at, ontology |-> None, asOf |-> None, next |-> 1, rows |-> <<>>,
            version |-> 0, names |-> <<>>, since |-> [t \in TableNames |-> 0]] \in LoadRecord
    BY <2>0 DEF LoadRecord
  <2>2. CASE load[l] = NotCalled
    BY <2>1, <2>2 DEF NotCalled
  <2>3. CASE load[l] = [NotCalled EXCEPT !.at = "none"]
    <3>1. load[l] = [at |-> "none", ontology |-> None, asOf |-> None, next |-> 1, rows |-> <<>>,
                     version |-> 0, names |-> <<>>, since |-> [t \in TableNames |-> 0]]
      BY <2>3 DEF NotCalled
    <3> QED
      BY <2>1, <3>1
  <2> QED
    BY <2>2, <2>3 DEF Init
<1>4. load = [l \in Loads |-> load[l]]
  BY DEF Init
<1>5. work.next = 0 /\ work \in WorkRecord /\ \A t \in TableNames : work.since[t] = 0
  <2>1. work = Idle
    BY DEF Init
  <2>2. <<>> \in Seq(ToSet(<<>>))
    OBVIOUS
  <2> QED
    BY <2>1, <2>2 DEF Idle, WorkRecord
<1>6. TypeInv
  <2>1. load \in [Loads -> LoadRecord]
    BY <1>3, <1>4
  <2> QED
    BY <2>1, <1>1, <1>2, <1>5 DEF TypeInv
<1>7. TablesInv
  BY <1>1, <1>2 DEF TablesInv
<1>8. LoadInv
  BY <1>1, <1>3 DEF LoadInv, GoodLoad
<1>9. CatalogInv
  BY DEF Init, CatalogInv
<1>10. WorkInv
  BY <1>1, <1>5 DEF WorkInv
<1> QED
  BY <1>6, <1>7, <1>8, <1>9, <1>10 DEF Inv

(* Versions are only added: what the loads and the provider know of the    *)
(* tables stays true when a table is replaced or dropped.                  *)
LEMMA SessionKeeps ==
    ASSUME Inv,
           \/ \E t \in TableNames : DropTable(t)
           \/ \E t \in TableNames : \E rows \in Contents[t] : Publish(t, rows)
    PROVE  Inv'
<1>0. published \in [TableNames -> Seq(RowLists)] /\ tables \in [TableNames -> Nat]
  BY DEF Inv, TypeInv
<1>1. UNCHANGED <<catalog, load, work>>
  BY DEF DropTable, Publish
<1>2. /\ published' \in [TableNames -> Seq(RowLists)]
      /\ tables' \in [TableNames -> Nat]
      /\ TablesInv'
      /\ \A t \in TableNames : Len(published[t]) \in Nat /\ Len(published'[t]) \in Nat
                               /\ Len(published'[t]) >= Len(published[t])
  <2>1. CASE \E t \in TableNames : DropTable(t)
    BY <1>0, <2>1 DEF DropTable, Inv, TablesInv
  <2>2. ASSUME NEW t \in TableNames, NEW rows \in Contents[t], Publish(t, rows)
        PROVE  /\ published' \in [TableNames -> Seq(RowLists)]
               /\ tables' \in [TableNames -> Nat]
               /\ TablesInv'
               /\ \A u \in TableNames : Len(published[u]) \in Nat /\ Len(published'[u]) \in Nat
                                        /\ Len(published'[u]) >= Len(published[u])
    <3>1. rows \in RowLists
      BY DEF RowLists, TableRows
    <3>2. \A s \in Seq(RowLists) : /\ Append(s, rows) \in Seq(RowLists)
                                   /\ Len(Append(s, rows)) = Len(s) + 1
                                   /\ Len(s) \in Nat
      BY <3>1
    <3>3. \A u \in TableNames :
            published'[u] = IF u = t THEN Append(published[u], rows) ELSE published[u]
      BY <1>0, <2>2 DEF Publish
    <3>4. \A u \in TableNames : tables'[u] = IF u = t THEN Len(published[u]) + 1 ELSE tables[u]
      BY <1>0, <2>2 DEF Publish
    <3>5. published' \in [TableNames -> Seq(RowLists)]
      BY <1>0, <2>2, <3>2 DEF Publish
    <3>6. tables' \in [TableNames -> Nat]
      BY <1>0, <2>2, <3>2 DEF Publish
    <3>7. TablesInv'
      BY <1>0, <3>2, <3>3, <3>4 DEF Inv, TablesInv
    <3>8. ASSUME NEW u \in TableNames
          PROVE  /\ Len(published[u]) \in Nat /\ Len(published'[u]) \in Nat
                 /\ Len(published'[u]) >= Len(published[u])
      <4>1. published[u] \in Seq(RowLists)
        BY <1>0
      <4>2. Len(published[u]) \in Nat /\ Len(Append(published[u], rows)) = Len(published[u]) + 1
        BY <3>2, <4>1
      <4>3. published'[u] = Append(published[u], rows) \/ published'[u] = published[u]
        BY <3>3
      <4>4. Len(published'[u]) = Len(published[u]) + 1 \/ Len(published'[u]) = Len(published[u])
        BY <4>2, <4>3
      <4> QED
        BY <4>2, <4>4
    <3> QED
      BY <3>5, <3>6, <3>7, <3>8
  <2> QED
    BY <2>1, <2>2
<1>3. TypeInv'
  BY <1>1, <1>2 DEF Inv, TypeInv, WorkRecord
<1>4. ASSUME NEW l \in Loads PROVE GoodLoad(load[l])'
  <2>1. GoodLoad(load[l]) /\ load[l] \in LoadRecord
    BY DEF Inv, LoadInv, TypeInv
  <2>2. \A t \in TableNames : load[l].since[t] \in Nat
    BY <2>1 DEF LoadRecord
  <2>3. ASSUME NEW t \in TableNames PROVE load[l].since[t] <= Len(published'[t])
    <3>1. load[l].since[t] <= Len(published[t])
      BY <2>1 DEF GoodLoad
    <3> QED
      BY <1>2, <2>2, <3>1
  <2> QED
    BY <1>1, <2>1, <2>3 DEF GoodLoad, Progressed
<1>5. CatalogInv'
  BY <1>1 DEF Inv, CatalogInv, Registered
<1>6. WorkInv'
  <2>1. \A t \in TableNames : work.since[t] \in Nat
    BY DEF Inv, TypeInv, WorkRecord
  <2>2. ASSUME NEW t \in TableNames PROVE work.since[t] <= Len(published'[t])
    <3>1. work.since[t] <= Len(published[t])
      BY DEF Inv, WorkInv
    <3> QED
      BY <1>2, <2>1, <3>1
  <2> QED
    BY <1>1, <2>2 DEF Inv, WorkInv
<1> QED
  BY <1>2, <1>3, <1>4, <1>5, <1>6 DEF Inv, LoadInv

(* A step that changes one load only, and that load to one which is as     *)
(* good and not behind, keeps the invariant.                               *)
LEMMA LoadChanges ==
    ASSUME Inv, NEW l \in Loads, NEW to \in LoadRecord,
           load' = [load EXCEPT ![l] = to],
           UNCHANGED <<tables, published, catalog, work>>,
           GoodLoad(to),
           load[l].ontology # None => to.ontology = load[l].ontology /\ to.next = load[l].next
    PROVE  Inv'
<1>0. load \in [Loads -> LoadRecord]
  BY DEF Inv, TypeInv
<1>1. \A k \in Loads : load'[k] = IF k = l THEN to ELSE load[k]
  BY <1>0
<1>2. TypeInv'
  <2>1. load' \in [Loads -> LoadRecord]
    BY <1>0
  <2> QED
    BY <2>1 DEF Inv, TypeInv, WorkRecord
<1>3. ASSUME NEW k \in Loads PROVE GoodLoad(load[k])'
  <2>1. GoodLoad(load'[k])
    BY <1>1 DEF Inv, LoadInv
  <2> QED
    BY <2>1 DEF GoodLoad, Progressed
<1>4. ASSUME NEW name \in DOMAIN catalog PROVE Registered(name, catalog[name])'
  <2>1. Registered(name, catalog[name])
    BY DEF Inv, CatalogInv
  <2> DEFINE k == catalog[name].by
  <2>2. k \in Loads /\ load[k].ontology # None
    BY <2>1 DEF Registered
  <2>3. load'[k].ontology = load[k].ontology /\ load'[k].next = load[k].next
    BY <1>1, <2>2
  <2> QED
    BY <2>1, <2>2, <2>3 DEF Registered
<1>5. TablesInv' /\ WorkInv'
  BY DEF Inv, TablesInv, WorkInv
<1> QED
  BY <1>2, <1>3, <1>4, <1>5 DEF Inv, LoadInv, CatalogInv

(* The beginning of a load.                                                *)
LEMMA BeginLoadKeeps ==
    ASSUME Inv, NEW l \in Loads, NEW call \in Calls, BeginLoad(l, call)
    PROVE  Inv'
<1>0. load[l] \in LoadRecord /\ GoodLoad(load[l]) /\ load[l].at = "new"
  BY DEF Inv, TypeInv, LoadInv, BeginLoad, LoadStep
<1>1. load[l].ontology = None /\ load[l].next = 1 /\ load[l].names = <<>>
  BY <1>0 DEF GoodLoad
<1>2. UNCHANGED <<tables, published, catalog, work>>
  BY DEF BeginLoad, LoadStep
<1> DEFINE o == ParseFile(call.file).ontology
           failed == [load[l] EXCEPT !.at = "failed"]
           begun == [[load[l] EXCEPT !.ontology = o, !.asOf = call.asOf, !.since = tables]
                        EXCEPT !.at = IF o.edges = <<>> THEN "ok" ELSE "scan"]
<1>3. CASE load' = [load EXCEPT ![l] = failed]
  <2>1. failed \in LoadRecord
    BY <1>0 DEF LoadRecord
  <2>2. failed.at = "failed" /\ failed.ontology = None /\ failed.since = load[l].since
    BY <1>0, <1>1 DEF LoadRecord
  <2> HIDE DEF failed
  <2>3. GoodLoad(failed)
    BY <1>0, <2>2 DEF GoodLoad
  <2> QED
    BY <1>1, <1>2, <1>3, <2>1, <2>3, LoadChanges
<1>4. CASE /\ ParseFile(call.file).error = "none" /\ ValidateOrError(o) = Ok
           /\ load' = [load EXCEPT ![l] = begun]
  <2>1. o \in Ontologies /\ o # None
    BY <1>4, ParsedOntology
  <2>2. call.asOf \in Instants /\ tables \in [TableNames -> Nat]
    <3>1. call.asOf \in Instants
      BY Zenon DEF Instants
    <3> QED
      BY <3>1 DEF Inv, TypeInv
  <2>3. begun \in LoadRecord
    <3> HIDE DEF o
    <3> QED
      BY <1>0, <2>1, <2>2 DEF LoadRecord
  <2>4. /\ begun.ontology = o /\ begun.next = 1 /\ begun.names = <<>> /\ begun.since = tables
        /\ begun.at = IF o.edges = <<>> THEN "ok" ELSE "scan"
    <3> HIDE DEF o
    <3> QED
      BY <1>0, <1>1, <2>1, <2>2 DEF LoadRecord
  <2> HIDE DEF begun
  <2>5. Len(o.edges) \in Nat /\ (o.edges = <<>> <=> Len(o.edges) = 0)
    <3>1. o.edges \in Seq(ToSet(o.edges))
      BY <2>1, LoadAssumption
    <3> QED
      BY <3>1
  <2>6. Progressed(begun)
    BY <1>4, <2>4, <2>5 DEF Progressed
  <2>7. \A t \in TableNames : tables[t] <= Len(published[t])
    <3>1. \A t \in TableNames : tables[t] \in Nat /\ published[t] \in Seq(RowLists)
      BY DEF Inv, TypeInv
    <3>2. \A t \in TableNames : Len(published[t]) \in Nat
      BY <3>1
    <3> QED
      BY <3>1, <3>2 DEF Inv, TablesInv
  <2>8. GoodLoad(begun)
    BY <2>1, <2>4, <2>6, <2>7 DEF GoodLoad
  <2> QED
    BY <1>1, <1>2, <1>4, <2>3, <2>8, LoadChanges
<1>5. \/ load' = [load EXCEPT ![l] = failed]
      \/ /\ ParseFile(call.file).error = "none" /\ ValidateOrError(o) = Ok
         /\ load' = [load EXCEPT ![l] = begun]
  BY Zenon DEF BeginLoad, LoadStep
<1> QED
  BY <1>3, <1>4, <1>5

(* The scan of a table.                                                    *)
LEMMA ScanTableKeeps ==
    ASSUME Inv, NEW l \in Loads, ScanTable(l)
    PROVE  Inv'
<1>0. load[l] \in LoadRecord /\ GoodLoad(load[l]) /\ load[l].at = "scan"
  BY DEF Inv, TypeInv, LoadInv, ScanTable, LoadStep
<1> DEFINE o == load[l].ontology
           t == EdgeOf(l).source
           failed == [load[l] EXCEPT !.at = "failed"]
           scanned == [load[l] EXCEPT !.at = "register", !.version = tables[t], !.rows = Rows(t)]
<1>1. o \in Ontologies /\ o # None /\ Progressed(load[l])
      /\ \A i \in 1..(load[l].next - 1) : load[l].names[i] \in DOMAIN catalog
  BY <1>0 DEF GoodLoad, LoadRecord
<1>2. UNCHANGED <<tables, published, catalog, work>>
  BY DEF ScanTable, LoadStep
<1>3. Len(o.edges) \in Nat /\ load[l].next \in 1..Len(o.edges)
  <2>1. Len(o.edges) \in Nat
    BY <1>1, EdgesAreAList
  <2> QED
    BY <1>0, <1>1, <2>1 DEF Progressed, LoadRecord
<1>4. t \in TableNames
  BY <1>1, <1>3, EdgesAreAList DEF EdgeOf
<1>5. tables[t] \in Nat /\ published[t] \in Seq(RowLists)
  BY <1>4 DEF Inv, TypeInv
<1>6. CASE load' = [load EXCEPT ![l] = failed]
  <2>1. failed \in LoadRecord
    BY <1>0 DEF LoadRecord
  <2>2. /\ failed.at = "failed" /\ failed.ontology = o /\ failed.since = load[l].since
        /\ failed.next = load[l].next /\ failed.names = load[l].names
    BY <1>0 DEF LoadRecord
  <2> HIDE DEF failed
  <2>3. GoodLoad(failed)
    BY <1>0, <1>1, <1>3, <2>2 DEF GoodLoad, Progressed
  <2> QED
    BY <1>2, <1>6, <2>1, <2>2, <2>3, LoadChanges
<1>7. CASE tables[t] # 0 /\ load' = [load EXCEPT ![l] = scanned]
  <2>0. Rows(t) \in RowLists
    BY <1>5, <1>7, <1>4 DEF Inv, TablesInv, Rows
  <2>1. scanned \in LoadRecord
    <3> HIDE DEF t
    <3> QED
      BY <1>0, <1>5, <2>0 DEF LoadRecord
  <2>2. /\ scanned.at = "register" /\ scanned.ontology = o /\ scanned.since = load[l].since
        /\ scanned.next = load[l].next /\ scanned.names = load[l].names
        /\ scanned.version = tables[t]
    <3> HIDE DEF t
    <3> QED
      BY <1>0 DEF LoadRecord
  <2> HIDE DEF scanned
  <2>3. scanned.version >= load[l].since[t]
    <3>1. load[l].since[t] <= Len(published[t])
      BY <1>0, <1>4 DEF GoodLoad
    <3>2. tables[t] = Len(published[t]) /\ load[l].since[t] \in Nat
      BY <1>0, <1>4, <1>7 DEF Inv, TablesInv, LoadRecord
    <3> QED
      BY <1>5, <2>2, <3>1, <3>2
  <2>4. Progressed(scanned)
    BY <1>0, <1>1, <1>3, <2>2, <2>3 DEF Progressed, EdgeOf
  <2>5. GoodLoad(scanned)
    BY <1>0, <1>1, <2>2, <2>4 DEF GoodLoad
  <2> QED
    BY <1>2, <1>7, <2>1, <2>2, <2>5, LoadChanges
<1> QED
  BY <1>6, <1>7 DEF ScanTable, LoadStep

(* A load that stops where it waits, or at a graph that cannot be built.   *)
LEMMA StopKeeps ==
    ASSUME Inv, NEW l \in Loads, NEW at \in {"failed", "cancelled"},
           load[l].at \in {"scan", "register"},
           load' = [load EXCEPT ![l] = [load[l] EXCEPT !.at = at]],
           UNCHANGED <<tables, published, catalog, work>>
    PROVE  Inv'
<1> DEFINE to == [load[l] EXCEPT !.at = at]
<1>1. load[l] \in LoadRecord /\ GoodLoad(load[l])
  BY DEF Inv, TypeInv, LoadInv
<1>2. to \in LoadRecord
  BY <1>1 DEF LoadRecord
<1>3. /\ to.at = at /\ to.ontology = load[l].ontology /\ to.since = load[l].since
      /\ to.next = load[l].next /\ to.names = load[l].names
  BY <1>1 DEF LoadRecord
<1> HIDE DEF to
<1>4. GoodLoad(to)
  BY <1>1, <1>3 DEF GoodLoad, Progressed
<1> QED
  BY <1>2, <1>3, <1>4, LoadChanges DEF to

(* What a registration does to the load and to the catalog.                *)
LEMMA RegisterFacts ==
    ASSUME Inv, NEW l \in Loads, RegisterGraph(l),
           ~(UNCHANGED catalog /\ load' = [load EXCEPT ![l] = [load[l] EXCEPT !.at = "failed"]])
    PROVE  LET o == load[l].ontology
               name == GraphName(o, o.edges[load[l].next])
           IN  /\ o \in Ontologies /\ o # None
               /\ load[l].next \in 1..Len(o.edges) /\ Len(o.edges) \in Nat
               /\ DOMAIN catalog' = DOMAIN catalog \cup {name}
               /\ \A n \in DOMAIN catalog : n # name => catalog'[n] = catalog[n]
               /\ catalog'[name].by = l
               /\ catalog'[name].edge = load[l].next
               /\ catalog'[name].version = load[l].version
               /\ load[l].version \in Nat
               /\ load[l].version >= load[l].since[o.edges[load[l].next].source]
               /\ load' = [load EXCEPT ![l] =
                      [load[l] EXCEPT !.at = IF load[l].next = Len(o.edges) THEN "ok" ELSE "scan",
                                      !.next = @ + 1, !.names = Append(@, name), !.rows = <<>>]]
               /\ UNCHANGED <<tables, published, work>>
<1> DEFINE o == load[l].ontology
           edge == EdgeOf(l)
           rows == TemporalFilter(edge, load[l].rows, load[l].asOf)
           graph == BuildEdgeGraph(o, edge, rows)
           name == GraphName(o, edge)
<1>1. load[l] \in LoadRecord /\ GoodLoad(load[l]) /\ load[l].at = "register"
  BY DEF Inv, TypeInv, LoadInv, RegisterGraph
<1>2. o \in Ontologies /\ o # None /\ Progressed(load[l])
  BY <1>1 DEF GoodLoad, LoadRecord
<1>3. Len(o.edges) \in Nat
  BY <1>2, EdgesAreAList
<1>4. load[l].next \in 1..Len(o.edges)
  BY <1>1, <1>2, <1>3 DEF Progressed, LoadRecord
<1>5. load[l].version \in Nat /\ load[l].version >= load[l].since[o.edges[load[l].next].source]
  BY <1>1, <1>2 DEF Progressed, LoadRecord
<1>6. /\ catalog' = [n \in DOMAIN catalog \cup {name} |->
             IF n # name THEN catalog[n]
             ELSE [edges |-> graph.edges, weights |-> Weights(edge, rows),
                   dictionary |-> graph.dictionary, by |-> l, edge |-> load[l].next,
                   version |-> load[l].version]]
      /\ LoadStep(l, "register",
             [load[l] EXCEPT !.at = IF load[l].next = Len(o.edges) THEN "ok" ELSE "scan",
                             !.next = @ + 1, !.names = Append(@, name), !.rows = <<>>])
  BY Zenon DEF RegisterGraph, LoadStep
<1>7. name = GraphName(o, o.edges[load[l].next])
  BY DEF EdgeOf
<1> HIDE DEF name, graph, rows, edge
<1>8. /\ DOMAIN catalog' = DOMAIN catalog \cup {name}
      /\ \A n \in DOMAIN catalog : n # name => catalog'[n] = catalog[n]
      /\ catalog'[name].by = l
      /\ catalog'[name].edge = load[l].next
      /\ catalog'[name].version = load[l].version
  BY <1>6
<1> QED
  BY <1>2, <1>3, <1>4, <1>5, <1>6, <1>7, <1>8 DEF LoadStep

(* The registration of a graph.                                            *)
LEMMA RegisterKeeps ==
    ASSUME Inv, NEW l \in Loads, RegisterGraph(l)
    PROVE  Inv'
<1>0. load \in [Loads -> LoadRecord] /\ load[l] \in LoadRecord /\ GoodLoad(load[l])
      /\ load[l].at = "register"
  BY DEF Inv, TypeInv, LoadInv, RegisterGraph
<1>1. CASE UNCHANGED catalog /\ load' = [load EXCEPT ![l] = [load[l] EXCEPT !.at = "failed"]]
  <2>1. UNCHANGED <<tables, published, work>>
    BY DEF RegisterGraph, LoadStep
  <2> QED
    BY <1>0, <1>1, <2>1, StopKeeps
<1>2. CASE ~(UNCHANGED catalog /\ load' = [load EXCEPT ![l] = [load[l] EXCEPT !.at = "failed"]])
  <2> DEFINE o == load[l].ontology
             next == load[l].next
             name == GraphName(o, o.edges[next])
             to == [load[l] EXCEPT !.at = IF next = Len(o.edges) THEN "ok" ELSE "scan",
                                   !.next = @ + 1, !.names = Append(@, name), !.rows = <<>>]
  <2>1. /\ o \in Ontologies /\ o # None
        /\ next \in 1..Len(o.edges) /\ Len(o.edges) \in Nat
        /\ DOMAIN catalog' = DOMAIN catalog \cup {name}
        /\ \A n \in DOMAIN catalog : n # name => catalog'[n] = catalog[n]
        /\ catalog'[name].by = l
        /\ catalog'[name].edge = next
        /\ catalog'[name].version = load[l].version
        /\ load[l].version \in Nat
        /\ load' = [load EXCEPT ![l] = to]
        /\ UNCHANGED <<tables, published, work>>
    BY <1>2, RegisterFacts
  <2>2. Progressed(load[l]) /\ \A i \in 1..(next - 1) : load[l].names[i] \in DOMAIN catalog
    BY <1>0, <2>1 DEF GoodLoad
  <2>3. name \in GraphNames
    <3>1. next \in DOMAIN o.edges
      BY <2>1, EdgesAreAList
    <3> QED
      BY <2>1, <3>1 DEF GraphNames
  <2>4. to \in LoadRecord
    <3>1. Append(load[l].names, name) \in Seq(GraphNames) /\ next + 1 \in Nat
      BY <1>0, <2>3 DEF LoadRecord
    <3>2. <<>> \in RowLists
      BY DEF RowLists
    <3> HIDE DEF name, o
    <3> QED
      BY <1>0, <3>1, <3>2 DEF LoadRecord
  <2>5. /\ to.at = (IF next = Len(o.edges) THEN "ok" ELSE "scan") /\ to.ontology = o
        /\ to.next = next + 1 /\ to.names = Append(load[l].names, name)
        /\ to.since = load[l].since
    <3> HIDE DEF name
    <3> QED
      BY <1>0 DEF LoadRecord
  <2>6. /\ load[l].names \in Seq(GraphNames) /\ Len(load[l].names) = next - 1
        /\ \A i \in 1..(next - 1) : load[l].names[i] = GraphName(o, o.edges[i])
    BY <1>0, <2>2 DEF LoadRecord, Progressed
  <2>7. /\ Len(to.names) = next
        /\ \A i \in 1..next : to.names[i] = GraphName(o, o.edges[i])
    <3> DEFINE names == load[l].names
    <3>1. names \in Seq(GraphNames) /\ Len(names) = next - 1 /\ next \in Nat /\ next >= 1
      BY <2>1, <2>6
    <3>2. /\ Len(Append(names, name)) = Len(names) + 1
          /\ \A i \in 1..Len(names) : Append(names, name)[i] = names[i]
          /\ Append(names, name)[Len(names) + 1] = name
      <4> HIDE DEF names, name
      <4> QED
        BY <3>1, AppendKeeps
    <3>3. ASSUME NEW i \in 1..next PROVE Append(names, name)[i] = GraphName(o, o.edges[i])
      <4>1. CASE i = next
        BY <3>1, <3>2, <4>1
      <4>2. CASE i # next
        <5>1. i \in 1..(next - 1)
          BY <3>1, <4>2
        <5> QED
          BY <2>6, <3>1, <3>2, <5>1
      <4> QED
        BY <4>1, <4>2
    <3> QED
      BY <2>5, <3>1, <3>2, <3>3
  <2>8. Progressed(to)
    <3>1. to.next \in 1..(Len(o.edges) + 1) /\ to.next - 1 = next
      BY <2>1, <2>5
    <3>2. ValidateOrError(o) = Ok
      BY <2>2 DEF Progressed
    <3>3. (to.at = "ok" <=> to.next = Len(o.edges) + 1) /\ to.at # "register"
      BY <2>1, <2>5
    <3> HIDE DEF to
    <3> QED
      BY <2>5, <2>7, <3>1, <3>2, <3>3 DEF Progressed
  <2>9. \A i \in 1..(to.next - 1) : to.names[i] \in DOMAIN catalog'
    <3>1. ASSUME NEW i \in 1..next PROVE to.names[i] \in DOMAIN catalog'
      <4>1. CASE i = next
        BY <2>1, <2>7, <4>1
      <4>2. CASE i # next
        <5>1. i \in 1..(next - 1)
          BY <2>1, <4>2
        <5> QED
          BY <2>1, <2>2, <2>6, <2>7, <5>1
      <4> QED
        BY <4>1, <4>2
    <3>2. to.next - 1 = next
      BY <2>1, <2>5
    <3> QED
      BY <3>1, <3>2
  <2>10. \A k \in Loads : load'[k] = IF k = l THEN to ELSE load[k]
    BY <1>0, <2>1
  <2> HIDE DEF to, name
  <2>11. ASSUME NEW k \in Loads PROVE GoodLoad(load[k])'
    <3>1. CASE k = l
      <4>1. load'[k] = to /\ \A t \in TableNames : to.since[t] <= Len(published'[t])
        BY <1>0, <2>1, <2>5, <2>10, <3>1 DEF GoodLoad
      <4>2. to.at \notin {"new", "none"} /\ to.ontology # None
        BY <2>1, <2>5
      <4> QED
        BY <2>8, <2>9, <4>1, <4>2 DEF GoodLoad, Progressed
    <3>2. CASE k # l
      <4>1. GoodLoad(load[k]) /\ load'[k] = load[k]
        BY <2>10, <3>2 DEF Inv, LoadInv
      <4> QED
        BY <2>1, <4>1 DEF GoodLoad, Progressed
    <3> QED
      BY <3>1, <3>2
  <2>12. ASSUME NEW n \in DOMAIN catalog' PROVE Registered(n, catalog[n])'
    <3>1. CASE n = name
      <4>1. load'[l] = to /\ next \in 1..(to.next - 1)
        BY <2>1, <2>5, <2>10
      <4>2. name = GraphName(to.ontology, to.ontology.edges[next])
        BY <2>5 DEF name
      <4> QED
        BY <2>1, <2>5, <3>1, <4>1, <4>2 DEF Registered
    <3>2. CASE n # name
      <4>1. n \in DOMAIN catalog /\ catalog'[n] = catalog[n] /\ Registered(n, catalog[n])
        BY <2>1, <3>2 DEF Inv, CatalogInv
      <4> DEFINE k == catalog[n].by
      <4>2. k \in Loads /\ load[k].next \in Nat
        BY <1>0, <4>1 DEF Registered, LoadRecord
      <4>3. /\ load'[k].ontology = load[k].ontology
            /\ load'[k].next \in {load[k].next, load[k].next + 1}
        BY <2>5, <2>10, <4>2
      <4>4. catalog[n].edge \in 1..(load'[k].next - 1)
        BY <4>1, <4>2, <4>3 DEF Registered
      <4> QED
        BY <4>1, <4>2, <4>3, <4>4 DEF Registered
    <3> QED
      BY <3>1, <3>2
  <2>13. TypeInv'
    <3>1. load' \in [Loads -> LoadRecord]
      BY <1>0, <2>1, <2>4
    <3> QED
      BY <2>1, <3>1 DEF Inv, TypeInv, WorkRecord
  <2>14. TablesInv' /\ WorkInv'
    BY <2>1 DEF Inv, TablesInv, WorkInv
  <2> QED
    BY <2>11, <2>12, <2>13, <2>14 DEF Inv, LoadInv, CatalogInv
<1> QED
  BY <1>1, <1>2

(* The steps of the provider: they change its own work only.               *)
LEMMA ProviderKeeps ==
    ASSUME Inv, Provider
    PROVE  Inv'
<1>0. UNCHANGED <<tables, published, catalog, load>>
  BY DEF Provider, BeginMaterialize, CollectBatch, FinishMaterialize, CancelMaterialize, Serve
<1>1. work \in WorkRecord /\ WorkInv /\ tables \in [TableNames -> Nat]
  BY DEF Inv, TypeInv
<1>2. \A t \in TableNames : Len(published[t]) \in Nat /\ tables[t] <= Len(published[t])
  <2>1. \A t \in TableNames : tables[t] \in Nat /\ published[t] \in Seq(RowLists)
    BY DEF Inv, TypeInv
  <2>2. \A t \in TableNames : Len(published[t]) \in Nat
    BY <2>1
  <2> QED
    BY <2>1, <2>2 DEF Inv, TablesInv
<1>3. (TablesInv /\ LoadInv /\ CatalogInv)'
  BY <1>0 DEF Inv, TablesInv, LoadInv, GoodLoad, Progressed, CatalogInv, Registered
<1>4. Len(Provided.edges) \in Nat
  BY EdgesAreAList
<1>5. work' \in WorkRecord' /\ WorkInv'
  <2>1. CASE work' = Idle
    <3>1. <<>> \in Seq(ToSet(<<>>))
      OBVIOUS
    <3>2. work' \in WorkRecord' /\ work'.next = 0 /\ \A t \in TableNames : work'.since[t] = 0
      BY <2>1, <3>1 DEF Idle, WorkRecord
    <3> QED
      BY <1>0, <1>2, <3>2 DEF WorkInv
  <2>2. CASE work' = [Idle EXCEPT !.next = 1, !.since = tables]
    <3>1. <<>> \in Seq(ToSet(<<>>))
      OBVIOUS
    <3>2. work' = [next |-> 1, edges |-> <<>>, batches |-> <<>>, since |-> tables]
      BY <2>2 DEF Idle
    <3>3. work' \in WorkRecord' /\ work'.next = 1 /\ work'.batches = <<>> /\ work'.since = tables
      BY <1>1, <3>1, <3>2 DEF WorkRecord
    <3> QED
      BY <1>0, <1>2, <1>4, <3>3 DEF WorkInv
  <2>3. CASE CollectBatch /\ work' # Idle
    <3> DEFINE next == work.next
               edge == Provided.edges[next]
               edges == NumericEdges(Rows(edge.source), FALSE, FALSE)
               batch == [label |-> edge.label, edges |-> edges, version |-> tables[edge.source]]
    <3>1. /\ next \in DOMAIN Provided.edges
          /\ tables[edge.source] # 0
          /\ work' = [work EXCEPT !.next = @ + 1, !.edges = @ \o edges,
                                  !.batches = Append(@, batch)]
      BY <2>3 DEF CollectBatch
    <3>2. next \in 1..Len(Provided.edges) /\ edge.source \in TableNames
      BY <3>1, EdgesAreAList
    <3>3. /\ work.batches \in Seq(ToSet(work.batches)) /\ work.since \in [TableNames -> Nat]
          /\ DOMAIN work = {"next", "edges", "batches", "since"}
          /\ work = [next |-> work.next, edges |-> work.edges, batches |-> work.batches,
                     since |-> work.since]
      BY <1>1 DEF WorkRecord
    <3>4. batch.label = edge.label /\ batch.version = tables[edge.source]
      OBVIOUS
    <3> HIDE DEF batch, edges
    <3>5. work' = [next |-> next + 1, edges |-> work.edges \o edges,
                   batches |-> Append(work.batches, batch), since |-> work.since]
      BY <3>1, <3>3
    <3> DEFINE b == Append(work.batches, batch)
    <3>6. /\ b \in Seq(ToSet(b)) /\ Len(b) = Len(work.batches) + 1
          /\ \A i \in 1..Len(work.batches) : b[i] = work.batches[i]
          /\ b[Len(work.batches) + 1] = batch
      BY <3>3, AppendKeeps
    <3> HIDE DEF b
    <3>7. /\ work'.next = next + 1 /\ work'.batches = b /\ work'.since = work.since
          /\ work'.edges = work.edges \o edges
      BY <3>5 DEF b
    <3>8. work' \in WorkRecord'
      <4>1. next + 1 \in Nat
        BY <3>2
      <4>2. work' = [next |-> next + 1, edges |-> work'.edges, batches |-> b,
                     since |-> work.since]
        BY <3>5, <3>7 DEF b
      <4> QED
        BY <3>3, <3>6, <3>7, <4>1, <4>2 DEF WorkRecord
    <3>9. /\ Len(work.batches) = next - 1
          /\ \A i \in 1..(next - 1) :
                /\ work.batches[i].label = Provided.edges[i].label
                /\ work.batches[i].version >= work.since[Provided.edges[i].source]
      BY <1>1, <3>2 DEF WorkInv
    <3>10. tables[edge.source] >= work.since[edge.source]
      <4>1. tables[edge.source] = Len(published[edge.source])
        BY <3>1, <3>2 DEF Inv, TablesInv
      <4>2. work.since[edge.source] <= Len(published[edge.source])
        BY <1>1, <3>2 DEF WorkInv
      <4>3. work.since[edge.source] \in Nat
        BY <3>2, <3>3
      <4> QED
        BY <1>2, <3>2, <4>1, <4>2, <4>3
    <3>11. ASSUME NEW i \in 1..next
           PROVE  /\ b[i].label = Provided.edges[i].label
                  /\ b[i].version >= work.since[Provided.edges[i].source]
      <4>1. CASE i = next
        <5>1. b[i] = batch
          BY <3>2, <3>6, <3>9, <4>1
        <5> QED
          BY <3>4, <3>10, <4>1, <5>1
      <4>2. CASE i # next
        <5>1. i \in 1..(next - 1) /\ i \in 1..Len(work.batches)
          BY <3>2, <3>9, <4>2
        <5>2. b[i] = work.batches[i]
          BY <3>6, <5>1
        <5> QED
          BY <3>9, <5>1, <5>2
      <4> QED
        BY <4>1, <4>2
    <3>12. Len(b) = next /\ work'.next - 1 = next /\ work'.next \in 1..(Len(Provided.edges) + 1)
      BY <1>4, <3>2, <3>6, <3>7, <3>9
    <3> QED
      BY <1>0, <1>1, <3>7, <3>8, <3>11, <3>12 DEF WorkInv
  <2>4. CASE UNCHANGED work
    BY <1>0, <1>1, <2>4 DEF WorkRecord, WorkInv
  <2> QED
    BY <2>1, <2>2, <2>3, <2>4 DEF Provider, BeginMaterialize, CollectBatch, FinishMaterialize,
       CancelMaterialize, Serve
<1>6. TypeInv'
  BY <1>0, <1>5 DEF Inv, TypeInv
<1> QED
  BY <1>3, <1>5, <1>6 DEF Inv

(* Every step keeps the invariant, and so it always holds.                 *)
LEMMA InvHolds == Spec => []Inv
<1>1. Inv /\ [Next]_vars => Inv'
  <2> SUFFICES ASSUME Inv, [Next]_vars PROVE Inv'
    OBVIOUS
  <2>1. CASE Session
    BY <2>1, SessionKeeps DEF Session
  <2>2. CASE Provider
    BY <2>2, ProviderKeeps
  <2>3. ASSUME NEW l \in Loads, NEW call \in Calls, BeginLoad(l, call) PROVE Inv'
    BY <2>3, BeginLoadKeeps
  <2>4. ASSUME NEW l \in Loads, ScanTable(l) PROVE Inv'
    BY <2>4, ScanTableKeeps
  <2>5. ASSUME NEW l \in Loads, RegisterGraph(l) PROVE Inv'
    BY <2>5, RegisterKeeps
  <2>6. ASSUME NEW l \in Loads, CancelLoad(l) PROVE Inv'
    BY <2>6, StopKeeps DEF CancelLoad, LoadStep
  <2>7. CASE UNCHANGED vars
    <3>1. UNCHANGED <<tables, published, catalog, load, work>>
      BY <2>7 DEF vars
    <3>2. TypeInv' /\ TablesInv' /\ WorkInv'
      BY <3>1 DEF Inv, TypeInv, WorkRecord, TablesInv, WorkInv
    <3>3. LoadInv' /\ CatalogInv'
      BY <3>1 DEF Inv, LoadInv, GoodLoad, Progressed, CatalogInv, Registered
    <3> QED
      BY <3>2, <3>3 DEF Inv
  <2> QED
    BY <2>1, <2>2, <2>3, <2>4, <2>5, <2>6, <2>7 DEF Next, Load
<1> QED
  BY <1>1, InitInv, PTL DEF Spec

-----------------------------------------------------------------------------
(* Two lists that agree up to the length of the shorter: it is a prefix.   *)
LEMMA PrefixOf ==
    ASSUME NEW S, NEW s \in Seq(S), NEW t \in Seq(S), Len(s) <= Len(t),
           \A i \in 1..Len(s) : s[i] = t[i]
    PROVE  /\ IsPrefix(s, t)
           /\ s = t <=> Len(s) = Len(t)
<1>1. /\ SubSeq(s, 1, Len(s)) \in Seq(S) /\ SubSeq(t, 1, Len(s)) \in Seq(S)
      /\ Len(SubSeq(s, 1, Len(s))) = Len(s) /\ Len(SubSeq(t, 1, Len(s))) = Len(s)
      /\ \A i \in 1..Len(s) : SubSeq(s, 1, Len(s))[i] = s[i] /\ SubSeq(t, 1, Len(s))[i] = t[i]
  OBVIOUS
<1>2. SubSeq(s, 1, Len(s)) = SubSeq(t, 1, Len(s))
  BY <1>1
<1> QED
  BY <1>2 DEF IsPrefix

(* A load that fails or is dropped midway has registered exactly the edges *)
(* before the one it stopped at, one that ends well all of them, and no    *)
(* edge of a load replaces the graph of another (loader.rs:52, 118-145).   *)
(* Without validation's refusal of duplicate labels this would not hold.   *)
THEOREM LoadsArePrefixes == Spec => []LoadIsAPrefix
<1>1. Inv => LoadIsAPrefix
  <2> SUFFICES ASSUME Inv, NEW l \in Loads, Begun(l)
               PROVE  LET names == load[l].names
                          all == NamesOf(load[l].ontology)
                          Mine(i) == all[i] \in DOMAIN catalog /\ catalog[all[i]].by = l
                      IN  /\ IsPrefix(names, all)
                          /\ load[l].at = "ok" <=> names = all
                          /\ \A i \in DOMAIN all :
                                /\ i <= Len(names) => all[i] \in DOMAIN catalog
                                /\ Mine(i) => i <= Len(names) /\ catalog[all[i]].edge = i
    BY DEF LoadIsAPrefix
  <2> DEFINE o == load[l].ontology
             names == load[l].names
             all == NamesOf(o)
             next == load[l].next
  <2>1. load[l] \in LoadRecord /\ GoodLoad(load[l]) /\ o # None
    BY DEF Inv, TypeInv, LoadInv, Begun
  <2>2. /\ o \in Ontologies /\ Progressed(load[l]) /\ next \in Nat /\ names \in Seq(GraphNames)
        /\ \A i \in 1..(next - 1) : names[i] \in DOMAIN catalog
    BY <2>1 DEF GoodLoad, LoadRecord
  <2>3. Len(o.edges) \in Nat /\ DOMAIN o.edges = 1..Len(o.edges)
    BY <2>2, EdgesAreAList
  <2>4. /\ all \in Seq(GraphNames) /\ Len(all) = Len(o.edges)
        /\ DOMAIN all = 1..Len(o.edges)
        /\ \A i \in 1..Len(o.edges) : all[i] = GraphName(o, o.edges[i])
    <3>1. \A i \in DOMAIN o.edges : GraphName(o, o.edges[i]) \in GraphNames
      BY <2>2 DEF GraphNames
    <3>2. all = [i \in 1..Len(o.edges) |-> GraphName(o, o.edges[i])]
      BY <2>3 DEF NamesOf
    <3> QED
      BY <2>3, <3>1, <3>2
  <2>5. /\ ValidateOrError(o) = Ok /\ next \in 1..(Len(o.edges) + 1) /\ Len(names) = next - 1
        /\ \A i \in 1..(next - 1) : names[i] = GraphName(o, o.edges[i])
        /\ load[l].at = "ok" <=> next = Len(o.edges) + 1
    BY <2>2 DEF Progressed
  <2> HIDE DEF all, names, o, next
  <2>6. Len(names) <= Len(all) /\ \A i \in 1..Len(names) : names[i] = all[i]
    BY <2>3, <2>4, <2>5
  <2>7. IsPrefix(names, all) /\ (names = all <=> Len(names) = Len(all))
    BY <2>2, <2>4, <2>6, PrefixOf
  <2>8. load[l].at = "ok" <=> names = all
    BY <2>3, <2>4, <2>5, <2>7
  <2>9. ASSUME NEW i \in DOMAIN all, i <= Len(names)
        PROVE  all[i] \in DOMAIN catalog
    <3>1. i \in 1..(next - 1)
      BY <2>3, <2>4, <2>5, <2>9
    <3> QED
      BY <2>2, <2>5, <2>6, <3>1
  <2>10. ASSUME NEW i \in DOMAIN all, all[i] \in DOMAIN catalog, catalog[all[i]].by = l
         PROVE  i <= Len(names) /\ catalog[all[i]].edge = i
    <3> DEFINE j == catalog[all[i]].edge
    <3>1. j \in 1..(next - 1) /\ all[i] = GraphName(o, o.edges[j])
      BY <2>10 DEF Inv, CatalogInv, Registered, o, next
    <3>2. j \in DOMAIN o.edges /\ i \in DOMAIN o.edges
      BY <2>3, <2>4, <2>5, <3>1
    <3>3. GraphName(o, o.edges[i]) = GraphName(o, o.edges[j])
      BY <2>4, <3>1
    <3> HIDE DEF j
    <3>4. i = j
      BY <2>2, <2>5, <3>2, <3>3, ValidNames
    <3> QED
      BY <2>5, <3>1, <3>4 DEF j
  <2> QED
    BY <2>7, <2>8, <2>9, <2>10 DEF all, names, o, next
<1> QED
  BY <1>1, InvHolds, PTL

(* A name goes back to an older version of its table only when the load    *)
(* that registers it had begun before the newer one was published          *)
(* (loader.rs:117-141): a load scans a table when it comes to the edge,    *)
(* never from before its beginning.                                        *)
THEOREM NewerDataAlwaysStays == Spec => NewerDataStays
<1> DEFINE Stays ==
        \A name \in DOMAIN catalog : catalog'[name] # catalog[name] =>
            LET old == catalog[name]
                new == catalog'[name]
                t == load[new.by].ontology.edges[new.edge].source
            IN  (load[old.by].ontology.edges[old.edge].source = t /\ new.version < old.version)
                    => load[new.by].since[t] < old.version
<1>1. Inv /\ [Next]_vars => [Stays]_vars
  <2> SUFFICES ASSUME Inv, Next, NEW name \in DOMAIN catalog, catalog'[name] # catalog[name]
               PROVE  LET old == catalog[name]
                          new == catalog'[name]
                          t == load[new.by].ontology.edges[new.edge].source
                      IN  (/\ load[old.by].ontology.edges[old.edge].source = t
                           /\ new.version < old.version)
                              => load[new.by].since[t] < old.version
    BY DEF vars
  <2>1. PICK l \in Loads : RegisterGraph(l)
    BY DEF Next, Session, DropTable, Publish, Provider, BeginMaterialize, CollectBatch,
       FinishMaterialize, CancelMaterialize, Serve, Load, BeginLoad, ScanTable, CancelLoad, LoadStep
  <2> DEFINE o == load[l].ontology
             t == o.edges[load[l].next].source
  <2>2. /\ name = GraphName(o, o.edges[load[l].next])
        /\ catalog'[name].by = l /\ catalog'[name].edge = load[l].next
        /\ catalog'[name].version = load[l].version
        /\ load[l].version \in Nat /\ load[l].version >= load[l].since[t]
        /\ o \in Ontologies /\ load[l].next \in DOMAIN o.edges
    <3>1. ~(UNCHANGED catalog /\ load' = [load EXCEPT ![l] = [load[l] EXCEPT !.at = "failed"]])
      OBVIOUS
    <3>2. o \in Ontologies
      BY <2>1, <3>1, RegisterFacts
    <3>3. DOMAIN o.edges = 1..Len(o.edges)
      BY <3>2, EdgesAreAList
    <3> QED
      BY <2>1, <3>1, <3>3, RegisterFacts
  <2>3. catalog[name].version \in Nat
    BY DEF Inv, CatalogInv, Registered
  <2>4. load[l].since[t] \in Nat
    <3>1. t \in TableNames
      BY <2>2, EdgesAreAList
    <3> QED
      BY <3>1 DEF Inv, TypeInv, LoadRecord
  <2> HIDE DEF t
  <2>5. catalog'[name].version < catalog[name].version => load[l].since[t] < catalog[name].version
    BY <2>2, <2>3, <2>4
  <2> QED
    BY <2>2, <2>5 DEF t
<1>2. Spec => [][Stays]_vars
  BY <1>1, InvHolds, PTL DEF Spec
<1> QED
  BY <1>2 DEF NewerDataStays

(* A materialization that fails or is dropped leaves the provider as it    *)
(* was; one that ends well replaces graph and batches together, one batch  *)
(* for each edge definition and each read at some moment of the call       *)
(* (provider.rs:252-254).                                                  *)
THEOREM ProviderAlwaysChangesAtOnce == Spec => ProviderChangesAtOnce
<1> DEFINE AtOnce ==
        provider' # provider =>
            /\ provider'.materialized
            /\ Labels(provider'.batches) = Labels(Provided.edges)
            /\ \A i \in DOMAIN Provided.edges :
                  provider'.batches[i].version >= work.since[Provided.edges[i].source]
<1>1. Inv /\ [Next]_vars => [AtOnce]_vars
  <2> SUFFICES ASSUME Inv, Next, provider' # provider
               PROVE  /\ provider'.materialized
                      /\ Labels(provider'.batches) = Labels(Provided.edges)
                      /\ \A i \in DOMAIN Provided.edges :
                            provider'.batches[i].version >= work.since[Provided.edges[i].source]
    BY DEF vars
  <2>1. FinishMaterialize
    BY DEF Next, Session, DropTable, Publish, Provider, BeginMaterialize, CollectBatch,
       CancelMaterialize, Serve, Load, BeginLoad, ScanTable, RegisterGraph, CancelLoad, LoadStep
  <2>2. provider'.materialized /\ provider'.batches = work.batches
    BY <2>1 DEF FinishMaterialize
  <2>3. Len(Provided.edges) \in Nat /\ DOMAIN Provided.edges = 1..Len(Provided.edges)
    BY EdgesAreAList
  <2>4. work.next \in Nat /\ work.batches \in Seq(ToSet(work.batches))
    BY DEF Inv, TypeInv, WorkRecord
  <2>5. work.next = Len(Provided.edges) + 1
    BY <2>1, <2>3, <2>4 DEF Inv, WorkInv, FinishMaterialize
  <2>6. /\ Len(work.batches) = Len(Provided.edges)
        /\ \A i \in 1..Len(Provided.edges) :
              /\ work.batches[i].label = Provided.edges[i].label
              /\ work.batches[i].version >= work.since[Provided.edges[i].source]
    BY <2>3, <2>5 DEF Inv, WorkInv
  <2>7. DOMAIN work.batches = DOMAIN Provided.edges
    BY <2>3, <2>4, <2>6
  <2>8. Labels(work.batches) = Labels(Provided.edges)
    BY <2>3, <2>6, <2>7 DEF Labels
  <2> QED
    BY <2>2, <2>3, <2>6, <2>8
<1>2. Spec => [][AtOnce]_vars
  BY <1>1, InvHolds, PTL DEF Spec
<1> QED
  BY <1>2 DEF ProviderChangesAtOnce

-----------------------------------------------------------------------------
(***************************************************************************)
(* Induction over the natural numbers, for a set instead of a predicate.   *)
(***************************************************************************)
(* Among finite sets there is one that has none of the others in it.       *)
LEMMA SmallestSet ==
    ASSUME NEW F, F # {}, \A S \in F : IsFiniteSet(S)
    PROVE  \E S \in F : \A T \in F : T \subseteq S => T = S
<1> DEFINE U == UNION F
           R == StrictSubsetOrdering(U)
           D == FiniteSubsetsOf(U)
<1>1. IsWellFoundedOn(R, D)
  BY FS_StrictSubsetOrderingWellFounded
<1>2. F \subseteq D
  BY DEF FiniteSubsetsOf
<1>3. \E S \in F : \A T \in F : ~ (<<T, S>> \in R)
  <2> HIDE DEF R, D
  <2> QED
    BY <1>1, <1>2, WFMin
<1>4. \A S, T \in F : T \subseteq S /\ T # S => <<T, S>> \in R
  BY <1>2 DEF StrictSubsetOrdering, FiniteSubsetsOf
<1> HIDE DEF R
<1> QED
  BY <1>3, <1>4

(* Numbers have a least one.                                               *)
LEMMA LeastNat ==
    ASSUME NEW T \in SUBSET Nat, T # {}
    PROVE  \E x \in T : \A y \in T : x <= y
<1> DEFINE F == {0..x : x \in T}
<1>1. F # {} /\ \A S \in F : IsFiniteSet(S)
  <2>1. \A x \in T : IsFiniteSet(0..x)
    BY FS_Interval
  <2>2. F # {}
    OBVIOUS
  <2> QED
    BY <2>1, <2>2
<1>2. \E S \in F : \A Q \in F : Q \subseteq S => Q = S
  <2> HIDE DEF F
  <2> QED
    BY <1>1, SmallestSet
<1>3. PICK x \in T : \A y \in T : 0..y \subseteq 0..x => 0..y = 0..x
  <2>1. PICK S \in F : \A Q \in F : Q \subseteq S => Q = S
    BY <1>2
  <2>2. PICK x \in T : S = 0..x
    OBVIOUS
  <2>3. \A y \in T : 0..y \in F
    OBVIOUS
  <2> HIDE DEF F
  <2> QED
    BY <2>1, <2>2, <2>3
<1>4. ASSUME NEW y \in T, y < x PROVE FALSE
  <2>1. 0..y \subseteq 0..x /\ x \in 0..x /\ x \notin 0..y
    BY <1>4
  <2> QED
    BY <1>3, <2>1
<1> QED
  BY <1>4

(* A set with 0 and every successor of its members has all numbers.        *)
LEMMA SetInduction ==
    ASSUME NEW T \in SUBSET Nat, 0 \in T, \A n \in T : n + 1 \in T
    PROVE  T = Nat
<1> SUFFICES ASSUME T # Nat PROVE FALSE
  OBVIOUS
<1>1. PICK n \in Nat \ T : \A m \in Nat \ T : n <= m
  BY LeastNat
<1>2. n - 1 \in T
  BY <1>1
<1> QED
  BY <1>1, <1>2

(* The same for the numbers up to a bound.                                 *)
LEMMA UpTo ==
    ASSUME NEW n \in Nat, NEW T, 0 \in T, \A i \in 1..n : i - 1 \in T => i \in T
    PROVE  \A i \in 0..n : i \in T
<1> DEFINE S == {i \in Nat : i <= n => i \in T}
<1>1. 0 \in S
  OBVIOUS
<1>2. ASSUME NEW i \in S PROVE i + 1 \in S
  <2> SUFFICES ASSUME i + 1 <= n PROVE i + 1 \in T
    OBVIOUS
  <2>1. i + 1 \in 1..n /\ (i + 1) - 1 = i /\ i \in T
    OBVIOUS
  <2> QED
    BY <2>1
<1>3. S = Nat
  <2>1. S \in SUBSET Nat
    OBVIOUS
  <2> HIDE DEF S
  <2> QED
    BY <1>1, <1>2, <2>1, SetInduction
<1> QED
  BY <1>3

Runs(f, n, V, a, step) ==
    f \in [0..n -> V] /\ f[0] = a /\ \A i \in 1..n : f[i] = step[<<i, f[i - 1]>>]

(* A first value and a step determine the values that follow.              *)
LEMMA Recursion ==
    ASSUME NEW n \in Nat, NEW V, NEW a \in V, NEW step,
           \A i \in 1..n : \A v \in V : step[<<i, v>>] \in V
    PROVE  \E f : Runs(f, n, V, a, step)
<1> DEFINE T == {k \in 0..n : \E f : Runs(f, k, V, a, step)}
<1>1. 0 \in T
  <2>1. Runs([k \in 0..0 |-> a], 0, V, a, step)
    BY DEF Runs
  <2> QED
    BY <2>1
<1>2. ASSUME NEW k \in 1..n, k - 1 \in T PROVE k \in T
  <2>1. PICK f : Runs(f, k - 1, V, a, step)
    BY <1>2
  <2> DEFINE g == [i \in 0..k |-> IF i = k THEN step[<<k, f[k - 1]>>] ELSE f[i]]
  <2>2. f[k - 1] \in V /\ step[<<k, f[k - 1]>>] \in V
    <3>1. k - 1 \in 0..(k - 1) /\ f \in [0..(k - 1) -> V]
      BY <2>1 DEF Runs
    <3>2. f[k - 1] \in V
      BY <3>1
    <3> QED
      BY <3>2
  <2>3. g \in [0..k -> V] /\ g[0] = a
    BY <2>1, <2>2 DEF Runs
  <2>4. ASSUME NEW i \in 1..k PROVE g[i] = step[<<i, g[i - 1]>>]
    <3>1. g[i - 1] = f[i - 1]
      OBVIOUS
    <3>2. CASE i = k
      BY <3>1, <3>2
    <3>3. CASE i # k
      <4>1. i \in 1..(k - 1) /\ g[i] = f[i]
        BY <3>3
      <4> QED
        BY <2>1, <3>1, <4>1 DEF Runs
    <3> QED
      BY <3>2, <3>3
  <2>5. Runs(g, k, V, a, step)
    BY <2>3, <2>4 DEF Runs
  <2> HIDE DEF g
  <2> QED
    BY <2>5
<1>3. \A k \in 0..n : k \in T
  <2> HIDE DEF T
  <2> QED
    BY <1>1, <1>2, UpTo
<1> QED
  BY <1>3

(***************************************************************************)
(* Keep and FlattenSeq: what the recursive functions in them compute.      *)
(***************************************************************************)
Keeps(f, seq, set) ==
    f = [i \in 0..Len(seq) |->
            IF i = 0 THEN <<>>
            ELSE IF seq[i] \in set THEN Append(f[i - 1], seq[i]) ELSE f[i - 1]]

(* The values of such a function, step by step, for elements of V.         *)
KeepsUpTo(f, V, seq, set) ==
    /\ f \in [0..Len(seq) -> Seq(V)]
    /\ f[0] = <<>>
    /\ \A i \in 1..Len(seq) :
          f[i] = IF seq[i] \in set THEN Append(f[i - 1], seq[i]) ELSE f[i - 1]

(* Keep passes through the elements one after the other.                   *)
LEMMA KeepUnfolds ==
    ASSUME NEW V, NEW seq \in Seq(V), NEW set
    PROVE  \E f : KeepsUpTo(f, V, seq, set) /\ Keep(seq, set) = f[Len(seq)]
<1> DEFINE n == Len(seq)
           W == Seq(V)
           Next1(i, v) == IF seq[i] \in set THEN Append(v, seq[i]) ELSE v
           step == [p \in (1..n) \X W |-> Next1(p[1], p[2])]
<1>1. n \in Nat /\ <<>> \in W
  OBVIOUS
<1>2. \A i \in 1..n : \A v \in W : Next1(i, v) \in W
  OBVIOUS
<1>3. \A i \in 1..n : \A v \in W : step[<<i, v>>] = Next1(i, v)
  OBVIOUS
<1>4. \A i \in 1..n : \A v \in W : step[<<i, v>>] \in W
  <2> HIDE DEF step, Next1, n, W
  <2> QED
    BY <1>2, <1>3, Zenon
<1> DEFINE first == <<>>
<1>5. \E f : Runs(f, n, W, first, step)
  <2>1. first \in W
    BY <1>1
  <2> HIDE DEF step, n, W, first
  <2> QED
    BY <1>1, <1>4, <2>1, Recursion
<1>6. PICK f : Runs(f, n, W, first, step)
  BY <1>5
<1>7. f \in [0..n -> W] /\ f[0] = <<>> /\ \A i \in 1..n : f[i] = step[<<i, f[i - 1]>>]
  <2> HIDE DEF step, n, W
  <2> QED
    BY <1>6 DEF Runs
<1>8. \A i \in 1..n : f[i] = Next1(i, f[i - 1])
  <2>1. \A i \in 1..n : i - 1 \in 0..n
    BY <1>1
  <2> HIDE DEF step, Next1, n, W
  <2> QED
    BY <1>3, <1>7, <2>1
<1>9. Keeps(f, seq, set)
  <2>1. f = [i \in 0..n |-> f[i]]
    BY <1>7
  <2>2. \A i \in 0..n : f[i] = IF i = 0 THEN <<>> ELSE Next1(i, f[i - 1])
    <3>1. \A i \in 0..n : i = 0 \/ i \in 1..n
      BY <1>1
    <3> HIDE DEF Next1, n
    <3> QED
      BY <1>7, <1>8, <3>1
  <2>3. f = [i \in 0..n |-> IF i = 0 THEN <<>> ELSE Next1(i, f[i - 1])]
    <3> HIDE DEF Next1, n
    <3> QED
      BY <2>1, <2>2, Zenon
  <2> QED
    BY <2>3 DEF Keeps
<1> DEFINE g == CHOOSE h : Keeps(h, seq, set)
<1>10. Keeps(g, seq, set) /\ Keep(seq, set) = g[n]
  BY <1>9, Zenon DEF Keeps, Keep
<1>11. g = [i \in 0..n |-> IF i = 0 THEN <<>> ELSE Next1(i, g[i - 1])]
  <2> HIDE DEF g
  <2> QED
    BY <1>10 DEF Keeps
<1>12. g[0] = <<>> /\ \A i \in 1..n : g[i] = Next1(i, g[i - 1])
  <2> HIDE DEF g, Next1, n
  <2>1. 0 \in 0..n /\ \A i \in 1..n : i \in 0..n /\ i # 0
    BY <1>1
  <2> QED
    BY <1>11, <2>1
<1>13. \A i \in 0..n : g[i] \in W
  <2> DEFINE T == {i \in 0..n : g[i] \in W}
  <2> HIDE DEF g, Next1, n, W
  <2>1. 0 \in T
    BY <1>1, <1>12
  <2>2. \A i \in 1..n : i - 1 \in T => i \in T
    BY <1>1, <1>2, <1>12
  <2>3. \A i \in 0..n : i \in T
    <3> HIDE DEF T
    <3> QED
      BY <1>1, <2>1, <2>2, UpTo
  <2> QED
    BY <2>3
<1>14. g \in [0..n -> W]
  <2> HIDE DEF g, Next1, n, W
  <2> QED
    BY <1>11, <1>13
<1>15. KeepsUpTo(g, V, seq, set)
  BY <1>12, <1>14 DEF KeepsUpTo
<1> HIDE DEF g
<1> QED
  BY <1>10, <1>15

(* It keeps the elements of the set, and no others.                        *)
LEMMA KeepElements ==
    ASSUME NEW V, NEW seq \in Seq(V), NEW set
    PROVE  /\ Keep(seq, set) \in Seq(V)
           /\ ToSet(Keep(seq, set)) = ToSet(seq) \cap set
<1> DEFINE n == Len(seq)
<1>1. PICK f : KeepsUpTo(f, V, seq, set) /\ Keep(seq, set) = f[n]
  BY KeepUnfolds
<1>2. /\ f \in [0..n -> Seq(V)] /\ f[0] = <<>> /\ Keep(seq, set) = f[n]
      /\ \A i \in 1..n : f[i] = IF seq[i] \in set THEN Append(f[i - 1], seq[i]) ELSE f[i - 1]
  BY <1>1 DEF KeepsUpTo
<1> DEFINE T == {i \in 0..n : ToSet(f[i]) = {seq[j] : j \in 1..i} \cap set}
<1>3. 0 \in T
  BY <1>2 DEF ToSet
<1>4. ASSUME NEW i \in 1..n, i - 1 \in T PROVE i \in T
  <2>1. f[i - 1] \in Seq(V) /\ seq[i] \in V /\ i - 1 \in 0..n
    BY <1>2
  <2>2. {seq[j] : j \in 1..i} = {seq[j] : j \in 1..(i - 1)} \cup {seq[i]}
    <3>1. \A j : j \in 1..i <=> j \in 1..(i - 1) \/ j = i
      OBVIOUS
    <3> QED
      BY <3>1, Zenon
  <2>3. CASE seq[i] \in set
    <3>1. f[i] = Append(f[i - 1], seq[i])
      BY <1>2, <2>3
    <3>2. ToSet(f[i]) = ToSet(f[i - 1]) \cup {seq[i]}
      <4>1. Len(f[i]) = Len(f[i - 1]) + 1 /\ f[i][Len(f[i - 1]) + 1] = seq[i]
            /\ \A j \in 1..Len(f[i - 1]) : f[i][j] = f[i - 1][j]
        BY <2>1, <3>1
      <4>2. DOMAIN f[i] = 1..(Len(f[i - 1]) + 1) /\ DOMAIN f[i - 1] = 1..Len(f[i - 1])
            /\ Len(f[i - 1]) \in Nat
        BY <2>1, <3>1, <4>1
      <4>3. \A j : j \in DOMAIN f[i] <=> j \in DOMAIN f[i - 1] \/ j = Len(f[i - 1]) + 1
        BY <4>2
      <4> QED
        BY <4>1, <4>2, <4>3 DEF ToSet
    <3> QED
      BY <1>4, <2>2, <2>3, <3>2
  <2>4. CASE seq[i] \notin set
    <3>1. f[i] = f[i - 1]
      BY <1>2, <2>4
    <3> QED
      BY <1>4, <2>2, <2>4, <3>1
  <2> QED
    BY <2>3, <2>4
<1>5. \A i \in 0..n : i \in T
  <2>1. n \in Nat
    OBVIOUS
  <2> HIDE DEF T
  <2> QED
    BY <1>3, <1>4, <2>1, UpTo
<1>6. n \in T
  BY <1>5
<1>7. {seq[j] : j \in 1..n} = ToSet(seq)
  BY DEF ToSet
<1> QED
  BY <1>2, <1>6, <1>7

(* Appending to the second of two sequences appends to both.               *)
AppendsLast(s, t, x) == Append(s \o t, x) = s \o Append(t, x)

LEMMA AppendLast ==
    ASSUME NEW V, NEW s \in Seq(V), NEW t \in Seq(V), NEW x \in V
    PROVE  AppendsLast(s, t, x)
BY DEF AppendsLast

(* Two sequences may be filtered one after the other.                      *)
LEMMA KeepConcat ==
    ASSUME NEW V, NEW s \in Seq(V), NEW t \in Seq(V), NEW set
    PROVE  Keep(s \o t, set) = Keep(s, set) \o Keep(t, set)
<1> DEFINE u == s \o t
           n == Len(s)
           m == Len(t)
<1>1. /\ n \in Nat /\ m \in Nat /\ u \in Seq(V) /\ Len(u) = n + m
      /\ (\A i \in 1..n : u[i] = s[i]) /\ (\A i \in 1..m : u[n + i] = t[i] /\ t[i] \in V)
  OBVIOUS
<1> HIDE DEF u
<1>2. PICK f : KeepsUpTo(f, V, s, set) /\ Keep(s, set) = f[n]
  BY KeepUnfolds
<1>3. PICK g : KeepsUpTo(g, V, t, set) /\ Keep(t, set) = g[m]
  BY KeepUnfolds
<1>4. PICK h : KeepsUpTo(h, V, u, set) /\ Keep(u, set) = h[Len(u)]
  BY <1>1, KeepUnfolds
<1>5. /\ f \in [0..n -> Seq(V)] /\ f[0] = <<>>
      /\ \A i \in 1..n : f[i] = IF s[i] \in set THEN Append(f[i - 1], s[i]) ELSE f[i - 1]
  BY <1>2 DEF KeepsUpTo
<1>6. /\ g \in [0..m -> Seq(V)] /\ g[0] = <<>>
      /\ \A i \in 1..m : g[i] = IF t[i] \in set THEN Append(g[i - 1], t[i]) ELSE g[i - 1]
  BY <1>3 DEF KeepsUpTo
<1>7. /\ h \in [0..(n + m) -> Seq(V)] /\ h[0] = <<>>
      /\ \A i \in 1..(n + m) : h[i] = IF u[i] \in set THEN Append(h[i - 1], u[i]) ELSE h[i - 1]
  BY <1>1, <1>4 DEF KeepsUpTo
<1> HIDE DEF n, m
<1>8. h[n] = f[n]
  <2> DEFINE T == {i \in 0..n : h[i] = f[i]}
  <2>1. 0 \in T
    BY <1>1, <1>5, <1>7
  <2>2. ASSUME NEW i \in 1..n, i - 1 \in T PROVE i \in T
    <3>1. h[i - 1] = f[i - 1] /\ u[i] = s[i] /\ i \in 1..(n + m) /\ i \in 0..n
      BY <1>1, <2>2
    <3>2. h[i] = f[i]
      BY <1>5, <1>7, <3>1
    <3> QED
      BY <3>1, <3>2
  <2>3. \A i \in 0..n : i \in T
    <3> HIDE DEF T
    <3> QED
      BY <1>1, <2>1, <2>2, UpTo
  <2> QED
    BY <1>1, <2>3
<1>9. h[n + m] = f[n] \o g[m]
  <2> DEFINE T == {i \in 0..m : h[n + i] = f[n] \o g[i]}
  <2>1. f[n] \in Seq(V) /\ \A i \in 0..m : g[i] \in Seq(V)
    BY <1>1, <1>5, <1>6
  <2>2. 0 \in T
    <3>1. f[n] \o <<>> = f[n]
      BY <2>1
    <3>2. n + 0 = n /\ 0 \in 0..m
      BY <1>1
    <3>3. h[n + 0] = f[n] \o g[0]
      BY <1>6, <1>8, <3>1, <3>2
    <3> QED
      BY <3>2, <3>3
  <2>3. ASSUME NEW i \in 1..m, i - 1 \in T PROVE i \in T
    <3>1. /\ n + (i - 1) = (n + i) - 1 /\ n + i \in 1..(n + m) /\ i \in 0..m /\ i - 1 \in 0..m
          /\ u[n + i] = t[i] /\ t[i] \in V
      BY <1>1
    <3>2. h[(n + i) - 1] = f[n] \o g[i - 1]
      BY <2>3, <3>1
    <3>3. h[n + i] = IF t[i] \in set THEN Append(f[n] \o g[i - 1], t[i]) ELSE f[n] \o g[i - 1]
      BY <1>7, <3>1, <3>2
    <3>4. Append(f[n] \o g[i - 1], t[i]) = f[n] \o Append(g[i - 1], t[i])
      <4>1. f[n] \in Seq(V) /\ g[i - 1] \in Seq(V) /\ t[i] \in V
        BY <2>1, <3>1
      <4>2. AppendsLast(f[n], g[i - 1], t[i])
        BY <4>1, AppendLast
      <4> QED
        BY <4>2, Zenon DEF AppendsLast
    <3>5. h[n + i] = f[n] \o g[i]
      BY <1>6, <3>3, <3>4
    <3> QED
      BY <3>1, <3>5
  <2>4. \A i \in 0..m : i \in T
    <3> HIDE DEF T
    <3> QED
      BY <1>1, <2>2, <2>3, UpTo
  <2>5. m \in T
    <3> HIDE DEF T
    <3> QED
      BY <1>1, <2>4
  <2> QED
    BY <2>5
<1> QED
  BY <1>1, <1>2, <1>3, <1>4, <1>9 DEF u

Flattens(f, seqs) ==
    f = [i \in 1..Len(seqs) |-> IF i = 1 THEN seqs[i] ELSE f[i - 1] \o seqs[i]]

(* The values of such a function, for sequences over V.                    *)
FlattensUpTo(f, V, seqs) ==
    /\ f \in [1..Len(seqs) -> Seq(V)]
    /\ f[1] = seqs[1]
    /\ \A i \in 2..Len(seqs) : f[i] = f[i - 1] \o seqs[i]

(* FlattenSeq joins the sequences from the left.                           *)
LEMMA FlattenUnfolds ==
    ASSUME NEW V, NEW seqs \in Seq(Seq(V)), seqs # <<>>
    PROVE  \E f : FlattensUpTo(f, V, seqs) /\ FlattenSeq(seqs) = f[Len(seqs)]
<1> DEFINE n == Len(seqs)
           W == Seq(V)
           Joined(i, v) == IF i = 1 THEN seqs[i] ELSE v \o seqs[i]
           step == [p \in (1..n) \X W |-> Joined(p[1], p[2])]
           first == <<>>
<1>1. n \in Nat /\ n > 0 /\ first \in W /\ \A i \in 1..n : seqs[i] \in W
  OBVIOUS
<1>2. \A v, w \in W : v \o w \in W
  OBVIOUS
<1>3. \A i \in 1..n : \A v \in W : Joined(i, v) \in W
  BY <1>1
<1>4. \A i \in 1..n : \A v \in W : step[<<i, v>>] = Joined(i, v)
  OBVIOUS
<1>5. \A i \in 1..n : \A v \in W : step[<<i, v>>] \in W
  <2> HIDE DEF step, Joined, n, W
  <2> QED
    BY <1>3, <1>4, Zenon
<1>6. \E f : Runs(f, n, W, first, step)
  <2> HIDE DEF step, n, W, first
  <2> QED
    BY <1>1, <1>5, Recursion
<1>7. PICK f : Runs(f, n, W, first, step)
  BY <1>6
<1>8. f \in [0..n -> W] /\ f[0] = <<>> /\ \A i \in 1..n : f[i] = step[<<i, f[i - 1]>>]
  <2> HIDE DEF step, n, W
  <2> QED
    BY <1>7 DEF Runs
<1>9. \A i \in 1..n : f[i] = Joined(i, f[i - 1])
  <2>1. \A i \in 1..n : i - 1 \in 0..n
    BY <1>1
  <2> HIDE DEF step, Joined, n, W
  <2> QED
    BY <1>4, <1>8, <2>1
<1> DEFINE g == [i \in 1..n |-> f[i]]
<1>10. Flattens(g, seqs)
  <2>1. \A i \in 1..n : g[i] = IF i = 1 THEN seqs[i] ELSE g[i - 1] \o seqs[i]
    <3> SUFFICES ASSUME NEW i \in 1..n
                 PROVE  g[i] = IF i = 1 THEN seqs[i] ELSE g[i - 1] \o seqs[i]
      OBVIOUS
    <3>1. g[i] = Joined(i, f[i - 1])
      <4> HIDE DEF Joined, n
      <4> QED
        BY <1>9
    <3>2. i # 1 => g[i - 1] = f[i - 1]
      BY <1>1
    <3> QED
      BY <3>1, <3>2
  <2>2. g = [i \in 1..n |-> g[i]]
    OBVIOUS
  <2> HIDE DEF g
  <2> QED
    BY <2>1, <2>2 DEF Flattens
<1> DEFINE h == CHOOSE k : Flattens(k, seqs)
<1>11. Flattens(h, seqs) /\ FlattenSeq(seqs) = h[n]
  <2>1. FlattenSeq(seqs) = h[n]
    BY <1>1 DEF FlattenSeq, Flattens
  <2>2. Flattens(h, seqs)
    <3> HIDE DEF g
    <3> QED
      BY <1>10
  <2> QED
    BY <2>1, <2>2
<1> HIDE DEF h
<1>12. h = [i \in 1..n |-> IF i = 1 THEN seqs[i] ELSE h[i - 1] \o seqs[i]]
  BY <1>11 DEF Flattens
<1>13. h[1] = seqs[1] /\ \A i \in 2..n : h[i] = h[i - 1] \o seqs[i]
  <2>1. 1 \in 1..n /\ \A i \in 2..n : i \in 1..n /\ i # 1
    BY <1>1
  <2> HIDE DEF n
  <2> QED
    BY <1>12, <2>1
<1>14. \A i \in 1..n : h[i] \in W
  <2> DEFINE T == {i \in 0..n : i = 0 \/ h[i] \in W}
  <2> HIDE DEF n
  <2>1. 0 \in T
    BY <1>1
  <2>2. ASSUME NEW i \in 1..n, i - 1 \in T PROVE i \in T
    <3>1. CASE i = 1
      BY <1>1, <1>13, <3>1
    <3>2. CASE i # 1
      <4>1. i \in 2..n /\ h[i - 1] \in W
        BY <1>1, <2>2, <3>2
      <4>2. h[i] = h[i - 1] \o seqs[i]
        BY <1>13, <4>1
      <4>3. h[i] \in W
        <5> HIDE DEF W
        <5> QED
          BY <1>1, <1>2, <4>1, <4>2
      <4> QED
        BY <1>1, <4>3
    <3> QED
      BY <3>1, <3>2
  <2>3. \A i \in 0..n : i \in T
    <3> HIDE DEF T
    <3> QED
      BY <1>1, <2>1, <2>2, UpTo
  <2> QED
    BY <1>1, <2>3
<1>15. FlattensUpTo(h, V, seqs)
  <2>1. h \in [1..n -> W]
    <3> HIDE DEF n, W
    <3> QED
      BY <1>12, <1>14
  <2> QED
    BY <1>13, <2>1 DEF FlattensUpTo
<1> QED
  BY <1>11, <1>15

(* One more sequence is joined at the end.                                 *)
LEMMA FlattenAppend ==
    ASSUME NEW V, NEW seqs \in Seq(Seq(V)), NEW s \in Seq(V)
    PROVE  FlattenSeq(seqs) \in Seq(V) /\ FlattenSeq(Append(seqs, s)) = FlattenSeq(seqs) \o s
<1> DEFINE n == Len(seqs)
           more == Append(seqs, s)
           W == Seq(V)
<1>1. /\ n \in Nat /\ more \in Seq(W) /\ Len(more) = n + 1 /\ more # <<>>
      /\ \A i \in 1..n : more[i] = seqs[i]
      /\ more[n + 1] = s
  <2>1. seqs \in Seq(W) /\ s \in W
    OBVIOUS
  <2> HIDE DEF W
  <2>2. n \in Nat /\ more \in Seq(W) /\ Len(more) = n + 1
    BY <2>1
  <2>3. (\A i \in 1..n : more[i] = seqs[i]) /\ more[n + 1] = s
    BY <2>1
  <2>4. more # <<>>
    BY <2>2
  <2> QED
    BY <2>2, <2>3, <2>4
<1> HIDE DEF more
<1>2. PICK h : FlattensUpTo(h, V, more) /\ FlattenSeq(more) = h[n + 1]
  BY <1>1, FlattenUnfolds
<1>3. /\ h \in [1..(n + 1) -> W] /\ h[1] = more[1]
      /\ \A i \in 2..(n + 1) : h[i] = h[i - 1] \o more[i]
  BY <1>1, <1>2 DEF FlattensUpTo
<1>4. CASE seqs = <<>>
  <2>1. n = 0 /\ FlattenSeq(seqs) = <<>>
    BY <1>4 DEF FlattenSeq
  <2>2. FlattenSeq(more) = s
    BY <1>1, <1>2, <1>3, <2>1
  <2>3. <<>> \o s = s /\ <<>> \in W
    OBVIOUS
  <2> QED
    BY <2>1, <2>2, <2>3 DEF more
<1>5. CASE seqs # <<>>
  <2>1. PICK f : FlattensUpTo(f, V, seqs) /\ FlattenSeq(seqs) = f[n]
    BY <1>5, FlattenUnfolds
  <2>2. /\ f \in [1..n -> W] /\ f[1] = seqs[1]
        /\ \A i \in 2..n : f[i] = f[i - 1] \o seqs[i]
    BY <2>1 DEF FlattensUpTo
  <2>3. n > 0
    BY <1>5
  <2> HIDE DEF n, W
  <2> DEFINE T == {i \in 0..n : i = 0 \/ h[i] = f[i]}
  <2>4. 0 \in T
    BY <1>1
  <2>5. ASSUME NEW i \in 1..n, i - 1 \in T PROVE i \in T
    <3>1. CASE i = 1
      <4>1. h[1] = f[1] /\ 1 \in 0..n
        BY <1>1, <1>3, <2>2, <2>3
      <4> QED
        BY <3>1, <4>1
    <3>2. CASE i # 1
      <4>1. i \in 2..n /\ i \in 2..(n + 1) /\ i \in 0..n /\ i - 1 # 0
        BY <1>1, <3>2
      <4>2. h[i - 1] = f[i - 1] /\ more[i] = seqs[i]
        BY <1>1, <2>5, <4>1
      <4>3. h[i] = f[i]
        BY <1>3, <2>2, <4>1, <4>2
      <4> QED
        BY <4>1, <4>3
    <3> QED
      BY <3>1, <3>2
  <2>6. \A i \in 0..n : i \in T
    <3> HIDE DEF T
    <3> QED
      BY <1>1, <2>4, <2>5, UpTo
  <2>7. h[n] = f[n]
    BY <1>1, <2>3, <2>6
  <2>8. n + 1 \in 2..(n + 1) /\ (n + 1) - 1 = n
    BY <1>1, <2>3
  <2>9. h[n + 1] = f[n] \o s
    BY <1>1, <1>3, <2>7, <2>8
  <2>10. n \in 1..n
    BY <1>1, <2>3
  <2> QED
    BY <1>2, <2>1, <2>2, <2>9, <2>10 DEF more, W
<1> QED
  BY <1>4, <1>5

(***************************************************************************)
(* Dictionaries.                                                           *)
(***************************************************************************)
\* The first ids of a dictionary keep their keys.
Extends(longer, dictionary) ==
    /\ Len(dictionary) <= Len(longer)
    /\ \A id \in Ids(dictionary) : KeyOf(longer, id) = KeyOf(dictionary, id)

(* Interning a key gives its id, and takes no id from another key.         *)
LEMMA InternsKey ==
    ASSUME NEW K, NEW dictionary \in Seq(K), NEW key \in K,
           NEW r, r = GetOrInsert(dictionary, key)
    PROVE  /\ r.dictionary \in Seq(K) /\ r.id \in Ids(r.dictionary)
           /\ KeyOf(r.dictionary, r.id) = key
           /\ Extends(r.dictionary, dictionary)
           /\ IsInjective(dictionary) => IsInjective(r.dictionary)
<1> DEFINE n == Len(dictionary)
<1>1. n \in Nat /\ DOMAIN dictionary = 1..n
  OBVIOUS
<1>2. CASE Knows(dictionary, key)
  <2>1. r = [id |-> IdOf(dictionary, key), dictionary |-> dictionary]
    BY <1>2 DEF GetOrInsert
  <2>2. IdOf(dictionary, key) \in Ids(dictionary)
        /\ KeyOf(dictionary, IdOf(dictionary, key)) = key
    BY <1>2, Zenon DEF Knows, IdOf
  <2> QED
    BY <1>1, <2>1, <2>2 DEF Extends
<1>3. CASE ~Knows(dictionary, key)
  <2>1. r.id = n /\ r.dictionary = Append(dictionary, key)
    BY <1>3 DEF GetOrInsert
  <2> DEFINE longer == Append(dictionary, key)
  <2>2. /\ longer \in Seq(K) /\ Len(longer) = n + 1 /\ DOMAIN longer = 1..(n + 1)
        /\ longer[n + 1] = key /\ \A i \in 1..n : longer[i] = dictionary[i]
    OBVIOUS
  <2>3. \A i \in 1..n : dictionary[i] # key
    <3> SUFFICES ASSUME NEW i \in 1..n, dictionary[i] = key PROVE FALSE
      OBVIOUS
    <3>1. i - 1 \in 0..(n - 1) /\ (i - 1) + 1 = i
      BY <1>1
    <3> QED
      BY <1>3, <3>1 DEF Knows, Ids, KeyOf
  <2> HIDE DEF longer
  <2>4. n \in Ids(longer) /\ KeyOf(longer, n) = key
    BY <1>1, <2>2 DEF Ids, KeyOf
  <2>5. Extends(longer, dictionary)
    <3>1. \A id \in 0..(n - 1) : id + 1 \in 1..n
      BY <1>1
    <3> HIDE DEF n
    <3> QED
      BY <1>1, <2>2, <3>1 DEF Extends, Ids, KeyOf, n
  <2>6. ASSUME IsInjective(dictionary) PROVE IsInjective(longer)
    <3>1. \A a, b \in 1..n : dictionary[a] = dictionary[b] => a = b
      BY <1>1, <2>6 DEF IsInjective
    <3>2. \A a \in 1..(n + 1) : a = n + 1 \/ a \in 1..n
      BY <1>1
    <3> HIDE DEF n
    <3>3. \A a, b \in 1..(n + 1) : longer[a] = longer[b] => a = b
      BY <2>2, <2>3, <3>1, <3>2
    <3> QED
      BY <2>2, <3>3 DEF IsInjective
  <2> QED
    BY <2>1, <2>2, <2>4, <2>5, <2>6 DEF longer
<1> QED
  BY <1>2, <1>3

\* The edges over the ids of a dictionary.
Between(dictionary) == Ids(dictionary) \X Ids(dictionary)


(***************************************************************************)
(* Filters.                                                                *)
(***************************************************************************)
(* A filter passes the last element or not.                                *)
LEMMA KeepAppend ==
    ASSUME NEW V, NEW s \in Seq(V), NEW x \in V, NEW set
    PROVE  Keep(Append(s, x), set) = IF x \in set THEN Append(Keep(s, set), x) ELSE Keep(s, set)
<1> DEFINE u == Append(s, x)
           n == Len(s)
<1>1. /\ n \in Nat /\ u \in Seq(V) /\ Len(u) = n + 1
      /\ (\A i \in 1..n : u[i] = s[i]) /\ u[n + 1] = x
  OBVIOUS
<1> HIDE DEF u
<1>2. PICK f : KeepsUpTo(f, V, s, set) /\ Keep(s, set) = f[n]
  BY KeepUnfolds
<1>3. PICK h : KeepsUpTo(h, V, u, set) /\ Keep(u, set) = h[Len(u)]
  BY <1>1, KeepUnfolds
<1>4. /\ f \in [0..n -> Seq(V)] /\ f[0] = <<>>
      /\ \A i \in 1..n : f[i] = IF s[i] \in set THEN Append(f[i - 1], s[i]) ELSE f[i - 1]
  BY <1>2 DEF KeepsUpTo
<1>5. /\ h[0] = <<>> /\ Keep(u, set) = h[n + 1]
      /\ \A i \in 1..(n + 1) : h[i] = IF u[i] \in set THEN Append(h[i - 1], u[i]) ELSE h[i - 1]
  BY <1>1, <1>3 DEF KeepsUpTo
<1> HIDE DEF n
<1> DEFINE T == {i \in 0..n : h[i] = f[i]}
<1>6. 0 \in T
  BY <1>1, <1>4, <1>5
<1>7. ASSUME NEW i \in 1..n, i - 1 \in T PROVE i \in T
  <2>1. h[i - 1] = f[i - 1] /\ u[i] = s[i] /\ i \in 1..(n + 1) /\ i \in 0..n
    BY <1>1, <1>7
  <2>2. h[i] = f[i]
    BY <1>4, <1>5, <2>1
  <2> QED
    BY <2>1, <2>2
<1>8. \A i \in 0..n : i \in T
  <2> HIDE DEF T
  <2> QED
    BY <1>1, <1>6, <1>7, UpTo
<1>9. h[n] = f[n]
  BY <1>1, <1>8
<1>10. (n + 1) - 1 = n /\ n + 1 \in 1..(n + 1)
  BY <1>1
<1>11. h[n + 1] = IF x \in set THEN Append(h[n], x) ELSE h[n]
  BY <1>1, <1>5, <1>10
<1> QED
  BY <1>2, <1>5, <1>9, <1>11 DEF u

(* Two filters are one.                                                    *)
LEMMA KeepTwice ==
    ASSUME NEW V, NEW seq \in Seq(V), NEW A, NEW B, NEW C,
           \A x \in V : x \in C <=> x \in A /\ x \in B
    PROVE  Keep(Keep(seq, A), B) = Keep(seq, C)
<1> DEFINE n == Len(seq)
<1>1. n \in Nat /\ \A i \in 1..n : seq[i] \in V
  OBVIOUS
<1>2. PICK f : KeepsUpTo(f, V, seq, A) /\ Keep(seq, A) = f[n]
  BY KeepUnfolds
<1>3. PICK h : KeepsUpTo(h, V, seq, C) /\ Keep(seq, C) = h[n]
  BY KeepUnfolds
<1>4. /\ f \in [0..n -> Seq(V)] /\ f[0] = <<>>
      /\ \A i \in 1..n : f[i] = IF seq[i] \in A THEN Append(f[i - 1], seq[i]) ELSE f[i - 1]
  BY <1>2 DEF KeepsUpTo
<1>5. /\ h[0] = <<>>
      /\ \A i \in 1..n : h[i] = IF seq[i] \in C THEN Append(h[i - 1], seq[i]) ELSE h[i - 1]
  BY <1>3 DEF KeepsUpTo
<1> HIDE DEF n
<1> DEFINE T == {i \in 0..n : Keep(f[i], B) = h[i]}
<1>6. 0 \in T
  <2>1. Keep(<<>>, B) = <<>>
    <3> DEFINE empty == <<>>
    <3>1. empty \in Seq(V) /\ Len(empty) = 0
      OBVIOUS
    <3> HIDE DEF empty
    <3>2. PICK k : KeepsUpTo(k, V, empty, B) /\ Keep(empty, B) = k[Len(empty)]
      BY <3>1, KeepUnfolds
    <3>3. Keep(empty, B) = <<>>
      BY <3>1, <3>2 DEF KeepsUpTo
    <3> QED
      BY <3>3 DEF empty
  <2> QED
    BY <1>1, <1>4, <1>5, <2>1
<1>7. ASSUME NEW i \in 1..n, i - 1 \in T PROVE i \in T
  <2>1. Keep(f[i - 1], B) = h[i - 1] /\ i \in 0..n /\ i - 1 \in 0..n
    BY <1>1, <1>7
  <2>2. f[i - 1] \in Seq(V) /\ seq[i] \in V
    BY <1>1, <1>4, <2>1
  <2>3. Keep(Append(f[i - 1], seq[i]), B)
           = IF seq[i] \in B THEN Append(h[i - 1], seq[i]) ELSE h[i - 1]
    <3>1. \A s \in Seq(V) : \A x \in V :
             Keep(Append(s, x), B) = IF x \in B THEN Append(Keep(s, B), x) ELSE Keep(s, B)
      <4> TAKE s \in Seq(V)
      <4> TAKE x \in V
      <4> QED
        BY KeepAppend
    <3>2. Keep(Append(f[i - 1], seq[i]), B)
             = IF seq[i] \in B THEN Append(Keep(f[i - 1], B), seq[i]) ELSE Keep(f[i - 1], B)
      BY <2>2, <3>1, Zenon
    <3> QED
      BY <2>1, <3>2
  <2>4. seq[i] \in C <=> seq[i] \in A /\ seq[i] \in B
    BY <2>2
  <2>5. Keep(f[i], B) = h[i]
    <3>1. CASE seq[i] \in A
      BY <1>4, <1>5, <2>3, <2>4, <3>1
    <3>2. CASE seq[i] \notin A
      BY <1>4, <1>5, <2>1, <2>4, <3>2
    <3> QED
      BY <3>1, <3>2
  <2> QED
    BY <2>1, <2>5
<1>8. \A i \in 0..n : i \in T
  <2> HIDE DEF T
  <2> QED
    BY <1>1, <1>6, <1>7, UpTo
<1> QED
  BY <1>1, <1>2, <1>3, <1>8

(* A filter that passes the same elements gives the same sequence.         *)
LEMMA KeepSame ==
    ASSUME NEW V, NEW seq \in Seq(V), NEW A, NEW B, \A x \in V : x \in A <=> x \in B
    PROVE  Keep(seq, A) = Keep(seq, B)
<1> DEFINE n == Len(seq)
<1>1. n \in Nat /\ \A i \in 1..n : seq[i] \in V
  OBVIOUS
<1>2. PICK f : KeepsUpTo(f, V, seq, A) /\ Keep(seq, A) = f[n]
  BY KeepUnfolds
<1>3. PICK h : KeepsUpTo(h, V, seq, B) /\ Keep(seq, B) = h[n]
  BY KeepUnfolds
<1>4. /\ f[0] = <<>> /\ h[0] = <<>>
      /\ \A i \in 1..n : f[i] = IF seq[i] \in A THEN Append(f[i - 1], seq[i]) ELSE f[i - 1]
      /\ \A i \in 1..n : h[i] = IF seq[i] \in B THEN Append(h[i - 1], seq[i]) ELSE h[i - 1]
  BY <1>2, <1>3 DEF KeepsUpTo
<1> HIDE DEF n
<1> DEFINE T == {i \in 0..n : f[i] = h[i]}
<1>5. 0 \in T
  BY <1>1, <1>4
<1>6. ASSUME NEW i \in 1..n, i - 1 \in T PROVE i \in T
  BY <1>1, <1>4, <1>6
<1>7. \A i \in 0..n : i \in T
  <2> HIDE DEF T
  <2> QED
    BY <1>1, <1>5, <1>6, UpTo
<1> QED
  BY <1>1, <1>2, <1>3, <1>7

(***************************************************************************)
(* What a keyed table is encoded to.                                       *)
(***************************************************************************)
Projections(K) == [dictionary : Seq(K), edges : Seq(Nat \X Nat)]
Encoded(p) == IsInjective(p.dictionary) /\ ToSet(p.edges) \subseteq Between(p.dictionary)
KeysOf(dictionary, edge) == <<KeyOf(dictionary, edge[1]), KeyOf(dictionary, edge[2])>>
Whole(row) == Null \notin {row.from, row.to}
Nothing == [dictionary |-> <<>>, edges |-> <<>>]

\* A row was added to what is encoded.
Adds(r, p, row) ==
    \E edge \in Nat \X Nat :
        /\ r.edges = Append(p.edges, edge)
        /\ KeysOf(r.dictionary, edge) = <<row.from, row.to>>

Interned(r, p, row) ==
    /\ Encoded(r)
    /\ ~Whole(row) => r = p
    /\ Whole(row) => Adds(r, p, row)
    /\ \A old \in ToSet(p.edges) : KeysOf(r.dictionary, old) = KeysOf(p.dictionary, old)

(* A row with two ends adds its edge, and no other row adds anything.      *)
LEMMA InternsRow ==
    ASSUME NEW K, NEW p \in Projections(K), NEW row, row.from \in K, row.to \in K
    PROVE  /\ Intern(p, row) \in Projections(K)
           /\ Encoded(p) => Interned(Intern(p, row), p, row)
<1> DEFINE r == Intern(p, row)
           from == GetOrInsert(p.dictionary, row.from)
           to == GetOrInsert(from.dictionary, row.to)
           edge == <<from.id, to.id>>
<1>1. p.dictionary \in Seq(K) /\ p.edges \in Seq(Nat \X Nat)
  BY DEF Projections
<1>2. CASE ~Whole(row)
  <2>1. r = p
    BY <1>2 DEF Intern, Whole
  <2> HIDE DEF r
  <2>2. r \in Projections(K) /\ (Encoded(p) => Interned(r, p, row))
    BY <1>2, <2>1 DEF Interned
  <2> QED
    BY <2>2 DEF r
<1>3. CASE Whole(row)
  <2>1. /\ from.dictionary \in Seq(K) /\ from.id \in Ids(from.dictionary)
        /\ KeyOf(from.dictionary, from.id) = row.from
        /\ Extends(from.dictionary, p.dictionary)
        /\ IsInjective(p.dictionary) => IsInjective(from.dictionary)
    BY <1>1, InternsKey
  <2> HIDE DEF from
  <2>2. /\ to.dictionary \in Seq(K) /\ to.id \in Ids(to.dictionary)
        /\ KeyOf(to.dictionary, to.id) = row.to
        /\ Extends(to.dictionary, from.dictionary)
        /\ IsInjective(from.dictionary) => IsInjective(to.dictionary)
    BY <2>1, InternsKey
  <2>3. r = [dictionary |-> to.dictionary, edges |-> Append(p.edges, edge)]
    BY <1>3 DEF Intern, Whole, from
  <2> HIDE DEF to, r
  <2>4. Len(p.dictionary) \in Nat /\ Len(from.dictionary) \in Nat /\ Len(to.dictionary) \in Nat
    BY <1>1, <2>1, <2>2
  <2>5. \A id \in Ids(p.dictionary) :
           id \in Ids(to.dictionary) /\ KeyOf(to.dictionary, id) = KeyOf(p.dictionary, id)
    <3>1. /\ Ids(p.dictionary) \subseteq Ids(from.dictionary)
          /\ Ids(from.dictionary) \subseteq Ids(to.dictionary)
      BY <2>1, <2>2, <2>4 DEF Extends, Ids
    <3> QED
      BY <2>1, <2>2, <3>1 DEF Extends
  <2>6. from.id \in Ids(to.dictionary) /\ KeyOf(to.dictionary, from.id) = row.from
    <3>1. Ids(from.dictionary) \subseteq Ids(to.dictionary)
      BY <2>2, <2>4 DEF Extends, Ids
    <3> QED
      BY <2>1, <2>2, <3>1 DEF Extends
  <2>7. from.id \in Nat /\ to.id \in Nat
    BY <2>1, <2>2, <2>4 DEF Ids
  <2>8. edge \in Nat \X Nat /\ edge \in Between(to.dictionary)
    BY <2>2, <2>6, <2>7 DEF Between
  <2>9. KeysOf(to.dictionary, edge) = <<row.from, row.to>>
    BY <2>2, <2>6 DEF KeysOf
  <2> HIDE DEF edge
  <2>10. Append(p.edges, edge) \in Seq(Nat \X Nat)
         /\ ToSet(Append(p.edges, edge)) = ToSet(p.edges) \cup {edge}
    <3>1. Len(p.edges) \in Nat /\ DOMAIN p.edges = 1..Len(p.edges)
      BY <1>1
    <3>2. /\ Append(p.edges, edge) \in Seq(Nat \X Nat)
          /\ DOMAIN Append(p.edges, edge) = 1..(Len(p.edges) + 1)
          /\ Append(p.edges, edge)[Len(p.edges) + 1] = edge
          /\ \A i \in 1..Len(p.edges) : Append(p.edges, edge)[i] = p.edges[i]
      BY <1>1, <2>8
    <3>3. 1..(Len(p.edges) + 1) = 1..Len(p.edges) \cup {Len(p.edges) + 1}
      BY <3>1
    <3> QED
      BY <3>1, <3>2, <3>3 DEF ToSet
  <2>11. /\ r \in Projections(K) /\ r.dictionary = to.dictionary
         /\ r.edges = Append(p.edges, edge) /\ ToSet(r.edges) = ToSet(p.edges) \cup {edge}
    BY <2>2, <2>3, <2>10 DEF Projections
  <2>12. ASSUME Encoded(p) PROVE Encoded(r)
    <3>1. ToSet(p.edges) \subseteq Between(to.dictionary)
      BY <2>5, <2>12 DEF Encoded, Between
    <3> QED
      BY <2>1, <2>2, <2>8, <2>11, <2>12, <3>1 DEF Encoded
  <2>13. ASSUME Encoded(p), NEW old \in ToSet(p.edges)
         PROVE  KeysOf(r.dictionary, old) = KeysOf(p.dictionary, old)
    BY <2>5, <2>11, <2>13 DEF Encoded, Between, KeysOf
  <2>14. Adds(r, p, row)
    BY <2>8, <2>9, <2>11 DEF Adds
  <2>15. Encoded(p) => Interned(r, p, row)
    BY <1>3, <2>12, <2>13, <2>14 DEF Interned
  <2> QED
    BY <2>11, <2>15 DEF r
<1> QED
  BY <1>2, <1>3

Projects(f, rows) == f = [n \in 0..Len(rows) |-> IF n = 0 THEN Nothing ELSE Intern(f[n - 1], rows[n])]

ProjectsUpTo(f, K, rows) ==
    /\ f \in [0..Len(rows) -> Projections(K)]
    /\ f[0] = Nothing
    /\ \A n \in 1..Len(rows) : f[n] = Intern(f[n - 1], rows[n])

(* Projected interns one row after the other.                              *)
LEMMA ProjectedUnfolds ==
    ASSUME NEW K, NEW rows, Len(rows) \in Nat,
           \A n \in 1..Len(rows) : rows[n].from \in K /\ rows[n].to \in K
    PROVE  \E f : ProjectsUpTo(f, K, rows) /\ Projected(rows) = f[Len(rows)]
<1> DEFINE m == Len(rows)
           V == Projections(K)
           More(n, v) == Intern(v, rows[n])
           step == [p \in (1..m) \X V |-> More(p[1], p[2])]
<1>1. m \in Nat
  OBVIOUS
<1>2. \A n \in 1..m : rows[n].from \in K /\ rows[n].to \in K
  OBVIOUS
<1>3. Nothing \in V
  BY DEF Nothing, Projections
<1>4. \A n \in 1..m : \A v \in V : More(n, v) \in V
  BY <1>2, InternsRow
<1>5. \A n \in 1..m : \A v \in V : step[<<n, v>>] = More(n, v)
  <2> HIDE DEF More, m, V
  <2> QED
    OBVIOUS
<1>6. \E f : Runs(f, m, V, Nothing, step)
  <2>1. \A n \in 1..m : \A v \in V : step[<<n, v>>] \in V
    <3> HIDE DEF step, More, m, V
    <3> QED
      BY <1>4, <1>5, Zenon
  <2> HIDE DEF step, m, V
  <2> QED
    BY <1>1, <1>3, <2>1, Recursion
<1>7. PICK f : Runs(f, m, V, Nothing, step)
  BY <1>6
<1>8. f \in [0..m -> V] /\ f[0] = Nothing /\ \A n \in 1..m : f[n] = More(n, f[n - 1])
  <2>1. \A n \in 1..m : n - 1 \in 0..m
    BY <1>1
  <2> HIDE DEF step, More, m, V
  <2> QED
    BY <1>5, <1>7, <2>1 DEF Runs
<1>9. Projects(f, rows)
  <2>1. f = [n \in 0..m |-> f[n]]
    BY <1>8
  <2>2. \A n \in 0..m : f[n] = IF n = 0 THEN Nothing ELSE More(n, f[n - 1])
    <3>1. \A n \in 0..m : n = 0 \/ n \in 1..m
      BY <1>1
    <3> HIDE DEF More, m, V
    <3> QED
      BY <1>8, <3>1
  <2>3. f = [n \in 0..m |-> IF n = 0 THEN Nothing ELSE More(n, f[n - 1])]
    <3> HIDE DEF More, m, V
    <3> QED
      BY <2>1, <2>2
  <2> QED
    BY <2>3, Zenon DEF Projects
<1> DEFINE g == CHOOSE h : Projects(h, rows)
<1>10. Projects(g, rows) /\ Projected(rows) = g[m]
  BY <1>9, Zenon DEF Projects, Projected, Nothing
<1> HIDE DEF g
<1>11. g = [n \in 0..m |-> IF n = 0 THEN Nothing ELSE More(n, g[n - 1])]
  BY <1>10, Zenon DEF Projects
<1>12. g[0] = Nothing /\ \A n \in 1..m : g[n] = More(n, g[n - 1])
  <2>1. 0 \in 0..m /\ \A n \in 1..m : n \in 0..m /\ n # 0
    BY <1>1
  <2> HIDE DEF More, m, V
  <2> QED
    BY <1>11, <2>1
<1>13. \A n \in 0..m : g[n] \in V
  <2> DEFINE T == {n \in 0..m : g[n] \in V}
  <2> HIDE DEF More, m, V
  <2>1. 0 \in T
    BY <1>1, <1>3, <1>12
  <2>2. \A n \in 1..m : n - 1 \in T => n \in T
    BY <1>1, <1>4, <1>12
  <2>3. \A n \in 0..m : n \in T
    <3> HIDE DEF T
    <3> QED
      BY <1>1, <2>1, <2>2, UpTo
  <2> QED
    BY <2>3
<1>14. ProjectsUpTo(g, K, rows)
  <2>1. g \in [0..m -> V]
    <3> HIDE DEF More, m, V
    <3> QED
      BY <1>11, <1>13
  <2> QED
    BY <1>12, <2>1, Zenon DEF ProjectsUpTo
<1> QED
  BY <1>10, <1>14

TextsOf(row) == [from |-> Text(row.from), to |-> Text(row.to)]

\* The edges are the rows, through the dictionary.
Matches(p, kept) ==
    /\ Len(p.edges) = Len(kept)
    /\ \A i \in 1..Len(kept) :
          KeysOf(p.dictionary, p.edges[i]) = <<kept[i].from.text, kept[i].to.text>>

(* A row is added to edges that match, on both sides.                      *)
LEMMA MatchesMore ==
    ASSUME NEW K, NEW V, NEW p \in Projections(K), NEW r \in Projections(K), NEW kept \in Seq(V),
           NEW row \in V, Matches(p, kept),
           \A old \in ToSet(p.edges) : KeysOf(r.dictionary, old) = KeysOf(p.dictionary, old),
           Adds(r, p, [from |-> row.from.text, to |-> row.to.text])
    PROVE  Matches(r, Append(kept, row))
<1> DEFINE n == Len(kept)
           longer == Append(kept, row)
<1>1. /\ n \in Nat /\ Len(longer) = n + 1 /\ longer[n + 1] = row
      /\ \A i \in 1..n : longer[i] = kept[i]
  OBVIOUS
<1>2. PICK edge \in Nat \X Nat :
         /\ r.edges = Append(p.edges, edge)
         /\ KeysOf(r.dictionary, edge) = <<row.from.text, row.to.text>>
  BY DEF Adds
<1>3. p.edges \in Seq(Nat \X Nat) /\ Len(p.edges) = n
  BY DEF Projections, Matches
<1>4. Len(r.edges) = n + 1 /\ r.edges[n + 1] = edge /\ \A i \in 1..n : r.edges[i] = p.edges[i]
  BY <1>2, <1>3
<1>5. \A i \in 1..n : p.edges[i] \in ToSet(p.edges)
  <2>1. DOMAIN p.edges = 1..n
    BY <1>3
  <2> QED
    BY <2>1, Zenon DEF ToSet
<1>6. \A i \in 1..n : KeysOf(r.dictionary, r.edges[i]) = <<kept[i].from.text, kept[i].to.text>>
  BY <1>4, <1>5 DEF Matches
<1>7. \A i \in 1..(n + 1) : i \in 1..n \/ i = n + 1
  BY <1>1
<1> HIDE DEF n, longer
<1>8. \A i \in 1..(n + 1) :
         KeysOf(r.dictionary, r.edges[i]) = <<longer[i].from.text, longer[i].to.text>>
  <2> TAKE i \in 1..(n + 1)
  <2>1. CASE i \in 1..n
    BY <1>1, <1>6, <2>1
  <2>2. CASE i = n + 1
    BY <1>1, <1>2, <1>4, <2>2
  <2> QED
    BY <1>7, <2>1, <2>2
<1>9. Matches(r, longer)
  BY <1>1, <1>4, <1>8 DEF Matches
<1> QED
  BY <1>9 DEF longer

(* A keyed table is encoded to one edge for each row with two ends, in     *)
(* their order, over a dictionary that has each key once.                  *)
LEMMA TablesDecode ==
    ASSUME NEW V, NEW rows \in Seq(V),
           \A i \in 1..Len(rows) : /\ rows[i].from # Null => rows[i].from.text # Null
                                   /\ rows[i].to # Null => rows[i].to.text # Null
    PROVE  LET p == Projected([i \in DOMAIN rows |-> TextsOf(rows[i])])
           IN  /\ p \in Projections(Texts(rows))
               /\ IsInjective(p.dictionary)
               /\ Matches(p, WithEnds(rows))
<1> DEFINE m == Len(rows)
           K == Texts(rows)
           table == [i \in DOMAIN rows |-> TextsOf(rows[i])]
           ends == {row \in ToSet(rows) : Null \notin {row.from, row.to}}
<1>1. m \in Nat /\ DOMAIN rows = 1..m /\ Len(table) = m
      /\ \A i \in 1..m : table[i] = TextsOf(rows[i]) /\ rows[i] \in ToSet(rows) /\ rows[i] \in V
  BY DEF ToSet
<1>2. \A i \in 1..m : table[i].from \in K /\ table[i].to \in K
  BY <1>1 DEF Texts, TextsOf
<1>3. \A i \in 1..m : Whole(table[i]) <=> rows[i] \in ends
  BY <1>1 DEF Whole, TextsOf, Text
<1>4. \A i \in 1..m : Whole(table[i]) =>
         table[i] = [from |-> rows[i].from.text, to |-> rows[i].to.text]
  BY <1>1 DEF Whole, TextsOf, Text
<1> HIDE DEF table, K, ends
<1>5. PICK f : ProjectsUpTo(f, K, table) /\ Projected(table) = f[m]
  <2>1. \E f : ProjectsUpTo(f, K, table) /\ Projected(table) = f[Len(table)]
    <3>1. Len(table) \in Nat /\ \A i \in 1..Len(table) : table[i].from \in K /\ table[i].to \in K
      BY <1>1, <1>2
    <3> QED
      BY <3>1, ProjectedUnfolds
  <2> QED
    BY <1>1, <2>1
<1>6. /\ \A n \in 0..m : f[n] \in Projections(K)
      /\ f[0] = Nothing
      /\ \A n \in 1..m : f[n] = Intern(f[n - 1], table[n])
  BY <1>1, <1>5 DEF ProjectsUpTo
<1>7. PICK k : KeepsUpTo(k, V, rows, ends) /\ Keep(rows, ends) = k[m]
  BY KeepUnfolds
<1>8. /\ \A n \in 0..m : k[n] \in Seq(V)
      /\ k[0] = <<>>
      /\ \A n \in 1..m : k[n] = IF rows[n] \in ends THEN Append(k[n - 1], rows[n]) ELSE k[n - 1]
  BY <1>7 DEF KeepsUpTo
<1> HIDE DEF m
<1> DEFINE T == {n \in 0..m : Encoded(f[n]) /\ Matches(f[n], k[n])}
<1>9. 0 \in T
  <2>1. Nothing.edges = <<>> /\ Nothing.dictionary = <<>>
    BY DEF Nothing
  <2>2. Encoded(Nothing)
    BY <2>1 DEF Encoded, ToSet, IsInjective
  <2>3. Matches(Nothing, <<>>)
    BY <2>1 DEF Matches
  <2> QED
    BY <1>1, <1>6, <1>8, <2>2, <2>3
<1>10. ASSUME NEW n \in 1..m, n - 1 \in T PROVE n \in T
  <2>1. /\ n - 1 \in 0..m /\ n \in 0..m
        /\ Encoded(f[n - 1]) /\ Matches(f[n - 1], k[n - 1])
        /\ f[n - 1] \in Projections(K) /\ f[n] \in Projections(K)
        /\ k[n - 1] \in Seq(V) /\ f[n] = Intern(f[n - 1], table[n])
    BY <1>1, <1>6, <1>8, <1>10
  <2>2. /\ ~Whole(table[n]) => f[n] = f[n - 1]
        /\ Encoded(f[n])
        /\ Whole(table[n]) => Adds(f[n], f[n - 1], table[n])
        /\ \A old \in ToSet(f[n - 1].edges) :
              KeysOf(f[n].dictionary, old) = KeysOf(f[n - 1].dictionary, old)
    <3> DEFINE row == table[n]
               p == f[n - 1]
    <3>1. p \in Projections(K) /\ row.from \in K /\ row.to \in K
      BY <1>2, <2>1
    <3>2. Encoded(p) /\ f[n] = Intern(p, row)
      BY <2>1
    <3> HIDE DEF row, p
    <3>3. Interned(Intern(p, row), p, row)
      BY <3>1, <3>2, InternsRow
    <3>4. Interned(f[n], p, row)
      BY <3>2, <3>3
    <3> QED
      BY <3>4 DEF row, p, Interned
  <2>3. CASE Whole(table[n])
    <3>1. k[n] = Append(k[n - 1], rows[n])
      BY <1>3, <1>8, <2>3
    <3>2. Adds(f[n], f[n - 1], [from |-> rows[n].from.text, to |-> rows[n].to.text])
      BY <1>4, <2>2, <2>3
    <3>3. rows[n] \in V
      BY <1>1
    <3>4. Matches(f[n], Append(k[n - 1], rows[n]))
      BY <2>1, <2>2, <3>2, <3>3, MatchesMore
    <3> QED
      BY <2>1, <2>2, <3>1, <3>4
  <2>4. CASE ~Whole(table[n])
    <3>1. k[n] = k[n - 1] /\ f[n] = f[n - 1]
      BY <1>3, <1>8, <2>2, <2>4
    <3> QED
      BY <2>1, <2>2, <3>1
  <2> QED
    BY <2>3, <2>4
<1>11. m \in T
  <2> HIDE DEF T
  <2>1. \A n \in 0..m : n \in T
    BY <1>1, <1>9, <1>10, UpTo
  <2> QED
    BY <1>1, <2>1
<1>12. Keep(rows, ends) = WithEnds(rows)
  BY DEF WithEnds, ends
<1>13. m \in 0..m
  BY <1>1
<1>14. Projected(table) \in Projections(K) /\ IsInjective(Projected(table).dictionary)
      /\ Matches(Projected(table), WithEnds(rows))
  BY <1>5, <1>6, <1>7, <1>11, <1>12, <1>13 DEF Encoded
<1> QED
  BY <1>14 DEF table, K

(***************************************************************************)
(* A graph that is registered, and the rows it was built from.             *)
(***************************************************************************)
\* The property of one graph.
KeyIs(g, o, id, key, node) ==
    CASE g.dictionary # None -> KeyOf(g.dictionary, id) = key.text
      [] g.dictionary = None /\ Node(o, node).transform = "extract_numeric" -> id = key.digits
      [] OTHER -> id = key.number

Hashes == {"hash_u64", "hash_u32", "uuid_to_u128"}

IsSnapshot(g, o, edge, rows) ==
    /\ Len(g.edges) = Len(rows)
    /\ \A i \in DOMAIN rows :
          /\ KeyIs(g, o, g.edges[i][1], rows[i].from, edge.from)
          /\ KeyIs(g, o, g.edges[i][2], rows[i].to, edge.to)
          /\ edge.weighted =>
                g.weights[i] \in {rows[i].weight, DefaultWeight} \ {Null}
                /\ (rows[i].weight # Null => g.weights[i] = rows[i].weight)
    /\ g.dictionary # None => IsInjective(g.dictionary)
    /\ (g.dictionary # None) <=>
          \/ o.idType = "string"
          \/ \E node \in ToSet(o.nodes) : node.label \in {edge.from, edge.to} /\ node.transform \in Hashes

(* The rows of the tables.                                                 *)
LEMMA RowsAreRows ==
    ASSUME NEW rows \in RowLists
    PROVE  /\ rows \in Seq(ToSet(rows))
           /\ \A row \in ToSet(rows) :
                 /\ {row.validFrom, row.validTo} \subseteq Int \cup {Null}
                 /\ row.from # Null => row.from.text # Null
                 /\ row.to # Null => row.to.text # Null
<1>1. CASE rows = <<>>
  BY <1>1 DEF ToSet
<1>2. CASE \E t \in TableNames : rows \in Contents[t]
  BY <1>2, LoadAssumption
<1> QED
  BY <1>1, <1>2 DEF RowLists, TableRows

(* The temporal filter and the filter of rows with two ends let the rows   *)
(* through that the comment of the function asks for.                      *)
LEMMA WantedRows ==
    ASSUME NEW edge, NEW rows \in RowLists, NEW asOf \in Int \cup {None}
    PROVE  WithEnds(TemporalFilter(edge, rows, asOf)) = Wanted(edge, rows, asOf)
<1> DEFINE V == ToSet(rows)
           wanted == {row \in V :
              /\ row.from # Null /\ row.to # Null
              /\ (asOf # None /\ edge.validFrom) => (row.validFrom # Null /\ ~(asOf < row.validFrom))
              /\ (asOf # None /\ edge.validTo /\ row.validTo # Null) => asOf < row.validTo}
<1>1. rows \in Seq(V) /\ \A row \in V : {row.validFrom, row.validTo} \subseteq Int \cup {Null}
  BY RowsAreRows
<1>2. Wanted(edge, rows, asOf) = Keep(rows, wanted)
  BY DEF Wanted
<1>3. CASE asOf = None
  <2> DEFINE ends == {row \in V : Null \notin {row.from, row.to}}
  <2>1. WithEnds(TemporalFilter(edge, rows, asOf)) = Keep(rows, ends)
    BY <1>3 DEF WithEnds, TemporalFilter
  <2>2. \A row \in V : row \in ends <=> row \in wanted
    BY <1>3
  <2>3. Keep(rows, ends) = Keep(rows, wanted)
    <3> HIDE DEF V, ends, wanted
    <3> QED
      BY <1>1, <2>2, KeepSame
  <2> QED
    BY <1>2, <2>1, <2>3
<1>4. CASE asOf # None
  <2> DEFINE valid == {row \in V : ValidAt(edge, row, asOf)}
             kept == Keep(rows, valid)
             ends == {row \in ToSet(kept) : Null \notin {row.from, row.to}}
  <2>1. WithEnds(TemporalFilter(edge, rows, asOf)) = Keep(kept, ends)
    BY <1>4 DEF WithEnds, TemporalFilter
  <2>2. ToSet(kept) = V \cap valid
    <3> HIDE DEF V, valid
    <3> QED
      BY <1>1, KeepElements DEF V
  <2>3. asOf \in Int
    BY <1>4
  <2>4. ASSUME NEW row \in V PROVE row \in wanted <=> row \in valid /\ row \in ends
    <3>1. row \in ends <=> row \in valid /\ row.from # Null /\ row.to # Null
      BY <2>2, <2>4
    <3>2. \A a \in Int : a <= asOf <=> ~(asOf < a)
      BY <2>3
    <3>3. \A a \in Int : a > asOf <=> asOf < a
      BY <2>3
    <3>4. /\ row.validFrom # Null => row.validFrom \in Int
          /\ row.validTo # Null => row.validTo \in Int
      BY <1>1, <2>4
    <3>5. row \in valid <=>
             /\ edge.validFrom => row.validFrom # Null /\ ~(asOf < row.validFrom)
             /\ edge.validTo => row.validTo = Null \/ asOf < row.validTo
      BY <2>4, <3>2, <3>3, <3>4, Zenon DEF ValidAt
    <3>6. row \in wanted <=>
              /\ row.from # Null /\ row.to # Null
              /\ (asOf # None /\ edge.validFrom) => (row.validFrom # Null /\ ~(asOf < row.validFrom))
              /\ (asOf # None /\ edge.validTo /\ row.validTo # Null) => asOf < row.validTo
      BY <2>4, Zenon
    <3> HIDE DEF wanted, valid, ends
    <3> QED
      BY <1>4, <3>1, <3>5, <3>6
  <2>5. Keep(kept, ends) = Keep(rows, wanted)
    <3> HIDE DEF V, ends, wanted, valid
    <3> QED
      BY <1>1, <2>4, KeepTwice
  <2> QED
    BY <1>2, <2>1, <2>5
<1> QED
  BY <1>3, <1>4

(* In a valid ontology a label that an edge uses has one node.             *)
LEMMA NodeFound ==
    ASSUME NEW o \in Ontologies, ValidateOrError(o) = Ok, NEW edge \in ToSet(o.edges),
           NEW label \in {edge.from, edge.to}
    PROVE  /\ Node(o, label) \in ToSet(o.nodes) /\ Node(o, label) # None
           /\ Node(o, label).label = label
           /\ \A node \in ToSet(o.nodes) : node.label = label => node = Node(o, label)
<1>1. Validate(o).errors = {}
  BY DEF ValidateOrError, Ok
<1>2. DanglingEdges(o) = {} /\ DuplicateNodes(o) = {}
  BY <1>1 DEF Validate
<1>3. Repeated(o.nodes) = {}
  BY <1>2 DEF DuplicateNodes
<1>4. o.nodes \in Seq(ToSet(o.nodes)) /\ None \notin ToSet(o.nodes)
  BY LoadAssumption
<1>5. PICK e \in DOMAIN o.edges : edge = o.edges[e]
  BY DEF ToSet
<1>6. o.edges[e].from \in ToSet(Labels(o.nodes)) /\ o.edges[e].to \in ToSet(Labels(o.nodes))
  BY <1>2, <1>5 DEF DanglingEdges
<1>7. label \in ToSet(Labels(o.nodes))
  BY <1>5, <1>6
<1>8. PICK i \in DOMAIN o.nodes : o.nodes[i].label = label
  BY <1>7 DEF ToSet, Labels
<1>9. DOMAIN o.nodes = 1..Len(o.nodes) /\ Len(o.nodes) \in Nat
  BY <1>4
<1>10. \A j \in DOMAIN o.nodes : o.nodes[j].label = label => j = i
  <2> SUFFICES ASSUME NEW j \in DOMAIN o.nodes, o.nodes[j].label = label, j # i PROVE FALSE
    OBVIOUS
  <2>1. j \in 1..(i - 1) \/ i \in 1..(j - 1)
    BY <1>9
  <2> QED
    BY <1>3, <1>8, <2>1 DEF Repeated
<1> DEFINE found == {j \in DOMAIN o.nodes : o.nodes[j].label = label}
<1>11. found = {i}
  BY <1>8, <1>10
<1>12. Min(found) = i
  <2>1. i \in Nat /\ i <= i
    BY <1>9
  <2>2. \A x \in {i} : x = i
    OBVIOUS
  <2> QED
    BY <1>11, <2>1 DEF Min
<1>13. Node(o, label) = o.nodes[i]
  BY <1>11, <1>12 DEF Node, Find
<1> QED
  BY <1>4, <1>8, <1>10, <1>13 DEF ToSet

(* What the temporal filter leaves of a table, and of that the rows with   *)
(* two ends.                                                               *)
LEMMA FilteredRows ==
    ASSUME NEW edge, NEW rows \in RowLists, NEW asOf
    PROVE  LET left == TemporalFilter(edge, rows, asOf)
               kept == WithEnds(left)
           IN  /\ left \in Seq(ToSet(rows)) /\ ToSet(left) \subseteq ToSet(rows)
               /\ \A row \in ToSet(rows) : /\ row.from # Null => row.from.text # Null
                                           /\ row.to # Null => row.to.text # Null
               /\ kept \in Seq(ToSet(rows))
               /\ \A i \in 1..Len(kept) : kept[i].from # Null /\ kept[i].to # Null
<1> DEFINE V == ToSet(rows)
           left == TemporalFilter(edge, rows, asOf)
           ends == {row \in ToSet(left) : Null \notin {row.from, row.to}}
           kept == Keep(left, ends)
<1>1. rows \in Seq(V) /\ \A row \in V : /\ row.from # Null => row.from.text # Null
                                        /\ row.to # Null => row.to.text # Null
  BY RowsAreRows
<1> HIDE DEF V
<1>2. left \in Seq(V) /\ ToSet(left) \subseteq V
  <2>1. CASE asOf = None
    BY <1>1, <2>1 DEF TemporalFilter, V
  <2>2. CASE asOf # None
    <3> DEFINE valid == {row \in V : ValidAt(edge, row, asOf)}
    <3>1. left = Keep(rows, valid)
      BY <2>2 DEF TemporalFilter, V
    <3> HIDE DEF valid, left
    <3>2. Keep(rows, valid) \in Seq(V) /\ ToSet(Keep(rows, valid)) = ToSet(rows) \cap valid
      BY <1>1, KeepElements
    <3> QED
      BY <3>1, <3>2 DEF V
  <2> QED
    BY <2>1, <2>2
<1>3. kept = WithEnds(left)
  BY DEF WithEnds
<1> HIDE DEF left
<1>4. kept \in Seq(V) /\ ToSet(kept) = ToSet(left) \cap ends
  <2> HIDE DEF ends
  <2> QED
    BY <1>2, KeepElements
<1> HIDE DEF kept
<1>5. ASSUME NEW i \in 1..Len(kept) PROVE kept[i].from # Null /\ kept[i].to # Null
  <2>1. i \in DOMAIN kept
    BY <1>4
  <2>2. kept[i] \in ToSet(kept)
    BY <2>1, Zenon DEF ToSet
  <2> QED
    BY <1>4, <2>2
<1> QED
  BY <1>1, <1>2, <1>3, <1>4, <1>5 DEF V, left

(* A graph with a dictionary is built exactly when a node of the edge asks *)
(* for it.                                                                 *)
LEMMA DictionariesNeeded ==
    ASSUME NEW o \in Ontologies, ValidateOrError(o) = Ok, NEW edge \in ToSet(o.edges)
    PROVE  NeedsDictionary(o, edge) <=>
              \/ o.idType = "string"
              \/ \E node \in ToSet(o.nodes) : /\ node.label \in {edge.from, edge.to}
                                              /\ node.transform \in Hashes
<1>1. \A label \in {edge.from, edge.to} :
         /\ Node(o, label) \in ToSet(o.nodes) /\ Node(o, label) # None
         /\ Node(o, label).label = label
         /\ \A node \in ToSet(o.nodes) : node.label = label => node = Node(o, label)
  BY NodeFound
<1> QED
  BY <1>1, Zenon DEF NeedsDictionary, Hashes

(* A graph that was built is the rows it is to have: its ids are their     *)
(* keys, and its weights theirs.                                           *)
LEMMA GraphIsSnapshot ==
    ASSUME NEW o \in Ontologies, ValidateOrError(o) = Ok, NEW edge \in ToSet(o.edges),
           NEW rows \in RowLists, NEW asOf \in Int \cup {None}, NEW left,
           left = TemporalFilter(edge, rows, asOf), NEW graph, graph # None,
           graph = BuildEdgeGraph(o, edge, left), NEW g,
           g.edges = graph.edges, g.dictionary = graph.dictionary,
           g.weights = Weights(edge, left)
    PROVE  IsSnapshot(g, o, edge, Wanted(edge, rows, asOf))
<1> DEFINE V == ToSet(rows)
           kept == WithEnds(left)
           n == Len(kept)
<1>1. kept = Wanted(edge, rows, asOf)
  BY WantedRows
<1>2. /\ left \in Seq(V) /\ ToSet(left) \subseteq V
      /\ \A row \in V : /\ row.from # Null => row.from.text # Null
                        /\ row.to # Null => row.to.text # Null
      /\ kept \in Seq(V)
      /\ \A i \in 1..n : kept[i].from # Null /\ kept[i].to # Null
  BY FilteredRows
<1> HIDE DEF V
<1>3. n \in Nat /\ DOMAIN kept = 1..n
  BY <1>2
<1>4. ASSUME NEW i \in 1..n, edge.weighted
      PROVE  /\ g.weights[i] \in {kept[i].weight, DefaultWeight} \ {Null}
             /\ kept[i].weight # Null => g.weights[i] = kept[i].weight
  <2>1. g.weights[i] = WeightOf(edge, kept[i])
    BY <1>3 DEF Weights
  <2>2. DefaultWeight # Null
    BY LoadAssumption
  <2> HIDE DEF kept
  <2> QED
    BY <1>4, <2>1, <2>2 DEF WeightOf
<1>5. NeedsDictionary(o, edge) <=>
              \/ o.idType = "string"
              \/ \E node \in ToSet(o.nodes) : /\ node.label \in {edge.from, edge.to}
                                              /\ node.transform \in Hashes
  BY DictionariesNeeded
<1>6. CASE NeedsDictionary(o, edge)
  <2> DEFINE p == Projected([i \in DOMAIN left |-> TextsOf(left[i])])
  <2>1. graph.edges = p.edges /\ graph.dictionary = p.dictionary
    BY <1>6 DEF BuildEdgeGraph, KeyedGraph, TextsOf
  <2>2. p \in Projections(Texts(left)) /\ IsInjective(p.dictionary) /\ Matches(p, kept)
    <3>1. \A i \in 1..Len(left) : /\ left[i].from # Null => left[i].from.text # Null
                                  /\ left[i].to # Null => left[i].to.text # Null
      BY <1>2
    <3> QED
      BY <1>2, <3>1, TablesDecode
  <2> HIDE DEF p, kept
  <2>3. p.dictionary # None
    <3> DEFINE all == UNION {Texts(r) : r \in UNION {Contents[t] : t \in TableNames}}
    <3>1. Texts(left) \subseteq all
      <4>1. Texts(left) \subseteq Texts(rows)
        BY <1>2 DEF Texts, V
      <4>2. CASE rows = <<>>
        <5>1. ToSet(rows) = {}
          BY <4>2 DEF ToSet
        <5>2. Texts(rows) = {}
          BY <5>1, Zenon DEF Texts
        <5> QED
          BY <4>1, <5>2
      <4>3. CASE rows \in TableRows
        BY <4>1, <4>3 DEF TableRows
      <4> QED
        BY <4>2, <4>3 DEF RowLists
    <3>2. p.dictionary \in Seq(Texts(left))
      BY <2>2 DEF Projections
    <3>3. None \notin Seq(all)
      BY DictionaryAssumption
    <3> HIDE DEF all
    <3>4. p.dictionary \in Seq(all)
      BY <3>1, <3>2
    <3> QED
      BY <3>3, <3>4
  <2>4. ASSUME NEW i \in 1..n
        PROVE  /\ KeyIs(g, o, g.edges[i][1], kept[i].from, edge.from)
               /\ KeyIs(g, o, g.edges[i][2], kept[i].to, edge.to)
    <3>1. KeysOf(p.dictionary, p.edges[i]) = <<kept[i].from.text, kept[i].to.text>>
      BY <2>2 DEF Matches
    <3>2. /\ KeyOf(g.dictionary, g.edges[i][1]) = kept[i].from.text
          /\ KeyOf(g.dictionary, g.edges[i][2]) = kept[i].to.text
      BY <2>1, <3>1 DEF KeysOf
    <3> QED
      BY <2>1, <2>3, <3>2 DEF KeyIs
  <2> HIDE DEF n
  <2>5. Len(g.edges) = n /\ g.dictionary # None /\ IsInjective(g.dictionary)
    BY <2>1, <2>2, <2>3 DEF Matches, n
  <2> QED
    BY <1>1, <1>3, <1>4, <1>5, <1>6, <2>4, <2>5, Zenon DEF IsSnapshot, n
<1>7. CASE ~NeedsDictionary(o, edge)
  <2> DEFINE From == Extracts(o, edge.from)
             To == Extracts(o, edge.to)
  <2>1. graph = [edges |-> NumericEdges(left, From, To), dictionary |-> None]
    BY <1>7, Zenon DEF BuildEdgeGraph, NumericGraph
  <2>2. graph.edges = NumericEdges(left, From, To) /\ g.dictionary = None
    BY <2>1
  <2>3. g.edges = [i \in 1..n |-> <<NumericId(kept[i].from, From), NumericId(kept[i].to, To)>>]
    BY <1>3, <2>2 DEF NumericEdges
  <2>4. \A label \in {edge.from, edge.to} :
           Extracts(o, label) <=> Node(o, label).transform = "extract_numeric"
    <3>1. \A label \in {edge.from, edge.to} : Node(o, label) # None
      BY NodeFound
    <3> QED
      BY <3>1 DEF Extracts
  <2> HIDE DEF From, To, kept, n
  <2>5. ASSUME NEW i \in 1..n
        PROVE  /\ KeyIs(g, o, g.edges[i][1], kept[i].from, edge.from)
               /\ KeyIs(g, o, g.edges[i][2], kept[i].to, edge.to)
    <3>1. /\ g.edges[i][1] = NumericId(kept[i].from, From)
          /\ g.edges[i][2] = NumericId(kept[i].to, To)
      BY <2>3
    <3>2. kept[i].from # Null /\ kept[i].to # Null
      BY <1>2 DEF n
    <3> QED
      BY <2>2, <2>4, <3>1, <3>2 DEF KeyIs, NumericId, From, To
  <2>6. Len(g.edges) = n
    BY <1>3, <2>3
  <2> QED
    BY <1>1, <1>3, <1>4, <1>5, <1>7, <2>2, <2>5, <2>6, Zenon DEF IsSnapshot, n
<1> QED
  BY <1>6, <1>7

-----------------------------------------------------------------------------
(***************************************************************************)
(* What is registered stays one version of its table.                      *)
(***************************************************************************)
\* The rows that wait to be registered are a version of the edge's table.
HasScanned(r, versions) ==
    r.at = "register" =>
        LET t == r.ontology.edges[r.next].source
        IN  r.version \in 1..Len(versions[t]) /\ r.rows = versions[t][r.version]

\* A registered graph of a load is a version of the edge's table.
IsVersion(g, r, versions) ==
    LET edge == r.ontology.edges[g.edge]
    IN  /\ g.version \in 1..Len(versions[edge.source])
        /\ IsSnapshot(g, r.ontology, edge, Wanted(edge, versions[edge.source][g.version], r.asOf))

ScannedInv == \A l \in Loads : HasScanned(load[l], published)
VersionsInv ==
    \A name \in DOMAIN catalog : IsVersion(catalog[name], load[catalog[name].by], published)

SnapshotInv == ScannedInv /\ VersionsInv

\* No version is ever replaced.
Grows(versions, later) ==
    \A t \in TableNames :
        /\ 1..Len(versions[t]) \subseteq 1..Len(later[t])
        /\ \A v \in 1..Len(versions[t]) : later[t][v] = versions[t][v]

(* The tables only get more versions.                                      *)
LEMMA VersionsStay == Inv /\ [Next]_vars => Grows(published, published')
<1> SUFFICES ASSUME Inv, [Next]_vars PROVE Grows(published, published')
  OBVIOUS
<1>0. published \in [TableNames -> Seq(RowLists)]
  BY DEF Inv, TypeInv
<1>1. CASE published' = published
  BY <1>1 DEF Grows
<1>2. ASSUME NEW u \in TableNames, NEW rows \in Contents[u], Publish(u, rows)
      PROVE  Grows(published, published')
  <2> SUFFICES ASSUME NEW t \in TableNames
               PROVE  /\ 1..Len(published[t]) \subseteq 1..Len(published'[t])
                      /\ \A v \in 1..Len(published[t]) : published'[t][v] = published[t][v]
    BY DEF Grows
  <2>1. published' = [published EXCEPT ![u] = Append(published[u], rows)]
    BY <1>2 DEF Publish
  <2>2. CASE t # u
    <3>1. published'[t] = published[t]
      BY <1>0, <2>1, <2>2
    <3> QED
      BY <3>1
  <2>3. CASE t = u
    <3>1. published'[t] = Append(published[t], rows)
      BY <1>0, <2>1, <2>3
    <3>2. published[t] \in Seq(RowLists)
      BY <1>0
    <3>3. Len(published'[t]) = Len(published[t]) + 1 /\ Len(published[t]) \in Nat
      BY <3>1, <3>2
    <3>4. \A v \in 1..Len(published[t]) : published'[t][v] = published[t][v]
      BY <3>1, <3>2
    <3> QED
      BY <3>3, <3>4
  <2> QED
    BY <2>2, <2>3
<1>3. CASE Session
  <2>1. ASSUME NEW t \in TableNames, DropTable(t) PROVE published' = published
    BY <2>1 DEF DropTable
  <2> QED
    BY <1>1, <1>2, <1>3, <2>1 DEF Session
<1>4. CASE Provider
  <2>1. published' = published
    BY <1>4 DEF Provider, BeginMaterialize, CollectBatch, FinishMaterialize, CancelMaterialize, Serve
  <2> QED
    BY <1>1, <2>1
<1>5. ASSUME NEW l \in Loads, Load(l) PROVE published' = published
  <2>1. ASSUME NEW from, NEW to, LoadStep(l, from, to) PROVE published' = published
    BY <2>1 DEF LoadStep
  <2> QED
    BY <1>5, <2>1, Zenon DEF Load, BeginLoad, ScanTable, RegisterGraph, CancelLoad
<1>6. CASE UNCHANGED vars
  BY <1>1, <1>6 DEF vars
<1> QED
  BY <1>1, <1>3, <1>4, <1>5, <1>6 DEF Next

(* A registered graph stays a version of its table when its load goes on   *)
(* and when the tables change.                                             *)
LEMMA VersionsKeep ==
    ASSUME NEW r, NEW later, NEW versions, NEW grown, NEW g, Grows(versions, grown),
           r.ontology.edges[g.edge].source \in TableNames,
           later.ontology = r.ontology, later.asOf = r.asOf, IsVersion(g, r, versions)
    PROVE  IsVersion(g, later, grown)
<1> DEFINE edge == r.ontology.edges[g.edge]
           t == edge.source
<1>1. /\ g.version \in 1..Len(versions[t])
      /\ IsSnapshot(g, r.ontology, edge, Wanted(edge, versions[t][g.version], r.asOf))
  BY Zenon DEF IsVersion
<1> HIDE DEF t
<1>2. t \in TableNames
  BY DEF t
<1>3. /\ g.version \in 1..Len(grown[t])
      /\ versions[t][g.version] = grown[t][g.version]
  BY <1>1, <1>2, Zenon DEF Grows
<1>4. IsSnapshot(g, r.ontology, edge, Wanted(edge, grown[t][g.version], r.asOf))
  BY <1>1, <1>3, Zenon
<1> QED
  BY <1>3, <1>4, Zenon DEF IsVersion, t

(* So do the rows that a load has scanned.                                 *)
LEMMA ScannedKeep ==
    ASSUME NEW r, NEW versions, NEW grown, Grows(versions, grown),
           r.at = "register" => r.ontology.edges[r.next].source \in TableNames,
           HasScanned(r, versions)
    PROVE  HasScanned(r, grown)
BY DEF HasScanned, Grows

(* The graph of a registration is the version that its load has scanned.   *)
LEMMA RegisterVersion ==
    ASSUME Inv, ScannedInv, NEW l \in Loads, RegisterGraph(l),
           ~(UNCHANGED catalog /\ load' = [load EXCEPT ![l] = [load[l] EXCEPT !.at = "failed"]])
    PROVE  LET name == GraphName(load[l].ontology, EdgeOf(l))
           IN  IsVersion(catalog'[name], load[l], published)
<1> DEFINE o == load[l].ontology
           edge == EdgeOf(l)
           left == TemporalFilter(edge, load[l].rows, load[l].asOf)
           graph == BuildEdgeGraph(o, edge, left)
           name == GraphName(o, edge)
           g == catalog'[name]
<1>1. load[l] \in LoadRecord /\ GoodLoad(load[l]) /\ load[l].at = "register"
  BY DEF Inv, TypeInv, LoadInv, RegisterGraph
<1>2. o \in Ontologies /\ o # None /\ load[l].next \in DOMAIN o.edges
  <2>1. o \in Ontologies /\ o # None /\ load[l].next \in 1..Len(o.edges)
    BY RegisterFacts, Zenon
  <2> QED
    BY <2>1, EdgesAreAList
<1>3. ValidateOrError(o) = Ok
  BY <1>1, <1>2 DEF GoodLoad, Progressed
<1>4. edge \in ToSet(o.edges) /\ edge = o.edges[load[l].next]
  BY <1>2 DEF EdgeOf, ToSet
<1>5. load[l].rows \in RowLists /\ load[l].asOf \in Int \cup {None}
  <2>1. load[l].rows \in RowLists /\ load[l].asOf \in Instants
    BY <1>1 DEF LoadRecord
  <2>2. \A call \in Calls : call.asOf \in Int \cup {None}
    BY LoadAssumption
  <2> QED
    BY <2>1, <2>2 DEF Instants
<1>6. /\ graph # None
      /\ catalog' = [n \in DOMAIN catalog \cup {name} |->
             IF n # name THEN catalog[n]
             ELSE [edges |-> graph.edges, weights |-> Weights(edge, left),
                   dictionary |-> graph.dictionary, by |-> l, edge |-> load[l].next,
                   version |-> load[l].version]]
  BY Zenon DEF RegisterGraph, LoadStep
<1>7. g = [edges |-> graph.edges, weights |-> Weights(edge, left),
           dictionary |-> graph.dictionary, by |-> l, edge |-> load[l].next,
           version |-> load[l].version]
  <2> HIDE DEF graph, left, name, edge
  <2> QED
    BY <1>6
<1>8. /\ g.edges = graph.edges /\ g.dictionary = graph.dictionary
      /\ g.weights = Weights(edge, left)
      /\ g.edge = load[l].next /\ g.version = load[l].version
  <2> HIDE DEF graph, left, name, edge, g
  <2> QED
    BY <1>7
<1>9. IsSnapshot(g, o, edge, Wanted(edge, load[l].rows, load[l].asOf))
  <2>1. left = TemporalFilter(edge, load[l].rows, load[l].asOf) /\ graph = BuildEdgeGraph(o, edge, left)
    OBVIOUS
  <2> HIDE DEF graph, left, name, edge, g, o
  <2> QED
    BY <1>2, <1>3, <1>4, <1>5, <1>6, <1>8, <2>1, GraphIsSnapshot
<1>10. load[l].version \in 1..Len(published[edge.source])
       /\ load[l].rows = published[edge.source][load[l].version]
  BY <1>1, <1>4 DEF ScannedInv, HasScanned
<1> HIDE DEF g, edge, name
<1>11. IsVersion(g, load[l], published)
  BY <1>4, <1>8, <1>9, <1>10 DEF IsVersion
<1> QED
  BY <1>11 DEF g, edge, name

(* The edge of a registered graph, and that of a load that registers, has  *)
(* a table of the session.                                                 *)
LEMMA SourcesAreTables ==
    ASSUME Inv
    PROVE  /\ \A name \in DOMAIN catalog :
                 LET g == catalog[name]
                 IN  /\ g.by \in Loads /\ load[g.by].ontology # None
                     /\ load[g.by].ontology.edges[g.edge].source \in TableNames
           /\ \A l \in Loads : load[l].at = "register" =>
                 load[l].ontology.edges[load[l].next].source \in TableNames
<1>1. ASSUME NEW l \in Loads, load[l].ontology # None
      PROVE  /\ load[l].ontology \in Ontologies
             /\ Len(load[l].ontology.edges) \in Nat
             /\ load[l].next \in 1..(Len(load[l].ontology.edges) + 1)
             /\ load[l].at = "register" => load[l].next # Len(load[l].ontology.edges) + 1
  <2>1. load[l] \in LoadRecord /\ GoodLoad(load[l])
    BY DEF Inv, TypeInv, LoadInv
  <2>2. load[l].ontology \in Ontologies
    BY <1>1, <2>1 DEF LoadRecord
  <2>3. Len(load[l].ontology.edges) \in Nat
    BY <2>2, EdgesAreAList
  <2>4. Progressed(load[l])
    BY <1>1, <2>1 DEF GoodLoad
  <2> QED
    BY <2>2, <2>3, <2>4 DEF Progressed
<1>2. ASSUME NEW name \in DOMAIN catalog
      PROVE  LET g == catalog[name]
             IN  /\ g.by \in Loads /\ load[g.by].ontology # None
                 /\ load[g.by].ontology.edges[g.edge].source \in TableNames
  <2> DEFINE g == catalog[name]
             o == load[g.by].ontology
  <2>1. g.by \in Loads /\ o # None /\ g.edge \in 1..(load[g.by].next - 1)
    BY DEF Inv, CatalogInv, Registered
  <2>2. o \in Ontologies /\ Len(o.edges) \in Nat /\ load[g.by].next \in 1..(Len(o.edges) + 1)
    BY <1>1, <2>1
  <2> HIDE DEF g, o
  <2>3. g.edge \in 1..Len(o.edges)
    BY <2>1, <2>2
  <2>4. o.edges[g.edge].source \in TableNames
    BY <2>2, <2>3, EdgesAreAList
  <2> QED
    BY <2>1, <2>4 DEF g, o
<1>3. ASSUME NEW l \in Loads, load[l].at = "register"
      PROVE  load[l].ontology.edges[load[l].next].source \in TableNames
  <2> DEFINE o == load[l].ontology
  <2>1. o # None
    BY <1>3 DEF Inv, LoadInv, GoodLoad
  <2>2. o \in Ontologies /\ Len(o.edges) \in Nat /\ load[l].next \in 1..(Len(o.edges) + 1)
        /\ load[l].next # Len(o.edges) + 1
    BY <1>1, <1>3, <2>1
  <2> HIDE DEF o
  <2>3. load[l].next \in 1..Len(o.edges)
    BY <2>2
  <2> QED
    BY <2>2, <2>3, EdgesAreAList DEF o
<1> QED
  BY <1>2, <1>3

(* A step that changes one load only, and neither what it was asked nor    *)
(* its ontology once it has begun, keeps what was registered.              *)
LEMMA LoadKeepsVersions ==
    ASSUME Inv, SnapshotInv, Grows(published, published'), NEW l \in Loads, NEW to,
           load' = [load EXCEPT ![l] = to],
           load[l].ontology # None => to.ontology = load[l].ontology /\ to.asOf = load[l].asOf,
           HasScanned(to, published')
    PROVE  /\ ScannedInv'
           /\ \A name \in DOMAIN catalog :
                 IsVersion(catalog[name], load'[catalog[name].by], published')
<1>1. \A k \in Loads : load'[k] = IF k = l THEN to ELSE load[k]
  BY DEF Inv, TypeInv
<1>2. ASSUME NEW k \in Loads PROVE HasScanned(load'[k], published')
  <2>1. CASE k = l
    BY <1>1, <2>1
  <2>2. CASE k # l
    <3>1. load'[k] = load[k]
      BY <1>1, <2>2
    <3>2. HasScanned(load[k], published)
      BY DEF SnapshotInv, ScannedInv
    <3>3. HasScanned(load[k], published')
      BY <3>2, ScannedKeep, SourcesAreTables
    <3> QED
      BY <3>1, <3>3
  <2> QED
    BY <2>1, <2>2
<1>3. ASSUME NEW name \in DOMAIN catalog
      PROVE  IsVersion(catalog[name], load'[catalog[name].by], published')
  <2> DEFINE g == catalog[name]
             r == load[g.by]
             later == load'[g.by]
  <2>1. g.by \in Loads /\ r.ontology # None /\ r.ontology.edges[g.edge].source \in TableNames
    BY SourcesAreTables
  <2>2. later.ontology = r.ontology /\ later.asOf = r.asOf
    <3> DEFINE k == g.by
    <3>1. k \in Loads /\ r = load[k] /\ later = load'[k] /\ r.ontology # None
      BY <2>1
    <3> HIDE DEF k, g, r, later
    <3>2. CASE k = l
      BY <1>1, <3>1, <3>2
    <3>3. CASE k # l
      BY <1>1, <3>1, <3>3
    <3> QED
      BY <3>2, <3>3
  <2>3. IsVersion(g, r, published)
    BY DEF SnapshotInv, VersionsInv
  <2> HIDE DEF g, r, later
  <2>4. IsVersion(g, later, published')
    BY <2>1, <2>2, <2>3, VersionsKeep
  <2> QED
    BY <2>4 DEF g, later
<1> QED
  BY <1>2, <1>3 DEF ScannedInv

(* The steps of a load keep what is scanned and what is registered.        *)
LEMMA LoadKeepsSnapshots ==
    ASSUME Inv, SnapshotInv, Grows(published, published'), NEW l \in Loads, Load(l)
    PROVE  SnapshotInv'
<1>0. load \in [Loads -> LoadRecord] /\ load[l] \in LoadRecord /\ GoodLoad(load[l])
  BY DEF Inv, TypeInv, LoadInv
<1>1. ASSUME NEW at \in {"failed", "cancelled"}, UNCHANGED catalog,
             load' = [load EXCEPT ![l] = [load[l] EXCEPT !.at = at]]
      PROVE  SnapshotInv'
  <2> DEFINE to == [load[l] EXCEPT !.at = at]
  <2>1. to.at = at /\ to.ontology = load[l].ontology /\ to.asOf = load[l].asOf
    BY <1>0 DEF LoadRecord
  <2>2. load' = [load EXCEPT ![l] = to]
    BY <1>1
  <2> HIDE DEF to
  <2>3. HasScanned(to, published')
    BY <2>1 DEF HasScanned
  <2>4. ScannedInv' /\ \A name \in DOMAIN catalog :
           IsVersion(catalog[name], load'[catalog[name].by], published')
    BY <2>1, <2>2, <2>3, LoadKeepsVersions
  <2> QED
    BY <1>1, <2>4 DEF SnapshotInv, VersionsInv
<1>2. ASSUME NEW call \in Calls, BeginLoad(l, call) PROVE SnapshotInv'
  <2> DEFINE o == ParseFile(call.file).ontology
             begun == [[load[l] EXCEPT !.ontology = o, !.asOf = call.asOf, !.since = tables]
                          EXCEPT !.at = IF o.edges = <<>> THEN "ok" ELSE "scan"]
  <2>1. UNCHANGED catalog
    BY <1>2 DEF BeginLoad
  <2>2. CASE load' = [load EXCEPT ![l] = [load[l] EXCEPT !.at = "failed"]]
    BY <1>1, <2>1, <2>2
  <2>3. CASE load' = [load EXCEPT ![l] = begun]
    <3>1. begun.at # "register"
      <4> HIDE DEF o
      <4> QED
        BY <1>0 DEF LoadRecord
    <3>2. load[l].ontology = None
      BY <1>0, <1>2 DEF GoodLoad, BeginLoad, LoadStep
    <3> HIDE DEF begun
    <3>3. HasScanned(begun, published')
      BY <3>1 DEF HasScanned
    <3>4. ScannedInv' /\ \A name \in DOMAIN catalog :
             IsVersion(catalog[name], load'[catalog[name].by], published')
      BY <2>3, <3>2, <3>3, LoadKeepsVersions
    <3> QED
      BY <2>1, <3>4 DEF SnapshotInv, VersionsInv
  <2>4. \/ load' = [load EXCEPT ![l] = [load[l] EXCEPT !.at = "failed"]]
        \/ load' = [load EXCEPT ![l] = begun]
    BY <1>2, Zenon DEF BeginLoad, LoadStep
  <2> QED
    BY <2>2, <2>3, <2>4
<1>3. CASE ScanTable(l)
  <2> DEFINE t == EdgeOf(l).source
             to == [load[l] EXCEPT !.at = "register", !.version = tables[t], !.rows = Rows(t)]
  <2>1. UNCHANGED <<catalog, published>> /\ load[l].at = "scan"
    BY <1>3 DEF ScanTable, LoadStep
  <2>2. CASE load' = [load EXCEPT ![l] = [load[l] EXCEPT !.at = "failed"]]
    BY <1>1, <2>1, <2>2
  <2>3. CASE tables[t] # 0 /\ load' = [load EXCEPT ![l] = to]
    <3>1. /\ to.ontology = load[l].ontology /\ to.asOf = load[l].asOf /\ to.next = load[l].next
          /\ to.version = tables[t] /\ to.rows = Rows(t)
      <4> HIDE DEF t
      <4> QED
        BY <1>0 DEF LoadRecord
    <3>2. t \in TableNames /\ t = load[l].ontology.edges[load[l].next].source
      <4> DEFINE o == load[l].ontology
      <4>1. o # None
        BY <1>0, <2>1 DEF GoodLoad
      <4>2. o \in Ontologies /\ Progressed(load[l]) /\ load[l].next \in Nat
        BY <1>0, <4>1 DEF GoodLoad, LoadRecord
      <4>3. Len(o.edges) \in Nat
        BY <4>2, EdgesAreAList
      <4>4. load[l].next \in 1..Len(o.edges)
        BY <2>1, <4>2, <4>3 DEF Progressed
      <4> QED
        BY <4>2, <4>4, EdgesAreAList DEF EdgeOf
    <3>3. tables[t] \in 1..Len(published[t])
      <4>1. published[t] \in Seq(RowLists) /\ tables[t] \in Nat /\ tables[t] = Len(published[t])
        BY <2>3, <3>2 DEF Inv, TypeInv, TablesInv
      <4> QED
        BY <2>3, <4>1
    <3> HIDE DEF to, t
    <3>4. HasScanned(to, published)
      <4>1. to.ontology.edges[to.next].source = t
        BY <3>1, <3>2
      <4>2. to.version \in 1..Len(published[t]) /\ to.rows = published[t][to.version]
        BY <3>1, <3>3 DEF Rows
      <4> QED
        BY <4>1, <4>2, Zenon DEF HasScanned
    <3>5. HasScanned(to, published')
      BY <2>1, <3>4
    <3>6. ScannedInv' /\ \A name \in DOMAIN catalog :
             IsVersion(catalog[name], load'[catalog[name].by], published')
      BY <2>3, <3>1, <3>5, LoadKeepsVersions
    <3> QED
      BY <2>1, <3>6 DEF SnapshotInv, VersionsInv
  <2> QED
    BY <1>3, <2>2, <2>3 DEF ScanTable, LoadStep
<1>4. CASE RegisterGraph(l)
  <2> DEFINE o == load[l].ontology
             name == GraphName(o, EdgeOf(l))
             to == [load[l] EXCEPT !.at = IF load[l].next = Len(o.edges) THEN "ok" ELSE "scan",
                                   !.next = @ + 1, !.names = Append(@, name), !.rows = <<>>]
  <2>1. CASE UNCHANGED catalog /\ load' = [load EXCEPT ![l] = [load[l] EXCEPT !.at = "failed"]]
    BY <1>1, <2>1
  <2>2. CASE ~(UNCHANGED catalog /\ load' = [load EXCEPT ![l] = [load[l] EXCEPT !.at = "failed"]])
    <3>1. /\ DOMAIN catalog' = DOMAIN catalog \cup {name}
          /\ \A n \in DOMAIN catalog : n # name => catalog'[n] = catalog[n]
          /\ catalog'[name].by = l
          /\ load' = [load EXCEPT ![l] = to]
          /\ published' = published
      BY <1>4, <2>2, RegisterFacts, Zenon DEF EdgeOf
    <3>2. /\ to.at # "register" /\ to.ontology = load[l].ontology /\ to.asOf = load[l].asOf
      <4> HIDE DEF name, o
      <4> QED
        BY <1>0 DEF LoadRecord
    <3>3. IsVersion(catalog'[name], load[l], published)
      BY <1>4, <2>2, RegisterVersion DEF SnapshotInv
    <3> HIDE DEF to
    <3>4. HasScanned(to, published')
      BY <3>2 DEF HasScanned
    <3>5. ScannedInv' /\ \A n \in DOMAIN catalog :
             IsVersion(catalog[n], load'[catalog[n].by], published')
      BY <3>1, <3>2, <3>4, LoadKeepsVersions
    <3>6. load'[l] = to
      BY <1>0, <3>1
    <3>7. IsVersion(catalog'[name], load'[l], published')
      <4>1. IsVersion(catalog'[name], to, published)
        BY <3>2, <3>3, Zenon DEF IsVersion
      <4> QED
        BY <3>1, <3>6, <4>1
    <3> HIDE DEF name
    <3>8. VersionsInv'
      BY <3>1, <3>5, <3>7, Zenon DEF VersionsInv
    <3> QED
      BY <3>5, <3>8 DEF SnapshotInv
  <2> QED
    BY <2>1, <2>2
<1>5. CASE CancelLoad(l)
  BY <1>1, <1>5 DEF CancelLoad, LoadStep
<1> QED
  BY <1>2, <1>3, <1>4, <1>5 DEF Load

(* Every graph that is registered is one version of its table: edge by     *)
(* edge the rows that were valid at the instant, with their weights, and   *)
(* its ids are the keys of those rows, through the dictionary or as        *)
(* numbers (loader.rs:44-78, 95-99).  This holds whatever happens to the   *)
(* tables between the scan and the registration.                           *)
THEOREM LoadsAreSnapshots == Spec => []LoadedIsASnapshot
<1>1. Init => SnapshotInv
  <2> SUFFICES ASSUME Init PROVE SnapshotInv
    OBVIOUS
  <2>1. \A l \in Loads : load[l].at # "register"
    BY DEF Init, NotCalled
  <2>2. DOMAIN catalog = {}
    BY DEF Init
  <2> QED
    BY <2>1, <2>2 DEF SnapshotInv, ScannedInv, HasScanned, VersionsInv
<1>2. Inv /\ SnapshotInv /\ [Next]_vars => SnapshotInv'
  <2> SUFFICES ASSUME Inv, SnapshotInv, [Next]_vars PROVE SnapshotInv'
    OBVIOUS
  <2>1. Grows(published, published')
    BY VersionsStay
  <2>2. ASSUME UNCHANGED <<catalog, load>> PROVE SnapshotInv'
    <3>1. ASSUME NEW l \in Loads PROVE HasScanned(load[l], published')
      <4>1. HasScanned(load[l], published)
        BY DEF SnapshotInv, ScannedInv
      <4> QED
        BY <2>1, <4>1, ScannedKeep, SourcesAreTables
    <3>2. ASSUME NEW name \in DOMAIN catalog
          PROVE  IsVersion(catalog[name], load[catalog[name].by], published')
      <4> DEFINE g == catalog[name]
                 r == load[g.by]
      <4>1. IsVersion(g, r, published)
        BY DEF SnapshotInv, VersionsInv
      <4>2. r.ontology.edges[g.edge].source \in TableNames
        BY SourcesAreTables
      <4> HIDE DEF g, r
      <4>3. IsVersion(g, r, published')
        BY <2>1, <4>1, <4>2, VersionsKeep
      <4> QED
        BY <4>3 DEF g, r
    <3> QED
      BY <2>2, <3>1, <3>2 DEF SnapshotInv, ScannedInv, VersionsInv
  <2>3. CASE Session
    BY <2>2, <2>3 DEF Session, DropTable, Publish
  <2>4. CASE Provider
    BY <2>2, <2>4 DEF Provider, BeginMaterialize, CollectBatch, FinishMaterialize,
       CancelMaterialize, Serve
  <2>5. ASSUME NEW l \in Loads, Load(l) PROVE SnapshotInv'
    BY <2>1, <2>5, LoadKeepsSnapshots
  <2>6. CASE UNCHANGED vars
    BY <2>2, <2>6 DEF vars
  <2> QED
    BY <2>3, <2>4, <2>5, <2>6 DEF Next
<1>3. Inv /\ SnapshotInv => LoadedIsASnapshot
  <2> SUFFICES ASSUME SnapshotInv PROVE LoadedIsASnapshot
    OBVIOUS
  <2>1. \A name \in DOMAIN catalog :
           LET g == catalog[name]
               o == load[g.by].ontology
               edge == o.edges[g.edge]
               rows == Wanted(edge, published[edge.source][g.version], load[g.by].asOf)
           IN  IsSnapshot(g, o, edge, rows)
    BY Zenon DEF SnapshotInv, VersionsInv, IsVersion
  <2> QED
    BY <2>1, Zenon DEF LoadedIsASnapshot, IsSnapshot, KeyIs, Hashes
<1> QED
  BY <1>1, <1>2, <1>3, InvHolds, PTL DEF Spec

-----------------------------------------------------------------------------
(***************************************************************************)
(* What the provider shows is one materialization.                         *)
(***************************************************************************)
(* A filter that lets nothing through, and one that lets everything.       *)
LEMMA KeepNone ==
    ASSUME NEW V, NEW seq \in Seq(V), NEW set, \A x \in ToSet(seq) : x \notin set
    PROVE  Keep(seq, set) = <<>>
<1> DEFINE kept == Keep(seq, set)
<1>1. kept \in Seq(V) /\ ToSet(kept) = ToSet(seq) \cap set
  BY KeepElements
<1>2. ToSet(kept) = {}
  BY <1>1
<1> HIDE DEF kept
<1>3. DOMAIN kept = 1..Len(kept) /\ Len(kept) \in Nat
  BY <1>1
<1>4. \A i \in DOMAIN kept : kept[i] \in ToSet(kept)
  BY Zenon DEF ToSet
<1>5. Len(kept) = 0
  <2>1. 1 \notin DOMAIN kept
    BY <1>2, <1>4
  <2> QED
    BY <1>3, <2>1
<1>6. kept = <<>>
  BY <1>1, <1>5
<1> QED
  BY <1>6 DEF kept

LEMMA KeepAll ==
    ASSUME NEW V, NEW seq \in Seq(V), NEW set, \A i \in 1..Len(seq) : seq[i] \in set
    PROVE  Keep(seq, set) = seq
<1> DEFINE n == Len(seq)
<1>1. n \in Nat /\ \A i \in 1..n : seq[i] \in V /\ seq[i] \in set
  OBVIOUS
<1>2. PICK f : KeepsUpTo(f, V, seq, set) /\ Keep(seq, set) = f[n]
  BY KeepUnfolds
<1>3. /\ f \in [0..n -> Seq(V)] /\ f[0] = <<>>
      /\ \A i \in 1..n : f[i] = Append(f[i - 1], seq[i])
  BY <1>1, <1>2 DEF KeepsUpTo
<1> HIDE DEF n
<1> DEFINE T == {i \in 0..n : Len(f[i]) = i /\ \A j \in 1..i : f[i][j] = seq[j]}
<1>4. 0 \in T
  BY <1>1, <1>3
<1>5. ASSUME NEW i \in 1..n, i - 1 \in T PROVE i \in T
  <2>1. /\ i - 1 \in 0..n /\ i \in 0..n /\ f[i - 1] \in Seq(V) /\ seq[i] \in V
        /\ Len(f[i - 1]) = i - 1 /\ \A j \in 1..(i - 1) : f[i - 1][j] = seq[j]
    <3>1. i - 1 \in 0..n /\ i \in 0..n
      BY <1>1
    <3>2. f[i - 1] \in Seq(V) /\ seq[i] \in V
      BY <1>1, <1>3, <3>1
    <3>3. Len(f[i - 1]) = i - 1 /\ \A j \in 1..(i - 1) : f[i - 1][j] = seq[j]
      BY <1>5
    <3> QED
      BY <3>1, <3>2, <3>3
  <2>2. f[i] = Append(f[i - 1], seq[i])
    BY <1>3
  <2>3. Len(f[i]) = i /\ f[i][i] = seq[i] /\ \A j \in 1..(i - 1) : f[i][j] = f[i - 1][j]
    BY <2>1, <2>2
  <2>4. \A j \in 1..i : j = i \/ j \in 1..(i - 1)
    BY <2>1
  <2>5. \A j \in 1..i : f[i][j] = seq[j]
    BY <2>1, <2>3, <2>4
  <2> QED
    BY <2>1, <2>3, <2>5
<1>6. n \in T
  <2>1. \A i \in 0..n : i \in T
    <3> HIDE DEF T
    <3> QED
      BY <1>1, <1>4, <1>5, UpTo
  <2>2. n \in 0..n
    BY <1>1
  <2> QED
    BY <2>1, <2>2, Zenon
<1>7. f[n] \in Seq(V) /\ Len(f[n]) = n /\ \A j \in 1..n : f[n][j] = seq[j]
  BY <1>1, <1>3, <1>6
<1>8. f[n] = seq
  BY <1>7 DEF n
<1> QED
  BY <1>2, <1>8

\* The edges that the rows of a table become, and their labels.
ProvidedEdges == UNION {ToSet(NumericEdges(rows, FALSE, FALSE)) : rows \in RowLists}
ProvidedLabels == {e.label : e \in ToSet(Provided.edges)}
ShownRows == [edge : ProvidedEdges, label : ProvidedLabels]

\* The rows that a batch shows, and those of all batches.
OfBatch(b) == [k \in DOMAIN b.edges |-> [edge |-> b.edges[k], label |-> b.label]]
Shown(batches) == FlattenSeq([i \in DOMAIN batches |-> OfBatch(batches[i])])
EdgesOf(rows) == [k \in DOMAIN rows |-> rows[k].edge]
OfLabel(label) == {row \in ShownRows : row.label = label}

\* The batch of an edge definition is one version of its table.
IsOneVersion(rows, edge, versions) ==
    \E v \in 1..Len(versions[edge.source]) :
        EdgesOf(Keep(rows, OfLabel(edge.label))) = NumericEdges(versions[edge.source][v], FALSE, FALSE)

\* The batches are the edge definitions up to some place, and the edges are theirs.
Collected(batches, edges, versions) ==
    LET rows == Shown(batches)
    IN  /\ \A i \in 1..Len(batches) : OfBatch(batches[i]) \in Seq(ShownRows)
        /\ rows \in Seq(ShownRows) /\ edges = EdgesOf(rows)
        /\ \A row \in ToSet(rows) : \E i \in 1..Len(batches) : row.label = Provided.edges[i].label
        /\ \A i \in 1..Len(batches) : IsOneVersion(rows, Provided.edges[i], versions)

(* The rows that are scanned become numbers.                               *)
LEMMA NumericRows ==
    ASSUME NEW rows \in RowLists
    PROVE  NumericEdges(rows, FALSE, FALSE) \in Seq(ProvidedEdges)
<1> DEFINE kept == WithEnds(rows)
           edges == NumericEdges(rows, FALSE, FALSE)
<1>1. rows \in Seq(ToSet(rows))
  BY RowsAreRows
<1>2. kept \in Seq(ToSet(rows))
  <2> DEFINE ends == {row \in ToSet(rows) : Null \notin {row.from, row.to}}
  <2>1. kept = Keep(rows, ends)
    BY DEF WithEnds
  <2> HIDE DEF ends
  <2>2. Keep(rows, ends) \in Seq(ToSet(rows))
    BY <1>1, KeepElements
  <2> QED
    BY <2>1, <2>2
<1>3. Len(kept) \in Nat /\ DOMAIN kept = 1..Len(kept)
  BY <1>2
<1>4. edges = [i \in 1..Len(kept) |-> <<NumericId(kept[i].from, FALSE), NumericId(kept[i].to, FALSE)>>]
  BY <1>3 DEF NumericEdges
<1> HIDE DEF kept
<1>5. DOMAIN edges = 1..Len(kept) /\ edges = [i \in 1..Len(kept) |-> edges[i]]
  BY <1>4
<1>6. \A i \in DOMAIN edges : edges[i] \in ToSet(edges)
  <2> HIDE DEF edges
  <2> QED
    BY Zenon DEF ToSet
<1>7. ToSet(edges) \subseteq ProvidedEdges
  BY DEF ProvidedEdges
<1> HIDE DEF edges
<1>8. edges \in Seq(ProvidedEdges)
  BY <1>3, <1>5, <1>6, <1>7
<1> QED
  BY <1>8 DEF edges

(* The table with null ends dropped is what the property asks for.         *)
LEMMA NumbersOfRows ==
    ASSUME NEW all \in RowLists
    PROVE  LET rows == Keep(all, {row \in ToSet(all) : row.from # Null /\ row.to # Null})
           IN  NumericEdges(all, FALSE, FALSE)
                  = [i \in DOMAIN rows |-> <<rows[i].from.number, rows[i].to.number>>]
<1> DEFINE wanted == {row \in ToSet(all) : row.from # Null /\ row.to # Null}
           ends == {row \in ToSet(all) : Null \notin {row.from, row.to}}
           rows == Keep(all, ends)
<1>1. wanted = ends
  OBVIOUS
<1>2. WithEnds(all) = rows
  BY DEF WithEnds
<1>3. all \in Seq(ToSet(all))
  BY RowsAreRows
<1>4. rows \in Seq(ToSet(all)) /\ ToSet(rows) = ToSet(all) \cap ends
  <2> HIDE DEF ends
  <2> QED
    BY <1>3, KeepElements
<1> HIDE DEF rows
<1>5. ASSUME NEW i \in DOMAIN rows PROVE rows[i].from # Null /\ rows[i].to # Null
  <2>1. rows[i] \in ToSet(rows)
    BY Zenon DEF ToSet
  <2> QED
    BY <1>4, <2>1
<1>6. NumericEdges(all, FALSE, FALSE)
         = [i \in DOMAIN rows |-> <<NumericId(rows[i].from, FALSE), NumericId(rows[i].to, FALSE)>>]
  BY <1>2 DEF NumericEdges
<1>7. \A i \in DOMAIN rows : /\ NumericId(rows[i].from, FALSE) = rows[i].from.number
                             /\ NumericId(rows[i].to, FALSE) = rows[i].to.number
  BY <1>5 DEF NumericId
<1>8. NumericEdges(all, FALSE, FALSE)
         = [i \in DOMAIN rows |-> <<rows[i].from.number, rows[i].to.number>>]
  BY <1>6, <1>7
<1>9. Keep(all, wanted) = rows
  <2> HIDE DEF wanted, ends
  <2> QED
    BY <1>1 DEF rows
<1> QED
  <2> HIDE DEF wanted
  <2>1. LET kept == Keep(all, wanted)
        IN  NumericEdges(all, FALSE, FALSE)
               = [i \in DOMAIN kept |-> <<kept[i].from.number, kept[i].to.number>>]
    BY <1>8, <1>9
  <2> QED
    BY <2>1 DEF wanted

(* A list that is given place by place, and two lists one after the other. *)
LEMMA IsAList ==
    ASSUME NEW S, NEW n \in Nat, NEW f, f = [k \in 1..n |-> f[k]], \A k \in 1..n : f[k] \in S
    PROVE  f \in Seq(S) /\ Len(f) = n
OBVIOUS

LEMMA ListOf ==
    ASSUME NEW S, NEW s \in Seq(S)
    PROVE  Len(s) \in Nat /\ DOMAIN s = 1..Len(s) /\ \A k \in 1..Len(s) : s[k] \in S
OBVIOUS

LEMMA BothLists ==
    ASSUME NEW S, NEW s \in Seq(S), NEW t \in Seq(S)
    PROVE  /\ s \o t \in Seq(S) /\ Len(s \o t) = Len(s) + Len(t)
           /\ \A k \in 1..(Len(s) + Len(t)) :
                 (s \o t)[k] = IF k <= Len(s) THEN s[k] ELSE t[k - Len(s)]
           /\ ToSet(s \o t) \subseteq ToSet(s) \cup ToSet(t)
<1> DEFINE u == s \o t
           n == Len(s)
           m == Len(t)
<1>1. u \in Seq(S) /\ Len(u) = n + m
  OBVIOUS
<1>2. \A k \in 1..(n + m) : u[k] = IF k <= n THEN s[k] ELSE t[k - n]
  OBVIOUS
<1>3. n \in Nat /\ m \in Nat /\ DOMAIN s = 1..n /\ DOMAIN t = 1..m
  OBVIOUS
<1> HIDE DEF u, n, m
<1>4. DOMAIN u = 1..(n + m)
  BY <1>1, ListOf
<1>5. ASSUME NEW k \in DOMAIN u PROVE u[k] \in ToSet(s) \cup ToSet(t)
  <2>1. CASE k <= n
    <3>1. k \in DOMAIN s /\ u[k] = s[k]
      BY <1>2, <1>3, <1>4, <2>1
    <3>2. s[k] \in ToSet(s)
      BY <3>1, Zenon DEF ToSet
    <3> QED
      BY <3>1, <3>2
  <2>2. CASE ~(k <= n)
    <3>1. k - n \in DOMAIN t /\ u[k] = t[k - n]
      BY <1>2, <1>3, <1>4, <2>2
    <3>2. t[k - n] \in ToSet(t)
      BY <3>1, Zenon DEF ToSet
    <3> QED
      BY <3>1, <3>2
  <2> QED
    BY <2>1, <2>2
<1>6. ToSet(u) \subseteq ToSet(s) \cup ToSet(t)
  <2> SUFFICES ASSUME NEW x \in ToSet(u) PROVE x \in ToSet(s) \cup ToSet(t)
    OBVIOUS
  <2>1. PICK k \in DOMAIN u : x = u[k]
    BY Zenon DEF ToSet
  <2> QED
    BY <1>5, <2>1
<1> QED
  BY <1>1, <1>2, <1>6 DEF u, n, m

(* Projecting the edges of two lists of rows.                              *)
LEMMA EdgesOfBoth ==
    ASSUME NEW V, NEW s \in Seq(V), NEW t \in Seq(V)
    PROVE  EdgesOf(s \o t) = EdgesOf(s) \o EdgesOf(t)
<1> DEFINE E == {x.edge : x \in V}
<1>0. \A x \in V : x.edge \in E
  OBVIOUS
<1> HIDE DEF E
<1>1. \A u \in Seq(V) : /\ EdgesOf(u) \in Seq(E) /\ Len(EdgesOf(u)) = Len(u)
                        /\ \A k \in 1..Len(u) : EdgesOf(u)[k] = u[k].edge
  <2> TAKE u \in Seq(V)
  <2>1. DOMAIN u = 1..Len(u) /\ Len(u) \in Nat /\ \A k \in 1..Len(u) : u[k].edge \in E
    BY <1>0, ListOf
  <2> DEFINE f == EdgesOf(u)
  <2>2. f = [k \in 1..Len(u) |-> u[k].edge]
    BY <2>1 DEF EdgesOf
  <2> HIDE DEF f
  <2>3. f = [k \in 1..Len(u) |-> f[k]] /\ \A k \in 1..Len(u) : f[k] = u[k].edge
    BY <2>2
  <2>4. f \in Seq(E) /\ Len(f) = Len(u)
    BY <2>1, <2>3, IsAList
  <2> QED
    BY <2>3, <2>4 DEF f
<1> DEFINE a == EdgesOf(s)
           b == EdgesOf(t)
           both == s \o t
           c == EdgesOf(both)
           n == Len(s)
           m == Len(t)
<1>2. /\ both \in Seq(V) /\ Len(both) = n + m
      /\ \A k \in 1..(n + m) : both[k] = IF k <= n THEN s[k] ELSE t[k - n]
  BY BothLists
<1> HIDE DEF both
<1>3. /\ a \in Seq(E) /\ b \in Seq(E) /\ c \in Seq(E) /\ n \in Nat /\ m \in Nat
      /\ Len(a) = n /\ Len(b) = m /\ Len(c) = n + m
      /\ \A k \in 1..n : a[k] = s[k].edge
      /\ \A k \in 1..m : b[k] = t[k].edge
      /\ \A k \in 1..(n + m) : c[k] = both[k].edge
  BY <1>1, <1>2, ListOf
<1> HIDE DEF a, b, c, n, m
<1>4. \A k \in 1..(n + m) : c[k] = IF k <= n THEN a[k] ELSE b[k - n]
  <2> TAKE k \in 1..(n + m)
  <2>1. CASE k <= n
    <3>1. k \in 1..n
      BY <1>3, <2>1
    <3> QED
      BY <1>2, <1>3, <2>1, <3>1
  <2>2. CASE ~(k <= n)
    <3>1. k - n \in 1..m
      BY <1>3, <2>2
    <3>2. both[k] = t[k - n] /\ c[k] = both[k].edge
      BY <1>2, <1>3, <2>2
    <3> QED
      BY <1>3, <2>2, <3>1, <3>2
  <2> QED
    BY <2>1, <2>2
<1>5. c = a \o b
  <2> DEFINE d == a \o b
  <2>1. /\ d \in Seq(E) /\ Len(d) = n + m
        /\ \A k \in 1..(n + m) : d[k] = IF k <= n THEN a[k] ELSE b[k - n]
    BY <1>3, BothLists
  <2> HIDE DEF d
  <2>2. DOMAIN c = 1..(n + m) /\ DOMAIN d = 1..(n + m)
    BY <1>3, <2>1, ListOf
  <2>3. c = [k \in 1..(n + m) |-> c[k]] /\ d = [k \in 1..(n + m) |-> d[k]]
    BY <1>3, <2>1, <2>2
  <2>4. c = d
    BY <1>4, <2>1, <2>3
  <2> QED
    BY <2>4 DEF d
<1> QED
  BY <1>5 DEF a, b, c, both

(* A batch of one more edge definition, whose label no earlier one has.    *)
LEMMA CollectsMore ==
    ASSUME NEW B, NEW batches \in Seq(B), NEW edges, NEW versions, NEW batch,
           ValidateOrError(Provided) = Ok, Collected(batches, edges, versions),
           Len(batches) + 1 \in DOMAIN Provided.edges,
           NEW edge, edge = Provided.edges[Len(batches) + 1],
           NEW v \in 1..Len(versions[edge.source]), versions[edge.source][v] \in RowLists,
           batch.label = edge.label,
           batch.edges = NumericEdges(versions[edge.source][v], FALSE, FALSE)
    PROVE  Collected(Append(batches, batch), edges \o batch.edges, versions)
<1> DEFINE n == Len(batches)
           more == Append(batches, batch)
           lists == [i \in DOMAIN batches |-> OfBatch(batches[i])]
           rows == Shown(batches)
           last == OfBatch(batch)
           R == ShownRows
<1>1. /\ \A i \in 1..n : OfBatch(batches[i]) \in Seq(R)
      /\ rows \in Seq(R) /\ edges = EdgesOf(rows)
      /\ \A row \in ToSet(rows) : \E i \in 1..n : row.label = Provided.edges[i].label
      /\ \A i \in 1..n : IsOneVersion(rows, Provided.edges[i], versions)
  BY DEF Collected
<1>2. n \in Nat /\ Len(more) = n + 1 /\ DOMAIN more = 1..(n + 1) /\ DOMAIN batches = 1..n
      /\ (\A i \in 1..n : more[i] = batches[i]) /\ more[n + 1] = batch
  OBVIOUS
<1>3. batch.edges \in Seq(ProvidedEdges) /\ edge.label \in ProvidedLabels
  <2>1. batch.edges \in Seq(ProvidedEdges)
    BY NumericRows
  <2>2. edge \in ToSet(Provided.edges)
    BY DEF ToSet
  <2> QED
    BY <2>1, <2>2 DEF ProvidedLabels
<1>4. /\ last \in Seq(R) /\ Len(last) = Len(batch.edges)
      /\ \A k \in 1..Len(last) : last[k].label = edge.label /\ last[k].edge = batch.edges[k]
  <2> DEFINE m == Len(batch.edges)
             new == batch.edges
  <2>1. DOMAIN new = 1..m /\ m \in Nat /\ \A k \in 1..m : new[k] \in ProvidedEdges
    BY <1>3, ListOf
  <2>2. last = [k \in 1..m |-> [edge |-> new[k], label |-> edge.label]]
    BY <2>1 DEF OfBatch
  <2>3. \A k \in 1..m : [edge |-> new[k], label |-> edge.label] \in R
    <3> HIDE DEF new, m
    <3> QED
      BY <1>3, <2>1 DEF ShownRows
  <2> HIDE DEF last, R, m, new
  <2>4. last = [k \in 1..m |-> last[k]]
    BY <2>2
  <2>5. \A k \in 1..m : /\ last[k] \in R /\ last[k].label = edge.label /\ last[k].edge = new[k]
    BY <2>2, <2>3
  <2>6. last \in Seq(R) /\ Len(last) = m
    BY <2>1, <2>4, <2>5, IsAList
  <2> QED
    BY <2>5, <2>6 DEF m, new
<1> HIDE DEF last, R
<1>5. EdgesOf(last) = batch.edges
  <2> DEFINE m == Len(last)
             new == batch.edges
  <2>1. DOMAIN last = 1..m /\ DOMAIN new = 1..m
    BY <1>3, <1>4, ListOf
  <2>2. \A k \in 1..m : last[k].edge = new[k]
    BY <1>4
  <2>3. new \in Seq(ProvidedEdges)
    BY <1>3
  <2> HIDE DEF m, new
  <2>4. new = [k \in 1..m |-> new[k]]
    BY <2>1, <2>3
  <2>5. EdgesOf(last) = [k \in 1..m |-> last[k].edge]
    BY <2>1, Zenon DEF EdgesOf
  <2>6. EdgesOf(last) = new
    BY <2>2, <2>4, <2>5
  <2> QED
    BY <2>6 DEF new
<1>6. Shown(more) = rows \o last /\ rows \o last \in Seq(R)
  <2>1. lists \in Seq(Seq(R)) /\ Len(lists) = n
    <3> DEFINE S == Seq(R)
    <3>1. lists = [i \in 1..n |-> OfBatch(batches[i])]
      BY <1>2
    <3>2. \A i \in 1..n : OfBatch(batches[i]) \in S
      BY <1>1
    <3> HIDE DEF lists, S, n
    <3>3. lists = [i \in 1..n |-> lists[i]] /\ \A i \in 1..n : lists[i] \in S
      BY <3>1, <3>2
    <3>4. lists \in Seq(S) /\ Len(lists) = n
      BY <1>2, <3>3, IsAList
    <3> QED
      BY <3>4 DEF S
  <2>2. [i \in DOMAIN more |-> OfBatch(more[i])] = Append(lists, last)
    <3> DEFINE x == [i \in DOMAIN more |-> OfBatch(more[i])]
               y == Append(lists, last)
    <3>1. DOMAIN x = 1..(n + 1) /\ x = [i \in 1..(n + 1) |-> x[i]]
      BY <1>2
    <3>2. DOMAIN y = 1..(n + 1) /\ y = [i \in 1..(n + 1) |-> y[i]]
      <4> DEFINE S == Seq(R)
      <4>1. lists \in Seq(S) /\ last \in S
        BY <1>4, <2>1
      <4> HIDE DEF lists, S
      <4>2. y \in Seq(S) /\ Len(y) = n + 1
        BY <2>1, <4>1
      <4> HIDE DEF y
      <4> QED
        BY <4>2
    <3>3. ASSUME NEW i \in 1..(n + 1) PROVE x[i] = y[i]
      <4>1. CASE i = n + 1
        <5>1. x[i] = last
          BY <1>2, <4>1 DEF last
        <5>2. y[i] = last
          <6> HIDE DEF lists
          <6> QED
            BY <1>4, <2>1, <4>1
        <5> QED
          BY <5>1, <5>2
      <4>2. CASE i # n + 1
        <5>1. i \in 1..n
          BY <1>2, <4>2
        <5>2. x[i] = OfBatch(batches[i])
          BY <1>2, <5>1
        <5>3. lists[i] = OfBatch(batches[i])
          BY <1>2, <5>1
        <5>4. y[i] = lists[i]
          <6> HIDE DEF lists
          <6> QED
            BY <1>4, <2>1, <5>1
        <5> QED
          BY <5>2, <5>3, <5>4
      <4> QED
        BY <4>1, <4>2
    <3> HIDE DEF x, y
    <3>4. x = y
      BY <3>1, <3>2, <3>3
    <3> QED
      BY <3>4 DEF x, y
  <2>3. FlattenSeq(Append(lists, last)) = FlattenSeq(lists) \o last
    <3> HIDE DEF lists, R
    <3> QED
      BY <1>4, <2>1, FlattenAppend
  <2>4. rows = FlattenSeq(lists)
    BY DEF Shown
  <2>5. Shown(more) = FlattenSeq([i \in DOMAIN more |-> OfBatch(more[i])])
    BY DEF Shown
  <2>6. Shown(more) = rows \o last
    BY <2>2, <2>3, <2>4, <2>5, Zenon
  <2> HIDE DEF rows, R
  <2>7. rows \o last \in Seq(R)
    BY <1>1, <1>4
  <2> QED
    BY <2>6, <2>7 DEF rows
<1> HIDE DEF rows, more
<1>7. ASSUME NEW i \in 1..n PROVE Provided.edges[i].label # edge.label
  <2>1. i \in DOMAIN Provided.edges /\ n + 1 \in DOMAIN Provided.edges /\ i # n + 1
    <3>1. DOMAIN Provided.edges = 1..Len(Provided.edges) /\ Len(Provided.edges) \in Nat
      BY EdgesAreAList
    <3> QED
      BY <1>2, <3>1
  <2>2. Provided.edges[i].label = edge.label
           => GraphName(Provided, Provided.edges[i]) = GraphName(Provided, Provided.edges[n + 1])
    BY DEF GraphName
  <2> QED
    BY <2>1, <2>2, ValidNames
<1>8. ASSUME NEW i \in 1..n PROVE IsOneVersion(rows \o last, Provided.edges[i], versions)
  <2> DEFINE set == OfLabel(Provided.edges[i].label)
  <2>1. \A x \in ToSet(last) : x \notin set
    <3> SUFFICES ASSUME NEW x \in ToSet(last) PROVE x \notin set
      OBVIOUS
    <3>1. DOMAIN last = 1..Len(last)
      BY <1>4, ListOf
    <3>2. PICK k \in DOMAIN last : x = last[k]
      BY Zenon DEF ToSet
    <3>3. x.label = edge.label
      BY <1>4, <3>1, <3>2
    <3> QED
      BY <1>7, <3>3 DEF OfLabel
  <2> HIDE DEF set, R
  <2>2. Keep(last, set) = <<>>
    BY <1>4, <2>1, KeepNone
  <2>3. Keep(rows \o last, set) = Keep(rows, set) \o Keep(last, set)
    BY <1>1, <1>4, KeepConcat
  <2>4. Keep(rows, set) \in Seq(R)
    BY <1>1, KeepElements
  <2>5. Keep(rows \o last, set) = Keep(rows, set)
    BY <2>2, <2>3, <2>4
  <2> QED
    BY <1>1, <2>5, Zenon DEF IsOneVersion, set
<1>9. IsOneVersion(rows \o last, edge, versions)
  <2> DEFINE set == OfLabel(edge.label)
  <2>1. \A x \in ToSet(rows) : x \notin set
    BY <1>1, <1>7 DEF OfLabel
  <2>2. \A k \in 1..Len(last) : last[k] \in set
    <3>1. \A k \in 1..Len(last) : last[k] \in R
      BY <1>4, ListOf
    <3> QED
      BY <1>4, <3>1 DEF OfLabel, R
  <2> HIDE DEF set, R
  <2>3. Keep(rows, set) = <<>>
    BY <1>1, <2>1, KeepNone
  <2>4. Keep(last, set) = last
    BY <1>4, <2>2, KeepAll
  <2>5. Keep(rows \o last, set) = Keep(rows, set) \o Keep(last, set)
    BY <1>1, <1>4, KeepConcat
  <2>6. Keep(rows \o last, set) = last
    BY <1>4, <2>3, <2>4, <2>5
  <2> QED
    BY <1>5, <2>6, Zenon DEF IsOneVersion, set
<1>10. EdgesOf(rows \o last) = edges \o batch.edges
  <2>1. EdgesOf(rows \o last) = EdgesOf(rows) \o EdgesOf(last)
    BY <1>1, <1>4, EdgesOfBoth
  <2> QED
    BY <1>1, <1>5, <2>1
<1>11. ASSUME NEW row \in ToSet(rows \o last)
       PROVE  \E i \in 1..(n + 1) : row.label = Provided.edges[i].label
  <2>1. row \in ToSet(rows) \/ row \in ToSet(last)
    <3>1. ToSet(rows \o last) \subseteq ToSet(rows) \cup ToSet(last)
      BY <1>1, <1>4, BothLists
    <3> QED
      BY <3>1
  <2>2. CASE row \in ToSet(rows)
    <3>1. PICK i \in 1..n : row.label = Provided.edges[i].label
      BY <1>1, <2>2
    <3>2. i \in 1..(n + 1)
      BY <1>2
    <3> QED
      BY <3>1, <3>2
  <2>3. CASE row \in ToSet(last)
    <3>1. DOMAIN last = 1..Len(last)
      BY <1>4, ListOf
    <3>2. row.label = edge.label
      <4>1. PICK k \in DOMAIN last : row = last[k]
        BY <2>3, Zenon DEF ToSet
      <4> QED
        BY <1>4, <3>1, <4>1
    <3>3. n + 1 \in 1..(n + 1)
      BY <1>2
    <3> QED
      BY <3>2, <3>3
  <2> QED
    BY <2>1, <2>2, <2>3
<1>12. ASSUME NEW i \in 1..Len(more)
       PROVE  /\ OfBatch(more[i]) \in Seq(R)
              /\ IsOneVersion(rows \o last, Provided.edges[i], versions)
  <2> HIDE DEF R
  <2>1. CASE i = n + 1
    BY <1>2, <1>4, <1>9, <2>1 DEF last, more
  <2>2. CASE i # n + 1
    <3>1. i \in 1..n
      BY <1>2, <2>2 DEF more
    <3> QED
      BY <1>1, <1>2, <1>8, <3>1 DEF more
  <2> QED
    BY <2>1, <2>2
<1>13. Len(more) = n + 1
  BY <1>2 DEF more
<1> HIDE DEF n, last
<1>14. Collected(more, edges \o batch.edges, versions)
  BY <1>6, <1>10, <1>11, <1>12, <1>13 DEF Collected, R
<1> QED
  BY <1>14 DEF more

(* What was collected stays so when the tables change.                     *)
LEMMA CollectedStays ==
    ASSUME NEW batches, NEW edges, NEW versions, NEW later, Grows(versions, later),
           Collected(batches, edges, versions),
           \A i \in 1..Len(batches) : Provided.edges[i].source \in TableNames
    PROVE  Collected(batches, edges, later)
<1> DEFINE rows == Shown(batches)
<1>1. ASSUME NEW i \in 1..Len(batches) PROVE IsOneVersion(rows, Provided.edges[i], later)
  <2> DEFINE edge == Provided.edges[i]
             t == edge.source
  <2>1. IsOneVersion(rows, edge, versions)
    BY DEF Collected
  <2>2. t \in TableNames
    OBVIOUS
  <2> HIDE DEF rows
  <2>3. PICK v \in 1..Len(versions[t]) :
           EdgesOf(Keep(rows, OfLabel(edge.label))) = NumericEdges(versions[t][v], FALSE, FALSE)
    BY <2>1, Zenon DEF IsOneVersion
  <2>4. v \in 1..Len(later[t]) /\ later[t][v] = versions[t][v]
    BY <2>2, <2>3 DEF Grows
  <2> QED
    BY <2>3, <2>4, Zenon DEF IsOneVersion
<1> QED
  BY <1>1 DEF Collected

\* An answer shows all batches, cut at its limit.
IsServed(r, versions) ==
    \E batches, edges :
        /\ Len(batches) = Len(Provided.edges) /\ Collected(batches, edges, versions)
        /\ r.limit \in Nat \cup {None} /\ r.graph = edges
        /\ r.rows = IF r.limit = None \/ r.limit >= Len(Shown(batches)) THEN Shown(batches)
                    ELSE SubSeq(Shown(batches), 1, r.limit)

\* The property of one answer.
ShowsAll(r, versions) ==
    \A e \in ToSet(Provided.edges) : \E v \in DOMAIN versions[e.source] :
        LET all == versions[e.source][v]
            rows == Keep(all, {row \in ToSet(all) : row.from # Null /\ row.to # Null})
            mine == Keep(r.rows, {row \in ToSet(r.rows) : row.label = e.label})
        IN  [i \in DOMAIN mine |-> mine[i].edge]
               = [i \in DOMAIN rows |-> <<rows[i].from.number, rows[i].to.number>>]

IsCoherent(r, versions) ==
    LET shown == [i \in DOMAIN r.rows |-> r.rows[i].edge]
        whole == r.limit = None \/ Len(r.graph) <= r.limit
    IN  /\ IsPrefix(shown, r.graph)
        /\ Len(shown) = IF whole THEN Len(r.graph) ELSE r.limit
        /\ whole => ShowsAll(r, versions)

(* Such an answer is coherent.                                             *)
LEMMA ServedIsCoherent ==
    ASSUME NEW versions, versions \in [TableNames -> Seq(RowLists)], NEW r, IsServed(r, versions)
    PROVE  IsCoherent(r, versions)
<1>1. PICK batches, edges :
        /\ Len(batches) = Len(Provided.edges) /\ Collected(batches, edges, versions)
        /\ r.limit \in Nat \cup {None} /\ r.graph = edges
        /\ r.rows = IF r.limit = None \/ r.limit >= Len(Shown(batches)) THEN Shown(batches)
                    ELSE SubSeq(Shown(batches), 1, r.limit)
  BY Zenon DEF IsServed
<1> DEFINE rows == Shown(batches)
           R == ShownRows
           n == Len(rows)
           E == {x.edge : x \in R}
           shown == EdgesOf(r.rows)
           graph == r.graph
           whole == r.limit = None \/ Len(graph) <= r.limit
<1>2. rows \in Seq(R) /\ graph = EdgesOf(rows)
      /\ \A i \in 1..Len(Provided.edges) : IsOneVersion(rows, Provided.edges[i], versions)
  BY <1>1 DEF Collected
<1>3. n \in Nat /\ DOMAIN rows = 1..n /\ \A k \in 1..n : rows[k] \in R
  <2> HIDE DEF rows, R
  <2> QED
    BY <1>2, ListOf
<1>4. graph \in Seq(E) /\ Len(graph) = n /\ \A k \in 1..n : graph[k] = rows[k].edge
  <2>1. graph = [k \in 1..n |-> rows[k].edge]
    BY <1>2, <1>3, Zenon DEF EdgesOf
  <2>2. \A k \in 1..n : rows[k].edge \in E
    BY <1>3
  <2> HIDE DEF graph, E, n, rows
  <2>3. graph = [k \in 1..n |-> graph[k]] /\ \A k \in 1..n : graph[k] = rows[k].edge
    BY <2>1
  <2> QED
    BY <1>3, <2>2, <2>3, IsAList
<1>5. CASE whole
  <2>1. r.rows = rows
    <3>1. r.limit = None \/ n <= r.limit
      BY <1>4, <1>5
    <3>2. r.limit = None \/ r.limit >= n
      <4> HIDE DEF n
      <4> QED
        BY <1>1, <1>3, <3>1
    <3> QED
      BY <1>1, <3>2, Zenon
  <2>2. shown = graph
    BY <1>2, <2>1
  <2> HIDE DEF shown, E, R, rows
  <2>3. IsPrefix(shown, graph)
    <3>1. Len(graph) <= Len(graph)
      BY <1>3, <1>4
    <3> HIDE DEF graph
    <3> QED
      BY <1>4, <2>2, <3>1, PrefixOf
  <2>4. Len(shown) = Len(graph)
    BY <2>2
  <2>5. ShowsAll(r, versions)
    <3> SUFFICES ASSUME NEW e \in ToSet(Provided.edges)
                 PROVE  \E v \in DOMAIN versions[e.source] :
                            LET all == versions[e.source][v]
                                kept == Keep(all, {row \in ToSet(all) : row.from # Null /\ row.to # Null})
                                mine == Keep(r.rows, {row \in ToSet(r.rows) : row.label = e.label})
                            IN  [i \in DOMAIN mine |-> mine[i].edge]
                                   = [i \in DOMAIN kept |-> <<kept[i].from.number, kept[i].to.number>>]
      BY DEF ShowsAll
    <3>1. PICK i \in DOMAIN Provided.edges : e = Provided.edges[i]
      BY Zenon DEF ToSet
    <3>2. i \in 1..Len(Provided.edges) /\ e.source \in TableNames
      BY <3>1, EdgesAreAList
    <3>3. IsOneVersion(rows, e, versions)
      BY <1>2, <3>1, <3>2
    <3> DEFINE own == {row \in ToSet(rows) : row.label = e.label}
               mine == Keep(rows, own)
    <3>4. PICK v \in 1..Len(versions[e.source]) :
             EdgesOf(Keep(rows, OfLabel(e.label))) = NumericEdges(versions[e.source][v], FALSE, FALSE)
      BY <3>3, Zenon DEF IsOneVersion
    <3>5. mine = Keep(rows, OfLabel(e.label))
      <4> DEFINE V == ToSet(rows)
                 label == OfLabel(e.label)
      <4>1. \A k \in 1..n : rows[k] \in V
        <5>1. \A k \in DOMAIN rows : rows[k] \in V
          BY Zenon DEF ToSet
        <5> QED
          BY <1>3, <5>1
      <4>2. rows \in Seq(V)
        <5> HIDE DEF V
        <5>1. rows = [k \in 1..n |-> rows[k]]
          BY <1>2, <1>3
        <5> QED
          BY <1>3, <4>1, <5>1, IsAList
      <4>3. \A x \in V : x \in R
        <5> SUFFICES ASSUME NEW x \in V PROVE x \in R
          OBVIOUS
        <5>1. PICK k \in DOMAIN rows : x = rows[k]
          BY Zenon DEF ToSet
        <5> QED
          BY <1>3, <5>1
      <4>4. \A x \in V : x \in own <=> x \in label
        BY <4>3 DEF OfLabel, R
      <4> HIDE DEF V, own, label
      <4>5. Keep(rows, own) = Keep(rows, label)
        BY <4>2, <4>4, KeepSame
      <4> QED
        BY <4>5 DEF label
    <3>6. versions[e.source] \in Seq(RowLists)
      BY <3>2
    <3>7. v \in DOMAIN versions[e.source] /\ versions[e.source][v] \in RowLists
      BY <3>4, <3>6, ListOf
    <3> DEFINE all == versions[e.source][v]
               wanted == {row \in ToSet(all) : row.from # Null /\ row.to # Null}
               kept == Keep(all, wanted)
    <3>8. NumericEdges(all, FALSE, FALSE)
             = [k \in DOMAIN kept |-> <<kept[k].from.number, kept[k].to.number>>]
      BY <3>7, NumbersOfRows
    <3>9. [k \in DOMAIN mine |-> mine[k].edge] = EdgesOf(mine)
      BY DEF EdgesOf
    <3> HIDE DEF mine, kept
    <3>10. [k \in DOMAIN mine |-> mine[k].edge]
             = [k \in DOMAIN kept |-> <<kept[k].from.number, kept[k].to.number>>]
      BY <3>4, <3>5, <3>8, <3>9
    <3> QED
      BY <2>1, <3>7, <3>10 DEF mine, kept
  <2> QED
    BY <1>5, <2>3, <2>4, <2>5 DEF IsCoherent, EdgesOf, shown
<1>6. CASE ~whole
  <2> DEFINE cut == SubSeq(rows, 1, r.limit)
             m == r.limit
  <2>1. m \in Nat /\ m < n /\ r.rows = cut
    BY <1>1, <1>3, <1>4, <1>6
  <2>2. DOMAIN cut = 1..m /\ \A k \in 1..m : cut[k] = rows[k]
    <3> HIDE DEF rows, R
    <3>1. \A s \in Seq(R) : \A j \in Nat : j < Len(s) =>
             DOMAIN SubSeq(s, 1, j) = 1..j /\ \A k \in 1..j : SubSeq(s, 1, j)[k] = s[k]
      OBVIOUS
    <3> QED
      BY <1>2, <2>1, <3>1
  <2> HIDE DEF rows, cut, E, R, n, graph
  <2>3. shown = [k \in 1..m |-> rows[k].edge]
    BY <2>1, <2>2 DEF EdgesOf
  <2> HIDE DEF shown
  <2>4. shown = [k \in 1..m |-> shown[k]] /\ \A k \in 1..m : shown[k] = graph[k]
    BY <1>3, <1>4, <2>1, <2>3
  <2>5. \A k \in 1..m : shown[k] \in E
    <3>1. \A k \in 1..m : k \in 1..n
      BY <1>3, <2>1
    <3>2. \A k \in 1..n : graph[k] \in E
      BY <1>4, ListOf
    <3> QED
      BY <2>4, <3>1, <3>2
  <2>6. shown \in Seq(E) /\ Len(shown) = m
    BY <2>1, <2>4, <2>5, IsAList
  <2>7. Len(shown) <= Len(graph)
    BY <1>3, <1>4, <2>1, <2>6
  <2>8. IsPrefix(shown, graph)
    BY <1>4, <2>4, <2>6, <2>7, PrefixOf
  <2> QED
    BY <1>6, <2>6, <2>8 DEF IsCoherent, EdgesOf, shown, m, graph
<1> QED
  BY <1>5, <1>6

\* What the provider collects, has and has answered.
MaterializedInv ==
    /\ work.next # 0 => /\ ValidateOrError(Provided) = Ok
                        /\ Collected(work.batches, work.edges, published)
    /\ provider.materialized => /\ Len(provider.batches) = Len(Provided.edges)
                                /\ Collected(provider.batches, provider.edges, published)
    /\ served # NotServed => IsServed(served, published)

(* A new version of a table takes nothing from them.                       *)
LEMMA MaterializedStays ==
    ASSUME Inv, MaterializedInv, Grows(published, published'), UNCHANGED <<work, provider, served>>
    PROVE  MaterializedInv'
<1>1. Len(Provided.edges) \in Nat /\ \A i \in 1..Len(Provided.edges) : Provided.edges[i].source \in TableNames
  BY EdgesAreAList
<1>2. ASSUME work.next # 0 PROVE Collected(work.batches, work.edges, published')
  <2>1. Collected(work.batches, work.edges, published)
    BY <1>2 DEF MaterializedInv
  <2>2. work.next \in 1..(Len(Provided.edges) + 1) /\ Len(work.batches) = work.next - 1
    BY <1>2 DEF Inv, WorkInv
  <2>3. \A i \in 1..Len(work.batches) : i \in 1..Len(Provided.edges)
    BY <1>1, <2>2
  <2> QED
    BY <1>1, <2>1, <2>3, CollectedStays
<1>3. ASSUME NEW batches, NEW edges, Len(batches) = Len(Provided.edges),
             Collected(batches, edges, published)
      PROVE  Collected(batches, edges, published')
  BY <1>1, <1>3, CollectedStays
<1>4. ASSUME served # NotServed PROVE IsServed(served, published')
  <2>1. PICK batches, edges :
          /\ Len(batches) = Len(Provided.edges) /\ Collected(batches, edges, published)
          /\ served.limit \in Nat \cup {None} /\ served.graph = edges
          /\ served.rows = IF served.limit = None \/ served.limit >= Len(Shown(batches))
                           THEN Shown(batches) ELSE SubSeq(Shown(batches), 1, served.limit)
    BY <1>4, Zenon DEF MaterializedInv, IsServed
  <2>2. Collected(batches, edges, published')
    BY <1>3, <2>1
  <2> QED
    BY <2>1, <2>2, Zenon DEF IsServed
<1> QED
  BY <1>2, <1>3, <1>4 DEF MaterializedInv

(* One edge definition more is collected.                                  *)
LEMMA CollectKeeps ==
    ASSUME Inv, MaterializedInv, CollectBatch, work' # Idle
    PROVE  Collected(work'.batches, work'.edges, published)
<1> DEFINE next == work.next
           edge == Provided.edges[next]
           v == tables[edge.source]
           edges == NumericEdges(Rows(edge.source), FALSE, FALSE)
           batch == [label |-> edge.label, edges |-> edges, version |-> v]
<1>1. /\ next \in DOMAIN Provided.edges
      /\ v # 0
      /\ work' = [work EXCEPT !.next = @ + 1, !.edges = @ \o edges, !.batches = Append(@, batch)]
  BY Zenon DEF CollectBatch
<1>2. next \in 1..Len(Provided.edges) /\ edge.source \in TableNames
  BY <1>1, EdgesAreAList
<1>3. work \in WorkRecord
  BY DEF Inv, TypeInv
<1>4. work.batches \in Seq(ToSet(work.batches)) /\ Len(work.batches) = next - 1
  BY <1>2, <1>3 DEF WorkRecord, Inv, WorkInv
<1>5. v \in 1..Len(published[edge.source]) /\ published[edge.source][v] \in RowLists
  <2> DEFINE list == published[edge.source]
  <2>1. list \in Seq(RowLists) /\ v \in Nat /\ v = Len(list)
    BY <1>1, <1>2 DEF Inv, TypeInv, TablesInv
  <2> HIDE DEF list, v
  <2>2. v \in 1..Len(list)
    BY <1>1, <2>1
  <2>3. list[v] \in RowLists
    BY <2>1, <2>2, ListOf
  <2> QED
    BY <2>2, <2>3 DEF list
<1>6. batch.label = edge.label /\ batch.edges = edges
  OBVIOUS
<1>7. edges = NumericEdges(published[edge.source][v], FALSE, FALSE)
  BY DEF Rows
<1> HIDE DEF batch, edges
<1>8. work'.batches = Append(work.batches, batch) /\ work'.edges = work.edges \o edges
  BY <1>1, <1>3 DEF WorkRecord
<1>9. ValidateOrError(Provided) = Ok /\ Collected(work.batches, work.edges, published)
  BY <1>2 DEF MaterializedInv
<1>10. Len(work.batches) + 1 = next
  BY <1>2, <1>4
<1> HIDE DEF v
<1>11. Collected(Append(work.batches, batch), work.edges \o batch.edges, published)
  <2>1. Len(work.batches) + 1 \in DOMAIN Provided.edges /\ edge = Provided.edges[Len(work.batches) + 1]
    BY <1>1, <1>10
  <2> HIDE DEF edge, next
  <2> QED
    BY <1>4, <1>5, <1>6, <1>7, <1>9, <2>1, CollectsMore
<1> QED
  BY <1>6, <1>8, <1>11

(* The steps of the provider keep it.                                      *)
LEMMA ProviderMaterializes ==
    ASSUME Inv, MaterializedInv, Provider
    PROVE  MaterializedInv'
<1>1. published' = published
  BY DEF Provider, BeginMaterialize, CollectBatch, FinishMaterialize, CancelMaterialize, Serve
<1>2. Collected(<<>>, <<>>, published)
  <2>1. Len(<<>>) = 0 /\ DOMAIN <<>> = {}
    OBVIOUS
  <2>2. Shown(<<>>) = <<>>
    <3>1. [i \in DOMAIN <<>> |-> OfBatch(<<>>[i])] = <<>>
      OBVIOUS
    <3> QED
      BY <3>1 DEF Shown, FlattenSeq
  <2>3. EdgesOf(<<>>) = <<>> /\ ToSet(<<>>) = {} /\ <<>> \in Seq(ShownRows)
    BY DEF EdgesOf, ToSet
  <2>4. \A i \in 1..Len(<<>>) : FALSE
    BY <2>1
  <2> QED
    BY <2>2, <2>3, <2>4 DEF Collected
<1>3. CASE BeginMaterialize
  <2>1. UNCHANGED <<provider, served>>
    BY <1>3 DEF BeginMaterialize
  <2>2. work'.next # 0 => ValidateOrError(Provided) = Ok
    BY <1>3 DEF BeginMaterialize, Idle
  <2>3. work'.batches = <<>> /\ work'.edges = <<>>
    BY <1>3 DEF BeginMaterialize, Idle
  <2> QED
    BY <1>1, <1>2, <2>1, <2>2, <2>3 DEF MaterializedInv
<1>4. CASE CollectBatch
  <2>1. UNCHANGED <<provider, served>>
    BY <1>4 DEF CollectBatch
  <2>2. work.next # 0
    BY <1>4, EdgesAreAList DEF CollectBatch
  <2>3. CASE work' = Idle
    <3>1. work'.next = 0
      BY <2>3 DEF Idle
    <3> QED
      BY <1>1, <2>1, <3>1 DEF MaterializedInv
  <2>4. CASE work' # Idle
    <3>1. Collected(work'.batches, work'.edges, published)
      BY <1>4, <2>4, CollectKeeps
    <3> QED
      BY <1>1, <2>1, <2>2, <3>1 DEF MaterializedInv
  <2> QED
    BY <2>3, <2>4
<1>5. CASE FinishMaterialize
  <2>1. work'.next = 0 /\ UNCHANGED served
    BY <1>5 DEF FinishMaterialize, Idle
  <2>2. Len(Provided.edges) \in Nat /\ work.next \in Nat
    BY EdgesAreAList DEF Inv, TypeInv, WorkRecord
  <2>3. work.next # 0 /\ work.next = Len(Provided.edges) + 1
    BY <1>5, <2>2 DEF FinishMaterialize, Inv, WorkInv
  <2>4. Len(work.batches) = Len(Provided.edges) /\ Collected(work.batches, work.edges, published)
    BY <2>2, <2>3 DEF MaterializedInv, Inv, WorkInv
  <2>5. provider' = provider \/ (provider'.batches = work.batches /\ provider'.edges = work.edges)
    BY <1>5 DEF FinishMaterialize
  <2> QED
    BY <1>1, <2>1, <2>4, <2>5 DEF MaterializedInv
<1>6. CASE CancelMaterialize
  <2>1. work'.next = 0 /\ UNCHANGED <<provider, served>>
    BY <1>6 DEF CancelMaterialize, Idle
  <2> QED
    BY <1>1, <2>1 DEF MaterializedInv
<1>7. ASSUME NEW limit \in Limits, Serve(limit) PROVE MaterializedInv'
  <2> DEFINE rows == Shown(provider.batches)
             answer == [rows |-> IF limit = None \/ limit >= Len(rows) THEN rows
                                 ELSE SubSeq(rows, 1, limit),
                        limit |-> limit, graph |-> provider.edges]
  <2>1. UNCHANGED <<work, provider>>
    BY <1>7 DEF Serve
  <2>2. CASE served' = NotServed
    BY <1>1, <2>1, <2>2 DEF MaterializedInv, NotServed
  <2>3. CASE provider.materialized /\ served' = answer
    <3>1. /\ served'.limit = limit /\ served'.graph = provider.edges
          /\ served'.rows = IF limit = None \/ limit >= Len(rows) THEN rows
                            ELSE SubSeq(rows, 1, limit)
      <4> HIDE DEF rows
      <4> QED
        BY <2>3
    <3>2. limit \in Nat \cup {None}
      BY LoadAssumption
    <3>3. Len(provider.batches) = Len(Provided.edges)
          /\ Collected(provider.batches, provider.edges, published)
      BY <2>3 DEF MaterializedInv
    <3>4. IsServed(served', published)
      BY <3>1, <3>2, <3>3, Zenon DEF IsServed
    <3> QED
      BY <1>1, <2>1, <3>4 DEF MaterializedInv
  <2>4. \/ served' = NotServed
        \/ provider.materialized /\ served' = answer
    BY <1>7, Zenon DEF Serve, Shown, OfBatch
  <2> QED
    BY <2>2, <2>3, <2>4
<1> QED
  BY <1>3, <1>4, <1>5, <1>6, <1>7 DEF Provider

(* What the provider serves is one materialization: the rows of a scan are *)
(* the edges of the graph that is traversed, cut at the limit only, and    *)
(* those of each label are one version of its table (provider.rs:26-31).   *)
THEOREM ProviderIsAlwaysCoherent == Spec => []ProviderIsCoherent
<1>1. Init => MaterializedInv
  <2> SUFFICES ASSUME Init PROVE MaterializedInv
    OBVIOUS
  <2>1. work.next = 0 /\ provider.materialized = FALSE /\ served = NotServed
    BY DEF Init, Idle, Unmaterialized
  <2> QED
    BY <2>1 DEF MaterializedInv
<1>2. Inv /\ MaterializedInv /\ [Next]_vars => MaterializedInv'
  <2> SUFFICES ASSUME Inv, MaterializedInv, [Next]_vars PROVE MaterializedInv'
    OBVIOUS
  <2>1. Grows(published, published')
    BY VersionsStay
  <2>2. CASE Session
    BY <2>1, <2>2, MaterializedStays DEF Session, DropTable, Publish
  <2>3. CASE Provider
    BY <2>3, ProviderMaterializes
  <2>4. ASSUME NEW l \in Loads, Load(l) PROVE MaterializedInv'
    <3>1. ASSUME NEW from, NEW to, LoadStep(l, from, to) PROVE UNCHANGED <<work, provider, served>>
      BY <3>1 DEF LoadStep
    <3>2. UNCHANGED <<work, provider, served>>
      BY <2>4, <3>1, Zenon DEF Load, BeginLoad, ScanTable, RegisterGraph, CancelLoad
    <3> QED
      BY <2>1, <3>2, MaterializedStays
  <2>5. CASE UNCHANGED vars
    BY <2>1, <2>5, MaterializedStays DEF vars
  <2> QED
    BY <2>2, <2>3, <2>4, <2>5 DEF Next
<1>3. Inv /\ MaterializedInv => ProviderIsCoherent
  <2> SUFFICES ASSUME Inv, MaterializedInv, served # NotServed PROVE ProviderIsCoherent
    BY DEF ProviderIsCoherent
  <2>1. IsServed(served, published) /\ published \in [TableNames -> Seq(RowLists)]
    BY DEF MaterializedInv, Inv, TypeInv
  <2>2. IsCoherent(served, published)
    BY <2>1, ServedIsCoherent
  <2> QED
    BY <2>2, Zenon DEF ProviderIsCoherent, IsCoherent, ShowsAll
<1> QED
  BY <1>1, <1>2, <1>3, InvHolds, PTL DEF Spec
==============================================================================
