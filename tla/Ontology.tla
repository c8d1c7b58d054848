------------------------------ MODULE Ontology ------------------------------
(***************************************************************************)
(* Ontologies as values: the definitions of schema.rs as far as the loader *)
(* and the provider read them, the lookups, validate and validate_or_error *)
(* (validation.rs), and the choice of the format of a file (parser.rs).    *)
(***************************************************************************)
EXTENDS Keeping

CONSTANT None   \* Option::None

IdTypes == {"u32", "u64", "u128", "string"}
IdTransforms == {"passthrough", "hash_u64", "hash_u32", "uuid_to_u128", "extract_numeric"}

(***************************************************************************)
(* The definitions.  A column that is optional in an edge definition is    *)
(* there or not; the rows of OntologyLoad have all of them.                *)
(***************************************************************************)
NodeDefinition(label, transform) == [label |-> label, transform |-> transform]

EdgeDefinition(label, source, from, to, weighted, validFrom, validTo) ==
    [label |-> label, source |-> source, from |-> from, to |-> to,
     weighted |-> weighted, validFrom |-> validFrom, validTo |-> validTo,
     partition |-> FALSE]

ComputedProperty(node, edge) == [node |-> node, edge |-> edge]

OntologyOf(name, idType, nodes, edges, properties) ==
    [name |-> name, idType |-> idType, nodes |-> nodes, edges |-> edges,
     properties |-> properties]

\* The first definition with the label.
Find(definitions, label) ==
    LET found == {i \in DOMAIN definitions : definitions[i].label = label}
    IN  IF found = {} THEN None ELSE definitions[Min(found)]

Node(o, label) == Find(o.nodes, label)
Labels(definitions) == [i \in DOMAIN definitions |-> definitions[i].label]

(***************************************************************************)
(* validate.  The errors are a set; each one has its place in the list     *)
(* that the code makes: the check that found it, and where.                *)
(***************************************************************************)
ErrorAt(check, place, error) == [check |-> check, place |-> place, error |-> error]

Repeated(definitions) ==
    {i \in DOMAIN definitions : \E j \in 1..(i - 1) : definitions[j].label = definitions[i].label}

DuplicateNodes(o) == {ErrorAt(1, i, "DuplicateLabel") : i \in Repeated(o.nodes)}

\* Mutant: only the node labels are compared.
DuplicateEdgesUnseen(o) == {}

DuplicateEdges(o) == {ErrorAt(2, i, "DuplicateLabel") : i \in Repeated(o.edges)}

\* The source of an edge is looked up before its target.
DanglingEdges(o) ==
    LET Undefined(node) == node \notin ToSet(Labels(o.nodes))
        From == {i \in DOMAIN o.edges : Undefined(o.edges[i].from)}
        To == {i \in DOMAIN o.edges : Undefined(o.edges[i].to)}
    IN  {ErrorAt(3, 2 * i, "DanglingEdge") : i \in From}
            \cup {ErrorAt(3, 2 * i + 1, "DanglingEdge") : i \in To}

\* A computed property is of one node or of one edge.
InvalidProperties(o) ==
    {ErrorAt(4, i, "InvalidComputedPropertyTarget") :
        i \in {k \in DOMAIN o.properties :
                  (o.properties[k].node # None) = (o.properties[k].edge # None)}}

\* A temporal edge without a partition hint.
Warnings(o) == Keep(o.edges, {e \in ToSet(o.edges) : e.validFrom /\ ~e.partition})

Validate(o) ==
    [errors |-> DuplicateNodes(o) \cup DuplicateEdges(o) \cup DanglingEdges(o)
                    \cup InvalidProperties(o),
     warnings |-> Warnings(o)]

\* The first error.
Ok == [result |-> "ok"]
ValidateOrError(o) ==
    LET errors == Validate(o).errors
        First(e) == \A f \in errors : \/ e.check < f.check
                                      \/ e.check = f.check /\ e.place <= f.place
    IN  IF errors = {} THEN Ok ELSE [result |-> "err", error |-> CHOOSE e \in errors : First(e)]

(***************************************************************************)
(* parse_file.  A file has an extension and, for each format, the ontology *)
(* that its content is in that format, or None.                            *)
(***************************************************************************)
Parsed(o, error) == IF o = None THEN [error |-> error] ELSE [error |-> "none", ontology |-> o]
ParseToml(file) == Parsed(file.toml, "ParseError")
ParseJson(file) == Parsed(file.json, "JsonError")

ParseFile(file) ==
    CASE ~file.readable -> [error |-> "IoError"]
      [] file.readable /\ file.extension = "toml" -> ParseToml(file)
      [] file.readable /\ file.extension = "json" -> ParseJson(file)
      [] OTHER -> IF file.toml # None THEN ParseToml(file) ELSE ParseJson(file)

(***************************************************************************)
(* What the loader reads from an ontology (loader.rs).                     *)
(***************************************************************************)
\* An ontology without a name has None here, in the code the empty string.
GraphName(o, edge) == IF o.name = None THEN <<edge.label>> ELSE <<o.name, edge.label>>

NeedsDictionary(o, edge) ==
    \/ o.idType = "string"
    \/ \E label \in {edge.from, edge.to} :
          /\ Node(o, label) # None
          /\ Node(o, label).transform \in {"hash_u64", "hash_u32", "uuid_to_u128"}

Extracts(o, label) ==
    Node(o, label) # None /\ Node(o, label).transform = "extract_numeric"
=============================================================================
