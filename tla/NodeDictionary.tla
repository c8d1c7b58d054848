--------------------------- MODULE NodeDictionary ---------------------------
(***************************************************************************)
(* Node keys and dense ids (dictionary.rs), and how the loader encodes the *)
(* rows of a string-keyed table (build_edge_graph_with_dictionary in       *)
(* loader.rs).  A dictionary is the sequence of its keys: the key of id i  *)
(* is dictionary[i + 1].  The weights of the rows are left out: they are   *)
(* treated as in BuildStream.                                              *)
(***************************************************************************)
EXTENDS Naturals, Sequences, SequencesExt

CONSTANT Null   \* SQL NULL

Ids(dictionary) == 0..(Len(dictionary) - 1)
KeyOf(dictionary, id) == dictionary[id + 1]
Knows(dictionary, key) == \E id \in Ids(dictionary) : KeyOf(dictionary, id) = key
IdOf(dictionary, key) == CHOOSE id \in Ids(dictionary) : KeyOf(dictionary, id) = key

\* The rows (node_id, node_key) of graph_nodes.
ToBatch(dictionary) == {<<id, KeyOf(dictionary, id)>> : id \in Ids(dictionary)}

\* Mutant: a key that is known gets another id.
GetOrInsertAlways(dictionary, key) ==
    [id |-> Len(dictionary), dictionary |-> Append(dictionary, key)]

GetOrInsert(dictionary, key) ==
    IF Knows(dictionary, key)
    THEN [id |-> IdOf(dictionary, key), dictionary |-> dictionary]
    ELSE [id |-> Len(dictionary), dictionary |-> Append(dictionary, key)]

\* One row: both ends are interned, the source first, unless one is null.
Intern(projected, row) ==
    LET from == GetOrInsert(projected.dictionary, row.from)
        to == GetOrInsert(from.dictionary, row.to)
    IN  IF Null \in {row.from, row.to} THEN projected
        ELSE [dictionary |-> to.dictionary,
              edges |-> Append(projected.edges, <<from.id, to.id>>)]

\* The rows are interned one after the other.
Projected(rows) ==
    LET after[n \in 0..Len(rows)] ==
            IF n = 0 THEN [dictionary |-> <<>>, edges |-> <<>>]
            ELSE Intern(after[n - 1], rows[n])
    IN  after[Len(rows)]
=============================================================================
