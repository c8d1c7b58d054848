--------------------------- MODULE MCOntologyLoad ---------------------------
(* Inputs for OntologyLoad: keys that are numbers, too large a number, a   *)
(* text with a number in it; rows with and without nulls, valid and not;   *)
(* ontologies of every kind in files of every kind.                        *)
EXTENDS OntologyLoad, TLC

CONSTANTS one, user1, two, nine, heavy, link, owns, person, thing, org, staff, deals

Key(text, number, digits) == [text |-> text, number |-> number, digits |-> digits]
K1 == Key(one, 1, 1)
U1 == Key(user1, NoNumber, 1)
K2 == Key(two, 2, 2)
K9 == Key(nine, 9, 9)

Row(from, to, weight, validFrom, validTo) ==
    [from |-> from, to |-> to, weight |-> weight, validFrom |-> validFrom, validTo |-> validTo]

Mixed == <<Row(K1, K2, heavy, 1, Null), Row(Null, K1, Null, 1, Null), Row(K2, K1, Null, 1, 3),
           Row(K1, K2, Null, Null, Null)>>
Named == <<Row(U1, K2, Null, 3, 4), Row(K2, K1, heavy, 3, Null)>>
Large == <<Row(K9, K1, heavy, 1, 2), Row(K1, K1, heavy, 2, Null)>>
SomeContents == [t \in TableNames |-> IF t = staff THEN {Mixed, Large} ELSE {Mixed, Named}]

Link(from, to) == EdgeDefinition(link, staff, from, to, TRUE, TRUE, TRUE)
Owns(from, to) == EdgeDefinition(owns, deals, from, to, FALSE, FALSE, TRUE)

Nodes(t, u) == <<NodeDefinition(person, t), NodeDefinition(thing, u)>>
Plain(edges) == OntologyOf(org, "u64", Nodes("passthrough", "extract_numeric"), edges, <<>>)

Numeric == Plain(<<Link(person, person), Owns(thing, thing)>>)
Hashed  == OntologyOf(org, "u64", Nodes("hash_u64", "passthrough"),
                      <<Owns(thing, thing), Link(thing, person)>>, <<>>)
Keyed   == OntologyOf(None, "string", Nodes("passthrough", "passthrough"),
                      <<Link(person, thing)>>, <<ComputedProperty(person, None)>>)
Twice   == Plain(<<Link(person, person), Link(thing, thing)>>)
Dangling == Plain(<<Link(person, org)>>)
Ambiguous == OntologyOf(org, "u64", Nodes("passthrough", "passthrough"), <<Link(person, person)>>,
                        <<ComputedProperty(None, None)>>)
TwoPersons == OntologyOf(org, "u64", <<NodeDefinition(person, "passthrough"),
                                       NodeDefinition(person, "hash_u32")>>,
                         <<Link(person, person)>>, <<>>)
Merged == Plain(<<Link(person, person), Owns(person, person)>>)

File(readable, extension, toml, json) ==
    [readable |-> readable, extension |-> extension, toml |-> toml, json |-> json]
Toml(o) == File(TRUE, "toml", o, None)

Files == {Toml(Numeric), File(TRUE, "json", None, Hashed), File(TRUE, "txt", None, Keyed),
          File(TRUE, "toml", None, Hashed), File(FALSE, "toml", Numeric, None)}
         \cup {Toml(o) : o \in {Twice, Dangling, Ambiguous, TwoPersons}}
SomeCalls ==
    {[file |-> f, asOf |-> None] : f \in Files}
    \cup {[file |-> Toml(Numeric), asOf |-> 2]}

LoadSymmetry == Permutations(Loads)
=============================================================================
