------------------------------ MODULE MCQueries ------------------------------
(* Inputs for Queries: an edge and its reversal, two tables, and calls       *)
(* with integer and string starts in both directions.                        *)
EXTENDS Queries, TLC

CONSTANTS a, b

TwoPairs == {<<0, 1>>, <<1, 0>>}
OneEdge == {{<<0, 1>>}}

Row(from, to) == [from |-> from, to |-> to]
SomeTables == {<<Row(a, b)>>, <<Row(b, Null), Row(b, a), Row(a, b)>>}

Outgoing == [key |-> NoKey, inward |-> FALSE, capped |-> FALSE, joined |-> FALSE]
Incoming == [key |-> NoKey, inward |-> TRUE, capped |-> FALSE, joined |-> FALSE]
Keyed == [key |-> b, inward |-> TRUE, capped |-> TRUE, joined |-> TRUE]
\* A query that does not begin (Bounded).
Never == [key |-> Null, inward |-> TRUE, capped |-> FALSE, joined |-> FALSE]

\* Two queries beside one mutation, or one query alone beside four.
SomeInputs ==
    LET Asking(some) == {calls \in [Queriers -> some] : {calls[q] : q \in Queriers} = some}
    IN  [calls : Asking({Outgoing, Incoming}) \cup Asking({Incoming}) \cup Asking({Outgoing, Keyed}),
         mutations : {1}]
        \cup [calls : Asking({Incoming, Never}), mutations : {4}]

\* The query that is alone asks for plain graphs, and gets a transpose only
\* that it builds itself.  Nothing changes what it holds when it has ended.
\* Two mutations at most happen beside a second entry.
PlainGraph(r) ==
    LET transposed == {e \in DOMAIN entries : entries[e].reverse # None}
    IN  /\ query[r].at \notin {"done", "refused"}
        /\ \A i \in DOMAIN graphs : graphs[i].keys = NoDictionary
        /\ Cardinality(transposed) <=
              IF query[r].at \in {"get", "reverse", "build", "walk", "set"} THEN 0 ELSE 1
        /\ Len(entries) = 2 => mutations >= 2

Bounded ==
    \A q \in Queriers : query[q].call = Never =>
        /\ query[q].at = "key"
        /\ \A r \in Queriers \ {q} : PlainGraph(r)

Symmetry == Permutations(Queriers) \cup Permutations(Writers)
==============================================================================
