-------------------------- MODULE MCGraphTraversal --------------------------
(* Inputs for GraphTraversal.  A plain outgoing call of every graph without*)
(* loops whose transpose is resident; every kind of call, scan and plan of *)
(* a few graphs with and without a delta and a transpose.                  *)
EXTENDS GraphTraversal

CONSTANTS Other, key0, key1

Loopless == SUBSET {p \in Pairs : p[1] # p[2]}

Str(v) == [type |-> "string", value |-> v]
Num(v) == [type |-> "int", value |-> v]

Everything == {"node_id", "depth", "path"}
ScanOf(projection, limit, partition) ==
    [projection |-> projection, limit |-> limit, partition |-> partition]
Whole == ScanOf(Everything, NoCap, 0)

Idle == TraversalSpec(<<>>, 0, NoCap, "bfs", "outgoing")

Ask(g, transpose, words, literals, what) ==
    [sql |-> TRUE, graph |-> g, resident |-> transpose, dictionary |-> words,
     args |-> literals, scan |-> what, spec |-> Idle]
Make(g, transpose, what, traversal) ==
    [sql |-> FALSE, graph |-> g, resident |-> transpose, dictionary |-> NoDictionary,
     args |-> <<>>, scan |-> what, spec |-> traversal]

EveryGraph ==
    {Ask(Graph(edges, {}, {}), Transposed(edges), NoDictionary,
         <<Str(Name), Num(n), Num(hops)>>, Whole)
        : edges \in Loopless, n \in {0}, hops \in {1, 4}}

\* A graph, its delta, and a transpose: none, that of the graph as it is or,
\* beside a delta or after a drain, as it was, or of another graph with other
\* or the same counts.  The delta may name an id that no base can hold.
Situations ==
    LET bases == {{<<0, 1>>, <<0, 2>>, <<1, 2>>}, {<<0, 1>>, <<1, 0>>, <<2, 1>>},
                  {<<0, 1>>, <<0, 2>>, <<0, 3>>, <<3, 0>>, <<1, 2>>}}
        plain == {<<Graph(b, {}, {}), t>> : b \in bases, t \in {NoTranspose}}
                 \cup {<<Graph(b, {}, {}), Transposed(b)>> : b \in bases}
        live == {Graph(b, ins, dels) : b \in bases, ins \in {{}, {<<1, 3>>}, {<<1, U32Max + 1>>}},
                                       dels \in {{<<0, 1>>}}}
        drained == {<<Graph(b, {}, {}), Transposed(b \cup {<<1, 3>>})>> : b \in bases}
        wrong == {<<Graph(b, {}, {}), b>> : b \in bases}
    IN  plain \cup drained \cup wrong \cup {<<g, NoTranspose>> : g \in live} \cup {<<g, Transposed(g.base)>> : g \in live}
        \cup {<<g, Transposed(View(g))>> : g \in {h \in live : ~TooBig(View(h))}}

Directions == {Str("out"), Str("incoming"), Str("both"), Str(Null), Num(1)}

ArgumentLists ==
    LET first == {Str(Name), Str(Other), Num(0)}
        node == {Num(0), Num(3), Num(-1), Str(key1), Str(Other), Str(Null)}
        hops == {Num(0), Num(2), Num(U32Max + 1), Num(-1), Str(Name)}
        caps == {Num(0), Num(2), Num(-1)} \cup Directions
        wrong == {<<>>, <<Str(Name), Num(0)>>,
                  <<Str(Name), Num(0), Num(2), Num(2), Str("in"), Num(0)>>}
        right == <<Str(Name), Num(0), Num(2)>>
    IN  (wrong \ {<<>>}) \cup {<<x, y, z>> : x \in first, y \in node, z \in hops}
        \cup {right \o <<c>> : c \in caps} \cup {right \o <<c, d>> : c \in caps, d \in Directions}
        \cup {<<Str(Name), Num(0), Num(U32Max + 1), Str("in")>>,
              <<Str(Name), Str(key1), Num(2), Num(2), Str("in")>>}

Scans == {ScanOf(Everything, 1, 0), ScanOf({"depth"}, 2, 0), ScanOf({}, NoCap, 0), Whole}

Calls ==
    {Ask(s[1], s[2], words, literals, Whole) :
        s \in Situations, words \in {NoDictionary, <<key0, key1>>}, literals \in ArgumentLists}
    \cup {Ask(s[1], s[2], NoDictionary, <<Str(Name), Num(0), Num(2)>>, what) :
        s \in Situations, what \in Scans}

Traversals ==
    [starts : {<<0>>, <<2, 0>>, <<1, 5, 1>>, <<>>}, depth : {0, 2}, cap : {NoCap, 0, 1, 2},
     algorithm : {"bfs"}, direction : {"outgoing", "incoming"}]
    \cup [starts : {<<0>>}, depth : {2}, cap : {NoCap, 0}, algorithm : {"bfs", "dfs"},
          direction : {"outgoing", "both"}]

Plans == {Make(s[1], s[2], Whole, t) : s \in Situations, t \in Traversals}
         \cup {Make(s[1], s[2], ScanOf(Everything, NoCap, 1), Idle) : s \in Situations}

SomeInputs == EveryGraph \cup Calls \cup Plans
=============================================================================
