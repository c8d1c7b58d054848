-------------------------------- MODULE MCBfs -------------------------------
(* Inputs for Bfs: slices that are empty, that are shorter than a chunk,   *)
(* fill one, or leave a remainder, and that repeat a node in any of them.  *)
EXTENDS Bfs

Slices == <<{<<1>>, <<1, 2>>, <<2, 1, 2, 1, 1>>},
            {<<>>, <<2, 0, 2, 2>>},
            {<<>>, <<1>>}>>
SomeBases == {b \in [BaseNodes -> UNION ToSet(Slices)] : \A n \in BaseNodes : b[n] \in Slices[n + 1]}
SomePairs == {<<0, 1>>, <<1, 2>>, <<2, 1>>, <<1, 3>>, <<3, 2>>}
Starts == {<<0>>, <<3, 1, 0, 1>>}
=============================================================================
