----------------------------- MODULE MCEdgeReads -----------------------------
(* Two writers, an edge of the base that only w1 mutates and one that both *)
(* do.                                                                     *)
EXTENDS EdgeReads, TLC

CONSTANTS w1, w2, e1, e2

PartlyShared == (w1 :> {e1, e2}) @@ (w2 :> {e2})
BaseEdges == {e1}
=============================================================================
