---------------------------- MODULE MCCompaction ----------------------------
(* Instances of Compaction: one writer of an ordinary edge and, in some    *)
(* runs, of an edge that the CSR cannot store.                             *)
EXTENDS Compaction, TLC

CONSTANTS w1, e1, big

OneWriter == [w \in Writers |-> Edges]
CompactorSymmetry == Permutations(Compactors)
=============================================================================
