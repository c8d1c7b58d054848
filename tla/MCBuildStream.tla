---------------------------- MODULE MCBuildStream ----------------------------
(* Inputs for BuildStream: full rows, rows with nulls, an id beyond u32, and *)
(* two batches that each make a graph but too many shards together; plans    *)
(* with and without weights, limit and sink.                                 *)
EXTENDS BuildStream

CONSTANT heavy

Row(a, b, w) == [src |-> a, dst |-> b, weight |-> w]

SomeBatches ==
    {<<Row(1, 3, heavy), Row(1, 0, Null)>>,
     <<Row(Null, 1, heavy), Row(0, Null, heavy), Row(2, 0, Null)>>,
     <<Row(0, 4, heavy)>>}

Plan(weighted, limit, sinkSet, columns, partitions) ==
    [weighted |-> weighted, limit |-> limit, sink |-> sinkSet, columns |-> columns,
     partitions |-> partitions]

SomePlans ==
    {Plan(TRUE, NoLimit, TRUE, TRUE, 1),
     Plan(FALSE, 32, TRUE, TRUE, 1),
     Plan(FALSE, 31, FALSE, TRUE, 1),
     Plan(TRUE, NoLimit, TRUE, FALSE, 1),
     Plan(FALSE, NoLimit, TRUE, TRUE, 2)}
==============================================================================
