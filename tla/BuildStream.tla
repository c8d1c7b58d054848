---------------------------- MODULE BuildStream -----------------------------
(***************************************************************************)
(* CSRBuilderExec (exec/csr_builder.rs): execute opens a stream that takes *)
(* one input batch per poll, keeps the edges, and builds the graph when    *)
(* the input ends.  The graph goes to a sink that all executions of one    *)
(* plan share; the stream itself yields statistics or an error.            *)
(*                                                                         *)
(* A stream is polled only when its task was woken: by the input, if the   *)
(* input registered the waker when it was pending, or by the stream.       *)
(***************************************************************************)
EXTENDS Csr

CONSTANTS
    Streams,        \* the executions of the plan
    Batches,        \* the batches that an input may send
    Configs,        \* the plans that are tried
    Size,           \* config.shard_size
    DefaultWeight,  \* 1.0
    Null,           \* SQL NULL
    NoLimit,        \* memory_limit: None
    MaxBatches      \* bound on the batches of one input

InputRows == UNION {ToSet(rows) : rows \in Batches}

ASSUME StreamAssumption ==
    /\ NoWeight # DefaultWeight
    /\ MaxBatches \in Nat
    /\ Size \in Nat
    /\ Batches \subseteq Seq(InputRows)
    /\ \A row \in InputRows : {row.src, row.dst} \subseteq Nat \cup {Null}
    /\ \A plan \in Configs : plan.limit \in Nat \cup {NoLimit}
    /\ \A plan \in Configs : {plan.weighted, plan.sink, plan.columns} \subseteq BOOLEAN

VARIABLES
    config,     \* limit, weighted, sink, whether the columns are of the right
                \* type, and the partitions of the input
    phase,      \* "new", "refused", "running", "ended" or "dropped"
    sent,       \* all that the input of a stream has sent
    taken,      \* how much of it poll_next has seen
    waiting,    \* the input holds the waker of the task
    woken,      \* the task is in the run queue
    buffer,     \* self.edges and the weights parallel to them
    finished,   \* self.finished
    output,     \* what the stream has yielded
    sink        \* the graph, and the stream that set it

vars == <<config, phase, sent, taken, waiting, woken, buffer, finished, output, sink>>

Batch(rows) == [kind |-> "batch", rows |-> rows]
InputError == [kind |-> "error", rows |-> <<>>]
InputEnd == [kind |-> "end", rows |-> <<>>]
Unset == [by |-> Null]

(***************************************************************************)
(* The executor and the input (DataFusion, tokio).                         *)
(***************************************************************************)
Execute(s, partition) ==
    /\ phase[s] = "new"
    /\ IF partition # 0 \/ config.partitions # 1
       THEN /\ phase' = [phase EXCEPT ![s] = "refused"]
            /\ UNCHANGED woken
       ELSE /\ phase' = [phase EXCEPT ![s] = "running"]
            /\ woken' = [woken EXCEPT ![s] = TRUE]
    /\ UNCHANGED <<config, sent, taken, waiting, buffer, finished, output, sink>>

InputOpen(s) ==
    /\ phase[s] = "running"
    /\ \A i \in DOMAIN sent[s] : sent[s][i].kind = "batch"

Send(s, item) ==
    /\ InputOpen(s)
    /\ sent' = [sent EXCEPT ![s] = Append(@, item)]
    /\ woken' = [woken EXCEPT ![s] = @ \/ waiting[s]]
    /\ waiting' = [waiting EXCEPT ![s] = FALSE]
    /\ UNCHANGED <<config, phase, taken, buffer, finished, output, sink>>

Arrive(s) ==
    \/ /\ Len(sent[s]) < MaxBatches
       /\ \E rows \in Batches : Send(s, Batch(rows))
    \/ Send(s, InputError)
    \/ Send(s, InputEnd)

\* A consumer may stop reading at any time.
Drop(s) ==
    /\ phase[s] = "running"
    /\ phase' = [phase EXCEPT ![s] = "dropped"]
    /\ UNCHANGED <<config, sent, taken, waiting, woken, buffer, finished, output, sink>>

(***************************************************************************)
(* extract_edges: rows with a null endpoint are skipped, and the limit is  *)
(* checked before every push.                                              *)
(***************************************************************************)
EdgeBufferBytes(edgeCount) == edgeCount * 16

\* Mutant: a buffer of exactly the limit is refused.
WithinLimitStrict(edgeCount) ==
    config.limit = NoLimit \/ EdgeBufferBytes(edgeCount) < config.limit

WithinLimit(edgeCount) ==
    config.limit = NoLimit \/ EdgeBufferBytes(edgeCount) <= config.limit

NonNull(rows) == Keep(rows, {r \in ToSet(rows) : r.src # Null /\ r.dst # Null})

WeightOf(row) == IF row.weight = Null THEN DefaultWeight ELSE row.weight

Extracted(s, rows) ==
    LET valid == NonNull(rows)
        room == {n \in DOMAIN valid : WithinLimit(Len(buffer[s].edges) + n)}
    IN  SubSeq(valid, 1, Max(room \cup {0}))

ExtractFails(s, rows) == ~config.columns \/ Extracted(s, rows) # NonNull(rows)

NoBuffer == [edges |-> <<>>, weights |-> <<>>]

\* Mutant: the weight is pushed outside the test for null endpoints.
ExtractEveryWeight(s, rows) ==
    LET new == IF config.columns THEN Extracted(s, rows) ELSE <<>>
    IN  buffer' = [buffer EXCEPT
            ![s].edges = @ \o [i \in DOMAIN new |->
                [src |-> new[i].src, dst |-> new[i].dst, weight |-> NoWeight]],
            ![s].weights = @ \o [i \in DOMAIN rows |-> WeightOf(rows[i])]]

ExtractEdges(s, rows) ==
    LET new == IF config.columns THEN Extracted(s, rows) ELSE <<>>
    IN  buffer' = [buffer EXCEPT
            ![s].edges = @ \o [i \in DOMAIN new |->
                [src |-> new[i].src, dst |-> new[i].dst, weight |-> NoWeight]],
            ![s].weights = IF config.weighted
                           THEN @ \o [i \in DOMAIN new |-> WeightOf(new[i])] ELSE @]

(***************************************************************************)
(* poll_next.  A consumer that got an item polls again at once.            *)
(***************************************************************************)
Polled(s) ==
    /\ phase[s] = "running"
    /\ woken[s]
    /\ ~finished[s]

HasInput(s, kind) ==
    /\ Polled(s)
    /\ taken[s] < Len(sent[s])
    /\ sent[s][taken[s] + 1].kind = kind

Take(s) == taken' = [taken EXCEPT ![s] = @ + 1]

Yield(s, item) ==
    /\ output' = [output EXCEPT ![s] = Append(@, item)]
    /\ finished' = [finished EXCEPT ![s] = TRUE]

Failure == [kind |-> "error"]

PollFinished(s) ==
    /\ phase[s] = "running"
    /\ woken[s]
    /\ finished[s]
    /\ phase' = [phase EXCEPT ![s] = "ended"]
    /\ woken' = [woken EXCEPT ![s] = FALSE]
    /\ UNCHANGED <<config, sent, taken, waiting, buffer, finished, output, sink>>

PollPending(s) ==
    /\ Polled(s)
    /\ taken[s] = Len(sent[s])
    /\ woken' = [woken EXCEPT ![s] = FALSE]
    /\ waiting' = [waiting EXCEPT ![s] = TRUE]
    /\ UNCHANGED <<config, phase, sent, taken, buffer, finished, output, sink>>

\* Mutant: the stream returns Pending without waking its task.
PollBatchAsleep(s) ==
    /\ HasInput(s, "batch")
    /\ LET rows == sent[s][taken[s] + 1].rows
       IN  /\ ~ExtractFails(s, rows)
           /\ ExtractEdges(s, rows)
    /\ Take(s)
    /\ woken' = [woken EXCEPT ![s] = FALSE]
    /\ UNCHANGED <<config, phase, sent, waiting, finished, output, sink>>

\* The input was not asked again, so only the stream can wake the task.
PollBatch(s) ==
    /\ HasInput(s, "batch")
    /\ LET rows == sent[s][taken[s] + 1].rows
       IN  /\ ~ExtractFails(s, rows)
           /\ ExtractEdges(s, rows)
    /\ Take(s)
    /\ UNCHANGED <<config, phase, sent, waiting, woken, finished, output, sink>>

PollBadBatch(s) ==
    /\ HasInput(s, "batch")
    /\ LET rows == sent[s][taken[s] + 1].rows
       IN  /\ ExtractFails(s, rows)
           /\ ExtractEdges(s, rows)
    /\ Take(s)
    /\ Yield(s, Failure)
    /\ UNCHANGED <<config, phase, sent, waiting, woken, sink>>

PollInputError(s) ==
    /\ HasInput(s, "error")
    /\ Take(s)
    /\ Yield(s, Failure)
    /\ UNCHANGED <<config, phase, sent, waiting, woken, buffer, sink>>

Statistics(graph) ==
    [kind |-> "statistics", nodes |-> graph.nodeCount, edges |-> graph.edgeCount,
     shards |-> Len(graph.shards)]

\* OnceLock::set: only the first one counts.
Publish(s, graph) ==
    IF config.sink /\ sink = Unset THEN [by |-> s, graph |-> graph] ELSE sink

BuildCsr(s) ==
    /\ HasInput(s, "end")
    /\ LET graph == Build(buffer[s].edges, buffer[s].weights, config.weighted, Size)
       IN  IF Failed(graph) THEN Yield(s, Failure) /\ UNCHANGED sink
           ELSE Yield(s, Statistics(graph)) /\ sink' = Publish(s, graph)
    /\ buffer' = [buffer EXCEPT ![s] = NoBuffer]
    /\ Take(s)
    /\ UNCHANGED <<config, phase, sent, waiting, woken>>

PollNext(s) ==
    \/ PollFinished(s)
    \/ PollPending(s)
    \/ PollBatch(s)
    \/ PollBadBatch(s)
    \/ PollInputError(s)
    \/ BuildCsr(s)

\* What the loader makes of an execution that was read to its end (collect,
\* then sink.get(), in build_edge_graph).
BuildEdgeGraph(s) ==
    CASE output[s] = <<Failure>> -> "error"
      [] output[s] # <<Failure>> /\ sink = Unset -> "completed without publishing"
      [] OTHER -> "graph"

-----------------------------------------------------------------------------
Init ==
    /\ config \in Configs
    /\ phase = [s \in Streams |-> "new"]
    /\ sent = [s \in Streams |-> <<>>]
    /\ taken = [s \in Streams |-> 0]
    /\ waiting = [s \in Streams |-> FALSE]
    /\ woken = [s \in Streams |-> FALSE]
    /\ buffer = [s \in Streams |-> NoBuffer]
    /\ finished = [s \in Streams |-> FALSE]
    /\ output = [s \in Streams |-> <<>>]
    /\ sink = Unset

Next ==
    \E s \in Streams :
        \/ \E partition \in {0, 1} : Execute(s, partition)
        \/ Arrive(s)
        \/ Drop(s)
        \/ PollNext(s)

Spec == Init /\ [][Next]_vars

\* The executor polls the tasks that were woken: weak fairness of PollNext(s),
\* which is enabled exactly when the task is runnable.  It is written out
\* because TLC would run a whole Build to evaluate the ENABLED.
Runnable(s) == phase[s] = "running" /\ woken[s]
FairPolling(s) == []<>~Runnable(s) \/ []<><<PollNext(s)>>_vars

\* The input is finite and does not hang.
FairSpec == Spec /\ \A s \in Streams : FairPolling(s) /\ WF_vars(Arrive(s))

-----------------------------------------------------------------------------
AllRows(s) == NonNull(FlattenSeq([i \in DOMAIN sent[s] |-> sent[s][i].rows]))

\* The edges that the input of s stands for.
InputEdges(s) ==
    [i \in DOMAIN AllRows(s) |->
        [src |-> AllRows(s)[i].src, dst |-> AllRows(s)[i].dst,
         weight |-> IF config.weighted THEN WeightOf(AllRows(s)[i]) ELSE NoWeight]]

InputIsBad(s) ==
    \/ \E i \in DOMAIN sent[s] : sent[s][i].kind = "error"
    \/ ~config.columns /\ \E i \in DOMAIN sent[s] : sent[s][i].kind = "batch"
    \/ config.limit # NoLimit /\ 16 * Len(AllRows(s)) > config.limit
    \/ Len(AllRows(s)) > U32Max
    \/ \E i \in DOMAIN AllRows(s) : AllRows(s)[i].src > U32Max \/ AllRows(s)[i].dst > U32Max
    \/ TooManyShards(InputEdges(s), config.weighted, Size)

(* The graph in the sink is the whole input of one execution: every row    *)
(* without a null endpoint, in the order of the batches, with the weight   *)
(* 1.0 where it is null, and the statistics that this execution yields     *)
(* count that graph (csr_builder.rs:360-404).                              *)
PublishedIsTheInput ==
    sink # Unset =>
        LET rows == InputEdges(sink.by)
        IN  /\ sent[sink.by][Len(sent[sink.by])] = InputEnd
            /\ \A n \in 0..U32Max :
                  BaseNeighborSlice(sink.graph, n) = EdgesFrom(rows, n)
            /\ output[sink.by] = <<Statistics(sink.graph)>>
            /\ sink.graph.edgeCount = Len(rows)

(* A stream that was read to its end has yielded one item: an error if and *)
(* only if its input was in error, over the memory limit, of the wrong     *)
(* columns or beyond u32 in an id, in its rows or in the shards of its     *)
(* graph.  With a sink, the loader never meets its error "completed        *)
(* without publishing a graph" (loader.rs:249-253).                        *)
OneAnswer ==
    \A s \in Streams : phase[s] = "ended" =>
        /\ Len(output[s]) = 1
        /\ (output[s] = <<Failure>>) <=> InputIsBad(s)
        /\ config.sink => BuildEdgeGraph(s) # "completed without publishing"

(* A stream whose consumer keeps reading ends, although it returns Pending *)
(* after every batch (csr_builder.rs:414-422).                             *)
StreamsEnd == \A s \in Streams : phase[s] = "running" ~> phase[s] \in {"ended", "dropped"}
=============================================================================
