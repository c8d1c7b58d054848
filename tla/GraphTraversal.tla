--------------------------- MODULE GraphTraversal ---------------------------
(***************************************************************************)
(* One SQL call of graph_traverse, from its arguments to its rows          *)
(* (GraphTraverseUdtf::call and TraversalTable::scan in udtf.rs,           *)
(* GraphTraversalExec in exec/graph_traversal.rs), or one plan that a      *)
(* program makes itself.  The searches are DoBfs and, in one step, the     *)
(* plain search, whose levels are in any order (Bfs has its steps).  The   *)
(* graph stands still meanwhile: Queries has what happens when it does not.*)
(***************************************************************************)
EXTENDS DoBfs, Integers

CONSTANTS
    Null,           \* SQL NULL
    Name,           \* the name that is registered
    U32Max,         \* u32::MAX
    NoTranspose,    \* no transpose is resident
    NoDictionary,   \* the graph is not string-keyed
    NoCap,          \* no max_nodes, or no limit
    Inputs          \* the situations that are tried (see Init)

VARIABLES
    graph,       \* the registered graph: base, ins, dels
    dictionary,  \* its dictionary: the sequence of its keys
    resident,    \* the memoized transpose, a set of edges
    args,        \* the literals of the call
    scan,        \* what is asked of the table: projection, limit and partition
    step,        \* "call", "scan", "execute", "optimized", "plain", or the outcome
    spec,        \* the TraversalSpec
    attached,    \* the transpose that the plan holds
    rows,        \* the answer
    before       \* history: the transpose that was resident before the call

entry == <<graph, dictionary, args, scan, before>>
vars == <<kernelVars, entry, resident, step, spec, attached, rows>>

Graph(base, ins, dels) == [base |-> base, ins |-> ins, dels |-> dels]
View(g) == (g.base \ g.dels) \cup g.ins
HasDelta(g) == g.ins # {} \/ g.dels # {}

\* What build refuses in a shard size of 64 MB, in which shards never run out:
\* an id, or a number of edges, that does not fit in u32.
TooBig(edges) ==
    \/ Cardinality(edges) > U32Max
    \/ \E e \in edges : e[1] > U32Max \/ e[2] > U32Max

\* Edges are finitely many pairs of ids; a transpose is any graph that was
\* built (register_with_reverse takes what it is given, and a true one may be
\* stale); a dictionary has every key once; a literal is a string, an integer
\* or null; the one partition of a call is the first.
ASSUME InputsAssumption ==
    /\ U32Max \in Nat
    /\ NoCap \notin Nat
    /\ Null \notin Int \cup {Name, "out", "outgoing", "in", "incoming"}
    /\ \A input \in Inputs :
        /\ \A edges \in {input.graph.base, input.graph.ins} :
              edges \subseteq Nat \X Nat /\ IsFiniteSet(edges)
        /\ input.resident # NoTranspose =>
              /\ input.resident \subseteq Nat \X Nat /\ IsFiniteSet(input.resident)
              /\ ~TooBig(input.resident)
        /\ ~TooBig(input.graph.base)
        /\ Transposed(View(input.graph)) # NoTranspose
        /\ input.dictionary # NoDictionary =>
              /\ \A i \in DOMAIN input.dictionary : i \in Nat \ {0} /\ input.dictionary[i] # Null
              /\ IsInjective(input.dictionary)
        /\ input.args \in Seq(ToSet(input.args))
        /\ \A literal \in ToSet(input.args) :
              /\ literal = [type |-> literal.type, value |-> literal.value]
              /\ literal.type \in {"string", "int"}
              /\ literal.type = "int" => literal.value \in Int \cup {Null}
        /\ input.sql <=> input.args # <<>>
        /\ input.sql => input.scan.partition = 0
        /\ input.scan.limit \in Nat \cup {NoCap}
        /\ input.spec.starts \in Seq(Nat)
        /\ input.spec.depth \in Nat
        /\ input.spec.cap \in Nat \cup {NoCap}

(***************************************************************************)
(* The arguments.  A literal has a type and a value, which may be null.    *)
(***************************************************************************)
IsString(i) == args[i].type = "string"
ParsesString(i) == IsString(i) /\ args[i].value # Null
ParsesU64(i) == args[i].type = "int" /\ args[i].value # Null /\ args[i].value >= 0

Registered == args[1].value = Name

\* The start node: a key that the dictionary knows, or a number.
StartParses ==
    IF ParsesString(2)
    THEN Registered /\ dictionary # NoDictionary /\ args[2].value \in ToSet(dictionary)
    ELSE ParsesU64(2)

StartNode ==
    IF IsString(2) THEN (CHOOSE i \in DOMAIN dictionary : dictionary[i] = args[2].value) - 1
    ELSE args[2].value

\* Position 4 is a direction if it is a string, even a null one.
FourthParses == Len(args) < 4 \/ IF IsString(4) THEN ParsesString(4) ELSE ParsesU64(4)
FifthParses == Len(args) < 5 \/ (~IsString(4) /\ ParsesString(5))

MaxNodes == IF Len(args) >= 4 /\ ~IsString(4) THEN args[4].value ELSE NoCap

Direction ==
    LET word == CASE Len(args) = 5 -> args[5].value
                  [] Len(args) = 4 /\ IsString(4) -> args[4].value
                  [] OTHER -> "out"
    IN  CASE word \in {"out", "outgoing"} -> "outgoing"
          [] word \in {"in", "incoming"} -> "incoming"
          [] OTHER -> "unknown"

Parses ==
    /\ Len(args) \in 3..5
    /\ ParsesString(1)
    /\ StartParses
    /\ ParsesU64(3)
    /\ FourthParses
    /\ FifthParses
    /\ Direction # "unknown"

(***************************************************************************)
(* call.  An incoming call builds and memoizes the transpose, which may be *)
(* refused: the delta takes any ids, a base does not.  Only then is        *)
(* max_hops compared with u32.                                             *)
(***************************************************************************)
TraversalSpec(starts, depth, cap, algorithm, direction) ==
    [starts |-> starts, depth |-> depth, cap |-> cap, algorithm |-> algorithm,
     direction |-> direction]

TransposeFails ==
    Direction = "incoming" /\ resident = NoTranspose /\ TooBig(View(graph))

Memoized == IF resident = NoTranspose THEN Transposed(View(graph)) ELSE resident

Call ==
    /\ step = "call"
    /\ IF Parses /\ Registered /\ ~TransposeFails
       THEN /\ resident' = IF Direction = "incoming" THEN Memoized ELSE resident
            /\ attached' = resident'
            /\ spec' = TraversalSpec(<<StartNode>>, args[3].value, MaxNodes, "bfs", Direction)
            /\ step' = IF args[3].value > U32Max THEN "refused" ELSE "scan"
       ELSE /\ step' = "refused"
            /\ UNCHANGED <<resident, attached, spec>>
    /\ UNCHANGED <<kernelVars, entry, rows>>

\* scan puts the projection and the limit on top of the operator.
Scan ==
    /\ step = "scan"
    /\ step' = "execute"
    /\ UNCHANGED <<kernelVars, entry, resident, spec, attached, rows>>

(***************************************************************************)
(* GraphTraversalExec.                                                     *)
(***************************************************************************)
ValidSpec ==
    /\ spec.algorithm = "bfs"
    /\ \/ spec.direction = "outgoing"
       \/ spec.direction = "incoming" /\ attached # NoTranspose

Incoming == spec.direction = "incoming"
Transpose == Graph(attached, {}, {})
Searched == IF Incoming THEN Transpose ELSE graph
Opposite == IF Incoming THEN graph ELSE Transpose

\* Mutant: the cap does not keep the optimized search away.
OptimizesCapped == attached # NoTranspose /\ Len(spec.starts) = 1

Optimizes == attached # NoTranspose /\ spec.cap = NoCap /\ Len(spec.starts) = 1

Execute ==
    /\ step = "execute"
    /\ CASE scan.partition # 0 \/ ~ValidSpec ->
              step' = "refused" /\ UNCHANGED <<kernelVars, rows>>
         [] scan.partition = 0 /\ ValidSpec /\ spec.cap = 0 ->
              step' = "answered" /\ rows' = <<>> /\ UNCHANGED kernelVars
         [] OTHER ->
              /\ step' = IF Optimizes THEN "optimized" ELSE "plain"
              /\ IF Optimizes
                 THEN Begin(Searched.base, HasDelta(Searched), Opposite.base,
                            HasDelta(Opposite), spec.starts[1], spec.depth)
                 ELSE UNCHANGED kernelVars
              /\ UNCHANGED rows
    /\ UNCHANGED <<entry, resident, spec, attached>>

OptimizedStep ==
    /\ step = "optimized"
    /\ KernelStep
    /\ UNCHANGED <<entry, resident, step, spec, attached, rows>>

\* The levels of the plain search: what is new at each depth.  Only the base
\* layer is asked whether it knows a start node.
PlainLevels ==
    LET roots == {n \in ToSet(spec.starts) : n < NodeCount(Searched.base)}
        within(d) == Reach(View(Searched), roots, d)
    IN  [d \in 1..(spec.depth + 1) |->
            within(d - 1) \ IF d = 1 THEN {} ELSE within(d - 2)]

\* Every order of the nodes that goes level by level, with their depths.
Orders(found) ==
    LET entries == UNION {[node_id : found[d], depth : {d - 1}] : d \in DOMAIN found}
    IN  {order \in SetToSeqs(entries) :
            \A i, j \in DOMAIN order : i < j => order[i].depth <= order[j].depth}

Cut(sequence, n) == IF n = NoCap THEN sequence ELSE SubSeq(sequence, 1, Min({n, Len(sequence)}))
Project(row) == [column \in scan.projection |->
                    IF column = "path" THEN Null ELSE row[column]]

\* The batch, its projection, and the limit on top.
Answer(found, cap) ==
    /\ step' = "answered"
    /\ \E order \in Orders(found) :
          LET batch == Cut(order, cap)
          IN  rows' = Cut([i \in DOMAIN batch |-> Project(batch[i])], scan.limit)
    /\ UNCHANGED <<kernelVars, entry, resident, spec, attached>>

\* The optimized search knows no cap.
AnswerOptimized ==
    /\ step = "optimized"
    /\ at \in {"done", "empty"}
    /\ Answer(levels, NoCap)

\* The plain search, also after the optimized one refused its graphs or
\* found a delta.
AnswerPlain ==
    /\ step = "plain" \/ (step = "optimized" /\ at \in {"refused", "delegated"})
    /\ Answer(PlainLevels, spec.cap)

-----------------------------------------------------------------------------
\* A call has arguments; a program that makes its plan itself has a spec,
\* and attaches the transpose or does not.
Init ==
    \E input \in Inputs :
        /\ graph = input.graph
        /\ dictionary = input.dictionary
        /\ resident = input.resident
        /\ before = resident
        /\ args = input.args
        /\ scan = input.scan
        /\ spec = input.spec
        /\ attached \in {NoTranspose} \cup IF input.sql THEN {} ELSE {resident}
        /\ step = IF input.sql THEN "call" ELSE "execute"
        /\ rows = <<>>
        /\ KernelInit

Next ==
    \/ Call
    \/ Scan
    \/ Execute
    \/ OptimizedStep
    \/ AnswerOptimized
    \/ AnswerPlain

Spec == Init /\ [][Next]_vars

-----------------------------------------------------------------------------
Sql == args # <<>>

\* The optional arguments: a number, a direction, or a number and a direction.
Options == SubSeq(args, 4, Len(args))
Number(literal) == literal.type = "int" /\ literal.value \in Nat
Word(literal) == literal.type = "string" /\ literal.value \in {"out", "outgoing", "in", "incoming"}

Documented ==
    /\ Len(args) >= 3
    /\ args[1] = [type |-> "string", value |-> Name]
    /\ Number(args[2]) \/ (args[2].type = "string" /\ dictionary # NoDictionary
                              /\ \E i \in DOMAIN dictionary : dictionary[i] = args[2].value)
    /\ Number(args[3]) /\ args[3].value <= U32Max
    /\ CASE Len(Options) = 0 -> TRUE
         [] Len(Options) = 1 -> Number(Options[1]) \/ Word(Options[1])
         [] Len(Options) = 2 -> Number(Options[1]) /\ Word(Options[2])
         [] OTHER -> FALSE

Executable ==
    /\ scan.partition = 0
    /\ spec.algorithm = "bfs"
    /\ spec.direction = "outgoing" \/ (spec.direction = "incoming" /\ attached # NoTranspose)

\* What is asked for, read from the arguments.
Inward == IF Sql THEN \E i \in DOMAIN Options :
                         Options[i] \in [type : {"string"}, value : {"in", "incoming"}]
          ELSE spec.direction = "incoming"
Depth == IF Sql THEN args[3].value ELSE spec.depth
From == CASE ~Sql -> ToSet(spec.starts)
          [] Sql /\ args[2].type = "int" -> {args[2].value}
          [] OTHER -> {i - 1 : i \in {j \in DOMAIN dictionary : dictionary[j] = args[2].value}}
Cap == IF Sql THEN IF \E i \in DOMAIN Options : Number(Options[i]) THEN Options[1].value ELSE NoCap
       ELSE spec.cap

\* The edges as of the call; an incoming one goes by the transpose, if there
\* was one already.
Edges == CASE ~Inward -> View(graph)
           [] Inward /\ before = NoTranspose -> Transposed(View(graph))
           [] OTHER -> before
Known == NodeCount(IF Inward THEN Edges ELSE graph.base)

Near(d) == Reach(Edges, {n \in From : n < Known}, d)

Least(bounds) == Min(bounds \ {NoCap})

\* An incoming call that has to build the transpose of too big a graph.
Untransposable == Sql /\ Inward /\ before = NoTranspose /\ TooBig(View(graph))

\* The search between two graphs was asked for, and got a transpose of another
\* graph that has as many nodes and edges.
Misled ==
    /\ Cap = NoCap /\ (Sql \/ Len(spec.starts) = 1)
    /\ attached # NoTranspose /\ ~HasDelta(graph)
    /\ SameShape(attached, graph.base) /\ attached # Transposed(graph.base)

Refused == Untransposable \/ ~IF Sql THEN Documented ELSE Executable

(* A call is refused exactly when its arguments are none of the documented *)
(* ones (udtf.rs:14-25), the transpose it needs does not fit in u32        *)
(* (udtf.rs:190-195) or its plan cannot be executed; otherwise its rows    *)
(* are the nearest nodes, each once and with its distance, up to max_hops, *)
(* max_nodes and the limit, whichever search was chosen.  An outgoing      *)
(* answer is that of the graph with its delta also beside a transpose that *)
(* is stale or never was one ("anything else (or a shape/delta mismatch)   *)
(* falls back to the plain kernel", graph_traversal.rs:146-148), except    *)
(* for what the counts do not show (Misled).                               *)
CallIsAnswered ==
    /\ step = "refused" => Refused
    /\ step = "answered" => ~Refused
    /\ step = "answered" /\ ~Misled =>
        /\ Len(rows) = Least({Cap, scan.limit, Cardinality(Near(Depth))})
        /\ \A i \in DOMAIN rows :
              LET nth == Min({d \in 0..Depth : Cardinality(Near(d)) >= i})
              IN  /\ DOMAIN rows[i] = scan.projection
                  /\ "depth" \in scan.projection => rows[i].depth = nth
                  /\ "node_id" \in scan.projection =>
                        /\ rows[i].node_id \in Near(nth)
                        /\ nth > 0 => rows[i].node_id \notin Near(nth - 1)
                        /\ \A j \in 1..(i - 1) : rows[j].node_id # rows[i].node_id
=============================================================================
