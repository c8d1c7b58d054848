---------------------------- MODULE VisitedFilter ----------------------------
(***************************************************************************)
(* The visited tracker of a search and the filters that test a slice of    *)
(* neighbors against it (Visited in bfs.rs, the backends of simd.rs).      *)
(* A bitset is a sequence of words, a word the set of its bits that are 1: *)
(* node n is bit n % WordBits of word n \div WordBits + 1.                 *)
(***************************************************************************)
EXTENDS Keeping

CONSTANTS
    WordBits,   \* the bits of a word: 64
    NeonLanes,  \* the indices per iteration of the NEON kernel: 4
    Avx2Lanes   \* and of the AVX2 kernel: 8

ASSUME FilterAssumption ==
    /\ WordBits \in Nat \ {0}
    /\ \E half \in 1..NeonLanes : NeonLanes = 2 * half
    /\ \E half \in 1..Avx2Lanes : Avx2Lanes = 2 * half

Machines == {"avx512", "avx2", "x86_64", "aarch64", "other"}
Backends == {"scalar", "neon", "avx2", "avx512"}

WordOf(n) == n \div WordBits + 1
BitOf(n) == n % WordBits
WordCount(nodeCount) == (nodeCount + WordBits - 1) \div WordBits

(***************************************************************************)
(* Visited: words for the nodes of the base layer, a hash set for others.  *)
(***************************************************************************)
NewVisited(nodeCount) ==
    [words |-> [k \in 1..WordCount(nodeCount) |-> {}],
     capacity |-> nodeCount, overflow |-> {}]

Marked(visited, n) ==
    IF n < visited.capacity THEN BitOf(n) \in visited.words[WordOf(n)]
    ELSE n \in visited.overflow

\* test_and_set: TestAndSet after a call that returned ~Marked.
TestAndSet(visited, n) ==
    IF n < visited.capacity
    THEN [visited EXCEPT !.words[WordOf(n)] = @ \cup {BitOf(n)}]
    ELSE [visited EXCEPT !.overflow = @ \cup {n}]

(***************************************************************************)
(* Filters.  An index beyond the words is left out.                        *)
(***************************************************************************)
InRange(words, n) == WordOf(n) <= Len(words)

ScalarFilter(neighbors, words) ==
    Keep(neighbors, {n \in Nat : InRange(words, n) /\ BitOf(n) \notin words[WordOf(n)]})

\* Gather and shift: the low bit of every lane.
Lanes(indices, words) ==
    [l \in DOMAIN indices |-> IF BitOf(indices[l]) \in words[WordOf(indices[l])] THEN 1 ELSE 0]

\* Mutant: the mask of the high half is not shifted into its place.
UnvisitedMaskLow(chunk, words) ==
    LET half == Len(chunk) \div 2
        lo == Lanes(SubSeq(chunk, 1, half), words)
        hi == Lanes(SubSeq(chunk, half + 1, Len(chunk)), words)
    IN  {l \in 1..half : lo[l] = 0} \cup {l \in 1..half : hi[l] = 0}

\* The lanes are tested in two halves, as a register holds half as many
\* words as it holds indices.
UnvisitedMask(chunk, words) ==
    LET half == Len(chunk) \div 2
        lo == Lanes(SubSeq(chunk, 1, half), words)
        hi == Lanes(SubSeq(chunk, half + 1, Len(chunk)), words)
    IN  {l \in 1..half : lo[l] = 0} \cup {half + l : l \in {k \in 1..half : hi[k] = 0}}

\* One index out of range sends its whole chunk to the scalar code.
FilterChunk(chunk, words) ==
    IF \E l \in DOMAIN chunk : ~InRange(words, chunk[l])
    THEN ScalarFilter(chunk, words)
    ELSE LET unvisited == UnvisitedMask(chunk, words)
         IN  FlattenSeq([l \in DOMAIN chunk |->
                 IF l \in unvisited THEN <<chunk[l]>> ELSE <<>>])

VectorFilter(neighbors, words, lanes) ==
    LET chunks == Len(neighbors) \div lanes
    IN  FlattenSeq([c \in 1..chunks |->
            FilterChunk(SubSeq(neighbors, (c - 1) * lanes + 1, c * lanes), words)])
        \o ScalarFilter(SubSeq(neighbors, chunks * lanes + 1, Len(neighbors)), words)

Avx2Filter(neighbors, words) == VectorFilter(neighbors, words, Avx2Lanes)
NeonFilter(neighbors, words) == VectorFilter(neighbors, words, NeonLanes)

\* The avx512 backend calls the AVX2 kernel.
FilterUnvisited(backend, neighbors, words) ==
    CASE backend = "scalar" -> ScalarFilter(neighbors, words)
      [] backend = "neon" -> NeonFilter(neighbors, words)
      [] backend \in {"avx2", "avx512"} -> Avx2Filter(neighbors, words)

\* NEON was measured to be slower and is never selected.
SelectBackend(machine) ==
    IF machine \in {"avx512", "avx2"} THEN machine ELSE "scalar"

(***************************************************************************)
(* The bottom-up scan of dobfs.rs over the zeros of the words: the bits of *)
(* the last word that are no nodes are masked out.                         *)
(***************************************************************************)
WordsOf(nodes, nodeCount) ==
    [k \in 1..WordCount(nodeCount) |-> {BitOf(n) : n \in {m \in nodes : WordOf(m) = k}}]

Valid(k, nodeCount) ==
    IF k * WordBits > nodeCount THEN nodeCount - (k - 1) * WordBits ELSE WordBits

UnvisitedNodes(words, nodeCount) ==
    UNION {{(k - 1) * WordBits + bit : bit \in (0..(Valid(k, nodeCount) - 1)) \ words[k]}
              : k \in DOMAIN words}
=============================================================================
