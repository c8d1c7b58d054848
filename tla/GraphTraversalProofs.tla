------------------------ MODULE GraphTraversalProofs -------------------------
(***************************************************************************)
(* Proofs about GraphTraversal and the direction-optimizing search in it,  *)
(* for every graph, every word size and every choice of the heuristic's    *)
(* constants.                                                              *)
(***************************************************************************)
EXTENDS GraphTraversal, FiniteSetTheorems, WellFoundedInduction, TLAPS

(***************************************************************************)
(* Induction over the natural numbers, for a set instead of a predicate.   *)
(***************************************************************************)

(* Among finite sets there is one that has none of the others in it.       *)
LEMMA SmallestSet ==
    ASSUME NEW F, F # {}, \A S \in F : IsFiniteSet(S)
    PROVE  \E S \in F : \A T \in F : T \subseteq S => T = S
<1> DEFINE U == UNION F
           R == StrictSubsetOrdering(U)
           D == FiniteSubsetsOf(U)
<1>1. IsWellFoundedOn(R, D)
  BY FS_StrictSubsetOrderingWellFounded
<1>2. F \subseteq D
  BY DEF FiniteSubsetsOf
<1>3. \E S \in F : \A T \in F : ~ (<<T, S>> \in R)
  <2> HIDE DEF R, D
  <2> QED
    BY <1>1, <1>2, WFMin
<1>4. \A S, T \in F : T \subseteq S /\ T # S => <<T, S>> \in R
  BY <1>2 DEF StrictSubsetOrdering, FiniteSubsetsOf
<1> HIDE DEF R
<1> QED
  BY <1>3, <1>4

(* Numbers have a least one.                                               *)
LEMMA LeastNat ==
    ASSUME NEW T \in SUBSET Nat, T # {}
    PROVE  \E x \in T : \A y \in T : x <= y
<1> DEFINE F == {0..x : x \in T}
<1>1. F # {} /\ \A S \in F : IsFiniteSet(S)
  <2>1. \A x \in T : IsFiniteSet(0..x)
    BY FS_Interval
  <2>2. F # {}
    OBVIOUS
  <2> QED
    BY <2>1, <2>2
<1>2. \E S \in F : \A Q \in F : Q \subseteq S => Q = S
  <2> HIDE DEF F
  <2> QED
    BY <1>1, SmallestSet
<1>3. PICK x \in T : \A y \in T : 0..y \subseteq 0..x => 0..y = 0..x
  <2>1. PICK S \in F : \A Q \in F : Q \subseteq S => Q = S
    BY <1>2
  <2>2. PICK x \in T : S = 0..x
    OBVIOUS
  <2>3. \A y \in T : 0..y \in F
    OBVIOUS
  <2> HIDE DEF F
  <2> QED
    BY <2>1, <2>2, <2>3
<1>4. ASSUME NEW y \in T, y < x PROVE FALSE
  <2>1. 0..y \subseteq 0..x /\ x \in 0..x /\ x \notin 0..y
    BY <1>4
  <2> QED
    BY <1>3, <2>1
<1> QED
  BY <1>4

(* Finitely many numbers have a greatest one.                              *)
LEMMA GreatestNat ==
    ASSUME NEW S \in SUBSET Nat, S # {}, IsFiniteSet(S)
    PROVE  \E x \in S : \A y \in S : x >= y
<1> DEFINE Above(x) == {y \in S : y > x}
           F == {Above(x) : x \in S}
<1>1. F # {} /\ \A T \in F : IsFiniteSet(T)
  <2>1. \A x \in S : Above(x) \in SUBSET S
    OBVIOUS
  <2>2. \A x \in S : IsFiniteSet(Above(x))
    BY <2>1, FS_Subset
  <2>3. F # {}
    OBVIOUS
  <2> HIDE DEF Above
  <2> QED
    BY <2>2, <2>3
<1>2. \E T \in F : \A Q \in F : Q \subseteq T => Q = T
  <2> HIDE DEF F
  <2> QED
    BY <1>1, SmallestSet
<1>3. PICK x \in S : \A y \in S : Above(y) \subseteq Above(x) => Above(y) = Above(x)
  <2>1. PICK T \in F : \A Q \in F : Q \subseteq T => Q = T
    BY <1>2
  <2> HIDE DEF Above
  <2>2. PICK x \in S : T = Above(x)
    OBVIOUS
  <2>3. \A y \in S : Above(y) \in F
    OBVIOUS
  <2> HIDE DEF F
  <2> QED
    BY <2>1, <2>2, <2>3
<1>4. ASSUME NEW y \in S, y > x PROVE FALSE
  <2>1. y \in Above(x) /\ y \notin Above(y)
    BY <1>4
  <2>2. Above(y) \subseteq Above(x)
    <3> SUFFICES ASSUME NEW z \in S, z > y PROVE z > x
      OBVIOUS
    <3>1. x \in Nat /\ y \in Nat /\ z \in Nat
      OBVIOUS
    <3> QED
      BY <3>1, <1>4
  <2> QED
    BY <1>3, <2>1, <2>2
<1> QED
  BY <1>4

(* A set with 0 and every successor of its members has all numbers.        *)
LEMMA SetInduction ==
    ASSUME NEW T \in SUBSET Nat, 0 \in T, \A n \in T : n + 1 \in T
    PROVE  T = Nat
<1> SUFFICES ASSUME T # Nat PROVE FALSE
  OBVIOUS
<1>1. PICK n \in Nat \ T : \A m \in Nat \ T : n <= m
  BY LeastNat
<1>2. n - 1 \in T
  BY <1>1
<1> QED
  BY <1>1, <1>2

(***************************************************************************)
(* Reach: what the recursive function in it computes.                      *)
(***************************************************************************)
Reaches(f, edges, roots, d) ==
    f = [k \in 0..d |-> IF k = 0 THEN roots ELSE f[k - 1] \cup Successors(edges, f[k - 1])]

(* Reach is one such function's last value.                                *)
LEMMA ReachChosen ==
    ASSUME NEW edges, NEW roots, NEW d \in Nat
    PROVE  Reach(edges, roots, d) = (CHOOSE f : Reaches(f, edges, roots, d))[d]
BY DEF Reach, Reaches

(* Two such functions agree where both are defined.                        *)
LEMMA ReachUnique ==
    ASSUME NEW edges, NEW roots, NEW c \in Nat, NEW d \in Nat, c <= d, NEW f, NEW g,
           Reaches(f, edges, roots, c), Reaches(g, edges, roots, d)
    PROVE  f[c] = g[c]
<1> DEFINE T == {k \in Nat : k <= c => f[k] = g[k]}
<1>1. 0 \in T
  BY DEF Reaches
<1>2. ASSUME NEW k \in T PROVE k + 1 \in T
  <2> SUFFICES ASSUME k + 1 <= c PROVE f[k + 1] = g[k + 1]
    OBVIOUS
  <2>1. f[k] = g[k] /\ k + 1 \in 0..c /\ k + 1 \in 0..d /\ k + 1 # 0 /\ (k + 1) - 1 = k
    OBVIOUS
  <2>2. f[k + 1] = f[k] \cup Successors(edges, f[k])
    <3>1. f[k + 1] = f[(k + 1) - 1] \cup Successors(edges, f[(k + 1) - 1])
      BY <2>1 DEF Reaches
    <3> QED
      BY <2>1, <3>1
  <2>3. g[k + 1] = g[k] \cup Successors(edges, g[k])
    <3>1. g[k + 1] = g[(k + 1) - 1] \cup Successors(edges, g[(k + 1) - 1])
      BY <2>1 DEF Reaches
    <3> QED
      BY <2>1, <3>1
  <2> QED
    BY <2>1, <2>2, <2>3
<1>3. T = Nat
  <2> HIDE DEF T
  <2>1. T \in SUBSET Nat
    BY DEF T
  <2> QED
    BY <1>1, <1>2, <2>1, SetInduction
<1> QED
  BY <1>3

(* There is such a function for every number of steps.                     *)
LEMMA ReachExists ==
    ASSUME NEW edges, NEW roots, NEW d \in Nat
    PROVE  \E f : Reaches(f, edges, roots, d)
<1> DEFINE T == {k \in Nat : \E f : Reaches(f, edges, roots, k)}
<1>1. 0 \in T
  <2>1. Reaches([k \in 0..0 |-> roots], edges, roots, 0)
    BY DEF Reaches
  <2> QED
    BY <2>1
<1>2. ASSUME NEW k \in T PROVE k + 1 \in T
  <2>1. PICK f : Reaches(f, edges, roots, k)
    OBVIOUS
  <2> DEFINE g == [i \in 0..(k + 1) |-> IF i = k + 1 THEN f[k] \cup Successors(edges, f[k]) ELSE f[i]]
  <2>2. \A i \in 0..(k + 1) : g[i] = IF i = 0 THEN roots ELSE g[i - 1] \cup Successors(edges, g[i - 1])
    <3> SUFFICES ASSUME NEW i \in 0..(k + 1)
                 PROVE  g[i] = IF i = 0 THEN roots ELSE g[i - 1] \cup Successors(edges, g[i - 1])
      OBVIOUS
    <3>1. CASE i = k + 1
      <4>1. g[i] = f[k] \cup Successors(edges, f[k]) /\ g[i - 1] = f[k] /\ i # 0
        BY <3>1
      <4> QED
        BY <4>1
    <3>2. CASE i # k + 1 /\ i # 0
      <4>1. g[i] = f[i] /\ g[i - 1] = f[i - 1] /\ i \in 0..k
        BY <3>2
      <4>2. f[i] = f[i - 1] \cup Successors(edges, f[i - 1])
        BY <2>1, <3>2, <4>1 DEF Reaches
      <4> QED
        BY <3>2, <4>1, <4>2
    <3>3. CASE i = 0
      BY <2>1, <3>3 DEF Reaches
    <3> QED
      BY <3>1, <3>2, <3>3
  <2>3. Reaches(g, edges, roots, k + 1)
    <3>1. g = [i \in 0..(k + 1) |-> g[i]]
      OBVIOUS
    <3> HIDE DEF g
    <3> QED
      BY <2>2, <3>1 DEF Reaches
  <2> QED
    BY <2>3
<1>3. T = Nat
  <2> HIDE DEF T
  <2>1. T \in SUBSET Nat
    BY DEF T
  <2> QED
    BY <1>1, <1>2, <2>1, SetInduction
<1> QED
  BY <1>3

(* One more step reaches the successors of what is reached already.        *)
LEMMA ReachUnfolds ==
    ASSUME NEW edges, NEW roots, NEW d \in Nat
    PROVE  /\ Reach(edges, roots, 0) = roots
           /\ Reach(edges, roots, d + 1) = Reach(edges, roots, d) \cup Successors(edges, Reach(edges, roots, d))
<1> DEFINE F(k) == CHOOSE f : Reaches(f, edges, roots, k)
<1>1. \A k \in Nat : Reaches(F(k), edges, roots, k) /\ Reach(edges, roots, k) = F(k)[k]
  BY ReachExists, ReachChosen
<1> HIDE DEF F
<1>2. F(0)[0] = roots
  BY <1>1 DEF Reaches
<1>3. F(d + 1)[d + 1] = F(d + 1)[d] \cup Successors(edges, F(d + 1)[d])
  <2>1. Reaches(F(d + 1), edges, roots, d + 1)
    BY <1>1
  <2>2. d + 1 \in 0..(d + 1) /\ d + 1 # 0 /\ (d + 1) - 1 = d
    OBVIOUS
  <2> QED
    BY <2>1, <2>2 DEF Reaches
<1>4. F(d)[d] = F(d + 1)[d]
  BY <1>1, ReachUnique
<1> QED
  BY <1>1, <1>2, <1>3, <1>4


(***************************************************************************)
(* Words and bits.                                                         *)
(***************************************************************************)
(* A number is its quotient and its remainder.                             *)
LEMMA Division ==
    ASSUME NEW b \in Nat \ {0}, NEW n \in Nat
    PROVE  /\ n \div b \in Nat /\ n % b \in 0..(b - 1)
           /\ n = (n \div b) * b + (n % b)
<1> DEFINE q == n \div b
           r == n % b
<1>1. q \in Nat /\ r \in 0..(b - 1) /\ n = b * q + r
  OBVIOUS
<1> HIDE DEF q, r
<1>2. b * q = q * b
  BY <1>1
<1>3. n = q * b + r
  BY <1>1, <1>2
<1> QED
  BY <1>1, <1>3 DEF q, r

(* Products are monotonic.                                                 *)
LEMMA Times ==
    ASSUME NEW b \in Nat, NEW i \in Nat, NEW j \in Nat, i >= j
    PROVE  /\ i * b \in Nat /\ i * b >= j * b /\ i * b = b * i
           /\ (i + 1) * b = i * b + b
<1>1. i * b \in Nat /\ i * b = b * i /\ (i + 1) * b = i * b + b
  OBVIOUS
<1>2. i * b >= j * b
  <2> DEFINE d == i - j
  <2>1. d \in Nat /\ i = j + d
    OBVIOUS
  <2>2. d * b \in Nat /\ j * b \in Nat
    BY <2>1
  <2>3. i * b = j * b + d * b
    BY <2>1
  <2> QED
    BY <2>2, <2>3
<1> QED
  BY <1>1, <1>2

(* There is but one quotient and one remainder.                            *)
LEMMA Quotient ==
    ASSUME NEW b \in Nat \ {0}, NEW q \in Nat, NEW r \in 0..(b - 1), NEW n \in Nat, n = q * b + r
    PROVE  n \div b = q /\ n % b = r
<1> DEFINE k == n \div b
           m == n % b
<1>1. k \in Nat /\ m \in 0..(b - 1) /\ n = b * k + m
  OBVIOUS
<1> HIDE DEF k, m
<1>2. CASE k >= q + 1
  <2>1. b * k >= b * (q + 1)
    BY <1>1, <1>2
  <2>2. b * (q + 1) = q * b + b
    OBVIOUS
  <2> QED
    BY <1>1, <2>1, <2>2
<1>3. CASE q >= k + 1
  <2>1. b * q >= b * (k + 1)
    BY <1>1, <1>3
  <2>2. b * (k + 1) = b * k + b /\ b * q = q * b
    BY <1>1
  <2> QED
    BY <1>1, <2>1, <2>2
<1>4. CASE k = q
  <2>1. b * k = q * b
    BY <1>4
  <2>2. m = r
    BY <1>1, <2>1
  <2> QED
    BY <1>4, <2>2 DEF k, m
<1> QED
  BY <1>1, <1>2, <1>3, <1>4

(* Every number is a bit of a word.                                        *)
LEMMA WordAndBit ==
    ASSUME NEW n \in Nat
    PROVE  /\ WordOf(n) \in Nat \ {0} /\ BitOf(n) \in 0..(WordBits - 1)
           /\ n = (WordOf(n) - 1) * WordBits + BitOf(n)
<1>1. WordBits \in Nat \ {0}
  BY FilterAssumption
<1> DEFINE q == n \div WordBits
           r == n % WordBits
<1>2. q \in Nat /\ r \in 0..(WordBits - 1) /\ n = q * WordBits + r
  BY <1>1, Division
<1>3. WordOf(n) = q + 1 /\ BitOf(n) = r
  BY DEF WordOf, BitOf
<1> HIDE DEF q, r
<1>4. (q + 1) - 1 = q
  BY <1>2
<1> QED
  BY <1>2, <1>3, <1>4

(* And each bit of a word is a number.                                     *)
LEMMA BitOfWord ==
    ASSUME NEW k \in Nat \ {0}, NEW bit \in 0..(WordBits - 1), NEW n \in Nat,
           n = (k - 1) * WordBits + bit
    PROVE  WordOf(n) = k /\ BitOf(n) = bit
<1>1. WordBits \in Nat \ {0}
  BY FilterAssumption
<1> DEFINE q == k - 1
<1>2. q \in Nat /\ n = q * WordBits + bit /\ k = q + 1
  OBVIOUS
<1> HIDE DEF q
<1>3. n \div WordBits = q /\ n % WordBits = bit
  BY <1>1, <1>2, Quotient
<1> QED
  BY <1>2, <1>3 DEF WordOf, BitOf

(* The zeros of the words of a set are the nodes that it lacks, also where *)
(* the last word has bits that are no nodes (dobfs.rs:151-162).            *)
LEMMA ZerosAreUnvisited ==
    ASSUME NEW nodes \in SUBSET Nat, NEW nodeCount \in Nat
    PROVE  UnvisitedNodes(WordsOf(nodes, nodeCount), nodeCount) = (0..(nodeCount - 1)) \ nodes
<1> DEFINE words == WordsOf(nodes, nodeCount)
           last == WordCount(nodeCount)
<1>1. WordBits \in Nat \ {0}
  BY FilterAssumption
<1>2. last \in Nat /\ DOMAIN words = 1..last
      /\ \A k \in 1..last : words[k] = {BitOf(n) : n \in {m \in nodes : WordOf(m) = k}}
  BY <1>1 DEF WordsOf, WordCount
<1>3. ASSUME NEW n \in UnvisitedNodes(words, nodeCount) PROVE n \in (0..(nodeCount - 1)) \ nodes
  <2>0. PICK k \in 1..last : n \in {(k - 1) * WordBits + bit :
                                        bit \in (0..(Valid(k, nodeCount) - 1)) \ words[k]}
    BY <1>2, <1>3 DEF UnvisitedNodes
  <2>1. PICK bit \in (0..(Valid(k, nodeCount) - 1)) \ words[k] : n = (k - 1) * WordBits + bit
    BY <2>0
  <2>2. /\ bit \in 0..(WordBits - 1)
        /\ n \in Nat /\ n < nodeCount
    <3>1. (k - 1) * WordBits \in Nat /\ k * WordBits = (k - 1) * WordBits + WordBits
      BY <1>1
    <3> QED
      BY <1>1, <2>1, <3>1 DEF Valid
  <2>3. WordOf(n) = k /\ BitOf(n) = bit
    BY <1>2, <2>1, <2>2, BitOfWord
  <2>4. n \notin nodes
    BY <1>2, <2>1, <2>3
  <2> QED
    BY <2>2, <2>4
<1>4. ASSUME NEW n \in (0..(nodeCount - 1)) \ nodes PROVE n \in UnvisitedNodes(words, nodeCount)
  <2> DEFINE k == WordOf(n)
             bit == BitOf(n)
  <2>1. k \in Nat \ {0} /\ bit \in 0..(WordBits - 1) /\ n = (k - 1) * WordBits + bit
    BY WordAndBit
  <2>2. bit \notin words[k] \/ k \notin 1..last
    <3> SUFFICES ASSUME k \in 1..last, bit \in words[k] PROVE FALSE
      OBVIOUS
    <3>1. PICK m \in nodes : WordOf(m) = k /\ BitOf(m) = bit
      BY <1>2
    <3>2. m = (k - 1) * WordBits + bit
      BY <3>1, WordAndBit
    <3> QED
      BY <2>1, <3>2
  <2> HIDE DEF k, bit
  <2>3. (k - 1) * WordBits \in Nat /\ k * WordBits = (k - 1) * WordBits + WordBits
    BY <1>1, <2>1
  <2>4. bit \in 0..(Valid(k, nodeCount) - 1)
    BY <1>1, <2>1, <2>3 DEF Valid
  <2>5. k <= last
    <3>1. PICK r \in 0..(WordBits - 1) : nodeCount + WordBits - 1 = last * WordBits + r
      <4>1. nodeCount + WordBits - 1 \in Nat
        BY <1>1
      <4> QED
        BY <1>1, <4>1, Division DEF WordCount
    <3>2. last * WordBits \in Nat
      BY <1>1, <1>2, Times
    <3>3. ASSUME k - 1 >= last PROVE FALSE
      <4>1. (k - 1) * WordBits >= last * WordBits
        BY <1>1, <1>2, <2>1, <3>3, Times
      <4> QED
        BY <1>1, <2>1, <2>3, <3>1, <3>2, <4>1
    <3> QED
      BY <1>2, <2>1, <3>3
  <2>6. k \in 1..last /\ bit \in (0..(Valid(k, nodeCount) - 1)) \ words[k]
    BY <1>2, <2>1, <2>2, <2>4, <2>5
  <2> QED
    BY <1>2, <2>1, <2>6 DEF UnvisitedNodes
<1> QED
  BY <1>3, <1>4

-----------------------------------------------------------------------------
(***************************************************************************)
(* The search.  Before the frontier there are Past levels; what has been   *)
(* visited are their nodes and the frontier, which is new, and the out-    *)
(* edges of these levels have been counted once.  Given the transpose, the *)
(* levels are the distance classes.                                        *)
(***************************************************************************)
OutEdges(nodes) == {p \in forward : p[1] \in nodes}
Earlier(n) == UNION {levels[d] : d \in 1..n}
Searching == at \in {"level", "expand"}
Past == IF at = "level" THEN Len(levels) ELSE Len(levels) - 1

IsEdgeSet(edges) == edges \subseteq Nat \X Nat /\ IsFiniteSet(edges)

KernelType ==
    /\ IsEdgeSet(forward)
    /\ start \in Nat /\ maxDepth \in Nat
    /\ frontier \in SUBSET Nat /\ visited \in SUBSET Nat
    /\ levels \in Seq(SUBSET Nat)
    /\ outEdges \in Nat
    /\ at \in {"idle", "check"} => levels = <<>> /\ outEdges = 0

LevelInv ==
    Searching =>
        /\ Past \in Nat
        /\ visited = frontier \cup Earlier(Past)
        /\ frontier \cap Earlier(Past) = {}
        /\ outEdges = Cardinality(OutEdges(Earlier(Past)))
        /\ at = "expand" => levels[Len(levels)] = frontier

DistanceInv ==
    reverse = Transposed(forward) =>
        /\ Searching =>
              /\ frontier = AtDistance(Past) /\ frontier # {}
              /\ visited = Within(Past)
              /\ \A d \in 1..Past : levels[d] = AtDistance(d - 1) /\ levels[d] # {}
              /\ Past <= maxDepth
              /\ at = "expand" => Past < maxDepth
        /\ LevelsAreDistances

KernelInv == KernelType /\ LevelInv /\ DistanceInv

(***************************************************************************)
(* The call: what it hands to the search are graphs, a node and a depth.   *)
(***************************************************************************)
CallInv ==
    /\ IsEdgeSet(graph.base) /\ IsEdgeSet(graph.ins)
    /\ resident # NoTranspose => IsEdgeSet(resident)
    /\ attached # NoTranspose => IsEdgeSet(attached)
    /\ dictionary # NoDictionary => DOMAIN dictionary \subseteq Nat \ {0}
    /\ \A i \in 1..Len(args) : args[i].type = "int" => args[i].value \in Int \cup {Null}
    /\ spec.starts \in Seq(Nat)
    /\ spec.depth \in Nat

Inv == KernelInv /\ CallInv

(***************************************************************************)
(* Finite graphs.                                                          *)
(***************************************************************************)
(* The values of a function on a finite set are finitely many.             *)
LEMMA ImageIsFinite ==
    ASSUME NEW S, IsFiniteSet(S), NEW f, DOMAIN f = S, f = [x \in S |-> f[x]]
    PROVE  IsFiniteSet({f[x] : x \in S})
<1> DEFINE T == {f[x] : x \in S}
<1>1. f \in [S -> T]
  OBVIOUS
<1>2. f \in Surjection(S, T)
  BY <1>1 DEF Surjection
<1>3. IsFiniteSet(T)
  <2> HIDE DEF T
  <2> QED
    BY <1>2, FS_Surjection
<1> QED
  BY <1>3

(* Every node of a graph is less than its node count.                      *)
LEMMA NodesAreCounted ==
    ASSUME NEW edges, IsEdgeSet(edges)
    PROVE  /\ NodeCount(edges) \in Nat
           /\ \A p \in edges : p[1] < NodeCount(edges) /\ p[2] < NodeCount(edges)
<1> DEFINE ends == [p \in edges |-> {p[1], p[2]}]
           nodes == UNION {{p[1], p[2]} : p \in edges}
<1>1. \A p \in edges : p[1] \in Nat /\ p[2] \in Nat
  BY DEF IsEdgeSet
<1>2. nodes \in SUBSET Nat /\ \A p \in edges : p[1] \in nodes /\ p[2] \in nodes
  BY <1>1
<1>3. IsFiniteSet(nodes)
  <2>1. IsFiniteSet({ends[p] : p \in edges})
    <3>1. DOMAIN ends = edges /\ ends = [p \in edges |-> ends[p]]
      OBVIOUS
    <3> HIDE DEF ends
    <3> QED
      BY <3>1, ImageIsFinite DEF IsEdgeSet
  <2>2. {ends[p] : p \in edges} = {{p[1], p[2]} : p \in edges}
    OBVIOUS
  <2>3. \A a, b : IsFiniteSet({a, b})
    <3> SUFFICES ASSUME NEW a, NEW b PROVE IsFiniteSet({a, b})
      OBVIOUS
    <3>1. IsFiniteSet({a})
      BY FS_Singleton
    <3>2. {a, b} = {a} \cup {b}
      OBVIOUS
    <3> QED
      BY <3>1, <3>2, FS_AddElement
  <2> DEFINE sets == {{p[1], p[2]} : p \in edges}
  <2>4. \A s \in sets : IsFiniteSet(s)
    BY <2>3
  <2>5. IsFiniteSet(sets)
    BY <2>1, <2>2
  <2> HIDE DEF sets
  <2>6. IsFiniteSet(UNION sets)
    BY <2>4, <2>5, FS_UNION
  <2> QED
    BY <2>6 DEF sets
<1>4. CASE edges = {}
  BY <1>4 DEF NodeCount
<1>5. CASE edges # {}
  <2>1. nodes # {}
    BY <1>2, <1>5
  <2>2. NodeCount(edges) = Max(nodes) + 1
    BY <1>5 DEF NodeCount
  <2> HIDE DEF nodes
  <2>3. \E x \in nodes : \A y \in nodes : x >= y
    BY <1>2, <1>3, <2>1, GreatestNat
  <2>4. Max(nodes) \in nodes /\ \A y \in nodes : Max(nodes) >= y
    BY <2>3 DEF Max
  <2>5. Max(nodes) \in Nat
    BY <1>2, <2>4
  <2>6. \A p \in edges : p[1] <= Max(nodes) /\ p[2] <= Max(nodes)
    BY <1>1, <1>2, <2>4, <2>5
  <2> QED
    BY <1>1, <2>2, <2>5, <2>6
<1> QED
  BY <1>4, <1>5

(* The transpose of a graph is a graph.                                    *)
LEMMA TransposedIsEdgeSet ==
    ASSUME NEW edges, IsEdgeSet(edges)
    PROVE  IsEdgeSet(Transposed(edges))
<1> DEFINE flip == [p \in edges |-> <<p[2], p[1]>>]
<1>1. IsFiniteSet({flip[p] : p \in edges})
  <2>1. DOMAIN flip = edges /\ flip = [p \in edges |-> flip[p]]
    OBVIOUS
  <2> HIDE DEF flip
  <2> QED
    BY <2>1, ImageIsFinite DEF IsEdgeSet
<1>2. {flip[p] : p \in edges} = Transposed(edges)
  BY DEF Transposed
<1>3. Transposed(edges) \subseteq Nat \X Nat
  BY DEF Transposed, IsEdgeSet
<1> QED
  BY <1>1, <1>2, <1>3 DEF IsEdgeSet

(***************************************************************************)
(* One level.                                                              *)
(***************************************************************************)
\* What the two ways to expand a level find.
FoundBottomUp == {n \in Unvisited : Successors(reverse, {n}) \cap frontier # {}}
FoundTopDown == Successors(forward, frontier) \ visited

(* Both ways find nodes that are not visited yet, whatever the reverse     *)
(* graph is.                                                               *)
LEMMA FoundAreNew ==
    ASSUME KernelType
    PROVE  /\ FoundBottomUp \in SUBSET Nat /\ FoundBottomUp \cap visited = {}
           /\ FoundTopDown \in SUBSET Nat /\ FoundTopDown \cap visited = {}
<1>1. Unvisited = (0..(NodeCount(forward) - 1)) \ visited
  BY NodesAreCounted, ZerosAreUnvisited DEF KernelType, Unvisited
<1>2. NodeCount(forward) \in Nat
  BY NodesAreCounted DEF KernelType
<1>3. FoundTopDown \in SUBSET Nat
  BY DEF KernelType, IsEdgeSet, FoundTopDown, Successors
<1> QED
  BY <1>1, <1>2, <1>3 DEF FoundBottomUp, FoundTopDown

(* Given the transpose, both ways find the same nodes (dobfs.rs:144-195).  *)
LEMMA BothWaysFindTheSame ==
    ASSUME KernelType, reverse = Transposed(forward)
    PROVE  FoundBottomUp = FoundTopDown
<1>1. Unvisited = (0..(NodeCount(forward) - 1)) \ visited
  BY NodesAreCounted, ZerosAreUnvisited DEF KernelType, Unvisited
<1>2. \A p \in forward : p[1] \in Nat /\ p[2] \in 0..(NodeCount(forward) - 1)
  BY NodesAreCounted DEF KernelType, IsEdgeSet
<1>3. ASSUME NEW n, NEW m
      PROVE  m \in Successors(reverse, {n}) <=> \E p \in forward : p[1] = m /\ p[2] = n
  <2>1. m \in Successors(reverse, {n}) <=> \E q \in reverse : q[1] = n /\ q[2] = m
    BY DEF Successors
  <2>2. \A q : q \in reverse <=> \E p \in forward : q = <<p[2], p[1]>>
    BY DEF Transposed
  <2>3. ASSUME NEW q \in reverse, q[1] = n, q[2] = m
        PROVE  \E p \in forward : p[1] = m /\ p[2] = n
    <3>1. PICK p \in forward : q = <<p[2], p[1]>>
      BY <2>2
    <3> QED
      BY <2>3, <3>1
  <2>4. ASSUME NEW p \in forward, p[1] = m, p[2] = n
        PROVE  \E q \in reverse : q[1] = n /\ q[2] = m
    <3>1. <<p[2], p[1]>> \in reverse
      BY <2>2
    <3>2. <<p[2], p[1]>>[1] = n /\ <<p[2], p[1]>>[2] = m
      BY <2>4
    <3> QED
      BY <3>1, <3>2
  <2> QED
    BY <2>1, <2>3, <2>4
<1>4. ASSUME NEW n \in FoundBottomUp PROVE n \in FoundTopDown
  <2>1. n \in Unvisited /\ Successors(reverse, {n}) \cap frontier # {}
    BY <1>4 DEF FoundBottomUp
  <2>0. PICK m : m \in Successors(reverse, {n}) /\ m \in frontier
    BY <2>1
  <2>2. PICK p \in forward : p[2] = n /\ p[1] \in frontier
    <3>1. \E p \in forward : p[1] = m /\ p[2] = n
      BY <1>3, <2>0, Zenon
    <3> QED
      BY <2>0, <3>1
  <2> QED
    BY <1>1, <2>1, <2>2 DEF FoundTopDown, Successors
<1>5. ASSUME NEW n \in FoundTopDown PROVE n \in FoundBottomUp
  <2>1. PICK p \in forward : p[2] = n /\ p[1] \in frontier /\ n \notin visited
    BY <1>5 DEF FoundTopDown, Successors
  <2>2. n \in Unvisited
    BY <1>1, <1>2, <2>1
  <2>3. p[1] \in Successors(reverse, {n})
    BY <1>3, <2>1
  <2> QED
    BY <2>1, <2>2, <2>3 DEF FoundBottomUp
<1> QED
  BY <1>4, <1>5

(* The next distance class are the new successors of the last one.         *)
LEMMA NextDistance ==
    ASSUME NEW d \in Nat
    PROVE  /\ Within(0) = {start} /\ AtDistance(0) = {start}
           /\ Within(d + 1) = Within(d) \cup AtDistance(d + 1)
           /\ AtDistance(d + 1) = Successors(forward, AtDistance(d)) \ Within(d)
<1>1. /\ Within(0) = {start}
      /\ \A k \in Nat : Within(k + 1) = Within(k) \cup Successors(forward, Within(k))
  BY ReachUnfolds DEF Within
<1>2. \A k \in Nat : AtDistance(k + 1) = Within(k + 1) \ Within(k)
  <2> SUFFICES ASSUME NEW k \in Nat PROVE AtDistance(k + 1) = Within(k + 1) \ Within(k)
    OBVIOUS
  <2>1. k + 1 # 0 /\ (k + 1) - 1 = k
    OBVIOUS
  <2> QED
    BY <2>1 DEF AtDistance
<1>3. AtDistance(0) = {start}
  BY <1>1 DEF AtDistance
<1>4. AtDistance(d + 1) = Successors(forward, AtDistance(d)) \ Within(d)
  <2>1. CASE d = 0
    <3>1. AtDistance(0 + 1) = Within(0 + 1) \ Within(0)
          /\ Within(0 + 1) = Within(0) \cup Successors(forward, Within(0))
      BY <1>1, <1>2
    <3> QED
      BY <1>1, <1>3, <2>1, <3>1
  <2>2. CASE d # 0
    <3> DEFINE c == d - 1
    <3>1. c \in Nat /\ d = c + 1
      BY <2>2
    <3> HIDE DEF c
    <3>2. AtDistance(d) = Within(d) \ Within(c) /\ Within(c) \subseteq Within(d)
          /\ Successors(forward, Within(c)) \subseteq Within(d)
      BY <1>1, <1>2, <3>1
    <3>3. Successors(forward, Within(d))
             = Successors(forward, AtDistance(d)) \cup Successors(forward, Within(c))
      BY <3>2 DEF Successors
    <3>4. AtDistance(d + 1) = Within(d + 1) \ Within(d)
          /\ Within(d + 1) = Within(d) \cup Successors(forward, Within(d))
      BY <1>1, <1>2
    <3> QED
      BY <3>2, <3>3, <3>4
  <2> QED
    BY <2>1, <2>2
<1> QED
  BY <1>1, <1>2, <1>3, <1>4

(***************************************************************************)
(* The steps of the search.                                                *)
(***************************************************************************)
(* Levels that are recorded stay.                                          *)
LEMMA EarlierGrows ==
    ASSUME KernelType, NEW n \in Nat
    PROVE  /\ Earlier(0) = {}
           /\ n + 1 <= Len(levels) => Earlier(n + 1) = Earlier(n) \cup levels[n + 1]
           /\ Earlier(n) = UNION {levels[d] : d \in 1..n}
<1>1. 1..(n + 1) = (1..n) \cup {n + 1} /\ 1..0 = {}
  OBVIOUS
<1> QED
  BY <1>1 DEF Earlier

(* The nodes of a level and of the levels before it have different edges.  *)
LEMMA EdgesAddUp ==
    ASSUME KernelType, NEW one, NEW other, one \cap other = {}
    PROVE  /\ Cardinality(OutEdges(one)) \in Nat
           /\ Cardinality(OutEdges(one \cup other))
                 = Cardinality(OutEdges(one)) + Cardinality(OutEdges(other))
<1>1. /\ OutEdges(one) \in SUBSET forward /\ OutEdges(other) \in SUBSET forward
      /\ OutEdges(one \cup other) = OutEdges(one) \cup OutEdges(other)
      /\ OutEdges(one) \cap OutEdges(other) = {}
  BY DEF OutEdges
<1>2. IsFiniteSet(OutEdges(one)) /\ IsFiniteSet(OutEdges(other))
  BY <1>1, FS_Subset DEF KernelType, IsEdgeSet
<1>3. /\ Cardinality(OutEdges(one)) \in Nat /\ Cardinality(OutEdges(other)) \in Nat
      /\ Cardinality({}) = 0
  BY <1>2, FS_CardinalityType, FS_EmptySet
<1>4. Cardinality(OutEdges(one) \cup OutEdges(other))
         = Cardinality(OutEdges(one)) + Cardinality(OutEdges(other))
           - Cardinality(OutEdges(one) \cap OutEdges(other))
  BY <1>2, FS_Union
<1>5. Cardinality(OutEdges(one) \cap OutEdges(other)) = 0
  BY <1>1, <1>3, Zenon
<1>6. Cardinality(OutEdges(one \cup other)) = Cardinality(OutEdges(one) \cup OutEdges(other))
  BY <1>1, Zenon
<1> QED
  BY <1>3, <1>4, <1>5, <1>6

(* The next frontier: its levels, their nodes and their edges.             *)
LEMMA AdvanceKeepsLevels ==
    ASSUME KernelType, LevelInv, NEW next \in SUBSET Nat, next \cap visited = {}, Advance(next)
    PROVE  KernelType' /\ LevelInv'
<1>1. /\ at = "expand" /\ at' \in {"done", "level"}
      /\ UNCHANGED <<forward, start, maxDepth, levels>>
      /\ visited' = visited \cup next /\ frontier' = next
      /\ outEdges' = outEdges + Cardinality(OutEdges(frontier))
  BY DEF Advance, arguments, OutEdges, FrontierOutEdges
<1> DEFINE past == Len(levels) - 1
<1>2. /\ past \in Nat /\ Past = past /\ past + 1 = Len(levels)
      /\ visited = frontier \cup Earlier(past) /\ frontier \cap Earlier(past) = {}
      /\ outEdges = Cardinality(OutEdges(Earlier(past)))
      /\ levels[past + 1] = frontier
  BY <1>1 DEF LevelInv, Searching, Past, KernelType
<1> HIDE DEF past
<1>3. Earlier(past + 1) = Earlier(past) \cup frontier
  BY <1>2, EarlierGrows
<1>4. Cardinality(OutEdges(frontier)) \in Nat
      /\ outEdges' = Cardinality(OutEdges(Earlier(past + 1)))
  <2>1. Earlier(past) \cap frontier = {}
    BY <1>2
  <2>2. Cardinality(OutEdges(frontier)) \in Nat
    BY <1>2, EdgesAddUp
  <2> QED
    BY <1>1, <1>2, <1>3, <2>1, <2>2, EdgesAddUp
<1>5. KernelType'
  BY <1>1, <1>4 DEF KernelType, IsEdgeSet
<1>6. LevelInv'
  <2> SUFFICES ASSUME at' = "level" PROVE LevelInv'
    BY <1>1 DEF LevelInv, Searching
  <2>1. Past' = past + 1 /\ Past' \in Nat
    BY <1>1, <1>2 DEF Past
  <2>2. Earlier(past + 1)' = Earlier(past + 1)
    BY <1>1, <1>2 DEF Earlier, past
  <2>3. Earlier(Past)' = Earlier(past + 1)
    BY <1>1, <2>1 DEF Earlier
  <2>4. OutEdges(Earlier(Past))' = OutEdges(Earlier(past + 1))
    BY <1>1, <2>3 DEF OutEdges
  <2> QED
    BY <1>1, <1>2, <1>3, <1>4, <2>1, <2>3, <2>4 DEF LevelInv
<1> QED
  BY <1>5, <1>6

(* Given the transpose, the next frontier is the next distance class.      *)
LEMMA AdvanceKeepsDistances ==
    ASSUME KernelType, LevelInv, DistanceInv, NEW next, Advance(next),
           reverse = Transposed(forward) => next = FoundTopDown
    PROVE  DistanceInv'
<1>1. /\ at = "expand" /\ at' = IF next = {} THEN "done" ELSE "level"
      /\ UNCHANGED <<forward, reverse, start, maxDepth, levels>>
      /\ visited' = visited \cup next /\ frontier' = next
  BY DEF Advance, arguments
<1> SUFFICES ASSUME reverse = Transposed(forward) PROVE DistanceInv'
  <2>1. Transposed(forward)' = Transposed(forward)
    BY <1>1 DEF Transposed
  <2> QED
    BY <1>1, <2>1 DEF DistanceInv
<1> DEFINE past == Len(levels) - 1
<1>2. /\ past \in Nat /\ past + 1 = Len(levels) /\ Len(levels) \in Nat
      /\ frontier = AtDistance(past) /\ frontier # {} /\ visited = Within(past)
      /\ \A d \in 1..past : levels[d] = AtDistance(d - 1) /\ levels[d] # {}
      /\ past < maxDepth /\ maxDepth \in Nat
      /\ levels[past + 1] = frontier
  BY <1>1 DEF LevelInv, DistanceInv, Searching, Past, KernelType
<1> HIDE DEF past
<1>3. next = AtDistance(past + 1) /\ visited \cup next = Within(past + 1)
  BY <1>2, NextDistance DEF FoundTopDown
<1>4. \A d \in 1..(past + 1) : levels[d] = AtDistance(d - 1) /\ levels[d] # {}
  <2> SUFFICES ASSUME NEW d \in 1..(past + 1)
               PROVE  levels[d] = AtDistance(d - 1) /\ levels[d] # {}
    OBVIOUS
  <2>1. CASE d \in 1..past
    BY <1>2, <2>1
  <2>2. CASE d = past + 1
    <3>1. d - 1 = past
      BY <1>2, <2>2
    <3> QED
      BY <1>2, <2>2, <3>1
  <2> QED
    BY <1>2, <2>1, <2>2
<1>5. \A d : Within(d)' = Within(d)
  BY <1>1 DEF Within
<1>6. \A d : AtDistance(d)' = AtDistance(d)
  BY <1>5 DEF AtDistance
<1>7. LevelsAreDistances'
  <2> SUFFICES ASSUME at' = "done"
               PROVE  /\ \A d \in DOMAIN levels' : (levels'[d] = AtDistance(d - 1)' /\ levels'[d] # {})
                      /\ Len(levels') <= maxDepth' => AtDistance(Len(levels))' = {}
                      /\ Len(levels') <= maxDepth' + 1
    BY DEF LevelsAreDistances
  <2>1. DOMAIN levels = 1..(past + 1)
    BY <1>2 DEF KernelType
  <2>2. AtDistance(past + 1) = {}
    BY <1>1, <1>3
  <2> QED
    BY <1>1, <1>2, <1>4, <1>6, <2>1, <2>2
<1>8. Searching' => /\ Past' = past + 1 /\ at' = "level" /\ next # {}
  BY <1>1, <1>2 DEF Searching, Past
<1>9. Searching' =>
        /\ frontier' = AtDistance(Past)' /\ frontier' # {}
        /\ visited' = Within(Past)'
        /\ \A d \in 1..Past' : levels'[d] = AtDistance(d - 1)' /\ levels'[d] # {}
        /\ Past' <= maxDepth'
        /\ at' = "expand" => Past' < maxDepth'
  BY <1>1, <1>2, <1>3, <1>4, <1>5, <1>6, <1>8
<1> QED
  BY <1>7, <1>9 DEF DistanceInv

(* The first checks, and the first frontier.                               *)
LEMMA CheckKeeps ==
    ASSUME KernelInv, Check
    PROVE  KernelInv'
<1>1. /\ at = "check" /\ levels = <<>> /\ outEdges = 0
      /\ at' \in {"refused", "delegated", "empty", "level"}
      /\ UNCHANGED <<forward, reverse, start, maxDepth, levels, outEdges>>
      /\ visited' = (IF at' = "level" THEN {start} ELSE {}) /\ frontier' = visited'
  BY DEF Check, arguments, KernelInv, KernelType
<1>2. KernelType'
  BY <1>1 DEF KernelInv, KernelType, IsEdgeSet
<1>3. Searching' => at' = "level" /\ Past' = 0
  BY <1>1 DEF Searching, Past
<1>4. LevelInv'
  <2> SUFFICES ASSUME Searching' PROVE LevelInv'
    BY DEF LevelInv
  <2>1. Earlier(Past)' = {}
    BY <1>3 DEF Earlier
  <2>2. OutEdges(Earlier(Past))' = {}
    BY <2>1 DEF OutEdges
  <2>3. Cardinality({}) = 0
    BY FS_EmptySet
  <2>4. Cardinality(OutEdges(Earlier(Past)))' = 0
    BY <2>2, <2>3
  <2> QED
    BY <1>1, <1>3, <2>1, <2>4 DEF LevelInv
<1>5. DistanceInv'
  <2>1. Searching' => /\ frontier' = AtDistance(Past)' /\ frontier' # {}
                      /\ visited' = Within(Past)'
                      /\ Past' = 0 /\ at' = "level" /\ maxDepth' \in Nat
    <3> SUFFICES ASSUME Searching'
                 PROVE  frontier' = AtDistance(Past)' /\ visited' = Within(Past)'
      BY <1>1, <1>2, <1>3 DEF KernelType
    <3>1. Within(0)' = Within(0) /\ AtDistance(0)' = AtDistance(0)
      BY <1>1 DEF AtDistance, Within
    <3>2. Within(0) = {start} /\ AtDistance(0) = {start}
      BY NextDistance
    <3>3. Within(Past)' = Within(0)' /\ AtDistance(Past)' = AtDistance(0)'
      BY <1>3 DEF AtDistance, Within
    <3> QED
      BY <1>1, <1>3, <3>1, <3>2, <3>3
  <2>2. LevelsAreDistances'
    BY <1>1 DEF LevelsAreDistances
  <2> QED
    BY <2>1, <2>2 DEF DistanceInv
<1> QED
  BY <1>2, <1>4, <1>5 DEF KernelInv

(* A frontier is recorded as a level.                                      *)
LEMMA RecordLevelKeeps ==
    ASSUME KernelInv, RecordLevel
    PROVE  KernelInv'
<1> DEFINE past == Len(levels)
<1>1. /\ at = "level" /\ levels' = Append(levels, frontier)
      /\ at' = IF past >= maxDepth THEN "done" ELSE "expand"
      /\ UNCHANGED <<forward, reverse, start, maxDepth, visited, frontier, outEdges>>
  BY DEF RecordLevel, arguments
<1>2. /\ levels \in Seq(SUBSET Nat) /\ frontier \in SUBSET Nat /\ past \in Nat /\ maxDepth \in Nat
      /\ Past = past /\ Searching
  BY <1>1 DEF KernelInv, KernelType, Past, Searching
<1>3. /\ levels' \in Seq(SUBSET Nat) /\ Len(levels') = past + 1
      /\ levels'[past + 1] = frontier /\ \A d \in 1..past : levels'[d] = levels[d]
      /\ DOMAIN levels' = 1..(past + 1)
  BY <1>1, <1>2
<1>4. KernelType'
  BY <1>1, <1>3 DEF KernelInv, KernelType, IsEdgeSet
<1>5. Searching' => at' = "expand" /\ Past' = past
  BY <1>1, <1>2, <1>3 DEF Searching, Past
<1> HIDE DEF past
<1>6. LevelInv'
  <2> SUFFICES ASSUME Searching' PROVE LevelInv'
    BY DEF LevelInv
  <2>1. Earlier(Past)' = Earlier(past)
    BY <1>2, <1>3, <1>5 DEF Earlier
  <2>2. OutEdges(Earlier(Past))' = OutEdges(Earlier(past))
    BY <1>1, <2>1 DEF OutEdges
  <2>3. /\ visited = frontier \cup Earlier(past)
        /\ frontier \cap Earlier(past) = {}
        /\ outEdges = Cardinality(OutEdges(Earlier(past)))
    BY <1>2 DEF KernelInv, LevelInv
  <2> QED
    BY <1>1, <1>2, <1>3, <1>5, <2>1, <2>2, <2>3 DEF LevelInv
<1>7. DistanceInv'
  <2> SUFFICES ASSUME reverse = Transposed(forward) PROVE DistanceInv'
    <3>1. Transposed(forward)' = Transposed(forward)
      BY <1>1 DEF Transposed
    <3> QED
      BY <1>1, <3>1 DEF DistanceInv
  <2>1. /\ frontier = AtDistance(past) /\ frontier # {} /\ visited = Within(past)
        /\ \A d \in 1..past : levels[d] = AtDistance(d - 1) /\ levels[d] # {}
        /\ past <= maxDepth
    BY <1>2 DEF KernelInv, DistanceInv
  <2>2. \A d : Within(d)' = Within(d)
    BY <1>1 DEF Within
  <2>3. \A d : AtDistance(d)' = AtDistance(d)
    BY <2>2 DEF AtDistance
  <2>4. \A d \in 1..(past + 1) : levels'[d] = AtDistance(d - 1) /\ levels'[d] # {}
    <3> SUFFICES ASSUME NEW d \in 1..(past + 1)
                 PROVE  levels'[d] = AtDistance(d - 1) /\ levels'[d] # {}
      OBVIOUS
    <3>1. CASE d \in 1..past
      BY <1>3, <2>1, <3>1
    <3>2. CASE d = past + 1
      <4>1. d - 1 = past
        BY <1>2, <3>2
      <4> QED
        BY <1>3, <2>1, <3>2, <4>1
    <3> QED
      BY <1>2, <3>1, <3>2
  <2>5. LevelsAreDistances'
    <3> SUFFICES ASSUME at' = "done"
                 PROVE  /\ \A d \in DOMAIN levels' : (levels'[d] = AtDistance(d - 1)' /\ levels'[d] # {})
                        /\ Len(levels') <= maxDepth' => AtDistance(Len(levels))' = {}
                        /\ Len(levels') <= maxDepth' + 1
      BY DEF LevelsAreDistances
    <3>1. past = maxDepth
      BY <1>1, <1>2, <2>1 DEF past
    <3> QED
      BY <1>1, <1>2, <1>3, <2>3, <2>4, <3>1
  <2>6. Searching' =>
          /\ frontier' = AtDistance(Past)' /\ frontier' # {}
          /\ visited' = Within(Past)'
          /\ \A d \in 1..Past' : levels'[d] = AtDistance(d - 1)' /\ levels'[d] # {}
          /\ Past' <= maxDepth'
          /\ at' = "expand" => Past' < maxDepth'
    <3> SUFFICES ASSUME Searching'
                 PROVE  /\ frontier' = AtDistance(Past)' /\ visited' = Within(Past)'
                        /\ \A d \in 1..Past' : levels'[d] = AtDistance(d - 1)' /\ levels'[d] # {}
                        /\ Past' < maxDepth' /\ Past' <= maxDepth' /\ frontier' # {}
      OBVIOUS
    <3>1. past < maxDepth
      BY <1>1, <1>2, <1>5 DEF past
    <3>2. \A d \in 1..past : levels'[d] = AtDistance(d - 1)' /\ levels'[d] # {}
      BY <1>2, <2>3, <2>4
    <3> QED
      BY <1>1, <1>2, <1>5, <2>1, <2>2, <2>3, <3>1, <3>2
  <2> QED
    BY <2>5, <2>6 DEF DistanceInv
<1> QED
  BY <1>4, <1>6, <1>7 DEF KernelInv

(* Every step of the search keeps its invariant.                           *)
LEMMA KernelStepKeeps ==
    ASSUME KernelInv, KernelStep
    PROVE  KernelInv'
<1>1. CASE ExpandBottomUp
  <2>1. Advance(FoundBottomUp)
    BY <1>1 DEF ExpandBottomUp, FoundBottomUp
  <2>2. KernelType' /\ LevelInv'
    BY <2>1, FoundAreNew, AdvanceKeepsLevels DEF KernelInv
  <2>3. DistanceInv'
    BY <2>1, BothWaysFindTheSame, AdvanceKeepsDistances DEF KernelInv
  <2> QED
    BY <2>2, <2>3 DEF KernelInv
<1>2. CASE ExpandTopDown
  <2>1. Advance(FoundTopDown)
    BY <1>2 DEF ExpandTopDown, FoundTopDown
  <2>2. KernelType' /\ LevelInv'
    BY <2>1, FoundAreNew, AdvanceKeepsLevels DEF KernelInv
  <2>3. DistanceInv'
    BY <2>1, AdvanceKeepsDistances DEF KernelInv
  <2> QED
    BY <2>2, <2>3 DEF KernelInv
<1> QED
  BY <1>1, <1>2, CheckKeeps, RecordLevelKeeps DEF KernelStep

(***************************************************************************)
(* The steps of the call.                                                  *)
(***************************************************************************)
(* The state of the search alone decides its invariant.                    *)
LEMMA KernelStutters ==
    ASSUME KernelInv, UNCHANGED kernelVars
    PROVE  KernelInv'
<1>1. UNCHANGED <<forward, reverse, start, maxDepth, at, visited, frontier, levels, outEdges>>
  BY DEF kernelVars, arguments
<1>2. KernelType'
  BY <1>1 DEF KernelInv, KernelType, IsEdgeSet
<1>3. Past' = Past /\ Searching' = Searching
  BY <1>1 DEF Past, Searching
<1>4. \A n : Earlier(n)' = Earlier(n)
  BY <1>1 DEF Earlier
<1>5. LevelInv'
  <2>1. Earlier(Past)' = Earlier(Past)
    BY <1>1, <1>3 DEF Earlier
  <2>2. OutEdges(Earlier(Past))' = OutEdges(Earlier(Past))
    BY <1>1, <2>1 DEF OutEdges
  <2> QED
    BY <1>1, <1>3, <2>1, <2>2 DEF KernelInv, LevelInv
<1>6. DistanceInv'
  <2>1. \A d : Within(d)' = Within(d)
    BY <1>1 DEF Within
  <2>2. \A d : AtDistance(d)' = AtDistance(d)
    BY <2>1 DEF AtDistance
  <2>3. Within(Past)' = Within(Past) /\ AtDistance(Past)' = AtDistance(Past)
    BY <1>1, <1>3 DEF Within, AtDistance
  <2>4. AtDistance(Len(levels))' = AtDistance(Len(levels))
    BY <1>1 DEF Within, AtDistance
  <2>5. Transposed(forward)' = Transposed(forward)
    BY <1>1 DEF Transposed
  <2>6. LevelsAreDistances => LevelsAreDistances'
    BY <1>1, <2>2, <2>4, <2>5 DEF LevelsAreDistances
  <2> QED
    BY <1>1, <1>3, <2>2, <2>3, <2>5, <2>6 DEF KernelInv, DistanceInv
<1> QED
  BY <1>2, <1>5, <1>6 DEF KernelInv

(* A search begins with graphs, a node and a depth.                        *)
LEMMA BeginKeeps ==
    ASSUME KernelInv, NEW edges, NEW hasDelta, NEW reversed, NEW reversedHasDelta, NEW from \in Nat,
           NEW depth \in Nat, IsEdgeSet(edges),
           Begin(edges, hasDelta, reversed, reversedHasDelta, from, depth)
    PROVE  KernelInv'
<1>1. /\ at = "idle" /\ at' = "check" /\ forward' = edges /\ start' = from /\ maxDepth' = depth
      /\ UNCHANGED <<visited, frontier, levels, outEdges>>
  BY DEF Begin
<1>2. KernelType'
  BY <1>1 DEF KernelInv, KernelType, IsEdgeSet
<1>3. ~Searching' /\ at' # "done"
  BY <1>1 DEF Searching
<1> QED
  BY <1>2, <1>3 DEF KernelInv, LevelInv, DistanceInv, LevelsAreDistances

(* The graph with its delta, and its transpose, are graphs.                *)
LEMMA ViewIsEdgeSet ==
    ASSUME CallInv
    PROVE  IsEdgeSet(View(graph)) /\ IsEdgeSet(Transposed(View(graph)))
<1>1. IsFiniteSet(graph.base \ graph.dels)
  BY FS_Difference DEF CallInv, IsEdgeSet
<1>2. IsFiniteSet(View(graph))
  BY <1>1, FS_Union DEF View, CallInv, IsEdgeSet
<1>3. IsEdgeSet(View(graph))
  BY <1>2 DEF View, CallInv, IsEdgeSet
<1> QED
  BY <1>3, TransposedIsEdgeSet

(* What parses is a node and a depth.                                      *)
LEMMA ParsedIsNode ==
    ASSUME CallInv, Parses
    PROVE  StartNode \in Nat /\ args[3].value \in Nat
<1>1. 2 \in 1..Len(args) /\ 3 \in 1..Len(args)
  BY DEF Parses
<1>2. ASSUME NEW i \in 1..Len(args), ParsesU64(i) PROVE args[i].value \in Nat
  BY <1>2 DEF CallInv, ParsesU64
<1>3. CASE IsString(2)
  <2>1. dictionary # NoDictionary /\ args[2].value \in ToSet(dictionary)
    BY <1>3 DEF Parses, StartParses, ParsesString, ParsesU64, IsString
  <2>2. \E i \in DOMAIN dictionary : dictionary[i] = args[2].value
    BY <2>1 DEF ToSet
  <2> DEFINE i == CHOOSE i \in DOMAIN dictionary : dictionary[i] = args[2].value
  <2>3. i \in Nat \ {0}
    BY <2>1, <2>2 DEF CallInv
  <2>4. StartNode = i - 1
    BY <1>3 DEF StartNode
  <2> HIDE DEF i
  <2> QED
    BY <1>1, <1>2, <2>3, <2>4 DEF Parses
<1>4. CASE ~IsString(2)
  BY <1>1, <1>2, <1>4 DEF Parses, StartParses, ParsesString, StartNode
<1> QED
  BY <1>3, <1>4

(* A call goes on with a node, a depth and graphs.                         *)
LEMMA CallKeeps ==
    ASSUME CallInv, Call
    PROVE  CallInv'
<1>1. UNCHANGED <<graph, args, dictionary>>
  BY DEF Call, entry
<1>2. CASE Parses /\ Registered /\ ~TransposeFails
  <2>1. /\ resident' = (IF Direction = "incoming" THEN Memoized ELSE resident)
        /\ attached' = resident'
        /\ spec' = TraversalSpec(<<StartNode>>, args[3].value, MaxNodes, "bfs", Direction)
    BY <1>2 DEF Call
  <2>2. StartNode \in Nat /\ args[3].value \in Nat
    BY <1>2, ParsedIsNode
  <2>3. spec'.starts = <<StartNode>> /\ spec'.depth = args[3].value
    BY <2>1 DEF TraversalSpec
  <2>4. resident' # NoTranspose => IsEdgeSet(resident')
    BY <2>1, ViewIsEdgeSet DEF CallInv, Memoized
  <2>5. spec'.starts \in Seq(Nat)
    BY <2>2, <2>3
  <2> QED
    BY <1>1, <2>1, <2>2, <2>3, <2>4, <2>5 DEF CallInv, IsEdgeSet
<1>3. CASE UNCHANGED <<resident, attached, spec>>
  BY <1>1, <1>3 DEF CallInv, IsEdgeSet
<1> QED
  BY <1>2, <1>3 DEF Call

(* A plan that is executed begins a search on graphs.                      *)
LEMMA ExecuteKeeps ==
    ASSUME Inv, Execute
    PROVE  Inv'
<1>1. UNCHANGED <<graph, args, dictionary, resident, spec, attached>>
  BY DEF Execute, entry
<1>2. CallInv'
  BY <1>1 DEF Inv, CallInv, IsEdgeSet
<1>3. KernelInv'
  <2>1. CASE UNCHANGED kernelVars
    BY <2>1, KernelStutters DEF Inv
  <2>2. CASE /\ Optimizes
             /\ Begin(Searched.base, HasDelta(Searched), Opposite.base, HasDelta(Opposite),
                      spec.starts[1], spec.depth)
    <3>1. spec.starts[1] \in Nat /\ spec.depth \in Nat /\ attached # NoTranspose
      BY <2>2 DEF Optimizes, Inv, CallInv
    <3>2. IsEdgeSet(Searched.base)
      BY <3>1 DEF Searched, Transpose, Graph, Inv, CallInv
    <3> QED
      BY <2>2, <3>1, <3>2, BeginKeeps DEF Inv
  <2> QED
    BY <2>1, <2>2 DEF Execute
<1> QED
  BY <1>2, <1>3 DEF Inv

(* The invariant holds in every state of every call.                       *)
LEMMA InvHolds == Spec => []Inv
<1>1. Init => Inv
  <2> SUFFICES ASSUME Init PROVE Inv
    OBVIOUS
  <2>1. PICK input \in Inputs :
            /\ graph = input.graph /\ dictionary = input.dictionary /\ resident = input.resident
            /\ args = input.args /\ spec = input.spec
            /\ attached \in {NoTranspose, resident}
            /\ KernelInit
    BY DEF Init
  <2>2. CallInv
    BY <2>1, InputsAssumption DEF CallInv, IsEdgeSet
  <2>3. KernelInv
    <3>1. at = "idle" /\ forward = {} /\ levels = <<>> /\ outEdges = 0 /\ start = 0
          /\ maxDepth = 0 /\ visited = {} /\ frontier = {}
      BY <2>1 DEF KernelInit
    <3>2. IsFiniteSet({})
      BY FS_EmptySet
    <3>3. KernelType
      BY <3>1, <3>2 DEF KernelType, IsEdgeSet
    <3> QED
      BY <3>1, <3>3 DEF KernelInv, LevelInv, DistanceInv, LevelsAreDistances, Searching
  <2> QED
    BY <2>2, <2>3 DEF Inv
<1>2. Inv /\ [Next]_vars => Inv'
  <2> SUFFICES ASSUME Inv, [Next]_vars PROVE Inv'
    OBVIOUS
  <2>1. CASE Call
    <3>1. UNCHANGED kernelVars
      BY <2>1 DEF Call
    <3> QED
      BY <2>1, <3>1, CallKeeps, KernelStutters DEF Inv
  <2>2. CASE Execute
    BY <2>2, ExecuteKeeps
  <2>3. CASE Scan \/ OptimizedStep \/ AnswerOptimized \/ AnswerPlain \/ UNCHANGED vars
    <3>1. UNCHANGED <<entry, resident, spec, attached>>
      BY <2>3 DEF Scan, OptimizedStep, AnswerOptimized, AnswerPlain, Answer, vars
    <3>2. CallInv'
      BY <3>1 DEF entry, Inv, CallInv, IsEdgeSet
    <3>3. KernelStep \/ UNCHANGED kernelVars
      BY <2>3 DEF Scan, OptimizedStep, AnswerOptimized, AnswerPlain, Answer, vars
    <3> QED
      BY <3>2, <3>3, KernelStepKeeps, KernelStutters DEF Inv
  <2> QED
    BY <2>1, <2>2, <2>3 DEF Next
<1> QED
  BY <1>1, <1>2, PTL DEF Spec

-----------------------------------------------------------------------------
(* "Level membership, depths, and counts are identical to bfs": given the  *)
(* transpose, the levels are the distance classes of the start, without    *)
(* gaps, up to max_depth, whichever way each of them was expanded.         *)
THEOREM LevelsAlwaysAreDistances == Spec => []LevelsAreDistances
<1>1. Inv => LevelsAreDistances
  BY DEF Inv, KernelInv, DistanceInv, LevelsAreDistances
<1> QED
  BY <1>1, InvHolds, PTL

(* The heuristic's estimate counts the out-edges of every level before the *)
(* current one exactly once, also for a reverse graph that is no transpose *)
(* (dobfs.rs:117-140).                                                     *)
THEOREM EstimateIsAlwaysExact == Spec => []EstimateIsExact
<1>1. Inv => EstimateIsExact
  <2> SUFFICES ASSUME Inv, at = "expand"
               PROVE  outEdges = Cardinality({p \in forward :
                                      \E d \in 1..(Len(levels) - 1) : p[1] \in levels[d]})
    BY DEF EstimateIsExact
  <2>1. Past = Len(levels) - 1 /\ outEdges = Cardinality(OutEdges(Earlier(Past)))
    BY DEF Inv, KernelInv, LevelInv, Searching, Past
  <2>2. OutEdges(Earlier(Past))
           = {p \in forward : \E d \in 1..(Len(levels) - 1) : p[1] \in levels[d]}
    BY <2>1 DEF OutEdges, Earlier
  <2> QED
    BY <2>1, <2>2
<1> QED
  BY <1>1, InvHolds, PTL


-----------------------------------------------------------------------------
(***************************************************************************)
(* Refusals.  What parses is what is documented, and what is executed has  *)
(* a valid spec.                                                           *)
(***************************************************************************)
LiteralInv ==
    /\ args \in Seq(ToSet(args))
    /\ \A literal \in ToSet(args) :
          /\ literal = [type |-> literal.type, value |-> literal.value]
          /\ literal.type \in {"string", "int"}
          /\ literal.type = "int" => literal.value \in Int \cup {Null}
    /\ dictionary # NoDictionary => \A i \in DOMAIN dictionary : dictionary[i] # Null

OutcomeInv ==
    /\ LiteralInv
    /\ Transposed(View(graph)) # NoTranspose
    /\ Sql =>
          /\ scan.partition = 0
          /\ step = "call" => resident = before
          /\ step = "refused" => ~Documented \/ Untransposable
          /\ step \notin {"call", "refused"} => Documented /\ ~Untransposable /\ Executable
    /\ ~Sql =>
          /\ step \notin {"call", "scan"}
          /\ step = "refused" => ~Executable
          /\ step \notin {"execute", "refused"} => Executable

\* The part of CallIsAnswered that says which calls are answered.
AnsweredIfDocumented ==
    /\ step = "refused" => Refused
    /\ step = "answered" => ~Refused

(* A literal is a number when it parses as u64.                            *)
LEMMA NumbersParse ==
    ASSUME LiteralInv, NEW i \in 1..Len(args)
    PROVE  /\ Number(args[i]) <=> ParsesU64(i)
           /\ IsString(i) <=> args[i].type # "int"
           /\ args[i] \in ToSet(args)
<1>1. args[i] \in ToSet(args)
  BY DEF LiteralInv
<1>2. Null \notin Int
  BY InputsAssumption
<1>3. args[i].type \in {"string", "int"} /\ (args[i].type = "int" => args[i].value \in Int \cup {Null})
  BY <1>1 DEF LiteralInv
<1> QED
  BY <1>1, <1>2, <1>3 DEF Number, ParsesU64, IsString

(* The first argument is the registered name, given as a string.           *)
LEMMA NameParses ==
    ASSUME LiteralInv, 1 \in 1..Len(args)
    PROVE  args[1] = [type |-> "string", value |-> Name] <=> ParsesString(1) /\ Registered
<1>1. args[1] = [type |-> args[1].type, value |-> args[1].value]
  BY NumbersParse DEF LiteralInv
<1>2. Null # Name
  BY InputsAssumption
<1>3. ASSUME args[1] = [type |-> "string", value |-> Name]
      PROVE  ParsesString(1) /\ Registered
  <2>1. args[1].type = "string" /\ args[1].value = Name
    BY <1>3
  <2> QED
    BY <1>2, <2>1 DEF ParsesString, IsString, Registered
<1>4. ASSUME ParsesString(1), Registered
      PROVE  args[1] = [type |-> "string", value |-> Name]
  <2>1. args[1].type = "string" /\ args[1].value = Name
    BY <1>4 DEF ParsesString, IsString, Registered
  <2> QED
    BY <1>1, <2>1
<1> QED
  BY <1>3, <1>4

(* The start node is a number or a key of the dictionary.                  *)
LEMMA StartIsDocumented ==
    ASSUME LiteralInv, 2 \in 1..Len(args), Registered
    PROVE  StartParses <=>
              Number(args[2]) \/ (args[2].type = "string" /\ dictionary # NoDictionary
                                  /\ \E i \in DOMAIN dictionary : dictionary[i] = args[2].value)
<1>1. Number(args[2]) <=> ParsesU64(2)
  BY NumbersParse
<1>2. args[2].value \in ToSet(dictionary)
         <=> \E i \in DOMAIN dictionary : dictionary[i] = args[2].value
  BY DEF ToSet
<1>3. CASE ParsesString(2)
  <2>1. args[2].type = "string" /\ ~Number(args[2])
    BY <1>3 DEF ParsesString, IsString, Number
  <2> QED
    BY <1>2, <1>3, <2>1 DEF StartParses
<1>4. CASE ~ParsesString(2)
  <2>1. args[2].type # "string" \/ args[2].value = Null
    BY <1>4 DEF ParsesString, IsString
  <2>2. ~(args[2].type = "string" /\ dictionary # NoDictionary
          /\ \E i \in DOMAIN dictionary : dictionary[i] = args[2].value)
    BY <2>1 DEF LiteralInv
  <2> QED
    BY <1>1, <1>4, <2>2 DEF StartParses
<1> QED
  BY <1>3, <1>4

(* Arguments parse exactly when they are documented (udtf.rs:14-25).       *)
LEMMA ParsesAsDocumented ==
    ASSUME LiteralInv
    PROVE  /\ Documented <=> Parses /\ Registered /\ args[3].value <= U32Max
           /\ Parses => Direction \in {"outgoing", "incoming"}
<1>0. args \in Seq(ToSet(args))
  BY DEF LiteralInv
<1>1. Len(args) \in Nat
  BY <1>0
<1>2. Direction \in {"outgoing", "incoming", "unknown"}
  BY DEF Direction
<1>3. CASE Len(args) < 3 \/ Len(args) > 5
  <2>0. Len(args) \notin 3..5
    <3>1. \A n \in Nat : n < 3 \/ n > 5 => n \notin 3..5
      OBVIOUS
    <3> QED
      BY <1>1, <1>3, <3>1, Zenon
  <2>1. ~Parses
    BY <2>0, Zenon DEF Parses
  <2>2. ASSUME Len(args) > 5 PROVE Len(Options) \notin 0..2
    <3>1. Len(Options) = Len(args) - 3
      BY <1>0, <2>2 DEF Options
    <3> QED
      BY <1>1, <2>2, <3>1
  <2>3. ~Documented
    BY <1>1, <1>3, <2>2 DEF Documented
  <2> QED
    BY <2>1, <2>3
<1>4. ASSUME Len(args) \in 3..5
      PROVE  Documented <=> Parses /\ Registered /\ args[3].value <= U32Max
  <2>1. 1 \in 1..Len(args) /\ 2 \in 1..Len(args) /\ 3 \in 1..Len(args)
    BY <1>1, <1>4
  <2>2. Number(args[3]) <=> ParsesU64(3)
    BY <2>1, NumbersParse
  <2> DEFINE Optional == CASE Len(Options) = 0 -> TRUE
                           [] Len(Options) = 1 -> Number(Options[1]) \/ Word(Options[1])
                           [] Len(Options) = 2 -> Number(Options[1]) /\ Word(Options[2])
                           [] OTHER -> FALSE
  <2>3. Optional <=> FourthParses /\ FifthParses /\ Direction # "unknown"
    <3>1. Null \notin {"out", "outgoing", "in", "incoming"}
      BY InputsAssumption
    <3>2. CASE Len(args) = 3
      <4>1. Len(Options) = 0
        BY <1>0, <3>2 DEF Options
      <4> QED
        BY <3>2, <4>1 DEF FourthParses, FifthParses, Direction
    <3>3. CASE Len(args) = 4
      <4>1. Len(Options) = 1 /\ Options[1] = args[4]
        BY <1>0, <3>3 DEF Options
      <4>2. /\ Number(args[4]) <=> ParsesU64(4)
            /\ IsString(4) <=> args[4].type # "int"
            /\ args[4].type \in {"string", "int"}
        BY <3>3, NumbersParse DEF LiteralInv
      <4>3. CASE IsString(4)
        <5>1. Optional <=> args[4].value \in {"out", "outgoing", "in", "incoming"}
          BY <4>1, <4>2, <4>3 DEF Word, Number
        <5>2. Direction # "unknown" <=> args[4].value \in {"out", "outgoing", "in", "incoming"}
          BY <3>3, <4>3 DEF Direction
        <5> QED
          BY <3>1, <3>3, <4>3, <5>1, <5>2 DEF FourthParses, FifthParses, ParsesString
      <4>4. CASE ~IsString(4)
        <5>1. Optional <=> Number(args[4])
          BY <4>1, <4>2, <4>4 DEF Word
        <5>2. Direction = "outgoing"
          BY <3>3, <4>4 DEF Direction
        <5> QED
          BY <3>3, <4>2, <4>4, <5>1, <5>2 DEF FourthParses, FifthParses
      <4> QED
        BY <4>3, <4>4
    <3>4. CASE Len(args) = 5
      <4>1. Len(Options) = 2 /\ Options[1] = args[4] /\ Options[2] = args[5]
        BY <1>0, <3>4 DEF Options
      <4>2. /\ Number(args[4]) <=> ParsesU64(4)
            /\ IsString(4) <=> args[4].type # "int"
            /\ IsString(5) <=> args[5].type = "string"
        BY <3>4, NumbersParse DEF IsString
      <4>3. Optional <=> Number(args[4]) /\ Word(args[5])
        BY <4>1
      <4>4. Direction # "unknown" <=> args[5].value \in {"out", "outgoing", "in", "incoming"}
        BY <3>4 DEF Direction
      <4>5. Word(args[5]) <=> IsString(5) /\ args[5].value \in {"out", "outgoing", "in", "incoming"}
        BY <4>2 DEF Word
      <4>6. FourthParses /\ FifthParses <=> ~IsString(4) /\ ParsesU64(4) /\ ParsesString(5)
        BY <3>4 DEF FourthParses, FifthParses
      <4>7. Number(args[4]) => ~IsString(4)
        BY <4>2 DEF Number
      <4> QED
        BY <3>1, <4>2, <4>3, <4>4, <4>5, <4>6, <4>7 DEF ParsesString
    <3> QED
      BY <1>4, <3>2, <3>3, <3>4
  <2>4. Documented <=> /\ args[1] = [type |-> "string", value |-> Name]
                       /\ Number(args[2]) \/ (args[2].type = "string" /\ dictionary # NoDictionary
                              /\ \E i \in DOMAIN dictionary : dictionary[i] = args[2].value)
                       /\ Number(args[3]) /\ args[3].value <= U32Max
                       /\ Optional
    BY <1>4 DEF Documented
  <2>5. Parses <=> /\ ParsesString(1) /\ StartParses /\ ParsesU64(3)
                   /\ FourthParses /\ FifthParses /\ Direction # "unknown"
    BY <1>4 DEF Parses
  <2> HIDE DEF Optional
  <2> QED
    BY <2>1, <2>2, <2>3, <2>4, <2>5, NameParses, StartIsDocumented
<1>5. Parses => Len(args) \in 3..5 /\ Direction # "unknown"
  BY Zenon DEF Parses
<1>6. Len(args) \in 3..5 \/ Len(args) < 3 \/ Len(args) > 5
  <2>1. \A n \in Nat : n \in 3..5 \/ n < 3 \/ n > 5
    OBVIOUS
  <2> QED
    BY <1>1, <2>1, Zenon
<1> QED
  BY <1>2, <1>3, <1>4, <1>5, <1>6

(* The arguments and what they are said to mean do not change.             *)
LEMMA EntryStays ==
    ASSUME UNCHANGED entry
    PROVE  /\ UNCHANGED <<graph, dictionary, args, scan>>
           /\ Documented' = Documented /\ Sql' = Sql /\ LiteralInv' = LiteralInv
           /\ (Transposed(View(graph)) # NoTranspose)' = (Transposed(View(graph)) # NoTranspose)
           /\ Untransposable' = Untransposable
<1>1. UNCHANGED <<graph, dictionary, args, scan, before>>
  BY DEF entry
<1>2. Options' = Options
  BY <1>1 DEF Options
<1>3. Documented' = Documented
  BY <1>1, <1>2 DEF Documented
<1>4. Sql' = Sql /\ TooBig(View(graph))' = TooBig(View(graph))
  BY <1>1 DEF Sql, TooBig, View
<1>5. (Sql /\ Inward)' = (Sql /\ Inward)
  BY <1>2, <1>4 DEF Inward
<1>6. Untransposable' = Untransposable
  BY <1>1, <1>4, <1>5 DEF Untransposable
<1> QED
  BY <1>1, <1>3, <1>6 DEF Sql, LiteralInv, View, Transposed

(* The hops of a call that parses are a number.                            *)
LEMMA ParsedIsHop ==
    ASSUME LiteralInv, Parses
    PROVE  args[3].value \in Nat
<1>1. ParsesU64(3) /\ Len(args) \in 3..5
  BY Zenon DEF Parses
<1>2. 3 \in 1..Len(args)
  BY <1>1
<1>3. args[3] \in ToSet(args)
  BY <1>2, NumbersParse
<1> QED
  BY <1>1, <1>3 DEF LiteralInv, ParsesU64

(* The optional arguments are the cap and the direction.                   *)
LEMMA OptionsAreAsked ==
    ASSUME LiteralInv, Parses, Sql
    PROVE  /\ MaxNodes = Cap /\ Cap \in Nat \cup {NoCap}
           /\ Direction = "incoming" <=> Inward
<1>0. args \in Seq(ToSet(args))
  BY DEF LiteralInv
<1>1. Len(args) \in 3..5 /\ FourthParses /\ FifthParses /\ Direction # "unknown"
  BY Zenon DEF Parses
<1>2. Cap = IF \E i \in DOMAIN Options : Number(Options[i]) THEN Options[1].value ELSE NoCap
  BY DEF Cap
<1>3. Inward <=> \E i \in DOMAIN Options : Options[i] \in [type : {"string"}, value : {"in", "incoming"}]
  BY DEF Inward
<1>4. ASSUME NEW i \in 1..Len(args), args[i].type = "string"
      PROVE  args[i] \in [type : {"string"}, value : {"in", "incoming"}]
                 <=> args[i].value \in {"in", "incoming"}
  <2>1. args[i] = [type |-> args[i].type, value |-> args[i].value]
    BY NumbersParse DEF LiteralInv
  <2>2. \A v : [type |-> "string", value |-> v] \in [type : {"string"}, value : {"in", "incoming"}]
                  <=> v \in {"in", "incoming"}
    OBVIOUS
  <2>3. args[i] = [type |-> "string", value |-> args[i].value]
    BY <1>4, <2>1, Zenon
  <2> QED
    BY <2>2, <2>3, Zenon
<1>5. CASE Len(args) = 3
  <2>1. DOMAIN Options = {}
    BY <1>0, <1>5 DEF Options
  <2>2. MaxNodes = NoCap
    BY <1>5 DEF MaxNodes
  <2>3. Direction = "outgoing"
    BY <1>5 DEF Direction
  <2> QED
    BY <1>2, <1>3, <2>1, <2>2, <2>3
<1>6. CASE Len(args) = 4
  <2>1. DOMAIN Options = {1} /\ Options[1] = args[4]
    BY <1>0, <1>6 DEF Options
  <2>2. 4 \in 1..Len(args)
    BY <1>6
  <2>3. Number(args[4]) <=> ParsesU64(4)
    BY <2>2, NumbersParse
  <2>4. Cap = IF Number(args[4]) THEN args[4].value ELSE NoCap
    BY <1>2, <2>1
  <2>5. Inward <=> args[4] \in [type : {"string"}, value : {"in", "incoming"}]
    BY <1>3, <2>1
  <2>6. CASE IsString(4)
    <3>1. args[4].type = "string" /\ ~Number(args[4])
      BY <2>6 DEF IsString, Number
    <3>2. MaxNodes = NoCap
      BY <2>6 DEF MaxNodes
    <3>3. Direction = "incoming" <=> args[4].value \in {"in", "incoming"}
      BY <1>6, <2>6 DEF Direction
    <3>4. Inward <=> args[4].value \in {"in", "incoming"}
      BY <1>4, <2>2, <2>5, <3>1
    <3> QED
      BY <2>4, <3>1, <3>2, <3>3, <3>4
  <2>7. CASE ~IsString(4)
    <3>1. Number(args[4]) /\ args[4].type # "string"
      BY <1>1, <1>6, <2>3, <2>7 DEF FourthParses, IsString
    <3>2. MaxNodes = args[4].value /\ args[4].value \in Nat
      BY <1>6, <2>7, <3>1 DEF MaxNodes, Number
    <3>3. Direction = "outgoing"
      BY <1>6, <2>7 DEF Direction
    <3>4. ~Inward
      BY <2>5, <3>1
    <3> QED
      BY <2>4, <3>1, <3>2, <3>3, <3>4
  <2> QED
    BY <2>6, <2>7
<1>7. CASE Len(args) = 5
  <2>1. DOMAIN Options = {1, 2} /\ Options[1] = args[4] /\ Options[2] = args[5]
    BY <1>0, <1>7 DEF Options
  <2>2. 4 \in 1..Len(args) /\ 5 \in 1..Len(args)
    BY <1>7
  <2>3. ~IsString(4) /\ ParsesU64(4) /\ ParsesString(5)
    BY <1>1, <1>7 DEF FourthParses, FifthParses
  <2>4. Number(args[4]) /\ args[4].type # "string" /\ args[5].type = "string"
    BY <2>2, <2>3, NumbersParse DEF IsString, ParsesString
  <2>5. Cap = args[4].value /\ args[4].value \in Nat
    BY <1>2, <2>1, <2>4 DEF Number
  <2>6. MaxNodes = args[4].value
    BY <1>7, <2>3 DEF MaxNodes
  <2>7. Inward <=> args[5] \in [type : {"string"}, value : {"in", "incoming"}]
    BY <1>3, <2>1, <2>4
  <2>8. Inward <=> args[5].value \in {"in", "incoming"}
    BY <1>4, <2>2, <2>4, <2>7
  <2>9. Direction = "incoming" <=> args[5].value \in {"in", "incoming"}
    BY <1>7 DEF Direction
  <2> QED
    BY <2>5, <2>6, <2>8, <2>9
<1> QED
  BY <1>1, <1>5, <1>6, <1>7

(* A call is refused exactly when it is not documented, or its transpose   *)
(* does not fit; otherwise its plan can be executed.                       *)
LEMMA CallRefuses ==
    ASSUME OutcomeInv, Call
    PROVE  OutcomeInv'
<1>1. step = "call" /\ UNCHANGED entry /\ step' # "call"
  BY DEF Call
<1>2. /\ Documented' = Documented /\ Sql' = Sql /\ LiteralInv'
      /\ (Transposed(View(graph)) # NoTranspose)' /\ UNCHANGED scan
      /\ Untransposable' = Untransposable
  BY <1>1, EntryStays DEF OutcomeInv
<1>3. Sql /\ scan.partition = 0 /\ resident = before /\ LiteralInv
  BY <1>1 DEF OutcomeInv
<1>4. Documented <=> Parses /\ Registered /\ args[3].value <= U32Max
  BY ParsesAsDocumented DEF OutcomeInv
<1>5. CASE ~(Parses /\ Registered)
  <2>1. step' = "refused"
    BY <1>5 DEF Call
  <2> QED
    BY <1>2, <1>3, <1>4, <1>5, <2>1 DEF OutcomeInv
<1>6. ASSUME Parses, Registered PROVE TransposeFails <=> Untransposable
  <2>1. Direction = "incoming" <=> Inward
    BY <1>3, <1>6, OptionsAreAsked
  <2> QED
    BY <1>3, <2>1 DEF TransposeFails, Untransposable
<1>7. CASE Parses /\ Registered /\ TransposeFails
  <2>1. step' = "refused"
    BY <1>7 DEF Call
  <2> QED
    BY <1>2, <1>3, <1>6, <1>7, <2>1 DEF OutcomeInv
<1>8. CASE Parses /\ Registered /\ ~TransposeFails
  <2>1. /\ resident' = (IF Direction = "incoming" THEN Memoized ELSE resident)
        /\ attached' = resident'
        /\ spec' = TraversalSpec(<<StartNode>>, args[3].value, MaxNodes, "bfs", Direction)
        /\ step' = IF args[3].value > U32Max THEN "refused" ELSE "scan"
    BY <1>8 DEF Call
  <2>2. spec'.algorithm = "bfs" /\ spec'.direction = Direction
    BY <2>1 DEF TraversalSpec
  <2>3. Direction \in {"outgoing", "incoming"}
    BY <1>8, ParsesAsDocumented DEF OutcomeInv
  <2>4. Direction = "incoming" => attached' # NoTranspose
    BY <2>1 DEF Memoized, OutcomeInv
  <2>5. Executable'
    BY <1>2, <1>3, <2>2, <2>3, <2>4 DEF Executable
  <2>6. step' \in {"refused", "scan"} /\ (step' = "refused" <=> args[3].value > U32Max)
    BY <2>1
  <2>7. args[3].value > U32Max => ~Documented
    BY <1>4, <1>8, ParsedIsHop, InputsAssumption DEF OutcomeInv
  <2>8. ~(args[3].value > U32Max) => Documented
    BY <1>4, <1>8, ParsedIsHop, InputsAssumption DEF OutcomeInv
  <2>9. ~Untransposable
    BY <1>6, <1>8
  <2> QED
    BY <1>2, <1>3, <2>5, <2>6, <2>7, <2>8, <2>9 DEF OutcomeInv
<1> QED
  BY <1>5, <1>7, <1>8

(* A plan is refused exactly when its spec is not valid.                   *)
LEMMA ExecuteRefuses ==
    ASSUME OutcomeInv, Execute
    PROVE  OutcomeInv'
<1>1. step = "execute" /\ UNCHANGED <<entry, spec, attached>>
  BY DEF Execute
<1>2. /\ Documented' = Documented /\ Sql' = Sql /\ LiteralInv'
      /\ (Transposed(View(graph)) # NoTranspose)' /\ UNCHANGED scan
      /\ Untransposable' = Untransposable
  BY <1>1, EntryStays DEF OutcomeInv
<1>3. Executable' = Executable
  BY <1>1, <1>2 DEF Executable
<1>4. Executable <=> scan.partition = 0 /\ ValidSpec
  BY DEF Executable, ValidSpec
<1>5. step' \in {"refused", "answered", "optimized", "plain"} /\ (step' = "refused" <=> ~Executable)
  BY <1>4 DEF Execute
<1> QED
  BY <1>1, <1>2, <1>3, <1>5 DEF OutcomeInv

(* The remaining steps change nothing that an outcome is judged by.        *)
LEMMA OutcomeStays ==
    ASSUME OutcomeInv, Scan \/ OptimizedStep \/ AnswerOptimized \/ AnswerPlain \/ UNCHANGED vars
    PROVE  OutcomeInv'
<1>1. UNCHANGED <<entry, spec, attached, resident, before>>
  BY DEF Scan, OptimizedStep, AnswerOptimized, AnswerPlain, Answer, vars, entry
<1>2. /\ Documented' = Documented /\ Sql' = Sql /\ LiteralInv'
      /\ (Transposed(View(graph)) # NoTranspose)' /\ UNCHANGED scan
      /\ Untransposable' = Untransposable
  BY <1>1, EntryStays DEF OutcomeInv
<1>3. Executable' = Executable
  BY <1>1, <1>2 DEF Executable
<1>4. \/ step' = step
      \/ step = "scan" /\ step' = "execute"
      \/ step \in {"optimized", "plain"} /\ step' = "answered"
  BY DEF Scan, OptimizedStep, AnswerOptimized, AnswerPlain, Answer, vars
<1> QED
  BY <1>1, <1>2, <1>3, <1>4 DEF OutcomeInv

(* Outcomes are as documented at every step.                               *)
LEMMA OutcomesHold == Spec => []OutcomeInv
<1>1. Init => OutcomeInv
  <2> SUFFICES ASSUME Init PROVE OutcomeInv
    OBVIOUS
  <2>1. PICK input \in Inputs :
            /\ graph = input.graph /\ dictionary = input.dictionary
            /\ args = input.args /\ scan = input.scan /\ before = resident
            /\ step = IF input.sql THEN "call" ELSE "execute"
    BY DEF Init
  <2>2. LiteralInv
    BY <2>1, InputsAssumption DEF LiteralInv
  <2>3. Transposed(View(graph)) # NoTranspose
    BY <2>1, InputsAssumption
  <2>4. /\ Sql => step = "call" /\ scan.partition = 0
        /\ ~Sql => step = "execute"
    BY <2>1, InputsAssumption DEF Sql
  <2> QED
    BY <2>1, <2>2, <2>3, <2>4 DEF OutcomeInv
<1>2. OutcomeInv /\ [Next]_vars => OutcomeInv'
  BY CallRefuses, ExecuteRefuses, OutcomeStays DEF Next
<1> QED
  BY <1>1, <1>2, PTL DEF Spec

(* A call is refused exactly when its arguments are none of the documented *)
(* ones, the transpose it needs does not fit in u32 or its plan cannot be  *)
(* executed; all others that end are answered (udtf.rs:14-25, 393-502).    *)
THEOREM AnsweredExactlyIfDocumented == Spec => []AnsweredIfDocumented
<1>1. OutcomeInv => AnsweredIfDocumented
  BY DEF OutcomeInv, AnsweredIfDocumented, Refused, Untransposable
<1> QED
  BY <1>1, OutcomesHold, PTL

-----------------------------------------------------------------------------
(***************************************************************************)
(* Answers.  The plan asks for what the arguments say, the search gets     *)
(* what the plan asks for, and the rows are what the search found.         *)
(***************************************************************************)
InputInv ==
    /\ dictionary # NoDictionary => IsInjective(dictionary)
    /\ scan.limit \in Nat \cup {NoCap}

\* What the plan asks for, compared with what the arguments ask for.
Asked ==
    /\ ToSet(spec.starts) = From
    /\ spec.depth = Depth
    /\ spec.cap = Cap /\ Cap \in Nat \cup {NoCap}
    /\ Incoming <=> Inward
    /\ attached # NoTranspose => attached = IF Inward THEN Edges ELSE before

PlanInv ==
    /\ InputInv
    /\ step = "call" => resident = before
    /\ Asked \/ (Sql /\ step \in {"call", "refused"})

(* The start node of a call that parses is the only node asked for.        *)
LEMMA StartIsAsked ==
    ASSUME LiteralInv, CallInv, InputInv, Parses, Sql
    PROVE  From = {StartNode}
<1>1. StartParses /\ Len(args) \in 3..5
  BY Zenon DEF Parses
<1>2. 2 \in 1..Len(args)
  <2>1. \A n \in 3..5 : 2 \in 1..n
    OBVIOUS
  <2> QED
    BY <1>1, <2>1
<1>3. args[2].type \in {"string", "int"}
  BY <1>2, NumbersParse DEF LiteralInv
<1>4. CASE args[2].type = "int"
  <2>1. From = {args[2].value}
    BY <1>4 DEF From
  <2>2. StartNode = args[2].value
    BY <1>4 DEF StartNode, IsString
  <2> QED
    BY <2>1, <2>2
<1>5. CASE args[2].type = "string"
  <2>1. IsString(2)
    BY <1>5 DEF IsString
  <2>2. ~ParsesU64(2)
    BY <1>5 DEF ParsesU64
  <2>3. dictionary # NoDictionary /\ args[2].value \in ToSet(dictionary)
    BY <1>1, <2>2 DEF StartParses
  <2>4. PICK i \in DOMAIN dictionary : dictionary[i] = args[2].value
    BY <2>3 DEF ToSet
  <2>5. \A j \in DOMAIN dictionary : dictionary[j] = args[2].value => j = i
    BY <2>3, <2>4 DEF InputInv, IsInjective
  <2>6. (CHOOSE j \in DOMAIN dictionary : dictionary[j] = args[2].value) = i
    BY <2>4, <2>5
  <2>7. StartNode = i - 1
    BY <2>1, <2>6 DEF StartNode
  <2>8. {j \in DOMAIN dictionary : dictionary[j] = args[2].value} = {i}
    BY <2>4, <2>5
  <2>9. From = {j - 1 : j \in {i}}
    BY <1>5, <2>8 DEF From
  <2> QED
    BY <2>7, <2>9
<1> QED
  BY <1>3, <1>4, <1>5

(* What is asked for does not change with the call.                        *)
LEMMA QuestionStays ==
    ASSUME UNCHANGED entry, Sql \/ UNCHANGED spec
    PROVE  /\ Sql' = Sql /\ From' = From /\ Depth' = Depth /\ Cap' = Cap
           /\ Inward' = Inward /\ Edges' = Edges /\ Known' = Known
           /\ InputInv' = InputInv
<1>1. UNCHANGED <<graph, dictionary, args, scan, before>>
  BY DEF entry
<1>2. Sql' = Sql /\ Options' = Options
  BY <1>1 DEF Sql, Options
<1>3. Inward' = Inward
  BY <1>1, <1>2 DEF Inward
<1>4. Depth' = Depth
  BY <1>1, <1>2 DEF Depth
<1>5. From' = From
  BY <1>1, <1>2 DEF From
<1>6. Cap' = Cap
  BY <1>1, <1>2 DEF Cap
<1>7. Edges' = Edges
  BY <1>1, <1>3 DEF Edges
<1>8. Known' = Known
  BY <1>1, <1>3, <1>7 DEF Known
<1>9. InputInv' = InputInv
  BY <1>1 DEF InputInv
<1> QED
  BY <1>2, <1>3, <1>4, <1>5, <1>6, <1>7, <1>8, <1>9

(* A call makes a plan that asks for what its arguments say.               *)
LEMMA CallAsks ==
    ASSUME PlanInv, CallInv, OutcomeInv, Call
    PROVE  PlanInv'
<1>1. step = "call" /\ UNCHANGED entry
  BY DEF Call
<1>2. Sql /\ LiteralInv /\ InputInv /\ resident = before
  BY <1>1 DEF OutcomeInv, PlanInv
<1>3. /\ Sql' = Sql /\ From' = From /\ Depth' = Depth /\ Cap' = Cap
      /\ Inward' = Inward /\ Edges' = Edges /\ InputInv'
  BY <1>1, <1>2, QuestionStays
<1>4. CASE ~(Parses /\ Registered /\ ~TransposeFails)
  <2>1. step' = "refused"
    BY <1>4 DEF Call
  <2> QED
    BY <1>2, <1>3, <2>1 DEF PlanInv
<1>5. CASE Parses /\ Registered /\ ~TransposeFails
  <2>1. /\ resident' = (IF Direction = "incoming" THEN Memoized ELSE resident)
        /\ attached' = resident'
        /\ spec' = TraversalSpec(<<StartNode>>, args[3].value, MaxNodes, "bfs", Direction)
        /\ step' # "call"
    BY <1>5 DEF Call
  <2>2. /\ spec'.starts = <<StartNode>> /\ spec'.depth = args[3].value
        /\ spec'.cap = MaxNodes /\ spec'.direction = Direction
    BY <2>1 DEF TraversalSpec
  <2>3. ToSet(spec'.starts) = From
    <3>1. From = {StartNode}
      BY <1>2, <1>5, StartIsAsked
    <3>2. \A x : ToSet(<<x>>) = {x}
      BY DEF ToSet
    <3> QED
      BY <2>2, <3>1, <3>2, Zenon
  <2>4. MaxNodes = Cap /\ Cap \in Nat \cup {NoCap} /\ (Direction = "incoming" <=> Inward)
    BY <1>2, <1>5, OptionsAreAsked
  <2>5. Depth = args[3].value
    BY <1>2 DEF Depth
  <2>6. Incoming' <=> Inward
    BY <2>2, <2>4 DEF Incoming
  <2>7. attached' = IF Inward THEN Edges ELSE before
    BY <1>2, <2>1, <2>4 DEF Memoized, Edges
  <2>8. Asked'
    <3>1. ToSet(spec.starts)' = From'
      BY <1>3, <2>3
    <3>2. (spec.depth = Depth /\ spec.cap = Cap /\ Cap \in Nat \cup {NoCap})'
      BY <1>3, <2>2, <2>4, <2>5
    <3>3. (Incoming <=> Inward)'
      BY <1>3, <2>6
    <3>4. (attached # NoTranspose => attached = IF Inward THEN Edges ELSE before)'
      BY <1>1, <1>3, <2>7 DEF entry
    <3> QED
      BY <3>1, <3>2, <3>3, <3>4 DEF Asked
  <2> QED
    BY <1>3, <2>1, <2>8 DEF PlanInv
<1> QED
  BY <1>4, <1>5

(* The other steps change neither the question nor the plan.               *)
LEMMA PlanStays ==
    ASSUME PlanInv, UNCHANGED <<entry, spec, attached, resident>>,
           step' = step \/ (step \notin {"call", "refused"} /\ step' # "call")
    PROVE  PlanInv'
<1>1. /\ Sql' = Sql /\ From' = From /\ Depth' = Depth /\ Cap' = Cap
      /\ Inward' = Inward /\ Edges' = Edges /\ InputInv' = InputInv
  BY QuestionStays
<1>2. UNCHANGED before
  BY DEF entry
<1>3. Incoming' = Incoming
  BY DEF Incoming
<1>4. Asked' = Asked
  BY <1>1, <1>2, <1>3 DEF Asked
<1> QED
  BY <1>1, <1>2, <1>4 DEF PlanInv

(***************************************************************************)
(* The search gets what the plan asks for.                                 *)
(***************************************************************************)
KernelAsked ==
    /\ step \notin {"optimized", "answered"} => at = "idle"
    /\ step = "optimized" =>
        /\ ValidSpec /\ Optimizes
        /\ forward = Searched.base /\ forwardDelta = HasDelta(Searched)
        /\ reverse = Opposite.base /\ reverseDelta = HasDelta(Opposite)
        /\ start = spec.starts[1] /\ maxDepth = spec.depth
        /\ at \in {"level", "expand", "done", "empty"} =>
              SameShape(forward, reverse) /\ ~forwardDelta /\ ~reverseDelta
        /\ at \in {"level", "expand", "done"} => start < NodeCount(forward)
        /\ at = "empty" => levels = <<>> /\ start >= NodeCount(forward)
    /\ step = "plain" => ValidSpec

(* A plan that is executed hands its graphs to one of the searches.        *)
LEMMA ExecuteAsks ==
    ASSUME KernelAsked, Execute
    PROVE  KernelAsked'
<1>1. step = "execute" /\ at = "idle" /\ UNCHANGED <<entry, spec, attached>>
  BY DEF Execute, KernelAsked
<1>2. /\ ValidSpec' = ValidSpec /\ Optimizes' = Optimizes
      /\ Searched' = Searched /\ Opposite' = Opposite
  BY <1>1 DEF ValidSpec, Optimizes, Searched, Opposite, Incoming, Transpose, entry
<1>3. CASE step' = "refused" \/ step' = "answered"
  <2>1. UNCHANGED kernelVars
    BY <1>3 DEF Execute
  <2> QED
    BY <1>1, <1>3, <2>1 DEF KernelAsked, kernelVars
<1>4. CASE ~(step' = "refused" \/ step' = "answered")
  <2>1. /\ ValidSpec
        /\ step' = IF Optimizes THEN "optimized" ELSE "plain"
        /\ IF Optimizes
           THEN Begin(Searched.base, HasDelta(Searched), Opposite.base,
                      HasDelta(Opposite), spec.starts[1], spec.depth)
           ELSE UNCHANGED kernelVars
    BY <1>4 DEF Execute
  <2>2. CASE Optimizes
    <3>1. /\ step' = "optimized" /\ at' = "check"
          /\ forward' = Searched.base /\ forwardDelta' = HasDelta(Searched)
          /\ reverse' = Opposite.base /\ reverseDelta' = HasDelta(Opposite)
          /\ start' = spec.starts[1] /\ maxDepth' = spec.depth
      BY <2>1, <2>2 DEF Begin
    <3>2. HasDelta(Searched)' = HasDelta(Searched) /\ HasDelta(Opposite)' = HasDelta(Opposite)
      BY <1>2 DEF HasDelta
    <3> QED
      BY <1>1, <1>2, <2>1, <2>2, <3>1, <3>2 DEF KernelAsked
  <2>3. CASE ~Optimizes
    BY <1>1, <1>2, <2>1, <2>3 DEF KernelAsked, kernelVars
  <2> QED
    BY <2>2, <2>3
<1> QED
  BY <1>3, <1>4

(* The search checks the graphs first and keeps its arguments.             *)
LEMMA KernelKeepsAsked ==
    ASSUME KernelAsked, KernelType, OptimizedStep
    PROVE  KernelAsked'
<1>1. step = "optimized" /\ KernelStep /\ UNCHANGED <<entry, step, spec, attached>>
  BY DEF OptimizedStep
<1>2. UNCHANGED arguments
  BY <1>1 DEF KernelStep, Check, RecordLevel, ExpandBottomUp, ExpandTopDown, Advance
<1>3. /\ ValidSpec' = ValidSpec /\ Optimizes' = Optimizes
      /\ Searched' = Searched /\ Opposite' = Opposite
  BY <1>1 DEF ValidSpec, Optimizes, Searched, Opposite, Incoming, Transpose, entry
<1>4. HasDelta(Searched)' = HasDelta(Searched) /\ HasDelta(Opposite)' = HasDelta(Opposite)
  BY <1>3 DEF HasDelta
<1>5. UNCHANGED <<forward, reverse, forwardDelta, reverseDelta, start, maxDepth>>
  BY <1>2 DEF arguments
<1>6. SameShape(forward, reverse)' = SameShape(forward, reverse) /\ NodeCount(forward)' = NodeCount(forward)
  BY <1>5 DEF SameShape, NodeCount
<1> DEFINE Passed ==
        /\ at \in {"level", "expand", "done", "empty"} =>
              SameShape(forward, reverse) /\ ~forwardDelta /\ ~reverseDelta
        /\ at \in {"level", "expand", "done"} => start < NodeCount(forward)
        /\ at = "empty" => levels = <<>> /\ start >= NodeCount(forward)
<1>7. Passed'
  <2>0. Passed
    BY <1>1 DEF KernelAsked
  <2>1. CASE Check
    <3>1. at = "check" /\ levels' = levels /\ levels = <<>>
      BY <2>1 DEF Check, KernelType
    <3>2. at' = IF ~SameShape(forward, reverse) \/ reverseDelta THEN "refused"
                ELSE IF forwardDelta THEN "delegated"
                ELSE IF start >= NodeCount(forward) THEN "empty"
                ELSE "level"
      BY <2>1 DEF Check
    <3>3. start \in Nat /\ NodeCount(forward) \in Nat
      BY NodesAreCounted DEF KernelType
    <3>4. /\ at' \in {"refused", "delegated", "empty", "level"}
          /\ at' \in {"empty", "level"} => SameShape(forward, reverse) /\ ~forwardDelta /\ ~reverseDelta
          /\ at' = "empty" <=> at' \in {"empty", "level"} /\ start >= NodeCount(forward)
      BY <3>2
    <3> QED
      BY <1>5, <1>6, <3>1, <3>3, <3>4
  <2>2. CASE RecordLevel \/ ExpandBottomUp \/ ExpandTopDown
    <3>1. at \in {"level", "expand"} /\ at' \in {"level", "expand", "done"}
      BY <2>2 DEF RecordLevel, ExpandBottomUp, ExpandTopDown, Advance
    <3> QED
      BY <1>5, <1>6, <2>0, <3>1
  <2> QED
    BY <1>1, <2>1, <2>2 DEF KernelStep
<1> QED
  BY <1>1, <1>3, <1>4, <1>5, <1>7 DEF KernelAsked

(* Every step of a call keeps to what is asked.                            *)
LEMMA AskedInductive ==
    ASSUME Inv, OutcomeInv, PlanInv, KernelAsked, [Next]_vars
    PROVE  PlanInv' /\ KernelAsked'
<1>1. CASE Call
  <2>1. PlanInv'
    BY <1>1, CallAsks DEF Inv
  <2>2. step = "call" /\ step' \in {"refused", "scan"} /\ UNCHANGED kernelVars
    BY <1>1 DEF Call
  <2> QED
    BY <2>1, <2>2 DEF KernelAsked, kernelVars
<1>2. CASE Scan
  <2>1. PlanInv'
    BY <1>2, PlanStays DEF Scan
  <2> QED
    BY <1>2, <2>1 DEF Scan, KernelAsked, kernelVars
<1>3. CASE Execute
  <2>1. /\ UNCHANGED <<entry, spec, attached, resident>>
        /\ step = "execute" /\ step' \in {"refused", "answered", "optimized", "plain"}
    BY <1>3 DEF Execute
  <2>2. PlanInv'
    BY <2>1, PlanStays
  <2> QED
    BY <1>3, <2>2, ExecuteAsks
<1>4. CASE OptimizedStep
  <2>1. PlanInv'
    BY <1>4, PlanStays DEF OptimizedStep
  <2> QED
    BY <1>4, <2>1, KernelKeepsAsked DEF Inv, KernelInv
<1>5. CASE AnswerOptimized \/ AnswerPlain
  <2>1. /\ UNCHANGED <<kernelVars, entry, spec, attached, resident>>
        /\ step \in {"optimized", "plain"} /\ step' = "answered"
    BY <1>5 DEF AnswerOptimized, AnswerPlain, Answer
  <2>2. PlanInv'
    BY <2>1, PlanStays
  <2> QED
    BY <2>1, <2>2 DEF KernelAsked, kernelVars
<1>6. CASE UNCHANGED vars
  <2>1. UNCHANGED <<kernelVars, entry, resident, step, spec, attached>>
    BY <1>6 DEF vars
  <2>2. PlanInv'
    BY <2>1, PlanStays
  <2>3. UNCHANGED <<graph, forward, reverse, forwardDelta, reverseDelta, start, maxDepth, at, levels>>
    BY <2>1 DEF kernelVars, arguments, entry
  <2>4. /\ ValidSpec' = ValidSpec /\ Optimizes' = Optimizes
        /\ Searched' = Searched /\ Opposite' = Opposite
    BY <2>1, <2>3 DEF ValidSpec, Optimizes, Searched, Opposite, Incoming, Transpose
  <2>5. HasDelta(Searched)' = HasDelta(Searched) /\ HasDelta(Opposite)' = HasDelta(Opposite)
    BY <2>4 DEF HasDelta
  <2>6. SameShape(forward, reverse)' = SameShape(forward, reverse) /\ NodeCount(forward)' = NodeCount(forward)
    BY <2>3 DEF SameShape, NodeCount
  <2>7. KernelAsked'
    BY <2>1, <2>3, <2>4, <2>5, <2>6 DEF KernelAsked
  <2> QED
    BY <2>2, <2>7
<1> QED
  BY <1>1, <1>2, <1>3, <1>4, <1>5, <1>6 DEF Next

(* A call begins with its question, a plan with the graphs it was given.   *)
LEMMA AskedInit == Init => PlanInv /\ KernelAsked
<1> SUFFICES ASSUME Init PROVE PlanInv /\ KernelAsked
  OBVIOUS
<1>1. PICK input \in Inputs :
          /\ graph = input.graph /\ dictionary = input.dictionary
          /\ resident = input.resident /\ before = resident
          /\ args = input.args /\ scan = input.scan /\ spec = input.spec
          /\ attached \in {NoTranspose} \cup IF input.sql THEN {} ELSE {resident}
          /\ step = IF input.sql THEN "call" ELSE "execute"
          /\ KernelInit
  BY DEF Init
<1>2. InputInv
  BY <1>1, InputsAssumption DEF InputInv
<1>3. KernelAsked
  BY <1>1 DEF KernelAsked, KernelInit
<1>4. CASE Sql
  <2>1. step = "call"
    BY <1>1, <1>4, InputsAssumption DEF Sql
  <2> QED
    BY <1>1, <1>2, <1>3, <1>4, <2>1 DEF PlanInv
<1>5. CASE ~Sql
  <2>1. step = "execute"
    BY <1>1, <1>5, InputsAssumption DEF Sql
  <2>2. From = ToSet(spec.starts) /\ Depth = spec.depth /\ Cap = spec.cap /\ (Inward <=> Incoming)
    BY <1>5 DEF From, Depth, Cap, Inward, Incoming
  <2>3. Cap \in Nat \cup {NoCap}
    BY <1>1, <2>2, InputsAssumption
  <2>4. attached # NoTranspose => attached = before /\ before # NoTranspose
    BY <1>1
  <2>5. Asked
    BY <2>2, <2>3, <2>4 DEF Asked, Edges
  <2> QED
    BY <1>1, <1>2, <1>3, <2>1, <2>5 DEF PlanInv
<1> QED
  BY <1>4, <1>5

(* The graph that is searched is the one that is asked for.                *)
LEMMA SearchedIsAsked ==
    ASSUME CallInv, PlanInv, step \in {"execute", "optimized", "plain"}, ValidSpec
    PROVE  /\ View(Searched) = Edges /\ NodeCount(Searched.base) = Known
           /\ IsEdgeSet(Edges) /\ Asked
<1>1. Asked
  BY DEF PlanInv
<1>2. CASE Incoming
  <2>1. attached # NoTranspose
    BY <1>2 DEF ValidSpec, Incoming
  <2>2. Inward /\ attached = Edges
    BY <1>1, <1>2, <2>1 DEF Asked
  <2>3. Searched = [base |-> attached, ins |-> {}, dels |-> {}]
    BY <1>2 DEF Searched, Transpose, Graph
  <2>4. Searched.base = attached /\ View(Searched) = attached
    BY <2>3 DEF View
  <2>5. IsEdgeSet(attached)
    BY <2>1 DEF CallInv
  <2> QED
    BY <1>1, <2>2, <2>4, <2>5 DEF Known
<1>3. CASE ~Incoming
  <2>1. ~Inward
    BY <1>1, <1>3 DEF Asked
  <2>2. Searched = graph /\ Edges = View(graph) /\ Known = NodeCount(graph.base)
    BY <1>3, <2>1 DEF Searched, Edges, Known
  <2>3. IsEdgeSet(View(graph))
    BY ViewIsEdgeSet DEF CallInv
  <2> QED
    BY <1>1, <2>2, <2>3
<1> QED
  BY <1>2, <1>3

(* Transposing twice changes nothing.                                      *)
LEMMA TransposedTwice ==
    ASSUME NEW edges, IsEdgeSet(edges)
    PROVE  Transposed(Transposed(edges)) = edges
<1>1. \A p \in edges : p = <<p[1], p[2]>>
  BY DEF IsEdgeSet
<1>2. \A e \in edges : e \in Transposed(Transposed(edges))
  <2> SUFFICES ASSUME NEW e \in edges PROVE e \in Transposed(Transposed(edges))
    OBVIOUS
  <2> DEFINE q == <<e[2], e[1]>>
  <2>1. q \in Transposed(edges)
    BY DEF Transposed
  <2>2. <<q[2], q[1]>> \in Transposed(Transposed(edges))
    BY <2>1 DEF Transposed
  <2> QED
    BY <1>1, <2>2
<1>3. \A e \in Transposed(Transposed(edges)) : e \in edges
  <2> SUFFICES ASSUME NEW e \in Transposed(Transposed(edges)) PROVE e \in edges
    OBVIOUS
  <2>1. PICK q \in Transposed(edges) : e = <<q[2], q[1]>>
    BY DEF Transposed
  <2>2. PICK p \in edges : q = <<p[2], p[1]>>
    BY DEF Transposed
  <2>3. e = <<p[1], p[2]>>
    BY <2>1, <2>2
  <2> QED
    BY <1>1, <2>3
<1> QED
  BY <1>2, <1>3

(* A transpose that passed the check of the search is the transpose of the *)
(* graph that is searched, unless only the counts agree (dobfs.rs:62-91).  *)
LEMMA CheckedIsTranspose ==
    ASSUME CallInv, PlanInv, KernelAsked, ~Misled, step = "optimized",
           at \in {"level", "expand", "done", "empty"}
    PROVE  reverse = Transposed(forward) /\ forward = Edges /\ NodeCount(forward) = Known
<1>1. /\ ValidSpec /\ attached # NoTranspose /\ spec.cap = NoCap /\ Len(spec.starts) = 1
      /\ forward = Searched.base /\ ~HasDelta(Searched)
      /\ reverse = Opposite.base /\ ~HasDelta(Opposite)
      /\ SameShape(forward, reverse)
  BY DEF KernelAsked, Optimizes
<1>2. View(Searched) = Edges /\ NodeCount(Searched.base) = Known /\ Asked
  BY <1>1, SearchedIsAsked
<1>3. View(Searched) = Searched.base
  BY <1>1 DEF View, HasDelta
<1>4. IsEdgeSet(graph.base) /\ Cap = NoCap
  BY <1>1, <1>2 DEF CallInv, Asked
<1>5. ASSUME ~HasDelta(graph), SameShape(attached, graph.base)
      PROVE  attached = Transposed(graph.base)
  BY <1>1, <1>4, <1>5 DEF Misled
<1>6. CASE Incoming
  <2>1. reverse = graph.base /\ forward = attached /\ ~HasDelta(graph)
    BY <1>1, <1>6 DEF Searched, Opposite, Transpose, Graph
  <2>2. attached = Transposed(graph.base)
    BY <1>1, <1>5, <2>1
  <2> QED
    BY <1>1, <1>2, <1>3, <1>4, <2>1, <2>2, TransposedTwice
<1>7. CASE ~Incoming
  <2>1. reverse = attached /\ forward = graph.base /\ ~HasDelta(graph)
    BY <1>1, <1>7 DEF Searched, Opposite, Transpose, Graph
  <2>2. SameShape(attached, graph.base)
    BY <1>1, <2>1 DEF SameShape
  <2> QED
    BY <1>1, <1>2, <1>3, <1>5, <2>1, <2>2
<1> QED
  BY <1>6, <1>7

(***************************************************************************)
(* The nodes near the start.  Class(d) are those at distance d.            *)
(***************************************************************************)
Origins == {n \in From : n < Known}
Class(d) == Near(d) \ IF d = 0 THEN {} ELSE Near(d - 1)

Answerable ==
    /\ IsEdgeSet(Edges)
    /\ Origins \in SUBSET Nat /\ IsFiniteSet(Origins)
    /\ Depth \in Nat

(* A plan that is executed asks for finitely many nodes.                   *)
LEMMA PlanIsAnswerable ==
    ASSUME CallInv, PlanInv, step \in {"execute", "optimized", "plain"}, ValidSpec
    PROVE  Answerable
<1>1. IsEdgeSet(Edges) /\ Asked /\ NodeCount(Searched.base) = Known
  BY SearchedIsAsked
<1>2. ToSet(spec.starts) \in SUBSET Nat
  BY DEF ToSet, CallInv
<1>3. Known \in Nat
  <2>1. IsEdgeSet(Searched.base)
    <3>1. Incoming => IsEdgeSet(attached)
      BY DEF CallInv, ValidSpec, Incoming
    <3> QED
      BY <3>1 DEF CallInv, Searched, Transpose, Graph
  <2> QED
    BY <1>1, <2>1, NodesAreCounted
<1>4. Origins \in SUBSET (0..Known) /\ Origins \in SUBSET Nat
  BY <1>1, <1>2, <1>3 DEF Origins, Asked
<1>5. IsFiniteSet(Origins)
  <2>1. IsFiniteSet(0..Known)
    BY <1>3, FS_Interval
  <2> QED
    BY <1>4, <2>1, FS_Subset
<1>6. Depth \in Nat
  BY <1>1 DEF Asked, CallInv
<1> QED
  BY <1>1, <1>4, <1>5, <1>6 DEF Answerable

(* Finitely many nodes have finitely many successors.                      *)
LEMMA SuccessorsAreFinite ==
    ASSUME NEW edges, IsEdgeSet(edges), NEW nodes
    PROVE  Successors(edges, nodes) \in SUBSET Nat /\ IsFiniteSet(Successors(edges, nodes))
<1> DEFINE out == {q \in edges : q[1] \in nodes}
           f == [q \in out |-> q[2]]
<1>1. IsFiniteSet(out)
  BY FS_Subset DEF IsEdgeSet
<1>2. {f[q] : q \in out} = Successors(edges, nodes)
  BY DEF Successors
<1>3. IsFiniteSet({f[q] : q \in out})
  <2>1. DOMAIN f = out /\ f = [q \in out |-> f[q]]
    OBVIOUS
  <2> HIDE DEF f, out
  <2> QED
    BY <1>1, <2>1, ImageIsFinite
<1>4. Successors(edges, nodes) \in SUBSET Nat
  BY DEF Successors, IsEdgeSet
<1> QED
  BY <1>2, <1>3, <1>4

(* What is near at d is near further on, and finite.                       *)
LEMMA NearGrows ==
    ASSUME Answerable
    PROVE  /\ Near(0) = Origins
           /\ \A d \in Nat : /\ Near(d) \in SUBSET Nat /\ IsFiniteSet(Near(d))
                             /\ Near(d + 1) = Near(d) \cup Successors(Edges, Near(d))
           /\ \A c, d \in Nat : c <= d => Near(c) \subseteq Near(d)
<1>1. Near(0) = Origins
  <2>1. Reach(Edges, Origins, 0) = Origins
    <3>1. 0 \in Nat
      OBVIOUS
    <3> QED
      BY <3>1, ReachUnfolds
  <2> QED
    BY <2>1 DEF Near, Origins
<1>2. \A d \in Nat : Near(d + 1) = Near(d) \cup Successors(Edges, Near(d))
  BY ReachUnfolds DEF Near
<1>3. \A d \in Nat : Near(d) \in SUBSET Nat /\ IsFiniteSet(Near(d))
  <2> DEFINE T == {d \in Nat : Near(d) \in SUBSET Nat /\ IsFiniteSet(Near(d))}
  <2>1. 0 \in T
    BY <1>1 DEF Answerable
  <2>2. ASSUME NEW d \in T PROVE d + 1 \in T
    <3>1. Near(d) \in SUBSET Nat /\ IsFiniteSet(Near(d)) /\ d \in Nat
      OBVIOUS
    <3>2. /\ Successors(Edges, Near(d)) \in SUBSET Nat
          /\ IsFiniteSet(Successors(Edges, Near(d)))
      BY SuccessorsAreFinite DEF Answerable
    <3>3. Near(d + 1) = Near(d) \cup Successors(Edges, Near(d))
      BY <1>2, <3>1
    <3> HIDE DEF T
    <3>4. IsFiniteSet(Near(d) \cup Successors(Edges, Near(d)))
      BY <3>1, <3>2, FS_Union
    <3>5. Near(d + 1) \in SUBSET Nat /\ IsFiniteSet(Near(d + 1))
      BY <3>1, <3>2, <3>3, <3>4
    <3> QED
      BY <3>1, <3>5 DEF T
  <2>3. T = Nat
    <3>1. T \in SUBSET Nat
      OBVIOUS
    <3> HIDE DEF T
    <3> QED
      BY <2>1, <2>2, <3>1, SetInduction
  <2> QED
    BY <2>3
<1>4. \A c, d \in Nat : c <= d => Near(c) \subseteq Near(d)
  <2> SUFFICES ASSUME NEW c \in Nat
               PROVE  \A d \in Nat : c <= d => Near(c) \subseteq Near(d)
    OBVIOUS
  <2> DEFINE T == {d \in Nat : c <= d => Near(c) \subseteq Near(d)}
  <2>1. 0 \in T
    OBVIOUS
  <2>2. ASSUME NEW d \in T PROVE d + 1 \in T
    <3>1. Near(d) \subseteq Near(d + 1)
      BY <1>2
    <3>2. c <= d + 1 => c <= d \/ c = d + 1
      OBVIOUS
    <3> QED
      BY <3>1, <3>2
  <2>3. T = Nat
    <3>1. T \in SUBSET Nat
      OBVIOUS
    <3> HIDE DEF T
    <3> QED
      BY <2>1, <2>2, <3>1, SetInduction
  <2> QED
    BY <2>3
<1> QED
  BY <1>1, <1>2, <1>3, <1>4

(* Whatever is near has a distance.                                        *)
LEMMA NearHasDistance ==
    ASSUME Answerable, NEW d \in Nat, NEW n \in Near(d)
    PROVE  \E c \in 0..d : n \in Class(c)
<1> DEFINE T == {c \in Nat : n \in Near(c)}
<1>1. T \in SUBSET Nat /\ d \in T
  OBVIOUS
<1>2. PICK c \in T : \A b \in T : c <= b
  <2> HIDE DEF T
  <2> QED
    BY <1>1, LeastNat
<1>3. c \in 0..d
  BY <1>1, <1>2
<1>4. c # 0 => n \notin Near(c - 1)
  BY <1>2
<1> QED
  BY <1>2, <1>3, <1>4 DEF Class

(* Distances are unique.                                                   *)
LEMMA DistanceIsUnique ==
    ASSUME Answerable, NEW c \in Nat, NEW d \in Nat, NEW n \in Class(c), n \in Class(d)
    PROVE  c = d
<1>1. ASSUME NEW a \in Nat, NEW b \in Nat, n \in Class(a), n \in Class(b), a < b PROVE FALSE
  <2>1. b # 0 /\ b - 1 \in Nat /\ a <= b - 1
    BY <1>1
  <2>2. n \in Near(a) /\ n \notin Near(b - 1)
    BY <1>1, <2>1 DEF Class
  <2> QED
    BY <2>1, <2>2, NearGrows
<1> QED
  BY <1>1

(* A distance that no node has ends the search.                            *)
LEMMA NearStops ==
    ASSUME Answerable, NEW c \in Nat, NEW d \in Nat, c <= d, Class(c + 1) = {}
    PROVE  Near(d) = Near(c)
<1>1. Near(c + 1) = Near(c)
  <2>1. (c + 1) # 0 /\ (c + 1) - 1 = c
    OBVIOUS
  <2>2. Near(c + 1) \subseteq Near(c)
    BY <2>1 DEF Class
  <2> QED
    BY <2>2, NearGrows
<1> DEFINE T == {e \in Nat : c <= e => Near(e) = Near(c)}
<1>2. 0 \in T
  OBVIOUS
<1>3. ASSUME NEW e \in T PROVE e + 1 \in T
  <2>1. CASE c <= e
    <3>1. Near(e) = Near(c) /\ e \in Nat
      BY <2>1
    <3>2. /\ Near(e + 1) = Near(e) \cup Successors(Edges, Near(e))
          /\ Near(c + 1) = Near(c) \cup Successors(Edges, Near(c))
      BY <3>1, NearGrows
    <3>3. Near(e + 1) = Near(c)
      BY <1>1, <3>1, <3>2, Zenon
    <3> QED
      BY <3>1, <3>3
  <2>2. CASE ~(c <= e)
    BY <2>2
  <2> QED
    BY <2>1, <2>2
<1>4. T = Nat
  <2>1. T \in SUBSET Nat
    OBVIOUS
  <2> HIDE DEF T
  <2> QED
    BY <1>2, <1>3, <2>1, SetInduction
<1> QED
  BY <1>4

(***************************************************************************)
(* Levels.  Both searches find the distance classes, up to max_hops.       *)
(***************************************************************************)
AreLevels(found) ==
    /\ \E n \in Nat : DOMAIN found = 1..n /\ Len(found) = n
    /\ Len(found) <= Depth + 1
    /\ \A d \in DOMAIN found : found[d] = Class(d - 1)
    /\ Near(Depth) = IF Len(found) = 0 THEN {} ELSE Near(Len(found) - 1)

(* The length of a sequence is the end of its domain.                      *)
LEMMA LenIsDomain ==
    ASSUME NEW n \in Nat, NEW f, DOMAIN f = 1..n
    PROVE  Len(f) = n
OBVIOUS

(* The plain search finds the nodes level by level.                        *)
LEMMA PlainLevelsAreLevels ==
    ASSUME CallInv, PlanInv, step \in {"execute", "optimized", "plain"}, ValidSpec
    PROVE  AreLevels(PlainLevels)
<1>1. View(Searched) = Edges /\ NodeCount(Searched.base) = Known /\ Asked
  BY SearchedIsAsked
<1>2. Depth = spec.depth /\ Depth \in Nat /\ ToSet(spec.starts) = From
  BY <1>1, PlanIsAnswerable DEF Asked, Answerable
<1>3. {n \in ToSet(spec.starts) : n < NodeCount(Searched.base)} = Origins
  BY <1>1, <1>2 DEF Origins
<1>4. \A d : Reach(View(Searched), {n \in ToSet(spec.starts) : n < NodeCount(Searched.base)}, d) = Near(d)
  BY <1>1, <1>3 DEF Near, Origins
<1>5. PlainLevels = [d \in 1..(Depth + 1) |-> Near(d - 1) \ IF d = 1 THEN {} ELSE Near(d - 2)]
  BY <1>2, <1>4 DEF PlainLevels
<1>6. DOMAIN PlainLevels = 1..(Depth + 1) /\ Len(PlainLevels) = Depth + 1
  <2>1. DOMAIN PlainLevels = 1..(Depth + 1)
    BY <1>5
  <2>2. Depth + 1 \in Nat
    BY <1>2
  <2> QED
    BY <2>1, <2>2, LenIsDomain
<1>7. ASSUME NEW d \in DOMAIN PlainLevels PROVE PlainLevels[d] = Class(d - 1)
  <2>1. d \in 1..(Depth + 1)
    BY <1>6
  <2>2. PlainLevels[d] = Near(d - 1) \ IF d = 1 THEN {} ELSE Near(d - 2)
    BY <1>5, <2>1
  <2>3. (d - 1 = 0 <=> d = 1) /\ (d - 1) - 1 = d - 2
    BY <1>2, <2>1
  <2> QED
    BY <2>2, <2>3 DEF Class
<1>8. (Depth + 1) - 1 = Depth /\ Depth + 1 # 0 /\ Depth + 1 \in Nat
  BY <1>2
<1> QED
  BY <1>6, <1>7, <1>8 DEF AreLevels

(* The optimized search finds the same, and stops at the last one that has *)
(* a node.                                                                 *)
LEMMA OptimizedLevelsAreLevels ==
    ASSUME Inv, PlanInv, KernelAsked, ~Misled, step = "optimized", at \in {"done", "empty"}
    PROVE  AreLevels(levels)
<1>1. /\ ValidSpec /\ Len(spec.starts) = 1
      /\ start = spec.starts[1] /\ maxDepth = spec.depth
  BY DEF KernelAsked, Optimizes
<1>2. reverse = Transposed(forward) => LevelsAreDistances
  BY DEF Inv, KernelInv, DistanceInv
<1>3. reverse = Transposed(forward) /\ forward = Edges /\ NodeCount(forward) = Known
  BY CheckedIsTranspose DEF Inv
<1>4. Answerable /\ Asked
  BY <1>1, PlanIsAnswerable, SearchedIsAsked DEF Inv
<1>5. From = {start} /\ maxDepth = Depth /\ Depth \in Nat
  <2>1. spec.starts \in Seq(Nat)
    BY DEF Inv, CallInv
  <2>2. DOMAIN spec.starts = {1}
    BY <1>1, <2>1
  <2>3. ToSet(spec.starts) = {start}
    BY <1>1, <2>2 DEF ToSet
  <2> QED
    BY <1>1, <1>4, <2>3 DEF Asked, Answerable
<1>6. levels \in Seq(SUBSET Nat)
  BY DEF Inv, KernelInv, KernelType
<1>7. CASE at = "empty"
  <2>1. levels = <<>> /\ start >= NodeCount(forward)
    BY <1>7 DEF KernelAsked
  <2>2. Origins = {}
    <3>1. start \in Nat /\ Known \in Nat
      BY <1>3, NodesAreCounted DEF Inv, KernelInv, KernelType
    <3> QED
      BY <1>3, <1>5, <2>1, <3>1 DEF Origins
  <2>3. Near(0) = {} /\ Successors(Edges, {}) = {}
    BY <1>4, <2>2, NearGrows DEF Successors
  <2>4. Near(0 + 1) = Near(0) \cup Successors(Edges, Near(0))
    BY <1>4, NearGrows
  <2>5. Class(0 + 1) = {}
    BY <2>3, <2>4 DEF Class
  <2>6. Near(Depth) = Near(0)
    BY <1>4, <1>5, <2>5, NearStops
  <2>7. DOMAIN levels = 1..0 /\ Len(levels) = 0
    BY <2>1
  <2> QED
    BY <1>5, <2>3, <2>6, <2>7 DEF AreLevels
<1>8. CASE at = "done"
  <2>1. start < NodeCount(forward)
    BY <1>8 DEF KernelAsked
  <2>2. Origins = {start}
    BY <1>3, <1>5, <2>1 DEF Origins
  <2>3. \A d : Within(d) = Near(d) /\ AtDistance(d) = Class(d)
    BY <1>3, <2>2 DEF Within, AtDistance, Near, Class, Origins
  <2>4. /\ \A d \in DOMAIN levels : levels[d] = Class(d - 1) /\ levels[d] # {}
        /\ Len(levels) <= Depth => Class(Len(levels)) = {}
        /\ Len(levels) <= Depth + 1
    BY <1>2, <1>3, <1>5, <1>8, <2>3 DEF LevelsAreDistances
  <2>5. Len(levels) \in Nat /\ DOMAIN levels = 1..Len(levels)
    BY <1>6
  <2>6. Len(levels) # 0
    <3> SUFFICES ASSUME Len(levels) = 0 PROVE FALSE
      OBVIOUS
    <3>1. Class(0) = {}
      BY <1>5, <2>4
    <3>2. Class(0) = Near(0) /\ Near(0) = {start}
      BY <1>4, <2>2, NearGrows DEF Class
    <3> QED
      BY <3>1, <3>2
  <2>7. Near(Depth) = Near(Len(levels) - 1)
    <3>1. CASE Len(levels) <= Depth
      <4>1. Len(levels) - 1 \in Nat /\ (Len(levels) - 1) + 1 = Len(levels) /\ Len(levels) - 1 <= Depth
        BY <1>5, <2>5, <2>6, <3>1
      <4>2. Class((Len(levels) - 1) + 1) = {}
        BY <2>4, <3>1, <4>1
      <4> QED
        BY <1>4, <1>5, <4>1, <4>2, NearStops
    <3>2. CASE ~(Len(levels) <= Depth)
      <4>1. Len(levels) - 1 = Depth
        <5>1. \A n, d \in Nat : ~(n <= d) /\ n <= d + 1 => n - 1 = d
          OBVIOUS
        <5>2. Len(levels) \in Nat /\ Len(levels) <= Depth + 1
          BY <2>4, <2>5
        <5> QED
          BY <1>5, <3>2, <5>1, <5>2, Zenon
      <4> QED
        BY <4>1
    <3> QED
      BY <3>1, <3>2
  <2>8. \E n \in Nat : DOMAIN levels = 1..n /\ Len(levels) = n
    BY <2>5, Zenon
  <2>9. Near(Depth) = IF Len(levels) = 0 THEN {} ELSE Near(Len(levels) - 1)
    BY <2>6, <2>7
  <2> QED
    BY <2>4, <2>8, <2>9, Zenon DEF AreLevels
<1> QED
  BY <1>7, <1>8

(***************************************************************************)
(* Rows.  The order of an answer goes level by level, so the number of     *)
(* nodes that are near says where a level begins and ends.                 *)
(***************************************************************************)
(* A set of positions that has all earlier ones is an initial segment.     *)
LEMMA InitialSegment ==
    ASSUME NEW n \in Nat, NEW S \in SUBSET (1..n), \A i \in S : \A j \in 1..i : j \in S
    PROVE  Cardinality(S) \in Nat /\ S = 1..Cardinality(S)
<1>1. IsFiniteSet(S)
  <2>1. IsFiniteSet(1..n)
    BY FS_Interval
  <2> QED
    BY <2>1, FS_Subset
<1>2. CASE S = {}
  <2>1. Cardinality(S) = 0
    BY <1>2, FS_EmptySet
  <2> QED
    BY <1>2, <2>1
<1>3. CASE S # {}
  <2>1. S \in SUBSET Nat
    OBVIOUS
  <2>2. PICK m \in S : \A y \in S : m >= y
    BY <1>1, <1>3, <2>1, GreatestNat
  <2>3. S = 1..m
    <3>1. \A j \in 1..m : j \in S
      OBVIOUS
    <3>2. \A y \in S : y \in 1..m
      BY <2>2
    <3> QED
      BY <3>1, <3>2
  <2>4. Cardinality(1..m) = m
    <3>1. m \in Nat /\ m >= 1
      BY <2>2
    <3> QED
      BY <3>1, FS_Interval
  <2> QED
    BY <2>1, <2>2, <2>3, <2>4
<1> QED
  BY <1>2, <1>3

\* One entry for each node of each level.
EntriesOf(found) == UNION {[node_id : found[d], depth : {d - 1}] : d \in DOMAIN found}

(* There is one entry for each node that is near, with its distance.       *)
LEMMA EntriesAreNear ==
    ASSUME Answerable, NEW found, AreLevels(found)
    PROVE  /\ \A e \in EntriesOf(found) :
                 /\ e.depth \in 0..Depth
                 /\ e.node_id \in Class(e.depth) /\ e.node_id \in Near(Depth)
           /\ \A e, f \in EntriesOf(found) : e.node_id = f.node_id => e = f
           /\ \A n \in Near(Depth) : \E e \in EntriesOf(found) : e.node_id = n
<1>1. PICK len \in Nat : DOMAIN found = 1..len /\ Len(found) = len
  BY DEF AreLevels
<1>2. Depth \in Nat /\ len <= Depth + 1
  BY <1>1 DEF AreLevels, Answerable
<1>3. \A d \in 1..len : found[d] = Class(d - 1)
  BY <1>1 DEF AreLevels
<1>4. ASSUME NEW e \in EntriesOf(found)
      PROVE  /\ e = [node_id |-> e.node_id, depth |-> e.depth]
             /\ e.depth \in 0..Depth
             /\ e.node_id \in Class(e.depth) /\ e.node_id \in Near(Depth)
  <2>1. PICK d \in 1..len : e \in [node_id : found[d], depth : {d - 1}]
    BY <1>1 DEF EntriesOf
  <2>2. e = [node_id |-> e.node_id, depth |-> e.depth] /\ e.depth = d - 1 /\ e.node_id \in found[d]
    BY <2>1
  <2>3. e.depth \in 0..Depth
    BY <1>2, <2>2
  <2>4. e.node_id \in Class(e.depth)
    BY <1>3, <2>2
  <2>5. Near(e.depth) \subseteq Near(Depth)
    BY <1>2, <2>3, NearGrows
  <2> QED
    BY <2>2, <2>3, <2>4, <2>5 DEF Class
<1>5. ASSUME NEW e \in EntriesOf(found), NEW f \in EntriesOf(found), e.node_id = f.node_id
      PROVE  e = f
  <2>1. e.depth \in Nat /\ f.depth \in Nat /\ e.node_id \in Class(e.depth) /\ e.node_id \in Class(f.depth)
    BY <1>2, <1>4, <1>5
  <2>2. e.depth = f.depth
    BY <2>1, DistanceIsUnique
  <2>3. /\ e = [node_id |-> e.node_id, depth |-> e.depth]
        /\ f = [node_id |-> f.node_id, depth |-> f.depth]
    BY <1>4
  <2> QED
    BY <1>5, <2>2, <2>3, Zenon
<1>6. ASSUME NEW n \in Near(Depth) PROVE \E e \in EntriesOf(found) : e.node_id = n
  <2>1. len # 0 /\ n \in Near(len - 1)
    BY <1>1, <1>6 DEF AreLevels
  <2>2. PICK c \in 0..(len - 1) : n \in Class(c)
    BY <2>1, NearHasDistance
  <2>3. c + 1 \in 1..len /\ (c + 1) - 1 = c
    BY <2>2
  <2>4. n \in found[c + 1]
    BY <1>3, <2>2, <2>3
  <2> DEFINE e == [node_id |-> n, depth |-> c]
  <2>5. e \in [node_id : found[c + 1], depth : {(c + 1) - 1}]
    BY <2>3, <2>4
  <2>6. e \in EntriesOf(found)
    BY <1>1, <2>3, <2>5 DEF EntriesOf
  <2>7. e.node_id = n
    OBVIOUS
  <2> QED
    BY <2>6, <2>7
<1> QED
  BY <1>4, <1>5, <1>6

\* What the rows of an answer are before they are cut and projected.
RowOrder(order) ==
    /\ order \in Seq([node_id : Nat, depth : Nat])
    /\ Len(order) = Cardinality(Near(Depth))
    /\ \A i \in DOMAIN order :
          /\ order[i].depth \in 0..Depth
          /\ order[i].node_id \in Class(order[i].depth)
          /\ i <= Cardinality(Near(order[i].depth))
          /\ order[i].depth # 0 => i > Cardinality(Near(order[i].depth - 1))
    /\ \A i, j \in DOMAIN order : order[i].node_id = order[j].node_id => i = j

(* A set without repetitions has as many members as it has images.         *)
LEMMA SameNumber ==
    ASSUME NEW S, NEW T, IsFiniteSet(T), NEW f \in [S -> T],
           \A x, y \in S : f[x] = f[y] => x = y,
           \A t \in T : \E x \in S : f[x] = t
    PROVE  IsFiniteSet(S) /\ Cardinality(S) = Cardinality(T)
<1>1. f \in Injection(S, T) /\ f \in Surjection(S, T)
  BY DEF Injection, Surjection, IsInjective
<1> QED
  BY <1>1, FS_Injection

(* Every order that goes level by level is an order of the answer's rows.  *)
LEMMA OrdersAreRows ==
    ASSUME Answerable, NEW found, AreLevels(found), NEW order \in Orders(found)
    PROVE  RowOrder(order)
<1> DEFINE E == EntriesOf(found)
           N == Cardinality(E)
<1>1. /\ \A e \in E : /\ e.depth \in 0..Depth
                      /\ e.node_id \in Class(e.depth) /\ e.node_id \in Near(Depth)
      /\ \A e, f \in E : e.node_id = f.node_id => e = f
      /\ \A n \in Near(Depth) : \E e \in E : e.node_id = n
  BY EntriesAreNear
<1>2. /\ order \in SetToSeqs(E)
      /\ \A i, j \in DOMAIN order : i < j => order[i].depth <= order[j].depth
  BY DEF Orders, EntriesOf
<1>3. Depth \in Nat /\ Near(Depth) \in SUBSET Nat /\ IsFiniteSet(Near(Depth))
  BY NearGrows DEF Answerable
<1>4. IsFiniteSet(E) /\ N = Cardinality(Near(Depth)) /\ N \in Nat
  <2> DEFINE g == [e \in E |-> e.node_id]
  <2>1. g \in [E -> Near(Depth)]
    BY <1>1
  <2>2. /\ \A x, y \in E : g[x] = g[y] => x = y
        /\ \A t \in Near(Depth) : \E x \in E : g[x] = t
    BY <1>1
  <2> HIDE DEF g, E
  <2>3. IsFiniteSet(E) /\ Cardinality(E) = Cardinality(Near(Depth))
    BY <1>3, <2>1, <2>2, SameNumber
  <2> QED
    BY <2>3, FS_CardinalityType DEF N
<1> HIDE DEF E
<1>5. /\ order \in [1..N -> E]
      /\ \A i, j \in 1..N : order[i] = order[j] => i = j
  BY <1>2 DEF SetToSeqs
<1>6. DOMAIN order = 1..N /\ Len(order) = N
  BY <1>4, <1>5, LenIsDomain
<1>7. \A e \in E : \E i \in 1..N : order[i] = e
  <2>1. IsFiniteSet(1..N) /\ Cardinality(1..N) = N
    BY <1>4, FS_Interval
  <2>2. order \in Injection(1..N, E)
    BY <1>5 DEF Injection, IsInjective
  <2>3. order \in Surjection(1..N, E)
    BY <1>4, <2>1, <2>2, FS_Injection DEF N
  <2> QED
    BY <2>3 DEF Surjection
<1>8. \A i \in 1..N : /\ order[i] \in E /\ order[i].depth \in 0..Depth
                      /\ order[i].node_id \in Class(order[i].depth)
                      /\ order[i].node_id \in Near(Depth)
  BY <1>1, <1>5
<1>9. \A i, j \in 1..N : order[i].node_id = order[j].node_id => i = j
  BY <1>1, <1>5, <1>8
<1>10. ASSUME NEW k \in 0..Depth, NEW i \in 1..N
       PROVE  order[i].depth <= k <=> i <= Cardinality(Near(k))
  <2> DEFINE P == {j \in 1..N : order[j].depth <= k}
             h == [j \in P |-> order[j].node_id]
  <2>1. \A c \in 0..k : Near(c) \subseteq Near(k) /\ Near(k) \subseteq Near(Depth)
    BY <1>3, NearGrows
  <2>2. h \in [P -> Near(k)]
    <3> SUFFICES ASSUME NEW j \in P PROVE order[j].node_id \in Near(k)
      OBVIOUS
    <3>1. order[j].depth \in 0..k /\ order[j].node_id \in Class(order[j].depth)
      BY <1>8
    <3> QED
      BY <2>1, <3>1 DEF Class
  <2>3. \A x, y \in P : h[x] = h[y] => x = y
    BY <1>9
  <2>4. \A n \in Near(k) : \E x \in P : h[x] = n
    <3> SUFFICES ASSUME NEW n \in Near(k) PROVE \E x \in P : order[x].node_id = n
      OBVIOUS
    <3>1. PICK c \in 0..k : n \in Class(c)
      BY <1>3, NearHasDistance
    <3>2. n \in Near(Depth)
      <4>1. 0 \in 0..k
        OBVIOUS
      <4> QED
        BY <2>1, <4>1
    <3>3. PICK e \in E : e.node_id = n
      BY <1>1, <3>2
    <3>4. PICK x \in 1..N : order[x] = e
      BY <1>7, <3>3
    <3>5. order[x].depth \in Nat /\ c \in Nat /\ n \in Class(order[x].depth)
      BY <1>3, <1>8, <3>1, <3>3, <3>4
    <3>6. order[x].depth = c
      BY <3>1, <3>5, DistanceIsUnique
    <3> QED
      BY <3>1, <3>3, <3>4, <3>6
  <2>5. Cardinality(P) = Cardinality(Near(k))
    <3>1. IsFiniteSet(Near(k))
      BY <1>3, NearGrows
    <3> HIDE DEF P, h
    <3> QED
      BY <2>2, <2>3, <2>4, <3>1, SameNumber
  <2>6. \A x \in P : \A y \in 1..x : y \in P
    <3> SUFFICES ASSUME NEW x \in P, NEW y \in 1..x PROVE y \in P
      OBVIOUS
    <3>1. x \in 1..N /\ y \in 1..N /\ (y = x \/ y < x)
      BY <1>4
    <3>2. order[x].depth \in Nat /\ order[y].depth \in Nat /\ k \in Nat /\ order[x].depth <= k
      BY <1>3, <1>8, <3>1
    <3>3. y < x => order[y].depth <= order[x].depth
      BY <1>2, <1>6, <3>1
    <3> QED
      BY <3>1, <3>2, <3>3
  <2>7. P = 1..Cardinality(P) /\ Cardinality(P) \in Nat
    <3>1. P \in SUBSET (1..N)
      OBVIOUS
    <3> HIDE DEF P
    <3> QED
      BY <1>4, <2>6, <3>1, InitialSegment
  <2>8. order[i].depth <= k <=> i \in P
    OBVIOUS
  <2> HIDE DEF P
  <2> QED
    BY <2>5, <2>7, <2>8
<1>11. order \in Seq([node_id : Nat, depth : Nat])
  <2>1. ASSUME NEW e \in E PROVE e \in [node_id : Nat, depth : Nat]
    <3>1. PICK d \in DOMAIN found : e \in [node_id : found[d], depth : {d - 1}]
      BY DEF E, EntriesOf
    <3>2. e.node_id \in Nat /\ e.depth \in Nat
      BY <1>1, <1>3
    <3>3. e = [node_id |-> e.node_id, depth |-> e.depth]
      BY <3>1
    <3> QED
      BY <3>2, <3>3
  <2>2. order \in [1..N -> [node_id : Nat, depth : Nat]]
    BY <1>5, <2>1
  <2>3. \A V : \A n \in Nat : [1..n -> V] \subseteq Seq(V)
    OBVIOUS
  <2> HIDE DEF N
  <2> QED
    BY <1>4, <2>2, <2>3
<1>12. ASSUME NEW i \in 1..N
       PROVE  /\ i <= Cardinality(Near(order[i].depth))
              /\ order[i].depth # 0 => i > Cardinality(Near(order[i].depth - 1))
  <2> DEFINE k == order[i].depth
  <2>1. k \in 0..Depth
    BY <1>8
  <2>2. k <= k
    BY <1>3, <2>1
  <2>3. i <= Cardinality(Near(k))
    BY <1>10, <2>1, <2>2
  <2>4. ASSUME k # 0 PROVE i > Cardinality(Near(k - 1))
    <3>1. k - 1 \in 0..Depth /\ ~(k <= k - 1)
      BY <1>3, <2>1, <2>4
    <3>2. ~(i <= Cardinality(Near(k - 1)))
      BY <1>10, <3>1
    <3>3. Cardinality(Near(k - 1)) \in Nat
      <4>1. k - 1 \in Nat
        BY <3>1
      <4> QED
        BY <4>1, NearGrows, FS_CardinalityType
    <3> QED
      BY <3>2, <3>3
  <2> QED
    BY <2>3, <2>4
<1> QED
  BY <1>4, <1>6, <1>8, <1>9, <1>11, <1>12 DEF RowOrder

(***************************************************************************)
(* Cutting and projecting.                                                 *)
(***************************************************************************)
(* Min is a least member, if there is one.                                 *)
LEMMA MinIs ==
    ASSUME NEW S \in SUBSET Nat, NEW m \in S, \A y \in S : m <= y
    PROVE  Min(S) = m
<1>1. Min(S) \in S /\ \A y \in S : Min(S) <= y
  BY DEF Min
<1>2. Min(S) \in Nat /\ Min(S) <= m /\ m <= Min(S)
  BY <1>1
<1> HIDE DEF Min
<1> QED
  BY <1>2

\* c is the beginning of s that a cut at n leaves.
Begins(c, s, n, V) ==
    /\ c \in Seq(V)
    /\ Len(c) \in {n, Len(s)} \ {NoCap}
    /\ Len(c) <= Len(s) /\ (n # NoCap => Len(c) <= n)
    /\ \A i \in DOMAIN c : i \in DOMAIN s /\ c[i] = s[i]

(* Cutting keeps the beginning of a sequence.                              *)
LEMMA CutBegins ==
    ASSUME NEW V, NEW s \in Seq(V), NEW n \in Nat \cup {NoCap}
    PROVE  Begins(Cut(s, n), s, n, V)
<1>1. Len(s) \in Nat /\ NoCap \notin Nat
  BY InputsAssumption
<1>2. CASE n = NoCap
  BY <1>1, <1>2 DEF Cut, Begins
<1>3. CASE n # NoCap
  <2> DEFINE m == IF n <= Len(s) THEN n ELSE Len(s)
  <2>1. m \in {n, Len(s)} /\ m \in Nat /\ m <= n /\ m <= Len(s)
    BY <1>1, <1>3
  <2>2. Min({n, Len(s)}) = m
    <3>1. {n, Len(s)} \in SUBSET Nat
      BY <1>1, <1>3
    <3> HIDE DEF m
    <3> QED
      BY <2>1, <3>1, MinIs
  <2>3. Cut(s, n) = SubSeq(s, 1, m)
    BY <1>3, <2>2 DEF Cut
  <2> HIDE DEF m
  <2>4. /\ SubSeq(s, 1, m) \in Seq(V) /\ Len(SubSeq(s, 1, m)) = m
        /\ \A i \in 1..m : i \in DOMAIN s /\ SubSeq(s, 1, m)[i] = s[i]
        /\ DOMAIN SubSeq(s, 1, m) = 1..m
    BY <1>1, <2>1
  <2> QED
    BY <1>1, <1>3, <2>1, <2>3, <2>4 DEF Begins
<1> QED
  BY <1>2, <1>3

\* The depth at which the i-th nearest node is.
Nth(i) == Min({d \in 0..Depth : Cardinality(Near(d)) >= i})

\* The part of CallIsAnswered that says what the rows of an answer are.
NearRows(r) ==
    /\ Len(r) = Least({Cap, scan.limit, Cardinality(Near(Depth))})
    /\ \A i \in DOMAIN r :
          /\ DOMAIN r[i] = scan.projection
          /\ "depth" \in scan.projection => r[i].depth = Nth(i)
          /\ "node_id" \in scan.projection =>
                /\ r[i].node_id \in Near(Nth(i))
                /\ Nth(i) > 0 => r[i].node_id \notin Near(Nth(i) - 1)
                /\ \A j \in 1..(i - 1) : r[j].node_id # r[i].node_id

(* The depth of a row is where the number of near nodes reaches it.        *)
LEMMA DepthIsNth ==
    ASSUME Answerable, NEW order, RowOrder(order), NEW i \in DOMAIN order
    PROVE  order[i].depth = Nth(i)
<1> DEFINE k == order[i].depth
           S == {d \in 0..Depth : Cardinality(Near(d)) >= i}
<1>1. order \in Seq([node_id : Nat, depth : Nat])
  BY DEF RowOrder
<1>2. i \in Nat /\ Depth \in Nat
  BY <1>1 DEF Answerable
<1>3. \A d \in Nat : IsFiniteSet(Near(d)) /\ Cardinality(Near(d)) \in Nat
  BY NearGrows, FS_CardinalityType
<1>4. /\ k \in 0..Depth /\ i <= Cardinality(Near(k))
      /\ k # 0 => i > Cardinality(Near(k - 1))
  BY DEF RowOrder
<1> HIDE DEF k
<1>5. k \in S
  <2>1. Cardinality(Near(k)) \in Nat
    BY <1>2, <1>3, <1>4
  <2> QED
    BY <1>2, <1>4, <2>1
<1>6. ASSUME NEW d \in S PROVE k <= d
  <2> SUFFICES ASSUME d < k PROVE FALSE
    BY <1>2, <1>4
  <2>1. k # 0 /\ k - 1 \in Nat /\ d \in Nat /\ d <= k - 1
    BY <1>2, <1>4
  <2>2. Near(d) \subseteq Near(k - 1)
    BY <2>1, NearGrows
  <2>3. Cardinality(Near(d)) <= Cardinality(Near(k - 1))
    BY <1>3, <2>1, <2>2, FS_Subset
  <2>4. Cardinality(Near(d)) >= i
    OBVIOUS
  <2>5. Cardinality(Near(d)) \in Nat /\ Cardinality(Near(k - 1)) \in Nat
    BY <1>3, <2>1
  <2> QED
    BY <1>2, <1>4, <2>1, <2>3, <2>4, <2>5
<1>7. Min(S) = k
  <2>1. S \in SUBSET Nat
    BY <1>2
  <2> HIDE DEF S
  <2> QED
    BY <1>5, <1>6, <2>1, MinIs
<1> QED
  BY <1>7 DEF Nth, k

(* Rows in order, cut twice and projected, are the nearest nodes.          *)
LEMMA CutRowsAreNear ==
    ASSUME Answerable, NEW order, RowOrder(order),
           Cap \in Nat \cup {NoCap}, scan.limit \in Nat \cup {NoCap}
    PROVE  LET batch == Cut(order, Cap)
           IN  NearRows(Cut([i \in DOMAIN batch |-> Project(batch[i])], scan.limit))
<1> DEFINE batch == Cut(order, Cap)
           projected == [i \in DOMAIN batch |-> Project(batch[i])]
           r == Cut(projected, scan.limit)
           Row == [node_id : Nat, depth : Nat]
           all == Cardinality(Near(Depth))
<1>1. order \in Seq(Row) /\ Len(order) = all
  BY DEF RowOrder
<1>2. /\ batch \in Seq(Row) /\ Len(batch) \in {Cap, Len(order)} \ {NoCap}
      /\ Len(batch) <= Len(order) /\ (Cap # NoCap => Len(batch) <= Cap)
      /\ \A i \in DOMAIN batch : i \in DOMAIN order /\ batch[i] = order[i]
  <2> HIDE DEF Row
  <2>1. Begins(batch, order, Cap, Row)
    BY <1>1, CutBegins
  <2> QED
    BY <2>1, Zenon DEF Begins
<1> HIDE DEF batch
<1>3. /\ projected \in Seq({Project(batch[i]) : i \in DOMAIN batch})
      /\ Len(projected) = Len(batch) /\ DOMAIN projected = DOMAIN batch
      /\ \A i \in DOMAIN batch : projected[i] = Project(batch[i])
  <2>1. DOMAIN batch = 1..Len(batch) /\ Len(batch) \in Nat
    BY <1>2
  <2> DEFINE V == {Project(batch[i]) : i \in DOMAIN batch}
  <2>2. projected \in [1..Len(batch) -> V]
    BY <2>1
  <2>3. \A n \in Nat : [1..n -> V] \subseteq Seq(V)
    <3> HIDE DEF V
    <3> QED
      OBVIOUS
  <2>4. projected \in Seq(V)
    BY <2>1, <2>2, <2>3
  <2>5. DOMAIN projected = 1..Len(batch)
    BY <2>1
  <2>6. Len(projected) = Len(batch)
    <3> HIDE DEF projected
    <3> QED
      BY <2>1, <2>5, LenIsDomain
  <2> QED
    BY <2>1, <2>4, <2>5, <2>6
<1> DEFINE V == {Project(batch[i]) : i \in DOMAIN batch}
<1> HIDE DEF projected
<1>4. ASSUME NEW i \in DOMAIN projected
      PROVE  projected[i] = Project(order[i]) /\ i \in DOMAIN order
  <2>1. i \in DOMAIN batch
    BY <1>3
  <2>2. batch[i] = order[i] /\ i \in DOMAIN order
    BY <1>2, <2>1, Zenon
  <2>3. projected[i] = Project(batch[i])
    BY <1>3, <2>1, Zenon
  <2> QED
    BY <2>2, <2>3, Zenon
<1>5. /\ r \in Seq(V)
      /\ Len(r) \in {scan.limit, Len(projected)} \ {NoCap}
      /\ Len(r) <= Len(projected) /\ (scan.limit # NoCap => Len(r) <= scan.limit)
      /\ \A i \in DOMAIN r : i \in DOMAIN projected /\ r[i] = projected[i]
  <2>1. projected \in Seq(V)
    BY <1>3
  <2>2. Begins(r, projected, scan.limit, V)
    <3> HIDE DEF V
    <3> QED
      BY <2>1, CutBegins
  <2> HIDE DEF V, r
  <2> QED
    BY <2>2, Zenon DEF Begins
<1> HIDE DEF r, V
<1>6. \A i \in DOMAIN r : r[i] = Project(order[i]) /\ i \in DOMAIN order
  BY <1>4, <1>5
<1>7. NoCap \notin Nat /\ Len(order) \in Nat /\ Len(batch) \in Nat /\ Len(r) \in Nat
  BY <1>1, <1>2, <1>5, InputsAssumption
<1>8. Len(r) = Least({Cap, scan.limit, all})
  <2> DEFINE S == {Cap, scan.limit, all} \ {NoCap}
  <2>1. S \in SUBSET Nat
    BY <1>1, <1>7
  <2>2. /\ Len(order) = all /\ Len(projected) = Len(batch)
        /\ Len(batch) \in {Cap, Len(order)} \ {NoCap}
        /\ Len(batch) <= Len(order) /\ (Cap # NoCap => Len(batch) <= Cap)
        /\ Len(r) \in {scan.limit, Len(projected)} \ {NoCap}
        /\ Len(r) <= Len(projected) /\ (scan.limit # NoCap => Len(r) <= scan.limit)
    BY <1>1, <1>2, <1>3, <1>5
  <2>3. Len(r) \in S /\ \A y \in S : Len(r) <= y
    BY <1>7, <2>2
  <2> HIDE DEF S
  <2>4. Min(S) = Len(r)
    BY <2>1, <2>3, MinIs
  <2> QED
    BY <2>4 DEF Least, S
<1>9. ASSUME NEW i \in DOMAIN r
      PROVE  /\ DOMAIN r[i] = scan.projection
             /\ "depth" \in scan.projection => r[i].depth = Nth(i)
             /\ "node_id" \in scan.projection =>
                   /\ r[i].node_id \in Near(Nth(i))
                   /\ Nth(i) > 0 => r[i].node_id \notin Near(Nth(i) - 1)
                   /\ \A j \in 1..(i - 1) : r[j].node_id # r[i].node_id
  <2>1. /\ \A j \in DOMAIN r : DOMAIN r[j] = scan.projection
        /\ \A j \in DOMAIN r : "depth" \in scan.projection => r[j].depth = order[j].depth
        /\ \A j \in DOMAIN r : "node_id" \in scan.projection => r[j].node_id = order[j].node_id
    BY <1>6 DEF Project
  <2>2. i \in DOMAIN order /\ order[i].depth = Nth(i)
    BY <1>6, DepthIsNth
  <2>3. order[i].node_id \in Class(Nth(i)) /\ Nth(i) \in 0..Depth
    BY <2>2 DEF RowOrder
  <2>4. /\ order[i].node_id \in Near(Nth(i))
        /\ Nth(i) > 0 => order[i].node_id \notin Near(Nth(i) - 1)
    BY <2>3 DEF Class, Answerable
  <2>5. ASSUME NEW j \in 1..(i - 1) PROVE j \in DOMAIN r /\ order[j].node_id # order[i].node_id
    <3>1. DOMAIN r = 1..Len(r)
      BY <1>5
    <3>2. j \in DOMAIN r /\ j # i
      BY <1>7, <3>1
    <3>3. j \in DOMAIN order
      BY <1>6, <3>2
    <3> QED
      BY <2>2, <3>2, <3>3 DEF RowOrder
  <2>6. ASSUME "node_id" \in scan.projection
        PROVE  \A j \in 1..(i - 1) : r[j].node_id # r[i].node_id
    BY <2>1, <2>5, <2>6
  <2> QED
    BY <2>1, <2>2, <2>4, <2>6
<1> QED
  BY <1>8, <1>9 DEF NearRows, r, projected, batch

(***************************************************************************)
(* The answer of a call.                                                   *)
(***************************************************************************)
RowsInv ==
    /\ step = "answered" /\ ~Misled => NearRows(rows)
    /\ step \in {"call", "scan", "execute"} => rows = <<>>

(* What the rows have to be does not change.                               *)
LEMMA NearRowsStay ==
    ASSUME UNCHANGED entry, Sql \/ UNCHANGED spec, NearRows(rows')
    PROVE  NearRows(rows)'
<1>1. UNCHANGED scan /\ Depth' = Depth /\ Cap' = Cap /\ From' = From /\ Known' = Known /\ Edges' = Edges
  BY QuestionStays DEF entry
<1>2. \A d : Near(d)' = Near(d)
  BY <1>1 DEF Near
<1>3. \A i : Nth(i)' = Nth(i)
  BY <1>1, <1>2 DEF Nth
<1>4. Least({Cap, scan.limit, Cardinality(Near(Depth))})'
         = Least({Cap, scan.limit, Cardinality(Near(Depth))})
  BY <1>1, <1>2 DEF Least
<1> QED
  BY <1>1, <1>2, <1>3, <1>4 DEF NearRows

(* Whether the plan holds a wrong transpose does not change.               *)
LEMMA MisledStays ==
    ASSUME UNCHANGED <<entry, spec, attached>>
    PROVE  Misled' = Misled
<1>1. Sql' = Sql /\ Cap' = Cap
  BY QuestionStays
<1> QED
  BY <1>1 DEF Misled, entry, HasDelta, SameShape, NodeCount, Transposed

(* A cap of zero has an answer without rows (graph_traversal.rs:130).      *)
LEMMA NoRowsForZeroCap ==
    ASSUME Answerable, Cap = 0, scan.limit \in Nat \cup {NoCap}
    PROVE  NearRows(<<>>)
<1> DEFINE S == {Cap, scan.limit, Cardinality(Near(Depth))} \ {NoCap}
<1>1. Cardinality(Near(Depth)) \in Nat /\ NoCap \notin Nat
  <2>1. IsFiniteSet(Near(Depth))
    BY NearGrows DEF Answerable
  <2> QED
    BY <2>1, FS_CardinalityType, InputsAssumption
<1>2. S \in SUBSET Nat /\ 0 \in S /\ \A y \in S : 0 <= y
  BY <1>1
<1>3. Min(S) = 0
  <2> HIDE DEF S
  <2> QED
    BY <1>2, MinIs
<1> QED
  BY <1>3 DEF NearRows, Least, S

(* The rows that are made from the levels of a search are the answer.      *)
LEMMA AnswerMakesRows ==
    ASSUME Answerable, Asked, InputInv, NEW found, AreLevels(found), Answer(found, spec.cap)
    PROVE  RowsInv'
<1>1. /\ step' = "answered" /\ UNCHANGED <<entry, spec>>
      /\ \E order \in Orders(found) :
            LET batch == Cut(order, spec.cap)
            IN  rows' = Cut([i \in DOMAIN batch |-> Project(batch[i])], scan.limit)
  BY DEF Answer
<1>2. spec.cap = Cap /\ Cap \in Nat \cup {NoCap} /\ scan.limit \in Nat \cup {NoCap}
  BY DEF Asked, InputInv
<1>3. PICK order \in Orders(found) :
          rows' = Cut([i \in DOMAIN Cut(order, Cap) |-> Project(Cut(order, Cap)[i])], scan.limit)
  BY <1>1, <1>2
<1>4. RowOrder(order)
  BY OrdersAreRows
<1>5. NearRows(rows')
  BY <1>2, <1>3, <1>4, CutRowsAreNear
<1>6. NearRows(rows)'
  BY <1>1, <1>5, NearRowsStay
<1> QED
  BY <1>1, <1>6 DEF RowsInv

(* Every step that answers a call has the right rows.                      *)
LEMMA RowsInductive ==
    ASSUME Inv, PlanInv, KernelAsked, RowsInv, [Next]_vars
    PROVE  RowsInv'
<1>1. CASE Call \/ Scan
  <2>1. step \in {"call", "scan"} /\ step' \in {"refused", "scan", "execute"} /\ rows' = rows
    BY <1>1 DEF Call, Scan
  <2> QED
    BY <2>1 DEF RowsInv
<1>2. CASE Execute
  <2>1. step = "execute" /\ rows = <<>> /\ UNCHANGED <<entry, spec>>
    BY <1>2 DEF Execute, RowsInv
  <2>2. CASE step' = "answered"
    <3>1. ValidSpec /\ spec.cap = 0 /\ rows' = <<>>
      BY <1>2, <2>1, <2>2 DEF Execute
    <3>2. Answerable /\ Asked /\ scan.limit \in Nat \cup {NoCap}
      BY <2>1, <3>1, PlanIsAnswerable, SearchedIsAsked DEF Inv, PlanInv, InputInv
    <3>3. NearRows(rows')
      BY <3>1, <3>2, NoRowsForZeroCap DEF Asked
    <3>4. NearRows(rows)'
      BY <2>1, <3>3, NearRowsStay
    <3> QED
      BY <2>2, <3>4 DEF RowsInv
  <2>3. CASE step' # "answered"
    <3>1. step' \in {"refused", "optimized", "plain"}
      BY <1>2, <2>3 DEF Execute
    <3> QED
      BY <3>1 DEF RowsInv
  <2> QED
    BY <2>2, <2>3
<1>3. CASE OptimizedStep
  BY <1>3 DEF OptimizedStep, RowsInv
<1>4. CASE AnswerOptimized
  <2>1. /\ step = "optimized" /\ at \in {"done", "empty"} /\ Answer(levels, NoCap)
    BY <1>4 DEF AnswerOptimized
  <2>2. ValidSpec /\ spec.cap = NoCap
    BY <2>1 DEF KernelAsked, Optimizes
  <2>3. Answerable /\ Asked
    BY <2>1, <2>2, PlanIsAnswerable, SearchedIsAsked DEF Inv
  <2>4. Misled' = Misled /\ step' = "answered"
    BY <2>1, MisledStays DEF Answer
  <2>5. ASSUME ~Misled PROVE AreLevels(levels)
    BY <2>1, <2>5, OptimizedLevelsAreLevels
  <2>6. ASSUME ~Misled PROVE RowsInv'
    BY <2>1, <2>2, <2>3, <2>5, <2>6, AnswerMakesRows DEF PlanInv
  <2> QED
    BY <2>4, <2>6 DEF RowsInv
<1>5. CASE AnswerPlain
  <2>1. step \in {"optimized", "plain"} /\ Answer(PlainLevels, spec.cap)
    BY <1>5 DEF AnswerPlain
  <2>2. ValidSpec
    BY <2>1 DEF KernelAsked
  <2>3. Answerable /\ Asked
    BY <2>1, <2>2, PlanIsAnswerable, SearchedIsAsked DEF Inv
  <2>4. AreLevels(PlainLevels)
    BY <2>1, <2>2, PlainLevelsAreLevels DEF Inv
  <2> QED
    BY <2>1, <2>3, <2>4, AnswerMakesRows DEF PlanInv
<1>6. CASE UNCHANGED vars
  <2>1. UNCHANGED <<entry, step, spec, attached, rows>>
    BY <1>6 DEF vars
  <2>2. (NearRows(rows) => NearRows(rows)') /\ Misled' = Misled
    BY <2>1, NearRowsStay, MisledStays
  <2> QED
    BY <2>1, <2>2 DEF RowsInv
<1> QED
  BY <1>1, <1>2, <1>3, <1>4, <1>5, <1>6 DEF Next

(* A call of graph_traverse is refused exactly when its arguments are none *)
(* of the documented ones, the transpose it needs does not fit in u32 or   *)
(* its plan cannot be executed; otherwise its rows are the nearest nodes,  *)
(* each once and with its distance, up to max_hops, max_nodes and the      *)
(* limit, whichever search was chosen (udtf.rs:14-25, 190-195,             *)
(* graph_traversal.rs:119-190).  What a resident transpose holds does not  *)
(* matter unless its counts are those of the graph (dobfs.rs:62).          *)
THEOREM CallsAreAnswered == Spec => []CallIsAnswered
<1>1. Init => PlanInv /\ KernelAsked /\ RowsInv
  <2>1. Init => RowsInv
    <3> SUFFICES ASSUME Init PROVE RowsInv
      OBVIOUS
    <3>1. rows = <<>> /\ step \in {"call", "execute"}
      BY DEF Init
    <3> QED
      BY <3>1 DEF RowsInv
  <2> QED
    BY <2>1, AskedInit
<1>2. Inv /\ OutcomeInv /\ PlanInv /\ KernelAsked /\ RowsInv /\ [Next]_vars
         => PlanInv' /\ KernelAsked' /\ RowsInv'
  BY AskedInductive, RowsInductive
<1>3. RowsInv /\ AnsweredIfDocumented => CallIsAnswered
  <2> SUFFICES ASSUME RowsInv, AnsweredIfDocumented PROVE CallIsAnswered
    OBVIOUS
  <2>1. step = "answered" /\ ~Misled => NearRows(rows)
    BY DEF RowsInv
  <2> QED
    BY <2>1 DEF AnsweredIfDocumented, CallIsAnswered, NearRows, Nth
<1> QED
  BY <1>1, <1>2, <1>3, InvHolds, OutcomesHold, AnsweredExactlyIfDocumented, PTL DEF Spec
==============================================================================
