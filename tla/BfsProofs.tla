------------------------------ MODULE BfsProofs ------------------------------
(***************************************************************************)
(* Proofs about Bfs and VisitedFilter: every graph, every list of starts,  *)
(* every pair of limits, any width of a word and any even number of lanes, *)
(* and any number of mutations while the search runs.                      *)
(***************************************************************************)
EXTENDS Bfs, FiniteSetTheorems, WellFoundedInduction, TLAPS

(***************************************************************************)
(* The inductive invariant.  Order lists the nodes in the order in which   *)
(* they were admitted: the ones that were popped, then the ones that wait. *)
(***************************************************************************)
Entries == Nodes \X Nat
Trackers ==
    {t \in [words : Seq(SUBSET Nat), capacity : {NodeCount}, overflow : SUBSET Nat] :
        Len(t.words) = WordCount(NodeCount)}

GraphTypes ==
    /\ base \in [BaseNodes -> Seq(BaseNodes)]
    /\ ins \in SUBSET Pairs /\ IsFiniteSet(ins)
    /\ dels \in SUBSET Pairs
    /\ always \in SUBSET Pairs /\ ever \in SUBSET Pairs

SearchTypes ==
    /\ starts \in Seq(Nodes)
    /\ maxDepth \in Nat /\ maxNodes \in Nat /\ machine \in Machines
    /\ at \in {"admit", "probe", "search", "done"}
    /\ fast \in BOOLEAN
    /\ visited \in Seq(Entries)
    /\ levels \in Seq(Seq(Nodes)) /\ level \in Seq(Nodes) /\ depth \in Nat

(* No node is admitted twice, and exactly the admitted ones are marked.    *)
Distinct(order) == \A i, j \in DOMAIN order : order[i][1] = order[j][1] => i = j
MarksAre(order, t) ==
    \A n \in Nodes : Marked(t, n) <=> \E i \in DOMAIN order : order[i][1] = n

(* The nodes were admitted in order of depth, each one beside a start over *)
(* an edge from a node one step nearer that was popped.                    *)
Sorted(order) == \A i, j \in DOMAIN order : i <= j => order[i][2] <= order[j][2]
Followed(order, popped, edges) ==
    \A i \in DOMAIN order : order[i][2] # 0 =>
        \E j \in DOMAIN popped : /\ popped[j][2] + 1 = order[i][2]
                                 /\ <<popped[j][1], order[i][1]>> \in edges

Searching == [tracker |-> tracker, queue |-> queue, admitted |-> admitted]

(* What holds of a search at any time, also between two admissions.        *)
Sound(popped, s, limit, cap, edges) ==
    LET order == popped \o s.queue
    IN  /\ s.tracker \in Trackers /\ s.queue \in Seq(Entries)
        /\ s.admitted = Len(order) /\ s.admitted <= cap
        /\ Distinct(order) /\ MarksAre(order, s.tracker)
        /\ Sorted(order) /\ Followed(order, popped, edges)
        /\ \A i \in DOMAIN order : order[i][2] <= limit

(* The waiting nodes are of at most two depths.                            *)
TwoDepths == \A i, j \in DOMAIN queue : queue[i][2] <= queue[j][2] + 1

(* Before the loop only starts wait.                                       *)
StartsWait ==
    at \in {"admit", "probe"} =>
        /\ visited = <<>> /\ levels = <<>> /\ level = <<>> /\ depth = 0
        /\ \A i \in DOMAIN queue : queue[i][2] = 0

(* An edge that was shown all along from a node that was expanded leads to *)
(* an admitted node, unless the cap was reached.                           *)
Complete ==
    admitted < maxNodes =>
        \A i \in DOMAIN visited : visited[i][2] < maxDepth =>
            \A n \in Nodes : <<visited[i][1], n>> \in always =>
                \E j \in DOMAIN (visited \o queue) :
                    /\ (visited \o queue)[j][1] = n
                    /\ (visited \o queue)[j][2] <= visited[i][2] + 1

(* A search that saw an empty delta may rely on the base layer: what was   *)
(* shown since is in it and nothing was hidden before.                     *)
HistoryIsTrue ==
    /\ always \subseteq Shown /\ Shown \subseteq ever
    /\ fast => always \subseteq BaseEdges /\ BaseEdges \subseteq ever

Names(entries) == [i \in DOMAIN entries |-> entries[i][1]]

LevelsAreVisited ==
    /\ FlattenSeq(levels) \o level = Names(visited)
    /\ \A k \in DOMAIN levels : \A p \in DOMAIN levels[k] :
          \E i \in DOMAIN visited : visited[i] = <<levels[k][p], k - 1>>
    /\ \A p \in DOMAIN level : \E i \in DOMAIN visited : visited[i] = <<level[p], depth>>
    /\ \A i \in DOMAIN visited : visited[i][2] <= depth
    /\ depth # 0 => \E i \in DOMAIN visited : visited[i][2] = depth
    /\ at # "done" => Len(levels) = depth
    /\ at = "done" => level = <<>> /\ queue = <<>>

Inv ==
    /\ GraphTypes
    /\ SearchTypes
    /\ Sound(visited, Searching, maxDepth, maxNodes, ever)
    /\ TwoDepths
    /\ StartsWait
    /\ Complete
    /\ HistoryIsTrue
    /\ LevelsAreVisited

(***************************************************************************)
(* Induction over the natural numbers, for a set instead of a predicate.   *)
(***************************************************************************)

(* Among finite sets there is one that has none of the others in it.       *)
LEMMA SmallestSet ==
    ASSUME NEW F, F # {}, \A S \in F : IsFiniteSet(S)
    PROVE  \E S \in F : \A T \in F : T \subseteq S => T = S
<1> DEFINE U == UNION F
           R == StrictSubsetOrdering(U)
           D == FiniteSubsetsOf(U)
<1>1. IsWellFoundedOn(R, D)
  BY FS_StrictSubsetOrderingWellFounded
<1>2. F \subseteq D
  BY DEF FiniteSubsetsOf
<1>3. \E S \in F : \A T \in F : ~ (<<T, S>> \in R)
  <2> HIDE DEF R, D
  <2> QED
    BY <1>1, <1>2, WFMin
<1>4. \A S, T \in F : T \subseteq S /\ T # S => <<T, S>> \in R
  BY <1>2 DEF StrictSubsetOrdering, FiniteSubsetsOf
<1> HIDE DEF R
<1> QED
  BY <1>3, <1>4

(* Numbers have a least one.                                               *)
LEMMA LeastNat ==
    ASSUME NEW T \in SUBSET Nat, T # {}
    PROVE  \E x \in T : \A y \in T : x <= y
<1> DEFINE F == {0..x : x \in T}
<1>1. F # {} /\ \A S \in F : IsFiniteSet(S)
  <2>1. \A x \in T : IsFiniteSet(0..x)
    BY FS_Interval
  <2>2. F # {}
    OBVIOUS
  <2> QED
    BY <2>1, <2>2
<1>2. \E S \in F : \A Q \in F : Q \subseteq S => Q = S
  <2> HIDE DEF F
  <2> QED
    BY <1>1, SmallestSet
<1>3. PICK x \in T : \A y \in T : 0..y \subseteq 0..x => 0..y = 0..x
  <2>1. PICK S \in F : \A Q \in F : Q \subseteq S => Q = S
    BY <1>2
  <2>2. PICK x \in T : S = 0..x
    OBVIOUS
  <2>3. \A y \in T : 0..y \in F
    OBVIOUS
  <2> HIDE DEF F
  <2> QED
    BY <2>1, <2>2, <2>3
<1>4. ASSUME NEW y \in T, y < x PROVE FALSE
  <2>1. 0..y \subseteq 0..x /\ x \in 0..x /\ x \notin 0..y
    BY <1>4
  <2> QED
    BY <1>3, <2>1
<1> QED
  BY <1>4

(* A set with 0 and every successor of its members has all numbers.        *)
LEMMA SetInduction ==
    ASSUME NEW T \in SUBSET Nat, 0 \in T, \A n \in T : n + 1 \in T
    PROVE  T = Nat
<1> SUFFICES ASSUME T # Nat PROVE FALSE
  OBVIOUS
<1>1. PICK n \in Nat \ T : \A m \in Nat \ T : n <= m
  BY LeastNat
<1>2. n - 1 \in T
  BY <1>1
<1> QED
  BY <1>1, <1>2

(* The same for the numbers up to a bound.                                 *)
LEMMA UpTo ==
    ASSUME NEW n \in Nat, NEW T, 0 \in T, \A i \in 1..n : i - 1 \in T => i \in T
    PROVE  \A i \in 0..n : i \in T
<1> DEFINE S == {i \in Nat : i <= n => i \in T}
<1>1. 0 \in S
  OBVIOUS
<1>2. ASSUME NEW i \in S PROVE i + 1 \in S
  <2> SUFFICES ASSUME i + 1 <= n PROVE i + 1 \in T
    OBVIOUS
  <2>1. i + 1 \in 1..n /\ (i + 1) - 1 = i /\ i \in T
    OBVIOUS
  <2> QED
    BY <2>1
<1>3. S = Nat
  <2>1. S \in SUBSET Nat
    OBVIOUS
  <2> HIDE DEF S
  <2> QED
    BY <1>1, <1>2, <2>1, SetInduction
<1> QED
  BY <1>3

Runs(f, n, V, a, step) ==
    f \in [0..n -> V] /\ f[0] = a /\ \A i \in 1..n : f[i] = step[<<i, f[i - 1]>>]

(* A first value and a step determine the values that follow.              *)
LEMMA Recursion ==
    ASSUME NEW n \in Nat, NEW V, NEW a \in V, NEW step,
           \A i \in 1..n : \A v \in V : step[<<i, v>>] \in V
    PROVE  \E f : Runs(f, n, V, a, step)
<1> DEFINE T == {k \in 0..n : \E f : Runs(f, k, V, a, step)}
<1>1. 0 \in T
  <2>1. Runs([k \in 0..0 |-> a], 0, V, a, step)
    BY DEF Runs
  <2> QED
    BY <2>1
<1>2. ASSUME NEW k \in 1..n, k - 1 \in T PROVE k \in T
  <2>1. PICK f : Runs(f, k - 1, V, a, step)
    BY <1>2
  <2> DEFINE g == [i \in 0..k |-> IF i = k THEN step[<<k, f[k - 1]>>] ELSE f[i]]
  <2>2. f[k - 1] \in V /\ step[<<k, f[k - 1]>>] \in V
    <3>1. k - 1 \in 0..(k - 1) /\ f \in [0..(k - 1) -> V]
      BY <2>1 DEF Runs
    <3>2. f[k - 1] \in V
      BY <3>1
    <3> QED
      BY <3>2
  <2>3. g \in [0..k -> V] /\ g[0] = a
    BY <2>1, <2>2 DEF Runs
  <2>4. ASSUME NEW i \in 1..k PROVE g[i] = step[<<i, g[i - 1]>>]
    <3>1. g[i - 1] = f[i - 1]
      OBVIOUS
    <3>2. CASE i = k
      BY <3>1, <3>2
    <3>3. CASE i # k
      <4>1. i \in 1..(k - 1) /\ g[i] = f[i]
        BY <3>3
      <4> QED
        BY <2>1, <3>1, <4>1 DEF Runs
    <3> QED
      BY <3>2, <3>3
  <2>5. Runs(g, k, V, a, step)
    BY <2>3, <2>4 DEF Runs
  <2> HIDE DEF g
  <2> QED
    BY <2>5
<1>3. \A k \in 0..n : k \in T
  <2> HIDE DEF T
  <2> QED
    BY <1>1, <1>2, UpTo
<1> QED
  BY <1>3

(***************************************************************************)
(* Words and bits.                                                         *)
(***************************************************************************)

(* A number is its quotient and its remainder.                             *)
LEMMA Division ==
    ASSUME NEW b \in Nat \ {0}, NEW n \in Nat
    PROVE  /\ n \div b \in Nat /\ n % b \in 0..(b - 1)
           /\ n = (n \div b) * b + (n % b)
<1> DEFINE q == n \div b
           r == n % b
<1>1. q \in Nat /\ r \in 0..(b - 1) /\ n = b * q + r
  OBVIOUS
<1> HIDE DEF q, r
<1>2. b * q = q * b
  BY <1>1
<1>3. n = q * b + r
  BY <1>1, <1>2
<1> QED
  BY <1>1, <1>3 DEF q, r

(* Products are monotonic.                                                 *)
LEMMA Times ==
    ASSUME NEW b \in Nat, NEW i \in Nat, NEW j \in Nat, i >= j
    PROVE  /\ i * b \in Nat /\ i * b >= j * b /\ i * b = b * i
           /\ (i + 1) * b = i * b + b
<1>1. i * b \in Nat /\ i * b = b * i /\ (i + 1) * b = i * b + b
  OBVIOUS
<1>2. i * b >= j * b
  <2> DEFINE d == i - j
  <2>1. d \in Nat /\ i = j + d
    OBVIOUS
  <2>2. d * b \in Nat /\ j * b \in Nat
    BY <2>1
  <2>3. i * b = j * b + d * b
    BY <2>1
  <2> QED
    BY <2>2, <2>3
<1> QED
  BY <1>1, <1>2

(* Every number is a bit of a word.                                        *)
LEMMA WordAndBit ==
    ASSUME NEW n \in Nat
    PROVE  /\ WordOf(n) \in Nat \ {0} /\ BitOf(n) \in 0..(WordBits - 1)
           /\ n = (WordOf(n) - 1) * WordBits + BitOf(n)
<1>1. WordBits \in Nat \ {0}
  BY FilterAssumption
<1> DEFINE q == n \div WordBits
           r == n % WordBits
<1>2. q \in Nat /\ r \in 0..(WordBits - 1) /\ n = q * WordBits + r
  BY <1>1, Division
<1>3. WordOf(n) = q + 1 /\ BitOf(n) = r
  BY DEF WordOf, BitOf
<1> HIDE DEF q, r
<1>4. (q + 1) - 1 = q
  BY <1>2
<1> QED
  BY <1>2, <1>3, <1>4

(***************************************************************************)
(* Keep and FlattenSeq: what the recursive functions in them compute.      *)
(***************************************************************************)
Keeps(f, seq, set) ==
    f = [i \in 0..Len(seq) |->
            IF i = 0 THEN <<>>
            ELSE IF seq[i] \in set THEN Append(f[i - 1], seq[i]) ELSE f[i - 1]]

(* The values of such a function, step by step, for elements of V.         *)
KeepsUpTo(f, V, seq, set) ==
    /\ f \in [0..Len(seq) -> Seq(V)]
    /\ f[0] = <<>>
    /\ \A i \in 1..Len(seq) :
          f[i] = IF seq[i] \in set THEN Append(f[i - 1], seq[i]) ELSE f[i - 1]

(* Keep passes through the elements one after the other.                   *)
LEMMA KeepUnfolds ==
    ASSUME NEW V, NEW seq \in Seq(V), NEW set
    PROVE  \E f : KeepsUpTo(f, V, seq, set) /\ Keep(seq, set) = f[Len(seq)]
<1> DEFINE n == Len(seq)
           W == Seq(V)
           Next1(i, v) == IF seq[i] \in set THEN Append(v, seq[i]) ELSE v
           step == [p \in (1..n) \X W |-> Next1(p[1], p[2])]
<1>1. n \in Nat /\ <<>> \in W
  OBVIOUS
<1>2. \A i \in 1..n : \A v \in W : Next1(i, v) \in W
  OBVIOUS
<1>3. \A i \in 1..n : \A v \in W : step[<<i, v>>] = Next1(i, v)
  OBVIOUS
<1>4. \A i \in 1..n : \A v \in W : step[<<i, v>>] \in W
  BY <1>2, <1>3
<1> DEFINE first == <<>>
<1>5. \E f : Runs(f, n, W, first, step)
  <2>1. first \in W
    BY <1>1
  <2> HIDE DEF step, n, W, first
  <2> QED
    BY <1>1, <1>4, <2>1, Recursion
<1>6. PICK f : Runs(f, n, W, first, step)
  BY <1>5
<1>7. f \in [0..n -> W] /\ f[0] = <<>> /\ \A i \in 1..n : f[i] = step[<<i, f[i - 1]>>]
  <2> HIDE DEF step, n, W
  <2> QED
    BY <1>6 DEF Runs
<1>8. \A i \in 1..n : f[i] = Next1(i, f[i - 1])
  <2>1. \A i \in 1..n : i - 1 \in 0..n
    BY <1>1
  <2> HIDE DEF step, Next1, n, W
  <2> QED
    BY <1>3, <1>7, <2>1
<1>9. Keeps(f, seq, set)
  <2>1. f = [i \in 0..n |-> f[i]]
    BY <1>7
  <2>2. \A i \in 0..n : f[i] = IF i = 0 THEN <<>> ELSE Next1(i, f[i - 1])
    <3>1. \A i \in 0..n : i = 0 \/ i \in 1..n
      BY <1>1
    <3> HIDE DEF Next1, n
    <3> QED
      BY <1>7, <1>8, <3>1
  <2>3. f = [i \in 0..n |-> IF i = 0 THEN <<>> ELSE Next1(i, f[i - 1])]
    <3> HIDE DEF Next1, n
    <3> QED
      BY <2>1, <2>2
  <2> QED
    BY <2>3 DEF Keeps
<1> DEFINE g == CHOOSE h : Keeps(h, seq, set)
<1>10. Keeps(g, seq, set) /\ Keep(seq, set) = g[n]
  BY <1>9 DEF Keeps, Keep
<1>11. g = [i \in 0..n |-> IF i = 0 THEN <<>> ELSE Next1(i, g[i - 1])]
  <2> HIDE DEF g
  <2> QED
    BY <1>10 DEF Keeps
<1>12. g[0] = <<>> /\ \A i \in 1..n : g[i] = Next1(i, g[i - 1])
  <2> HIDE DEF g, Next1, n
  <2>1. 0 \in 0..n /\ \A i \in 1..n : i \in 0..n /\ i # 0
    BY <1>1
  <2> QED
    BY <1>11, <2>1
<1>13. \A i \in 0..n : g[i] \in W
  <2> DEFINE T == {i \in 0..n : g[i] \in W}
  <2> HIDE DEF g, Next1, n, W
  <2>1. 0 \in T
    BY <1>1, <1>12
  <2>2. \A i \in 1..n : i - 1 \in T => i \in T
    BY <1>1, <1>2, <1>12
  <2>3. \A i \in 0..n : i \in T
    <3> HIDE DEF T
    <3> QED
      BY <1>1, <2>1, <2>2, UpTo
  <2> QED
    BY <2>3
<1>14. g \in [0..n -> W]
  <2> HIDE DEF g, Next1, n, W
  <2> QED
    BY <1>11, <1>13
<1>15. KeepsUpTo(g, V, seq, set)
  BY <1>12, <1>14 DEF KeepsUpTo
<1> HIDE DEF g
<1> QED
  BY <1>10, <1>15

(* It keeps the elements of the set, and no others.                        *)
LEMMA KeepElements ==
    ASSUME NEW V, NEW seq \in Seq(V), NEW set
    PROVE  /\ Keep(seq, set) \in Seq(V)
           /\ ToSet(Keep(seq, set)) = ToSet(seq) \cap set
<1> DEFINE n == Len(seq)
<1>1. PICK f : KeepsUpTo(f, V, seq, set) /\ Keep(seq, set) = f[n]
  BY KeepUnfolds
<1>2. /\ f \in [0..n -> Seq(V)] /\ f[0] = <<>> /\ Keep(seq, set) = f[n]
      /\ \A i \in 1..n : f[i] = IF seq[i] \in set THEN Append(f[i - 1], seq[i]) ELSE f[i - 1]
  BY <1>1 DEF KeepsUpTo
<1> DEFINE T == {i \in 0..n : ToSet(f[i]) = {seq[j] : j \in 1..i} \cap set}
<1>3. 0 \in T
  BY <1>2 DEF ToSet
<1>4. ASSUME NEW i \in 1..n, i - 1 \in T PROVE i \in T
  <2>1. f[i - 1] \in Seq(V) /\ seq[i] \in V /\ i - 1 \in 0..n
    BY <1>2
  <2>2. {seq[j] : j \in 1..i} = {seq[j] : j \in 1..(i - 1)} \cup {seq[i]}
    <3>1. \A j : j \in 1..i <=> j \in 1..(i - 1) \/ j = i
      OBVIOUS
    <3> QED
      BY <3>1, Zenon
  <2>3. CASE seq[i] \in set
    <3>1. f[i] = Append(f[i - 1], seq[i])
      BY <1>2, <2>3
    <3>2. ToSet(f[i]) = ToSet(f[i - 1]) \cup {seq[i]}
      <4>1. Len(f[i]) = Len(f[i - 1]) + 1 /\ f[i][Len(f[i - 1]) + 1] = seq[i]
            /\ \A j \in 1..Len(f[i - 1]) : f[i][j] = f[i - 1][j]
        BY <2>1, <3>1
      <4>2. DOMAIN f[i] = 1..(Len(f[i - 1]) + 1) /\ DOMAIN f[i - 1] = 1..Len(f[i - 1])
            /\ Len(f[i - 1]) \in Nat
        BY <2>1, <3>1, <4>1
      <4>3. \A j : j \in DOMAIN f[i] <=> j \in DOMAIN f[i - 1] \/ j = Len(f[i - 1]) + 1
        BY <4>2
      <4> QED
        BY <4>1, <4>2, <4>3 DEF ToSet
    <3> QED
      BY <1>4, <2>2, <2>3, <3>2
  <2>4. CASE seq[i] \notin set
    <3>1. f[i] = f[i - 1]
      BY <1>2, <2>4
    <3> QED
      BY <1>4, <2>2, <2>4, <3>1
  <2> QED
    BY <2>3, <2>4
<1>5. \A i \in 0..n : i \in T
  <2>1. n \in Nat
    OBVIOUS
  <2> HIDE DEF T
  <2> QED
    BY <1>3, <1>4, <2>1, UpTo
<1>6. n \in T
  BY <1>5
<1>7. {seq[j] : j \in 1..n} = ToSet(seq)
  BY DEF ToSet
<1> QED
  BY <1>2, <1>6, <1>7

(* Appending to the second of two sequences appends to both.               *)
AppendsLast(s, t, x) == Append(s \o t, x) = s \o Append(t, x)

LEMMA AppendLast ==
    ASSUME NEW V, NEW s \in Seq(V), NEW t \in Seq(V), NEW x \in V
    PROVE  AppendsLast(s, t, x)
BY DEF AppendsLast

(* Two sequences may be filtered one after the other.                      *)
LEMMA KeepConcat ==
    ASSUME NEW V, NEW s \in Seq(V), NEW t \in Seq(V), NEW set
    PROVE  Keep(s \o t, set) = Keep(s, set) \o Keep(t, set)
<1> DEFINE u == s \o t
           n == Len(s)
           m == Len(t)
<1>1. /\ n \in Nat /\ m \in Nat /\ u \in Seq(V) /\ Len(u) = n + m
      /\ (\A i \in 1..n : u[i] = s[i]) /\ (\A i \in 1..m : u[n + i] = t[i] /\ t[i] \in V)
  OBVIOUS
<1> HIDE DEF u
<1>2. PICK f : KeepsUpTo(f, V, s, set) /\ Keep(s, set) = f[n]
  BY KeepUnfolds
<1>3. PICK g : KeepsUpTo(g, V, t, set) /\ Keep(t, set) = g[m]
  BY KeepUnfolds
<1>4. PICK h : KeepsUpTo(h, V, u, set) /\ Keep(u, set) = h[Len(u)]
  BY <1>1, KeepUnfolds
<1>5. /\ f \in [0..n -> Seq(V)] /\ f[0] = <<>>
      /\ \A i \in 1..n : f[i] = IF s[i] \in set THEN Append(f[i - 1], s[i]) ELSE f[i - 1]
  BY <1>2 DEF KeepsUpTo
<1>6. /\ g \in [0..m -> Seq(V)] /\ g[0] = <<>>
      /\ \A i \in 1..m : g[i] = IF t[i] \in set THEN Append(g[i - 1], t[i]) ELSE g[i - 1]
  BY <1>3 DEF KeepsUpTo
<1>7. /\ h \in [0..(n + m) -> Seq(V)] /\ h[0] = <<>>
      /\ \A i \in 1..(n + m) : h[i] = IF u[i] \in set THEN Append(h[i - 1], u[i]) ELSE h[i - 1]
  BY <1>1, <1>4 DEF KeepsUpTo
<1> HIDE DEF n, m
<1>8. h[n] = f[n]
  <2> DEFINE T == {i \in 0..n : h[i] = f[i]}
  <2>1. 0 \in T
    BY <1>1, <1>5, <1>7
  <2>2. ASSUME NEW i \in 1..n, i - 1 \in T PROVE i \in T
    <3>1. h[i - 1] = f[i - 1] /\ u[i] = s[i] /\ i \in 1..(n + m) /\ i \in 0..n
      BY <1>1, <2>2
    <3>2. h[i] = f[i]
      BY <1>5, <1>7, <3>1
    <3> QED
      BY <3>1, <3>2
  <2>3. \A i \in 0..n : i \in T
    <3> HIDE DEF T
    <3> QED
      BY <1>1, <2>1, <2>2, UpTo
  <2> QED
    BY <1>1, <2>3
<1>9. h[n + m] = f[n] \o g[m]
  <2> DEFINE T == {i \in 0..m : h[n + i] = f[n] \o g[i]}
  <2>1. f[n] \in Seq(V) /\ \A i \in 0..m : g[i] \in Seq(V)
    BY <1>1, <1>5, <1>6
  <2>2. 0 \in T
    <3>1. f[n] \o <<>> = f[n]
      BY <2>1
    <3>2. n + 0 = n /\ 0 \in 0..m
      BY <1>1
    <3>3. h[n + 0] = f[n] \o g[0]
      BY <1>6, <1>8, <3>1, <3>2
    <3> QED
      BY <3>2, <3>3
  <2>3. ASSUME NEW i \in 1..m, i - 1 \in T PROVE i \in T
    <3>1. /\ n + (i - 1) = (n + i) - 1 /\ n + i \in 1..(n + m) /\ i \in 0..m /\ i - 1 \in 0..m
          /\ u[n + i] = t[i] /\ t[i] \in V
      BY <1>1
    <3>2. h[(n + i) - 1] = f[n] \o g[i - 1]
      BY <2>3, <3>1
    <3>3. h[n + i] = IF t[i] \in set THEN Append(f[n] \o g[i - 1], t[i]) ELSE f[n] \o g[i - 1]
      BY <1>7, <3>1, <3>2
    <3>4. Append(f[n] \o g[i - 1], t[i]) = f[n] \o Append(g[i - 1], t[i])
      <4>1. f[n] \in Seq(V) /\ g[i - 1] \in Seq(V) /\ t[i] \in V
        BY <2>1, <3>1
      <4>2. AppendsLast(f[n], g[i - 1], t[i])
        BY <4>1, AppendLast
      <4> QED
        BY <4>2, Zenon DEF AppendsLast
    <3>5. h[n + i] = f[n] \o g[i]
      BY <1>6, <3>3, <3>4
    <3> QED
      BY <3>1, <3>5
  <2>4. \A i \in 0..m : i \in T
    <3> HIDE DEF T
    <3> QED
      BY <1>1, <2>2, <2>3, UpTo
  <2>5. m \in T
    <3> HIDE DEF T
    <3> QED
      BY <1>1, <2>4
  <2> QED
    BY <2>5
<1> QED
  BY <1>1, <1>2, <1>3, <1>4, <1>9 DEF u

Flattens(f, seqs) ==
    f = [i \in 1..Len(seqs) |-> IF i = 1 THEN seqs[i] ELSE f[i - 1] \o seqs[i]]

(* The values of such a function, for sequences over V.                    *)
FlattensUpTo(f, V, seqs) ==
    /\ f \in [1..Len(seqs) -> Seq(V)]
    /\ f[1] = seqs[1]
    /\ \A i \in 2..Len(seqs) : f[i] = f[i - 1] \o seqs[i]

(* FlattenSeq joins the sequences from the left.                           *)
LEMMA FlattenUnfolds ==
    ASSUME NEW V, NEW seqs \in Seq(Seq(V)), seqs # <<>>
    PROVE  \E f : FlattensUpTo(f, V, seqs) /\ FlattenSeq(seqs) = f[Len(seqs)]
<1> DEFINE n == Len(seqs)
           W == Seq(V)
           Joined(i, v) == IF i = 1 THEN seqs[i] ELSE v \o seqs[i]
           step == [p \in (1..n) \X W |-> Joined(p[1], p[2])]
           first == <<>>
<1>1. n \in Nat /\ n > 0 /\ first \in W /\ \A i \in 1..n : seqs[i] \in W
  OBVIOUS
<1>2. \A v, w \in W : v \o w \in W
  OBVIOUS
<1>3. \A i \in 1..n : \A v \in W : Joined(i, v) \in W
  BY <1>1
<1>4. \A i \in 1..n : \A v \in W : step[<<i, v>>] = Joined(i, v)
  OBVIOUS
<1>5. \A i \in 1..n : \A v \in W : step[<<i, v>>] \in W
  BY <1>3, <1>4
<1>6. \E f : Runs(f, n, W, first, step)
  <2> HIDE DEF step, n, W, first
  <2> QED
    BY <1>1, <1>5, Recursion
<1>7. PICK f : Runs(f, n, W, first, step)
  BY <1>6
<1>8. f \in [0..n -> W] /\ f[0] = <<>> /\ \A i \in 1..n : f[i] = step[<<i, f[i - 1]>>]
  <2> HIDE DEF step, n, W
  <2> QED
    BY <1>7 DEF Runs
<1>9. \A i \in 1..n : f[i] = Joined(i, f[i - 1])
  <2>1. \A i \in 1..n : i - 1 \in 0..n
    BY <1>1
  <2> HIDE DEF step, Joined, n, W
  <2> QED
    BY <1>4, <1>8, <2>1
<1> DEFINE g == [i \in 1..n |-> f[i]]
<1>10. Flattens(g, seqs)
  <2>1. \A i \in 1..n : g[i] = IF i = 1 THEN seqs[i] ELSE g[i - 1] \o seqs[i]
    <3> SUFFICES ASSUME NEW i \in 1..n
                 PROVE  g[i] = IF i = 1 THEN seqs[i] ELSE g[i - 1] \o seqs[i]
      OBVIOUS
    <3>1. g[i] = Joined(i, f[i - 1])
      <4> HIDE DEF Joined, n
      <4> QED
        BY <1>9
    <3>2. i # 1 => g[i - 1] = f[i - 1]
      BY <1>1
    <3> QED
      BY <3>1, <3>2
  <2>2. g = [i \in 1..n |-> g[i]]
    OBVIOUS
  <2> HIDE DEF g
  <2> QED
    BY <2>1, <2>2 DEF Flattens
<1> DEFINE h == CHOOSE k : Flattens(k, seqs)
<1>11. Flattens(h, seqs) /\ FlattenSeq(seqs) = h[n]
  <2>1. FlattenSeq(seqs) = h[n]
    BY <1>1 DEF FlattenSeq, Flattens
  <2>2. Flattens(h, seqs)
    <3> HIDE DEF g
    <3> QED
      BY <1>10
  <2> QED
    BY <2>1, <2>2
<1> HIDE DEF h
<1>12. h = [i \in 1..n |-> IF i = 1 THEN seqs[i] ELSE h[i - 1] \o seqs[i]]
  BY <1>11 DEF Flattens
<1>13. h[1] = seqs[1] /\ \A i \in 2..n : h[i] = h[i - 1] \o seqs[i]
  <2>1. 1 \in 1..n /\ \A i \in 2..n : i \in 1..n /\ i # 1
    BY <1>1
  <2> HIDE DEF n
  <2> QED
    BY <1>12, <2>1
<1>14. \A i \in 1..n : h[i] \in W
  <2> DEFINE T == {i \in 0..n : i = 0 \/ h[i] \in W}
  <2> HIDE DEF n
  <2>1. 0 \in T
    BY <1>1
  <2>2. ASSUME NEW i \in 1..n, i - 1 \in T PROVE i \in T
    <3>1. CASE i = 1
      BY <1>1, <1>13, <3>1
    <3>2. CASE i # 1
      <4>1. i \in 2..n /\ h[i - 1] \in W
        BY <1>1, <2>2, <3>2
      <4>2. h[i] = h[i - 1] \o seqs[i]
        BY <1>13, <4>1
      <4>3. h[i] \in W
        <5> HIDE DEF W
        <5> QED
          BY <1>1, <1>2, <4>1, <4>2
      <4> QED
        BY <1>1, <4>3
    <3> QED
      BY <3>1, <3>2
  <2>3. \A i \in 0..n : i \in T
    <3> HIDE DEF T
    <3> QED
      BY <1>1, <2>1, <2>2, UpTo
  <2> QED
    BY <1>1, <2>3
<1>15. FlattensUpTo(h, V, seqs)
  <2>1. h \in [1..n -> W]
    <3> HIDE DEF n, W
    <3> QED
      BY <1>12, <1>14
  <2> QED
    BY <1>13, <2>1 DEF FlattensUpTo
<1> QED
  BY <1>11, <1>15

(* A part of a sequence and the part that follows it make one part.        *)
Splits(s, a, b) ==
    /\ SubSeq(s, 1, a) \o SubSeq(s, a + 1, b) = SubSeq(s, 1, b)
    /\ Len(SubSeq(s, a + 1, b)) = b - a

LEMMA PartsJoin ==
    ASSUME NEW V, NEW s \in Seq(V), NEW a \in Nat, NEW b \in Nat, a <= b, b <= Len(s)
    PROVE  /\ Splits(s, a, b)
           /\ SubSeq(s, 1, a) \in Seq(V) /\ SubSeq(s, a + 1, b) \in Seq(V)
<1>1. Len(s) \in Nat
  OBVIOUS
<1>2. SubSeq(s, 1, a) \in Seq(V) /\ SubSeq(s, a + 1, b) \in Seq(V)
  BY <1>1
<1>3. SubSeq(s, 1, a) \o SubSeq(s, a + 1, b) = SubSeq(s, 1, b)
  BY <1>1
<1>4. Len(SubSeq(s, a + 1, b)) = b - a
  BY <1>1
<1> QED
  BY <1>2, <1>3, <1>4 DEF Splits

(***************************************************************************)
(* The kernels: a chunk, and then all chunks and the remainder.            *)
(***************************************************************************)
Passing(words) == {n \in Nat : InRange(words, n) /\ BitOf(n) \notin words[WordOf(n)]}

(* Both halves of the mask stand where the lanes are.                      *)
LEMMA MaskIsUnvisited ==
    ASSUME NEW chunk \in Seq(Nat), NEW words, NEW half \in Nat, Len(chunk) = 2 * half
    PROVE  UnvisitedMask(chunk, words) =
              {l \in 1..Len(chunk) : BitOf(chunk[l]) \notin words[WordOf(chunk[l])]}
<1> DEFINE n == Len(chunk)
           lo == SubSeq(chunk, 1, half)
           hi == SubSeq(chunk, half + 1, n)
           Bit(m) == IF BitOf(m) \in words[WordOf(m)] THEN 1 ELSE 0
<1>1. n \in Nat /\ n \div 2 = half
  OBVIOUS
<1>2. /\ DOMAIN lo = 1..half /\ DOMAIN hi = 1..half
      /\ \A l \in 1..half : lo[l] = chunk[l] /\ hi[l] = chunk[half + l]
  BY <1>1
<1>3. \A l \in 1..half : Lanes(lo, words)[l] = Bit(chunk[l]) /\ Lanes(hi, words)[l] = Bit(chunk[half + l])
  <2> HIDE DEF lo, hi
  <2> QED
    BY <1>2 DEF Lanes
<1>4. UnvisitedMask(chunk, words) =
        {l \in 1..half : Lanes(lo, words)[l] = 0}
            \cup {half + l : l \in {k \in 1..half : Lanes(hi, words)[k] = 0}}
  BY <1>1, Zenon DEF UnvisitedMask
<1>5. UnvisitedMask(chunk, words) =
        {l \in 1..half : Bit(chunk[l]) = 0} \cup {half + l : l \in {k \in 1..half : Bit(chunk[half + k]) = 0}}
  <2>1. {l \in 1..half : Lanes(lo, words)[l] = 0} = {l \in 1..half : Bit(chunk[l]) = 0}
    <3> HIDE DEF lo, Bit
    <3> QED
      BY <1>3
  <2>2. {l \in 1..half : Lanes(hi, words)[l] = 0} = {l \in 1..half : Bit(chunk[half + l]) = 0}
    <3> HIDE DEF hi, Bit
    <3> QED
      BY <1>3
  <2> HIDE DEF lo, hi, Bit
  <2> QED
    BY <1>4, <2>1, <2>2
<1>6. \A m : Bit(m) = 0 <=> BitOf(m) \notin words[WordOf(m)]
  OBVIOUS
<1> HIDE DEF Bit
<1>7. {l \in 1..half : Bit(chunk[l]) = 0} \cup {half + l : l \in {k \in 1..half : Bit(chunk[half + k]) = 0}}
        = {l \in 1..n : Bit(chunk[l]) = 0}
  <2>1. \A l \in 1..n : l \in 1..half \/ (l - half \in 1..half /\ half + (l - half) = l)
    OBVIOUS
  <2>2. \A l \in 1..half : l \in 1..n /\ half + l \in 1..n
    OBVIOUS
  <2> HIDE DEF n
  <2> QED
    BY <2>1, <2>2
<1> QED
  BY <1>5, <1>6, <1>7

(* The lanes of a chunk that pass are the ones the scalar code keeps.      *)
LEMMA ChunkIsScalar ==
    ASSUME NEW chunk \in Seq(Nat), NEW words, NEW half \in Nat \ {0}, Len(chunk) = 2 * half
    PROVE  FilterChunk(chunk, words) = ScalarFilter(chunk, words)
<1> DEFINE n == Len(chunk)
           set == Passing(words)
<1>1. ScalarFilter(chunk, words) = Keep(chunk, set)
  BY DEF ScalarFilter, Passing
<1>2. CASE \E l \in DOMAIN chunk : ~InRange(words, chunk[l])
  BY <1>2 DEF FilterChunk
<1>3. CASE \A l \in DOMAIN chunk : InRange(words, chunk[l])
  <2> DEFINE mask == UnvisitedMask(chunk, words)
             piece == [l \in DOMAIN chunk |-> IF l \in mask THEN <<chunk[l]>> ELSE <<>>]
  <2>1. n \in Nat /\ n > 0 /\ DOMAIN chunk = 1..n /\ \A l \in 1..n : chunk[l] \in Nat
    OBVIOUS
  <2>2. FilterChunk(chunk, words) = FlattenSeq(piece)
    BY <1>3 DEF FilterChunk
  <2>3. \A l \in 1..n : l \in mask <=> chunk[l] \in set
    <3>1. mask = {l \in 1..n : BitOf(chunk[l]) \notin words[WordOf(chunk[l])]}
      BY MaskIsUnvisited
    <3> HIDE DEF mask, n
    <3> QED
      BY <1>3, <2>1, <3>1 DEF Passing
  <2>4. \A l \in 1..n : piece[l] = IF chunk[l] \in set THEN <<chunk[l]>> ELSE <<>>
    <3> HIDE DEF mask, set, n
    <3> QED
      BY <2>1, <2>3
  <2>5. piece \in Seq(Seq(Nat)) /\ Len(piece) = n /\ piece # <<>>
    <3>1. \A l \in 1..n : piece[l] \in Seq(Nat)
      <4>1. \A m \in Nat : <<m>> \in Seq(Nat)
        OBVIOUS
      <4>2. <<>> \in Seq(Nat)
        OBVIOUS
      <4> HIDE DEF piece, set, n
      <4> QED
        BY <2>1, <2>4, <4>1, <4>2
    <3>2. piece = [l \in 1..n |-> piece[l]]
      BY <2>1
    <3> HIDE DEF piece, n
    <3>3. piece \in [1..n -> Seq(Nat)]
      BY <3>1, <3>2
    <3> QED
      BY <2>1, <3>3
  <2> HIDE DEF piece, set, mask
  <2>6. PICK f : FlattensUpTo(f, Nat, piece) /\ FlattenSeq(piece) = f[Len(piece)]
    BY <2>5, FlattenUnfolds
  <2>7. PICK k : KeepsUpTo(k, Nat, chunk, set) /\ Keep(chunk, set) = k[n]
    BY KeepUnfolds
  <2>8. /\ f \in [1..n -> Seq(Nat)] /\ f[1] = piece[1]
        /\ \A l \in 2..n : f[l] = f[l - 1] \o piece[l]
    BY <2>5, <2>6 DEF FlattensUpTo
  <2>9. /\ k \in [0..n -> Seq(Nat)] /\ k[0] = <<>>
        /\ \A l \in 1..n : k[l] = IF chunk[l] \in set THEN Append(k[l - 1], chunk[l]) ELSE k[l - 1]
    BY <2>7 DEF KeepsUpTo
  <2> DEFINE T == {l \in 0..n : l = 0 \/ f[l] = k[l]}
  <2>10. 0 \in T
    BY <2>1
  <2>11. ASSUME NEW l \in 1..n, l - 1 \in T PROVE l \in T
    <3>1. k[l - 1] \in Seq(Nat) /\ chunk[l] \in Nat
      BY <2>1, <2>9
    <3>2. k[l] = k[l - 1] \o piece[l]
      <4>1. CASE chunk[l] \in set
        <5>1. k[l] = Append(k[l - 1], chunk[l]) /\ piece[l] = <<chunk[l]>>
          BY <2>4, <2>9, <4>1
        <5>2. k[l - 1] \o <<chunk[l]>> = Append(k[l - 1], chunk[l])
          BY <3>1
        <5> QED
          BY <5>1, <5>2, Zenon
      <4>2. CASE chunk[l] \notin set
        <5>1. k[l] = k[l - 1] /\ piece[l] = <<>>
          BY <2>4, <2>9, <4>2
        <5>2. k[l - 1] \o <<>> = k[l - 1]
          BY <3>1
        <5> QED
          BY <5>1, <5>2, Zenon
      <4> QED
        BY <4>1, <4>2
    <3>3. CASE l = 1
      <4>1. piece[1] \in Seq(Nat)
        BY <2>1, <2>5
      <4>2. k[l - 1] = <<>> /\ piece[l] = piece[1] /\ k[l] = k[1]
        BY <2>9, <3>3
      <4>3. k[1] = <<>> \o piece[1]
        BY <3>2, <4>2, Zenon
      <4>4. <<>> \o piece[1] = piece[1]
        BY <4>1
      <4>5. k[1] = piece[1]
        BY <4>3, <4>4, Zenon
      <4> QED
        BY <2>8, <3>3, <4>5
    <3>4. CASE l # 1
      <4>1. l \in 2..n /\ f[l - 1] = k[l - 1]
        BY <2>1, <2>11, <3>4
      <4>2. f[l] = f[l - 1] \o piece[l]
        BY <2>8, <4>1
      <4>3. f[l] = k[l]
        BY <3>2, <4>1, <4>2, Zenon
      <4> QED
        BY <4>3
    <3> QED
      BY <3>3, <3>4
  <2>12. n \in T
    <3>1. \A l \in 0..n : l \in T
      <4> HIDE DEF T, n
      <4> QED
        BY <2>1, <2>10, <2>11, UpTo
    <3> HIDE DEF T
    <3> QED
      BY <2>1, <3>1
  <2> QED
    BY <1>1, <2>1, <2>2, <2>5, <2>6, <2>7, <2>12
<1> QED
  BY <1>2, <1>3

(* A kernel of an even number of lanes keeps what the scalar code keeps.   *)
LEMMA VectorIsScalar ==
    ASSUME NEW neighbors \in Seq(Nat), NEW words, NEW half \in Nat \ {0}, NEW lanes, lanes = 2 * half
    PROVE  VectorFilter(neighbors, words, lanes) = ScalarFilter(neighbors, words)
<1> DEFINE n == Len(neighbors)
           chunks == n \div lanes
           set == Passing(words)
           end(c) == c * lanes
           chunk(c) == SubSeq(neighbors, (c - 1) * lanes + 1, c * lanes)
           piece == [c \in 1..chunks |-> FilterChunk(chunk(c), words)]
           rest == SubSeq(neighbors, chunks * lanes + 1, n)
           upTo(c) == SubSeq(neighbors, 1, end(c))
<1>1. \A s \in Seq(Nat) : ScalarFilter(s, words) = Keep(s, set)
  BY DEF ScalarFilter, Passing
<1>2. /\ n \in Nat /\ lanes \in Nat \ {0} /\ chunks \in Nat
      /\ end(chunks) \in Nat /\ end(chunks) <= n
  <2>1. n \in Nat /\ lanes \in Nat \ {0}
    OBVIOUS
  <2>2. n \div lanes \in Nat /\ n % lanes \in 0..(lanes - 1) /\ n = (n \div lanes) * lanes + (n % lanes)
    <3> HIDE DEF n
    <3> QED
      BY <2>1, Division
  <2>3. (n \div lanes) * lanes \in Nat
    BY <2>1, <2>2
  <2> QED
    BY <2>1, <2>2, <2>3
<1>3. \A c \in 1..chunks : /\ end(c - 1) \in Nat /\ end(c) \in Nat /\ end(c - 1) <= end(c)
                           /\ end(c) <= n /\ end(c) - end(c - 1) = lanes
  <2> SUFFICES ASSUME NEW c \in 1..chunks
               PROVE  /\ end(c - 1) \in Nat /\ end(c) \in Nat /\ end(c - 1) <= end(c)
                      /\ end(c) <= n /\ end(c) - end(c - 1) = lanes
    OBVIOUS
  <2>1. c \in Nat /\ c - 1 \in Nat /\ chunks >= c /\ (c - 1) + 1 = c
    BY <1>2
  <2> HIDE DEF chunks
  <2>2. c * lanes \in Nat /\ chunks * lanes >= c * lanes
    BY <1>2, <2>1, Times
  <2>3. (c - 1) * lanes \in Nat /\ ((c - 1) + 1) * lanes = (c - 1) * lanes + lanes
    BY <1>2, <2>1, Times
  <2> HIDE DEF n
  <2> QED
    BY <1>2, <2>1, <2>2, <2>3
<1>4. ASSUME NEW c \in 1..chunks
      PROVE  /\ chunk(c) \in Seq(Nat) /\ Len(chunk(c)) = lanes
             /\ upTo(c - 1) \o chunk(c) = upTo(c)
             /\ upTo(c - 1) \in Seq(Nat) /\ upTo(c) \in Seq(Nat)
  <2> DEFINE a == end(c - 1)
             b == end(c)
  <2>1. a \in Nat /\ b \in Nat /\ a <= b /\ b <= Len(neighbors) /\ b - a = lanes
    BY <1>3
  <2> HIDE DEF a, b
  <2>2. /\ Splits(neighbors, a, b)
        /\ SubSeq(neighbors, 1, a) \in Seq(Nat) /\ SubSeq(neighbors, a + 1, b) \in Seq(Nat)
    BY <2>1, PartsJoin
  <2>3. SubSeq(neighbors, 1, b) \in Seq(Nat)
    BY <2>1
  <2>4. Len(SubSeq(neighbors, a + 1, b)) = lanes
    BY <2>1, <2>2 DEF Splits
  <2>5. chunk(c) = SubSeq(neighbors, a + 1, b) /\ upTo(c - 1) = SubSeq(neighbors, 1, a)
        /\ upTo(c) = SubSeq(neighbors, 1, b)
    BY Zenon DEF a, b
  <2> HIDE DEF chunk, upTo
  <2> QED
    BY <2>2, <2>3, <2>4, <2>5, Zenon DEF Splits
<1>5. \A c \in 1..chunks : piece[c] = Keep(chunk(c), set) /\ piece[c] \in Seq(Nat)
  <2> SUFFICES ASSUME NEW c \in 1..chunks
               PROVE  piece[c] = Keep(chunk(c), set) /\ piece[c] \in Seq(Nat)
    OBVIOUS
  <2>1. chunk(c) \in Seq(Nat) /\ Len(chunk(c)) = 2 * half
    BY <1>4
  <2>2. piece[c] = FilterChunk(chunk(c), words)
    OBVIOUS
  <2> HIDE DEF chunk, piece, set, chunks
  <2>3. FilterChunk(chunk(c), words) = Keep(chunk(c), set)
    BY <1>1, <2>1, ChunkIsScalar
  <2>4. Keep(chunk(c), set) \in Seq(Nat)
    BY <2>1, KeepElements
  <2> QED
    BY <2>2, <2>3, <2>4
<1>6. piece \in Seq(Seq(Nat)) /\ Len(piece) = chunks /\ (chunks = 0 => piece = <<>>)
  <2>1. piece = [c \in 1..chunks |-> piece[c]]
    OBVIOUS
  <2> HIDE DEF piece, chunks
  <2>2. piece \in [1..chunks -> Seq(Nat)]
    BY <1>5, <2>1
  <2>3. piece \in Seq(Seq(Nat)) /\ Len(piece) = chunks
    BY <1>2, <2>2
  <2> QED
    BY <2>3
<1>7. FlattenSeq(piece) = Keep(upTo(chunks), set)
  <2>1. upTo(0) = <<>> /\ Keep(<<>>, set) = <<>>
    <3>1. end(0) = 0
      BY <1>2
    <3>2. SubSeq(neighbors, 1, 0) = <<>>
      BY <1>2
    <3>3. <<>> \in Seq(Nat) /\ Len(<<>>) = 0
      OBVIOUS
    <3>4. PICK k : KeepsUpTo(k, Nat, <<>>, set) /\ Keep(<<>>, set) = k[Len(<<>>)]
      BY <3>3, KeepUnfolds
    <3>5. Keep(<<>>, set) = <<>>
      BY <3>3, <3>4 DEF KeepsUpTo
    <3> QED
      BY <3>1, <3>2, <3>5
  <2>2. CASE chunks = 0
    <3>1. FlattenSeq(<<>>) = <<>>
      BY DEF FlattenSeq
    <3> HIDE DEF piece, chunks, upTo
    <3> QED
      BY <1>6, <2>1, <2>2, <3>1
  <2>3. CASE chunks # 0
    <3> HIDE DEF piece
    <3>1. piece # <<>>
      BY <1>6, <2>3
    <3>2. PICK f : FlattensUpTo(f, Nat, piece) /\ FlattenSeq(piece) = f[Len(piece)]
      BY <1>6, <3>1, FlattenUnfolds
    <3> HIDE DEF chunks, upTo, chunk, set
    <3>3. /\ f \in [1..chunks -> Seq(Nat)] /\ f[1] = piece[1]
          /\ \A c \in 2..chunks : f[c] = f[c - 1] \o piece[c]
      BY <1>6, <3>2 DEF FlattensUpTo
    <3> DEFINE T == {c \in 0..chunks : c = 0 \/ f[c] = Keep(upTo(c), set)}
    <3>4. 0 \in T
      BY <1>2
    <3>5. ASSUME NEW c \in 1..chunks, c - 1 \in T PROVE c \in T
      <4>1. Keep(upTo(c), set) = Keep(upTo(c - 1), set) \o piece[c]
        <5>1. /\ upTo(c - 1) \in Seq(Nat) /\ chunk(c) \in Seq(Nat)
              /\ upTo(c - 1) \o chunk(c) = upTo(c) /\ piece[c] = Keep(chunk(c), set)
          BY <1>4, <1>5
        <5>2. Keep(upTo(c - 1) \o chunk(c), set) = Keep(upTo(c - 1), set) \o Keep(chunk(c), set)
          BY <5>1, KeepConcat
        <5> QED
          BY <5>1, <5>2, Zenon
      <4>2. CASE c = 1
        <5>1. Keep(upTo(c - 1), set) = <<>>
          BY <2>1, <4>2
        <5>2. <<>> \o piece[c] = piece[c]
          <6>1. piece[c] \in Seq(Nat)
            BY <1>5
          <6> QED
            BY <6>1
        <5>3. Keep(upTo(c), set) = piece[c]
          BY <4>1, <5>1, <5>2, Zenon
        <5>4. f[c] = piece[c]
          BY <3>3, <4>2
        <5>5. f[c] = Keep(upTo(c), set)
          BY <5>3, <5>4, Zenon
        <5> QED
          BY <5>5
      <4>3. CASE c # 1
        <5>1. c \in 2..chunks /\ f[c - 1] = Keep(upTo(c - 1), set)
          BY <1>2, <3>5, <4>3
        <5>2. f[c] = f[c - 1] \o piece[c]
          BY <3>3, <5>1
        <5>3. f[c] = Keep(upTo(c), set)
          BY <4>1, <5>1, <5>2, Zenon
        <5> QED
          BY <5>3
      <4> QED
        BY <4>2, <4>3
    <3>6. \A c \in 0..chunks : c \in T
      <4> HIDE DEF T
      <4> QED
        BY <1>2, <3>4, <3>5, UpTo
    <3>7. f[chunks] = Keep(upTo(chunks), set)
      <4>1. chunks \in T
        <5> HIDE DEF T
        <5> QED
          BY <1>2, <3>6
      <4> QED
        BY <2>3, <4>1
    <3> QED
      BY <1>6, <3>2, <3>7
  <2> QED
    BY <2>2, <2>3
<1>8. upTo(chunks) \o rest = neighbors /\ upTo(chunks) \in Seq(Nat) /\ rest \in Seq(Nat)
  <2> DEFINE a == end(chunks)
  <2>1. a \in Nat /\ a <= n /\ n \in Nat /\ n <= n
    BY <1>2
  <2> HIDE DEF a
  <2>2. /\ Splits(neighbors, a, n)
        /\ SubSeq(neighbors, 1, a) \in Seq(Nat) /\ SubSeq(neighbors, a + 1, n) \in Seq(Nat)
    BY <2>1, PartsJoin
  <2>3. SubSeq(neighbors, 1, n) = neighbors
    BY <2>1
  <2>4. upTo(chunks) = SubSeq(neighbors, 1, a) /\ rest = SubSeq(neighbors, a + 1, n)
    BY Zenon DEF a
  <2> HIDE DEF upTo, rest, chunks
  <2> QED
    BY <2>2, <2>3, <2>4, Zenon DEF Splits
<1>9. VectorFilter(neighbors, words, lanes) = FlattenSeq(piece) \o ScalarFilter(rest, words)
  BY Zenon DEF VectorFilter
<1>10. Keep(upTo(chunks) \o rest, set) = Keep(upTo(chunks), set) \o Keep(rest, set)
  <2> HIDE DEF upTo, rest, chunks, set
  <2>1. \A s, t \in Seq(Nat) : Keep(s \o t, set) = Keep(s, set) \o Keep(t, set)
    BY KeepConcat
  <2> QED
    BY <1>8, <2>1, Zenon
<1>11. ScalarFilter(rest, words) = Keep(rest, set) /\ ScalarFilter(neighbors, words) = Keep(neighbors, set)
  <2> HIDE DEF rest, set
  <2> QED
    BY <1>1, <1>8
<1> HIDE DEF upTo, rest, chunks, set, piece
<1> QED
  BY <1>7, <1>8, <1>9, <1>10, <1>11, Zenon

(* Whatever the backend, the same neighbors pass in the same order.        *)
LEMMA FiltersAgree ==
    ASSUME NEW neighbors \in Seq(Nat), NEW words, NEW backend \in Backends
    PROVE  FilterUnvisited(backend, neighbors, words) = ScalarFilter(neighbors, words)
<1>1. PICK h \in 1..NeonLanes : NeonLanes = 2 * h
  BY FilterAssumption
<1>2. PICK k \in 1..Avx2Lanes : Avx2Lanes = 2 * k
  BY FilterAssumption
<1>3. NeonFilter(neighbors, words) = ScalarFilter(neighbors, words)
  <2>1. h \in Nat \ {0}
    BY <1>1
  <2> QED
    BY <1>1, <2>1, VectorIsScalar DEF NeonFilter
<1>4. Avx2Filter(neighbors, words) = ScalarFilter(neighbors, words)
  <2>1. k \in Nat \ {0}
    BY <1>2
  <2> QED
    BY <1>2, <2>1, VectorIsScalar DEF Avx2Filter
<1> QED
  BY <1>3, <1>4 DEF FilterUnvisited, Backends

(***************************************************************************)
(* Reach: what the recursive function in it computes.                      *)
(***************************************************************************)
Reaches(f, roots, edges, d) ==
    f = [k \in 0..d |-> IF k = 0 THEN roots ELSE f[k - 1] \cup Successors(edges, f[k - 1])]

Spreads(f, roots, edges, d) ==
    /\ f[0] = roots
    /\ \A k \in 1..d : f[k] = f[k - 1] \cup Successors(edges, f[k - 1])

(* Reach adds the successors of what is reached, step by step.             *)
LEMMA ReachUnfolds ==
    ASSUME NEW roots, NEW edges, NEW d \in Nat
    PROVE  \E f : Spreads(f, roots, edges, d) /\ Reach(roots, edges, d) = f[d]
<1> DEFINE all == roots \cup {e[2] : e \in edges}
           W == SUBSET all
           More(v) == v \cup Successors(edges, v)
           step == [p \in (1..d) \X W |-> More(p[2])]
<1>1. \A v \in W : More(v) \in W
  BY DEF Successors
<1>2. \A k \in 1..d : \A v \in W : step[<<k, v>>] = More(v)
  OBVIOUS
<1>3. roots \in W
  OBVIOUS
<1>4. \E f : Runs(f, d, W, roots, step)
  <2>1. \A k \in 1..d : \A v \in W : step[<<k, v>>] \in W
    <3> HIDE DEF step, W, More
    <3> QED
      BY <1>1, <1>2
  <2> HIDE DEF step, W
  <2> QED
    BY <1>3, <2>1, Recursion
<1>5. PICK f : Runs(f, d, W, roots, step)
  BY <1>4
<1>6. f \in [0..d -> W] /\ f[0] = roots /\ \A k \in 1..d : f[k] = More(f[k - 1])
  <2>1. \A k \in 1..d : k - 1 \in 0..d
    OBVIOUS
  <2> HIDE DEF step, W, More
  <2> QED
    BY <1>2, <1>5, <2>1 DEF Runs
<1>7. Reaches(f, roots, edges, d)
  <2>1. f = [k \in 0..d |-> f[k]]
    BY <1>6
  <2>2. \A k \in 0..d : f[k] = IF k = 0 THEN roots ELSE More(f[k - 1])
    <3>1. \A k \in 0..d : k = 0 \/ k \in 1..d
      OBVIOUS
    <3> HIDE DEF More
    <3> QED
      BY <1>6, <3>1
  <2>3. f = [k \in 0..d |-> IF k = 0 THEN roots ELSE More(f[k - 1])]
    <3> HIDE DEF More
    <3> QED
      BY <2>1, <2>2
  <2> QED
    BY <2>3 DEF Reaches
<1> DEFINE g == CHOOSE h : Reaches(h, roots, edges, d)
<1>8. Reaches(g, roots, edges, d) /\ Reach(roots, edges, d) = g[d]
  BY <1>7 DEF Reaches, Reach
<1> HIDE DEF g
<1>9. Spreads(g, roots, edges, d)
  <2>1. g = [k \in 0..d |-> IF k = 0 THEN roots ELSE g[k - 1] \cup Successors(edges, g[k - 1])]
    BY <1>8 DEF Reaches
  <2>2. 0 \in 0..d /\ \A k \in 1..d : k \in 0..d /\ k # 0
    OBVIOUS
  <2> QED
    BY <2>1, <2>2 DEF Spreads
<1> QED
  BY <1>8, <1>9

(***************************************************************************)
(* The visited tracker.                                                    *)
(***************************************************************************)
(* Every node of the base layer has a word.                                *)
LEMMA NodeHasWord ==
    /\ WordCount(NodeCount) \in Nat
    /\ \A n \in BaseNodes : WordOf(n) \in 1..WordCount(NodeCount)
<1> DEFINE b == WordBits
           m == NodeCount + WordBits - 1
           c == m \div b
<1>1. b \in Nat \ {0} /\ NodeCount \in Nat \ {0} /\ m \in Nat
  BY FilterAssumption, BfsAssumption
<1>2. c \in Nat /\ m % b \in 0..(b - 1) /\ m = c * b + (m % b)
  <2> HIDE DEF m, b
  <2> QED
    BY <1>1, Division
<1>3. WordCount(NodeCount) = c
  BY DEF WordCount
<1>4. ASSUME NEW n \in BaseNodes PROVE WordOf(n) \in 1..c
  <2>1. n \in Nat /\ n < NodeCount
    BY <1>1, <1>4 DEF BaseNodes
  <2> DEFINE q == WordOf(n) - 1
  <2>2. WordOf(n) \in Nat \ {0} /\ BitOf(n) \in 0..(b - 1) /\ n = q * b + BitOf(n)
    BY <2>1, WordAndBit
  <2>3. q \in Nat /\ WordOf(n) = q + 1
    BY <2>2
  <2> HIDE DEF q, c, m, b
  <2>4. c * b \in Nat /\ q * b \in Nat
    BY <1>1, <1>2, <2>3
  <2>5. c * b >= NodeCount
    BY <1>1, <1>2, <2>4 DEF m, b
  <2>6. ASSUME q >= c PROVE FALSE
    <3>1. q * b >= c * b
      BY <1>1, <1>2, <2>3, <2>6, Times
    <3> QED
      BY <1>1, <2>1, <2>2, <2>4, <2>5, <3>1
  <2> QED
    BY <1>2, <2>3, <2>6
<1> QED
  BY <1>2, <1>3, <1>4

(* A new tracker has nothing marked.                                       *)
LEMMA NothingMarked ==
    /\ NewVisited(NodeCount) \in Trackers
    /\ \A n \in Nodes : ~Marked(NewVisited(NodeCount), n)
<1> DEFINE w == [k \in 1..WordCount(NodeCount) |-> {}]
           t == NewVisited(NodeCount)
<1>1. WordCount(NodeCount) \in Nat
  BY NodeHasWord
<1>2. w \in Seq(SUBSET Nat) /\ Len(w) = WordCount(NodeCount)
  BY <1>1
<1>3. t.words = w /\ t.capacity = NodeCount /\ t.overflow = {}
  BY DEF NewVisited
<1>4. t \in Trackers
  <2> HIDE DEF w
  <2>1. t = [words |-> w, capacity |-> NodeCount, overflow |-> {}]
    BY DEF NewVisited, w
  <2> QED
    BY <1>2, <2>1 DEF Trackers
<1>5. ASSUME NEW n \in Nodes PROVE ~Marked(t, n)
  <2>1. CASE n < NodeCount
    <3>1. n \in BaseNodes
      BY <2>1, BfsAssumption DEF Nodes, BaseNodes
    <3>2. w[WordOf(n)] = {}
      BY <3>1, NodeHasWord
    <3> HIDE DEF t, w
    <3> QED
      BY <1>3, <2>1, <3>2 DEF Marked
  <2>2. CASE ~(n < NodeCount)
    <3> HIDE DEF t, w
    <3> QED
      BY <1>3, <2>2 DEF Marked
  <2> QED
    BY <2>1, <2>2
<1> QED
  BY <1>4, <1>5

(* test_and_set marks one node.                                            *)
LEMMA OneIsMarked ==
    ASSUME NEW t \in Trackers, NEW n \in Nodes
    PROVE  /\ TestAndSet(t, n) \in Trackers
           /\ \A m \in Nodes : Marked(TestAndSet(t, n), m) <=> m = n \/ Marked(t, m)
<1> DEFINE r == TestAndSet(t, n)
<1>1. /\ t.words \in Seq(SUBSET Nat) /\ Len(t.words) = WordCount(NodeCount)
      /\ t.capacity = NodeCount /\ t.overflow \in SUBSET Nat
      /\ t = [words |-> t.words, capacity |-> NodeCount, overflow |-> t.overflow]
  BY DEF Trackers
<1>2. \A m \in Nodes : m \in Nat /\ (m < NodeCount <=> m \in BaseNodes)
  BY BfsAssumption DEF Nodes, BaseNodes
<1>3. \A m \in Nat : /\ WordOf(m) \in Nat \ {0} /\ BitOf(m) \in Nat
                     /\ m = (WordOf(m) - 1) * WordBits + BitOf(m)
  <2>1. WordBits \in Nat \ {0}
    BY FilterAssumption
  <2> QED
    BY <2>1, WordAndBit
<1>4. CASE n < NodeCount
  <2> DEFINE k == WordOf(n)
             w == [t.words EXCEPT ![k] = @ \cup {BitOf(n)}]
  <2>1. k \in 1..Len(t.words) /\ DOMAIN t.words = 1..Len(t.words)
    BY <1>1, <1>2, <1>4, NodeHasWord
  <2>2. r = [words |-> w, capacity |-> NodeCount, overflow |-> t.overflow]
    <3>1. r = [t EXCEPT !.words[WordOf(n)] = @ \cup {BitOf(n)}]
      BY <1>1, <1>4 DEF TestAndSet
    <3> QED
      BY <1>1, <3>1
  <2>3. w \in Seq(SUBSET Nat) /\ Len(w) = Len(t.words)
    <3>1. BitOf(n) \in Nat
      BY <1>2, <1>3
    <3>2. t.words[k] \cup {BitOf(n)} \in SUBSET Nat
      BY <1>1, <2>1, <3>1
    <3> HIDE DEF k
    <3> QED
      BY <1>1, <2>1, <3>2
  <2>4. w[k] = t.words[k] \cup {BitOf(n)} /\ \A j \in 1..Len(t.words) : j # k => w[j] = t.words[j]
    BY <2>1
  <2> HIDE DEF w, k, r
  <2>5. r \in Trackers
    BY <1>1, <2>2, <2>3 DEF Trackers
  <2>6. ASSUME NEW m \in Nodes PROVE Marked(r, m) <=> m = n \/ Marked(t, m)
    <3>1. CASE m < NodeCount
      <4>1. WordOf(m) \in 1..Len(t.words)
        BY <1>1, <1>2, <3>1, NodeHasWord
      <4>2. Marked(r, m) <=> BitOf(m) \in w[WordOf(m)]
        BY <2>2, <3>1 DEF Marked
      <4>3. Marked(t, m) <=> BitOf(m) \in t.words[WordOf(m)]
        BY <1>1, <3>1 DEF Marked
      <4>4. m # n => WordOf(m) # k \/ BitOf(m) # BitOf(n)
        BY <1>2, <1>3 DEF k
      <4>5. m = n => WordOf(m) = k /\ BitOf(m) = BitOf(n)
        BY DEF k
      <4> QED
        BY <2>4, <4>1, <4>2, <4>3, <4>4, <4>5
    <3>2. CASE ~(m < NodeCount)
      <4>1. Marked(r, m) <=> m \in t.overflow
        BY <2>2, <3>2 DEF Marked
      <4>2. Marked(t, m) <=> m \in t.overflow
        BY <1>1, <3>2 DEF Marked
      <4> QED
        BY <1>4, <3>2, <4>1, <4>2
    <3> QED
      BY <3>1, <3>2
  <2> QED
    BY <2>5, <2>6 DEF r
<1>5. CASE ~(n < NodeCount)
  <2>1. r = [words |-> t.words, capacity |-> NodeCount, overflow |-> t.overflow \cup {n}]
    <3>1. r = [t EXCEPT !.overflow = @ \cup {n}]
      BY <1>1, <1>5 DEF TestAndSet
    <3> QED
      BY <1>1, <3>1
  <2> HIDE DEF r
  <2>2. r \in Trackers
    BY <1>1, <1>2, <2>1 DEF Trackers
  <2>3. ASSUME NEW m \in Nodes PROVE Marked(r, m) <=> m = n \/ Marked(t, m)
    <3>1. CASE m < NodeCount
      BY <1>1, <1>5, <2>1, <3>1 DEF Marked
    <3>2. CASE ~(m < NodeCount)
      BY <1>1, <2>1, <3>2 DEF Marked
    <3> QED
      BY <3>1, <3>2
  <2> QED
    BY <2>2, <2>3 DEF r
<1> QED
  BY <1>4, <1>5

(***************************************************************************)
(* Admissions.                                                             *)
(***************************************************************************)
(* What Append does to the order of admission.                             *)
Longer(new, old, x) ==
    /\ Len(new) = Len(old) + 1 /\ DOMAIN new = 1..(Len(old) + 1) /\ DOMAIN old = 1..Len(old)
    /\ new[Len(old) + 1] = x /\ \A i \in 1..Len(old) : new[i] = old[i]

LEMMA AppendIsLonger ==
    ASSUME NEW V, NEW s \in Seq(V), NEW x \in V
    PROVE  Longer(Append(s, x), s, x) /\ Append(s, x) \in Seq(V) /\ Len(s) \in Nat
BY DEF Longer

(* One more node is admitted, no nearer than the ones before it.           *)
LEMMA AdmissionIsSound ==
    ASSUME NEW popped \in Seq(Entries), NEW s, NEW r, NEW limit \in Nat, NEW cap \in Nat, NEW edges,
           NEW n \in Nodes, NEW e \in Nat,
           Sound(popped, s, limit, cap, edges),
           ~Marked(s.tracker, n), s.admitted < cap, e <= limit,
           \A i \in DOMAIN (popped \o s.queue) : (popped \o s.queue)[i][2] <= e,
           e # 0 => \E j \in DOMAIN popped : popped[j][2] + 1 = e /\ <<popped[j][1], n>> \in edges,
           r.tracker = TestAndSet(s.tracker, n),
           r.queue = Append(s.queue, <<n, e>>),
           r.admitted = s.admitted + 1
    PROVE  /\ Sound(popped, r, limit, cap, edges)
           /\ Marked(r.tracker, n)
           /\ \A m \in Nodes : Marked(s.tracker, m) => Marked(r.tracker, m)
<1> DEFINE old == popped \o s.queue
           new == popped \o r.queue
           x == <<n, e>>
           N == Len(old)
<1>1. /\ s.tracker \in Trackers /\ s.queue \in Seq(Entries)
      /\ s.admitted = Len(old) /\ Distinct(old) /\ MarksAre(old, s.tracker)
      /\ Sorted(old) /\ Followed(old, popped, edges) /\ \A i \in DOMAIN old : old[i][2] <= limit
  BY DEF Sound
<1>2. x \in Entries /\ old \in Seq(Entries)
  BY <1>1 DEF Entries
<1>3. new = Append(old, x)
  <2>1. AppendsLast(popped, s.queue, x)
    BY <1>1, <1>2, AppendLast
  <2> QED
    BY <2>1, Zenon DEF AppendsLast
<1>4. Longer(new, old, x) /\ N \in Nat /\ r.queue \in Seq(Entries)
  <2> HIDE DEF old, new, x
  <2>1. Longer(Append(old, x), old, x) /\ Len(old) \in Nat
    BY <1>2, AppendIsLonger
  <2>2. Append(s.queue, x) \in Seq(Entries)
    BY <1>1, <1>2, AppendIsLonger
  <2> QED
    BY <1>3, <2>1, <2>2, Zenon DEF x
<1>5. \A i \in DOMAIN old : old[i][2] <= e /\ old[i][2] \in Nat
  <2>1. \A i \in DOMAIN old : old[i] \in Entries
    <3> HIDE DEF old
    <3> QED
      BY <1>2
  <2> QED
    BY <2>1 DEF Entries
<1>6. x[1] = n /\ x[2] = e
  OBVIOUS
<1> HIDE DEF old, new, x, N
<1>7. /\ DOMAIN new = 1..(N + 1) /\ DOMAIN old = 1..N /\ Len(new) = N + 1
      /\ new[N + 1] = x /\ \A i \in 1..N : new[i] = old[i]
  BY <1>4 DEF Longer, N
<1>8. \A i \in DOMAIN new : (i \in DOMAIN old /\ new[i] = old[i]) \/ (i = N + 1 /\ new[i] = x)
  BY <1>4, <1>7
<1>9. /\ TestAndSet(s.tracker, n) \in Trackers
      /\ \A m \in Nodes : Marked(r.tracker, m) <=> m = n \/ Marked(s.tracker, m)
  BY <1>1, OneIsMarked
<1>10. \A i \in DOMAIN old : old[i][1] # n
  BY <1>1 DEF MarksAre
<1>11. Distinct(new)
  BY <1>1, <1>6, <1>8, <1>10 DEF Distinct
<1>12. MarksAre(new, r.tracker)
  <2> SUFFICES ASSUME NEW m \in Nodes
               PROVE  Marked(r.tracker, m) <=> \E i \in DOMAIN new : new[i][1] = m
    BY DEF MarksAre
  <2>1. Marked(s.tracker, m) <=> \E i \in DOMAIN old : old[i][1] = m
    BY <1>1 DEF MarksAre
  <2>2. (\E i \in DOMAIN new : new[i][1] = m) <=> m = n \/ \E i \in DOMAIN old : old[i][1] = m
    <3>1. N + 1 \in DOMAIN new /\ \A i \in DOMAIN old : i \in DOMAIN new /\ new[i] = old[i]
      BY <1>4, <1>7
    <3> QED
      BY <1>6, <1>7, <1>8, <3>1
  <2> QED
    BY <1>9, <2>1, <2>2
<1>13. Sorted(new)
  <2> SUFFICES ASSUME NEW i \in DOMAIN new, NEW j \in DOMAIN new, i <= j
               PROVE  new[i][2] <= new[j][2]
    BY DEF Sorted
  <2>1. CASE j \in DOMAIN old /\ new[j] = old[j]
    <3>1. i \in DOMAIN old /\ new[i] = old[i]
      BY <1>4, <1>7, <2>1
    <3> QED
      BY <1>1, <2>1, <3>1 DEF Sorted
  <2>2. CASE new[j] = x
    BY <1>5, <1>6, <1>8, <2>2
  <2> QED
    BY <1>8, <2>1, <2>2
<1>14. Followed(new, popped, edges)
  <2> SUFFICES ASSUME NEW i \in DOMAIN new, new[i][2] # 0
               PROVE  \E j \in DOMAIN popped : /\ popped[j][2] + 1 = new[i][2]
                                               /\ <<popped[j][1], new[i][1]>> \in edges
    BY DEF Followed
  <2>1. CASE i \in DOMAIN old /\ new[i] = old[i]
    BY <1>1, <2>1 DEF Followed
  <2>2. CASE new[i] = x
    BY <1>6, <2>2
  <2> QED
    BY <1>8, <2>1, <2>2
<1>15. \A i \in DOMAIN new : new[i][2] <= limit
  BY <1>1, <1>6, <1>8
<1>16. r.admitted = Len(new) /\ r.admitted <= cap
  BY <1>1, <1>4, <1>7 DEF N
<1>17. Sound(popped, r, limit, cap, edges)
  BY <1>4, <1>9, <1>11, <1>12, <1>13, <1>14, <1>15, <1>16 DEF Sound, new
<1> QED
  BY <1>9, <1>17

(* While the neighbors of a node at depth d are admitted, no popped node   *)
(* is deeper and the waiting ones are at that depth or at the next.        *)
Stage(popped, s, d) ==
    /\ \A i \in DOMAIN popped : popped[i][2] <= d
    /\ \A i \in DOMAIN s.queue : d <= s.queue[i][2] /\ s.queue[i][2] <= d + 1

Begins(new, old) == Len(old) <= Len(new) /\ \A i \in DOMAIN old : i \in DOMAIN new /\ new[i] = old[i]

(* From s to r nothing is lost.                                            *)
Onward(r, s) ==
    /\ Begins(r.queue, s.queue) /\ s.admitted <= r.admitted
    /\ \A m \in Nodes : Marked(s.tracker, m) => Marked(r.tracker, m)

Searches == [tracker : Trackers, queue : Seq(Entries), admitted : Nat]

(* An admission changes a search into a search.                            *)
LEMMA AdmitTypes ==
    ASSUME NEW s \in Searches, NEW n \in Nodes, NEW e \in Nat
    PROVE  Admit(s, n, e) \in Searches
<1>1. s.tracker \in Trackers /\ s.queue \in Seq(Entries) /\ s.admitted \in Nat
  BY DEF Searches
<1>2. TestAndSet(s.tracker, n) \in Trackers
  BY <1>1, OneIsMarked
<1>3. <<n, e>> \in Entries
  BY DEF Entries
<1>4. Append(s.queue, <<n, e>>) \in Seq(Entries)
  BY <1>1, <1>3, AppendIsLonger
<1>5. s.admitted + 1 \in Nat
  BY <1>1
<1> DEFINE t == TestAndSet(s.tracker, n)
           q == Append(s.queue, <<n, e>>)
<1>6. Admit(s, n, e) = s \/ Admit(s, n, e) = [tracker |-> t, queue |-> q, admitted |-> s.admitted + 1]
  BY Zenon DEF Admit
<1> HIDE DEF t, q
<1>7. [tracker |-> t, queue |-> q, admitted |-> s.admitted + 1] \in Searches
  <2>1. t \in Trackers /\ q \in Seq(Entries)
    BY <1>2, <1>4 DEF t, q
  <2> QED
    BY <1>5, <2>1 DEF Searches
<1> QED
  BY <1>6, <1>7

(* The depths in the order of admission.                                   *)
LEMMA StageBounds ==
    ASSUME NEW popped \in Seq(Entries), NEW s, s.queue \in Seq(Entries), NEW d \in Nat,
           Stage(popped, s, d)
    PROVE  \A i \in DOMAIN (popped \o s.queue) : (popped \o s.queue)[i][2] <= d + 1
<1> DEFINE q == s.queue
           order == popped \o q
<1>1. q \in Seq(Entries)
  OBVIOUS
<1> HIDE DEF q
<1>2. ASSUME NEW i \in DOMAIN order
      PROVE  (i \in DOMAIN popped /\ order[i] = popped[i])
                \/ (i - Len(popped) \in DOMAIN q /\ order[i] = q[i - Len(popped)])
  BY <1>1
<1>3. /\ \A i \in DOMAIN popped : popped[i][2] <= d /\ popped[i][2] \in Nat
      /\ \A i \in DOMAIN q : q[i][2] <= d + 1
  <2>1. \A i \in DOMAIN popped : popped[i] \in Entries
    OBVIOUS
  <2> QED
    BY <2>1 DEF Stage, q, Entries
<1> HIDE DEF order
<1>4. \A i \in DOMAIN order : order[i][2] <= d + 1
  BY <1>2, <1>3
<1> QED
  BY <1>4 DEF order, q

(* One neighbor of a popped node.                                          *)
LEMMA AdmitKeeps ==
    ASSUME NEW popped \in Seq(Entries), NEW s \in Searches, NEW limit \in Nat, maxNodes \in Nat,
           NEW edges, NEW n \in Nodes, NEW d \in Nat, d < limit,
           Sound(popped, s, limit, maxNodes, edges), Stage(popped, s, d),
           \E j \in DOMAIN popped : popped[j][2] = d /\ <<popped[j][1], n>> \in edges
    PROVE  LET r == Admit(s, n, d + 1)
           IN  /\ Sound(popped, r, limit, maxNodes, edges) /\ Stage(popped, r, d)
               /\ Onward(r, s)
               /\ r.admitted < maxNodes => Marked(r.tracker, n)
<1> DEFINE r == Admit(s, n, d + 1)
<1>1. s.queue \in Seq(Entries) /\ s.tracker \in Trackers /\ s.admitted \in Nat
  BY DEF Searches
<1>2. CASE s.admitted >= maxNodes \/ Marked(s.tracker, n)
  <2>1. r = s
    BY <1>2 DEF Admit
  <2>2. Onward(s, s)
    BY <1>1 DEF Onward, Begins
  <2> HIDE DEF r
  <2>3. r.admitted < maxNodes => Marked(r.tracker, n)
    BY <1>1, <1>2, <2>1
  <2> QED
    BY <2>1, <2>2, <2>3 DEF r
<1>3. CASE ~(s.admitted >= maxNodes \/ Marked(s.tracker, n))
  <2> DEFINE x == <<n, d + 1>>
  <2>1. r = [tracker |-> TestAndSet(s.tracker, n), queue |-> Append(s.queue, x),
             admitted |-> s.admitted + 1]
    BY <1>3 DEF Admit
  <2> HIDE DEF r
  <2>2. /\ r.tracker = TestAndSet(s.tracker, n) /\ r.queue = Append(s.queue, x)
        /\ r.admitted = s.admitted + 1
    BY <2>1
  <2>3. ~Marked(s.tracker, n) /\ s.admitted < maxNodes /\ d + 1 <= limit /\ d + 1 \in Nat
    BY <1>1, <1>3
  <2>4. \A i \in DOMAIN (popped \o s.queue) : (popped \o s.queue)[i][2] <= d + 1
    BY <1>1, StageBounds
  <2>5. \E j \in DOMAIN popped : popped[j][2] + 1 = d + 1 /\ <<popped[j][1], n>> \in edges
    OBVIOUS
  <2>6. /\ Sound(popped, r, limit, maxNodes, edges) /\ Marked(r.tracker, n)
        /\ \A m \in Nodes : Marked(s.tracker, m) => Marked(r.tracker, m)
    <3> DEFINE e == d + 1
    <3>1. /\ e \in Nat /\ e <= limit /\ r.queue = Append(s.queue, <<n, e>>)
          /\ (\A i \in DOMAIN (popped \o s.queue) : (popped \o s.queue)[i][2] <= e)
          /\ (e # 0 => \E j \in DOMAIN popped : popped[j][2] + 1 = e /\ <<popped[j][1], n>> \in edges)
      BY <2>2, <2>3, <2>4, <2>5, Zenon
    <3> HIDE DEF e
    <3> QED
      BY <2>2, <2>3, <3>1, AdmissionIsSound
  <2>7. x \in Entries /\ x[2] = d + 1
    BY DEF Entries
  <2> HIDE DEF x
  <2>8. Longer(r.queue, s.queue, x) /\ Len(s.queue) \in Nat
    <3>1. Longer(Append(s.queue, x), s.queue, x) /\ Len(s.queue) \in Nat
      BY <1>1, <2>7, AppendIsLonger
    <3> QED
      BY <2>2, <3>1, Zenon
  <2>9. Stage(popped, r, d)
    <3>1. \A i \in DOMAIN r.queue : (i \in DOMAIN s.queue /\ r.queue[i] = s.queue[i]) \/ r.queue[i] = x
      <4> DEFINE N == Len(s.queue)
      <4>1. /\ N \in Nat /\ DOMAIN r.queue = 1..(N + 1) /\ DOMAIN s.queue = 1..N
            /\ r.queue[N + 1] = x /\ \A i \in 1..N : r.queue[i] = s.queue[i]
        BY <2>8, Zenon DEF Longer
      <4> HIDE DEF N
      <4> QED
        BY <4>1
    <3> QED
      BY <2>7, <3>1 DEF Stage
  <2>10. Onward(r, s)
    <3>1. Begins(r.queue, s.queue)
      BY <2>8 DEF Longer, Begins
    <3>2. s.admitted <= r.admitted
      BY <1>1, <2>2
    <3> QED
      BY <2>6, <3>1, <3>2 DEF Onward
  <2> QED
    BY <2>6, <2>9, <2>10 DEF r
<1> QED
  BY <1>2, <1>3

Admits(f, s, neighbors, e) ==
    f = [i \in 0..Len(neighbors) |-> IF i = 0 THEN s ELSE Admit(f[i - 1], neighbors[i], e)]

AdmitsUpTo(f, s, neighbors, e) ==
    /\ f \in [0..Len(neighbors) -> Searches]
    /\ f[0] = s
    /\ \A i \in 1..Len(neighbors) : f[i] = Admit(f[i - 1], neighbors[i], e)

(* AdmitAll admits one neighbor after the other.                           *)
LEMMA AdmitAllUnfolds ==
    ASSUME NEW s \in Searches, NEW neighbors \in Seq(Nodes), NEW e \in Nat
    PROVE  \E f : AdmitsUpTo(f, s, neighbors, e) /\ AdmitAll(s, neighbors, e) = f[Len(neighbors)]
<1> DEFINE n == Len(neighbors)
           More(i, v) == Admit(v, neighbors[i], e)
           step == [p \in (1..n) \X Searches |-> More(p[1], p[2])]
<1>1. n \in Nat /\ \A i \in 1..n : neighbors[i] \in Nodes
  OBVIOUS
<1>2. \A i \in 1..n : \A v \in Searches : More(i, v) \in Searches
  BY <1>1, AdmitTypes
<1>3. \A i \in 1..n : \A v \in Searches : step[<<i, v>>] = More(i, v)
  <2> HIDE DEF More, n
  <2> QED
    OBVIOUS
<1>4. \E f : Runs(f, n, Searches, s, step)
  <2>1. \A i \in 1..n : \A v \in Searches : step[<<i, v>>] \in Searches
    <3> HIDE DEF step, More, n
    <3> QED
      BY <1>2, <1>3
  <2> HIDE DEF step, n
  <2> QED
    BY <1>1, <2>1, Recursion
<1>5. PICK f : Runs(f, n, Searches, s, step)
  BY <1>4
<1>6. f \in [0..n -> Searches] /\ f[0] = s /\ \A i \in 1..n : f[i] = More(i, f[i - 1])
  <2>1. \A i \in 1..n : i - 1 \in 0..n
    BY <1>1
  <2> HIDE DEF step, More, n
  <2> QED
    BY <1>3, <1>5, <2>1 DEF Runs
<1>7. Admits(f, s, neighbors, e)
  <2>1. f = [i \in 0..n |-> f[i]]
    BY <1>6
  <2>2. \A i \in 0..n : f[i] = IF i = 0 THEN s ELSE More(i, f[i - 1])
    <3>1. \A i \in 0..n : i = 0 \/ i \in 1..n
      BY <1>1
    <3> HIDE DEF More, n
    <3> QED
      BY <1>6, <3>1
  <2>3. f = [i \in 0..n |-> IF i = 0 THEN s ELSE More(i, f[i - 1])]
    <3> HIDE DEF More, n
    <3> QED
      BY <2>1, <2>2
  <2> QED
    BY <2>3, Zenon DEF Admits
<1> DEFINE g == CHOOSE h : Admits(h, s, neighbors, e)
<1>8. Admits(g, s, neighbors, e) /\ AdmitAll(s, neighbors, e) = g[n]
  BY <1>7, Zenon DEF Admits, AdmitAll
<1> HIDE DEF g
<1>9. g = [i \in 0..n |-> IF i = 0 THEN s ELSE More(i, g[i - 1])]
  BY <1>8, Zenon DEF Admits
<1>10. g[0] = s /\ \A i \in 1..n : g[i] = More(i, g[i - 1])
  <2>1. 0 \in 0..n /\ \A i \in 1..n : i \in 0..n /\ i # 0
    BY <1>1
  <2> HIDE DEF More, n
  <2> QED
    BY <1>9, <2>1
<1>11. \A i \in 0..n : g[i] \in Searches
  <2> DEFINE T == {i \in 0..n : g[i] \in Searches}
  <2> HIDE DEF More, n
  <2>1. 0 \in T
    BY <1>1, <1>10
  <2>2. \A i \in 1..n : i - 1 \in T => i \in T
    BY <1>1, <1>2, <1>10
  <2>3. \A i \in 0..n : i \in T
    <3> HIDE DEF T
    <3> QED
      BY <1>1, <2>1, <2>2, UpTo
  <2> QED
    BY <2>3
<1>12. AdmitsUpTo(g, s, neighbors, e)
  <2>1. g \in [0..n -> Searches]
    <3> HIDE DEF More, n
    <3> QED
      BY <1>9, <1>11
  <2> QED
    BY <1>10, <2>1, Zenon DEF AdmitsUpTo
<1> QED
  BY <1>8, <1>12

(* All neighbors of a popped node.                                         *)
LEMMA AdmitAllKeeps ==
    ASSUME NEW popped \in Seq(Entries), NEW s \in Searches, NEW limit \in Nat, maxNodes \in Nat,
           NEW edges, NEW neighbors \in Seq(Nodes), NEW d \in Nat, d < limit,
           Sound(popped, s, limit, maxNodes, edges), Stage(popped, s, d),
           \A i \in DOMAIN neighbors :
              \E j \in DOMAIN popped : popped[j][2] = d /\ <<popped[j][1], neighbors[i]>> \in edges
    PROVE  LET r == AdmitAll(s, neighbors, d + 1)
           IN  /\ r \in Searches
               /\ Sound(popped, r, limit, maxNodes, edges) /\ Stage(popped, r, d)
               /\ Onward(r, s)
               /\ r.admitted < maxNodes =>
                     \A i \in DOMAIN neighbors : Marked(r.tracker, neighbors[i])
<1> DEFINE n == Len(neighbors)
<1>1. PICK f : AdmitsUpTo(f, s, neighbors, d + 1) /\ AdmitAll(s, neighbors, d + 1) = f[n]
  <2>1. d + 1 \in Nat
    OBVIOUS
  <2> QED
    BY <2>1, AdmitAllUnfolds
<1>2. /\ f \in [0..n -> Searches] /\ f[0] = s
      /\ \A i \in 1..n : f[i] = Admit(f[i - 1], neighbors[i], d + 1)
  BY <1>1 DEF AdmitsUpTo
<1>3. n \in Nat /\ DOMAIN neighbors = 1..n /\ \A i \in 1..n : neighbors[i] \in Nodes
  OBVIOUS
<1> HIDE DEF n
<1> DEFINE Good(i) ==
              /\ Sound(popped, f[i], limit, maxNodes, edges) /\ Stage(popped, f[i], d)
              /\ Onward(f[i], s)
              /\ f[i].admitted < maxNodes => \A k \in 1..i : Marked(f[i].tracker, neighbors[k])
           T == {i \in 0..n : Good(i)}
<1>4. 0 \in T
  <2>1. s.queue \in Seq(Entries) /\ s.admitted \in Nat
    BY DEF Searches
  <2>2. Onward(s, s)
    BY <2>1 DEF Onward, Begins
  <2>3. Good(0)
    BY <1>2, <2>2
  <2> QED
    BY <1>3, <2>3
<1>5. ASSUME NEW i \in 1..n, i - 1 \in T PROVE i \in T
  <2> DEFINE before == f[i - 1]
             after == f[i]
             m == neighbors[i]
  <2>1. Good(i - 1) /\ i \in 0..n /\ i - 1 \in 0..n
    BY <1>3, <1>5
  <2>2. before \in Searches /\ after \in Searches /\ m \in Nodes /\ after = Admit(before, m, d + 1)
    BY <1>2, <1>3, <2>1
  <2>3. \E j \in DOMAIN popped : popped[j][2] = d /\ <<popped[j][1], m>> \in edges
    BY <1>3
  <2>4. /\ Sound(popped, before, limit, maxNodes, edges) /\ Stage(popped, before, d)
        /\ Onward(before, s)
        /\ before.admitted < maxNodes => \A k \in 1..(i - 1) : Marked(before.tracker, neighbors[k])
    BY <2>1
  <2> HIDE DEF before, after, m
  <2>5. /\ Sound(popped, after, limit, maxNodes, edges) /\ Stage(popped, after, d)
        /\ Onward(after, before)
        /\ after.admitted < maxNodes => Marked(after.tracker, m)
    BY <2>2, <2>3, <2>4, AdmitKeeps
  <2>6. before.admitted \in Nat /\ after.admitted \in Nat /\ s.admitted \in Nat
    BY <2>2 DEF Searches
  <2>7. Onward(after, s)
    <3>1. Len(s.queue) \in Nat /\ Len(before.queue) \in Nat /\ Len(after.queue) \in Nat
      BY <2>2 DEF Searches
    <3>2. Begins(after.queue, s.queue)
      BY <2>4, <2>5, <3>1 DEF Onward, Begins
    <3> QED
      BY <2>4, <2>5, <2>6, <3>2 DEF Onward
  <2>8. after.admitted < maxNodes => \A k \in 1..i : Marked(after.tracker, neighbors[k])
    <3> SUFFICES ASSUME after.admitted < maxNodes, NEW k \in 1..i
                 PROVE  Marked(after.tracker, neighbors[k])
      OBVIOUS
    <3>1. CASE k = i
      BY <2>5, <3>1 DEF m
    <3>2. CASE k # i
      <4>1. k \in 1..(i - 1) /\ neighbors[k] \in Nodes
        BY <1>3, <3>2
      <4>2. before.admitted < maxNodes
        BY <2>5, <2>6 DEF Onward
      <4>3. Marked(before.tracker, neighbors[k])
        BY <2>4, <4>1, <4>2
      <4> QED
        BY <2>5, <4>1, <4>3 DEF Onward
    <3> QED
      BY <3>1, <3>2
  <2>9. Good(i)
    BY <2>5, <2>7, <2>8 DEF after
  <2> HIDE DEF Good
  <2> QED
    BY <2>1, <2>9
<1>6. \A i \in 0..n : i \in T
  <2> HIDE DEF T
  <2> QED
    BY <1>3, <1>4, <1>5, UpTo
<1>7. Good(n)
  <2> HIDE DEF Good
  <2> QED
    BY <1>3, <1>6
<1>8. f[n] \in Searches
  BY <1>2, <1>3
<1> QED
  BY <1>1, <1>3, <1>7, <1>8, Zenon

(***************************************************************************)
(* What the neighbors of a node are read to be.                            *)
(***************************************************************************)
(* The values of a function on a finite set are finitely many.             *)
LEMMA ImageIsFinite ==
    ASSUME NEW S, IsFiniteSet(S), NEW f, DOMAIN f = S, f = [x \in S |-> f[x]]
    PROVE  IsFiniteSet({f[x] : x \in S})
<1> DEFINE T == {f[x] : x \in S}
<1>1. f \in [S -> T]
  OBVIOUS
<1>2. f \in Surjection(S, T)
  BY <1>1 DEF Surjection
<1>3. IsFiniteSet(T)
  <2> HIDE DEF T
  <2> QED
    BY <1>2, FS_Surjection
<1> QED
  BY <1>3

(* A sequence without repetitions as long as a finite set has all of it.   *)
LEMMA OrdersHaveAll ==
    ASSUME NEW S, IsFiniteSet(S), NEW order \in SetToSeqs(S)
    PROVE  order \in Seq(S) /\ ToSet(order) = S
<1> DEFINE n == Cardinality(S)
<1>1. n \in Nat
  BY FS_CardinalityType
<1>2. order \in [1..n -> S] /\ \A i, j \in 1..n : i # j => order[i] # order[j]
  BY DEF SetToSeqs
<1>3. order \in Injection(1..n, S)
  <2> HIDE DEF n
  <2> QED
    BY <1>2 DEF Injection, IsInjective
<1>4. Cardinality(1..n) = n
  <2> HIDE DEF n
  <2> QED
    BY <1>1, FS_Interval
<1>5. order \in Surjection(1..n, S)
  BY <1>3, <1>4, FS_Injection
<1> HIDE DEF n
<1>6. order \in Seq(S) /\ DOMAIN order = 1..n
  BY <1>1, <1>2
<1>7. \A x \in S : \E i \in 1..n : order[i] = x
  BY <1>5 DEF Surjection
<1> QED
  BY <1>2, <1>6, <1>7 DEF ToSet

(* The elements of two sequences one after the other.                      *)
LEMMA ConcatElements ==
    ASSUME NEW V, NEW s \in Seq(V), NEW t \in Seq(V)
    PROVE  s \o t \in Seq(V) /\ ToSet(s \o t) = ToSet(s) \cup ToSet(t)
<1> DEFINE u == s \o t
           n == Len(s)
           m == Len(t)
<1>1. /\ n \in Nat /\ m \in Nat /\ u \in Seq(V) /\ DOMAIN u = 1..(n + m)
      /\ DOMAIN s = 1..n /\ DOMAIN t = 1..m
      /\ (\A i \in 1..n : u[i] = s[i]) /\ (\A i \in 1..m : u[n + i] = t[i])
  OBVIOUS
<1> HIDE DEF u, n, m
<1>2. ASSUME NEW i \in 1..(n + m) PROVE u[i] \in ToSet(s) \cup ToSet(t)
  <2>1. CASE i \in 1..n
    BY <1>1, <2>1 DEF ToSet
  <2>2. CASE i \notin 1..n
    <3>1. i - n \in 1..m /\ n + (i - n) = i
      BY <1>1, <2>2
    <3>2. u[i] = t[i - n]
      BY <1>1, <3>1
    <3> QED
      BY <1>1, <3>1, <3>2 DEF ToSet
  <2> QED
    BY <2>1, <2>2
<1>3. \A x \in ToSet(s) : x \in ToSet(u)
  BY <1>1 DEF ToSet
<1>4. \A x \in ToSet(t) : x \in ToSet(u)
  <2>1. \A i \in 1..m : n + i \in 1..(n + m)
    BY <1>1
  <2> QED
    BY <1>1, <2>1 DEF ToSet
<1>5. ToSet(u) \subseteq ToSet(s) \cup ToSet(t)
  <2>1. \A x \in ToSet(u) : \E i \in 1..(n + m) : x = u[i]
    BY <1>1 DEF ToSet
  <2> QED
    BY <1>2, <2>1
<1>6. ToSet(u) = ToSet(s) \cup ToSet(t)
  BY <1>3, <1>4, <1>5
<1> QED
  BY <1>1, <1>6 DEF u

(* The base edges of a node are its slice.                                 *)
LEMMA SliceIsBase ==
    ASSUME base \in [BaseNodes -> Seq(BaseNodes)], NEW node \in Nodes
    PROVE  /\ Slice(node) \in Seq(BaseNodes)
           /\ \A m : <<node, m>> \in BaseEdges <=> m \in ToSet(Slice(node))
<1>1. Slice(node) \in Seq(BaseNodes)
  <2>1. <<>> \in Seq(BaseNodes)
    OBVIOUS
  <2> QED
    BY <2>1 DEF Slice
<1>2. \A a, m : <<a, m>> \in BaseEdges <=> a \in BaseNodes /\ m \in ToSet(base[a])
  BY DEF BaseEdges
<1>3. node \notin BaseNodes => ToSet(Slice(node)) = {}
  BY DEF Slice, ToSet
<1> QED
  BY <1>1, <1>2, <1>3 DEF Slice

BaseNodesAreNodes == BaseNodes \subseteq Nat /\ BaseNodes \subseteq Nodes

LEMMA NodesAreNumbers == BaseNodesAreNodes /\ Nodes \subseteq Nat
BY BfsAssumption DEF BaseNodesAreNodes, BaseNodes, Nodes

(* A subset's sequences are sequences of the set.                          *)
LEMMA SeqGrows ==
    ASSUME NEW V, NEW W, V \subseteq W, NEW s \in Seq(V)
    PROVE  s \in Seq(W)
<1>1. Len(s) \in Nat /\ s \in [1..Len(s) -> V]
  OBVIOUS
<1>2. s \in [1..Len(s) -> W]
  BY <1>1
<1> QED
  BY <1>1, <1>2

(* Whatever is read is an edge that is shown now, or shown by the base, and*)
(* edges that were shown all along are read or lead to marked nodes.       *)
LEMMA NeighborsRead ==
    ASSUME GraphTypes, HistoryIsTrue, machine \in Machines, fast \in BOOLEAN, tracker \in Trackers,
           NEW node \in Nodes, NEW neighbors \in ReadNeighbors(node)
    PROVE  /\ neighbors \in Seq(Nodes)
           /\ \A m \in ToSet(neighbors) : <<node, m>> \in ever
           /\ \A m \in Nodes : <<node, m>> \in always => m \in ToSet(neighbors) \/ Marked(tracker, m)
<1> DEFINE slice == Slice(node)
<1>1. slice \in Seq(BaseNodes) /\ \A m : <<node, m>> \in BaseEdges <=> m \in ToSet(slice)
  BY SliceIsBase DEF GraphTypes
<1>2. slice \in Seq(Nat) /\ slice \in Seq(Nodes)
  <2> HIDE DEF slice
  <2> QED
    BY <1>1, NodesAreNumbers, SeqGrows DEF BaseNodesAreNodes
<1> HIDE DEF slice
<1>3. CASE fast
  <2> DEFINE set == Passing(tracker.words)
  <2>1. neighbors = Filtered(node)
    BY <1>3 DEF ReadNeighbors
  <2>2. SelectBackend(machine) \in Backends
    BY DEF SelectBackend, Backends, Machines
  <2>3. Filtered(node) = Keep(slice, set)
    BY <1>2, <2>2, FiltersAgree DEF Filtered, ScalarFilter, Passing, slice
  <2>4. ToSet(neighbors) = ToSet(slice) \cap set /\ neighbors \in Seq(Nodes)
    <3> HIDE DEF set
    <3> QED
      BY <1>2, <2>1, <2>3, KeepElements
  <2>5. \A m \in ToSet(neighbors) : <<node, m>> \in ever
    BY <1>1, <1>3, <2>4 DEF HistoryIsTrue
  <2>6. ASSUME NEW m \in Nodes, <<node, m>> \in always, m \notin ToSet(neighbors)
        PROVE  Marked(tracker, m)
    <3>1. m \in ToSet(slice)
      BY <1>1, <1>3, <2>6 DEF HistoryIsTrue
    <3>2. m \in BaseNodes
      BY <1>1, <3>1 DEF ToSet
    <3>3. m \in Nat /\ m < tracker.capacity /\ Len(tracker.words) = WordCount(NodeCount)
      BY <3>2, BfsAssumption DEF BaseNodes, Trackers
    <3>4. InRange(tracker.words, m)
      BY <3>2, <3>3, NodeHasWord DEF InRange
    <3>5. m \notin set
      BY <2>4, <2>6, <3>1
    <3>6. BitOf(m) \in tracker.words[WordOf(m)]
      BY <3>3, <3>4, <3>5 DEF Passing
    <3> QED
      BY <3>3, <3>6 DEF Marked
  <2> QED
    BY <2>4, <2>5, <2>6
<1>4. CASE ~fast
  <2> DEFINE set == {m \in Nodes : <<node, m>> \notin dels}
             kept == Keep(slice, set)
             inserted == {m \in Nodes : <<node, m>> \in ins} \ ToSet(kept)
  <2>1. PICK order \in SetToSeqs(inserted) : neighbors = kept \o order
    BY <1>4, Zenon DEF ReadNeighbors, Merged, slice
  <2>2. kept \in Seq(Nodes) /\ ToSet(kept) = ToSet(slice) \cap set
    <3> HIDE DEF set
    <3> QED
      BY <1>2, KeepElements
  <2>3. IsFiniteSet(inserted)
    <3> DEFINE f == [e \in ins |-> e[2]]
               ends == {f[e] : e \in ins}
    <3>1. IsFiniteSet(ends)
      <4>1. DOMAIN f = ins /\ f = [e \in ins |-> f[e]] /\ IsFiniteSet(ins)
        BY DEF GraphTypes
      <4> HIDE DEF f
      <4> QED
        BY <4>1, ImageIsFinite
    <3>2. inserted \in SUBSET ends
      <4>1. \A m \in Nodes : <<node, m>> \in ins => m \in ends
        <5> SUFFICES ASSUME NEW m \in Nodes, <<node, m>> \in ins PROVE m \in ends
          OBVIOUS
        <5>1. f[<<node, m>>] = m
          OBVIOUS
        <5> HIDE DEF f
        <5> QED
          BY <5>1
      <4> HIDE DEF ends, kept
      <4> QED
        BY <4>1
    <3> HIDE DEF inserted, ends
    <3> QED
      BY <3>1, <3>2, FS_Subset
  <2>4. order \in Seq(inserted) /\ ToSet(order) = inserted
    <3> HIDE DEF inserted
    <3> QED
      BY <2>1, <2>3, OrdersHaveAll
  <2>5. inserted \subseteq Nodes
    OBVIOUS
  <2>6. order \in Seq(Nodes)
    <3> HIDE DEF inserted
    <3> QED
      BY <2>4, <2>5, SeqGrows
  <2>7. neighbors \in Seq(Nodes) /\ ToSet(neighbors) = ToSet(kept) \cup ToSet(order)
    <3> HIDE DEF kept
    <3> QED
      BY <2>1, <2>2, <2>6, ConcatElements
  <2>8. \A m \in Nodes : m \in ToSet(neighbors) <=> <<node, m>> \in Shown
    <3>1. \A m \in Nodes : m \in ToSet(neighbors) <=> m \in ToSet(kept) \/ <<node, m>> \in ins
      <4> HIDE DEF kept
      <4> QED
        BY <2>4, <2>7
    <3>2. \A m \in Nodes : m \in ToSet(kept) <=> <<node, m>> \in BaseEdges \ dels
      <4> HIDE DEF kept
      <4> QED
        BY <1>1, <2>2
    <3> HIDE DEF kept
    <3> QED
      BY <3>1, <3>2 DEF Shown
  <2>9. ToSet(neighbors) \subseteq Nodes
    BY <2>7 DEF ToSet
  <2> HIDE DEF kept, inserted, set
  <2> QED
    BY <2>7, <2>8, <2>9 DEF HistoryIsTrue
<1> QED
  BY <1>3, <1>4

(***************************************************************************)
(* The levels.                                                             *)
(***************************************************************************)
FlattensLast(seqs, x) ==
    /\ FlattenSeq(seqs) \in Seq(Nodes)
    /\ FlattenSeq(Append(seqs, x)) = FlattenSeq(seqs) \o x

(* A further level comes last.                                             *)
LEMMA FlattenAppend ==
    ASSUME NEW seqs \in Seq(Seq(Nodes)), NEW x \in Seq(Nodes)
    PROVE  FlattensLast(seqs, x)
<1> DEFINE more == Append(seqs, x)
           n == Len(seqs)
           W == Seq(Nodes)
<1>1. /\ n \in Nat /\ more \in Seq(W) /\ more # <<>> /\ Len(more) = n + 1
      /\ more[n + 1] = x /\ (\A i \in 1..n : more[i] = seqs[i]) /\ seqs \in Seq(W) /\ x \in W
  <2>1. seqs \in Seq(W) /\ x \in W
    OBVIOUS
  <2> HIDE DEF W
  <2> QED
    BY <2>1
<1>2. PICK g : FlattensUpTo(g, Nodes, more) /\ FlattenSeq(more) = g[Len(more)]
  <2>1. more \in Seq(Seq(Nodes)) /\ more # <<>>
    BY <1>1
  <2> HIDE DEF more
  <2> QED
    BY <2>1, FlattenUnfolds
<1> HIDE DEF more
<1>3. /\ g[1] = more[1] /\ \A i \in 2..(n + 1) : g[i] = g[i - 1] \o more[i]
  BY <1>1, <1>2 DEF FlattensUpTo
<1>4. CASE seqs = <<>>
  <2>1. n = 0 /\ <<>> \in W /\ <<>> \o x = x
    BY <1>1, <1>4
  <2>2. FlattenSeq(seqs) = <<>>
    BY <1>4, <2>1 DEF FlattenSeq
  <2>3. FlattenSeq(more) = x
    BY <1>1, <1>2, <1>3, <2>1
  <2> QED
    BY <2>1, <2>2, <2>3, Zenon DEF FlattensLast, more
<1>5. CASE seqs # <<>>
  <2>1. PICK f : FlattensUpTo(f, Nodes, seqs) /\ FlattenSeq(seqs) = f[n]
    BY <1>5, FlattenUnfolds
  <2>2. /\ f \in [1..n -> W] /\ f[1] = seqs[1] /\ \A i \in 2..n : f[i] = f[i - 1] \o seqs[i]
    BY <2>1 DEF FlattensUpTo
  <2>3. n \in 1..n
    BY <1>1, <1>5
  <2> HIDE DEF n, W
  <2> DEFINE T == {0} \cup {i \in 1..n : g[i] = f[i]}
  <2>4. ASSUME NEW i \in 1..n, i - 1 \in T PROVE i \in T
    <3>1. CASE i = 1
      BY <1>1, <1>3, <2>2, <3>1
    <3>2. CASE i # 1
      <4>1. i \in 2..n /\ i \in 2..(n + 1) /\ i - 1 # 0
        BY <1>1, <3>2
      <4>2. g[i - 1] = f[i - 1] /\ more[i] = seqs[i]
        BY <1>1, <2>4, <4>1
      <4>3. g[i] = g[i - 1] \o more[i] /\ f[i] = f[i - 1] \o seqs[i]
        BY <1>3, <2>2, <4>1
      <4>4. g[i] = f[i]
        BY <4>2, <4>3, Zenon
      <4> QED
        BY <4>4
    <3> QED
      BY <3>1, <3>2
  <2>5. \A i \in 0..n : i \in T
    <3>1. 0 \in T
      OBVIOUS
    <3> HIDE DEF T
    <3> QED
      BY <1>1, <2>4, <3>1, UpTo
  <2>6. g[n] = f[n] /\ n + 1 \in 2..(n + 1) /\ (n + 1) - 1 = n
    BY <1>1, <2>3, <2>5
  <2>7. g[n + 1] = g[n] \o more[n + 1]
    BY <1>3, <2>6
  <2>8. FlattenSeq(more) = FlattenSeq(seqs) \o x
    BY <1>1, <1>2, <2>1, <2>6, <2>7, Zenon
  <2>9. FlattenSeq(seqs) \in W
    BY <2>1, <2>2, <2>3
  <2> QED
    BY <2>8, <2>9, Zenon DEF FlattensLast, more, W
<1> QED
  BY <1>4, <1>5

NamesLast(entries, x) ==
    /\ Names(entries) \in Seq(Nodes) /\ x[1] \in Nodes
    /\ Names(Append(entries, x)) = Append(Names(entries), x[1])

(* A further entry has its node last.                                      *)
LEMMA NamesAppend ==
    ASSUME NEW entries \in Seq(Entries), NEW x \in Entries
    PROVE  NamesLast(entries, x)
<1> DEFINE more == Append(entries, x)
           names == Names(entries)
           n == Len(entries)
           a == Names(more)
           b == Append(names, x[1])
<1>1. /\ n \in Nat /\ DOMAIN entries = 1..n /\ DOMAIN more = 1..(n + 1)
      /\ more[n + 1] = x /\ \A i \in 1..n : more[i] = entries[i]
  OBVIOUS
<1>2. x[1] \in Nodes /\ \A i \in 1..n : entries[i][1] \in Nodes
  <2>1. \A i \in 1..n : entries[i] \in Entries
    OBVIOUS
  <2> QED
    BY <2>1 DEF Entries
<1> HIDE DEF n, more
<1>3. names \in [1..n -> Nodes] /\ \A i \in 1..n : names[i] = entries[i][1]
  BY <1>1, <1>2 DEF Names
<1>4. names \in Seq(Nodes) /\ Len(names) = n
  BY <1>1, <1>3
<1>5. a = [i \in 1..(n + 1) |-> more[i][1]]
  BY <1>1 DEF Names
<1> HIDE DEF names
<1>6. /\ b \in Seq(Nodes) /\ DOMAIN b = 1..(n + 1) /\ b[n + 1] = x[1]
      /\ \A i \in 1..n : b[i] = names[i]
  BY <1>2, <1>4
<1>7. b = [i \in 1..(n + 1) |-> b[i]]
  <2>1. \A s \in Seq(Nodes) : s = [i \in DOMAIN s |-> s[i]]
    OBVIOUS
  <2>2. b = [i \in DOMAIN b |-> b[i]]
    BY <1>6, <2>1
  <2> QED
    BY <1>6, <2>2
<1> HIDE DEF b
<1>8. \A i \in 1..(n + 1) : b[i] = more[i][1]
  <2>1. \A i \in 1..(n + 1) : i \in 1..n \/ i = n + 1
    BY <1>1
  <2> QED
    BY <1>1, <1>3, <1>6, <2>1
<1>9. a = b
  BY <1>5, <1>7, <1>8
<1> QED
  BY <1>2, <1>4, <1>9 DEF NamesLast, b, more, names

(***************************************************************************)
(* The initial states.                                                     *)
(***************************************************************************)
LEMMA BaseEdgesArePairs ==
    ASSUME base \in [BaseNodes -> Seq(BaseNodes)]
    PROVE  BaseEdges \in SUBSET Pairs
<1>1. \A n \in BaseNodes : ToSet(base[n]) \subseteq BaseNodes
  BY DEF ToSet
<1>2. BaseNodes \subseteq Nodes
  BY DEF Nodes
<1> QED
  BY <1>1, <1>2 DEF BaseEdges, Pairs

LEMMA InitIsInv == Init => Inv
<1> SUFFICES ASSUME Init PROVE Inv
  OBVIOUS
<1>1. /\ base \in Bases /\ starts \in StartLists /\ maxDepth \in Depths /\ maxNodes \in Caps
      /\ (ins = {} \/ \E edge \in Mutable : ins = {edge})
      /\ (dels = {} \/ \E edge \in BaseEdges : dels = {edge})
      /\ at = "admit" /\ machine \in Searchers /\ tracker = NewVisited(NodeCount)
      /\ admitted = 0 /\ queue = <<>> /\ fast = FALSE /\ visited = <<>> /\ levels = <<>>
      /\ level = <<>> /\ depth = 0 /\ always = Shown /\ ever = Shown
  BY DEF Init
<1>2. /\ base \in [BaseNodes -> Seq(BaseNodes)] /\ starts \in Seq(Nodes)
      /\ maxDepth \in Nat /\ maxNodes \in Nat /\ machine \in Machines
  BY <1>1, BfsAssumption
<1>3. BaseEdges \in SUBSET Pairs
  BY <1>2, BaseEdgesArePairs
<1>4. GraphTypes
  <2>1. IsFiniteSet(ins)
    <3>1. IsFiniteSet({}) /\ \A edge : IsFiniteSet({edge})
      BY FS_EmptySet, FS_Singleton
    <3> QED
      BY <1>1, <3>1
  <2>2. ins \in SUBSET Pairs /\ dels \in SUBSET Pairs
    BY <1>1, <1>3, BfsAssumption
  <2> QED
    BY <1>1, <1>2, <1>3, <2>1, <2>2 DEF GraphTypes, Shown
<1>5. /\ <<>> \in Seq(Entries) /\ <<>> \in Seq(Nodes) /\ <<>> \in Seq(Seq(Nodes))
      /\ DOMAIN <<>> = {} /\ Len(<<>>) = 0
  OBVIOUS
<1>6. SearchTypes
  BY <1>1, <1>2, <1>5 DEF SearchTypes
<1>7. Sound(visited, Searching, maxDepth, maxNodes, ever)
  <2> DEFINE order == visited \o Searching.queue
  <2>1. /\ Searching.tracker = NewVisited(NodeCount) /\ Searching.queue = <<>>
        /\ Searching.admitted = 0
    BY <1>1 DEF Searching
  <2>2. order = <<>>
    <3>1. \A e : e = <<>> => e \o e = <<>>
      OBVIOUS
    <3> QED
      BY <1>1, <2>1, <3>1, Zenon
  <2> HIDE DEF order
  <2>3. DOMAIN order = {} /\ Len(order) = 0
    BY <1>5, <2>2
  <2>4. Distinct(order) /\ Sorted(order) /\ Followed(order, visited, ever)
        /\ \A i \in DOMAIN order : order[i][2] <= maxDepth
    BY <2>3 DEF Distinct, Sorted, Followed
  <2>5. MarksAre(order, Searching.tracker)
    BY <2>1, <2>3, NothingMarked DEF MarksAre
  <2>6. Searching.tracker \in Trackers /\ Searching.queue \in Seq(Entries)
    BY <1>5, <2>1, NothingMarked
  <2>7. Searching.admitted = Len(order) /\ Searching.admitted <= maxNodes
    BY <1>2, <2>1, <2>3
  <2> QED
    BY <2>4, <2>5, <2>6, <2>7, Zenon DEF Sound, order
<1>8. TwoDepths /\ StartsWait /\ Complete
  BY <1>1, <1>5 DEF TwoDepths, StartsWait, Complete
<1>9. HistoryIsTrue
  BY <1>1 DEF HistoryIsTrue
<1>10. LevelsAreVisited
  <2>1. FlattenSeq(levels) \o level = Names(visited)
    <3>1. FlattenSeq(levels) = <<>>
      BY <1>1, <1>5 DEF FlattenSeq
    <3>2. \A e : e = <<>> => e \o e = <<>>
      OBVIOUS
    <3>3. Names(visited) = <<>>
      BY <1>1, <1>5 DEF Names
    <3> QED
      BY <1>1, <3>1, <3>2, <3>3, Zenon
  <2> QED
    BY <1>1, <1>5, <2>1 DEF LevelsAreVisited
<1> QED
  BY <1>4, <1>6, <1>7, <1>8, <1>9, <1>10 DEF Inv

(***************************************************************************)
(* Before the loop.                                                        *)
(***************************************************************************)
(* Nothing popped, so only the waiting nodes are in the order.             *)
LEMMA NothingPopped ==
    ASSUME NEW q \in Seq(Entries), NEW e, e = <<>>
    PROVE  e \o q = q
OBVIOUS

LEMMA SoundGrows ==
    ASSUME NEW popped, NEW s, NEW limit, NEW cap, NEW edges, NEW more,
           Sound(popped, s, limit, cap, edges), edges \subseteq more
    PROVE  Sound(popped, s, limit, cap, more)
<1> DEFINE order == popped \o s.queue
<1> HIDE DEF order
<1>1. Followed(order, popped, edges) => Followed(order, popped, more)
  BY DEF Followed
<1> QED
  BY <1>1, Zenon DEF Sound, order

LEMMA AdmitStartKeeps == Inv /\ AdmitStart => Inv'
<1> SUFFICES ASSUME Inv, AdmitStart PROVE Inv'
  OBVIOUS
<1> DEFINE start == Head(starts)
           new == start \in BaseNodes /\ ~Marked(tracker, start)
<1>1. /\ GraphTypes /\ SearchTypes /\ Sound(visited, Searching, maxDepth, maxNodes, ever)
      /\ TwoDepths /\ StartsWait /\ Complete /\ HistoryIsTrue /\ LevelsAreVisited
  BY DEF Inv
<1>2. /\ at = "admit" /\ starts # <<>> /\ admitted < maxNodes /\ starts' = Tail(starts)
      /\ new => /\ tracker' = TestAndSet(tracker, start)
                /\ queue' = Append(queue, <<start, 0>>) /\ admitted' = admitted + 1
      /\ ~new => tracker' = tracker /\ queue' = queue /\ admitted' = admitted
      /\ base' = base /\ ins' = ins /\ dels' = dels /\ maxDepth' = maxDepth
      /\ maxNodes' = maxNodes /\ machine' = machine /\ at' = at /\ fast' = fast
      /\ visited' = visited /\ levels' = levels /\ level' = level /\ depth' = depth
      /\ always' = always /\ ever' = ever
  BY DEF AdmitStart, graphVars, result, history
<1>3. visited = <<>> /\ levels = <<>> /\ level = <<>> /\ depth = 0
      /\ \A i \in DOMAIN queue : queue[i][2] = 0
  BY <1>1, <1>2 DEF StartsWait
<1>4. GraphTypes'
  BY <1>1, <1>2 DEF GraphTypes
<1>5. SearchTypes'
  <2>1. Tail(starts) \in Seq(Nodes)
    BY <1>1, <1>2 DEF SearchTypes
  <2> QED
    BY <1>1, <1>2, <2>1 DEF SearchTypes
<1>6. HistoryIsTrue'
  BY <1>1, <1>2 DEF HistoryIsTrue, Shown, BaseEdges
<1>7. queue \in Seq(Entries) /\ visited \in Seq(Entries)
  BY <1>1 DEF Sound, Searching, SearchTypes
<1>8. /\ Sound(visited, Searching', maxDepth, maxNodes, ever)
      /\ \A i \in DOMAIN queue' : queue'[i][2] = 0
  <2>1. CASE ~new
    <3>1. Searching' = Searching
      BY <1>2, <2>1 DEF Searching
    <3> QED
      BY <1>1, <1>2, <1>3, <2>1, <3>1
  <2>2. CASE new
    <3> DEFINE s == Searching
               r == Searching'
    <3>1. /\ s.tracker = tracker /\ s.queue = queue /\ s.admitted = admitted
          /\ r.tracker = tracker' /\ r.queue = queue' /\ r.admitted = admitted'
      BY DEF Searching
    <3>2. start \in Nodes /\ 0 \in Nat /\ maxDepth \in Nat /\ maxNodes \in Nat /\ 0 <= maxDepth
      BY <1>1, <2>2 DEF Nodes, SearchTypes
    <3>3. visited \o s.queue = queue
      BY <1>3, <1>7, <3>1, NothingPopped
    <3> HIDE DEF s, r, start
    <3>4. \A i \in DOMAIN (visited \o s.queue) : (visited \o s.queue)[i][2] <= 0
      BY <1>3, <3>3
    <3>5. ~Marked(s.tracker, start) /\ s.admitted < maxNodes
      BY <1>2, <2>2, <3>1
    <3>6. /\ r.tracker = TestAndSet(s.tracker, start) /\ r.queue = Append(s.queue, <<start, 0>>)
          /\ r.admitted = s.admitted + 1
      BY <1>2, <2>2, <3>1
    <3>7. Sound(visited, s, maxDepth, maxNodes, ever)
      BY <1>1 DEF s
    <3>8. Sound(visited, r, maxDepth, maxNodes, ever)
      <4> DEFINE e == 0
      <4>1. /\ e \in Nat /\ e <= maxDepth /\ r.queue = Append(s.queue, <<start, e>>)
            /\ \A i \in DOMAIN (visited \o s.queue) : (visited \o s.queue)[i][2] <= e
            /\ e # 0 => \E j \in DOMAIN visited :
                           visited[j][2] + 1 = e /\ <<visited[j][1], start>> \in ever
        BY <3>2, <3>4, <3>6
      <4> HIDE DEF e
      <4> QED
        BY <1>7, <3>2, <3>5, <3>6, <3>7, <4>1, AdmissionIsSound
    <3>9. \A i \in DOMAIN queue' : queue'[i][2] = 0
      <4> DEFINE x == <<start, 0>>
      <4>1. x \in Entries /\ x[2] = 0
        BY <3>2 DEF Entries
      <4>2. queue' = Append(queue, x)
        BY <1>2, <2>2 DEF start
      <4> HIDE DEF x
      <4>3. Longer(queue', queue, x) /\ Len(queue) \in Nat
        <5>1. Longer(Append(queue, x), queue, x) /\ Len(queue) \in Nat
          BY <1>7, <4>1, AppendIsLonger
        <5> QED
          BY <4>2, <5>1, Zenon
      <4> QED
        BY <1>3, <4>1, <4>3 DEF Longer
    <3> QED
      BY <3>8, <3>9 DEF r
  <2> QED
    BY <2>1, <2>2
<1>9. Sound(visited, Searching, maxDepth, maxNodes, ever)'
  <2> DEFINE r == Searching'
  <2>1. Sound(visited', r, maxDepth', maxNodes', ever')
    <3> HIDE DEF r
    <3> QED
      BY <1>2, <1>8, Zenon DEF r
  <2> QED
    BY <2>1
<1>10. TwoDepths' /\ StartsWait'
  BY <1>2, <1>3, <1>8 DEF TwoDepths, StartsWait
<1>11. Complete'
  <2>1. DOMAIN visited' = {}
    BY <1>2, <1>3
  <2> QED
    BY <2>1 DEF Complete
<1>12. LevelsAreVisited'
  <2>1. at' # "done"
    BY <1>2
  <2> QED
    BY <1>1, <1>2, <2>1 DEF LevelsAreVisited
<1> QED
  BY <1>4, <1>5, <1>6, <1>9, <1>10, <1>11, <1>12 DEF Inv

LEMMA StartsAdmittedKeeps == Inv /\ StartsAdmitted => Inv'
<1> SUFFICES ASSUME Inv, StartsAdmitted PROVE Inv'
  OBVIOUS
<1>1. /\ GraphTypes /\ SearchTypes /\ Sound(visited, Searching, maxDepth, maxNodes, ever)
      /\ TwoDepths /\ StartsWait /\ Complete /\ HistoryIsTrue /\ LevelsAreVisited
  BY DEF Inv
<1>2. /\ at = "admit" /\ at' = IF queue = <<>> THEN "done" ELSE "probe"
      /\ base' = base /\ ins' = ins /\ dels' = dels /\ starts' = starts /\ maxDepth' = maxDepth
      /\ maxNodes' = maxNodes /\ machine' = machine /\ tracker' = tracker
      /\ admitted' = admitted /\ queue' = queue /\ fast' = fast
      /\ visited' = visited /\ levels' = levels /\ level' = level /\ depth' = depth
      /\ always' = always /\ ever' = ever
  BY DEF StartsAdmitted, graphVars, arguments, result, history
<1>3. GraphTypes' /\ SearchTypes' /\ HistoryIsTrue'
  BY <1>1, <1>2 DEF GraphTypes, SearchTypes, HistoryIsTrue, Shown, BaseEdges
<1>4. Sound(visited, Searching, maxDepth, maxNodes, ever)'
  <2>1. Searching' = Searching
    BY <1>2 DEF Searching
  <2>2. Sound(visited', Searching', maxDepth', maxNodes', ever')
    BY <1>1, <1>2, <2>1, Zenon
  <2> QED
    BY <2>2
<1>5. TwoDepths' /\ StartsWait' /\ Complete'
  BY <1>1, <1>2 DEF TwoDepths, StartsWait, Complete
<1>6. LevelsAreVisited'
  BY <1>1, <1>2 DEF LevelsAreVisited, StartsWait
<1> QED
  BY <1>3, <1>4, <1>5, <1>6 DEF Inv

LEMMA ProbeKeeps == Inv /\ Probe => Inv'
<1> SUFFICES ASSUME Inv, Probe PROVE Inv'
  OBVIOUS
<1>1. /\ GraphTypes /\ SearchTypes /\ Sound(visited, Searching, maxDepth, maxNodes, ever)
      /\ TwoDepths /\ StartsWait /\ Complete /\ HistoryIsTrue /\ LevelsAreVisited
  BY DEF Inv
<1>2. /\ at = "probe" /\ at' = "search" /\ fast' = (ins = {} /\ dels = {})
      /\ base' = base /\ ins' = ins /\ dels' = dels /\ starts' = starts /\ maxDepth' = maxDepth
      /\ maxNodes' = maxNodes /\ machine' = machine /\ tracker' = tracker
      /\ admitted' = admitted /\ queue' = queue
      /\ visited' = visited /\ levels' = levels /\ level' = level /\ depth' = depth
      /\ always' = always /\ ever' = ever
  BY DEF Probe, graphVars, arguments, result, history
<1>3. GraphTypes' /\ SearchTypes'
  BY <1>1, <1>2 DEF GraphTypes, SearchTypes
<1>4. HistoryIsTrue'
  <2>1. fast' => Shown = BaseEdges
    BY <1>2 DEF Shown
  <2>2. Shown' = Shown /\ BaseEdges' = BaseEdges
    BY <1>2 DEF Shown, BaseEdges
  <2> QED
    BY <1>1, <1>2, <2>1, <2>2 DEF HistoryIsTrue
<1>5. Sound(visited, Searching, maxDepth, maxNodes, ever)'
  <2>1. Searching' = Searching
    BY <1>2 DEF Searching
  <2>2. Sound(visited', Searching', maxDepth', maxNodes', ever')
    BY <1>1, <1>2, <2>1, Zenon
  <2> QED
    BY <2>2
<1>6. TwoDepths' /\ StartsWait' /\ Complete'
  BY <1>1, <1>2 DEF TwoDepths, StartsWait, Complete
<1>7. LevelsAreVisited'
  BY <1>1, <1>2 DEF LevelsAreVisited
<1> QED
  BY <1>3, <1>4, <1>5, <1>6, <1>7 DEF Inv

(***************************************************************************)
(* The end of the loop, and the writers.                                   *)
(***************************************************************************)
LEMMA NothingFollows ==
    ASSUME NEW s \in Seq(Nodes), NEW e, e = <<>>
    PROVE  s \o e = s
OBVIOUS

LEMMA ReturnKeeps == Inv /\ Return => Inv'
<1> SUFFICES ASSUME Inv, Return PROVE Inv'
  OBVIOUS
<1>1. /\ GraphTypes /\ SearchTypes /\ Sound(visited, Searching, maxDepth, maxNodes, ever)
      /\ TwoDepths /\ StartsWait /\ Complete /\ HistoryIsTrue /\ LevelsAreVisited
  BY DEF Inv
<1>2. /\ at = "search" /\ queue = <<>> /\ at' = "done" /\ level' = <<>>
      /\ (level = <<>> => levels' = levels) /\ (level # <<>> => levels' = Append(levels, level))
      /\ base' = base /\ ins' = ins /\ dels' = dels /\ starts' = starts /\ maxDepth' = maxDepth
      /\ maxNodes' = maxNodes /\ machine' = machine /\ tracker' = tracker
      /\ admitted' = admitted /\ queue' = queue /\ fast' = fast
      /\ visited' = visited /\ depth' = depth /\ always' = always /\ ever' = ever
  BY DEF Return, graphVars, arguments, history
<1>3. levels \in Seq(Seq(Nodes)) /\ level \in Seq(Nodes) /\ depth \in Nat
  BY <1>1 DEF SearchTypes
<1>4. GraphTypes' /\ HistoryIsTrue'
  BY <1>1, <1>2 DEF GraphTypes, HistoryIsTrue, Shown, BaseEdges
<1>5. SearchTypes'
  <2>1. levels' \in Seq(Seq(Nodes)) /\ level' \in Seq(Nodes)
    <3> DEFINE W == Seq(Nodes)
    <3>1. <<>> \in W
      OBVIOUS
    <3> HIDE DEF W
    <3>2. \A s \in Seq(W), x \in W : Append(s, x) \in Seq(W)
      OBVIOUS
    <3>3. levels \in Seq(W) /\ level \in W
      BY <1>3 DEF W
    <3>4. levels' \in Seq(W) /\ level' \in W
      BY <1>2, <3>1, <3>2, <3>3, Zenon
    <3> QED
      BY <3>4 DEF W
  <2> QED
    BY <1>1, <1>2, <2>1 DEF SearchTypes
<1>6. Sound(visited, Searching, maxDepth, maxNodes, ever)'
  <2>1. Searching' = Searching
    BY <1>2 DEF Searching
  <2>2. Sound(visited', Searching', maxDepth', maxNodes', ever')
    BY <1>1, <1>2, <2>1, Zenon
  <2> QED
    BY <2>2
<1>7. TwoDepths' /\ StartsWait' /\ Complete'
  BY <1>1, <1>2 DEF TwoDepths, StartsWait, Complete
<1>8. LevelsAreVisited'
  <2>1. FlattenSeq(levels') \o level' = Names(visited')
    <3>1. FlattensLast(levels, level)
      BY <1>3, FlattenAppend
    <3>2. FlattenSeq(levels) \in Seq(Nodes)
      BY <3>1 DEF FlattensLast
    <3>3. FlattenSeq(levels) \o level = Names(visited)
      BY <1>1 DEF LevelsAreVisited
    <3>4. CASE level = <<>>
      BY <1>2, <3>3, <3>4, Zenon
    <3>5. CASE level # <<>>
      <4>1. FlattenSeq(levels') = Names(visited)
        BY <1>2, <3>1, <3>3, <3>5, Zenon DEF FlattensLast
      <4>2. Names(visited) \in Seq(Nodes)
        <5>1. \A s, t \in Seq(Nodes) : s \o t \in Seq(Nodes)
          OBVIOUS
        <5> QED
          BY <1>3, <3>2, <3>3, <5>1, Zenon
      <4>3. FlattenSeq(levels') \o level' = FlattenSeq(levels')
        BY <1>2, <4>1, <4>2, NothingFollows
      <4> QED
        BY <1>2, <4>1, <4>3, Zenon
    <3> QED
      BY <3>4, <3>5
  <2>2. \A k \in DOMAIN levels' : \A p \in DOMAIN levels'[k] :
           \E i \in DOMAIN visited' : visited'[i] = <<levels'[k][p], k - 1>>
    <3>1. CASE level = <<>>
      BY <1>1, <1>2, <3>1 DEF LevelsAreVisited
    <3>2. CASE level # <<>>
      <4> DEFINE W == Seq(Nodes)
                 n == Len(levels)
      <4>1. Longer(levels', levels, level) /\ n \in Nat
        <5>1. levels \in Seq(W) /\ level \in W
          BY <1>3
        <5> HIDE DEF W
        <5>2. Longer(Append(levels, level), levels, level) /\ n \in Nat
          BY <5>1, AppendIsLonger
        <5> QED
          BY <1>2, <3>2, <5>2, Zenon
      <4>2. /\ DOMAIN levels' = 1..(n + 1) /\ levels'[n + 1] = level /\ DOMAIN levels = 1..n
            /\ \A k \in 1..n : levels'[k] = levels[k]
        BY <4>1 DEF Longer
      <4>3. n = depth
        BY <1>1, <1>2 DEF LevelsAreVisited
      <4>4. \A p \in DOMAIN level : \E i \in DOMAIN visited : visited[i] = <<level[p], depth>>
        BY <1>1 DEF LevelsAreVisited
      <4>5. \A k \in DOMAIN levels : \A p \in DOMAIN levels[k] :
               \E i \in DOMAIN visited : visited[i] = <<levels[k][p], k - 1>>
        BY <1>1 DEF LevelsAreVisited
      <4> HIDE DEF n
      <4>6. \A k \in 1..(n + 1) : k \in 1..n \/ (k = n + 1 /\ k - 1 = depth)
        BY <1>3, <4>3
      <4> QED
        BY <1>2, <4>2, <4>4, <4>5, <4>6
    <3> QED
      BY <3>1, <3>2
  <2>3. DOMAIN level' = {}
    BY <1>2
  <2> QED
    BY <1>1, <1>2, <2>1, <2>2, <2>3 DEF LevelsAreVisited
<1> QED
  BY <1>4, <1>5, <1>6, <1>7, <1>8 DEF Inv

(* A mutation only takes edges out of always and puts edges into ever.     *)
LEMMA MutationKeeps ==
    ASSUME Inv, Mutated, base' = base, ins' \in SUBSET Pairs, IsFiniteSet(ins'),
           dels' \in SUBSET Pairs
    PROVE  Inv'
<1>1. /\ GraphTypes /\ SearchTypes /\ Sound(visited, Searching, maxDepth, maxNodes, ever)
      /\ TwoDepths /\ StartsWait /\ Complete /\ HistoryIsTrue /\ LevelsAreVisited
  BY DEF Inv
<1>2. /\ always' = always \cap Shown' /\ ever' = ever \cup Shown'
      /\ starts' = starts /\ maxDepth' = maxDepth /\ at' = at
      /\ maxNodes' = maxNodes /\ machine' = machine /\ tracker' = tracker
      /\ admitted' = admitted /\ queue' = queue /\ fast' = fast
      /\ visited' = visited /\ levels' = levels /\ level' = level /\ depth' = depth
  BY DEF Mutated, arguments, result
<1>3. BaseEdges' = BaseEdges /\ BaseEdges \in SUBSET Pairs
  BY <1>1, BaseEdgesArePairs DEF BaseEdges, GraphTypes
<1>4. Shown' \in SUBSET Pairs
  BY <1>3 DEF Shown
<1>5. GraphTypes'
  BY <1>1, <1>2, <1>4 DEF GraphTypes
<1>6. SearchTypes' /\ TwoDepths' /\ StartsWait' /\ LevelsAreVisited'
  BY <1>1, <1>2 DEF SearchTypes, TwoDepths, StartsWait, LevelsAreVisited
<1>7. Sound(visited, Searching, maxDepth, maxNodes, ever)'
  <2>1. Searching' = Searching /\ ever \subseteq ever'
    BY <1>2 DEF Searching
  <2>2. Sound(visited, Searching, maxDepth, maxNodes, ever')
    BY <1>1, <2>1, SoundGrows
  <2>3. Sound(visited', Searching', maxDepth', maxNodes', ever')
    BY <1>2, <2>1, <2>2, Zenon
  <2> QED
    BY <2>3
<1>8. HistoryIsTrue'
  BY <1>1, <1>2, <1>3 DEF HistoryIsTrue
<1>9. Complete'
  BY <1>1, <1>2 DEF Complete
<1> QED
  BY <1>5, <1>6, <1>7, <1>8, <1>9 DEF Inv

LEMMA WritersKeep ==
    ASSUME Inv, NEW edge \in Mutable, Insert(edge) \/ Delete(edge)
    PROVE  Inv'
<1>1. GraphTypes /\ edge \in Pairs
  BY BfsAssumption DEF Inv
<1>2. CASE Insert(edge)
  <2>1. /\ Mutated /\ base' = base /\ ins' = ins \cup {edge} /\ dels' = dels \ {edge}
    BY <1>2 DEF Insert
  <2>2. ins' \in SUBSET Pairs /\ dels' \in SUBSET Pairs /\ IsFiniteSet(ins')
    BY <1>1, <2>1, FS_AddElement DEF GraphTypes
  <2> QED
    BY <2>1, <2>2, MutationKeeps
<1>3. CASE Delete(edge)
  <2>1. /\ Mutated /\ base' = base /\ ins' = ins \ {edge} /\ dels' = dels \cup {edge}
    BY <1>3 DEF Delete
  <2>2. ins' \in SUBSET Pairs /\ dels' \in SUBSET Pairs /\ IsFiniteSet(ins')
    BY <1>1, <2>1, FS_Subset DEF GraphTypes
  <2> QED
    BY <2>1, <2>2, MutationKeeps
<1> QED
  BY <1>2, <1>3

(***************************************************************************)
(* One iteration of the loop.                                              *)
(***************************************************************************)
MovesOver(popped, q) == Append(popped, Head(q)) \o Tail(q) = popped \o q

(* Popping leaves the order of admission as it is.                         *)
LEMMA PopMovesOver ==
    ASSUME NEW popped \in Seq(Entries), NEW q \in Seq(Entries), q # <<>>
    PROVE  /\ MovesOver(popped, q)
           /\ Head(q) \in Entries /\ Tail(q) \in Seq(Entries) /\ Head(q) = q[1] /\ 1 \in DOMAIN q
           /\ \A i \in DOMAIN Tail(q) : i + 1 \in DOMAIN q /\ Tail(q)[i] = q[i + 1]
<1>1. /\ Head(q) \in Entries /\ Tail(q) \in Seq(Entries) /\ Head(q) = q[1] /\ 1 \in DOMAIN q
      /\ \A i \in DOMAIN Tail(q) : i + 1 \in DOMAIN q /\ Tail(q)[i] = q[i + 1]
  OBVIOUS
<1>2. Append(popped, Head(q)) \o Tail(q) = popped \o q
  OBVIOUS
<1> QED
  BY <1>1, <1>2 DEF MovesOver

(* A sequence in front of two leaves one the beginning of the other.       *)
LEMMA BeginsAfter ==
    ASSUME NEW popped \in Seq(Entries), NEW old \in Seq(Entries), NEW new \in Seq(Entries),
           Begins(new, old)
    PROVE  Begins(popped \o new, popped \o old)
<1> DEFINE a == popped \o new
           b == popped \o old
           n == Len(popped)
<1>1. /\ n \in Nat /\ Len(new) \in Nat /\ Len(old) \in Nat
      /\ DOMAIN a = 1..(n + Len(new)) /\ DOMAIN b = 1..(n + Len(old))
      /\ Len(a) = n + Len(new) /\ Len(b) = n + Len(old)
      /\ DOMAIN old = 1..Len(old)
  OBVIOUS
<1>2. /\ \A i \in 1..n : a[i] = popped[i] /\ b[i] = popped[i]
      /\ \A i \in 1..Len(new) : a[n + i] = new[i]
      /\ \A i \in 1..Len(old) : b[n + i] = old[i]
  OBVIOUS
<1> HIDE DEF a, b, n
<1>3. Len(old) <= Len(new) /\ \A i \in 1..Len(old) : new[i] = old[i]
  BY <1>1 DEF Begins
<1>4. ASSUME NEW i \in 1..(n + Len(old)) PROVE i \in DOMAIN a /\ a[i] = b[i]
  <2>1. i \in DOMAIN a
    BY <1>1, <1>3
  <2>2. CASE i \in 1..n
    BY <1>2, <2>1, <2>2
  <2>3. CASE i \notin 1..n
    <3>1. i - n \in 1..Len(old) /\ i - n \in 1..Len(new) /\ n + (i - n) = i
      BY <1>1, <1>3, <2>3
    <3> QED
      BY <1>2, <1>3, <2>1, <3>1
  <2> QED
    BY <2>2, <2>3
<1>5. Begins(a, b)
  BY <1>1, <1>3, <1>4 DEF Begins
<1> QED
  BY <1>5 DEF a, b

(* No neighbors, no admissions.                                            *)
LEMMA AdmitsNothing ==
    ASSUME NEW s \in Searches, NEW e \in Nat, NEW neighbors, neighbors = <<>>
    PROVE  AdmitAll(s, neighbors, e) = s
<1>1. neighbors \in Seq(Nodes) /\ Len(neighbors) = 0
  OBVIOUS
<1>2. PICK f : AdmitsUpTo(f, s, neighbors, e) /\ AdmitAll(s, neighbors, e) = f[Len(neighbors)]
  BY <1>1, AdmitAllUnfolds
<1> QED
  BY <1>1, <1>2 DEF AdmitsUpTo

(* The search between popping a node and admitting its neighbors.          *)
LEMMA PoppedIsSound ==
    ASSUME SearchTypes, TwoDepths, Sound(visited, Searching, maxDepth, maxNodes, ever),
           queue # <<>>,
           NEW s, s = [tracker |-> tracker, queue |-> Tail(queue), admitted |-> admitted],
           NEW popped, popped = Append(visited, Head(queue))
    PROVE  /\ s \in Searches /\ popped \in Seq(Entries) /\ popped \o s.queue = visited \o queue
           /\ Sound(popped, s, maxDepth, maxNodes, ever)
           /\ Stage(popped, s, Head(queue)[2])
           /\ Head(queue)[2] <= maxDepth
           /\ Head(queue)[2] # 0 => \E j \in DOMAIN visited : visited[j][2] + 1 = Head(queue)[2]
<1> DEFINE x == Head(queue)
           d == x[2]
           order == visited \o queue
           n == Len(visited)
<1>1. /\ s.tracker = tracker /\ s.queue = Tail(queue) /\ s.admitted = admitted
      /\ Searching.tracker = tracker /\ Searching.queue = queue /\ Searching.admitted = admitted
  BY DEF Searching
<1>2. visited \in Seq(Entries) /\ maxDepth \in Nat /\ maxNodes \in Nat
  BY DEF SearchTypes
<1>3. /\ tracker \in Trackers /\ queue \in Seq(Entries) /\ admitted = Len(order)
      /\ admitted <= maxNodes /\ Distinct(order) /\ MarksAre(order, tracker) /\ Sorted(order)
      /\ Followed(order, visited, ever) /\ \A i \in DOMAIN order : order[i][2] <= maxDepth
  <2> HIDE DEF order
  <2> QED
    BY <1>1, Zenon DEF Sound, order
<1>4. /\ x \in Entries /\ Tail(queue) \in Seq(Entries) /\ x = queue[1] /\ 1 \in DOMAIN queue
      /\ (\A i \in DOMAIN Tail(queue) : i + 1 \in DOMAIN queue /\ Tail(queue)[i] = queue[i + 1])
      /\ MovesOver(visited, queue)
  BY <1>2, <1>3, PopMovesOver
<1>5. popped \o s.queue = order
  BY <1>1, <1>4, Zenon DEF MovesOver
<1>6. /\ n \in Nat /\ DOMAIN visited = 1..n /\ DOMAIN order = 1..(n + Len(queue))
      /\ Len(order) = n + Len(queue) /\ Len(queue) \in Nat /\ DOMAIN queue = 1..Len(queue)
      /\ (\A i \in 1..n : order[i] = visited[i])
      /\ (\A i \in 1..Len(queue) : order[n + i] = queue[i])
  BY <1>2, <1>3
<1> HIDE DEF order, x
<1>7. Longer(popped, visited, x) /\ popped \in Seq(Entries)
  <2>1. Longer(Append(visited, x), visited, x) /\ Append(visited, x) \in Seq(Entries)
    BY <1>2, <1>4, AppendIsLonger
  <2> QED
    BY <2>1, Zenon DEF x
<1>8. /\ DOMAIN popped = 1..(n + 1) /\ popped[n + 1] = x /\ \A i \in 1..n : popped[i] = visited[i]
  BY <1>7 DEF Longer
<1> HIDE DEF n
<1>9. s \in Searches
  <2>1. admitted \in Nat
    BY <1>3, <1>6
  <2>2. s = [tracker |-> s.tracker, queue |-> s.queue, admitted |-> s.admitted]
    BY <1>1
  <2> QED
    BY <1>1, <1>3, <1>4, <2>1, <2>2 DEF Searches
<1>10. Followed(order, popped, ever)
  <2>1. \A j \in DOMAIN visited : j \in DOMAIN popped /\ popped[j] = visited[j]
    BY <1>6, <1>8
  <2> QED
    BY <1>3, <2>1 DEF Followed
<1>11. Sound(popped, s, maxDepth, maxNodes, ever)
  <2>1. /\ s.tracker \in Trackers /\ s.queue \in Seq(Entries) /\ s.admitted = Len(order)
        /\ s.admitted <= maxNodes /\ MarksAre(order, s.tracker)
    BY <1>1, <1>3, <1>4
  <2> QED
    BY <1>3, <1>5, <1>10, <2>1, Zenon DEF Sound
<1>12. n + 1 \in DOMAIN order /\ order[n + 1] = x /\ d \in Nat
  BY <1>4, <1>6 DEF Entries
<1>13. Stage(popped, s, d)
  <2>1. ASSUME NEW i \in DOMAIN popped PROVE popped[i][2] <= d
    <3>1. CASE i = n + 1
      BY <1>8, <1>12, <3>1
    <3>2. CASE i # n + 1
      <4>1. i \in 1..n /\ i \in DOMAIN order /\ i <= n + 1
        BY <1>6, <1>8, <3>2
      <4>2. order[i][2] <= order[n + 1][2]
        BY <1>3, <1>12, <4>1 DEF Sorted
      <4> QED
        BY <1>6, <1>8, <1>12, <4>1, <4>2
    <3> QED
      BY <3>1, <3>2
  <2>2. ASSUME NEW i \in DOMAIN s.queue PROVE d <= s.queue[i][2] /\ s.queue[i][2] <= d + 1
    <3>1. i + 1 \in DOMAIN queue /\ s.queue[i] = queue[i + 1]
      BY <1>1, <1>4
    <3>2. i \in Nat /\ i >= 1
      <4>1. DOMAIN s.queue = 1..Len(s.queue) /\ Len(s.queue) \in Nat
        BY <1>1, <1>4
      <4> QED
        BY <4>1
    <3>3. queue[i + 1][2] <= queue[1][2] + 1
      BY <1>4, <3>1 DEF TwoDepths
    <3>4. n + (i + 1) \in DOMAIN order /\ n + 1 <= n + (i + 1) /\ order[n + (i + 1)] = queue[i + 1]
      BY <1>6, <3>1, <3>2
    <3>5. order[n + 1][2] <= order[n + (i + 1)][2]
      BY <1>3, <1>12, <3>4 DEF Sorted
    <3> QED
      BY <1>4, <1>12, <3>1, <3>3, <3>4, <3>5
  <2> QED
    BY <2>1, <2>2 DEF Stage
<1>14. d <= maxDepth
  BY <1>3, <1>12
<1>15. d # 0 => \E j \in DOMAIN visited : visited[j][2] + 1 = d
  BY <1>3, <1>12 DEF Followed
<1> QED
  BY <1>5, <1>7, <1>9, <1>11, <1>13, <1>14, <1>15 DEF x, order

(* The levels when a node is recorded that is at most one step deeper than *)
(* the ones before it.                                                     *)
LEMMA RecordKeeps ==
    ASSUME LevelsAreVisited, visited \in Seq(Entries), levels \in Seq(Seq(Nodes)),
           level \in Seq(Nodes), depth \in Nat, at # "done", at' = at,
           NEW x \in Entries, Record(x[1], x[2]),
           \A i \in DOMAIN visited : visited[i][2] <= x[2],
           x[2] # 0 => \E j \in DOMAIN visited : visited[j][2] + 1 = x[2]
    PROVE  /\ LevelsAreVisited' /\ visited' = Append(visited, x) /\ visited' \in Seq(Entries)
           /\ levels' \in Seq(Seq(Nodes)) /\ level' \in Seq(Nodes) /\ depth' \in Nat
<1> DEFINE d == x[2]
           node == x[1]
           n == Len(visited)
           W == Seq(Nodes)
           opened == IF d > depth THEN <<>> ELSE level
<1>1. x = <<node, d>> /\ node \in Nodes /\ d \in Nat
  BY DEF Entries
<1>2. /\ levels' = IF d > depth THEN Append(levels, level) ELSE levels
      /\ level' = Append(opened, node)
      /\ depth' = IF d > depth THEN d ELSE depth
      /\ visited' = Append(visited, x)
  <2>1. visited' = Append(visited, <<node, d>>)
    BY DEF Record
  <2> QED
    BY <1>1, <2>1 DEF Record
<1>3. Longer(visited', visited, x) /\ n \in Nat /\ visited' \in Seq(Entries)
  <2> HIDE DEF d, node
  <2>1. Longer(Append(visited, x), visited, x) /\ n \in Nat /\ Append(visited, x) \in Seq(Entries)
    BY AppendIsLonger
  <2> QED
    BY <1>2, <2>1, Zenon
<1>4. /\ DOMAIN visited' = 1..(n + 1) /\ visited'[n + 1] = x /\ DOMAIN visited = 1..n
      /\ \A i \in 1..n : visited'[i] = visited[i]
  BY <1>3 DEF Longer
<1> HIDE DEF n
<1>5. /\ \A i \in DOMAIN visited : i \in DOMAIN visited' /\ visited'[i] = visited[i]
      /\ n + 1 \in DOMAIN visited'
      /\ \A i \in DOMAIN visited' : i \in DOMAIN visited \/ visited'[i] = x
  <2>1. \A i \in 1..(n + 1) : i \in 1..n \/ i = n + 1
    BY <1>3
  <2> QED
    BY <1>3, <1>4, <2>1
<1>6. /\ FlattenSeq(levels) \o level = Names(visited)
      /\ \A k \in DOMAIN levels : \A p \in DOMAIN levels[k] :
            \E i \in DOMAIN visited : visited[i] = <<levels[k][p], k - 1>>
      /\ \A p \in DOMAIN level : \E i \in DOMAIN visited : visited[i] = <<level[p], depth>>
      /\ \A i \in DOMAIN visited : visited[i][2] <= depth
      /\ depth # 0 => \E i \in DOMAIN visited : visited[i][2] = depth
      /\ Len(levels) = depth
  BY DEF LevelsAreVisited
<1>7. \A i \in DOMAIN visited : visited[i][2] \in Nat
  <2>1. \A i \in DOMAIN visited : visited[i] \in Entries
    OBVIOUS
  <2> QED
    BY <2>1 DEF Entries
<1>8. d <= depth + 1 /\ depth <= d
  BY <1>1, <1>6, <1>7
<1>9. opened \in W
  <2>1. <<>> \in Seq(Nodes)
    OBVIOUS
  <2> QED
    BY <2>1
<1> HIDE DEF d, node, opened
<1>10. level' \in W /\ Longer(level', opened, node) /\ Len(opened) \in Nat
  <2>1. Append(opened, node) \in Seq(Nodes) /\ Longer(Append(opened, node), opened, node)
        /\ Len(opened) \in Nat
    BY <1>1, <1>9, AppendIsLonger
  <2> QED
    BY <1>2, <2>1, Zenon
<1>11. FlattensLast(levels, level) /\ NamesLast(visited, x)
  BY FlattenAppend, NamesAppend
<1>12. FlattenSeq(levels) \in Seq(Nodes) /\ Names(visited) \in Seq(Nodes)
  BY <1>11, Zenon DEF FlattensLast, NamesLast
<1>13. \A p \in DOMAIN level' : (p \in DOMAIN opened /\ level'[p] = opened[p]) \/ level'[p] = node
  <2> DEFINE m == Len(opened)
  <2>1. /\ m \in Nat /\ DOMAIN level' = 1..(m + 1) /\ level'[m + 1] = node /\ DOMAIN opened = 1..m
        /\ \A i \in 1..m : level'[i] = opened[i]
    BY <1>10 DEF Longer
  <2> HIDE DEF m
  <2>2. \A i \in 1..(m + 1) : i \in 1..m \/ i = m + 1
    BY <2>1
  <2> QED
    BY <2>1, <2>2
<1>14. CASE d > depth
  <2>1. levels' = Append(levels, level) /\ depth' = d /\ opened = <<>> /\ d = depth + 1
    BY <1>1, <1>2, <1>8, <1>14 DEF opened
  <2>2. levels' \in Seq(W) /\ Longer(levels', levels, level)
    <3>1. levels \in Seq(W) /\ level \in W
      OBVIOUS
    <3> HIDE DEF W
    <3>2. Append(levels, level) \in Seq(W) /\ Longer(Append(levels, level), levels, level)
      BY <3>1, AppendIsLonger
    <3> QED
      BY <2>1, <3>2, Zenon
  <2>3. /\ DOMAIN levels' = 1..(depth + 1) /\ levels'[depth + 1] = level /\ DOMAIN levels = 1..depth
        /\ (\A k \in 1..depth : levels'[k] = levels[k]) /\ Len(levels') = depth + 1
    BY <1>6, <2>2 DEF Longer
  <2>4. FlattenSeq(levels') \o level' = Names(visited')
    <3>1. FlattenSeq(levels') = Names(visited)
      BY <1>6, <1>11, <2>1, Zenon DEF FlattensLast
    <3>2. Names(visited') = Append(Names(visited), node)
      BY <1>2, <1>11, Zenon DEF NamesLast, node
    <3>3. AppendsLast(FlattenSeq(levels'), <<>>, node)
      <4>1. <<>> \in Seq(Nodes)
        OBVIOUS
      <4> QED
        BY <1>1, <1>12, <3>1, <4>1, AppendLast
    <3>4. \A e : e = <<>> => Names(visited) \o e = Names(visited)
      BY <1>12, NothingFollows
    <3>5. FlattenSeq(levels') \o <<>> = Names(visited)
      BY <3>1, <3>4, Zenon
    <3> QED
      BY <1>2, <2>1, <3>2, <3>3, <3>5, Zenon DEF AppendsLast
  <2>5. \A k \in DOMAIN levels' : \A p \in DOMAIN levels'[k] :
           \E i \in DOMAIN visited' : visited'[i] = <<levels'[k][p], k - 1>>
    <3> SUFFICES ASSUME NEW k \in DOMAIN levels', NEW p \in DOMAIN levels'[k]
                 PROVE  \E i \in DOMAIN visited' : visited'[i] = <<levels'[k][p], k - 1>>
      OBVIOUS
    <3>1. CASE k = depth + 1
      <4>1. k - 1 = depth /\ levels'[k] = level
        BY <2>3, <3>1
      <4> QED
        BY <1>5, <1>6, <4>1
    <3>2. CASE k # depth + 1
      <4>1. k \in DOMAIN levels /\ levels'[k] = levels[k]
        BY <2>3, <3>2
      <4> QED
        BY <1>5, <1>6, <4>1
    <3> QED
      BY <3>1, <3>2
  <2>6. \A p \in DOMAIN level' : \E i \in DOMAIN visited' : visited'[i] = <<level'[p], depth'>>
    <3>1. DOMAIN opened = {}
      BY <2>1
    <3>2. x = <<node, depth'>>
      BY <1>1, <2>1 DEF node, d
    <3> QED
      BY <1>4, <1>5, <1>13, <3>1, <3>2
  <2>7. x[2] = depth'
    BY <2>1 DEF d
  <2>8. ASSUME NEW i \in DOMAIN visited' PROVE visited'[i][2] <= depth'
    <3>1. CASE i \in DOMAIN visited
      <4>1. visited'[i][2] <= depth /\ visited'[i][2] \in Nat
        BY <1>5, <1>6, <1>7, <3>1
      <4> QED
        BY <1>1, <2>1, <4>1
    <3>2. CASE visited'[i] = x
      BY <1>1, <2>1, <2>7, <3>2
    <3> QED
      BY <1>5, <3>1, <3>2
  <2>9. \E i \in DOMAIN visited' : visited'[i][2] = depth'
    BY <1>4, <1>5, <2>7
  <2>10. LevelsAreVisited'
    BY <2>1, <2>3, <2>4, <2>5, <2>6, <2>8, <2>9 DEF LevelsAreVisited
  <2> QED
    BY <1>1, <1>2, <1>3, <1>10, <2>1, <2>2, <2>10 DEF W
<1>15. CASE ~(d > depth)
  <2>1. levels' = levels /\ depth' = depth /\ opened = level /\ d = depth
    BY <1>1, <1>2, <1>8, <1>15 DEF opened
  <2>2. FlattenSeq(levels') \o level' = Names(visited')
    <3>1. AppendsLast(FlattenSeq(levels), level, node)
      BY <1>1, <1>12, AppendLast
    <3>2. Names(visited') = Append(Names(visited), node)
      BY <1>2, <1>11, Zenon DEF NamesLast, node
    <3> QED
      BY <1>2, <1>6, <2>1, <3>1, <3>2, Zenon DEF AppendsLast
  <2>3. \A k \in DOMAIN levels' : \A p \in DOMAIN levels'[k] :
           \E i \in DOMAIN visited' : visited'[i] = <<levels'[k][p], k - 1>>
    BY <1>5, <1>6, <2>1
  <2>4. \A p \in DOMAIN level' : \E i \in DOMAIN visited' : visited'[i] = <<level'[p], depth'>>
    <3>1. x = <<node, depth'>>
      BY <1>1, <2>1 DEF node, d
    <3> QED
      BY <1>4, <1>5, <1>6, <1>13, <2>1, <3>1
  <2>5. x[2] = depth'
    BY <2>1 DEF d
  <2>6. ASSUME NEW i \in DOMAIN visited' PROVE visited'[i][2] <= depth'
    <3>1. CASE i \in DOMAIN visited
      BY <1>5, <1>6, <2>1, <3>1
    <3>2. CASE visited'[i] = x
      BY <1>1, <2>1, <2>5, <3>2
    <3> QED
      BY <1>5, <3>1, <3>2
  <2>7. \E i \in DOMAIN visited' : visited'[i][2] = depth'
    BY <1>4, <1>5, <2>5
  <2>8. LevelsAreVisited'
    BY <1>6, <2>1, <2>2, <2>3, <2>4, <2>6, <2>7 DEF LevelsAreVisited
  <2> QED
    BY <1>2, <1>3, <1>10, <2>1, <2>8 DEF W
<1> QED
  BY <1>14, <1>15

(* What the search has become when all neighbors of a node were admitted.  *)
LEMMA ExpansionKeeps ==
    ASSUME GraphTypes, SearchTypes, HistoryIsTrue, tracker \in Trackers,
           NEW popped \in Seq(Entries), NEW s \in Searches, s.tracker = tracker, s.admitted = admitted,
           NEW node \in Nodes, NEW d \in Nat,
           \E j \in DOMAIN popped : popped[j] = <<node, d>>,
           Sound(popped, s, maxDepth, maxNodes, ever), Stage(popped, s, d),
           NEW neighbors \in IF Expands(d) THEN ReadNeighbors(node) ELSE {<<>>}
    PROVE  LET r == AdmitAll(s, neighbors, d + 1)
           IN  /\ r \in Searches /\ Sound(popped, r, maxDepth, maxNodes, ever)
               /\ Stage(popped, r, d) /\ Onward(r, s)
               /\ r.admitted < maxNodes /\ d < maxDepth =>
                     \A m \in Nodes : <<node, m>> \in always => Marked(r.tracker, m)
<1> DEFINE r == AdmitAll(s, neighbors, d + 1)
<1>1. maxDepth \in Nat /\ maxNodes \in Nat /\ fast \in BOOLEAN /\ machine \in Machines
  BY DEF SearchTypes
<1>2. s.admitted \in Nat /\ s.queue \in Seq(Entries)
  BY DEF Searches
<1>3. CASE Expands(d)
  <2>1. neighbors \in ReadNeighbors(node) /\ d < maxDepth
    BY <1>3 DEF Expands
  <2>2. /\ neighbors \in Seq(Nodes)
        /\ \A m \in ToSet(neighbors) : <<node, m>> \in ever
        /\ \A m \in Nodes : <<node, m>> \in always => m \in ToSet(neighbors) \/ Marked(tracker, m)
    BY <1>1, <2>1, NeighborsRead
  <2>3. \A i \in DOMAIN neighbors :
           \E j \in DOMAIN popped : popped[j][2] = d /\ <<popped[j][1], neighbors[i]>> \in ever
    <3>1. \A i \in DOMAIN neighbors : <<node, neighbors[i]>> \in ever
      BY <2>2 DEF ToSet
    <3> QED
      BY <3>1
  <2>4. /\ r \in Searches /\ Sound(popped, r, maxDepth, maxNodes, ever) /\ Stage(popped, r, d)
        /\ Onward(r, s)
        /\ r.admitted < maxNodes => \A i \in DOMAIN neighbors : Marked(r.tracker, neighbors[i])
    BY <1>1, <2>1, <2>2, <2>3, AdmitAllKeeps
  <2> HIDE DEF r
  <2>5. ASSUME r.admitted < maxNodes, NEW m \in Nodes, <<node, m>> \in always
        PROVE  Marked(r.tracker, m)
    <3>1. CASE m \in ToSet(neighbors)
      BY <2>4, <2>5, <3>1 DEF ToSet
    <3>2. CASE Marked(tracker, m)
      BY <2>4, <3>2 DEF Onward
    <3> QED
      BY <2>2, <2>5, <3>1, <3>2
  <2> QED
    BY <2>4, <2>5 DEF r
<1>4. CASE ~Expands(d)
  <2>1. r = s
    <3>1. neighbors = <<>> /\ d + 1 \in Nat
      BY <1>4
    <3> QED
      BY <3>1, AdmitsNothing
  <2>2. Onward(s, s)
    BY <1>2 DEF Onward, Begins
  <2>3. ~(s.admitted < maxNodes /\ d < maxDepth)
    BY <1>4 DEF Expands
  <2> HIDE DEF r
  <2> QED
    BY <2>1, <2>2, <2>3 DEF r
<1> QED
  BY <1>3, <1>4

(* What was complete stays so, and the node that was expanded is.          *)
LEMMA PopCompletes ==
    ASSUME Complete, visited \in Seq(Entries), queue \in Seq(Entries),
           maxNodes \in Nat, maxDepth \in Nat,
           NEW node, NEW d \in Nat, NEW r \in Searches, NEW popped \in Seq(Entries),
           Longer(popped, visited, <<node, d>>),
           Begins(popped \o r.queue, visited \o queue),
           admitted \in Nat, admitted <= r.admitted,
           Sound(popped, r, maxDepth, maxNodes, ever), Stage(popped, r, d),
           r.admitted < maxNodes /\ d < maxDepth =>
               \A m \in Nodes : <<node, m>> \in always => Marked(r.tracker, m),
           visited' = popped, queue' = r.queue, admitted' = r.admitted, always' = always,
           maxDepth' = maxDepth, maxNodes' = maxNodes
    PROVE  Complete'
<1> DEFINE old == visited \o queue
           new == popped \o r.queue
<1>1. /\ r.queue \in Seq(Entries) /\ r.admitted \in Nat
  BY DEF Searches
<1>2. \A i \in DOMAIN new : new[i][2] <= d + 1
  BY <1>1, StageBounds
<1>3. MarksAre(new, r.tracker)
  BY Zenon DEF Sound
<1>4. \A i \in DOMAIN old : i \in DOMAIN new /\ new[i] = old[i]
  BY Zenon DEF Begins
<1>5. /\ DOMAIN popped = 1..(Len(visited) + 1) /\ popped[Len(visited) + 1] = <<node, d>>
      /\ DOMAIN visited = 1..Len(visited) /\ \A i \in 1..Len(visited) : popped[i] = visited[i]
  BY DEF Longer
<1>6. admitted < maxNodes =>
         \A i \in DOMAIN visited : visited[i][2] < maxDepth =>
            \A n \in Nodes : <<visited[i][1], n>> \in always =>
                \E j \in DOMAIN old : old[j][1] = n /\ old[j][2] <= visited[i][2] + 1
  BY DEF Complete
<1> HIDE DEF old, new
<1>7. ASSUME r.admitted < maxNodes, NEW i \in DOMAIN popped, popped[i][2] < maxDepth,
             NEW n \in Nodes, <<popped[i][1], n>> \in always
      PROVE  \E j \in DOMAIN new : new[j][1] = n /\ new[j][2] <= popped[i][2] + 1
  <2>1. CASE i \in DOMAIN visited
    <3>1. popped[i] = visited[i] /\ admitted < maxNodes
      BY <1>1, <1>5, <1>7, <2>1
    <3>2. \E j \in DOMAIN old : old[j][1] = n /\ old[j][2] <= visited[i][2] + 1
      BY <1>6, <1>7, <2>1, <3>1
    <3> QED
      BY <1>4, <3>1, <3>2
  <2>2. CASE i \notin DOMAIN visited
    <3>1. popped[i] = <<node, d>>
      <4>1. Len(visited) \in Nat
        OBVIOUS
      <4>2. i = Len(visited) + 1
        BY <1>5, <2>2, <4>1
      <4> QED
        BY <1>5, <4>2
    <3>2. Marked(r.tracker, n)
      BY <1>7, <3>1
    <3>3. PICK j \in DOMAIN new : new[j][1] = n
      BY <1>3, <3>2 DEF MarksAre
    <3> QED
      BY <1>2, <3>1, <3>3
  <2> QED
    BY <2>1, <2>2
<1>8. visited' \o queue' = new
  BY Zenon DEF new
<1>9. ASSUME admitted' < maxNodes', NEW i \in DOMAIN visited', visited'[i][2] < maxDepth',
             NEW n \in Nodes, <<visited'[i][1], n>> \in always'
      PROVE  \E j \in DOMAIN (visited' \o queue') :
                /\ (visited' \o queue')[j][1] = n
                /\ (visited' \o queue')[j][2] <= visited'[i][2] + 1
  <2>1. \E j \in DOMAIN new : new[j][1] = n /\ new[j][2] <= visited'[i][2] + 1
    BY <1>7, <1>9
  <2> QED
    BY <1>8, <2>1, Zenon
<1> QED
  BY <1>9, Zenon DEF Complete

LEMMA PopKeeps == Inv /\ Pop => Inv'
<1> SUFFICES ASSUME Inv, Pop PROVE Inv'
  OBVIOUS
<1> DEFINE x == Head(queue)
           node == x[1]
           d == x[2]
           s == [tracker |-> tracker, queue |-> Tail(queue), admitted |-> admitted]
           popped == Append(visited, x)
<1>1. /\ GraphTypes /\ SearchTypes /\ Sound(visited, Searching, maxDepth, maxNodes, ever)
      /\ TwoDepths /\ StartsWait /\ Complete /\ HistoryIsTrue /\ LevelsAreVisited
  BY DEF Inv
<1>2. /\ at = "search" /\ queue # <<>> /\ Record(node, d)
      /\ base' = base /\ ins' = ins /\ dels' = dels /\ starts' = starts /\ maxDepth' = maxDepth
      /\ maxNodes' = maxNodes /\ machine' = machine /\ at' = at /\ fast' = fast
      /\ always' = always /\ ever' = ever
  BY DEF Pop, graphVars, arguments, history
<1>3. PICK neighbors \in (IF Expands(d) THEN ReadNeighbors(node) ELSE {<<>>}) :
         /\ queue' = AdmitAll(s, neighbors, d + 1).queue
         /\ tracker' = AdmitAll(s, neighbors, d + 1).tracker
         /\ admitted' = AdmitAll(s, neighbors, d + 1).admitted
  BY Zenon DEF Pop
<1>4. /\ visited \in Seq(Entries) /\ levels \in Seq(Seq(Nodes)) /\ level \in Seq(Nodes)
      /\ depth \in Nat /\ maxDepth \in Nat /\ maxNodes \in Nat
  BY <1>1 DEF SearchTypes
<1>5. tracker \in Trackers /\ queue \in Seq(Entries) /\ admitted = Len(visited \o queue)
  <2>1. /\ Searching.tracker = tracker /\ Searching.queue = queue /\ Searching.admitted = admitted
    BY DEF Searching
  <2> QED
    BY <1>1, <2>1, Zenon DEF Sound
<1>6. /\ s \in Searches /\ popped \in Seq(Entries) /\ popped \o s.queue = visited \o queue
      /\ Sound(popped, s, maxDepth, maxNodes, ever) /\ Stage(popped, s, d)
      /\ (d # 0 => \E j \in DOMAIN visited : visited[j][2] + 1 = d)
  <2> HIDE DEF s, popped
  <2>1. s = [tracker |-> tracker, queue |-> Tail(queue), admitted |-> admitted]
        /\ popped = Append(visited, Head(queue))
    BY DEF s, popped
  <2> QED
    BY <1>1, <1>2, <2>1, PoppedIsSound
<1>7. x \in Entries /\ x = <<node, d>> /\ node \in Nodes /\ d \in Nat
  <2>1. x \in Entries
    BY <1>2, <1>4, <1>5, PopMovesOver
  <2> HIDE DEF x
  <2> QED
    BY <2>1 DEF Entries
<1>8. s.tracker = tracker /\ s.admitted = admitted /\ s.queue = Tail(queue)
  OBVIOUS
<1> HIDE DEF x, s, popped
<1>9. Longer(popped, visited, x) /\ Len(visited) \in Nat
  <2>1. Longer(Append(visited, x), visited, x) /\ Len(visited) \in Nat
    BY <1>4, <1>7, AppendIsLonger
  <2> QED
    BY <2>1, Zenon DEF popped
<1>10. /\ DOMAIN popped = 1..(Len(visited) + 1) /\ popped[Len(visited) + 1] = x
       /\ DOMAIN visited = 1..Len(visited) /\ \A i \in 1..Len(visited) : popped[i] = visited[i]
  BY <1>9 DEF Longer
<1>11. \E j \in DOMAIN popped : popped[j] = <<node, d>>
  BY <1>7, <1>9, <1>10
<1>12. \A i \in DOMAIN visited : visited[i][2] <= d
  BY <1>6, <1>9, <1>10 DEF Stage
<1> DEFINE r == AdmitAll(s, neighbors, d + 1)
<1>13. /\ r \in Searches /\ Sound(popped, r, maxDepth, maxNodes, ever)
       /\ Stage(popped, r, d) /\ Onward(r, s)
       /\ r.admitted < maxNodes /\ d < maxDepth =>
             \A m \in Nodes : <<node, m>> \in always => Marked(r.tracker, m)
  <2> HIDE DEF node, d
  <2> QED
    BY <1>1, <1>3, <1>5, <1>6, <1>7, <1>8, <1>11, ExpansionKeeps
<1>14. queue' = r.queue /\ tracker' = r.tracker /\ admitted' = r.admitted
  BY <1>3
<1> HIDE DEF r
<1>15. /\ LevelsAreVisited' /\ visited' = popped
       /\ levels' \in Seq(Seq(Nodes)) /\ level' \in Seq(Nodes) /\ depth' \in Nat
  <2>1. at # "done"
    BY <1>2
  <2>2. /\ LevelsAreVisited' /\ visited' = Append(visited, x)
        /\ levels' \in Seq(Seq(Nodes)) /\ level' \in Seq(Nodes) /\ depth' \in Nat
    BY <1>1, <1>2, <1>4, <1>6, <1>7, <1>12, <2>1, RecordKeeps
  <2> QED
    BY <2>2, Zenon DEF popped
<1>16. GraphTypes' /\ SearchTypes'
  BY <1>1, <1>2, <1>6, <1>15 DEF GraphTypes, SearchTypes
<1>17. HistoryIsTrue'
  BY <1>1, <1>2 DEF HistoryIsTrue, Shown, BaseEdges
<1>18. Sound(visited, Searching, maxDepth, maxNodes, ever)'
  <2>1. Searching' = r
    <3>1. r = [tracker |-> r.tracker, queue |-> r.queue, admitted |-> r.admitted]
      BY <1>13 DEF Searches
    <3> QED
      BY <1>14, <3>1 DEF Searching
  <2>2. Sound(visited', Searching', maxDepth', maxNodes', ever')
    BY <1>2, <1>13, <1>15, <2>1, Zenon
  <2> QED
    BY <2>2
<1>19. r.queue \in Seq(Entries) /\ s.queue \in Seq(Entries) /\ r.admitted \in Nat /\ s.admitted \in Nat
  BY <1>6, <1>13 DEF Searches
<1>20. TwoDepths'
  <2>1. \A i \in DOMAIN r.queue : /\ d <= r.queue[i][2] /\ r.queue[i][2] <= d + 1
                                  /\ r.queue[i][2] \in Nat
    <3>1. \A i \in DOMAIN r.queue : r.queue[i] \in Entries
      BY <1>19
    <3> QED
      BY <1>13, <3>1 DEF Stage, Entries
  <2> QED
    BY <1>7, <1>14, <2>1 DEF TwoDepths
<1>21. StartsWait'
  BY <1>2 DEF StartsWait
<1>22. Complete'
  <2>1. Begins(popped \o r.queue, popped \o s.queue)
    BY <1>6, <1>13, <1>19, BeginsAfter DEF Onward
  <2>2. Begins(popped \o r.queue, visited \o queue)
    BY <1>6, <2>1, Zenon
  <2>3. admitted \in Nat /\ admitted <= r.admitted
    BY <1>8, <1>13, <1>19 DEF Onward
  <2>4. Longer(popped, visited, <<node, d>>)
    BY <1>7, <1>9, Zenon
  <2> HIDE DEF node, d
  <2> QED
    BY <1>1, <1>2, <1>4, <1>5, <1>6, <1>7, <1>13, <1>14, <1>15, <2>2, <2>3, <2>4, PopCompletes
<1> QED
  BY <1>15, <1>16, <1>17, <1>18, <1>20, <1>21, <1>22 DEF Inv

(* In every state the order of admission is sound, the levels list what    *)
(* was visited, and what was expanded is complete.                         *)
THEOREM InvHolds == Spec => []Inv
<1>1. Init => Inv
  BY InitIsInv
<1>2. Inv /\ [Next]_vars => Inv'
  <2> SUFFICES ASSUME Inv, [Next]_vars PROVE Inv'
    OBVIOUS
  <2>1. CASE AdmitStart
    BY <2>1, AdmitStartKeeps
  <2>2. CASE StartsAdmitted
    BY <2>2, StartsAdmittedKeeps
  <2>3. CASE Probe
    BY <2>3, ProbeKeeps
  <2>4. CASE Pop
    BY <2>4, PopKeeps
  <2>5. CASE Return
    BY <2>5, ReturnKeeps
  <2>6. CASE \E edge \in Mutable : Insert(edge) \/ Delete(edge)
    BY <2>6, WritersKeep
  <2>7. CASE UNCHANGED vars
    <3>1. /\ base' = base /\ ins' = ins /\ dels' = dels /\ starts' = starts
          /\ maxDepth' = maxDepth /\ maxNodes' = maxNodes /\ machine' = machine /\ at' = at
          /\ tracker' = tracker /\ admitted' = admitted /\ queue' = queue /\ fast' = fast
          /\ visited' = visited /\ levels' = levels /\ level' = level /\ depth' = depth
          /\ always' = always /\ ever' = ever
      BY <2>7 DEF vars, graphVars, arguments, result, history
    <3>2. /\ GraphTypes /\ SearchTypes /\ Sound(visited, Searching, maxDepth, maxNodes, ever)
          /\ TwoDepths /\ StartsWait /\ Complete /\ HistoryIsTrue /\ LevelsAreVisited
      BY DEF Inv
    <3>3. Sound(visited, Searching, maxDepth, maxNodes, ever)'
      <4>1. Searching' = Searching
        BY <3>1 DEF Searching
      <4>2. Sound(visited', Searching', maxDepth', maxNodes', ever')
        BY <3>1, <3>2, <4>1, Zenon
      <4> QED
        BY <4>2
    <3>4. GraphTypes' /\ SearchTypes' /\ HistoryIsTrue'
      BY <3>1, <3>2 DEF GraphTypes, SearchTypes, HistoryIsTrue, Shown, BaseEdges
    <3>5. TwoDepths' /\ StartsWait' /\ Complete' /\ LevelsAreVisited'
      BY <3>1, <3>2 DEF TwoDepths, StartsWait, Complete, LevelsAreVisited
    <3> QED
      BY <3>3, <3>4, <3>5 DEF Inv
  <2> QED
    BY <2>1, <2>2, <2>3, <2>4, <2>5, <2>6, <2>7 DEF Next, Search
<1> QED
  BY <1>1, <1>2, PTL DEF Spec

(***************************************************************************)
(* The properties of the runs.                                             *)
(***************************************************************************)

(* Whatever was visited so far, every backend lets the same neighbors of   *)
(* every node pass in the same order, also when indices are beyond the     *)
(* words: for every width of a word, every number of lanes and every graph.*)
THEOREM BackendsAlwaysAgree == Spec => []BackendsAgree
<1>1. Inv => BackendsAgree
  <2> SUFFICES ASSUME Inv, NEW n \in BaseNodes, NEW backend \in Backends, NEW words
               PROVE  FilterUnvisited(backend, Slice(n), words) = ScalarFilter(Slice(n), words)
    BY Zenon DEF BackendsAgree
  <2>1. n \in Nodes /\ BaseNodes \subseteq Nat
    BY NodesAreNumbers DEF BaseNodesAreNodes
  <2>2. Slice(n) \in Seq(BaseNodes)
    BY <2>1, SliceIsBase DEF Inv, GraphTypes
  <2>3. Slice(n) \in Seq(Nat)
    BY <2>1, <2>2, SeqGrows
  <2> QED
    BY <2>3, FiltersAgree
<1> QED
  BY <1>1, InvHolds, PTL

(* At the end nothing waits, so the order of admission is the result.      *)
LEMMA WhenDone ==
    ASSUME Inv, Done
    PROVE  /\ visited \in Seq(Entries) /\ tracker \in Trackers
           /\ admitted = Len(visited) /\ admitted <= maxNodes
           /\ Distinct(visited) /\ MarksAre(visited, tracker)
           /\ Followed(visited, visited, ever) /\ \A i \in DOMAIN visited : visited[i][2] <= maxDepth
           /\ admitted < maxNodes =>
                 \A i \in DOMAIN visited : visited[i][2] < maxDepth =>
                    \A n \in Nodes : <<visited[i][1], n>> \in always =>
                        \E j \in DOMAIN visited :
                            visited[j][1] = n /\ visited[j][2] <= visited[i][2] + 1
           /\ FlattenSeq(levels) = Names(visited)
<1>1. /\ SearchTypes /\ Sound(visited, Searching, maxDepth, maxNodes, ever)
      /\ Complete /\ LevelsAreVisited
  BY DEF Inv
<1>2. visited \in Seq(Entries) /\ queue = <<>> /\ level = <<>> /\ levels \in Seq(Seq(Nodes))
  BY <1>1 DEF SearchTypes, LevelsAreVisited, Done
<1>3. visited \o queue = visited
  BY <1>2
<1>4. /\ Searching.tracker = tracker /\ Searching.queue = queue /\ Searching.admitted = admitted
  BY DEF Searching
<1>5. /\ tracker \in Trackers
      /\ admitted = Len(visited) /\ admitted <= maxNodes
      /\ Distinct(visited) /\ MarksAre(visited, tracker)
      /\ Followed(visited, visited, ever) /\ \A i \in DOMAIN visited : visited[i][2] <= maxDepth
  BY <1>1, <1>3, <1>4, Zenon DEF Sound
<1>6. ASSUME admitted < maxNodes, NEW i \in DOMAIN visited, visited[i][2] < maxDepth,
             NEW n \in Nodes, <<visited[i][1], n>> \in always
      PROVE  \E j \in DOMAIN visited : visited[j][1] = n /\ visited[j][2] <= visited[i][2] + 1
  <2>1. \E j \in DOMAIN (visited \o queue) :
           /\ (visited \o queue)[j][1] = n
           /\ (visited \o queue)[j][2] <= visited[i][2] + 1
    BY <1>1, <1>6, Zenon DEF Complete
  <2> QED
    BY <1>3, <2>1, Zenon
<1>7. FlattenSeq(levels) = Names(visited)
  <2>1. FlattenSeq(levels) \in Seq(Nodes)
    <3>1. <<>> \in Seq(Nodes)
      OBVIOUS
    <3>2. FlattensLast(levels, <<>>)
      BY <1>2, <3>1, FlattenAppend
    <3> QED
      BY <3>2, Zenon DEF FlattensLast
  <2>2. FlattenSeq(levels) \o level = FlattenSeq(levels)
    BY <1>2, <2>1, NothingFollows
  <2>3. FlattenSeq(levels) \o level = Names(visited)
    BY <1>1 DEF LevelsAreVisited
  <2> QED
    BY <2>2, <2>3, Zenon
<1> QED
  BY <1>2, <1>5, <1>6, <1>7

(* A returned result has every admitted node once, in both limits, and its *)
(* levels list the same nodes in the same order, depth by depth.           *)
THEOREM ResultsAreConsistent == Spec => []ResultIsConsistent
<1>1. ASSUME Inv, Done
      PROVE  /\ Len(visited) = admitted /\ admitted <= maxNodes
             /\ Cardinality(DOMAIN DepthOf) = Len(visited)
             /\ \A n \in Nodes : Marked(tracker, n) <=> n \in DOMAIN DepthOf
             /\ \A i \in DOMAIN visited : visited[i][2] <= maxDepth
             /\ FlattenSeq(levels) = [i \in DOMAIN visited |-> visited[i][1]]
             /\ \A d \in DOMAIN levels : \A n \in ToSet(levels[d]) : DepthOf[n] = d - 1
  <2> DEFINE n == Len(visited)
             nodes == {v[1] : v \in ToSet(visited)}
  <2>1. /\ visited \in Seq(Entries) /\ admitted = n /\ admitted <= maxNodes
        /\ Distinct(visited) /\ MarksAre(visited, tracker)
        /\ (\A i \in DOMAIN visited : visited[i][2] <= maxDepth)
        /\ FlattenSeq(levels) = Names(visited)
    BY <1>1, WhenDone
  <2>2. n \in Nat /\ DOMAIN visited = 1..n
    BY <2>1
  <2>3. DOMAIN DepthOf = nodes
    BY DEF DepthOf
  <2>4. \A m : m \in nodes <=> \E i \in DOMAIN visited : visited[i][1] = m
    BY DEF ToSet
  <2>5. Cardinality(nodes) = n
    <3> DEFINE f == [i \in 1..n |-> visited[i][1]]
    <3>1. \A i \in 1..n : visited[i][1] \in nodes
      BY <2>2, <2>4
    <3>2. f \in [1..n -> nodes]
      <4> HIDE DEF nodes, n
      <4> QED
        BY <3>1
    <3>3. \A i, j \in 1..n : f[i] = f[j] => i = j
      BY <2>1, <2>2 DEF Distinct
    <3>4. \A m \in nodes : \E i \in 1..n : f[i] = m
      BY <2>2, <2>4
    <3> HIDE DEF f, nodes
    <3>5. f \in Bijection(1..n, nodes)
      BY <3>2, <3>3, <3>4 DEF Bijection, Injection, Surjection, IsInjective
    <3>6. ExistsBijection(1..n, nodes)
      BY <3>5 DEF ExistsBijection
    <3> HIDE DEF n
    <3>7. IsFiniteSet(1..n) /\ Cardinality(1..n) = n
      BY <2>2, FS_Interval
    <3> QED
      BY <3>6, <3>7, FS_Bijection
  <2>6. \A m \in Nodes : Marked(tracker, m) <=> m \in nodes
    BY <2>1, <2>4 DEF MarksAre
  <2>7. ASSUME NEW d \in DOMAIN levels, NEW m \in ToSet(levels[d]) PROVE DepthOf[m] = d - 1
    <3>1. PICK p \in DOMAIN levels[d] : levels[d][p] = m
      BY DEF ToSet
    <3>2. PICK i \in DOMAIN visited : visited[i] = <<m, d - 1>>
      BY <1>1, <2>7, <3>1 DEF Inv, LevelsAreVisited
    <3>3. visited[i] \in ToSet(visited) /\ visited[i][1] = m /\ visited[i][2] = d - 1
      BY <3>2 DEF ToSet
    <3>4. \A v \in ToSet(visited) : v[1] = m => v = visited[i]
      BY <2>1, <3>3 DEF ToSet, Distinct
    <3>5. (CHOOSE v \in ToSet(visited) : v[1] = m) = visited[i]
      BY <3>3, <3>4
    <3>6. m \in nodes
      BY <2>4, <3>3
    <3>7. DepthOf[m] = (CHOOSE v \in ToSet(visited) : v[1] = m)[2]
      BY <3>6, Zenon DEF DepthOf
    <3> QED
      BY <3>3, <3>5, <3>7
  <2>8. FlattenSeq(levels) = [i \in DOMAIN visited |-> visited[i][1]]
    BY <2>1, Zenon DEF Names
  <2> QED
    BY <2>1, <2>3, <2>5, <2>6, <2>7, <2>8
<1>2. Inv => ResultIsConsistent
  BY <1>1, Zenon DEF ResultIsConsistent
<1> QED
  BY <1>2, InvHolds, PTL

(* The roots are what was visited at depth 0.                              *)
LEMMA RootsAreVisited ==
    \A m : m \in Roots <=> \E i \in DOMAIN visited : visited[i][1] = m /\ visited[i][2] = 0
BY DEF Roots, ToSet

(* A node of depth d is d steps of edges away that were shown some time.   *)
LEMMA VisitedAreReached ==
    ASSUME Inv, Done, NEW i \in DOMAIN visited
    PROVE  visited[i][1] \in Within(ever, visited[i][2])
<1> DEFINE d == visited[i][2]
<1>1. visited \in Seq(Entries) /\ Followed(visited, visited, ever)
  BY WhenDone
<1>2. \A j \in DOMAIN visited : visited[j][2] \in Nat /\ visited[j][1] \in Nodes
  <2>1. \A j \in DOMAIN visited : visited[j] \in Entries
    BY <1>1
  <2> QED
    BY <2>1 DEF Entries
<1>3. PICK f : Spreads(f, Roots, ever, d) /\ Reach(Roots, ever, d) = f[d]
  BY <1>2, ReachUnfolds
<1>4. f[0] = Roots /\ \A k \in 1..d : f[k] = f[k - 1] \cup Successors(ever, f[k - 1])
  BY <1>3 DEF Spreads
<1> DEFINE T == {k \in Nat : \A j \in DOMAIN visited : visited[j][2] = k => visited[j][1] \in f[k]}
<1>5. 0 \in T
  BY <1>4, RootsAreVisited
<1>6. ASSUME NEW k \in 1..d, k - 1 \in T PROVE k \in T
  <2> SUFFICES ASSUME NEW j \in DOMAIN visited, visited[j][2] = k PROVE visited[j][1] \in f[k]
    OBVIOUS
  <2>1. PICK p \in DOMAIN visited : /\ visited[p][2] + 1 = visited[j][2]
                                    /\ <<visited[p][1], visited[j][1]>> \in ever
    <3>1. visited[j][2] # 0
      BY <1>2
    <3> QED
      BY <1>1, <3>1 DEF Followed
  <2>2. visited[p][2] = k - 1
    BY <1>2, <2>1
  <2>3. visited[p][1] \in f[k - 1]
    BY <1>6, <2>2
  <2>4. visited[j][1] \in Successors(ever, f[k - 1])
    <3> DEFINE e == <<visited[p][1], visited[j][1]>>
    <3>1. e \in ever /\ e[1] \in f[k - 1] /\ e[2] = visited[j][1]
      BY <2>1, <2>3
    <3> HIDE DEF e
    <3> QED
      BY <3>1 DEF Successors
  <2> QED
    BY <1>4, <2>4
<1>7. \A k \in 0..d : k \in T
  <2> HIDE DEF T
  <2> QED
    BY <1>2, <1>5, <1>6, UpTo
<1>8. d \in T
  BY <1>2, <1>7
<1> QED
  BY <1>3, <1>8 DEF Within

(* Unless the cap was reached, nodes within d steps of edges that were     *)
(* shown all along were visited, no deeper than d.                         *)
LEMMA ReachedAreVisited ==
    ASSUME Inv, Done, admitted < maxNodes, NEW d \in Nat, d <= maxDepth
    PROVE  \A m \in Within(always, d) :
              \E i \in DOMAIN visited : visited[i][1] = m /\ visited[i][2] <= d
<1>1. /\ visited \in Seq(Entries)
      /\ \A i \in DOMAIN visited : visited[i][2] < maxDepth =>
            \A n \in Nodes : <<visited[i][1], n>> \in always =>
                \E j \in DOMAIN visited :
                    visited[j][1] = n /\ visited[j][2] <= visited[i][2] + 1
  BY WhenDone
<1>2. maxDepth \in Nat /\ always \in SUBSET Pairs
  BY DEF Inv, SearchTypes, GraphTypes
<1>3. \A j \in DOMAIN visited : visited[j][2] \in Nat
  <2>1. \A j \in DOMAIN visited : visited[j] \in Entries
    BY <1>1
  <2> QED
    BY <2>1 DEF Entries
<1>4. PICK f : Spreads(f, Roots, always, d) /\ Reach(Roots, always, d) = f[d]
  BY ReachUnfolds
<1>5. f[0] = Roots /\ \A k \in 1..d : f[k] = f[k - 1] \cup Successors(always, f[k - 1])
  BY <1>4 DEF Spreads
<1> DEFINE Near(k) == {visited[i][1] : i \in {j \in DOMAIN visited : visited[j][2] <= k}}
           T == {k \in Nat : f[k] \subseteq Near(k)}
<1>6. 0 \in T
  BY <1>5, RootsAreVisited
<1>7. ASSUME NEW k \in 1..d, k - 1 \in T PROVE k \in T
  <2>1. f[k - 1] \subseteq Near(k - 1) /\ k \in Nat
    BY <1>7
  <2>2. Near(k - 1) \subseteq Near(k)
    <3>1. \A j \in DOMAIN visited : visited[j][2] <= k - 1 => visited[j][2] <= k
      BY <1>3
    <3> QED
      BY <3>1
  <2>3. ASSUME NEW m \in Successors(always, f[k - 1]) PROVE m \in Near(k)
    <3>1. PICK e \in always : e[1] \in f[k - 1] /\ e[2] = m
      BY DEF Successors
    <3>2. e = <<e[1], m>> /\ m \in Nodes
      BY <1>2, <3>1 DEF Pairs
    <3>3. PICK i \in DOMAIN visited : visited[i][1] = e[1] /\ visited[i][2] <= k - 1
      BY <2>1, <3>1
    <3>4. visited[i][2] < maxDepth /\ visited[i][2] \in Nat
      BY <1>2, <1>3, <3>3
    <3>5. PICK j \in DOMAIN visited : visited[j][1] = m /\ visited[j][2] <= visited[i][2] + 1
      BY <1>1, <3>2, <3>3, <3>4
    <3>6. visited[j][2] <= k
      BY <1>3, <3>3, <3>4, <3>5
    <3> QED
      BY <3>5, <3>6
  <2>4. f[k] \subseteq Near(k)
    <3> HIDE DEF Near
    <3> QED
      BY <1>5, <2>1, <2>2, <2>3
  <2> QED
    BY <2>1, <2>4
<1>8. \A k \in 0..d : k \in T
  <2> HIDE DEF T
  <2> QED
    BY <1>6, <1>7, UpTo
<1>9. d \in T
  BY <1>8
<1> QED
  BY <1>4, <1>9 DEF Within

(* A reported depth is a number of steps along edges that were shown at    *)
(* some time, and edges that were shown all along are no shorter way.      *)
THEOREM DepthsAreAlwaysJustified == Spec => []DepthsAreJustified
<1>1. ASSUME Inv, Done, NEW v \in ToSet(visited)
      PROVE  /\ v[1] \in Within(ever, v[2])
             /\ admitted < maxNodes /\ v[2] > 0 => v[1] \notin Within(always, v[2] - 1)
  <2>1. PICK i \in DOMAIN visited : v = visited[i]
    BY DEF ToSet
  <2>2. v[1] \in Within(ever, v[2])
    BY <1>1, <2>1, VisitedAreReached
  <2>3. /\ visited \in Seq(Entries) /\ Distinct(visited)
        /\ \A j \in DOMAIN visited : visited[j][2] <= maxDepth
    BY <1>1, WhenDone
  <2>4. v[2] \in Nat /\ v[2] <= maxDepth /\ maxDepth \in Nat
    <3>1. visited[i] \in Entries
      BY <2>3
    <3> QED
      BY <1>1, <2>1, <2>3, <3>1 DEF Entries, Inv, SearchTypes
  <2>5. ASSUME admitted < maxNodes, v[2] > 0, v[1] \in Within(always, v[2] - 1) PROVE FALSE
    <3> DEFINE d == v[2] - 1
    <3>1. d \in Nat /\ d <= maxDepth
      BY <2>4, <2>5
    <3>2. v[1] \in Within(always, d)
      BY <2>5
    <3>3. \E j \in DOMAIN visited : visited[j][1] = v[1] /\ visited[j][2] <= d
      <4> HIDE DEF d
      <4> QED
        BY <1>1, <2>5, <3>1, <3>2, ReachedAreVisited
    <3>4. PICK j \in DOMAIN visited : visited[j][1] = v[1] /\ visited[j][2] <= d
      BY <3>3
    <3>5. j = i
      BY <2>1, <2>3, <3>4 DEF Distinct
    <3> QED
      BY <2>1, <2>4, <3>4, <3>5
  <2> QED
    BY <2>2, <2>5
<1>2. Inv => DepthsAreJustified
  BY <1>1, Zenon DEF DepthsAreJustified
<1> QED
  BY <1>2, InvHolds, PTL

(* Whatever was within reach all along is reported, below the cap.         *)
THEOREM StableReachIsAlwaysReported == Spec => []StableReachIsReported
<1>1. ASSUME Inv, Done, admitted < maxNodes
      PROVE  Within(always, maxDepth) \subseteq DOMAIN DepthOf
  <2>1. maxDepth \in Nat /\ maxDepth <= maxDepth
    BY <1>1 DEF Inv, SearchTypes
  <2>2. \A m \in Within(always, maxDepth) : \E i \in DOMAIN visited : visited[i][1] = m
    BY <1>1, <2>1, ReachedAreVisited
  <2>3. \A i \in DOMAIN visited : visited[i][1] \in DOMAIN DepthOf
    BY DEF DepthOf, ToSet
  <2> HIDE DEF DepthOf
  <2> QED
    BY <2>2, <2>3
<1>2. Inv => StableReachIsReported
  BY <1>1, Zenon DEF StableReachIsReported
<1> QED
  BY <1>2, InvHolds, PTL
==============================================================================
