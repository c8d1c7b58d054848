---------------------------- MODULE QueriesProofs ----------------------------
(***************************************************************************)
(* Proofs about Queries for every number of queries, entries, tables and   *)
(* mutations.                                                              *)
(***************************************************************************)
EXTENDS Queries, FiniteSetTheorems, WellFoundedInduction, TLAPS
(***************************************************************************)
(* Induction over the natural numbers, for a set instead of a predicate.   *)
(***************************************************************************)
(* Among finite sets there is one that has none of the others in it.       *)
LEMMA SmallestSet ==
    ASSUME NEW F, F # {}, \A S \in F : IsFiniteSet(S)
    PROVE  \E S \in F : \A T \in F : T \subseteq S => T = S
<1> DEFINE U == UNION F
           R == StrictSubsetOrdering(U)
           D == FiniteSubsetsOf(U)
<1>1. IsWellFoundedOn(R, D)
  BY FS_StrictSubsetOrderingWellFounded
<1>2. F \subseteq D
  BY DEF FiniteSubsetsOf
<1>3. \E S \in F : \A T \in F : ~ (<<T, S>> \in R)
  <2> HIDE DEF R, D
  <2> QED
    BY <1>1, <1>2, WFMin
<1>4. \A S, T \in F : T \subseteq S /\ T # S => <<T, S>> \in R
  BY <1>2 DEF StrictSubsetOrdering, FiniteSubsetsOf
<1> HIDE DEF R
<1> QED
  BY <1>3, <1>4

(* Numbers have a least one.                                               *)
LEMMA LeastNat ==
    ASSUME NEW T \in SUBSET Nat, T # {}
    PROVE  \E x \in T : \A y \in T : x <= y
<1> DEFINE F == {0..x : x \in T}
<1>1. F # {} /\ \A S \in F : IsFiniteSet(S)
  <2>1. \A x \in T : IsFiniteSet(0..x)
    BY FS_Interval
  <2>2. F # {}
    OBVIOUS
  <2> QED
    BY <2>1, <2>2
<1>2. \E S \in F : \A Q \in F : Q \subseteq S => Q = S
  <2> HIDE DEF F
  <2> QED
    BY <1>1, SmallestSet
<1>3. PICK x \in T : \A y \in T : 0..y \subseteq 0..x => 0..y = 0..x
  <2>1. PICK S \in F : \A Q \in F : Q \subseteq S => Q = S
    BY <1>2
  <2>2. PICK x \in T : S = 0..x
    OBVIOUS
  <2>3. \A y \in T : 0..y \in F
    OBVIOUS
  <2> HIDE DEF F
  <2> QED
    BY <2>1, <2>2, <2>3
<1>4. ASSUME NEW y \in T, y < x PROVE FALSE
  <2>1. 0..y \subseteq 0..x /\ x \in 0..x /\ x \notin 0..y
    BY <1>4
  <2> QED
    BY <1>3, <2>1
<1> QED
  BY <1>4

(* A set with 0 and every successor of its members has all numbers.        *)
LEMMA SetInduction ==
    ASSUME NEW T \in SUBSET Nat, 0 \in T, \A n \in T : n + 1 \in T
    PROVE  T = Nat
<1> SUFFICES ASSUME T # Nat PROVE FALSE
  OBVIOUS
<1>1. PICK n \in Nat \ T : \A m \in Nat \ T : n <= m
  BY LeastNat
<1>2. n - 1 \in T
  BY <1>1
<1> QED
  BY <1>1, <1>2

(* The same for the numbers up to a bound.                                 *)
LEMMA UpTo ==
    ASSUME NEW n \in Nat, NEW T, 0 \in T, \A i \in 1..n : i - 1 \in T => i \in T
    PROVE  \A i \in 0..n : i \in T
<1> DEFINE S == {i \in Nat : i <= n => i \in T}
<1>1. 0 \in S
  OBVIOUS
<1>2. ASSUME NEW i \in S PROVE i + 1 \in S
  <2> SUFFICES ASSUME i + 1 <= n PROVE i + 1 \in T
    OBVIOUS
  <2>1. i + 1 \in 1..n /\ (i + 1) - 1 = i /\ i \in T
    OBVIOUS
  <2> QED
    BY <2>1
<1>3. S = Nat
  <2>1. S \in SUBSET Nat
    OBVIOUS
  <2> HIDE DEF S
  <2> QED
    BY <1>1, <1>2, <2>1, SetInduction
<1> QED
  BY <1>3

Runs(f, n, V, a, step) ==
    f \in [0..n -> V] /\ f[0] = a /\ \A i \in 1..n : f[i] = step[<<i, f[i - 1]>>]

(* A first value and a step determine the values that follow.              *)
LEMMA Recursion ==
    ASSUME NEW n \in Nat, NEW V, NEW a \in V, NEW step,
           \A i \in 1..n : \A v \in V : step[<<i, v>>] \in V
    PROVE  \E f : Runs(f, n, V, a, step)
<1> DEFINE T == {k \in 0..n : \E f : Runs(f, k, V, a, step)}
<1>1. 0 \in T
  <2>1. Runs([k \in 0..0 |-> a], 0, V, a, step)
    BY DEF Runs
  <2> QED
    BY <2>1
<1>2. ASSUME NEW k \in 1..n, k - 1 \in T PROVE k \in T
  <2>1. PICK f : Runs(f, k - 1, V, a, step)
    BY <1>2
  <2> DEFINE g == [i \in 0..k |-> IF i = k THEN step[<<k, f[k - 1]>>] ELSE f[i]]
  <2>2. f[k - 1] \in V /\ step[<<k, f[k - 1]>>] \in V
    <3>1. k - 1 \in 0..(k - 1) /\ f \in [0..(k - 1) -> V]
      BY <2>1 DEF Runs
    <3>2. f[k - 1] \in V
      BY <3>1
    <3> QED
      BY <3>2
  <2>3. g \in [0..k -> V] /\ g[0] = a
    BY <2>1, <2>2 DEF Runs
  <2>4. ASSUME NEW i \in 1..k PROVE g[i] = step[<<i, g[i - 1]>>]
    <3>1. g[i - 1] = f[i - 1]
      OBVIOUS
    <3>2. CASE i = k
      BY <3>1, <3>2
    <3>3. CASE i # k
      <4>1. i \in 1..(k - 1) /\ g[i] = f[i]
        BY <3>3
      <4> QED
        BY <2>1, <3>1, <4>1 DEF Runs
    <3> QED
      BY <3>2, <3>3
  <2>5. Runs(g, k, V, a, step)
    BY <2>3, <2>4 DEF Runs
  <2> HIDE DEF g
  <2> QED
    BY <2>5
<1>3. \A k \in 0..n : k \in T
  <2> HIDE DEF T
  <2> QED
    BY <1>1, <1>2, UpTo
<1> QED
  BY <1>3

(***************************************************************************)
(* Dictionaries.                                                           *)
(***************************************************************************)
\* The first ids of a dictionary keep their keys.
Extends(longer, dictionary) ==
    /\ Len(dictionary) <= Len(longer)
    /\ \A id \in Ids(dictionary) : KeyOf(longer, id) = KeyOf(dictionary, id)

(* Interning a key gives its id, and takes no id from another key.         *)
LEMMA InternsKey ==
    ASSUME NEW K, NEW dictionary \in Seq(K), NEW key \in K,
           NEW r, r = GetOrInsert(dictionary, key)
    PROVE  /\ r.dictionary \in Seq(K) /\ r.id \in Ids(r.dictionary)
           /\ KeyOf(r.dictionary, r.id) = key
           /\ Extends(r.dictionary, dictionary)
           /\ IsInjective(dictionary) => IsInjective(r.dictionary)
<1> DEFINE n == Len(dictionary)
<1>1. n \in Nat /\ DOMAIN dictionary = 1..n
  OBVIOUS
<1>2. CASE Knows(dictionary, key)
  <2>1. r = [id |-> IdOf(dictionary, key), dictionary |-> dictionary]
    BY <1>2 DEF GetOrInsert
  <2>2. IdOf(dictionary, key) \in Ids(dictionary)
        /\ KeyOf(dictionary, IdOf(dictionary, key)) = key
    BY <1>2, Zenon DEF Knows, IdOf
  <2> QED
    BY <1>1, <2>1, <2>2 DEF Extends
<1>3. CASE ~Knows(dictionary, key)
  <2>1. r.id = n /\ r.dictionary = Append(dictionary, key)
    BY <1>3 DEF GetOrInsert
  <2> DEFINE longer == Append(dictionary, key)
  <2>2. /\ longer \in Seq(K) /\ Len(longer) = n + 1 /\ DOMAIN longer = 1..(n + 1)
        /\ longer[n + 1] = key /\ \A i \in 1..n : longer[i] = dictionary[i]
    OBVIOUS
  <2>3. \A i \in 1..n : dictionary[i] # key
    <3> SUFFICES ASSUME NEW i \in 1..n, dictionary[i] = key PROVE FALSE
      OBVIOUS
    <3>1. i - 1 \in 0..(n - 1) /\ (i - 1) + 1 = i
      BY <1>1
    <3> QED
      BY <1>3, <3>1 DEF Knows, Ids, KeyOf
  <2> HIDE DEF longer
  <2>4. n \in Ids(longer) /\ KeyOf(longer, n) = key
    BY <1>1, <2>2 DEF Ids, KeyOf
  <2>5. Extends(longer, dictionary)
    <3>1. \A id \in 0..(n - 1) : id + 1 \in 1..n
      BY <1>1
    <3> HIDE DEF n
    <3> QED
      BY <1>1, <2>2, <3>1 DEF Extends, Ids, KeyOf, n
  <2>6. ASSUME IsInjective(dictionary) PROVE IsInjective(longer)
    <3>1. \A a, b \in 1..n : dictionary[a] = dictionary[b] => a = b
      BY <1>1, <2>6 DEF IsInjective
    <3>2. \A a \in 1..(n + 1) : a = n + 1 \/ a \in 1..n
      BY <1>1
    <3> HIDE DEF n
    <3>3. \A a, b \in 1..(n + 1) : longer[a] = longer[b] => a = b
      BY <2>2, <2>3, <3>1, <3>2
    <3> QED
      BY <2>2, <3>3 DEF IsInjective
  <2> QED
    BY <2>1, <2>2, <2>4, <2>5, <2>6 DEF longer
<1> QED
  BY <1>2, <1>3

\* The edges over the ids of a dictionary.
Between(dictionary) == Ids(dictionary) \X Ids(dictionary)

\* What a table is encoded to, and the keys of the edges.
Projections(K) == [dictionary : Seq(K), edges : Seq(Nat \X Nat)]
Encoded(p) == IsInjective(p.dictionary) /\ ToSet(p.edges) \subseteq Between(p.dictionary)
KeysOf(dictionary, edge) == <<KeyOf(dictionary, edge[1]), KeyOf(dictionary, edge[2])>>
Decoded(p) == {KeysOf(p.dictionary, edge) : edge \in ToSet(p.edges)}
Whole(row) == Null \notin {row.from, row.to}
RowKeys(row) == <<row.from, row.to>>

(* A row with two ends adds its edge, and no other row adds anything.      *)
LEMMA InternsRow ==
    ASSUME NEW K, NEW p \in Projections(K), NEW row, row.from \in K, row.to \in K
    PROVE  LET r == Intern(p, row)
           IN  /\ r \in Projections(K)
               /\ Encoded(p) => Encoded(r)
               /\ Encoded(p) => Decoded(r) = Decoded(p) \cup {RowKeys(x) : x \in {y \in {row} : Whole(y)}}
<1> DEFINE r == Intern(p, row)
           from == GetOrInsert(p.dictionary, row.from)
           to == GetOrInsert(from.dictionary, row.to)
           edge == <<from.id, to.id>>
<1>1. p.dictionary \in Seq(K) /\ p.edges \in Seq(Nat \X Nat)
  BY DEF Projections
<1>2. CASE ~Whole(row)
  <2>1. r = p
    BY <1>2 DEF Intern, Whole
  <2>2. {y \in {row} : Whole(y)} = {}
    BY <1>2
  <2> HIDE DEF r
  <2>3. r \in Projections(K) /\ (Encoded(p) => Encoded(r)) /\ Decoded(r) = Decoded(p) \cup {}
    BY <2>1
  <2> QED
    BY <2>2, <2>3 DEF r
<1>3. CASE Whole(row)
  <2>1. /\ from.dictionary \in Seq(K) /\ from.id \in Ids(from.dictionary)
        /\ KeyOf(from.dictionary, from.id) = row.from
        /\ Extends(from.dictionary, p.dictionary)
        /\ IsInjective(p.dictionary) => IsInjective(from.dictionary)
    BY <1>1, InternsKey
  <2> HIDE DEF from
  <2>2. /\ to.dictionary \in Seq(K) /\ to.id \in Ids(to.dictionary)
        /\ KeyOf(to.dictionary, to.id) = row.to
        /\ Extends(to.dictionary, from.dictionary)
        /\ IsInjective(from.dictionary) => IsInjective(to.dictionary)
    BY <2>1, InternsKey
  <2>3. r = [dictionary |-> to.dictionary, edges |-> Append(p.edges, edge)]
    BY <1>3 DEF Intern, Whole, from
  <2> HIDE DEF to, r
  <2>4. Len(p.dictionary) \in Nat /\ Len(from.dictionary) \in Nat /\ Len(to.dictionary) \in Nat
    BY <1>1, <2>1, <2>2
  <2>5. \A id \in Ids(p.dictionary) :
           id \in Ids(to.dictionary) /\ KeyOf(to.dictionary, id) = KeyOf(p.dictionary, id)
    <3>1. /\ Ids(p.dictionary) \subseteq Ids(from.dictionary)
          /\ Ids(from.dictionary) \subseteq Ids(to.dictionary)
      BY <2>1, <2>2, <2>4 DEF Extends, Ids
    <3> QED
      BY <2>1, <2>2, <3>1 DEF Extends
  <2>6. from.id \in Ids(to.dictionary) /\ KeyOf(to.dictionary, from.id) = row.from
    <3>1. Ids(from.dictionary) \subseteq Ids(to.dictionary)
      BY <2>2, <2>4 DEF Extends, Ids
    <3> QED
      BY <2>1, <2>2, <3>1 DEF Extends
  <2>7. from.id \in Nat /\ to.id \in Nat
    BY <2>1, <2>2, <2>4 DEF Ids
  <2>8. edge \in Nat \X Nat /\ edge \in Between(to.dictionary)
    BY <2>2, <2>6, <2>7 DEF Between
  <2>9. KeysOf(to.dictionary, edge) = RowKeys(row)
    BY <2>2, <2>6 DEF KeysOf, RowKeys
  <2> HIDE DEF edge
  <2>10. Append(p.edges, edge) \in Seq(Nat \X Nat)
         /\ ToSet(Append(p.edges, edge)) = ToSet(p.edges) \cup {edge}
    <3>1. Len(p.edges) \in Nat /\ DOMAIN p.edges = 1..Len(p.edges)
      BY <1>1
    <3>2. /\ Append(p.edges, edge) \in Seq(Nat \X Nat)
          /\ DOMAIN Append(p.edges, edge) = 1..(Len(p.edges) + 1)
          /\ Append(p.edges, edge)[Len(p.edges) + 1] = edge
          /\ \A i \in 1..Len(p.edges) : Append(p.edges, edge)[i] = p.edges[i]
      BY <1>1, <2>8
    <3>3. 1..(Len(p.edges) + 1) = 1..Len(p.edges) \cup {Len(p.edges) + 1}
      BY <3>1
    <3> QED
      BY <3>1, <3>2, <3>3 DEF ToSet
  <2>11. r \in Projections(K) /\ r.dictionary = to.dictionary /\ ToSet(r.edges) = ToSet(p.edges) \cup {edge}
    BY <2>2, <2>3, <2>10 DEF Projections
  <2>12. ASSUME Encoded(p) PROVE Encoded(r)
    <3>1. ToSet(p.edges) \subseteq Between(to.dictionary)
      BY <2>5, <2>12 DEF Encoded, Between
    <3> QED
      BY <2>1, <2>2, <2>8, <2>11, <2>12, <3>1 DEF Encoded
  <2>13. ASSUME Encoded(p) PROVE Decoded(r) = Decoded(p) \cup {RowKeys(row)}
    <3>1. \A old \in ToSet(p.edges) : KeysOf(to.dictionary, old) = KeysOf(p.dictionary, old)
      BY <2>5, <2>13 DEF Encoded, Between, KeysOf
    <3> QED
      BY <2>9, <2>11, <3>1 DEF Decoded
  <2>14. {RowKeys(x) : x \in {y \in {row} : Whole(y)}} = {RowKeys(row)}
    BY <1>3
  <2> QED
    BY <2>11, <2>12, <2>13, <2>14 DEF r
<1> QED
  BY <1>2, <1>3

Ends(rows) == {r.from : r \in ToSet(rows)} \cup {r.to : r \in ToSet(rows)}
Nothing == [dictionary |-> <<>>, edges |-> <<>>]

Projects(f, rows) == f = [n \in 0..Len(rows) |-> IF n = 0 THEN Nothing ELSE Intern(f[n - 1], rows[n])]

ProjectsUpTo(f, rows) ==
    /\ f \in [0..Len(rows) -> Projections(Ends(rows))]
    /\ f[0] = Nothing
    /\ \A n \in 1..Len(rows) : f[n] = Intern(f[n - 1], rows[n])

(* Projected interns one row after the other.                              *)
LEMMA ProjectedUnfolds ==
    ASSUME NEW rows \in Tables
    PROVE  \E f : ProjectsUpTo(f, rows) /\ Projected(rows) = f[Len(rows)]
<1> DEFINE m == Len(rows)
           V == Projections(Ends(rows))
           More(n, v) == Intern(v, rows[n])
           step == [p \in (1..m) \X V |-> More(p[1], p[2])]
<1>1. rows \in Seq(ToSet(rows)) /\ m \in Nat
  BY QueriesAssumption
<1>2. \A n \in 1..m : rows[n].from \in Ends(rows) /\ rows[n].to \in Ends(rows)
  <2>1. \A n \in 1..m : rows[n] \in ToSet(rows)
    BY <1>1
  <2> QED
    BY <2>1 DEF Ends
<1>3. Nothing \in V
  BY DEF Nothing, Projections
<1>4. \A n \in 1..m : \A v \in V : More(n, v) \in V
  BY <1>2, InternsRow
<1>5. \A n \in 1..m : \A v \in V : step[<<n, v>>] = More(n, v)
  <2> HIDE DEF More, m, V
  <2> QED
    OBVIOUS
<1>6. \E f : Runs(f, m, V, Nothing, step)
  <2>1. \A n \in 1..m : \A v \in V : step[<<n, v>>] \in V
    <3> HIDE DEF step, More, m, V
    <3> QED
      BY <1>4, <1>5, Zenon
  <2> HIDE DEF step, m, V
  <2> QED
    BY <1>1, <1>3, <2>1, Recursion
<1>7. PICK f : Runs(f, m, V, Nothing, step)
  BY <1>6
<1>8. f \in [0..m -> V] /\ f[0] = Nothing /\ \A n \in 1..m : f[n] = More(n, f[n - 1])
  <2>1. \A n \in 1..m : n - 1 \in 0..m
    BY <1>1
  <2> HIDE DEF step, More, m, V
  <2> QED
    BY <1>5, <1>7, <2>1 DEF Runs
<1>9. Projects(f, rows)
  <2>1. f = [n \in 0..m |-> f[n]]
    BY <1>8
  <2>2. \A n \in 0..m : f[n] = IF n = 0 THEN Nothing ELSE More(n, f[n - 1])
    <3>1. \A n \in 0..m : n = 0 \/ n \in 1..m
      BY <1>1
    <3> HIDE DEF More, m, V
    <3> QED
      BY <1>8, <3>1
  <2>3. f = [n \in 0..m |-> IF n = 0 THEN Nothing ELSE More(n, f[n - 1])]
    <3> HIDE DEF More, m, V
    <3> QED
      BY <2>1, <2>2
  <2> QED
    BY <2>3, Zenon DEF Projects
<1> DEFINE g == CHOOSE h : Projects(h, rows)
<1>10. Projects(g, rows) /\ Projected(rows) = g[m]
  BY <1>9, Zenon DEF Projects, Projected, Nothing
<1> HIDE DEF g
<1>11. g = [n \in 0..m |-> IF n = 0 THEN Nothing ELSE More(n, g[n - 1])]
  BY <1>10, Zenon DEF Projects
<1>12. g[0] = Nothing /\ \A n \in 1..m : g[n] = More(n, g[n - 1])
  <2>1. 0 \in 0..m /\ \A n \in 1..m : n \in 0..m /\ n # 0
    BY <1>1
  <2> HIDE DEF More, m, V
  <2> QED
    BY <1>11, <2>1
<1>13. \A n \in 0..m : g[n] \in V
  <2> DEFINE T == {n \in 0..m : g[n] \in V}
  <2> HIDE DEF More, m, V
  <2>1. 0 \in T
    BY <1>1, <1>3, <1>12
  <2>2. \A n \in 1..m : n - 1 \in T => n \in T
    BY <1>1, <1>4, <1>12
  <2>3. \A n \in 0..m : n \in T
    <3> HIDE DEF T
    <3> QED
      BY <1>1, <2>1, <2>2, UpTo
  <2> QED
    BY <2>3
<1>14. ProjectsUpTo(g, rows)
  <2>1. g \in [0..m -> V]
    <3> HIDE DEF More, m, V
    <3> QED
      BY <1>11, <1>13
  <2> QED
    BY <1>12, <2>1, Zenon DEF ProjectsUpTo
<1> QED
  BY <1>10, <1>14

(* A table is encoded to a dictionary that has each key once and to edges  *)
(* over its ids, and these decode to the rows with two ends.               *)
LEMMA TablesDecode ==
    ASSUME NEW rows \in Tables
    PROVE  /\ Encoded(Projected(rows))
           /\ Decoded(Projected(rows)) = {RowKeys(r) : r \in {x \in ToSet(rows) : Whole(x)}}
           /\ Projected(rows) \in Projections(Ends(rows))
<1> DEFINE m == Len(rows)
           V == Projections(Ends(rows))
           Upto(n) == {RowKeys(rows[i]) : i \in {j \in 1..n : Whole(rows[j])}}
<1>1. rows \in Seq(ToSet(rows)) /\ m \in Nat /\ DOMAIN rows = 1..m
  BY QueriesAssumption
<1>2. \A n \in 1..m : rows[n].from \in Ends(rows) /\ rows[n].to \in Ends(rows)
  <2>1. \A n \in 1..m : rows[n] \in ToSet(rows)
    BY <1>1
  <2> QED
    BY <2>1 DEF Ends
<1>3. PICK f : ProjectsUpTo(f, rows) /\ Projected(rows) = f[m]
  BY ProjectedUnfolds
<1>4. /\ \A n \in 0..m : f[n] \in V
      /\ f[0] = Nothing
      /\ \A n \in 1..m : f[n] = Intern(f[n - 1], rows[n])
  BY <1>3 DEF ProjectsUpTo
<1> DEFINE T == {n \in 0..m : Encoded(f[n]) /\ Decoded(f[n]) = Upto(n)}
<1>5. 0 \in T
  <2>1. Upto(0) = {}
    OBVIOUS
  <2>2. ToSet(<<>>) = {}
    BY DEF ToSet
  <2>3. Encoded(Nothing) /\ Decoded(Nothing) = {}
    BY <2>2 DEF Encoded, Decoded, Nothing, IsInjective
  <2> QED
    BY <1>1, <1>4, <2>1, <2>3
<1>6. ASSUME NEW n \in 1..m, n - 1 \in T PROVE n \in T
  <2> DEFINE row == rows[n]
             last == {RowKeys(x) : x \in {y \in {row} : Whole(y)}}
  <2>1. /\ Encoded(f[n - 1]) /\ Decoded(f[n - 1]) = Upto(n - 1)
        /\ f[n - 1] \in V /\ f[n] = Intern(f[n - 1], row)
    BY <1>4, <1>6
  <2>2. Encoded(f[n]) /\ Decoded(f[n]) = Upto(n - 1) \cup last
    <3> HIDE DEF last, Upto
    <3> QED
      BY <1>2, <2>1, InternsRow DEF last
  <2>3. Upto(n - 1) \cup last = Upto(n)
    <3>1. 1..n = 1..(n - 1) \cup {n}
      BY <1>1
    <3> QED
      BY <3>1
  <2> QED
    BY <2>2, <2>3
<1>7. m \in T
  <2> HIDE DEF T
  <2>1. \A n \in 0..m : n \in T
    BY <1>1, <1>5, <1>6, UpTo
  <2> QED
    BY <1>1, <2>1
<1>8. Upto(m) = {RowKeys(r) : r \in {x \in ToSet(rows) : Whole(x)}}
  BY <1>1 DEF ToSet
<1> QED
  BY <1>1, <1>3, <1>4, <1>7, <1>8
-----------------------------------------------------------------------------
(***************************************************************************)
(* The values that graphs, entries and queries are made of.                *)
(***************************************************************************)
AllEdges == Nat \X Nat
EdgeSets == {edges \in SUBSET AllEdges : IsFiniteSet(edges)}
Dictionaries == {NoDictionary} \cup {Projected(rows).dictionary : rows \in Tables}

SourceRecord == [of : Nat, sweeps : Nat, shown : SUBSET AllEdges, held : SUBSET AllEdges]

Graph == [base : EdgeSets, ins : EdgeSets, dels : SUBSET AllEdges,
          keys : Dictionaries, rows : Tables \cup {<<>>},
          source : SourceRecord, sweeps : Nat]

EntryRecord == [forward : Nat, reverse : Nat, dictionary : Dictionaries, of : Nat]

OpRecord == [kind : {"none", "insert", "delete", "clear"}, graph : Nat, pair : AllEdges]

Watches == [shown : SUBSET AllEdges, held : SUBSET AllEdges, busy : SUBSET AllEdges]

CallRecords == {input.calls[q] : input \in Inputs, q \in Queriers}
Starts == {0} \cup {IdOf(dictionary, call.key) : dictionary \in Dictionaries, call \in CallRecords}
QueryPhases == {"key", "get", "reverse", "build", "walk", "set", "nodes", "planned",
                "probe", "probed", "plain", "done", "refused"}

QueryRecord == [at : QueryPhases, call : CallRecords, start : Starts, keyed : Nat, got : Nat,
                looked : Nat, reverse : Nat, named : Nat, dels : SUBSET AllEdges,
                watched : Watches, sweeps : Nat, kernel : {"none", "optimized", "plain"},
                pair : EdgeSets \X EdgeSets]

TypeInv ==
    /\ graphs \in Seq(Graph)
    /\ entries \in Seq(EntryRecord)
    /\ catalog \in 0..Len(entries)
    /\ query \in [Queriers -> QueryRecord]
    /\ compaction \in [entry : Nat, merged : EdgeSets]
    /\ op \in [Writers -> OpRecord]

(***************************************************************************)
(* The inductive invariant.                                                *)
(***************************************************************************)
\* What differs between a graph and its transpose, as edges of the latter.
Differences(base, transpose) == (Flip(base) \ transpose) \cup (transpose \ Flip(base))

\* The edges that the delta of g, with number f, has or is about to have.
Touched(g, f, ops) == g.ins \cup g.dels \cup Busy(ops, f)

(* Graph t is a true transpose of g, which has number f: it is made of     *)
(* what g showed and held, and until the delta of g is drained or cleared, *)
(* it has every edge on which the two bases differ.                        *)
Reversal(t, g, f, ops) ==
    /\ t.source.of = f
    /\ t.base \subseteq Flip(t.source.shown)
    /\ Flip(t.source.held) \subseteq t.base
    /\ t.source.sweeps <= g.sweeps
    /\ t.source.sweeps = g.sweeps => Differences(g.base, t.base) \subseteq Flip(Touched(g, f, ops))

(* The forward graph of an entry exists, its transpose is a reversal of    *)
(* it, and its dictionary is the one that the graph was encoded with.      *)
EntryInv(entry) ==
    /\ entry.forward \in 1..Len(graphs)
    /\ entry.reverse # None =>
          /\ entry.reverse \in 1..Len(graphs)
          /\ Reversal(graphs[entry.reverse], graphs[entry.forward], entry.forward, op)
    /\ entry.dictionary = graphs[entry.forward].keys

DrainInv == compaction # Idle => compaction.entry \in 1..Len(entries)

\* A mutation under way has its graph and, unless it is a clear, its edge.
OpInv ==
    \A w \in Writers : op[w].kind # "none" =>
        /\ op[w].graph \in 1..Len(graphs)
        /\ op[w].kind # "clear" => op[w].pair \in Pairs

(* Query r walks graph g, of number f: the tombstones that it has read     *)
(* stay touched, and all that it will make a transpose of was shown.       *)
Walks(r, g, f, ops) ==
    /\ r.sweeps <= g.sweeps
    /\ r.sweeps = g.sweeps => r.dels \subseteq Touched(g, f, ops)
    /\ g.base \ r.dels \subseteq r.watched.shown
    /\ g.ins \subseteq r.watched.shown
    /\ r.watched.held \subseteq (g.base \cup g.ins) \ r.dels

(* Query r has found no insertion in g: where g and its transpose t        *)
(* differ, there is a tombstone or a writer.                               *)
Probes(r, g, t) ==
    r.got = r.looked /\ t.source.sweeps = g.sweeps
        => Differences(g.base, t.base) \subseteq Flip(r.watched.busy \cup g.dels)

(* Query r searches a graph and its transpose t.                           *)
Coherent(r, t) ==
    \/ r.pair[2] = Flip(r.pair[1])
    \/ r.got # r.looked
    \/ r.sweeps # t.source.sweeps
    \/ \E p, o \in r.watched.busy : p # o

(* What a query has found.  Its transpose is a reversal of the graph of    *)
(* the entry it asked, and from its plan on the one that the entry keeps.  *)
Looking == {"key", "get", "reverse"}
Building == {"build", "walk", "set"}
Probing == {"probe", "probed"}
Executing == {"planned", "plain", "done"} \cup Probing

Transposed(r) ==
    /\ r.looked \in 1..Len(entries)
    /\ r.reverse \in 1..Len(graphs)
    /\ Reversal(graphs[r.reverse], graphs[entries[r.looked].forward], entries[r.looked].forward, op)
    /\ r.at # "set" => r.reverse = entries[r.looked].reverse

SameSize(r) ==
    Cardinality(graphs[entries[r.got].forward].base) = Cardinality(graphs[r.reverse].base)

QueryInv(q) ==
    LET r == query[q]
        found == entries[r.got].forward
        asked == entries[r.looked].forward
    IN  /\ r.at \in Looking \cup {"build", "walk"} => r.reverse = None
        /\ r.at \in {"set"} \cup Probing \/ r.kernel = "optimized" => r.reverse # None
        /\ r.at \in {"reverse", "nodes"} \cup Building \cup Executing => r.got \in 1..Len(entries)
        /\ r.at \in Building => r.looked \in 1..Len(entries)
        /\ r.reverse # None => Transposed(r)
        /\ r.at = "walk" => Walks(r, graphs[asked], asked, op)
        /\ r.at \in Probing => SameSize(r)
        /\ r.at = "probed" => Probes(r, graphs[found], graphs[r.reverse])
        /\ r.kernel = "optimized" => r.at = "done" /\ Coherent(r, graphs[r.reverse])

Inv ==
    /\ TypeInv
    /\ OpInv
    /\ \A e \in 1..Len(entries) : EntryInv(entries[e])
    /\ DrainInv
    /\ \A q \in Queriers : QueryInv(q)

-----------------------------------------------------------------------------
(***************************************************************************)
(* Sequences and sets of edges.                                            *)
(***************************************************************************)
(* A sequence with one more element.                                       *)
LEMMA Appended ==
    ASSUME NEW S, NEW s \in Seq(S), NEW x \in S
    PROVE  /\ Append(s, x) \in Seq(S)
           /\ Len(Append(s, x)) = Len(s) + 1
           /\ \A i \in 1..Len(s) : Append(s, x)[i] = s[i]
           /\ Append(s, x)[Len(s) + 1] = x
OBVIOUS

(* A sequence with one element replaced.                                   *)
LEMMA Replaced ==
    ASSUME NEW S, NEW s \in Seq(S), NEW k \in 1..Len(s), NEW x \in S
    PROVE  /\ [s EXCEPT ![k] = x] \in Seq(S)
           /\ Len([s EXCEPT ![k] = x]) = Len(s)
           /\ \A i \in 1..Len(s) : [s EXCEPT ![k] = x][i] = IF i = k THEN x ELSE s[i]
OBVIOUS

(* A sequence has finitely many elements.                                  *)
LEMMA FiniteElements ==
    ASSUME NEW S, NEW s \in Seq(S)
    PROVE  IsFiniteSet(ToSet(s)) /\ ToSet(s) \subseteq S
<1>1. Len(s) \in Nat /\ DOMAIN s = 1..Len(s) /\ \A i \in 1..Len(s) : s[i] \in S
  OBVIOUS
<1>2. IsFiniteSet(1..Len(s))
  BY <1>1, FS_Interval
<1> DEFINE T == {s[i] : i \in 1..Len(s)}
           f == [i \in 1..Len(s) |-> s[i]]
<1>3. f \in Surjection(1..Len(s), T)
  BY DEF Surjection
<1> HIDE DEF f
<1>4. IsFiniteSet(T)
  BY <1>2, <1>3, FS_Surjection
<1>5. QED
  BY <1>1, <1>4 DEF ToSet

(* As many edges as the other way round.                                   *)
LEMMA FlipStays ==
    ASSUME NEW S \in EdgeSets
    PROVE  Flip(S) \in EdgeSets /\ Cardinality(Flip(S)) = Cardinality(S)
<1> DEFINE f == [p \in S |-> <<p[2], p[1]>>]
<1>1. S \subseteq AllEdges /\ IsFiniteSet(S)
  BY DEF EdgeSets
<1>2. f \in Bijection(S, Flip(S))
  <2>1. f \in [S -> Flip(S)]
    BY DEF Flip
  <2>2. \A p, o \in S : f[p] = f[o] => p = o
    BY <1>1 DEF AllEdges
  <2>3. \A o \in Flip(S) : \E p \in S : f[p] = o
    BY DEF Flip
  <2> HIDE DEF f
  <2>4. QED
    BY <2>1, <2>2, <2>3 DEF Bijection, Injection, Surjection, IsInjective
<1> HIDE DEF f
<1>3. ExistsBijection(S, Flip(S))
  BY <1>2 DEF ExistsBijection
<1>4. IsFiniteSet(Flip(S)) /\ Cardinality(Flip(S)) = Cardinality(S)
  BY <1>1, <1>3, FS_Bijection
<1>5. Flip(S) \subseteq AllEdges
  BY <1>1 DEF Flip, AllEdges
<1>6. QED
  BY <1>4, <1>5 DEF EdgeSets

(* The part of a set of edges, and two of them together.                   *)
LEMMA EdgeSetsStay ==
    ASSUME NEW S \in EdgeSets, NEW T \in EdgeSets, NEW D
    PROVE  S \ D \in EdgeSets /\ S \cup T \in EdgeSets
BY FS_Difference, FS_Union DEF EdgeSets

(* Edges of one kind, and one edge less or more.                           *)
LEMMA SmallSets ==
    /\ {} \in EdgeSets
    /\ \A p \in AllEdges : {p} \in EdgeSets
    /\ \A S \in EdgeSets : S \in SUBSET AllEdges
<1>1. {} \in EdgeSets
  BY FS_EmptySet DEF EdgeSets
<1>2. ASSUME NEW p \in AllEdges PROVE {p} \in EdgeSets
  BY <1>2, FS_Singleton DEF EdgeSets
<1>3. QED
  BY <1>1, <1>2 DEF EdgeSets

(* Two sets of one size differ in no edge or in two.                       *)
LEMMA NoSingleDifference ==
    ASSUME NEW S \in EdgeSets, NEW T \in EdgeSets, Cardinality(S) = Cardinality(T),
           NEW B, \A p, o \in B : p = o, Differences(S, T) \subseteq Flip(B)
    PROVE  T = Flip(S)
<1> DEFINE F == Flip(S)
<1>1. /\ IsFiniteSet(F) /\ IsFiniteSet(T)
      /\ Cardinality(F) = Cardinality(T) /\ Cardinality(T) \in Nat
  BY FlipStays, FS_CardinalityType DEF EdgeSets
<1>2. \A p, o \in Flip(B) : p = o
  BY DEF Flip
<1>3. \A p, o \in (F \ T) \cup (T \ F) : p = o
  BY <1>2 DEF Differences
<1> HIDE DEF F
<1>4. ASSUME NEW d \in F \ T PROVE FALSE
  <2>1. F = T \cup {d}
    BY <1>3, <1>4
  <2>2. Cardinality(T \cup {d}) = Cardinality(T) + 1
    BY <1>1, <1>4, FS_AddElement
  <2>3. QED
    BY <1>1, <2>1, <2>2
<1>5. ASSUME NEW d \in T \ F PROVE FALSE
  <2>1. T = F \cup {d}
    BY <1>3, <1>5
  <2>2. Cardinality(F \cup {d}) = Cardinality(F) + 1
    BY <1>1, <1>5, FS_AddElement
  <2>3. QED
    BY <1>1, <2>1, <2>2
<1>6. QED
  BY <1>4, <1>5 DEF F

(* The edges and the dictionary that a table is encoded to.                *)
LEMMA TableIsEncoded ==
    ASSUME NEW rows \in Tables
    PROVE  /\ ToSet(Projected(rows).edges) \in EdgeSets
           /\ Projected(rows).dictionary \in Dictionaries
<1>1. Projected(rows).edges \in Seq(AllEdges)
  BY TablesDecode DEF Projections, AllEdges
<1>2. QED
  BY <1>1, FiniteElements DEF EdgeSets, Dictionaries

(* A graph that was just built.                                            *)
LEMMA BuiltIsGraph ==
    ASSUME NEW edges \in EdgeSets, NEW keys \in Dictionaries, NEW rows \in Tables \cup {<<>>},
           NEW source \in SourceRecord
    PROVE  Built(edges, keys, rows, source) \in Graph
BY SmallSets DEF Built, Graph

(* What stands in for the rest.                                            *)
LEMMA Nones ==
    /\ NoSource \in SourceRecord /\ NoOp \in OpRecord /\ NoWatch \in Watches
    /\ NoDictionary \in Dictionaries /\ <<>> \in Tables \cup {<<>>}
BY DEF NoSource, Source, SourceRecord, NoOp, OpRecord, AllEdges, NoWatch, Watches, Dictionaries, None

(* What a graph shows and holds, and what compact and transpose make of it.*)
LEMMA Contents ==
    ASSUME NEW g \in Graph, NEW dels
    PROVE  /\ Shown(g) \in SUBSET AllEdges /\ Held(g) \in SUBSET AllEdges
           /\ MergedEdges(g.base, dels, g.ins) \in EdgeSets
<1>1. g.base \in EdgeSets /\ g.ins \in EdgeSets
  BY DEF Graph
<1>2. g.base \in SUBSET AllEdges /\ g.ins \in SUBSET AllEdges
  BY <1>1, SmallSets
<1>3. g.base \ dels \in EdgeSets /\ g.ins \ g.base \in EdgeSets
  BY <1>1, EdgeSetsStay
<1>4. QED
  BY <1>2, <1>3, EdgeSetsStay DEF Shown, Held, MergedEdges

-----------------------------------------------------------------------------
(***************************************************************************)
(* Graphs keep their base and their keys and count their sweeps, entries   *)
(* keep their graph and their dictionary, and a query that does not move   *)
(* at most watches.                                                        *)
(***************************************************************************)
\* Graph h is what a step made of g, which has number f.
Grown(h, g, f) ==
    /\ h.base = g.base /\ h.keys = g.keys /\ h.source = g.source
    /\ h.sweeps >= g.sweeps
    /\ h.sweeps = g.sweeps => Touched(g, f, op) \subseteq Touched(h, f, op')

GrownGraphs ==
    /\ graphs' \in Seq(Graph)
    /\ Len(graphs') >= Len(graphs)
    /\ \A i \in 1..Len(graphs) : Grown(graphs'[i], graphs[i], i)

GrownEntries ==
    /\ entries' \in Seq(EntryRecord)
    /\ Len(entries') >= Len(entries)
    /\ \A e \in 1..Len(entries) :
          /\ entries'[e].forward = entries[e].forward
          /\ entries'[e].dictionary = entries[e].dictionary
          /\ entries[e].reverse # None => entries'[e].reverse = entries[e].reverse

\* While graph g becomes h, query r becomes s.
WalksOn(s, r, h) ==
    /\ r.watched.shown \subseteq s.watched.shown
    /\ h.ins \subseteq s.watched.shown
    /\ s.watched.held \subseteq r.watched.held \cap (h.base \cup h.ins)

ProbesOn(s, r, h, g) ==
    /\ r.watched.busy \subseteq s.watched.busy
    /\ h.sweeps = g.sweeps => g.dels \subseteq h.dels \cup s.watched.busy

SameSearch(s, r) ==
    /\ s.at = r.at /\ s.got = r.got /\ s.looked = r.looked /\ s.reverse = r.reverse
    /\ s.dels = r.dels /\ s.sweeps = r.sweeps /\ s.kernel = r.kernel /\ s.pair = r.pair

Follows(s, r) ==
    LET asked == entries[r.looked].forward
        found == entries[r.got].forward
    IN  /\ SameSearch(s, r)
        /\ r.at = "walk" => WalksOn(s, r, graphs'[asked])
        /\ r.at = "probed" => ProbesOn(s, r, graphs'[found], graphs[found])
        /\ r.at \notin {"walk", "probed"} => s = r

(* What was a reversal stays one.                                          *)
LEMMA ReversalStays ==
    ASSUME NEW t, NEW s, NEW g \in Graph, NEW h \in Graph, NEW f, Grown(h, g, f), Reversal(t, g, f, op),
           s.base = t.base, s.source = t.source, t.source.sweeps \in Nat
    PROVE  Reversal(s, h, f, op')
<1>1. /\ g.sweeps \in Nat /\ h.sweeps \in Nat /\ h.base = g.base /\ h.sweeps >= g.sweeps
      /\ h.sweeps = g.sweeps => Touched(g, f, op) \subseteq Touched(h, f, op')
  BY DEF Graph, Grown
<1>2. ASSUME t.source.sweeps = h.sweeps
      PROVE  Differences(h.base, t.base) \subseteq Flip(Touched(h, f, op'))
  <2>1. t.source.sweeps = g.sweeps /\ h.sweeps = g.sweeps
    BY <1>1, <1>2 DEF Reversal
  <2>2. Differences(g.base, t.base) \subseteq Flip(Touched(g, f, op))
    BY <2>1 DEF Reversal
  <2>3. Flip(Touched(g, f, op)) \subseteq Flip(Touched(h, f, op'))
    BY <1>1, <2>1 DEF Flip
  <2>4. QED
    BY <1>1, <2>2, <2>3
<1>3. t.source.sweeps <= h.sweeps
  BY <1>1 DEF Reversal
<1>4. QED
  BY <1>2, <1>3 DEF Reversal

(* A graph and its transpose stay a pair, wherever they are in the lists.  *)
LEMMA PairStays ==
    ASSUME TypeInv, GrownGraphs, NEW f \in 1..Len(graphs), NEW k \in 1..Len(graphs),
           Reversal(graphs[k], graphs[f], f, op)
    PROVE  Reversal(graphs'[k], graphs'[f], f, op')
<1>1. /\ graphs[f] \in Graph /\ graphs[k] \in Graph /\ graphs'[f] \in Graph
      /\ Grown(graphs'[f], graphs[f], f) /\ Grown(graphs'[k], graphs[k], k)
  BY DEF TypeInv, GrownGraphs
<1>2. graphs[k].source.sweeps \in Nat
  BY <1>1 DEF Graph, SourceRecord
<1>3. graphs'[k].base = graphs[k].base /\ graphs'[k].source = graphs[k].source
  BY <1>1 DEF Grown
<1>4. QED
  BY <1>1, <1>2, <1>3, ReversalStays

(* An entry whose transpose is as it was remains in order.                 *)
LEMMA EntryStays ==
    ASSUME TypeInv, GrownGraphs, GrownEntries, NEW e \in 1..Len(entries), EntryInv(entries[e]),
           entries'[e].reverse = entries[e].reverse
    PROVE  EntryInv(entries[e])'
<1>1. Len(graphs) \in Nat /\ Len(graphs') \in Nat
  BY DEF TypeInv, GrownGraphs
<1>2. /\ entries'[e].forward = entries[e].forward /\ entries[e].forward \in 1..Len(graphs)
      /\ entries'[e].dictionary = entries[e].dictionary
  BY DEF GrownEntries, EntryInv
<1>3. 1..Len(graphs) \subseteq 1..Len(graphs')
  BY <1>1 DEF GrownGraphs
<1>4. entries'[e].dictionary = graphs'[entries'[e].forward].keys
  BY <1>2 DEF GrownGraphs, Grown, EntryInv
<1>5. ASSUME entries[e].reverse # None
      PROVE  /\ entries[e].reverse \in 1..Len(graphs)
             /\ Reversal(graphs'[entries[e].reverse], graphs'[entries[e].forward],
                         entries[e].forward, op')
  BY <1>2, <1>5, PairStays DEF EntryInv
<1>6. QED
  BY <1>2, <1>3, <1>4, <1>5 DEF EntryInv

(* A walk that is watched goes on.                                         *)
LEMMA WalksStay ==
    ASSUME NEW r \in QueryRecord, NEW s, NEW g \in Graph, NEW h \in Graph, NEW f,
           Grown(h, g, f), Walks(r, g, f, op), SameSearch(s, r), WalksOn(s, r, h)
    PROVE  Walks(s, h, f, op')
<1>1. /\ g.sweeps \in Nat /\ h.sweeps \in Nat /\ r.sweeps \in Nat /\ h.base = g.base
      /\ h.sweeps >= g.sweeps
      /\ h.sweeps = g.sweeps => Touched(g, f, op) \subseteq Touched(h, f, op')
  BY DEF Graph, QueryRecord, Grown
<1>2. s.sweeps = r.sweeps /\ s.dels = r.dels
  BY DEF SameSearch
<1>3. s.sweeps <= h.sweeps
  BY <1>1, <1>2 DEF Walks
<1>4. ASSUME s.sweeps = h.sweeps PROVE s.dels \subseteq Touched(h, f, op')
  <2>1. r.sweeps = g.sweeps /\ h.sweeps = g.sweeps
    BY <1>1, <1>2, <1>4 DEF Walks
  <2>2. QED
    BY <1>1, <1>2, <2>1 DEF Walks
<1>5. s.watched.held \subseteq (h.base \cup h.ins) \ s.dels
  BY <1>2 DEF Walks, WalksOn
<1>6. h.base \ s.dels \subseteq s.watched.shown /\ h.ins \subseteq s.watched.shown
  BY <1>1, <1>2 DEF Walks, WalksOn
<1>7. QED
  BY <1>3, <1>4, <1>5, <1>6 DEF Walks

(* A test of a delta that is watched goes on.                              *)
LEMMA ProbesStay ==
    ASSUME NEW r, NEW s, NEW g \in Graph, NEW h \in Graph, NEW f, NEW t, NEW u, NEW k,
           Grown(h, g, f), Grown(u, t, k), t.source.sweeps \in Nat,
           r.got = r.looked => t.source.sweeps <= g.sweeps,
           Probes(r, g, t), SameSearch(s, r), ProbesOn(s, r, h, g)
    PROVE  Probes(s, h, u)
<1>1. /\ g.sweeps \in Nat /\ h.sweeps \in Nat /\ h.base = g.base /\ h.sweeps >= g.sweeps
      /\ u.base = t.base /\ u.source = t.source
  BY DEF Graph, Grown
<1> SUFFICES ASSUME s.got = s.looked, u.source.sweeps = h.sweeps
             PROVE  Differences(h.base, u.base) \subseteq Flip(s.watched.busy \cup h.dels)
  BY DEF Probes
<1>2. r.got = r.looked /\ t.source.sweeps = g.sweeps /\ h.sweeps = g.sweeps
  BY <1>1 DEF SameSearch
<1>3. Differences(g.base, t.base) \subseteq Flip(r.watched.busy \cup g.dels)
  BY <1>2 DEF Probes
<1>4. r.watched.busy \cup g.dels \subseteq s.watched.busy \cup h.dels
  BY <1>2 DEF ProbesOn
<1>5. Flip(r.watched.busy \cup g.dels) \subseteq Flip(s.watched.busy \cup h.dels)
  BY <1>4 DEF Flip
<1>6. QED
  BY <1>1, <1>3, <1>5

(* A query that does not move remains in order.                            *)
LEMMA QueryStays ==
    ASSUME TypeInv, GrownGraphs, GrownEntries, \A e \in 1..Len(entries) : EntryInv(entries[e]),
           NEW q \in Queriers, Follows(query'[q], query[q]), QueryInv(q)
    PROVE  QueryInv(q)'
<1> DEFINE r == query[q]
           s == query'[q]
           asked == entries[r.looked].forward
           found == entries[r.got].forward
<1>1. Len(graphs) \in Nat /\ Len(graphs') \in Nat /\ Len(entries) \in Nat /\ Len(entries') \in Nat
  BY DEF TypeInv, GrownGraphs, GrownEntries
<1>2. 1..Len(graphs) \subseteq 1..Len(graphs') /\ 1..Len(entries) \subseteq 1..Len(entries')
  BY <1>1 DEF GrownGraphs, GrownEntries
<1>3. SameSearch(s, r) /\ r \in QueryRecord
  BY DEF Follows, TypeInv
<1>4. \A i \in 1..Len(graphs) :
         /\ graphs[i] \in Graph /\ graphs'[i] \in Graph /\ Grown(graphs'[i], graphs[i], i)
         /\ graphs[i].source.sweeps \in Nat
  <2>1. \A i \in 1..Len(graphs) :
           graphs[i] \in Graph /\ graphs'[i] \in Graph /\ Grown(graphs'[i], graphs[i], i)
    BY <1>2 DEF TypeInv, GrownGraphs
  <2>2. QED
    BY <2>1 DEF Graph, SourceRecord
<1>5. \A e \in 1..Len(entries) : /\ entries[e].forward \in 1..Len(graphs)
                                 /\ entries'[e].forward = entries[e].forward
  BY DEF EntryInv, GrownEntries
<1>6. ASSUME r.reverse # None
      PROVE  /\ r.looked \in 1..Len(entries) /\ r.reverse \in 1..Len(graphs)
             /\ Reversal(graphs[r.reverse], graphs[asked], asked, op)
             /\ Reversal(graphs'[r.reverse], graphs'[asked], asked, op')
             /\ r.at # "set" => r.reverse = entries'[r.looked].reverse
  <2>1. /\ r.looked \in 1..Len(entries) /\ r.reverse \in 1..Len(graphs)
        /\ Reversal(graphs[r.reverse], graphs[asked], asked, op)
        /\ r.at # "set" => r.reverse = entries[r.looked].reverse
    BY <1>6 DEF QueryInv, Transposed
  <2>2. Reversal(graphs'[r.reverse], graphs'[asked], asked, op')
    BY <1>5, <2>1, PairStays
  <2>3. QED
    BY <1>6, <2>1, <2>2 DEF GrownEntries
<1>7. r.reverse # None => Transposed(query[q])'
  BY <1>2, <1>3, <1>5, <1>6 DEF Transposed, SameSearch
<1>8. ASSUME r.at = "walk"
      PROVE  Walks(s, graphs'[entries'[s.looked].forward], entries'[s.looked].forward, op')
  <2>1. r.looked \in 1..Len(entries) /\ Walks(r, graphs[asked], asked, op)
    BY <1>8 DEF QueryInv, Building
  <2>2. WalksOn(s, r, graphs'[asked])
    BY <1>8 DEF Follows
  <2>3. Walks(s, graphs'[asked], asked, op')
    BY <1>3, <1>4, <1>5, <2>1, <2>2, WalksStay
  <2>4. QED
    BY <1>3, <1>5, <2>1, <2>3 DEF SameSearch
<1>9. ASSUME r.at \in Probing
      PROVE  /\ SameSize(query[q])'
             /\ r.at = "probed" => Probes(s, graphs'[entries'[s.got].forward], graphs'[s.reverse])
  <2>1. r.got \in 1..Len(entries) /\ r.reverse # None /\ SameSize(r)
    BY <1>9 DEF QueryInv, Executing
  <2>2. found \in 1..Len(graphs) /\ entries'[s.got].forward = found
    BY <1>3, <1>5, <2>1 DEF SameSearch
  <2>3. SameSize(query[q])'
    BY <1>3, <1>4, <1>6, <2>1, <2>2 DEF SameSize, SameSearch, Grown
  <2>4. ASSUME r.at = "probed"
        PROVE  Probes(s, graphs'[found], graphs'[r.reverse])
    <3>1. Probes(r, graphs[found], graphs[r.reverse])
      BY <2>4 DEF QueryInv
    <3>2. ProbesOn(s, r, graphs'[found], graphs[found])
      BY <2>4 DEF Follows
    <3>3. r.got = r.looked => graphs[r.reverse].source.sweeps <= graphs[found].sweeps
      BY <1>6, <2>1 DEF Reversal
    <3>4. QED
      BY <1>3, <1>4, <1>6, <2>1, <2>2, <3>1, <3>2, <3>3, ProbesStay
  <2>5. QED
    BY <1>3, <2>2, <2>3, <2>4 DEF SameSearch
<1>10. ASSUME r.kernel = "optimized"
       PROVE  s = r /\ r.at = "done" /\ r.reverse # None /\ Coherent(s, graphs'[s.reverse])
  <2>1. r.at = "done" /\ r.reverse # None /\ Coherent(r, graphs[r.reverse])
    BY <1>10 DEF QueryInv
  <2>2. s = r
    BY <2>1 DEF Follows
  <2>3. graphs'[r.reverse].source = graphs[r.reverse].source
    BY <1>4, <1>6, <2>1 DEF Grown
  <2>4. QED
    BY <2>1, <2>2, <2>3 DEF Coherent
<1> HIDE DEF s, r, asked, found
<1>11. QueryInv(q)
  OBVIOUS
<1>12. /\ s.at = r.at /\ s.got = r.got /\ s.looked = r.looked /\ s.reverse = r.reverse
       /\ s.kernel = r.kernel
  BY <1>3 DEF SameSearch
<1>13. /\ s.at \in Looking \cup {"build", "walk"} => s.reverse = None
       /\ s.at \in {"set"} \cup Probing \/ s.kernel = "optimized" => s.reverse # None
       /\ s.at \in {"reverse", "nodes"} \cup Building \cup Executing => s.got \in 1..Len(entries')
       /\ s.at \in Building => s.looked \in 1..Len(entries')
  BY <1>2, <1>11, <1>12 DEF QueryInv, r
<1>14. /\ s.reverse # None => Transposed(query[q])'
       /\ s.at = "walk" => Walks(s, graphs'[entries'[s.looked].forward],
                                 entries'[s.looked].forward, op')
       /\ s.at \in Probing => SameSize(query[q])'
       /\ s.at = "probed" => Probes(s, graphs'[entries'[s.got].forward], graphs'[s.reverse])
       /\ s.kernel = "optimized" => s.at = "done" /\ Coherent(s, graphs'[s.reverse])
  BY <1>7, <1>8, <1>9, <1>10, <1>12 DEF Probing
<1>15. QED
  BY <1>13, <1>14 DEF QueryInv, s

(* A query follows graphs that stay as they are.                           *)
LEMMA Undisturbed ==
    ASSUME NEW q \in Queriers, QueryInv(q), query'[q] = query[q],
           \A e \in 1..Len(entries) : EntryInv(entries[e]),
           \A i \in 1..Len(graphs) : graphs'[i] = graphs[i]
    PROVE  Follows(query'[q], query[q])
<1> DEFINE r == query[q]
<1>1. ASSUME r.at = "walk" PROVE WalksOn(r, r, graphs'[entries[r.looked].forward])
  <2>1. /\ r.looked \in 1..Len(entries)
        /\ Walks(r, graphs[entries[r.looked].forward], entries[r.looked].forward, op)
    BY <1>1 DEF QueryInv, Building
  <2>2. entries[r.looked].forward \in 1..Len(graphs)
    BY <2>1 DEF EntryInv
  <2>3. QED
    BY <2>1, <2>2 DEF Walks, WalksOn
<1>2. ASSUME r.at = "probed"
      PROVE  ProbesOn(r, r, graphs'[entries[r.got].forward], graphs[entries[r.got].forward])
  <2>1. r.got \in 1..Len(entries)
    BY <1>2 DEF QueryInv, Executing, Probing
  <2>2. entries[r.got].forward \in 1..Len(graphs)
    BY <2>1 DEF EntryInv
  <2>3. QED
    BY <2>2 DEF ProbesOn
<1>3. QED
  BY <1>1, <1>2 DEF Follows, SameSearch

(* A step that disturbs nothing but what it puts in order itself.          *)
LEMMA Advance ==
    ASSUME Inv, TypeInv', OpInv', GrownGraphs, GrownEntries,
           compaction' \in {compaction, Idle} \/ DrainInv',
           \A e \in 1..Len(entries') : \/ /\ e \in 1..Len(entries)
                                          /\ entries'[e].reverse = entries[e].reverse
                                       \/ EntryInv(entries[e])',
           \A q \in Queriers : Follows(query'[q], query[q]) \/ QueryInv(q)'
    PROVE  Inv'
<1>1. TypeInv /\ \A e \in 1..Len(entries) : EntryInv(entries[e])
  BY DEF Inv
<1>2. \A e \in 1..Len(entries') : EntryInv(entries[e])'
  BY <1>1, EntryStays
<1>3. \A q \in Queriers : QueryInv(q)'
  BY <1>1, QueryStays DEF Inv
<1>4. DrainInv'
  <2>1. ASSUME compaction' # Idle, compaction' \in {compaction, Idle}
        PROVE  compaction'.entry \in 1..Len(entries')
    <3>1. compaction' = compaction /\ compaction.entry \in 1..Len(entries)
      BY <2>1 DEF Inv, DrainInv
    <3>2. QED
      BY <1>1, <3>1 DEF TypeInv, GrownEntries
  <2>2. QED
    BY <2>1 DEF DrainInv, Idle
<1>5. QED
  BY <1>2, <1>3, <1>4 DEF Inv

(* A step that leaves the deltas alone.                                    *)
LEMMA Quiet ==
    ASSUME Inv, TypeInv', UNCHANGED op, GrownEntries,
           Len(graphs') >= Len(graphs), \A i \in 1..Len(graphs) : graphs'[i] = graphs[i]
    PROVE  /\ OpInv' /\ GrownGraphs
           /\ \A q \in Queriers : query'[q] = query[q] => Follows(query'[q], query[q])
<1>1. TypeInv /\ Len(graphs) \in Nat /\ Len(graphs') \in Nat
  BY DEF Inv, TypeInv
<1>2. \A i \in 1..Len(graphs) : graphs[i] \in Graph
  BY <1>1 DEF TypeInv
<1>3. \A i \in 1..Len(graphs) : graphs[i].sweeps \in Nat
  BY <1>2 DEF Graph
<1>4. \A i \in 1..Len(graphs) : Grown(graphs'[i], graphs[i], i)
  BY <1>3 DEF Grown, Touched
<1>5. OpInv'
  <2>1. 1..Len(graphs) \subseteq 1..Len(graphs')
    BY <1>1
  <2>2. QED
    BY <2>1 DEF Inv, OpInv
<1>6. \A q \in Queriers : query'[q] = query[q] => Follows(query'[q], query[q])
  BY Undisturbed DEF Inv
<1>7. QED
  BY <1>4, <1>5, <1>6 DEF GrownGraphs, TypeInv

(* What does not change grows as well.                                     *)
LEMMA Unchanged ==
    ASSUME TypeInv, UNCHANGED entries
    PROVE  GrownEntries
BY DEF TypeInv, GrownEntries

-----------------------------------------------------------------------------
(***************************************************************************)
(* Registration.                                                           *)
(***************************************************************************)
(* A new graph at the end of the list.                                     *)
LEMMA GraphAppended ==
    ASSUME Inv, NEW g \in Graph, graphs' = Append(graphs, g)
    PROVE  /\ graphs' \in Seq(Graph) /\ Len(graphs') = Len(graphs) + 1 /\ Len(graphs) \in Nat
           /\ graphs'[Len(graphs) + 1] = g
           /\ \A i \in 1..Len(graphs) : graphs'[i] = graphs[i]
BY Appended DEF Inv, TypeInv

(* A new entry for an existing graph.                                      *)
LEMMA EntryAppended ==
    ASSUME Inv, NEW entry \in EntryRecord, Insert(entry)
    PROVE  /\ GrownEntries /\ Len(entries') = Len(entries) + 1
           /\ entries'[Len(entries) + 1] = entry
           /\ \A i \in 1..Len(entries) : entries'[i] = entries[i]
           /\ \A i \in 1..Len(entries') : i \in 1..Len(entries) \/ i = Len(entries) + 1
           /\ catalog' \in 0..Len(entries')
<1>1. /\ entries' \in Seq(EntryRecord) /\ Len(entries') = Len(entries) + 1 /\ Len(entries) \in Nat
      /\ entries'[Len(entries) + 1] = entry
      /\ \A i \in 1..Len(entries) : entries'[i] = entries[i]
  BY Appended DEF Inv, TypeInv, Insert
<1>2. QED
  BY <1>1 DEF GrownEntries, Insert, NewEntry

(* An entry of a graph that was just built, without its transpose.         *)
LEMMA RegistrationKeeps ==
    ASSUME Inv, NEW edges \in EdgeSets, NEW keys \in Dictionaries,
           NEW rows \in Tables \cup {<<>>},
           graphs' = Append(graphs, Built(edges, keys, rows, NoSource)),
           Insert(Entry(NewGraph, None, keys, NewEntry)),
           UNCHANGED <<query, compaction, op>>
    PROVE  Inv'
<1> DEFINE g == Built(edges, keys, rows, NoSource)
           entry == Entry(NewGraph, None, keys, NewEntry)
<1>1. g \in Graph /\ g.keys = keys
  BY BuiltIsGraph, Nones DEF Built
<1> HIDE DEF g
<1>2. Len(graphs) \in Nat /\ Len(entries) \in Nat /\ TypeInv
  BY DEF Inv, TypeInv
<1>3. /\ entry \in EntryRecord /\ entry.forward = Len(graphs) + 1 /\ entry.reverse = None
      /\ entry.dictionary = keys
  BY <1>2 DEF Entry, EntryRecord, NewGraph, NewEntry, None
<1> HIDE DEF entry
<1>4. /\ graphs' \in Seq(Graph) /\ Len(graphs') = Len(graphs) + 1 /\ graphs'[Len(graphs) + 1] = g
      /\ \A i \in 1..Len(graphs) : graphs'[i] = graphs[i]
  BY <1>1, GraphAppended DEF g
<1>5. /\ GrownEntries /\ entries'[Len(entries) + 1] = entry
      /\ \A i \in 1..Len(entries) : entries'[i] = entries[i]
      /\ \A i \in 1..Len(entries') : i \in 1..Len(entries) \/ i = Len(entries) + 1
      /\ catalog' \in 0..Len(entries')
  BY <1>3, EntryAppended DEF entry
<1>6. ASSUME NEW i \in 1..Len(entries'), i = Len(entries) + 1
      PROVE  EntryInv(entries[i])'
  BY <1>1, <1>2, <1>3, <1>4, <1>5, <1>6 DEF EntryInv
<1>7. TypeInv'
  BY <1>2, <1>4, <1>5 DEF TypeInv, GrownEntries
<1>8. OpInv' /\ GrownGraphs /\ \A q \in Queriers : Follows(query'[q], query[q])
  BY <1>2, <1>4, <1>5, <1>7, Quiet
<1>9. QED
  BY <1>5, <1>6, <1>7, <1>8, Advance

(* register, with or without a dictionary.                                 *)
LEMMA RegisterKeeps ==
    ASSUME Inv,
           \/ \E edges \in Bases : Register(edges)
           \/ \E rows \in Tables : RegisterWithDictionary(rows)
    PROVE  Inv'
<1>1. ASSUME NEW edges \in Bases, Register(edges)
      PROVE  Inv'
  <2>1. edges \in EdgeSets
    BY QueriesAssumption DEF AllEdges, EdgeSets
  <2>2. QED
    BY <1>1, <2>1, Nones, RegistrationKeeps DEF Register
<1>2. ASSUME NEW rows \in Tables, RegisterWithDictionary(rows)
      PROVE  Inv'
  <2>1. rows \in Tables \cup {<<>>}
    OBVIOUS
  <2>2. QED
    BY <1>2, <2>1, TableIsEncoded, RegistrationKeeps DEF RegisterWithDictionary
<1>3. QED
  BY <1>1, <1>2

(* register_with_reverse: the transpose comes with the graph.              *)
LEMMA RegisterWithReverseKeeps ==
    ASSUME Inv, NEW edges \in PairedBases, RegisterWithReverse(edges)
    PROVE  Inv'
<1> DEFINE n == Len(graphs)
           source == Source(NewGraph, 0, edges, edges)
           f == Built(edges, NoDictionary, <<>>, NoSource)
           r == Built(Flip(edges), NoDictionary, <<>>, source)
           entry == Entry(NewGraph, NewGraph + 1, NoDictionary, NewEntry)
<1>1. edges \in EdgeSets /\ edges \in SUBSET AllEdges /\ Flip(edges) \in EdgeSets
  <2>1. edges \in EdgeSets /\ edges \in SUBSET AllEdges
    BY QueriesAssumption DEF AllEdges, EdgeSets
  <2>2. QED
    BY <2>1, FlipStays
<1>2. n \in Nat /\ Len(entries) \in Nat /\ TypeInv /\ graphs \in Seq(Graph)
  BY DEF Inv, TypeInv
<1>3. source \in SourceRecord /\ source.of = n + 1
  BY <1>1, <1>2 DEF Source, SourceRecord, NewGraph
<1>4. /\ f \in Graph /\ f.base = edges /\ f.keys = NoDictionary /\ f.sweeps = 0
      /\ r \in Graph /\ r.base = Flip(edges) /\ r.source = source
  BY <1>1, <1>3, Nones, BuiltIsGraph DEF Built
<1>5. Reversal(r, f, n + 1, op)
  BY <1>1, <1>2, <1>3, <1>4 DEF Reversal, Source, Differences
<1>6. /\ entry \in EntryRecord /\ entry.forward = n + 1 /\ entry.reverse = n + 2
      /\ entry.dictionary = NoDictionary
  BY <1>1, <1>2, Nones DEF Entry, EntryRecord, NewGraph, NewEntry
<1>7. graphs' = graphs \o <<f, r>> /\ Insert(entry) /\ UNCHANGED <<query, compaction, op>>
  BY DEF RegisterWithReverse
<1> HIDE DEF f, r, entry, source
<1>8. /\ graphs' \in Seq(Graph) /\ Len(graphs') = n + 2
      /\ graphs'[n + 1] = f /\ graphs'[n + 2] = r
      /\ \A i \in 1..n : graphs'[i] = graphs[i]
  BY <1>2, <1>4, <1>7
<1>9. /\ GrownEntries /\ entries'[Len(entries) + 1] = entry
      /\ \A i \in 1..Len(entries) : entries'[i] = entries[i]
      /\ \A i \in 1..Len(entries') : i \in 1..Len(entries) \/ i = Len(entries) + 1
      /\ catalog' \in 0..Len(entries')
  BY <1>6, <1>7, EntryAppended
<1>10. ASSUME NEW i \in 1..Len(entries'), i = Len(entries) + 1
       PROVE  EntryInv(entries[i])'
  <2>1. entries'[i] = entry /\ n + 1 \in 1..Len(graphs') /\ n + 2 \in 1..Len(graphs')
    BY <1>2, <1>8, <1>9, <1>10
  <2>2. QED
    BY <1>4, <1>5, <1>6, <1>7, <1>8, <2>1 DEF EntryInv
<1>11. TypeInv'
  BY <1>2, <1>7, <1>8, <1>9 DEF TypeInv, GrownEntries
<1>12. OpInv' /\ GrownGraphs /\ \A q \in Queriers : Follows(query'[q], query[q])
  BY <1>2, <1>7, <1>8, <1>9, <1>11, Quiet
<1>13. QED
  BY <1>7, <1>9, <1>10, <1>11, <1>12, Advance

(* deregister forgets the entry, not the graphs that queries hold.         *)
LEMMA DeregisterKeeps ==
    ASSUME Inv, Deregister
    PROVE  Inv'
<1>1. TypeInv /\ TypeInv' /\ Len(graphs) \in Nat
  BY DEF Inv, TypeInv, Deregister, None
<1>2. GrownEntries
  BY <1>1, Unchanged DEF Deregister
<1>3. OpInv' /\ GrownGraphs /\ \A q \in Queriers : Follows(query'[q], query[q])
  BY <1>1, <1>2, Quiet DEF Deregister
<1>4. QED
  BY <1>1, <1>2, <1>3, Advance DEF Deregister

-----------------------------------------------------------------------------
(***************************************************************************)
(* Deltas.                                                                 *)
(***************************************************************************)
\* The delta of g, with number k, changes to that of h, with the mutations
\* ops under way: swept, or so that every edge it had stays touched.
Changed(h, g, k, ops) ==
    /\ h.base = g.base /\ h.keys = g.keys /\ h.source = g.source /\ h.rows = g.rows
    /\ h.sweeps \in Nat
    /\ \/ h.sweeps > g.sweeps
       \/ /\ h.sweeps = g.sweeps
          /\ Touched(g, k, op) \subseteq Touched(h, k, ops)
          /\ g.dels \subseteq h.dels \cup Busy(ops, k)

(* The parts of a graph.                                                   *)
LEMMA Parts ==
    ASSUME Inv, NEW k \in 1..Len(graphs)
    PROVE  /\ graphs[k] \in Graph /\ graphs[k].base \in EdgeSets /\ graphs[k].ins \in EdgeSets
           /\ graphs[k].dels \in SUBSET AllEdges /\ graphs[k].sweeps \in Nat
           /\ graphs[k].keys \in Dictionaries /\ k \in Nat /\ k # None
<1>1. graphs[k] \in Graph /\ k \in Nat /\ k # None
  BY DEF Inv, TypeInv, None
<1>2. QED
  BY <1>1 DEF Graph

(* A graph whose delta was swept.                                          *)
LEMMA SweptIsGraph ==
    ASSUME NEW g \in Graph
    PROVE  /\ Swept(g) \in Graph /\ Swept(g).base = g.base /\ Swept(g).keys = g.keys
           /\ Swept(g).source = g.source /\ Swept(g).rows = g.rows
           /\ Swept(g).ins = g.ins /\ Swept(g).dels = g.dels
           /\ Swept(g).sweeps = g.sweeps + 1 /\ g.sweeps \in Nat
<1>1. g.sweeps \in Nat
  BY DEF Graph
<1>2. QED
  BY <1>1 DEF Graph, Swept

(* Queries watch a delta that changes.                                     *)
LEMMA DeltaChanges ==
    ASSUME Inv, NEW k \in 1..Len(graphs), NEW h \in Graph, Changed(h, graphs[k], k, op'),
           graphs' \in Seq(Graph), Len(graphs') >= Len(graphs),
           \A i \in 1..Len(graphs) : graphs'[i] = IF i = k THEN h ELSE graphs[i],
           query' = Watched(k, h, op'), op' \in [Writers -> OpRecord],
           \A i \in 1..Len(graphs) : i # k => Busy(op', i) = Busy(op, i)
    PROVE  /\ GrownGraphs /\ query' \in [Queriers -> QueryRecord]
           /\ \A q \in Queriers : Follows(query'[q], query[q])
<1>1. /\ \A i \in 1..Len(graphs) : graphs[i] \in Graph
      /\ \A e \in 1..Len(entries) : entries[e].forward \in 1..Len(graphs)
      /\ query \in [Queriers -> QueryRecord]
  BY DEF Inv, TypeInv, EntryInv
<1>2. \A i \in 1..Len(graphs) : graphs[i].sweeps \in Nat
  BY <1>1 DEF Graph
<1>3. \A i \in 1..Len(graphs) : Grown(graphs'[i], graphs[i], i)
  <2> TAKE i \in 1..Len(graphs)
  <2>1. CASE i = k
    BY <1>2, <2>1 DEF Grown, Changed
  <2>2. CASE i # k
    BY <1>2, <2>2 DEF Grown, Touched
  <2>3. QED
    BY <2>1, <2>2
<1>4. GrownGraphs
  BY <1>3 DEF GrownGraphs
<1>5. ASSUME NEW q \in Queriers
      PROVE  query'[q] \in QueryRecord /\ Follows(query'[q], query[q])
  <2> DEFINE r == query[q]
             m == [shown |-> r.watched.shown \cup Shown(h), held |-> r.watched.held \cap Held(h),
                   busy |-> r.watched.busy \cup Busy(op', k)]
             s == [r EXCEPT !.watched = m]
  <2>1. r \in QueryRecord /\ r.watched \in Watches
    BY <1>1 DEF QueryRecord
  <2>2. CASE ~Watching(q, k)
    <3>1. query'[q] = r
      BY <2>2 DEF Watched
    <3>2. QueryInv(q)
      BY DEF Inv
    <3>3. ASSUME r.at = "walk" PROVE WalksOn(r, r, graphs'[entries[r.looked].forward])
      <4>1. /\ r.looked \in 1..Len(entries) /\ entries[r.looked].forward # k
            /\ Walks(r, graphs[entries[r.looked].forward], entries[r.looked].forward, op)
        BY <2>2, <3>2, <3>3 DEF QueryInv, Building, Watching
      <4>2. QED
        BY <1>1, <4>1 DEF Walks, WalksOn
    <3>4. ASSUME r.at = "probed"
          PROVE  ProbesOn(r, r, graphs'[entries[r.got].forward], graphs[entries[r.got].forward])
      <4>1. r.got \in 1..Len(entries) /\ entries[r.got].forward # k
        BY <2>2, <3>2, <3>4 DEF QueryInv, Executing, Probing, Watching
      <4>2. QED
        BY <1>1, <4>1 DEF ProbesOn
    <3>5. QED
      BY <2>1, <3>1, <3>3, <3>4 DEF Follows, SameSearch
  <2>3. CASE Watching(q, k)
    <3>1. query'[q] = s
      BY <2>3 DEF Watched
    <3>2. Busy(op', k) \in SUBSET AllEdges
      BY DEF Busy, OpRecord
    <3>3. m \in Watches
      BY <2>1, <3>2, Contents DEF Watches
    <3>4. /\ m.shown = r.watched.shown \cup Shown(h) /\ m.held = r.watched.held \cap Held(h)
          /\ m.busy = r.watched.busy \cup Busy(op', k)
      OBVIOUS
    <3> HIDE DEF m
    <3>5. s \in QueryRecord /\ s.watched = m /\ SameSearch(s, r)
      BY <2>1, <3>3 DEF QueryRecord, SameSearch
    <3>6. r.at \in {"walk", "probed"}
      BY <2>3 DEF Watching
    <3> HIDE DEF s
    <3>7. ASSUME r.at = "walk"
          PROVE  WalksOn(s, r, graphs'[entries[r.looked].forward])
      <4>1. graphs'[entries[r.looked].forward] = h
        BY <2>3, <3>7 DEF Watching
      <4>2. QED
        BY <3>4, <3>5, <4>1 DEF WalksOn, Shown, Held
    <3>8. ASSUME r.at = "probed"
          PROVE  ProbesOn(s, r, graphs'[entries[r.got].forward], graphs[entries[r.got].forward])
      <4>1. graphs'[entries[r.got].forward] = h /\ entries[r.got].forward = k
        BY <2>3, <3>8 DEF Watching
      <4>2. h.sweeps = graphs[k].sweeps => graphs[k].dels \subseteq h.dels \cup Busy(op', k)
        BY <1>2 DEF Changed
      <4>3. QED
        BY <3>4, <3>5, <4>1, <4>2 DEF ProbesOn
    <3>9. QED
      BY <3>1, <3>5, <3>6, <3>7, <3>8 DEF Follows
  <2>4. QED
    BY <2>2, <2>3
<1>6. query' \in [Queriers -> QueryRecord]
  <2>1. query' = [q \in Queriers |-> query'[q]]
    BY DEF Watched
  <2>2. QED
    BY <1>5, <2>1
<1>7. QED
  BY <1>4, <1>5, <1>6

(* The edges that writers are at.                                          *)
LEMMA BusyEdges ==
    ASSUME NEW ops \in [Writers -> OpRecord], NEW w \in Writers, NEW next \in OpRecord, NEW k
    PROVE  LET nops == [ops EXCEPT ![w] = next]
           IN  /\ (next.graph = k /\ next.kind # "clear") => next.pair \in Busy(nops, k)
               /\ ~(ops[w].graph = k /\ ops[w].kind # "clear") => Busy(ops, k) \subseteq Busy(nops, k)
               /\ Busy(ops, k) \subseteq Busy(nops, k) \cup {ops[w].pair}
<1> DEFINE nops == [ops EXCEPT ![w] = next]
<1>1. nops \in [Writers -> OpRecord] /\ nops[w] = next /\ \A v \in Writers : v # w => nops[v] = ops[v]
  OBVIOUS
<1> HIDE DEF nops
<1>2. \A o, p : p \in Busy(o, k) <=>
         \E v \in Writers : o[v].graph = k /\ o[v].kind # "clear" /\ p = o[v].pair
  BY DEF Busy
<1>3. (next.graph = k /\ next.kind # "clear") => next.pair \in Busy(nops, k)
  BY <1>1, <1>2
<1>4. \A p \in Busy(ops, k) : p \in Busy(nops, k) \/ (p = ops[w].pair /\ ops[w].graph = k /\ ops[w].kind # "clear")
  BY <1>1, <1>2
<1>5. QED
  BY <1>3, <1>4 DEF nops

(* A writer at another graph.                                              *)
LEMMA BusyElsewhere ==
    ASSUME NEW ops \in [Writers -> OpRecord], NEW w \in Writers, NEW next \in OpRecord, NEW k,
           ops[w].graph # k, next.graph # k
    PROVE  Busy([ops EXCEPT ![w] = next], k) = Busy(ops, k)
<1> DEFINE nops == [ops EXCEPT ![w] = next]
<1>1. nops[w] = next /\ \A v \in Writers : v # w => nops[v] = ops[v]
  OBVIOUS
<1> HIDE DEF nops
<1>2. \A o, p : p \in Busy(o, k) <=>
         \E v \in Writers : o[v].graph = k /\ o[v].kind # "clear" /\ p = o[v].pair
  BY DEF Busy
<1>3. \A p : p \in Busy(nops, k) <=> p \in Busy(ops, k)
  BY <1>1, <1>2
<1>4. Busy(nops, k) = Busy(ops, k)
  BY <1>3
<1>5. QED
  BY <1>4 DEF nops

(* Half a mutation.                                                        *)
LEMMA WrittenKeeps ==
    ASSUME Inv, NEW w \in Writers, NEW k \in 1..Len(graphs), NEW h \in Graph, NEW next \in OpRecord,
           Written(w, k, h, next), op[w] = NoOp \/ op[w].graph = k,
           \/ next = NoOp
           \/ next.graph = k /\ (next.kind # "clear" => next.pair \in Pairs),
           Changed(h, graphs[k], k, [op EXCEPT ![w] = next])
    PROVE  Inv'
<1>1. /\ TypeInv /\ OpInv /\ op \in [Writers -> OpRecord] /\ graphs \in Seq(Graph) /\ Len(graphs) \in Nat
  BY DEF Inv, TypeInv
<1>2. /\ op' = [op EXCEPT ![w] = next] /\ graphs' = [graphs EXCEPT ![k] = h]
      /\ query' = Watched(k, h, op') /\ UNCHANGED <<entries, catalog, compaction>>
  BY DEF Written
<1>3. /\ graphs' \in Seq(Graph) /\ Len(graphs') = Len(graphs)
      /\ \A i \in 1..Len(graphs) : graphs'[i] = IF i = k THEN h ELSE graphs[i]
  BY <1>1, <1>2, Replaced
<1>4. \A i \in 1..Len(graphs) : i # k => Busy(op', i) = Busy(op, i)
  <2> TAKE i \in 1..Len(graphs)
  <2> HAVE i # k
  <2>1. NoOp.graph = 0 /\ i # 0
    BY <1>1 DEF NoOp, None
  <2>2. op[w].graph # i /\ next.graph # i
    BY <2>1
  <2>3. op \in [Writers -> OpRecord]
    BY <1>1
  <2>4. Busy([op EXCEPT ![w] = next], i) = Busy(op, i)
    BY <2>2, <2>3, BusyElsewhere
  <2>5. QED
    BY <1>2, <2>4
<1>5. op' \in [Writers -> OpRecord]
  BY <1>1, <1>2
<1>6. /\ GrownGraphs /\ query' \in [Queriers -> QueryRecord]
      /\ \A q \in Queriers : Follows(query'[q], query[q])
  <2>1. Changed(h, graphs[k], k, op') /\ Len(graphs') >= Len(graphs)
    BY <1>1, <1>2, <1>3
  <2>2. QED
    BY <1>2, <1>3, <1>4, <1>5, <2>1, DeltaChanges
<1>7. GrownEntries
  BY <1>1, <1>2, Unchanged
<1>8. TypeInv'
  BY <1>1, <1>2, <1>3, <1>5, <1>6 DEF TypeInv
<1>9. OpInv'
  <2>1. ASSUME NEW v \in Writers, op'[v].kind # "none"
        PROVE  op'[v].graph \in 1..Len(graphs') /\ (op'[v].kind # "clear" => op'[v].pair \in Pairs)
    <3>1. CASE v = w
      BY <1>1, <1>2, <1>3, <2>1, <3>1 DEF NoOp
    <3>2. CASE v # w
      BY <1>1, <1>2, <1>3, <2>1, <3>2 DEF OpInv
    <3>3. QED
      BY <3>1, <3>2
  <2>2. QED
    BY <2>1 DEF OpInv
<1>10. QED
  BY <1>2, <1>6, <1>7, <1>8, <1>9, Advance

(* The first half of insert, delete and clear.                             *)
LEMMA BeginKeeps ==
    ASSUME Inv, NEW w \in Writers, NEW e \in DOMAIN entries,
           LET f == entries[e].forward
           IN  \/ \E p \in Pairs : InsertRemoveTombstone(w, f, p) \/ DeleteRemoveInsertion(w, f, p)
               \/ ClearInsertions(w, f)
    PROVE  Inv'
<1> DEFINE k == entries[e].forward
           g == graphs[k]
           next(kind, pair) == [kind |-> kind, graph |-> k, pair |-> pair]
<1>1. k \in 1..Len(graphs) /\ k \in Nat
  BY DEF Inv, TypeInv, EntryInv
<1>2. /\ g \in Graph /\ op \in [Writers -> OpRecord] /\ Pairs \subseteq AllEdges
      /\ g.ins \in EdgeSets /\ g.dels \in SUBSET AllEdges /\ g.sweeps \in Nat /\ k # None
  <2>1. op \in [Writers -> OpRecord] /\ Pairs \subseteq AllEdges
    BY QueriesAssumption DEF Inv, TypeInv, AllEdges
  <2>2. QED
    BY <1>1, <2>1, Parts
<1> HIDE DEF k
<1>3. ASSUME NEW p \in Pairs, InsertRemoveTombstone(w, k, p)
      PROVE  Inv'
  <2> DEFINE n == next("insert", p)
             h == [g EXCEPT !.dels = @ \ {p}]
  <2>1. op[w] = NoOp /\ Written(w, k, h, n)
    BY <1>3 DEF InsertRemoveTombstone, Begin
  <2>2. n \in OpRecord /\ n.graph = k /\ n.kind = "insert" /\ n.pair = p
    BY <1>1, <1>2 DEF OpRecord
  <2>3. /\ h \in Graph /\ h.base = g.base /\ h.keys = g.keys /\ h.source = g.source
        /\ h.rows = g.rows /\ h.ins = g.ins /\ h.dels = g.dels \ {p} /\ h.sweeps = g.sweeps
    BY <1>2 DEF Graph
  <2> HIDE DEF n, h, g
  <2>4. /\ p \in Busy([op EXCEPT ![w] = n], k) /\ Busy(op, k) \subseteq Busy([op EXCEPT ![w] = n], k)
    <3>1. op[w].graph # k
      BY <1>2, <2>1 DEF NoOp
    <3>2. QED
      BY <1>2, <2>2, <3>1, BusyEdges
  <2>5. Changed(h, g, k, [op EXCEPT ![w] = n])
    BY <1>2, <2>3, <2>4 DEF Changed, Touched
  <2>6. QED
    BY <1>1, <2>1, <2>2, <2>3, <2>5, WrittenKeeps DEF g
<1>4. ASSUME NEW p \in Pairs, DeleteRemoveInsertion(w, k, p)
      PROVE  Inv'
  <2> DEFINE n == next("delete", p)
             h == [g EXCEPT !.ins = @ \ {p}]
  <2>1. op[w] = NoOp /\ Written(w, k, h, n)
    BY <1>4 DEF DeleteRemoveInsertion, Begin
  <2>2. n \in OpRecord /\ n.graph = k /\ n.kind = "delete" /\ n.pair = p
    BY <1>1, <1>2 DEF OpRecord
  <2>3. /\ h \in Graph /\ h.base = g.base /\ h.keys = g.keys /\ h.source = g.source
        /\ h.rows = g.rows /\ h.ins = g.ins \ {p} /\ h.dels = g.dels /\ h.sweeps = g.sweeps
    <3>1. g.ins \ {p} \in EdgeSets
      BY <1>2, EdgeSetsStay
    <3>2. QED
      BY <1>2, <3>1 DEF Graph
  <2> HIDE DEF n, h, g
  <2>4. /\ p \in Busy([op EXCEPT ![w] = n], k) /\ Busy(op, k) \subseteq Busy([op EXCEPT ![w] = n], k)
    <3>1. op[w].graph # k
      BY <1>2, <2>1 DEF NoOp
    <3>2. QED
      BY <1>2, <2>2, <3>1, BusyEdges
  <2>5. Changed(h, g, k, [op EXCEPT ![w] = n])
    BY <1>2, <2>3, <2>4 DEF Changed, Touched
  <2>6. QED
    BY <1>1, <2>1, <2>2, <2>3, <2>5, WrittenKeeps DEF g
<1>5. CASE ClearInsertions(w, k)
  <2> DEFINE n == next("clear", NoOp.pair)
             i == [g EXCEPT !.ins = {}]
             h == Swept(i)
  <2>1. op[w] = NoOp /\ Written(w, k, h, n)
    BY <1>5 DEF ClearInsertions, Begin
  <2>2. n \in OpRecord /\ n.graph = k /\ n.kind = "clear"
    BY <1>1 DEF OpRecord, NoOp, AllEdges
  <2>3. /\ h \in Graph /\ h.base = g.base /\ h.keys = g.keys /\ h.source = g.source
        /\ h.rows = g.rows /\ h.sweeps = g.sweeps + 1
    <3>1. /\ i \in Graph /\ i.base = g.base /\ i.keys = g.keys /\ i.source = g.source
          /\ i.rows = g.rows /\ i.sweeps = g.sweeps
      <4>1. {} \in EdgeSets
        BY SmallSets
      <4>2. g \in Graph
        BY <1>2
      <4> HIDE DEF g
      <4>3. QED
        BY <4>1, <4>2 DEF Graph
    <3> HIDE DEF i, g
    <3>2. QED
      BY <3>1, SweptIsGraph
  <2> HIDE DEF n, h, g
  <2>4. Changed(h, g, k, [op EXCEPT ![w] = n])
    BY <1>2, <2>3 DEF Changed
  <2>5. QED
    BY <1>1, <2>1, <2>2, <2>3, <2>4, WrittenKeeps DEF g
<1>6. QED
  BY <1>3, <1>4, <1>5 DEF k

(* The second half.                                                        *)
LEMMA FinishKeeps ==
    ASSUME Inv, NEW w \in Writers, InsertStore(w) \/ DeleteAddTombstone(w) \/ ClearTombstones(w)
    PROVE  Inv'
<1> DEFINE k == op[w].graph
           p == op[w].pair
           g == graphs[k]
           ops == [op EXCEPT ![w] = NoOp]
<1>1. /\ op[w].kind # "none" /\ op \in [Writers -> OpRecord] /\ OpInv
  BY DEF InsertStore, DeleteAddTombstone, ClearTombstones, Finish, Inv, TypeInv
<1>2. k \in 1..Len(graphs) /\ (op[w].kind # "clear" => p \in Pairs) /\ k \in Nat
  BY <1>1 DEF OpInv, Inv, TypeInv
<1>3. /\ g \in Graph /\ p \in AllEdges
      /\ g.ins \in EdgeSets /\ g.dels \in SUBSET AllEdges /\ g.sweeps \in Nat
  <2>1. p \in AllEdges
    BY <1>1 DEF OpRecord
  <2>2. QED
    BY <1>2, <2>1, Parts
<1>4. Busy(op, k) \subseteq Busy(ops, k) \cup {p} /\ NoOp \in OpRecord
  BY <1>1, Nones, BusyEdges
<1>5. CASE InsertStore(w)
  <2> DEFINE h == [g EXCEPT !.ins = @ \cup {p}]
  <2>1. Written(w, k, h, NoOp)
    BY <1>5 DEF InsertStore, Finish
  <2>2. /\ h \in Graph /\ h.base = g.base /\ h.keys = g.keys /\ h.source = g.source
        /\ h.rows = g.rows /\ h.ins = g.ins \cup {p} /\ h.dels = g.dels /\ h.sweeps = g.sweeps
    <3>1. g.ins \cup {p} \in EdgeSets
      BY <1>3, SmallSets, EdgeSetsStay
    <3>2. QED
      BY <1>3, <3>1 DEF Graph
  <2> HIDE DEF h, g, k, p, ops
  <2>3. Changed(h, g, k, ops)
    BY <1>3, <1>4, <2>2 DEF Changed, Touched
  <2>4. QED
    BY <1>2, <1>4, <2>1, <2>2, <2>3, WrittenKeeps DEF g, k, ops
<1>6. CASE DeleteAddTombstone(w)
  <2> DEFINE h == [g EXCEPT !.dels = @ \cup {p}]
  <2>1. Written(w, k, h, NoOp)
    BY <1>6 DEF DeleteAddTombstone, Finish
  <2>2. /\ h \in Graph /\ h.base = g.base /\ h.keys = g.keys /\ h.source = g.source
        /\ h.rows = g.rows /\ h.ins = g.ins /\ h.dels = g.dels \cup {p} /\ h.sweeps = g.sweeps
    BY <1>3 DEF Graph
  <2> HIDE DEF h, g, k, p, ops
  <2>3. Changed(h, g, k, ops)
    BY <1>3, <1>4, <2>2 DEF Changed, Touched
  <2>4. QED
    BY <1>2, <1>4, <2>1, <2>2, <2>3, WrittenKeeps DEF g, k, ops
<1>7. CASE ClearTombstones(w)
  <2> DEFINE d == [g EXCEPT !.dels = {}]
             h == Swept(d)
  <2>1. Written(w, k, h, NoOp)
    BY <1>7 DEF ClearTombstones, Finish
  <2>2. /\ h \in Graph /\ h.base = g.base /\ h.keys = g.keys /\ h.source = g.source
        /\ h.rows = g.rows /\ h.sweeps = g.sweeps + 1
    <3>1. /\ d \in Graph /\ d.base = g.base /\ d.keys = g.keys /\ d.source = g.source
          /\ d.rows = g.rows /\ d.sweeps = g.sweeps
      <4>1. {} \in SUBSET AllEdges /\ g \in Graph /\ g.ins \in EdgeSets
        BY <1>3
      <4> HIDE DEF g
      <4>2. QED
        BY <4>1 DEF Graph
    <3> HIDE DEF d, g
    <3>2. QED
      BY <3>1, SweptIsGraph
  <2> HIDE DEF h, g, k, p, ops
  <2>3. Changed(h, g, k, ops)
    BY <1>3, <2>2 DEF Changed
  <2>4. QED
    BY <1>2, <1>4, <2>1, <2>2, <2>3, WrittenKeeps DEF g, k, ops
<1>8. QED
  BY <1>5, <1>6, <1>7

(* A graph whose delta was drained.                                        *)
LEMMA DrainedIsGraph ==
    ASSUME Inv, NEW k \in 1..Len(graphs)
    PROVE  /\ Drained(k) \in Graph /\ Changed(Drained(k), graphs[k], k, op)
           /\ graphs[k] \in Graph
<1>1. graphs[k] \in Graph /\ graphs[k].sweeps \in Nat
  BY Parts
<1>2. /\ Drained(k) \in Graph /\ Drained(k).base = graphs[k].base
      /\ Drained(k).keys = graphs[k].keys /\ Drained(k).source = graphs[k].source
      /\ Drained(k).rows = graphs[k].rows /\ Drained(k).sweeps = graphs[k].sweeps + 1
  <2> DEFINE g == graphs[k]
             empty == [g EXCEPT !.ins = {}, !.dels = {}]
  <2>1. /\ empty \in Graph /\ empty.base = g.base /\ empty.keys = g.keys
        /\ empty.source = g.source /\ empty.rows = g.rows /\ empty.sweeps = g.sweeps
    <3>1. {} \in EdgeSets /\ {} \in SUBSET AllEdges /\ g \in Graph
      BY <1>1, SmallSets
    <3> HIDE DEF g
    <3>2. QED
      BY <3>1 DEF Graph
  <2>2. Drained(k) = Swept(empty)
    BY DEF Drained
  <2> HIDE DEF empty
  <2>3. QED
    BY <2>1, <2>2, SweptIsGraph
<1>3. QED
  BY <1>1, <1>2 DEF Changed

(* A drain empties the delta of a graph.                                   *)
LEMMA CompactDrainKeeps ==
    ASSUME Inv, CompactDrain
    PROVE  Inv'
<1> DEFINE k == entries[catalog].forward
           g == graphs[k]
           h == Drained(k)
           merged == MergedEdges(g.base, g.dels, g.ins)
<1>1. TypeInv /\ catalog \in 1..Len(entries) /\ k \in 1..Len(graphs)
  BY DEF Inv, TypeInv, CompactDrain, None, EntryInv
<1>2. g \in Graph /\ h \in Graph /\ Changed(h, g, k, op)
  BY <1>1, DrainedIsGraph
<1>3. merged \in EdgeSets
  BY <1>2, Contents
<1>4. /\ graphs' = [graphs EXCEPT ![k] = h] /\ UNCHANGED <<entries, catalog, op>>
      /\ query' = Watched(k, h, op) /\ compaction' = [entry |-> catalog, merged |-> merged]
  BY DEF CompactDrain
<1> HIDE DEF g, h, merged, k
<1>5. /\ graphs' \in Seq(Graph) /\ Len(graphs') = Len(graphs) /\ Len(graphs) \in Nat
      /\ \A i \in 1..Len(graphs) : graphs'[i] = IF i = k THEN h ELSE graphs[i]
  BY <1>1, <1>2, <1>4, Replaced DEF TypeInv
<1>6. /\ GrownGraphs /\ query' \in [Queriers -> QueryRecord]
      /\ \A q \in Queriers : Follows(query'[q], query[q])
  BY <1>1, <1>2, <1>4, <1>5, DeltaChanges DEF g, TypeInv
<1>7. GrownEntries
  BY <1>1, <1>4, Unchanged
<1>8. TypeInv' /\ DrainInv' /\ OpInv'
  BY <1>1, <1>3, <1>4, <1>5, <1>6 DEF TypeInv, DrainInv, OpInv, Inv
<1>9. QED
  BY <1>4, <1>6, <1>7, <1>8, Advance

(* A swap registers the new graph with the dictionary of the old one and   *)
(* without a transpose, and what it moved to the new delta leaves the old. *)
LEMMA CompactSwapKeeps ==
    ASSUME Inv, CompactSwap
    PROVE  Inv'
<1> DEFINE c == compaction.entry
           k == entries[c].forward
           g == graphs[k]
           h == Drained(k)
           n == Replayed(g, compaction.merged)
           entry == Entry(NewGraph, None, entries[c].dictionary, entries[c].of)
           others == [graphs EXCEPT ![k] = h]
<1>1. /\ TypeInv /\ c \in 1..Len(entries) /\ k \in 1..Len(graphs)
      /\ compaction.merged \in EdgeSets /\ entries[c].dictionary = g.keys
      /\ entries[c] \in EntryRecord /\ Len(graphs) \in Nat /\ Len(entries) \in Nat
  BY DEF Inv, TypeInv, CompactSwap, DrainInv, EntryInv
<1>2. g \in Graph /\ h \in Graph /\ Changed(h, g, k, op)
  BY <1>1, DrainedIsGraph
<1>3. n \in Graph /\ n.keys = g.keys
  <2>1. /\ g.keys \in Dictionaries /\ g.ins \ g.dels \in EdgeSets /\ g.dels \in SUBSET AllEdges
    BY <1>2, EdgeSetsStay DEF Graph
  <2>2. Built(compaction.merged, g.keys, <<>>, NoSource) \in Graph
    BY <1>1, <2>1, Nones, BuiltIsGraph
  <2>3. QED
    BY <2>1, <2>2 DEF Replayed, Graph, Built
<1>4. /\ entry \in EntryRecord /\ entry.forward = Len(graphs) + 1 /\ entry.reverse = None
      /\ entry.dictionary = entries[c].dictionary
  BY <1>1 DEF Entry, EntryRecord, NewGraph, None
<1>5. /\ graphs' = Append(others, n) /\ Insert(entry)
      /\ compaction' = Idle /\ query' = Watched(k, h, op) /\ UNCHANGED op
  BY DEF CompactSwap
<1>6. /\ others \in Seq(Graph) /\ Len(others) = Len(graphs)
      /\ \A i \in 1..Len(graphs) : others[i] = IF i = k THEN h ELSE graphs[i]
  BY <1>1, <1>2, Replaced DEF TypeInv
<1> HIDE DEF g, h, n, entry, k, others
<1>7. /\ graphs' \in Seq(Graph) /\ Len(graphs') = Len(graphs) + 1
      /\ graphs'[Len(graphs) + 1] = n
      /\ \A i \in 1..Len(graphs) : graphs'[i] = IF i = k THEN h ELSE graphs[i]
  <2>1. n \in Graph /\ others \in Seq(Graph) /\ graphs' = Append(others, n)
    BY <1>3, <1>5, <1>6
  <2>2. /\ Append(others, n) \in Seq(Graph) /\ Len(Append(others, n)) = Len(others) + 1
        /\ \A i \in 1..Len(others) : Append(others, n)[i] = others[i]
        /\ Append(others, n)[Len(others) + 1] = n
    BY <2>1, Appended
  <2>3. QED
    BY <1>6, <2>1, <2>2
<1>8. /\ GrownGraphs /\ query' \in [Queriers -> QueryRecord]
      /\ \A q \in Queriers : Follows(query'[q], query[q])
  <2>1. Len(graphs') >= Len(graphs)
    BY <1>1, <1>7
  <2>2. QED
    BY <1>1, <1>2, <1>5, <1>7, <2>1, DeltaChanges DEF g, TypeInv
<1>9. /\ GrownEntries /\ entries'[Len(entries) + 1] = entry
      /\ \A i \in 1..Len(entries) : entries'[i] = entries[i]
      /\ \A i \in 1..Len(entries') : i \in 1..Len(entries) \/ i = Len(entries) + 1
      /\ catalog' \in 0..Len(entries')
  BY <1>4, <1>5, EntryAppended
<1>10. ASSUME NEW i \in 1..Len(entries'), i = Len(entries) + 1
       PROVE  EntryInv(entries[i])'
  <2>1. entries'[i] = entry /\ Len(graphs) + 1 \in 1..Len(graphs')
    BY <1>1, <1>7, <1>9, <1>10
  <2>2. QED
    BY <1>1, <1>3, <1>4, <1>7, <2>1 DEF EntryInv
<1>11. TypeInv' /\ OpInv'
  <2>1. Idle \in [entry : Nat, merged : EdgeSets]
    BY SmallSets DEF Idle, None
  <2>2. 1..Len(graphs) \subseteq 1..Len(graphs')
    BY <1>1, <1>7
  <2>3. QED
    BY <1>1, <1>5, <1>7, <1>8, <1>9, <2>1, <2>2 DEF TypeInv, GrownEntries, OpInv, Inv
<1>12. QED
  BY <1>5, <1>8, <1>9, <1>10, <1>11, Advance

-----------------------------------------------------------------------------
(***************************************************************************)
(* The steps of a query.                                                   *)
(***************************************************************************)
(* A query that moves changes nothing else of the queries.                 *)
LEMMA StepMoves ==
    ASSUME Inv, NEW q \in Queriers, NEW from, NEW r \in QueryRecord, Step(q, from, r)
    PROVE  /\ query[q].at = from /\ query'[q] = r
           /\ \A p \in Queriers \ {q} : query'[p] = query[p]
           /\ query' \in [Queriers -> QueryRecord]
           /\ UNCHANGED <<compaction, op, mutations, catalog>>
BY DEF Inv, TypeInv, Step

(* A step of a query that only reads.                                      *)
LEMMA ReadingKeeps ==
    ASSUME Inv, NEW q \in Queriers, NEW from, NEW r \in QueryRecord, Step(q, from, r),
           UNCHANGED <<graphs, entries>>, QueryInv(q)'
    PROVE  Inv'
<1>1. TypeInv /\ Len(graphs) \in Nat
  BY DEF Inv, TypeInv
<1>2. /\ \A p \in Queriers \ {q} : query'[p] = query[p]
      /\ query' \in [Queriers -> QueryRecord]
      /\ UNCHANGED <<compaction, op, mutations, catalog>>
  BY StepMoves
<1>3. TypeInv'
  BY <1>1, <1>2 DEF TypeInv
<1>4. GrownEntries
  BY <1>1, Unchanged
<1>5. /\ OpInv' /\ GrownGraphs
      /\ \A p \in Queriers : query'[p] = query[p] => Follows(query'[p], query[p])
  BY <1>1, <1>2, <1>3, <1>4, Quiet
<1>6. \A p \in Queriers : Follows(query'[p], query[p]) \/ QueryInv(p)'
  BY <1>2, <1>5
<1>7. QED
  BY <1>2, <1>3, <1>4, <1>5, <1>6, Advance

(* What the catalog hands out.                                             *)
LEMMA CatalogTypes ==
    ASSUME Inv
    PROVE  /\ catalog \in Nat
           /\ catalog # None => /\ catalog \in 1..Len(entries)
                                /\ entries[catalog].dictionary \in Dictionaries
                                /\ entries[catalog].reverse \in Nat
<1>1. entries \in Seq(EntryRecord) /\ catalog \in 0..Len(entries) /\ Len(entries) \in Nat
  BY DEF Inv, TypeInv
<1>2. catalog # None => catalog \in 1..Len(entries)
  BY <1>1 DEF None
<1>3. catalog # None => entries[catalog] \in EntryRecord
  BY <1>1, <1>2
<1>4. QED
  BY <1>1, <1>2, <1>3 DEF EntryRecord

(* A string start node is resolved, or the query is refused.               *)
LEMMA ResolveKeyKeeps ==
    ASSUME Inv, NEW q \in Queriers, ResolveKey(q)
    PROVE  Inv'
<1>1. query[q] \in QueryRecord /\ QueryInv(q) /\ catalog \in Nat
  BY CatalogTypes DEF Inv, TypeInv
<1>2. PICK r \in QueryRecord : /\ Step(q, "key", r) /\ r.at \in {"get", "refused"}
                               /\ r.reverse = query[q].reverse /\ r.kernel = query[q].kernel
  <2> DEFINE id == IdOf(entries[catalog].dictionary, query[q].call.key)
             a == [query[q] EXCEPT !.at = "get", !.start = id, !.keyed = catalog]
             b == [query[q] EXCEPT !.at = "refused"]
  <2>1. (catalog # None /\ Step(q, "key", a)) \/ Step(q, "key", b)
    BY DEF ResolveKey
  <2>2. catalog # None => id \in Starts
    BY <1>1, CatalogTypes DEF QueryRecord, Starts
  <2> HIDE DEF id
  <2>3. /\ catalog # None => a \in QueryRecord
        /\ a.at = "get" /\ a.reverse = query[q].reverse /\ a.kernel = query[q].kernel
    <3>1. catalog # None => a \in QueryRecord
      BY <1>1, <2>2 DEF QueryRecord, QueryPhases
    <3>2. QED
      BY <1>1, <3>1 DEF QueryRecord
  <2>4. b \in QueryRecord /\ b.at = "refused" /\ b.reverse = query[q].reverse /\ b.kernel = query[q].kernel
    BY <1>1 DEF QueryRecord, QueryPhases
  <2> HIDE DEF a, b
  <2>5. QED
    BY <2>1, <2>3, <2>4
<1>3. query[q].at = "key" /\ query'[q] = r
  BY <1>2, StepMoves
<1>4. query[q].reverse = None /\ query[q].kernel # "optimized"
  BY <1>1, <1>3 DEF QueryInv, Looking
<1>5. QueryInv(q)'
  BY <1>2, <1>3, <1>4 DEF QueryInv, Looking, Building, Probing, Executing
<1>6. QED
  BY <1>2, <1>5, ReadingKeeps DEF ResolveKey

(* The graph that a query will search is one that was registered.          *)
LEMMA GetGraphKeeps ==
    ASSUME Inv, NEW q \in Queriers, GetGraph(q)
    PROVE  Inv'
<1>1. query[q] \in QueryRecord /\ QueryInv(q) /\ catalog \in Nat
  BY CatalogTypes DEF Inv, TypeInv
<1> DEFINE r == [query[q] EXCEPT !.got = catalog,
                     !.at = IF catalog = None THEN "refused" ELSE "reverse"]
<1>2. Step(q, "get", r) /\ UNCHANGED <<graphs, entries>>
  BY DEF GetGraph
<1>3. r \in QueryRecord
  <2>1. (IF catalog = None THEN "refused" ELSE "reverse") \in QueryPhases
    BY DEF QueryPhases
  <2>2. QED
    BY <1>1, <2>1 DEF QueryRecord
<1>4. /\ r.at = IF catalog = None THEN "refused" ELSE "reverse"
      /\ r.got = catalog /\ r.reverse = query[q].reverse /\ r.kernel = query[q].kernel
  BY <1>1 DEF QueryRecord
<1> HIDE DEF r
<1>5. query[q].at = "get" /\ query'[q] = r
  BY <1>2, <1>3, StepMoves
<1>6. catalog # None => catalog \in 1..Len(entries)
  BY CatalogTypes
<1>7. query[q].reverse = None /\ query[q].kernel # "optimized"
  BY <1>1, <1>5 DEF QueryInv, Looking
<1>8. QueryInv(q)'
  BY <1>2, <1>4, <1>5, <1>6, <1>7 DEF QueryInv, Looking, Building, Probing, Executing
<1>9. QED
  BY <1>2, <1>3, <1>8, ReadingKeeps

(* The transpose that a query finds is a reversal of its entry's graph.    *)
LEMMA LookupReverseKeeps ==
    ASSUME Inv, NEW q \in Queriers, LookupReverse(q)
    PROVE  Inv'
<1>1. /\ query[q] \in QueryRecord /\ QueryInv(q) /\ catalog \in Nat
      /\ \A e \in 1..Len(entries) : EntryInv(entries[e])
  BY CatalogTypes DEF Inv, TypeInv
<1>2. UNCHANGED <<graphs, entries>>
  BY DEF LookupReverse
<1>3. PICK r \in QueryRecord : /\ Step(q, "reverse", r)
               /\ r.got = query[q].got /\ r.kernel = query[q].kernel /\ r.looked = catalog
               /\ \/ /\ r.reverse = query[q].reverse
                     /\ (r.at = "build" /\ catalog # None) \/ r.at \in {"nodes", "planned"}
                  \/ /\ r.at \in {"nodes", "planned"} /\ r.reverse = entries[catalog].reverse
                     /\ catalog # None /\ entries[catalog].reverse # None
  <2> DEFINE missing == catalog = None \/ entries[catalog].reverse = None
             at == IF query[q].call.inward /\ catalog # None THEN "build" ELSE Traversed(q)
             a == [query[q] EXCEPT !.looked = catalog, !.at = at]
             b == [query[q] EXCEPT !.looked = catalog, !.at = Traversed(q),
                       !.reverse = entries[catalog].reverse]
  <2>1. (missing /\ Step(q, "reverse", a)) \/ (~missing /\ Step(q, "reverse", b))
    BY DEF LookupReverse
  <2>2. Traversed(q) \in {"nodes", "planned"}
    BY DEF Traversed
  <2>3. (at = "build" /\ catalog # None) \/ at \in {"nodes", "planned"}
    BY <2>2
  <2> HIDE DEF at
  <2>4. /\ a \in QueryRecord
        /\ a.at = at /\ a.got = query[q].got /\ a.kernel = query[q].kernel
        /\ a.looked = catalog /\ a.reverse = query[q].reverse
    <3>1. at \in QueryPhases
      BY <2>3 DEF QueryPhases
    <3>2. a \in QueryRecord
      BY <1>1, <3>1 DEF QueryRecord
    <3>3. QED
      BY <1>1, <3>2 DEF QueryRecord
  <2>5. /\ ~missing => b \in QueryRecord
        /\ b.at = Traversed(q) /\ b.got = query[q].got /\ b.kernel = query[q].kernel
        /\ b.looked = catalog /\ b.reverse = entries[catalog].reverse
    <3>1. Traversed(q) \in QueryPhases /\ (~missing => entries[catalog].reverse \in Nat)
      BY <2>2, CatalogTypes DEF QueryPhases
    <3>2. ~missing => b \in QueryRecord
      BY <1>1, <3>1 DEF QueryRecord
    <3>3. QED
      BY <1>1, <3>2 DEF QueryRecord
  <2> HIDE DEF a, b
  <2>6. QED
    BY <2>1, <2>2, <2>3, <2>4, <2>5
<1>4. query[q].at = "reverse" /\ query'[q] = r /\ UNCHANGED op
  BY <1>3, StepMoves
<1>5. /\ query[q].reverse = None /\ query[q].kernel # "optimized"
      /\ query[q].got \in 1..Len(entries)
      /\ catalog # None => catalog \in 1..Len(entries)
  BY <1>1, <1>4, CatalogTypes DEF QueryInv, Looking
<1>6. QueryInv(q)'
  <2>1. CASE r.reverse = None
    BY <1>2, <1>3, <1>4, <1>5, <2>1 DEF QueryInv, Looking, Building, Probing, Executing
  <2>2. CASE r.reverse # None
    <3>1. /\ r.at \in {"nodes", "planned"} /\ r.reverse = entries[catalog].reverse
          /\ catalog \in 1..Len(entries)
      BY <1>3, <1>5, <2>2
    <3>2. /\ r.reverse \in 1..Len(graphs)
          /\ Reversal(graphs[r.reverse], graphs[entries[catalog].forward],
                      entries[catalog].forward, op)
      BY <1>1, <2>2, <3>1 DEF EntryInv
    <3>3. Transposed(query[q])'
      BY <1>2, <1>3, <1>4, <3>1, <3>2 DEF Transposed
    <3>4. QED
      BY <1>2, <1>3, <1>4, <1>5, <2>2, <3>1, <3>3 DEF QueryInv, Looking, Building, Probing, Executing
  <2>3. QED
    BY <2>1, <2>2
<1>7. QED
  BY <1>2, <1>3, <1>6, ReadingKeeps

(* The tombstones that a walk begins with.                                 *)
LEMMA SnapshotTombstonesKeeps ==
    ASSUME Inv, NEW q \in Queriers, SnapshotTombstones(q)
    PROVE  Inv'
<1> DEFINE k == entries[query[q].looked].forward
           g == graphs[k]
           m == Watch(g, Busy(op, k))
           r == [query[q] EXCEPT !.at = "walk", !.dels = g.dels, !.sweeps = g.sweeps, !.watched = m]
<1>1. /\ query[q] \in QueryRecord /\ QueryInv(q) /\ op \in [Writers -> OpRecord]
      /\ \A e \in 1..Len(entries) : EntryInv(entries[e])
  BY DEF Inv, TypeInv
<1>2. Step(q, "build", r) /\ UNCHANGED <<graphs, entries>>
  BY DEF SnapshotTombstones
<1>3. query[q].at = "build"
  BY <1>2 DEF Step
<1>4. /\ query[q].looked \in 1..Len(entries) /\ query[q].got \in 1..Len(entries)
      /\ query[q].reverse = None /\ query[q].kernel # "optimized" /\ k \in 1..Len(graphs)
  BY <1>1, <1>3 DEF QueryInv, Building, EntryInv
<1>5. g \in Graph /\ g.dels \in SUBSET AllEdges /\ g.sweeps \in Nat
  BY <1>4, Parts
<1>6. m \in Watches /\ m.shown = Shown(g) /\ m.held = Held(g)
  <2>1. Busy(op, k) \in SUBSET AllEdges
    BY <1>1 DEF Busy, OpRecord
  <2>2. QED
    BY <1>5, <2>1, Contents DEF Watch, Watches
<1> HIDE DEF m, g, k
<1>7. /\ r \in QueryRecord /\ r.at = "walk" /\ r.dels = g.dels /\ r.sweeps = g.sweeps
      /\ r.watched = m /\ r.looked = query[q].looked /\ r.got = query[q].got
      /\ r.reverse = query[q].reverse /\ r.kernel = query[q].kernel
  BY <1>1, <1>5, <1>6 DEF QueryRecord, QueryPhases
<1> HIDE DEF r
<1>8. query'[q] = r /\ UNCHANGED op
  BY <1>2, <1>7, StepMoves
<1>9. Walks(r, g, k, op)
  BY <1>5, <1>6, <1>7 DEF Walks, Touched, Shown, Held
<1>10. QueryInv(q)'
  BY <1>2, <1>4, <1>7, <1>8, <1>9 DEF QueryInv, Looking, Building, Probing, Executing, g, k
<1>11. QED
  BY <1>2, <1>7, <1>10, ReadingKeeps

(* What a walk makes is a reversal of the graph that it walked.            *)
LEMMA WalkIsReversal ==
    ASSUME NEW r \in QueryRecord, NEW g \in Graph, NEW f \in Nat, Walks(r, g, f, op),
           NEW t, t.base = Flip(MergedEdges(g.base, r.dels, g.ins)),
           t.source = Source(f, r.sweeps, r.watched.shown, r.watched.held)
    PROVE  Reversal(t, g, f, op)
<1> DEFINE merged == MergedEdges(g.base, r.dels, g.ins)
<1>1. /\ t.source.of = f /\ t.source.sweeps = r.sweeps
      /\ t.source.shown = r.watched.shown /\ t.source.held = r.watched.held
  BY DEF Source
<1>2. merged \subseteq r.watched.shown /\ r.watched.held \subseteq merged
  BY DEF Walks, MergedEdges
<1>3. g.base \ merged \subseteq r.dels /\ merged \ g.base \subseteq g.ins
  BY DEF MergedEdges
<1>4. t.base = Flip(merged) /\ g.base \in SUBSET AllEdges /\ merged \in SUBSET AllEdges
  <2>1. g.base \in EdgeSets
    BY DEF Graph
  <2>2. QED
    BY <2>1, SmallSets, Contents
<1> HIDE DEF merged
<1>5. Flip(merged) \subseteq Flip(r.watched.shown) /\ Flip(r.watched.held) \subseteq Flip(merged)
  BY <1>2 DEF Flip
<1>6. ASSUME r.sweeps = g.sweeps
      PROVE  Differences(g.base, t.base) \subseteq Flip(Touched(g, f, op))
  <2>1. r.dels \subseteq Touched(g, f, op) /\ g.ins \subseteq Touched(g, f, op)
    BY <1>6 DEF Walks, Touched
  <2>2. ASSUME NEW d \in Differences(g.base, t.base)
        PROVE  \E p \in Touched(g, f, op) : d = <<p[2], p[1]>>
    <3>1. CASE d \in Flip(g.base) \ Flip(merged)
      <4>1. PICK p \in g.base : d = <<p[2], p[1]>>
        BY <3>1 DEF Flip
      <4>2. p \notin merged
        BY <3>1, <4>1 DEF Flip
      <4>3. QED
        BY <1>3, <2>1, <4>1, <4>2
    <3>2. CASE d \in Flip(merged) \ Flip(g.base)
      <4>1. PICK p \in merged : d = <<p[2], p[1]>>
        BY <3>2 DEF Flip
      <4>2. p \notin g.base
        BY <3>2, <4>1 DEF Flip
      <4>3. QED
        BY <1>3, <2>1, <4>1, <4>2
    <3>3. QED
      BY <1>4, <2>2, <3>1, <3>2 DEF Differences
  <2>3. QED
    BY <2>2 DEF Flip
<1>7. QED
  BY <1>1, <1>4, <1>5, <1>6 DEF Reversal, Walks

(* The insertions that it ends with.                                       *)
LEMMA BuildTransposeKeeps ==
    ASSUME Inv, NEW q \in Queriers, BuildTranspose(q)
    PROVE  Inv'
<1> DEFINE s == query[q]
           k == entries[s.looked].forward
           g == graphs[k]
           merged == MergedEdges(g.base, s.dels, g.ins)
           source == Source(k, s.sweeps, s.watched.shown, s.watched.held)
           t == Built(Flip(merged), NoDictionary, <<>>, source)
           r == [s EXCEPT !.at = "set", !.dels = {}, !.sweeps = 0, !.watched = NoWatch,
                     !.reverse = NewGraph]
<1>1. /\ TypeInv /\ s \in QueryRecord /\ QueryInv(q) /\ Len(graphs) \in Nat
      /\ \A e \in 1..Len(entries) : EntryInv(entries[e])
  BY DEF Inv, TypeInv
<1>2. Step(q, "walk", r) /\ graphs' = Append(graphs, t) /\ UNCHANGED entries
  BY DEF BuildTranspose
<1>3. s.at = "walk"
  BY <1>2 DEF Step
<1>4. /\ s.looked \in 1..Len(entries) /\ s.got \in 1..Len(entries)
      /\ s.kernel # "optimized" /\ k \in 1..Len(graphs) /\ Walks(s, g, k, op)
  BY <1>1, <1>3 DEF QueryInv, Building, EntryInv
<1>5. g \in Graph /\ k \in Nat
  BY <1>4, Parts
<1>6. source \in SourceRecord
  <2>1. s.watched \in Watches /\ s.sweeps \in Nat
    BY <1>1 DEF QueryRecord
  <2>2. s.watched.shown \in SUBSET AllEdges /\ s.watched.held \in SUBSET AllEdges
    BY <2>1 DEF Watches
  <2>3. QED
    BY <1>5, <2>1, <2>2 DEF Source, SourceRecord
<1>7. Flip(merged) \in EdgeSets
  BY <1>5, Contents, FlipStays
<1>8. t \in Graph /\ t.base = Flip(merged) /\ t.source = source
  <2>1. t \in Graph
    BY <1>6, <1>7, Nones, BuiltIsGraph
  <2>2. QED
    BY <2>1 DEF Built
<1> HIDE DEF t
<1>9. Reversal(t, g, k, op)
  BY <1>1, <1>4, <1>5, <1>8, WalkIsReversal
<1> HIDE DEF g, k, merged, source
<1>10. /\ r \in QueryRecord /\ r.at = "set" /\ r.got = s.got /\ r.looked = s.looked
       /\ r.reverse = Len(graphs) + 1 /\ r.kernel = s.kernel
  <2>1. NewGraph \in Nat /\ NewGraph = Len(graphs) + 1
    BY <1>1 DEF NewGraph
  <2> HIDE DEF s
  <2>2. QED
    BY <1>1, <2>1, SmallSets, Nones DEF QueryRecord, QueryPhases
<1> HIDE DEF r
<1>11. /\ query'[q] = r /\ query' \in [Queriers -> QueryRecord]
       /\ \A p \in Queriers \ {q} : query'[p] = query[p]
       /\ UNCHANGED <<compaction, op, mutations, catalog>>
  BY <1>2, <1>10, StepMoves
<1>12. /\ graphs' \in Seq(Graph) /\ Len(graphs') = Len(graphs) + 1
       /\ graphs'[Len(graphs) + 1] = t
       /\ \A i \in 1..Len(graphs) : graphs'[i] = graphs[i]
  BY <1>2, <1>8, GraphAppended
<1>13. GrownEntries
  BY <1>1, <1>2, Unchanged
<1>14. TypeInv'
  BY <1>1, <1>2, <1>11, <1>12 DEF TypeInv
<1>15. QueryInv(q)'
  <2>1. graphs'[k] = g /\ entries'[r.looked].forward = k
    BY <1>2, <1>4, <1>10, <1>12 DEF g, k
  <2>2. r.reverse \in 1..Len(graphs') /\ r.reverse # None /\ graphs'[r.reverse] = t
    BY <1>1, <1>10, <1>12 DEF None
  <2>3. Transposed(query[q])'
    BY <1>2, <1>4, <1>9, <1>10, <1>11, <2>1, <2>2 DEF Transposed
  <2>4. QED
    BY <1>2, <1>4, <1>10, <1>11, <2>2, <2>3 DEF QueryInv, Looking, Building, Probing, Executing
<1>16. /\ OpInv' /\ GrownGraphs
       /\ \A p \in Queriers : query'[p] = query[p] => Follows(query'[p], query[p])
  BY <1>1, <1>11, <1>12, <1>13, <1>14, Quiet
<1>17. \A p \in Queriers : Follows(query'[p], query[p]) \/ QueryInv(p)'
  BY <1>11, <1>15, <1>16
<1>18. QED
  BY <1>2, <1>11, <1>13, <1>14, <1>16, <1>17, Advance

(* The transpose that an entry keeps is the first that was set, and the    *)
(* query goes on with that one.                                            *)
LEMMA SetReverseKeeps ==
    ASSUME Inv, NEW q \in Queriers, SetReverse(q)
    PROVE  Inv'
<1> DEFINE e == query[q].looked
           kept == IF entries[e].reverse = None THEN query[q].reverse ELSE entries[e].reverse
           r == [query[q] EXCEPT !.at = Traversed(q), !.reverse = kept]
<1>1. /\ TypeInv /\ query[q] \in QueryRecord /\ QueryInv(q) /\ Len(graphs) \in Nat
      /\ \A i \in 1..Len(entries) : EntryInv(entries[i])
  BY DEF Inv, TypeInv
<1>2. /\ Step(q, "set", r) /\ entries' = [entries EXCEPT ![e].reverse = kept]
      /\ UNCHANGED graphs
  BY DEF SetReverse
<1>3. query[q].at = "set"
  BY <1>2 DEF Step
<1> DEFINE k == entries[e].forward
<1>4. /\ e \in 1..Len(entries) /\ query[q].got \in 1..Len(entries) /\ query[q].reverse # None
      /\ query[q].reverse \in 1..Len(graphs)
      /\ Reversal(graphs[query[q].reverse], graphs[k], k, op)
      /\ query[q].kernel # "optimized"
  BY <1>1, <1>3 DEF QueryInv, Building, Transposed
<1>5. entries \in Seq(EntryRecord) /\ entries[e] \in EntryRecord /\ EntryInv(entries[e])
  BY <1>1, <1>4 DEF TypeInv
<1>6. /\ kept # None /\ kept \in 1..Len(graphs) /\ Reversal(graphs[kept], graphs[k], k, op)
      /\ entries[e].reverse # None => kept = entries[e].reverse
  <2>1. CASE entries[e].reverse = None
    BY <1>4, <2>1
  <2>2. CASE entries[e].reverse # None
    BY <1>5, <2>2 DEF EntryInv
  <2>3. QED
    BY <2>1, <2>2
<1>7. Traversed(q) \in {"nodes", "planned"}
  BY DEF Traversed
<1> HIDE DEF kept
<1>8. /\ r \in QueryRecord /\ r.at = Traversed(q) /\ r.got = query[q].got /\ r.looked = e
      /\ r.reverse = kept /\ r.kernel = query[q].kernel
  <2>1. kept \in Nat /\ Traversed(q) \in QueryPhases
    BY <1>1, <1>6, <1>7 DEF QueryPhases
  <2>2. r \in QueryRecord
    BY <1>1, <2>1 DEF QueryRecord
  <2>3. QED
    BY <1>1, <2>2 DEF QueryRecord
<1> HIDE DEF r
<1>9. /\ query'[q] = r /\ query' \in [Queriers -> QueryRecord]
      /\ \A p \in Queriers \ {q} : query'[p] = query[p]
      /\ UNCHANGED <<compaction, op, mutations, catalog>>
  BY <1>2, <1>8, StepMoves
<1> DEFINE n == [entries[e] EXCEPT !.reverse = kept]
<1>10. /\ n \in EntryRecord /\ n.reverse = kept /\ n.forward = k
       /\ n.dictionary = entries[e].dictionary
  <2>1. kept \in Nat
    BY <1>1, <1>6
  <2>2. QED
    BY <1>5, <2>1 DEF EntryRecord
<1>11. entries' = [entries EXCEPT ![e] = n]
  BY <1>2
<1> HIDE DEF n
<1>12. /\ entries' \in Seq(EntryRecord) /\ Len(entries') = Len(entries) /\ entries'[e] = n
       /\ \A i \in 1..Len(entries) : i # e => entries'[i] = entries[i]
  BY <1>4, <1>5, <1>10, <1>11, Replaced
<1>13. GrownEntries
  <2>1. ASSUME NEW i \in 1..Len(entries)
        PROVE  /\ entries'[i].forward = entries[i].forward
               /\ entries'[i].dictionary = entries[i].dictionary
               /\ entries[i].reverse # None => entries'[i].reverse = entries[i].reverse
    BY <1>6, <1>10, <1>12
  <2>2. Len(entries) \in Nat
    BY <1>5
  <2>3. QED
    BY <1>12, <2>1, <2>2 DEF GrownEntries
<1>14. ASSUME NEW i \in 1..Len(entries'), i = e
       PROVE  EntryInv(entries[i])'
  <2>1. k \in 1..Len(graphs) /\ entries[e].dictionary = graphs[k].keys
    BY <1>5 DEF EntryInv
  <2> HIDE DEF k
  <2>2. QED
    BY <1>2, <1>6, <1>9, <1>10, <1>12, <1>14, <2>1 DEF EntryInv
<1>15. QueryInv(q)'
  <2>1. entries'[r.looked].forward = k /\ entries'[r.looked].reverse = kept /\ e \in 1..Len(entries')
    BY <1>4, <1>8, <1>10, <1>12
  <2> HIDE DEF k, e
  <2>2. Transposed(query[q])'
    BY <1>2, <1>6, <1>8, <1>9, <2>1 DEF Transposed
  <2>3. QED
    BY <1>4, <1>6, <1>7, <1>8, <1>9, <1>12, <2>2 DEF QueryInv, Looking, Building, Probing, Executing
<1>16. TypeInv'
  BY <1>1, <1>2, <1>9, <1>12 DEF TypeInv
<1>17. /\ OpInv' /\ GrownGraphs
       /\ \A p \in Queriers : query'[p] = query[p] => Follows(query'[p], query[p])
  BY <1>1, <1>2, <1>9, <1>13, <1>16, Quiet
<1>18. \A p \in Queriers : Follows(query'[p], query[p]) \/ QueryInv(p)'
  BY <1>9, <1>15, <1>17
<1>19. \A i \in 1..Len(entries') : \/ i \in 1..Len(entries) /\ entries'[i].reverse = entries[i].reverse
                                   \/ EntryInv(entries[i])'
  BY <1>12, <1>14
<1>20. QED
  BY <1>9, <1>13, <1>16, <1>17, <1>18, <1>19, Advance

(* A query that has what it needs goes on with it.                         *)
LEMMA MovesOn ==
    ASSUME Inv, NEW q \in Queriers, NEW from \in {"nodes"} \cup Executing, NEW r \in QueryRecord,
           Step(q, from, r), UNCHANGED <<graphs, entries>>,
           r.got = query[q].got, r.looked = query[q].looked, r.reverse = query[q].reverse,
           r.at \in Executing \cup {"refused"},
           r.at \in Probing => r.reverse # None /\ SameSize(r),
           r.at = "probed" => Probes(r, graphs[entries[r.got].forward], graphs[r.reverse]),
           r.kernel = "optimized" =>
              r.at = "done" /\ r.reverse # None /\ Coherent(r, graphs[r.reverse])
    PROVE  Inv'
<1>1. QueryInv(q)
  BY DEF Inv
<1>2. query[q].at = from /\ query'[q] = r /\ UNCHANGED op
  BY StepMoves
<1>3. query[q].got \in 1..Len(entries)
  BY <1>1, <1>2 DEF QueryInv, Executing
<1>4. r.reverse # None => Transposed(query[q])'
  <2>1. r.reverse # None => Transposed(query[q])
    BY <1>1 DEF QueryInv
  <2>2. query[q].at # "set"
    BY <1>2 DEF Executing, Probing
  <2>3. QED
    BY <1>2, <2>1, <2>2 DEF Transposed
<1>5. r.at \in Probing => SameSize(query[q])'
  BY <1>2 DEF SameSize
<1>6. r.at \notin Looking \cup Building \cup {"nodes"}
  BY DEF Executing, Probing, Looking, Building
<1>7. QueryInv(q)'
  BY <1>2, <1>3, <1>4, <1>5, <1>6 DEF QueryInv, Looking, Building
<1>8. QED
  BY <1>7, ReadingKeeps

(* graph_nodes looks an entry up and leaves the traversal alone.           *)
LEMMA GraphNodesKeeps ==
    ASSUME Inv, NEW q \in Queriers, GraphNodes(q)
    PROVE  Inv'
<1>1. query[q] \in QueryRecord /\ QueryInv(q) /\ catalog \in Nat
  BY CatalogTypes DEF Inv, TypeInv
<1>2. PICK r \in QueryRecord : /\ Step(q, "nodes", r) /\ r.at \in {"planned", "refused"}
                               /\ r.got = query[q].got /\ r.looked = query[q].looked
                               /\ r.reverse = query[q].reverse /\ r.kernel = query[q].kernel
  <2> DEFINE a == [query[q] EXCEPT !.at = "planned", !.named = catalog]
             b == [query[q] EXCEPT !.at = "refused"]
  <2>1. Step(q, "nodes", a) \/ Step(q, "nodes", b)
    BY DEF GraphNodes
  <2>2. a \in QueryRecord /\ b \in QueryRecord
    BY <1>1 DEF QueryRecord, QueryPhases
  <2>3. /\ a.at = "planned" /\ a.got = query[q].got /\ a.looked = query[q].looked
        /\ a.reverse = query[q].reverse /\ a.kernel = query[q].kernel
    BY <1>1 DEF QueryRecord
  <2>4. /\ b.at = "refused" /\ b.got = query[q].got /\ b.looked = query[q].looked
        /\ b.reverse = query[q].reverse /\ b.kernel = query[q].kernel
    BY <1>1 DEF QueryRecord
  <2> HIDE DEF a, b
  <2>5. QED
    BY <2>1, <2>2, <2>3, <2>4
<1>3. query[q].kernel # "optimized"
  <2>1. query[q].at = "nodes"
    BY <1>2, StepMoves
  <2>2. QED
    BY <1>1, <2>1 DEF QueryInv
<1>4. UNCHANGED <<graphs, entries>>
  BY DEF GraphNodes
<1>5. QED
  BY <1>2, <1>3, <1>4, MovesOn DEF Executing, Probing

(* The search begins to compare the two graphs only if they have as many   *)
(* edges.                                                                  *)
LEMMA ExecuteKeeps ==
    ASSUME Inv, NEW q \in Queriers, Execute(q)
    PROVE  Inv'
<1>1. query[q] \in QueryRecord /\ QueryInv(q) /\ UNCHANGED <<graphs, entries>>
  BY DEF Inv, TypeInv, Execute
<1>2. PICK at \in {"refused", "probe", "plain"} :
         /\ Step(q, "planned", [query[q] EXCEPT !.at = at])
         /\ at = "probe" => query[q].reverse # None /\ SameSize(query[q])
  <2> DEFINE optimizes == /\ query[q].reverse # None /\ ~query[q].call.capped
                          /\ SameShape(Searched(q), graphs[query[q].reverse])
             at == CASE Invalid(q) -> "refused" [] optimizes -> "probe" [] OTHER -> "plain"
  <2>1. Step(q, "planned", [query[q] EXCEPT !.at = at])
    BY DEF Execute
  <2>2. optimizes => query[q].reverse # None /\ SameSize(query[q])
    BY DEF SameShape, SameSize, Searched
  <2> HIDE DEF optimizes
  <2>3. at \in {"refused", "probe", "plain"} /\ (at = "probe" => optimizes)
    OBVIOUS
  <2> HIDE DEF at
  <2>4. QED
    BY <2>1, <2>2, <2>3
<1> DEFINE r == [query[q] EXCEPT !.at = at]
<1>3. /\ r \in QueryRecord /\ r.at = at /\ r.got = query[q].got /\ r.looked = query[q].looked
      /\ r.reverse = query[q].reverse /\ r.kernel = query[q].kernel
  BY <1>1 DEF QueryRecord, QueryPhases
<1>4. Step(q, "planned", r)
  BY <1>2
<1> HIDE DEF r
<1>5. query[q].kernel # "optimized"
  <2>1. query[q].at = "planned"
    BY <1>3, <1>4, StepMoves
  <2>2. QED
    BY <1>1, <2>1 DEF QueryInv
<1>6. at = "probe" => r.reverse # None /\ SameSize(r)
  BY <1>2, <1>3 DEF SameSize
<1>7. r.at \in Executing \cup {"refused"} /\ r.at # "probed" /\ (r.at \in Probing => at = "probe")
  BY <1>3 DEF Executing, Probing
<1>8. QED
  BY <1>1, <1>3, <1>4, <1>5, <1>6, <1>7, MovesOn DEF Executing, Probing

(* No insertion is found: what the graph and its transpose differ in are   *)
(* tombstones, or edges that writers are at.                               *)
LEMMA ProbeInsertionsKeeps ==
    ASSUME Inv, NEW q \in Queriers, ProbeInsertions(q)
    PROVE  Inv'
<1> DEFINE s == query[q]
           k == entries[s.got].forward
           g == graphs[k]
           t == graphs[s.reverse]
           m == Watch(g, Busy(op, k))
           a == [s EXCEPT !.at = "plain"]
           b == [s EXCEPT !.at = "probed", !.watched = m]
<1>1. /\ TypeInv /\ s \in QueryRecord /\ QueryInv(q) /\ UNCHANGED <<graphs, entries>>
      /\ \A e \in 1..Len(entries) : EntryInv(entries[e])
  BY DEF Inv, TypeInv, ProbeInsertions
<1>2. (g.ins # {} /\ Step(q, "probe", a)) \/ (g.ins = {} /\ Step(q, "probe", b))
  BY DEF ProbeInsertions
<1>3. s.at = "probe"
  BY <1>2 DEF Step
<1>4. /\ s.got \in 1..Len(entries) /\ s.reverse # None /\ SameSize(s) /\ Transposed(s)
      /\ s.kernel # "optimized" /\ k \in 1..Len(graphs)
  BY <1>1, <1>3 DEF QueryInv, Executing, Probing, EntryInv
<1>5. g \in Graph /\ Busy(op, k) \in SUBSET AllEdges
  BY <1>1, <1>4, Parts DEF TypeInv, Busy, OpRecord
<1>6. m \in Watches /\ m.busy = Busy(op, k)
  BY <1>5, Contents DEF Watch, Watches
<1>7. ASSUME s.got = s.looked, t.source.sweeps = g.sweeps, g.ins = {}
      PROVE  Differences(g.base, t.base) \subseteq Flip(m.busy \cup g.dels)
  <2>1. Reversal(t, g, k, op)
    BY <1>4, <1>7 DEF Transposed
  <2> HIDE DEF t, g, k, m
  <2>2. Differences(g.base, t.base) \subseteq Flip(Touched(g, k, op))
    BY <1>7, <2>1 DEF Reversal
  <2>3. Touched(g, k, op) = m.busy \cup g.dels
    BY <1>6, <1>7 DEF Touched
  <2>4. QED
    BY <2>2, <2>3
<1> HIDE DEF m
<1>8. CASE g.ins # {} /\ Step(q, "probe", a)
  <2>1. /\ a \in QueryRecord /\ a.at = "plain" /\ a.got = s.got /\ a.looked = s.looked
        /\ a.reverse = s.reverse /\ a.kernel = s.kernel
    BY <1>1 DEF QueryRecord, QueryPhases
  <2> HIDE DEF a
  <2>2. QED
    BY <1>1, <1>4, <1>8, <2>1, MovesOn DEF Executing, Probing
<1>9. CASE g.ins = {} /\ Step(q, "probe", b)
  <2>1. /\ b \in QueryRecord /\ b.at = "probed" /\ b.got = s.got /\ b.looked = s.looked
        /\ b.reverse = s.reverse /\ b.kernel = s.kernel /\ b.watched = m
    BY <1>1, <1>6 DEF QueryRecord, QueryPhases
  <2> HIDE DEF b
  <2>2. Probes(b, g, t)
    BY <1>7, <1>9, <2>1 DEF Probes
  <2>3. SameSize(b)
    BY <1>4, <2>1 DEF SameSize
  <2>4. QED
    BY <1>1, <1>4, <1>9, <2>1, <2>2, <2>3, MovesOn DEF Executing, Probing
<1>10. QED
  BY <1>2, <1>8, <1>9

(* No tombstone either: two sets of edges that differ at most in the one   *)
(* edge that writers were at, and of one size, do not differ.              *)
LEMMA ProbeTombstonesKeeps ==
    ASSUME Inv, NEW q \in Queriers, ProbeTombstones(q)
    PROVE  Inv'
<1> DEFINE s == query[q]
           k == entries[s.got].forward
           g == graphs[k]
           t == graphs[s.reverse]
           a == [s EXCEPT !.at = "plain", !.watched = NoWatch]
           b == Optimized(q)
<1>1. /\ TypeInv /\ s \in QueryRecord /\ QueryInv(q) /\ UNCHANGED <<graphs, entries>>
      /\ \A e \in 1..Len(entries) : EntryInv(entries[e])
  BY DEF Inv, TypeInv, ProbeTombstones
<1>2. Step(q, "probed", a) \/ (g.dels = {} /\ Step(q, "probed", b))
  BY DEF ProbeTombstones, Searched
<1>3. s.at = "probed"
  BY <1>2 DEF Step
<1>4. /\ s.got \in 1..Len(entries) /\ s.reverse # None /\ SameSize(s) /\ Transposed(s)
      /\ s.kernel # "optimized" /\ k \in 1..Len(graphs) /\ Probes(s, g, t)
  BY <1>1, <1>3 DEF QueryInv, Executing, Probing, EntryInv
<1>5. s.reverse \in 1..Len(graphs)
  BY <1>4 DEF Transposed
<1>6. /\ g.base \in EdgeSets /\ t.base \in EdgeSets /\ g.sweeps \in Nat
      /\ Cardinality(g.base) = Cardinality(t.base)
  BY <1>4, <1>5, Parts DEF SameSize
<1>7. CASE Step(q, "probed", a)
  <2>1. /\ a \in QueryRecord /\ a.at = "plain" /\ a.got = s.got /\ a.looked = s.looked
        /\ a.reverse = s.reverse /\ a.kernel = s.kernel
    BY <1>1, Nones DEF QueryRecord, QueryPhases
  <2> HIDE DEF a
  <2>2. QED
    BY <1>1, <1>4, <1>7, <2>1, MovesOn DEF Executing, Probing
<1>8. CASE g.dels = {} /\ Step(q, "probed", b)
  <2>1. b = [s EXCEPT !.at = "done", !.sweeps = g.sweeps, !.kernel = "optimized",
                      !.pair = <<g.base, t.base>>]
    BY DEF Optimized, Searched
  <2> HIDE DEF g, t, b
  <2>2. /\ b \in QueryRecord /\ b.at = "done" /\ b.got = s.got /\ b.looked = s.looked
        /\ b.reverse = s.reverse /\ b.kernel = "optimized" /\ b.watched = s.watched
        /\ b.sweeps = g.sweeps /\ b.pair = <<g.base, t.base>>
    <3>1. <<g.base, t.base>> \in EdgeSets \X EdgeSets
      BY <1>6
    <3>2. QED
      BY <1>1, <1>6, <2>1, <3>1 DEF QueryRecord, QueryPhases
  <2>3. ASSUME s.got = s.looked, g.sweeps = t.source.sweeps,
               \A p, o \in s.watched.busy : p = o
        PROVE  t.base = Flip(g.base)
    <3>1. Differences(g.base, t.base) \subseteq Flip(s.watched.busy \cup g.dels)
      BY <1>4, <2>3 DEF Probes
    <3>2. s.watched.busy \cup g.dels = s.watched.busy
      BY <1>8
    <3>3. Differences(g.base, t.base) \subseteq Flip(s.watched.busy)
      BY <3>1, <3>2
    <3>4. QED
      BY <1>6, <2>3, <3>3, NoSingleDifference
  <2>4. Coherent(b, t)
    BY <2>2, <2>3 DEF Coherent
  <2>5. QED
    BY <1>1, <1>4, <1>8, <2>2, <2>4, MovesOn DEF Executing, Probing, t
<1>9. QED
  BY <1>2, <1>7, <1>8

(* The plain search.                                                       *)
LEMMA SearchPlainKeeps ==
    ASSUME Inv, NEW q \in Queriers, SearchPlain(q)
    PROVE  Inv'
<1> DEFINE r == [query[q] EXCEPT !.at = "done", !.kernel = "plain"]
<1>1. query[q] \in QueryRecord /\ Step(q, "plain", r) /\ UNCHANGED <<graphs, entries>>
  BY DEF Inv, TypeInv, SearchPlain
<1>2. /\ r \in QueryRecord /\ r.at = "done" /\ r.got = query[q].got /\ r.looked = query[q].looked
      /\ r.reverse = query[q].reverse /\ r.kernel = "plain"
  BY <1>1 DEF QueryRecord, QueryPhases
<1> HIDE DEF r
<1>3. QED
  BY <1>1, <1>2, MovesOn DEF Executing, Probing

-----------------------------------------------------------------------------
(* The invariant holds of every behaviour.                                 *)
LEMMA InvHolds == Spec => []Inv
<1>1. Init => Inv
  <2> SUFFICES ASSUME Init PROVE Inv
    OBVIOUS
  <2>1. PICK input \in Inputs : query = [q \in Queriers |-> NewQuery(input.calls[q])]
    BY DEF Init
  <2>2. ASSUME NEW q \in Queriers PROVE NewQuery(input.calls[q]) \in QueryRecord
    <3> DEFINE call == input.calls[q]
               at == IF call.key = NoKey THEN "get" ELSE "key"
    <3>1. call \in CallRecords /\ 0 \in Starts /\ <<{}, {}>> \in EdgeSets \X EdgeSets
      <4>1. call \in CallRecords
        BY <2>1 DEF CallRecords
      <4>2. 0 \in Starts
        BY DEF Starts
      <4>3. QED
        BY <4>1, <4>2, SmallSets
    <3>2. at \in QueryPhases
      BY DEF QueryPhases
    <3>3. NewQuery(call) =
            [at |-> at, call |-> call, start |-> 0, keyed |-> None, got |-> None, looked |-> None,
             reverse |-> None, named |-> None, dels |-> {}, watched |-> NoWatch, sweeps |-> 0,
             kernel |-> "none", pair |-> <<{}, {}>>]
      BY DEF NewQuery
    <3> HIDE DEF call, at
    <3>4. QED
      BY <3>1, <3>2, <3>3, Nones DEF QueryRecord, None, call
  <2>3. TypeInv
    <3>1. Idle \in [entry : Nat, merged : EdgeSets]
      BY SmallSets DEF Idle, None
    <3>2. op \in [Writers -> OpRecord]
      BY Nones DEF Init
    <3>3. QED
      BY <2>1, <2>2, <3>1, <3>2 DEF Init, TypeInv, None
  <2>4. \A q \in Queriers : QueryInv(q)
    BY <2>1 DEF NewQuery, QueryInv, Looking, Building, Probing, Executing, None
  <2>5. Len(graphs) = 0 /\ Len(entries) = 0 /\ compaction = Idle /\ OpInv
    BY DEF Init, OpInv, NoOp
  <2>6. QED
    BY <2>3, <2>4, <2>5 DEF Inv, DrainInv
<1>2. Inv /\ [Next]_vars => Inv'
  <2> SUFFICES ASSUME Inv, [Next]_vars PROVE Inv'
    OBVIOUS
  <2>1. CASE UNCHANGED vars
    <3>1. /\ UNCHANGED <<graphs, entries, catalog, query, compaction, op>> /\ TypeInv
          /\ Len(graphs) \in Nat
      BY <2>1 DEF vars, Inv, TypeInv
    <3>2. TypeInv' /\ GrownEntries
      BY <3>1, Unchanged DEF TypeInv
    <3>3. OpInv' /\ GrownGraphs /\ \A q \in Queriers : Follows(query'[q], query[q])
      BY <3>1, <3>2, Quiet
    <3>4. QED
      BY <3>1, <3>2, <3>3, Advance
  <2>2. CASE Catalog
    BY <2>2, RegisterKeeps, RegisterWithReverseKeeps, DeregisterKeeps, CompactDrainKeeps,
       CompactSwapKeeps DEF Catalog
  <2>3. ASSUME NEW w \in Writers, Write(w)
        PROVE  Inv'
    BY <2>3, BeginKeeps, FinishKeeps DEF Write
  <2>4. ASSUME NEW q \in Queriers, Query(q)
        PROVE  Inv'
    BY <2>4, ResolveKeyKeeps, GetGraphKeeps, LookupReverseKeeps, SnapshotTombstonesKeeps,
       BuildTransposeKeeps, SetReverseKeeps, GraphNodesKeeps, ExecuteKeeps, ProbeInsertionsKeeps,
       ProbeTombstonesKeeps, SearchPlainKeeps DEF Query
  <2>5. QED
    BY <2>1, <2>2, <2>3, <2>4 DEF Next
<1>3. QED
  BY <1>1, <1>2, PTL DEF Spec

(* A transpose that the catalog hands out was built from the graph of its  *)
(* own entry, also after any number of compactions and registrations       *)
(* (udtf.rs:170-172), and it lies between what that graph held throughout  *)
(* its building and what it showed at some moment of it.                   *)
THEOREM TransposesWereTrue == Spec => []TransposeWasTrue
<1>1. Inv => TransposeWasTrue
  BY DEF Inv, TypeInv, EntryInv, Reversal, TransposeWasTrue
<1>2. QED
  BY <1>1, InvHolds, PTL

(* All queries that asked one entry for its transpose traverse the same    *)
(* one, however many of them built their own (udtf.rs:188-197).            *)
THEOREM TransposeIsUnique == Spec => []OneTranspose
<1>1. Inv => OneTranspose
  BY DEF Inv, QueryInv, Transposed, OneTranspose, Planned
<1>2. QED
  BY <1>1, InvHolds, PTL

(* The two graphs of a direction-optimizing search are transposes of each  *)
(* other, unless the query met two entries in its lookups, a drain or a    *)
(* clear came since the building of the transpose began, or writers were   *)
(* at two edges while the delta was tested (dobfs.rs:62-98).               *)
THEOREM OptimizedPairsAreCoherent == Spec => []PairIsCoherent
<1>1. Inv => PairIsCoherent
  BY DEF Inv, QueryInv, Coherent, PairIsCoherent
<1>2. QED
  BY <1>1, InvHolds, PTL

-----------------------------------------------------------------------------
(***************************************************************************)
(* Ids keep their keys.  Entries that go back to one registration have one *)
(* dictionary, and the start node of a string query is its key in the      *)
(* dictionary that it was resolved with.                                   *)
(***************************************************************************)
LineInv ==
    /\ \A e \in 1..Len(entries) : entries[e].of <= Len(entries)
    /\ \A e, f \in 1..Len(entries) :
          entries[e].of = entries[f].of => entries[e].dictionary = entries[f].dictionary

Resolved(q) ==
    query[q].keyed # None =>
        /\ query[q].keyed \in 1..Len(entries)
        /\ KeyOf(entries[query[q].keyed].dictionary, query[q].start) = query[q].call.key

KeyInv == LineInv /\ \A q \in Queriers : Resolved(q)

\* The parts of KeysKeepTheirMeaning that need no table of graph_nodes: an
\* entry's dictionary is the one its graph was encoded with, and a string
\* start node is that key in the graph that is searched.
StartsKeepTheirKeys ==
    /\ \A e \in DOMAIN entries : entries[e].dictionary = graphs[entries[e].forward].keys
    /\ \A q \in Queriers :
          (/\ Planned(q) /\ query[q].keyed # None
           /\ entries[query[q].keyed].of = entries[query[q].got].of)
          => KeyOf(graphs[entries[query[q].got].forward].keys, query[q].start)
                = query[q].call.key

\* What no step takes from an entry.
EntriesStay ==
    /\ Len(entries') >= Len(entries)
    /\ \A e \in 1..Len(entries) : entries'[e].dictionary = entries[e].dictionary

(* A new entry opens a line of its own, or continues the one it compacts.  *)
LEMMA LineGrows ==
    ASSUME Inv, LineInv, NEW forward \in Nat, NEW reverse \in Nat,
           NEW dictionary \in Dictionaries, NEW of \in Nat,
           Insert(Entry(forward, reverse, dictionary, of)),
           \/ of = NewEntry
           \/ \E k \in 1..Len(entries) : of = entries[k].of /\ dictionary = entries[k].dictionary
    PROVE  LineInv' /\ EntriesStay
<1> DEFINE new == Entry(forward, reverse, dictionary, of)
           n == Len(entries) + 1
<1>1. entries \in Seq(EntryRecord) /\ Len(entries) \in Nat
  BY DEF Inv, TypeInv
<1>2. new \in EntryRecord /\ new.of = of /\ new.dictionary = dictionary
  BY DEF Entry, EntryRecord
<1>3. entries' = Append(entries, new)
  BY DEF Insert
<1> HIDE DEF new
<1>4. /\ Len(entries') = n /\ entries'[n] = new
      /\ \A e \in 1..Len(entries) : entries'[e] = entries[e]
  BY <1>1, <1>2, <1>3
<1>5. \A e \in 1..Len(entries) : entries[e].of \in Nat /\ entries[e].of <= Len(entries)
  <2>1. \A e \in 1..Len(entries) : entries[e] \in EntryRecord
    BY <1>1
  <2> QED
    BY <2>1 DEF LineInv, EntryRecord
<1>6. \A e \in 1..n : e = n \/ e \in 1..Len(entries)
  BY <1>1
<1>7. of <= n
  BY <1>1, <1>5 DEF NewEntry
<1>8. ASSUME NEW e \in 1..Len(entries), entries[e].of = of
      PROVE  entries[e].dictionary = dictionary
  <2>1. of # NewEntry
    BY <1>1, <1>5, <1>8 DEF NewEntry
  <2>2. PICK k \in 1..Len(entries) : of = entries[k].of /\ dictionary = entries[k].dictionary
    BY <2>1
  <2> QED
    BY <1>8, <2>2 DEF LineInv
<1>9. ASSUME NEW e \in 1..n PROVE entries'[e].of <= n
  <2>1. CASE e = n
    BY <1>2, <1>4, <1>7, <2>1
  <2>2. CASE e \in 1..Len(entries)
    BY <1>1, <1>4, <1>5, <2>2
  <2> QED
    BY <1>6, <2>1, <2>2
<1>10. ASSUME NEW e \in 1..n, NEW f \in 1..n, entries'[e].of = entries'[f].of
       PROVE  entries'[e].dictionary = entries'[f].dictionary
  <2>1. CASE e = n /\ f \in 1..Len(entries)
    BY <1>2, <1>4, <1>8, <1>10, <2>1
  <2>2. CASE f = n /\ e \in 1..Len(entries)
    BY <1>2, <1>4, <1>8, <1>10, <2>2
  <2>3. CASE e \in 1..Len(entries) /\ f \in 1..Len(entries)
    BY <1>4, <1>10, <2>3 DEF LineInv
  <2> QED
    BY <1>6, <2>1, <2>2, <2>3
<1>11. EntriesStay
  BY <1>1, <1>4 DEF EntriesStay
<1> QED
  BY <1>4, <1>9, <1>10, <1>11 DEF LineInv

(* No step but a registration or a swap touches the lines.                 *)
LEMMA LineStays ==
    ASSUME Inv, LineInv,
           \/ UNCHANGED entries
           \/ \E e \in 1..Len(entries), kept \in Nat :
                 entries' = [entries EXCEPT ![e].reverse = kept]
    PROVE  LineInv' /\ EntriesStay
<1>1. entries \in Seq(EntryRecord) /\ Len(entries) \in Nat
  BY DEF Inv, TypeInv
<1>2. CASE UNCHANGED entries
  BY <1>1, <1>2 DEF LineInv, EntriesStay
<1>3. ASSUME NEW e \in 1..Len(entries), NEW kept \in Nat,
             entries' = [entries EXCEPT ![e].reverse = kept]
      PROVE  LineInv' /\ EntriesStay
  <2>1. Len(entries') = Len(entries)
    BY <1>1, <1>3
  <2>2. ASSUME NEW f \in 1..Len(entries)
        PROVE  entries'[f].of = entries[f].of /\ entries'[f].dictionary = entries[f].dictionary
    <3>1. entries[f] \in EntryRecord
      BY <1>1
    <3>2. entries'[f] = IF f = e THEN [entries[f] EXCEPT !.reverse = kept] ELSE entries[f]
      BY <1>1, <1>3
    <3> QED
      BY <3>1, <3>2 DEF EntryRecord
  <2> QED
    BY <1>1, <2>1, <2>2 DEF LineInv, EntriesStay
<1> QED
  BY <1>2, <1>3

(* A write changes a graph and what queries watch of it.                   *)
LEMMA WritesAreWatched ==
    ASSUME NEW w \in Writers, Write(w)
    PROVE  /\ UNCHANGED <<entries, catalog, compaction>>
           /\ \E f, g, ops : query' = Watched(f, g, ops)
<1>1. ASSUME NEW k, NEW h, NEW next, Written(w, k, h, next)
      PROVE  /\ UNCHANGED <<entries, catalog, compaction>>
             /\ \E f, g, ops : query' = Watched(f, g, ops)
  BY <1>1 DEF Written
<1>2. \E k, h, next : Written(w, k, h, next)
  BY Zenon DEF Write, InsertRemoveTombstone, DeleteRemoveInsertion, ClearInsertions, InsertStore,
     DeleteAddTombstone, ClearTombstones, Begin, Finish
<1> QED
  BY <1>1, <1>2

(* A query that watches keeps its key and its start node.                  *)
LEMMA WatchedKeepsKeys ==
    ASSUME Inv, NEW f, NEW g, NEW ops, query' = Watched(f, g, ops), NEW q \in Queriers
    PROVE  /\ query'[q].keyed = query[q].keyed /\ query'[q].start = query[q].start
           /\ query'[q].call = query[q].call /\ query'[q].at = query[q].at
           /\ query'[q].got = query[q].got /\ query'[q].named = query[q].named
<1> DEFINE m == [shown |-> query[q].watched.shown \cup Shown(g),
                 held |-> query[q].watched.held \cap Held(g),
                 busy |-> query[q].watched.busy \cup Busy(ops, f)]
<1>1. query[q] \in QueryRecord
  BY DEF Inv, TypeInv
<1>2. query'[q] = query[q] \/ query'[q] = [query[q] EXCEPT !.watched = m]
  BY DEF Watched
<1> HIDE DEF m
<1> QED
  BY <1>1, <1>2 DEF QueryRecord

(* Every step leaves the lines as they are or lets one of them grow.       *)
LEMMA LineKeeps ==
    ASSUME Inv, LineInv, [Next]_vars
    PROVE  LineInv' /\ EntriesStay
<1>1. /\ Len(graphs) \in Nat /\ Len(entries) \in Nat /\ entries \in Seq(EntryRecord)
      /\ None \in Nat /\ NewGraph \in Nat /\ NewEntry \in Nat
  BY DEF Inv, TypeInv, None, NewGraph, NewEntry
<1>2. CASE Catalog
  <2>1. NoDictionary \in Dictionaries
    BY DEF Dictionaries
  <2>2. CASE \/ \E edges \in Bases : Register(edges)
             \/ \E edges \in PairedBases : RegisterWithReverse(edges)
    <3>1. NewGraph + 1 \in Nat
      BY <1>1
    <3> QED
      BY <1>1, <2>1, <2>2, <3>1, LineGrows DEF Register, RegisterWithReverse
  <2>3. ASSUME NEW rows \in Tables, RegisterWithDictionary(rows)
        PROVE  LineInv' /\ EntriesStay
    <3>1. Projected(rows).dictionary \in Dictionaries
      BY DEF Dictionaries
    <3> QED
      BY <1>1, <2>3, <3>1, LineGrows DEF RegisterWithDictionary
  <2>4. CASE CompactSwap
    <3> DEFINE e == compaction.entry
    <3>1. e \in 1..Len(entries)
      BY <2>4 DEF CompactSwap, Inv, DrainInv
    <3>2. entries[e] \in EntryRecord
      BY <1>1, <3>1
    <3>3. entries[e].dictionary \in Dictionaries /\ entries[e].of \in Nat
      BY <3>2 DEF EntryRecord
    <3>4. Insert(Entry(NewGraph, None, entries[e].dictionary, entries[e].of))
      BY <2>4 DEF CompactSwap
    <3> QED
      BY <1>1, <3>1, <3>3, <3>4, LineGrows
  <2>5. CASE Deregister \/ CompactDrain
    BY <2>5, LineStays DEF Deregister, CompactDrain
  <2> QED
    BY <1>2, <2>2, <2>3, <2>4, <2>5 DEF Catalog
<1>3. ASSUME NEW w \in Writers, Write(w) PROVE LineInv' /\ EntriesStay
  <2>1. UNCHANGED entries
    BY <1>3, WritesAreWatched
  <2> QED
    BY <2>1, LineStays
<1>4. ASSUME NEW q \in Queriers, SetReverse(q) PROVE LineInv' /\ EntriesStay
  <2> DEFINE e == query[q].looked
             kept == IF entries[e].reverse = None THEN query[q].reverse ELSE entries[e].reverse
  <2>1. e \in 1..Len(entries) /\ query[q].reverse \in Nat
    <3>1. query[q].at = "set" /\ query[q] \in QueryRecord /\ QueryInv(q)
      BY <1>4 DEF SetReverse, Step, Inv, TypeInv
    <3> QED
      BY <3>1 DEF QueryInv, Building, QueryRecord
  <2>2. entries[e] \in EntryRecord
    BY <1>1, <2>1
  <2>3. kept \in Nat
    BY <2>1, <2>2 DEF EntryRecord
  <2>4. entries' = [entries EXCEPT ![e].reverse = kept]
    BY <1>4 DEF SetReverse
  <2> QED
    BY <2>1, <2>3, <2>4, LineStays
<1>5. ASSUME NEW q \in Queriers,
             \/ ResolveKey(q) \/ GetGraph(q) \/ LookupReverse(q) \/ SnapshotTombstones(q)
             \/ BuildTranspose(q) \/ GraphNodes(q) \/ Execute(q) \/ ProbeInsertions(q)
             \/ ProbeTombstones(q) \/ SearchPlain(q)
      PROVE  LineInv' /\ EntriesStay
  BY <1>5, LineStays DEF ResolveKey, GetGraph, LookupReverse, SnapshotTombstones,
     BuildTranspose, GraphNodes, Execute, ProbeInsertions, ProbeTombstones, SearchPlain
<1>6. CASE UNCHANGED vars
  BY <1>6, LineStays DEF vars
<1> QED
  BY <1>2, <1>3, <1>4, <1>5, <1>6 DEF Next, Query

(* What a query has resolved stays resolved while the entries stay.        *)
LEMMA ResolvedStays ==
    ASSUME Inv, EntriesStay, NEW q \in Queriers, Resolved(q),
           /\ query'[q].keyed = query[q].keyed
           /\ query'[q].start = query[q].start
           /\ query'[q].call = query[q].call
    PROVE  Resolved(q)'
<1>1. Len(entries) \in Nat /\ entries \in Seq(EntryRecord)
  BY DEF Inv, TypeInv
<1>2. query[q].keyed # None =>
         /\ query[q].keyed \in 1..Len(entries)
         /\ query[q].keyed <= Len(entries')
         /\ entries'[query[q].keyed].dictionary = entries[query[q].keyed].dictionary
  BY <1>1 DEF Resolved, EntriesStay
<1>3. Len(entries') >= Len(entries)
  BY DEF EntriesStay
<1>4. query[q].keyed # None => query[q].keyed \in 1..Len(entries')
  <2>1. CASE UNCHANGED entries
    BY <1>2, <2>1
  <2>2. ASSUME Len(entries') \in Nat
        PROVE  query[q].keyed # None => query[q].keyed \in 1..Len(entries')
    BY <1>1, <1>2, <2>2
  <2> QED
    BY <2>1, <2>2
<1> QED
  BY <1>2, <1>4 DEF Resolved

(* The key of a resolved start node is the key that the query asked for.   *)
LEMMA ResolveKeyResolves ==
    ASSUME Inv, NEW q \in Queriers, ResolveKey(q), Resolved(q)
    PROVE  Resolved(q)'
<1> DEFINE key == query[q].call.key
           dictionary == entries[catalog].dictionary
           found == [query[q] EXCEPT !.at = "get", !.start = IdOf(dictionary, key),
                                     !.keyed = catalog]
           refused == [query[q] EXCEPT !.at = "refused"]
<1>1. query[q] \in QueryRecord /\ catalog \in Nat
  BY CatalogTypes DEF Inv, TypeInv
<1>2. query \in [Queriers -> QueryRecord]
  BY DEF Inv, TypeInv
<1>3. UNCHANGED entries
  BY DEF ResolveKey
<1>4. CASE catalog # None /\ Knows(dictionary, key) /\ query' = [query EXCEPT ![q] = found]
  <2>1. query'[q] = found
    BY <1>2, <1>4
  <2>2. found.keyed = catalog /\ found.start = IdOf(dictionary, key) /\ found.call.key = key
    BY <1>1 DEF QueryRecord
  <2>3. catalog \in 1..Len(entries)
    BY <1>4, CatalogTypes
  <2>4. KeyOf(dictionary, IdOf(dictionary, key)) = key
    BY <1>4 DEF Knows, IdOf
  <2> HIDE DEF found
  <2> QED
    BY <1>3, <2>1, <2>2, <2>3, <2>4 DEF Resolved
<1>5. CASE query' = [query EXCEPT ![q] = refused]
  <2>1. query'[q] = refused
    BY <1>2, <1>5
  <2>2. refused.keyed = query[q].keyed /\ refused.start = query[q].start
        /\ refused.call = query[q].call
    BY <1>1 DEF QueryRecord
  <2> HIDE DEF refused
  <2> QED
    BY <1>3, <2>1, <2>2 DEF Resolved
<1> QED
  BY <1>4, <1>5 DEF ResolveKey, Step

(* Every step of a query but the first keeps its key and its start node.   *)
LEMMA StepsKeepTheKey ==
    ASSUME Inv, NEW q \in Queriers,
           \/ GetGraph(q) \/ LookupReverse(q) \/ SnapshotTombstones(q) \/ BuildTranspose(q)
           \/ SetReverse(q) \/ GraphNodes(q) \/ Execute(q) \/ ProbeInsertions(q)
           \/ ProbeTombstones(q) \/ SearchPlain(q)
    PROVE  /\ query'[q].keyed = query[q].keyed
           /\ query'[q].start = query[q].start
           /\ query'[q].call = query[q].call
<1>1. query[q] \in QueryRecord /\ query \in [Queriers -> QueryRecord]
  BY DEF Inv, TypeInv
<1>2. CASE GetGraph(q)
  BY <1>1, <1>2 DEF GetGraph, Step, QueryRecord
<1>3. CASE LookupReverse(q)
  BY <1>1, <1>3 DEF LookupReverse, Step, QueryRecord
<1>4. CASE SnapshotTombstones(q)
  BY <1>1, <1>4 DEF SnapshotTombstones, Step, QueryRecord
<1>5. CASE BuildTranspose(q)
  BY <1>1, <1>5 DEF BuildTranspose, Step, QueryRecord
<1>6. CASE SetReverse(q)
  BY <1>1, <1>6 DEF SetReverse, Step, QueryRecord
<1>7. CASE GraphNodes(q)
  BY <1>1, <1>7 DEF GraphNodes, Step, QueryRecord
<1>8. CASE Execute(q)
  BY <1>1, <1>8 DEF Execute, Step, QueryRecord
<1>9. CASE ProbeInsertions(q)
  BY <1>1, <1>9 DEF ProbeInsertions, Step, QueryRecord
<1>10. CASE ProbeTombstones(q)
  BY <1>1, <1>10 DEF ProbeTombstones, Optimized, Step, QueryRecord
<1>11. CASE SearchPlain(q)
  BY <1>1, <1>11 DEF SearchPlain, Step, QueryRecord
<1> QED
  BY <1>2, <1>3, <1>4, <1>5, <1>6, <1>7, <1>8, <1>9, <1>10, <1>11

(* Whatever a start node was resolved to, it stays that key.               *)
LEMMA KeysHold == Spec => []KeyInv
<1>1. Init => KeyInv
  <2> SUFFICES ASSUME Init PROVE KeyInv
    OBVIOUS
  <2>1. \A q \in Queriers : query[q].keyed = None
    BY DEF Init, NewQuery
  <2>2. Len(entries) = 0
    BY DEF Init
  <2> QED
    BY <2>1, <2>2 DEF KeyInv, LineInv, Resolved
<1>2. Inv /\ KeyInv /\ [Next]_vars => KeyInv'
  <2> SUFFICES ASSUME Inv, LineInv, \A q \in Queriers : Resolved(q), [Next]_vars
               PROVE  LineInv' /\ \A q \in Queriers : Resolved(q)'
    BY DEF KeyInv
  <2>1. LineInv' /\ EntriesStay
    BY LineKeeps
  <2>2. ASSUME NEW q \in Queriers PROVE Resolved(q)'
    <3>1. CASE query'[q] = query[q]
      BY <2>1, <3>1, ResolvedStays
    <3>2. CASE ResolveKey(q)
      BY <3>2, ResolveKeyResolves
    <3>3. CASE \/ GetGraph(q) \/ LookupReverse(q) \/ SnapshotTombstones(q) \/ BuildTranspose(q)
               \/ SetReverse(q) \/ GraphNodes(q) \/ Execute(q) \/ ProbeInsertions(q)
               \/ ProbeTombstones(q) \/ SearchPlain(q)
      BY <2>1, <3>3, StepsKeepTheKey, ResolvedStays
    <3>4. CASE Catalog \/ (\E w \in Writers : Write(w)) \/ UNCHANGED vars
      <4>1. UNCHANGED query \/ \E f, g, ops : query' = Watched(f, g, ops)
        <5>1. CASE Catalog \/ UNCHANGED vars
          BY <5>1 DEF Catalog, vars, Register, RegisterWithReverse, RegisterWithDictionary,
             Deregister, CompactDrain, CompactSwap
        <5>2. CASE \E w \in Writers : Write(w)
          BY <5>2, WritesAreWatched
        <5> QED
          BY <3>4, <5>1, <5>2
      <4>2. ASSUME NEW f, NEW g, NEW ops, query' = Watched(f, g, ops) PROVE Resolved(q)'
        BY <2>1, <4>2, WatchedKeepsKeys, ResolvedStays
      <4> QED
        BY <3>1, <4>1, <4>2
    <3>5. ASSUME NEW p \in Queriers, p # q, Query(p) PROVE query'[q] = query[q]
      <4>1. \E from, r : Step(p, from, r)
        BY <3>5, Zenon DEF Query, ResolveKey, GetGraph, LookupReverse, SnapshotTombstones,
           BuildTranspose, SetReverse, GraphNodes, Execute, ProbeInsertions, ProbeTombstones,
           SearchPlain
      <4>2. query \in [Queriers -> QueryRecord]
        BY DEF Inv, TypeInv
      <4> QED
        BY <3>5, <4>1, <4>2 DEF Step
    <3>6. CASE \E p \in Queriers : Query(p)
      BY <3>1, <3>2, <3>3, <3>5, <3>6 DEF Query
    <3> QED
      BY <3>4, <3>6 DEF Next
  <2> QED
    BY <2>1, <2>2
<1> QED
  BY <1>1, <1>2, InvHolds, PTL DEF Spec

(* The dictionary of an entry is the one its graph was encoded with, and a *)
(* string start node is its key in the graph that is searched, through     *)
(* every compaction and swap between the lookups of the dictionary and of  *)
(* the graph (udtf.rs:237-242, 312-320).                                   *)
THEOREM StartsAlwaysKeepTheirKeys == Spec => []StartsKeepTheirKeys
<1>1. Inv /\ KeyInv => StartsKeepTheirKeys
  <2> SUFFICES ASSUME Inv, LineInv, \A q \in Queriers : Resolved(q) PROVE StartsKeepTheirKeys
    BY DEF KeyInv
  <2>1. entries \in Seq(EntryRecord) /\ DOMAIN entries = 1..Len(entries)
    BY DEF Inv, TypeInv
  <2>2. \A e \in 1..Len(entries) : entries[e].dictionary = graphs[entries[e].forward].keys
    BY DEF Inv, EntryInv
  <2>3. ASSUME NEW q \in Queriers, Planned(q), query[q].keyed # None,
               entries[query[q].keyed].of = entries[query[q].got].of
        PROVE  KeyOf(graphs[entries[query[q].got].forward].keys, query[q].start)
                  = query[q].call.key
    <3>1. query[q].got \in 1..Len(entries)
      BY <2>3 DEF Inv, QueryInv, Planned, Executing, Probing
    <3>2. /\ query[q].keyed \in 1..Len(entries)
          /\ KeyOf(entries[query[q].keyed].dictionary, query[q].start) = query[q].call.key
      BY <2>3 DEF Resolved
    <3>3. entries[query[q].keyed].dictionary = entries[query[q].got].dictionary
      BY <2>3, <3>1, <3>2 DEF LineInv
    <3> QED
      BY <2>2, <3>1, <3>2, <3>3
  <2> QED
    BY <2>1, <2>2, <2>3 DEF StartsKeepTheirKeys
<1> QED
  BY <1>1, KeysHold, InvHolds, PTL

-----------------------------------------------------------------------------
(***************************************************************************)
(* The graphs of a step.                                                   *)
(***************************************************************************)
\* A graph whose delta was changed, and one that was built.
Kept(new, g) ==
    /\ new.base = g.base /\ new.keys = g.keys /\ new.rows = g.rows
    /\ new.ins \subseteq g.ins \cup Pairs

Loaded(g) ==
    /\ g.rows \in Tables /\ g.ins = {}
    /\ g.keys = Projected(g.rows).dictionary
    /\ g.base = ToSet(Projected(g.rows).edges)

Compacted(new, old) ==
    /\ compaction # Idle
    /\ new.rows = <<>> /\ new.base = compaction.merged
    /\ new.keys = old.keys /\ new.ins \subseteq old.ins

Fresh(new) ==
    \/ new.rows = <<>> /\ new.keys = NoDictionary
    \/ Loaded(new)
    \/ Compacted(new, graphs[entries[compaction.entry].forward])

GraphsGrow ==
    \A i \in 1..Len(graphs') :
        \/ i \in 1..Len(graphs) /\ Kept(graphs'[i], graphs[i])
        \/ Fresh(graphs'[i])

(* Graphs that are added are fresh.                                        *)
LEMMA AddedAreFresh ==
    ASSUME Inv, NEW new, Fresh(new), graphs' = Append(graphs, new)
    PROVE  GraphsGrow
<1>1. graphs \in Seq(Graph) /\ Len(graphs) \in Nat
  BY DEF Inv, TypeInv
<1>2. /\ Len(graphs') = Len(graphs) + 1
      /\ graphs'[Len(graphs) + 1] = new
      /\ \A i \in 1..Len(graphs) : graphs'[i] = graphs[i]
  BY <1>1
<1>3. \A i \in 1..(Len(graphs) + 1) : i \in 1..Len(graphs) \/ i = Len(graphs) + 1
  BY <1>1
<1>4. \A g : Kept(g, g)
  BY DEF Kept
<1> QED
  BY <1>2, <1>3, <1>4 DEF GraphsGrow

(* A changed delta leaves the rest of the graph.                           *)
LEMMA ChangedAreKept ==
    ASSUME Inv, NEW k \in 1..Len(graphs), NEW new, Kept(new, graphs[k]),
           graphs' = [graphs EXCEPT ![k] = new]
    PROVE  GraphsGrow
<1>1. graphs \in Seq(Graph) /\ Len(graphs) \in Nat
  BY DEF Inv, TypeInv
<1>2. Len(graphs') = Len(graphs) /\ \A i \in 1..Len(graphs) : graphs'[i] = IF i = k THEN new ELSE graphs[i]
  BY <1>1
<1>3. \A g : Kept(g, g)
  BY DEF Kept
<1> QED
  BY <1>2, <1>3 DEF GraphsGrow

(* A drained graph.                                                        *)
LEMMA DrainedIsKept ==
    ASSUME Inv, NEW k \in 1..Len(graphs)
    PROVE  Kept(Drained(k), graphs[k])
<1> DEFINE g == graphs[k]
           empty == [g EXCEPT !.ins = {}, !.dels = {}]
<1>1. g \in Graph
  BY Parts
<1>2. Drained(k) = Swept(empty)
  BY DEF Drained
<1> HIDE DEF g
<1>3. /\ empty.base = g.base /\ empty.keys = g.keys /\ empty.rows = g.rows /\ empty.ins = {}
      /\ empty \in Graph
  BY <1>1, SmallSets DEF Graph
<1> HIDE DEF empty
<1>4. /\ Swept(empty).base = g.base /\ Swept(empty).keys = g.keys
      /\ Swept(empty).rows = g.rows /\ Swept(empty).ins = {}
  BY <1>3, SweptIsGraph
<1> QED
  BY <1>2, <1>4 DEF Kept, g

(* A graph whose delta a writer changes.                                   *)
LEMMA WritesAreKept ==
    ASSUME Inv, NEW w \in Writers, Write(w)
    PROVE  GraphsGrow
<1>1. /\ \A e \in DOMAIN entries : entries[e].forward \in 1..Len(graphs)
      /\ op[w].kind # "none" => op[w].graph \in 1..Len(graphs)
      /\ op[w].kind \notin {"none", "clear"} => op[w].pair \in Pairs
  <2>1. \A e \in DOMAIN entries : e \in 1..Len(entries)
    BY DEF Inv, TypeInv
  <2> QED
    BY <2>1 DEF Inv, EntryInv, OpInv
<1>2. ASSUME NEW k \in 1..Len(graphs), NEW h, Kept(h, graphs[k]), graphs' = [graphs EXCEPT ![k] = h]
      PROVE  GraphsGrow
  BY <1>2, ChangedAreKept
<1>3. ASSUME NEW k \in 1..Len(graphs), NEW ins, ins \subseteq graphs[k].ins \cup Pairs, NEW dels
      PROVE  /\ Kept([graphs[k] EXCEPT !.ins = ins], graphs[k])
             /\ Kept([graphs[k] EXCEPT !.dels = dels], graphs[k])
  <2> DEFINE g == graphs[k]
  <2>1. g \in Graph
    BY Parts
  <2>2. ins \subseteq g.ins \cup Pairs
    BY <1>3
  <2> HIDE DEF g
  <2>3. /\ [g EXCEPT !.ins = ins].base = g.base /\ [g EXCEPT !.ins = ins].keys = g.keys
        /\ [g EXCEPT !.ins = ins].rows = g.rows /\ [g EXCEPT !.ins = ins].ins = ins
        /\ [g EXCEPT !.dels = dels].base = g.base /\ [g EXCEPT !.dels = dels].keys = g.keys
        /\ [g EXCEPT !.dels = dels].rows = g.rows /\ [g EXCEPT !.dels = dels].ins = g.ins
    BY <2>1 DEF Graph
  <2>4. Kept([g EXCEPT !.ins = ins], g) /\ Kept([g EXCEPT !.dels = dels], g)
    BY <2>2, <2>3 DEF Kept
  <2> QED
    BY <2>4 DEF g
<1>4. ASSUME NEW h \in Graph, NEW k, Kept(h, graphs[k]) PROVE Kept(Swept(h), graphs[k])
  BY <1>4, SweptIsGraph DEF Kept
<1>5. ASSUME NEW e \in DOMAIN entries, NEW p \in Pairs,
             InsertRemoveTombstone(w, entries[e].forward, p)
      PROVE  GraphsGrow
  <2> DEFINE k == entries[e].forward
             h == [graphs[k] EXCEPT !.dels = graphs[k].dels \ {p}]
  <2>1. k \in 1..Len(graphs) /\ graphs' = [graphs EXCEPT ![k] = h]
    BY <1>1, <1>5 DEF InsertRemoveTombstone, Begin, Written
  <2>2. Kept(h, graphs[k])
    BY <1>3, <2>1
  <2> HIDE DEF h, k
  <2> QED
    BY <1>2, <2>1, <2>2
<1>6. ASSUME NEW e \in DOMAIN entries, NEW p \in Pairs,
             DeleteRemoveInsertion(w, entries[e].forward, p)
      PROVE  GraphsGrow
  <2> DEFINE k == entries[e].forward
             ins == graphs[k].ins \ {p}
             h == [graphs[k] EXCEPT !.ins = ins]
  <2>1. k \in 1..Len(graphs) /\ graphs' = [graphs EXCEPT ![k] = h]
    BY <1>1, <1>6 DEF DeleteRemoveInsertion, Begin, Written
  <2>2. ins \subseteq graphs[k].ins \cup Pairs
    OBVIOUS
  <2> HIDE DEF ins, k
  <2>3. Kept(h, graphs[k])
    BY <1>3, <2>1, <2>2
  <2> HIDE DEF h
  <2> QED
    BY <1>2, <2>1, <2>3
<1>7. ASSUME NEW e \in DOMAIN entries, ClearInsertions(w, entries[e].forward)
      PROVE  GraphsGrow
  <2> DEFINE k == entries[e].forward
             h == [graphs[k] EXCEPT !.ins = {}]
  <2>1. k \in 1..Len(graphs) /\ graphs' = [graphs EXCEPT ![k] = Swept(h)]
    BY <1>1, <1>7 DEF ClearInsertions, Begin, Written
  <2>2. Kept(h, graphs[k])
    BY <1>3, <2>1
  <2>3. h \in Graph
    <3> DEFINE g == graphs[k]
    <3>1. g \in Graph /\ {} \in EdgeSets
      BY <2>1, Parts, SmallSets
    <3> HIDE DEF g
    <3>2. [g EXCEPT !.ins = {}] \in Graph
      BY <3>1 DEF Graph
    <3> QED
      BY <3>2 DEF g
  <2> HIDE DEF h, k
  <2>4. Kept(Swept(h), graphs[k])
    BY <1>4, <2>2, <2>3
  <2> QED
    BY <1>2, <2>1, <2>4
<1>8. CASE InsertStore(w)
  <2> DEFINE k == op[w].graph
             ins == graphs[k].ins \cup {op[w].pair}
             h == [graphs[k] EXCEPT !.ins = ins]
  <2>1. k \in 1..Len(graphs) /\ graphs' = [graphs EXCEPT ![k] = h] /\ op[w].pair \in Pairs
    BY <1>1, <1>8 DEF InsertStore, Finish, Written
  <2>2. ins \subseteq graphs[k].ins \cup Pairs
    BY <2>1
  <2> HIDE DEF ins, k
  <2>3. Kept(h, graphs[k])
    BY <1>3, <2>1, <2>2
  <2> HIDE DEF h
  <2> QED
    BY <1>2, <2>1, <2>3
<1>9. CASE DeleteAddTombstone(w)
  <2> DEFINE k == op[w].graph
             h == [graphs[k] EXCEPT !.dels = graphs[k].dels \cup {op[w].pair}]
  <2>1. k \in 1..Len(graphs) /\ graphs' = [graphs EXCEPT ![k] = h]
    BY <1>1, <1>9 DEF DeleteAddTombstone, Finish, Written
  <2>2. Kept(h, graphs[k])
    BY <1>3, <2>1
  <2> HIDE DEF h, k
  <2> QED
    BY <1>2, <2>1, <2>2
<1>10. CASE ClearTombstones(w)
  <2> DEFINE k == op[w].graph
             h == [graphs[k] EXCEPT !.dels = {}]
  <2>1. k \in 1..Len(graphs) /\ graphs' = [graphs EXCEPT ![k] = Swept(h)]
    BY <1>1, <1>10 DEF ClearTombstones, Finish, Written
  <2>2. Kept(h, graphs[k])
    BY <1>3, <2>1
  <2>3. h \in Graph
    BY <2>1, Parts DEF Graph
  <2> HIDE DEF h, k
  <2>4. Kept(Swept(h), graphs[k])
    BY <1>4, <2>2, <2>3
  <2> QED
    BY <1>2, <2>1, <2>4
<1> QED
  BY <1>5, <1>6, <1>7, <1>8, <1>9, <1>10 DEF Write

(* Every step keeps the graphs and adds fresh ones.                        *)
LEMMA GraphsAlwaysGrow ==
    ASSUME Inv, [Next]_vars
    PROVE  GraphsGrow
<1>1. graphs \in Seq(Graph) /\ Len(graphs) \in Nat
  BY DEF Inv, TypeInv
<1>2. \A i \in 1..Len(graphs) : graphs[i] \in Graph
  BY <1>1
<1>3. CASE UNCHANGED graphs
  BY <1>3 DEF GraphsGrow, Kept
<1>4. ASSUME NEW edges \in Bases, Register(edges) PROVE GraphsGrow
  <2>1. Fresh(Built(edges, NoDictionary, <<>>, NoSource))
    BY DEF Fresh, Built
  <2> QED
    BY <1>4, <2>1, AddedAreFresh DEF Register
<1>5. ASSUME NEW edges \in PairedBases, RegisterWithReverse(edges) PROVE GraphsGrow
  <2> DEFINE a == Built(edges, NoDictionary, <<>>, NoSource)
             b == Built(Flip(edges), NoDictionary, <<>>, Source(NewGraph, 0, edges, edges))
             n == Len(graphs)
  <2>1. Fresh(a) /\ Fresh(b)
    BY DEF Fresh, Built
  <2>2. graphs' = graphs \o <<a, b>>
    BY <1>5 DEF RegisterWithReverse
  <2> HIDE DEF a, b
  <2>3. /\ Len(graphs') = n + 2
        /\ graphs'[n + 1] = a /\ graphs'[n + 2] = b
        /\ \A i \in 1..n : graphs'[i] = graphs[i]
    BY <1>1, <2>2
  <2>4. \A i \in 1..(n + 2) : i \in 1..n \/ i = n + 1 \/ i = n + 2
    BY <1>1
  <2>5. \A g : Kept(g, g)
    BY DEF Kept
  <2> HIDE DEF n
  <2> QED
    BY <2>1, <2>3, <2>4, <2>5 DEF GraphsGrow, n
<1>6. ASSUME NEW rows \in Tables, RegisterWithDictionary(rows) PROVE GraphsGrow
  <2> DEFINE new == Built(ToSet(Projected(rows).edges), Projected(rows).dictionary, rows,
                          NoSource)
  <2>1. Fresh(new)
    BY DEF Fresh, Loaded, Built
  <2>2. graphs' = Append(graphs, new)
    BY <1>6 DEF RegisterWithDictionary
  <2> HIDE DEF new
  <2> QED
    BY <2>1, <2>2, AddedAreFresh
<1>7. ASSUME NEW w \in Writers, Write(w) PROVE GraphsGrow
  BY <1>7, WritesAreKept
<1>8. CASE CompactDrain
  <2> DEFINE k == entries[catalog].forward
  <2>1. k \in 1..Len(graphs)
    <3>1. catalog \in 1..Len(entries)
      BY <1>8, CatalogTypes DEF CompactDrain
    <3> QED
      BY <3>1 DEF Inv, EntryInv
  <2>2. graphs' = [graphs EXCEPT ![k] = Drained(k)]
    BY <1>8 DEF CompactDrain
  <2> HIDE DEF k
  <2> QED
    BY <2>1, <2>2, DrainedIsKept, ChangedAreKept
<1>9. CASE CompactSwap
  <2> DEFINE k == entries[compaction.entry].forward
             old == graphs[k]
             left == Drained(k)
             new == Replayed(old, compaction.merged)
             n == Len(graphs)
  <2>1. k \in 1..n
    BY <1>9 DEF CompactSwap, Inv, DrainInv, EntryInv
  <2>2. old \in Graph
    BY <1>2, <2>1
  <2>3. Kept(left, old)
    BY <2>1, DrainedIsKept
  <2>4. Compacted(new, old)
    BY <1>9 DEF CompactSwap, Compacted, Replayed, Built
  <2>5. Fresh(new)
    BY <2>4 DEF Fresh
  <2>6. graphs' = Append([graphs EXCEPT ![k] = left], new)
    BY <1>9 DEF CompactSwap
  <2> HIDE DEF left, new, k
  <2>7. /\ Len(graphs') = n + 1 /\ graphs'[n + 1] = new
        /\ \A i \in 1..n : graphs'[i] = IF i = k THEN left ELSE graphs[i]
    BY <1>1, <2>1, <2>6
  <2>8. \A i \in 1..(n + 1) : i \in 1..n \/ i = n + 1
    BY <1>1
  <2>9. \A g : Kept(g, g)
    BY DEF Kept
  <2> HIDE DEF n
  <2> QED
    BY <2>3, <2>5, <2>7, <2>8, <2>9 DEF GraphsGrow, n
<1>10. ASSUME NEW q \in Queriers, BuildTranspose(q) PROVE GraphsGrow
  <2> DEFINE f == entries[query[q].looked].forward
             merged == MergedEdges(graphs[f].base, query[q].dels, graphs[f].ins)
             new == Built(Flip(merged), NoDictionary, <<>>,
                          Source(f, query[q].sweeps, query[q].watched.shown, query[q].watched.held))
  <2>1. Fresh(new)
    BY DEF Fresh, Built
  <2>2. graphs' = Append(graphs, new)
    BY <1>10 DEF BuildTranspose
  <2> HIDE DEF new
  <2> QED
    BY <2>1, <2>2, AddedAreFresh
<1>11. ASSUME NEW q \in Queriers,
              \/ ResolveKey(q) \/ GetGraph(q) \/ LookupReverse(q) \/ SnapshotTombstones(q)
              \/ SetReverse(q) \/ GraphNodes(q) \/ Execute(q) \/ ProbeInsertions(q)
              \/ ProbeTombstones(q) \/ SearchPlain(q)
       PROVE  UNCHANGED graphs
  BY <1>11 DEF ResolveKey, GetGraph, LookupReverse, SnapshotTombstones, SetReverse, GraphNodes,
     Execute, ProbeInsertions, ProbeTombstones, SearchPlain
<1>12. CASE Deregister \/ UNCHANGED vars
  BY <1>3, <1>12 DEF Deregister, vars
<1> QED
  BY <1>3, <1>4, <1>5, <1>6, <1>7, <1>8, <1>9, <1>10, <1>11, <1>12
     DEF Next, Catalog, Query

(***************************************************************************)
(* The tables.                                                             *)
(***************************************************************************)
Origin(g) == g.rows # <<>> =>
    /\ g.rows \in Tables
    /\ g.keys = Projected(g.rows).dictionary
    /\ g.base = ToSet(Projected(g.rows).edges)

TablesInv == \A i \in 1..Len(graphs) : Origin(graphs[i])

(* A graph with a table is what the table was encoded to, whatever happens *)
(* to its delta.                                                           *)
LEMMA TablesStay == Spec => []TablesInv
<1>1. Init => TablesInv
  BY DEF Init, TablesInv
<1>2. Inv /\ TablesInv /\ [Next]_vars => TablesInv'
  <2> SUFFICES ASSUME Inv, TablesInv, [Next]_vars, NEW i \in 1..Len(graphs')
               PROVE  Origin(graphs'[i])
    BY DEF TablesInv
  <2>1. GraphsGrow
    BY GraphsAlwaysGrow
  <2>2. CASE i \in 1..Len(graphs) /\ Kept(graphs'[i], graphs[i])
    BY <2>2 DEF TablesInv, Kept, Origin
  <2>3. CASE Fresh(graphs'[i])
    BY <2>3 DEF Fresh, Loaded, Compacted, Origin
  <2> QED
    BY <2>1, <2>2, <2>3 DEF GraphsGrow
<1> QED
  BY <1>1, <1>2, InvHolds, PTL DEF Spec

(* A graph that was loaded from a string-keyed table decodes to the rows   *)
(* of the table that have no null end, and to nothing else, and no two ids *)
(* have one key (dictionary.rs:17, 35-45; loader.rs:322-336).              *)
THEOREM LoadedGraphsAreTheirTables == Spec => []LoadedIsTheTable
<1>1. Inv /\ TablesInv => LoadedIsTheTable
  <2> SUFFICES ASSUME Inv, TablesInv, NEW e \in DOMAIN entries,
                      NEW g, g = graphs[entries[e].forward], g.rows # <<>>
               PROVE  /\ {<<KeyOf(g.keys, p[1]), KeyOf(g.keys, p[2])>> : p \in g.base}
                           = {<<r.from, r.to>> : r \in {x \in ToSet(g.rows) : Null \notin {x.from, x.to}}}
                      /\ IsInjective(g.keys)
    BY DEF LoadedIsTheTable
  <2>1. entries[e].forward \in 1..Len(graphs)
    <3>1. e \in 1..Len(entries)
      BY DEF Inv, TypeInv
    <3> QED
      BY <3>1 DEF Inv, EntryInv
  <2>2. Origin(g)
    BY <2>1 DEF TablesInv
  <2>3. /\ g.rows \in Tables /\ g.keys = Projected(g.rows).dictionary
        /\ g.base = ToSet(Projected(g.rows).edges)
    BY <2>2 DEF Origin
  <2>4. /\ IsInjective(Projected(g.rows).dictionary)
        /\ Decoded(Projected(g.rows)) = {RowKeys(r) : r \in {x \in ToSet(g.rows) : Whole(x)}}
    BY <2>3, TablesDecode DEF Encoded
  <2> QED
    BY <2>3, <2>4 DEF Decoded, KeysOf, RowKeys, Whole
<1> QED
  BY <1>1, InvHolds, TablesStay, PTL

-----------------------------------------------------------------------------
(***************************************************************************)
(* The names of the nodes.  A graph that has a dictionary has edges over   *)
(* its ids only, provided that the writers insert no others: insert_edge   *)
(* takes any two nodes.                                                    *)
(***************************************************************************)
WritersKeepToTheIds == \A rows \in Tables : Pairs \subseteq Between(Projected(rows).dictionary)

Fitting(edges, dictionary) == dictionary # NoDictionary => edges \subseteq Between(dictionary)

IdsInv ==
    /\ \A i \in 1..Len(graphs) : Fitting(graphs[i].base \cup graphs[i].ins, graphs[i].keys)
    /\ compaction # Idle => Fitting(compaction.merged, entries[compaction.entry].dictionary)

\* What graph_nodes listed is a dictionary.
Named(q) ==
    query[q].named # None =>
        /\ query[q].named \in 1..Len(entries)
        /\ entries[query[q].named].dictionary # NoDictionary

NamesInv == IdsInv /\ \A q \in Queriers : Named(q)

(* Edges over the ids of a dictionary have no more nodes than it has keys. *)
LEMMA NodesAreNamed ==
    ASSUME NEW N \in Nat, NEW edges, edges \subseteq (0..(N - 1)) \X (0..(N - 1))
    PROVE  NodeCount(edges) \in Nat /\ NodeCount(edges) <= N
<1> DEFINE S == UNION {{p[1], p[2]} : p \in edges}
<1>1. CASE edges = {}
  BY <1>1 DEF NodeCount
<1>2. CASE edges # {}
  <2>1. S \subseteq 0..(N - 1) /\ S # {}
    BY <1>2
  <2> HIDE DEF S
  <2> DEFINE T == {n \in Nat : n <= N /\ (N - n) \in S}
  <2>2. \E n \in T : TRUE
    <3>1. PICK x \in S : TRUE
      BY <2>1
    <3>2. x \in Nat /\ x <= N /\ N - x \in Nat /\ N - x <= N /\ N - (N - x) = x
      BY <2>1, <3>1
    <3> QED
      BY <3>1, <3>2
  <2>3. PICK n \in T : \A m \in T : n <= m
    <3>1. T \in SUBSET Nat /\ T # {}
      BY <2>2
    <3> HIDE DEF T
    <3> QED
      BY <3>1, LeastNat
  <2>4. N - n \in S /\ n \in Nat
    BY <2>3
  <2>5. \A y \in S : N - n >= y
    <3> TAKE y \in S
    <3>1. y \in Nat /\ y <= N /\ N - y \in Nat /\ N - y <= N /\ N - (N - y) = y
      BY <2>1
    <3>2. N - y \in T
      BY <3>1
    <3>3. n <= N - y
      BY <2>3, <3>2
    <3> QED
      BY <2>4, <3>1, <3>3
  <2>6. Max(S) \in S
    BY <2>4, <2>5, Zenon DEF Max
  <2>7. NodeCount(edges) = Max(S) + 1
    BY <1>2, Zenon DEF NodeCount, S
  <2>8. Max(S) \in 0..(N - 1)
    BY <2>1, <2>6
  <2> QED
    BY <2>7, <2>8
<1> QED
  BY <1>1, <1>2

(* The dictionaries of graphs are those of tables.                         *)
LEMMA PairsFit ==
    ASSUME WritersKeepToTheIds, NEW dictionary \in Dictionaries
    PROVE  Fitting(Pairs, dictionary)
BY DEF WritersKeepToTheIds, Dictionaries, Fitting

(* Every step keeps the graphs to the ids of their dictionaries.           *)
LEMMA IdsStay ==
    ASSUME WritersKeepToTheIds, Inv, Inv', IdsInv, EntriesStay, [Next]_vars
    PROVE  IdsInv'
<1>1. /\ graphs \in Seq(Graph) /\ Len(graphs) \in Nat
      /\ entries \in Seq(EntryRecord) /\ Len(entries) \in Nat
  BY DEF Inv, TypeInv
<1>2. \A i \in 1..Len(graphs) : graphs[i].keys \in Dictionaries
  <2>1. \A i \in 1..Len(graphs) : graphs[i] \in Graph
    BY <1>1
  <2> QED
    BY <2>1 DEF Graph
<1>3. compaction # Idle =>
        /\ compaction.entry \in 1..Len(entries)
        /\ entries[compaction.entry].forward \in 1..Len(graphs)
        /\ entries[compaction.entry].dictionary = graphs[entries[compaction.entry].forward].keys
  BY DEF Inv, DrainInv, EntryInv
<1>4. ASSUME NEW i \in 1..Len(graphs')
      PROVE  Fitting(graphs'[i].base \cup graphs'[i].ins, graphs'[i].keys)
  <2>1. GraphsGrow
    BY GraphsAlwaysGrow
  <2>2. CASE i \in 1..Len(graphs) /\ Kept(graphs'[i], graphs[i])
    <3>1. Fitting(Pairs, graphs[i].keys)
      BY <1>2, <2>2, PairsFit
    <3> QED
      BY <2>2, <3>1 DEF IdsInv, Kept, Fitting
  <2>3. CASE Loaded(graphs'[i])
    <3> DEFINE g == graphs'[i]
    <3>1. g.rows \in Tables /\ g.ins = {} /\ g.keys = Projected(g.rows).dictionary
          /\ g.base = ToSet(Projected(g.rows).edges)
      BY <2>3 DEF Loaded
    <3>2. g.base \subseteq Between(g.keys)
      BY <3>1, TablesDecode DEF Encoded
    <3> QED
      BY <3>1, <3>2 DEF Fitting
  <2>4. CASE Compacted(graphs'[i], graphs[entries[compaction.entry].forward])
    BY <1>3, <2>4 DEF Compacted, IdsInv, Fitting
  <2>5. CASE graphs'[i].keys = NoDictionary
    BY <2>5 DEF Fitting
  <2> QED
    BY <2>1, <2>2, <2>3, <2>4, <2>5 DEF GraphsGrow, Fresh
<1>5. ASSUME compaction' # Idle
      PROVE  Fitting(compaction'.merged, entries'[compaction'.entry].dictionary)
  <2>1. CASE UNCHANGED compaction
    <3>1. /\ compaction # Idle
          /\ entries'[compaction.entry].dictionary = entries[compaction.entry].dictionary
      BY <1>3, <1>5, <2>1 DEF EntriesStay
    <3> QED
      BY <2>1, <3>1 DEF IdsInv
  <2>2. CASE CompactDrain
    <3> DEFINE g == graphs[entries[catalog].forward]
    <3>1. catalog \in 1..Len(entries)
      BY <2>2, CatalogTypes DEF CompactDrain
    <3>2. entries[catalog].forward \in 1..Len(graphs) /\ entries[catalog].dictionary = g.keys
      BY <3>1 DEF Inv, EntryInv
    <3>3. Fitting(g.base \cup g.ins, g.keys)
      BY <3>2 DEF IdsInv
    <3> DEFINE merged == MergedEdges(g.base, g.dels, g.ins)
    <3>4. compaction' = [entry |-> catalog, merged |-> merged] /\ UNCHANGED entries
      BY <2>2 DEF CompactDrain
    <3>5. Fitting(merged, g.keys)
      <4>1. merged \subseteq g.base \cup g.ins
        BY DEF MergedEdges
      <4> HIDE DEF merged, g
      <4> QED
        BY <3>3, <4>1 DEF Fitting
    <3> HIDE DEF g, merged
    <3> QED
      BY <3>2, <3>4, <3>5
  <2>3. CASE CompactSwap
    BY <1>5, <2>3 DEF CompactSwap
  <2>4. compaction' = compaction \/ CompactDrain \/ CompactSwap
    <3>1. CASE \E q \in Queriers : Query(q)
      <4>1. \E q, from, r : Step(q, from, r)
        BY <3>1, Zenon DEF Query, ResolveKey, GetGraph, LookupReverse, SnapshotTombstones,
           BuildTranspose, SetReverse, GraphNodes, Execute, ProbeInsertions, ProbeTombstones,
           SearchPlain
      <4> QED
        BY <4>1 DEF Step
    <3>2. CASE \E w \in Writers : Write(w)
      BY <3>2, WritesAreWatched
    <3>4. CASE UNCHANGED vars
      BY <3>4 DEF vars
    <3>3. CASE Catalog
      BY <3>3 DEF Catalog, Register, RegisterWithReverse, RegisterWithDictionary, Deregister
    <3> QED
      BY <3>1, <3>2, <3>3, <3>4 DEF Next
  <2> QED
    BY <2>1, <2>2, <2>3, <2>4
<1> QED
  BY <1>4, <1>5 DEF IdsInv, Idle

(* What graph_nodes listed stays a dictionary.                             *)
LEMMA NamedStays ==
    ASSUME Inv, Inv', EntriesStay, NEW q \in Queriers, Named(q), [Next]_vars
    PROVE  Named(q)'
<1>1. /\ entries \in Seq(EntryRecord) /\ Len(entries) \in Nat
      /\ Len(entries') \in Nat /\ query \in [Queriers -> QueryRecord]
  BY DEF Inv, TypeInv
<1>2. CASE query'[q].named = query[q].named
  <2>1. 1..Len(entries) \subseteq 1..Len(entries')
    BY <1>1 DEF EntriesStay
  <2> QED
    BY <1>2, <2>1 DEF Named, EntriesStay
<1>3. query[q] \in QueryRecord
  BY <1>1
<1>4. CASE GraphNodes(q)
  <2> DEFINE listed == [query[q] EXCEPT !.at = "planned", !.named = catalog]
             refused == [query[q] EXCEPT !.at = "refused"]
  <2>1. UNCHANGED entries
    BY <1>4 DEF GraphNodes
  <2>2. CASE catalog # None /\ entries[catalog].dictionary # NoDictionary
             /\ query' = [query EXCEPT ![q] = listed]
    <3>1. query'[q].named = catalog /\ catalog \in 1..Len(entries)
      BY <1>1, <1>3, <2>2, CatalogTypes DEF QueryRecord
    <3> QED
      BY <2>1, <2>2, <3>1 DEF Named
  <2>3. CASE query' = [query EXCEPT ![q] = refused]
    <3>1. query'[q].named = query[q].named
      BY <1>1, <1>3, <2>3 DEF QueryRecord
    <3> QED
      BY <1>2, <3>1
  <2> QED
    BY <1>4, <2>2, <2>3 DEF GraphNodes, Step
<1>5. CASE ResolveKey(q)
  BY <1>1, <1>2, <1>3, <1>5 DEF ResolveKey, Step, QueryRecord
<1>11. CASE GetGraph(q)
  BY <1>1, <1>2, <1>3, <1>11 DEF GetGraph, Step, QueryRecord
<1>12. CASE Execute(q)
  BY <1>1, <1>2, <1>3, <1>12 DEF Execute, Step, QueryRecord
<1>6. CASE LookupReverse(q)
  BY <1>1, <1>2, <1>3, <1>6 DEF LookupReverse, Step, QueryRecord
<1>7. CASE BuildTranspose(q)
  BY <1>1, <1>2, <1>3, <1>7 DEF BuildTranspose, Step, QueryRecord
<1>13. CASE SetReverse(q)
  BY <1>1, <1>2, <1>3, <1>13 DEF SetReverse, Step, QueryRecord
<1>14. CASE SnapshotTombstones(q)
  BY <1>1, <1>2, <1>3, <1>14 DEF SnapshotTombstones, Step, QueryRecord
<1>15. CASE ProbeInsertions(q)
  BY <1>1, <1>2, <1>3, <1>15 DEF ProbeInsertions, Step, QueryRecord
<1>16. CASE ProbeTombstones(q)
  BY <1>1, <1>2, <1>3, <1>16 DEF ProbeTombstones, Optimized, Step, QueryRecord
<1>17. CASE SearchPlain(q)
  BY <1>1, <1>2, <1>3, <1>17 DEF SearchPlain, Step, QueryRecord
<1>8. ASSUME NEW p \in Queriers, p # q, Query(p) PROVE query'[q].named = query[q].named
  <2>1. \E from, r : Step(p, from, r)
    BY <1>8, Zenon DEF Query, ResolveKey, GetGraph, LookupReverse, SnapshotTombstones,
       BuildTranspose, SetReverse, GraphNodes, Execute, ProbeInsertions, ProbeTombstones, SearchPlain
  <2> QED
    BY <1>1, <1>8, <2>1 DEF Step
<1>9. CASE Catalog \/ (\E w \in Writers : Write(w)) \/ UNCHANGED vars
  <2>1. UNCHANGED query \/ \E f, g, ops : query' = Watched(f, g, ops)
    <3>1. CASE Catalog \/ UNCHANGED vars
      BY <3>1 DEF Catalog, vars, Register, RegisterWithReverse, RegisterWithDictionary, Deregister,
         CompactDrain, CompactSwap
    <3>2. CASE \E w \in Writers : Write(w)
      BY <3>2, WritesAreWatched
    <3> QED
      BY <1>9, <3>1, <3>2
  <2>2. ASSUME NEW f, NEW g, NEW ops, query' = Watched(f, g, ops) PROVE Named(q)'
    BY <1>2, <2>2, WatchedKeepsKeys
  <2> QED
    BY <1>2, <2>1, <2>2
<1>10. CASE \E p \in Queriers : Query(p)
  BY <1>2, <1>4, <1>5, <1>6, <1>7, <1>8, <1>10, <1>11, <1>12, <1>13, <1>14, <1>15, <1>16, <1>17
     DEF Query
<1> QED
  BY <1>9, <1>10 DEF Next

(* Where the writers keep to the ids, all graphs do.                       *)
LEMMA NamesHold ==
    ASSUME WritersKeepToTheIds
    PROVE  Spec => []NamesInv
<1>1. Init => NamesInv
  <2> SUFFICES ASSUME Init PROVE NamesInv
    OBVIOUS
  <2>1. \A q \in Queriers : query[q].named = None
    BY DEF Init, NewQuery
  <2>2. Len(graphs) = 0 /\ compaction = Idle
    BY DEF Init
  <2> QED
    BY <2>1, <2>2 DEF NamesInv, IdsInv, Named
<1>2. Inv /\ Inv' /\ KeyInv /\ NamesInv /\ [Next]_vars => NamesInv'
  <2> SUFFICES ASSUME Inv, Inv', LineInv, IdsInv, \A q \in Queriers : Named(q), [Next]_vars
               PROVE  IdsInv' /\ \A q \in Queriers : Named(q)'
    BY DEF NamesInv, KeyInv
  <2>1. EntriesStay
    BY LineKeeps
  <2> QED
    BY <2>1, IdsStay, NamedStays
<1> QED
  BY <1>1, <1>2, InvHolds, KeysHold, PTL DEF Spec

(* Ids keep their keys.  If the writers insert no node that the dictionary *)
(* of a loaded table does not have, then a string start node is its key in *)
(* the graph that is searched, and joining graph_nodes gives every node of *)
(* that graph its key, through every compaction and swap between the three *)
(* lookups of a query (udtf.rs:237-242, 312-320).                          *)
THEOREM KeysAlwaysKeepTheirMeaning ==
    ASSUME WritersKeepToTheIds
    PROVE  Spec => []KeysKeepTheirMeaning
<1>1. Inv /\ KeyInv /\ NamesInv => KeysKeepTheirMeaning
  <2> SUFFICES ASSUME Inv, LineInv, \A q \in Queriers : Resolved(q),
                      IdsInv, \A q \in Queriers : Named(q)
               PROVE  KeysKeepTheirMeaning
    BY DEF KeyInv, NamesInv
  <2>1. DOMAIN entries = 1..Len(entries)
    BY DEF Inv, TypeInv
  <2>2. \A e \in 1..Len(entries) :
           /\ entries[e].forward \in 1..Len(graphs)
           /\ entries[e].dictionary = graphs[entries[e].forward].keys
    BY DEF Inv, EntryInv
  <2>3. ASSUME NEW q \in Queriers, Planned(q)
        PROVE  LET searched == entries[query[q].got]
                   Same(e) == e # None /\ entries[e].of = searched.of
               IN  /\ Same(query[q].keyed) =>
                         KeyOf(graphs[searched.forward].keys, query[q].start) = query[q].call.key
                   /\ Same(query[q].named) =>
                         \A id \in 0..(NodeCount(graphs[searched.forward].base) - 1) :
                            <<id, KeyOf(graphs[searched.forward].keys, id)>>
                               \in ToBatch(entries[query[q].named].dictionary)
    <3> DEFINE searched == entries[query[q].got]
               g == graphs[searched.forward]
    <3>1. query[q].got \in 1..Len(entries)
      BY <2>3 DEF Inv, QueryInv, Planned, Executing, Probing
    <3>2. searched.forward \in 1..Len(graphs) /\ searched.dictionary = g.keys
      BY <2>2, <3>1
    <3>3. ASSUME query[q].keyed # None, entries[query[q].keyed].of = searched.of
          PROVE  KeyOf(g.keys, query[q].start) = query[q].call.key
      <4>1. /\ query[q].keyed \in 1..Len(entries)
            /\ KeyOf(entries[query[q].keyed].dictionary, query[q].start) = query[q].call.key
        BY <3>3 DEF Resolved
      <4>2. entries[query[q].keyed].dictionary = searched.dictionary
        BY <3>1, <3>3, <4>1 DEF LineInv
      <4> QED
        BY <3>2, <4>1, <4>2
    <3>4. ASSUME query[q].named # None, entries[query[q].named].of = searched.of,
                 NEW id \in 0..(NodeCount(g.base) - 1)
          PROVE  <<id, KeyOf(g.keys, id)>> \in ToBatch(entries[query[q].named].dictionary)
      <4>1. query[q].named \in 1..Len(entries) /\ entries[query[q].named].dictionary # NoDictionary
        BY <3>4 DEF Named
      <4>2. entries[query[q].named].dictionary = g.keys
        BY <3>1, <3>2, <3>4, <4>1 DEF LineInv
      <4>3. g.base \subseteq Between(g.keys)
        BY <3>2, <4>1, <4>2 DEF IdsInv, Fitting
      <4>4. Len(g.keys) \in Nat
        <5>1. graphs[searched.forward] \in Graph
          BY <3>2 DEF Inv, TypeInv
        <5>2. g.keys \in Dictionaries
          BY <5>1 DEF Graph
        <5>3. PICK rows \in Tables : g.keys = Projected(rows).dictionary
          BY <4>1, <4>2, <5>2 DEF Dictionaries
        <5>4. Projected(rows) \in Projections(Ends(rows))
          BY TablesDecode
        <5>5. g.keys \in Seq(Ends(rows))
          BY <5>3, <5>4 DEF Projections
        <5> HIDE DEF g
        <5> QED
          BY <5>5
      <4>5. NodeCount(g.base) \in Nat /\ NodeCount(g.base) <= Len(g.keys)
        <5> HIDE DEF g
        <5> QED
          BY <4>3, <4>4, NodesAreNamed DEF Between, Ids
      <4>6. id \in Ids(g.keys)
        <5> DEFINE c == NodeCount(g.base)
                   l == Len(g.keys)
        <5>1. \A m, n \in Nat : \A i \in 0..(m - 1) : m <= n => i \in 0..(n - 1)
          OBVIOUS
        <5> HIDE DEF g
        <5> QED
          BY <3>4, <4>4, <4>5, <5>1 DEF Ids
      <4> QED
        BY <4>2, <4>6 DEF ToBatch
    <3> QED
      BY <3>3, <3>4
  <2> QED
    BY <2>1, <2>2, <2>3 DEF KeysKeepTheirMeaning
<1> QED
  BY <1>1, InvHolds, KeysHold, NamesHold, PTL
==============================================================================
