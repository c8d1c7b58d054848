------------------------------ MODULE CsrProofs ------------------------------
(***************************************************************************)
(* Proofs about the base layer: what build makes of any list of edges and  *)
(* any shard size (Csr), the invariants of the builder (CsrBuild), and     *)
(* those of the operator that feeds it from a stream (BuildStream), for    *)
(* any ids, streams, batches and plans.                                    *)
(***************************************************************************)
EXTENDS CsrBuild, BuildStream, FiniteSetTheorems, WellFoundedInduction, TLAPS

(***************************************************************************)
(* Induction over the natural numbers, for a set instead of a predicate.   *)
(***************************************************************************)
(* Among finite sets there is one that has none of the others in it.       *)
LEMMA SmallestSet ==
    ASSUME NEW F, F # {}, \A S \in F : IsFiniteSet(S)
    PROVE  \E S \in F : \A T \in F : T \subseteq S => T = S
<1> DEFINE U == UNION F
           R == StrictSubsetOrdering(U)
           D == FiniteSubsetsOf(U)
<1>1. IsWellFoundedOn(R, D)
  BY FS_StrictSubsetOrderingWellFounded
<1>2. F \subseteq D
  BY DEF FiniteSubsetsOf
<1>3. \E S \in F : \A T \in F : ~ (<<T, S>> \in R)
  <2> HIDE DEF R, D
  <2> QED
    BY <1>1, <1>2, WFMin
<1>4. \A S, T \in F : T \subseteq S /\ T # S => <<T, S>> \in R
  BY <1>2 DEF StrictSubsetOrdering, FiniteSubsetsOf
<1> HIDE DEF R
<1> QED
  BY <1>3, <1>4

(* Numbers have a least one.                                               *)
LEMMA LeastNat ==
    ASSUME NEW T \in SUBSET Nat, T # {}
    PROVE  \E x \in T : \A y \in T : x <= y
<1> DEFINE F == {0..x : x \in T}
<1>1. F # {} /\ \A S \in F : IsFiniteSet(S)
  <2>1. \A x \in T : IsFiniteSet(0..x)
    BY FS_Interval
  <2>2. F # {}
    OBVIOUS
  <2> QED
    BY <2>1, <2>2
<1>2. \E S \in F : \A Q \in F : Q \subseteq S => Q = S
  <2> HIDE DEF F
  <2> QED
    BY <1>1, SmallestSet
<1>3. PICK x \in T : \A y \in T : 0..y \subseteq 0..x => 0..y = 0..x
  <2>1. PICK S \in F : \A Q \in F : Q \subseteq S => Q = S
    BY <1>2
  <2>2. PICK x \in T : S = 0..x
    OBVIOUS
  <2>3. \A y \in T : 0..y \in F
    OBVIOUS
  <2> HIDE DEF F
  <2> QED
    BY <2>1, <2>2, <2>3
<1>4. ASSUME NEW y \in T, y < x PROVE FALSE
  <2>1. 0..y \subseteq 0..x /\ x \in 0..x /\ x \notin 0..y
    BY <1>4
  <2> QED
    BY <1>3, <2>1
<1> QED
  BY <1>4

(* A set with 0 and every successor of its members has all numbers.        *)
LEMMA SetInduction ==
    ASSUME NEW T \in SUBSET Nat, 0 \in T, \A n \in T : n + 1 \in T
    PROVE  T = Nat
<1> SUFFICES ASSUME T # Nat PROVE FALSE
  OBVIOUS
<1>1. PICK n \in Nat \ T : \A m \in Nat \ T : n <= m
  BY LeastNat
<1>2. n - 1 \in T
  BY <1>1
<1> QED
  BY <1>1, <1>2

(* The same for the numbers up to a bound.                                 *)
LEMMA UpTo ==
    ASSUME NEW n \in Nat, NEW T, 0 \in T, \A i \in 1..n : i - 1 \in T => i \in T
    PROVE  \A i \in 0..n : i \in T
<1> DEFINE S == {i \in Nat : i <= n => i \in T}
<1>1. 0 \in S
  OBVIOUS
<1>2. ASSUME NEW i \in S PROVE i + 1 \in S
  <2> SUFFICES ASSUME i + 1 <= n PROVE i + 1 \in T
    OBVIOUS
  <2>1. i + 1 \in 1..n /\ (i + 1) - 1 = i /\ i \in T
    OBVIOUS
  <2> QED
    BY <2>1
<1>3. S = Nat
  <2>1. S \in SUBSET Nat
    OBVIOUS
  <2> HIDE DEF S
  <2> QED
    BY <1>1, <1>2, <2>1, SetInduction
<1> QED
  BY <1>3

Runs(f, n, V, a, step) ==
    f \in [0..n -> V] /\ f[0] = a /\ \A i \in 1..n : f[i] = step[<<i, f[i - 1]>>]

(* A first value and a step determine the values that follow.              *)
LEMMA Recursion ==
    ASSUME NEW n \in Nat, NEW V, NEW a \in V, NEW step,
           \A i \in 1..n : \A v \in V : step[<<i, v>>] \in V
    PROVE  \E f : Runs(f, n, V, a, step)
<1> DEFINE T == {k \in 0..n : \E f : Runs(f, k, V, a, step)}
<1>1. 0 \in T
  <2>1. Runs([k \in 0..0 |-> a], 0, V, a, step)
    BY DEF Runs
  <2> QED
    BY <2>1
<1>2. ASSUME NEW k \in 1..n, k - 1 \in T PROVE k \in T
  <2>1. PICK f : Runs(f, k - 1, V, a, step)
    BY <1>2
  <2> DEFINE g == [i \in 0..k |-> IF i = k THEN step[<<k, f[k - 1]>>] ELSE f[i]]
  <2>2. f[k - 1] \in V /\ step[<<k, f[k - 1]>>] \in V
    <3>1. k - 1 \in 0..(k - 1) /\ f \in [0..(k - 1) -> V]
      BY <2>1 DEF Runs
    <3>2. f[k - 1] \in V
      BY <3>1
    <3> QED
      BY <3>2
  <2>3. g \in [0..k -> V] /\ g[0] = a
    BY <2>1, <2>2 DEF Runs
  <2>4. ASSUME NEW i \in 1..k PROVE g[i] = step[<<i, g[i - 1]>>]
    <3>1. g[i - 1] = f[i - 1]
      OBVIOUS
    <3>2. CASE i = k
      BY <3>1, <3>2
    <3>3. CASE i # k
      <4>1. i \in 1..(k - 1) /\ g[i] = f[i]
        BY <3>3
      <4> QED
        BY <2>1, <3>1, <4>1 DEF Runs
    <3> QED
      BY <3>2, <3>3
  <2>5. Runs(g, k, V, a, step)
    BY <2>3, <2>4 DEF Runs
  <2> HIDE DEF g
  <2> QED
    BY <2>5
<1>3. \A k \in 0..n : k \in T
  <2> HIDE DEF T
  <2> QED
    BY <1>1, <1>2, UpTo
<1> QED
  BY <1>3

(***************************************************************************)
(* Keep and FlattenSeq: what the recursive functions in them compute.      *)
(***************************************************************************)
Keeps(f, seq, set) ==
    f = [i \in 0..Len(seq) |->
            IF i = 0 THEN <<>>
            ELSE IF seq[i] \in set THEN Append(f[i - 1], seq[i]) ELSE f[i - 1]]

(* The values of such a function, step by step, for elements of V.         *)
KeepsUpTo(f, V, seq, set) ==
    /\ f \in [0..Len(seq) -> Seq(V)]
    /\ f[0] = <<>>
    /\ \A i \in 1..Len(seq) :
          f[i] = IF seq[i] \in set THEN Append(f[i - 1], seq[i]) ELSE f[i - 1]

(* Keep passes through the elements one after the other.                   *)
LEMMA KeepUnfolds ==
    ASSUME NEW V, NEW seq \in Seq(V), NEW set
    PROVE  \E f : KeepsUpTo(f, V, seq, set) /\ Keep(seq, set) = f[Len(seq)]
<1> DEFINE n == Len(seq)
           W == Seq(V)
           Next1(i, v) == IF seq[i] \in set THEN Append(v, seq[i]) ELSE v
           step == [p \in (1..n) \X W |-> Next1(p[1], p[2])]
<1>1. n \in Nat /\ <<>> \in W
  OBVIOUS
<1>2. \A i \in 1..n : \A v \in W : Next1(i, v) \in W
  OBVIOUS
<1>3. \A i \in 1..n : \A v \in W : step[<<i, v>>] = Next1(i, v)
  OBVIOUS
<1>4. \A i \in 1..n : \A v \in W : step[<<i, v>>] \in W
  <2> HIDE DEF step, Next1, n, W
  <2> QED
    BY <1>2, <1>3, Zenon
<1> DEFINE first == <<>>
<1>5. \E f : Runs(f, n, W, first, step)
  <2>1. first \in W
    BY <1>1
  <2> HIDE DEF step, n, W, first
  <2> QED
    BY <1>1, <1>4, <2>1, Recursion
<1>6. PICK f : Runs(f, n, W, first, step)
  BY <1>5
<1>7. f \in [0..n -> W] /\ f[0] = <<>> /\ \A i \in 1..n : f[i] = step[<<i, f[i - 1]>>]
  <2> HIDE DEF step, n, W
  <2> QED
    BY <1>6 DEF Runs
<1>8. \A i \in 1..n : f[i] = Next1(i, f[i - 1])
  <2>1. \A i \in 1..n : i - 1 \in 0..n
    BY <1>1
  <2> HIDE DEF step, Next1, n, W
  <2> QED
    BY <1>3, <1>7, <2>1
<1>9. Keeps(f, seq, set)
  <2>1. f = [i \in 0..n |-> f[i]]
    BY <1>7
  <2>2. \A i \in 0..n : f[i] = IF i = 0 THEN <<>> ELSE Next1(i, f[i - 1])
    <3>1. \A i \in 0..n : i = 0 \/ i \in 1..n
      BY <1>1
    <3> HIDE DEF Next1, n
    <3> QED
      BY <1>7, <1>8, <3>1
  <2>3. f = [i \in 0..n |-> IF i = 0 THEN <<>> ELSE Next1(i, f[i - 1])]
    <3> HIDE DEF Next1, n
    <3> QED
      BY <2>1, <2>2, Zenon
  <2> QED
    BY <2>3 DEF Keeps
<1> DEFINE g == CHOOSE h : Keeps(h, seq, set)
<1>10. Keeps(g, seq, set) /\ Keep(seq, set) = g[n]
  BY <1>9, Zenon DEF Keeps, Keep
<1>11. g = [i \in 0..n |-> IF i = 0 THEN <<>> ELSE Next1(i, g[i - 1])]
  <2> HIDE DEF g
  <2> QED
    BY <1>10 DEF Keeps
<1>12. g[0] = <<>> /\ \A i \in 1..n : g[i] = Next1(i, g[i - 1])
  <2> HIDE DEF g, Next1, n
  <2>1. 0 \in 0..n /\ \A i \in 1..n : i \in 0..n /\ i # 0
    BY <1>1
  <2> QED
    BY <1>11, <2>1
<1>13. \A i \in 0..n : g[i] \in W
  <2> DEFINE T == {i \in 0..n : g[i] \in W}
  <2> HIDE DEF g, Next1, n, W
  <2>1. 0 \in T
    BY <1>1, <1>12
  <2>2. \A i \in 1..n : i - 1 \in T => i \in T
    BY <1>1, <1>2, <1>12
  <2>3. \A i \in 0..n : i \in T
    <3> HIDE DEF T
    <3> QED
      BY <1>1, <2>1, <2>2, UpTo
  <2> QED
    BY <2>3
<1>14. g \in [0..n -> W]
  <2> HIDE DEF g, Next1, n, W
  <2> QED
    BY <1>11, <1>13
<1>15. KeepsUpTo(g, V, seq, set)
  BY <1>12, <1>14 DEF KeepsUpTo
<1> HIDE DEF g
<1> QED
  BY <1>10, <1>15

(* It keeps the elements of the set, and no others.                        *)
LEMMA KeepElements ==
    ASSUME NEW V, NEW seq \in Seq(V), NEW set
    PROVE  /\ Keep(seq, set) \in Seq(V)
           /\ ToSet(Keep(seq, set)) = ToSet(seq) \cap set
<1> DEFINE n == Len(seq)
<1>1. PICK f : KeepsUpTo(f, V, seq, set) /\ Keep(seq, set) = f[n]
  BY KeepUnfolds
<1>2. /\ f \in [0..n -> Seq(V)] /\ f[0] = <<>> /\ Keep(seq, set) = f[n]
      /\ \A i \in 1..n : f[i] = IF seq[i] \in set THEN Append(f[i - 1], seq[i]) ELSE f[i - 1]
  BY <1>1 DEF KeepsUpTo
<1> DEFINE T == {i \in 0..n : ToSet(f[i]) = {seq[j] : j \in 1..i} \cap set}
<1>3. 0 \in T
  BY <1>2 DEF ToSet
<1>4. ASSUME NEW i \in 1..n, i - 1 \in T PROVE i \in T
  <2>1. f[i - 1] \in Seq(V) /\ seq[i] \in V /\ i - 1 \in 0..n
    BY <1>2
  <2>2. {seq[j] : j \in 1..i} = {seq[j] : j \in 1..(i - 1)} \cup {seq[i]}
    <3>1. \A j : j \in 1..i <=> j \in 1..(i - 1) \/ j = i
      OBVIOUS
    <3> QED
      BY <3>1, Zenon
  <2>3. CASE seq[i] \in set
    <3>1. f[i] = Append(f[i - 1], seq[i])
      BY <1>2, <2>3
    <3>2. ToSet(f[i]) = ToSet(f[i - 1]) \cup {seq[i]}
      <4>1. Len(f[i]) = Len(f[i - 1]) + 1 /\ f[i][Len(f[i - 1]) + 1] = seq[i]
            /\ \A j \in 1..Len(f[i - 1]) : f[i][j] = f[i - 1][j]
        BY <2>1, <3>1
      <4>2. DOMAIN f[i] = 1..(Len(f[i - 1]) + 1) /\ DOMAIN f[i - 1] = 1..Len(f[i - 1])
            /\ Len(f[i - 1]) \in Nat
        BY <2>1, <3>1, <4>1
      <4>3. \A j : j \in DOMAIN f[i] <=> j \in DOMAIN f[i - 1] \/ j = Len(f[i - 1]) + 1
        BY <4>2
      <4> QED
        BY <4>1, <4>2, <4>3 DEF ToSet
    <3> QED
      BY <1>4, <2>2, <2>3, <3>2
  <2>4. CASE seq[i] \notin set
    <3>1. f[i] = f[i - 1]
      BY <1>2, <2>4
    <3> QED
      BY <1>4, <2>2, <2>4, <3>1
  <2> QED
    BY <2>3, <2>4
<1>5. \A i \in 0..n : i \in T
  <2>1. n \in Nat
    OBVIOUS
  <2> HIDE DEF T
  <2> QED
    BY <1>3, <1>4, <2>1, UpTo
<1>6. n \in T
  BY <1>5
<1>7. {seq[j] : j \in 1..n} = ToSet(seq)
  BY DEF ToSet
<1> QED
  BY <1>2, <1>6, <1>7

(* Appending to the second of two sequences appends to both.               *)
AppendsLast(s, t, x) == Append(s \o t, x) = s \o Append(t, x)

(* What is appended comes last.                                            *)
LEMMA AppendLast ==
    ASSUME NEW V, NEW s \in Seq(V), NEW t \in Seq(V), NEW x \in V
    PROVE  AppendsLast(s, t, x)
BY DEF AppendsLast

(* Two sequences may be filtered one after the other.                      *)
LEMMA KeepConcat ==
    ASSUME NEW V, NEW s \in Seq(V), NEW t \in Seq(V), NEW set
    PROVE  Keep(s \o t, set) = Keep(s, set) \o Keep(t, set)
<1> DEFINE u == s \o t
           n == Len(s)
           m == Len(t)
<1>1. /\ n \in Nat /\ m \in Nat /\ u \in Seq(V) /\ Len(u) = n + m
      /\ (\A i \in 1..n : u[i] = s[i]) /\ (\A i \in 1..m : u[n + i] = t[i] /\ t[i] \in V)
  OBVIOUS
<1> HIDE DEF u
<1>2. PICK f : KeepsUpTo(f, V, s, set) /\ Keep(s, set) = f[n]
  BY KeepUnfolds
<1>3. PICK g : KeepsUpTo(g, V, t, set) /\ Keep(t, set) = g[m]
  BY KeepUnfolds
<1>4. PICK h : KeepsUpTo(h, V, u, set) /\ Keep(u, set) = h[Len(u)]
  BY <1>1, KeepUnfolds
<1>5. /\ f \in [0..n -> Seq(V)] /\ f[0] = <<>>
      /\ \A i \in 1..n : f[i] = IF s[i] \in set THEN Append(f[i - 1], s[i]) ELSE f[i - 1]
  BY <1>2 DEF KeepsUpTo
<1>6. /\ g \in [0..m -> Seq(V)] /\ g[0] = <<>>
      /\ \A i \in 1..m : g[i] = IF t[i] \in set THEN Append(g[i - 1], t[i]) ELSE g[i - 1]
  BY <1>3 DEF KeepsUpTo
<1>7. /\ h \in [0..(n + m) -> Seq(V)] /\ h[0] = <<>>
      /\ \A i \in 1..(n + m) : h[i] = IF u[i] \in set THEN Append(h[i - 1], u[i]) ELSE h[i - 1]
  BY <1>1, <1>4 DEF KeepsUpTo
<1> HIDE DEF n, m
<1>8. h[n] = f[n]
  <2> DEFINE T == {i \in 0..n : h[i] = f[i]}
  <2>1. 0 \in T
    BY <1>1, <1>5, <1>7
  <2>2. ASSUME NEW i \in 1..n, i - 1 \in T PROVE i \in T
    <3>1. h[i - 1] = f[i - 1] /\ u[i] = s[i] /\ i \in 1..(n + m) /\ i \in 0..n
      BY <1>1, <2>2
    <3>2. h[i] = f[i]
      BY <1>5, <1>7, <3>1
    <3> QED
      BY <3>1, <3>2
  <2>3. \A i \in 0..n : i \in T
    <3> HIDE DEF T
    <3> QED
      BY <1>1, <2>1, <2>2, UpTo
  <2> QED
    BY <1>1, <2>3
<1>9. h[n + m] = f[n] \o g[m]
  <2> DEFINE T == {i \in 0..m : h[n + i] = f[n] \o g[i]}
  <2>1. f[n] \in Seq(V) /\ \A i \in 0..m : g[i] \in Seq(V)
    BY <1>1, <1>5, <1>6
  <2>2. 0 \in T
    <3>1. f[n] \o <<>> = f[n]
      BY <2>1
    <3>2. n + 0 = n /\ 0 \in 0..m
      BY <1>1
    <3>3. h[n + 0] = f[n] \o g[0]
      BY <1>6, <1>8, <3>1, <3>2
    <3> QED
      BY <3>2, <3>3
  <2>3. ASSUME NEW i \in 1..m, i - 1 \in T PROVE i \in T
    <3>1. /\ n + (i - 1) = (n + i) - 1 /\ n + i \in 1..(n + m) /\ i \in 0..m /\ i - 1 \in 0..m
          /\ u[n + i] = t[i] /\ t[i] \in V
      BY <1>1
    <3>2. h[(n + i) - 1] = f[n] \o g[i - 1]
      BY <2>3, <3>1
    <3>3. h[n + i] = IF t[i] \in set THEN Append(f[n] \o g[i - 1], t[i]) ELSE f[n] \o g[i - 1]
      BY <1>7, <3>1, <3>2
    <3>4. Append(f[n] \o g[i - 1], t[i]) = f[n] \o Append(g[i - 1], t[i])
      <4>1. f[n] \in Seq(V) /\ g[i - 1] \in Seq(V) /\ t[i] \in V
        BY <2>1, <3>1
      <4>2. AppendsLast(f[n], g[i - 1], t[i])
        BY <4>1, AppendLast
      <4> QED
        BY <4>2, Zenon DEF AppendsLast
    <3>5. h[n + i] = f[n] \o g[i]
      BY <1>6, <3>3, <3>4
    <3> QED
      BY <3>1, <3>5
  <2>4. \A i \in 0..m : i \in T
    <3> HIDE DEF T
    <3> QED
      BY <1>1, <2>2, <2>3, UpTo
  <2>5. m \in T
    <3> HIDE DEF T
    <3> QED
      BY <1>1, <2>4
  <2> QED
    BY <2>5
<1> QED
  BY <1>1, <1>2, <1>3, <1>4, <1>9 DEF u

Flattens(f, seqs) ==
    f = [i \in 1..Len(seqs) |-> IF i = 1 THEN seqs[i] ELSE f[i - 1] \o seqs[i]]

(* The values of such a function, for sequences over V.                    *)
FlattensUpTo(f, V, seqs) ==
    /\ f \in [1..Len(seqs) -> Seq(V)]
    /\ f[1] = seqs[1]
    /\ \A i \in 2..Len(seqs) : f[i] = f[i - 1] \o seqs[i]

(* FlattenSeq joins the sequences from the left.                           *)
LEMMA FlattenUnfolds ==
    ASSUME NEW V, NEW seqs \in Seq(Seq(V)), seqs # <<>>
    PROVE  \E f : FlattensUpTo(f, V, seqs) /\ FlattenSeq(seqs) = f[Len(seqs)]
<1> DEFINE n == Len(seqs)
           W == Seq(V)
           Joined(i, v) == IF i = 1 THEN seqs[i] ELSE v \o seqs[i]
           step == [p \in (1..n) \X W |-> Joined(p[1], p[2])]
           first == <<>>
<1>1. n \in Nat /\ n > 0 /\ first \in W /\ \A i \in 1..n : seqs[i] \in W
  OBVIOUS
<1>2. \A v, w \in W : v \o w \in W
  OBVIOUS
<1>3. \A i \in 1..n : \A v \in W : Joined(i, v) \in W
  BY <1>1
<1>4. \A i \in 1..n : \A v \in W : step[<<i, v>>] = Joined(i, v)
  OBVIOUS
<1>5. \A i \in 1..n : \A v \in W : step[<<i, v>>] \in W
  <2> HIDE DEF step, Joined, n, W
  <2> QED
    BY <1>3, <1>4, Zenon
<1>6. \E f : Runs(f, n, W, first, step)
  <2> HIDE DEF step, n, W, first
  <2> QED
    BY <1>1, <1>5, Recursion
<1>7. PICK f : Runs(f, n, W, first, step)
  BY <1>6
<1>8. f \in [0..n -> W] /\ f[0] = <<>> /\ \A i \in 1..n : f[i] = step[<<i, f[i - 1]>>]
  <2> HIDE DEF step, n, W
  <2> QED
    BY <1>7 DEF Runs
<1>9. \A i \in 1..n : f[i] = Joined(i, f[i - 1])
  <2>1. \A i \in 1..n : i - 1 \in 0..n
    BY <1>1
  <2> HIDE DEF step, Joined, n, W
  <2> QED
    BY <1>4, <1>8, <2>1
<1> DEFINE g == [i \in 1..n |-> f[i]]
<1>10. Flattens(g, seqs)
  <2>1. \A i \in 1..n : g[i] = IF i = 1 THEN seqs[i] ELSE g[i - 1] \o seqs[i]
    <3> SUFFICES ASSUME NEW i \in 1..n
                 PROVE  g[i] = IF i = 1 THEN seqs[i] ELSE g[i - 1] \o seqs[i]
      OBVIOUS
    <3>1. g[i] = Joined(i, f[i - 1])
      <4> HIDE DEF Joined, n
      <4> QED
        BY <1>9
    <3>2. i # 1 => g[i - 1] = f[i - 1]
      BY <1>1
    <3> QED
      BY <3>1, <3>2
  <2>2. g = [i \in 1..n |-> g[i]]
    OBVIOUS
  <2> HIDE DEF g
  <2> QED
    BY <2>1, <2>2 DEF Flattens
<1> DEFINE h == CHOOSE k : Flattens(k, seqs)
<1>11. Flattens(h, seqs) /\ FlattenSeq(seqs) = h[n]
  <2>1. FlattenSeq(seqs) = h[n]
    BY <1>1 DEF FlattenSeq, Flattens
  <2>2. Flattens(h, seqs)
    <3> HIDE DEF g
    <3> QED
      BY <1>10
  <2> QED
    BY <2>1, <2>2
<1> HIDE DEF h
<1>12. h = [i \in 1..n |-> IF i = 1 THEN seqs[i] ELSE h[i - 1] \o seqs[i]]
  BY <1>11 DEF Flattens
<1>13. h[1] = seqs[1] /\ \A i \in 2..n : h[i] = h[i - 1] \o seqs[i]
  <2>1. 1 \in 1..n /\ \A i \in 2..n : i \in 1..n /\ i # 1
    BY <1>1
  <2> HIDE DEF n
  <2> QED
    BY <1>12, <2>1
<1>14. \A i \in 1..n : h[i] \in W
  <2> DEFINE T == {i \in 0..n : i = 0 \/ h[i] \in W}
  <2> HIDE DEF n
  <2>1. 0 \in T
    BY <1>1
  <2>2. ASSUME NEW i \in 1..n, i - 1 \in T PROVE i \in T
    <3>1. CASE i = 1
      BY <1>1, <1>13, <3>1
    <3>2. CASE i # 1
      <4>1. i \in 2..n /\ h[i - 1] \in W
        BY <1>1, <2>2, <3>2
      <4>2. h[i] = h[i - 1] \o seqs[i]
        BY <1>13, <4>1
      <4>3. h[i] \in W
        <5> HIDE DEF W
        <5> QED
          BY <1>1, <1>2, <4>1, <4>2
      <4> QED
        BY <1>1, <4>3
    <3> QED
      BY <3>1, <3>2
  <2>3. \A i \in 0..n : i \in T
    <3> HIDE DEF T
    <3> QED
      BY <1>1, <2>1, <2>2, UpTo
  <2> QED
    BY <1>1, <2>3
<1>15. FlattensUpTo(h, V, seqs)
  <2>1. h \in [1..n -> W]
    <3> HIDE DEF n, W
    <3> QED
      BY <1>12, <1>14
  <2> QED
    BY <1>13, <2>1 DEF FlattensUpTo
<1> QED
  BY <1>11, <1>15

(* One more sequence is joined at the end.                                 *)
LEMMA FlattenAppend ==
    ASSUME NEW V, NEW seqs \in Seq(Seq(V)), NEW s \in Seq(V)
    PROVE  FlattenSeq(seqs) \in Seq(V) /\ FlattenSeq(Append(seqs, s)) = FlattenSeq(seqs) \o s
<1> DEFINE n == Len(seqs)
           more == Append(seqs, s)
           W == Seq(V)
<1>1. /\ n \in Nat /\ more \in Seq(W) /\ Len(more) = n + 1 /\ more # <<>>
      /\ \A i \in 1..n : more[i] = seqs[i]
      /\ more[n + 1] = s
  <2>1. seqs \in Seq(W) /\ s \in W
    OBVIOUS
  <2> HIDE DEF W
  <2>2. n \in Nat /\ more \in Seq(W) /\ Len(more) = n + 1
    BY <2>1
  <2>3. (\A i \in 1..n : more[i] = seqs[i]) /\ more[n + 1] = s
    BY <2>1
  <2>4. more # <<>>
    BY <2>2
  <2> QED
    BY <2>2, <2>3, <2>4
<1> HIDE DEF more
<1>2. PICK h : FlattensUpTo(h, V, more) /\ FlattenSeq(more) = h[n + 1]
  BY <1>1, FlattenUnfolds
<1>3. /\ h \in [1..(n + 1) -> W] /\ h[1] = more[1]
      /\ \A i \in 2..(n + 1) : h[i] = h[i - 1] \o more[i]
  BY <1>1, <1>2 DEF FlattensUpTo
<1>4. CASE seqs = <<>>
  <2>1. n = 0 /\ FlattenSeq(seqs) = <<>>
    BY <1>4 DEF FlattenSeq
  <2>2. FlattenSeq(more) = s
    BY <1>1, <1>2, <1>3, <2>1
  <2>3. <<>> \o s = s /\ <<>> \in W
    OBVIOUS
  <2> QED
    BY <2>1, <2>2, <2>3 DEF more
<1>5. CASE seqs # <<>>
  <2>1. PICK f : FlattensUpTo(f, V, seqs) /\ FlattenSeq(seqs) = f[n]
    BY <1>5, FlattenUnfolds
  <2>2. /\ f \in [1..n -> W] /\ f[1] = seqs[1]
        /\ \A i \in 2..n : f[i] = f[i - 1] \o seqs[i]
    BY <2>1 DEF FlattensUpTo
  <2>3. n > 0
    BY <1>5
  <2> HIDE DEF n, W
  <2> DEFINE T == {i \in 0..n : i = 0 \/ h[i] = f[i]}
  <2>4. 0 \in T
    BY <1>1
  <2>5. ASSUME NEW i \in 1..n, i - 1 \in T PROVE i \in T
    <3>1. CASE i = 1
      <4>1. h[1] = f[1] /\ 1 \in 0..n
        BY <1>1, <1>3, <2>2, <2>3
      <4> QED
        BY <3>1, <4>1
    <3>2. CASE i # 1
      <4>1. i \in 2..n /\ i \in 2..(n + 1) /\ i \in 0..n /\ i - 1 # 0
        BY <1>1, <3>2
      <4>2. h[i - 1] = f[i - 1] /\ more[i] = seqs[i]
        BY <1>1, <2>5, <4>1
      <4>3. h[i] = f[i]
        BY <1>3, <2>2, <4>1, <4>2
      <4> QED
        BY <4>1, <4>3
    <3> QED
      BY <3>1, <3>2
  <2>6. \A i \in 0..n : i \in T
    <3> HIDE DEF T
    <3> QED
      BY <1>1, <2>4, <2>5, UpTo
  <2>7. h[n] = f[n]
    BY <1>1, <2>3, <2>6
  <2>8. n + 1 \in 2..(n + 1) /\ (n + 1) - 1 = n
    BY <1>1, <2>3
  <2>9. h[n + 1] = f[n] \o s
    BY <1>1, <1>3, <2>7, <2>8
  <2>10. n \in 1..n
    BY <1>1, <2>3
  <2> QED
    BY <1>2, <2>1, <2>2, <2>9, <2>10 DEF more, W
<1> QED
  BY <1>4, <1>5

(***************************************************************************)
(* Filters.                                                                *)
(***************************************************************************)
(* A filter that lets nothing through, and one that lets everything.       *)
LEMMA KeepNone ==
    ASSUME NEW V, NEW seq \in Seq(V), NEW set, \A x \in ToSet(seq) : x \notin set
    PROVE  Keep(seq, set) = <<>>
<1> DEFINE kept == Keep(seq, set)
<1>1. kept \in Seq(V) /\ ToSet(kept) = ToSet(seq) \cap set
  BY KeepElements
<1>2. ToSet(kept) = {}
  BY <1>1
<1> HIDE DEF kept
<1>3. DOMAIN kept = 1..Len(kept) /\ Len(kept) \in Nat
  BY <1>1
<1>4. \A i \in DOMAIN kept : kept[i] \in ToSet(kept)
  BY Zenon DEF ToSet
<1>5. Len(kept) = 0
  <2>1. 1 \notin DOMAIN kept
    BY <1>2, <1>4
  <2> QED
    BY <1>3, <2>1
<1>6. kept = <<>>
  BY <1>1, <1>5
<1> QED
  BY <1>6 DEF kept

(* A list all of whose items are kept.                                     *)
LEMMA KeepAll ==
    ASSUME NEW V, NEW seq \in Seq(V), NEW set, \A i \in 1..Len(seq) : seq[i] \in set
    PROVE  Keep(seq, set) = seq
<1> DEFINE n == Len(seq)
<1>1. n \in Nat /\ \A i \in 1..n : seq[i] \in V /\ seq[i] \in set
  OBVIOUS
<1>2. PICK f : KeepsUpTo(f, V, seq, set) /\ Keep(seq, set) = f[n]
  BY KeepUnfolds
<1>3. /\ f \in [0..n -> Seq(V)] /\ f[0] = <<>>
      /\ \A i \in 1..n : f[i] = Append(f[i - 1], seq[i])
  BY <1>1, <1>2 DEF KeepsUpTo
<1> HIDE DEF n
<1> DEFINE T == {i \in 0..n : Len(f[i]) = i /\ \A j \in 1..i : f[i][j] = seq[j]}
<1>4. 0 \in T
  BY <1>1, <1>3
<1>5. ASSUME NEW i \in 1..n, i - 1 \in T PROVE i \in T
  <2>1. /\ i - 1 \in 0..n /\ i \in 0..n /\ f[i - 1] \in Seq(V) /\ seq[i] \in V
        /\ Len(f[i - 1]) = i - 1 /\ \A j \in 1..(i - 1) : f[i - 1][j] = seq[j]
    <3>1. i - 1 \in 0..n /\ i \in 0..n
      BY <1>1
    <3>2. f[i - 1] \in Seq(V) /\ seq[i] \in V
      BY <1>1, <1>3, <3>1
    <3>3. Len(f[i - 1]) = i - 1 /\ \A j \in 1..(i - 1) : f[i - 1][j] = seq[j]
      BY <1>5
    <3> QED
      BY <3>1, <3>2, <3>3
  <2>2. f[i] = Append(f[i - 1], seq[i])
    BY <1>3
  <2>3. Len(f[i]) = i /\ f[i][i] = seq[i] /\ \A j \in 1..(i - 1) : f[i][j] = f[i - 1][j]
    BY <2>1, <2>2
  <2>4. \A j \in 1..i : j = i \/ j \in 1..(i - 1)
    BY <2>1
  <2>5. \A j \in 1..i : f[i][j] = seq[j]
    BY <2>1, <2>3, <2>4
  <2> QED
    BY <2>1, <2>3, <2>5
<1>6. n \in T
  <2>1. \A i \in 0..n : i \in T
    <3> HIDE DEF T
    <3> QED
      BY <1>1, <1>4, <1>5, UpTo
  <2>2. n \in 0..n
    BY <1>1
  <2> QED
    BY <2>1, <2>2, Zenon
<1>7. f[n] \in Seq(V) /\ Len(f[n]) = n /\ \A j \in 1..n : f[n][j] = seq[j]
  BY <1>1, <1>3, <1>6
<1>8. f[n] = seq
  BY <1>7 DEF n
<1> QED
  BY <1>2, <1>8

(* A list that is given place by place, and two lists one after the other. *)
LEMMA IsAList ==
    ASSUME NEW S, NEW n \in Nat, NEW f, f = [k \in 1..n |-> f[k]], \A k \in 1..n : f[k] \in S
    PROVE  f \in Seq(S) /\ Len(f) = n
OBVIOUS

(* The items of a list.                                                    *)
LEMMA ListOf ==
    ASSUME NEW S, NEW s \in Seq(S)
    PROVE  Len(s) \in Nat /\ DOMAIN s = 1..Len(s) /\ \A k \in 1..Len(s) : s[k] \in S
OBVIOUS

(* Two lists joined.                                                       *)
LEMMA BothLists ==
    ASSUME NEW S, NEW s \in Seq(S), NEW t \in Seq(S)
    PROVE  /\ s \o t \in Seq(S) /\ Len(s \o t) = Len(s) + Len(t)
           /\ \A k \in 1..(Len(s) + Len(t)) :
                 (s \o t)[k] = IF k <= Len(s) THEN s[k] ELSE t[k - Len(s)]
           /\ ToSet(s \o t) \subseteq ToSet(s) \cup ToSet(t)
<1> DEFINE u == s \o t
           n == Len(s)
           m == Len(t)
<1>1. u \in Seq(S) /\ Len(u) = n + m
  OBVIOUS
<1>2. \A k \in 1..(n + m) : u[k] = IF k <= n THEN s[k] ELSE t[k - n]
  OBVIOUS
<1>3. n \in Nat /\ m \in Nat /\ DOMAIN s = 1..n /\ DOMAIN t = 1..m
  OBVIOUS
<1> HIDE DEF u, n, m
<1>4. DOMAIN u = 1..(n + m)
  BY <1>1, ListOf
<1>5. ASSUME NEW k \in DOMAIN u PROVE u[k] \in ToSet(s) \cup ToSet(t)
  <2>1. CASE k <= n
    <3>1. k \in DOMAIN s /\ u[k] = s[k]
      BY <1>2, <1>3, <1>4, <2>1
    <3>2. s[k] \in ToSet(s)
      BY <3>1, Zenon DEF ToSet
    <3> QED
      BY <3>1, <3>2
  <2>2. CASE ~(k <= n)
    <3>1. k - n \in DOMAIN t /\ u[k] = t[k - n]
      BY <1>2, <1>3, <1>4, <2>2
    <3>2. t[k - n] \in ToSet(t)
      BY <3>1, Zenon DEF ToSet
    <3> QED
      BY <3>1, <3>2
  <2> QED
    BY <2>1, <2>2
<1>6. ToSet(u) \subseteq ToSet(s) \cup ToSet(t)
  <2> SUFFICES ASSUME NEW x \in ToSet(u) PROVE x \in ToSet(s) \cup ToSet(t)
    OBVIOUS
  <2>1. PICK k \in DOMAIN u : x = u[k]
    BY Zenon DEF ToSet
  <2> QED
    BY <1>5, <2>1
<1> QED
  BY <1>1, <1>2, <1>6 DEF u, n, m

(* A filter that passes the same elements gives the same sequence.         *)
LEMMA KeepSame ==
    ASSUME NEW V, NEW seq \in Seq(V), NEW A, NEW B,
           \A i \in 1..Len(seq) : seq[i] \in A <=> seq[i] \in B
    PROVE  Keep(seq, A) = Keep(seq, B)
<1> DEFINE n == Len(seq)
<1>1. n \in Nat /\ \A i \in 1..n : seq[i] \in A <=> seq[i] \in B
  OBVIOUS
<1>2. PICK f : KeepsUpTo(f, V, seq, A) /\ Keep(seq, A) = f[n]
  BY KeepUnfolds
<1>3. PICK h : KeepsUpTo(h, V, seq, B) /\ Keep(seq, B) = h[n]
  BY KeepUnfolds
<1>4. /\ f[0] = <<>> /\ h[0] = <<>>
      /\ \A i \in 1..n : f[i] = IF seq[i] \in A THEN Append(f[i - 1], seq[i]) ELSE f[i - 1]
      /\ \A i \in 1..n : h[i] = IF seq[i] \in B THEN Append(h[i - 1], seq[i]) ELSE h[i - 1]
  BY <1>2, <1>3 DEF KeepsUpTo
<1> HIDE DEF n
<1> DEFINE T == {i \in 0..n : f[i] = h[i]}
<1>5. 0 \in T
  BY <1>1, <1>4
<1>6. ASSUME NEW i \in 1..n, i - 1 \in T PROVE i \in T
  BY <1>1, <1>4, <1>6
<1>7. \A i \in 0..n : i \in T
  <2> HIDE DEF T
  <2> QED
    BY <1>1, <1>5, <1>6, UpTo
<1> QED
  BY <1>1, <1>2, <1>3, <1>7

(* What passes one of two filters that have nothing in common is as much   *)
(* as what passes the first and what passes the second.                    *)
LEMMA KeepLengths ==
    ASSUME NEW V, NEW seq \in Seq(V), NEW A, NEW B, NEW C,
           \A i \in 1..Len(seq) : /\ seq[i] \in C <=> seq[i] \in A \/ seq[i] \in B
                                  /\ ~(seq[i] \in A /\ seq[i] \in B)
    PROVE  Len(Keep(seq, C)) = Len(Keep(seq, A)) + Len(Keep(seq, B))
<1> DEFINE n == Len(seq)
<1>1. /\ n \in Nat
      /\ \A i \in 1..n : /\ seq[i] \in V
                         /\ seq[i] \in C <=> seq[i] \in A \/ seq[i] \in B
                         /\ ~(seq[i] \in A /\ seq[i] \in B)
  OBVIOUS
<1>2. PICK f : KeepsUpTo(f, V, seq, A) /\ Keep(seq, A) = f[n]
  BY KeepUnfolds
<1>3. PICK g : KeepsUpTo(g, V, seq, B) /\ Keep(seq, B) = g[n]
  BY KeepUnfolds
<1>4. PICK h : KeepsUpTo(h, V, seq, C) /\ Keep(seq, C) = h[n]
  BY KeepUnfolds
<1>5. /\ f[0] = <<>> /\ g[0] = <<>> /\ h[0] = <<>>
      /\ \A i \in 1..n : f[i] = IF seq[i] \in A THEN Append(f[i - 1], seq[i]) ELSE f[i - 1]
      /\ \A i \in 1..n : g[i] = IF seq[i] \in B THEN Append(g[i - 1], seq[i]) ELSE g[i - 1]
      /\ \A i \in 1..n : h[i] = IF seq[i] \in C THEN Append(h[i - 1], seq[i]) ELSE h[i - 1]
  BY <1>2, <1>3, <1>4 DEF KeepsUpTo
<1>6. \A i \in 0..n : f[i] \in Seq(V) /\ g[i] \in Seq(V) /\ h[i] \in Seq(V)
  BY <1>2, <1>3, <1>4 DEF KeepsUpTo
<1> HIDE DEF n
<1> DEFINE T == {i \in 0..n : Len(h[i]) = Len(f[i]) + Len(g[i])}
<1>7. 0 \in T
  <2>1. Len(f[0]) = 0 /\ Len(g[0]) = 0 /\ Len(h[0]) = 0
    BY <1>5
  <2>2. 0 \in 0..n /\ 0 = 0 + 0
    BY <1>1
  <2> QED
    BY <2>1, <2>2
<1>8. ASSUME NEW i \in 1..n, i - 1 \in T PROVE i \in T
  <2>0. Len(h[i - 1]) = Len(f[i - 1]) + Len(g[i - 1])
    BY <1>8
  <2>1. i - 1 \in 0..n /\ i \in 0..n /\ seq[i] \in V
    BY <1>1
  <2>2. f[i - 1] \in Seq(V) /\ g[i - 1] \in Seq(V) /\ h[i - 1] \in Seq(V)
    BY <1>6, <2>1
  <2>3. /\ Len(Append(f[i - 1], seq[i])) = Len(f[i - 1]) + 1 /\ Len(f[i - 1]) \in Nat
        /\ Len(Append(g[i - 1], seq[i])) = Len(g[i - 1]) + 1 /\ Len(g[i - 1]) \in Nat
        /\ Len(Append(h[i - 1], seq[i])) = Len(h[i - 1]) + 1 /\ Len(h[i - 1]) \in Nat
    BY <2>1, <2>2
  <2>7. Len(f[i - 1]) \in Nat /\ Len(g[i - 1]) \in Nat /\ Len(h[i - 1]) \in Nat
    BY <2>2
  <2>8. \A a, b, c \in Nat : a = b + c => a + 1 = (b + 1) + c /\ a + 1 = b + (c + 1)
    OBVIOUS
  <2>4. CASE seq[i] \in A
    <3>1. f[i] = Append(f[i - 1], seq[i]) /\ g[i] = g[i - 1] /\ h[i] = Append(h[i - 1], seq[i])
      BY <1>1, <1>5, <2>4
    <3>2. /\ Len(h[i]) = Len(h[i - 1]) + 1 /\ Len(f[i]) = Len(f[i - 1]) + 1
          /\ Len(g[i]) = Len(g[i - 1])
      BY <2>3, <3>1, Zenon
    <3>3. Len(h[i]) = Len(f[i]) + Len(g[i])
      <4>1. Len(h[i - 1]) + 1 = (Len(f[i - 1]) + 1) + Len(g[i - 1])
        BY <2>0, <2>7, <2>8, Zenon
      <4> QED
        BY <3>2, <4>1
    <3> QED
      BY <2>1, <3>3
  <2>5. CASE seq[i] \in B
    <3>1. f[i] = f[i - 1] /\ g[i] = Append(g[i - 1], seq[i]) /\ h[i] = Append(h[i - 1], seq[i])
      BY <1>1, <1>5, <2>5
    <3>2. /\ Len(h[i]) = Len(h[i - 1]) + 1 /\ Len(f[i]) = Len(f[i - 1])
          /\ Len(g[i]) = Len(g[i - 1]) + 1
      BY <2>3, <3>1, Zenon
    <3>3. Len(h[i]) = Len(f[i]) + Len(g[i])
      <4>1. Len(h[i - 1]) + 1 = Len(f[i - 1]) + (Len(g[i - 1]) + 1)
        BY <2>0, <2>7, <2>8, Zenon
      <4> QED
        BY <3>2, <4>1
    <3> QED
      BY <2>1, <3>3
  <2>6. CASE seq[i] \notin A /\ seq[i] \notin B
    <3>1. f[i] = f[i - 1] /\ g[i] = g[i - 1] /\ h[i] = h[i - 1]
      BY <1>1, <1>5, <2>6
    <3> QED
      BY <2>0, <2>1, <3>1
  <2> QED
    BY <2>4, <2>5, <2>6
<1>9. n \in T
  <2>1. \A i \in 0..n : i \in T
    <3> HIDE DEF T
    <3> QED
      BY <1>1, <1>7, <1>8, UpTo
  <2>2. n \in 0..n
    BY <1>1
  <2> QED
    BY <2>1, <2>2, Zenon
<1> QED
  BY <1>2, <1>3, <1>4, <1>9

(* The largest of a finite set of numbers.                                 *)
LEMMA LargestNat ==
    ASSUME NEW S \in SUBSET Nat, NEW bound \in Nat, S # {}, \A x \in S : x <= bound
    PROVE  Max(S) \in S /\ \A x \in S : x <= Max(S)
<1> DEFINE D == {bound - x : x \in S}
<1>1. D \in SUBSET Nat /\ D # {}
  <2>1. \A x \in S : bound - x \in Nat
    OBVIOUS
  <2>2. \E x \in S : TRUE
    OBVIOUS
  <2> QED
    BY <2>1, <2>2
<1>2. PICK d \in D : \A y \in D : d <= y
  BY <1>1, LeastNat
<1>3. PICK m \in S : d = bound - m
  BY <1>2
<1>4. \A x \in S : m >= x
  <2> SUFFICES ASSUME NEW x \in S PROVE m >= x
    OBVIOUS
  <2>1. bound - x \in D
    OBVIOUS
  <2>2. d <= bound - x /\ x \in Nat /\ m \in Nat
    BY <1>2, <2>1
  <2> QED
    BY <1>3, <2>2
<1>5. Max(S) \in S /\ \A x \in S : Max(S) >= x
  BY <1>4 DEF Max
<1> QED
  BY <1>5

(* The smaller of two numbers, and the larger.                             *)
LEMMA OfTwo ==
    ASSUME NEW a \in Int, NEW b \in Int
    PROVE  /\ Min({a, b}) = IF a <= b THEN a ELSE b
           /\ Max({a, b}) = IF a <= b THEN b ELSE a
<1> DEFINE low == IF a <= b THEN a ELSE b
           high == IF a <= b THEN b ELSE a
<1>1. /\ low \in {a, b} /\ low =< a /\ low =< b
      /\ high \in {a, b} /\ high >= a /\ high >= b
  OBVIOUS
<1>2. low \in Int /\ high \in Int
  OBVIOUS
<1> HIDE DEF low, high
<1>3. Min({a, b}) = low
  <2> DEFINE m == Min({a, b})
  <2>1. m \in {a, b} /\ \A y \in {a, b} : m =< y
    BY <1>1 DEF Min
  <2> HIDE DEF m
  <2>2. m =< low /\ low =< m /\ m \in Int
    BY <1>1, <2>1
  <2> QED
    BY <1>2, <2>2 DEF m
<1>4. Max({a, b}) = high
  <2> DEFINE m == Max({a, b})
  <2>1. m \in {a, b} /\ \A y \in {a, b} : m >= y
    BY <1>1 DEF Max
  <2> HIDE DEF m
  <2>2. m >= high /\ high >= m /\ m \in Int
    BY <1>1, <2>1
  <2> QED
    BY <1>2, <2>2 DEF m
<1> QED
  BY <1>3, <1>4 DEF low, high

(***************************************************************************)
(* Sorting by source.                                                      *)
(***************************************************************************)
Of(V, n) == {e \in V : e.src = n}
Under(V, n) == {e \in V : e.src < n}

(* The edges of a node, and those of the nodes before it.                  *)
LEMMA FromIs ==
    ASSUME NEW V, NEW list \in Seq(V), NEW n
    PROVE  /\ EdgesFrom(list, n) = Keep(list, Of(V, n))
           /\ EdgesBelow(list, n) = Keep(list, Under(V, n))
           /\ EdgesFrom(list, n) \in Seq(V) /\ EdgesBelow(list, n) \in Seq(V)
           /\ ToSet(EdgesFrom(list, n)) = ToSet(list) \cap Of(V, n)
<1>1. \A i \in 1..Len(list) : list[i] \in V /\ list[i] \in ToSet(list)
  <2>1. \A i \in 1..Len(list) : list[i] \in V /\ i \in DOMAIN list
    OBVIOUS
  <2> QED
    BY <2>1, Zenon DEF ToSet
<1>2. EdgesFrom(list, n) = Keep(list, Of(V, n))
  <2> DEFINE A == {e \in ToSet(list) : e.src = n}
             B == Of(V, n)
  <2>1. \A i \in 1..Len(list) : list[i] \in A <=> list[i] \in B
    BY <1>1 DEF Of
  <2> HIDE DEF A, B
  <2>2. Keep(list, A) = Keep(list, B)
    BY <2>1, KeepSame
  <2> QED
    BY <2>2 DEF A, B, EdgesFrom
<1>3. EdgesBelow(list, n) = Keep(list, Under(V, n))
  <2> DEFINE A == {e \in ToSet(list) : e.src < n}
             B == Under(V, n)
  <2>1. \A i \in 1..Len(list) : list[i] \in A <=> list[i] \in B
    BY <1>1 DEF Under
  <2> HIDE DEF A, B
  <2>2. Keep(list, A) = Keep(list, B)
    BY <2>1, KeepSame
  <2> QED
    BY <2>2 DEF A, B, EdgesBelow
<1> QED
  BY <1>2, <1>3, KeepElements

Ordered(s) == \A i, j \in 1..Len(s) : i <= j => s[i].src <= s[j].src

\* The edges of the first n nodes, for every n.
Sorting(p, V, list) ==
    /\ p \in [0..(U32Max + 1) -> Seq(V)]
    /\ p[0] = <<>>
    /\ \A n \in 1..(U32Max + 1) : p[n] = p[n - 1] \o EdgesFrom(list, n - 1)

(* The sort joins the edges of all nodes, one node after the other.        *)
LEMMA SortUnfolds ==
    ASSUME NEW V, NEW list \in Seq(V)
    PROVE  \E p : Sorting(p, V, list) /\ SortedBySource(list) = p[U32Max + 1]
<1> DEFINE m == U32Max + 1
           blocks == [n \in 1..m |-> EdgesFrom(list, n - 1)]
<1>1. m \in Nat /\ m >= 1
  BY U32Assumption
<1>2. \A n \in 1..m : blocks[n] \in Seq(V)
  BY FromIs
<1>3. blocks \in Seq(Seq(V)) /\ Len(blocks) = m
  <2> DEFINE W == Seq(V)
  <2>1. blocks = [n \in 1..m |-> blocks[n]] /\ \A n \in 1..m : blocks[n] \in W
    BY <1>2
  <2> HIDE DEF blocks, W, m
  <2>2. blocks \in Seq(W) /\ Len(blocks) = m
    BY <1>1, <2>1, IsAList
  <2> QED
    BY <2>2 DEF W
<1>4. blocks # <<>>
  BY <1>1, <1>3
<1>5. SortedBySource(list) = FlattenSeq(blocks)
  BY DEF SortedBySource
<1>6. \A n \in 1..m : blocks[n] = EdgesFrom(list, n - 1)
  OBVIOUS
<1> HIDE DEF blocks, m
<1>7. PICK f : FlattensUpTo(f, V, blocks) /\ FlattenSeq(blocks) = f[m]
  BY <1>3, <1>4, FlattenUnfolds
<1>8. /\ f \in [1..m -> Seq(V)] /\ f[1] = blocks[1]
      /\ \A n \in 2..m : f[n] = f[n - 1] \o blocks[n]
  BY <1>3, <1>7 DEF FlattensUpTo
<1> DEFINE p == [n \in 0..m |-> IF n = 0 THEN <<>> ELSE f[n]]
<1>9. p \in [0..m -> Seq(V)] /\ p[0] = <<>> /\ p[m] = f[m]
  <2>1. <<>> \in Seq(V)
    OBVIOUS
  <2>2. \A n \in 0..m : n # 0 => f[n] \in Seq(V)
    BY <1>1, <1>8
  <2>3. 0 \in 0..m /\ m \in 0..m /\ m # 0
    BY <1>1
  <2> QED
    BY <2>1, <2>2, <2>3
<1>10. ASSUME NEW n \in 1..m PROVE p[n] = p[n - 1] \o EdgesFrom(list, n - 1)
  <2>1. p[n] = f[n] /\ blocks[n] = EdgesFrom(list, n - 1)
    BY <1>1, <1>6
  <2>2. CASE n = 1
    <3>1. p[n - 1] = <<>> /\ f[n] = blocks[n] /\ blocks[n] \in Seq(V)
      BY <1>1, <1>2, <1>8, <2>2
    <3>2. \A s \in Seq(V) : <<>> \o s = s
      OBVIOUS
    <3> HIDE DEF p
    <3>3. <<>> \o blocks[n] = blocks[n]
      BY <3>1, <3>2, Zenon
    <3> QED
      BY <2>1, <3>1, <3>3
  <2>3. CASE n # 1
    <3>1. n \in 2..m /\ n - 1 \in 0..m /\ n - 1 # 0
      BY <1>1, <2>3
    <3>2. p[n - 1] = f[n - 1]
      BY <3>1
    <3> HIDE DEF p
    <3> QED
      BY <1>8, <2>1, <3>1, <3>2
  <2> QED
    BY <2>2, <2>3
<1>11. Sorting(p, V, list)
  <2> HIDE DEF p
  <2> QED
    BY <1>9, <1>10 DEF Sorting, m
<1>12. SortedBySource(list) = p[m]
  <2> HIDE DEF p
  <2> QED
    BY <1>5, <1>7, <1>9
<1> HIDE DEF p
<1> QED
  BY <1>11, <1>12 DEF m

(* What comes first in an ordered list is from smaller nodes.              *)
LEMMA JoinOrdered ==
    ASSUME NEW V, \A e \in V : e.src \in Nat, NEW s \in Seq(V), NEW t \in Seq(V), NEW n \in Nat,
           Ordered(s), \A i \in 1..Len(s) : s[i].src < n, \A i \in 1..Len(t) : t[i].src = n
    PROVE  Ordered(s \o t) /\ \A i \in 1..Len(s \o t) : (s \o t)[i].src < n + 1
<1> DEFINE u == s \o t
           a == Len(s)
           b == Len(t)
<1>1. /\ a \in Nat /\ b \in Nat /\ u \in Seq(V) /\ Len(u) = a + b
      /\ \A k \in 1..(a + b) : u[k] = IF k <= a THEN s[k] ELSE t[k - a]
  BY BothLists, ListOf
<1>2. (\A i \in 1..a : s[i] \in V) /\ (\A i \in 1..b : t[i] \in V)
  BY ListOf
<1> HIDE DEF u, a, b
<1>3. \A i \in 1..a : u[i] = s[i] /\ u[i].src \in Nat /\ u[i].src < n
  <2> SUFFICES ASSUME NEW i \in 1..a PROVE u[i] = s[i] /\ u[i].src \in Nat /\ u[i].src < n
    OBVIOUS
  <2>1. u[i] = s[i]
    BY <1>1
  <2> QED
    BY <1>2, <2>1 DEF a
<1>4. \A i \in (a + 1)..(a + b) : u[i].src = n
  <2> SUFFICES ASSUME NEW i \in (a + 1)..(a + b) PROVE u[i].src = n
    OBVIOUS
  <2>1. u[i] = t[i - a] /\ i - a \in 1..b
    BY <1>1
  <2> QED
    BY <2>1 DEF b
<1>5. \A i \in 1..(a + b) : i \in 1..a \/ i \in (a + 1)..(a + b)
  BY <1>1
<1>6. ASSUME NEW i \in 1..(a + b), NEW j \in 1..(a + b), i <= j PROVE u[i].src <= u[j].src
  <2>1. CASE j \in 1..a
    <3>1. i \in 1..a
      BY <1>1, <1>6, <2>1
    <3> QED
      BY <1>3, <1>6, <2>1, <3>1 DEF Ordered, a
  <2>2. CASE j \in (a + 1)..(a + b)
    <3>1. u[j].src = n
      BY <1>4, <2>2
    <3>2. u[i].src = n \/ (u[i].src \in Nat /\ u[i].src < n)
      BY <1>3, <1>4, <1>5
    <3> QED
      BY <3>1, <3>2
  <2> QED
    BY <1>5, <2>1, <2>2
<1>7. \A i \in 1..(a + b) : u[i].src < n + 1
  <2> SUFFICES ASSUME NEW i \in 1..(a + b) PROVE u[i].src < n + 1
    OBVIOUS
  <2>1. u[i].src = n \/ (u[i].src \in Nat /\ u[i].src < n)
    BY <1>3, <1>4, <1>5
  <2> QED
    BY <2>1
<1> QED
  BY <1>1, <1>6, <1>7 DEF Ordered, u

(* The edges of the first nodes are ordered.                               *)
LEMMA SortingIsOrdered ==
    ASSUME NEW V, \A e \in V : e.src \in Nat, NEW list \in Seq(V), NEW p, Sorting(p, V, list)
    PROVE  \A n \in 0..(U32Max + 1) :
              Ordered(p[n]) /\ \A i \in 1..Len(p[n]) : p[n][i].src < n
<1> DEFINE m == U32Max + 1
           T == {n \in 0..m : Ordered(p[n]) /\ \A i \in 1..Len(p[n]) : p[n][i].src < n}
<1>1. m \in Nat
  BY U32Assumption
<1>2. /\ p \in [0..m -> Seq(V)] /\ p[0] = <<>>
      /\ \A n \in 1..m : p[n] = p[n - 1] \o EdgesFrom(list, n - 1)
  BY DEF Sorting
<1> HIDE DEF m
<1>3. 0 \in T
  <2>1. Len(p[0]) = 0 /\ 0 \in 0..m
    BY <1>1, <1>2
  <2> QED
    BY <2>1 DEF Ordered
<1>4. ASSUME NEW n \in 1..m, n - 1 \in T PROVE n \in T
  <2> DEFINE s == p[n - 1]
             t == EdgesFrom(list, n - 1)
             k == n - 1
  <2>1. k \in Nat /\ k \in 0..m /\ n = k + 1 /\ n \in 0..m
    BY <1>1
  <2>2. s \in Seq(V) /\ t \in Seq(V) /\ ToSet(t) = ToSet(list) \cap Of(V, k)
    BY <1>2, <2>1, FromIs
  <2>3. Ordered(s) /\ \A i \in 1..Len(s) : s[i].src < k
    BY <1>4
  <2>4. p[n] = s \o t
    BY <1>2
  <2> HIDE DEF s, t, k
  <2>5. \A i \in 1..Len(t) : t[i].src = k
    <3>1. \A i \in 1..Len(t) : i \in DOMAIN t
      BY <2>2
    <3>2. \A i \in 1..Len(t) : t[i] \in ToSet(t)
      BY <3>1, Zenon DEF ToSet
    <3> QED
      BY <2>2, <3>2 DEF Of
  <2>6. Ordered(s \o t) /\ \A i \in 1..Len(s \o t) : (s \o t)[i].src < k + 1
    BY <2>1, <2>2, <2>3, <2>5, JoinOrdered
  <2>7. Ordered(p[n]) /\ \A i \in 1..Len(p[n]) : p[n][i].src < n
    BY <2>1, <2>4, <2>6
  <2> QED
    BY <2>1, <2>7
<1>5. \A n \in 0..m : n \in T
  <2> HIDE DEF T
  <2> QED
    BY <1>1, <1>3, <1>4, UpTo
<1> QED
  BY <1>5 DEF m

(* The edges of a node are in the list of the first nodes once it is there.*)
(* them, in the order they had.                                            *)
LEMMA SortingIsStable ==
    ASSUME NEW V, NEW list \in Seq(V), NEW p, Sorting(p, V, list), NEW n \in 0..U32Max
    PROVE  Keep(p[U32Max + 1], Of(V, n)) = EdgesFrom(list, n)
<1> DEFINE m == U32Max + 1
           mine == EdgesFrom(list, n)
           T == {k \in 0..m : Keep(p[k], Of(V, n)) = IF n < k THEN mine ELSE <<>>}
<1>1. m \in Nat /\ n \in Nat /\ n < m
  BY U32Assumption
<1>2. /\ p \in [0..m -> Seq(V)] /\ p[0] = <<>>
      /\ \A k \in 1..m : p[k] = p[k - 1] \o EdgesFrom(list, k - 1)
  BY DEF Sorting
<1>3. mine \in Seq(V)
  BY FromIs
<1> HIDE DEF m, mine
<1>4. 0 \in T
  <2>1. 0 \in 0..m /\ ~(n < 0)
    BY <1>1
  <2>2. p[0] \in Seq(V) /\ ToSet(p[0]) = {}
    BY <1>2, <2>1 DEF ToSet
  <2>3. Keep(p[0], Of(V, n)) = <<>>
    BY <2>2, KeepNone
  <2> QED
    BY <2>1, <2>3
<1>5. ASSUME NEW k \in 1..m, k - 1 \in T PROVE k \in T
  <2> DEFINE s == p[k - 1]
             t == EdgesFrom(list, k - 1)
             S == Of(V, n)
  <2>1. k - 1 \in 0..m /\ k \in 0..m
    BY <1>1
  <2>2. s \in Seq(V) /\ t \in Seq(V) /\ ToSet(t) = ToSet(list) \cap Of(V, k - 1)
    BY <1>2, <2>1, FromIs
  <2>3. Keep(s, S) = IF n < k - 1 THEN mine ELSE <<>>
    BY <1>5
  <2>4. p[k] = s \o t
    BY <1>2
  <2>5. k - 1 # n => Keep(t, S) = <<>>
    <3> SUFFICES ASSUME k - 1 # n PROVE Keep(t, S) = <<>>
      OBVIOUS
    <3>1. \A x \in ToSet(t) : x \notin S
      BY <2>2 DEF Of
    <3> HIDE DEF t, S
    <3> QED
      BY <2>2, <3>1, KeepNone
  <2>6. k - 1 = n => Keep(t, S) = mine
    <3> SUFFICES ASSUME k - 1 = n PROVE Keep(t, S) = mine
      OBVIOUS
    <3>1. t = mine /\ \A x \in ToSet(t) : x \in S
      BY <2>2 DEF mine
    <3>2. \A i \in 1..Len(t) : i \in DOMAIN t
      BY <2>2
    <3>3. \A i \in 1..Len(t) : t[i] \in ToSet(t)
      BY <3>2, Zenon DEF ToSet
    <3> HIDE DEF t, S
    <3>4. \A i \in 1..Len(t) : t[i] \in S
      BY <3>1, <3>3
    <3>5. Keep(t, S) = t
      BY <2>2, <3>4, KeepAll
    <3> QED
      BY <3>1, <3>5
  <2> HIDE DEF s, t, S
  <2>7. Keep(p[k], S) = Keep(s, S) \o Keep(t, S)
    BY <2>2, <2>4, KeepConcat
  <2>8. mine \o <<>> = mine /\ <<>> \o mine = mine /\ <<>> \o <<>> = <<>>
    BY <1>3
  <2>9. Keep(p[k], S) = IF n < k THEN mine ELSE <<>>
    <3>1. CASE n < k - 1
      <4>1. n < k /\ k - 1 # n
        BY <1>1, <3>1
      <4>2. Keep(s, S) = mine /\ Keep(t, S) = <<>>
        BY <2>3, <2>5, <3>1, <4>1
      <4> QED
        BY <2>7, <2>8, <4>1, <4>2, Zenon
    <3>2. CASE n = k - 1
      <4>1. n < k /\ k - 1 = n /\ ~(n < k - 1)
        BY <1>1, <3>2
      <4>2. Keep(s, S) = <<>> /\ Keep(t, S) = mine
        BY <2>3, <2>6, <4>1, Zenon
      <4> QED
        BY <2>7, <2>8, <4>1, <4>2, Zenon
    <3>3. CASE n > k - 1
      BY <1>1, <2>3, <2>5, <2>7, <2>8, <3>3
    <3> QED
      BY <1>1, <3>1, <3>2, <3>3
  <2> QED
    BY <2>1, <2>9 DEF S
<1>6. \A k \in 0..m : k \in T
  <2> HIDE DEF T
  <2> QED
    BY <1>1, <1>4, <1>5, UpTo
<1>7. m \in T
  BY <1>1, <1>6
<1> QED
  BY <1>1, <1>7 DEF m, mine

(* The first nodes have as many edges in the sorted list as in the list.   *)
LEMMA SortingKeepsLengths ==
    ASSUME NEW V, \A e \in V : e.src \in Nat, NEW list \in Seq(V), NEW p, Sorting(p, V, list)
    PROVE  \A n \in 0..(U32Max + 1) : Len(p[n]) = Len(Keep(list, Under(V, n)))
<1> DEFINE m == U32Max + 1
           T == {n \in 0..m : Len(p[n]) = Len(Keep(list, Under(V, n)))}
<1>1. m \in Nat
  BY U32Assumption
<1>2. /\ p \in [0..m -> Seq(V)] /\ p[0] = <<>>
      /\ \A n \in 1..m : p[n] = p[n - 1] \o EdgesFrom(list, n - 1)
  BY DEF Sorting
<1>3. \A i \in 1..Len(list) : list[i] \in V /\ list[i].src \in Nat
  BY ListOf
<1> HIDE DEF m
<1>4. 0 \in T
  <2>1. \A x \in ToSet(list) : x \notin Under(V, 0)
    BY DEF Under
  <2>2. Keep(list, Under(V, 0)) = <<>>
    BY <2>1, KeepNone
  <2>3. 0 \in 0..m
    BY <1>1
  <2> QED
    BY <1>2, <2>2, <2>3
<1>5. ASSUME NEW n \in 1..m, n - 1 \in T PROVE n \in T
  <2> DEFINE A == Under(V, n - 1)
             B == Of(V, n - 1)
             C == Under(V, n)
  <2>1. \A i \in 1..Len(list) : /\ list[i] \in C <=> list[i] \in A \/ list[i] \in B
                                /\ ~(list[i] \in A /\ list[i] \in B)
    <3> SUFFICES ASSUME NEW i \in 1..Len(list)
                 PROVE  /\ list[i] \in C <=> list[i] \in A \/ list[i] \in B
                        /\ ~(list[i] \in A /\ list[i] \in B)
      OBVIOUS
    <3>1. list[i] \in V /\ list[i].src \in Nat /\ n \in Nat
      BY <1>1, <1>3
    <3>2. \A x \in Nat : (x < n <=> x < n - 1 \/ x = n - 1) /\ ~(x < n - 1 /\ x = n - 1)
      BY <3>1
    <3> QED
      BY <3>1, <3>2 DEF Under, Of
  <2>2. EdgesFrom(list, n - 1) = Keep(list, B)
    BY FromIs
  <2> HIDE DEF A, B, C
  <2>3. Len(Keep(list, C)) = Len(Keep(list, A)) + Len(Keep(list, B))
    BY <2>1, KeepLengths
  <2>4. n - 1 \in 0..m /\ n \in 0..m
    BY <1>1
  <2>5. p[n - 1] \in Seq(V) /\ EdgesFrom(list, n - 1) \in Seq(V)
    BY <1>2, <2>4, FromIs
  <2>6. \A s, t \in Seq(V) : Len(s \o t) = Len(s) + Len(t)
    OBVIOUS
  <2>7. Len(p[n]) = Len(p[n - 1]) + Len(EdgesFrom(list, n - 1))
    BY <1>2, <2>5, <2>6
  <2>8. Len(p[n - 1]) = Len(Keep(list, A))
    BY <1>5 DEF A
  <2>9. Len(p[n]) = Len(Keep(list, C))
    BY <2>2, <2>3, <2>7, <2>8
  <2> QED
    BY <2>4, <2>9 DEF C
<1>6. \A n \in 0..m : n \in T
  <2> HIDE DEF T
  <2> QED
    BY <1>1, <1>4, <1>5, UpTo
<1> QED
  BY <1>6 DEF m

(* SortedBySource is a stable sort by source.                              *)
LEMMA SortIsStable ==
    ASSUME NEW V, \A e \in V : e.src \in 0..U32Max, NEW list \in Seq(V)
    PROVE  LET s == SortedBySource(list)
           IN  /\ s \in Seq(V) /\ Len(s) = Len(list) /\ Ordered(s)
               /\ \A n \in 0..U32Max : EdgesFrom(s, n) = EdgesFrom(list, n)
<1> DEFINE s == SortedBySource(list)
           m == U32Max + 1
<1>1. m \in Nat /\ m \in 0..m
  BY U32Assumption
<1>2. PICK p : Sorting(p, V, list) /\ s = p[m]
  BY SortUnfolds
<1>3. \A e \in V : e.src \in Nat
  BY U32Assumption
<1>4. s \in Seq(V)
  BY <1>1, <1>2 DEF Sorting
<1>5. Ordered(s)
  BY <1>1, <1>2, <1>3, SortingIsOrdered
<1>6. Len(s) = Len(list)
  <2>1. Len(s) = Len(Keep(list, Under(V, m)))
    BY <1>1, <1>2, <1>3, SortingKeepsLengths
  <2>2. \A i \in 1..Len(list) : list[i] \in Under(V, m)
    <3>1. \A i \in 1..Len(list) : list[i] \in V
      BY ListOf
    <3>2. \A e \in V : e.src < m
      BY U32Assumption
    <3> QED
      BY <3>1, <3>2 DEF Under
  <2>3. Keep(list, Under(V, m)) = list
    BY <2>2, KeepAll
  <2> QED
    BY <2>1, <2>3
<1>7. ASSUME NEW n \in 0..U32Max PROVE EdgesFrom(s, n) = EdgesFrom(list, n)
  <2>1. Keep(s, Of(V, n)) = EdgesFrom(list, n)
    BY <1>2, SortingIsStable
  <2> HIDE DEF s
  <2> QED
    BY <1>4, <2>1, FromIs
<1> HIDE DEF s
<1> QED
  BY <1>4, <1>5, <1>6, <1>7 DEF s

(***************************************************************************)
(* The arrays.                                                             *)
(***************************************************************************)
(* Slices of a sequence, and two of them that meet.                        *)
LEMMA SliceIs ==
    ASSUME NEW V, NEW s \in Seq(V), NEW a \in Nat, NEW b \in Nat, a <= b, b <= Len(s)
    PROVE  LET t == SubSeq(s, a + 1, b)
           IN  t \in Seq(V) /\ Len(t) = b - a /\ \A i \in 1..(b - a) : t[i] = s[a + i]
OBVIOUS

(* Lists with the same items are the same.                                 *)
LEMMA SameLists ==
    ASSUME NEW V, NEW s \in Seq(V), NEW t \in Seq(V), Len(s) = Len(t),
           \A i \in 1..Len(s) : s[i] = t[i]
    PROVE  s = t
OBVIOUS

(* Two slices that meet.                                                   *)
LEMMA SlicesMeet ==
    ASSUME NEW V, NEW s \in Seq(V), NEW a \in Nat, NEW b \in Nat, NEW c \in Nat,
           a <= b, b <= c, c <= Len(s)
    PROVE  SubSeq(s, a + 1, b) \o SubSeq(s, b + 1, c) = SubSeq(s, a + 1, c)
<1> DEFINE x == SubSeq(s, a + 1, b)
           y == SubSeq(s, b + 1, c)
           z == SubSeq(s, a + 1, c)
<1>1. b <= Len(s) /\ a <= c
  BY ListOf
<1>2. /\ x \in Seq(V) /\ Len(x) = b - a /\ \A i \in 1..(b - a) : x[i] = s[a + i]
      /\ y \in Seq(V) /\ Len(y) = c - b /\ \A i \in 1..(c - b) : y[i] = s[b + i]
      /\ z \in Seq(V) /\ Len(z) = c - a /\ \A i \in 1..(c - a) : z[i] = s[a + i]
  BY <1>1, SliceIs
<1> HIDE DEF x, y, z
<1>3. /\ x \o y \in Seq(V) /\ Len(x \o y) = (b - a) + (c - b)
      /\ \A k \in 1..((b - a) + (c - b)) :
            (x \o y)[k] = IF k <= b - a THEN x[k] ELSE y[k - (b - a)]
  <2>1. /\ x \o y \in Seq(V) /\ Len(x \o y) = Len(x) + Len(y)
        /\ \A k \in 1..(Len(x) + Len(y)) :
              (x \o y)[k] = IF k <= Len(x) THEN x[k] ELSE y[k - Len(x)]
    BY <1>2, BothLists
  <2>2. Len(x) = b - a /\ Len(y) = c - b
    BY <1>2
  <2> QED
    BY <2>1, <2>2, Zenon
<1>4. (b - a) + (c - b) = c - a
  OBVIOUS
<1>5. \A k \in 1..(c - a) : (x \o y)[k] = z[k]
  <2> SUFFICES ASSUME NEW k \in 1..(c - a) PROVE (x \o y)[k] = z[k]
    OBVIOUS
  <2>1. CASE k <= b - a
    BY <1>2, <1>3, <1>4, <2>1
  <2>2. CASE ~(k <= b - a)
    <3>1. k - (b - a) \in 1..(c - b) /\ b + (k - (b - a)) = a + k
      BY <2>2
    <3> QED
      BY <1>2, <1>3, <1>4, <2>2, <3>1
  <2> QED
    BY <2>1, <2>2
<1>6. x \o y = z
  BY <1>2, <1>3, <1>4, <1>5, SameLists
<1> QED
  BY <1>6 DEF x, y, z

(* The slice that is the whole list.                                       *)
LEMMA SliceAll ==
    ASSUME NEW V, NEW s \in Seq(V)
    PROVE  SubSeq(s, 1, Len(s)) = s
OBVIOUS

(* A filter that passes the first j elements and no others.                *)
LEMMA KeepFirst ==
    ASSUME NEW V, NEW s \in Seq(V), NEW j \in Nat, j <= Len(s), NEW S,
           \A i \in 1..Len(s) : s[i] \in S <=> i <= j
    PROVE  Len(Keep(s, S)) = j
<1> DEFINE m == Len(s)
           x == SubSeq(s, 0 + 1, j)
           y == SubSeq(s, j + 1, m)
<1>0. m \in Nat /\ m <= Len(s) /\ 0 \in Nat /\ 0 <= j /\ j <= m
  BY ListOf
<1>1. /\ x \in Seq(V) /\ Len(x) = j /\ \A i \in 1..j : x[i] = s[i]
      /\ y \in Seq(V) /\ Len(y) = m - j /\ \A i \in 1..(m - j) : y[i] = s[j + i]
  <2>1. x \in Seq(V) /\ Len(x) = j - 0 /\ \A i \in 1..(j - 0) : x[i] = s[0 + i]
    BY <1>0, SliceIs
  <2>2. y \in Seq(V) /\ Len(y) = m - j /\ \A i \in 1..(m - j) : y[i] = s[j + i]
    BY <1>0, SliceIs
  <2>3. j - 0 = j /\ \A i \in 1..j : 0 + i = i
    OBVIOUS
  <2> HIDE DEF x, y
  <2> QED
    BY <2>1, <2>2, <2>3
<1>2. x \o y = s
  <2> HIDE DEF m
  <2>1. SubSeq(s, 0 + 1, j) \o SubSeq(s, j + 1, m) = SubSeq(s, 0 + 1, m)
    BY <1>0, SlicesMeet
  <2>2. 0 + 1 = 1 /\ SubSeq(s, 1, m) = s
    BY SliceAll DEF m
  <2> QED
    BY <2>1, <2>2
<1> HIDE DEF x, y
<1>3. Keep(x, S) = x
  <2>1. \A i \in 1..Len(x) : x[i] \in S
    BY <1>0, <1>1
  <2>2. x \in Seq(V)
    BY <1>1
  <2> QED
    BY <2>1, <2>2, KeepAll
<1>4. Keep(y, S) = <<>>
  <2>1. \A i \in 1..(m - j) : y[i] \notin S
    <3> SUFFICES ASSUME NEW i \in 1..(m - j) PROVE y[i] \notin S
      OBVIOUS
    <3>1. j + i \in 1..m /\ ~(j + i <= j)
      BY <1>0
    <3> QED
      BY <1>1, <3>1
  <2>2. \A z \in ToSet(y) : z \notin S
    <3>1. DOMAIN y = 1..(m - j)
      BY <1>1, ListOf
    <3> QED
      BY <2>1, <3>1 DEF ToSet
  <2>3. y \in Seq(V)
    BY <1>1
  <2> QED
    BY <2>2, <2>3, KeepNone
<1>5. Keep(s, S) = x
  <2>1. x \in Seq(V) /\ y \in Seq(V) /\ x \o <<>> = x
    BY <1>1
  <2>2. Keep(x \o y, S) = Keep(x, S) \o Keep(y, S)
    BY <2>1, KeepConcat
  <2> QED
    BY <1>2, <1>3, <1>4, <2>1, <2>2
<1> QED
  BY <1>1, <1>5

(* In an ordered list the edges of the nodes before n come first.          *)
LEMMA BelowIsPrefix ==
    ASSUME NEW V, \A e \in V : e.src \in Nat, NEW s \in Seq(V), Ordered(s), NEW n \in Nat
    PROVE  LET b == Len(EdgesBelow(s, n))
           IN  b \in 0..Len(s) /\ \A i \in 1..Len(s) : i <= b <=> s[i].src < n
<1> DEFINE m == Len(s)
           late == {i \in 1..m : ~(s[i].src < n)} \cup {m + 1}
           S == Under(V, n)
<1>1. m \in Nat /\ \A i \in 1..m : s[i] \in V /\ s[i].src \in Nat
  BY ListOf
<1>2. PICK d \in late : \A i \in late : d <= i
  <2>1. late \in SUBSET Nat /\ late # {}
    BY <1>1
  <2> QED
    BY <2>1, LeastNat
<1> DEFINE c == d - 1
<1>3. c \in Nat /\ c <= m /\ d = c + 1
  BY <1>1, <1>2
<1>4. \A i \in 1..m : i <= c <=> s[i].src < n
  <2> SUFFICES ASSUME NEW i \in 1..m PROVE i <= c <=> s[i].src < n
    OBVIOUS
  <2>1. CASE i <= c
    <3>1. i \notin late
      BY <1>2, <1>3, <2>1
    <3> QED
      BY <2>1, <3>1
  <2>2. CASE ~(i <= c)
    <3>1. d \in 1..m /\ ~(s[d].src < n) /\ d <= i
      BY <1>1, <1>2, <1>3, <2>2
    <3>2. s[d].src <= s[i].src /\ s[d].src \in Nat /\ s[i].src \in Nat
      BY <1>1, <3>1 DEF Ordered
    <3> QED
      BY <2>2, <3>1, <3>2
  <2> QED
    BY <2>1, <2>2
<1> HIDE DEF late, c
<1>5. Len(Keep(s, S)) = c
  <2>1. \A i \in 1..Len(s) : s[i] \in S <=> i <= c
    BY <1>1, <1>4 DEF Under
  <2> HIDE DEF S
  <2> QED
    BY <1>3, <2>1, KeepFirst
<1>6. Len(EdgesBelow(s, n)) = c
  BY <1>5, FromIs
<1> QED
  BY <1>1, <1>3, <1>4, <1>6

\* Up to place k, the first b edges are of nodes before n, the others of n.
Splits(s, n, b, k) ==
    \A i \in 1..k : (i <= b <=> s[i].src < n) /\ (i > b => s[i].src = n)

(* Among the edges up to some place, those of a node are the slice behind  *)
(* the edges of the nodes before it.                                       *)
LEMMA RowIsSlice ==
    ASSUME NEW V, \A e \in V : e.src \in Nat, NEW s \in Seq(V), Ordered(s), NEW n \in Nat,
           NEW b \in Nat, NEW k \in Nat, b <= k, k <= Len(s), Splits(s, n, b, k)
    PROVE  EdgesFrom(SubSeq(s, 1, k), n) = SubSeq(s, b + 1, k)
<1> DEFINE x == SubSeq(s, 0 + 1, b)
           y == SubSeq(s, b + 1, k)
           z == SubSeq(s, 0 + 1, k)
           S == Of(V, n)
<1>1. /\ x \in Seq(V) /\ Len(x) = b /\ \A i \in 1..b : x[i] = s[i]
      /\ y \in Seq(V) /\ Len(y) = k - b /\ \A i \in 1..(k - b) : y[i] = s[b + i]
      /\ z \in Seq(V)
  <2>1. 0 \in Nat /\ 0 <= b /\ b - 0 = b /\ (\A i \in 1..b : 0 + i = i) /\ b <= Len(s) /\ 0 <= k
    BY ListOf
  <2>2. x \in Seq(V) /\ Len(x) = b - 0 /\ \A i \in 1..(b - 0) : x[i] = s[0 + i]
    BY <2>1, SliceIs
  <2>3. y \in Seq(V) /\ Len(y) = k - b /\ \A i \in 1..(k - b) : y[i] = s[b + i]
    BY <2>1, SliceIs
  <2>4. z \in Seq(V)
    BY <2>1, SliceIs
  <2> HIDE DEF x, y, z
  <2> QED
    BY <2>1, <2>2, <2>3, <2>4
<1>2. x \o y = z
  <2>1. 0 \in Nat /\ 0 <= b
    OBVIOUS
  <2> QED
    BY <2>1, SlicesMeet
<1>3. z = SubSeq(s, 1, k)
  OBVIOUS
<1> HIDE DEF x, y, z
<1>4. Keep(x, S) = <<>>
  <2>1. \A i \in 1..b : x[i] \notin S
    <3> SUFFICES ASSUME NEW i \in 1..b PROVE x[i] \notin S
      OBVIOUS
    <3>1. i \in 1..k /\ i <= b
      OBVIOUS
    <3>2. x[i].src < n
      BY <1>1, <3>1 DEF Splits
    <3> QED
      BY <3>2 DEF Of
  <2>2. \A e \in ToSet(x) : e \notin S
    <3>1. DOMAIN x = 1..b
      BY <1>1, ListOf
    <3> QED
      BY <2>1, <3>1 DEF ToSet
  <2> HIDE DEF S
  <2> QED
    BY <1>1, <2>2, KeepNone
<1>5. Keep(y, S) = y
  <2>1. \A i \in 1..(k - b) : y[i] \in S
    <3> SUFFICES ASSUME NEW i \in 1..(k - b) PROVE y[i] \in S
      OBVIOUS
    <3>1. b + i \in 1..k /\ b + i > b
      OBVIOUS
    <3>2. y[i] \in V
      BY <1>1, ListOf
    <3> QED
      BY <1>1, <3>1, <3>2 DEF Of, Splits
  <2> HIDE DEF S
  <2> QED
    BY <1>1, <2>1, KeepAll
<1>6. Keep(z, S) = y
  <2> HIDE DEF S
  <2>0. x \in Seq(V) /\ y \in Seq(V)
    BY <1>1
  <2>1. Keep(x \o y, S) = Keep(x, S) \o Keep(y, S)
    BY <2>0, KeepConcat
  <2>2. <<>> \o y = y
    BY <1>1
  <2> QED
    BY <1>2, <1>4, <1>5, <2>1, <2>2
<1>7. EdgesFrom(z, n) = y
  BY <1>1, <1>6, FromIs
<1> QED
  BY <1>3, <1>7 DEF y

\* The lists that build_csr_arrays takes: ordered, of nodes below a bound.
InOrder(V, s, nodes) ==
    /\ s \in Seq(V) /\ Ordered(s)
    /\ nodes \in Nat \ {0}
    /\ \A e \in V : e.src \in Nat
    /\ \A i \in 1..Len(s) : s[i].src < nodes

(* Row pointers lead from the first edge to behind the last.               *)
LEMMA PointersAreOffsets ==
    ASSUME NEW V, NEW s, NEW nodes, InOrder(V, s, nodes)
    PROVE  LET rowPtrs == RowPtrs(s, nodes)
           IN  /\ \A n \in 0..nodes :
                     /\ rowPtrs[n] = Len(EdgesBelow(s, n)) /\ rowPtrs[n] \in 0..Len(s)
                     /\ \A i \in 1..Len(s) : i <= rowPtrs[n] <=> s[i].src < n
               /\ \A n, k \in 0..nodes : n <= k => rowPtrs[n] <= rowPtrs[k]
               /\ rowPtrs[nodes] = Len(s)
<1> DEFINE p == RowPtrs(s, nodes)
           m == Len(s)
<1>1. /\ s \in Seq(V) /\ Ordered(s) /\ nodes \in Nat /\ m \in Nat
      /\ (\A e \in V : e.src \in Nat)
      /\ \A i \in 1..m : s[i].src < nodes /\ s[i].src \in Nat
  <2>1. s \in Seq(V) /\ Ordered(s) /\ nodes \in Nat /\ \A e \in V : e.src \in Nat
    BY DEF InOrder
  <2>2. m \in Nat /\ \A i \in 1..m : s[i] \in V
    BY <2>1, ListOf
  <2> QED
    BY <2>1, <2>2 DEF InOrder
<1>2. \A n \in 0..nodes : p[n] = Len(EdgesBelow(s, n))
  BY DEF RowPtrs
<1>3. ASSUME NEW n \in 0..nodes
      PROVE  p[n] \in 0..m /\ \A i \in 1..m : i <= p[n] <=> s[i].src < n
  <2>1. n \in Nat
    BY <1>1
  <2>2. LET b == Len(EdgesBelow(s, n))
        IN  b \in 0..Len(s) /\ \A i \in 1..Len(s) : i <= b <=> s[i].src < n
    BY <1>1, <2>1, BelowIsPrefix
  <2> HIDE DEF p
  <2> QED
    BY <1>2, <2>2
<1> HIDE DEF p, m
<1>4. ASSUME NEW n \in 0..nodes, NEW k \in 0..nodes, n <= k PROVE p[n] <= p[k]
  <2> SUFFICES ASSUME ~(p[n] <= p[k]) PROVE FALSE
    OBVIOUS
  <2>1. p[n] \in 1..m /\ p[k] \in 0..m /\ ~(p[n] <= p[k])
    BY <1>1, <1>3
  <2>2. s[p[n]].src < n /\ ~(s[p[n]].src < k)
    <3>1. p[n] <= p[n]
      BY <2>1
    <3> QED
      BY <1>3, <2>1, <3>1
  <2>3. s[p[n]].src \in Nat
    BY <1>1, <2>1
  <2> QED
    BY <1>1, <1>4, <2>2, <2>3
<1>5. p[nodes] = m
  <2>1. nodes \in 0..nodes
    BY <1>1
  <2>2. p[nodes] \in 0..m /\ \A i \in 1..m : i <= p[nodes]
    BY <1>1, <1>3, <2>1
  <2>3. m = 0 \/ m \in 1..m
    BY <1>1
  <2> QED
    BY <1>1, <2>2, <2>3
<1> QED
  BY <1>2, <1>3, <1>4, <1>5 DEF p, m

(* The edges of a node are where its row pointers say.                     *)
LEMMA RowOfNode ==
    ASSUME NEW V, NEW s, NEW nodes, InOrder(V, s, nodes), NEW n \in 0..(nodes - 1)
    PROVE  LET rowPtrs == RowPtrs(s, nodes)
           IN  SubSeq(s, rowPtrs[n] + 1, rowPtrs[n + 1]) = EdgesFrom(s, n)
<1> DEFINE p == RowPtrs(s, nodes)
           b == p[n]
           k == p[n + 1]
           m == Len(s)
<1>1. /\ s \in Seq(V) /\ Ordered(s) /\ nodes \in Nat /\ m \in Nat
      /\ (\A e \in V : e.src \in Nat)
      /\ \A i \in 1..m : s[i].src \in Nat
  <2>1. s \in Seq(V) /\ Ordered(s) /\ nodes \in Nat /\ \A e \in V : e.src \in Nat
    BY DEF InOrder
  <2>2. m \in Nat /\ \A i \in 1..m : s[i] \in V
    BY <2>1, ListOf
  <2> QED
    BY <2>1, <2>2
<1>2. n \in Nat /\ n \in 0..nodes /\ n + 1 \in 0..nodes /\ n <= n + 1
  BY <1>1
<1>3. /\ b \in 0..m /\ k \in 0..m /\ b <= k
      /\ \A i \in 1..m : i <= b <=> s[i].src < n
      /\ \A i \in 1..m : i <= k <=> s[i].src < n + 1
  BY <1>2, PointersAreOffsets
<1> HIDE DEF p, b, k, m
<1>4. ASSUME NEW i \in 1..m
      PROVE  /\ i <= b <=> s[i].src < n
             /\ b < i /\ i <= k <=> s[i].src = n
  <2>1. s[i].src \in Nat /\ b \in Nat /\ k \in Nat
    BY <1>1, <1>3
  <2> QED
    BY <1>2, <1>3, <2>1
<1> DEFINE x == SubSeq(s, 1, k)
           y == SubSeq(s, k + 1, m)
<1>5. EdgesFrom(x, n) = SubSeq(s, b + 1, k)
  <2>1. b \in Nat /\ k \in Nat /\ k <= Len(s) /\ b <= k
    BY <1>1, <1>3 DEF m
  <2>2. Splits(s, n, b, k)
    <3> SUFFICES ASSUME NEW i \in 1..k PROVE (i <= b <=> s[i].src < n) /\ (i > b => s[i].src = n)
      BY DEF Splits
    <3>1. i \in 1..m /\ i <= k /\ (i > b => b < i)
      BY <1>1, <1>3
    <3> QED
      BY <1>4, <3>1
  <2>3. \A c, d \in Nat : c <= d /\ d <= Len(s) /\ Splits(s, n, c, d)
            => EdgesFrom(SubSeq(s, 1, d), n) = SubSeq(s, c + 1, d)
    <3> SUFFICES ASSUME NEW c \in Nat, NEW d \in Nat, c <= d, d <= Len(s), Splits(s, n, c, d)
                 PROVE  EdgesFrom(SubSeq(s, 1, d), n) = SubSeq(s, c + 1, d)
      OBVIOUS
    <3> QED
      BY <1>1, <1>2, RowIsSlice
  <2> QED
    BY <2>1, <2>2, <2>3, Zenon
<1>6. /\ x \in Seq(V) /\ y \in Seq(V) /\ Len(y) = m - k
      /\ \A i \in 1..(m - k) : y[i] = s[k + i]
  <2>1. 0 \in Nat /\ 0 + 1 = 1 /\ k \in Nat /\ 0 <= k /\ k <= Len(s) /\ Len(s) <= Len(s) /\ Len(s) = m
    BY <1>1, <1>3 DEF m
  <2>2. SubSeq(s, 0 + 1, k) \in Seq(V)
    BY <1>1, <2>1, SliceIs
  <2>3. y \in Seq(V) /\ Len(y) = m - k /\ \A i \in 1..(m - k) : y[i] = s[k + i]
    BY <1>1, <2>1, SliceIs DEF m
  <2> QED
    BY <2>1, <2>2, <2>3
<1>7. x \o y = s
  <2>1. 0 \in Nat /\ k \in Nat /\ m \in Nat /\ 0 <= k /\ k <= m /\ m <= Len(s)
    BY <1>1, <1>3 DEF m
  <2>2. SubSeq(s, 0 + 1, k) \o SubSeq(s, k + 1, m) = SubSeq(s, 0 + 1, m)
    BY <1>1, <2>1, SlicesMeet
  <2>3. 0 + 1 = 1 /\ SubSeq(s, 1, m) = s
    BY <1>1, SliceAll DEF m
  <2> QED
    BY <2>2, <2>3
<1> HIDE DEF x, y
<1>8. EdgesFrom(y, n) = <<>>
  <2> DEFINE S == Of(V, n)
  <2>1. \A i \in 1..(m - k) : y[i] \notin S
    <3> SUFFICES ASSUME NEW i \in 1..(m - k) PROVE y[i] \notin S
      OBVIOUS
    <3>1. k + i \in 1..m /\ ~(k + i <= k)
      BY <1>1, <1>3
    <3>2. s[k + i].src # n
      BY <1>4, <3>1
    <3> QED
      BY <1>6, <3>2 DEF Of
  <2>2. \A e \in ToSet(y) : e \notin S
    <3>1. DOMAIN y = 1..(m - k)
      BY <1>6, ListOf
    <3> QED
      BY <2>1, <3>1 DEF ToSet
  <2> HIDE DEF S
  <2>3. Keep(y, S) = <<>>
    BY <1>6, <2>2, KeepNone
  <2> QED
    BY <1>6, <2>3, FromIs DEF S
<1>9. EdgesFrom(s, n) = EdgesFrom(x, n) \o EdgesFrom(y, n)
  <2> DEFINE S == Of(V, n)
  <2>1. EdgesFrom(s, n) = Keep(s, S) /\ EdgesFrom(x, n) = Keep(x, S) /\ EdgesFrom(y, n) = Keep(y, S)
    BY <1>1, <1>6, FromIs
  <2> HIDE DEF S
  <2>2. Keep(x \o y, S) = Keep(x, S) \o Keep(y, S)
    BY <1>6, KeepConcat
  <2> QED
    BY <1>7, <2>1, <2>2
<1>10. EdgesFrom(x, n) \in Seq(V)
  BY <1>6, FromIs
<1>11. EdgesFrom(x, n) \o <<>> = EdgesFrom(x, n)
  BY <1>10
<1>12. EdgesFrom(s, n) = SubSeq(s, b + 1, k)
  BY <1>5, <1>8, <1>9, <1>11
<1> QED
  BY <1>12 DEF b, k, p

(* The k-th edge of an ordered list goes to the k-th slot: nothing moves.  *)
LEMMA ColumnsAreSorted ==
    ASSUME NEW V, NEW s, NEW nodes, InOrder(V, s, nodes)
    PROVE  Columns(s, RowPtrs(s, nodes)) = s
<1> DEFINE p == RowPtrs(s, nodes)
           m == Len(s)
<1>1. /\ s \in Seq(V) /\ Ordered(s) /\ nodes \in Nat /\ m \in Nat /\ DOMAIN s = 1..m
      /\ (\A e \in V : e.src \in Nat)
      /\ \A i \in 1..m : s[i].src \in 0..(nodes - 1)
  <2>1. s \in Seq(V) /\ Ordered(s) /\ nodes \in Nat /\ \A e \in V : e.src \in Nat
    BY DEF InOrder
  <2>2. m \in Nat /\ DOMAIN s = 1..m /\ \A i \in 1..m : s[i] \in V
    BY <2>1, ListOf
  <2>3. \A i \in 1..m : s[i].src < nodes
    BY DEF InOrder
  <2> QED
    BY <2>1, <2>2, <2>3
<1>2. \A n \in 0..nodes : p[n] \in 0..m /\ \A i \in 1..m : i <= p[n] <=> s[i].src < n
  BY PointersAreOffsets
<1> HIDE DEF p
<1>3. ASSUME NEW k \in 1..m PROVE Slot(s, p, k) = k - 1
  <2> DEFINE n == s[k].src
             b == p[n]
             j == k - 1
             x == SubSeq(s, 1, j)
  <2>1. n \in Nat /\ n \in 0..nodes /\ j \in Nat /\ j <= m /\ k \in 1..m /\ j = k - 1
    BY <1>1
  <2>2. b \in 0..m /\ \A i \in 1..m : i <= b <=> s[i].src < n
    BY <1>2, <2>1
  <2>3. b \in Nat /\ b <= j
    <3>1. ~(k <= b)
      BY <1>1, <2>2
    <3> QED
      BY <1>1, <2>1, <2>2, <3>1
  <2>4. ASSUME NEW i \in 1..j PROVE (i <= b <=> s[i].src < n) /\ (i > b => s[i].src = n)
    <3>1. i \in 1..m /\ i <= k /\ s[i].src \in Nat
      BY <1>1, <2>1
    <3>2. s[i].src <= n
      BY <1>1, <3>1 DEF Ordered
    <3> HIDE DEF n
    <3> QED
      BY <2>1, <2>2, <2>3, <3>1, <3>2
  <2> HIDE DEF n, b, j
  <2>5. EdgesFrom(x, n) = SubSeq(s, b + 1, j)
    <3>1. Splits(s, n, b, j)
      BY <2>4 DEF Splits
    <3>2. \A c, d \in Nat : c <= d /\ d <= Len(s) /\ Splits(s, n, c, d)
              => EdgesFrom(SubSeq(s, 1, d), n) = SubSeq(s, c + 1, d)
      <4> SUFFICES ASSUME NEW c \in Nat, NEW d \in Nat, c <= d, d <= Len(s), Splits(s, n, c, d)
                   PROVE  EdgesFrom(SubSeq(s, 1, d), n) = SubSeq(s, c + 1, d)
        OBVIOUS
      <4> QED
        BY <1>1, <2>1, RowIsSlice
    <3> QED
      BY <2>1, <2>3, <3>1, <3>2, Zenon
  <2>6. Len(SubSeq(s, b + 1, j)) = j - b
    BY <1>1, <2>1, <2>3, SliceIs
  <2>7. Slot(s, p, k) = b + Len(EdgesFrom(x, n))
    BY DEF Slot, n, b, j
  <2>8. b + (j - b) = j
    BY <2>1, <2>3
  <2>9. Slot(s, p, k) = j
    BY <2>5, <2>6, <2>7, <2>8
  <2> QED
    BY <2>9 DEF j
<1>4. ASSUME NEW i \in 1..m PROVE (CHOOSE k \in DOMAIN s : Slot(s, p, k) = i - 1) = i
  <2>1. \A k \in DOMAIN s : Slot(s, p, k) = i - 1 <=> k = i
    <3>1. \A k \in 1..m : k - 1 = i - 1 <=> k = i
      BY <1>1
    <3> QED
      BY <1>1, <1>3, <3>1
  <2> QED
    BY <1>1, <2>1
<1> DEFINE place(i) == CHOOSE k \in DOMAIN s : Slot(s, p, k) = i - 1
           c == Columns(s, p)
<1>5. c = [i \in 1..m |-> s[place(i)]]
  BY DEF Columns
<1>6. \A i \in 1..m : place(i) = i
  BY <1>4
<1> HIDE DEF place, c
<1>7. c = [i \in 1..m |-> s[i]]
  BY <1>5, <1>6
<1>8. s = [i \in 1..m |-> s[i]]
  BY <1>1
<1> QED
  BY <1>7, <1>8 DEF c, p

(***************************************************************************)
(* Shards.                                                                 *)
(***************************************************************************)
(* Induction from a bound downwards.                                       *)
LEMMA DownTo ==
    ASSUME NEW n \in Nat, NEW T, n \in T,
           \A i \in 0..(n - 1) : (\A k \in (i + 1)..n : k \in T) => i \in T
    PROVE  \A i \in 0..n : i \in T
<1> DEFINE S == {k \in 0..n : \A i \in (n - k)..n : i \in T}
<1>1. 0 \in S
  OBVIOUS
<1>2. ASSUME NEW k \in 1..n, k - 1 \in S PROVE k \in S
  <2> DEFINE i == n - k
  <2>1. i \in 0..(n - 1) /\ n - (k - 1) = i + 1
    OBVIOUS
  <2>2. \A h \in (i + 1)..n : h \in T
    BY <1>2, <2>1
  <2>3. i \in T
    BY <2>1, <2>2
  <2>4. \A h \in i..n : h = i \/ h \in (i + 1)..n
    BY <2>1
  <2> QED
    BY <2>2, <2>3, <2>4
<1>3. \A k \in 0..n : k \in S
  <2> HIDE DEF S
  <2> QED
    BY <1>1, <1>2, UpTo
<1>4. n \in S /\ n - n = 0
  BY <1>3
<1> QED
  BY <1>4

\* A list of cuts from node first to the end.
IsCut(c, ends, nodes, first) ==
    /\ c \in Seq(0..nodes) /\ Len(c) >= 1
    /\ c[1] = first /\ c[Len(c)] = nodes
    /\ \A i \in 1..(Len(c) - 1) : c[i] < nodes /\ c[i + 1] = ends[c[i]]

CutFrom(f, ends, nodes, n) == IF n = nodes THEN <<n>> ELSE <<n>> \o f[ends[n]]

CutsOf(f, ends, nodes) == f = [n \in 0..nodes |-> CutFrom(f, ends, nodes, n)]

\* Such a function, from node low on.
CutsFrom(f, ends, nodes, low) ==
    /\ f = [n \in low..nodes |-> f[n]]
    /\ \A n \in low..nodes : f[n] = CutFrom(f, ends, nodes, n)

(* There is a list of cuts from every node.                                *)
LEMMA CutsExist ==
    ASSUME NEW nodes \in Nat, NEW ends, \A n \in 0..(nodes - 1) : ends[n] \in (n + 1)..nodes
    PROVE  \E f : CutsOf(f, ends, nodes)
<1> DEFINE T == {k \in 0..nodes : \E f : CutsFrom(f, ends, nodes, k)}
<1>1. nodes \in T
  <2> DEFINE f == [n \in nodes..nodes |-> <<n>>]
  <2>1. f = [n \in nodes..nodes |-> f[n]]
    OBVIOUS
  <2>2. \A n \in nodes..nodes : f[n] = <<n>> /\ n = nodes
    OBVIOUS
  <2> HIDE DEF f
  <2>3. CutsFrom(f, ends, nodes, nodes)
    BY <2>1, <2>2 DEF CutsFrom, CutFrom
  <2> QED
    BY <2>3
<1>2. ASSUME NEW i \in 0..(nodes - 1), \A k \in (i + 1)..nodes : k \in T PROVE i \in T
  <2>1. i + 1 \in (i + 1)..nodes /\ i \in 0..nodes
    OBVIOUS
  <2>2. PICK f : CutsFrom(f, ends, nodes, i + 1)
    BY <1>2, <2>1
  <2> DEFINE g == [n \in i..nodes |-> IF n = i THEN CutFrom(f, ends, nodes, i) ELSE f[n]]
  <2>3. g = [n \in i..nodes |-> g[n]]
    OBVIOUS
  <2>4. g[i] = CutFrom(f, ends, nodes, i) /\ \A n \in (i + 1)..nodes : g[n] = f[n]
    OBVIOUS
  <2> HIDE DEF g
  <2>5. ASSUME NEW n \in i..nodes PROVE g[n] = CutFrom(g, ends, nodes, n)
    <3>1. n = nodes \/ ends[n] \in (i + 1)..nodes
      <4> SUFFICES ASSUME n # nodes PROVE ends[n] \in (i + 1)..nodes
        OBVIOUS
      <4>1. n \in 0..(nodes - 1)
        OBVIOUS
      <4>2. ends[n] \in (n + 1)..nodes
        BY <4>1
      <4> QED
        BY <4>2
    <3>2. CutFrom(g, ends, nodes, n) = CutFrom(f, ends, nodes, n)
      BY <2>4, <3>1 DEF CutFrom
    <3>3. n = i \/ n \in (i + 1)..nodes
      OBVIOUS
    <3> QED
      BY <2>2, <2>4, <3>2, <3>3 DEF CutsFrom
  <2>6. CutsFrom(g, ends, nodes, i)
    BY <2>3, <2>5 DEF CutsFrom
  <2> QED
    BY <2>1, <2>6
<1>3. \A i \in 0..nodes : i \in T
  <2> HIDE DEF T
  <2> QED
    BY <1>1, <1>2, DownTo
<1>4. PICK f : CutsFrom(f, ends, nodes, 0)
  BY <1>3
<1>5. f = [n \in 0..nodes |-> CutFrom(f, ends, nodes, n)]
  BY <1>4, Zenon DEF CutsFrom
<1> QED
  BY <1>5 DEF CutsOf

(* One more cut in front.                                                  *)
LEMMA CutBefore ==
    ASSUME NEW nodes \in Nat, NEW ends, NEW n \in 0..(nodes - 1), NEW c,
           IsCut(c, ends, nodes, ends[n])
    PROVE  IsCut(<<n>> \o c, ends, nodes, n)
<1> DEFINE N == 0..nodes
           one == <<n>>
           d == one \o c
           m == Len(c)
<1>1. one \in Seq(N) /\ Len(one) = 1 /\ one[1] = n
  OBVIOUS
<1>2. c \in Seq(N) /\ m \in Nat /\ m >= 1 /\ c[1] = ends[n] /\ c[m] = nodes
  BY ListOf DEF IsCut
<1>3. \A i \in 1..(m - 1) : c[i] < nodes /\ c[i + 1] = ends[c[i]]
  BY DEF IsCut
<1> HIDE DEF one
<1>4. /\ d \in Seq(N) /\ Len(d) = Len(one) + Len(c)
      /\ \A k \in 1..(Len(one) + Len(c)) : d[k] = IF k <= Len(one) THEN one[k] ELSE c[k - Len(one)]
  <2> HIDE DEF N
  <2> QED
    BY <1>1, <1>2, BothLists
<1> HIDE DEF d, m, N
<1>5. d[1] = n /\ \A k \in 1..m : d[k + 1] = c[k]
  <2>1. d[1] = n
    BY <1>1, <1>2, <1>4 DEF m
  <2>2. ASSUME NEW k \in 1..m PROVE d[k + 1] = c[k]
    <3>1. k + 1 \in 1..(1 + m) /\ ~(k + 1 <= 1) /\ (k + 1) - 1 = k
      BY <1>2
    <3> QED
      BY <1>1, <1>4, <3>1 DEF m
  <2> QED
    BY <2>1, <2>2
<1>6. Len(d) = m + 1 /\ Len(d) >= 1 /\ d[Len(d)] = nodes
  <2>1. Len(d) = m + 1
    BY <1>1, <1>2, <1>4 DEF m
  <2>2. m \in 1..m
    BY <1>2
  <2> QED
    BY <1>2, <1>5, <2>1, <2>2
<1>7. ASSUME NEW i \in 1..m PROVE d[i] < nodes /\ d[i + 1] = ends[d[i]]
  <2>1. CASE i = 1
    BY <1>2, <1>5, <2>1
  <2>2. CASE i # 1
    <3>1. i - 1 \in 1..(m - 1) /\ i - 1 \in 1..m /\ (i - 1) + 1 = i
      BY <1>2, <2>2
    <3>2. d[i] = c[i - 1] /\ d[i + 1] = c[i]
      BY <1>5, <3>1
    <3> QED
      BY <1>3, <3>1, <3>2
  <2> QED
    BY <2>1, <2>2
<1>8. (m + 1) - 1 = m
  BY <1>2
<1> QED
  BY <1>4, <1>5, <1>6, <1>7, <1>8 DEF IsCut, d, N, one

(* Cuts leads from the first node to the end, from shard to shard.         *)
LEMMA CutsAreCut ==
    ASSUME NEW nodes \in Nat, NEW ends, \A n \in 0..(nodes - 1) : ends[n] \in (n + 1)..nodes
    PROVE  IsCut(Cuts(ends, nodes), ends, nodes, 0)
<1> DEFINE g == CHOOSE f : CutsOf(f, ends, nodes)
<1>1. CutsOf(g, ends, nodes)
  BY CutsExist
<1>2. Cuts(ends, nodes) = g[0]
  BY Zenon DEF Cuts, CutsOf, CutFrom
<1> HIDE DEF g
<1>3. \A n \in 0..nodes : g[n] = CutFrom(g, ends, nodes, n)
  BY <1>1, Zenon DEF CutsOf
<1> DEFINE T == {n \in 0..nodes : IsCut(g[n], ends, nodes, n)}
<1>4. nodes \in T
  <2> DEFINE c == <<nodes>>
  <2>1. c \in Seq(0..nodes) /\ Len(c) = 1 /\ c[1] = nodes
    OBVIOUS
  <2>2. g[nodes] = c
    <3>1. nodes \in 0..nodes
      OBVIOUS
    <3>2. g[nodes] = CutFrom(g, ends, nodes, nodes)
      BY <1>3, <3>1
    <3> QED
      BY <3>2, Zenon DEF CutFrom
  <2> HIDE DEF c
  <2>3. IsCut(c, ends, nodes, nodes)
    BY <2>1 DEF IsCut
  <2> QED
    BY <2>2, <2>3
<1>5. ASSUME NEW i \in 0..(nodes - 1), \A k \in (i + 1)..nodes : k \in T PROVE i \in T
  <2>1. ends[i] \in T
    BY <1>5
  <2>2. IsCut(g[ends[i]], ends, nodes, ends[i])
    BY <2>1
  <2>3. i \in 0..nodes /\ i # nodes
    OBVIOUS
  <2>4. g[i] = <<i>> \o g[ends[i]]
    BY <1>3, <2>3 DEF CutFrom
  <2>5. IsCut(<<i>> \o g[ends[i]], ends, nodes, i)
    BY <2>2, CutBefore
  <2> QED
    BY <2>3, <2>4, <2>5
<1>6. \A i \in 0..nodes : i \in T
  <2> HIDE DEF T
  <2> QED
    BY <1>4, <1>5, DownTo
<1>7. 0 \in T
  BY <1>6
<1> QED
  BY <1>2, <1>7

(* Cuts grow, so every node is in one shard.                               *)
LEMMA CutsGrow ==
    ASSUME NEW nodes \in Nat, NEW ends, \A n \in 0..(nodes - 1) : ends[n] \in (n + 1)..nodes,
           NEW c, IsCut(c, ends, nodes, 0)
    PROVE  /\ \A i \in 1..Len(c) : c[i] \in 0..nodes
           /\ \A i \in 1..(Len(c) - 1) : c[i] < c[i + 1]
           /\ \A i, j \in 1..Len(c) : i < j => c[i] < c[j]
<1> DEFINE m == Len(c)
<1>1. m \in Nat /\ m >= 1 /\ \A i \in 1..m : c[i] \in 0..nodes
  BY ListOf DEF IsCut
<1>2. \A i \in 1..(m - 1) : c[i] < c[i + 1]
  <2> SUFFICES ASSUME NEW i \in 1..(m - 1) PROVE c[i] < c[i + 1]
    OBVIOUS
  <2>1. c[i] < nodes /\ c[i + 1] = ends[c[i]]
    BY DEF IsCut
  <2>2. c[i] \in 0..nodes
    BY <1>1
  <2>3. ends[c[i]] \in (c[i] + 1)..nodes
    BY <2>1, <2>2
  <2> QED
    BY <2>1, <2>2, <2>3
<1> HIDE DEF m
<1>3. ASSUME NEW i \in 1..m PROVE \A j \in 1..m : i < j => c[i] < c[j]
  <2> DEFINE T == {j \in 0..m : i < j => c[i] < c[j]}
  <2>1. 0 \in T
    BY <1>1
  <2>2. ASSUME NEW j \in 1..m, j - 1 \in T PROVE j \in T
    <3> SUFFICES ASSUME i < j PROVE c[i] < c[j]
      BY <1>1
    <3>1. j - 1 \in 1..(m - 1) /\ (j - 1) + 1 = j /\ j - 1 \in 1..m
      BY <1>1
    <3>2. c[j - 1] < c[j]
      BY <1>2, <3>1
    <3>3. i = j - 1 \/ c[i] < c[j - 1]
      BY <2>2
    <3>4. c[i] \in Nat /\ c[j] \in Nat /\ c[j - 1] \in Nat
      BY <1>1, <3>1
    <3> QED
      BY <3>2, <3>3, <3>4
  <2>3. \A j \in 0..m : j \in T
    <3> HIDE DEF T
    <3> QED
      BY <1>1, <2>1, <2>2, UpTo
  <2> QED
    BY <2>3
<1> QED
  BY <1>1, <1>2, <1>3 DEF m

(* The shard of a node.                                                    *)
LEMMA NodeHasShard ==
    ASSUME NEW nodes \in Nat, NEW ends, \A n \in 0..(nodes - 1) : ends[n] \in (n + 1)..nodes,
           NEW c, IsCut(c, ends, nodes, 0), NEW node \in 0..(nodes - 1)
    PROVE  \E j \in 1..(Len(c) - 1) : c[j] <= node /\ node < c[j + 1]
<1> DEFINE m == Len(c)
           later == {i \in 1..m : node < c[i]}
<1>1. m \in Nat /\ m >= 1 /\ c[1] = 0 /\ c[m] = nodes /\ \A i \in 1..m : c[i] \in 0..nodes
  BY ListOf DEF IsCut
<1>2. PICK d \in later : \A i \in later : d <= i
  <2>1. m \in later
    BY <1>1
  <2>2. later \in SUBSET Nat /\ later # {}
    BY <2>1
  <2> QED
    BY <2>2, LeastNat
<1>3. d # 1 /\ d \in 1..m /\ node < c[d]
  BY <1>1, <1>2
<1>4. d - 1 \in 1..(m - 1) /\ d - 1 \in 1..m /\ (d - 1) + 1 = d
  BY <1>1, <1>3
<1>5. ~(node < c[d - 1])
  <2>1. d - 1 \notin later
    BY <1>2, <1>3
  <2> QED
    BY <1>4, <2>1
<1>6. c[d - 1] <= node
  <2>1. c[d - 1] \in 0..nodes
    BY <1>1, <1>4
  <2> QED
    BY <1>5, <2>1
<1> QED
  BY <1>3, <1>4, <1>6

(* A shard has a node at least, and ends where the graph does at most;     *)
(* with more than one it is within the size.                               *)
LEMMA EndIsInRange ==
    ASSUME NEW nodes \in Nat, NEW n \in 0..(nodes - 1), NEW rowPtrs, NEW limit \in (n + 1)..nodes,
           NEW bytes, NEW size
    PROVE  LET end == EndNode(rowPtrs, n, limit, bytes, size)
           IN  /\ end \in (n + 1)..nodes
               /\ end = n + 1 \/ ShardMemory(rowPtrs, n, end, bytes) <= size
<1> DEFINE S == {end \in (n + 1)..limit :
                    end = n + 1 \/ ShardMemory(rowPtrs, n, end, bytes) <= size}
<1>1. n + 1 \in S /\ \A x \in S : x <= limit
  OBVIOUS
<1>2. S \in SUBSET Nat /\ limit \in Nat
  OBVIOUS
<1>3. \A x \in S : x \in (n + 1)..nodes
  OBVIOUS
<1>4. \A x \in S : x = n + 1 \/ ShardMemory(rowPtrs, n, x, bytes) <= size
  OBVIOUS
<1>5. EndNode(rowPtrs, n, limit, bytes, size) = Max(S)
  BY DEF EndNode
<1> HIDE DEF S
<1>6. Max(S) \in S
  BY <1>1, <1>2, LargestNat
<1> QED
  BY <1>3, <1>4, <1>5, <1>6

(* The target of a shard is a node at least.                               *)
LEMMA TargetIsPositive ==
    ASSUME NEW nodes \in Nat \ {0}, NEW count \in Nat, NEW withWeights, NEW size \in Nat
    PROVE  LET target == TargetNodes(nodes, count, EdgeBytes(withWeights), size)
           IN  target \in Int /\ target >= 1
<1> DEFINE bytes == EdgeBytes(withWeights)
           total == (nodes + 1) * PointerBytes + count * bytes
           a == CeilDiv(total, nodes)
           b == AtLeastOne(a)
           d == CeilDiv(size, b)
<1>0. \A x \in Int : AtLeastOne(x) \in Int /\ AtLeastOne(x) >= 1
  <2> SUFFICES ASSUME NEW x \in Int PROVE AtLeastOne(x) \in Int /\ AtLeastOne(x) >= 1
    OBVIOUS
  <2>1. Max({x, 1}) = IF x <= 1 THEN 1 ELSE x
    BY OfTwo
  <2> QED
    BY <2>1 DEF AtLeastOne
<1>1. total \in Int
  <2>1. bytes \in Int
    BY DEF EdgeBytes
  <2> QED
    BY <2>1 DEF PointerBytes
<1>2. \A x \in Int : \A y \in Int : y >= 1 => CeilDiv(x, y) \in Int
  BY DEF CeilDiv
<1>3. nodes \in Int /\ nodes >= 1
  OBVIOUS
<1> HIDE DEF total
<1>4. a \in Int
  BY <1>1, <1>2, <1>3
<1> HIDE DEF a
<1>5. b \in Int /\ b >= 1
  BY <1>0, <1>4
<1> HIDE DEF b
<1>6. d \in Int
  BY <1>2, <1>5
<1> HIDE DEF d
<1>7. TargetNodes(nodes, count, bytes, size) = AtLeastOne(d)
  BY Zenon DEF TargetNodes, d, b, a, total
<1> QED
  BY <1>0, <1>6, <1>7

\* The shards of an ordered list, cut by c.
Cut(c, rowPtrs, s, withWeights) ==
    [i \in 1..(Len(c) - 1) |-> Shard(i - 1, c[i], c[i + 1], rowPtrs, s, withWeights)]

Advances(ends, nodes) == \A n \in 0..(nodes - 1) : ends[n] \in (n + 1)..nodes

Within(ends, nodes, rowPtrs, bytes, size) ==
    \A n \in 0..(nodes - 1) :
        ends[n] = n + 1 \/ ShardMemory(rowPtrs, n, ends[n], bytes) <= size

\* Where the shards end, if they may have target nodes.
Ending(ends, nodes, rowPtrs, target, bytes, size) ==
    \A n \in 0..(nodes - 1) :
        ends[n] = EndNode(rowPtrs, n, IF n + target <= nodes THEN n + target ELSE nodes,
                          bytes, size)

\* The cuts that partition_into_shards makes.
CutInto(ends, c, nodes, rowPtrs, s, withWeights, size) ==
    /\ Advances(ends, nodes) /\ IsCut(c, ends, nodes, 0)
    /\ Within(ends, nodes, rowPtrs, EdgeBytes(withWeights), size)
    /\ Ending(ends, nodes, rowPtrs, TargetNodes(nodes, Len(s), EdgeBytes(withWeights), size),
              EdgeBytes(withWeights), size)
    /\ Shards(nodes, rowPtrs, s, withWeights, size) = Cut(c, rowPtrs, s, withWeights)

(* partition_into_shards cuts the nodes into shards that are within the    *)
(* size or single nodes.                                                   *)
LEMMA ShardsAreCut ==
    ASSUME NEW nodes \in Nat \ {0}, NEW V, NEW s \in Seq(V), NEW rowPtrs, NEW withWeights,
           NEW size \in Nat
    PROVE  \E ends, c : CutInto(ends, c, nodes, rowPtrs, s, withWeights, size)
<1> DEFINE bytes == EdgeBytes(withWeights)
           target == TargetNodes(nodes, Len(s), bytes, size)
           limit(n) == Min({n + target, nodes})
           ends == [n \in 0..(nodes - 1) |-> EndNode(rowPtrs, n, limit(n), bytes, size)]
           c == Cuts(ends, nodes)
<1>1. target \in Int /\ target >= 1
  <2>1. Len(s) \in Nat
    OBVIOUS
  <2> QED
    BY <2>1, TargetIsPositive
<1> HIDE DEF target, bytes
<1>2. ASSUME NEW n \in 0..(nodes - 1)
      PROVE  /\ ends[n] \in (n + 1)..nodes
             /\ ends[n] = n + 1 \/ ShardMemory(rowPtrs, n, ends[n], bytes) <= size
             /\ ends[n] = EndNode(rowPtrs, n, IF n + target <= nodes THEN n + target ELSE nodes,
                                  bytes, size)
  <2>1. n + target \in Int /\ nodes \in Int
    BY <1>1
  <2>2. limit(n) = IF n + target <= nodes THEN n + target ELSE nodes
    BY <2>1, OfTwo
  <2>3. limit(n) \in (n + 1)..nodes
    BY <1>1, <2>1, <2>2
  <2>4. ends[n] = EndNode(rowPtrs, n, limit(n), bytes, size)
    OBVIOUS
  <2> HIDE DEF limit, ends
  <2> QED
    BY <2>2, <2>3, <2>4, EndIsInRange
<1>3. /\ Advances(ends, nodes) /\ Within(ends, nodes, rowPtrs, bytes, size)
      /\ Ending(ends, nodes, rowPtrs, target, bytes, size)
  <2> HIDE DEF ends
  <2> QED
    BY <1>2, Zenon DEF Advances, Within, Ending
<1>4. Shards(nodes, rowPtrs, s, withWeights, size) = Cut(c, rowPtrs, s, withWeights)
  BY Zenon DEF Shards, Cut, bytes, target
<1> HIDE DEF ends
<1>5. IsCut(c, ends, nodes, 0)
  BY <1>3, CutsAreCut DEF Advances
<1> HIDE DEF c
<1> QED
  BY <1>3, <1>4, <1>5, Zenon DEF bytes, target, CutInto

\* Row pointers grow.
Pointers(rowPtrs, nodes) ==
    /\ \A i \in 0..nodes : rowPtrs[i] \in Nat
    /\ \A i, j \in 0..nodes : i <= j => rowPtrs[i] <= rowPtrs[j]

\* A shard that starts at n is node n alone.
AloneAt(n, rowPtrs, target, bytes, size) ==
    target = 1 \/ ShardMemory(rowPtrs, n, n + 2, bytes) > size

(* A shard ends behind its first node only because the target is one node  *)
(* or because it would be over the size with the next.                     *)
LEMMA EndIsNext ==
    ASSUME NEW nodes \in Nat, NEW n \in Nat, n + 2 <= nodes, NEW rowPtrs, Pointers(rowPtrs, nodes),
           NEW target \in Int, target >= 1, NEW bytes \in {4, 8}, NEW size \in Nat
    PROVE  LET limit == IF n + target <= nodes THEN n + target ELSE nodes
           IN  EndNode(rowPtrs, n, limit, bytes, size) = n + 1
                 <=> AloneAt(n, rowPtrs, target, bytes, size)
<1> DEFINE limit == IF n + target <= nodes THEN n + target ELSE nodes
           S == {end \in (n + 1)..limit :
                    end = n + 1 \/ ShardMemory(rowPtrs, n, end, bytes) <= size}
<1>1. /\ limit \in (n + 1)..nodes /\ limit \in Nat
      /\ target = 1 => limit = n + 1
      /\ target # 1 => n + 2 <= limit
  OBVIOUS
<1> HIDE DEF limit
<1>2. n + 1 \in S /\ S \in SUBSET Nat /\ \A x \in S : x \in (n + 1)..limit /\ x <= limit
  BY <1>1
<1>3. \A x \in S : x = n + 1 \/ ShardMemory(rowPtrs, n, x, bytes) <= size
  OBVIOUS
<1>4. EndNode(rowPtrs, n, limit, bytes, size) = Max(S)
  BY DEF EndNode
<1>5. target # 1 /\ ShardMemory(rowPtrs, n, n + 2, bytes) <= size => n + 2 \in S
  BY <1>1
<1> HIDE DEF S
<1>6. Max(S) \in S /\ \A x \in S : x <= Max(S)
  BY <1>1, <1>2, LargestNat
<1>7. /\ \A end \in (n + 2)..nodes :
            ShardMemory(rowPtrs, n, n + 2, bytes) <= ShardMemory(rowPtrs, n, end, bytes)
      /\ \A end \in (n + 2)..nodes : ShardMemory(rowPtrs, n, end, bytes) \in Int
  <2> SUFFICES ASSUME NEW end \in (n + 2)..nodes
               PROVE  /\ ShardMemory(rowPtrs, n, n + 2, bytes) <= ShardMemory(rowPtrs, n, end, bytes)
                      /\ ShardMemory(rowPtrs, n, end, bytes) \in Int
    OBVIOUS
  <2>1. n \in 0..nodes /\ n + 2 \in 0..nodes /\ end \in 0..nodes /\ n + 2 <= end
    OBVIOUS
  <2>2. /\ rowPtrs[n] \in Nat /\ rowPtrs[n + 2] \in Nat /\ rowPtrs[end] \in Nat
        /\ rowPtrs[n + 2] <= rowPtrs[end]
    BY <2>1 DEF Pointers
  <2>3. CASE bytes = 4
    BY <2>1, <2>2, <2>3 DEF ShardMemory, PointerBytes
  <2>4. CASE bytes = 8
    BY <2>1, <2>2, <2>4 DEF ShardMemory, PointerBytes
  <2> QED
    BY <2>3, <2>4
<1>8. ASSUME Max(S) # n + 1
      PROVE  target # 1 /\ ~(ShardMemory(rowPtrs, n, n + 2, bytes) > size)
  <2> DEFINE largest == Max(S)
  <2>0. largest \in (n + 1)..limit /\ largest # n + 1
    BY <1>2, <1>6, <1>8
  <2>1. Max(S) \in (n + 2)..nodes
    <3> HIDE DEF largest
    <3>1. largest \in (n + 2)..nodes
      BY <1>1, <2>0
    <3> QED
      BY <3>1 DEF largest
  <2>2. ShardMemory(rowPtrs, n, Max(S), bytes) <= size
    BY <1>3, <1>6, <1>8
  <2>3. n + 2 \in (n + 2)..nodes
    OBVIOUS
  <2>4. target # 1
    BY <1>1, <1>2, <1>6, <2>1
  <2> QED
    BY <1>7, <2>1, <2>2, <2>3, <2>4
<1>9. ASSUME target # 1, ~(ShardMemory(rowPtrs, n, n + 2, bytes) > size)
      PROVE  Max(S) # n + 1
  <2>1. n + 2 \in (n + 2)..nodes
    OBVIOUS
  <2>2. ShardMemory(rowPtrs, n, n + 2, bytes) \in Int
    BY <1>7, <2>1
  <2>3. n + 2 \in S
    BY <1>5, <1>9, <2>2
  <2>4. n + 2 <= Max(S)
    BY <1>6, <2>3
  <2> QED
    BY <2>4
<1> QED
  BY <1>4, <1>8, <1>9 DEF limit, AloneAt

(* The shards that end behind their first node.                            *)
LEMMA EndsAreNext ==
    ASSUME NEW nodes \in Nat, NEW rowPtrs, Pointers(rowPtrs, nodes), NEW target \in Int, target >= 1,
           NEW bytes \in {4, 8}, NEW size \in Nat, NEW ends,
           Ending(ends, nodes, rowPtrs, target, bytes, size), NEW n \in Nat, n + 2 <= nodes
    PROVE  ends[n] = n + 1 <=> AloneAt(n, rowPtrs, target, bytes, size)
<1> DEFINE limit == IF n + target <= nodes THEN n + target ELSE nodes
<1>1. n \in 0..(nodes - 1)
  OBVIOUS
<1>2. ends[n] = EndNode(rowPtrs, n, limit, bytes, size)
  BY <1>1, Zenon DEF Ending
<1>3. EndNode(rowPtrs, n, limit, bytes, size) = n + 1 <=> AloneAt(n, rowPtrs, target, bytes, size)
  BY EndIsNext
<1> QED
  BY <1>2, <1>3

(* There are more than m shards of at most m + 1 nodes exactly when there  *)
(* are m + 1 nodes and every shard is one of them.                         *)
LEMMA CutsCount ==
    ASSUME NEW nodes \in Nat \ {0}, NEW ends, Advances(ends, nodes), NEW c,
           IsCut(c, ends, nodes, 0), NEW m \in Nat, nodes <= m + 1
    PROVE  Len(c) - 1 > m <=> nodes = m + 1 /\ \A n \in 0..(nodes - 1) : ends[n] = n + 1
<1> DEFINE l == Len(c)
<1>1. /\ l \in Nat /\ l >= 1 /\ c[1] = 0 /\ c[l] = nodes
      /\ \A i \in 1..(l - 1) : c[i] \in 0..(nodes - 1) /\ c[i + 1] = ends[c[i]] /\ c[i] < c[i + 1]
      /\ \A i \in 1..l : c[i] \in 0..nodes
  <2>1. /\ \A i \in 1..l : c[i] \in 0..nodes
        /\ \A i \in 1..(l - 1) : c[i] < c[i + 1]
    BY CutsGrow DEF Advances
  <2>2. /\ l \in Nat /\ l >= 1 /\ c[1] = 0 /\ c[l] = nodes
        /\ \A i \in 1..(l - 1) : c[i] < nodes /\ c[i + 1] = ends[c[i]]
    BY ListOf DEF IsCut
  <2> HIDE DEF l
  <2> QED
    BY <2>1, <2>2
<1> HIDE DEF l
<1>2. ASSUME NEW i \in 1..l PROVE c[i] >= i - 1
  <2> DEFINE T == {k \in 0..l : k >= 1 => c[k] >= k - 1}
  <2>1. 0 \in T
    BY <1>1
  <2>2. ASSUME NEW k \in 1..l, k - 1 \in T PROVE k \in T
    <3>1. CASE k = 1
      BY <1>1, <3>1
    <3>2. CASE k # 1
      <4>1. k - 1 \in 1..(l - 1) /\ (k - 1) + 1 = k /\ k - 1 \in 1..l
        BY <1>1, <3>2
      <4>2. c[k - 1] < c[k] /\ c[k - 1] >= (k - 1) - 1 /\ c[k] \in Nat /\ c[k - 1] \in Nat
        BY <1>1, <2>2, <4>1
      <4> QED
        BY <4>2
    <3> QED
      BY <3>1, <3>2
  <2>3. \A k \in 0..l : k \in T
    <3> HIDE DEF T
    <3> QED
      BY <1>1, <2>1, <2>2, UpTo
  <2> QED
    BY <2>3
<1>3. ASSUME l - 1 > m
      PROVE  nodes = m + 1 /\ \A n \in 0..(nodes - 1) : ends[n] = n + 1
  <2>1. nodes >= l - 1
    BY <1>1, <1>2
  <2>2. nodes = m + 1 /\ l = nodes + 1
    BY <1>1, <1>3, <2>1
  <2> DEFINE T == {k \in 0..nodes : c[k + 1] <= k}
  <2>3. nodes \in T
    BY <1>1, <2>2
  <2>4. ASSUME NEW k \in 0..(nodes - 1), \A j \in (k + 1)..nodes : j \in T PROVE k \in T
    <3>1. k + 1 \in (k + 1)..nodes /\ k + 1 \in 1..(l - 1) /\ k + 1 \in 1..l
      BY <2>2
    <3>2. c[(k + 1) + 1] <= k + 1
      BY <2>4, <3>1
    <3>3. c[k + 1] < c[(k + 1) + 1] /\ c[k + 1] \in Nat
      BY <1>1, <3>1
    <3>4. c[(k + 1) + 1] \in Nat
      BY <1>1, <2>2, <3>1
    <3> QED
      BY <3>2, <3>3, <3>4
  <2>5. \A k \in 0..nodes : k \in T
    <3> HIDE DEF T
    <3> QED
      BY <2>3, <2>4, DownTo
  <2>6. \A k \in 0..nodes : c[k + 1] = k
    <3> SUFFICES ASSUME NEW k \in 0..nodes PROVE c[k + 1] = k
      OBVIOUS
    <3>1. k + 1 \in 1..l
      BY <2>2
    <3>2. c[k + 1] \in Nat /\ c[k + 1] >= (k + 1) - 1 /\ c[k + 1] <= k
      BY <1>1, <1>2, <2>5, <3>1
    <3> QED
      BY <3>2
  <2>7. ASSUME NEW n \in 0..(nodes - 1) PROVE ends[n] = n + 1
    <3>1. n + 1 \in 1..(l - 1) /\ n \in 0..nodes /\ n + 1 \in 0..nodes
      BY <2>2
    <3>2. c[n + 1] = n /\ c[(n + 1) + 1] = n + 1 /\ c[(n + 1) + 1] = ends[c[n + 1]]
      BY <1>1, <2>6, <3>1
    <3> QED
      BY <3>2
  <2> QED
    BY <2>2, <2>7
<1>4. ASSUME nodes = m + 1, \A n \in 0..(nodes - 1) : ends[n] = n + 1
      PROVE  l - 1 > m
  <2> DEFINE T == {k \in 0..l : k >= 1 => c[k] = k - 1}
  <2>1. 0 \in T
    BY <1>1
  <2>2. ASSUME NEW k \in 1..l, k - 1 \in T PROVE k \in T
    <3>1. CASE k = 1
      BY <1>1, <3>1
    <3>2. CASE k # 1
      <4>1. k - 1 \in 1..(l - 1) /\ (k - 1) + 1 = k
        BY <1>1, <3>2
      <4>2. c[k] = ends[c[k - 1]] /\ c[k - 1] \in 0..(nodes - 1) /\ c[k - 1] = (k - 1) - 1
        BY <1>1, <2>2, <4>1
      <4>3. ends[c[k - 1]] = c[k - 1] + 1
        BY <1>4, <4>2
      <4> QED
        BY <4>2, <4>3
    <3> QED
      BY <3>1, <3>2
  <2>3. \A k \in 0..l : k \in T
    <3> HIDE DEF T
    <3> QED
      BY <1>1, <2>1, <2>2, UpTo
  <2>4. c[l] = l - 1
    BY <1>1, <2>3
  <2> QED
    BY <1>1, <1>4, <2>4
<1> QED
  BY <1>3, <1>4 DEF l

(* A slice of a slice.                                                     *)
LEMMA SliceOfSlice ==
    ASSUME NEW V, NEW s \in Seq(V), NEW a \in Nat, NEW x \in Nat, NEW y \in Nat, NEW b \in Nat,
           a <= x, x <= y, y <= b, b <= Len(s)
    PROVE  SubSeq(SubSeq(s, a + 1, b), (x - a) + 1, y - a) = SubSeq(s, x + 1, y)
<1> DEFINE t == SubSeq(s, a + 1, b)
           u == SubSeq(t, (x - a) + 1, y - a)
           v == SubSeq(s, x + 1, y)
<1>1. Len(s) \in Nat /\ a <= b /\ y <= Len(s)
  BY ListOf
<1>2. t \in Seq(V) /\ Len(t) = b - a /\ \A i \in 1..(b - a) : t[i] = s[a + i]
  BY <1>1, SliceIs
<1>3. v \in Seq(V) /\ Len(v) = y - x /\ \A i \in 1..(y - x) : v[i] = s[x + i]
  BY <1>1, SliceIs
<1>4. x - a \in Nat /\ y - a \in Nat /\ x - a <= y - a /\ y - a <= b - a
      /\ (y - a) - (x - a) = y - x
  BY <1>1
<1> HIDE DEF t, v
<1>5. u \in Seq(V) /\ Len(u) = y - x /\ \A i \in 1..(y - x) : u[i] = t[(x - a) + i]
  <2>1. y - a <= Len(t)
    BY <1>2, <1>4
  <2>2. /\ u \in Seq(V) /\ Len(u) = (y - a) - (x - a)
        /\ \A i \in 1..((y - a) - (x - a)) : u[i] = t[(x - a) + i]
    <3> DEFINE from == x - a
               to == y - a
    <3>1. t \in Seq(V) /\ from \in Nat /\ to \in Nat /\ from <= to /\ to <= Len(t)
      BY <1>2, <1>4, <2>1
    <3> HIDE DEF from, to
    <3>2. LET w == SubSeq(t, from + 1, to)
          IN  w \in Seq(V) /\ Len(w) = to - from /\ \A i \in 1..(to - from) : w[i] = t[from + i]
      BY <3>1, SliceIs, Zenon
    <3> QED
      BY <3>2 DEF from, to
  <2> QED
    BY <1>4, <2>2
<1> HIDE DEF u
<1>6. ASSUME NEW i \in 1..(y - x) PROVE u[i] = v[i]
  <2>1. (x - a) + i \in 1..(b - a) /\ a + ((x - a) + i) = x + i
    BY <1>1
  <2>2. t[(x - a) + i] = s[x + i]
    BY <1>2, <2>1
  <2> QED
    BY <1>3, <1>5, <2>2
<1>7. u = v
  BY <1>3, <1>5, <1>6, SameLists
<1> QED
  BY <1>7 DEF t, u, v

\* What the shards store.
Stored(shards, c, rowPtrs, s, withWeights) ==
    /\ shards = [i \in 1..(Len(c) - 1) |-> shards[i]]
    /\ \A i \in 1..(Len(c) - 1) :
          /\ shards[i].first = c[i] /\ shards[i].end = c[i + 1]
          /\ shards[i].weighted = withWeights
          /\ shards[i].rowPtrs = [k \in 0..(c[i + 1] - c[i]) |-> rowPtrs[c[i] + k] - rowPtrs[c[i]]]
          /\ shards[i].columns = SubSeq(s, rowPtrs[c[i]] + 1, rowPtrs[c[i + 1]])

\* The shards of a graph: the nodes are cut by c, the edges are s.
Sharded(g, c, ends, nodes, V, s, withWeights) ==
    /\ nodes \in Nat \ {0}
    /\ Advances(ends, nodes) /\ IsCut(c, ends, nodes, 0)
    /\ Stored(g.shards, c, RowPtrs(s, nodes), s, withWeights)
    /\ InOrder(V, s, nodes)

(* The shards store what they are cut from.                                *)
LEMMA ShardFields ==
    ASSUME NEW c, NEW rowPtrs, NEW s, NEW withWeights
    PROVE  Stored(Cut(c, rowPtrs, s, withWeights), c, rowPtrs, s, withWeights)
BY Zenon DEF Cut, Shard, Stored

(* global_to_shard: how many shards start at or before a node.             *)
LEMMA ShardsBefore ==
    ASSUME NEW g, NEW c, NEW ends, NEW nodes, NEW V, NEW s, NEW withWeights,
           Sharded(g, c, ends, nodes, V, s, withWeights),
           NEW node \in Nat, NEW j \in Nat, j <= Len(c) - 1,
           \A i \in 1..(Len(c) - 1) : c[i] <= node <=> i <= j
    PROVE  Len(Keep(g.shards, {x \in ToSet(g.shards) : x.first <= node})) = j
<1> DEFINE shards == g.shards
           S == {x \in ToSet(shards) : x.first <= node}
           n == Len(c) - 1
           W == ToSet(shards)
<1>1. n \in Nat
  BY ListOf DEF Sharded, IsCut
<1>3. shards = [i \in 1..n |-> shards[i]] /\ \A i \in 1..n : shards[i].first = c[i]
  BY Zenon DEF Sharded, Stored
<1>4. DOMAIN shards = 1..n
  BY <1>3, Zenon
<1> HIDE DEF shards
<1>5. \A i \in 1..n : shards[i] \in W
  BY <1>4, Zenon DEF ToSet
<1> HIDE DEF W
<1>6. shards \in Seq(W) /\ Len(shards) = n
  <2> HIDE DEF n
  <2> QED
    BY <1>1, <1>3, <1>5, IsAList
<1>7. \A i \in 1..n : shards[i] \in S <=> i <= j
  <2>1. \A i \in 1..n : shards[i] \in S <=> shards[i].first <= node
    BY <1>5, Zenon DEF S, W
  <2> QED
    BY <1>3, <2>1
<1> HIDE DEF S, n
<1>8. j <= Len(shards)
  BY <1>6 DEF n
<1>9. Len(Keep(shards, S)) = j
  BY <1>6, <1>7, <1>8, KeepFirst
<1> QED
  BY <1>9 DEF shards, S

(* global_to_shard finds the shard of a node of the graph, and no other    *)
(* node.                                                                   *)
LEMMA PlaceOfNode ==
    ASSUME NEW g, NEW c, NEW ends, NEW nodes, NEW V, NEW s, NEW withWeights,
           Sharded(g, c, ends, nodes, V, s, withWeights),
           NEW node \in Nat, NEW j \in 1..(Len(c) - 1), c[j] <= node, node < c[j + 1]
    PROVE  GlobalToShard(g, node) = <<j, node - c[j]>>
<1>0. Len(c) \in Nat /\ j \in 1..Len(c) /\ j + 1 \in 1..Len(c)
  BY ListOf DEF Sharded, IsCut
<1>1. /\ \A i \in 1..Len(c) : c[i] \in 0..nodes
      /\ \A i, k \in 1..Len(c) : i < k => c[i] < c[k]
      /\ nodes \in Nat
  BY CutsGrow DEF Sharded, Advances
<1>2. ASSUME NEW i \in 1..(Len(c) - 1) PROVE c[i] <= node <=> i <= j
  <2>0. i \in 1..Len(c) /\ c[i] \in 0..nodes /\ c[j] \in 0..nodes /\ c[j + 1] \in 0..nodes
    BY <1>0, <1>1
  <2>1. CASE i <= j
    <3>1. i = j \/ c[i] < c[j]
      BY <1>0, <1>1, <2>0, <2>1
    <3> QED
      BY <1>1, <2>0, <2>1, <3>1
  <2>2. CASE ~(i <= j)
    <3>1. i = j + 1 \/ c[j + 1] < c[i]
      BY <1>0, <1>1, <2>0, <2>2
    <3> QED
      BY <1>1, <2>0, <2>2, <3>1
  <2> QED
    BY <2>1, <2>2
<1>3. j \in Nat /\ j > 0 /\ j <= Len(c) - 1
  BY <1>0
<1>4. Len(Keep(g.shards, {x \in ToSet(g.shards) : x.first <= node})) = j
  BY <1>2, <1>3, ShardsBefore
<1>5. g.shards[j].first = c[j] /\ g.shards[j].end = c[j + 1]
  BY Zenon DEF Sharded, Stored
<1>6. node \in c[j]..(c[j + 1] - 1)
  <2>1. c[j] \in 0..nodes /\ c[j + 1] \in 0..nodes
    BY <1>0, <1>1
  <2> QED
    BY <2>1, <1>1
<1> QED
  BY <1>3, <1>4, <1>5, <1>6, Zenon DEF GlobalToShard

(* No node beyond the last has a place.                                    *)
LEMMA NoPlaceBeyond ==
    ASSUME NEW g, NEW c, NEW ends, NEW nodes, NEW V, NEW s, NEW withWeights,
           Sharded(g, c, ends, nodes, V, s, withWeights),
           NEW node \in Nat, nodes <= node
    PROVE  GlobalToShard(g, node) = NoPlace
<1> DEFINE j == Len(c) - 1
<1>0. j \in Nat /\ nodes \in Nat /\ j + 1 = Len(c) /\ c[Len(c)] = nodes
  BY ListOf DEF Sharded, IsCut
<1>1. \A i \in 1..j : i \in 1..Len(c) /\ c[i] \in 0..nodes
  <2>1. \A i \in 1..Len(c) : c[i] \in 0..nodes
    BY CutsGrow DEF Sharded, Advances
  <2> QED
    BY <1>0, <2>1
<1>2. \A i \in 1..j : c[i] <= node <=> i <= j
  BY <1>0, <1>1
<1>4. Len(Keep(g.shards, {x \in ToSet(g.shards) : x.first <= node})) = j
  <2>1. \A i \in 1..(Len(c) - 1) : c[i] <= node <=> i <= j
    BY <1>2
  <2>2. j <= Len(c) - 1
    BY <1>0
  <2>3. j \in Nat
    BY <1>0
  <2> HIDE DEF j
  <2> QED
    BY <2>1, <2>2, <2>3, ShardsBefore, Zenon
<1>5. ~(j > 0 /\ node \in g.shards[j].first..(g.shards[j].end - 1))
  <2> SUFFICES ASSUME j > 0 PROVE ~(node \in g.shards[j].first..(g.shards[j].end - 1))
    OBVIOUS
  <2>1. j \in 1..(Len(c) - 1)
    BY <1>0
  <2>2. g.shards[j].first = c[j] /\ g.shards[j].end = c[j + 1]
    BY <2>1, Zenon DEF Sharded, Stored
  <2>3. c[j] \in 0..nodes
    BY <1>1, <2>1
  <2> QED
    BY <1>0, <2>2, <2>3
<1> QED
  BY <1>4, <1>5, Zenon DEF GlobalToShard

(* The row of a node in its shard is the row of the node.                  *)
LEMMA RowInShard ==
    ASSUME NEW g, NEW c, NEW ends, NEW nodes, NEW V, NEW s, NEW withWeights,
           Sharded(g, c, ends, nodes, V, s, withWeights),
           NEW node \in 0..(nodes - 1), NEW j \in 1..(Len(c) - 1), c[j] <= node, node < c[j + 1]
    PROVE  NeighborSlice(g.shards[j], node - c[j]) = EdgesFrom(s, node)
<1> DEFINE p == RowPtrs(s, nodes)
           shard == g.shards[j]
           x == c[j]
           z == c[j + 1]
           o == node - x
<1>1. x \in 0..nodes /\ z \in 0..nodes /\ nodes \in Nat
  <2>1. Len(c) \in Nat /\ \A i \in 1..Len(c) : c[i] \in 0..nodes
    BY ListOf, CutsGrow DEF Sharded, Advances, IsCut
  <2>2. j \in 1..Len(c) /\ j + 1 \in 1..Len(c)
    BY <2>1
  <2> QED
    BY <2>1, <2>2 DEF Sharded
<1>2. /\ shard.rowPtrs = [k \in 0..(z - x) |-> p[x + k] - p[x]]
      /\ shard.columns = SubSeq(s, p[x] + 1, p[z])
  BY Zenon DEF Sharded, Stored
<1>3. x <= node /\ node + 1 <= z /\ o \in 0..(z - x) /\ o + 1 \in 0..(z - x)
      /\ x + o = node /\ x + (o + 1) = node + 1 /\ node \in 0..nodes /\ node + 1 \in 0..nodes
  BY <1>1
<1>4. InOrder(V, s, nodes) /\ s \in Seq(V) /\ Len(s) \in Nat
  BY ListOf DEF Sharded, InOrder
<1>5. /\ \A n \in 0..nodes : p[n] \in 0..Len(s)
      /\ \A n, k \in 0..nodes : n <= k => p[n] <= p[k]
  BY <1>4, PointersAreOffsets
<1>6. SubSeq(s, p[node] + 1, p[node + 1]) = EdgesFrom(s, node)
  BY <1>4, RowOfNode
<1> HIDE DEF p, shard, o, x, z
<1>7. shard.rowPtrs[o] = p[node] - p[x] /\ shard.rowPtrs[o + 1] = p[node + 1] - p[x]
  BY <1>2, <1>3
<1>8. /\ p[x] \in Nat /\ p[node] \in Nat /\ p[node + 1] \in Nat /\ p[z] \in Nat
      /\ p[x] <= p[node] /\ p[node] <= p[node + 1] /\ p[node + 1] <= p[z] /\ p[z] <= Len(s)
  <2>1. p[x] \in 0..Len(s) /\ p[node] \in 0..Len(s) /\ p[node + 1] \in 0..Len(s)
        /\ p[z] \in 0..Len(s)
    BY <1>1, <1>3, <1>5
  <2>2. node <= node + 1
    BY <1>3
  <2>3. p[x] <= p[node] /\ p[node] <= p[node + 1] /\ p[node + 1] <= p[z]
    BY <1>1, <1>3, <1>5, <2>2
  <2> QED
    BY <1>4, <2>1, <2>3
<1>9. SubSeq(SubSeq(s, p[x] + 1, p[z]), (p[node] - p[x]) + 1, p[node + 1] - p[x])
        = SubSeq(s, p[node] + 1, p[node + 1])
  <2>1. \A a, d, e, b \in Nat : a <= d /\ d <= e /\ e <= b /\ b <= Len(s) =>
            SubSeq(SubSeq(s, a + 1, b), (d - a) + 1, e - a) = SubSeq(s, d + 1, e)
    <3> SUFFICES ASSUME NEW a \in Nat, NEW d \in Nat, NEW e \in Nat, NEW b \in Nat,
                        a <= d, d <= e, e <= b, b <= Len(s)
                 PROVE  SubSeq(SubSeq(s, a + 1, b), (d - a) + 1, e - a) = SubSeq(s, d + 1, e)
      OBVIOUS
    <3> QED
      BY <1>4, SliceOfSlice
  <2> DEFINE a == p[x]
             d == p[node]
             e == p[node + 1]
             b == p[z]
  <2>2. a \in Nat /\ d \in Nat /\ e \in Nat /\ b \in Nat
        /\ a <= d /\ d <= e /\ e <= b /\ b <= Len(s)
    BY <1>8
  <2> HIDE DEF a, b, d, e
  <2>3. SubSeq(SubSeq(s, a + 1, b), (d - a) + 1, e - a) = SubSeq(s, d + 1, e)
    BY <2>1, <2>2
  <2> QED
    BY <2>3 DEF a, b, d, e
<1>10. NeighborSlice(shard, o) = EdgesFrom(s, node)
  BY <1>2, <1>6, <1>7, <1>9, Zenon DEF NeighborSlice
<1> QED
  BY <1>10 DEF shard, o, x

(* The lookup of any node finds the edges of that node, in their order.    *)
LEMMA SliceOfNode ==
    ASSUME NEW g, NEW c, NEW ends, NEW nodes, NEW V, NEW s, NEW withWeights,
           Sharded(g, c, ends, nodes, V, s, withWeights), NEW node \in Nat
    PROVE  BaseNeighborSlice(g, node) = EdgesFrom(s, node)
<1>1. nodes \in Nat /\ nodes \in Nat \ {0}
  BY DEF Sharded
<1>2. CASE node < nodes
  <2>1. node \in 0..(nodes - 1)
    BY <1>1, <1>2
  <2>2. PICK j \in 1..(Len(c) - 1) : c[j] <= node /\ node < c[j + 1]
    BY <1>1, <2>1, NodeHasShard DEF Sharded, Advances
  <2>3. GlobalToShard(g, node) = <<j, node - c[j]>>
    BY <2>2, PlaceOfNode
  <2>4. j # 0
    BY ListOf DEF Sharded, IsCut
  <2>5. GlobalToShard(g, node) # NoPlace /\ GlobalToShard(g, node)[1] = j
        /\ GlobalToShard(g, node)[2] = node - c[j]
    BY <2>3, <2>4 DEF NoPlace
  <2>6. NeighborSlice(g.shards[j], node - c[j]) = EdgesFrom(s, node)
    BY <2>1, <2>2, RowInShard
  <2> QED
    BY <2>5, <2>6, Zenon DEF BaseNeighborSlice
<1>3. CASE ~(node < nodes)
  <2>1. GlobalToShard(g, node) = NoPlace
    BY <1>1, <1>3, NoPlaceBeyond
  <2>2. EdgesFrom(s, node) = <<>>
    <3>1. s \in Seq(V) /\ \A i \in 1..Len(s) : s[i].src \in Nat /\ s[i].src < nodes
      BY ListOf DEF Sharded, InOrder
    <3>2. \A x \in ToSet(s) : x.src # node
      <4> SUFFICES ASSUME NEW x \in ToSet(s) PROVE x.src # node
        OBVIOUS
      <4>1. PICK i \in 1..Len(s) : x = s[i]
        BY <3>1, ListOf DEF ToSet
      <4> QED
        BY <1>1, <1>3, <3>1, <4>1
    <3>3. \A x \in ToSet(s) : x \notin Of(V, node)
      BY <3>2 DEF Of
    <3>4. Keep(s, Of(V, node)) = <<>>
      BY <3>1, <3>3, KeepNone
    <3> QED
      BY <3>1, <3>4, FromIs
  <2> QED
    BY <2>1, <2>2, Zenon DEF BaseNeighborSlice
<1> QED
  BY <1>2, <1>3

\* An index and an offset are the place of a node, or shard_to_global gives none.
PlacesAreNodes(g, nodes) ==
    \A k : \A o \in Nat :
        ShardToGlobal(g, k, o) # NoNode =>
            /\ ShardToGlobal(g, k, o) < nodes
            /\ GlobalToShard(g, ShardToGlobal(g, k, o)) = <<k, o>>

(* global_to_shard and shard_to_global are inverse.                        *)
LEMMA PlacesInvert ==
    ASSUME NEW g, NEW c, NEW ends, NEW nodes, NEW V, NEW s, NEW withWeights,
           Sharded(g, c, ends, nodes, V, s, withWeights)
    PROVE  /\ \A n \in Nat :
                 IF n < nodes
                 THEN /\ GlobalToShard(g, n) # NoPlace
                      /\ ShardToGlobal(g, GlobalToShard(g, n)[1], GlobalToShard(g, n)[2]) = n
                 ELSE GlobalToShard(g, n) = NoPlace
           /\ PlacesAreNodes(g, nodes)
<1>1. nodes \in Nat /\ nodes \in Nat \ {0}
  BY DEF Sharded
<1>2. \A k \in 1..(Len(c) - 1) : g.shards[k].first = c[k] /\ g.shards[k].end = c[k + 1]
  BY Zenon DEF Sharded, Stored
<1>3. ASSUME NEW n \in Nat, n < nodes
      PROVE  /\ GlobalToShard(g, n) # NoPlace
             /\ ShardToGlobal(g, GlobalToShard(g, n)[1], GlobalToShard(g, n)[2]) = n
  <2>1. n \in 0..(nodes - 1)
    BY <1>1, <1>3
  <2>2. PICK j \in 1..(Len(c) - 1) : c[j] <= n /\ n < c[j + 1]
    BY <1>1, <2>1, NodeHasShard DEF Sharded, Advances
  <2>3. GlobalToShard(g, n) = <<j, n - c[j]>>
    BY <2>2, PlaceOfNode
  <2>4. j # 0 /\ j \in 1..Len(c)
    BY ListOf DEF Sharded, IsCut
  <2>5. GlobalToShard(g, n) # NoPlace /\ GlobalToShard(g, n)[1] = j
        /\ GlobalToShard(g, n)[2] = n - c[j]
    BY <2>3, <2>4 DEF NoPlace
  <2>6. c[j] \in 0..nodes
    BY <1>1, <2>4, CutsGrow DEF Sharded, Advances
  <2>7. c[j] + (n - c[j]) = n
    BY <1>1, <2>6
  <2>8. j + 1 \in 1..Len(c) /\ j \in DOMAIN g.shards
    BY <2>2, ListOf DEF Sharded, IsCut, Stored
  <2>9. c[j + 1] \in 0..nodes
    BY <1>1, <2>8, CutsGrow DEF Sharded, Advances
  <2>10. n - c[j] < c[j + 1] - c[j]
    BY <1>1, <2>2, <2>6, <2>9
  <2> QED
    BY <1>2, <2>2, <2>5, <2>7, <2>8, <2>10, Zenon DEF ShardToGlobal
<1>4. ASSUME NEW n \in Nat, ~(n < nodes) PROVE GlobalToShard(g, n) = NoPlace
  BY <1>1, <1>4, NoPlaceBeyond
<1>5. ASSUME NEW k, NEW o \in Nat, ShardToGlobal(g, k, o) # NoNode
      PROVE  /\ ShardToGlobal(g, k, o) < nodes
             /\ GlobalToShard(g, ShardToGlobal(g, k, o)) = <<k, o>>
  <2>0. DOMAIN g.shards = 1..(Len(c) - 1)
    BY Zenon DEF Sharded, Stored
  <2>1. k \in 1..(Len(c) - 1) /\ o < g.shards[k].end - g.shards[k].first
    BY <1>5, <2>0 DEF ShardToGlobal
  <2>2. k \in 1..Len(c) /\ k + 1 \in 1..Len(c)
    BY <2>1, ListOf DEF Sharded, IsCut
  <2>3. c[k] \in 0..nodes /\ c[k + 1] \in 0..nodes
    BY <1>1, <2>2, CutsGrow DEF Sharded, Advances
  <2>4. o < c[k + 1] - c[k]
    BY <1>2, <2>1
  <2> DEFINE n == c[k] + o
  <2>5. n \in Nat /\ c[k] <= n /\ n < c[k + 1] /\ n - c[k] = o /\ n < nodes
    BY <1>1, <2>3, <2>4
  <2>6. ShardToGlobal(g, k, o) = n
    BY <1>2, <1>5, <2>1 DEF ShardToGlobal
  <2> HIDE DEF n
  <2>7. GlobalToShard(g, n) = <<k, n - c[k]>>
    BY <2>1, <2>5, PlaceOfNode
  <2> QED
    BY <2>5, <2>6, <2>7
<1>6. PlacesAreNodes(g, nodes)
  BY <1>5, Zenon DEF PlacesAreNodes
<1> QED
  BY <1>3, <1>4, <1>6, Zenon

(* What a shard stores is what partition_into_shards has counted.          *)
LEMMA ShardsAreSmall ==
    ASSUME NEW g, NEW c, NEW ends, NEW nodes, NEW V, NEW s, NEW withWeights, NEW size \in Nat,
           Sharded(g, c, ends, nodes, V, s, withWeights),
           Within(ends, nodes, RowPtrs(s, nodes), EdgeBytes(withWeights), size),
           NEW k \in DOMAIN g.shards, g.shards[k].end > g.shards[k].first + 1
    PROVE  ShardBytes(g.shards[k]) <= size
<1> DEFINE p == RowPtrs(s, nodes)
           shard == g.shards[k]
           x == c[k]
           z == c[k + 1]
           bytes == EdgeBytes(withWeights)
<1>0. k \in 1..(Len(c) - 1)
  <2>1. DOMAIN g.shards = 1..(Len(c) - 1)
    BY Zenon DEF Sharded, Stored
  <2> QED
    BY <2>1
<1>1. x \in 0..(nodes - 1) /\ z \in 0..nodes /\ nodes \in Nat /\ x < z /\ z = ends[x]
  <2>1. /\ Len(c) \in Nat /\ \A i \in 1..Len(c) : c[i] \in 0..nodes
        /\ \A i \in 1..(Len(c) - 1) : c[i] < c[i + 1] /\ c[i + 1] = ends[c[i]] /\ c[i] < nodes
    BY ListOf, CutsGrow DEF Sharded, Advances, IsCut
  <2>2. k \in 1..Len(c) /\ k + 1 \in 1..Len(c) /\ nodes \in Nat
    BY <1>0, <2>1 DEF Sharded
  <2>3. x \in 0..nodes /\ z \in 0..nodes /\ x < z /\ z = ends[x] /\ x < nodes
    BY <1>0, <2>1, <2>2
  <2> QED
    BY <2>2, <2>3
<1>2. /\ shard.rowPtrs = [i \in 0..(z - x) |-> p[x + i] - p[x]]
      /\ shard.columns = SubSeq(s, p[x] + 1, p[z])
      /\ shard.first = x /\ shard.end = z /\ shard.weighted = withWeights
  BY <1>0, Zenon DEF Sharded, Stored
<1>3. s \in Seq(V) /\ p[x] \in Nat /\ p[z] \in Nat /\ p[x] <= p[z] /\ p[z] <= Len(s)
  <2>1. InOrder(V, s, nodes) /\ s \in Seq(V) /\ Len(s) \in Nat
    BY ListOf DEF Sharded, InOrder
  <2>2. /\ \A n \in 0..nodes : p[n] \in 0..Len(s)
        /\ \A n, i \in 0..nodes : n <= i => p[n] <= p[i]
    BY <2>1, PointersAreOffsets
  <2> HIDE DEF p
  <2>3. p[x] \in 0..Len(s) /\ p[z] \in 0..Len(s) /\ p[x] <= p[z]
    BY <1>1, <2>2
  <2> QED
    BY <2>1, <2>3
<1>4. z # x + 1
  BY <1>1, <1>2
<1>5. ShardMemory(p, x, z, bytes) <= size
  BY <1>1, <1>4, Zenon DEF Within
<1>6. Len(shard.columns) = p[z] - p[x]
  BY <1>2, <1>3, SliceIs
<1>7. Cardinality(DOMAIN shard.rowPtrs) = z - x + 1
  <2>1. DOMAIN shard.rowPtrs = 0..(z - x)
    BY <1>2
  <2>2. 0 \in Int /\ z - x \in Int /\ ~(0 > z - x)
    BY <1>1
  <2>3. Cardinality(0..(z - x)) = (z - x) - 0 + 1
    BY <2>2, FS_Interval
  <2> QED
    BY <1>1, <2>1, <2>3
<1> HIDE DEF p, shard, x, z
<1>8. ShardBytes(shard) = PointerBytes * (z - x + 1) + (p[z] - p[x]) * (IF withWeights THEN 4 + 4 ELSE 4)
  BY <1>2, <1>6, <1>7, Zenon DEF ShardBytes
<1>9. ShardMemory(p, x, z, bytes)
        = (z - x + 1) * PointerBytes + (p[z] - p[x]) * (IF withWeights THEN 8 ELSE 4)
  BY Zenon DEF ShardMemory, bytes, EdgeBytes
<1>10. ShardBytes(shard) = ShardMemory(p, x, z, bytes)
  <2>1. CASE withWeights
    BY <1>1, <1>3, <1>8, <1>9, <2>1 DEF PointerBytes
  <2>2. CASE ~withWeights
    BY <1>1, <1>3, <1>8, <1>9, <2>2 DEF PointerBytes
  <2> QED
    BY <2>1, <2>2
<1> QED
  BY <1>5, <1>10 DEF shard

\* The edges that a caller may add, and those that fit in u32.
AnyEdge(W) == [src : Nat, dst : Nat, weight : W]
SmallEdge(W) == [src : 0..U32Max, dst : 0..U32Max, weight : W]

\* The list that build sorts.
ListToSort(given, ws, withWeights) == IF withWeights THEN Zipped(given, ws) ELSE given

\* Some endpoint does not fit in u32.
HasLargeNode(given) == \E i \in 1..Len(given) : given[i].src > U32Max \/ given[i].dst > U32Max

\* What a graph that build returns has to do with the list.
IsGraphOf(g, list, size) ==
    /\ g.edgeCount = Len(list)
    /\ \A n \in 0..U32Max : BaseNeighborSlice(g, n) = EdgesFrom(list, n)
    /\ \A n \in Nat :
          IF n < g.nodeCount
          THEN /\ GlobalToShard(g, n) # NoPlace
               /\ ShardToGlobal(g, GlobalToShard(g, n)[1], GlobalToShard(g, n)[2]) = n
          ELSE GlobalToShard(g, n) = NoPlace
    /\ PlacesAreNodes(g, g.nodeCount)
    /\ \A k \in DOMAIN g.shards :
          g.shards[k].end > g.shards[k].first + 1 => ShardBytes(g.shards[k]) <= size

(* A list over a set is one over a larger set.                             *)
LEMMA WiderSeq ==
    ASSUME NEW V, NEW W, V \subseteq W, NEW s \in Seq(V)
    PROVE  s \in Seq(W)
OBVIOUS

\* The edges of a list with the weights of another.
Pairing(list, given, ws, W) ==
    /\ list \in Seq(AnyEdge(W))
    /\ Len(list) = IF Len(given) <= Len(ws) THEN Len(given) ELSE Len(ws)
    /\ \A i \in 1..Len(list) : list[i] = [given[i] EXCEPT !.weight = ws[i]]
    /\ \A i \in 1..Len(list) : list[i].src = given[i].src /\ list[i].dst = given[i].dst

(* Edges with their weights, paired by position.                           *)
LEMMA ZippedIs ==
    ASSUME NEW W, NEW X, NEW given \in Seq(AnyEdge(X)), NEW ws \in Seq(W)
    PROVE  Pairing(Zipped(given, ws), given, ws, W)
<1> DEFINE n == Min({Len(given), Len(ws)})
           f == [i \in 1..n |-> [given[i] EXCEPT !.weight = ws[i]]]
<1>1. /\ Len(given) \in Nat /\ Len(ws) \in Nat
      /\ \A i \in 1..Len(given) : given[i] \in AnyEdge(X)
      /\ \A i \in 1..Len(ws) : ws[i] \in W
  BY ListOf
<1>2. n = (IF Len(given) <= Len(ws) THEN Len(given) ELSE Len(ws)) /\ n \in Nat
      /\ n <= Len(given) /\ n <= Len(ws)
  <2>1. Len(given) \in Int /\ Len(ws) \in Int
    BY <1>1
  <2>2. n = (IF Len(given) <= Len(ws) THEN Len(given) ELSE Len(ws))
    BY <2>1, OfTwo
  <2> HIDE DEF n
  <2> QED
    BY <1>1, <2>2
<1> HIDE DEF n
<1>3. ASSUME NEW i \in 1..n
      PROVE  f[i] \in AnyEdge(W) /\ f[i].src = given[i].src /\ f[i].dst = given[i].dst
             /\ f[i] = [given[i] EXCEPT !.weight = ws[i]]
  <2>1. given[i] \in AnyEdge(X) /\ ws[i] \in W
    BY <1>1, <1>2
  <2> QED
    BY <2>1 DEF AnyEdge
<1>4. f = [i \in 1..n |-> f[i]]
  OBVIOUS
<1>5. Zipped(given, ws) = f
  BY DEF Zipped, n
<1> HIDE DEF f
<1>6. f \in Seq(AnyEdge(W)) /\ Len(f) = n
  BY <1>2, <1>3, <1>4, IsAList
<1> QED
  BY <1>2, <1>3, <1>5, <1>6 DEF Pairing

(* The endpoints of a list.                                                *)
LEMMA EndpointsAre ==
    ASSUME NEW V, NEW list \in Seq(V)
    PROVE  /\ \A i \in 1..Len(list) : list[i].src \in Endpoints(list) /\ list[i].dst \in Endpoints(list)
           /\ \A n \in Endpoints(list) : \E i \in 1..Len(list) : n = list[i].src \/ n = list[i].dst
<1>1. DOMAIN list = 1..Len(list)
  BY ListOf
<1> QED
  BY <1>1 DEF Endpoints

(* The empty graph holds no node.                                          *)
LEMMA EmptyIsGraph ==
    ASSUME NEW size
    PROVE  ~Failed(EmptyGraph) /\ IsGraphOf(EmptyGraph, <<>>, size)
<1> DEFINE g == EmptyGraph
           none == <<>>
<1>1. g.error = "none" /\ g.nodeCount = 0 /\ g.edgeCount = 0 /\ g.shards = none
  BY DEF EmptyGraph
<1>2. none \in Seq({}) /\ Len(none) = 0 /\ DOMAIN none = {}
  OBVIOUS
<1> HIDE DEF g, none
<1>3. \A S : Keep(none, S) = none
  <2> SUFFICES ASSUME NEW S PROVE Keep(none, S) = none
    OBVIOUS
  <2>1. Keep(none, S) = <<>>
    <3>1. \A x \in ToSet(none) : x \notin S
      BY <1>2 DEF ToSet
    <3> QED
      BY <1>2, <3>1, KeepNone
  <2> QED
    BY <2>1 DEF none
<1>4. \A n : GlobalToShard(g, n) = NoPlace
  <2> SUFFICES ASSUME NEW n PROVE GlobalToShard(g, n) = NoPlace
    OBVIOUS
  <2>1. Len(Keep(g.shards, {x \in ToSet(g.shards) : x.first <= n})) = 0
    BY <1>1, <1>2, <1>3
  <2> QED
    BY <2>1 DEF GlobalToShard
<1>5. \A n \in 0..U32Max : BaseNeighborSlice(g, n) = EdgesFrom(none, n)
  BY <1>3, <1>4 DEF BaseNeighborSlice, EdgesFrom, none
<1>6. \A n \in Nat : ~(n < g.nodeCount)
  BY <1>1
<1>7. DOMAIN g.shards = {}
  BY <1>1, <1>2
<1>9. PlacesAreNodes(g, g.nodeCount)
  BY <1>7 DEF PlacesAreNodes, ShardToGlobal
<1>8. IsGraphOf(g, none, size)
  BY <1>1, <1>2, <1>4, <1>5, <1>6, <1>7, <1>9 DEF IsGraphOf
<1> QED
  BY <1>1, <1>8 DEF g, none, Failed

\* The graph that build puts together from the sorted list.
IsBuilt(g, list, s, nodes, withWeights, size) ==
    /\ s = SortedBySource(list)
    /\ nodes = Max(Endpoints(s) \cup {0}) + 1
    /\ g = [error |-> "none", nodeCount |-> nodes, edgeCount |-> Len(s),
            shards |-> Shards(nodes, RowPtrs(s, nodes), Columns(s, RowPtrs(s, nodes)),
                              withWeights, size)]

IsSortOf(list, s, nodes) ==
    /\ s = SortedBySource(list)
    /\ nodes = Max(Endpoints(s) \cup {0}) + 1

(* The sorted list of edges that fit in u32, and its nodes.                *)
LEMMA SortedList ==
    ASSUME NEW W, NEW list \in Seq(SmallEdge(W)), NEW s, NEW nodes, IsSortOf(list, s, nodes)
    PROVE  /\ InOrder(SmallEdge(W), s, nodes) /\ Len(s) = Len(list)
           /\ \A n \in 0..U32Max : EdgesFrom(s, n) = EdgesFrom(list, n)
           /\ Columns(s, RowPtrs(s, nodes)) = s
           /\ nodes <= U32Max + 1
           /\ nodes = U32Max + 1
                 <=> \E i \in DOMAIN list : list[i].src = U32Max \/ list[i].dst = U32Max
<1> DEFINE V == SmallEdge(W)
<1>0. U32Max \in Nat /\ U32Max >= 1
  BY U32Assumption
<1>1. \A e \in V : e.src \in 0..U32Max /\ e.dst \in 0..U32Max /\ e.src \in Nat
  BY <1>0 DEF SmallEdge
<1> HIDE DEF V
<1>2. list \in Seq(V) /\ DOMAIN list = 1..Len(list) /\ \A i \in 1..Len(list) : list[i] \in V
  BY ListOf DEF V
<1>3. /\ s \in Seq(V) /\ Len(s) = Len(list) /\ Ordered(s)
      /\ \A n \in 0..U32Max : EdgesFrom(s, n) = EdgesFrom(list, n)
  <2>1. s = SortedBySource(list)
    BY DEF IsSortOf
  <2> QED
    BY <1>1, <1>2, <2>1, SortIsStable
<1> DEFINE S == Endpoints(s) \cup {0}
<1>4. /\ \A n \in Endpoints(s) : n \in 0..U32Max
      /\ \A i \in 1..Len(s) : s[i] \in V /\ s[i].src \in S /\ s[i].dst \in S
  <2>1. \A i \in 1..Len(s) : s[i] \in V
    BY <1>3, ListOf
  <2>2. \A n \in Endpoints(s) : n \in 0..U32Max
    BY <1>1, <1>3, <2>1, EndpointsAre
  <2>3. \A i \in 1..Len(s) : s[i].src \in S /\ s[i].dst \in S
    BY <1>3, EndpointsAre
  <2> QED
    BY <2>1, <2>2, <2>3
<1>5. S \in SUBSET Nat /\ S # {} /\ \A x \in S : x <= U32Max
  BY <1>0, <1>4
<1>6. nodes = Max(S) + 1
  BY DEF IsSortOf
<1>7. \A n \in Endpoints(s) : \E i \in 1..Len(s) : n = s[i].src \/ n = s[i].dst
  BY <1>3, EndpointsAre
<1>8. S = Endpoints(s) \cup {0}
  OBVIOUS
<1> HIDE DEF S
<1>9. Max(S) \in S /\ \A x \in S : x <= Max(S)
  BY <1>0, <1>5, LargestNat
<1>10. Max(S) \in 0..U32Max
  <2> DEFINE largest == Max(S)
  <2>1. largest \in S
    BY <1>9
  <2> HIDE DEF largest
  <2>2. largest \in Nat /\ largest <= U32Max
    BY <1>5, <2>1
  <2>3. largest \in 0..U32Max
    BY <1>0, <2>2
  <2> QED
    BY <2>3 DEF largest
<1>11. /\ nodes \in Nat \ {0} /\ nodes <= U32Max + 1
       /\ \A i \in 1..Len(s) : s[i].src < nodes
  <2>1. ASSUME NEW i \in 1..Len(s) PROVE s[i].src < nodes
    <3>1. s[i].src \in S /\ s[i].src \in Nat /\ s[i].src <= Max(S)
      BY <1>1, <1>4, <1>9
    <3> QED
      BY <1>6, <1>10, <3>1
  <2>2. nodes \in Nat \ {0} /\ nodes <= U32Max + 1
    BY <1>0, <1>6, <1>10
  <2> QED
    BY <2>1, <2>2
<1>12. ToSet(s) = ToSet(list)
  <2>1. \A x : x \in ToSet(s) <=> \E i \in 1..Len(s) : x = s[i]
    BY <1>3, ListOf DEF ToSet
  <2>2. \A x : x \in ToSet(list) <=> \E i \in 1..Len(list) : x = list[i]
    BY <1>2 DEF ToSet
  <2>3. \A x \in ToSet(s) \cup ToSet(list) : x \in V
    BY <1>2, <1>4, <2>1, <2>2
  <2>4. ASSUME NEW x \in V PROVE x \in ToSet(s) <=> x \in ToSet(list)
    <3>1. x.src \in 0..U32Max /\ x \in Of(V, x.src)
      BY <1>1, <2>4 DEF Of
    <3>2. EdgesFrom(s, x.src) = EdgesFrom(list, x.src)
      BY <1>3, <3>1
    <3>3. /\ ToSet(EdgesFrom(s, x.src)) = ToSet(s) \cap Of(V, x.src)
          /\ ToSet(EdgesFrom(list, x.src)) = ToSet(list) \cap Of(V, x.src)
      BY <1>2, <1>3, FromIs
    <3> QED
      BY <3>1, <3>2, <3>3
  <2> QED
    BY <2>3, <2>4
<1>13. nodes = U32Max + 1 <=> U32Max \in S
  <2>1. U32Max \in S => Max(S) = U32Max
    BY <1>0, <1>9, <1>10
  <2>2. Max(S) = U32Max => U32Max \in S
    BY <1>9
  <2> QED
    BY <1>0, <1>6, <1>10, <2>1, <2>2
<1>14. U32Max \in S <=> \E x \in ToSet(s) : x.src = U32Max \/ x.dst = U32Max
  <2>1. U32Max \in S <=> U32Max \in Endpoints(s)
    BY <1>0, <1>8
  <2>2. U32Max \in Endpoints(s) <=> \E i \in 1..Len(s) : U32Max = s[i].src \/ U32Max = s[i].dst
    BY <1>3, EndpointsAre
  <2>3. \A x : x \in ToSet(s) <=> \E i \in 1..Len(s) : x = s[i]
    BY <1>3, ListOf DEF ToSet
  <2> QED
    BY <2>1, <2>2, <2>3
<1>15. nodes = U32Max + 1
         <=> \E i \in DOMAIN list : list[i].src = U32Max \/ list[i].dst = U32Max
  <2>1. \A x : x \in ToSet(list) <=> \E i \in DOMAIN list : x = list[i]
    BY <1>2 DEF ToSet
  <2> QED
    BY <1>12, <1>13, <1>14, <2>1
<1>16. InOrder(V, s, nodes)
  BY <1>1, <1>3, <1>11 DEF InOrder
<1>17. Columns(s, RowPtrs(s, nodes)) = s
  BY <1>16, ColumnsAreSorted
<1> QED
  BY <1>3, <1>11, <1>15, <1>16, <1>17, Zenon DEF V

(* The degree of a node is the distance of its row pointers.               *)
LEMMA DegreeIs ==
    ASSUME NEW V, NEW s, NEW nodes, InOrder(V, s, nodes), NEW n \in 0..(nodes - 1)
    PROVE  Len(EdgesFrom(s, n)) = RowPtrs(s, nodes)[n + 1] - RowPtrs(s, nodes)[n]
<1> DEFINE p == RowPtrs(s, nodes)
<1>1. /\ \A i \in 0..nodes : p[i] \in 0..Len(s)
      /\ \A i, j \in 0..nodes : i <= j => p[i] <= p[j]
      /\ s \in Seq(V) /\ nodes \in Nat /\ Len(s) \in Nat
  BY PointersAreOffsets, ListOf DEF InOrder
<1>2. SubSeq(s, p[n] + 1, p[n + 1]) = EdgesFrom(s, n)
  BY RowOfNode
<1> HIDE DEF p
<1>3. n \in 0..nodes /\ n + 1 \in 0..nodes /\ n <= n + 1
  BY <1>1
<1>4. p[n] \in Nat /\ p[n + 1] \in Nat /\ p[n] <= p[n + 1] /\ p[n + 1] <= Len(s)
  BY <1>1, <1>3
<1>5. Len(SubSeq(s, p[n] + 1, p[n + 1])) = p[n + 1] - p[n]
  BY <1>1, <1>4, SliceIs
<1> QED
  BY <1>2, <1>5 DEF p

(* The ids of the shards run out exactly when all ids of u32 are nodes and *)
(* no two of them are in one shard.                                        *)
LEMMA ShardCount ==
    ASSUME NEW W, NEW list \in Seq(SmallEdge(W)), NEW withWeights, NEW size \in Nat,
           NEW s, NEW nodes, IsSortOf(list, s, nodes)
    PROVE  ShardIdsRunOut(Shards(nodes, RowPtrs(s, nodes), Columns(s, RowPtrs(s, nodes)),
                                 withWeights, size))
             <=> TooManyShards(list, withWeights, size)
<1> DEFINE V == SmallEdge(W)
           p == RowPtrs(s, nodes)
           bytes == EdgeBytes(withWeights)
           target == TargetNodes(nodes, Len(s), bytes, size)
           shards == Shards(nodes, p, s, withWeights, size)
           degree(n) == Len(EdgesFrom(list, n))
<1>0. U32Max \in Nat /\ U32Max >= 1
  BY U32Assumption
<1>1. /\ InOrder(V, s, nodes) /\ Len(s) = Len(list)
      /\ \A n \in 0..U32Max : EdgesFrom(s, n) = EdgesFrom(list, n)
      /\ Columns(s, p) = s /\ nodes <= U32Max + 1
      /\ nodes = U32Max + 1
            <=> \E i \in DOMAIN list : list[i].src = U32Max \/ list[i].dst = U32Max
  BY SortedList
<1>2. s \in Seq(V) /\ nodes \in Nat \ {0} /\ Len(s) \in Nat
  BY <1>1, ListOf DEF InOrder
<1>3. /\ \A n \in 0..nodes : p[n] \in Nat
      /\ \A i, j \in 0..nodes : i <= j => p[i] <= p[j]
  <2>1. /\ \A n \in 0..nodes : p[n] \in 0..Len(s)
        /\ \A i, j \in 0..nodes : i <= j => p[i] <= p[j]
    BY <1>1, PointersAreOffsets
  <2> HIDE DEF p
  <2> QED
    BY <1>2, <2>1
<1>4. bytes \in {4, 8}
  BY DEF EdgeBytes
<1>5. target \in Int /\ target >= 1
  BY <1>2, TargetIsPositive
<1>12. PICK ends, c : CutInto(ends, c, nodes, p, s, withWeights, size)
  <2> HIDE DEF p, V
  <2> QED
    BY <1>2, ShardsAreCut
<1>6. /\ Advances(ends, nodes) /\ IsCut(c, ends, nodes, 0)
      /\ Ending(ends, nodes, p, target, bytes, size)
      /\ shards = Cut(c, p, s, withWeights)
  BY <1>12, Zenon DEF CutInto
<1>7. \A n \in 0..U32Max : n < nodes => degree(n) = p[n + 1] - p[n]
  <2> SUFFICES ASSUME NEW n \in 0..U32Max, n < nodes PROVE degree(n) = p[n + 1] - p[n]
    OBVIOUS
  <2>1. n \in 0..(nodes - 1)
    BY <1>2
  <2>2. Len(EdgesFrom(s, n)) = p[n + 1] - p[n]
    BY <1>1, <2>1, DegreeIs
  <2> QED
    BY <1>1, <2>2
<1> HIDE DEF p, target, bytes, shards, V
<1>8. Len(shards) = Len(c) - 1
  <2>1. Len(c) \in Nat /\ Len(c) >= 1
    BY <1>6, ListOf DEF IsCut
  <2> QED
    BY <1>6, <2>1 DEF Cut
<1>9. ShardIdsRunOut(shards) <=> nodes = U32Max + 1 /\ \A n \in 0..(nodes - 1) : ends[n] = n + 1
  BY <1>0, <1>1, <1>2, <1>6, <1>8, CutsCount DEF ShardIdsRunOut
<1>10. ASSUME nodes = U32Max + 1
       PROVE  (\A n \in 0..(nodes - 1) : ends[n] = n + 1) <=> NodesStayApart(list, withWeights, size)
  <2>1. ASSUME NEW n \in 0..(U32Max - 1)
        PROVE  ends[n] = n + 1 <=>
                 \/ target = 1
                 \/ 3 * PointerBytes + (degree(n) + degree(n + 1)) * bytes > size
    <3>1. /\ n \in 0..(nodes - 1) /\ n \in Nat /\ n + 2 <= nodes /\ nodes \in Nat
          /\ n \in 0..U32Max /\ n + 1 \in 0..U32Max /\ n < nodes /\ n + 1 < nodes
          /\ n \in 0..nodes /\ n + 1 \in 0..nodes /\ n + 2 \in 0..nodes
      BY <1>0, <1>10
    <3>2. Pointers(p, nodes)
      BY <1>3, Zenon DEF Pointers
    <3>9. ends[n] = n + 1 <=> AloneAt(n, p, target, bytes, size)
      BY <1>4, <1>5, <1>6, <3>1, <3>2, EndsAreNext
    <3>3. ends[n] = n + 1 <=> target = 1 \/ ShardMemory(p, n, n + 2, bytes) > size
      BY <3>9, Zenon DEF AloneAt
    <3>4. degree(n) = p[n + 1] - p[n] /\ degree(n + 1) = p[(n + 1) + 1] - p[n + 1]
      BY <1>7, <3>1
    <3>5. p[n] \in Nat /\ p[n + 1] \in Nat /\ p[n + 2] \in Nat /\ (n + 1) + 1 = n + 2
      BY <1>3, <3>1
    <3>10. degree(n + 1) = p[n + 2] - p[n + 1]
      BY <3>4, <3>5, Zenon
    <3> HIDE DEF degree
    <3>6. degree(n) + degree(n + 1) = p[n + 2] - p[n]
      BY <3>4, <3>5, <3>10
    <3>7. (n + 2) - n + 1 = 3
      BY <3>1
    <3>8. ShardMemory(p, n, n + 2, bytes) = 3 * PointerBytes + (degree(n) + degree(n + 1)) * bytes
      BY <3>6, <3>7, Zenon DEF ShardMemory
    <3> QED
      BY <3>3, <3>8
  <2>2. ends[U32Max] = U32Max + 1
    <3>1. U32Max \in 0..(nodes - 1)
      BY <1>0, <1>10
    <3>2. ends[U32Max] \in (U32Max + 1)..nodes
      BY <1>6, <3>1 DEF Advances
    <3> QED
      BY <1>0, <1>10, <3>2
  <2>3. target = TargetNodes(U32Max + 1, Len(list), bytes, size)
    BY <1>1, <1>10 DEF target
  <2>4. NodesStayApart(list, withWeights, size) <=>
          \/ target = 1
          \/ \A n \in 0..(U32Max - 1) :
                3 * PointerBytes + (degree(n) + degree(n + 1)) * bytes > size
    BY <2>3, Zenon DEF NodesStayApart, bytes
  <2> HIDE DEF degree
  <2>5. (\A n \in 0..(nodes - 1) : ends[n] = n + 1) <=> \A n \in 0..(U32Max - 1) : ends[n] = n + 1
    <3>1. \A n \in 0..(nodes - 1) : n = U32Max \/ n \in 0..(U32Max - 1)
      BY <1>0, <1>10
    <3>2. \A n \in 0..(U32Max - 1) : n \in 0..(nodes - 1)
      BY <1>0, <1>10
    <3> QED
      BY <2>2, <3>1, <3>2
  <2> QED
    BY <2>1, <2>4, <2>5, Zenon
<1>11. ShardIdsRunOut(shards) <=> TooManyShards(list, withWeights, size)
  BY <1>1, <1>9, <1>10, Zenon DEF TooManyShards
<1> QED
  BY <1>1, <1>11, Zenon DEF shards, p

(* The graph of a list whose nodes fit in u32.                             *)
LEMMA SortedIsGraph ==
    ASSUME NEW W, NEW list \in Seq(SmallEdge(W)), NEW withWeights, NEW size \in Nat,
           NEW g, NEW s, NEW nodes, IsBuilt(g, list, s, nodes, withWeights, size)
    PROVE  ~Failed(g) /\ IsGraphOf(g, list, size)
<1> DEFINE V == SmallEdge(W)
<1>1. IsSortOf(list, s, nodes)
  BY DEF IsBuilt, IsSortOf
<1>3. /\ InOrder(V, s, nodes) /\ Len(s) = Len(list)
      /\ \A n \in 0..U32Max : EdgesFrom(s, n) = EdgesFrom(list, n)
      /\ Columns(s, RowPtrs(s, nodes)) = s
  BY <1>1, SortedList
<1> HIDE DEF V
<1>4. nodes \in Nat \ {0} /\ s \in Seq(V)
  BY <1>3 DEF InOrder
<1> DEFINE p == RowPtrs(s, nodes)
           shards == Shards(nodes, p, s, withWeights, size)
<1>6. PICK ends, c : CutInto(ends, c, nodes, p, s, withWeights, size)
  <2> HIDE DEF p
  <2> QED
    BY <1>4, ShardsAreCut
<1>7. /\ Advances(ends, nodes) /\ IsCut(c, ends, nodes, 0)
      /\ Within(ends, nodes, p, EdgeBytes(withWeights), size)
      /\ shards = Cut(c, p, s, withWeights)
  BY <1>6, Zenon DEF CutInto
<1>8. g.error = "none" /\ g.nodeCount = nodes /\ g.edgeCount = Len(s) /\ g.shards = shards
  BY <1>3 DEF IsBuilt
<1> HIDE DEF shards
<1>9. Sharded(g, c, ends, nodes, V, s, withWeights)
  <2>1. Stored(shards, c, p, s, withWeights)
    <3>1. Stored(Cut(c, p, s, withWeights), c, p, s, withWeights)
      BY ShardFields
    <3> QED
      BY <1>7, <3>1
  <2> QED
    BY <1>3, <1>4, <1>7, <1>8, <2>1 DEF Sharded
<1>10. \A n \in 0..U32Max : BaseNeighborSlice(g, n) = EdgesFrom(list, n)
  <2> SUFFICES ASSUME NEW n \in 0..U32Max PROVE BaseNeighborSlice(g, n) = EdgesFrom(list, n)
    OBVIOUS
  <2>1. n \in Nat
    OBVIOUS
  <2>2. BaseNeighborSlice(g, n) = EdgesFrom(s, n)
    BY <1>9, <2>1, SliceOfNode
  <2> QED
    BY <1>3, <2>2
<1>11. /\ \A n \in Nat :
             IF n < nodes
             THEN /\ GlobalToShard(g, n) # NoPlace
                  /\ ShardToGlobal(g, GlobalToShard(g, n)[1], GlobalToShard(g, n)[2]) = n
             ELSE GlobalToShard(g, n) = NoPlace
       /\ PlacesAreNodes(g, nodes)
  BY <1>9, PlacesInvert, Zenon
<1>12. \A k \in DOMAIN g.shards :
          g.shards[k].end > g.shards[k].first + 1 => ShardBytes(g.shards[k]) <= size
  <2> SUFFICES ASSUME NEW k \in DOMAIN g.shards, g.shards[k].end > g.shards[k].first + 1
               PROVE  ShardBytes(g.shards[k]) <= size
    OBVIOUS
  <2> QED
    BY <1>7, <1>9, ShardsAreSmall
<1>15. \A n \in Nat :
          IF n < g.nodeCount
          THEN /\ GlobalToShard(g, n) # NoPlace
               /\ ShardToGlobal(g, GlobalToShard(g, n)[1], GlobalToShard(g, n)[2]) = n
          ELSE GlobalToShard(g, n) = NoPlace
  BY <1>8, <1>11
<1>16. PlacesAreNodes(g, g.nodeCount)
  BY <1>8, <1>11, Zenon
<1>13. g.edgeCount = Len(list)
  BY <1>3, <1>8
<1>14. IsGraphOf(g, list, size)
  BY <1>10, <1>12, <1>13, <1>15, <1>16, Zenon DEF IsGraphOf
<1> QED
  BY <1>8, <1>14 DEF Failed

(* build refuses a list with a node, a length or a number of shards beyond *)
(* u32, and makes the graph of every other.                                *)
LEMMA BuildIsRight ==
    ASSUME NEW X, NEW W, NEW given \in Seq(AnyEdge(X)), NEW ws \in Seq(W),
           NEW withWeights \in BOOLEAN, NEW size \in Nat
    PROVE  LET g == Build(given, ws, withWeights, size)
               list == ListToSort(given, ws, withWeights)
           IN  /\ Failed(g) <=> \/ HasLargeNode(given) \/ Len(list) > U32Max
                                \/ TooManyShards(list, withWeights, size)
               /\ ~Failed(g) => IsGraphOf(g, list, size)
<1> DEFINE list == ListToSort(given, ws, withWeights)
           g == Build(given, ws, withWeights, size)
           s == SortedBySource(list)
           nodes == Max(Endpoints(s) \cup {0}) + 1
           shards == Shards(nodes, RowPtrs(s, nodes), Columns(s, RowPtrs(s, nodes)),
                            withWeights, size)
           graph == [error |-> "none", nodeCount |-> nodes, edgeCount |-> Len(s),
                     shards |-> shards]
<1>0. U32Max \in Nat /\ U32Max >= 1
  BY U32Assumption
<1>1. Len(given) \in Nat /\ \A i \in 1..Len(given) : given[i] \in AnyEdge(X)
  BY ListOf
<1>2. /\ list \in Seq(AnyEdge(X \cup W)) /\ Len(list) \in Nat /\ Len(list) <= Len(given)
      /\ \A i \in 1..Len(list) : list[i].src = given[i].src /\ list[i].dst = given[i].dst
  <2>0. Len(ws) \in Nat
    BY ListOf
  <2>1. CASE withWeights
    <3>1. list = Zipped(given, ws)
      BY <2>1 DEF ListToSort
    <3> HIDE DEF list
    <3>2. /\ list \in Seq(AnyEdge(W))
          /\ Len(list) = IF Len(given) <= Len(ws) THEN Len(given) ELSE Len(ws)
          /\ \A i \in 1..Len(list) : list[i].src = given[i].src /\ list[i].dst = given[i].dst
      <4>1. Pairing(Zipped(given, ws), given, ws, W)
        BY ZippedIs, Zenon
      <4>2. Pairing(list, given, ws, W)
        BY <3>1, <4>1, Zenon
      <4> QED
        BY <4>2, Zenon DEF Pairing
    <3>3. AnyEdge(W) \subseteq AnyEdge(X \cup W)
      BY DEF AnyEdge
    <3>4. list \in Seq(AnyEdge(X \cup W))
      BY <3>2, <3>3, WiderSeq
    <3> QED
      BY <1>1, <2>0, <3>2, <3>4
  <2>2. CASE ~withWeights
    <3>1. list = given
      BY <2>2 DEF ListToSort
    <3> HIDE DEF list
    <3>3. AnyEdge(X) \subseteq AnyEdge(X \cup W)
      BY DEF AnyEdge
    <3>4. given \in Seq(AnyEdge(X \cup W))
      BY <3>3, WiderSeq
    <3> QED
      BY <1>1, <3>1, <3>4
  <2> QED
    BY <2>1, <2>2
<1>3. g = CASE given = <<>> -> EmptyGraph
            [] \E n \in Endpoints(given) : n > U32Max -> InvalidEdge
            [] OTHER -> IF Len(s) > U32Max \/ ShardIdsRunOut(shards)
                        THEN UnsupportedGraphSize ELSE graph
  BY Zenon DEF Build, ListToSort
<1>8. IsSortOf(list, s, nodes) /\ IsBuilt(graph, list, s, nodes, withWeights, size)
  BY Zenon DEF IsSortOf, IsBuilt
<1>9. ASSUME list \in Seq(SmallEdge(X \cup W))
      PROVE  ShardIdsRunOut(shards) <=> TooManyShards(list, withWeights, size)
  <2> HIDE DEF list, s, nodes
  <2> QED
    BY <1>8, <1>9, ShardCount
<1> HIDE DEF list, graph, g, nodes, s, shards
<1>4. HasLargeNode(given) <=> \E n \in Endpoints(given) : n > U32Max
  BY EndpointsAre DEF HasLargeNode
<1>5. CASE given = <<>>
  <2>1. Len(given) = 0
    BY <1>5
  <2>2. Len(list) = 0
    BY <1>2, <2>1
  <2>3. list = <<>>
    BY <1>2, <2>2
  <2>4. ~HasLargeNode(given)
    BY <2>1 DEF HasLargeNode
  <2>5. g = EmptyGraph
    BY <1>3, <1>4, <1>5, <2>4, Zenon
  <2>6. ~(Len(list) > U32Max)
    BY <1>0, <2>2
  <2>7. ~Failed(g) /\ IsGraphOf(g, list, size)
    BY <2>3, <2>5, EmptyIsGraph
  <2>8. ~TooManyShards(list, withWeights, size)
    BY <2>3 DEF TooManyShards
  <2> QED
    BY <2>4, <2>6, <2>7, <2>8 DEF g, list
<1>6. CASE given # <<>> /\ HasLargeNode(given)
  <2>1. g = InvalidEdge
    BY <1>3, <1>4, <1>6, Zenon
  <2>2. Failed(g)
    BY <2>1 DEF Failed, InvalidEdge
  <2> QED
    BY <1>6, <2>2 DEF g
<1>7. CASE given # <<>> /\ ~HasLargeNode(given)
  <2>1. g = IF Len(s) > U32Max \/ ShardIdsRunOut(shards) THEN UnsupportedGraphSize ELSE graph
    BY <1>3, <1>4, <1>7, Zenon
  <2>2. list \in Seq(SmallEdge(X \cup W))
    <3>1. ASSUME NEW i \in 1..Len(list) PROVE list[i] \in SmallEdge(X \cup W)
      <4>1. list[i] \in AnyEdge(X \cup W)
        BY <1>2, ListOf
      <4>2. i \in 1..Len(given) /\ list[i].src = given[i].src /\ list[i].dst = given[i].dst
        BY <1>1, <1>2
      <4>3. ~(list[i].src > U32Max) /\ ~(list[i].dst > U32Max)
        BY <1>7, <4>2 DEF HasLargeNode
      <4> QED
        BY <1>0, <4>1, <4>3 DEF AnyEdge, SmallEdge
    <3>2. list = [i \in 1..Len(list) |-> list[i]]
      BY <1>2
    <3> QED
      BY <1>2, <3>1, <3>2, IsAList
  <2>3. Len(s) = Len(list)
    <3>1. \A e \in SmallEdge(X \cup W) : e.src \in 0..U32Max
      BY DEF SmallEdge
    <3> QED
      BY <2>2, <3>1, SortIsStable DEF s
  <2>6. ShardIdsRunOut(shards) <=> TooManyShards(list, withWeights, size)
    BY <1>9, <2>2
  <2>4. CASE Len(list) > U32Max \/ TooManyShards(list, withWeights, size)
    <3>1. g = UnsupportedGraphSize
      BY <2>1, <2>3, <2>4, <2>6, Zenon
    <3>2. Failed(g)
      BY <3>1 DEF Failed, UnsupportedGraphSize
    <3> QED
      BY <2>4, <3>2 DEF g, list
  <2>5. CASE ~(Len(list) > U32Max \/ TooManyShards(list, withWeights, size))
    <3>1. g = graph
      BY <2>1, <2>3, <2>5, <2>6, Zenon
    <3>2. ~Failed(graph) /\ IsGraphOf(graph, list, size)
      BY <1>8, <2>2, SortedIsGraph
    <3> QED
      BY <1>7, <2>5, <3>1, <3>2 DEF g, list
  <2> QED
    BY <2>4, <2>5
<1> QED
  BY <1>5, <1>6, <1>7

(***************************************************************************)
(* The builder.                                                            *)
(***************************************************************************)
BuilderTypes ==
    /\ edges \in Seq(AnyEdge({NoWeight}))
    /\ weights \in Seq(Weights)
    /\ weighted \in BOOLEAN
    /\ shardSize \in Nat
    /\ added \in Seq(AnyEdge(Weights \cup {NoWeight}))

\* The edges are those that were added; the weights are those of the last ones
\* or, as long as no plain edge was added, of all of them.
HoldsAdded ==
    /\ Len(added) = Len(edges)
    /\ \A i \in 1..Len(edges) : added[i].src = edges[i].src /\ added[i].dst = edges[i].dst
    /\ ~weighted => \A i \in 1..Len(edges) : added[i].weight = NoWeight
    /\ Len(weights) <= Len(edges)
    /\ Len(weights) = Len(edges) => \A i \in 1..Len(edges) : added[i].weight = weights[i]

BuiltOnce == built = NotBuilt \/ built = Build(edges, weights, weighted, shardSize)

BuilderInv == BuilderTypes /\ HoldsAdded /\ BuiltOnce

(* A list and what is appended to it.                                      *)
LEMMA AppendIs ==
    ASSUME NEW V, NEW s \in Seq(V), NEW e \in V
    PROVE  /\ Append(s, e) \in Seq(V) /\ Len(Append(s, e)) = Len(s) + 1
           /\ Append(s, e)[Len(s) + 1] = e /\ \A i \in 1..Len(s) : Append(s, e)[i] = s[i]
OBVIOUS

(* An edge that is added, with a weight or without.                        *)
LEMMA AddKeeps ==
    ASSUME BuilderInv, NEW a \in Nat, NEW b \in Nat, NEW w \in Weights \cup {NoWeight},
           built = NotBuilt, UNCHANGED <<shardSize, built>>,
           edges' = Append(edges, Edge(a, b, NoWeight)), added' = Append(added, Edge(a, b, w)),
           \/ w = NoWeight /\ UNCHANGED <<weights, weighted>>
           \/ w \in Weights /\ weighted' = TRUE /\ weights' = Append(weights, w)
    PROVE  BuilderInv'
<1> DEFINE n == Len(edges)
<1>1. /\ edges \in Seq(AnyEdge({NoWeight})) /\ weights \in Seq(Weights)
      /\ added \in Seq(AnyEdge(Weights \cup {NoWeight}))
      /\ n \in Nat /\ Len(weights) \in Nat /\ Len(added) = n /\ Len(weights) <= n
  BY ListOf DEF BuilderInv, BuilderTypes, HoldsAdded
<1>2. /\ Edge(a, b, NoWeight) \in AnyEdge({NoWeight})
      /\ Edge(a, b, w) \in AnyEdge(Weights \cup {NoWeight})
      /\ Edge(a, b, NoWeight).src = a /\ Edge(a, b, NoWeight).dst = b
      /\ Edge(a, b, w).src = a /\ Edge(a, b, w).dst = b /\ Edge(a, b, w).weight = w
  BY DEF Edge, AnyEdge
<1>3. /\ edges' \in Seq(AnyEdge({NoWeight})) /\ Len(edges') = n + 1
      /\ edges'[n + 1] = Edge(a, b, NoWeight) /\ \A i \in 1..n : edges'[i] = edges[i]
      /\ added' \in Seq(AnyEdge(Weights \cup {NoWeight})) /\ Len(added') = n + 1
      /\ added'[n + 1] = Edge(a, b, w) /\ \A i \in 1..n : added'[i] = added[i]
  <2>1. /\ edges' \in Seq(AnyEdge({NoWeight})) /\ Len(edges') = n + 1
        /\ edges'[n + 1] = Edge(a, b, NoWeight) /\ \A i \in 1..n : edges'[i] = edges[i]
    BY <1>1, <1>2, AppendIs
  <2>2. /\ added' \in Seq(AnyEdge(Weights \cup {NoWeight})) /\ Len(added') = n + 1
        /\ added'[n + 1] = Edge(a, b, w) /\ \A i \in 1..n : added'[i] = added[i]
    BY <1>1, <1>2, AppendIs
  <2> QED
    BY <2>1, <2>2
<1>4. BuilderTypes'
  <2>1. weights' \in Seq(Weights) /\ weighted' \in BOOLEAN
    <3>1. weighted \in BOOLEAN
      BY DEF BuilderInv, BuilderTypes
    <3>2. CASE w = NoWeight /\ UNCHANGED <<weights, weighted>>
      BY <1>1, <3>1, <3>2
    <3>3. CASE w \in Weights /\ weighted' = TRUE /\ weights' = Append(weights, w)
      BY <1>1, <3>3, AppendIs
    <3> QED
      BY <3>2, <3>3
  <2> QED
    BY <1>3, <2>1 DEF BuilderInv, BuilderTypes
<1>5. HoldsAdded'
  <2>1. /\ \A i \in 1..n : added[i].src = edges[i].src /\ added[i].dst = edges[i].dst
        /\ ~weighted => \A i \in 1..n : added[i].weight = NoWeight
        /\ Len(weights) = n => \A i \in 1..n : added[i].weight = weights[i]
    BY DEF BuilderInv, HoldsAdded
  <2>2. ASSUME NEW i \in 1..(n + 1) PROVE i \in 1..n \/ i = n + 1
    BY <1>1
  <2>3. ASSUME NEW i \in 1..(n + 1)
        PROVE  added'[i].src = edges'[i].src /\ added'[i].dst = edges'[i].dst
    BY <1>2, <1>3, <2>1, <2>2
  <2>4. CASE w = NoWeight /\ UNCHANGED <<weights, weighted>>
    <3>1. ASSUME ~weighted, NEW i \in 1..(n + 1) PROVE added'[i].weight = NoWeight
      BY <1>2, <1>3, <2>1, <2>2, <2>4, <3>1
    <3>2. Len(weights) <= n + 1 /\ Len(weights) # n + 1
      BY <1>1
    <3> QED
      BY <1>3, <2>3, <2>4, <3>1, <3>2 DEF HoldsAdded
  <2>5. CASE w \in Weights /\ weighted' = TRUE /\ weights' = Append(weights, w)
    <3>1. /\ Len(weights') = Len(weights) + 1 /\ weights'[Len(weights) + 1] = w
          /\ \A i \in 1..Len(weights) : weights'[i] = weights[i]
      BY <1>1, <2>5, AppendIs
    <3>2. ASSUME Len(weights') = n + 1, NEW i \in 1..(n + 1)
          PROVE  added'[i].weight = weights'[i]
      <4>1. Len(weights) = n
        BY <1>1, <3>1, <3>2
      <4> QED
        BY <1>2, <1>3, <2>1, <2>2, <3>1, <4>1
    <3>3. Len(weights') <= n + 1
      BY <1>1, <3>1
    <3> QED
      BY <1>3, <2>3, <2>5, <3>2, <3>3 DEF HoldsAdded
  <2> QED
    BY <2>4, <2>5
<1> QED
  BY <1>4, <1>5 DEF BuilderInv, BuiltOnce

(* Every step keeps the invariant, and so it always holds.                 *)
LEMMA BuilderInvHolds == BuilderSpec => []BuilderInv
<1>1. BuilderInit => BuilderInv
  <2> SUFFICES ASSUME BuilderInit PROVE BuilderInv
    OBVIOUS
  <2>1. BuilderTypes
    <3>1. DefaultSize \in Nat
      BY BuildAssumption
    <3>2. \A S : <<>> \in Seq(S)
      OBVIOUS
    <3> QED
      BY <3>1, <3>2, Zenon DEF BuilderInit, BuilderTypes
  <2>2. HoldsAdded
    BY DEF BuilderInit, HoldsAdded
  <2>3. BuiltOnce
    BY DEF BuilderInit, BuiltOnce
  <2> QED
    BY <2>1, <2>2, <2>3 DEF BuilderInv
<1>2. BuilderInv /\ [BuilderNext]_builder => BuilderInv'
  <2> SUFFICES ASSUME BuilderInv, [BuilderNext]_builder PROVE BuilderInv'
    OBVIOUS
  <2>1. ASSUME NEW size \in Sizes, WithShardSize(size) PROVE BuilderInv'
    <3>1. size \in Nat
      BY BuildAssumption
    <3> QED
      BY <2>1, <3>1 DEF WithShardSize, BuilderInv, BuilderTypes, HoldsAdded, BuiltOnce
  <2>2. ASSUME NEW a \in Ids, NEW b \in Ids, WithEdges(a, b) PROVE BuilderInv'
    <3>1. a \in Nat /\ b \in Nat
      BY BuildAssumption
    <3> QED
      BY <2>2, <3>1, AddKeeps DEF WithEdges
  <2>3. ASSUME NEW a \in Ids, NEW b \in Ids, NEW w \in Weights, WithWeightedEdge(a, b, w)
        PROVE  BuilderInv'
    <3>1. a \in Nat /\ b \in Nat
      BY BuildAssumption
    <3> QED
      BY <2>3, <3>1, AddKeeps DEF WithWeightedEdge
  <2>4. ASSUME WithNoWeightedEdges PROVE BuilderInv'
    BY <2>4 DEF WithNoWeightedEdges, BuilderInv, BuilderTypes, HoldsAdded, BuiltOnce
  <2>5. ASSUME BuildGraph PROVE BuilderInv'
    <3>1. UNCHANGED <<edges, weights, weighted, shardSize, added>>
      BY <2>5 DEF BuildGraph
    <3>2. BuilderTypes' /\ HoldsAdded'
      BY <3>1 DEF BuilderInv, BuilderTypes, HoldsAdded
    <3>3. built' = Build(edges', weights', weighted', shardSize')
      BY <2>5, <3>1, Zenon DEF BuildGraph
    <3> QED
      BY <3>2, <3>3, Zenon DEF BuilderInv, BuiltOnce
  <2>6. CASE UNCHANGED builder
    BY <2>6 DEF builder, BuilderInv, BuilderTypes, HoldsAdded, BuiltOnce
  <2> QED
    BY <2>1, <2>2, <2>3, <2>4, <2>5, <2>6 DEF BuilderNext
<1> QED
  BY <1>1, <1>2, PTL DEF BuilderSpec

\* The list of edges that build sorts.
Sorted == ListToSort(edges, weights, weighted)

(* Unless plain and weighted edges are mixed it is what the caller added.  *)
LEMMA NothingLost ==
    ASSUME BuilderInv, ~Mixed
    PROVE  Sorted = added
<1> DEFINE W == Weights \cup {NoWeight}
           n == Len(edges)
<1>1. /\ edges \in Seq(AnyEdge({NoWeight})) /\ weights \in Seq(Weights)
      /\ added \in Seq(AnyEdge(W)) /\ weighted \in BOOLEAN /\ n \in Nat /\ Len(added) = n
      /\ \A i \in 1..n : edges[i] \in AnyEdge({NoWeight}) /\ added[i] \in AnyEdge(W)
      /\ \A i \in 1..n : added[i].src = edges[i].src /\ added[i].dst = edges[i].dst
  BY ListOf DEF BuilderInv, BuilderTypes, HoldsAdded
<1>2. ASSUME NEW list, list \in Seq(AnyEdge(W)), Len(list) = n,
             \A i \in 1..n : /\ list[i].src = edges[i].src /\ list[i].dst = edges[i].dst
                             /\ list[i].weight = added[i].weight
      PROVE  list = added
  <2>1. ASSUME NEW i \in 1..n PROVE list[i] = added[i]
    <3>1. list[i] \in AnyEdge(W) /\ added[i] \in AnyEdge(W)
      BY <1>1, <1>2, ListOf
    <3>2. list[i].src = added[i].src /\ list[i].dst = added[i].dst
          /\ list[i].weight = added[i].weight
      BY <1>1, <1>2
    <3> HIDE DEF W
    <3> QED
      BY <3>1, <3>2 DEF AnyEdge
  <2> HIDE DEF W
  <2> QED
    BY <1>1, <1>2, <2>1, SameLists
<1>3. CASE weighted
  <2> DEFINE list == Zipped(edges, weights)
  <2>1. Len(weights) = n /\ \A i \in 1..n : added[i].weight = weights[i]
    BY <1>3 DEF Mixed, BuilderInv, HoldsAdded
  <2>2. /\ list \in Seq(AnyEdge(Weights)) /\ Len(list) = n
        /\ \A i \in 1..n : list[i] = [edges[i] EXCEPT !.weight = weights[i]]
        /\ \A i \in 1..n : list[i].src = edges[i].src /\ list[i].dst = edges[i].dst
    <3> HIDE DEF list
    <3>1. Len(edges) <= Len(weights)
      BY <1>1, <2>1
    <3>2. /\ list \in Seq(AnyEdge(Weights))
          /\ Len(list) = IF Len(edges) <= Len(weights) THEN Len(edges) ELSE Len(weights)
          /\ \A i \in 1..Len(list) : list[i] = [edges[i] EXCEPT !.weight = weights[i]]
          /\ \A i \in 1..Len(list) : list[i].src = edges[i].src /\ list[i].dst = edges[i].dst
      <4>1. edges \in Seq(AnyEdge({NoWeight})) /\ weights \in Seq(Weights)
        BY <1>1
      <4>2. Pairing(list, edges, weights, Weights)
        BY <4>1, ZippedIs, Zenon DEF list
      <4> QED
        BY <4>2, Zenon DEF Pairing
    <3>3. Len(list) = n
      BY <3>1, <3>2
    <3> QED
      BY <3>2, <3>3
  <2> HIDE DEF list
  <2>3. ASSUME NEW i \in 1..n PROVE list[i].weight = added[i].weight
    <3>1. edges[i] \in AnyEdge({NoWeight}) /\ list[i] = [edges[i] EXCEPT !.weight = weights[i]]
      BY <1>1, <2>2
    <3>2. list[i].weight = weights[i]
      BY <3>1 DEF AnyEdge
    <3> QED
      BY <2>1, <3>2
  <2>4. list \in Seq(AnyEdge(W))
    <3>1. AnyEdge(Weights) \subseteq AnyEdge(W)
      BY DEF AnyEdge
    <3> HIDE DEF W
    <3> QED
      BY <2>2, <3>1, WiderSeq
  <2>5. list = added
    <3> HIDE DEF W
    <3> QED
      BY <1>2, <2>2, <2>3, <2>4
  <2> QED
    BY <1>3, <2>5, Zenon DEF list, Sorted, ListToSort
<1>4. CASE ~weighted
  <2>1. ASSUME NEW i \in 1..n PROVE edges[i].weight = added[i].weight
    BY <1>1, <1>4 DEF AnyEdge, BuilderInv, HoldsAdded
  <2>2. edges \in Seq(AnyEdge(W))
    <3>1. AnyEdge({NoWeight}) \subseteq AnyEdge(W)
      BY DEF AnyEdge
    <3> HIDE DEF W
    <3> QED
      BY <1>1, <3>1, WiderSeq
  <2>3. edges = added
    <3> HIDE DEF W
    <3> QED
      BY <1>2, <2>1, <2>2
  <2> QED
    BY <1>4, <2>3, Zenon DEF Sorted, ListToSort
<1> QED
  BY <1>1, <1>3, <1>4

(* What build has returned.                                                *)
LEMMA BuiltIsRight ==
    ASSUME BuilderInv, built # NotBuilt
    PROVE  /\ Failed(built) <=> \/ HasLargeNode(edges) \/ Len(Sorted) > U32Max
                                \/ TooManyShards(Sorted, weighted, shardSize)
           /\ ~Failed(built) => IsGraphOf(built, Sorted, shardSize)
<1>1. /\ edges \in Seq(AnyEdge({NoWeight})) /\ weights \in Seq(Weights)
      /\ weighted \in BOOLEAN /\ shardSize \in Nat
      /\ built = Build(edges, weights, weighted, shardSize)
  BY DEF BuilderInv, BuilderTypes, BuiltOnce
<1>2. LET g == Build(edges, weights, weighted, shardSize)
          list == ListToSort(edges, weights, weighted)
      IN  /\ Failed(g) <=> \/ HasLargeNode(edges) \/ Len(list) > U32Max
                           \/ TooManyShards(list, weighted, shardSize)
          /\ ~Failed(g) => IsGraphOf(g, list, shardSize)
  BY <1>1, BuildIsRight, Zenon
<1> QED
  BY <1>1, <1>2, Zenon DEF Sorted

(* A builder that has not built has no graph.                              *)
LEMMA NothingBuilt == Graph => built # NotBuilt
BY DEF Graph, Failed, NotBuilt

(* For any sequence of calls on a builder, any ids, weights and shard      *)
(* sizes: the built graph returns the edges of every node with their       *)
(* weights in the order they were added (builder.rs:71-298,                *)
(* csr.rs:133-204).                                                        *)
THEOREM AdjacencyIsAsAdded == BuilderSpec => []AdjacencyAsAdded
<1>1. BuilderInv => AdjacencyAsAdded
  <2> SUFFICES ASSUME BuilderInv, Graph, ~Mixed, NEW n \in 0..U32Max
               PROVE  BaseNeighborSlice(built, n) = Outgoing(n)
    BY DEF AdjacencyAsAdded
  <2>1. IsGraphOf(built, Sorted, shardSize)
    BY NothingBuilt, BuiltIsRight, Zenon DEF Graph
  <2>2. Sorted = added
    BY NothingLost
  <2> QED
    BY <2>1, <2>2, Zenon DEF IsGraphOf, Outgoing
<1> QED
  BY <1>1, BuilderInvHolds, PTL

(* The two lookups between global ids and places in shards are inverse in  *)
(* every graph that build returns, however the edges were added            *)
(* (csr.rs:133-158, builder.rs:203-298).                                   *)
THEOREM LookupsAreInverse == BuilderSpec => []LookupsInvert
<1>1. BuilderInv => LookupsInvert
  <2> SUFFICES ASSUME BuilderInv, Graph PROVE LookupsInvert
    BY DEF LookupsInvert
  <2>1. IsGraphOf(built, Sorted, shardSize)
    BY NothingBuilt, BuiltIsRight, Zenon DEF Graph
  <2>2. /\ \A n \in Nat :
              IF n < built.nodeCount
              THEN /\ GlobalToShard(built, n) # NoPlace
                   /\ ShardToGlobal(built, GlobalToShard(built, n)[1],
                                    GlobalToShard(built, n)[2]) = n
              ELSE GlobalToShard(built, n) = NoPlace
        /\ PlacesAreNodes(built, built.nodeCount)
    BY <2>1, Zenon DEF IsGraphOf
  <2>3. ASSUME NEW n \in 0..(U32Max + 1) PROVE n \in Nat
    BY U32Assumption
  <2> QED
    BY <2>2, <2>3, Zenon DEF LookupsInvert, ContainsNode, PlacesAreNodes
<1> QED
  BY <1>1, BuilderInvHolds, PTL

(* No shard of more than one node is larger than the configured size, for  *)
(* any size and any edges (builder.rs:203-322).                            *)
THEOREM ShardsAlwaysFit == BuilderSpec => []ShardsFit
<1>1. BuilderInv => ShardsFit
  <2> SUFFICES ASSUME BuilderInv, Graph PROVE ShardsFit
    BY DEF ShardsFit
  <2>1. IsGraphOf(built, Sorted, shardSize)
    BY NothingBuilt, BuiltIsRight, Zenon DEF Graph
  <2> QED
    BY <2>1, Zenon DEF IsGraphOf, ShardsFit
<1> QED
  BY <1>1, BuilderInvHolds, PTL

(* build refuses exactly the edges that do not fit in u32, by an id, by    *)
(* their number or by the number of shards, and counts all the others      *)
(* (builder.rs:71-137, 288-294).                                           *)
THEOREM BuildIsRefusedOrComplete == BuilderSpec => []RefusedOrComplete
<1>1. BuilderInv => RefusedOrComplete
  <2> SUFFICES ASSUME BuilderInv, built # NotBuilt, ~Mixed
               PROVE  IF \/ \E i \in DOMAIN added : added[i].src > U32Max \/ added[i].dst > U32Max
                         \/ Len(added) > U32Max
                         \/ TooManyShards(added, weighted, shardSize)
                      THEN Failed(built)
                      ELSE ~Failed(built) /\ built.edgeCount = Len(added)
    BY DEF RefusedOrComplete
  <2>1. /\ Failed(built) <=> \/ HasLargeNode(edges) \/ Len(Sorted) > U32Max
                             \/ TooManyShards(Sorted, weighted, shardSize)
        /\ ~Failed(built) => IsGraphOf(built, Sorted, shardSize)
    BY BuiltIsRight
  <2>2. Sorted = added
    BY NothingLost
  <2>3. /\ DOMAIN added = 1..Len(edges)
        /\ \A i \in 1..Len(edges) : added[i].src = edges[i].src /\ added[i].dst = edges[i].dst
    BY ListOf DEF BuilderInv, BuilderTypes, HoldsAdded
  <2>4. HasLargeNode(edges) <=>
            \E i \in DOMAIN added : added[i].src > U32Max \/ added[i].dst > U32Max
    BY <2>3 DEF HasLargeNode
  <2>5. ~Failed(built) => built.edgeCount = Len(added)
    BY <2>1, <2>2, Zenon DEF IsGraphOf
  <2> QED
    BY <2>1, <2>2, <2>4, <2>5
<1> QED
  BY <1>1, BuilderInvHolds, PTL

(***************************************************************************)
(* The operator.                                                           *)
(***************************************************************************)
Items == {Batch(rows) : rows \in Batches} \cup {InputError, InputEnd}

(***************************************************************************)
(* The inductive invariant.                                                *)
(***************************************************************************)
TypeInv ==
    /\ phase \in [Streams -> {"new", "refused", "running", "ended", "dropped"}]
    /\ sent \in [Streams -> Seq(Items)]
    /\ taken \in [Streams -> Nat]
    /\ finished \in [Streams -> BOOLEAN]
    /\ DOMAIN output = Streams

\* An input sends nothing after an error or its end.
InputInv ==
    \A s \in Streams :
        /\ taken[s] <= Len(sent[s])
        /\ \A i \in 1..Len(sent[s]) : i < Len(sent[s]) => sent[s][i].kind = "batch"

\* A stream has yielded an item exactly when it is finished, and one that is
\* not an error only after the sink was set.
OutputInv ==
    \A s \in Streams :
        /\ phase[s] = "ended" => finished[s]
        /\ ~finished[s] => output[s] = <<>>
        /\ finished[s] => \E item : /\ output[s] = <<item>>
                                    /\ item # Failure /\ config.sink => sink # Unset

SinkInv ==
    sink # Unset =>
        /\ sink.by \in Streams
        /\ finished[sink.by]
        /\ Len(sent[sink.by]) >= 1
        /\ sent[sink.by][Len(sent[sink.by])] = InputEnd
        /\ output[sink.by] = <<Statistics(sink.graph)>>

Inv == TypeInv /\ InputInv /\ OutputInv /\ SinkInv

-----------------------------------------------------------------------------
(* The kinds tell the items apart.                                         *)
LEMMA ItemKinds ==
    ASSUME NEW item \in Items
    PROVE  /\ item.kind \in {"batch", "error", "end"}
           /\ item.kind = "end" => item = InputEnd
BY DEF Items, Batch, InputError, InputEnd

(* The initial states satisfy the invariant.                               *)
LEMMA InitInv == Init => Inv
<1> SUFFICES ASSUME Init PROVE Inv
  OBVIOUS
<1>1. TypeInv
  BY DEF Init, TypeInv
<1>2. InputInv /\ OutputInv /\ SinkInv
  BY DEF Init, InputInv, OutputInv, SinkInv
<1> QED
  BY <1>1, <1>2 DEF Inv

(* An item that arrives goes behind batches only.                          *)
LEMMA SendKeeps ==
    ASSUME Inv, NEW s \in Streams, NEW item \in Items, Send(s, item)
    PROVE  Inv'
<1>0. sent \in [Streams -> Seq(Items)] /\ taken \in [Streams -> Nat]
  BY DEF Inv, TypeInv
<1>1. /\ sent' = [sent EXCEPT ![s] = Append(sent[s], item)]
      /\ UNCHANGED <<config, phase, taken, finished, output, sink>>
      /\ \A i \in DOMAIN sent[s] : sent[s][i].kind = "batch"
  BY <1>0 DEF Send, InputOpen
<1>2. \A u \in Streams : sent'[u] = IF u = s THEN Append(sent[s], item) ELSE sent[u]
  BY <1>0, <1>1
<1>3. /\ sent[s] \in Seq(Items) /\ Len(sent[s]) \in Nat /\ DOMAIN sent[s] = 1..Len(sent[s])
      /\ Append(sent[s], item) \in Seq(Items)
      /\ Len(Append(sent[s], item)) = Len(sent[s]) + 1
      /\ \A i \in 1..Len(sent[s]) : Append(sent[s], item)[i] = sent[s][i]
  BY <1>0
<1>4. TypeInv'
  <2>1. sent' \in [Streams -> Seq(Items)]
    BY <1>0, <1>1, <1>3
  <2> QED
    BY <1>1, <2>1 DEF Inv, TypeInv
<1>5. ASSUME NEW u \in Streams
      PROVE  /\ taken[u] <= Len(sent'[u])
             /\ \A i \in 1..Len(sent'[u]) : i < Len(sent'[u]) => sent'[u][i].kind = "batch"
  <2>1. CASE u = s
    <3>1. sent'[u] = Append(sent[s], item)
      BY <1>2, <2>1
    <3>2. taken[u] <= Len(sent[s]) /\ taken[u] \in Nat
      BY <1>0, <2>1 DEF Inv, InputInv
    <3> QED
      BY <1>1, <1>3, <3>1, <3>2
  <2>2. CASE u # s
    BY <1>2, <2>2 DEF Inv, InputInv
  <2> QED
    BY <2>1, <2>2
<1>6. OutputInv'
  BY <1>1 DEF Inv, OutputInv
<1>7. SinkInv'
  <2> SUFFICES ASSUME sink # Unset
               PROVE  Len(sent'[sink.by]) >= 1
                      /\ sent'[sink.by][Len(sent'[sink.by])] = InputEnd
    BY <1>1 DEF Inv, SinkInv, Statistics
  <2>1. /\ sink.by \in Streams /\ Len(sent[sink.by]) >= 1
        /\ sent[sink.by][Len(sent[sink.by])] = InputEnd
    BY DEF Inv, SinkInv
  <2>2. sink.by # s
    BY <1>1, <1>3, <2>1 DEF InputEnd
  <2> QED
    BY <1>2, <2>1, <2>2
<1> QED
  BY <1>1, <1>4, <1>5, <1>6, <1>7 DEF Inv, InputInv

(* A step that leaves what was sent and yielded alone.                     *)
LEMMA QuietKeeps ==
    ASSUME Inv, NEW s \in Streams, UNCHANGED <<config, sent, finished, output, sink>>,
           \/ UNCHANGED phase
           \/ \E to \in {"refused", "running", "ended", "dropped"} :
                 /\ phase' = [phase EXCEPT ![s] = to]
                 /\ to = "ended" => finished[s],
           \/ UNCHANGED taken
           \/ taken' = [taken EXCEPT ![s] = @ + 1] /\ taken[s] < Len(sent[s])
    PROVE  Inv'
<1>1. TypeInv'
  <2>1. phase' \in [Streams -> {"new", "refused", "running", "ended", "dropped"}]
    BY DEF Inv, TypeInv
  <2>2. taken' \in [Streams -> Nat]
    <3>1. taken \in [Streams -> Nat]
      BY DEF Inv, TypeInv
    <3>2. CASE taken' = [taken EXCEPT ![s] = @ + 1]
      <4>1. taken[s] + 1 \in Nat
        BY <3>1
      <4> QED
        BY <3>1, <3>2, <4>1
    <3> QED
      BY <3>1, <3>2
  <2> QED
    BY <2>1, <2>2 DEF Inv, TypeInv
<1>2. ASSUME NEW u \in Streams PROVE taken'[u] <= Len(sent[u])
  <2>1. taken \in [Streams -> Nat] /\ taken[u] <= Len(sent[u]) /\ sent[u] \in Seq(Items)
    BY DEF Inv, TypeInv, InputInv
  <2>2. Len(sent[u]) \in Nat
    BY <2>1
  <2> QED
    BY <2>1, <2>2
<1>3. InputInv'
  BY <1>2 DEF Inv, InputInv
<1>4. ASSUME NEW u \in Streams PROVE phase'[u] = "ended" => finished[u]
  BY DEF Inv, TypeInv, OutputInv
<1>5. OutputInv'
  BY <1>4 DEF Inv, OutputInv
<1>6. SinkInv'
  BY DEF Inv, SinkInv, Statistics
<1> QED
  BY <1>1, <1>3, <1>5, <1>6 DEF Inv

(* A poll that yields: the stream was not finished, and the sink stays as  *)
(* it is or is set to the graph whose statistics the stream yields.        *)
LEMMA YieldKeeps ==
    ASSUME Inv, NEW s \in Streams, NEW item, NEW kind, HasInput(s, kind),
           Take(s), Yield(s, item), UNCHANGED <<config, phase, sent>>,
           \/ UNCHANGED sink /\ (item # Failure /\ config.sink => sink # Unset)
           \/ \E graph : /\ sink' = [by |-> s, graph |-> graph]
                         /\ item = Statistics(graph) /\ kind = "end"
    PROVE  Inv'
<1>0. /\ ~finished[s] /\ taken[s] < Len(sent[s]) /\ sent[s][taken[s] + 1].kind = kind
      /\ phase[s] = "running"
  BY DEF HasInput, Polled
<1>1. /\ output' = [output EXCEPT ![s] = Append(output[s], item)]
      /\ finished' = [finished EXCEPT ![s] = TRUE]
      /\ taken' = [taken EXCEPT ![s] = taken[s] + 1]
  BY DEF Yield, Take
<1>2. output[s] = <<>> /\ Append(<<>>, item) = <<item>>
  BY <1>0 DEF Inv, OutputInv
<1>3. /\ DOMAIN output = Streams /\ finished \in [Streams -> BOOLEAN]
      /\ taken \in [Streams -> Nat] /\ sent \in [Streams -> Seq(Items)]
  BY DEF Inv, TypeInv
<1>4. \A u \in Streams : /\ output'[u] = IF u = s THEN <<item>> ELSE output[u]
                         /\ finished'[u] = IF u = s THEN TRUE ELSE finished[u]
                         /\ taken'[u] = IF u = s THEN taken[u] + 1 ELSE taken[u]
  BY <1>1, <1>2, <1>3
<1>5. TypeInv'
  <2>1. finished' \in [Streams -> BOOLEAN] /\ taken' \in [Streams -> Nat]
    BY <1>1, <1>3
  <2>2. DOMAIN output' = Streams
    BY <1>1, <1>3
  <2> QED
    BY <2>1, <2>2 DEF Inv, TypeInv
<1>6. InputInv'
  <2>1. ASSUME NEW u \in Streams PROVE taken'[u] <= Len(sent[u])
    <3>1. taken[u] \in Nat /\ taken[u] <= Len(sent[u]) /\ sent[u] \in Seq(Items)
      BY <1>3 DEF Inv, InputInv
    <3>2. Len(sent[u]) \in Nat
      BY <3>1
    <3>3. CASE u = s
      <4>1. taken'[u] = taken[u] + 1 /\ taken[u] < Len(sent[u])
        BY <1>0, <1>4, <3>3
      <4> QED
        BY <3>1, <3>2, <4>1
    <3>4. CASE u # s
      BY <1>4, <3>1, <3>4
    <3> QED
      BY <3>3, <3>4
  <2> QED
    BY <2>1 DEF Inv, InputInv
<1>7. sink # Unset => sink.by # s
  BY <1>0 DEF Inv, SinkInv
<1>8. sink # Unset => sink' # Unset
  BY DEF Unset
<1>9. item # Failure /\ config.sink => sink' # Unset
  BY DEF Unset
<1>10. OutputInv'
  <2>1. ASSUME NEW u \in Streams
        PROVE  /\ phase[u] = "ended" => finished'[u]
               /\ ~finished'[u] => output'[u] = <<>>
               /\ finished'[u] => \E i : /\ output'[u] = <<i>>
                                         /\ i # Failure /\ config.sink => sink' # Unset
    <3>1. CASE u = s
      BY <1>4, <1>9, <3>1
    <3>2. CASE u # s
      <4>1. output'[u] = output[u] /\ finished'[u] = finished[u]
        BY <1>4, <3>2
      <4>2. /\ phase[u] = "ended" => finished[u]
            /\ ~finished[u] => output[u] = <<>>
        BY DEF Inv, OutputInv
      <4>3. ASSUME finished[u]
            PROVE  \E i : /\ output[u] = <<i>>
                          /\ i # Failure /\ config.sink => sink' # Unset
        <5>1. PICK i : /\ output[u] = <<i>>
                       /\ i # Failure /\ config.sink => sink # Unset
          BY <4>3 DEF Inv, OutputInv
        <5> QED
          BY <1>8, <5>1
      <4> QED
        BY <4>1, <4>2, <4>3
    <3> QED
      BY <3>1, <3>2
  <2> QED
    BY <2>1 DEF OutputInv
<1>11. SinkInv'
  <2>1. CASE UNCHANGED sink
    <3> SUFFICES ASSUME sink # Unset
                 PROVE  finished'[sink.by] /\ output'[sink.by] = <<Statistics(sink.graph)>>
      BY <2>1 DEF Inv, SinkInv, Statistics
    <3> QED
      BY <1>4, <1>7 DEF Inv, SinkInv
  <2>2. ASSUME NEW graph, sink' = [by |-> s, graph |-> graph], item = Statistics(graph),
               kind = "end"
        PROVE  SinkInv'
    <3>1. sink'.by = s /\ sink'.graph = graph
      BY <2>2
    <3>2. sent[s] \in Seq(Items) /\ taken[s] \in Nat
      BY <1>3
    <3>3. Len(sent[s]) \in Nat /\ taken[s] + 1 \in 1..Len(sent[s])
      BY <1>0, <3>2
    <3>4. taken[s] + 1 = Len(sent[s])
      <4>1. ~(taken[s] + 1 < Len(sent[s]))
        BY <1>0, <2>2, <3>3 DEF Inv, InputInv
      <4> QED
        BY <3>2, <3>3, <4>1
    <3>5. sent[s][Len(sent[s])] = InputEnd
      BY <1>0, <2>2, <3>2, <3>3, <3>4, ItemKinds
    <3>6. output'[s] = <<Statistics(graph)>> /\ finished'[s] /\ Len(sent[s]) >= 1
      <4>1. output'[s] = <<item>> /\ finished'[s]
        BY <1>4
      <4>2. Len(sent[s]) >= 1
        BY <3>2, <3>3
      <4> QED
        BY <2>2, <4>1, <4>2
    <3> QED
      BY <3>1, <3>5, <3>6 DEF SinkInv, Statistics
  <2> QED
    BY <2>1, <2>2
<1> QED
  BY <1>5, <1>6, <1>10, <1>11 DEF Inv

(* Every step keeps the invariant, and so it always holds.                 *)
LEMMA InvHolds == Spec => []Inv
<1>1. Inv /\ [Next]_vars => Inv'
  <2> SUFFICES ASSUME Inv, [Next]_vars PROVE Inv'
    OBVIOUS
  <2>1. ASSUME NEW s \in Streams, NEW partition \in {0, 1}, Execute(s, partition) PROVE Inv'
    BY <2>1, QuietKeeps DEF Execute
  <2>2. ASSUME NEW s \in Streams, Arrive(s) PROVE Inv'
    <3>1. PICK item \in Items : Send(s, item)
      BY <2>2 DEF Arrive, Items
    <3> QED
      BY <3>1, SendKeeps
  <2>3. ASSUME NEW s \in Streams, Drop(s) \/ PollFinished(s) \/ PollPending(s) PROVE Inv'
    BY <2>3, QuietKeeps DEF Drop, PollFinished, PollPending
  <2>4. ASSUME NEW s \in Streams, PollBatch(s) PROVE Inv'
    BY <2>4, QuietKeeps DEF PollBatch, HasInput, Take
  <2>5. ASSUME NEW s \in Streams, PollBadBatch(s) PROVE Inv'
    <3>1. /\ HasInput(s, "batch") /\ Take(s) /\ Yield(s, Failure)
          /\ UNCHANGED <<config, phase, sent, sink>>
      BY <2>5 DEF PollBadBatch
    <3> QED
      BY <3>1, YieldKeeps
  <2>6. ASSUME NEW s \in Streams, PollInputError(s) PROVE Inv'
    <3>1. /\ HasInput(s, "error") /\ Take(s) /\ Yield(s, Failure)
          /\ UNCHANGED <<config, phase, sent, sink>>
      BY <2>6 DEF PollInputError
    <3> QED
      BY <3>1, YieldKeeps
  <2>7. ASSUME NEW s \in Streams, BuildCsr(s) PROVE Inv'
    <3> DEFINE graph == Build(buffer[s].edges, buffer[s].weights, config.weighted, Size)
    <3>1. HasInput(s, "end") /\ Take(s) /\ UNCHANGED <<config, phase, sent>>
      BY <2>7 DEF BuildCsr
    <3>2. \/ Yield(s, Failure) /\ UNCHANGED sink
          \/ Yield(s, Statistics(graph)) /\ sink' = Publish(s, graph)
      BY <2>7 DEF BuildCsr
    <3> HIDE DEF graph
    <3>3. CASE Yield(s, Failure) /\ UNCHANGED sink
      BY <3>1, <3>3, YieldKeeps
    <3>4. CASE Yield(s, Statistics(graph)) /\ sink' = Publish(s, graph)
      <4>1. CASE config.sink /\ sink = Unset
        <5>1. sink' = [by |-> s, graph |-> graph]
          BY <3>4, <4>1 DEF Publish
        <5> QED
          BY <3>1, <3>4, <5>1, YieldKeeps
      <4>2. CASE ~(config.sink /\ sink = Unset)
        <5>1. UNCHANGED sink
          BY <3>4, <4>2 DEF Publish
        <5> QED
          BY <3>1, <3>4, <4>2, <5>1, YieldKeeps
      <4> QED
        BY <4>1, <4>2
    <3> QED
      BY <3>2, <3>3, <3>4
  <2>8. CASE UNCHANGED vars
    BY <2>8 DEF vars, Inv, TypeInv, InputInv, OutputInv, SinkInv, Statistics
  <2> QED
    BY <2>1, <2>2, <2>3, <2>4, <2>5, <2>6, <2>7, <2>8 DEF Next, PollNext
<1> QED
  BY <1>1, InitInv, PTL DEF Spec

(* Joining lists.                                                          *)
LEMMA FlattenAll ==
    ASSUME NEW V, NEW seqs \in Seq(Seq(V))
    PROVE  FlattenSeq(seqs) \in Seq(V)
<1>1. FlattenSeq(seqs) \in Seq(V) /\ FlattenSeq(Append(seqs, <<>>)) = FlattenSeq(seqs) \o <<>>
  <2>1. <<>> \in Seq(V)
    OBVIOUS
  <2> QED
    BY <2>1, FlattenAppend
<1> QED
  BY <1>1

Valid == {row \in InputRows : row.src # Null /\ row.dst # Null}
AllWeights == {WeightOf(row) : row \in InputRows}

\* The rows of the first k items of an input that count.
RowsOf(items, k) == NonNull(FlattenSeq([i \in 1..k |-> items[i].rows]))

(* Every item carries a list of rows.                                      *)
LEMMA ItemRows ==
    ASSUME NEW item \in Items
    PROVE  item.rows \in Seq(InputRows)
<1>1. ASSUME NEW rows \in Batches, item = Batch(rows) PROVE item.rows \in Seq(InputRows)
  BY <1>1, StreamAssumption DEF Batch
<1>2. ASSUME item \in {InputError, InputEnd} PROVE item.rows \in Seq(InputRows)
  <2>1. item.rows = <<>>
    BY <1>2 DEF InputError, InputEnd
  <2> QED
    BY <2>1
<1> QED
  BY <1>1, <1>2 DEF Items

(* The rows without a null endpoint.                                       *)
LEMMA NonNullIs ==
    ASSUME NEW rows \in Seq(InputRows)
    PROVE  NonNull(rows) = Keep(rows, Valid) /\ NonNull(rows) \in Seq(Valid)
<1> DEFINE S == {r \in ToSet(rows) : r.src # Null /\ r.dst # Null}
<1>1. \A i \in 1..Len(rows) : rows[i] \in InputRows /\ rows[i] \in ToSet(rows)
  <2>1. \A i \in 1..Len(rows) : rows[i] \in InputRows /\ i \in DOMAIN rows
    BY ListOf
  <2> QED
    BY <2>1, Zenon DEF ToSet
<1>2. \A i \in 1..Len(rows) : rows[i] \in S <=> rows[i] \in Valid
  BY <1>1, Zenon DEF Valid
<1>3. NonNull(rows) = Keep(rows, S)
  BY DEF NonNull
<1> HIDE DEF S
<1>4. NonNull(rows) = Keep(rows, Valid)
  BY <1>2, <1>3, KeepSame
<1>5. Keep(rows, Valid) \in Seq(InputRows) /\ ToSet(Keep(rows, Valid)) = ToSet(rows) \cap Valid
  BY KeepElements
<1> DEFINE t == Keep(rows, Valid)
<1> HIDE DEF t
<1>6. t \in Seq(Valid)
  <2>1. t \in Seq(InputRows) /\ ToSet(t) \subseteq Valid
    BY <1>5 DEF t
  <2>2. Len(t) \in Nat /\ DOMAIN t = 1..Len(t) /\ t = [i \in 1..Len(t) |-> t[i]]
    BY <2>1
  <2>3. \A i \in 1..Len(t) : t[i] \in Valid
    BY <2>1, <2>2 DEF ToSet
  <2> QED
    BY <2>2, <2>3, IsAList
<1> QED
  BY <1>4, <1>6 DEF t

(* The empty batch.                                                        *)
LEMMA NoRows == NonNull(<<>>) = <<>>
<1> DEFINE none == <<>>
<1>1. none \in Seq(InputRows) /\ \A x \in ToSet(none) : x \notin Valid
  BY DEF ToSet
<1> HIDE DEF none
<1>2. NonNull(none) = Keep(none, Valid) /\ Keep(none, Valid) = <<>>
  BY <1>1, NonNullIs, KeepNone
<1> QED
  BY <1>2 DEF none

\* The row lists of the first k items.
RowLists(items, k) == [i \in 1..k |-> items[i].rows]

(* The batches that a stream has taken, as lists of rows.                  *)
LEMMA RowListsAre ==
    ASSUME NEW items \in Seq(Items), NEW k \in Nat, k <= Len(items)
    PROVE  RowLists(items, k) \in Seq(Seq(InputRows)) /\ Len(RowLists(items, k)) = k
<1> DEFINE f == RowLists(items, k)
<1>1. \A i \in 1..k : items[i] \in Items
  BY ListOf
<1>2. \A i \in 1..k : items[i].rows \in Seq(InputRows)
  BY <1>1, ItemRows
<1>3. f = [i \in 1..k |-> f[i]] /\ \A i \in 1..k : f[i] \in Seq(InputRows)
  BY <1>2, Zenon DEF RowLists
<1> HIDE DEF f
<1>4. f \in Seq(Seq(InputRows)) /\ Len(f) = k
  BY <1>3, IsAList
<1> QED
  BY <1>4 DEF f

(* One item more.                                                          *)
LEMMA RowsGrow ==
    ASSUME NEW items \in Seq(Items), NEW k \in Nat, k + 1 <= Len(items)
    PROVE  /\ RowsOf(items, k) \in Seq(Valid) /\ RowsOf(items, k + 1) \in Seq(Valid)
           /\ RowsOf(items, k + 1) = RowsOf(items, k) \o NonNull(items[k + 1].rows)
<1> DEFINE f == RowLists(items, k)
           g == RowLists(items, k + 1)
           rows == items[k + 1].rows
<1>1. k \in Nat /\ k + 1 \in Nat /\ k <= Len(items) /\ k + 1 \in 1..Len(items)
  BY ListOf
<1>2. f \in Seq(Seq(InputRows)) /\ Len(f) = k /\ g \in Seq(Seq(InputRows)) /\ Len(g) = k + 1
  BY <1>1, RowListsAre
<1>3. rows \in Seq(InputRows)
  BY <1>1, ListOf, ItemRows
<1>4. (\A i \in 1..k : g[i] = f[i]) /\ g[k + 1] = rows
  BY <1>1 DEF RowLists
<1>5. RowsOf(items, k) = NonNull(FlattenSeq(f)) /\ RowsOf(items, k + 1) = NonNull(FlattenSeq(g))
  BY Zenon DEF RowsOf, RowLists
<1> HIDE DEF f, g, rows
<1>6. g = Append(f, rows)
  BY <1>2, <1>3, <1>4
<1>7. FlattenSeq(f) \in Seq(InputRows) /\ FlattenSeq(g) = FlattenSeq(f) \o rows
  BY <1>2, <1>3, <1>6, FlattenAppend
<1>8. FlattenSeq(f) \o rows \in Seq(InputRows)
  BY <1>3, <1>7, BothLists
<1>9. NonNull(FlattenSeq(g)) = NonNull(FlattenSeq(f)) \o NonNull(rows)
  <2>1. /\ NonNull(FlattenSeq(g)) = Keep(FlattenSeq(f) \o rows, Valid)
        /\ NonNull(FlattenSeq(f)) = Keep(FlattenSeq(f), Valid)
        /\ NonNull(rows) = Keep(rows, Valid)
    BY <1>3, <1>7, <1>8, NonNullIs
  <2>2. Keep(FlattenSeq(f) \o rows, Valid) = Keep(FlattenSeq(f), Valid) \o Keep(rows, Valid)
    BY <1>3, <1>7, KeepConcat
  <2> QED
    BY <2>1, <2>2, Zenon
<1>10. NonNull(FlattenSeq(f)) \in Seq(Valid) /\ NonNull(FlattenSeq(g)) \in Seq(Valid)
  BY <1>7, <1>8, NonNullIs
<1> QED
  BY <1>5, <1>9, <1>10 DEF rows

(* The rows of the first items do not depend on the others.                *)
LEMMA RowsStay ==
    ASSUME NEW items \in Seq(Items), NEW item \in Items, NEW k \in Nat, k <= Len(items)
    PROVE  RowsOf(Append(items, item), k) = RowsOf(items, k)
<1>1. \A i \in 1..k : Append(items, item)[i] = items[i]
  OBVIOUS
<1>2. [i \in 1..k |-> Append(items, item)[i].rows] = [i \in 1..k |-> items[i].rows]
  BY <1>1
<1> QED
  BY <1>2, Zenon DEF RowsOf

\* The rows of the first i items begin with those of the first k.
Begins(items, k, i) == \E more \in Seq(Valid) : RowsOf(items, i) = RowsOf(items, k) \o more

(* More items, more rows.                                                  *)
LEMMA RowsAreFirst ==
    ASSUME NEW items \in Seq(Items), NEW k \in Nat, k + 1 <= Len(items)
    PROVE  Begins(items, k + 1, Len(items))
<1> DEFINE n == Len(items)
           all == RowsOf(items, n)
           T == {i \in 0..n : i < k + 1 \/ Begins(items, k + 1, i)}
<1>0. n \in Nat
  BY ListOf
<1>1. \A i \in 0..(n - 1) : /\ RowsOf(items, i) \in Seq(Valid) /\ RowsOf(items, i + 1) \in Seq(Valid)
                            /\ RowsOf(items, i + 1) = RowsOf(items, i) \o NonNull(items[i + 1].rows)
                            /\ NonNull(items[i + 1].rows) \in Seq(Valid)
  <2> SUFFICES ASSUME NEW i \in 0..(n - 1)
               PROVE  /\ RowsOf(items, i) \in Seq(Valid) /\ RowsOf(items, i + 1) \in Seq(Valid)
                      /\ RowsOf(items, i + 1) = RowsOf(items, i) \o NonNull(items[i + 1].rows)
                      /\ NonNull(items[i + 1].rows) \in Seq(Valid)
    OBVIOUS
  <2>1. i \in Nat /\ i + 1 <= Len(items) /\ i + 1 \in 1..Len(items)
    BY <1>0
  <2>2. items[i + 1].rows \in Seq(InputRows)
    BY <2>1, ListOf, ItemRows
  <2> QED
    BY <2>1, <2>2, RowsGrow, NonNullIs
<1>2. ASSUME NEW i \in 1..n, i - 1 \in T PROVE i \in T
  <2>1. CASE i < k + 1
    BY <1>0, <2>1
  <2>2. CASE i = k + 1
    <3>1. RowsOf(items, k + 1) \in Seq(Valid)
      BY RowsGrow
    <3>2. RowsOf(items, k + 1) = RowsOf(items, k + 1) \o <<>> /\ <<>> \in Seq(Valid)
      BY <3>1
    <3>3. Begins(items, k + 1, i)
      BY <2>2, <3>2, Zenon DEF Begins
    <3> QED
      BY <3>3
  <2>3. CASE i > k + 1
    <3>0. i - 1 \in 0..(n - 1) /\ (i - 1) + 1 = i /\ ~(i - 1 < k + 1)
      BY <1>0, <2>3
    <3>1. PICK more \in Seq(Valid) : RowsOf(items, i - 1) = RowsOf(items, k + 1) \o more
      <4>1. Begins(items, k + 1, i - 1)
        BY <1>2, <3>0
      <4> QED
        BY <4>1 DEF Begins
    <3> DEFINE a == RowsOf(items, k + 1)
               b == NonNull(items[i].rows)
    <3>2. RowsOf(items, i) = RowsOf(items, i - 1) \o b /\ b \in Seq(Valid)
      BY <1>1, <3>0
    <3>3. a \in Seq(Valid)
      BY RowsGrow
    <3> HIDE DEF a, b
    <3>4. (a \o more) \o b = a \o (more \o b) /\ more \o b \in Seq(Valid)
      BY <3>2, <3>3
    <3>5. RowsOf(items, i) = a \o (more \o b)
      BY <3>1, <3>2, <3>4 DEF a
    <3>6. Begins(items, k + 1, i)
      BY <3>4, <3>5, Zenon DEF Begins, a
    <3> QED
      BY <3>6
  <2> QED
    BY <2>1, <2>2, <2>3
<1>3. 0 \in T
  BY <1>0
<1>4. \A i \in 0..n : i \in T
  <2> HIDE DEF T
  <2> QED
    BY <1>0, <1>2, <1>3, UpTo
<1>5. n \in T /\ ~(n < k + 1)
  BY <1>0, <1>4
<1> QED
  BY <1>5

\* The buffers hold these rows.
Buffered(plan, rows, es, ws) ==
    /\ es \in Seq(AnyEdge({NoWeight})) /\ Len(es) = Len(rows)
    /\ \A i \in 1..Len(rows) : es[i].src = rows[i].src /\ es[i].dst = rows[i].dst
    /\ ws \in Seq(AllWeights)
    /\ plan.weighted => /\ Len(ws) = Len(rows)
                        /\ \A i \in 1..Len(rows) : ws[i] = WeightOf(rows[i])

(* A row that counts is an edge between two ids.                           *)
LEMMA RowsAreEdges ==
    ASSUME NEW row \in Valid
    PROVE  row.src \in Nat /\ row.dst \in Nat /\ WeightOf(row) \in AllWeights
<1>1. row \in InputRows /\ row.src # Null /\ row.dst # Null
  BY DEF Valid
<1>2. {row.src, row.dst} \subseteq Nat \cup {Null}
  BY <1>1, StreamAssumption
<1>3. WeightOf(row) \in AllWeights
  BY <1>1 DEF AllWeights
<1> QED
  BY <1>1, <1>2, <1>3

\* What extract_edges pushes for new rows.
NewEdges(new) == [i \in DOMAIN new |-> [src |-> new[i].src, dst |-> new[i].dst, weight |-> NoWeight]]
NewWeights(new) == [i \in DOMAIN new |-> WeightOf(new[i])]

(* Pushing rows into the buffers.                                          *)
LEMMA PushKeeps ==
    ASSUME NEW plan, NEW rows \in Seq(Valid), NEW new \in Seq(Valid), NEW es, NEW ws,
           Buffered(plan, rows, es, ws)
    PROVE  Buffered(plan, rows \o new, es \o NewEdges(new),
                    IF plan.weighted THEN ws \o NewWeights(new) ELSE ws)
<1> DEFINE E == AnyEdge({NoWeight})
           n == Len(rows)
           m == Len(new)
           f == NewEdges(new)
           g == NewWeights(new)
           all == rows \o new
<1>1. /\ n \in Nat /\ m \in Nat /\ DOMAIN new = 1..m
      /\ \A i \in 1..m : new[i] \in Valid
  BY ListOf
<1>2. /\ f = [i \in 1..m |-> f[i]]
      /\ \A i \in 1..m : f[i] = [src |-> new[i].src, dst |-> new[i].dst, weight |-> NoWeight]
      /\ g = [i \in 1..m |-> g[i]]
      /\ \A i \in 1..m : g[i] = WeightOf(new[i])
  BY <1>1, Zenon DEF NewEdges, NewWeights
<1>3. \A i \in 1..m : new[i].src \in Nat /\ new[i].dst \in Nat /\ WeightOf(new[i]) \in AllWeights
  BY <1>1, RowsAreEdges
<1> HIDE DEF f, g
<1>4. ASSUME NEW i \in 1..m PROVE f[i] \in E /\ f[i].src = new[i].src /\ f[i].dst = new[i].dst
  BY <1>2, <1>3 DEF AnyEdge
<1>5. \A i \in 1..m : g[i] \in AllWeights
  BY <1>2, <1>3
<1> HIDE DEF E
<1>6. f \in Seq(E) /\ Len(f) = m /\ g \in Seq(AllWeights) /\ Len(g) = m
  BY <1>1, <1>2, <1>4, <1>5, IsAList
<1>7. /\ es \in Seq(E) /\ Len(es) = n /\ ws \in Seq(AllWeights)
      /\ \A i \in 1..n : es[i].src = rows[i].src /\ es[i].dst = rows[i].dst
  BY DEF Buffered, E
<1>8. /\ Len(all) = n + m
      /\ \A i \in 1..(n + m) : all[i] = IF i <= n THEN rows[i] ELSE new[i - n]
  BY BothLists
<1>9. /\ es \o f \in Seq(E) /\ Len(es \o f) = n + m
      /\ \A i \in 1..(n + m) : (es \o f)[i] = IF i <= n THEN es[i] ELSE f[i - n]
  <2>1. /\ es \o f \in Seq(E) /\ Len(es \o f) = Len(es) + Len(f)
        /\ \A i \in 1..(Len(es) + Len(f)) :
              (es \o f)[i] = IF i <= Len(es) THEN es[i] ELSE f[i - Len(es)]
    <3>1. es \in Seq(E) /\ f \in Seq(E)
      BY <1>6, <1>7
    <3> QED
      BY <3>1, BothLists, Zenon
  <2> HIDE DEF n, m
  <2> QED
    BY <1>6, <1>7, <2>1, Zenon
<1> HIDE DEF all, n, m
<1>10. ASSUME NEW i \in 1..(n + m)
       PROVE  (es \o f)[i].src = all[i].src /\ (es \o f)[i].dst = all[i].dst
  <2>1. CASE i <= n
    <3>1. i \in 1..n
      BY <1>1, <2>1
    <3> QED
      BY <1>7, <1>8, <1>9, <2>1, <3>1
  <2>2. CASE ~(i <= n)
    <3>1. i - n \in 1..m
      BY <1>1, <2>2
    <3> QED
      BY <1>4, <1>8, <1>9, <2>2, <3>1
  <2> QED
    BY <2>1, <2>2
<1>11. CASE plan.weighted
  <2>1. Len(ws) = n /\ \A i \in 1..n : ws[i] = WeightOf(rows[i])
    BY <1>11, Zenon DEF Buffered, n
  <2>2. /\ ws \o g \in Seq(AllWeights) /\ Len(ws \o g) = n + m
        /\ \A i \in 1..(n + m) : (ws \o g)[i] = IF i <= n THEN ws[i] ELSE g[i - n]
    <3>1. /\ ws \o g \in Seq(AllWeights) /\ Len(ws \o g) = Len(ws) + Len(g)
          /\ \A i \in 1..(Len(ws) + Len(g)) :
                (ws \o g)[i] = IF i <= Len(ws) THEN ws[i] ELSE g[i - Len(ws)]
      BY <1>6, <1>7, BothLists
    <3> QED
      BY <1>6, <2>1, <3>1, Zenon
  <2>3. ASSUME NEW i \in 1..(n + m) PROVE (ws \o g)[i] = WeightOf(all[i])
    <3>1. CASE i <= n
      <4>1. i \in 1..n
        BY <1>1, <3>1
      <4> QED
        BY <1>8, <2>1, <2>2, <3>1, <4>1
    <3>2. CASE ~(i <= n)
      <4>1. i - n \in 1..m
        BY <1>1, <3>2
      <4> QED
        BY <1>2, <1>8, <2>2, <3>2, <4>1
    <3> QED
      BY <3>1, <3>2
  <2>4. Buffered(plan, all, es \o f, ws \o g)
    <3>1. Len(all) = n + m
      BY <1>8
    <3>2. /\ es \o f \in Seq(AnyEdge({NoWeight})) /\ Len(es \o f) = Len(all)
          /\ ws \o g \in Seq(AllWeights) /\ Len(ws \o g) = Len(all)
      BY <1>9, <2>2, <3>1 DEF E
    <3>3. \A i \in 1..Len(all) : (es \o f)[i].src = all[i].src /\ (es \o f)[i].dst = all[i].dst
                                 /\ (ws \o g)[i] = WeightOf(all[i])
      BY <1>10, <2>3, <3>1
    <3> QED
      BY <3>2, <3>3, Zenon DEF Buffered
  <2> QED
    BY <1>11, <2>4, Zenon DEF all, f, g
<1>12. CASE ~plan.weighted
  <2>1. Buffered(plan, all, es \o f, ws)
    <3>1. Len(all) = n + m
      BY <1>8
    <3>2. /\ es \o f \in Seq(AnyEdge({NoWeight})) /\ Len(es \o f) = Len(all)
          /\ ws \in Seq(AllWeights)
      BY <1>7, <1>9, <3>1 DEF E
    <3>3. \A i \in 1..Len(all) : (es \o f)[i].src = all[i].src /\ (es \o f)[i].dst = all[i].dst
      BY <1>10, <3>1
    <3> QED
      BY <1>12, <3>2, <3>3, Zenon DEF Buffered
  <2> QED
    BY <1>12, <2>1, Zenon DEF all, f
<1> QED
  BY <1>11, <1>12

(* extract_edges pushes all the rows of a batch, and stays within the      *)
(* limit, or fails because the columns or the limit do not allow it.       *)
LEMMA ExtractIs ==
    ASSUME NEW s \in Streams, NEW rows \in Seq(InputRows), config \in Configs,
           Len(buffer[s].edges) \in Nat
    PROVE  /\ ~ExtractFails(s, rows) =>
                 /\ config.columns /\ Extracted(s, rows) = NonNull(rows)
                 /\ WithinLimit(Len(buffer[s].edges)) =>
                       WithinLimit(Len(buffer[s].edges) + Len(NonNull(rows)))
           /\ ExtractFails(s, rows) =>
                 ~config.columns \/ ~WithinLimit(Len(buffer[s].edges) + Len(NonNull(rows)))
<1> DEFINE valid == NonNull(rows)
           old == Len(buffer[s].edges)
           room == {n \in DOMAIN valid : WithinLimit(old + n)}
           m == Len(valid)
           k == Max(room \cup {0})
<1>1. valid \in Seq(Valid) /\ m \in Nat /\ DOMAIN valid = 1..m
  BY NonNullIs, ListOf
<1>2. Extracted(s, rows) = SubSeq(valid, 1, k)
  BY DEF Extracted
<1> HIDE DEF valid, old
<1>3. k \in room \cup {0} /\ \A x \in room : x <= k
  <2> DEFINE S == room \cup {0}
  <2>1. S \in SUBSET Nat /\ S # {} /\ \A x \in S : x <= m
    BY <1>1
  <2> HIDE DEF S, m
  <2>2. Max(S) \in S /\ \A x \in S : x <= Max(S)
    BY <1>1, <2>1, LargestNat
  <2> QED
    BY <2>2 DEF S
<1> HIDE DEF k
<1>4. k \in 0..m
  BY <1>1, <1>3
<1>5. ASSUME ~ExtractFails(s, rows)
      PROVE  /\ config.columns /\ Extracted(s, rows) = valid
             /\ WithinLimit(old) => WithinLimit(old + m)
  <2>1. config.columns /\ Extracted(s, rows) = valid
    BY <1>5 DEF ExtractFails, valid
  <2>2. Len(SubSeq(valid, 1, k)) = k
    BY <1>1, <1>4
  <2>3. m = k
    BY <1>2, <2>1, <2>2
  <2>4. CASE m = 0
    <3>1. old + m = old
      BY <2>4 DEF old
    <3> QED
      BY <2>1, <3>1
  <2>5. CASE m # 0
    <3>1. m \in room
      BY <1>3, <2>3, <2>5
    <3> QED
      BY <2>1, <3>1
  <2> QED
    BY <2>4, <2>5
<1>6. ASSUME ExtractFails(s, rows), config.columns PROVE ~WithinLimit(old + m)
  <2> SUFFICES ASSUME WithinLimit(old + m) PROVE FALSE
    OBVIOUS
  <2>1. Extracted(s, rows) # valid
    BY <1>6 DEF ExtractFails, valid
  <2>2. k = m
    <3>1. CASE m = 0
      BY <1>4, <3>1
    <3>2. CASE m # 0
      <4>1. m \in room
        BY <1>1, <3>2
      <4> QED
        BY <1>1, <1>3, <1>4, <4>1
    <3> QED
      BY <3>1, <3>2
  <2>3. SubSeq(valid, 1, m) = valid
    BY <1>1, SliceAll
  <2> QED
    BY <1>2, <2>1, <2>2, <2>3
<1> QED
  BY <1>5, <1>6 DEF valid, old

\* More edges than the memory limit of a plan allows.
OverLimit(plan, n) == plan.limit # NoLimit /\ 16 * n > plan.limit

(* WithinLimit is the limit of the plan.                                   *)
LEMMA LimitIs ==
    ASSUME config \in Configs, NEW n \in Nat
    PROVE  /\ WithinLimit(n) <=> ~OverLimit(config, n)
           /\ ~OverLimit(config, 0)
           /\ \A m \in Nat : OverLimit(config, n) => OverLimit(config, n + m)
<1>1. config.limit \in Nat \cup {NoLimit}
  BY StreamAssumption
<1> QED
  BY <1>1 DEF WithinLimit, OverLimit, EdgeBufferBytes

\* The rows do not fit in a graph of the plan.
TooLarge(plan, rows) ==
    \/ OverLimit(plan, Len(rows))
    \/ Len(rows) > U32Max
    \/ \E i \in 1..Len(rows) : rows[i].src > U32Max \/ rows[i].dst > U32Max

Bad(plan, items) ==
    \/ \E i \in 1..Len(items) : items[i].kind = "error"
    \/ ~plan.columns /\ \E i \in 1..Len(items) : items[i].kind = "batch"
    \/ TooLarge(plan, RowsOf(items, Len(items)))

Closed(items) == Len(items) >= 1 /\ items[Len(items)] = InputEnd

EdgesOf(plan, items) ==
    LET rows == RowsOf(items, Len(items))
    IN  [i \in 1..Len(rows) |->
            [src |-> rows[i].src, dst |-> rows[i].dst,
             weight |-> IF plan.weighted THEN WeightOf(rows[i]) ELSE NoWeight]]

\* What makes the stream fail, at once or at the end of the input.
Unanswerable(plan, items) ==
    Bad(plan, items) \/ TooManyShards(EdgesOf(plan, items), plan.weighted, Size)

(* The rows of some items.                                                 *)
LEMMA RowsAre ==
    ASSUME NEW items \in Seq(Items), NEW k \in Nat, k <= Len(items)
    PROVE  RowsOf(items, k) \in Seq(Valid) /\ Len(RowsOf(items, k)) \in Nat
<1> DEFINE f == RowLists(items, k)
<1>1. RowsOf(items, k) = NonNull(FlattenSeq(f)) /\ f \in Seq(Seq(InputRows)) /\ Len(f) = k
  BY RowListsAre DEF RowsOf, RowLists
<1> HIDE DEF f
<1>2. FlattenSeq(f) \in Seq(InputRows)
  BY <1>1, FlattenAll
<1>3. RowsOf(items, k) \in Seq(Valid)
  BY <1>1, <1>2, NonNullIs
<1> QED
  BY <1>3, ListOf

(* What is said of the input of a stream.                                  *)
LEMMA InputIs ==
    ASSUME NEW s \in Streams, sent[s] \in Seq(Items), config \in Configs
    PROVE  /\ AllRows(s) = RowsOf(sent[s], Len(sent[s]))
           /\ InputIsBad(s) <=> Unanswerable(config, sent[s])
           /\ InputEdges(s) = EdgesOf(config, sent[s])
<1> DEFINE items == sent[s]
           n == Len(items)
           rows == RowsOf(items, n)
<1>1. DOMAIN items = 1..n /\ n \in Nat
  BY ListOf
<1>2. AllRows(s) = rows
  BY <1>1, Zenon DEF AllRows, RowsOf
<1>3. rows \in Seq(Valid) /\ Len(rows) \in Nat /\ DOMAIN rows = 1..Len(rows)
  BY <1>1, RowsAre, ListOf
<1> HIDE DEF items, n, rows
<1>4. InputEdges(s) = EdgesOf(config, items)
  BY <1>2, <1>3, Zenon DEF InputEdges, EdgesOf, rows, n
<1>5. InputIsBad(s) <=> Unanswerable(config, items)
  <2>1. InputIsBad(s) <=> \/ \E i \in 1..n : items[i].kind = "error"
                          \/ ~config.columns /\ \E i \in 1..n : items[i].kind = "batch"
                          \/ config.limit # NoLimit /\ 16 * Len(rows) > config.limit
                          \/ Len(rows) > U32Max
                          \/ \E i \in 1..Len(rows) : rows[i].src > U32Max \/ rows[i].dst > U32Max
                          \/ TooManyShards(InputEdges(s), config.weighted, Size)
    BY <1>1, <1>2, <1>3, Zenon DEF InputIsBad, items
  <2> QED
    BY <1>4, <2>1, Zenon DEF Unanswerable, Bad, TooLarge, OverLimit, rows, n
<1> QED
  BY <1>2, <1>4, <1>5 DEF items, n, rows

(* What is too large stays so.                                             *)
LEMMA MoreIsTooLarge ==
    ASSUME config \in Configs, NEW rows \in Seq(Valid), NEW more \in Seq(Valid),
           TooLarge(config, rows)
    PROVE  TooLarge(config, rows \o more)
<1> DEFINE all == rows \o more
           n == Len(rows)
           m == Len(more)
<1>1. n \in Nat /\ m \in Nat /\ Len(all) = n + m /\ \A i \in 1..n : all[i] = rows[i]
  <2>1. n \in Nat /\ m \in Nat /\ Len(all) = n + m
        /\ \A i \in 1..(n + m) : all[i] = IF i <= n THEN rows[i] ELSE more[i - n]
    BY ListOf, BothLists
  <2> HIDE DEF all, n, m
  <2> QED
    BY <2>1
<1> HIDE DEF all, n, m
<1>2. CASE OverLimit(config, n)
  <2>1. OverLimit(config, n + m)
    BY <1>1, <1>2, LimitIs
  <2> QED
    BY <1>1, <2>1 DEF TooLarge, all
<1>3. CASE n > U32Max
  BY <1>1, <1>3, U32Assumption DEF TooLarge, all
<1>4. CASE \E i \in 1..n : rows[i].src > U32Max \/ rows[i].dst > U32Max
  <2>1. PICK i \in 1..n : rows[i].src > U32Max \/ rows[i].dst > U32Max
    BY <1>4
  <2>2. i \in 1..Len(all) /\ all[i] = rows[i]
    BY <1>1
  <2> QED
    BY <2>1, <2>2 DEF TooLarge, all
<1> QED
  BY <1>2, <1>3, <1>4 DEF TooLarge, n

(* An input that is bad stays bad, whatever arrives.                       *)
LEMMA BadStays ==
    ASSUME config \in Configs, NEW items \in Seq(Items), NEW item \in Items, Bad(config, items)
    PROVE  Bad(config, Append(items, item))
<1> DEFINE more == Append(items, item)
           n == Len(items)
<1>1. /\ more \in Seq(Items) /\ Len(more) = n + 1 /\ n \in Nat
      /\ \A i \in 1..n : more[i] = items[i] /\ i \in 1..(n + 1)
  OBVIOUS
<1> HIDE DEF more
<1>2. CASE TooLarge(config, RowsOf(items, n))
  <2>1. RowsOf(more, n) = RowsOf(items, n)
    BY <1>1, RowsStay DEF more
  <2>2. /\ RowsOf(more, n) \in Seq(Valid)
        /\ RowsOf(more, n + 1) = RowsOf(more, n) \o NonNull(more[n + 1].rows)
    <3>1. n \in Nat /\ n + 1 <= Len(more)
      BY <1>1
    <3> HIDE DEF n
    <3> QED
      BY <1>1, <3>1, RowsGrow
  <2>3. NonNull(more[n + 1].rows) \in Seq(Valid)
    BY <1>1, ListOf, ItemRows, NonNullIs
  <2>4. TooLarge(config, RowsOf(more, n + 1))
    BY <1>2, <2>1, <2>2, <2>3, MoreIsTooLarge
  <2> QED
    BY <1>1, <2>4 DEF Bad, more
<1>3. CASE \E i \in 1..n : items[i].kind = "error"
  BY <1>1, <1>3 DEF Bad, more
<1>4. CASE ~config.columns /\ \E i \in 1..n : items[i].kind = "batch"
  BY <1>1, <1>4 DEF Bad, more
<1> QED
  BY <1>2, <1>3, <1>4 DEF Bad

(* A batch that extract_edges refuses.                                     *)
LEMMA RefusedIsBad ==
    ASSUME config \in Configs, NEW items \in Seq(Items), NEW k \in Nat, k + 1 <= Len(items),
           items[k + 1].kind = "batch",
           ~config.columns \/ OverLimit(config, Len(RowsOf(items, k)) + Len(NonNull(items[k + 1].rows)))
    PROVE  Bad(config, items)
<1>1. k + 1 \in 1..Len(items) /\ Len(items) \in Nat
  BY ListOf
<1>2. CASE ~config.columns
  BY <1>1, <1>2 DEF Bad
<1>3. CASE OverLimit(config, Len(RowsOf(items, k)) + Len(NonNull(items[k + 1].rows)))
  <2> DEFINE a == RowsOf(items, k)
             b == NonNull(items[k + 1].rows)
             now == RowsOf(items, k + 1)
  <2>1. a \in Seq(Valid) /\ now \in Seq(Valid) /\ now = a \o b
    BY RowsGrow
  <2>2. b \in Seq(Valid)
    BY <1>1, ListOf, ItemRows, NonNullIs
  <2>3. Len(now) = Len(a) + Len(b)
    <3> HIDE DEF a, b, now
    <3> QED
      BY <2>1, <2>2, BothLists
  <2>4. TooLarge(config, now)
    BY <1>3, <2>3 DEF TooLarge
  <2>5. PICK more \in Seq(Valid) : RowsOf(items, Len(items)) = now \o more
    BY RowsAreFirst DEF Begins
  <2> HIDE DEF now
  <2>6. TooLarge(config, now \o more)
    BY <2>1, <2>4, MoreIsTooLarge
  <2> QED
    BY <2>5, <2>6 DEF Bad
<1> QED
  BY <1>2, <1>3

(* The list that build_csr sorts is the input.                             *)
LEMMA BufferIsInput ==
    ASSUME NEW plan, plan.weighted \in BOOLEAN, NEW items, NEW es, NEW ws,
           RowsOf(items, Len(items)) \in Seq(Valid),
           Buffered(plan, RowsOf(items, Len(items)), es, ws)
    PROVE  /\ ListToSort(es, ws, plan.weighted) = EdgesOf(plan, items)
           /\ Len(EdgesOf(plan, items)) = Len(es)
           /\ HasLargeNode(es) <=>
                 \E i \in 1..Len(es) : \/ RowsOf(items, Len(items))[i].src > U32Max
                                       \/ RowsOf(items, Len(items))[i].dst > U32Max
<1> DEFINE rows == RowsOf(items, Len(items))
           n == Len(rows)
           f == EdgesOf(plan, items)
           E == AnyEdge({NoWeight} \cup AllWeights)
<1>1. n \in Nat /\ \A i \in 1..n : rows[i] \in Valid
  BY ListOf
<1>2. /\ f = [i \in 1..n |-> f[i]]
      /\ \A i \in 1..n : f[i] = [src |-> rows[i].src, dst |-> rows[i].dst,
                                 weight |-> IF plan.weighted THEN WeightOf(rows[i]) ELSE NoWeight]
  BY Zenon DEF EdgesOf
<1>3. /\ es \in Seq(AnyEdge({NoWeight})) /\ Len(es) = n
      /\ \A i \in 1..n : es[i].src = rows[i].src /\ es[i].dst = rows[i].dst
      /\ ws \in Seq(AllWeights)
      /\ plan.weighted => Len(ws) = n /\ \A i \in 1..n : ws[i] = WeightOf(rows[i])
  BY Zenon DEF Buffered
<1> HIDE DEF rows, n, f
<1>4. \A i \in 1..n : es[i] \in AnyEdge({NoWeight})
  BY <1>3, ListOf
<1>5. ASSUME NEW i \in 1..n PROVE f[i] \in E
  <2>1. WeightOf(rows[i]) \in AllWeights /\ rows[i].src \in Nat /\ rows[i].dst \in Nat
    BY <1>1, RowsAreEdges
  <2> QED
    BY <1>2, <2>1 DEF AnyEdge
<1> HIDE DEF E
<1>6. f \in Seq(E) /\ Len(f) = n
  BY <1>1, <1>2, <1>5, IsAList
<1>7. ASSUME plan.weighted PROVE ListToSort(es, ws, plan.weighted) = f
  <2> DEFINE z == Zipped(es, ws)
  <2>1. /\ z \in Seq(AnyEdge(AllWeights))
        /\ Len(z) = IF Len(es) <= Len(ws) THEN Len(es) ELSE Len(ws)
        /\ \A i \in 1..Len(z) : z[i] = [es[i] EXCEPT !.weight = ws[i]]
    <3>1. es \in Seq(AnyEdge({NoWeight})) /\ ws \in Seq(AllWeights)
      BY <1>3
    <3>2. Pairing(z, es, ws, AllWeights)
      BY <3>1, ZippedIs, Zenon
    <3> HIDE DEF z
    <3> QED
      BY <3>2, Zenon DEF Pairing
  <2> HIDE DEF z
  <2>2. Len(z) = n
    BY <1>1, <1>3, <1>7, <2>1
  <2>3. AnyEdge(AllWeights) \subseteq E
    BY DEF AnyEdge, E
  <2>4. z \in Seq(E)
    BY <2>1, <2>3, WiderSeq
  <2>5. ASSUME NEW i \in 1..n PROVE z[i] = f[i]
    <3>1. z[i] = [es[i] EXCEPT !.weight = ws[i]] /\ ws[i] = WeightOf(rows[i])
      BY <1>3, <1>7, <2>1, <2>2
    <3>2. es[i] \in AnyEdge({NoWeight}) /\ es[i].src = rows[i].src /\ es[i].dst = rows[i].dst
      BY <1>3, <1>4
    <3>3. f[i] = [src |-> rows[i].src, dst |-> rows[i].dst, weight |-> WeightOf(rows[i])]
      BY <1>2, <1>7
    <3> QED
      BY <3>1, <3>2, <3>3 DEF AnyEdge
  <2>6. z = f
    BY <1>6, <2>2, <2>4, <2>5, SameLists
  <2> QED
    BY <1>7, <2>6, Zenon DEF ListToSort, z
<1>8. ASSUME ~plan.weighted PROVE ListToSort(es, ws, plan.weighted) = f
  <2>1. AnyEdge({NoWeight}) \subseteq E
    BY DEF AnyEdge, E
  <2>2. es \in Seq(E)
    BY <1>3, <2>1, WiderSeq
  <2>3. ASSUME NEW i \in 1..n PROVE es[i] = f[i]
    <3>1. es[i] \in AnyEdge({NoWeight}) /\ es[i].src = rows[i].src /\ es[i].dst = rows[i].dst
      BY <1>3, <1>4
    <3>2. f[i] = [src |-> rows[i].src, dst |-> rows[i].dst, weight |-> NoWeight]
      BY <1>2, <1>8
    <3> QED
      BY <3>1, <3>2 DEF AnyEdge
  <2>4. es = f
    BY <1>3, <1>6, <2>2, <2>3, SameLists
  <2> QED
    BY <1>8, <2>4, Zenon DEF ListToSort
<1>9. HasLargeNode(es) <=> \E i \in 1..Len(es) : rows[i].src > U32Max \/ rows[i].dst > U32Max
  BY <1>3 DEF HasLargeNode
<1> QED
  BY <1>3, <1>6, <1>7, <1>8, <1>9 DEF rows, f

(* What a build of the whole input returns: an error exactly for an input  *)
(* in error, and otherwise the graph of the input.                         *)
LEMMA BuildAnswers ==
    ASSUME config \in Configs, NEW items \in Seq(Items), Closed(items),
           \A i \in 1..(Len(items) - 1) : items[i].kind = "batch",
           Len(items) - 1 > 0 => config.columns,
           NEW es, NEW ws, Buffered(config, RowsOf(items, Len(items) - 1), es, ws),
           ~OverLimit(config, Len(es))
    PROVE  LET g == Build(es, ws, config.weighted, Size)
           IN  /\ Failed(g) <=> Unanswerable(config, items)
               /\ ~Failed(g) => IsGraphOf(g, EdgesOf(config, items), Size)
<1> DEFINE n == Len(items)
           k == n - 1
           rows == RowsOf(items, n)
           g == Build(es, ws, config.weighted, Size)
           list == ListToSort(es, ws, config.weighted)
<1>1. n \in Nat /\ k \in Nat /\ k + 1 = n /\ k + 1 <= Len(items) /\ items[n] = InputEnd /\ n \in 1..n
  BY ListOf DEF Closed
<1>2. rows = RowsOf(items, k) /\ rows \in Seq(Valid)
  <2>1. /\ RowsOf(items, k) \in Seq(Valid) /\ RowsOf(items, k + 1) \in Seq(Valid)
        /\ RowsOf(items, k + 1) = RowsOf(items, k) \o NonNull(items[k + 1].rows)
    BY <1>1, RowsGrow
  <2>2. items[k + 1].rows = <<>>
    BY <1>1 DEF InputEnd
  <2>3. NonNull(<<>>) = <<>>
    BY NoRows
  <2> DEFINE a == RowsOf(items, k)
  <2>4. a \in Seq(Valid) /\ RowsOf(items, k + 1) = a \o <<>>
    BY <2>1, <2>2, <2>3
  <2> HIDE DEF a
  <2>5. a \o <<>> = a
    BY <2>4
  <2> QED
    BY <1>1, <2>1, <2>4, <2>5 DEF a
<1>3. Buffered(config, rows, es, ws)
  BY <1>2
<1>4. config.weighted \in BOOLEAN /\ Size \in Nat
  BY StreamAssumption
<1>5. /\ es \in Seq(AnyEdge({NoWeight})) /\ ws \in Seq(AllWeights) /\ Len(es) = Len(rows)
      /\ Len(rows) \in Nat
  BY <1>2, <1>3, ListOf DEF Buffered
<1>6. /\ Failed(g) <=> \/ HasLargeNode(es) \/ Len(list) > U32Max
                       \/ TooManyShards(list, config.weighted, Size)
      /\ ~Failed(g) => IsGraphOf(g, list, Size)
  BY <1>4, <1>5, BuildIsRight
<1>7. /\ list = EdgesOf(config, items) /\ Len(EdgesOf(config, items)) = Len(es)
      /\ HasLargeNode(es) <=>
            \E i \in 1..Len(es) : rows[i].src > U32Max \/ rows[i].dst > U32Max
  BY <1>2, <1>3, <1>4, BufferIsInput
<1> HIDE DEF g, list, rows
<1>12. /\ \A i \in 1..k : items[i].kind = "batch"
       /\ k > 0 => config.columns
       /\ items[n].kind = "end"
       /\ \A i \in 1..n : i = n \/ i \in 1..k
  <2>1. \A i \in 1..k : items[i].kind = "batch"
    OBVIOUS
  <2>2. k > 0 => config.columns
    OBVIOUS
  <2>3. items[n].kind = "end"
    BY <1>1 DEF InputEnd
  <2>4. \A i \in 1..n : i = n \/ i \in 1..k
    BY <1>1
  <2> QED
    BY <2>1, <2>2, <2>3, <2>4
<1> HIDE DEF n, k
<1>8. ~\E i \in 1..n : items[i].kind = "error"
  <2> SUFFICES ASSUME NEW i \in 1..n, items[i].kind = "error" PROVE FALSE
    OBVIOUS
  <2> QED
    BY <1>12
<1>9. ~(~config.columns /\ \E i \in 1..n : items[i].kind = "batch")
  <2> SUFFICES ASSUME ~config.columns, NEW i \in 1..n, items[i].kind = "batch" PROVE FALSE
    OBVIOUS
  <2>1. i \in 1..k
    BY <1>12
  <2>2. k > 0
    BY <1>1, <2>1
  <2> QED
    BY <1>12, <2>2
<1>10. Failed(g) <=> \/ TooLarge(config, rows)
                     \/ TooManyShards(EdgesOf(config, items), config.weighted, Size)
  BY <1>5, <1>6, <1>7 DEF TooLarge
<1>11. Failed(g) <=> Unanswerable(config, items)
  BY <1>8, <1>9, <1>10 DEF Unanswerable, Bad, rows, n
<1> QED
  BY <1>6, <1>7, <1>11 DEF g

(***************************************************************************)
(* The second inductive invariant: what the buffers hold, what an answer   *)
(* says of the input, and what the graph in the sink contains.             *)
(***************************************************************************)
\* A stream that has not answered: its buffers are the rows it has taken.
Ready(plan, items, k, es, ws) ==
    /\ Buffered(plan, RowsOf(items, k), es, ws)
    /\ ~OverLimit(plan, Len(es))
    /\ \A i \in 1..k : items[i].kind = "batch"
    /\ k > 0 => plan.columns

\* A stream that has answered: an error for a bad input, which may go on, and
\* otherwise the input is complete.
Answered(plan, items, out) ==
    IF out = <<Failure>>
    THEN Bad(plan, items) \/ (Closed(items) /\ Unanswerable(plan, items))
    ELSE ~Unanswerable(plan, items) /\ Closed(items)

StreamInv ==
    \A s \in Streams :
        /\ ~finished[s] => Ready(config, sent[s], taken[s], buffer[s].edges, buffer[s].weights)
        /\ finished[s] => Answered(config, sent[s], output[s])

GraphInv == sink # Unset => IsGraphOf(sink.graph, EdgesOf(config, sent[sink.by]), Size)

\* Every stream has its two lists.
Buffers ==
    /\ DOMAIN buffer = Streams
    /\ \A s \in Streams : DOMAIN buffer[s] = {"edges", "weights"}

DataInv ==
    /\ config \in Configs /\ Buffers
    /\ StreamInv /\ GraphInv

(* The initial states satisfy it.                                          *)
LEMMA InitData == Init => DataInv
<1> SUFFICES ASSUME Init PROVE DataInv
  OBVIOUS
<1>1. config \in Configs /\ Buffers
  BY DEF Init, Buffers, NoBuffer
<1>2. GraphInv
  BY DEF Init, GraphInv
<1>3. ASSUME NEW s \in Streams
      PROVE  /\ ~finished[s] /\ taken[s] = 0 /\ sent[s] = <<>>
             /\ buffer[s].edges = <<>> /\ buffer[s].weights = <<>>
  BY DEF Init, NoBuffer
<1>4. Ready(config, <<>>, 0, <<>>, <<>>)
  <2> DEFINE none == <<>>
             rows == RowsOf(none, 0)
  <2>1. none \in Seq(Items) /\ Len(none) = 0 /\ none \in Seq(AnyEdge({NoWeight}))
        /\ none \in Seq(AllWeights)
    OBVIOUS
  <2>2. rows = <<>>
    <3>1. RowLists(none, 0) = <<>>
      BY DEF RowLists
    <3>2. FlattenSeq(<<>>) = <<>>
      <4> DEFINE e == <<>>
      <4>1. e \in Seq(Seq({})) /\ e \in Seq({}) /\ FlattenSeq(e) \in Seq({})
        <5>1. e \in Seq(Seq({})) /\ e \in Seq({})
          OBVIOUS
        <5> QED
          BY <5>1, FlattenAll
      <4>2. \A t \in Seq({}) : t = <<>>
        OBVIOUS
      <4> QED
        BY <4>1, <4>2
    <3>3. NonNull(<<>>) = <<>>
      BY NoRows
    <3> QED
      BY <3>1, <3>2, <3>3, Zenon DEF RowsOf, RowLists
  <2>3. Len(rows) = 0
    BY <2>2
  <2> HIDE DEF none, rows
  <2>4. Buffered(config, rows, none, none)
    BY <2>1, <2>3 DEF Buffered
  <2>5. ~OverLimit(config, Len(none))
    BY <1>1, <2>1, LimitIs
  <2>6. \A i \in 1..0 : none[i].kind = "batch"
    OBVIOUS
  <2> QED
    BY <2>4, <2>5, <2>6 DEF Ready, none, rows
<1>5. StreamInv
  <2> SUFFICES ASSUME NEW s \in Streams
               PROVE  ~finished[s] /\ Ready(config, sent[s], taken[s], buffer[s].edges, buffer[s].weights)
    BY DEF StreamInv
  <2> QED
    BY <1>3, <1>4, Zenon
<1> QED
  BY <1>1, <1>2, <1>5 DEF DataInv

(* An item that arrives.                                                   *)
LEMMA SendKeepsData ==
    ASSUME Inv, DataInv, NEW s \in Streams, NEW item \in Items, Send(s, item)
    PROVE  DataInv'
<1>0. /\ sent \in [Streams -> Seq(Items)] /\ taken \in [Streams -> Nat]
      /\ \A u \in Streams : taken[u] <= Len(sent[u])
      /\ finished \in [Streams -> BOOLEAN]
  BY DEF Inv, TypeInv, InputInv
<1>1. /\ sent' = [sent EXCEPT ![s] = Append(sent[s], item)]
      /\ UNCHANGED <<config, taken, buffer, finished, output, sink>>
      /\ \A i \in DOMAIN sent[s] : sent[s][i].kind = "batch"
  BY <1>0 DEF Send, InputOpen
<1>2. \A u \in Streams : sent'[u] = IF u = s THEN Append(sent[s], item) ELSE sent[u]
  BY <1>0, <1>1
<1>3. sent[s] \in Seq(Items) /\ taken[s] \in Nat /\ taken[s] <= Len(sent[s]) /\ config \in Configs
  BY <1>0 DEF DataInv
<1>4. ~Closed(sent[s])
  <2>1. Len(sent[s]) \in Nat /\ DOMAIN sent[s] = 1..Len(sent[s])
    BY <1>3, ListOf
  <2> QED
    BY <1>1, <2>1 DEF Closed, InputEnd
<1>5. ASSUME NEW u \in Streams
      PROVE  /\ ~finished[u] => Ready(config, sent'[u], taken[u], buffer[u].edges, buffer[u].weights)
             /\ finished[u] => Answered(config, sent'[u], output[u])
  <2>0. /\ ~finished[u] => Ready(config, sent[u], taken[u], buffer[u].edges, buffer[u].weights)
        /\ finished[u] => Answered(config, sent[u], output[u])
    BY DEF DataInv, StreamInv
  <2>1. CASE u # s
    BY <1>2, <2>0, <2>1
  <2>2. CASE u = s
    <3> DEFINE more == Append(sent[s], item)
    <3>0. sent'[u] = more
      BY <1>2, <2>2
    <3>1. ASSUME Ready(config, sent[s], taken[s], buffer[s].edges, buffer[s].weights)
          PROVE  Ready(config, more, taken[s], buffer[s].edges, buffer[s].weights)
      <4>1. RowsOf(more, taken[s]) = RowsOf(sent[s], taken[s])
        BY <1>3, RowsStay
      <4>2. \A i \in 1..taken[s] : more[i] = sent[s][i]
        BY <1>3
      <4> HIDE DEF more
      <4> QED
        BY <3>1, <4>1, <4>2, Zenon DEF Ready
    <3>2. ASSUME Answered(config, sent[s], output[s])
          PROVE  Answered(config, more, output[s])
      <4>1. output[s] = <<Failure>> /\ Bad(config, sent[s])
        BY <1>4, <3>2, Zenon DEF Answered
      <4>2. Bad(config, more)
        BY <1>3, <4>1, BadStays
      <4> QED
        BY <4>1, <4>2, Zenon DEF Answered
    <3> HIDE DEF more
    <3> QED
      BY <2>0, <2>2, <3>0, <3>1, <3>2, Zenon
  <2> QED
    BY <2>1, <2>2
<1>6. StreamInv'
  <2> SUFFICES ASSUME NEW u \in Streams
               PROVE  (/\ ~finished[u] => Ready(config, sent[u], taken[u], buffer[u].edges, buffer[u].weights)
                       /\ finished[u] => Answered(config, sent[u], output[u]))'
    BY DEF StreamInv
  <2> QED
    BY <1>1, <1>5
<1>7. GraphInv'
  <2> SUFFICES ASSUME sink # Unset
               PROVE  IsGraphOf(sink.graph, EdgesOf(config, sent'[sink.by]), Size)
    BY <1>1 DEF GraphInv
  <2>1. sink.by \in Streams /\ Closed(sent[sink.by])
    BY DEF Inv, SinkInv, Closed
  <2>2. sink.by # s
    BY <1>4, <2>1
  <2> QED
    BY <1>2, <2>1, <2>2 DEF DataInv, GraphInv
<1> QED
  BY <1>1, <1>6, <1>7 DEF DataInv, Buffers

(* A step that leaves buffers and answers alone.                           *)
LEMMA QuietKeepsData ==
    ASSUME DataInv, UNCHANGED <<config, sent, taken, buffer, finished, output, sink>>
    PROVE  DataInv'
<1>1. StreamInv'
  <2> SUFFICES ASSUME NEW u \in Streams
               PROVE  (/\ ~finished[u] => Ready(config, sent[u], taken[u], buffer[u].edges, buffer[u].weights)
                       /\ finished[u] => Answered(config, sent[u], output[u]))'
    BY DEF StreamInv
  <2>1. /\ ~finished[u] => Ready(config, sent[u], taken[u], buffer[u].edges, buffer[u].weights)
        /\ finished[u] => Answered(config, sent[u], output[u])
    BY DEF DataInv, StreamInv
  <2> QED
    BY <2>1
<1>2. GraphInv'
  BY DEF DataInv, GraphInv
<1> QED
  BY <1>1, <1>2 DEF DataInv, Buffers

(* extract_edges appends to the lists of its stream alone.                 *)
LEMMA ExtractPushes ==
    ASSUME Buffers, NEW s \in Streams, NEW rows, ExtractEdges(s, rows)
    PROVE  /\ Buffers'
           /\ \A u \in Streams \ {s} : buffer'[u] = buffer[u]
           /\ LET new == IF config.columns THEN Extracted(s, rows) ELSE <<>>
              IN  /\ buffer'[s].edges = buffer[s].edges \o NewEdges(new)
                  /\ buffer'[s].weights = IF config.weighted
                                          THEN buffer[s].weights \o NewWeights(new)
                                          ELSE buffer[s].weights
<1> DEFINE new == IF config.columns THEN Extracted(s, rows) ELSE <<>>
           es == buffer[s].edges \o NewEdges(new)
           ws == IF config.weighted THEN buffer[s].weights \o NewWeights(new)
                 ELSE buffer[s].weights
<1>1. buffer' = [buffer EXCEPT ![s].edges = es, ![s].weights = ws]
  BY Zenon DEF ExtractEdges, NewEdges, NewWeights
<1> HIDE DEF new, es, ws
<1>2. /\ DOMAIN buffer' = Streams
      /\ \A u \in Streams \ {s} : buffer'[u] = buffer[u]
      /\ DOMAIN buffer'[s] = {"edges", "weights"}
      /\ buffer'[s].edges = es /\ buffer'[s].weights = ws
  BY <1>1 DEF Buffers
<1> QED
  BY <1>2 DEF Buffers, new, es, ws

(* A batch that the buffers take.                                          *)
LEMMA BatchKeepsData ==
    ASSUME Inv, DataInv, NEW s \in Streams, PollBatch(s)
    PROVE  DataInv'
<1> DEFINE items == sent[s]
           k == taken[s]
           rows == items[k + 1].rows
           new == NonNull(rows)
<1>0. /\ HasInput(s, "batch") /\ ~ExtractFails(s, rows) /\ ExtractEdges(s, rows) /\ Take(s)
      /\ UNCHANGED <<config, sent, finished, output, sink>>
  BY DEF PollBatch
<1>1. /\ items \in Seq(Items) /\ k \in Nat /\ ~finished[s] /\ k + 1 <= Len(items)
      /\ k + 1 \in 1..Len(items) /\ items[k + 1].kind = "batch"
  <2>1. sent \in [Streams -> Seq(Items)] /\ taken \in [Streams -> Nat]
    BY DEF Inv, TypeInv
  <2>2. k < Len(items) /\ ~finished[s] /\ items[k + 1].kind = "batch"
    BY <1>0 DEF HasInput, Polled
  <2>3. items \in Seq(Items) /\ k \in Nat /\ Len(items) \in Nat
    BY <2>1, ListOf
  <2> QED
    BY <2>2, <2>3
<1>2. config \in Configs /\ Buffers
      /\ Ready(config, items, k, buffer[s].edges, buffer[s].weights)
  BY <1>1 DEF DataInv, StreamInv
<1>3. rows \in Seq(InputRows) /\ new \in Seq(Valid)
  <2>1. rows \in Seq(InputRows)
    BY <1>1, ListOf, ItemRows
  <2> QED
    BY <2>1, NonNullIs
<1>4. /\ RowsOf(items, k) \in Seq(Valid) /\ RowsOf(items, k + 1) \in Seq(Valid)
      /\ RowsOf(items, k + 1) = RowsOf(items, k) \o new
  BY <1>1, RowsGrow
<1>5. /\ Buffered(config, RowsOf(items, k), buffer[s].edges, buffer[s].weights)
      /\ ~OverLimit(config, Len(buffer[s].edges))
      /\ \A i \in 1..k : items[i].kind = "batch"
  BY <1>2, Zenon DEF Ready
<1>6. Len(buffer[s].edges) \in Nat /\ Len(new) \in Nat
  <2>1. buffer[s].edges \in Seq(AnyEdge({NoWeight}))
    BY <1>5 DEF Buffered
  <2> QED
    BY <1>3, <2>1, ListOf
<1>7. /\ config.columns /\ Extracted(s, rows) = new
      /\ ~OverLimit(config, Len(buffer[s].edges) + Len(new))
  <2>1. /\ config.columns /\ Extracted(s, rows) = new
        /\ WithinLimit(Len(buffer[s].edges)) => WithinLimit(Len(buffer[s].edges) + Len(new))
    BY <1>0, <1>2, <1>3, <1>6, ExtractIs
  <2>2. WithinLimit(Len(buffer[s].edges))
    BY <1>2, <1>5, <1>6, LimitIs
  <2>3. Len(buffer[s].edges) + Len(new) \in Nat
    <3> HIDE DEF new
    <3>1. \A a, b \in Nat : a + b \in Nat
      OBVIOUS
    <3> QED
      BY <1>6, <3>1, Zenon
  <2> QED
    BY <1>2, <2>1, <2>2, <2>3, LimitIs
<1>8. /\ buffer'[s].edges = buffer[s].edges \o NewEdges(new)
      /\ buffer'[s].weights = IF config.weighted THEN buffer[s].weights \o NewWeights(new)
                              ELSE buffer[s].weights
      /\ \A u \in Streams \ {s} : buffer'[u] = buffer[u]
      /\ Buffers'
  BY <1>0, <1>2, <1>7, ExtractPushes
<1>9. taken' = [taken EXCEPT ![s] = k + 1] /\ DOMAIN taken = Streams
  BY <1>0 DEF Take, Inv, TypeInv
<1> DEFINE es == buffer[s].edges \o NewEdges(new)
           ws == IF config.weighted THEN buffer[s].weights \o NewWeights(new) ELSE buffer[s].weights
<1>10. Buffered(config, RowsOf(items, k + 1), es, ws)
  <2>1. Buffered(config, RowsOf(items, k) \o new, es, ws)
    <3> HIDE DEF new
    <3> QED
      BY <1>3, <1>4, <1>5, PushKeeps
  <2> QED
    BY <1>4, <2>1
<1>11. /\ buffer'[s].edges = es /\ buffer'[s].weights = ws /\ taken'[s] = k + 1
       /\ \A u \in Streams \ {s} : /\ buffer'[u] = buffer[u]
                                   /\ taken'[u] = taken[u]
       /\ Buffers'
  BY <1>8, <1>9
<1> HIDE DEF new, es, ws
<1>12. Len(es) = Len(buffer[s].edges) + Len(new)
  <2>1. Len(es) = Len(RowsOf(items, k + 1)) /\ Len(buffer[s].edges) = Len(RowsOf(items, k))
    BY <1>5, <1>10, Zenon DEF Buffered
  <2>2. Len(RowsOf(items, k + 1)) = Len(RowsOf(items, k)) + Len(new)
    BY <1>3, <1>4, BothLists
  <2> QED
    BY <2>1, <2>2
<1>13. Ready(config, items, k + 1, es, ws)
  <2>1. \A i \in 1..(k + 1) : items[i].kind = "batch"
    BY <1>1, <1>5
  <2> HIDE DEF items, k
  <2> QED
    BY <1>7, <1>10, <1>12, <2>1, Zenon DEF Ready
<1>14. StreamInv'
  <2> SUFFICES ASSUME NEW u \in Streams
               PROVE  (/\ ~finished[u] => Ready(config, sent[u], taken[u], buffer[u].edges, buffer[u].weights)
                       /\ finished[u] => Answered(config, sent[u], output[u]))'
    BY DEF StreamInv
  <2>1. CASE u = s
    BY <1>0, <1>1, <1>11, <1>13, <2>1
  <2>2. CASE u # s
    <3>1. /\ ~finished[u] => Ready(config, sent[u], taken[u], buffer[u].edges, buffer[u].weights)
          /\ finished[u] => Answered(config, sent[u], output[u])
      BY DEF DataInv, StreamInv
    <3> QED
      BY <1>0, <1>11, <2>2, <3>1
  <2> QED
    BY <2>1, <2>2
<1>15. GraphInv'
  BY <1>0 DEF DataInv, GraphInv
<1> QED
  BY <1>0, <1>2, <1>11, <1>14, <1>15 DEF DataInv

(* A poll that answers.                                                    *)
LEMMA AnswerKeepsData ==
    ASSUME Inv, DataInv, NEW s \in Streams, NEW item, ~finished[s], Yield(s, item),
           Answered(config, sent[s], <<item>>), UNCHANGED <<config, sent>>,
           Buffers',
           \A u \in Streams \ {s} : /\ buffer'[u] = buffer[u]
                                    /\ taken'[u] = taken[u],
           \/ UNCHANGED sink
           \/ /\ sink'.by = s
              /\ IsGraphOf(sink'.graph, EdgesOf(config, sent[s]), Size)
    PROVE  DataInv'
<1>1. /\ output' = [output EXCEPT ![s] = Append(output[s], item)]
      /\ finished' = [finished EXCEPT ![s] = TRUE]
      /\ DOMAIN output = Streams /\ DOMAIN finished = Streams
  BY DEF Yield, Inv, TypeInv
<1>2. output[s] = <<>> /\ Append(<<>>, item) = <<item>>
  BY DEF Inv, OutputInv
<1>3. \A u \in Streams : /\ output'[u] = IF u = s THEN <<item>> ELSE output[u]
                         /\ finished'[u] = IF u = s THEN TRUE ELSE finished[u]
  BY <1>1, <1>2
<1>4. StreamInv'
  <2> SUFFICES ASSUME NEW u \in Streams
               PROVE  (/\ ~finished[u] => Ready(config, sent[u], taken[u], buffer[u].edges, buffer[u].weights)
                       /\ finished[u] => Answered(config, sent[u], output[u]))'
    BY DEF StreamInv
  <2>1. CASE u = s
    BY <1>3, <2>1
  <2>2. CASE u # s
    <3>1. /\ ~finished[u] => Ready(config, sent[u], taken[u], buffer[u].edges, buffer[u].weights)
          /\ finished[u] => Answered(config, sent[u], output[u])
      BY DEF DataInv, StreamInv
    <3>2. /\ output'[u] = output[u] /\ finished'[u] = finished[u]
          /\ buffer'[u] = buffer[u] /\ taken'[u] = taken[u]
      BY <1>3, <2>2
    <3> QED
      BY <3>1, <3>2
  <2> QED
    BY <2>1, <2>2
<1>5. GraphInv'
  BY DEF DataInv, GraphInv
<1> QED
  BY <1>4, <1>5 DEF DataInv

(* A batch that the buffers refuse, and an error of the input.             *)
LEMMA ErrorKeepsData ==
    ASSUME Inv, DataInv, NEW s \in Streams, PollBadBatch(s) \/ PollInputError(s)
    PROVE  DataInv'
<1> DEFINE items == sent[s]
           k == taken[s]
<1>1. /\ HasInput(s, "batch") \/ HasInput(s, "error")
      /\ Yield(s, Failure) /\ Take(s) /\ UNCHANGED <<config, sent, sink>>
  BY DEF PollBadBatch, PollInputError
<1>2. /\ items \in Seq(Items) /\ k \in Nat /\ ~finished[s] /\ k + 1 <= Len(items)
      /\ k + 1 \in 1..Len(items)
  <2>1. sent \in [Streams -> Seq(Items)] /\ taken \in [Streams -> Nat]
    BY DEF Inv, TypeInv
  <2>2. k < Len(items) /\ ~finished[s]
    BY <1>1 DEF HasInput, Polled
  <2>3. items \in Seq(Items) /\ k \in Nat /\ Len(items) \in Nat
    BY <2>1, ListOf
  <2> QED
    BY <2>2, <2>3
<1>3. config \in Configs /\ Buffers
      /\ Ready(config, items, k, buffer[s].edges, buffer[s].weights)
  BY <1>2 DEF DataInv, StreamInv
<1>4. Bad(config, items)
  <2>1. CASE PollInputError(s)
    <3>1. items[k + 1].kind = "error"
      BY <2>1 DEF PollInputError, HasInput
    <3> QED
      BY <1>2, <3>1 DEF Bad
  <2>2. CASE PollBadBatch(s)
    <3> DEFINE rows == items[k + 1].rows
    <3>1. items[k + 1].kind = "batch" /\ ExtractFails(s, rows)
      BY <2>2 DEF PollBadBatch, HasInput
    <3>2. rows \in Seq(InputRows)
      BY <1>2, ListOf, ItemRows
    <3>3. Buffered(config, RowsOf(items, k), buffer[s].edges, buffer[s].weights)
      BY <1>3, Zenon DEF Ready
    <3>4. Len(buffer[s].edges) = Len(RowsOf(items, k)) /\ Len(buffer[s].edges) \in Nat
      <4>1. buffer[s].edges \in Seq(AnyEdge({NoWeight})) /\ Len(buffer[s].edges) = Len(RowsOf(items, k))
        BY <3>3, Zenon DEF Buffered
      <4> QED
        BY <4>1, ListOf
    <3>5. Len(NonNull(rows)) \in Nat
      BY <3>2, NonNullIs, ListOf
    <3>6. ~config.columns \/ ~WithinLimit(Len(buffer[s].edges) + Len(NonNull(rows)))
      BY <1>3, <3>1, <3>2, <3>4, ExtractIs
    <3>7. Len(buffer[s].edges) + Len(NonNull(rows)) \in Nat
      <4> HIDE DEF rows
      <4>1. \A a, b \in Nat : a + b \in Nat
        OBVIOUS
      <4> QED
        BY <3>4, <3>5, <4>1, Zenon
    <3>8. ~config.columns \/ OverLimit(config, Len(RowsOf(items, k)) + Len(NonNull(rows)))
      BY <1>3, <3>4, <3>6, <3>7, LimitIs
    <3> QED
      BY <1>2, <1>3, <3>1, <3>8, RefusedIsBad
  <2> QED
    BY <2>1, <2>2
<1>5. /\ Buffers'
      /\ \A u \in Streams \ {s} : buffer'[u] = buffer[u]
  <2>1. CASE PollInputError(s)
    BY <1>3, <2>1 DEF PollInputError, Buffers
  <2>2. CASE PollBadBatch(s)
    <3>1. ExtractEdges(s, items[k + 1].rows)
      BY <2>2 DEF PollBadBatch
    <3> QED
      BY <1>3, <3>1, ExtractPushes
  <2> QED
    BY <2>1, <2>2
<1>6. \A u \in Streams \ {s} : taken'[u] = taken[u]
  BY <1>1 DEF Take, Inv, TypeInv
<1>7. Answered(config, items, <<Failure>>)
  BY <1>4, Zenon DEF Answered
<1> QED
  BY <1>1, <1>2, <1>5, <1>6, <1>7, AnswerKeepsData

(* The build at the end of the input.                                      *)
LEMMA BuildKeepsData ==
    ASSUME Inv, DataInv, NEW s \in Streams, BuildCsr(s)
    PROVE  DataInv'
<1> DEFINE items == sent[s]
           k == taken[s]
           es == buffer[s].edges
           ws == buffer[s].weights
           g == Build(es, ws, config.weighted, Size)
<1>1. /\ HasInput(s, "end") /\ Take(s) /\ UNCHANGED <<config, sent>>
      /\ buffer' = [buffer EXCEPT ![s] = NoBuffer]
      /\ IF Failed(g) THEN Yield(s, Failure) /\ UNCHANGED sink
         ELSE Yield(s, Statistics(g)) /\ sink' = Publish(s, g)
  BY DEF BuildCsr
<1>2. /\ items \in Seq(Items) /\ k \in Nat /\ ~finished[s] /\ k + 1 = Len(items)
      /\ Len(items) \in Nat /\ k + 1 \in 1..Len(items) /\ items[k + 1] = InputEnd
  <2>1. sent \in [Streams -> Seq(Items)] /\ taken \in [Streams -> Nat]
    BY DEF Inv, TypeInv
  <2>2. k < Len(items) /\ ~finished[s] /\ items[k + 1].kind = "end"
    BY <1>1 DEF HasInput, Polled
  <2>3. items \in Seq(Items) /\ k \in Nat /\ Len(items) \in Nat
    BY <2>1, ListOf
  <2>4. \A i \in 1..Len(items) : i < Len(items) => items[i].kind = "batch"
    BY DEF Inv, InputInv
  <2>5. k + 1 \in 1..Len(items)
    BY <2>2, <2>3
  <2>6. ~(k + 1 < Len(items))
    BY <2>2, <2>4, <2>5
  <2>7. items[k + 1] = InputEnd
    BY <2>2, <2>3, <2>5, ListOf, ItemKinds
  <2> QED
    BY <2>2, <2>3, <2>5, <2>6, <2>7
<1>3. config \in Configs /\ Buffers
      /\ Ready(config, items, k, es, ws)
  BY <1>2 DEF DataInv, StreamInv
<1>4. /\ Buffered(config, RowsOf(items, k), es, ws)
      /\ ~OverLimit(config, Len(es))
      /\ \A i \in 1..k : items[i].kind = "batch"
      /\ k > 0 => config.columns
  BY <1>3, Zenon DEF Ready
<1>5. Closed(items)
  BY <1>2 DEF Closed
<1>6. k = Len(items) - 1
  BY <1>2
<1>7. /\ Failed(g) <=> Unanswerable(config, items)
      /\ ~Failed(g) => IsGraphOf(g, EdgesOf(config, items), Size)
  <2>1. /\ \A i \in 1..(Len(items) - 1) : items[i].kind = "batch"
        /\ Len(items) - 1 > 0 => config.columns
        /\ Buffered(config, RowsOf(items, Len(items) - 1), es, ws)
    BY <1>4, <1>6
  <2> HIDE DEF items, es, ws, k
  <2> QED
    BY <1>2, <1>3, <1>4, <1>5, <2>1, BuildAnswers
<1>8. /\ Buffers'
      /\ \A u \in Streams \ {s} : /\ buffer'[u] = buffer[u]
                                  /\ taken'[u] = taken[u]
  BY <1>1, <1>3 DEF Take, Inv, TypeInv, Buffers, NoBuffer
<1> HIDE DEF g
<1>9. CASE Failed(g)
  <2>1. Answered(config, items, <<Failure>>)
    BY <1>5, <1>7, <1>9, Zenon DEF Answered
  <2> QED
    BY <1>1, <1>2, <1>8, <1>9, <2>1, AnswerKeepsData
<1>10. CASE ~Failed(g)
  <2>1. Yield(s, Statistics(g)) /\ sink' = Publish(s, g)
    BY <1>1, <1>10
  <2>2. <<Statistics(g)>> # <<Failure>>
    <3>1. Statistics(g).kind = "statistics" /\ Failure.kind = "error"
      BY DEF Statistics, Failure
    <3>2. Statistics(g) # Failure
      BY <3>1
    <3> QED
      BY <3>2
  <2>3. Answered(config, items, <<Statistics(g)>>)
    BY <1>5, <1>7, <1>10, <2>2, Zenon DEF Answered
  <2>4. \/ UNCHANGED sink
        \/ /\ sink'.by = s
           /\ IsGraphOf(sink'.graph, EdgesOf(config, items), Size)
    <3>1. CASE config.sink /\ sink = Unset
      <4>1. sink' = [by |-> s, graph |-> g]
        BY <2>1, <3>1 DEF Publish
      <4>2. sink'.by = s /\ sink'.graph = g
        BY <4>1
      <4> QED
        BY <1>7, <1>10, <4>2
    <3>2. CASE ~(config.sink /\ sink = Unset)
      BY <2>1, <3>2 DEF Publish
    <3> QED
      BY <3>1, <3>2
  <2> QED
    BY <1>1, <1>2, <1>8, <2>1, <2>3, <2>4, AnswerKeepsData
<1> QED
  BY <1>9, <1>10

(* Every step keeps it, and so it always holds.                            *)
LEMMA DataInvHolds == Spec => []DataInv
<1>1. Inv /\ DataInv /\ [Next]_vars => DataInv'
  <2> SUFFICES ASSUME Inv, DataInv, [Next]_vars PROVE DataInv'
    OBVIOUS
  <2>1. ASSUME NEW s \in Streams, NEW partition \in {0, 1}, Execute(s, partition) PROVE DataInv'
    BY <2>1, QuietKeepsData DEF Execute
  <2>2. ASSUME NEW s \in Streams, Arrive(s) PROVE DataInv'
    <3>1. PICK item \in Items : Send(s, item)
      BY <2>2 DEF Arrive, Items
    <3> QED
      BY <3>1, SendKeepsData
  <2>3. ASSUME NEW s \in Streams, Drop(s) \/ PollFinished(s) \/ PollPending(s) PROVE DataInv'
    BY <2>3, QuietKeepsData DEF Drop, PollFinished, PollPending
  <2>4. ASSUME NEW s \in Streams, PollBatch(s) PROVE DataInv'
    BY <2>4, BatchKeepsData
  <2>5. ASSUME NEW s \in Streams, PollBadBatch(s) \/ PollInputError(s) PROVE DataInv'
    BY <2>5, ErrorKeepsData
  <2>6. ASSUME NEW s \in Streams, BuildCsr(s) PROVE DataInv'
    BY <2>6, BuildKeepsData
  <2>7. CASE UNCHANGED vars
    BY <2>7, QuietKeepsData DEF vars
  <2> QED
    BY <2>1, <2>2, <2>3, <2>4, <2>5, <2>6, <2>7 DEF Next, PollNext
<1> QED
  BY <1>1, InvHolds, InitData, PTL DEF Spec

(* A stream that was read to its end has yielded one item: an error        *)
(* exactly for an input in error, over the limit, of the wrong columns or  *)
(* beyond u32, in an id, in its rows or in the shards of its graph, for    *)
(* any number of executions, batches and rows and any shard size; and the  *)
(* loader of a plan with a sink then finds a graph (loader.rs:249-253).    *)
THEOREM EveryStreamAnswersOnce == Spec => []OneAnswer
<1>1. Inv /\ DataInv => OneAnswer
  <2> SUFFICES ASSUME Inv, DataInv, NEW s \in Streams, phase[s] = "ended"
               PROVE  /\ Len(output[s]) = 1
                      /\ (output[s] = <<Failure>>) <=> InputIsBad(s)
                      /\ config.sink => BuildEdgeGraph(s) # "completed without publishing"
    BY DEF OneAnswer
  <2>1. finished[s] /\ sent[s] \in Seq(Items) /\ config \in Configs
    BY DEF Inv, OutputInv, TypeInv, DataInv
  <2>2. PICK item : /\ output[s] = <<item>>
                    /\ item # Failure /\ config.sink => sink # Unset
    BY <2>1 DEF Inv, OutputInv
  <2>3. Len(output[s]) = 1
    BY <2>2
  <2>4. ASSUME config.sink, BuildEdgeGraph(s) = "completed without publishing" PROVE FALSE
    <3>1. output[s] # <<Failure>> /\ sink = Unset
      BY <2>4 DEF BuildEdgeGraph
    <3> QED
      BY <2>2, <2>4, <3>1
  <2>5. Answered(config, sent[s], output[s])
    BY <2>1 DEF DataInv, StreamInv
  <2>6. InputIsBad(s) <=> Unanswerable(config, sent[s])
    BY <2>1, InputIs
  <2>7. (output[s] = <<Failure>>) <=> InputIsBad(s)
    BY <2>5, <2>6, Zenon DEF Answered, Unanswerable
  <2> QED
    BY <2>3, <2>4, <2>7
<1> QED
  BY <1>1, InvHolds, DataInvHolds, PTL

(* The graph in the sink is the whole input of the execution that set it:  *)
(* the sort, the row pointers, the partition into shards and the lookup    *)
(* together return the rows of every node, in the order of the batches,    *)
(* with their weights, and the statistics count them                       *)
(* (csr_builder.rs:360-404, builder.rs:71-298, csr.rs:133-204).            *)
THEOREM TheGraphIsTheInput == Spec => []PublishedIsTheInput
<1>1. Inv /\ DataInv => PublishedIsTheInput
  <2> SUFFICES ASSUME Inv, DataInv, sink # Unset PROVE PublishedIsTheInput
    BY DEF PublishedIsTheInput
  <2> DEFINE rows == InputEdges(sink.by)
  <2>1. /\ sink.by \in Streams
        /\ sent[sink.by][Len(sent[sink.by])] = InputEnd
        /\ output[sink.by] = <<Statistics(sink.graph)>>
    BY DEF Inv, SinkInv
  <2>2. config \in Configs /\ sent[sink.by] \in Seq(Items)
        /\ IsGraphOf(sink.graph, EdgesOf(config, sent[sink.by]), Size)
    BY <2>1 DEF Inv, TypeInv, DataInv, GraphInv
  <2>3. rows = EdgesOf(config, sent[sink.by])
    BY <2>1, <2>2, InputIs
  <2> HIDE DEF rows
  <2>4. IsGraphOf(sink.graph, rows, Size)
    BY <2>2, <2>3
  <2>5. /\ sink.graph.edgeCount = Len(rows)
        /\ \A n \in 0..U32Max : BaseNeighborSlice(sink.graph, n) = EdgesFrom(rows, n)
    BY <2>4, Zenon DEF IsGraphOf
  <2> QED
    BY <2>1, <2>5, Zenon DEF PublishedIsTheInput, rows
<1> QED
  BY <1>1, InvHolds, DataInvHolds, PTL
==============================================================================
