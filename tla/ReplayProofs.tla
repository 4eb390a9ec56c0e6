---------------------------- MODULE ReplayProofs -----------------------------
(***************************************************************************)
(* A session of samples and rows, and the backtests on them, for every     *)
(* value of the constants: what SMA and VWAP average, that crossings of    *)
(* VWAP alternate, what the file hides, and that trades do not overlap and *)
(* add up to what the positions gained.                                    *)
(***************************************************************************)
EXTENDS Replay, FiniteSetTheorems, WellFoundedInduction, TLAPS

-----------------------------------------------------------------------------
(***************************************************************************)
(* Folds and sums over finite sets.                                        *)
(***************************************************************************)
\* Induction without an operator: a set of naturals with 0 and every successor.
LEMMA NatInductive ==
  ASSUME NEW S \in SUBSET Nat, 0 \in S, \A n \in S : n + 1 \in S
  PROVE  S = Nat
<1> SUFFICES ASSUME Nat \ S # {} PROVE FALSE
  OBVIOUS
<1>1. IsWellFoundedOn(OpToRel(<, Nat), Nat)
  BY NatLessThanWellFounded
<1>2. PICK m \in Nat \ S : \A x \in Nat \ S : <<x, m>> \notin OpToRel(<, Nat)
  BY <1>1, WFMin
<1>3. m - 1 \in Nat \ S /\ m - 1 < m
  <2>1. m # 0 /\ m \in Nat
    OBVIOUS
  <2>2. m - 1 \in Nat /\ (m - 1) + 1 = m
    BY <2>1
  <2> QED BY <2>2
<1>4. <<m - 1, m>> \in Nat \X Nat /\ <<m - 1, m>>[1] < <<m - 1, m>>[2]
  BY <1>3
<1>5. <<m - 1, m>> \in OpToRel(<, Nat)
  BY <1>4 DEF OpToRel
<1> QED BY <1>2, <1>3, <1>5

\* g is what a fold computes on the subsets of S that takes the elements in the
\* order c and combines by step.
FoldOf(g, S, base, c, step) ==
  \A s \in SUBSET S : g[s] = IF s = {} THEN base ELSE step[c[s]][g[s \ {c[s]}]]

Chooses(c, S) == \A s \in SUBSET S : s # {} => c[s] \in s

\* There is such a g: a set with one more element adds one step.
LEMMA FoldExists ==
  ASSUME NEW S, IsFiniteSet(S), NEW V, NEW base \in V, NEW c, Chooses(c, S),
         NEW step \in [S -> [V -> V]]
  PROVE  \E g \in [SUBSET S -> V] : FoldOf(g, S, base, c, step)
<1> DEFINE D(n) == {s \in SUBSET S : Cardinality(s) <= n}
           Value(g, s) == IF s = {} THEN base ELSE step[c[s]][g[s \ {c[s]}]]
           Good == {n \in Nat : \E g \in [D(n) -> V] : \A s \in D(n) : g[s] = Value(g, s)}
<1>1. \A s \in SUBSET S : IsFiniteSet(s) /\ Cardinality(s) \in Nat
  BY FS_Subset, FS_CardinalityType
<1>2. 0 \in Good
  <2>1. ASSUME NEW s \in D(0) PROVE s = {}
    BY <1>1, FS_EmptySet
  <2> DEFINE g == [s \in D(0) |-> base]
  <2>2. g \in [D(0) -> V] /\ \A s \in D(0) : g[s] = Value(g, s)
    BY <2>1
  <2> QED BY <2>2
<1>3. ASSUME NEW n \in Good PROVE n + 1 \in Good
  <2>1. PICK g \in [D(n) -> V] : \A s \in D(n) : g[s] = Value(g, s)
    OBVIOUS
  <2>2. ASSUME NEW s \in D(n + 1), s # {}
        PROVE  c[s] \in S /\ s \ {c[s]} \in D(n) /\ s \ {c[s]} \in D(n + 1)
    <3>1. c[s] \in s
      BY <2>2 DEF Chooses
    <3>2. Cardinality(s \ {c[s]}) = Cardinality(s) - 1
      BY <1>1, <3>1, FS_RemoveElement
    <3>3. Cardinality(s \ {c[s]}) <= n /\ Cardinality(s \ {c[s]}) <= n + 1
      BY <1>1, <3>2
    <3> QED BY <3>1, <3>3
  <2> DEFINE h == [s \in D(n + 1) |-> Value(g, s)]
  <2>3. ASSUME NEW s \in D(n + 1) PROVE Value(g, s) \in V
    <3>1. CASE s # {}
      <4>1. c[s] \in S /\ g[s \ {c[s]}] \in V
        BY <2>2, <3>1
      <4>2. step[c[s]] \in [V -> V]
        BY <4>1
      <4>3. step[c[s]][g[s \ {c[s]}]] \in V
        BY <4>1, <4>2
      <4> QED BY <3>1, <4>3
    <3> QED BY <3>1
  <2>4. h \in [D(n + 1) -> V]
    BY <2>3
  <2>5. ASSUME NEW s \in D(n + 1) PROVE h[s] = Value(h, s)
    <3>1. CASE s # {}
      <4>1. h[s \ {c[s]}] = g[s \ {c[s]}]
        BY <2>1, <2>2, <3>1
      <4> QED BY <3>1, <4>1
    <3> QED BY <3>1
  <2> HIDE DEF h
  <2>6. \E x \in [D(n + 1) -> V] : \A s \in D(n + 1) : x[s] = Value(x, s)
    BY <2>4, <2>5
  <2>7. n + 1 \in Nat
    OBVIOUS
  <2> HIDE DEF D, Value
  <2> QED BY <2>6, <2>7
<1>4. Good = Nat
  <2> HIDE DEF Good
  <2> QED BY <1>2, <1>3, NatInductive DEF Good
<1>5. D(Cardinality(S)) = SUBSET S
  BY <1>1, FS_Subset
<1>6. Cardinality(S) \in Good
  <2> HIDE DEF Good
  <2> QED BY <1>1, <1>4
<1> QED BY <1>5, <1>6 DEF FoldOf


\* Two functions on the subsets of S that start and go on alike are alike.
LEMMA FoldAgree ==
  ASSUME NEW S, IsFiniteSet(S), NEW c, Chooses(c, S), NEW g, NEW h, g[{}] = h[{}],
         \A s \in SUBSET S : s # {} /\ g[s \ {c[s]}] = h[s \ {c[s]}] => g[s] = h[s]
  PROVE  \A s \in SUBSET S : g[s] = h[s]
<1> DEFINE Same == {n \in Nat : \A s \in SUBSET S : Cardinality(s) = n => g[s] = h[s]}
<1>1. \A s \in SUBSET S : IsFiniteSet(s) /\ Cardinality(s) \in Nat
  BY FS_Subset, FS_CardinalityType
<1>2. 0 \in Same
  <2>1. ASSUME NEW s \in SUBSET S, Cardinality(s) = 0 PROVE s = {}
    BY <1>1, <2>1, FS_EmptySet
  <2> QED BY <2>1
<1>3. ASSUME NEW n \in Same PROVE n + 1 \in Same
  <2> SUFFICES ASSUME NEW s \in SUBSET S, Cardinality(s) = n + 1 PROVE g[s] = h[s]
    OBVIOUS
  <2>1. s # {}
    <3>1. n + 1 # 0
      OBVIOUS
    <3> QED BY <3>1, FS_EmptySet
  <2>2. c[s] \in s
    BY <2>1 DEF Chooses
  <2>3. Cardinality(s \ {c[s]}) = Cardinality(s) - 1
    BY <1>1, <2>2, FS_RemoveElement
  <2>4. g[s \ {c[s]}] = h[s \ {c[s]}]
    <3>1. n \in Nat /\ (n + 1) - 1 = n
      OBVIOUS
    <3> QED BY <2>3, <3>1
  <2> QED BY <2>1, <2>4
<1>4. Same = Nat
  <2> HIDE DEF Same
  <2> QED BY <1>2, <1>3, NatInductive DEF Same
<1>5. \A s \in SUBSET S : Cardinality(s) \in Same
  <2> HIDE DEF Same
  <2> QED BY <1>1, <1>4
<1> QED BY <1>5

\* The element that a sum takes next.
Some(t) == CHOOSE x \in t : TRUE

\* g holds the sums of f over the subsets of S.
Sums(g, f, S) ==
  /\ g \in [SUBSET S -> Int]
  /\ \A s \in SUBSET S : g[s] = IF s = {} THEN 0 ELSE f[Some(s)] + g[s \ {Some(s)}]

\* Every finite set of integers has its sums, and the equation determines them.
LEMMA SumsExist ==
  ASSUME NEW S, IsFiniteSet(S), NEW f, \A i \in S : f[i] \in Int
  PROVE  \E g : Sums(g, f, S)
<1> DEFINE c == [s \in SUBSET S |-> Some(s)]
           step == [i \in S |-> [v \in Int |-> f[i] + v]]
<1>1. Chooses(c, S)
  BY DEF Chooses, Some
<1>2. step \in [S -> [Int -> Int]]
  OBVIOUS
<1>3. \A s \in SUBSET S : s # {} => c[s] \in S /\ c[s] = Some(s)
  BY <1>1 DEF Chooses
<1>4. \A i \in S, v \in Int : step[i][v] = f[i] + v
  OBVIOUS
<1> HIDE DEF c, step
<1> DEFINE V == Int
<1>5. PICK g \in [SUBSET S -> Int] : FoldOf(g, S, 0, c, step)
  <2>1. 0 \in V /\ step \in [S -> [V -> V]]
    BY <1>2
  <2> HIDE DEF V
  <2>2. \E g \in [SUBSET S -> V] : FoldOf(g, S, 0, c, step)
    BY <1>1, <2>1, FoldExists
  <2> QED BY <2>2 DEF V
<1>6. ASSUME NEW s \in SUBSET S
      PROVE  g[s] = IF s = {} THEN 0 ELSE f[Some(s)] + g[s \ {Some(s)}]
  <2>1. CASE s = {}
    BY <1>5, <2>1 DEF FoldOf
  <2>2. CASE s # {}
    <3>1. g[s] = step[c[s]][g[s \ {c[s]}]] /\ g[s \ {c[s]}] \in Int
      BY <1>5, <2>2 DEF FoldOf
    <3> QED BY <1>3, <1>4, <2>2, <3>1
  <2> QED BY <2>1, <2>2
<1> QED BY <1>5, <1>6 DEF Sums

Adds(h, f, S) ==
  /\ h[{}] = 0
  /\ \A s \in SUBSET S : s # {} => h[s] = f[Some(s)] + h[s \ {Some(s)}]

LEMMA SumsAgree ==
  ASSUME NEW S, IsFiniteSet(S), NEW f, NEW g, Sums(g, f, S), NEW h, Adds(h, f, S)
  PROVE  g[S] = h[S]
<1> DEFINE c == [s \in SUBSET S |-> Some(s)]
<1>1. Chooses(c, S) /\ \A s \in SUBSET S : c[s] = Some(s)
  BY DEF Chooses, Some
<1>2. g[{}] = h[{}]
  BY DEF Sums, Adds
<1>3. \A s \in SUBSET S : s # {} /\ g[s \ {c[s]}] = h[s \ {c[s]}] => g[s] = h[s]
  BY <1>1 DEF Sums, Adds
<1> HIDE DEF c
<1>4. \A s \in SUBSET S : g[s] = h[s]
  BY <1>1, <1>2, <1>3, FoldAgree
<1> QED BY <1>4

\* The community modules' sum, of a function.
Total(f, S) == MapThenSumSet(LAMBDA i : f[i], S)

\* It is defined by a recursive function, chosen by its equation; the equation has
\* a solution, so what is chosen solves it.
LEMMA TotalIs ==
  ASSUME NEW S, IsFiniteSet(S), NEW f, NEW g, Sums(g, f, S)
  PROVE  Total(f, S) = g[S]
<1> DEFINE it == CHOOSE h : h = [s \in SUBSET S |-> IF s = {} THEN 0
                                  ELSE f[CHOOSE x \in s : TRUE] + h[s \ {CHOOSE x \in s : TRUE}]]
<1>1. Total(f, S) = it[S]
  BY DEF Total, MapThenSumSet, MapThenFoldSet
<1>2. g = [s \in SUBSET S |-> IF s = {} THEN 0
                                  ELSE f[CHOOSE x \in s : TRUE] + g[s \ {CHOOSE x \in s : TRUE}]]
  BY DEF Sums, Some
<1>3. it = [s \in SUBSET S |-> IF s = {} THEN 0
                                  ELSE f[CHOOSE x \in s : TRUE] + it[s \ {CHOOSE x \in s : TRUE}]]
  BY <1>2
<1>4. Adds(it, f, S)
  <2> HIDE DEF it
  <2> QED BY <1>3 DEF Some, Adds
<1> HIDE DEF it
<1>5. g[S] = it[S]
  BY <1>4, SumsAgree
<1> QED BY <1>1, <1>5

\* A sum depends only on the values that are added.
LEMMA TotalAgrees ==
  ASSUME NEW S, IsFiniteSet(S), NEW f, NEW h, \A i \in S : f[i] \in Int /\ f[i] = h[i]
  PROVE  Total(f, S) = Total(h, S)
<1>1. PICK g : Sums(g, f, S)
  BY SumsExist
<1>2. Sums(g, h, S)
  <2>1. \A s \in SUBSET S : s # {} => f[Some(s)] = h[Some(s)]
    BY DEF Some
  <2> QED BY <1>1, <2>1 DEF Sums
<1>3. Total(f, S) = g[S]
  BY <1>1, TotalIs
<1>4. Total(h, S) = g[S]
  BY <1>2, TotalIs
<1> QED BY <1>3, <1>4

LEMMA TotalEmpty == ASSUME NEW f PROVE Total(f, {}) = 0
<1>1. IsFiniteSet({}) /\ \A i \in {} : f[i] \in Int
  BY FS_EmptySet
<1> DEFINE E == {}
<1>2. IsFiniteSet(E) /\ \A i \in E : f[i] \in Int
  BY <1>1
<1> HIDE DEF E
<1>3. PICK g : Sums(g, f, E)
  BY <1>2, SumsExist
<1>4. Total(f, E) = g[E]
  BY <1>2, <1>3, TotalIs
<1> QED BY <1>3, <1>4 DEF E, Sums

\* The order does not matter: any element can be taken out first.
LEMMA TotalSplits ==
  ASSUME NEW S, IsFiniteSet(S), NEW f, \A i \in S : f[i] \in Int, NEW a \in S
  PROVE  /\ Total(f, S) = f[a] + Total(f, S \ {a})
         /\ Total(f, S) \in Int /\ Total(f, S \ {a}) \in Int
<1>1. PICK g : Sums(g, f, S)
  BY SumsExist
<1>2. \A s \in SUBSET S : IsFiniteSet(s) /\ Cardinality(s) \in Nat
  BY FS_Subset, FS_CardinalityType
<1> DEFINE Splits(s) == \A b \in s : g[s] = f[b] + g[s \ {b}]
           Good == {n \in Nat : \A s \in SUBSET S : Cardinality(s) = n => Splits(s)}
<1>3. 0 \in Good
  <2>1. ASSUME NEW s \in SUBSET S, Cardinality(s) = 0 PROVE s = {}
    BY <1>2, <2>1, FS_EmptySet
  <2> QED BY <2>1
<1>4. ASSUME NEW n \in Good PROVE n + 1 \in Good
  <2> SUFFICES ASSUME NEW s \in SUBSET S, Cardinality(s) = n + 1, NEW b \in s
               PROVE  g[s] = f[b] + g[s \ {b}]
    OBVIOUS
  <2> DEFINE x == Some(s)
  <2>1. x \in s
    BY DEF Some
  <2>2. g[s] = f[x] + g[s \ {x}]
    BY <1>1 DEF Sums
  <2> HIDE DEF x
  <2>3. CASE b = x
    BY <2>2, <2>3
  <2>4. CASE b # x
    <3>1. Cardinality(s \ {x}) = Cardinality(s) - 1 /\ Cardinality(s \ {b}) = Cardinality(s) - 1
      BY <1>2, <2>1, FS_RemoveElement
    <3>2. n \in Nat /\ (n + 1) - 1 = n
      OBVIOUS
    <3>3. Cardinality(s \ {x}) = n /\ Cardinality(s \ {b}) = n
      BY <3>1, <3>2
    <3>4. g[s \ {x}] = f[b] + g[(s \ {x}) \ {b}]
      BY <2>4, <3>3
    <3>5. g[s \ {b}] = f[x] + g[(s \ {b}) \ {x}]
      BY <2>1, <2>4, <3>3
    <3>6. (s \ {b}) \ {x} = (s \ {x}) \ {b}
      OBVIOUS
    <3>7. f[x] \in Int /\ f[b] \in Int /\ g[(s \ {x}) \ {b}] \in Int
      BY <1>1, <2>1 DEF Sums
    <3> DEFINE y == g[(s \ {x}) \ {b}]
    <3>8. /\ g[s] = f[x] + g[s \ {x}] /\ g[s \ {x}] = f[b] + y /\ g[s \ {b}] = f[x] + y
          /\ y \in Int
      BY <2>2, <3>4, <3>5, <3>6, <3>7
    <3> HIDE DEF y
    <3> QED BY <3>7, <3>8
  <2> QED BY <2>3, <2>4
<1>5. Good = Nat
  <2> HIDE DEF Good
  <2> QED BY <1>3, <1>4, NatInductive DEF Good
<1>6. Cardinality(S) \in Good
  <2> HIDE DEF Good
  <2> QED BY <1>2, <1>5
<1>7. g[S] = f[a] + g[S \ {a}]
  BY <1>6
<1> HIDE DEF Good, Splits
<1> DEFINE T == S \ {a}
           h == [s \in SUBSET T |-> g[s]]
<1>8. Sums(h, f, T)
  BY <1>1 DEF Sums
<1>9. IsFiniteSet(T)
  BY <1>2
<1>10. Total(f, T) = h[T]
  <2> HIDE DEF h, T
  <2> QED BY <1>8, <1>9, TotalIs
<1>11. Total(f, S) = g[S]
  BY <1>1, TotalIs
<1>12. h[T] = g[S \ {a}] /\ g[S] \in Int /\ g[S \ {a}] \in Int
  BY <1>1 DEF Sums
<1> QED BY <1>7, <1>10, <1>11, <1>12

\* The same for sums over the indices of an interval.
LEMMA TotalGrows ==
  ASSUME NEW m \in Int, NEW n \in Int, m <= n, NEW f, \A i \in m..n : f[i] \in Int
  PROVE  /\ Total(f, m..n) = Total(f, m..(n - 1)) + f[n]
         /\ Total(f, m..(n - 1)) \in Int /\ Total(f, m..n) \in Int
<1>1. IsFiniteSet(m..n)
  BY FS_Interval
<1>2. n \in m..n /\ (m..n) \ {n} = m..(n - 1)
  OBVIOUS
<1>3. /\ Total(f, m..n) = f[n] + Total(f, (m..n) \ {n})
      /\ Total(f, m..n) \in Int /\ Total(f, (m..n) \ {n}) \in Int
  BY <1>1, <1>2, TotalSplits
<1> DEFINE t == Total(f, m..(n - 1))
<1>4. Total(f, m..n) = f[n] + t /\ t \in Int /\ f[n] \in Int
  BY <1>2, <1>3
<1> HIDE DEF t
<1>5. Total(f, m..n) = t + f[n] /\ Total(f, m..n) \in Int
  BY <1>4
<1> QED BY <1>4, <1>5 DEF t

LEMMA TotalIsInt ==
  ASSUME NEW S, IsFiniteSet(S), NEW f, \A i \in S : f[i] \in Int
  PROVE  Total(f, S) \in Int
<1>1. PICK g : Sums(g, f, S)
  BY SumsExist
<1>2. Total(f, S) = g[S]
  BY <1>1, TotalIs
<1> QED BY <1>1, <1>2 DEF Sums

\* Sums of natural numbers are natural.
LEMMA TotalIsNat ==
  ASSUME NEW S, IsFiniteSet(S), NEW f, \A i \in S : f[i] \in Nat
  PROVE  Total(f, S) \in Nat
<1> DEFINE c == [s \in SUBSET S |-> Some(s)]
           step == [i \in S |-> [v \in Nat |-> f[i] + v]]
           V == Nat
<1>1. Chooses(c, S)
  BY DEF Chooses, Some
<1>2. step \in [S -> [V -> V]] /\ 0 \in V
  OBVIOUS
<1>3. \A s \in SUBSET S : s # {} => c[s] \in S /\ c[s] = Some(s)
  BY <1>1 DEF Chooses
<1>4. \A i \in S, v \in Nat : step[i][v] = f[i] + v
  OBVIOUS
<1> HIDE DEF c, step
<1>5. PICK g \in [SUBSET S -> Nat] : FoldOf(g, S, 0, c, step)
  <2> HIDE DEF V
  <2>1. \E g \in [SUBSET S -> V] : FoldOf(g, S, 0, c, step)
    BY <1>1, <1>2, FoldExists
  <2> QED BY <2>1 DEF V
<1>6. ASSUME NEW s \in SUBSET S
      PROVE  g[s] = IF s = {} THEN 0 ELSE f[Some(s)] + g[s \ {Some(s)}]
  <2>1. CASE s = {}
    BY <1>5, <2>1 DEF FoldOf
  <2>2. CASE s # {}
    <3>1. g[s] = step[c[s]][g[s \ {c[s]}]] /\ g[s \ {c[s]}] \in Nat
      BY <1>5, <2>2 DEF FoldOf
    <3> QED BY <1>3, <1>4, <2>2, <3>1
  <2> QED BY <2>1, <2>2
<1>7. g \in [SUBSET S -> Int]
  OBVIOUS
<1>8. Sums(g, f, S)
  BY <1>6, <1>7 DEF Sums
<1>9. Total(f, S) = g[S]
  BY <1>8, TotalIs
<1> QED BY <1>9

\* The sums of Indicators, each as a sum of a function.
LEMMA PriceTotal ==
  ASSUME NEW S, IsFiniteSet(S), NEW r, NEW f, \A i \in S : f[i] = r[i].price /\ f[i] \in Int
  PROVE  MapThenSumSet(LAMBDA i : r[i].price, S) = Total(f, S)
<1>1. PICK g : Sums(g, f, S)
  BY SumsExist
<1> DEFINE Solves(h) == h = [s \in SUBSET S |->
                              IF s = {} THEN 0
                              ELSE r[CHOOSE x \in s : TRUE].price + h[s \ {CHOOSE x \in s : TRUE}]]
           it == CHOOSE h : Solves(h)
<1>2. MapThenSumSet(LAMBDA i : r[i].price, S) = it[S]
  BY DEF MapThenSumSet, MapThenFoldSet
<1>3. \A s \in SUBSET S : s # {} => f[CHOOSE x \in s : TRUE] = r[CHOOSE x \in s : TRUE].price
  OBVIOUS
<1>4. Solves(g)
  BY <1>1, <1>3 DEF Sums, Some
<1>5. Solves(it)
  <2> HIDE DEF Solves
  <2> QED BY <1>4
<1>6. Adds(it, f, S)
  <2> HIDE DEF it
  <2> QED BY <1>3, <1>5 DEF Some, Adds
<1> HIDE DEF it
<1>7. g[S] = it[S]
  BY <1>1, <1>6, SumsAgree
<1> QED BY <1>1, <1>2, <1>7, TotalIs

LEMMA VolumeTotal ==
  ASSUME NEW S, IsFiniteSet(S), NEW r, NEW f, \A i \in S : f[i] = r[i].volume /\ f[i] \in Int
  PROVE  MapThenSumSet(LAMBDA i : r[i].volume, S) = Total(f, S)
<1>1. PICK g : Sums(g, f, S)
  BY SumsExist
<1> DEFINE Solves(h) == h = [s \in SUBSET S |->
                              IF s = {} THEN 0
                              ELSE r[CHOOSE x \in s : TRUE].volume + h[s \ {CHOOSE x \in s : TRUE}]]
           it == CHOOSE h : Solves(h)
<1>2. MapThenSumSet(LAMBDA i : r[i].volume, S) = it[S]
  BY DEF MapThenSumSet, MapThenFoldSet
<1>3. \A s \in SUBSET S : s # {} => f[CHOOSE x \in s : TRUE] = r[CHOOSE x \in s : TRUE].volume
  OBVIOUS
<1>4. Solves(g)
  BY <1>1, <1>3 DEF Sums, Some
<1>5. Solves(it)
  <2> HIDE DEF Solves
  <2> QED BY <1>4
<1>6. Adds(it, f, S)
  <2> HIDE DEF it
  <2> QED BY <1>3, <1>5 DEF Some, Adds
<1> HIDE DEF it
<1>7. g[S] = it[S]
  BY <1>1, <1>6, SumsAgree
<1> QED BY <1>1, <1>2, <1>7, TotalIs

LEMMA ValueTotal ==
  ASSUME NEW S, IsFiniteSet(S), NEW r, NEW f, \A i \in S : f[i] = r[i].price * r[i].volume /\ f[i] \in Int
  PROVE  MapThenSumSet(LAMBDA i : r[i].price * r[i].volume, S) = Total(f, S)
<1>1. PICK g : Sums(g, f, S)
  BY SumsExist
<1> DEFINE Solves(h) == h = [s \in SUBSET S |->
                              IF s = {} THEN 0
                              ELSE (r[CHOOSE x \in s : TRUE].price * r[CHOOSE x \in s : TRUE].volume) + h[s \ {CHOOSE x \in s : TRUE}]]
           it == CHOOSE h : Solves(h)
<1>2. MapThenSumSet(LAMBDA i : r[i].price * r[i].volume, S) = it[S]
  BY DEF MapThenSumSet, MapThenFoldSet
<1>3. \A s \in SUBSET S : s # {} => f[CHOOSE x \in s : TRUE] = r[CHOOSE x \in s : TRUE].price * r[CHOOSE x \in s : TRUE].volume
  OBVIOUS
<1>4. Solves(g)
  BY <1>1, <1>3 DEF Sums, Some
<1>5. Solves(it)
  <2> HIDE DEF Solves
  <2> QED BY <1>4
<1>6. Adds(it, f, S)
  <2> HIDE DEF it
  <2> QED BY <1>3, <1>5 DEF Some, Adds
<1> HIDE DEF it
<1>7. g[S] = it[S]
  BY <1>1, <1>6, SumsAgree
<1> QED BY <1>1, <1>2, <1>7, TotalIs

LEMMA GainTotal ==
  ASSUME NEW S, IsFiniteSet(S), NEW r, NEW f, \A i \in S : f[i] = Gain(r, i) /\ f[i] \in Int
  PROVE  MapThenSumSet(LAMBDA i : Gain(r, i), S) = Total(f, S)
<1>1. PICK g : Sums(g, f, S)
  BY SumsExist
<1> DEFINE Solves(h) == h = [s \in SUBSET S |->
                              IF s = {} THEN 0
                              ELSE Gain(r, CHOOSE x \in s : TRUE) + h[s \ {CHOOSE x \in s : TRUE}]]
           it == CHOOSE h : Solves(h)
<1>2. MapThenSumSet(LAMBDA i : Gain(r, i), S) = it[S]
  BY DEF MapThenSumSet, MapThenFoldSet
<1>3. \A s \in SUBSET S : s # {} => f[CHOOSE x \in s : TRUE] = Gain(r, CHOOSE x \in s : TRUE)
  OBVIOUS
<1>4. Solves(g)
  BY <1>1, <1>3 DEF Sums, Some
<1>5. Solves(it)
  <2> HIDE DEF Solves
  <2> QED BY <1>4
<1>6. Adds(it, f, S)
  <2> HIDE DEF it
  <2> QED BY <1>3, <1>5 DEF Some, Adds
<1> HIDE DEF it
<1>7. g[S] = it[S]
  BY <1>1, <1>6, SumsAgree
<1> QED BY <1>1, <1>2, <1>7, TotalIs

LEMMA LossTotal ==
  ASSUME NEW S, IsFiniteSet(S), NEW r, NEW f, \A i \in S : f[i] = Loss(r, i) /\ f[i] \in Int
  PROVE  MapThenSumSet(LAMBDA i : Loss(r, i), S) = Total(f, S)
<1>1. PICK g : Sums(g, f, S)
  BY SumsExist
<1> DEFINE Solves(h) == h = [s \in SUBSET S |->
                              IF s = {} THEN 0
                              ELSE Loss(r, CHOOSE x \in s : TRUE) + h[s \ {CHOOSE x \in s : TRUE}]]
           it == CHOOSE h : Solves(h)
<1>2. MapThenSumSet(LAMBDA i : Loss(r, i), S) = it[S]
  BY DEF MapThenSumSet, MapThenFoldSet
<1>3. \A s \in SUBSET S : s # {} => f[CHOOSE x \in s : TRUE] = Loss(r, CHOOSE x \in s : TRUE)
  OBVIOUS
<1>4. Solves(g)
  BY <1>1, <1>3 DEF Sums, Some
<1>5. Solves(it)
  <2> HIDE DEF Solves
  <2> QED BY <1>4
<1>6. Adds(it, f, S)
  <2> HIDE DEF it
  <2> QED BY <1>3, <1>5 DEF Some, Adds
<1> HIDE DEF it
<1>7. g[S] = it[S]
  BY <1>1, <1>6, SumsAgree
<1> QED BY <1>1, <1>2, <1>7, TotalIs
-----------------------------------------------------------------------------
(***************************************************************************)
(* Folds over sequences.                                                   *)
(***************************************************************************)
LEMMA MaxOfIndices ==
  ASSUME NEW n \in Nat, NEW s \in SUBSET (1..n), s # {}
  PROVE  Max(s) \in s /\ \A x \in s : x <= Max(s)
<1> DEFINE T == {n - x : x \in s}
<1>1. T \in SUBSET Nat /\ T # {}
  <2>1. ASSUME NEW x \in s PROVE n - x \in Nat
    <3>1. x \in 1..n
      OBVIOUS
    <3> QED BY <3>1
  <2>2. PICK x \in s : TRUE
    OBVIOUS
  <2> QED BY <2>1, <2>2
<1>2. IsWellFoundedOn(OpToRel(<, Nat), Nat)
  BY NatLessThanWellFounded
<1>3. PICK m \in T : \A y \in T : <<y, m>> \notin OpToRel(<, Nat)
  <2> HIDE DEF T
  <2> QED BY <1>1, <1>2, WFMin
<1>4. ASSUME NEW y \in T PROVE m <= y
  <2>1. <<y, m>> \in Nat \X Nat /\ <<y, m>>[1] = y /\ <<y, m>>[2] = m
    BY <1>1
  <2>2. ~(<<y, m>>[1] < <<y, m>>[2])
    BY <1>3, <2>1 DEF OpToRel
  <2> QED BY <1>1, <2>1, <2>2
<1>5. PICK a \in s : m = n - a
  OBVIOUS
<1>6. \A x \in s : a >= x
  <2> SUFFICES ASSUME NEW x \in s PROVE a >= x
    OBVIOUS
  <2>1. m <= n - x
    BY <1>4
  <2> QED BY <1>5, <2>1
<1>7. \E b \in s : \A x \in s : b >= x
  BY <1>6
<1>8. Max(s) \in s /\ \A x \in s : Max(s) >= x
  BY <1>7 DEF Max
<1> QED
  <2> DEFINE b == Max(s)
  <2>1. b \in s /\ \A x \in s : b >= x
    BY <1>8
  <2> HIDE DEF b
  <2>2. \A x \in s : x <= b
    BY <2>1
  <2> QED BY <2>1, <2>2 DEF b

\* FoldLeft takes the elements in the order of their indices.
ByIndex(n) == [s \in SUBSET (1..n) |-> Max(s)]

LEMMA ByIndexChooses ==
  ASSUME NEW n \in Nat
  PROVE  /\ Chooses(ByIndex(n), 1..n) /\ IsFiniteSet(1..n)
         /\ \A s \in SUBSET (1..n) : ByIndex(n)[s] = Max(s)
<1>1. \A s \in SUBSET (1..n) : ByIndex(n)[s] = Max(s)
  BY DEF ByIndex
<1>2. \A s \in SUBSET (1..n) : s # {} => Max(s) \in s
  BY MaxOfIndices
<1>3. Chooses(ByIndex(n), 1..n)
  BY <1>1, <1>2 DEF Chooses
<1> QED BY <1>1, <1>3, FS_Interval

\* g and h start alike, and agree where they agree one element earlier.
StepAlike(g, h, n) ==
  /\ g[{}] = h[{}]
  /\ \A s \in SUBSET (1..n) : s # {} /\ g[s \ {Max(s)}] = h[s \ {Max(s)}] => g[s] = h[s]

Alike(g, h, n) == \A s \in SUBSET (1..n) : g[s] = h[s]

LEMMA FoldLeftAgrees ==
  ASSUME NEW n \in Nat, NEW g, NEW h, StepAlike(g, h, n)
  PROVE  Alike(g, h, n)
<1>1. PICK D : D = 1..n
  OBVIOUS
<1>2. PICK c : Chooses(c, D) /\ \A s \in SUBSET D : c[s] = Max(s)
  BY <1>1, ByIndexChooses
<1>3. IsFiniteSet(D)
  BY <1>1, ByIndexChooses
<1>4. \A s \in SUBSET D : s # {} /\ g[s \ {c[s]}] = h[s \ {c[s]}] => g[s] = h[s]
  BY <1>1, <1>2 DEF StepAlike
<1>5. g[{}] = h[{}]
  BY DEF StepAlike
<1>6. \A s \in SUBSET D : g[s] = h[s]
  BY <1>2, <1>3, <1>4, <1>5, FoldAgree
<1> QED BY <1>1, <1>6 DEF Alike

TradeRecs == [entered : Int, exited : Int, side : {"BUY", "SELL"}, pnl : Int]
Pnls(ts) == [i \in 1..Len(ts) |-> ts[i].pnl]

LEMMA PnlStep ==
  ASSUME NEW ts \in Seq(TradeRecs), NEW s \in SUBSET (1..Len(ts)), s # {}
  PROVE  Total(Pnls(ts), s) = Total(Pnls(ts), s \ {Max(s)}) + ts[Max(s)].pnl
<1> DEFINE f == Pnls(ts)
<1>1. Max(s) \in s
  <2>1. Len(ts) \in Nat
    OBVIOUS
  <2> QED BY <2>1, MaxOfIndices
<1>2. IsFiniteSet(s)
  <2>1. IsFiniteSet(1..Len(ts))
    BY FS_Interval
  <2> QED BY <2>1, FS_Subset
<1>3. ASSUME NEW i \in s PROVE f[i] = ts[i].pnl /\ f[i] \in Int
  <2>1. ts[i] \in TradeRecs
    OBVIOUS
  <2> QED BY <2>1 DEF Pnls, TradeRecs
<1> HIDE DEF f
<1>4. /\ Total(f, s) = f[Max(s)] + Total(f, s \ {Max(s)}) /\ Total(f, s \ {Max(s)}) \in Int
  BY <1>1, <1>2, <1>3, TotalSplits
<1>5. f[Max(s)] = ts[Max(s)].pnl /\ f[Max(s)] \in Int
  BY <1>1, <1>3
<1>6. Total(f, s) = Total(f, s \ {Max(s)}) + ts[Max(s)].pnl
  BY <1>4, <1>5
<1> QED BY <1>6 DEF f

\* A fold that adds up profits computes this sum, whatever else it carries.
LEMMA PnlFold ==
  ASSUME NEW ts \in Seq(TradeRecs), NEW k, k[{}] = 0,
         \A s \in SUBSET (1..Len(ts)) : s # {} => k[s] = k[s \ {Max(s)}] + ts[Max(s)].pnl
  PROVE  k[1..Len(ts)] = Total(Pnls(ts), 1..Len(ts))
<1> DEFINE g == [s \in SUBSET (1..Len(ts)) |-> Total(Pnls(ts), s)]
<1>1. g[{}] = 0
  BY TotalEmpty
<1>2. PICK x : x = g
  OBVIOUS
<1>3. x[1..Len(ts)] = Total(Pnls(ts), 1..Len(ts))
  BY <1>2
<1>4. ASSUME NEW s \in SUBSET (1..Len(ts)), s # {}, x[s \ {Max(s)}] = k[s \ {Max(s)}]
      PROVE  x[s] = k[s]
  <2>1. x[s] = Total(Pnls(ts), s) /\ x[s \ {Max(s)}] = Total(Pnls(ts), s \ {Max(s)})
    BY <1>2
  <2> QED BY <1>4, <2>1, PnlStep
<1>5. \A s \in SUBSET (1..Len(ts)) :
        s # {} /\ x[s \ {Max(s)}] = k[s \ {Max(s)}] => x[s] = k[s]
  BY <1>4
<1>6. x[{}] = k[{}] /\ Len(ts) \in Nat
  BY <1>1, <1>2
<1>7. StepAlike(x, k, Len(ts))
  BY <1>5, <1>6 DEF StepAlike
<1>8. x[1..Len(ts)] = k[1..Len(ts)]
  BY <1>6, <1>7, FoldLeftAgrees DEF Alike
<1> QED BY <1>3, <1>8

LEMMA SumPnlIs ==
  ASSUME NEW ts \in Seq(TradeRecs)
  PROVE  SumPnl(ts) = Total(Pnls(ts), 1..Len(ts))
<1> DEFINE D == 1..Len(ts)
           g == [s \in SUBSET D |-> Total(Pnls(ts), s)]
           it == CHOOSE h : h = [s \in SUBSET D |->
                                   IF s = {} THEN 0 ELSE h[s \ {Max(s)}] + ts[Max(s)].pnl]
<1>1. DOMAIN ts = D
  OBVIOUS
<1>2. SumPnl(ts) = it[D]
  <2>1. SumPnl(ts) = (CHOOSE h : h = [s \in SUBSET (DOMAIN ts) |->
                        IF s = {} THEN 0 ELSE h[s \ {Max(s)}] + ts[Max(s)].pnl])[DOMAIN ts]
    BY DEF SumPnl, FoldLeft, MapThenFoldSet
  <2> HIDE DEF D
  <2> QED BY <1>1, <2>1
<1>3. ASSUME NEW s \in SUBSET D, s # {}
      PROVE  g[s] = g[s \ {Max(s)}] + ts[Max(s)].pnl
  BY <1>3, PnlStep
<1>4. g[{}] = 0
  BY TotalEmpty
<1>5. g = [s \in SUBSET D |-> IF s = {} THEN 0 ELSE g[s \ {Max(s)}] + ts[Max(s)].pnl]
  <2>1. g = [s \in SUBSET D |-> g[s]]
    OBVIOUS
  <2> HIDE DEF g, D
  <2>2. \A s \in SUBSET D : g[s] = IF s = {} THEN 0 ELSE g[s \ {Max(s)}] + ts[Max(s)].pnl
    BY <1>3, <1>4
  <2> QED BY <2>1, <2>2
<1> HIDE DEF g
<1>6. it = [s \in SUBSET D |-> IF s = {} THEN 0 ELSE it[s \ {Max(s)}] + ts[Max(s)].pnl]
  BY <1>5
<1>7. PICK k : k = it
  OBVIOUS
<1> HIDE DEF it
<1>8. k[{}] = 0 /\ \A s \in SUBSET D : s # {} => k[s] = k[s \ {Max(s)}] + ts[Max(s)].pnl
  BY <1>6, <1>7
<1>9. k[D] = Total(Pnls(ts), D)
  BY <1>8, PnlFold
<1> QED BY <1>2, <1>7, <1>9

LEMMA SumPnlEmpty == SumPnl(<< >>) = 0
<1>1. << >> \in Seq(TradeRecs) /\ Len(<< >>) = 0 /\ 1..0 = {}
  OBVIOUS
<1> QED BY <1>1, SumPnlIs, TotalEmpty

LEMMA SumPnlAppend ==
  ASSUME NEW ts \in Seq(TradeRecs), NEW t \in TradeRecs
  PROVE  /\ SumPnl(Append(ts, t)) = SumPnl(ts) + t.pnl
         /\ SumPnl(ts) \in Int /\ SumPnl(Append(ts, t)) \in Int
<1> DEFINE n == Len(ts)
<1>1. PICK us : us = Append(ts, t)
  OBVIOUS
<1>2. /\ us \in Seq(TradeRecs) /\ Len(us) = n + 1 /\ n \in Nat
      /\ us[n + 1] = t /\ \A i \in 1..n : us[i] = ts[i]
  BY <1>1
<1>3. \A i \in 1..(n + 1) : Pnls(us)[i] = us[i].pnl /\ Pnls(us)[i] \in Int
  <2>1. ASSUME NEW i \in 1..(n + 1) PROVE us[i] \in TradeRecs
    BY <1>2
  <2> QED BY <1>2, <2>1 DEF Pnls, TradeRecs
<1>4. /\ Total(Pnls(us), 1..(n + 1)) = Total(Pnls(us), 1..((n + 1) - 1)) + Pnls(us)[n + 1]
      /\ Total(Pnls(us), 1..((n + 1) - 1)) \in Int /\ Total(Pnls(us), 1..(n + 1)) \in Int
  <2>1. 1 <= n + 1 /\ n + 1 \in Int
    BY <1>2
  <2> HIDE DEF n
  <2> QED BY <1>3, <2>1, TotalGrows
<1>5. (n + 1) - 1 = n /\ n + 1 \in 1..(n + 1)
  BY <1>2
<1>6. Total(Pnls(us), 1..n) = Total(Pnls(ts), 1..n)
  <2>1. ASSUME NEW i \in 1..n PROVE Pnls(us)[i] \in Int /\ Pnls(us)[i] = Pnls(ts)[i]
    <3>1. i \in 1..(n + 1) /\ us[i] = ts[i]
      BY <1>2
    <3>2. Pnls(ts)[i] = ts[i].pnl
      BY DEF Pnls
    <3> QED BY <1>3, <3>1, <3>2
  <2>2. IsFiniteSet(1..n)
    BY FS_Interval
  <2> HIDE DEF n
  <2> QED BY <2>1, <2>2, TotalAgrees
<1>7. SumPnl(us) = Total(Pnls(us), 1..(n + 1)) /\ SumPnl(ts) = Total(Pnls(ts), 1..n)
  BY <1>2, SumPnlIs
<1>8. Pnls(us)[n + 1] = t.pnl
  BY <1>2, <1>3, <1>5
<1> HIDE DEF n
<1>9. SumPnl(us) = SumPnl(ts) + t.pnl /\ SumPnl(ts) \in Int /\ SumPnl(us) \in Int
  BY <1>4, <1>5, <1>6, <1>7, <1>8
<1> QED BY <1>1, <1>9

\* What compute_metrics carries from trade to trade.
Tallies == [pnl : Int, peak : Int, wins : Int, losses : Int, streakW : Int, streakL : Int,
            maxW : Int, maxL : Int]

LEMMA TallyIs ==
  ASSUME NEW ts \in Seq(TradeRecs)
  PROVE  MetricsOf(ts).pnl = SumPnl(ts)
<1> DEFINE D == 1..Len(ts)
           step == [i \in D |-> [v \in Tallies |-> Account(v, ts[i])]]
           it == CHOOSE h : h = [s \in SUBSET D |-> IF s = {} THEN NoTrades
                                   ELSE Account(h[s \ {Max(s)}], ts[Max(s)])]
<1>1. DOMAIN ts = D /\ Len(ts) \in Nat
  OBVIOUS
<1>2. MetricsOf(ts).pnl = it[D].pnl
  <2>1. FoldLeft(Account, NoTrades, ts) =
          (CHOOSE h : h = [s \in SUBSET (DOMAIN ts) |-> IF s = {} THEN NoTrades
                                   ELSE Account(h[s \ {Max(s)}], ts[Max(s)])])[DOMAIN ts]
    BY DEF FoldLeft, MapThenFoldSet
  <2> HIDE DEF D
  <2>2. FoldLeft(Account, NoTrades, ts) = it[D]
    BY <1>1, <2>1
  <2> HIDE DEF it
  <2> QED BY <2>2 DEF MetricsOf
<1>3. ASSUME NEW v \in Tallies, NEW t \in TradeRecs
      PROVE  Account(v, t) \in Tallies /\ Account(v, t).pnl = v.pnl + t.pnl
  BY DEF Account, Tallies, TradeRecs, Larger
<1>4. \A i \in D : ts[i] \in TradeRecs
  OBVIOUS
<1>5. /\ step \in [D -> [Tallies -> Tallies]]
      /\ \A i \in D, v \in Tallies : step[i][v] = Account(v, ts[i])
  BY <1>3, <1>4
<1>6. NoTrades \in Tallies /\ NoTrades.pnl = 0
  BY DEF NoTrades, Tallies
<1>7. PICK c : /\ Chooses(c, D) /\ IsFiniteSet(D)
               /\ \A s \in SUBSET D : c[s] = Max(s) /\ (s # {} => Max(s) \in s)
  BY <1>1, ByIndexChooses, MaxOfIndices
<1> HIDE DEF D, step
<1>8. PICK g \in [SUBSET D -> Tallies] : FoldOf(g, D, NoTrades, c, step)
  BY <1>5, <1>6, <1>7, FoldExists
<1>9. ASSUME NEW s \in SUBSET D, s # {}
      PROVE  g[s] = Account(g[s \ {Max(s)}], ts[Max(s)])
  <2>1. g[s] = step[c[s]][g[s \ {c[s]}]] /\ c[s] = Max(s) /\ Max(s) \in D
    BY <1>7, <1>8, <1>9 DEF FoldOf
  <2>2. g[s \ {Max(s)}] \in Tallies
    OBVIOUS
  <2> QED BY <1>5, <2>1, <2>2
<1>10. g[{}] = NoTrades
  BY <1>8 DEF FoldOf
<1>11. g = [s \in SUBSET D |-> IF s = {} THEN NoTrades
                                   ELSE Account(g[s \ {Max(s)}], ts[Max(s)])]
  <2>1. g = [s \in SUBSET D |-> g[s]]
    OBVIOUS
  <2>2. \A s \in SUBSET D : g[s] = IF s = {} THEN NoTrades
                                   ELSE Account(g[s \ {Max(s)}], ts[Max(s)])
    BY <1>9, <1>10
  <2> QED BY <2>1, <2>2
<1>12. it = [s \in SUBSET D |-> IF s = {} THEN NoTrades
                                   ELSE Account(it[s \ {Max(s)}], ts[Max(s)])]
  BY <1>11
<1>13. PICK k : k = [s \in SUBSET D |-> it[s].pnl]
  OBVIOUS
<1> HIDE DEF it
<1>14. \A s \in SUBSET D : it[s] = g[s]
  <2>1. PICK x : x = it
    OBVIOUS
  <2>2. g[{}] = x[{}]
    BY <1>10, <1>12, <2>1
  <2>3. ASSUME NEW s \in SUBSET D, s # {}, g[s \ {c[s]}] = x[s \ {c[s]}] PROVE g[s] = x[s]
    <3>1. x[s] = Account(x[s \ {Max(s)}], ts[Max(s)])
      BY <1>12, <2>1, <2>3
    <3> QED BY <1>7, <1>9, <2>3, <3>1
  <2>5. StepAlike(g, x, Len(ts))
    BY <1>7, <2>2, <2>3 DEF D, StepAlike
  <2>6. Alike(g, x, Len(ts))
    BY <1>1, <2>5, FoldLeftAgrees
  <2> QED BY <2>1, <2>6 DEF D, Alike
<1>15. ASSUME NEW s \in SUBSET D, s # {}
       PROVE  k[s] = k[s \ {Max(s)}] + ts[Max(s)].pnl
  <2>1. g[s] = Account(g[s \ {Max(s)}], ts[Max(s)]) /\ Max(s) \in D
    BY <1>7, <1>9, <1>15
  <2>2. g[s].pnl = g[s \ {Max(s)}].pnl + ts[Max(s)].pnl
    BY <1>3, <1>4, <2>1 DEF D
  <2> QED BY <1>13, <1>14, <2>2
<1>16. k[{}] = 0
  BY <1>6, <1>10, <1>13, <1>14
<1>17. k[D] = Total(Pnls(ts), D)
  BY <1>15, <1>16, PnlFold DEF D
<1>18. k[D] = it[D].pnl
  BY <1>13
<1>19. SumPnl(ts) = Total(Pnls(ts), D)
  BY SumPnlIs DEF D
<1> QED BY <1>2, <1>17, <1>18, <1>19

\* load_csv makes a bar of every row or merges it into the last one.
RsiRecs == [num : Int, den : Int]
RowRecs == [interval : Nat, price : Nat, volume : Nat, vwap : Int, rsi : RsiRecs]
BarRecs == [interval : Nat, close : Nat, above : BOOLEAN, rsi : RsiRecs, volume : Nat]

LEMMA AggregateType ==
  ASSUME NEW all \in Seq(BarRecs), NEW row \in RowRecs
  PROVE  Aggregate(all, row) \in Seq(BarRecs)
<1>1. BarOf(row) \in BarRecs
  BY DEF BarOf, BarRecs, RowRecs
<1>2. CASE all # << >> /\ Last(all).interval = row.interval
  <2>1. Len(all) \in 1..Len(all) /\ Last(all) \in BarRecs
    BY <1>2 DEF Last
  <2>2. [BarOf(row) EXCEPT !.volume = @ + Last(all).volume] \in BarRecs
    <3>1. BarOf(row).volume \in Nat /\ Last(all).volume \in Nat
      BY <1>1, <2>1 DEF BarRecs
    <3>2. BarOf(row).volume + Last(all).volume \in Nat
      BY <3>1
    <3> QED BY <1>1, <3>2 DEF BarRecs
  <2> DEFINE b == [BarOf(row) EXCEPT !.volume = @ + Last(all).volume]
  <2>3. Aggregate(all, row) = [all EXCEPT ![Len(all)] = b]
    BY <1>2 DEF Aggregate
  <2> HIDE DEF b
  <2>4. b \in BarRecs
    BY <2>2 DEF b
  <2> QED BY <2>1, <2>3, <2>4
<1>3. CASE ~(all # << >> /\ Last(all).interval = row.interval)
  <2>1. Aggregate(all, row) = Append(all, BarOf(row))
    BY <1>3 DEF Aggregate
  <2> QED BY <1>1, <2>1
<1> QED BY <1>2, <1>3

LEMMA AllBarsType ==
  ASSUME NEW rs \in Seq(RowRecs)
  PROVE  AllBars(rs) \in Seq(BarRecs)
<1> DEFINE D == 1..Len(rs)
           V == Seq(BarRecs)
           step == [i \in D |-> [v \in V |-> Aggregate(v, rs[i])]]
           it == CHOOSE h : h = [s \in SUBSET D |-> IF s = {} THEN << >>
                                   ELSE Aggregate(h[s \ {Max(s)}], rs[Max(s)])]
<1>1. DOMAIN rs = D /\ Len(rs) \in Nat
  OBVIOUS
<1>2. AllBars(rs) = it[D]
  <2>1. FoldLeft(Aggregate, << >>, rs) =
          (CHOOSE h : h = [s \in SUBSET (DOMAIN rs) |-> IF s = {} THEN << >>
                             ELSE Aggregate(h[s \ {Max(s)}], rs[Max(s)])])[DOMAIN rs]
    BY DEF FoldLeft, MapThenFoldSet
  <2> HIDE DEF D
  <2>2. FoldLeft(Aggregate, << >>, rs) = it[D]
    BY <1>1, <2>1
  <2> HIDE DEF it
  <2> QED BY <2>2 DEF AllBars
<1>3. \A i \in D : rs[i] \in RowRecs
  OBVIOUS
<1>4. /\ step \in [D -> [V -> V]]
      /\ \A i \in D, v \in V : step[i][v] = Aggregate(v, rs[i])
  BY <1>3, AggregateType
<1>5. << >> \in V
  OBVIOUS
<1>6. PICK c : /\ Chooses(c, D) /\ IsFiniteSet(D)
               /\ \A s \in SUBSET D : c[s] = Max(s) /\ (s # {} => Max(s) \in s)
  BY <1>1, ByIndexChooses, MaxOfIndices
<1> HIDE DEF D, step, V
<1>7. PICK g \in [SUBSET D -> V] : FoldOf(g, D, << >>, c, step)
  BY <1>4, <1>5, <1>6, FoldExists
<1>8. ASSUME NEW s \in SUBSET D, s # {}
      PROVE  g[s] = Aggregate(g[s \ {Max(s)}], rs[Max(s)])
  <2>1. g[s] = step[c[s]][g[s \ {c[s]}]] /\ c[s] = Max(s) /\ Max(s) \in D
    BY <1>6, <1>7, <1>8 DEF FoldOf
  <2>2. g[s \ {Max(s)}] \in V
    OBVIOUS
  <2> QED BY <1>4, <2>1, <2>2
<1>9. g[{}] = << >>
  BY <1>7 DEF FoldOf
<1>10. g = [s \in SUBSET D |-> IF s = {} THEN << >>
                                  ELSE Aggregate(g[s \ {Max(s)}], rs[Max(s)])]
  <2>1. g = [s \in SUBSET D |-> g[s]]
    OBVIOUS
  <2>2. \A s \in SUBSET D : g[s] = IF s = {} THEN << >>
                                  ELSE Aggregate(g[s \ {Max(s)}], rs[Max(s)])
    BY <1>8, <1>9
  <2> QED BY <2>1, <2>2
<1>11. it = [s \in SUBSET D |-> IF s = {} THEN << >>
                                  ELSE Aggregate(it[s \ {Max(s)}], rs[Max(s)])]
  BY <1>10
<1> HIDE DEF it
<1>12. it[D] = g[D]
  <2>1. PICK x : x = it
    OBVIOUS
  <2>2. g[{}] = x[{}]
    BY <1>9, <1>11, <2>1
  <2>3. ASSUME NEW s \in SUBSET D, s # {}, g[s \ {Max(s)}] = x[s \ {Max(s)}] PROVE g[s] = x[s]
    <3>1. x[s] = Aggregate(x[s \ {Max(s)}], rs[Max(s)])
      BY <1>11, <2>1, <2>3
    <3> QED BY <1>8, <2>3, <3>1
  <2>4. StepAlike(g, x, Len(rs))
    BY <2>2, <2>3 DEF D, StepAlike
  <2>5. Alike(g, x, Len(rs))
    BY <1>1, <2>4, FoldLeftAgrees
  <2> QED BY <2>1, <2>5 DEF D, Alike
<1> QED BY <1>2, <1>12 DEF V

LEMMA BarsOfType ==
  ASSUME NEW rs \in Seq(RowRecs)
  PROVE  BarsOf(rs) \in Seq(BarRecs)
<1> DEFINE all == AllBars(rs)
<1>1. all \in Seq(BarRecs)
  BY AllBarsType
<1>2. BarsOf(rs) = all \/ (all # << >> /\ BarsOf(rs) = Front(all))
  BY DEF BarsOf
<1> HIDE DEF all
<1>3. CASE all # << >>
  <2>1. Front(all) \in Seq(BarRecs)
    <3>1. Len(all) - 1 \in 0..Len(all)
      BY <1>1, <1>3
    <3> QED BY <1>1, <3>1 DEF Front
  <2> QED BY <1>1, <1>2, <2>1
<1> QED BY <1>1, <1>2, <1>3
-----------------------------------------------------------------------------
(***************************************************************************)
(* The inductive invariant of a session.                                   *)
(***************************************************************************)
Samples == [price : TradePrices, volume : Nat]
Records == [at : Nat, signal : {"BUY", "SELL"}, crossing : BOOLEAN]

\* Quantities and values of the first n samples of s.
VolumesIn(s, n) == Total([i \in 1..n |-> s[i].volume], 1..n)
ValuesIn(s, n) == Total([i \in 1..n |-> s[i].price * s[i].volume], 1..n)

\* The buffer holds the first samples, as many as it can.
RingInv ==
  /\ feed \in Seq(Samples) /\ ring \in Seq(Samples)
  /\ Len(ring) = IF Len(feed) < MaxSamples THEN Len(feed) ELSE MaxSamples
  /\ \A i \in 1..Len(ring) : ring[i] = feed[i]

\* What is kept as a running value is what the samples say.
SumInv ==
  /\ sumV = VolumesIn(feed, Len(feed)) /\ sumV \in Nat
  /\ sumPV = ValuesIn(feed, Len(feed)) /\ sumPV \in Nat
  /\ sma = Sma(ring)
  /\ rsi = Rsi(ring)

GenInv ==
  /\ gen.above \in BOOLEAN
  /\ gen.fed = (feed # << >>)
  /\ feed # << >> => gen.low = IsLow(rsi) /\ gen.high = IsHigh(rsi)

\* After a crossing and no later signal the generator is on the side the crossing
\* led to.
SignalInv ==
  /\ signals \in Seq(Records)
  /\ signals # << >> => feed # << >>
  /\ CrossingsAlternate
  /\ signals # << >> /\ signals[Len(signals)].crossing =>
       signals[Len(signals)].signal = IF gen.above THEN "BUY" ELSE "SELL"

\* Row k is what was printed of the sample k * RowEvery.
RowOf(k) ==
  LET n == k * RowEvery
  IN  /\ n \in 1..Len(feed)
      /\ VolumesIn(feed, n) \in Nat /\ ValuesIn(feed, n) \in Nat
      /\ rows[k].price = feed[n].price
      /\ rows[k].vwap = PrintedVwap(ValuesIn(feed, n), VolumesIn(feed, n))

RowInv ==
  /\ rows \in Seq(RowRecs)
  /\ Len(rows) = Len(feed) \div RowEvery
  /\ \A k \in 1..Len(rows) : RowOf(k)

LiveInv == RingInv /\ SumInv /\ GenInv /\ SignalInv /\ RowInv

LEMMA InitLiveInv == LiveInit => LiveInv
<1> SUFFICES ASSUME LiveInit PROVE LiveInv
  OBVIOUS
<1>1. feed = << >> /\ ring = << >> /\ rows = << >> /\ signals = << >>
  BY DEF LiveInit
<1>2. Len(feed) = 0 /\ Len(ring) = 0 /\ Len(rows) = 0 /\ Len(signals) = 0 /\ 1..0 = {}
  BY <1>1
<1>3. RingInv
  BY <1>1, <1>2, IndicatorsAssumption DEF RingInv
<1>4. VolumesIn(feed, 0) = 0 /\ ValuesIn(feed, 0) = 0
  BY <1>2, TotalEmpty DEF VolumesIn, ValuesIn
<1>5. Sma(ring) = 0 /\ Rsi(ring) = Neutral
  BY <1>2, IndicatorsAssumption DEF Sma, Rsi
<1>6. SumInv
  BY <1>2, <1>4, <1>5 DEF SumInv, LiveInit
<1>7. GenInv
  BY <1>1 DEF GenInv, LiveInit, NewGenerator
<1>8. SignalInv
  <2>1. 2..0 = {} /\ signals \in Seq(Records)
    BY <1>1
  <2> QED BY <1>1, <1>2, <2>1 DEF SignalInv, CrossingsAlternate
<1>9. 0 \div RowEvery = 0
  BY IndicatorsAssumption
<1>10. RowInv
  BY <1>1, <1>2, <1>9 DEF RowInv
<1> QED BY <1>3, <1>6, <1>7, <1>8, <1>10 DEF LiveInv

\* One sample more.
LEMMA Appends ==
  ASSUME NEW T, NEW s \in Seq(T), NEW x \in T
  PROVE  /\ Append(s, x) \in Seq(T)
         /\ Len(Append(s, x)) = Len(s) + 1 /\ Len(s) \in Nat
         /\ \A i \in 1..Len(s) : Append(s, x)[i] = s[i]
         /\ Append(s, x)[Len(s) + 1] = x
OBVIOUS

LEMMA SampleRing ==
  ASSUME RingInv, NEW price \in TradePrices, NEW volume \in Volume, NEW interval,
         Sample(price, volume, interval)
  PROVE  /\ RingInv'
         /\ Len(feed') = Len(feed) + 1 /\ Len(feed) \in Nat
         /\ \A i \in 1..Len(feed) : feed'[i] = feed[i]
         /\ feed'[Len(feed) + 1] = [price |-> price, volume |-> volume]
         /\ price \in Nat \ {0} /\ volume \in Nat
<1> DEFINE x == [price |-> price, volume |-> volume]
<1>1. price \in Nat \ {0} /\ volume \in Nat
  BY IndicatorsAssumption DEF Volume
<1>2. x \in Samples
  BY <1>1 DEF Samples
<1>3. feed' = Append(feed, x) /\ ring' = Push(ring, x)
  BY DEF Sample
<1> HIDE DEF x
<1>4. /\ feed' \in Seq(Samples) /\ Len(feed') = Len(feed) + 1 /\ Len(feed) \in Nat
      /\ \A i \in 1..Len(feed) : feed'[i] = feed[i]
      /\ feed'[Len(feed) + 1] = x
  BY <1>2, <1>3, Appends DEF RingInv
<1>5. RingInv'
  <2>1. CASE Len(ring) < MaxSamples
    <3>1. /\ ring' \in Seq(Samples) /\ Len(ring') = Len(ring) + 1 /\ Len(ring) \in Nat
          /\ \A i \in 1..Len(ring) : ring'[i] = ring[i]
          /\ ring'[Len(ring) + 1] = x
      BY <1>2, <1>3, <2>1, Appends DEF RingInv, Push
    <3>2. Len(ring) = Len(feed)
      BY <1>4, <2>1, IndicatorsAssumption DEF RingInv
    <3>3. \A i \in 1..Len(ring') : ring'[i] = feed'[i]
      <4> SUFFICES ASSUME NEW i \in 1..Len(ring') PROVE ring'[i] = feed'[i]
        OBVIOUS
      <4>1. CASE i = Len(ring) + 1
        BY <1>4, <3>1, <3>2, <4>1
      <4>2. CASE i # Len(ring) + 1
        <5>1. i \in 1..Len(ring)
          BY <3>1, <4>2
        <5> QED BY <1>4, <3>1, <3>2, <5>1 DEF RingInv
      <4> QED BY <4>1, <4>2
    <3>4. Len(ring') = IF Len(feed') < MaxSamples THEN Len(feed') ELSE MaxSamples
      BY <1>4, <2>1, <3>1, <3>2, IndicatorsAssumption
    <3> QED BY <1>4, <3>1, <3>3, <3>4 DEF RingInv
  <2>2. CASE ~(Len(ring) < MaxSamples)
    <3>1. ring' = ring
      BY <1>3, <2>2 DEF Push
    <3>2. Len(ring) = MaxSamples /\ ~(Len(feed) < MaxSamples)
      BY <1>4, <2>2, IndicatorsAssumption DEF RingInv
    <3>3. ~(Len(feed') < MaxSamples) /\ Len(ring) <= Len(feed)
      BY <1>4, <3>2, IndicatorsAssumption
    <3>4. \A i \in 1..Len(ring) : feed'[i] = feed[i]
      BY <1>4, <3>2, <3>3, IndicatorsAssumption
    <3> QED BY <1>4, <3>1, <3>2, <3>3, <3>4 DEF RingInv
  <2> QED BY <2>1, <2>2
<1> QED BY <1>1, <1>4, <1>5 DEF x

\* Sums over a prefix know nothing of what follows it.
LEMMA PrefixSums ==
  ASSUME NEW s \in Seq(Samples), NEW t \in Seq(Samples), NEW n \in 0..Len(s), n <= Len(t),
         \A i \in 1..n : t[i] = s[i]
  PROVE  /\ VolumesIn(t, n) = VolumesIn(s, n) /\ VolumesIn(s, n) \in Nat
         /\ ValuesIn(t, n) = ValuesIn(s, n) /\ ValuesIn(s, n) \in Nat
<1>1. IsFiniteSet(1..n)
  BY FS_Interval
<1>2. ASSUME NEW i \in 1..n PROVE s[i].price \in Nat /\ s[i].volume \in Nat
  <2>1. s[i] \in Samples
    OBVIOUS
  <2> QED BY <2>1, IndicatorsAssumption DEF Samples
<1>3. ASSUME NEW i \in 1..n PROVE s[i].price * s[i].volume \in Nat
  <2> DEFINE a == s[i].price
             b == s[i].volume
  <2>1. a \in Nat /\ b \in Nat
    BY <1>2
  <2> HIDE DEF a, b
  <2>2. a * b \in Nat
    BY <2>1
  <2> QED BY <2>2 DEF a, b
<1>4. PICK D : D = 1..n
  OBVIOUS
<1>5. VolumesIn(t, n) = VolumesIn(s, n) /\ VolumesIn(s, n) \in Nat
  <2> DEFINE f == [i \in D |-> s[i].volume]
             h == [i \in D |-> t[i].volume]
  <2>1. \A i \in D : f[i] \in Nat /\ f[i] \in Int /\ f[i] = h[i]
    BY <1>2, <1>4
  <2> HIDE DEF f, h
  <2>2. Total(f, D) = Total(h, D) /\ Total(f, D) \in Nat
    BY <1>1, <1>4, <2>1, TotalAgrees, TotalIsNat
  <2> QED BY <1>4, <2>2 DEF VolumesIn, f, h
<1>6. ValuesIn(t, n) = ValuesIn(s, n) /\ ValuesIn(s, n) \in Nat
  <2> DEFINE f == [i \in D |-> s[i].price * s[i].volume]
             h == [i \in D |-> t[i].price * t[i].volume]
  <2>1. \A i \in D : f[i] \in Nat /\ f[i] \in Int
    BY <1>3, <1>4
  <2>2. \A i \in D : f[i] = h[i]
    BY <1>4
  <2> HIDE DEF f, h
  <2>3. Total(f, D) = Total(h, D) /\ Total(f, D) \in Nat
    BY <1>1, <1>4, <2>1, <2>2, TotalAgrees, TotalIsNat
  <2> QED BY <1>4, <2>3 DEF ValuesIn, f, h
<1> QED BY <1>5, <1>6

LEMMA NextSums ==
  ASSUME NEW s \in Seq(Samples), s # << >>, NEW n, n = Len(s)
  PROVE  /\ VolumesIn(s, n) = VolumesIn(s, n - 1) + s[n].volume
         /\ ValuesIn(s, n) = ValuesIn(s, n - 1) + s[n].price * s[n].volume
<1>1. n \in Nat \ {0} /\ 1 <= n /\ n \in Int /\ n \in 1..n /\ (1..(n - 1)) \subseteq 1..n
  OBVIOUS
<1>2. ASSUME NEW i \in 1..n
      PROVE  s[i].price \in Nat /\ s[i].volume \in Nat /\ s[i].price * s[i].volume \in Int
  <2> DEFINE a == s[i].price
             b == s[i].volume
  <2>1. s[i] \in Samples
    OBVIOUS
  <2>2. a \in Nat /\ b \in Nat
    BY <2>1, IndicatorsAssumption DEF Samples
  <2> HIDE DEF a, b
  <2>3. a * b \in Int
    BY <2>2
  <2> QED BY <2>2, <2>3 DEF a, b
<1>3. IsFiniteSet(1..(n - 1))
  BY <1>1, FS_Interval
<1>4. VolumesIn(s, n) = VolumesIn(s, n - 1) + s[n].volume
  <2> DEFINE f == [i \in 1..n |-> s[i].volume]
             h == [i \in 1..(n - 1) |-> s[i].volume]
  <2>1. \A i \in 1..n : f[i] \in Int
    BY <1>2
  <2>2. \A i \in 1..(n - 1) : f[i] \in Int /\ f[i] = h[i]
    BY <1>1, <1>2
  <2>3. f[n] = s[n].volume
    BY <1>1
  <2> HIDE DEF f, h
  <2>4. Total(f, 1..n) = Total(f, 1..(n - 1)) + f[n]
    BY <1>1, <2>1, TotalGrows
  <2>5. Total(f, 1..(n - 1)) = Total(h, 1..(n - 1))
    BY <1>3, <2>2, TotalAgrees
  <2>6. Total(f, 1..n) = Total(h, 1..(n - 1)) + s[n].volume
    BY <2>3, <2>4, <2>5
  <2> QED BY <2>6 DEF VolumesIn, f, h
<1>5. ValuesIn(s, n) = ValuesIn(s, n - 1) + s[n].price * s[n].volume
  <2> DEFINE f == [i \in 1..n |-> s[i].price * s[i].volume]
             h == [i \in 1..(n - 1) |-> s[i].price * s[i].volume]
  <2>1. \A i \in 1..n : f[i] \in Int
    BY <1>2
  <2>2. \A i \in 1..(n - 1) : f[i] = h[i]
    BY <1>1
  <2>3. f[n] = s[n].price * s[n].volume
    BY <1>1
  <2> HIDE DEF f, h
  <2>4. Total(f, 1..n) = Total(f, 1..(n - 1)) + f[n]
    BY <1>1, <2>1, TotalGrows
  <2>5. Total(f, 1..(n - 1)) = Total(h, 1..(n - 1))
    BY <1>1, <1>3, <2>1, <2>2, TotalAgrees
  <2>6. Total(f, 1..n) = Total(h, 1..(n - 1)) + s[n].price * s[n].volume
    BY <2>3, <2>4, <2>5
  <2> QED BY <2>6 DEF ValuesIn, f, h
<1> QED BY <1>4, <1>5

\* RSI is a fraction of naturals, and looks at the first RsiWindow + 1 samples only.
LEMMA StepTypes ==
  ASSUME NEW s \in Seq(Samples), Len(s) > RsiWindow, NEW i \in 1..RsiWindow
  PROVE  Gain(s, i) \in Nat /\ Loss(s, i) \in Nat
<1>1. i \in 1..Len(s) /\ i + 1 \in 1..Len(s)
  BY IndicatorsAssumption
<1>2. s[i] \in Samples /\ s[i + 1] \in Samples
  BY <1>1
<1>3. s[i].price \in Nat /\ s[i + 1].price \in Nat
  BY <1>2, IndicatorsAssumption DEF Samples
<1> QED BY <1>3 DEF Gain, Loss

LEMMA StepSums ==
  ASSUME NEW s \in Seq(Samples), Len(s) > RsiWindow
  PROVE  /\ Gains(s) = Total([i \in 1..RsiWindow |-> Gain(s, i)], 1..RsiWindow)
         /\ Losses(s) = Total([i \in 1..RsiWindow |-> Loss(s, i)], 1..RsiWindow)
         /\ Gains(s) \in Nat /\ Losses(s) \in Nat
<1> DEFINE D == 1..RsiWindow
           f == [i \in D |-> Gain(s, i)]
           h == [i \in D |-> Loss(s, i)]
<1>1. IsFiniteSet(D)
  BY FS_Interval, IndicatorsAssumption
<1>2. \A i \in D : f[i] = Gain(s, i) /\ f[i] \in Nat /\ f[i] \in Int
  BY StepTypes
<1>3. \A i \in D : h[i] = Loss(s, i) /\ h[i] \in Nat /\ h[i] \in Int
  BY StepTypes
<1> HIDE DEF D, f, h
<1>4. MapThenSumSet(LAMBDA i : Gain(s, i), D) = Total(f, D) /\ Total(f, D) \in Nat
  BY <1>1, <1>2, GainTotal, TotalIsNat
<1>5. MapThenSumSet(LAMBDA i : Loss(s, i), D) = Total(h, D) /\ Total(h, D) \in Nat
  BY <1>1, <1>3, LossTotal, TotalIsNat
<1> QED BY <1>4, <1>5 DEF Gains, Losses, D, f, h

LEMMA RsiType ==
  ASSUME NEW s \in Seq(Samples)
  PROVE  Rsi(s).num \in Nat /\ Rsi(s).den \in Nat \ {0}
<1>1. CASE Len(s) > RsiWindow
  <2>1. Gains(s) \in Nat /\ Losses(s) \in Nat
    BY <1>1, StepSums
  <2> QED BY <2>1 DEF Rsi, Neutral
<1>2. CASE ~(Len(s) > RsiWindow)
  <2>1. Len(s) <= RsiWindow
    BY <1>2, IndicatorsAssumption
  <2> QED BY <2>1 DEF Rsi, Neutral
<1> QED BY <1>1, <1>2

LEMMA SampleSums ==
  ASSUME RingInv, SumInv, NEW price \in TradePrices, NEW volume \in Volume, NEW interval,
         Sample(price, volume, interval)
  PROVE  SumInv'
<1> DEFINE n == Len(feed)
<1>1. /\ RingInv' /\ Len(feed') = n + 1 /\ n \in Nat
      /\ \A i \in 1..n : feed'[i] = feed[i]
      /\ feed'[n + 1] = [price |-> price, volume |-> volume]
      /\ price \in Nat \ {0} /\ volume \in Nat
  BY SampleRing
<1>2. feed \in Seq(Samples) /\ feed' \in Seq(Samples) /\ ring' \in Seq(Samples)
  BY <1>1 DEF RingInv
<1>3. /\ VolumesIn(feed', n) = VolumesIn(feed, n) /\ VolumesIn(feed, n) \in Nat
      /\ ValuesIn(feed', n) = ValuesIn(feed, n) /\ ValuesIn(feed, n) \in Nat
  <2>1. n \in 0..Len(feed) /\ n <= Len(feed')
    BY <1>1
  <2> HIDE DEF n
  <2> QED BY <1>1, <1>2, <2>1, PrefixSums
<1>4. /\ VolumesIn(feed', n + 1) = VolumesIn(feed', n) + volume
      /\ ValuesIn(feed', n + 1) = ValuesIn(feed', n) + price * volume
  <2>1. feed' # << >> /\ n + 1 = Len(feed') /\ (n + 1) - 1 = n
    BY <1>1, <1>2
  <2>2. feed'[n + 1].price = price /\ feed'[n + 1].volume = volume
    BY <1>1
  <2> HIDE DEF n
  <2> QED BY <1>2, <2>1, <2>2, NextSums
<1>5. sumPV' = sumPV + price * volume /\ sumV' = sumV + volume /\ sma' = Sma(ring')
      /\ rsi' = Rsi(ring')
  BY DEF Sample
<1>6. sumV = VolumesIn(feed, n) /\ sumPV = ValuesIn(feed, n)
  BY DEF SumInv
<1> HIDE DEF n
<1>7. sumV' = VolumesIn(feed', Len(feed')) /\ sumPV' = ValuesIn(feed', Len(feed'))
  BY <1>1, <1>3, <1>4, <1>5, <1>6
<1>8. price * volume \in Nat
  BY <1>1
<1>9. sumV' \in Nat /\ sumPV' \in Nat
  BY <1>1, <1>3, <1>5, <1>6, <1>8
<1> QED BY <1>5, <1>7, <1>9 DEF SumInv

LEMMA SampleGen ==
  ASSUME RingInv, NEW price \in TradePrices, NEW volume \in Volume, NEW interval,
         Sample(price, volume, interval)
  PROVE  /\ GenInv'
         /\ gen'.above = Input(price).above
<1>1. feed' # << >>
  <2>1. Len(feed') = Len(feed) + 1 /\ Len(feed) \in Nat
    BY SampleRing
  <2>2. Len(feed') # 0
    BY <2>1
  <2> QED BY <2>2
<1>2. gen' = [above |-> Input(price).above, low |-> IsLow(rsi'), high |-> IsHigh(rsi'),
              fed |-> TRUE]
  BY DEF Sample, Updated, Input
<1>3. Input(price).above \in BOOLEAN
  BY DEF Input, AboveVwap
<1> QED BY <1>1, <1>2, <1>3 DEF GenInv

\* Without a signal nothing was crossed; a crossing leads to the other side of VWAP.
LEMMA CrossingSides ==
  ASSUME NEW g, NEW in, in.above \in BOOLEAN, g.above \in BOOLEAN
  PROVE  /\ SignalOf(g, in) = "NONE" /\ g.fed => in.above = g.above
         /\ SignalOf(g, in) # "NONE" /\ ByCrossing(g, in) =>
              /\ SignalOf(g, in) = IF in.above THEN "BUY" ELSE "SELL"
              /\ in.above # g.above
<1>1. ASSUME SignalOf(g, in) = "NONE", g.fed PROVE in.above = g.above
  <2>1. ~CrossedDown(g, in) /\ ~CrossedUp(g, in)
    BY <1>1 DEF SignalOf
  <2> QED BY <1>1, <2>1 DEF CrossedUp, CrossedDown
<1>2. ASSUME SignalOf(g, in) # "NONE", ByCrossing(g, in)
      PROVE  /\ SignalOf(g, in) = IF in.above THEN "BUY" ELSE "SELL"
             /\ in.above # g.above
  <2>1. CASE SignalOf(g, in) = "SELL"
    <3>1. CrossedDown(g, in)
      BY <1>2, <2>1 DEF ByCrossing
    <3> QED BY <2>1, <3>1 DEF CrossedDown
  <2>2. CASE SignalOf(g, in) = "BUY"
    <3>1. CrossedUp(g, in)
      BY <1>2, <2>2 DEF ByCrossing
    <3> QED BY <2>2, <3>1 DEF CrossedUp
  <2> QED BY <1>2, <2>1, <2>2 DEF SignalOf
<1> QED BY <1>1, <1>2

LEMMA SampleSignals ==
  ASSUME LiveInv, NEW price \in TradePrices, NEW volume \in Volume, NEW interval,
         Sample(price, volume, interval)
  PROVE  SignalInv'
<1> DEFINE in == Input(price)
           sig == SignalOf(gen, in)
           rec == [at |-> Len(feed'), signal |-> sig, crossing |-> ByCrossing(gen, in)]
<1>1. RingInv /\ SumInv /\ GenInv /\ SignalInv
  BY DEF LiveInv
<1>2. Len(feed') = Len(feed) + 1 /\ Len(feed) \in Nat /\ feed' # << >>
  <2>1. Len(feed') = Len(feed) + 1 /\ Len(feed) \in Nat
    BY <1>1, SampleRing
  <2>2. Len(feed') # 0
    BY <2>1
  <2> QED BY <2>1, <2>2
<1>3. PICK n \in Nat : n = Len(signals) /\ signals \in Seq(Records)
  BY <1>1 DEF SignalInv
<1>4. in.above \in BOOLEAN /\ gen.above \in BOOLEAN /\ gen'.above = in.above
  <2>1. GenInv' /\ gen'.above = in.above
    BY <1>1, SampleGen
  <2> HIDE DEF in
  <2> QED BY <1>1, <2>1 DEF GenInv
<1>5. signals' = IF sig = "NONE" THEN signals ELSE Append(signals, rec)
  BY DEF Sample, Recorded
<1>6. /\ sig = "NONE" /\ gen.fed => in.above = gen.above
      /\ sig # "NONE" /\ ByCrossing(gen, in) =>
           sig = (IF in.above THEN "BUY" ELSE "SELL") /\ in.above # gen.above
  <2> HIDE DEF in
  <2> QED BY <1>4, CrossingSides
<1>7. sig # "NONE" => rec \in Records
  <2>1. sig # "NONE" => sig \in {"BUY", "SELL"}
    BY DEF SignalOf
  <2>2. ByCrossing(gen, in) \in BOOLEAN
    BY DEF ByCrossing, CrossedUp, CrossedDown
  <2>3. Len(feed') \in Nat
    BY <1>2
  <2> QED BY <2>1, <2>2, <2>3 DEF Records
<1>8. n > 0 => n \in 1..n /\ signals # << >>
  BY <1>3
<1>9. rec.signal = sig /\ rec.crossing = ByCrossing(gen, in)
  OBVIOUS
<1> HIDE DEF in, sig, rec
<1>10. CASE sig = "NONE"
  <2>1. signals' = signals
    BY <1>5, <1>10
  <2>2. CrossingsAlternate'
    <3>1. CrossingsAlternate
      BY <1>1 DEF SignalInv
    <3> QED BY <2>1, <3>1 DEF CrossingsAlternate
  <2>3. ASSUME signals # << >>, signals[Len(signals)].crossing
        PROVE  signals[Len(signals)].signal = IF gen'.above THEN "BUY" ELSE "SELL"
    <3>1. signals[Len(signals)].signal = IF gen.above THEN "BUY" ELSE "SELL"
      BY <1>1, <2>3 DEF SignalInv
    <3>2. gen.fed
      BY <1>1, <2>3 DEF SignalInv, GenInv
    <3>3. gen'.above = gen.above
      BY <1>4, <1>6, <1>10, <3>2
    <3> QED BY <3>1, <3>3
  <2> QED BY <1>2, <1>3, <2>1, <2>2, <2>3 DEF SignalInv
<1>11. CASE sig # "NONE"
  <2>1. /\ signals' \in Seq(Records) /\ Len(signals') = n + 1
        /\ \A k \in 1..n : signals'[k] = signals[k]
        /\ signals'[n + 1] = rec
    BY <1>3, <1>5, <1>7, <1>11, Appends
  <2>2. rec.crossing => /\ rec.signal = IF gen'.above THEN "BUY" ELSE "SELL"
                        /\ gen'.above # gen.above
    BY <1>4, <1>6, <1>9, <1>11
  <2>3. ASSUME rec.crossing, n > 0, signals[n].crossing PROVE rec.signal # signals[n].signal
    <3>1. signals[n].signal = IF gen.above THEN "BUY" ELSE "SELL"
      BY <1>1, <1>3, <1>8, <2>3 DEF SignalInv
    <3> QED BY <1>4, <2>2, <2>3, <3>1
  <2>4. CrossingsAlternate'
    <3> SUFFICES ASSUME NEW k \in 2..(n + 1), signals'[k].crossing, signals'[k - 1].crossing
                 PROVE  signals'[k].signal # signals'[k - 1].signal
      BY <2>1 DEF CrossingsAlternate
    <3>1. CASE k = n + 1
      <4>1. k - 1 = n /\ n > 0 /\ n \in 1..n
        BY <1>3, <3>1
      <4> QED BY <2>1, <2>3, <3>1, <4>1
    <3>2. CASE k # n + 1
      <4>1. k \in 2..n /\ k \in 1..n /\ k - 1 \in 1..n
        BY <1>3, <3>2
      <4>2. signals'[k] = signals[k] /\ signals'[k - 1] = signals[k - 1]
        BY <2>1, <4>1
      <4> QED BY <1>1, <1>3, <4>1, <4>2 DEF SignalInv, CrossingsAlternate
    <3> QED BY <3>1, <3>2
  <2> QED BY <1>2, <2>1, <2>2, <2>4 DEF SignalInv
<1> QED BY <1>10, <1>11

\* A row falls due with exactly the samples that are a multiple of RowEvery.
LEMMA RowsDue ==
  ASSUME NEW n \in Nat
  PROVE  /\ n \div RowEvery \in Nat
         /\ (n + 1) \div RowEvery =
              (n \div RowEvery) + (IF (n + 1) % RowEvery = 0 THEN 1 ELSE 0)
         /\ (n + 1) % RowEvery = 0 => ((n + 1) \div RowEvery) * RowEvery = n + 1
<1> DEFINE q == n \div RowEvery
           r == n % RowEvery
           q2 == (n + 1) \div RowEvery
           r2 == (n + 1) % RowEvery
<1>1. RowEvery \in Nat \ {0}
  BY IndicatorsAssumption
<1>2. n = RowEvery * q + r /\ q \in Nat /\ r \in Int /\ 0 <= r /\ r < RowEvery
  BY <1>1
<1>3. n + 1 \in Int
  OBVIOUS
<1>4. n + 1 = RowEvery * q2 + r2 /\ q2 \in Int /\ r2 \in Int /\ 0 <= r2 /\ r2 < RowEvery
  BY <1>1, <1>3
<1> HIDE DEF q, r, q2, r2
<1>5. RowEvery * (q2 - q) = r + 1 - r2
  BY <1>1, <1>2, <1>4
<1>6. ASSUME q2 - q <= -1 PROVE FALSE
  BY <1>1, <1>2, <1>4, <1>5, <1>6
<1>7. ASSUME q2 - q >= 2 PROVE FALSE
  BY <1>1, <1>2, <1>4, <1>5, <1>7
<1>8. q2 = q + (IF r2 = 0 THEN 1 ELSE 0)
  <2>1. q2 = q \/ q2 = q + 1
    BY <1>2, <1>4, <1>6, <1>7
  <2>2. q2 = q => r2 = r + 1
    BY <1>1, <1>2, <1>4, <1>5
  <2>3. q2 = q + 1 => r2 = r + 1 - RowEvery
    BY <1>1, <1>2, <1>4, <1>5
  <2> QED BY <1>1, <1>2, <1>4, <2>1, <2>2, <2>3
<1>9. r2 = 0 => q2 * RowEvery = n + 1
  BY <1>1, <1>4
<1> QED BY <1>2, <1>8, <1>9 DEF q, q2, r2

\* Rounding to the nearest: half a unit up or down.
LEMMA RoundedIs ==
  ASSUME NEW a \in Nat, NEW d \in Nat \ {0}, NEW r, r = Rounded(a, d)
  PROVE  r \in Nat /\ 2 * d * r <= 2 * a + d /\ 2 * a + d < 2 * d * r + 2 * d
<1> DEFINE m == 2 * a + d
           e == 2 * d
<1>1. m \in Nat /\ e \in Nat \ {0}
  OBVIOUS
<1>2. r = m \div e
  BY DEF Rounded
<1> HIDE DEF m, e
<1>3. m = e * (m \div e) + (m % e) /\ m \div e \in Nat /\ m % e \in Nat /\ m % e < e
  BY <1>1
<1>4. r \in Nat /\ e * r <= m /\ m < e * r + e
  <2> DEFINE x == e * r
             y == m % e
  <2>1. m = x + y /\ y \in Nat /\ y < e /\ r \in Nat
    BY <1>2, <1>3
  <2>2. x \in Nat
    BY <1>1, <2>1
  <2> HIDE DEF x, y
  <2>3. x <= m /\ m < x + e
    BY <1>1, <2>1, <2>2
  <2> QED BY <2>1, <2>3 DEF x
<1> QED BY <1>4 DEF m, e

LEMMA PrintedTypes ==
  ASSUME NEW pv \in Nat, NEW v \in Nat, NEW r, r.num \in Nat, r.den \in Nat \ {0}
  PROVE  PrintedVwap(pv, v) \in Int /\ PrintedRsi(r) \in RsiRecs
<1>1. PrintedVwap(pv, v) \in Int
  <2>1. CASE v = 0
    BY <2>1 DEF PrintedVwap
  <2>2. CASE v # 0
    <3>1. Rounded(pv, v) \in Nat
      BY <2>2, RoundedIs
    <3> QED BY <2>2, <3>1 DEF PrintedVwap
  <2> QED BY <2>1, <2>2
<1>2. Rounded(10 * r.num, r.den) \in Nat
  <2>1. 10 * r.num \in Nat
    OBVIOUS
  <2> QED BY <2>1, RoundedIs
<1> QED BY <1>1, <1>2 DEF PrintedRsi, RsiRecs

LEMMA SampleRows ==
  ASSUME LiveInv, NEW price \in TradePrices, NEW volume \in Volume,
         NEW interval \in {LastInterval, LastInterval + 1},
         Sample(price, volume, interval)
  PROVE  RowInv'
<1>1. RingInv /\ SumInv /\ RowInv
  BY DEF LiveInv
<1>2. SumInv'
  BY <1>1, SampleSums
<1>3. /\ RingInv' /\ Len(feed') = Len(feed) + 1 /\ Len(feed) \in Nat
      /\ \A i \in 1..Len(feed) : feed'[i] = feed[i]
      /\ feed'[Len(feed) + 1] = [price |-> price, volume |-> volume]
      /\ price \in Nat \ {0} /\ volume \in Nat
  BY <1>1, SampleRing
<1>4. PICK m \in Nat : m = Len(feed)
  BY <1>3
<1>5. feed \in Seq(Samples) /\ feed' \in Seq(Samples)
  BY <1>1, <1>3 DEF RingInv
<1>6. /\ (m + 1) \div RowEvery = (m \div RowEvery) + (IF (m + 1) % RowEvery = 0 THEN 1 ELSE 0)
      /\ (m + 1) % RowEvery = 0 => ((m + 1) \div RowEvery) * RowEvery = m + 1
      /\ m \div RowEvery \in Nat
  BY RowsDue
<1>7. rows \in Seq(RowRecs) /\ Len(rows) = m \div RowEvery
  BY <1>1, <1>4 DEF RowInv
<1>8. ASSUME NEW k \in 1..Len(rows), rows'[k] = rows[k] PROVE RowOf(k)'
  <2>1. RowOf(k)
    BY <1>1 DEF RowInv
  <2>2. PICK n : n = k * RowEvery
    OBVIOUS
  <2>3. /\ n \in 1..m /\ rows[k].price = feed[n].price
        /\ VolumesIn(feed, n) \in Nat /\ ValuesIn(feed, n) \in Nat
        /\ rows[k].vwap = PrintedVwap(ValuesIn(feed, n), VolumesIn(feed, n))
    BY <1>4, <2>1, <2>2 DEF RowOf
  <2>4. /\ VolumesIn(feed', n) = VolumesIn(feed, n)
        /\ ValuesIn(feed', n) = ValuesIn(feed, n)
    <3>1. n \in 0..Len(feed) /\ n <= Len(feed') /\ \A i \in 1..n : feed'[i] = feed[i]
      BY <1>3, <1>4, <2>3
    <3> QED BY <1>5, <3>1, PrefixSums
  <2>5. n \in 1..Len(feed') /\ feed'[n] = feed[n]
    BY <1>3, <1>4, <2>3
  <2> QED BY <1>8, <2>2, <2>3, <2>4, <2>5 DEF RowOf
<1>9. CASE Len(feed') % RowEvery # 0
  <2>1. rows' = rows
    BY <1>9 DEF Sample
  <2>2. Len(rows') = Len(feed') \div RowEvery
    BY <1>3, <1>4, <1>6, <1>7, <1>9, <2>1
  <2>3. \A k \in 1..Len(rows') : RowOf(k)'
    BY <1>8, <2>1
  <2> QED BY <1>7, <2>1, <2>2, <2>3 DEF RowInv
<1>10. CASE Len(feed') % RowEvery = 0
  <2> DEFINE row == [interval |-> interval, price |-> price, volume |-> volume,
                     vwap |-> PrintedVwap(sumPV', sumV'), rsi |-> PrintedRsi(rsi')]
             l == m \div RowEvery
  <2>1. rows' = Append(rows, row)
    BY <1>10 DEF Sample
  <2>2. sumV' \in Nat /\ sumPV' \in Nat /\ rsi'.num \in Nat /\ rsi'.den \in Nat \ {0}
        /\ sumV' = VolumesIn(feed', m + 1) /\ sumPV' = ValuesIn(feed', m + 1)
    <3>1. ring' \in Seq(Samples) /\ rsi' = Rsi(ring')
      BY <1>2, <1>3 DEF RingInv, SumInv
    <3>2. rsi'.num \in Nat /\ rsi'.den \in Nat \ {0}
      BY <3>1, RsiType
    <3> QED BY <1>2, <1>3, <1>4, <3>2 DEF SumInv
  <2>3. interval \in Nat
    <3>1. LastInterval \in Nat
      <4>1. CASE rows = << >>
        BY <4>1 DEF LastInterval
      <4>2. CASE rows # << >>
        <5>1. rows[Len(rows)] \in RowRecs
          <6>1. Len(rows) \in 1..Len(rows)
            BY <1>7, <4>2
          <6> QED BY <1>7, <6>1
        <5> QED BY <4>2, <5>1 DEF LastInterval, RowRecs
      <4> QED BY <4>1, <4>2
    <3> QED BY <3>1
  <2>4. row \in RowRecs
    <3>1. PrintedVwap(sumPV', sumV') \in Int /\ PrintedRsi(rsi') \in RsiRecs
      BY <2>2, PrintedTypes
    <3> QED BY <1>3, <2>3, <3>1 DEF RowRecs
  <2>5. row.price = price /\ row.vwap = PrintedVwap(ValuesIn(feed', m + 1), VolumesIn(feed', m + 1))
    BY <2>2
  <2> HIDE DEF row
  <2>6. /\ rows' \in Seq(RowRecs) /\ Len(rows') = l + 1 /\ l \in Nat
        /\ \A k \in 1..l : rows'[k] = rows[k]
        /\ rows'[l + 1] = row
    BY <1>6, <1>7, <2>1, <2>4, Appends
  <2>7. (m + 1) % RowEvery = 0
    BY <1>3, <1>4, <1>10
  <2>8. l + 1 = (m + 1) \div RowEvery /\ (l + 1) * RowEvery = m + 1
    BY <1>6, <2>7
  <2>9. Len(rows') = Len(feed') \div RowEvery
    BY <1>3, <1>4, <2>6, <2>8
  <2> HIDE DEF l
  <2>10. RowOf(l + 1)'
    <3>1. PICK k, n : k = l + 1 /\ n = m + 1
      OBVIOUS
    <3>2. k * RowEvery = n /\ rows'[k] = row /\ n \in 1..Len(feed') /\ feed'[n].price = price
      BY <1>3, <1>4, <2>6, <2>8, <3>1
    <3>3. VolumesIn(feed', n) \in Nat /\ ValuesIn(feed', n) \in Nat
      BY <2>2, <3>1
    <3>4. RowOf(k)'
      BY <2>5, <3>1, <3>2, <3>3 DEF RowOf
    <3> QED BY <3>1, <3>4
  <2>11. \A k \in 1..Len(rows') : RowOf(k)'
    <3> SUFFICES ASSUME NEW k \in 1..Len(rows') PROVE RowOf(k)'
      OBVIOUS
    <3>1. CASE k = l + 1
      BY <2>10, <3>1
    <3>2. CASE k # l + 1
      <4>1. k \in 1..l /\ k \in 1..Len(rows)
        BY <1>7, <2>6, <3>2 DEF l
      <4> QED BY <1>8, <2>6, <4>1
    <3> QED BY <3>1, <3>2
  <2> QED BY <2>6, <2>9, <2>11 DEF RowInv
<1> QED BY <1>9, <1>10

LEMMA SampleLive == LiveInv /\ LiveNext => LiveInv'
<1> SUFFICES ASSUME LiveInv, LiveNext PROVE LiveInv'
  OBVIOUS
<1>1. PICK price \in TradePrices, volume \in Volume, interval \in {LastInterval, LastInterval + 1} :
        Sample(price, volume, interval)
  BY DEF LiveNext
<1>2. RingInv /\ SumInv
  BY DEF LiveInv
<1>3. RingInv' /\ SumInv' /\ GenInv'
  BY <1>1, <1>2, SampleRing, SampleSums, SampleGen
<1>4. SignalInv'
  BY <1>1, SampleSignals
<1>5. RowInv'
  BY <1>1, SampleRows
<1> QED BY <1>3, <1>4, <1>5 DEF LiveInv

LEMMA LiveUnchanged == LiveInv /\ UNCHANGED liveVars => LiveInv'
<1> SUFFICES ASSUME LiveInv, UNCHANGED liveVars PROVE LiveInv'
  OBVIOUS
<1> USE DEF liveVars
<1>1. RingInv'
  BY DEF LiveInv, RingInv
<1>2. SumInv'
  BY DEF LiveInv, SumInv
<1>3. GenInv'
  BY DEF LiveInv, GenInv
<1>4. SignalInv'
  BY DEF LiveInv, SignalInv, CrossingsAlternate
<1>5. RowInv'
  BY DEF LiveInv, RowInv, RowOf
<1> QED BY <1>1, <1>2, <1>3, <1>4, <1>5 DEF LiveInv
-----------------------------------------------------------------------------
(***************************************************************************)
(* The inductive invariant of the backtests.                               *)
(***************************************************************************)
BtTypes ==
  /\ stage \in {"empty", "ready", "running"}
  /\ bars \in Seq(BarRecs)
  /\ stage = "empty" <=> bars = << >>
  /\ stage = "empty" => runs = 0
  /\ next \in 1..(Len(bars) + 1)
  /\ stage = "ready" /\ runs > 0 => next = Len(bars) + 1
  /\ runs \in Nat
  /\ position \in {"NONE", "BUY", "SELL"}
  /\ trades \in Seq(TradeRecs)

\* Trades end before the loop's bar and before the open position begins.
TradeInv ==
  /\ TradesDisjoint
  /\ \A k \in 1..Len(trades) : trades[k].exited < next
  /\ stage = "running" => \A k \in 1..Len(trades) : trades[k].entered < trades[k].exited
  /\ stage = "running" /\ position # "NONE" =>
       /\ entry \in 1..(next - 1)
       /\ \A k \in 1..Len(trades) : trades[k].exited < entry
  /\ next = 1 => trades = << >> /\ position = "NONE"

\* What the generator says of bar k after bar k - 1, whatever it saw before.
Expected(k) == SignalOf(Updated(NewGenerator, bars[k - 1]), bars[k])

LogInv ==
  /\ log \in Seq({"NONE", "BUY", "SELL"})
  /\ Len(log) = next - 1
  /\ \A k \in 2..Len(log) : log[k] = Expected(k)
  /\ next > 1 => btGen = Updated(NewGenerator, bars[next - 1])
  /\ runs > 0 => \A k \in 2..Len(bars) : firstLog[k] = Expected(k)

EquityInv ==
  /\ stage = "running" /\ next = 1 => equity = 0
  /\ ProfitIsEquity

BtInv == BtTypes /\ TradeInv /\ LogInv /\ EquityInv

LEMMA InitBtInv == BtInit => BtInv
<1> SUFFICES ASSUME BtInit PROVE BtInv
  OBVIOUS
<1>1. /\ bars = << >> /\ trades = << >> /\ log = << >>
      /\ stage = "empty" /\ next = 1 /\ runs = 0 /\ position = "NONE"
  BY DEF BtInit
<1>2. Len(bars) = 0 /\ Len(trades) = 0 /\ Len(log) = 0 /\ 1..0 = {} /\ 2..0 = {} /\ 1..(0 - 1) = {}
  BY <1>1
<1>3. BtTypes
  BY <1>1, <1>2 DEF BtTypes
<1>4. TradeInv
  BY <1>1, <1>2 DEF TradeInv, TradesDisjoint
<1>5. LogInv
  BY <1>1, <1>2 DEF LogInv
<1>6. EquityInv
  BY <1>1 DEF EquityInv, ProfitIsEquity
<1> QED BY <1>3, <1>4, <1>5, <1>6 DEF BtInv

LEMMA BtUnchanged == BtInv /\ UNCHANGED btVars => BtInv'
<1> SUFFICES ASSUME BtInv, UNCHANGED btVars PROVE BtInv'
  OBVIOUS
<1> USE DEF btVars, BtInv
<1>1. BtTypes'
  BY DEF BtTypes
<1>2. TradeInv'
  BY DEF TradeInv, TradesDisjoint
<1>3. LogInv'
  BY DEF LogInv, Expected
<1>4. EquityInv'
  BY DEF EquityInv, ProfitIsEquity, Gained
<1> QED BY <1>1, <1>2, <1>3, <1>4

\* load_csv: the bars are new, nothing else is.
LEMMA LoadBt == BtInv /\ RowInv /\ Load(rows) => BtInv'
<1> SUFFICES ASSUME BtInv, RowInv, Load(rows) PROVE BtInv'
  OBVIOUS
<1>1. /\ stage = "empty" /\ stage' = "ready" /\ bars' = BarsOf(rows) /\ bars' # << >>
      /\ UNCHANGED <<btGen, next, position, entry, trades, metrics, runs, equity, log, firstLog>>
  BY DEF Load
<1>2. bars = << >> /\ next \in 1..(Len(bars) + 1)
  BY <1>1 DEF BtInv, BtTypes
<1>3. next = 1
  BY <1>2
<1>4. bars' \in Seq(BarRecs)
  BY <1>1, BarsOfType DEF RowInv
<1>5. trades = << >> /\ position = "NONE" /\ Len(log) = 0 /\ log \in Seq({"NONE", "BUY", "SELL"})
  BY <1>3 DEF BtInv, TradeInv, LogInv
<1>6. runs = 0
  BY <1>1 DEF BtInv, BtTypes
<1>7. Len(bars') \in Nat /\ 1 \in 1..(Len(bars') + 1)
  BY <1>4
<1>8. BtTypes'
  BY <1>1, <1>3, <1>4, <1>5, <1>6, <1>7 DEF BtTypes
<1>9. Len(trades) = 0 /\ 1..0 = {} /\ 2..0 = {} /\ 1..(0 - 1) = {}
  BY <1>5
<1>10. TradeInv'
  BY <1>1, <1>3, <1>5, <1>9 DEF TradeInv, TradesDisjoint
<1>11. LogInv'
  BY <1>1, <1>3, <1>5, <1>6, <1>9 DEF LogInv
<1>12. EquityInv'
  BY <1>1, <1>6 DEF EquityInv, ProfitIsEquity
<1> QED BY <1>8, <1>10, <1>11, <1>12 DEF BtInv

\* run clears its own state; the generator is another run's.
LEMMA StartBt == BtInv /\ Start => BtInv'
<1> SUFFICES ASSUME BtInv, Start PROVE BtInv'
  OBVIOUS
<1>1. /\ stage = "ready" /\ stage' = "running" /\ position' = "NONE" /\ trades' = << >>
      /\ next' = 1 /\ equity' = 0 /\ log' = << >>
      /\ UNCHANGED <<bars, btGen, entry, metrics, runs, firstLog>>
  BY DEF Start
<1>2. Len(trades') = 0 /\ Len(log') = 0 /\ 1..0 = {} /\ 2..0 = {} /\ 1..(0 - 1) = {}
  BY <1>1
<1>3. bars \in Seq(BarRecs) /\ bars # << >> /\ runs \in Nat
  BY <1>1 DEF BtInv, BtTypes
<1>4. 1 \in 1..(Len(bars) + 1)
  BY <1>3
<1>5. BtTypes'
  BY <1>1, <1>3, <1>4 DEF BtTypes
<1>6. TradeInv'
  BY <1>1, <1>2 DEF TradeInv, TradesDisjoint
<1>7. LogInv'
  <2>1. runs > 0 => \A k \in 2..Len(bars) : firstLog[k] = Expected(k)
    BY DEF BtInv, LogInv
  <2>2. runs' > 0 => \A k \in 2..Len(bars') : firstLog'[k] = Expected(k)'
    BY <1>1, <2>1 DEF Expected
  <2> QED BY <1>1, <1>2, <2>2 DEF LogInv
<1>8. EquityInv'
  BY <1>1 DEF EquityInv, ProfitIsEquity
<1> QED BY <1>5, <1>6, <1>7, <1>8 DEF BtInv

\* The bar that the loop is at, what the position gained there, and the trade that
\* closes it there.
LEMMA AtBar ==
  ASSUME BtTypes, NEW bar \in 1..Len(bars), position # "NONE" => entry \in 1..Len(bars)
  PROVE  /\ Gained(bar) \in Int
         /\ position = "NONE" => Gained(bar) = 0
         /\ position # "NONE" => Trade(bar) \in TradeRecs
<1>1. bars[bar] \in BarRecs
  BY DEF BtTypes
<1>2. bars[bar].close \in Nat
  BY <1>1 DEF BarRecs
<1>3. position \in {"NONE", "BUY", "SELL"}
  BY DEF BtTypes
<1>4. CASE position = "NONE"
  BY <1>4 DEF Gained
<1>5. CASE position # "NONE"
  <2>1. bars[entry] \in BarRecs
    BY <1>5 DEF BtTypes
  <2>2. bars[entry].close \in Nat
    BY <2>1 DEF BarRecs
  <2>3. Gained(bar) \in Int
    BY <1>2, <1>3, <1>5, <2>2 DEF Gained
  <2>4. entry \in Int /\ bar \in Int
    BY <1>5
  <2> QED BY <1>3, <1>5, <2>3, <2>4 DEF Trade, TradeRecs
<1> QED BY <1>4, <1>5

LEMMA SignalType == Signal \in {"NONE", "BUY", "SELL"}
BY DEF Signal, SignalOf

\* The trade that ends now is the last of the run and overlaps no earlier one.
LEMMA LastTrade ==
  ASSUME NEW ts \in Seq(TradeRecs), NEW t \in TradeRecs, NEW us, us = Append(ts, t),
         \A k \in 1..(Len(ts) - 1) : ts[k].exited < ts[k + 1].entered,
         \A k \in 1..Len(ts) : ts[k].entered < ts[k].exited /\ ts[k].exited < t.entered
  PROVE  /\ us \in Seq(TradeRecs) /\ Len(us) = Len(ts) + 1 /\ us[Len(us)] = t
         /\ \A k \in 1..Len(ts) : us[k] = ts[k]
         /\ \A k \in 1..(Len(us) - 1) :
              us[k].exited < us[k + 1].entered /\ us[k].entered < us[k].exited
<1>1. /\ us \in Seq(TradeRecs) /\ Len(us) = Len(ts) + 1 /\ Len(ts) \in Nat
      /\ \A k \in 1..Len(ts) : us[k] = ts[k]
      /\ us[Len(ts) + 1] = t
  BY Appends
<1>2. ASSUME NEW k \in 1..(Len(us) - 1)
      PROVE  us[k].exited < us[k + 1].entered /\ us[k].entered < us[k].exited
  <2>1. k \in 1..Len(ts) /\ us[k] = ts[k]
    BY <1>1
  <2>2. CASE k = Len(ts)
    BY <1>1, <2>1, <2>2
  <2>3. CASE k # Len(ts)
    <3>1. k \in 1..(Len(ts) - 1) /\ us[k + 1] = ts[k + 1]
      BY <1>1, <2>1, <2>3
    <3> QED BY <2>1, <3>1
  <2> QED BY <2>2, <2>3
<1> QED BY <1>1, <1>2

LEMMA OnBarTypes ==
  ASSUME BtInv, OnBar
  PROVE  /\ BtTypes'
         /\ next \in 1..Len(bars) /\ next' = next + 1 /\ bars' = bars
         /\ stage = "running" /\ stage' = "running"
         /\ position # "NONE" => entry \in 1..(next - 1)
         /\ position = "NONE" \/ Trade(next) \in TradeRecs
<1>1. BtTypes /\ TradeInv
  BY DEF BtInv
<1>2. /\ stage = "running" /\ next <= Len(bars) /\ next' = next + 1 /\ bars' = bars
      /\ stage' = stage /\ runs' = runs
      /\ trades' = IF Closes THEN Append(trades, Trade(next)) ELSE trades
      /\ position' = IF Opens THEN Signal ELSE IF Closes THEN "NONE" ELSE position
  BY DEF OnBar
<1>3. bars \in Seq(BarRecs) /\ next \in 1..(Len(bars) + 1) /\ bars # << >> /\ runs \in Nat
  BY <1>1, <1>2 DEF BtTypes
<1>4. next \in 1..Len(bars) /\ next + 1 \in 1..(Len(bars) + 1)
  BY <1>2, <1>3
<1>5. position # "NONE" => entry \in 1..(next - 1)
  BY <1>1, <1>2 DEF TradeInv
<1>6. position # "NONE" => entry \in 1..Len(bars)
  BY <1>4, <1>5
<1>7. position = "NONE" \/ Trade(next) \in TradeRecs
  BY <1>1, <1>4, <1>6, AtBar
<1>8. position' \in {"NONE", "BUY", "SELL"}
  BY <1>1, <1>2, SignalType DEF BtTypes
<1>9. trades' \in Seq(TradeRecs)
  <2>1. Closes => position # "NONE"
    BY DEF Closes
  <2> QED BY <1>1, <1>2, <1>7, <2>1 DEF BtTypes
<1>10. BtTypes'
  BY <1>2, <1>3, <1>4, <1>8, <1>9 DEF BtTypes
<1> QED BY <1>2, <1>4, <1>5, <1>7, <1>10

LEMMA OnBarTrades == BtInv /\ OnBar => TradeInv'
<1> SUFFICES ASSUME BtInv, OnBar PROVE TradeInv'
  OBVIOUS
<1>1. TradeInv /\ trades \in Seq(TradeRecs)
  BY DEF BtInv, BtTypes
<1>2. /\ stage = "running" /\ stage' = "running" /\ bars' = bars
      /\ position # "NONE" => entry \in 1..(next - 1)
      /\ position = "NONE" \/ Trade(next) \in TradeRecs
  BY OnBarTypes
<1>3. PICK n : n = next /\ n \in Nat \ {0} /\ next' = n + 1
  BY OnBarTypes
<1>4. /\ \A k \in 1..Len(trades) :
           trades[k].entered < trades[k].exited /\ trades[k].exited < n
      /\ \A k \in 1..(Len(trades) - 1) : trades[k].exited < trades[k + 1].entered
  BY <1>1, <1>2, <1>3 DEF TradeInv, TradesDisjoint
<1>5. \A k \in 1..Len(trades) : trades[k].entered \in Int /\ trades[k].exited \in Int
  <2> SUFFICES ASSUME NEW k \in 1..Len(trades)
               PROVE  trades[k].entered \in Int /\ trades[k].exited \in Int
    OBVIOUS
  <2>1. trades[k] \in TradeRecs
    BY <1>1
  <2> QED BY <2>1 DEF TradeRecs
<1>6. CASE Closes
  <2>1. PICK t : t = Trade(next)
    OBVIOUS
  <2>2. trades' = Append(trades, t) /\ position' = "NONE" /\ position # "NONE"
    BY <1>6, <2>1 DEF OnBar, Opens, Closes
  <2>3. t \in TradeRecs /\ t.entered = entry /\ t.exited = n
    BY <1>2, <1>3, <2>1, <2>2 DEF Trade
  <2>4. entry \in 1..(n - 1) /\ \A k \in 1..Len(trades) : trades[k].exited < t.entered
    BY <1>1, <1>2, <1>3, <2>2, <2>3 DEF TradeInv
  <2>5. PICK us : us = trades'
    OBVIOUS
  <2>6. /\ us \in Seq(TradeRecs) /\ Len(us) = Len(trades) + 1 /\ us[Len(us)] = t
        /\ \A k \in 1..Len(trades) : us[k] = trades[k]
        /\ \A k \in 1..(Len(us) - 1) :
             us[k].exited < us[k + 1].entered /\ us[k].entered < us[k].exited
    BY <1>1, <1>4, <2>2, <2>3, <2>4, <2>5, LastTrade
  <2>7. ASSUME NEW k \in 1..Len(us)
        PROVE  us[k].entered < us[k].exited /\ us[k].exited < n + 1 /\ us[k].entered <= us[k].exited
    <3>1. CASE k = Len(us)
      BY <1>3, <2>3, <2>4, <2>6, <3>1
    <3>2. CASE k # Len(us)
      <4>1. Len(trades) \in Nat
        BY <1>1
      <4>2. k \in 1..Len(trades) /\ us[k] = trades[k]
        BY <2>6, <3>2, <4>1
      <4> QED BY <1>3, <1>4, <1>5, <4>2
    <3> QED BY <3>1, <3>2
  <2>8. \A k \in 1..Len(us) : us[k].entered # us[k].exited
    <3> SUFFICES ASSUME NEW k \in 1..Len(us) PROVE us[k].entered # us[k].exited
      OBVIOUS
    <3>1. us[k] \in TradeRecs
      BY <2>6
    <3>2. us[k].entered \in Int /\ us[k].exited \in Int
      BY <3>1 DEF TradeRecs
    <3> QED BY <2>7, <3>2
  <2>9. TradesDisjoint'
    BY <2>5, <2>6, <2>7, <2>8 DEF TradesDisjoint
  <2>10. n + 1 # 1
    BY <1>3
  <2> QED BY <1>2, <1>3, <2>2, <2>5, <2>7, <2>9, <2>10 DEF TradeInv
<1>7. CASE ~Closes
  <2>1. trades' = trades
    BY <1>7 DEF OnBar
  <2>2. TradesDisjoint'
    BY <1>1, <1>2, <2>1 DEF TradeInv, TradesDisjoint
  <2>3. \A k \in 1..Len(trades) : trades[k].exited < n + 1
    BY <1>3, <1>4, <1>5
  <2>4. position' # "NONE" => entry' \in 1..n /\ \A k \in 1..Len(trades) : trades[k].exited < entry'
    <3>1. CASE Opens
      <4>1. entry' = n
        BY <1>3, <3>1 DEF OnBar
      <4> QED BY <1>3, <1>4, <4>1
    <3>2. CASE ~Opens
      <4>1. position' = position /\ entry' = entry
        BY <1>7, <3>2 DEF OnBar
      <4>2. position # "NONE" =>
              entry \in 1..(n - 1) /\ \A k \in 1..Len(trades) : trades[k].exited < entry
        BY <1>1, <1>2, <1>3 DEF TradeInv
      <4>3. entry \in 1..(n - 1) => entry \in 1..n
        BY <1>3
      <4> QED BY <4>1, <4>2, <4>3
    <3> QED BY <3>1, <3>2
  <2>5. n + 1 # 1 /\ (n + 1) - 1 = n
    BY <1>3
  <2> QED BY <1>2, <1>3, <1>4, <2>1, <2>2, <2>3, <2>4, <2>5 DEF TradeInv
<1> QED BY <1>6, <1>7

LEMMA OnBarLog == BtInv /\ OnBar => LogInv'
<1> SUFFICES ASSUME BtInv, OnBar PROVE LogInv'
  OBVIOUS
<1>1. LogInv
  BY DEF BtInv
<1>2. PICK n : n = next /\ n \in 1..Len(bars) /\ n \in Nat /\ next' = n + 1 /\ bars' = bars
  BY OnBarTypes
<1>3. /\ log' = Append(log, Signal) /\ btGen' = Updated(btGen, bars[n])
      /\ runs' = runs /\ firstLog' = firstLog
  BY <1>2 DEF OnBar
<1>4. log \in Seq({"NONE", "BUY", "SELL"}) /\ Len(log) = n - 1
  BY <1>1, <1>2 DEF LogInv
<1>5. /\ log' \in Seq({"NONE", "BUY", "SELL"}) /\ Len(log') = (n - 1) + 1
      /\ \A k \in 1..(n - 1) : log'[k] = log[k]
      /\ log'[(n - 1) + 1] = Signal
  BY <1>3, <1>4, SignalType, Appends
<1>6. (n - 1) + 1 = n /\ (n + 1) - 1 = n
  BY <1>2
<1>7. \A k \in 2..n : log'[k] = Expected(k)
  <2> SUFFICES ASSUME NEW k \in 2..n PROVE log'[k] = Expected(k)
    OBVIOUS
  <2>1. CASE k = n
    <3>1. btGen = Updated(NewGenerator, bars[n - 1])
      <4>1. n > 1
        BY <1>2, <2>1
      <4> QED BY <1>1, <1>2, <4>1 DEF LogInv
    <3> QED BY <1>2, <1>5, <1>6, <2>1, <3>1 DEF Signal, Expected
  <2>2. CASE k # n
    <3>1. k \in 2..(n - 1) /\ k \in 1..(n - 1)
      BY <1>2, <2>2
    <3> QED BY <1>1, <1>4, <1>5, <3>1 DEF LogInv
  <2> QED BY <2>1, <2>2
<1>8. \A k \in 2..Len(log') : log'[k] = Expected(k)'
  BY <1>2, <1>5, <1>6, <1>7 DEF Expected
<1>9. btGen' = Updated(NewGenerator, bars'[n])
  BY <1>2, <1>3 DEF Updated
<1>10. runs' > 0 => \A k \in 2..Len(bars') : firstLog'[k] = Expected(k)'
  <2>1. runs > 0 => \A k \in 2..Len(bars) : firstLog[k] = Expected(k)
    BY <1>1 DEF LogInv
  <2> QED BY <1>2, <1>3, <2>1 DEF Expected
<1> QED BY <1>2, <1>5, <1>6, <1>8, <1>9, <1>10 DEF LogInv

\* Before the first bar nothing was gained; at a bar, the open position's gain moves
\* to its trade or stays with it.
LEMMA OnBarEquity == BtInv /\ OnBar => EquityInv'
<1> SUFFICES ASSUME BtInv, OnBar PROVE EquityInv'
  OBVIOUS
<1>1. BtTypes /\ TradeInv /\ EquityInv
  BY DEF BtInv
<1>2. /\ BtTypes' /\ stage = "running" /\ stage' = "running"
      /\ position # "NONE" => entry \in 1..(next - 1)
      /\ position = "NONE" \/ Trade(next) \in TradeRecs
  BY OnBarTypes
<1>3. PICK n : n = next /\ n \in 1..Len(bars) /\ n \in Nat \ {0} /\ next' = n + 1 /\ bars' = bars
  BY OnBarTypes
<1>4. position # "NONE" => entry \in 1..Len(bars)
  BY <1>2, <1>3
<1>5. Gained(n) \in Int /\ (position = "NONE" => Gained(n) = 0)
  BY <1>1, <1>3, <1>4, AtBar
<1>6. trades \in Seq(TradeRecs)
  BY <1>1 DEF BtTypes
<1>7. SumPnl(trades) \in Int
  <2> DEFINE t == [entered |-> 0, exited |-> 0, side |-> "BUY", pnl |-> 0]
  <2>1. t \in TradeRecs
    BY DEF TradeRecs
  <2> HIDE DEF t
  <2> QED BY <1>6, <2>1, SumPnlAppend
\* Marked to market at this bar, before its signal counts.
<1>8. equity' = SumPnl(trades) + Gained(n)
  <2>1. CASE n = 1
    <3>1. equity = 0 /\ trades = << >> /\ position = "NONE"
      BY <1>1, <1>2, <1>3, <2>1 DEF EquityInv, TradeInv
    <3>2. equity' = equity + 0
      BY <1>3, <2>1 DEF OnBar
    <3> QED BY <1>5, <3>1, <3>2, SumPnlEmpty
  <2>2. CASE n # 1
    <3>1. n - 1 \in 1..Len(bars) /\ n > 1
      BY <1>3, <2>2
    <3>2. Gained(n - 1) \in Int
      BY <1>1, <1>4, <3>1, AtBar
    <3>3. SumPnl(trades) + Gained(n - 1) = equity
      BY <1>1, <1>2, <1>3, <3>1 DEF EquityInv, ProfitIsEquity
    <3>4. equity' = equity + (Gained(n) - Gained(n - 1))
      BY <1>3, <2>2 DEF OnBar
    <3> QED BY <1>5, <1>7, <3>2, <3>3, <3>4
  <2> QED BY <2>1, <2>2
<1>9. SumPnl(trades') + Gained(n)' = equity'
  <2>1. CASE Closes
    <3>1. PICK t : t = Trade(next)
      OBVIOUS
    <3>2. trades' = Append(trades, t) /\ position' = "NONE" /\ position # "NONE"
      BY <2>1, <3>1 DEF OnBar, Opens, Closes
    <3>3. t \in TradeRecs /\ t.pnl = Gained(n)
      BY <1>2, <1>3, <3>1, <3>2 DEF Trade
    <3>4. SumPnl(trades') = SumPnl(trades) + Gained(n)
      BY <1>6, <3>2, <3>3, SumPnlAppend
    <3>5. Gained(n)' = 0
      BY <3>2 DEF Gained
    <3> QED BY <1>5, <1>7, <1>8, <3>4, <3>5
  <2>2. CASE Opens
    <3>1. trades' = trades /\ position' = Signal /\ entry' = n /\ position = "NONE"
      BY <1>3, <2>2 DEF OnBar, Opens, Closes
    <3>2. bars[n].close \in Nat
      <4>1. bars[n] \in BarRecs
        BY <1>1, <1>3 DEF BtTypes
      <4> QED BY <4>1 DEF BarRecs
    <3>3. Gained(n)' = 0
      BY <1>3, <3>1, <3>2 DEF Gained
    <3> QED BY <1>5, <1>7, <1>8, <3>1, <3>3
  <2>3. CASE ~Opens /\ ~Closes
    <3>1. trades' = trades /\ position' = position /\ entry' = entry
      BY <2>3 DEF OnBar
    <3>2. Gained(n)' = Gained(n)
      BY <1>3, <3>1 DEF Gained
    <3> QED BY <1>8, <3>1, <3>2
  <2> QED BY <2>1, <2>2, <2>3
<1>10. next' - 1 = n /\ next' # 1
  BY <1>3
<1>11. Gained(next - 1)' = Gained(n)'
  BY <1>10 DEF Gained
<1> QED BY <1>2, <1>9, <1>10, <1>11 DEF EquityInv, ProfitIsEquity

LEMMA OnBarBt == BtInv /\ OnBar => BtInv'
BY OnBarTypes, OnBarTrades, OnBarLog, OnBarEquity DEF BtInv

\* The end of the data closes the open position at the last bar.
LEMMA FinishBt == BtInv /\ Finish => BtInv'
<1> SUFFICES ASSUME BtInv, Finish PROVE BtInv'
  OBVIOUS
<1>1. BtTypes /\ TradeInv /\ LogInv /\ EquityInv
  BY DEF BtInv
<1>2. /\ stage = "running" /\ stage' = "ready" /\ next > Len(bars)
      /\ trades' = IF position = "NONE" THEN trades ELSE Append(trades, Trade(Len(bars)))
      /\ metrics' = MetricsOf(trades') /\ runs' = runs + 1
      /\ firstLog' = IF runs = 0 THEN log ELSE firstLog
      /\ UNCHANGED <<bars, btGen, next, position, entry, equity, log>>
  BY DEF Finish
<1>3. bars \in Seq(BarRecs) /\ bars # << >> /\ next \in 1..(Len(bars) + 1) /\ runs \in Nat
  BY <1>1, <1>2 DEF BtTypes
<1>4. PICK n : n = Len(bars) /\ n \in Nat \ {0} /\ next = n + 1
  <2>1. Len(bars) \in Nat \ {0}
    BY <1>3
  <2> QED BY <1>2, <1>3, <2>1
<1>5. position # "NONE" => entry \in 1..n /\ \A k \in 1..Len(trades) : trades[k].exited < entry
  <2>1. (n + 1) - 1 = n
    BY <1>4
  <2> QED BY <1>1, <1>2, <1>4, <2>1 DEF TradeInv
<1>6. /\ Gained(n) \in Int /\ (position = "NONE" => Gained(n) = 0)
      /\ (position # "NONE" => Trade(n) \in TradeRecs)
  <2>1. n \in 1..Len(bars)
    BY <1>4
  <2> QED BY <1>1, <1>4, <1>5, <2>1, AtBar
<1>7. trades \in Seq(TradeRecs) /\ trades' \in Seq(TradeRecs)
  BY <1>1, <1>2, <1>4, <1>6 DEF BtTypes
<1>8. BtTypes'
  <2>1. position \in {"NONE", "BUY", "SELL"}
    BY <1>1 DEF BtTypes
  <2>2. runs + 1 \in Nat
    BY <1>3
  <2> QED BY <1>2, <1>3, <1>4, <1>7, <2>1, <2>2 DEF BtTypes
<1>9. /\ \A k \in 1..Len(trades) :
           trades[k].entered < trades[k].exited /\ trades[k].exited < n + 1
      /\ \A k \in 1..(Len(trades) - 1) : trades[k].exited < trades[k + 1].entered
  BY <1>1, <1>2, <1>4 DEF TradeInv, TradesDisjoint
<1>10. TradeInv'
  <2>1. CASE position = "NONE"
    <3>1. trades' = trades
      BY <1>2, <2>1
    <3> QED BY <1>1, <1>2, <3>1 DEF TradeInv, TradesDisjoint
  <2>2. CASE position # "NONE"
    <3>1. PICK t : t = Trade(n)
      OBVIOUS
    <3>2. trades' = Append(trades, t) /\ t \in TradeRecs /\ t.entered = entry /\ t.exited = n
      BY <1>2, <1>4, <1>6, <2>2, <3>1 DEF Trade
    <3>3. PICK us : us = trades'
      OBVIOUS
    <3>4. /\ us \in Seq(TradeRecs) /\ Len(us) = Len(trades) + 1 /\ us[Len(us)] = t
          /\ \A k \in 1..Len(trades) : us[k] = trades[k]
          /\ \A k \in 1..(Len(us) - 1) :
               us[k].exited < us[k + 1].entered /\ us[k].entered < us[k].exited
      BY <1>5, <1>7, <1>9, <2>2, <3>2, <3>3, LastTrade
    <3>5. ASSUME NEW k \in 1..Len(us)
          PROVE  /\ us[k].entered <= us[k].exited /\ us[k].exited < n + 1
                 /\ us[k].entered = us[k].exited => k = Len(us) /\ us[k].exited = n
      <4>1. CASE k = Len(us)
        BY <1>4, <1>5, <2>2, <3>2, <3>4, <4>1
      <4>2. CASE k # Len(us)
        <5>1. Len(trades) \in Nat
          BY <1>7
        <5>2. k \in 1..Len(trades) /\ us[k] = trades[k]
          BY <3>4, <4>2, <5>1
        <5>3. us[k] \in TradeRecs
          BY <3>4
        <5>4. us[k].entered \in Int /\ us[k].exited \in Int
          BY <5>3 DEF TradeRecs
        <5> QED BY <1>9, <5>2, <5>4
      <4> QED BY <4>1, <4>2
    <3>6. TradesDisjoint'
      BY <1>2, <1>4, <3>3, <3>4, <3>5 DEF TradesDisjoint
    <3>7. n + 1 # 1
      BY <1>4
    <3> QED BY <1>2, <1>4, <3>3, <3>5, <3>6, <3>7 DEF TradeInv
  <2> QED BY <2>1, <2>2
<1>11. LogInv'
  <2>1. Len(log) = n
    BY <1>1, <1>4 DEF LogInv
  <2>2. \A k \in 2..n : log[k] = Expected(k)
    BY <1>1, <2>1 DEF LogInv
  <2>3. \A k \in 2..n : firstLog'[k] = Expected(k)
    <3>1. CASE runs = 0
      BY <1>2, <2>2, <3>1
    <3>2. CASE runs # 0
      <4>1. runs > 0 /\ firstLog' = firstLog
        BY <1>2, <1>3, <3>2
      <4> QED BY <1>1, <1>4, <4>1 DEF LogInv
    <3> QED BY <3>1, <3>2
  <2>4. Len(bars') = n /\ \A k : Expected(k)' = Expected(k)
    BY <1>2, <1>4 DEF Expected
  <2> QED BY <1>1, <1>2, <2>1, <2>2, <2>3, <2>4 DEF LogInv
<1>12. EquityInv'
  <2>1. SumPnl(trades) + Gained(n) = equity
    <3>1. (n + 1) - 1 = n /\ n + 1 > 1
      BY <1>4
    <3> QED BY <1>1, <1>2, <1>4, <3>1 DEF EquityInv, ProfitIsEquity
  <2>2. SumPnl(trades') = equity
    <3>1. CASE position = "NONE"
      <4>1. SumPnl(trades) \in Int
        <5> DEFINE t == [entered |-> 0, exited |-> 0, side |-> "BUY", pnl |-> 0]
        <5>1. t \in TradeRecs
          BY DEF TradeRecs
        <5> HIDE DEF t
        <5> QED BY <1>7, <5>1, SumPnlAppend
      <4> QED BY <1>2, <1>6, <2>1, <3>1, <4>1
    <3>2. CASE position # "NONE"
      <4>1. PICK t : t = Trade(n)
        OBVIOUS
      <4>2. trades' = Append(trades, t) /\ t \in TradeRecs /\ t.pnl = Gained(n)
        BY <1>2, <1>4, <1>6, <3>2, <4>1 DEF Trade
      <4> QED BY <1>7, <2>1, <4>2, SumPnlAppend
    <3> QED BY <3>1, <3>2
  <2>3. metrics'.pnl = SumPnl(trades')
    BY <1>2, <1>7, TallyIs
  <2> QED BY <1>2, <2>2, <2>3 DEF EquityInv, ProfitIsEquity
<1> QED BY <1>8, <1>10, <1>11, <1>12 DEF BtInv
-----------------------------------------------------------------------------
(***************************************************************************)
(* Theorems.                                                               *)
(***************************************************************************)
\* Sampling runs before the file is loaded, backtests after: each leaves the other's
\* state alone, and load_csv reads what sampling wrote (Replay, every action).
THEOREM ReplayInvariance == ReplaySpec => [](LiveInv /\ BtInv)
<1>1. ReplayInit => LiveInv /\ BtInv
  BY InitLiveInv, InitBtInv DEF ReplayInit
<1>2. LiveInv /\ BtInv /\ [ReplayNext]_replayVars => LiveInv' /\ BtInv'
  <2> SUFFICES ASSUME LiveInv, BtInv, [ReplayNext]_replayVars PROVE LiveInv' /\ BtInv'
    OBVIOUS
  <2>1. CASE Live
    BY <2>1, SampleLive, BtUnchanged DEF Live
  <2>2. CASE LoadRows
    <3>1. RowInv
      BY DEF LiveInv
    <3> QED BY <2>2, <3>1, LiveUnchanged, LoadBt DEF LoadRows
  <2>3. CASE Test
    <3>1. BtInv'
      BY <2>3, StartBt, OnBarBt, FinishBt DEF Test, BtNext
    <3> QED BY <2>3, <3>1, LiveUnchanged DEF Test
  <2>4. CASE UNCHANGED replayVars
    BY <2>4, LiveUnchanged, BtUnchanged DEF replayVars
  <2> QED BY <2>1, <2>2, <2>3, <2>4 DEF ReplayNext
<1> QED BY <1>1, <1>2, PTL DEF ReplaySpec

\* Two crossings of VWAP in a row are a BUY and a SELL (SignalGenerator::update fed by
\* main), for any windows, thresholds and prices.
THEOREM CrossingsDiffer == ReplaySpec => []CrossingsAlternate
<1>1. LiveInv /\ BtInv => CrossingsAlternate
  BY DEF LiveInv, SignalInv
<1> QED BY <1>1, ReplayInvariance, PTL

\* The sum over the buffer is the sum over the same samples of the feed.
LEMMA RingSum ==
  ASSUME RingInv, NEW a \in Nat \ {0}, NEW b \in Nat, b <= Len(ring)
  PROVE  SumPrices(ring, a, b) = SumPrices(feed, a, b)
<1> DEFINE S == a..b
           f == [i \in S |-> ring[i].price]
<1>1. IsFiniteSet(S)
  BY FS_Interval
<1>2. ASSUME NEW i \in S
      PROVE  f[i] \in Int /\ f[i] = ring[i].price /\ f[i] = feed[i].price
  <2>1. ring \in Seq(Samples) /\ Len(ring) \in Nat
    BY DEF RingInv
  <2>2. i \in 1..Len(ring)
    BY <2>1
  <2>3. ring[i] \in Samples /\ ring[i] = feed[i]
    BY <2>1, <2>2 DEF RingInv
  <2>4. ring[i].price \in Nat
    BY <2>3, IndicatorsAssumption DEF Samples
  <2> QED BY <2>3, <2>4
<1>3. PICK g : g = f
  OBVIOUS
<1> HIDE DEF S, f
<1>4. MapThenSumSet(LAMBDA i : ring[i].price, S) = Total(g, S)
  BY <1>1, <1>2, <1>3, PriceTotal
<1>5. MapThenSumSet(LAMBDA i : feed[i].price, S) = Total(g, S)
  BY <1>1, <1>2, <1>3, PriceTotal
<1> QED BY <1>4, <1>5 DEF S, SumPrices

\* Quantities and values of the first samples, as Indicators and Replay add them up.
FeedVolume(n) == MapThenSumSet(LAMBDA i : feed[i].volume, 1..n)
FeedValue(n) == MapThenSumSet(LAMBDA i : feed[i].price * feed[i].volume, 1..n)

LEMMA PrefixTotals ==
  ASSUME RingInv, NEW n \in Nat, n <= Len(feed)
  PROVE  FeedVolume(n) = VolumesIn(feed, n) /\ FeedValue(n) = ValuesIn(feed, n)
<1> DEFINE S == 1..n
           f == [i \in S |-> feed[i].volume]
           h == [i \in S |-> feed[i].price * feed[i].volume]
<1>1. IsFiniteSet(S)
  BY FS_Interval
<1>2. ASSUME NEW i \in S
      PROVE  /\ f[i] = feed[i].volume /\ f[i] \in Int
             /\ h[i] = feed[i].price * feed[i].volume /\ h[i] \in Int
  <2>1. feed \in Seq(Samples) /\ Len(feed) \in Nat
    BY DEF RingInv
  <2>2. feed[i] \in Samples
    BY <2>1
  <2>3. feed[i].price \in Nat /\ feed[i].volume \in Nat
    BY <2>2, IndicatorsAssumption DEF Samples
  <2>4. feed[i].price * feed[i].volume \in Int
    BY <2>3
  <2> QED BY <2>3, <2>4
<1>3. PICK g, k : g = f /\ k = h
  OBVIOUS
<1>4. VolumesIn(feed, n) = Total(g, S) /\ ValuesIn(feed, n) = Total(k, S)
  BY <1>3 DEF VolumesIn, ValuesIn
<1> HIDE DEF S, f, h
<1>5. MapThenSumSet(LAMBDA i : feed[i].volume, S) = Total(g, S)
  BY <1>1, <1>2, <1>3, VolumeTotal
<1>6. MapThenSumSet(LAMBDA i : feed[i].price * feed[i].volume, S) = Total(k, S)
  BY <1>1, <1>2, <1>3, ValueTotal
<1> QED BY <1>4, <1>5, <1>6 DEF S, FeedVolume, FeedValue

\* SMA is the sum over the newest SmaWindow samples, as long as the buffer has not had
\* to refuse one; VWAP's sums span the session.
AverageWindows ==
  /\ Len(feed) <= MaxSamples /\ Len(feed) >= SmaWindow =>
       sma = SumPrices(feed, Len(feed) - SmaWindow + 1, Len(feed))
  /\ sumV = FeedVolume(Len(feed))
  /\ sumPV = FeedValue(Len(feed))

\* The averages of a session that fits the buffer (VWAPCalculator::add_price and
\* compute_sma).
THEOREM AveragesAre == ReplaySpec => []AverageWindows
<1>1. LiveInv /\ BtInv => AverageWindows
  <2> SUFFICES ASSUME LiveInv PROVE AverageWindows
    OBVIOUS
  <2>1. RingInv /\ SumInv /\ Len(feed) \in Nat
    BY DEF LiveInv, RingInv
  <2>2. ASSUME Len(feed) <= MaxSamples, Len(feed) >= SmaWindow
        PROVE  sma = SumPrices(feed, Len(feed) - SmaWindow + 1, Len(feed))
    <3>1. Len(ring) = Len(feed)
      BY <2>1, <2>2, IndicatorsAssumption DEF RingInv
    <3>2. Len(feed) - SmaWindow + 1 \in Nat \ {0}
      BY <2>1, <2>2, IndicatorsAssumption
    <3>3. sma = SumPrices(ring, Len(feed) - SmaWindow + 1, Len(feed))
      BY <2>1, <2>2, <3>1, IndicatorsAssumption DEF SumInv, Sma
    <3> QED BY <2>1, <3>1, <3>2, <3>3, RingSum
  <2>3. FeedVolume(Len(feed)) = sumV /\ FeedValue(Len(feed)) = sumPV
    BY <2>1, PrefixTotals DEF SumInv
  <2> QED BY <2>2, <2>3 DEF AverageWindows
<1> QED BY <1>1, ReplayInvariance, PTL

\* Printing to the cent moves VWAP by at most half a cent.
LEMMA PrintedNear ==
  ASSUME NEW p \in Nat, NEW pv \in Nat, NEW v \in Nat, NEW r, r = PrintedVwap(pv, v)
  PROVE  /\ p > r => AboveVwap(p, pv, v)
         /\ p <= r => 2 * (p * v - pv) <= v
<1>1. CASE v = 0
  <2>1. p * v = 0
    BY <1>1
  <2> QED BY <1>1, <2>1 DEF AboveVwap
<1>2. CASE v # 0
  <2>1. r = Rounded(pv, v)
    BY <1>2 DEF PrintedVwap
  <2>2. r \in Nat /\ 2 * v * r <= 2 * pv + v /\ 2 * pv + v < 2 * v * r + 2 * v
    BY <1>2, <2>1, RoundedIs
  <2>3. ASSUME p > r PROVE p * v > pv
    <3>1. PICK d \in Nat : p = r + 1 + d
      <4>1. p - r - 1 \in Nat /\ p = r + 1 + (p - r - 1)
        BY <2>2, <2>3
      <4> QED BY <4>1
    <3>2. PICK x, y : x = r * v /\ y = d * v
      OBVIOUS
    <3>3. x \in Nat /\ y \in Nat /\ p * v = x + v + y /\ 2 * v * r = 2 * x
      BY <2>2, <3>1, <3>2
    <3> QED BY <2>2, <3>3
  <2>4. ASSUME p <= r PROVE 2 * (p * v - pv) <= v
    <3>1. PICK d \in Nat : r = p + d
      <4>1. r - p \in Nat /\ r = p + (r - p)
        BY <2>2, <2>4
      <4> QED BY <4>1
    <3>2. PICK x, y : x = p * v /\ y = d * v
      OBVIOUS
    <3>3. x \in Nat /\ y \in Nat /\ 2 * v * r = 2 * x + 2 * y
      BY <3>1, <3>2
    <3>4. 2 * (x - pv) <= v
      BY <2>2, <3>3
    <3> QED BY <3>2, <3>4
  <2> QED BY <2>3, <2>4 DEF AboveVwap
<1> QED BY <1>1, <1>2

\* The row printed for a sample may hide that its price was above VWAP, by at most half
\* a cent, and never claims it (main writing market_data.csv, Backtester::load_csv).
THEOREM FileHidesOnly == ReplaySpec => []ReplayHidesOnly
<1>1. LiveInv /\ BtInv => ReplayHidesOnly
  <2> SUFFICES ASSUME LiveInv, NEW k \in 1..Len(rows), NEW n, n = k * RowEvery,
                      NEW pv, pv = FeedValue(n), NEW v, v = FeedVolume(n)
               PROVE  /\ rows[k].price > rows[k].vwap => AboveVwap(feed[n].price, pv, v)
                      /\ rows[k].price <= rows[k].vwap => 2 * (feed[n].price * v - pv) <= v
    BY DEF ReplayHidesOnly, FeedValue, FeedVolume
  <2>1. RingInv /\ RowOf(k)
    BY DEF LiveInv, RowInv
  <2>2. rows[k] \in RowRecs
    <3>1. rows \in Seq(RowRecs)
      BY DEF LiveInv, RowInv
    <3> QED BY <3>1
  <2>3. n \in 1..Len(feed) /\ Len(feed) \in Nat
    BY <2>1 DEF RowOf, RingInv
  <2>4. v = VolumesIn(feed, n) /\ pv = ValuesIn(feed, n)
    <3>1. n \in Nat /\ n <= Len(feed)
      BY <2>3
    <3> QED BY <2>1, <3>1, PrefixTotals
  <2>5. PICK p, r : p = rows[k].price /\ r = rows[k].vwap
    OBVIOUS
  <2>6. p \in Nat /\ p = feed[n].price /\ r = PrintedVwap(pv, v) /\ pv \in Nat /\ v \in Nat
    BY <2>1, <2>2, <2>4, <2>5 DEF RowOf, RowRecs
  <2>7. /\ p > r => AboveVwap(p, pv, v)
        /\ p <= r => 2 * (p * v - pv) <= v
    BY <2>6, PrintedNear
  <2> QED BY <2>5, <2>6, <2>7
<1> QED BY <1>1, ReplayInvariance, PTL

\* The trades of a run follow one another; only the forced exit at the last bar can
\* close a position where it was opened (Backtester::run).
THEOREM TradesFollow == ReplaySpec => []TradesDisjoint
<1>1. LiveInv /\ BtInv => TradesDisjoint
  BY DEF BtInv, TradeInv
<1> QED BY <1>1, ReplayInvariance, PTL

\* What compute_metrics reports is what the positions gained bar by bar, and on the way
\* the closed trades and the open position add up to it (Backtester::run).
THEOREM ProfitAddsUp == ReplaySpec => []ProfitIsEquity
<1>1. LiveInv /\ BtInv => ProfitIsEquity
  BY DEF BtInv, EquityInv
<1> QED BY <1>1, ReplayInvariance, PTL

\* A run that is not the first begins with another run's generator and still sees the
\* first run's signals from the second bar on (Backtester::run, signal_gen_).
THEOREM RerunsAgree == ReplaySpec => []RerunAgrees
<1>1. LiveInv /\ BtInv => RerunAgrees
  <2> SUFFICES ASSUME BtInv, runs > 0, NEW k \in 2..Len(log) PROVE log[k] = firstLog[k]
    BY DEF RerunAgrees
  <2>1. Len(log) = next - 1 /\ next \in 1..(Len(bars) + 1) /\ bars \in Seq(BarRecs)
    BY DEF BtInv, LogInv, BtTypes
  <2>2. k \in 2..Len(bars)
    BY <2>1
  <2> QED BY <2>2 DEF BtInv, LogInv
<1> QED BY <1>1, ReplayInvariance, PTL
=============================================================================
