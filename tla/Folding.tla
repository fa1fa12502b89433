------------------------------- MODULE Folding -------------------------------
(***************************************************************************)
(* Lemmas about what the models compute by folding: least and greatest     *)
(* numbers, folds over a sequence and sums over a finite set. The folds of *)
(* the community modules are functions given by a recursive equation; that *)
(* one solves it is shown here once, for every step that stays in a set.   *)
(***************************************************************************)
EXTENDS Integers, Sequences, FiniteSets, FiniteSetsExt, SequencesExt, TLAPS, FiniteSetTheorems,
        SequenceTheorems, WellFoundedInduction

\* A set of natural numbers has a least one.
LEMMA MinOf ==
  ASSUME NEW S, S \subseteq Nat, S # {}
  PROVE  Min(S) \in S /\ \A x \in S : Min(S) <= x
<1>1. PICK m \in S : \A x \in S : <<x, m>> \notin OpToRel(<, Nat)
  BY WFMin, NatLessThanWellFounded
<1>2. ASSUME NEW x \in S, x < m PROVE FALSE
  <2>1. <<x, m>> \in Nat \X Nat /\ <<x, m>>[1] < <<x, m>>[2]
    BY <1>2
  <2>2. <<x, m>> \in OpToRel(<, Nat)
    BY <2>1 DEF OpToRel
  <2> QED BY <1>1, <2>2
<1>3. \A x \in S : m <= x
  BY <1>2
<1> QED BY <1>3 DEF Min

\* What holds at 0 and is passed on holds up to n.
LEMMA UpTo ==
  ASSUME NEW n \in Nat, NEW S, 0 \in S, \A k \in 0..(n - 1) : k \in S => k + 1 \in S
  PROVE  \A k \in 0..n : k \in S
<1> DEFINE D == {k \in 0..n : k \notin S}
<1>1. SUFFICES ASSUME D # {} PROVE FALSE
  OBVIOUS
<1>2. D \subseteq Nat
  OBVIOUS
<1>3. PICK m \in D : \A x \in D : m <= x
  BY <1>1, <1>2, MinOf
<1>4. m # 0 /\ m \in 0..n
  BY <1>3
<1>5. m - 1 \in 0..n /\ m - 1 \notin D
  BY <1>3, <1>4
<1>6. m \in S
  BY <1>4, <1>5
<1> QED BY <1>3, <1>6

\* The greatest of some numbers, all of them at most n.
LEMMA MaxUpTo ==
  ASSUME NEW n \in Nat, NEW u, u \subseteq 0..n, u # {}
  PROVE  Max(u) \in u /\ \A x \in u : x <= Max(u)
<1> DEFINE V == {n - x : x \in u}
<1>1. V \subseteq Nat /\ V # {}
  <2>1. \A x \in u : n - x \in Nat
    OBVIOUS
  <2> QED BY <2>1
<1>2. PICK v \in V : \A y \in V : v <= y
  BY <1>1, MinOf
<1>3. PICK m \in u : v = n - m
  BY <1>2
<1>4. \A x \in u : x <= m
  BY <1>2, <1>3
<1> QED BY <1>4 DEF Max

LEMMA MaxOf ==
  ASSUME NEW n \in Nat, NEW u, u \subseteq 1..n, u # {}
  PROVE  Max(u) \in u /\ \A x \in u : x <= Max(u)
<1>1. u \subseteq 0..n
  OBVIOUS
<1> QED BY <1>1, MaxUpTo

\* The greater of two numbers.
LEMMA MaxOfTwo ==
  ASSUME NEW a \in Nat, NEW b \in Nat
  PROVE  Max({a, b}) = IF a <= b THEN b ELSE a
<1> DEFINE m == IF a <= b THEN b ELSE a
<1>1. m \in {a, b} /\ \A x \in {a, b} : m >= x
  OBVIOUS
<1>2. \A y \in {a, b} : (\A x \in {a, b} : y >= x) => y = m
  OBVIOUS
<1> QED BY <1>1, <1>2 DEF Max

\* What is in a sequence with one more at its end.
LEMMA Appended ==
  ASSUME NEW S, NEW s \in Seq(S), NEW e \in S
  PROVE  ToSet(Append(s, e)) = ToSet(s) \cup {e}
<1>1. /\ Len(s) \in Nat /\ DOMAIN s = 1..Len(s) /\ Len(Append(s, e)) = Len(s) + 1
      /\ DOMAIN Append(s, e) = 1..(Len(s) + 1)
      /\ \A i \in 1..Len(s) : Append(s, e)[i] = s[i]
      /\ Append(s, e)[Len(s) + 1] = e
  BY AppendProperties
<1> QED BY <1>1 DEF ToSet

-----------------------------------------------------------------------------
(* Folds: ch says which element of what is left comes next.                *)

FoldsBy(g, D, R, base, T, ch) ==
  /\ g \in [SUBSET D -> R]
  /\ \A u \in SUBSET D : g[u] = IF u = {} THEN base ELSE T[<<ch[u], g[u \ {ch[u]}]>>]

\* A step that stays in R can be folded over a finite set.
LEMMA FoldExists ==
  ASSUME NEW D, IsFiniteSet(D), NEW R, NEW base \in R, NEW T \in [D \X R -> R],
         NEW ch, \A u \in SUBSET D : u # {} => ch[u] \in u
  PROVE  \E g : FoldsBy(g, D, R, base, T, ch)
<1> DEFINE Next(g, u) == IF u = {} THEN base ELSE T[<<ch[u], g[u \ {ch[u]}]>>]
           Upto(g, k) == /\ g \in [SUBSET D -> R]
                         /\ \A u \in SUBSET D : Cardinality(u) <= k => g[u] = Next(g, u)
           n == Cardinality(D)
           S == {k \in 0..n : \E g : Upto(g, k)}
<1>1. /\ n \in Nat
      /\ \A u \in SUBSET D : /\ IsFiniteSet(u) /\ Cardinality(u) \in Nat /\ Cardinality(u) <= n
                             /\ Cardinality(u) = 0 <=> u = {}
  BY FS_Subset, FS_CardinalityType, FS_EmptySet
<1>2. \A u \in SUBSET D : u # {} => /\ ch[u] \in D /\ u \ {ch[u]} \in SUBSET D
                                    /\ Cardinality(u \ {ch[u]}) = Cardinality(u) - 1
  BY <1>1, FS_RemoveElement
<1>3. ASSUME NEW g \in [SUBSET D -> R], NEW u \in SUBSET D PROVE Next(g, u) \in R
  BY <1>2
<1>4. 0 \in S
  <2> DEFINE g == [u \in SUBSET D |-> base]
  <2>1. \A u \in SUBSET D : Cardinality(u) <= 0 => u = {}
    BY <1>1
  <2>2. Upto(g, 0)
    BY <2>1
  <2> HIDE DEF g, n, Upto
  <2> QED BY <1>1, <2>2
<1>5. ASSUME NEW k \in 0..(n - 1), k \in S PROVE k + 1 \in S
  <2>1. PICK g : Upto(g, k)
    BY <1>5
  <2> DEFINE f == [u \in SUBSET D |-> IF Cardinality(u) <= k THEN g[u] ELSE Next(g, u)]
  <2>2. g \in [SUBSET D -> R]
    BY <2>1
  <2>3. f \in [SUBSET D -> R]
    <3> HIDE DEF Next
    <3>1. \A u \in SUBSET D : (IF Cardinality(u) <= k THEN g[u] ELSE Next(g, u)) \in R
      BY <1>3, <2>2
    <3> QED BY <3>1
  <2>4. ASSUME NEW u \in SUBSET D, Cardinality(u) <= k + 1 PROVE f[u] = Next(f, u)
    <3>1. f[u] = Next(g, u)
      BY <2>1
    <3>2. CASE u = {}
      BY <3>1, <3>2
    <3>3. CASE u # {}
      <4>1. /\ u \ {ch[u]} \in SUBSET D /\ Cardinality(u \ {ch[u]}) = Cardinality(u) - 1
            /\ Cardinality(u) \in Nat /\ k \in Int
        BY <1>1, <1>2, <3>3
      <4>2. Cardinality(u \ {ch[u]}) <= k
        BY <2>4, <4>1
      <4>3. f[u \ {ch[u]}] = g[u \ {ch[u]}]
        BY <4>1, <4>2
      <4> HIDE DEF f
      <4> QED BY <3>1, <3>3, <4>3
    <3> QED BY <3>2, <3>3
  <2>5. Upto(f, k + 1)
    <3> HIDE DEF f, Next
    <3> QED BY <2>3, <2>4
  <2>6. k + 1 \in 0..n
    BY <1>1
  <2> HIDE DEF f, n, Upto
  <2> QED BY <2>5, <2>6
<1>6. n \in S
  <2> HIDE DEF S, n
  <2> QED BY <1>1, <1>4, <1>5, UpTo
<1>7. PICK g : Upto(g, n)
  BY <1>6
<1>8. FoldsBy(g, D, R, base, T, ch)
  BY <1>1, <1>7 DEF FoldsBy
<1> QED BY <1>8

\* What is left of a prefix without its last position.
LEMMA Prefix ==
  ASSUME NEW n \in Nat, NEW k \in 1..n
  PROVE  1..k # {} /\ 1..k \subseteq 1..n /\ Max(1..k) = k /\ (1..k) \ {k} = 1..(k - 1)
<1>1. 1..k \subseteq 1..n /\ k \in 1..k
  OBVIOUS
<1>2. Max(1..k) \in 1..k /\ k <= Max(1..k)
  BY <1>1, MaxOf
<1> QED BY <1>1, <1>2

\* From the left end of n positions to the right end.
FoldsTo(g, n, R, base, T) ==
  /\ g \in [SUBSET (1..n) -> R]
  /\ \A u \in SUBSET (1..n) : g[u] = IF u = {} THEN base ELSE T[<<Max(u), g[u \ {Max(u)}]>>]

LEMMA FoldSolution ==
  ASSUME NEW n \in Nat, NEW R, NEW base \in R, NEW T \in [(1..n) \X R -> R]
  PROVE  \E g : FoldsTo(g, n, R, base, T)
<1> DEFINE ch == [u \in SUBSET (1..n) |-> Max(u)]
<1>1. IsFiniteSet(1..n)
  BY FS_Interval
<1>2. \A u \in SUBSET (1..n) : u # {} => ch[u] \in u
  BY MaxOf
<1>3. PICK g : FoldsBy(g, 1..n, R, base, T, ch)
  <2> HIDE DEF ch
  <2> QED BY <1>1, <1>2, FoldExists
<1>4. FoldsTo(g, n, R, base, T)
  BY <1>3 DEF FoldsBy, FoldsTo
<1> QED BY <1>4

-----------------------------------------------------------------------------
(* Finite sets, one element after the other.                               *)

\* What holds of the empty set, and of a set when of all of it but any one,
\* holds of every subset.
LEMMA EverySubset ==
  ASSUME NEW D, IsFiniteSet(D), NEW P, {} \in P,
         \A u \in SUBSET D : u # {} /\ (\A x \in u : u \ {x} \in P) => u \in P
  PROVE  \A u \in SUBSET D : u \in P
<1> DEFINE S == {Cardinality(u) : u \in {v \in SUBSET D : v \notin P}}
<1>1. \A u \in SUBSET D : IsFiniteSet(u) /\ Cardinality(u) \in Nat
  BY FS_Subset, FS_CardinalityType
<1>2. S \subseteq Nat
  BY <1>1
<1>3. SUFFICES ASSUME S # {} PROVE FALSE
  OBVIOUS
<1>4. Min(S) \in S /\ \A m \in S : Min(S) <= m
  BY <1>2, <1>3, MinOf
<1>5. PICK u \in SUBSET D : u \notin P /\ Min(S) = Cardinality(u)
  BY <1>4
<1>6. PICK x \in u : u \ {x} \notin P
  BY <1>5
<1>7. Cardinality(u \ {x}) = Cardinality(u) - 1 /\ u \ {x} \in SUBSET D
  BY <1>1, <1>5, <1>6, FS_RemoveElement
<1>8. Cardinality(u \ {x}) \in S
  BY <1>6, <1>7
<1>9. Cardinality(u) \in Nat /\ Cardinality(u) <= Cardinality(u) - 1
  BY <1>1, <1>4, <1>5, <1>7, <1>8
<1> QED BY <1>9

\* g has the total of w over every subset of D.
IsTotal(g, D, w) ==
  /\ g \in [SUBSET D -> Int] /\ g[{}] = 0
  /\ \A u \in SUBSET D : \A x \in u : g[u] = w[x] + g[u \ {x}]

LEMMA TotalExists ==
  ASSUME NEW D, IsFiniteSet(D), NEW w \in [D -> Int]
  PROVE  \E g : IsTotal(g, D, w)
<1> DEFINE P == {u \in SUBSET D : \E g : IsTotal(g, u, w)}
<1>1. {} \in P
  <2> DEFINE g == [u \in SUBSET {} |-> 0]
  <2>1. IsTotal(g, {}, w)
    BY DEF IsTotal
  <2> HIDE DEF g
  <2> QED BY <2>1
<1>2. ASSUME NEW v \in SUBSET D, NEW x \in v, v \ {x} \in P PROVE v \in P
  <2>1. PICK g : IsTotal(g, v \ {x}, w)
    BY <1>2
  <2> DEFINE f == [u \in SUBSET v |-> IF x \in u THEN w[x] + g[u \ {x}] ELSE g[u]]
  <2>2. \A u \in SUBSET v : u \ {x} \in SUBSET (v \ {x}) /\ (x \notin u => u \in SUBSET (v \ {x}))
    OBVIOUS
  <2>3. \A u \in SUBSET (v \ {x}) : g[u] \in Int
    BY <2>1 DEF IsTotal
  <2>4. \A y \in v : w[y] \in Int
    OBVIOUS
  <2>5. f \in [SUBSET v -> Int]
    BY <2>2, <2>3, <2>4
  <2>6. f[{}] = 0
    BY <2>1 DEF IsTotal
  <2>7. ASSUME NEW u \in SUBSET v, NEW y \in u PROVE f[u] = w[y] + f[u \ {y}]
    <3>1. CASE y = x
      BY <3>1
    <3>2. CASE y # x /\ x \notin u
      <4>1. g[u] = w[y] + g[u \ {y}]
        BY <2>1, <2>2, <3>2 DEF IsTotal
      <4> QED BY <3>2, <4>1
    <3>3. CASE y # x /\ x \in u
      <4> DEFINE r == u \ {x}
      <4>1. r \in SUBSET (v \ {x}) /\ y \in r /\ r \ {y} \in SUBSET (v \ {x})
        BY <3>3
      <4>2. g[r] = w[y] + g[r \ {y}] /\ g[r \ {y}] \in Int
        BY <2>1, <2>3, <4>1 DEF IsTotal
      <4>3. (u \ {y}) \ {x} = r \ {y} /\ x \in u \ {y} /\ u \ {y} \in SUBSET v
        BY <3>3
      <4>4. f[u \ {y}] = w[x] + g[r \ {y}]
        BY <4>3
      <4>5. f[u] = w[x] + g[r]
        BY <3>3
      <4>6. w[x] \in Int /\ w[y] \in Int
        BY <2>4
      <4> HIDE DEF f, r
      <4> QED BY <4>2, <4>4, <4>5, <4>6
    <3> QED BY <3>1, <3>2, <3>3
  <2>8. IsTotal(f, v, w)
    BY <2>5, <2>6, <2>7 DEF IsTotal
  <2> HIDE DEF f
  <2> QED BY <2>8
<1>3. \A v \in SUBSET D : v # {} /\ (\A x \in v : v \ {x} \in P) => v \in P
  BY <1>2
<1> HIDE DEF P
<1>4. D \in P
  BY <1>1, <1>3, EverySubset
<1> QED BY <1>4 DEF P

\* f sums w up over A, one element after the other.
AddsOneByOne(f, A, w) ==
  /\ f[{}] = 0
  /\ \A u \in SUBSET A : u # {} => \E x \in u : f[u] = w[x] + f[u \ {x}]

\* Whatever element comes next, that is the total.
LEMMA TotalIsUnique ==
  ASSUME NEW D, IsFiniteSet(D), NEW w, NEW g, IsTotal(g, D, w), NEW A \in SUBSET D,
         NEW f, AddsOneByOne(f, A, w)
  PROVE  f[A] = g[A]
<1> USE DEF AddsOneByOne
<1> DEFINE P == {u \in SUBSET D : u \in SUBSET A => f[u] = g[u]}
<1>1. {} \in P
  BY DEF IsTotal
<1>2. ASSUME NEW u \in SUBSET D, u # {}, \A x \in u : u \ {x} \in P PROVE u \in P
  <2>1. ASSUME u \in SUBSET A PROVE f[u] = g[u]
    <3>1. PICK x \in u : f[u] = w[x] + f[u \ {x}]
      BY <1>2, <2>1
    <3>2. f[u \ {x}] = g[u \ {x}]
      BY <1>2, <2>1
    <3>3. g[u] = w[x] + g[u \ {x}]
      BY DEF IsTotal
    <3> QED BY <3>1, <3>2, <3>3
  <2> QED BY <2>1
<1>3. \A u \in SUBSET D : u # {} /\ (\A x \in u : u \ {x} \in P) => u \in P
  BY <1>2
<1>4. \A u \in SUBSET D : u \in P
  <2> HIDE DEF P
  <2> QED BY <1>1, <1>3, EverySubset
<1> QED BY <1>4

\* Every element of S has a weight.
Weighs(w, S) == \A x \in S : w[x] \in Int

\* A total is split at any part of the set.
LEMMA TotalSplits ==
  ASSUME NEW D, IsFiniteSet(D), NEW w, Weighs(w, D), NEW g, IsTotal(g, D, w),
         NEW A \in SUBSET D, NEW K \in SUBSET A
  PROVE  g[A] = g[A \ K] + g[K]
<1> DEFINE P == {u \in SUBSET D : \A v \in SUBSET D : v \cap u = {} => g[v \cup u] = g[v] + g[u]}
<1>1. \A u \in SUBSET D : g[u] \in Int
  BY DEF IsTotal
<1>2. {} \in P
  BY <1>1 DEF IsTotal
<1>3. ASSUME NEW u \in SUBSET D, u # {}, \A x \in u : u \ {x} \in P PROVE u \in P
  <2>1. ASSUME NEW v \in SUBSET D, v \cap u = {} PROVE g[v \cup u] = g[v] + g[u]
    <3>1. PICK x : x \in u
      BY <1>3
    <3>2. g[v \cup (u \ {x})] = g[v] + g[u \ {x}]
      BY <1>3, <2>1, <3>1
    <3>3. g[u] = w[x] + g[u \ {x}]
      BY <3>1 DEF IsTotal
    <3>4. v \cup u \in SUBSET D /\ x \in v \cup u /\ (v \cup u) \ {x} = v \cup (u \ {x})
      BY <2>1, <3>1
    <3>5. g[v \cup u] = w[x] + g[v \cup (u \ {x})]
      BY <3>4 DEF IsTotal
    <3>6. w[x] \in Int /\ g[v] \in Int /\ g[u \ {x}] \in Int
      BY <1>1, <3>1 DEF Weighs
    <3> QED BY <3>2, <3>3, <3>5, <3>6
  <2> QED BY <2>1
<1>4. \A u \in SUBSET D : u # {} /\ (\A x \in u : u \ {x} \in P) => u \in P
  BY <1>3
<1>5. \A u \in SUBSET D : u \in P
  <2> HIDE DEF P
  <2> QED BY <1>2, <1>4, EverySubset
<1>6. (A \ K) \cup K = A /\ (A \ K) \cap K = {} /\ A \ K \in SUBSET D /\ K \in SUBSET D
  OBVIOUS
<1> QED BY <1>5, <1>6

\* A total of natural numbers is one.
LEMMA TotalOfNat ==
  ASSUME NEW D, IsFiniteSet(D), NEW w \in [D -> Nat], NEW g, IsTotal(g, D, w)
  PROVE  \A u \in SUBSET D : g[u] \in Nat
<1> DEFINE P == {u \in SUBSET D : g[u] \in Nat}
<1>1. {} \in P
  BY DEF IsTotal
<1>2. ASSUME NEW u \in SUBSET D, u # {}, \A x \in u : u \ {x} \in P PROVE u \in P
  <2>1. PICK x : x \in u
    BY <1>2
  <2>2. g[u] = w[x] + g[u \ {x}] /\ w[x] \in Nat /\ g[u \ {x}] \in Nat
    BY <1>2, <2>1 DEF IsTotal
  <2> QED BY <2>2
<1>3. \A u \in SUBSET D : u # {} /\ (\A x \in u : u \ {x} \in P) => u \in P
  BY <1>2
<1>4. \A u \in SUBSET D : u \in P
  <2> HIDE DEF P
  <2> QED BY <1>1, <1>3, EverySubset
<1> QED BY <1>4

-----------------------------------------------------------------------------
(* Sums over a finite set.                                                 *)

\* The sum of the weights w gives the elements of S.
Sigma(S, w) == (CHOOSE g : IsTotal(g, S, w))[S]

LEMMA SigmaIs ==
  ASSUME NEW S, IsFiniteSet(S), NEW w, Weighs(w, S)
  PROVE  \E g : IsTotal(g, S, w) /\ \A A \in SUBSET S : Sigma(A, w) = g[A]
<1> USE DEF Weighs
<1> DEFINE v == [x \in S |-> w[x]]
<1>1. PICK g : IsTotal(g, S, v)
  <2>1. v \in [S -> Int]
    OBVIOUS
  <2> HIDE DEF v
  <2> QED BY <2>1, TotalExists
<1>2. IsTotal(g, S, w)
  <2>1. \A u \in SUBSET S : \A x \in u : v[x] = w[x]
    OBVIOUS
  <2> HIDE DEF v
  <2> QED BY <1>1, <2>1 DEF IsTotal
<1>3. ASSUME NEW A \in SUBSET S PROVE Sigma(A, w) = g[A]
  <2> DEFINE f == [u \in SUBSET A |-> g[u]]
             h == CHOOSE x : IsTotal(x, A, w)
  <2>1. IsTotal(f, A, w)
    <3>1. \A u \in SUBSET A : u \in SUBSET S /\ g[u] \in Int
      BY <1>2 DEF IsTotal
    <3>2. \A u \in SUBSET A : \A x \in u : f[u] = w[x] + f[u \ {x}]
      BY <1>2 DEF IsTotal
    <3> QED BY <1>2, <3>1, <3>2 DEF IsTotal
  <2>2. IsTotal(h, A, w)
    <3> HIDE DEF f
    <3> QED BY <2>1
  <2> HIDE DEF h
  <2>3. AddsOneByOne(h, A, w)
    BY <2>2 DEF IsTotal, AddsOneByOne
  <2>4. h[A] = g[A]
    BY <1>2, <2>3, TotalIsUnique
  <2> QED BY <2>4 DEF Sigma, h
<1> QED BY <1>2, <1>3

LEMMA SigmaFacts ==
  ASSUME NEW S, IsFiniteSet(S), NEW w, Weighs(w, S)
  PROVE  /\ Sigma({}, w) = 0 /\ Sigma(S, w) \in Int
         /\ \A x \in S : Sigma(S, w) = w[x] + Sigma(S \ {x}, w)
         /\ \A A \in SUBSET S : Sigma(A, w) \in Int /\ Sigma(S, w) = Sigma(S \ A, w) + Sigma(A, w)
<1>1. PICK g : IsTotal(g, S, w) /\ \A A \in SUBSET S : Sigma(A, w) = g[A]
  BY SigmaIs
<1>2. IsTotal(g, S, w)
  BY <1>1
<1>3. ASSUME NEW A \in SUBSET S PROVE g[S] = g[S \ A] + g[A]
  <2>1. \A X \in SUBSET S : A \in SUBSET X => g[X] = g[X \ A] + g[A]
    BY <1>2, TotalSplits
  <2> QED BY <2>1
<1> QED BY <1>1, <1>3 DEF IsTotal, Weighs

LEMMA SigmaStep ==
  ASSUME NEW S, IsFiniteSet(S), NEW w, Weighs(w, S), NEW u \in SUBSET S, NEW x \in u
  PROVE  /\ Sigma(u, w) = w[x] + Sigma(u \ {x}, w)
         /\ w[x] \in Int /\ Sigma(u, w) \in Int /\ Sigma(u \ {x}, w) \in Int
<1>1. IsFiniteSet(u) /\ Weighs(w, u) /\ u \ {x} \in SUBSET u
  BY FS_Subset DEF Weighs
<1>2. w[x] \in Int
  BY DEF Weighs
<1>3. /\ Sigma(u, w) \in Int /\ Sigma(u, w) = w[x] + Sigma(u \ {x}, w)
      /\ \A A \in SUBSET u : Sigma(A, w) \in Int
  BY <1>1, SigmaFacts
<1> QED BY <1>1, <1>2, <1>3

LEMMA SigmaOne ==
  ASSUME NEW x, NEW w, w[x] \in Int
  PROVE  Sigma({x}, w) = w[x]
<1>1. IsFiniteSet({x}) /\ {x} \ {x} = {} /\ Weighs(w, {x})
  BY FS_Singleton DEF Weighs
<1>2. Sigma({}, w) = 0 /\ Sigma({x}, w) = w[x] + Sigma({x} \ {x}, w)
  BY <1>1, SigmaFacts
<1>3. Sigma({x} \ {x}, w) = 0
  BY <1>1, <1>2, Zenon
<1> QED BY <1>2, <1>3

LEMMA SigmaUnion ==
  ASSUME NEW A, NEW B, IsFiniteSet(A), IsFiniteSet(B), A \cap B = {}, NEW w,
         Weighs(w, A \cup B)
  PROVE  /\ Sigma(A, w) \in Int /\ Sigma(B, w) \in Int
         /\ Sigma(A \cup B, w) = Sigma(A, w) + Sigma(B, w)
<1> DEFINE S == A \cup B
<1>1. IsFiniteSet(S) /\ A \in SUBSET S /\ B \in SUBSET S /\ S \ B = A
  BY FS_Union
<1>2. Weighs(w, S)
  OBVIOUS
<1> HIDE DEF S
<1>3. Sigma(A, w) \in Int /\ Sigma(B, w) \in Int /\ Sigma(S, w) = Sigma(S \ B, w) + Sigma(B, w)
  BY <1>1, <1>2, SigmaFacts
<1>4. Sigma(S \ B, w) = Sigma(A, w)
  BY <1>1, Zenon
<1> QED BY <1>3, <1>4 DEF S

\* h takes different elements of S to different ones of the same weight.
Carries(h, S, w, v) ==
  /\ \A x, y \in S : h[x] = h[y] => x = y
  /\ \A x \in S : v[h[x]] = w[x]

\* A sum over the images of S is one over S.
LEMMA SigmaMaps ==
  ASSUME NEW S, IsFiniteSet(S), NEW w, Weighs(w, S), NEW h, NEW v, Carries(h, S, w, v)
  PROVE  /\ IsFiniteSet({h[x] : x \in S}) /\ Weighs(v, {h[x] : x \in S})
         /\ Sigma({h[x] : x \in S}, v) = Sigma(S, w)
<1> USE DEF Carries
<1> DEFINE Im(u) == {h[x] : x \in u}
           P == {u \in SUBSET S : Sigma(Im(u), v) = Sigma(u, w)}
<1>1. \A u \in SUBSET S : IsFiniteSet(u) /\ IsFiniteSet(Im(u))
  <2>1. ASSUME NEW u \in SUBSET S PROVE IsFiniteSet(Im(u))
    <3> DEFINE f == [x \in u |-> h[x]]
    <3>1. f \in Surjection(u, Im(u))
      BY DEF Surjection
    <3>2. IsFiniteSet(u)
      BY FS_Subset
    <3> HIDE DEF f
    <3> QED BY <3>1, <3>2, FS_Surjection
  <2> QED BY <2>1, FS_Subset
<1>0. Weighs(v, Im(S))
  BY DEF Weighs
<1>2. {} \in P
  <2>1. Sigma({}, w) = 0 /\ Sigma({}, v) = 0
    <3>1. Weighs(v, {}) /\ IsFiniteSet({})
      BY FS_EmptySet DEF Weighs
    <3> QED BY <3>1, SigmaFacts
  <2>2. Im({}) = {}
    OBVIOUS
  <2> QED BY <2>1, <2>2
<1>3. ASSUME NEW u \in SUBSET S, u # {}, \A x \in u : u \ {x} \in P PROVE u \in P
  <2>1. PICK x \in u : TRUE
    BY <1>3
  <2>2. Sigma(Im(u \ {x}), v) = Sigma(u \ {x}, w)
    BY <1>3, <2>1
  <2>3. Im(u) \ {h[x]} = Im(u \ {x}) /\ h[x] \in Im(u)
    BY <2>1
  <2>4. Weighs(v, Im(u))
    BY DEF Weighs
  <2>5. Sigma(u, w) = w[x] + Sigma(u \ {x}, w) /\ IsFiniteSet(Im(u))
    BY <1>1, <2>1, SigmaStep
  <2> HIDE DEF Im
  <2>6. Sigma(Im(u), v) = v[h[x]] + Sigma(Im(u) \ {h[x]}, v)
    BY <2>3, <2>4, <2>5, SigmaFacts
  <2>7. Sigma(Im(u) \ {h[x]}, v) = Sigma(Im(u \ {x}), v)
    BY <2>3, Zenon
  <2> QED BY <2>1, <2>2, <2>5, <2>6, <2>7
<1>4. \A u \in SUBSET S : u # {} /\ (\A x \in u : u \ {x} \in P) => u \in P
  BY <1>3
<1>5. \A u \in SUBSET S : u \in P
  <2> HIDE DEF P
  <2> QED BY <1>2, <1>4, EverySubset
<1> QED BY <1>0, <1>1, <1>5

\* Equal weights, equal sums.
LEMMA SigmaSame ==
  ASSUME NEW S, IsFiniteSet(S), NEW w, Weighs(w, S), NEW v, \A x \in S : v[x] = w[x]
  PROVE  Weighs(v, S) /\ Sigma(S, v) = Sigma(S, w)
<1> DEFINE h == [x \in S |-> x]
<1>1. Carries(h, S, w, v) /\ {h[x] : x \in S} = S
  BY DEF Carries
<1> HIDE DEF h
<1>2. Weighs(v, {h[x] : x \in S}) /\ Sigma({h[x] : x \in S}, v) = Sigma(S, w)
  BY <1>1, SigmaMaps
<1> QED BY <1>1, <1>2, Zenon

\* A sum of sums.
LEMMA SigmaPlus ==
  ASSUME NEW S, IsFiniteSet(S), NEW w, NEW u, NEW v,
         \A x \in S : u[x] \in Int /\ v[x] \in Int /\ w[x] = u[x] + v[x]
  PROVE  Sigma(S, w) = Sigma(S, u) + Sigma(S, v)
<1> DEFINE P == {a \in SUBSET S : Sigma(a, w) = Sigma(a, u) + Sigma(a, v)}
<1>1. Weighs(u, S) /\ Weighs(v, S) /\ Weighs(w, S)
  BY DEF Weighs
<1>0. {} \in P
  BY <1>1, SigmaFacts
<1>2. ASSUME NEW a \in SUBSET S, a # {}, \A x \in a : a \ {x} \in P PROVE a \in P
  <2>1. PICK x \in a : TRUE
    BY <1>2
  <2>2. Sigma(a \ {x}, w) = Sigma(a \ {x}, u) + Sigma(a \ {x}, v)
    BY <1>2, <2>1
  <2>3. /\ Sigma(a, w) = w[x] + Sigma(a \ {x}, w) /\ Sigma(a, u) = u[x] + Sigma(a \ {x}, u)
        /\ Sigma(a, v) = v[x] + Sigma(a \ {x}, v)
        /\ Sigma(a \ {x}, u) \in Int /\ Sigma(a \ {x}, v) \in Int
    BY <1>1, <2>1, SigmaStep
  <2> QED BY <2>1, <2>2, <2>3
<1>3. \A a \in SUBSET S : a # {} /\ (\A x \in a : a \ {x} \in P) => a \in P
  BY <1>2
<1>4. \A a \in SUBSET S : a \in P
  <2> HIDE DEF P
  <2> QED BY <1>0, <1>3, EverySubset
<1> QED BY <1>4

\* k for every element.
LEMMA SigmaCount ==
  ASSUME NEW S, IsFiniteSet(S), NEW k \in Int, NEW w, \A x \in S : w[x] = k
  PROVE  Sigma(S, w) = k * Cardinality(S)
<1> DEFINE P == {u \in SUBSET S : Sigma(u, w) = k * Cardinality(u)}
<1>0. Weighs(w, S)
  BY DEF Weighs
<1>1. {} \in P
  BY <1>0, SigmaFacts, FS_EmptySet
<1>2. ASSUME NEW u \in SUBSET S, u # {}, \A x \in u : u \ {x} \in P PROVE u \in P
  <2>1. PICK x \in u : TRUE
    BY <1>2
  <2>2. Sigma(u \ {x}, w) = k * Cardinality(u \ {x})
    BY <1>2, <2>1
  <2>3. IsFiniteSet(u) /\ Cardinality(u) \in Nat
    BY FS_Subset, FS_CardinalityType
  <2>4. Sigma(u, w) = w[x] + Sigma(u \ {x}, w)
    BY <1>0, <2>1, SigmaStep
  <2>5. Cardinality(u \ {x}) = Cardinality(u) - 1
    BY <2>1, <2>3, FS_RemoveElement
  <2>6. \A n \in Nat : k + k * (n - 1) = k * n
    OBVIOUS
  <2>7. w[x] = k
    BY <2>1
  <2> QED BY <2>2, <2>3, <2>4, <2>5, <2>6, <2>7
<1>3. \A u \in SUBSET S : u # {} /\ (\A x \in u : u \ {x} \in P) => u \in P
  BY <1>2
<1>4. \A u \in SUBSET S : u \in P
  <2> HIDE DEF P
  <2> QED BY <1>1, <1>3, EverySubset
<1> QED BY <1>4

\* The groups F[i] have nothing in common, and the sums q[i].
Grouped(F, I, w, q) ==
  /\ \A i \in I : IsFiniteSet(F[i]) /\ Weighs(w, F[i]) /\ q[i] = Sigma(F[i], w)
  /\ \A i, j \in I : i # j => F[i] \cap F[j] = {}

\* Group by group.
LEMMA SigmaGroups ==
  ASSUME NEW I, IsFiniteSet(I), NEW F, NEW w, NEW q, Grouped(F, I, w, q)
  PROVE  /\ IsFiniteSet(UNION {F[i] : i \in I}) /\ Weighs(w, UNION {F[i] : i \in I})
         /\ Sigma(UNION {F[i] : i \in I}, w) = Sigma(I, q)
<1> USE DEF Grouped
<1> DEFINE Of(u) == UNION {F[i] : i \in u}
           P == {u \in SUBSET I : IsFiniteSet(Of(u)) /\ Sigma(Of(u), w) = Sigma(u, q)}
<1>1. Weighs(q, I)
  <2>1. \A i \in I : Sigma(F[i], w) \in Int
    BY SigmaFacts
  <2> QED BY <2>1 DEF Weighs
<1>2. {} \in P
  <2>1. Of({}) = {} /\ IsFiniteSet({})
    BY FS_EmptySet
  <2>2. Sigma({}, w) = 0 /\ Sigma({}, q) = 0
    <3>1. Weighs(w, {}) /\ Weighs(q, {})
      BY DEF Weighs
    <3> QED BY <2>1, <3>1, SigmaFacts
  <2> QED BY <2>1, <2>2
<1>3. ASSUME NEW u \in SUBSET I, u # {}, \A x \in u : u \ {x} \in P PROVE u \in P
  <2>1. PICK i \in u : TRUE
    BY <1>3
  <2> DEFINE v == u \ {i}
  <2>2. IsFiniteSet(Of(v)) /\ Sigma(Of(v), w) = Sigma(v, q)
    BY <1>3, <2>1
  <2>3. Of(u) = Of(v) \cup F[i] /\ Of(v) \cap F[i] = {}
    BY <2>1
  <2>4. Weighs(w, Of(v) \cup F[i]) /\ Weighs(w, F[i])
    BY <2>1 DEF Weighs
  <2>5. Sigma(u, q) = q[i] + Sigma(v, q) /\ Sigma(v, q) \in Int
    BY <1>1, <2>1, SigmaStep
  <2> HIDE DEF Of, v
  <2>6. /\ IsFiniteSet(Of(v) \cup F[i]) /\ Sigma(F[i], w) \in Int
        /\ Sigma(Of(v) \cup F[i], w) = Sigma(Of(v), w) + Sigma(F[i], w)
    <3>1. IsFiniteSet(F[i])
      OBVIOUS
    <3>2. IsFiniteSet(Of(v) \cup F[i])
      BY <2>2, <3>1, FS_Union
    <3> QED BY <2>2, <2>3, <2>4, <3>1, <3>2, SigmaUnion
  <2>7. Sigma(Of(u), w) = Sigma(Of(v) \cup F[i], w) /\ IsFiniteSet(Of(u))
    BY <2>3, <2>6, Zenon
  <2> QED BY <2>1, <2>2, <2>5, <2>6, <2>7
<1>4. \A u \in SUBSET I : u # {} /\ (\A x \in u : u \ {x} \in P) => u \in P
  BY <1>3
<1>5. \A u \in SUBSET I : u \in P
  <2> HIDE DEF P
  <2> QED BY <1>2, <1>4, EverySubset
<1>6. Weighs(w, Of(I))
  BY DEF Weighs
<1> QED BY <1>5, <1>6

=============================================================================
