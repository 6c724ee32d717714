------------------------------ MODULE DataLemmas ------------------------------
(***************************************************************************)
(* Lemmas about data: induction over the natural numbers, what a selection *)
(* from a sequence is, and sums.  The inductions are over sets of numbers, *)
(* which need no theorem with a predicate for a parameter.                 *)
(***************************************************************************)
EXTENDS Integers, Selections, FiniteSets, Functions, FiniteSetTheorems, WellFoundedInduction, TLAPS

LEMMA LeastOf ==
  ASSUME NEW S \in SUBSET Nat, S # {}
  PROVE  \E m \in S : \A n \in S : m <= n
<1> DEFINE R == {p \in Nat \X Nat : p[1] < p[2]}
<1>1. IsWellFoundedOn(R, Nat)
  BY NatLessThanWellFounded DEF OpToRel
<1> HIDE DEF R
<1>2. PICK m \in S : \A n \in S : ~ (<< n, m >> \in R)
  BY <1>1, WFMin
<1>3. ASSUME NEW n \in S, n < m PROVE FALSE
  <2>1. << n, m >> \in Nat \X Nat /\ << n, m >>[1] < << n, m >>[2]
    BY <1>3
  <2>2. QED BY <1>2, <2>1 DEF R
<1>4. QED BY <1>3

LEMMA SetInduction ==
  ASSUME NEW S \in SUBSET Nat, 0 \in S, \A n \in S : n + 1 \in S
  PROVE  S = Nat
<1>1. SUFFICES ASSUME Nat \ S # {} PROVE FALSE
  OBVIOUS
<1>2. PICK m \in Nat \ S : \A n \in Nat \ S : m <= n
  BY <1>1, LeastOf
<1>3. m # 0 /\ m - 1 \in Nat
  BY <1>2
<1>4. m - 1 \in S
  BY <1>2, <1>3
<1>5. QED BY <1>2, <1>3, <1>4

-----------------------------------------------------------------------------
(***************************************************************************)
(* Selections.                                                             *)
(***************************************************************************)
\* One step of the recursion in Picked.
PickStep(s, I, F, n) ==
  IF n = 0 THEN << >> ELSE IF n \in I THEN Append(F[n - 1], s[n]) ELSE F[n - 1]

LEMMA PrefixesExist ==
  ASSUME NEW s, NEW I
  PROVE  \A n \in Nat : \E F : F = [k \in 0..n |-> PickStep(s, I, F, k)]
<1> DEFINE T == {n \in Nat : \E F : F = [k \in 0..n |-> PickStep(s, I, F, k)]}
<1>1. 0 \in T
  <2> DEFINE F == [k \in 0..0 |-> << >>]
  <2>1. F = [k \in 0..0 |-> PickStep(s, I, F, k)]
    BY DEF PickStep
  <2> QED BY <2>1
<1>2. ASSUME NEW n \in T PROVE n + 1 \in T
  <2>1. PICK F : F = [k \in 0..n |-> PickStep(s, I, F, k)]
    OBVIOUS
  <2> DEFINE G == [k \in 0..(n + 1) |-> IF k <= n THEN F[k] ELSE PickStep(s, I, F, k)]
  <2>2. ASSUME NEW k \in 0..(n + 1) PROVE G[k] = PickStep(s, I, G, k)
    <3>1. CASE k = 0
      BY <2>1, <3>1 DEF PickStep
    <3>2. CASE k # 0
      <4>1. k - 1 \in 0..n /\ G[k - 1] = F[k - 1]
        BY <3>2
      <4>2. PickStep(s, I, G, k) = PickStep(s, I, F, k)
        BY <4>1, <3>2 DEF PickStep
      <4>3. QED BY <4>2, <2>1
    <3>3. QED BY <3>1, <3>2
  <2>3. G = [k \in 0..(n + 1) |-> G[k]]
    OBVIOUS
  <2> HIDE DEF G
  <2>4. G = [k \in 0..(n + 1) |-> PickStep(s, I, G, k)]
    BY <2>2, <2>3
  <2> QED BY <2>4
<1>3. T = Nat
  <2>1. T \subseteq Nat
    OBVIOUS
  <2> HIDE DEF T
  <2> QED BY <1>1, <1>2, <2>1, SetInduction
<1> QED BY <1>3

LEMMA PickedByPrefixes ==
  ASSUME NEW s, NEW I, Len(s) \in Nat
  PROVE  \E F : /\ F = [k \in 0..Len(s) |-> PickStep(s, I, F, k)]
                /\ Picked(s, I) = F[Len(s)]
<1>1. PICK H : H = [k \in 0..Len(s) |-> PickStep(s, I, H, k)]
  BY PrefixesExist
<1> DEFINE F == CHOOSE G : G = [n \in 0..Len(s) |->
                  IF n = 0 THEN << >> ELSE IF n \in I THEN Append(G[n - 1], s[n]) ELSE G[n - 1]]
<1>2. F = [n \in 0..Len(s) |->
             IF n = 0 THEN << >> ELSE IF n \in I THEN Append(F[n - 1], s[n]) ELSE F[n - 1]]
  BY <1>1 DEF PickStep
<1>3. Picked(s, I) = F[Len(s)]
  BY DEF Picked
<1> HIDE DEF F
<1>4. QED BY <1>2, <1>3 DEF PickStep

\* f says of each member of r from which index of s, of those in I, it comes.
Follows(r, s, I, f) ==
  /\ f \in [1..Len(r) -> I]
  /\ \A i, k \in 1..Len(r) : i < k => f[i] < f[k]
  /\ \A i \in 1..Len(r) : r[i] = s[f[i]]
  /\ \A n \in I : \E i \in 1..Len(r) : f[i] = n

LEMMA FollowsOneMore ==
  ASSUME NEW A, NEW r \in Seq(A), NEW s, NEW n \in Nat, NEW I, I \subseteq 1..n, NEW f,
         Follows(r, s, I, f), s[n + 1] \in A
  PROVE  \E g : Follows(Append(r, s[n + 1]), s, I \cup {n + 1}, g)
<1> DEFINE m == Len(r)
           q == Append(r, s[n + 1])
           g == [i \in 1..(m + 1) |-> IF i <= m THEN f[i] ELSE n + 1]
<1>1. m \in Nat /\ Len(q) = m + 1 /\ q[m + 1] = s[n + 1] /\ \A i \in 1..m : q[i] = r[i]
  OBVIOUS
<1>2. f \in [1..m -> I] /\ \A i \in 1..m : f[i] \in 1..n
  BY DEF Follows
<1> HIDE DEF q
<1>3. g \in [1..(m + 1) -> I \cup {n + 1}]
  BY <1>1, <1>2
<1>4. \A i, k \in 1..(m + 1) : i < k => g[i] < g[k]
  <2> SUFFICES ASSUME NEW i \in 1..(m + 1), NEW k \in 1..(m + 1), i < k PROVE g[i] < g[k]
    OBVIOUS
  <2>1. i \in 1..m /\ g[i] = f[i]
    BY <1>1
  <2>2. CASE k = m + 1
    BY <1>1, <1>2, <2>1, <2>2
  <2>3. CASE k \in 1..m
    BY <2>1, <2>3, <1>1 DEF Follows
  <2>4. QED BY <2>2, <2>3, <1>1
<1>5. \A i \in 1..(m + 1) : q[i] = s[g[i]]
  <2> SUFFICES ASSUME NEW i \in 1..(m + 1) PROVE q[i] = s[g[i]]
    OBVIOUS
  <2>1. CASE i = m + 1
    BY <1>1, <2>1
  <2>2. CASE i \in 1..m
    BY <1>1, <2>2 DEF Follows
  <2>3. QED BY <2>1, <2>2, <1>1
<1>6. \A k \in I \cup {n + 1} : \E i \in 1..(m + 1) : g[i] = k
  <2> SUFFICES ASSUME NEW k \in I \cup {n + 1} PROVE \E i \in 1..(m + 1) : g[i] = k
    OBVIOUS
  <2>1. CASE k = n + 1
    BY <1>1, <2>1
  <2>2. CASE k \in I
    <3>1. PICK i \in 1..m : f[i] = k
      BY <2>2 DEF Follows
    <3>2. QED BY <3>1, <1>1
  <2>3. QED BY <2>1, <2>2
<1> HIDE DEF g, m
<1>7. QED
  <2>1. Follows(q, s, I \cup {n + 1}, g)
    BY <1>1, <1>3, <1>4, <1>5, <1>6 DEF Follows
  <2>2. QED BY <2>1 DEF q

\* What Picked returns: the members at the chosen indices, each once, in their order.
LEMMA PickedFollows ==
  ASSUME NEW A, NEW s \in Seq(A), NEW I \in SUBSET (1..Len(s))
  PROVE  /\ Picked(s, I) \in Seq(A)
         /\ \E f : Follows(Picked(s, I), s, I, f)
<1>1. PICK F : F = [k \in 0..Len(s) |-> PickStep(s, I, F, k)] /\ Picked(s, I) = F[Len(s)]
  BY PickedByPrefixes
<1> DEFINE Ok(n) == F[n] \in Seq(A) /\ \E f : Follows(F[n], s, I \cap (1..n), f)
<1>2. Ok(0)
  <2>1. F[0] = << >> BY <1>1 DEF PickStep
  <2>2. Follows(<< >>, s, {}, [i \in {} |-> 0])
    BY DEF Follows
  <2>3. I \cap (1..0) = {} OBVIOUS
  <2>4. << >> \in Seq(A) OBVIOUS
  <2>5. QED BY <2>1, <2>2, <2>3, <2>4
<1>3. ASSUME NEW n \in Nat, n + 1 <= Len(s), Ok(n) PROVE Ok(n + 1)
  <2>1. PICK f : Follows(F[n], s, I \cap (1..n), f)
    BY <1>3
  <2>2. F[n + 1] = IF n + 1 \in I THEN Append(F[n], s[n + 1]) ELSE F[n]
    <3>1. n + 1 \in 0..Len(s) /\ n + 1 # 0 /\ (n + 1) - 1 = n
      BY <1>3
    <3>2. F[n + 1] = PickStep(s, I, F, n + 1)
      BY <1>1, <3>1
    <3>3. QED BY <3>1, <3>2 DEF PickStep
  <2>3. CASE n + 1 \notin I
    <3>1. I \cap (1..n) = I \cap (1..(n + 1))
      BY <2>3
    <3>2. QED BY <1>3, <2>1, <2>2, <2>3, <3>1
  <2>4. CASE n + 1 \in I
    <3>1. s[n + 1] \in A
      BY <1>3
    <3>2. (I \cap (1..n)) \cup {n + 1} = I \cap (1..(n + 1))
      BY <2>4
    <3>3. F[n] \in Seq(A) /\ I \cap (1..n) \subseteq 1..n
      BY <1>3
    <3>4. \E g : Follows(Append(F[n], s[n + 1]), s, (I \cap (1..n)) \cup {n + 1}, g)
      BY <2>1, <3>1, <3>3, FollowsOneMore
    <3>5. Append(F[n], s[n + 1]) \in Seq(A)
      BY <3>1, <3>3
    <3>6. QED BY <2>2, <2>4, <3>2, <3>4, <3>5
  <2>5. QED BY <2>3, <2>4
<1> HIDE DEF Ok
<1> DEFINE T == {n \in Nat : n <= Len(s) => Ok(n)}
<1>4. T = Nat
  <2>1. 0 \in T BY <1>2
  <2>2. ASSUME NEW n \in T PROVE n + 1 \in T
    <3>1. n + 1 <= Len(s) => Ok(n) OBVIOUS
    <3>2. QED BY <3>1, <1>3
  <2>3. T \in SUBSET Nat OBVIOUS
  <2> HIDE DEF T
  <2>4. QED BY <2>1, <2>2, <2>3, SetInduction
<1>5. Ok(Len(s))
  BY <1>4
<1>6. I \cap (1..Len(s)) = I
  OBVIOUS
<1>7. QED BY <1>5, <1>6, <1>1 DEF Ok

\* What is left of a sequence after a pick.
LEMMA PickedRows ==
  ASSUME NEW A, NEW rows \in Seq(A), NEW I \in SUBSET (1..Len(rows))
  PROVE  /\ Picked(rows, I) \in Seq(A)
         /\ \A i \in DOMAIN Picked(rows, I) : \E k \in I : Picked(rows, I)[i] = rows[k]
         /\ \A k \in I : \E i \in DOMAIN Picked(rows, I) : Picked(rows, I)[i] = rows[k]
<1> DEFINE r == Picked(rows, I)
<1>1. r \in Seq(A) /\ \E f : Follows(r, rows, I, f)
  BY PickedFollows
<1> HIDE DEF r
<1>2. PICK f : Follows(r, rows, I, f)
  BY <1>1
<1>3. DOMAIN r = 1..Len(r)
  BY <1>1
<1>4. \A i \in 1..Len(r) : f[i] \in I /\ r[i] = rows[f[i]]
  BY <1>2 DEF Follows
<1>5. \A k \in I : \E i \in 1..Len(r) : f[i] = k
  BY <1>2 DEF Follows
<1>6. \A i \in DOMAIN r : \E k \in I : r[i] = rows[k]
  BY <1>3, <1>4
<1>7. \A k \in I : \E i \in DOMAIN r : r[i] = rows[k]
  BY <1>3, <1>4, <1>5
<1>8. QED BY <1>1, <1>6, <1>7 DEF r

LEMMA PickedLength ==
  ASSUME NEW A, NEW s \in Seq(A), NEW I \in SUBSET (1..Len(s))
  PROVE  /\ Len(Picked(s, I)) = Cardinality(I)
         /\ Len(Picked(s, I)) <= Len(s)
         /\ \A n \in 1..Len(s) : n \notin I => Len(Picked(s, I)) < Len(s)
<1> DEFINE r == Picked(s, I)
<1>1. PICK f : Follows(r, s, I, f)
  BY PickedFollows
<1>2. Len(r) \in Nat
  BY PickedFollows
<1> HIDE DEF r
<1>3. f \in Bijection(1..Len(r), I)
  <2>1. \A i, k \in 1..Len(r) : f[i] = f[k] => i = k
    <3> SUFFICES ASSUME NEW i \in 1..Len(r), NEW k \in 1..Len(r), f[i] = f[k], i # k PROVE FALSE
      OBVIOUS
    <3>1. f[i] \in I /\ f[k] \in I
      BY <1>1 DEF Follows
    <3>2. f[i] \in Nat /\ f[k] \in Nat
      <4>1. Len(s) \in Nat
        OBVIOUS
      <4>2. I \subseteq 1..Len(s)
        OBVIOUS
      <4>3. \A n \in 1..Len(s) : n \in Nat
        BY ONLY <4>1
      <4>4. QED BY ONLY <3>1, <4>2, <4>3
    <3>3. i < k \/ k < i
      BY <1>2
    <3>4. f[i] < f[k] \/ f[k] < f[i]
      BY <1>1, <3>3 DEF Follows
    <3>5. QED BY <3>2, <3>4
  <2>2. QED BY <1>1, <2>1 DEF Follows, Bijection, Injection, Surjection, IsInjective
<1>4. Cardinality(I) = Len(r)
  BY <1>2, <1>3, FS_CountingElements DEF ExistsBijection
<1>5. IsFiniteSet(1..Len(s)) /\ Cardinality(1..Len(s)) = Len(s)
  <2>1. Len(s) \in Nat
    OBVIOUS
  <2>2. /\ IsFiniteSet(1..Len(s))
        /\ Cardinality(1..Len(s)) = IF 1 > Len(s) THEN 0 ELSE Len(s) - 1 + 1
    BY <2>1, FS_Interval
  <2>3. QED BY <2>1, <2>2
<1>6. /\ Cardinality(I) <= Cardinality(1..Len(s))
      /\ Cardinality(1..Len(s)) = Cardinality(I) => 1..Len(s) = I
  BY <1>5, FS_Subset
<1>7. QED BY <1>2, <1>4, <1>5, <1>6 DEF r

-----------------------------------------------------------------------------
(***************************************************************************)
(* Sums of a function over finite sets.                                    *)
(***************************************************************************)
SumStep(f, g, s) == IF s = {} THEN 0 ELSE f[CHOOSE x \in s : TRUE] + g[s \ {CHOOSE x \in s : TRUE}]

\* g says of each part of S what the sum of f over it is.
Sums(f, S, g) == g = [s \in SUBSET S |-> SumStep(f, g, s)]

LEMMA OneLess ==
  ASSUME NEW n \in Nat, NEW s, IsFiniteSet(s), Cardinality(s) <= n + 1, NEW x \in s
  PROVE  IsFiniteSet(s \ {x}) /\ Cardinality(s \ {x}) <= n
<1>1. IsFiniteSet(s \ {x}) /\ Cardinality(s \ {x}) = Cardinality(s) - 1
  BY FS_RemoveElement
<1>2. Cardinality(s) \in Nat
  BY FS_CardinalityType
<1>3. QED BY <1>1, <1>2

LEMMA SumsExist ==
  ASSUME NEW f, NEW S, IsFiniteSet(S)
  PROVE  \E g : Sums(f, S, g)
<1> DEFINE D(n) == {s \in SUBSET S : Cardinality(s) <= n}
           T == {n \in Nat : \E g : g = [s \in D(n) |-> SumStep(f, g, s)]}
<1>1. 0 \in T
  <2> DEFINE g == [s \in D(0) |-> 0]
  <2>1. ASSUME NEW s \in D(0) PROVE s = {}
    <3>1. IsFiniteSet(s) /\ Cardinality(s) \in Nat
      BY FS_Subset, FS_CardinalityType
    <3>2. Cardinality(s) = 0
      BY <3>1
    <3>3. QED BY <3>1, <3>2, FS_EmptySet
  <2>2. g = [s \in D(0) |-> SumStep(f, g, s)]
    BY <2>1 DEF SumStep
  <2> QED BY <2>2
<1>2. ASSUME NEW n \in T PROVE n + 1 \in T
  <2>1. PICK g : g = [s \in D(n) |-> SumStep(f, g, s)]
    OBVIOUS
  <2> DEFINE h == [s \in D(n + 1) |-> IF s \in D(n) THEN g[s] ELSE SumStep(f, g, s)]
  <2>2. ASSUME NEW s \in D(n + 1) PROVE h[s] = SumStep(f, h, s)
    <3>1. CASE s = {}
      BY <2>1, <3>1 DEF SumStep
    <3>2. CASE s # {}
      <4> DEFINE x == CHOOSE x \in s : TRUE
      <4>1. x \in s
        BY <3>2
      <4>2. IsFiniteSet(s) /\ Cardinality(s) <= n + 1
        BY FS_Subset
      <4>3. s \ {x} \in D(n)
        BY <4>1, <4>2, OneLess
      <4>4. h[s \ {x}] = g[s \ {x}]
        <5>1. s \ {x} \in D(n + 1)
          <6>1. Cardinality(s \ {x}) \in Nat
            BY <4>1, <4>2, OneLess, FS_CardinalityType
          <6>2. QED BY <4>3, <6>1
        <5>2. QED BY <4>3, <5>1
      <4>5. SumStep(f, h, s) = SumStep(f, g, s)
        BY <3>2, <4>4 DEF SumStep
      <4>6. QED BY <2>1, <4>5
    <3>3. QED BY <3>1, <3>2
  <2>3. h = [s \in D(n + 1) |-> h[s]]
    OBVIOUS
  <2> HIDE DEF h, D
  <2>4. h = [s \in D(n + 1) |-> SumStep(f, h, s)]
    BY <2>2, <2>3
  <2>5. QED BY <2>4
<1>3. T = Nat
  <2>1. T \subseteq Nat
    OBVIOUS
  <2> HIDE DEF T
  <2> QED BY <1>1, <1>2, <2>1, SetInduction
<1>4. Cardinality(S) \in T
  BY <1>3, FS_CardinalityType
<1>5. D(Cardinality(S)) = SUBSET S
  BY FS_Subset
<1> HIDE DEF D
<1>6. QED BY <1>4, <1>5 DEF Sums

LEMMA SumBySteps ==
  ASSUME NEW f, NEW S, IsFiniteSet(S)
  PROVE  \E g : Sums(f, S, g) /\ SumFunctionOnSet(f, S) = g[S]
<1>1. PICK h : h = [s \in SUBSET S |-> SumStep(f, h, s)]
  BY SumsExist DEF Sums
<1> DEFINE g == CHOOSE k : k = [s \in SUBSET S |->
                  IF s = {} THEN 0 ELSE f[CHOOSE x \in s : TRUE] + k[s \ {CHOOSE x \in s : TRUE}]]
<1>2. g = [s \in SUBSET S |->
             IF s = {} THEN 0 ELSE f[CHOOSE x \in s : TRUE] + g[s \ {CHOOSE x \in s : TRUE}]]
  BY <1>1 DEF SumStep
<1>3. SumFunctionOnSet(f, S) = g[S]
  BY DEF SumFunctionOnSet, FoldFunctionOnSet, MapThenFoldSet
<1> HIDE DEF g
<1>4. QED BY <1>2, <1>3 DEF Sums, SumStep

\* A sum is what its function is on the set; it may be taken of any larger set.
LEMMA StepsAgree ==
  ASSUME NEW f, NEW h, NEW S, NEW T, IsFiniteSet(S), NEW R, R \subseteq S, R \subseteq T,
         NEW g, Sums(f, S, g), NEW k, Sums(h, T, k),
         \A x \in R : f[x] = h[x]
  PROVE  g[R] = k[R]
<1> DEFINE N == {n \in Nat : \A s \in SUBSET R : Cardinality(s) <= n => g[s] = k[s]}
<1>1. ASSUME NEW s \in SUBSET R PROVE s \in SUBSET S /\ s \in SUBSET T /\ IsFiniteSet(s) /\ Cardinality(s) \in Nat
  BY FS_Subset, FS_CardinalityType
<1>2. g[{}] = k[{}]
  BY DEF Sums, SumStep
<1>3. 0 \in N
  <2>1. ASSUME NEW s \in SUBSET R, Cardinality(s) <= 0 PROVE s = {}
    BY <1>1, <2>1, FS_EmptySet
  <2>2. QED BY <1>2, <2>1
<1>4. ASSUME NEW n \in N PROVE n + 1 \in N
  <2> SUFFICES ASSUME NEW s \in SUBSET R, Cardinality(s) <= n + 1 PROVE g[s] = k[s]
    OBVIOUS
  <2>0. CASE s = {}
    BY <1>2, <2>0
  <2> SUFFICES ASSUME s # {} PROVE g[s] = k[s]
    BY <2>0
  <2> DEFINE x == CHOOSE x \in s : TRUE
  <2>1. x \in s /\ x \in R
    OBVIOUS
  <2>2. s \ {x} \in SUBSET R /\ Cardinality(s \ {x}) <= n
    BY <1>1, <2>1, OneLess
  <2>3. g[s \ {x}] = k[s \ {x}]
    BY <2>2
  <2>4. g[s] = f[x] + g[s \ {x}] /\ k[s] = h[x] + k[s \ {x}]
    BY <1>1 DEF Sums, SumStep
  <2>5. QED BY <2>1, <2>3, <2>4
<1>5. N = Nat
  <2>1. N \subseteq Nat
    OBVIOUS
  <2> HIDE DEF N
  <2> QED BY <1>3, <1>4, <2>1, SetInduction
<1>6. Cardinality(R) \in N /\ Cardinality(R) \in Nat
  <2>1. R \in SUBSET R
    OBVIOUS
  <2>2. Cardinality(R) \in Nat
    BY <1>1, <2>1
  <2>3. QED BY <1>5, <2>2
<1>7. QED
  <2>1. R \in SUBSET R /\ Cardinality(R) <= Cardinality(R)
    BY <1>6
  <2>2. QED BY <1>6, <2>1

LEMMA SumCongruence ==
  ASSUME NEW f, NEW h, NEW S, IsFiniteSet(S), \A x \in S : f[x] = h[x]
  PROVE  SumFunctionOnSet(f, S) = SumFunctionOnSet(h, S)
<1>1. PICK g : Sums(f, S, g) /\ SumFunctionOnSet(f, S) = g[S]
  BY SumBySteps
<1>2. PICK k : Sums(h, S, k) /\ SumFunctionOnSet(h, S) = k[S]
  BY SumBySteps
<1>3. g[S] = k[S]
  <2>1. ASSUME NEW R, R \subseteq S PROVE g[R] = k[R]
    <3>1. \A x \in R : f[x] = h[x]
      BY <2>1
    <3>2. QED BY <1>1, <1>2, <2>1, <3>1, StepsAgree
  <2>2. QED BY <2>1
<1>4. QED BY <1>1, <1>2, <1>3

LEMMA SumEmpty == \A f : SumFunctionOnSet(f, {}) = 0
<1> SUFFICES ASSUME NEW f PROVE SumFunctionOnSet(f, {}) = 0
  OBVIOUS
<1>1. PICK g : Sums(f, {}, g) /\ SumFunctionOnSet(f, {}) = g[{}]
  BY SumBySteps, FS_EmptySet
<1>2. QED BY <1>1 DEF Sums, SumStep

\* Any one of the summands may be taken out.
LEMMA SumTakeOut ==
  ASSUME NEW f, NEW S, IsFiniteSet(S), \A x \in S : f[x] \in Int, NEW y \in S
  PROVE  /\ SumFunctionOnSet(f, S) \in Int
         /\ SumFunctionOnSet(f, S \ {y}) \in Int
         /\ SumFunctionOnSet(f, S) = f[y] + SumFunctionOnSet(f, S \ {y})
<1>1. PICK g : Sums(f, S, g) /\ SumFunctionOnSet(f, S) = g[S]
  BY SumBySteps
<1> DEFINE Good(s) == g[s] \in Int /\ \A x \in s : g[s \ {x}] \in Int /\ g[s] = f[x] + g[s \ {x}]
           N == {n \in Nat : \A s \in SUBSET S : Cardinality(s) <= n => Good(s)}
<1>2. ASSUME NEW s \in SUBSET S PROVE IsFiniteSet(s) /\ Cardinality(s) \in Nat
  BY FS_Subset, FS_CardinalityType
<1>3. Good({})
  BY <1>1 DEF Sums, SumStep
<1>4. 0 \in N
  <2>1. ASSUME NEW s \in SUBSET S, Cardinality(s) <= 0 PROVE s = {}
    BY <1>2, <2>1, FS_EmptySet
  <2> HIDE DEF Good
  <2>2. QED BY <1>3, <2>1
<1>5. ASSUME NEW n \in N PROVE n + 1 \in N
  <2> SUFFICES ASSUME NEW s \in SUBSET S, Cardinality(s) <= n + 1 PROVE Good(s)
    OBVIOUS
  <2>0. CASE s = {}
    BY <1>3, <2>0
  <2> SUFFICES ASSUME s # {} PROVE Good(s)
    BY <2>0
  <2> DEFINE c == CHOOSE x \in s : TRUE
  <2>1. c \in s /\ g[s] = f[c] + g[s \ {c}]
    BY <1>1 DEF Sums, SumStep
  <2> HIDE DEF c
  <2>2. ASSUME NEW x \in s PROVE s \ {x} \in SUBSET S /\ Good(s \ {x})
    <3>1. s \ {x} \in SUBSET S /\ Cardinality(s \ {x}) <= n
      BY <1>2, OneLess
    <3>2. QED BY <3>1
  <2>3. \A x \in s : g[s \ {x}] \in Int /\ f[x] \in Int
    BY <2>2
  <2>4. ASSUME NEW x \in s PROVE g[s] = f[x] + g[s \ {x}]
    <3>1. CASE x = c
      BY <2>1, <3>1
    <3>2. CASE x # c
      <4> DEFINE rest == (s \ {c}) \ {x}
      <4>1. rest = (s \ {x}) \ {c}
        OBVIOUS
      <4> HIDE DEF rest
      <4>2. g[s \ {x}] = f[c] + g[rest]
        BY <2>1, <2>2, <3>2, <4>1
      <4>3. g[s \ {c}] = f[x] + g[rest] /\ g[rest] \in Int
        BY <2>1, <2>2, <3>2 DEF rest
      <4>4. f[x] \in Int /\ f[c] \in Int
        BY <2>1, <2>3
      <4>5. QED BY ONLY <2>1, <4>2, <4>3, <4>4
    <3>3. QED BY <3>1, <3>2
  <2>5. QED BY <2>1, <2>3, <2>4
<1>6. N = Nat
  <2>1. N \subseteq Nat
    OBVIOUS
  <2> HIDE DEF N
  <2> QED BY <1>4, <1>5, <2>1, SetInduction
<1>7. Good(S)
  <2> HIDE DEF Good
  <2>1. Cardinality(S) \in N
    BY <1>2, <1>6
  <2>2. QED BY <1>2, <2>1
<1>8. SumFunctionOnSet(f, S \ {y}) = g[S \ {y}]
  <2>1. IsFiniteSet(S \ {y})
    BY <1>2
  <2>2. PICK k : Sums(f, S \ {y}, k) /\ SumFunctionOnSet(f, S \ {y}) = k[S \ {y}]
    BY <2>1, SumBySteps
  <2>3. g[S \ {y}] = k[S \ {y}]
    BY <1>1, <2>2, StepsAgree
  <2>4. QED BY <2>2, <2>3
<1>9. QED BY <1>1, <1>7, <1>8

LEMMA SumInt ==
  ASSUME NEW f, NEW S, IsFiniteSet(S), \A x \in S : f[x] \in Int
  PROVE  SumFunctionOnSet(f, S) \in Int
<1>1. CASE S = {}
  BY <1>1, SumEmpty
<1>2. CASE S # {}
  BY <1>2, SumTakeOut
<1>3. QED BY <1>1, <1>2

LEMMA SumOneMore ==
  ASSUME NEW f, NEW S, IsFiniteSet(S), NEW y, y \notin S, \A x \in S \cup {y} : f[x] \in Int
  PROVE  SumFunctionOnSet(f, S \cup {y}) = f[y] + SumFunctionOnSet(f, S)
<1>1. IsFiniteSet(S \cup {y})
  BY FS_AddElement
<1>2. (S \cup {y}) \ {y} = S
  OBVIOUS
<1>3. y \in S \cup {y}
  OBVIOUS
<1>4. QED BY <1>1, <1>2, <1>3, SumTakeOut

\* Fewer and smaller summands, none of the others negative, sum up to no more.
LEMMA SumAtMost ==
  ASSUME NEW f, NEW h, NEW S, IsFiniteSet(S), NEW T, T \subseteq S,
         \A x \in T : f[x] \in Int /\ f[x] <= h[x], \A x \in S : h[x] \in Nat
  PROVE  SumFunctionOnSet(f, T) <= SumFunctionOnSet(h, S)
<1> DEFINE Ok(s) == SumFunctionOnSet(f, s \cap T) <= SumFunctionOnSet(h, s)
           N == {n \in Nat : \A s \in SUBSET S : Cardinality(s) <= n => Ok(s)}
<1>1. ASSUME NEW s \in SUBSET S PROVE IsFiniteSet(s) /\ Cardinality(s) \in Nat
  BY FS_Subset, FS_CardinalityType
<1>2. Ok({})
  <2>1. {} \cap T = {}
    OBVIOUS
  <2>2. QED BY <2>1, SumEmpty
<1>3. 0 \in N
  <2>1. ASSUME NEW s \in SUBSET S, Cardinality(s) <= 0 PROVE s = {}
    BY <1>1, <2>1, FS_EmptySet
  <2> HIDE DEF Ok
  <2>2. QED BY <1>2, <2>1
<1>4. ASSUME NEW n \in N PROVE n + 1 \in N
  <2> SUFFICES ASSUME NEW s \in SUBSET S, Cardinality(s) <= n + 1 PROVE Ok(s)
    OBVIOUS
  <2>1. CASE s = {}
    BY <1>2, <2>1
  <2>2. CASE s # {}
    <3>1. PICK y \in s : TRUE
      BY <2>2
    <3>2. s \ {y} \in SUBSET S /\ Cardinality(s \ {y}) <= n
      BY <1>1, OneLess
    <3>3. Ok(s \ {y})
      <4> HIDE DEF Ok
      <4>1. QED BY <3>2
    <3>4. SumFunctionOnSet(h, s) = h[y] + SumFunctionOnSet(h, s \ {y})
      BY <1>1, SumTakeOut
    <3>5. \A t \in SUBSET s : IsFiniteSet(t \cap T) /\ (\A x \in t \cap T : f[x] \in Int)
      BY <1>1, FS_Subset
    <3>6. SumFunctionOnSet(h, s \ {y}) \in Int /\ SumFunctionOnSet(f, (s \ {y}) \cap T) \in Int
      <4>1. IsFiniteSet(s \ {y}) /\ \A x \in s \ {y} : h[x] \in Int
        BY <1>1, <3>2
      <4>2. s \ {y} \in SUBSET s
        OBVIOUS
      <4>3. QED BY <3>5, <4>1, <4>2, SumInt
    <3>7. CASE y \in T
      <4>1. (s \cap T) \ {y} = (s \ {y}) \cap T /\ y \in s \cap T
        BY <3>7
      <4>2. SumFunctionOnSet(f, s \cap T) = f[y] + SumFunctionOnSet(f, (s \ {y}) \cap T)
        BY <3>5, <4>1, SumTakeOut
      <4>3. f[y] \in Int /\ h[y] \in Int /\ f[y] <= h[y]
        BY <3>7
      <4>4. QED BY <3>3, <3>4, <3>6, <4>2, <4>3
    <3>8. CASE y \notin T
      <4>1. s \cap T = (s \ {y}) \cap T
        BY <3>8
      <4>2. h[y] \in Nat
        OBVIOUS
      <4>3. QED BY <3>3, <3>4, <3>6, <4>1, <4>2
    <3>9. QED BY <3>7, <3>8
  <2>3. QED BY <2>1, <2>2
<1>5. N = Nat
  <2>1. N \subseteq Nat
    OBVIOUS
  <2> HIDE DEF N
  <2> QED BY <1>3, <1>4, <2>1, SetInduction
<1>6. Ok(S)
  <2> HIDE DEF Ok
  <2>1. S \in SUBSET S /\ Cardinality(S) \in N /\ Cardinality(S) \in Nat
    BY <1>1, <1>5
  <2>2. QED BY <2>1
<1>7. S \cap T = T
  OBVIOUS
<1>8. QED BY <1>6, <1>7

LEMMA SumNat ==
  ASSUME NEW f, NEW S, IsFiniteSet(S), \A x \in S : f[x] \in Nat
  PROVE  SumFunctionOnSet(f, S) \in Nat
<1>1. SumFunctionOnSet(f, {}) <= SumFunctionOnSet(f, S)
  BY SumAtMost
<1>2. SumFunctionOnSet(f, {}) = 0 /\ SumFunctionOnSet(f, S) \in Int
  BY SumEmpty, SumInt
<1>3. QED BY <1>1, <1>2

\* Summands that go, each to one of its own, to others that are no smaller.
LEMMA SumInjected ==
  ASSUME NEW f, NEW h, NEW S, IsFiniteSet(S), NEW T, IsFiniteSet(T), NEW to,
         \A x \in S : to[x] \in T /\ f[x] \in Int /\ f[x] <= h[to[x]],
         \A x, y \in S : to[x] = to[y] => x = y,
         \A z \in T : h[z] \in Nat
  PROVE  SumFunctionOnSet(f, S) <= SumFunctionOnSet(h, T)
<1> DEFINE Ok(s) == \A t \in SUBSET T : (\A x \in s : to[x] \in t)
                      => SumFunctionOnSet(f, s) <= SumFunctionOnSet(h, t)
           N == {n \in Nat : \A s \in SUBSET S : Cardinality(s) <= n => Ok(s)}
<1>1. ASSUME NEW s \in SUBSET S PROVE IsFiniteSet(s) /\ Cardinality(s) \in Nat
  BY FS_Subset, FS_CardinalityType
<1>t. ASSUME NEW t \in SUBSET T PROVE IsFiniteSet(t) /\ \A z \in t : h[z] \in Nat
  BY FS_Subset
<1>2. Ok({})
  <2> SUFFICES ASSUME NEW t \in SUBSET T PROVE SumFunctionOnSet(f, {}) <= SumFunctionOnSet(h, t)
    OBVIOUS
  <2>1. SumFunctionOnSet(h, t) \in Nat
    BY <1>t, SumNat
  <2>2. QED BY <2>1, SumEmpty
<1>3. 0 \in N
  <2>1. ASSUME NEW s \in SUBSET S, Cardinality(s) <= 0 PROVE s = {}
    BY <1>1, <2>1, FS_EmptySet
  <2> HIDE DEF Ok
  <2>2. QED BY <1>2, <2>1
<1>4. ASSUME NEW n \in N PROVE n + 1 \in N
  <2> SUFFICES ASSUME NEW s \in SUBSET S, Cardinality(s) <= n + 1 PROVE Ok(s)
    OBVIOUS
  <2>1. CASE s = {}
    BY <1>2, <2>1
  <2>2. CASE s # {}
    <3>1. PICK y \in s : TRUE
      BY <2>2
    <3>2. s \ {y} \in SUBSET S /\ Cardinality(s \ {y}) <= n
      BY <1>1, OneLess
    <3>3. Ok(s \ {y})
      <4> HIDE DEF Ok
      <4>1. QED BY <3>2
    <3> SUFFICES ASSUME NEW t \in SUBSET T, \A x \in s : to[x] \in t
                 PROVE  SumFunctionOnSet(f, s) <= SumFunctionOnSet(h, t)
      OBVIOUS
    <3>4. t \ {to[y]} \in SUBSET T /\ \A x \in s \ {y} : to[x] \in t \ {to[y]}
      OBVIOUS
    <3>5. SumFunctionOnSet(f, s \ {y}) <= SumFunctionOnSet(h, t \ {to[y]})
      BY <3>3, <3>4
    <3>6. SumFunctionOnSet(f, s) = f[y] + SumFunctionOnSet(f, s \ {y}) /\ SumFunctionOnSet(f, s \ {y}) \in Int
      BY <1>1, SumTakeOut
    <3>7. /\ SumFunctionOnSet(h, t) = h[to[y]] + SumFunctionOnSet(h, t \ {to[y]})
          /\ SumFunctionOnSet(h, t \ {to[y]}) \in Int
      <4>1. IsFiniteSet(t) /\ to[y] \in t /\ \A z \in t : h[z] \in Int
        BY <1>t
      <4>2. QED BY <4>1, SumTakeOut
    <3>8. f[y] \in Int /\ h[to[y]] \in Int /\ f[y] <= h[to[y]]
      OBVIOUS
    <3>9. QED BY <3>5, <3>6, <3>7, <3>8
  <2>3. QED BY <2>1, <2>2
<1>5. N = Nat
  <2>1. N \subseteq Nat
    OBVIOUS
  <2> HIDE DEF N
  <2> QED BY <1>3, <1>4, <2>1, SetInduction
<1>6. Ok(S)
  <2> HIDE DEF Ok
  <2>1. S \in SUBSET S /\ Cardinality(S) \in N /\ Cardinality(S) \in Nat
    BY <1>1, <1>5
  <2>2. QED BY <2>1
<1>7. QED BY <1>6
=============================================================================
