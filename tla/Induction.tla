----------------------------- MODULE Induction -----------------------------
(***************************************************************************)
(* Induction over the natural numbers for sets instead of predicates, from *)
(* the well-foundedness of < on them: minima, and what follows from them.  *)
(***************************************************************************)
EXTENDS Integers, WellFoundedInduction, TLAPS

\* A set of numbers has a least one.
LEMMA NatMin ==
  ASSUME NEW S \in SUBSET Nat, S # {}
  PROVE  \E x \in S : \A y \in S : x <= y
<1> DEFINE R == {ss \in Nat \X Nat : ss[1] < ss[2]}
<1>1. IsWellFoundedOn(R, Nat)
  BY NatLessThanWellFounded DEF OpToRel
<1>2. \A x, y \in Nat : <<y, x>> \in R <=> y < x
  OBVIOUS
<1> HIDE DEF R
<1>3. PICK x \in S : \A y \in S : ~ (<<y, x>> \in R)
  BY <1>1, WFMin
<1>4. ASSUME NEW y \in S PROVE x <= y
  <2>1. ~(y < x)
    BY <1>2, <1>3
  <2> QED BY <2>1
<1> QED BY <1>4

\* A set that has 0 and every successor has all numbers.
LEMMA NatSetInduction ==
  ASSUME NEW P, 0 \in P, \A n \in Nat : n \in P => n + 1 \in P
  PROVE  Nat \subseteq P
<1> SUFFICES ASSUME Nat \ P # {} PROVE FALSE
  OBVIOUS
<1>1. PICK x \in Nat \ P : \A y \in Nat \ P : x <= y
  BY NatMin
<1>2. x # 0 /\ x - 1 \in Nat /\ x - 1 \in P
  BY <1>1
<1> QED BY <1>1, <1>2

\* A set of numbers with a bound has a greatest one.
LEMMA NatMax ==
  ASSUME NEW S \in SUBSET Nat, S # {}, NEW b \in Nat, \A x \in S : x <= b
  PROVE  \E x \in S : \A y \in S : y <= x
<1> DEFINE T == {b - x : x \in S}
<1>1. T \in SUBSET Nat /\ T # {}
  <2>1. \A x \in S : b - x \in Nat
    OBVIOUS
  <2> QED BY <2>1
<1>2. PICK t \in T : \A u \in T : t <= u
  BY <1>1, NatMin
<1>3. PICK x \in S : t = b - x
  BY <1>2
<1>4. \A y \in S : b - x <= b - y
  BY <1>2, <1>3
<1> QED BY <1>4

\* g begins with v at i, and F[k] tells its value at k from the one before.
Recurs(g, i, n, v, F) == \A k \in i..n : g[k] = IF k = i THEN v ELSE F[k][g[k - 1]]

\* A function on the numbers from i to n is defined by its first value and by how
\* each value comes from the one before.
LEMMA IntervalRecursion ==
  ASSUME NEW V, NEW v \in V, NEW i \in Nat, NEW n \in Nat, NEW F \in [i..n -> [V -> V]]
  PROVE  \E g \in [i..n -> V] : Recurs(g, i, n, v, F)
<1> DEFINE Right(g, m) == Recurs(g, i, m, v, F)
           P == {m \in Nat : i + m <= n => \E g \in [i..(i + m) -> V] : Right(g, i + m)}
<1>1. 0 \in P
  <2> DEFINE g == [k \in i..(i + 0) |-> v]
  <2>1. g \in [i..(i + 0) -> V] /\ Right(g, i + 0)
    BY DEF Recurs
  <2> QED BY <2>1
<1>2. ASSUME NEW m \in Nat, m \in P PROVE m + 1 \in P
  <2> SUFFICES ASSUME i + (m + 1) <= n
               PROVE  \E g \in [i..(i + (m + 1)) -> V] : Right(g, i + (m + 1))
    OBVIOUS
  <2> DEFINE l == i + m
  <2>1. l \in Nat /\ l + 1 = i + (m + 1) /\ l + 1 \in i..n /\ l \in i..l /\ l + 1 # i
    OBVIOUS
  <2>2. PICK g \in [i..l -> V] : Right(g, l)
    BY <1>2, <2>1
  <2> HIDE DEF l
  <2> DEFINE f == [k \in i..(l + 1) |-> IF k = l + 1 THEN F[l + 1][g[l]] ELSE g[k]]
  <2>3. F[l + 1][g[l]] \in V
    BY <2>1, <2>2
  <2>4. \A k \in i..(l + 1) : k = l + 1 \/ k \in i..l
    BY <2>1
  <2>5. f \in [i..(l + 1) -> V]
    BY <2>2, <2>3, <2>4
  <2>6. ASSUME NEW k \in i..(l + 1) PROVE f[k] = IF k = i THEN v ELSE F[k][f[k - 1]]
    <3>1. CASE k = l + 1
      <4>1. f[k] = F[k][g[l]] /\ f[k - 1] = g[l] /\ k # i
        BY <2>1, <3>1
      <4> QED BY <4>1
    <3>2. CASE k \in i..l
      <4>1. f[k] = g[k] /\ (k # i => f[k - 1] = g[k - 1])
        BY <2>1, <3>2
      <4>2. g[k] = IF k = i THEN v ELSE F[k][g[k - 1]]
        BY <2>2, <3>2 DEF Recurs
      <4> QED BY <4>1, <4>2
    <3> QED BY <2>4, <3>1, <3>2
  <2> HIDE DEF f
  <2>7. Right(f, l + 1)
    BY <2>6 DEF Recurs
  <2> QED BY <2>1, <2>5, <2>7
<1> HIDE DEF P
<1>3. Nat \subseteq P
  BY <1>1, <1>2, NatSetInduction
<1>4. CASE i <= n
  <2> DEFINE m == n - i
  <2>1. m \in Nat /\ i + m = n /\ i + m <= n
    BY <1>4
  <2> HIDE DEF m
  <2>2. \E g \in [i..(i + m) -> V] : Right(g, i + m)
    BY <1>3, <2>1 DEF P
  <2> QED BY <2>1, <2>2
<1>5. CASE n < i
  <2>1. [k \in i..n |-> v] \in [i..n -> V] /\ i..n = {}
    BY <1>5
  <2> QED BY <2>1 DEF Recurs
<1> QED BY <1>4, <1>5
=============================================================================
