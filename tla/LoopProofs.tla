----------------------------- MODULE LoopProofs ------------------------------
(* Lemmas about the running totals and first errors of Loops.                *)
EXTENDS Loops, WellFoundedInduction, FiniteSetTheorems, TLAPS

\* Induction over the naturals, as the existence of a least element: this form
\* has no operator parameter.
LEMMA LeastNatural ==
  ASSUME NEW T, T \subseteq Nat, T # {}
  PROVE  \E x \in T : \A y \in T : x <= y
  <1> DEFINE R == OpToRel(<, Nat)
  <1>1. \E x \in T : \A y \in T : ~ (<<y, x>> \in R)
    BY NatLessThanWellFounded, WFMin
  <1>2. \A x, y \in Nat : <<y, x>> \in R <=> y < x
    BY DEF OpToRel
  <1> HIDE DEF R
  <1>3. PICK x \in T : \A y \in T : ~ (<<y, x>> \in R)
    BY <1>1
  <1>4. \A y \in T : x <= y
    <2> SUFFICES ASSUME NEW y \in T PROVE x <= y
      OBVIOUS
    <2>1. x \in Nat /\ y \in Nat
      OBVIOUS
    <2>2. ~ (y < x)
      BY <2>1, <1>2, <1>3
    <2> QED
      BY <2>1, <2>2
  <1> QED
    BY <1>4

\* The equation of the running total up to n.
PartialTotals(f, g, n) == f = [k \in 0..n |-> IF k = 0 THEN 0 ELSE f[k - 1] + g[k]]

LEMMA PartialTotalsExist ==
  ASSUME NEW g, NEW n \in Nat
  PROVE  \E f : PartialTotals(f, g, n)
  <1> DEFINE T == {m \in Nat : ~ \E f : PartialTotals(f, g, m)}
  <1> SUFFICES ASSUME T # {} PROVE FALSE
    OBVIOUS
  <1>1. PICK m \in T : \A y \in T : m <= y
    BY LeastNatural
  <1>2. m # 0
    <2> DEFINE f0 == [k \in 0..0 |-> 0]
    <2>1. PartialTotals(f0, g, 0)
      BY DEF PartialTotals
    <2> QED
      BY <2>1
  <1>3. m - 1 \in Nat /\ m - 1 \notin T
    BY <1>1, <1>2
  <1>4. PICK f : PartialTotals(f, g, m - 1)
    BY <1>3
  <1> DEFINE h == [k \in 0..m |-> IF k = m THEN f[m - 1] + g[m] ELSE f[k]]
  <1>5. PartialTotals(h, g, m)
    <2>1. SUFFICES ASSUME NEW k \in 0..m
          PROVE  h[k] = IF k = 0 THEN 0 ELSE h[k - 1] + g[k]
      BY <2>1 DEF PartialTotals
    <2>2. \A j \in 0..(m - 1) : f[j] = IF j = 0 THEN 0 ELSE f[j - 1] + g[j]
      BY <1>3, <1>4 DEF PartialTotals
    <2>3. CASE k = m
      BY <2>3, <1>2, <1>3
    <2>4. CASE k # m
      <3>1. k \in 0..(m - 1) /\ h[k] = f[k]
        BY <2>4, <1>3
      <3>2. CASE k = 0
        BY <3>1, <3>2, <2>2
      <3>3. CASE k # 0
        <4>1. k - 1 \in 0..m /\ k - 1 # m
          BY <3>3, <3>1, <1>3
        <4>2. h[k - 1] = f[k - 1]
          BY <4>1
        <4> QED
          BY <4>2, <3>1, <3>3, <2>2
      <3> QED
        BY <3>2, <3>3
    <2> QED
      BY <2>3, <2>4
  <1> QED
    BY <1>1, <1>5

LEMMA PartialTotalsAgree ==
  ASSUME NEW g, NEW h, NEW n \in Nat, NEW m \in Nat, n <= m,
         NEW e, NEW f, PartialTotals(e, g, n), PartialTotals(f, h, m),
         \A k \in 1..n : g[k] = h[k],
         NEW j \in 0..n
  PROVE  e[j] = f[j]
  <1> DEFINE T == {k \in 0..n : e[k] # f[k]}
  <1> SUFFICES ASSUME T # {} PROVE FALSE
    OBVIOUS
  <1>1. T \subseteq Nat
    OBVIOUS
  <1>2. PICK k \in T : \A y \in T : k <= y
    BY <1>1, LeastNatural
  <1>3. /\ \A i \in 0..n : e[i] = IF i = 0 THEN 0 ELSE e[i - 1] + g[i]
        /\ \A i \in 0..m : f[i] = IF i = 0 THEN 0 ELSE f[i - 1] + h[i]
    BY DEF PartialTotals
  <1>4. k # 0
    BY <1>3
  <1>5. k - 1 \in 0..n /\ k - 1 \in 0..m /\ k - 1 \notin T /\ k \in 1..n /\ k \in 0..m
    BY <1>2, <1>4
  <1>6. e[k - 1] = f[k - 1]
    BY <1>5
  <1> HIDE DEF T
  <1>7. e[k] = f[k]
    BY <1>3, <1>4, <1>5, <1>6
  <1> QED
    BY <1>7, <1>2 DEF T

\* Total is the last value of any function that satisfies the equation.
LEMMA TotalIs ==
  ASSUME NEW g, NEW n \in Nat, NEW f, PartialTotals(f, g, n)
  PROVE  Total(g, n) = f[n]
  <1>1. \A e : PartialTotals(e, g, n) => e = f
    <2> SUFFICES ASSUME NEW e, PartialTotals(e, g, n) PROVE e = f
      OBVIOUS
    <2>1. \A j \in 0..n : e[j] = f[j]
      BY PartialTotalsAgree
    <2>2. e = [k \in 0..n |-> e[k]] /\ f = [k \in 0..n |-> f[k]]
      BY DEF PartialTotals
    <2> QED
      BY <2>1, <2>2
  <1> QED
    BY <1>1 DEF Total, PartialTotals

\* The sum of nothing.
LEMMA TotalZero ==
  ASSUME NEW g
  PROVE  Total(g, 0) = 0
  <1>1. PICK f : PartialTotals(f, g, 0)
    BY PartialTotalsExist
  <1>2. Total(g, 0) = f[0]
    BY <1>1, TotalIs
  <1> QED
    BY <1>1, <1>2 DEF PartialTotals

\* One more round adds one more number.
LEMMA TotalNext ==
  ASSUME NEW g, NEW n \in Nat
  PROVE  Total(g, n + 1) = Total(g, n) + g[n + 1]
  <1>1. PICK f : PartialTotals(f, g, n + 1)
    BY PartialTotalsExist
  <1>2. PICK e : PartialTotals(e, g, n)
    BY PartialTotalsExist
  <1>3. e[n] = f[n]
    BY <1>1, <1>2, PartialTotalsAgree
  <1>4. Total(g, n + 1) = f[n + 1]
    BY <1>1, TotalIs
  <1>5. Total(g, n) = e[n]
    BY <1>2, TotalIs
  <1>6. f[n + 1] = f[(n + 1) - 1] + g[n + 1]
    BY <1>1 DEF PartialTotals
  <1> QED
    BY <1>3, <1>4, <1>5, <1>6

\* Only the numbers added count.
LEMMA TotalSame ==
  ASSUME NEW g, NEW h, NEW n \in Nat, \A k \in 1..n : g[k] = h[k]
  PROVE  Total(g, n) = Total(h, n)
  <1>1. PICK f : PartialTotals(f, h, n)
    BY PartialTotalsExist
  <1>2. PICK e : PartialTotals(e, g, n)
    BY PartialTotalsExist
  <1>3. e[n] = f[n]
    BY <1>1, <1>2, PartialTotalsAgree
  <1> QED
    BY <1>1, <1>2, <1>3, TotalIs

LEMMA TotalInt ==
  ASSUME NEW g, NEW n \in Nat, \A k \in 1..n : g[k] \in Int
  PROVE  Total(g, n) \in Int
  <1> DEFINE T == {m \in 0..n : Total(g, m) \notin Int}
  <1> SUFFICES ASSUME T # {} PROVE FALSE
    OBVIOUS
  <1>0. T \subseteq Nat
    OBVIOUS
  <1>1. PICK m \in T : \A y \in T : m <= y
    BY <1>0, LeastNatural
  <1>2. m # 0
    <2>1. Total(g, 0) = 0
      BY TotalZero
    <2>2. m = 0 => Total(g, m) = 0
      BY <2>1
    <2> QED
      BY <2>1, <2>2, <1>1
  <1>3. m - 1 \in Nat /\ m - 1 \in 0..n /\ m - 1 \notin T /\ m \in 1..n /\ (m - 1) + 1 = m
    BY <1>1, <1>2
  <1>4. Total(g, m) = Total(g, m - 1) + g[m]
    BY <1>3, TotalNext
  <1> QED
    BY <1>3, <1>4

\* A sum of naturals never decreases.
LEMMA TotalMonotone ==
  ASSUME NEW g, NEW n \in Nat, \A k \in 1..n : g[k] \in Nat,
         NEW l \in 0..n
  PROVE  /\ Total(g, l) \in Nat
         /\ Total(g, n) \in Nat
         /\ Total(g, l) <= Total(g, n)
  <1> DEFINE T == {m \in 0..n : ~ /\ Total(g, m) \in Nat
                                  /\ l <= m => Total(g, l) <= Total(g, m)}
  <1> SUFFICES ASSUME T # {} PROVE FALSE
    <2>1. l \in 0..n /\ n \in 0..n /\ l <= n
      OBVIOUS
    <2> QED
      BY <2>1
  <1>0. T \subseteq Nat
    OBVIOUS
  <1>1. PICK m \in T : \A y \in T : m <= y
    BY <1>0, LeastNatural
  <1>2. m # 0
    <2>1. Total(g, 0) = 0
      BY TotalZero
    <2>2. m = 0 => Total(g, m) = 0
      BY <2>1
    <2> QED
      BY <2>1, <2>2, <1>1
  <1>3. m - 1 \in Nat /\ m - 1 \in 0..n /\ m - 1 \notin T /\ m \in 1..n /\ (m - 1) + 1 = m
    BY <1>1, <1>2
  <1>4. Total(g, m) = Total(g, m - 1) + g[m]
    BY <1>3, TotalNext
  <1>5. Total(g, m - 1) \in Nat /\ (l <= m - 1 => Total(g, l) <= Total(g, m - 1))
    BY <1>3
  <1>6. Total(g, m) \in Nat /\ Total(g, m - 1) <= Total(g, m)
    BY <1>3, <1>4, <1>5
  <1>7. CASE l = m
    BY <1>6, <1>7
  <1>8. CASE l # m
    <2>1. l <= m => l <= m - 1
      BY <1>8, <1>3
    <2>2. Total(g, l) \in Nat
      <3>1. l <= m => l \notin T
        BY <1>1, <1>8
      <3>2. l <= m => Total(g, l) \in Nat
        BY <3>1
      <3> QED
        BY <1>6, <3>2, <1>1
    <2> QED
      BY <2>1, <2>2, <1>5, <1>6, <1>1
  <1> QED
    BY <1>7, <1>8

\* A smaller number in every round makes a smaller sum.
LEMMA TotalPointwise ==
  ASSUME NEW g, NEW h, NEW n \in Nat,
         \A k \in 1..n : g[k] \in Int /\ h[k] \in Int /\ g[k] <= h[k]
  PROVE  Total(g, n) <= Total(h, n)
  <1> DEFINE T == {m \in 0..n : ~ (Total(g, m) <= Total(h, m))}
  <1> SUFFICES ASSUME T # {} PROVE FALSE
    OBVIOUS
  <1>0. T \subseteq Nat
    OBVIOUS
  <1>1. PICK m \in T : \A y \in T : m <= y
    BY <1>0, LeastNatural
  <1>2. m # 0
    <2>1. Total(g, 0) = 0 /\ Total(h, 0) = 0
      BY TotalZero
    <2>2. m = 0 => Total(g, m) = 0 /\ Total(h, m) = 0
      BY <2>1
    <2> QED
      BY <2>1, <2>2, <1>1
  <1>3. m - 1 \in Nat /\ m - 1 \in 0..n /\ m - 1 \notin T /\ m \in 1..n /\ (m - 1) + 1 = m
    BY <1>1, <1>2
  <1>4. Total(g, m) = Total(g, m - 1) + g[m] /\ Total(h, m) = Total(h, m - 1) + h[m]
    BY <1>3, TotalNext
  <1>5. Total(g, m - 1) \in Int /\ Total(h, m - 1) \in Int
    <2>1. \A k \in 1..(m - 1) : g[k] \in Int /\ h[k] \in Int
      BY <1>3
    <2> QED
      BY <1>3, <2>1, TotalInt
  <1>6. Total(g, m - 1) <= Total(h, m - 1)
    BY <1>3
  <1>7. Total(g, m) <= Total(h, m)
    BY <1>3, <1>4, <1>5, <1>6
  <1> QED
    BY <1>7

\* n rounds of at most c.
LEMMA TotalBound ==
  ASSUME NEW g, NEW n \in Nat, NEW c \in Int,
         \A k \in 1..n : g[k] \in Int /\ g[k] <= c
  PROVE  Total(g, n) <= n * c
  <1> DEFINE T == {m \in 0..n : ~ (Total(g, m) <= m * c)}
  <1> SUFFICES ASSUME T # {} PROVE FALSE
    OBVIOUS
  <1>0. T \subseteq Nat
    OBVIOUS
  <1>1. PICK m \in T : \A y \in T : m <= y
    BY <1>0, LeastNatural
  <1>2. m # 0
    <2>1. Total(g, 0) = 0
      BY TotalZero
    <2>2. m = 0 => Total(g, m) = 0
      BY <2>1
    <2> QED
      BY <2>1, <2>2, <1>1
  <1>3. m - 1 \in Nat /\ m - 1 \in 0..n /\ m - 1 \notin T /\ m \in 1..n /\ (m - 1) + 1 = m
    BY <1>1, <1>2
  <1>4. Total(g, m) = Total(g, m - 1) + g[m]
    BY <1>3, TotalNext
  <1>5. Total(g, m - 1) \in Int
    <2>1. \A k \in 1..(m - 1) : g[k] \in Int
      BY <1>3
    <2> QED
      BY <1>3, <2>1, TotalInt
  <1>6. Total(g, m - 1) <= (m - 1) * c
    BY <1>3
  <1>7. m * c = (m - 1) * c + c /\ m * c \in Int /\ (m - 1) * c \in Int
    BY <1>3
  <1>8. Total(g, m) <= m * c
    BY <1>3, <1>4, <1>5, <1>6, <1>7
  <1> QED
    BY <1>8

-----------------------------------------------------------------------------
(* Stopping at the first error.                                            *)

\* What Min is.
LEMMA LeastIs ==
  ASSUME NEW S, S \subseteq Nat, NEW i \in S, \A j \in S : i <= j
  PROVE  Min(S) = i
  <1>1. \A x \in S : (\A y \in S : x <= y) => x = i
    <2> SUFFICES ASSUME NEW x \in S, \A y \in S : x <= y PROVE x = i
      OBVIOUS
    <2>1. x <= i /\ i <= x /\ x \in Nat /\ i \in Nat
      OBVIOUS
    <2> QED
      BY <2>1
  <1> QED
    BY <1>1 DEF Min

\* The error that no other comes before.
LEMMA FirstErrorIs ==
  ASSUME NEW error, NEW n \in Nat, NEW k \in 1..n, error[k] # "none",
         \A j \in 1..(k - 1) : error[j] = "none"
  PROVE  FirstError(error, n) = error[k]
  <1> DEFINE bad == {j \in 1..n : error[j] # "none"}
  <1>1. k \in bad /\ bad \subseteq Nat
    OBVIOUS
  <1>2. ASSUME NEW j \in bad PROVE k <= j
    <2>1. j \in Nat /\ k \in Nat /\ j \notin 1..(k - 1) /\ j >= 1
      OBVIOUS
    <2> QED
      BY <2>1
  <1> HIDE DEF bad
  <1>3. Min(bad) = k
    BY <1>1, <1>2, LeastIs
  <1> QED
    BY <1>1, <1>3 DEF FirstError, bad

\* There is none.
LEMMA NoErrors ==
  ASSUME NEW error, NEW n \in Nat, \A j \in 1..n : error[j] = "none"
  PROVE  FirstError(error, n) = "none"
  BY DEF FirstError

\* It is one or the other.
LEMMA FirstErrorCases ==
  ASSUME NEW error, NEW n \in Nat
  PROVE  \/ FirstError(error, n) = "none" /\ \A j \in 1..n : error[j] = "none"
         \/ \E k \in 1..n : /\ FirstError(error, n) = error[k] /\ error[k] # "none"
                            /\ \A j \in 1..(k - 1) : error[j] = "none"
  <1> DEFINE bad == {j \in 1..n : error[j] # "none"}
  <1>1. CASE bad = {}
    BY <1>1, NoErrors
  <1>2. CASE bad # {}
    <2>1. bad \subseteq Nat
      OBVIOUS
    <2>2. PICK k \in bad : \A j \in bad : k <= j
      BY <1>2, <2>1, LeastNatural
    <2>3. k \in 1..n /\ error[k] # "none"
      OBVIOUS
    <2>4. \A j \in 1..(k - 1) : error[j] = "none"
      <3> SUFFICES ASSUME NEW j \in 1..(k - 1), error[j] # "none" PROVE FALSE
        OBVIOUS
      <3>1. j \in 1..n /\ ~(k <= j)
        BY <2>3
      <3> QED
        BY <2>2, <3>1
    <2> QED
      BY <2>3, <2>4, FirstErrorIs
  <1> QED
    BY <1>1, <1>2

-----------------------------------------------------------------------------
(* Counting rounds.                                                        *)

\* There are n rounds, and at most so many of a kind.
LEMMA RoundsCount ==
  ASSUME NEW n \in Nat
  PROVE  IsFiniteSet(1..n) /\ Cardinality(1..n) = n
  <1>1. 1 \in Int /\ n \in Int
    OBVIOUS
  <1>2. IsFiniteSet(1..n) /\ Cardinality(1..n) = IF 1 > n THEN 0 ELSE n - 1 + 1
    BY <1>1, FS_Interval
  <1> QED
    BY <1>2

LEMMA SomeRoundsCount ==
  ASSUME NEW n \in Nat, NEW S \in SUBSET (1..n)
  PROVE  IsFiniteSet(S) /\ Cardinality(S) \in Nat /\ Cardinality(S) <= n
  <1>1. IsFiniteSet(S) /\ Cardinality(S) <= Cardinality(1..n)
    BY RoundsCount, FS_Subset
  <1> QED
    BY <1>1, RoundsCount, FS_CardinalityType
=============================================================================
