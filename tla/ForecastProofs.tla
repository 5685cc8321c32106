----------------------------- MODULE ForecastProofs ---------------------------
(***************************************************************************)
(* What the forecasting core promises, for every metric, every series and  *)
(* every pace of the fleet.                                                *)
(***************************************************************************)
EXTENDS ForecastSeries, FiniteSetTheorems, WellFoundedInduction, TLAPS

-------------------------------------------------------------------------------
(* Least and greatest elements. *)

LEMMA LeastNatural ==
  ASSUME NEW S \in SUBSET Nat, S # {}
  PROVE  \E x \in S : \A y \in S : x <= y
<1>1. PICK x \in S : \A y \in S : ~(<<y, x>> \in OpToRel(<, Nat))
  BY WFMin, NatLessThanWellFounded
<1>2. ASSUME NEW y \in S PROVE x <= y
  <2>1. <<y, x>> \in OpToRel(<, Nat) <=> y < x
    BY DEF OpToRel
  <2>2. ~(y < x)
    BY <2>1, <1>1, Zenon
  <2> QED
    BY <2>2
<1> QED
  BY <1>2

LEMMA SmallestOf ==
  ASSUME NEW S \in SUBSET Nat, S # {}
  PROVE  Smallest(S) \in S /\ \A y \in S : Smallest(S) <= y
BY LeastNatural DEF Smallest

LEMMA LargestOf ==
  ASSUME NEW S \in SUBSET Int, S # {}, NEW b \in Int, \A x \in S : x <= b
  PROVE  Largest(S) \in S /\ \A y \in S : Largest(S) >= y
<1> DEFINE T == {b - x : x \in S}
<1>1. T \in SUBSET Nat /\ T # {}
  <2>1. \A x \in S : b - x \in Nat
    OBVIOUS
  <2> QED
    BY <2>1
<1>2. PICK m \in T : \A y \in T : m <= y
  BY <1>1, LeastNatural
<1>3. PICK x \in S : m = b - x
  BY <1>2
<1>4. ASSUME NEW y \in S PROVE x >= y
  <2>1. b - x <= b - y
    BY <1>2, <1>3
  <2> QED
    BY <2>1
<1> QED
  BY <1>4 DEF Largest

LEMMA LargerOfTwo ==
  ASSUME NEW a \in Int, NEW b \in Int
  PROVE  Largest({a, b}) = IF a >= b THEN a ELSE b
<1>1. PICK c \in Int : a <= c /\ b <= c
  <2>1. (IF a >= b THEN a ELSE b) \in Int
    OBVIOUS
  <2> QED
    BY <2>1
<1>2. /\ Largest({a, b}) \in {a, b}
      /\ \A y \in {a, b} : Largest({a, b}) >= y
  BY <1>1, LargestOf
<1> QED
  BY <1>2

-------------------------------------------------------------------------------
(* Fractions. *)

Frac == [n : Int, d : Nat \ {0}]

LEMMA Multiplied ==
  ASSUME NEW x \in Int, NEW y \in Int, NEW k \in Nat \ {0}
  PROVE  x <= y <=> x * k <= y * k
OBVIOUS

LEMMA LessIsNotLeq ==
  ASSUME NEW p \in Frac, NEW q \in Frac
  PROVE  (Less(p, q) <=> ~Leq(q, p)) /\ (Less(p, q) => Leq(p, q)) /\ Leq(p, p)
<1>1. p.n * q.d \in Int /\ q.n * p.d \in Int /\ p.n * p.d \in Int
  BY DEF Frac
<1> QED
  BY <1>1 DEF Less, Leq

LEMMA LeqTransitive ==
  ASSUME NEW p \in Frac, NEW q \in Frac, NEW r \in Frac, Leq(p, q), Leq(q, r)
  PROVE  Leq(p, r)
<1>1. PICK a \in Int, b \in Nat \ {0}, c \in Int, d \in Nat \ {0}, e \in Int, f \in Nat \ {0} :
        a = p.n /\ b = p.d /\ c = q.n /\ d = q.d /\ e = r.n /\ f = r.d
  BY DEF Frac
<1>2. a * d <= c * b /\ c * f <= e * d
  BY <1>1 DEF Leq
<1>3. (a * d) * f <= (c * b) * f
  BY <1>2, Multiplied
<1>4. (c * f) * b <= (e * d) * b
  BY <1>2, Multiplied
<1>5. (a * d) * f = (a * f) * d /\ (c * b) * f = (c * f) * b /\ (e * d) * b = (e * b) * d
  OBVIOUS
<1>6. (a * f) * d <= (e * b) * d
  <2>1. (a * d) * f \in Int /\ (c * b) * f \in Int /\ (e * d) * b \in Int
    OBVIOUS
  <2> QED
    BY <1>3, <1>4, <1>5, <2>1
<1>7. a * f <= e * b
  BY <1>6, Multiplied
<1> QED
  BY <1>1, <1>7 DEF Leq

LEMMA LessLeqTransitive ==
  ASSUME NEW p \in Frac, NEW q \in Frac, NEW r \in Frac
  PROVE  /\ Less(p, q) /\ Leq(q, r) => Less(p, r)
         /\ Leq(p, q) /\ Less(q, r) => Less(p, r)
BY LessIsNotLeq, LeqTransitive

LEMMA MinusIsFrac ==
  ASSUME NEW p \in Frac, NEW q \in Frac
  PROVE  Minus(p, q) \in Frac
<1>1. p.n * q.d - q.n * p.d \in Int /\ p.d * q.d \in Nat \ {0}
  BY DEF Frac
<1> QED
  BY <1>1 DEF Minus, Q, Frac

LEMMA TimesIsFrac ==
  ASSUME NEW p \in Frac, NEW k \in Int
  PROVE  Times(p, k) \in Frac
<1>1. p.n * k \in Int /\ p.d \in Nat \ {0}
  BY DEF Frac
<1> QED
  BY <1>1 DEF Times, Q, Frac

LEMMA MeanBetween ==
  ASSUME NEW p \in Frac, NEW q \in Frac, Leq(p, q)
  PROVE  Mean(p, q) \in Frac /\ Leq(p, Mean(p, q)) /\ Leq(Mean(p, q), q)
<1>1. PICK a \in Int, b \in Nat \ {0}, c \in Int, d \in Nat \ {0} :
        a = p.n /\ b = p.d /\ c = q.n /\ d = q.d
  BY DEF Frac
<1>2. a * d <= c * b
  BY <1>1 DEF Leq
<1>3. Mean(p, q) = [n |-> a * d + c * b, d |-> 2 * b * d]
  BY <1>1 DEF Mean, Q
<1>4. a * d + c * b \in Int /\ 2 * b * d \in Nat \ {0}
  OBVIOUS
<1>5. a * (2 * b * d) <= (a * d + c * b) * b
  <2>1. (a * d) * b <= (c * b) * b
    BY <1>2, Multiplied
  <2>2. a * (2 * b * d) = (a * d) * b + (a * d) * b /\ (a * d + c * b) * b = (a * d) * b + (c * b) * b
    OBVIOUS
  <2> QED
    BY <2>1, <2>2
<1>6. (a * d + c * b) * d <= c * (2 * b * d)
  <2>1. (a * d) * d <= (c * b) * d
    BY <1>2, Multiplied
  <2>2. c * (2 * b * d) = (c * b) * d + (c * b) * d /\ (a * d + c * b) * d = (a * d) * d + (c * b) * d
    OBVIOUS
  <2> QED
    BY <2>1, <2>2
<1>7. Mean(p, q) \in Frac
  BY <1>3, <1>4 DEF Frac
<1> QED
  BY <1>1, <1>3, <1>5, <1>6, <1>7 DEF Leq
-------------------------------------------------------------------------------
(* Ranks and medians. *)

IsFamily(v) == IsFiniteSet(DOMAIN v) /\ \A i \in DOMAIN v : v[i] \in Frac

Count(v)     == Cardinality(DOMAIN v)
Below(v, x)  == {i \in DOMAIN v : Less(v[i], x)}
UpTo(v, x)   == {i \in DOMAIN v : Leq(v[i], x)}

LEMMA Counts ==
  ASSUME NEW v, IsFamily(v), NEW x
  PROVE  /\ Count(v) \in Nat
         /\ IsFiniteSet(Below(v, x)) /\ Cardinality(Below(v, x)) \in Nat
         /\ IsFiniteSet(UpTo(v, x)) /\ Cardinality(UpTo(v, x)) \in 0 .. Count(v)
<1>1. IsFiniteSet(DOMAIN v) /\ Count(v) \in Nat
  BY FS_CardinalityType DEF IsFamily, Count
<1>2. IsFiniteSet(Below(v, x)) /\ IsFiniteSet(UpTo(v, x)) /\ Cardinality(UpTo(v, x)) <= Count(v)
  <2>1. Below(v, x) \in SUBSET DOMAIN v /\ UpTo(v, x) \in SUBSET DOMAIN v
    BY DEF Below, UpTo
  <2> QED
    BY <1>1, <2>1, FS_Subset DEF Count
<1>3. Cardinality(Below(v, x)) \in Nat /\ Cardinality(UpTo(v, x)) \in Nat
  BY <1>2, FS_CardinalityType
<1> QED
  BY <1>1, <1>2, <1>3

(* Of what is greater, more is no greater. *)
LEMMA CountsGrow ==
  ASSUME NEW v, IsFamily(v), NEW i \in DOMAIN v, NEW x \in Frac, Less(x, v[i])
  PROVE  Cardinality(UpTo(v, x)) < Cardinality(UpTo(v, v[i]))
<1>1. v[i] \in Frac /\ Leq(x, v[i]) /\ ~Leq(v[i], x) /\ Leq(v[i], v[i])
  BY LessIsNotLeq DEF IsFamily
<1>2. UpTo(v, x) \in SUBSET UpTo(v, v[i])
  BY <1>1, LeqTransitive DEF UpTo, IsFamily
<1>3. i \in UpTo(v, v[i]) /\ i \notin UpTo(v, x)
  BY <1>1 DEF UpTo
<1>4. /\ IsFiniteSet(UpTo(v, v[i])) /\ Cardinality(UpTo(v, v[i])) \in Nat
      /\ Cardinality(UpTo(v, x)) \in Nat
  BY Counts
<1>5. /\ Cardinality(UpTo(v, x)) <= Cardinality(UpTo(v, v[i]))
      /\ Cardinality(UpTo(v, v[i])) # Cardinality(UpTo(v, x))
  BY <1>2, <1>3, <1>4, FS_Subset
<1> QED
  BY <1>4, <1>5

LEMMA GreatestOf ==
  ASSUME NEW v, IsFamily(v), NEW S \in SUBSET DOMAIN v, S # {}
  PROVE  \E i \in S : \A j \in S : Leq(v[j], v[i])
<1> DEFINE Rank(i) == Cardinality(UpTo(v, v[i]))
           T == {Count(v) - Rank(i) : i \in S}
<1>1. \A i \in S : Rank(i) \in Nat /\ Rank(i) <= Count(v) /\ Count(v) \in Nat
  <2>1. ASSUME NEW i \in S PROVE Rank(i) \in 0 .. Count(v) /\ Count(v) \in Nat
    BY Counts
  <2> QED
    BY <2>1
<1> HIDE DEF Rank
<1>2. T \in SUBSET Nat /\ T # {}
  BY <1>1
<1>3. PICK m \in T : \A y \in T : m <= y
  BY <1>2, LeastNatural
<1>4. PICK i \in S : m = Count(v) - Rank(i)
  BY <1>3
<1>5. ASSUME NEW j \in S PROVE Leq(v[j], v[i])
  <2>1. Rank(j) <= Rank(i)
    <3>1. Count(v) - Rank(j) \in T
      OBVIOUS
    <3>2. Count(v) - Rank(i) <= Count(v) - Rank(j)
      BY <1>3, <1>4, <3>1
    <3> QED
      BY <1>1, <3>2
  <2>2. v[i] \in Frac /\ v[j] \in Frac /\ j \in DOMAIN v
    BY DEF IsFamily
  <2>3. ASSUME Less(v[i], v[j]) PROVE FALSE
    <3>1. Rank(i) < Rank(j)
      BY <2>2, <2>3, CountsGrow DEF Rank
    <3> QED
      BY <1>1, <2>1, <3>1
  <2> QED
    BY <2>2, <2>3, LessIsNotLeq
<1> QED
  BY <1>5

(* Every rank is taken. *)
LEMMA RankedIs ==
  ASSUME NEW v, IsFamily(v), NEW k \in Nat, k < Count(v)
  PROVE  /\ \E i \in DOMAIN v : Ranked(v, k) = v[i]
         /\ Ranked(v, k) \in Frac
         /\ Cardinality(Below(v, Ranked(v, k))) <= k
         /\ Cardinality(UpTo(v, Ranked(v, k))) > k
<1> DEFINE Rank(i) == Cardinality(UpTo(v, v[i]))
           C == {i \in DOMAIN v : Rank(i) > k}
           T == {Rank(i) : i \in C}
<1>0. Count(v) \in Nat
  BY Counts
<1>1. \A i \in DOMAIN v : Rank(i) \in Nat
  <2>1. ASSUME NEW i \in DOMAIN v PROVE Rank(i) \in Nat
    <3>1. Rank(i) \in 0 .. Count(v)
      BY Counts
    <3> QED
      BY <3>1
  <2> QED
    BY <2>1
<1>2. C # {}
  <2>1. DOMAIN v # {}
    BY FS_EmptySet DEF Count
  <2>2. PICK i \in DOMAIN v : \A j \in DOMAIN v : Leq(v[j], v[i])
    BY <2>1, GreatestOf
  <2>3. UpTo(v, v[i]) = DOMAIN v
    BY <2>2 DEF UpTo
  <2>4. Rank(i) > k
    BY <2>3, <1>0 DEF Count
  <2> QED
    BY <2>4
<1> HIDE DEF Rank
<1>3. T \in SUBSET Nat /\ T # {}
  BY <1>1, <1>2
<1>4. PICK m \in T : \A y \in T : m <= y
  BY <1>3, LeastNatural
<1>5. PICK i \in C : m = Rank(i)
  BY <1>4
<1>6. \A j \in C : Rank(i) <= Rank(j)
  BY <1>4, <1>5
<1>7. Cardinality(Below(v, v[i])) <= k
  <2>1. CASE Below(v, v[i]) = {}
    <3>1. Cardinality(Below(v, v[i])) = 0
      BY <2>1, FS_EmptySet
    <3> QED
      BY <3>1
  <2>2. CASE Below(v, v[i]) # {}
    <3>1. Below(v, v[i]) \in SUBSET DOMAIN v
      BY DEF Below
    <3>2. PICK j \in Below(v, v[i]) : \A l \in Below(v, v[i]) : Leq(v[l], v[j])
      BY <2>2, <3>1, GreatestOf
    <3>3. j \in DOMAIN v /\ Less(v[j], v[i]) /\ v[j] \in Frac /\ v[i] \in Frac
      BY <3>2 DEF Below, IsFamily
    <3>4. Rank(j) < Rank(i)
      BY <3>3, CountsGrow DEF Rank
    <3>5. ~(Rank(j) > k)
      <4>1. j \notin C
        BY <1>1, <1>6, <3>3, <3>4
      <4> QED
        BY <3>3, <4>1
    <3>6. Below(v, v[i]) \in SUBSET UpTo(v, v[j])
      BY <3>2, <3>1 DEF UpTo
    <3>7. Cardinality(Below(v, v[i])) <= Rank(j)
      BY <3>6, Counts, FS_Subset DEF Rank
    <3>8. Cardinality(Below(v, v[i])) \in Nat
      BY Counts
    <3> QED
      BY <3>3, <3>5, <3>7, <3>8, <1>1
  <2> QED
    BY <2>1, <2>2
<1>8. Rank(i) > k
  BY <1>5
<1> DEFINE IsRanked(x) == /\ Cardinality({l \in DOMAIN v : Less(v[l], x)}) <= k
                          /\ Cardinality({l \in DOMAIN v : Leq(v[l], x)}) > k
<1>9. v[i] \in {v[l] : l \in DOMAIN v} /\ IsRanked(v[i])
  BY <1>7, <1>8 DEF Below, UpTo, Rank
<1>10. Ranked(v, k) = CHOOSE x \in {v[l] : l \in DOMAIN v} : IsRanked(x)
  BY DEF Ranked
<1>11. \A x : IsRanked(x) => Cardinality(Below(v, x)) <= k /\ Cardinality(UpTo(v, x)) > k
  BY DEF Below, UpTo
<1> HIDE DEF IsRanked
<1>12. Ranked(v, k) \in {v[l] : l \in DOMAIN v} /\ IsRanked(Ranked(v, k))
  BY <1>9, <1>10
<1> QED
  BY <1>11, <1>12 DEF IsFamily

LEMMA RankedGrows ==
  ASSUME NEW v, IsFamily(v), NEW k \in Nat, NEW l \in Nat, k <= l, l < Count(v)
  PROVE  Leq(Ranked(v, k), Ranked(v, l))
<1> DEFINE x == Ranked(v, k)
           y == Ranked(v, l)
<1>0. k < Count(v) /\ Count(v) \in Nat
  BY Counts
<1>1. x \in Frac /\ Cardinality(Below(v, x)) <= k
  BY <1>0, RankedIs
<1>2. y \in Frac /\ Cardinality(UpTo(v, y)) > l
  BY RankedIs
<1> HIDE DEF x, y
<1>3. ASSUME Less(y, x) PROVE FALSE
  <2>1. UpTo(v, y) \in SUBSET Below(v, x)
    BY <1>1, <1>2, <1>3, LessLeqTransitive DEF UpTo, Below, IsFamily
  <2>2. Cardinality(UpTo(v, y)) <= Cardinality(Below(v, x))
    BY <2>1, Counts, FS_Subset
  <2>3. Cardinality(Below(v, x)) \in Nat /\ Cardinality(UpTo(v, y)) \in Nat
    BY Counts
  <2> QED
    BY <2>2, <2>3, <1>1, <1>2
<1>4. Leq(x, y)
  BY <1>1, <1>2, <1>3, LessIsNotLeq
<1> QED
  BY <1>4 DEF x, y

(* The middle of m ranks, and a median between any two ranks around it. *)
LEMMA Halves ==
  ASSUME NEW m \in Nat, m > 0
  PROVE  \/ m % 2 = 1 /\ m \div 2 \in Nat /\ m = 2 * (m \div 2) + 1
         \/ m % 2 # 1 /\ m \div 2 - 1 \in Nat /\ m = 2 * (m \div 2)
OBVIOUS

LEMMA MedianBetween ==
  ASSUME NEW v, IsFamily(v), NEW lo \in Nat, NEW hi \in Nat,
         2 * lo < Count(v), 2 * hi >= Count(v) - 1, hi < Count(v)
  PROVE  median(v) \in Frac /\ Leq(Ranked(v, lo), median(v)) /\ Leq(median(v), Ranked(v, hi))
<1> DEFINE m == Count(v)
           h == m \div 2
<1>1. m \in Nat /\ m > 0
  BY Counts
<1>2. median(v) = IF m % 2 = 1 THEN Ranked(v, h) ELSE Mean(Ranked(v, h - 1), Ranked(v, h))
  BY DEF median, Count
<1>3. CASE m % 2 = 1
  <2>1. h \in Nat /\ lo <= h /\ h <= hi /\ h < m
    BY <1>1, <1>3, Halves
  <2> QED
    BY <1>2, <1>3, <2>1, RankedGrows, RankedIs
<1>4. CASE m % 2 # 1
  <2>1. h \in Nat /\ h - 1 \in Nat /\ lo <= h - 1 /\ h <= hi /\ h < m /\ h - 1 < m /\ h - 1 <= h
    BY <1>1, <1>4, Halves
  <2> HIDE DEF h
  <2>2. Ranked(v, h - 1) \in Frac /\ Ranked(v, h) \in Frac
    BY <2>1, RankedIs
  <2>3. Leq(Ranked(v, h - 1), Ranked(v, h))
    BY <2>1, RankedGrows
  <2>4. Leq(Ranked(v, lo), Ranked(v, h - 1)) /\ Leq(Ranked(v, h), Ranked(v, hi))
    BY <2>1, RankedGrows
  <2>5. Ranked(v, lo) \in Frac /\ Ranked(v, hi) \in Frac
    <3>1. lo < m
      BY <1>1
    <3> QED
      BY <3>1, RankedIs
  <2>6. /\ median(v) = Mean(Ranked(v, h - 1), Ranked(v, h))
        /\ median(v) \in Frac
        /\ Leq(Ranked(v, h - 1), median(v)) /\ Leq(median(v), Ranked(v, h))
    BY <1>2, <1>4, <2>2, <2>3, MeanBetween
  <2> QED
    BY <2>2, <2>4, <2>5, <2>6, LeqTransitive
<1> QED
  BY <1>3, <1>4
-------------------------------------------------------------------------------
(* Crossings: the steeper the fall, the earlier. *)

LEMMA Divided ==
  ASSUME NEW n \in Int, NEW d \in Nat \ {0}
  PROVE  /\ n \div d \in Int /\ n % d \in 0 .. d - 1
         /\ n = d * (n \div d) + (n % d)
OBVIOUS

LEMMA RoundedGrows ==
  ASSUME NEW p \in Frac, NEW q \in Frac, Leq(p, q)
  PROVE  Rounded(p) \in Int /\ Rounded(q) \in Int /\ Rounded(p) <= Rounded(q)
<1>1. PICK a \in Int, b \in Nat \ {0}, c \in Int, d \in Nat \ {0} :
        a = p.n /\ b = p.d /\ c = q.n /\ d = q.d
  BY DEF Frac
<1>2. a * d <= c * b
  BY <1>1 DEF Leq
<1>3. PICK f \in Int, r \in Nat : f = a \div b /\ r = a % b /\ r < b /\ a = b * f + r
  BY Divided
<1>4. PICK g \in Int, t \in Nat : g = c \div d /\ t = c % d /\ t < d /\ c = d * g + t
  BY Divided
<1>5. /\ Rounded(p) = IF 2 * r < b \/ (2 * r = b /\ f % 2 = 0) THEN f ELSE f + 1
      /\ Rounded(q) = IF 2 * t < d \/ (2 * t = d /\ g % 2 = 0) THEN g ELSE g + 1
  BY <1>1, <1>3, <1>4 DEF Rounded
<1>6. (b * f + r) * d <= (d * g + t) * b
  BY <1>2, <1>3, <1>4
<1>7. (b * f + r) * d = (b * d) * f + r * d /\ (d * g + t) * b = (b * d) * g + t * b
  OBVIOUS
<1>8. PICK e \in Nat \ {0} : e = b * d
  OBVIOUS
<1>9. e * f + r * d <= e * g + t * b
  BY <1>6, <1>7, <1>8
<1>10. r * d \in Nat /\ t * b \in Nat /\ t * b < e
  <2>1. (t + 1) * b <= d * b
    BY <1>4, Multiplied
  <2>2. (t + 1) * b = t * b + b /\ d * b = e
    BY <1>8
  <2> QED
    BY <2>1, <2>2
<1>11. f <= g
  <2>1. ASSUME f >= g + 1 PROVE FALSE
    <3>1. (g + 1) * e <= f * e
      BY <2>1, Multiplied
    <3>2. (g + 1) * e = e * g + e /\ f * e = e * f
      OBVIOUS
    <3> QED
      BY <3>1, <3>2, <1>9, <1>10
  <2> QED
    BY <2>1
<1>12. CASE f = g
  <2>1. r * d <= t * b
    <3>1. e * f = e * g
      BY <1>12
    <3>2. e * f \in Int
      OBVIOUS
    <3> QED
      BY <3>1, <3>2, <1>9, <1>10
  <2>2. 2 * r > b => 2 * t > d
    <3>1. ASSUME 2 * r > b, 2 * t <= d PROVE FALSE
      <4>1. (b + 1) * d <= (2 * r) * d
        BY <3>1, Multiplied
      <4>2. (2 * t) * b <= d * b
        BY <3>1, Multiplied
      <4>3. (b + 1) * d = e + d /\ d * b = e /\ (2 * r) * d = 2 * (r * d) /\ (2 * t) * b = 2 * (t * b)
        BY <1>8
      <4> QED
        BY <4>1, <4>2, <4>3, <2>1, <1>10
    <3> QED
      BY <3>1
  <2>3. 2 * r >= b => 2 * t >= d
    <3>1. ASSUME 2 * r >= b, 2 * t < d PROVE FALSE
      <4>1. b * d <= (2 * r) * d
        BY <3>1, Multiplied
      <4>2. (2 * t + 1) * b <= d * b
        BY <3>1, Multiplied
      <4>3. b * d = e /\ d * b = e /\ (2 * r) * d = 2 * (r * d) /\ (2 * t + 1) * b = 2 * (t * b) + b
        BY <1>8
      <4> QED
        BY <4>1, <4>2, <4>3, <2>1, <1>10
    <3> QED
      BY <3>1
  <2> QED
    BY <1>5, <1>12, <2>2, <2>3
<1>13. CASE f + 1 <= g
  BY <1>5, <1>13
<1> QED
  BY <1>5, <1>11, <1>12, <1>13

Ahead(above, slope) == Q(above.n * slope.d, above.d * (-slope.n))

LEMMA AheadGrows ==
  ASSUME NEW u \in Frac, u.n > 0, NEW p \in Frac, NEW q \in Frac, Leq(p, q), q.n < 0
  PROVE  p.n < 0 /\ Ahead(u, p) \in Frac /\ Ahead(u, q) \in Frac /\ Leq(Ahead(u, p), Ahead(u, q))
<1>1. PICK a \in Int, b \in Nat \ {0}, c \in Int, d \in Nat \ {0}, x \in Nat \ {0}, y \in Nat \ {0} :
        a = p.n /\ b = p.d /\ c = q.n /\ d = q.d /\ x = u.n /\ y = u.d
  BY DEF Frac
<1>2. a * d <= c * b /\ c < 0
  BY <1>1 DEF Leq
<1>3. a < 0
  <2>1. ASSUME a >= 0 PROVE FALSE
    <3>1. 0 * d <= a * d
      BY <2>1, Multiplied
    <3>2. (c + 1) * b <= 0 * b
      BY <1>2, Multiplied
    <3>3. (c + 1) * b = c * b + b /\ 0 * d = 0 /\ 0 * b = 0
      OBVIOUS
    <3> QED
      BY <3>1, <3>2, <3>3, <1>2
  <2> QED
    BY <2>1
<1>4. PICK k \in Nat \ {0}, l \in Nat \ {0} : k = -a /\ l = -c
  BY <1>2, <1>3
<1>5. l * b <= k * d
  BY <1>2, <1>4
<1>6. /\ Ahead(u, p) = [n |-> x * b, d |-> y * k]
      /\ Ahead(u, q) = [n |-> x * d, d |-> y * l]
  BY <1>1, <1>4 DEF Ahead, Q
<1>7. x * b \in Int /\ x * d \in Int /\ y * k \in Nat \ {0} /\ y * l \in Nat \ {0} /\ x * y \in Nat \ {0}
  OBVIOUS
<1>8. (x * b) * (y * l) <= (x * d) * (y * k)
  <2>1. (l * b) * (x * y) <= (k * d) * (x * y)
    BY <1>5, <1>7, Multiplied
  <2>2. (x * b) * (y * l) = (l * b) * (x * y) /\ (x * d) * (y * k) = (k * d) * (x * y)
    OBVIOUS
  <2> QED
    BY <2>1, <2>2
<1> QED
  BY <1>1, <1>3, <1>6, <1>7, <1>8 DEF Leq, Frac

LEMMA HoursAheadGrows ==
  ASSUME NEW w \in Frac, NEW target \in Int,
         NEW p \in Frac, NEW q \in Frac, Leq(p, q), q.n < 0
  PROVE  /\ HoursAhead(w, target, p) \in Nat /\ HoursAhead(w, target, q) \in Nat
         /\ HoursAhead(w, target, p) <= HoursAhead(w, target, q)
<1> DEFINE u == Minus(w, Q(target, 1))
<1>1. u \in Frac
  BY MinusIsFrac DEF Q, Frac
<1>2. \A s : HoursAhead(w, target, s) = IF u.n <= 0 THEN 0 ELSE Rounded(Ahead(u, s))
  BY DEF HoursAhead, Ahead
<1> HIDE DEF u
<1>3. CASE u.n <= 0
  BY <1>2, <1>3
<1>4. CASE u.n > 0
  <2>1. /\ p.n < 0 /\ Ahead(u, p) \in Frac /\ Ahead(u, q) \in Frac
        /\ Leq(Ahead(u, p), Ahead(u, q))
    BY <1>1, <1>4, AheadGrows
  <2>2. /\ Rounded(Ahead(u, p)) \in Int /\ Rounded(Ahead(u, q)) \in Int
        /\ Rounded(Ahead(u, p)) <= Rounded(Ahead(u, q))
    BY <2>1, RoundedGrows
  <2>3. Rounded(Ahead(u, p)) >= 0
    <3>1. Q(0, 1) \in Frac /\ Rounded(Q(0, 1)) = 0
      BY DEF Q, Frac, Rounded
    <3>2. Ahead(u, p).n = u.n * p.d /\ u.n * p.d >= 0
      BY <1>1, <1>4 DEF Ahead, Q, Frac
    <3>3. Leq(Q(0, 1), Ahead(u, p))
      BY <2>1, <3>2 DEF Leq, Q, Frac
    <3>4. Rounded(Q(0, 1)) <= Rounded(Ahead(u, p))
      BY <2>1, <3>1, <3>3, RoundedGrows
    <3> QED
      BY <3>1, <3>4
  <2>4. ~(u.n <= 0)
    BY <1>1, <1>4 DEF Frac
  <2> QED
    BY <1>2, <2>2, <2>3, <2>4
<1> QED
  BY <1>1, <1>3, <1>4 DEF Frac
-------------------------------------------------------------------------------
(* The fit of a series: the slope lies in its band. *)

Point == [at : Int, value : Int, finite : BOOLEAN, aware : BOOLEAN]

Ascending(s) == \A i, j \in DOMAIN s : i < j => s[i].at < s[j].at

IsSeries(s) == s \in Seq(Point) /\ Len(s) >= 2 /\ Ascending(s)

LEMMA PointsOf ==
  ASSUME NEW s \in Seq(Point)
  PROVE  /\ Len(s) \in Nat /\ DOMAIN s = 1 .. Len(s)
         /\ \A i \in 1 .. Len(s) : s[i].at \in Int /\ s[i].value \in Int
<1>1. Len(s) \in Nat /\ DOMAIN s = 1 .. Len(s)
  OBVIOUS
<1>2. \A i \in 1 .. Len(s) : s[i] \in Point
  OBVIOUS
<1> QED
  BY <1>1, <1>2 DEF Point

PairsOf(s) == {q \in (DOMAIN s) \X (DOMAIN s) : q[1] < q[2] /\ s[q[1]].at # s[q[2]].at}

LEMMA SlopesAreFamily ==
  ASSUME NEW s, IsSeries(s)
  PROVE  IsFamily(Slopes(s)) /\ Count(Slopes(s)) \in Nat \ {0}
<1>1. /\ Len(s) \in Nat /\ DOMAIN s = 1 .. Len(s) /\ Len(s) >= 2
      /\ \A i \in 1 .. Len(s) : s[i].at \in Int /\ s[i].value \in Int
      /\ Ascending(s)
  BY PointsOf DEF IsSeries
<1>2. DOMAIN Slopes(s) = PairsOf(s)
  BY DEF Slopes, PairsOf
<1>3. IsFiniteSet(PairsOf(s))
  <2>1. IsFiniteSet(DOMAIN s)
    BY <1>1, FS_Interval
  <2>2. IsFiniteSet((DOMAIN s) \X (DOMAIN s))
    BY <2>1, FS_Product
  <2>3. PairsOf(s) \in SUBSET ((DOMAIN s) \X (DOMAIN s))
    BY DEF PairsOf
  <2> QED
    BY <2>2, <2>3, FS_Subset
<1>4. \A p \in PairsOf(s) : Slopes(s)[p] \in Frac
  <2>1. ASSUME NEW p \in PairsOf(s) PROVE Slopes(s)[p] \in Frac
    <3>1. Slopes(s)[p] = Slope(s[p[1]], s[p[2]])
      BY DEF Slopes, PairsOf
    <3>2. PICK i \in DOMAIN s, j \in DOMAIN s : p[1] = i /\ p[2] = j /\ i < j
      BY DEF PairsOf
    <3>3. s[j].at - s[i].at \in Nat \ {0} /\ s[j].value - s[i].value \in Int
      BY <1>1, <3>2 DEF Ascending
    <3> QED
      BY <3>1, <3>2, <3>3 DEF Slope, Q, Frac
  <2> QED
    BY <2>1
<1>5. <<1, 2>> \in PairsOf(s)
  <2>1. 1 \in DOMAIN s /\ 2 \in DOMAIN s
    BY <1>1
  <2>2. s[1].at < s[2].at /\ s[1].at \in Int /\ s[2].at \in Int
    BY <1>1, <2>1 DEF Ascending
  <2> QED
    BY <2>1, <2>2 DEF PairsOf
<1>6. Count(Slopes(s)) \in Nat /\ Count(Slopes(s)) # 0
  BY <1>2, <1>3, <1>5, FS_CardinalityType, FS_EmptySet DEF Count
<1> QED
  BY <1>2, <1>3, <1>4, <1>6 DEF IsFamily

LEMMA SpreadPositive ==
  ASSUME NEW n \in Nat, n >= 2, NEW x \in Int, SpreadAtMost(n, x)
  PROVE  x > 0
<1>1. PICK k \in Nat \ {0} : k = n - 1
  OBVIOUS
<1>2. 38415 * n * (n - 1) * (2 * n + 5) > 0
  <2>1. PICK l \in Nat \ {0} : l = 2 * n + 5
    OBVIOUS
  <2>2. 38415 * n * k * l > 0
    OBVIOUS
  <2> QED
    BY <1>1, <2>1, <2>2
<1>3. x >= 0 /\ x * x * 180000 > 0
  BY <1>2 DEF SpreadAtMost
<1>4. x # 0
  BY <1>3
<1> QED
  BY <1>3, <1>4

LEMMA RanksAround ==
  ASSUME NEW n \in Nat, n >= 2, NEW m \in Nat \ {0}
  PROVE  /\ RankLow(n, m) \in Nat /\ 2 * RankLow(n, m) < m
         /\ RankHigh(n, m) \in Nat /\ 2 * RankHigh(n, m) >= m - 1 /\ RankHigh(n, m) < m
<1> DEFINE L == {0} \cup {k \in 0 .. m - 1 : SpreadAtMost(n, m - 2 * k)}
           H == {m - 1} \cup {k \in 0 .. m - 1 : SpreadAtMost(n, 2 * k - m)}
<1>1. \A k \in L : k \in Nat /\ k <= m - 1 /\ 2 * k < m
  <2>1. ASSUME NEW k \in 0 .. m - 1, SpreadAtMost(n, m - 2 * k) PROVE 2 * k < m
    <3>1. m - 2 * k \in Int
      OBVIOUS
    <3>2. m - 2 * k > 0
      BY <2>1, <3>1, SpreadPositive
    <3> QED
      BY <3>2
  <2> QED
    BY <2>1
<1>2. \A k \in H : k \in Nat /\ k <= m - 1 /\ 2 * k >= m - 1
  <2>1. ASSUME NEW k \in 0 .. m - 1, SpreadAtMost(n, 2 * k - m) PROVE 2 * k >= m - 1
    <3>1. 2 * k - m \in Int
      OBVIOUS
    <3>2. 2 * k - m > 0
      BY <2>1, <3>1, SpreadPositive
    <3> QED
      BY <3>2
  <2> QED
    BY <2>1
<1>3. RankLow(n, m) = Largest(L) /\ RankHigh(n, m) = Smallest(H) /\ L # {} /\ H # {}
  BY DEF RankLow, RankHigh
<1> HIDE DEF L, H
<1>4. Largest(L) \in L
  <2>1. m - 1 \in Int /\ L \in SUBSET Int
    BY <1>1
  <2> QED
    BY <1>1, <1>3, <2>1, LargestOf
<1>5. Smallest(H) \in H
  <2>1. H \in SUBSET Nat
    BY <1>2
  <2> QED
    BY <1>3, <2>1, SmallestOf
<1> QED
  BY <1>1, <1>2, <1>3, <1>4, <1>5

Offsets(s, slope) ==
  [i \in DOMAIN s |-> Minus(Q(s[i].value, 1), Times(slope, s[i].at - s[Len(s)].at))]

LEMMA OffsetsAreFamily ==
  ASSUME NEW s, IsSeries(s), NEW slope \in Frac
  PROVE  IsFamily(Offsets(s, slope)) /\ Count(Offsets(s, slope)) = Len(s) /\ Len(s) \in Nat \ {0}
<1>1. /\ Len(s) \in Nat /\ DOMAIN s = 1 .. Len(s) /\ Len(s) >= 2
      /\ \A i \in 1 .. Len(s) : s[i].at \in Int /\ s[i].value \in Int
  BY PointsOf DEF IsSeries
<1>2. DOMAIN Offsets(s, slope) = 1 .. Len(s)
  BY <1>1 DEF Offsets
<1>3. IsFiniteSet(1 .. Len(s)) /\ Cardinality(1 .. Len(s)) = Len(s)
  BY <1>1, FS_Interval
<1>4. ASSUME NEW i \in 1 .. Len(s) PROVE Offsets(s, slope)[i] \in Frac
  <2>1. s[i].at - s[Len(s)].at \in Int /\ Q(s[i].value, 1) \in Frac
    BY <1>1 DEF Q, Frac
  <2>2. Offsets(s, slope)[i] = Minus(Q(s[i].value, 1), Times(slope, s[i].at - s[Len(s)].at))
    BY <1>1 DEF Offsets
  <2> QED
    BY <2>1, <2>2, MinusIsFrac, TimesIsFrac
<1> QED
  BY <1>1, <1>2, <1>3, <1>4 DEF IsFamily, Count

LEMMA FitBand ==
  ASSUME NEW s, IsSeries(s)
  PROVE  /\ theil_sen(s).slope \in Frac /\ theil_sen(s).low \in Frac /\ theil_sen(s).high \in Frac
         /\ theil_sen(s).value_at_anchor \in Frac
         /\ Leq(theil_sen(s).low, theil_sen(s).slope)
         /\ Leq(theil_sen(s).slope, theil_sen(s).high)
<1> DEFINE v == Slopes(s)
           m == Count(v)
           lo == RankLow(Len(s), m)
           hi == RankHigh(Len(s), m)
<1>1. IsFamily(v) /\ m \in Nat \ {0}
  BY SlopesAreFamily
<1>2. Len(s) \in Nat /\ Len(s) >= 2
  BY PointsOf DEF IsSeries
<1>3. lo \in Nat /\ 2 * lo < m /\ hi \in Nat /\ 2 * hi >= m - 1 /\ hi < m
  BY <1>1, <1>2, RanksAround
<1>4. theil_sen(s) = [slope |-> median(v), low |-> Ranked(v, lo), high |-> Ranked(v, hi),
                      value_at_anchor |-> median(Offsets(s, median(v)))]
  BY DEF theil_sen, Intercept, Offsets, Count
<1> HIDE DEF v, lo, hi
<1>5. median(v) \in Frac /\ Leq(Ranked(v, lo), median(v)) /\ Leq(median(v), Ranked(v, hi))
  BY <1>1, <1>3, MedianBetween
<1>6. Ranked(v, lo) \in Frac /\ Ranked(v, hi) \in Frac
  <2>1. lo < m
    BY <1>1, <1>3
  <2> QED
    BY <1>1, <1>3, <2>1, RankedIs
<1>7. median(Offsets(s, median(v))) \in Frac
  <2>1. /\ IsFamily(Offsets(s, median(v))) /\ Count(Offsets(s, median(v))) = Len(s)
        /\ Len(s) \in Nat \ {0}
    BY <1>5, OffsetsAreFamily
  <2>2. 2 * 0 < Len(s) /\ 2 * (Len(s) - 1) >= Len(s) - 1 /\ Len(s) - 1 < Len(s) /\ Len(s) - 1 \in Nat
    BY <2>1
  <2> QED
    BY <2>1, <2>2, MedianBetween
<1> QED
  BY <1>4, <1>5, <1>6, <1>7
-------------------------------------------------------------------------------
(* Suffixes of a series. *)

LEMMA Suffix ==
  ASSUME NEW s \in Seq(Point), NEW a \in 1 .. Len(s) + 1
  PROVE  LET t == SubSeq(s, a, Len(s))
         IN  /\ t \in Seq(Point) /\ Len(t) = Len(s) - a + 1
             /\ \A i \in 1 .. Len(t) : t[i] = s[a + i - 1]
             /\ Ascending(s) => Ascending(t)
<1> DEFINE t == SubSeq(s, a, Len(s))
<1>1. Len(s) \in Nat /\ Len(s) - a + 1 \in Nat
  BY PointsOf
<1>2. t \in Seq(Point) /\ Len(t) = Len(s) - a + 1
  BY <1>1
<1>3. \A i \in 1 .. Len(t) : t[i] = s[a + i - 1]
  BY <1>1, <1>2
<1>4. DOMAIN t = 1 .. Len(t) /\ DOMAIN s = 1 .. Len(s)
  BY <1>2, PointsOf
<1> HIDE DEF t
<1>5. ASSUME Ascending(s) PROVE Ascending(t)
  <2>1. ASSUME NEW i \in 1 .. Len(t), NEW j \in 1 .. Len(t), i < j PROVE t[i].at < t[j].at
    <3>1. a + i - 1 \in 1 .. Len(s) /\ a + j - 1 \in 1 .. Len(s) /\ a + i - 1 < a + j - 1
      BY <1>1, <1>2, <2>1
    <3> QED
      BY <1>3, <1>4, <1>5, <3>1 DEF Ascending
  <2> QED
    BY <1>4, <2>1 DEF Ascending
<1> QED
  BY <1>2, <1>3, <1>5 DEF t

LEMMA ValidAscends ==
  ASSUME NEW s \in Seq(Point), ValidSeries(s)
  PROVE  Ascending(s)
<1>1. /\ Len(s) \in Nat /\ DOMAIN s = 1 .. Len(s)
      /\ \A i \in 1 .. Len(s) : s[i].at \in Int
  BY PointsOf
<1>2. \A i \in 1 .. Len(s) - 1 : s[i].at < s[i + 1].at
  <2>1. ASSUME NEW i \in 1 .. Len(s) - 1 PROVE s[i].at < s[i + 1].at
    <3>1. s[i + 1].at - s[i].at > 0
      BY DEF ValidSeries, Pairwise, Gap
    <3>2. s[i].at \in Int /\ s[i + 1].at \in Int
      BY <1>1
    <3> QED
      BY <3>1, <3>2
  <2> QED
    BY <2>1
<1>3. ASSUME NEW i \in 1 .. Len(s), NEW l \in 1 .. Len(s), i < l, ~(s[i].at < s[l].at)
      PROVE  FALSE
  <2> DEFINE T == {j \in 1 .. Len(s) : i < j /\ ~(s[i].at < s[j].at)}
  <2>1. T \in SUBSET Nat /\ T # {}
    BY <1>3
  <2>2. PICK j \in T : \A k \in T : j <= k
    BY <2>1, LeastNatural
  <2>3. j - 1 \in 1 .. Len(s) - 1 /\ j - 1 >= i /\ j - 1 + 1 = j
    BY <1>1, <2>2
  <2>4. s[j - 1].at < s[j].at
    BY <1>2, <2>3
  <2>5. j - 1 \notin T
    BY <1>1, <2>2
  <2>6. j - 1 = i \/ s[i].at < s[j - 1].at
    BY <1>1, <2>3, <2>5
  <2> QED
    BY <1>1, <2>2, <2>3, <2>4, <2>6
<1> QED
  BY <1>1, <1>3 DEF Ascending

LEMMA Starts ==
  ASSUME NEW s \in Seq(Point), Len(s) >= 1, NEW metric
  PROVE  /\ SegmentStarts(s, metric) \in SUBSET (1 .. Len(s))
         /\ Largest(SegmentStarts(s, metric)) \in SegmentStarts(s, metric)
         /\ \A y \in SegmentStarts(s, metric) : Largest(SegmentStarts(s, metric)) >= y
<1>1. Len(s) \in Nat
  BY PointsOf
<1>2. SegmentStarts(s, metric) \in SUBSET (1 .. Len(s)) /\ SegmentStarts(s, metric) # {}
  <2>1. \A j \in Pairwise(s) : j + 1 \in 1 .. Len(s)
    BY <1>1 DEF Pairwise
  <2>2. \A x \in SegmentStarts(s, metric) : x = 1 \/ \E j \in Pairwise(s) : x = j + 1
    BY DEF SegmentStarts
  <2>3. 1 \in 1 .. Len(s) /\ 1 \in SegmentStarts(s, metric)
    BY <1>1 DEF SegmentStarts
  <2> QED
    BY <2>1, <2>2, <2>3
<1> DEFINE S == SegmentStarts(s, metric)
<1>3. S \in SUBSET Int /\ S # {} /\ \A x \in S : x <= Len(s)
  BY <1>1, <1>2
<1>4. Len(s) \in Int
  BY <1>1
<1> HIDE DEF S
<1>5. Largest(S) \in S /\ \A y \in S : Largest(S) >= y
  BY <1>3, <1>4, LargestOf
<1> QED
  BY <1>2, <1>5 DEF S

-------------------------------------------------------------------------------
(* What a forecast promises. *)

KeepsPromises(fc) ==
  /\ fc.status \in Status
  /\ fc.crosses_at # None <=> fc.status \in CROSSING_STATUSES
  /\ fc.crosses_at # None =>
       /\ fc.as_of <= fc.crosses_at_earliest
       /\ fc.crosses_at_earliest <= fc.crosses_at
       /\ fc.crosses_at_latest # None => fc.crosses_at <= fc.crosses_at_latest

LEMMA NothingPromised ==
  ASSUME NEW status \in Status \ CROSSING_STATUSES, NEW as_of, NEW cut
  PROVE  /\ KeepsPromises(no_crossing(status, as_of))
         /\ KeepsPromises(Dated(status, as_of, None, None, None, cut))
BY DEF KeepsPromises, no_crossing, Dated

LEMMA LineKeepsPromises ==
  ASSUME NEW f, IsSeries(f), NEW s \in Seq(Point), Len(s) >= 1, s[Len(s)].at >= 0,
         NEW metric, metric.target \in Int, metric.max_horizon_seconds \in Int, NEW ws,
         Extrapolated(f, s, metric, ws).status # "raised"
  PROVE  KeepsPromises(Extrapolated(f, s, metric, ws))
<1> DEFINE fit == theil_sen(f)
           anchor == s[Len(s)].at
           At(slope) == crossing(fit.value_at_anchor, metric.target, slope, anchor)
           cut == Truncated(s, metric, ws)
           Hours(slope) == HoursAhead(fit.value_at_anchor, metric.target, slope)
           fc == Extrapolated(f, s, metric, ws)
<1>1. anchor \in Nat
  <2>1. Len(s) \in 1 .. Len(s)
    BY PointsOf
  <2> QED
    BY <2>1, PointsOf
<1>2. fc = IF At(fit.slope) = None
           THEN Dated("not_depleting", anchor, None, None, None, cut)
           ELSE IF \E t \in {At(fit.slope), At(fit.low), At(fit.high)} : t > LastTime
           THEN Overflow
           ELSE Dated(IF At(fit.slope) - anchor > metric.max_horizon_seconds
                      THEN "beyond_horizon" ELSE "ok",
                      anchor, At(fit.slope), At(fit.low), At(fit.high), cut)
  BY DEF Extrapolated
<1>3. /\ fit.slope \in Frac /\ fit.low \in Frac /\ fit.high \in Frac
      /\ fit.value_at_anchor \in Frac
      /\ Leq(fit.low, fit.slope) /\ Leq(fit.slope, fit.high)
  BY FitBand
<1>4. \A x : At(x) = IF x.n >= 0 THEN None ELSE anchor + Hours(x)
  BY DEF crossing, Never
<1> HIDE DEF fit, anchor, At, cut, Hours
<1>5. CASE At(fit.slope) = None
  BY <1>2, <1>5, NothingPromised DEF Status, CROSSING_STATUSES
<1>6. CASE At(fit.slope) # None
  <2>1. fit.slope.n < 0 /\ At(fit.slope) = anchor + Hours(fit.slope)
    BY <1>3, <1>4, <1>6 DEF Frac
  <2>2. fit.low.n < 0 /\ Hours(fit.low) \in Nat /\ Hours(fit.slope) \in Nat /\ Hours(fit.low) <= Hours(fit.slope)
    <3>1. Hours(fit.low) \in Nat /\ Hours(fit.slope) \in Nat /\ Hours(fit.low) <= Hours(fit.slope)
      BY <1>3, <2>1, HoursAheadGrows DEF Hours
    <3>2. Q(1, 1) \in Frac /\ Q(1, 1).n > 0
      BY DEF Q, Frac
    <3>3. fit.low.n < 0
      BY <1>3, <2>1, <3>2, AheadGrows
    <3> QED
      BY <3>1, <3>3
  <2>3. At(fit.low) = anchor + Hours(fit.low)
    BY <1>3, <1>4, <2>2 DEF Frac
  <2>4. At(fit.high) # None => At(fit.slope) <= At(fit.high)
    <3>1. ASSUME At(fit.high) # None PROVE At(fit.slope) <= At(fit.high)
      <4>1. fit.high.n < 0 /\ At(fit.high) = anchor + Hours(fit.high)
        BY <1>3, <1>4, <3>1 DEF Frac
      <4>2. Hours(fit.slope) <= Hours(fit.high) /\ Hours(fit.high) \in Nat
        BY <1>3, <4>1, HoursAheadGrows DEF Hours
      <4> QED
        BY <1>1, <2>1, <2>2, <4>1, <4>2
    <3> QED
      BY <3>1
  <2>5. PICK status \in {"ok", "beyond_horizon"} :
          fc = Dated(status, anchor, At(fit.slope), At(fit.low), At(fit.high), cut)
    <3>1. fc # Overflow
      BY DEF Overflow, no_crossing, Dated
    <3> HIDE DEF fc
    <3> QED
      BY <1>2, <1>6, <3>1
  <2>6. anchor <= At(fit.low) /\ At(fit.low) <= At(fit.slope)
    BY <1>1, <2>1, <2>2, <2>3
  <2> HIDE DEF fc
  <2> QED
    BY <1>6, <2>4, <2>5, <2>6 DEF KeepsPromises, Dated, Status, CROSSING_STATUSES, fc
<1> QED
  BY <1>5, <1>6

Fitted(s, metric) ==
  LET segment == NewestSegment(s, metric)
  IN  SubSeq(segment, Largest({1, Len(segment) - metric.max_fit_points + 1}), Len(segment))

LEMMA FittedIs ==
  ASSUME NEW s \in Seq(Point), Len(s) >= 1, NEW metric, metric.max_fit_points \in Nat \ {0}
  PROVE  /\ Fitted(s, metric) \in Seq(Point) /\ Len(Fitted(s, metric)) <= Len(s)
         /\ Ascending(s) => Ascending(Fitted(s, metric))
<1> DEFINE a == Largest(SegmentStarts(s, metric))
           t == SubSeq(s, a, Len(s))
           b == Largest({1, Len(t) - metric.max_fit_points + 1})
<1>1. a \in 1 .. Len(s) /\ Len(s) \in Nat
  BY Starts, PointsOf
<1>2. Fitted(s, metric) = SubSeq(t, b, Len(t))
  BY DEF Fitted, NewestSegment
<1> HIDE DEF a
<1>3. a \in 1 .. Len(s) + 1
  BY <1>1
<1>4. t \in Seq(Point) /\ Len(t) = Len(s) - a + 1 /\ (Ascending(s) => Ascending(t))
  BY <1>3, Suffix
<1> HIDE DEF t
<1>5. Len(t) \in Nat /\ Len(t) >= 1 /\ Len(t) <= Len(s)
  BY <1>1, <1>4
<1>6. Len(t) - metric.max_fit_points + 1 \in Int
  BY <1>5
<1>7. b \in 1 .. Len(t) + 1
  BY <1>5, <1>6, LargerOfTwo
<1> HIDE DEF b
<1>8. /\ SubSeq(t, b, Len(t)) \in Seq(Point)
      /\ Len(SubSeq(t, b, Len(t))) = Len(t) - b + 1
      /\ Ascending(t) => Ascending(SubSeq(t, b, Len(t)))
  BY <1>4, <1>7, Suffix
<1> QED
  BY <1>2, <1>4, <1>5, <1>7, <1>8

(* The answers, each with the tests it has passed. *)
LEMMA Answers ==
  ASSUME NEW s \in Seq(Point), s # <<>>, NEW metric, NEW n, NEW ws
  PROVE  LET fc     == forecast(s, metric, n, ws)
             newest == s[Len(s)]
         IN  \/ ~ValidSeries(s) /\ \E as_of : fc = no_crossing("invalid_series", as_of)
             \/ ValidSeries(s) /\ IsStale(s, metric, n) /\ fc = no_crossing("stale", newest.at)
             \/ /\ ValidSeries(s) /\ ~IsStale(s, metric, n)
                /\ \/ fc = Dated("at_or_below_target", newest.at, newest.at, newest.at, newest.at, FALSE)
                   \/ \E status \in {"insufficient_points", "insufficient_span"} :
                        fc = no_crossing(status, newest.at)
                   \/ /\ ~(Len(Fitted(s, metric)) < MinFitPoints)
                      /\ fc = Extrapolated(Fitted(s, metric), s, metric, ws)
BY DEF forecast, Fitted

LEMMA ForecastKeepsPromises ==
  ASSUME NEW s \in Seq(Point), s # <<>> => s[Len(s)].at >= 0,
         NEW metric, metric.max_fit_points \in Nat \ {0},
         metric.target \in Int, metric.max_horizon_seconds \in Int, NEW n, NEW ws,
         forecast(s, metric, n, ws).status # "raised"
  PROVE  KeepsPromises(forecast(s, metric, n, ws))
<1> DEFINE fc == forecast(s, metric, n, ws)
           newest == s[Len(s)]
<1>1. CASE s = <<>>
  <2>1. fc = no_crossing("no_data", None)
    BY <1>1 DEF forecast
  <2> QED
    BY <2>1, NothingPromised DEF Status, CROSSING_STATUSES
<1>2. CASE s # <<>>
  <2>0. Len(s) >= 1 /\ Len(s) \in 1 .. Len(s) /\ newest.at \in Nat
    <3>1. Len(s) \in 1 .. Len(s)
      BY <1>2, PointsOf
    <3> QED
      BY <1>2, <3>1, PointsOf
  <2> HIDE DEF fc, newest
  <2>1. CASE \E status \in Status \ CROSSING_STATUSES : \E as_of : fc = no_crossing(status, as_of)
    BY <2>1, NothingPromised DEF fc
  <2>2. CASE fc = Dated("at_or_below_target", newest.at, newest.at, newest.at, newest.at, FALSE)
    <3>1. newest.at # None /\ newest.at <= newest.at
      BY <2>0 DEF None
    <3> QED
      BY <2>2, <3>1 DEF KeepsPromises, Dated, Status, CROSSING_STATUSES, fc
  <2>3. CASE /\ ValidSeries(s) /\ ~(Len(Fitted(s, metric)) < MinFitPoints)
             /\ fc = Extrapolated(Fitted(s, metric), s, metric, ws)
    <3>1. Fitted(s, metric) \in Seq(Point) /\ Ascending(Fitted(s, metric))
      BY <2>0, <2>3, FittedIs, ValidAscends
    <3>2. Len(Fitted(s, metric)) >= 2
      BY <3>1, <2>3 DEF MinFitPoints
    <3>3. IsSeries(Fitted(s, metric))
      BY <3>1, <3>2 DEF IsSeries
    <3> QED
      BY <2>0, <2>3, <3>3, <1>2, LineKeepsPromises DEF fc, newest
  <2>4. {"invalid_series", "stale", "insufficient_points", "insufficient_span"}
           \subseteq Status \ CROSSING_STATUSES
    BY DEF Status, CROSSING_STATUSES
  <2> QED
    <3>1. \/ \E status \in Status \ CROSSING_STATUSES : \E as_of : fc = no_crossing(status, as_of)
          \/ fc = Dated("at_or_below_target", newest.at, newest.at, newest.at, newest.at, FALSE)
          \/ /\ ValidSeries(s) /\ ~(Len(Fitted(s, metric)) < MinFitPoints)
             /\ fc = Extrapolated(Fitted(s, metric), s, metric, ws)
      <4>1. \/ \E as_of : fc = no_crossing("invalid_series", as_of)
            \/ fc = no_crossing("stale", newest.at)
            \/ fc = Dated("at_or_below_target", newest.at, newest.at, newest.at, newest.at, FALSE)
            \/ \E status \in {"insufficient_points", "insufficient_span"} :
                 fc = no_crossing(status, newest.at)
            \/ /\ ValidSeries(s) /\ ~(Len(Fitted(s, metric)) < MinFitPoints)
               /\ fc = Extrapolated(Fitted(s, metric), s, metric, ws)
        BY <1>2, Answers, Zenon DEF fc, newest
      <4>2. {"invalid_series", "stale"} \subseteq Status \ CROSSING_STATUSES
        BY <2>4
      <4>3. {"insufficient_points", "insufficient_span"} \subseteq Status \ CROSSING_STATUSES
        BY <2>4
      <4> QED
        BY <4>1, <4>2, <4>3, Zenon
    <3> QED
      BY <2>1, <2>2, <2>3, <3>1
<1> QED
  BY <1>1, <1>2

-------------------------------------------------------------------------------
(* The growing series. *)

SeriesInv ==
  /\ samples \in Seq(Point) /\ Len(samples) >= 1
  /\ \A i \in 1 .. Len(samples) : samples[i].at >= 1
  /\ \A i, j \in 1 .. Len(samples) : i <= j => samples[i].at <= samples[j].at
  /\ now \in Int

LEMMA GrowKeepsSeries ==
  ASSUME SeriesInv, NEW p \in Point, p.at >= Newest.at, Grow(p)
  PROVE  SeriesInv'
<1> DEFINE m == Len(samples)
<1>1. m \in Nat /\ m >= 1 /\ Newest.at \in Int /\ Newest.at >= 1
      /\ \A i \in 1 .. m : samples[i].at \in Int
  <2>1. m \in 1 .. Len(samples)
    BY PointsOf DEF SeriesInv
  <2> QED
    BY <2>1, PointsOf DEF SeriesInv, Newest
<1>2. samples' = Append(samples, p)
  BY DEF Grow
<1>3. /\ samples' \in Seq(Point) /\ Len(samples') = m + 1
      /\ \A i \in 1 .. m : samples'[i] = samples[i]
      /\ samples'[m + 1] = p
  <2>1. samples \in Seq(Point)
    BY DEF SeriesInv
  <2> QED
    BY <1>2, <2>1
<1>4. p.at \in Int /\ p.at >= 1
  BY <1>1 DEF Point
<1>5. now' \in Int
  <2>1. now' = Largest({now, p.at}) /\ now \in Int
    BY DEF Grow, SeriesInv
  <2> QED
    BY <2>1, <1>4, LargerOfTwo
<1>6. \A i \in 1 .. m : samples[i].at <= p.at /\ samples[i].at >= 1
  <2>1. \A i \in 1 .. m : samples[i].at <= Newest.at /\ samples[i].at >= 1
    <3>1. m \in 1 .. m
      BY <1>1
    <3> QED
      BY <1>1, <3>1 DEF SeriesInv, Newest
  <2> QED
    BY <1>1, <1>4, <2>1
<1>7. \A i \in 1 .. m + 1 : samples'[i].at >= 1
  BY <1>1, <1>3, <1>4, <1>6
<1>8. \A i, j \in 1 .. m + 1 : i <= j => samples'[i].at <= samples'[j].at
  <2>1. ASSUME NEW i \in 1 .. m + 1, NEW j \in 1 .. m + 1, i <= j
        PROVE  samples'[i].at <= samples'[j].at
    <3>1. CASE j = m + 1
      <4>1. i = m + 1 \/ i \in 1 .. m
        BY <1>1
      <4> QED
        BY <4>1, <3>1, <1>3, <1>4, <1>6
    <3>2. CASE j # m + 1
      <4>1. j \in 1 .. m /\ i \in 1 .. m
        BY <1>1, <2>1, <3>2
      <4> QED
        BY <4>1, <2>1, <1>3 DEF SeriesInv
    <3> QED
      BY <3>1, <3>2
  <2> QED
    BY <2>1
<1> QED
  BY <1>1, <1>3, <1>5, <1>7, <1>8 DEF SeriesInv

LEMMA OddSamples ==
  ASSUME NEW at \in Int, NEW v \in Int
  PROVE  /\ Sample(at, v) \in Point /\ Sample(at, v).at = at
         /\ [Sample(at, v) EXCEPT !.finite = FALSE] \in Point
         /\ [Sample(at, v) EXCEPT !.finite = FALSE].at = at
         /\ [Sample(at, v) EXCEPT !.aware = FALSE] \in Point
         /\ [Sample(at, v) EXCEPT !.aware = FALSE].at = at
<1>1. Sample(at, v) \in Point /\ Sample(at, v).at = at
  BY DEF Sample, Point
<1> HIDE DEF Sample
<1>2. ASSUME NEW r \in Point
      PROVE  /\ [r EXCEPT !.finite = FALSE] \in Point /\ [r EXCEPT !.finite = FALSE].at = r.at
             /\ [r EXCEPT !.aware = FALSE] \in Point /\ [r EXCEPT !.aware = FALSE].at = r.at
  BY DEF Point
<1> QED
  BY <1>1, <1>2

LEMMA SeriesInvariant == Spec => []SeriesInv
<1>1. Init => SeriesInv
  <2> SUFFICES ASSUME Init PROVE SeriesInv
    OBVIOUS
  <2>1. PICK v \in Values : samples = <<Sample(1, v)>>
    BY DEF Init
  <2>2. Sample(1, v) \in Point /\ Sample(1, v).at = 1
    BY SeriesAssumption DEF Sample, Point
  <2> HIDE DEF Sample
  <2> QED
    BY <2>1, <2>2 DEF Init, SeriesInv
<1>2. SeriesInv /\ [Next]_svars => SeriesInv'
  <2> SUFFICES ASSUME SeriesInv, [Next]_svars PROVE SeriesInv'
    OBVIOUS
  <2>0. Newest.at \in Int /\ Newest.value \in Int
    <3>1. Len(samples) \in 1 .. Len(samples)
      BY PointsOf DEF SeriesInv
    <3> QED
      BY <3>1, PointsOf DEF SeriesInv, Newest
  <2>1. \A at \in Int, v \in Int : Sample(at, v) \in Point /\ Sample(at, v).at = at
    BY OddSamples
  <2>2. CASE Report
    <3>1. PICK v \in Values, g \in Gaps : Grow(Sample(Newest.at + g, v))
      BY <2>2 DEF Report
    <3>2. v \in Int /\ Newest.at + g \in Int /\ Newest.at + g >= Newest.at
      BY <2>0, SeriesAssumption
    <3> QED
      BY <2>1, <3>1, <3>2, GrowKeepsSeries
  <2>3. CASE MalformedReport
    <3>1. CASE Grow(Sample(Newest.at, Newest.value))
      <4>1. Newest.at >= Newest.at
        BY <2>0
      <4> QED
        BY <2>0, <2>1, <3>1, <4>1, GrowKeepsSeries
    <3>2. CASE Grow([Sample(Newest.at + 1, Newest.value) EXCEPT !.finite = FALSE])
      <4>1. Newest.at + 1 \in Int /\ Newest.at + 1 >= Newest.at
        BY <2>0
      <4> QED
        BY <2>0, <3>2, <4>1, OddSamples, GrowKeepsSeries
    <3>3. CASE Grow([Sample(Newest.at + 1, Newest.value) EXCEPT !.aware = FALSE])
      <4>1. Newest.at + 1 \in Int /\ Newest.at + 1 >= Newest.at
        BY <2>0
      <4> QED
        BY <2>0, <3>3, <4>1, OddSamples, GrowKeepsSeries
    <3> QED
      BY <2>3, <3>1, <3>2, <3>3 DEF MalformedReport
  <2>4. CASE FleetReports
    BY <2>4 DEF FleetReports, SeriesInv
  <2>5. CASE UNCHANGED svars
    BY <2>5 DEF svars, SeriesInv
  <2> QED
    BY <2>2, <2>3, <2>4, <2>5 DEF Next
<1> QED
  BY <1>1, <1>2, PTL DEF Spec

LEMMA WindowIs ==
  ASSUME SeriesInv
  PROVE  /\ Window \in Seq(Point) /\ Len(Window) \in 0 .. Len(samples) /\ WindowStart \in Int
         /\ Len(samples) \in Nat
         /\ \A i \in 1 .. Len(Window) : Window[i] = samples[Len(samples) - Len(Window) + i]
         /\ Len(Window) # Len(samples) => samples[Len(samples) - Len(Window)].at <= WindowStart
<1> DEFINE m == Len(samples)
           S == Recent \cup {m + 1}
           a == Smallest(S)
<1>1. m \in Nat /\ DOMAIN samples = 1 .. m /\ \A i \in 1 .. m : samples[i].at \in Int
  BY PointsOf DEF SeriesInv
<1>2. WindowStart \in Int
  BY SeriesAssumption DEF WindowStart, SeriesInv
<1>3. S \in SUBSET Nat /\ S # {} /\ m + 1 \in S /\ \A x \in S : x >= 1
  BY <1>1 DEF Recent
<1>4. Window = SubSeq(samples, a, m)
  BY DEF Window
<1> HIDE DEF S
<1>5. a \in S /\ \A x \in S : a <= x
  BY <1>3, SmallestOf
<1> HIDE DEF a
<1>6. a \in 1 .. m + 1
  <2>1. a \in Nat /\ a >= 1 /\ a <= m + 1
    BY <1>3, <1>5
  <2> QED
    BY <1>1, <2>1
<1>7. /\ Window \in Seq(Point) /\ Len(Window) = m - a + 1
      /\ \A i \in 1 .. Len(Window) : Window[i] = samples[a + i - 1]
  BY <1>4, <1>6, Suffix DEF SeriesInv
<1>8. ASSUME Len(Window) # m PROVE samples[m - Len(Window)].at <= WindowStart
  <2>1. m - Len(Window) = a - 1 /\ a - 1 \in 1 .. m
    BY <1>1, <1>6, <1>7, <1>8
  <2>2. a - 1 \notin S
    BY <1>5, <1>6
  <2>3. ~(samples[a - 1].at > WindowStart)
    BY <1>1, <2>1, <2>2 DEF S, Recent
  <2> QED
    BY <1>1, <1>2, <2>1, <2>3
<1>9. Len(Window) \in 0 .. m /\ \A i \in 1 .. Len(Window) : m - Len(Window) + i = a + i - 1
  BY <1>1, <1>6, <1>7
<1> QED
  BY <1>1, <1>2, <1>7, <1>8, <1>9

(* Whenever forecast answers, what it says of the crossing hangs together: *)
(* model.py, Status and _crossing, for any metric and any series.          *)
THEOREM CrossingsHangTogether == Spec => [](ForecastTotal => CrossingInvariant)
<1>1. SeriesInv /\ ForecastTotal => CrossingInvariant
  <2> SUFFICES ASSUME SeriesInv, Fc.status # "raised" PROVE KeepsPromises(Fc)
    BY DEF ForecastTotal, CrossingInvariant, KeepsPromises
  <2>1. ASSUME Window # <<>> PROVE Window[Len(Window)].at >= 0
    <3>1. Len(Window) \in 1 .. Len(Window) /\ Len(samples) \in 1 .. Len(samples)
      BY <2>1, WindowIs, PointsOf DEF SeriesInv
    <3>2. Window[Len(Window)] = samples[Len(samples) - Len(Window) + Len(Window)]
      BY <3>1, WindowIs
    <3>3. Len(samples) - Len(Window) + Len(Window) = Len(samples)
      BY WindowIs
    <3>4. samples[Len(samples)].at \in Int /\ samples[Len(samples)].at >= 1
      BY <3>1, PointsOf DEF SeriesInv
    <3> QED
      BY <3>2, <3>3, <3>4
  <2> QED
    BY <2>1, WindowIs, ForecastKeepsPromises, SeriesAssumption DEF Fc
<1> QED
  BY <1>1, SeriesInvariant, PTL
-------------------------------------------------------------------------------
(* The cadence of a series. *)

GapsOf(s) == [i \in {j \in Pairwise(s) : Gap(s, j) > 0} |-> Q(Gap(s, i), 1)]

LEMMA GapsAreFamily ==
  ASSUME NEW s \in Seq(Point), HasCadence(s)
  PROVE  /\ IsFamily(GapsOf(s)) /\ Count(GapsOf(s)) \in Nat \ {0}
         /\ cadence_seconds(s) = median(GapsOf(s))
         /\ \A i \in DOMAIN GapsOf(s) : i \in Pairwise(s) /\ GapsOf(s)[i] = Q(Gap(s, i), 1)
<1> DEFINE P == {j \in Pairwise(s) : Gap(s, j) > 0}
<1>1. Len(s) \in Nat /\ \A i \in 1 .. Len(s) : s[i].at \in Int
  BY PointsOf
<1>2. DOMAIN GapsOf(s) = P /\ \A i \in P : GapsOf(s)[i] = Q(Gap(s, i), 1)
  BY DEF GapsOf
<1>3. IsFiniteSet(P) /\ P # {}
  <2>1. IsFiniteSet(Pairwise(s))
    BY <1>1, FS_Interval DEF Pairwise
  <2> QED
    BY <2>1, FS_Subset DEF HasCadence
<1>4. ASSUME NEW i \in P PROVE Q(Gap(s, i), 1) \in Frac
  <2>1. i \in 1 .. Len(s) /\ i + 1 \in 1 .. Len(s)
    BY <1>1 DEF Pairwise
  <2>2. Gap(s, i) \in Int
    BY <1>1, <2>1 DEF Gap
  <2> QED
    BY <2>2 DEF Q, Frac
<1>5. Count(GapsOf(s)) \in Nat \ {0}
  BY <1>2, <1>3, FS_CardinalityType, FS_EmptySet DEF Count
<1>6. cadence_seconds(s) = median(GapsOf(s))
  BY DEF cadence_seconds, GapsOf
<1> QED
  BY <1>2, <1>3, <1>4, <1>5, <1>6 DEF IsFamily

LEMMA CadenceIs ==
  ASSUME NEW s \in Seq(Point), HasCadence(s)
  PROVE  /\ cadence_seconds(s) \in Frac
         /\ \A g \in Int : (\A i \in Pairwise(s) : Gap(s, i) = g) => Leq(Q(g, 1), cadence_seconds(s))
<1> DEFINE v == GapsOf(s)
           m == Count(v)
<1>1. /\ IsFamily(v) /\ m \in Nat \ {0} /\ cadence_seconds(s) = median(v)
      /\ \A i \in DOMAIN v : i \in Pairwise(s) /\ v[i] = Q(Gap(s, i), 1)
  BY GapsAreFamily
<1> HIDE DEF v
<1>2. 2 * 0 < m /\ 2 * (m - 1) >= m - 1 /\ m - 1 < m /\ m - 1 \in Nat /\ 0 < m
  BY <1>1
<1>3. median(v) \in Frac /\ Leq(Ranked(v, 0), median(v))
  BY <1>1, <1>2, MedianBetween
<1>4. \E i \in DOMAIN v : Ranked(v, 0) = v[i]
  BY <1>1, <1>2, RankedIs
<1> QED
  BY <1>1, <1>3, <1>4

LEMMA GapLimit ==
  ASSUME NEW c \in Frac, NEW k \in Int, NEW a \in Int
  PROVE  Less(Times(c, k), Q(a, 1)) <=> c.n * k < a * c.d
<1>1. c.n * k \in Int
  BY DEF Frac
<1> QED
  BY <1>1 DEF Less, Times, Q, Frac

LEMMA LineAnswers ==
  ASSUME NEW f, NEW s, NEW metric, NEW ws
  PROVE  LET fc == Extrapolated(f, s, metric, ws)
         IN  /\ fc.status \in {"not_depleting", "raised", "beyond_horizon", "ok"}
             /\ fc.status # "raised" => fc.truncated = Truncated(s, metric, ws)
<1> DEFINE fit == theil_sen(f)
           anchor == s[Len(s)].at
           At(slope) == crossing(fit.value_at_anchor, metric.target, slope, anchor)
           cut == Truncated(s, metric, ws)
           fc == Extrapolated(f, s, metric, ws)
<1>1. \/ fc = Dated("not_depleting", anchor, None, None, None, cut)
      \/ fc = Overflow
      \/ fc = Dated("beyond_horizon", anchor, At(fit.slope), At(fit.low), At(fit.high), cut)
      \/ fc = Dated("ok", anchor, At(fit.slope), At(fit.low), At(fit.high), cut)
  BY DEF Extrapolated
<1> HIDE DEF fc, fit, anchor, At, cut
<1>2. /\ fc.status \in {"not_depleting", "raised", "beyond_horizon", "ok"}
      /\ fc.status # "raised" => fc.truncated = cut
  BY <1>1 DEF Dated, Overflow, no_crossing
<1> QED
  BY <1>2 DEF fc, cut

(* Only the staleness test says "stale", only the line has a fit. *)
LEMMA WhoSays ==
  ASSUME NEW s \in Seq(Point), NEW metric, NEW n, NEW ws
  PROVE  LET fc == forecast(s, metric, n, ws)
         IN  /\ fc.status = "stale" => IsStale(s, metric, n)
             /\ HasFit(fc) => /\ s # <<>> /\ ValidSeries(s)
                              /\ ~(Len(Fitted(s, metric)) < MinFitPoints)
                              /\ fc.truncated = Truncated(s, metric, ws)
                              /\ fc = Extrapolated(Fitted(s, metric), s, metric, ws)
<1> DEFINE fc == forecast(s, metric, n, ws)
<1>1. CASE s = <<>>
  <2>1. fc = no_crossing("no_data", None)
    BY <1>1 DEF forecast
  <2> QED
    BY <2>1 DEF no_crossing, Dated, HasFit
<1>2. CASE s # <<>>
  <2> HIDE DEF fc
  <2>1. \A status, as_of : no_crossing(status, as_of).status = status
    BY DEF no_crossing, Dated
  <2>2. CASE fc = Extrapolated(Fitted(s, metric), s, metric, ws) /\ ValidSeries(s)
             /\ ~(Len(Fitted(s, metric)) < MinFitPoints)
    BY <1>2, <2>2, LineAnswers DEF HasFit, fc
  <2>3. CASE \E as_of : fc = Dated("at_or_below_target", as_of, as_of, as_of, as_of, FALSE)
    BY <2>3 DEF Dated, HasFit, fc
  <2>4. CASE \E status \in {"invalid_series", "insufficient_points", "insufficient_span"} :
               \E as_of : fc = no_crossing(status, as_of)
    BY <2>1, <2>4 DEF HasFit, fc
  <2>5. CASE IsStale(s, metric, n) /\ \E as_of : fc = no_crossing("stale", as_of)
    BY <2>1, <2>5 DEF HasFit, fc
  <2> QED
    BY <1>2, <2>2, <2>3, <2>4, <2>5, Answers DEF fc
<1> QED
  BY <1>1, <1>2

LEMMA WindowEndsNewest ==
  ASSUME SeriesInv, Window # <<>>
  PROVE  Len(Window) \in 1 .. Len(Window) /\ Window[Len(Window)] = Newest
<1>1. Len(Window) \in 1 .. Len(Window)
  BY WindowIs, PointsOf
<1>2. Window[Len(Window)] = samples[Len(samples) - Len(Window) + Len(Window)]
  BY <1>1, WindowIs
<1>3. Len(samples) - Len(Window) + Len(Window) = Len(samples)
  BY WindowIs
<1> QED
  BY <1>1, <1>2, <1>3 DEF Newest

(* A device that keeps its pace is never called dark within one check-in   *)
(* of its own, whatever its pace (model.py, forecast, the staleness limit).*)
THEOREM SlowFleetsStayFresh == Spec => []SlowFleetNotStale
<1>1. SeriesInv => SlowFleetNotStale
  <2> SUFFICES ASSUME SeriesInv, NEW g \in Gaps, Len(Window) >= 2, ValidSeries(Window),
                      \A i \in Pairwise(Window) : Gap(Window, i) = g,
                      now - Newest.at <= g, IsStale(Window, Metric, now)
               PROVE  FALSE
    BY WhoSays, WindowIs DEF SlowFleetNotStale, Fc
  <2>1. Window \in Seq(Point) /\ Len(Window) \in Nat /\ Window # <<>>
    BY WindowIs
  <2>2. HasCadence(Window)
    <3>1. 1 \in Pairwise(Window)
      BY <2>1 DEF Pairwise
    <3> QED
      BY <3>1 DEF ValidSeries, HasCadence
  <2>3. g \in Nat \ {0} /\ Metric.gap_factor \in Nat \ {0}
    BY SeriesAssumption
  <2> DEFINE c == cadence_seconds(Window)
  <2>4. c \in Frac /\ Leq(Q(g, 1), c)
    BY <2>1, <2>2, <2>3, CadenceIs
  <2>5. now - Newest.at \in Int
    <3>1. Newest.at \in Int
      BY <2>1, WindowEndsNewest, PointsOf
    <3> QED
      BY <3>1 DEF SeriesInv
  <2>6. Less(Times(c, Metric.gap_factor), Q(now - Newest.at, 1))
    BY <2>1, <2>2, WindowEndsNewest DEF IsStale, ExceedsGapLimit
  <2> HIDE DEF c
  <2>7. PICK n \in Int, d \in Nat \ {0}, k \in Nat \ {0}, a \in Int :
          n = c.n /\ d = c.d /\ k = Metric.gap_factor /\ a = now - Newest.at
    BY <2>3, <2>4, <2>5 DEF Frac
  <2>8. n * k < a * d
    <3>1. Less(Times(c, k), Q(a, 1))
      BY <2>6, <2>7
    <3>2. c.n * k < a * c.d
      BY <2>4, <3>1, GapLimit
    <3> QED
      BY <2>7, <3>2
  <2>9. g * d <= n
    BY <2>4, <2>7 DEF Leq, Q
  <2>10. a * d <= g * d
    BY <2>3, <2>7, Multiplied
  <2>11. n <= n * k
    <3>1. 0 < g * d
      BY <2>3
    <3>2. n \in Nat
      BY <2>3, <2>9, <3>1
    <3>3. 1 * n <= k * n
      BY <3>2
    <3> QED
      BY <3>2, <3>3
  <2> QED
    BY <2>3, <2>8, <2>9, <2>10, <2>11
<1> QED
  BY <1>1, SeriesInvariant, PTL

(* A fit that the lookback window cut short says so, for any lookback      *)
(* (model.py, forecast, "At the edge is one gap-limit of slack").          *)
THEOREM TruncationsAdmitted == Spec => []TruncationAdmitted
<1>1. SeriesInv => TruncationAdmitted
  <2> DEFINE cut == Len(samples) - Len(Window)
  <2> SUFFICES ASSUME SeriesInv, HasFit(Fc), SegmentStarts(Window, Metric) = {1}, cut > 0,
                      ~ExceedsGapLimit(Window, Window[1].at - samples[cut].at, Metric.gap_factor)
               PROVE  Fc.truncated
    BY DEF TruncationAdmitted
  <2>1. Window \in Seq(Point) /\ Len(Window) \in Nat /\ Len(samples) \in Nat
    BY WindowIs
  <2>2. /\ Window # <<>> /\ ValidSeries(Window)
        /\ ~(Len(Fitted(Window, Metric)) < MinFitPoints)
        /\ Fc.truncated = Truncated(Window, Metric, WindowStart)
    BY <2>1, WhoSays DEF Fc
  <2>3. Len(Window) >= 3
    <3>1. Len(Window) >= 1 /\ Metric.max_fit_points \in Nat \ {0}
      BY <2>1, <2>2, SeriesAssumption
    <3>2. Fitted(Window, Metric) \in Seq(Point) /\ Len(Fitted(Window, Metric)) <= Len(Window)
      BY <2>1, <3>1, FittedIs
    <3>3. Len(Fitted(Window, Metric)) \in Nat
      BY <3>2
    <3> QED
      BY <2>1, <2>2, <3>2, <3>3 DEF MinFitPoints
  <2>4. HasCadence(Window)
    <3>1. 1 \in Pairwise(Window)
      BY <2>1, <2>3 DEF Pairwise
    <3> QED
      BY <2>2, <3>1 DEF ValidSeries, HasCadence
  <2>5. Window[1].at \in Int /\ WindowStart \in Int /\ samples[cut].at \in Int
        /\ samples[cut].at <= WindowStart
    <3>1. cut \in 1 .. Len(samples) /\ 1 \in 1 .. Len(Window) /\ Len(Window) # Len(samples)
      BY <2>1, <2>3
    <3> QED
      BY <2>1, <3>1, WindowIs, PointsOf DEF SeriesInv
  <2> DEFINE c == cadence_seconds(Window)
  <2>6. c \in Frac
    BY <2>1, <2>4, CadenceIs
  <2> HIDE DEF cut
  <2>7. PICK k \in Int, a \in Int, b \in Int :
          k = Metric.gap_factor /\ a = Window[1].at - samples[cut].at /\ b = Window[1].at - WindowStart
    BY <2>5, SeriesAssumption
  <2>8. ~(c.n * k < a * c.d)
    BY <2>4, <2>6, <2>7, GapLimit DEF ExceedsGapLimit
  <2>9. b <= a
    BY <2>5, <2>7
  <2>10. ~(c.n * k < b * c.d)
    <3>1. PICK d \in Nat \ {0}, e \in Int : d = c.d /\ e = c.n * k
      BY <2>6, <2>7 DEF Frac
    <3>2. b * d <= a * d
      BY <2>9, Multiplied
    <3> QED
      BY <2>8, <3>1, <3>2
  <2>11. ~ExceedsGapLimit(Window, Window[1].at - WindowStart, Metric.gap_factor)
    BY <2>4, <2>6, <2>7, <2>10, GapLimit DEF ExceedsGapLimit
  <2> QED
    BY <2>2, <2>4, <2>11 DEF Truncated
<1> QED
  BY <1>1, SeriesInvariant, PTL
-------------------------------------------------------------------------------
(* What came before the newest segment. *)

SameTimes(s, t) ==
  Len(s) = Len(t) /\ \A i \in 1 .. Len(s) :
    t[i].at = s[i].at /\ t[i].finite = s[i].finite /\ t[i].aware = s[i].aware

LEMMA TimesDecide ==
  ASSUME NEW s \in Seq(Point), NEW t \in Seq(Point), SameTimes(s, t)
  PROVE  /\ Pairwise(s) = Pairwise(t)
         /\ ValidSeries(s) <=> ValidSeries(t)
         /\ HasCadence(s) <=> HasCadence(t)
         /\ \A duration, factor : ExceedsGapLimit(s, duration, factor) <=> ExceedsGapLimit(t, duration, factor)
<1>1. Len(s) \in Nat /\ Len(s) = Len(t) /\ DOMAIN s = 1 .. Len(s) /\ DOMAIN t = 1 .. Len(s)
  BY PointsOf DEF SameTimes
<1>2. Pairwise(s) = Pairwise(t)
  BY <1>1 DEF Pairwise
<1>3. \A i \in Pairwise(s) : Gap(s, i) = Gap(t, i)
  <2>1. \A i \in Pairwise(s) : i \in 1 .. Len(s) /\ i + 1 \in 1 .. Len(s)
    BY <1>1 DEF Pairwise
  <2> QED
    BY <2>1 DEF Gap, SameTimes
<1>4. ValidSeries(s) <=> ValidSeries(t)
  BY <1>1, <1>2, <1>3 DEF ValidSeries, SameTimes
<1>5. HasCadence(s) <=> HasCadence(t)
  BY <1>2, <1>3 DEF HasCadence
<1>6. GapsOf(s) = GapsOf(t)
  BY <1>2, <1>3 DEF GapsOf
<1>7. cadence_seconds(s) = cadence_seconds(t)
  BY <1>6 DEF cadence_seconds, GapsOf
<1> QED
  BY <1>2, <1>4, <1>5, <1>7 DEF ExceedsGapLimit

LEMMA SameElements ==
  ASSUME NEW s \in Seq(Point), NEW t \in Seq(Point), Len(s) = Len(t),
         \A i \in 1 .. Len(s) : s[i] = t[i]
  PROVE  s = t
<1>1. s = [i \in 1 .. Len(s) |-> s[i]] /\ t = [i \in 1 .. Len(s) |-> t[i]]
  OBVIOUS
<1> QED
  BY <1>1

SameFrom(s, t, a) == \A i \in a .. Len(s) : t[i] = s[i]

NewestStart(s, metric) == Largest(SegmentStarts(s, metric))

(* Two series that differ only in the values before their newest segment.  *)
LEMMA SegmentDecides ==
  ASSUME NEW s \in Seq(Point), NEW t \in Seq(Point), SameTimes(s, t), NEW metric,
         NEW n, NEW ws, Len(s) >= 1, NewestStart(s, metric) > 1,
         NewestStart(t, metric) = NewestStart(s, metric),
         SameFrom(s, t, NewestStart(s, metric))
  PROVE  forecast(t, metric, n, ws) = forecast(s, metric, n, ws)
<1> DEFINE a == NewestStart(s, metric)
<1>0. /\ a \in 2 .. Len(s)
      /\ a = Largest(SegmentStarts(s, metric))
      /\ a = Largest(SegmentStarts(t, metric))
      /\ \A i \in a .. Len(s) : t[i] = s[i]
  <2>1. a \in 1 .. Len(s)
    BY Starts DEF NewestStart
  <2>2. a > 1 /\ Len(s) \in Nat
    BY PointsOf
  <2> HIDE DEF a
  <2>3. a \in 2 .. Len(s)
    BY <2>1, <2>2
  <2> QED
    BY <2>3 DEF a, NewestStart, SameFrom
<1> HIDE DEF a
<1>1. Len(s) \in Nat /\ Len(s) >= 2 /\ Len(t) = Len(s) /\ s # <<>> /\ t # <<>>
  <2>1. Len(s) \in Nat /\ Len(s) >= 2 /\ Len(t) = Len(s)
    BY <1>0, PointsOf DEF SameTimes
  <2> QED
    BY <2>1
<1>2. t[Len(t)] = s[Len(s)]
  BY <1>0, <1>1
<1>3. NewestSegment(t, metric) = NewestSegment(s, metric)
  <2>1. a \in 1 .. Len(s) + 1 /\ a \in 1 .. Len(t) + 1
    BY <1>0, <1>1
  <2>2. SubSeq(s, a, Len(s)) \in Seq(Point) /\ Len(SubSeq(s, a, Len(s))) = Len(s) - a + 1
        /\ \A i \in 1 .. Len(SubSeq(s, a, Len(s))) : SubSeq(s, a, Len(s))[i] = s[a + i - 1]
    BY <2>1, Suffix
  <2>3. SubSeq(t, a, Len(t)) \in Seq(Point) /\ Len(SubSeq(t, a, Len(t))) = Len(s) - a + 1
        /\ \A i \in 1 .. Len(SubSeq(t, a, Len(t))) : SubSeq(t, a, Len(t))[i] = t[a + i - 1]
    BY <1>0, <1>1, <2>1, Suffix
  <2>4. \A i \in 1 .. Len(s) - a + 1 : a + i - 1 \in a .. Len(s)
    BY <1>0, <1>1
  <2>5. SubSeq(s, a, Len(s)) = SubSeq(t, a, Len(t))
    <3> DEFINE x == SubSeq(s, a, Len(s))
               y == SubSeq(t, a, Len(t))
    <3>1. Len(x) = Len(s) - a + 1 /\ Len(y) = Len(s) - a + 1
      BY <2>2, <2>3
    <3>2. ASSUME NEW i \in 1 .. Len(x) PROVE x[i] = y[i]
      <4>1. x[i] = s[a + i - 1] /\ y[i] = t[a + i - 1]
        BY <2>2, <2>3, <3>1
      <4>2. a + i - 1 \in a .. Len(s)
        BY <2>4, <3>1
      <4> QED
        BY <1>0, <4>1, <4>2
    <3>3. x \in Seq(Point) /\ y \in Seq(Point)
      BY <2>2, <2>3
    <3> HIDE DEF x, y
    <3>4. Len(x) = Len(y)
      BY <3>1
    <3>5. x = y
      BY <3>2, <3>3, <3>4, SameElements, Zenon
    <3> QED
      BY <3>5 DEF x, y
  <2> QED
    BY <1>0, <2>5 DEF NewestSegment
<1>4. Fitted(t, metric) = Fitted(s, metric)
  BY <1>3 DEF Fitted
<1>5. /\ ValidSeries(s) <=> ValidSeries(t)
      /\ IsStale(s, metric, n) <=> IsStale(t, metric, n)
  BY <1>2, TimesDecide DEF IsStale
<1>6. ~Truncated(s, metric, ws) /\ ~Truncated(t, metric, ws)
  <2>1. Len(s) >= 1 /\ Len(t) >= 1
    BY <1>0, <1>1
  <2>2. a \in SegmentStarts(s, metric)
    BY <1>0, <2>1, Starts
  <2>3. a \in SegmentStarts(t, metric)
    BY <1>0, <2>1, Starts
  <2>4. a # 1
    BY <1>0, <1>1
  <2> QED
    BY <2>2, <2>3, <2>4 DEF Truncated
<1>7. Extrapolated(Fitted(t, metric), t, metric, ws) = Extrapolated(Fitted(s, metric), s, metric, ws)
  <2>1. Truncated(s, metric, ws) = Truncated(t, metric, ws)
    <3>1. Truncated(s, metric, ws) \in BOOLEAN /\ Truncated(t, metric, ws) \in BOOLEAN
      BY Zenon DEF Truncated
    <3> QED
      BY <1>6, <3>1
  <2> QED
    BY <1>2, <1>4, <2>1 DEF Extrapolated
<1> QED
  BY <1>1, <1>2, <1>3, <1>4, <1>5, <1>7 DEF forecast, Fitted

(* The answer rests on the newest segment alone: whatever was measured     *)
(* before the last refill or gap, it is the same (model.py, forecast,      *)
(* "never a fallback to the one before it").                               *)
THEOREM OldTanksForgotten == Spec => []OldTankForgotten
<1>1. SeriesInv => OldTankForgotten
  <2> DEFINE start == Largest(SegmentStarts(Window, Metric))
             Older(v) == [i \in DOMAIN Window |->
                            IF i < start THEN [Window[i] EXCEPT !.value = v] ELSE Window[i]]
  <2> SUFFICES ASSUME SeriesInv, ValidSeries(Window), Window # <<>>, start > 1,
                      NEW v \in Values, Window[start].value - v >= Metric.refill_jump
               PROVE  forecast(Older(v), Metric, now, WindowStart) = Fc
    BY DEF OldTankForgotten
  <2> DEFINE w == Window
             t == Older(v)
  <2>1. w \in Seq(Point) /\ Len(w) \in Nat /\ Len(w) >= 1 /\ DOMAIN w = 1 .. Len(w)
    BY WindowIs, PointsOf
  <2>2. /\ start \in 2 .. Len(w) /\ start \in SegmentStarts(w, Metric)
        /\ \A y \in SegmentStarts(w, Metric) : y <= start
    <3>1. /\ SegmentStarts(w, Metric) \in SUBSET (1 .. Len(w))
          /\ start \in SegmentStarts(w, Metric)
          /\ \A y \in SegmentStarts(w, Metric) : start >= y
      BY <2>1, Starts
    <3> QED
      BY <2>1, <3>1
  <2>3. v \in Int
    BY SeriesAssumption
  <2>4. t = [i \in 1 .. Len(w) |-> IF i < start THEN [w[i] EXCEPT !.value = v] ELSE w[i]]
    BY <2>1
  <2>5. Window = w /\ Fc = forecast(w, Metric, now, WindowStart)
    BY DEF Fc
  <2>6. start = Largest(SegmentStarts(w, Metric))
    OBVIOUS
  <2>7. w[start].value - v >= Metric.refill_jump
    OBVIOUS
  <2> HIDE DEF w, start, t
  <2>8. /\ t \in Seq(Point) /\ Len(t) = Len(w)
        /\ \A i \in 1 .. Len(w) : /\ t[i].at = w[i].at /\ t[i].finite = w[i].finite
                                  /\ t[i].aware = w[i].aware
                                  /\ i < start => t[i].value = v
                                  /\ ~(i < start) => t[i] = w[i]
    <3>1. ASSUME NEW p \in Point
          PROVE  /\ [p EXCEPT !.value = v] \in Point
                 /\ [p EXCEPT !.value = v].at = p.at /\ [p EXCEPT !.value = v].finite = p.finite
                 /\ [p EXCEPT !.value = v].aware = p.aware /\ [p EXCEPT !.value = v].value = v
      BY <2>3 DEF Point
    <3>2. \A i \in 1 .. Len(w) : w[i] \in Point
      BY <2>1
    <3>3. t \in [1 .. Len(w) -> Point]
      BY <2>4, <3>1, <3>2
    <3>4. t \in Seq(Point) /\ Len(t) = Len(w)
      BY <2>1, <3>3
    <3> QED
      BY <2>4, <3>1, <3>2, <3>4
  <2>9. SameTimes(w, t)
    BY <2>8 DEF SameTimes
  <2>10. start \in SegmentStarts(t, Metric)
    <3>1. PICK j \in Int : j = start - 1 /\ j \in 1 .. Len(w) /\ j < start /\ start = j + 1
      BY <2>1, <2>2
    <3>2. t[j + 1].value - t[j].value >= Metric.refill_jump
      BY <2>2, <2>7, <2>8, <3>1
    <3>3. j \in Pairwise(t)
      BY <2>1, <2>2, <2>8, <3>1 DEF Pairwise
    <3> QED
      BY <3>1, <3>2, <3>3 DEF SegmentStarts
  <2>11. ASSUME NEW y \in SegmentStarts(t, Metric), y > start PROVE FALSE
    <3>1. y # 1
      BY <2>2, <2>11
    <3>2. PICK j \in Pairwise(t) : /\ y = j + 1
                                   /\ \/ t[j + 1].value - t[j].value >= Metric.refill_jump
                                      \/ ExceedsGapLimit(t, Gap(t, j), Metric.gap_factor)
      BY <3>1 DEF SegmentStarts
    <3>3. /\ j \in Pairwise(w) /\ j \in 1 .. Len(w) /\ j + 1 \in 1 .. Len(w)
          /\ ~(j < start) /\ ~(j + 1 < start)
      BY <2>1, <2>2, <2>8, <2>11, <3>2 DEF Pairwise
    <3>4. t[j] = w[j] /\ t[j + 1] = w[j + 1]
      BY <2>8, <3>3
    <3>5. \/ w[j + 1].value - w[j].value >= Metric.refill_jump
          \/ ExceedsGapLimit(w, Gap(w, j), Metric.gap_factor)
      BY <2>1, <2>8, <2>9, <3>2, <3>4, TimesDecide DEF Gap
    <3>6. y \in SegmentStarts(w, Metric)
      BY <3>2, <3>3, <3>5 DEF SegmentStarts
    <3> QED
      BY <2>2, <2>11, <3>3, <3>2, <3>6
  <2>12. start = Largest(SegmentStarts(t, Metric))
    <3> DEFINE l == Largest(SegmentStarts(t, Metric))
    <3>1. Len(t) >= 1
      BY <2>1, <2>8
    <3>2. /\ SegmentStarts(t, Metric) \in SUBSET (1 .. Len(t)) /\ l \in SegmentStarts(t, Metric)
          /\ \A y \in SegmentStarts(t, Metric) : l >= y
      BY <2>8, <3>1, Starts
    <3> HIDE DEF l
    <3>3. l \in Int /\ l >= start /\ ~(l > start)
      BY <2>10, <2>11, <3>2
    <3>4. l = start
      BY <2>2, <3>3
    <3> QED
      BY <3>4 DEF l
  <2>13. \A i \in start .. Len(w) : t[i] = w[i]
    <3>1. \A i \in start .. Len(w) : i \in 1 .. Len(w) /\ ~(i < start)
      BY <2>1, <2>2
    <3> QED
      BY <2>8, <3>1
  <2>14. forecast(t, Metric, now, WindowStart) = forecast(w, Metric, now, WindowStart)
    <3>1. w \in Seq(Point) /\ t \in Seq(Point) /\ SameTimes(w, t)
      BY <2>1, <2>8, <2>9
    <3>2. /\ start \in 2 .. Len(w)
          /\ start = Largest(SegmentStarts(w, Metric))
          /\ start = Largest(SegmentStarts(t, Metric))
          /\ \A i \in start .. Len(w) : t[i] = w[i]
      BY <2>2, <2>6, <2>12, <2>13
    <3> QED
      <4>1. /\ NewestStart(w, Metric) > 1 /\ NewestStart(t, Metric) = NewestStart(w, Metric)
            /\ SameFrom(w, t, NewestStart(w, Metric))
        BY <2>1, <3>2 DEF SameFrom, NewestStart
      <4> QED
        BY <2>1, <3>1, <4>1, SegmentDecides
  <2> QED
    BY <2>5, <2>14 DEF t
<1> QED
  BY <1>1, SeriesInvariant, PTL
-------------------------------------------------------------------------------
(* Equal fractions. *)

Same(p, q) == p.n * q.d = q.n * p.d

LEMMA SameIsLeq ==
  ASSUME NEW p \in Frac, NEW q \in Frac
  PROVE  Same(p, q) <=> Leq(p, q) /\ Leq(q, p)
<1>1. p.n * q.d \in Int /\ q.n * p.d \in Int
  BY DEF Frac
<1> QED
  BY <1>1 DEF Same, Leq

LEMMA SameSign ==
  ASSUME NEW p \in Frac, NEW q \in Frac, Same(p, q)
  PROVE  (p.n > 0 <=> q.n > 0) /\ (p.n < 0 <=> q.n < 0)
<1>1. PICK a \in Int, b \in Nat \ {0}, c \in Int, d \in Nat \ {0} :
        a = p.n /\ b = p.d /\ c = q.n /\ d = q.d
  BY DEF Frac
<1>2. a * d = c * b
  BY <1>1 DEF Same
<1>3. (a > 0 <=> a * d > 0) /\ (a < 0 <=> a * d < 0)
  OBVIOUS
<1>4. (c > 0 <=> c * b > 0) /\ (c < 0 <=> c * b < 0)
  OBVIOUS
<1> QED
  BY <1>1, <1>2, <1>3, <1>4

LEMMA SameAbove ==
  ASSUME NEW p \in Frac, NEW q \in Frac, Same(p, q), NEW t \in Int
  PROVE  Same(Minus(p, Q(t, 1)), Minus(q, Q(t, 1)))
<1>1. PICK a \in Int, b \in Nat \ {0}, c \in Int, d \in Nat \ {0} :
        a = p.n /\ b = p.d /\ c = q.n /\ d = q.d
  BY DEF Frac
<1>2. a * d = c * b
  BY <1>1 DEF Same
<1>3. /\ Minus(p, Q(t, 1)) = [n |-> a * 1 - t * b, d |-> b * 1]
      /\ Minus(q, Q(t, 1)) = [n |-> c * 1 - t * d, d |-> d * 1]
  BY <1>1 DEF Minus, Q
<1>4. (a * 1 - t * b) * (d * 1) = a * d - t * (b * d) /\ (c * 1 - t * d) * (b * 1) = c * b - t * (b * d)
  OBVIOUS
<1> QED
  BY <1>2, <1>3, <1>4 DEF Same

LEMMA SameAhead ==
  ASSUME NEW u \in Frac, NEW w \in Frac, u.n > 0, Same(u, w),
         NEW p \in Frac, NEW q \in Frac, p.n < 0, Same(p, q)
  PROVE  Ahead(u, p) \in Frac /\ Ahead(w, q) \in Frac /\ Same(Ahead(u, p), Ahead(w, q))
<1>1. w.n > 0 /\ q.n < 0
  BY SameSign
<1>2. /\ Ahead(u, p) \in Frac /\ Ahead(u, q) \in Frac /\ Same(Ahead(u, p), Ahead(u, q))
  BY <1>1, SameIsLeq, AheadGrows
<1>3. Ahead(w, q) \in Frac
  BY <1>1, SameIsLeq, AheadGrows
<1>4. Same(Ahead(u, q), Ahead(w, q))
  <2>1. PICK a \in Int, b \in Nat \ {0}, c \in Int, d \in Nat \ {0}, k \in Nat \ {0}, l \in Nat \ {0} :
          a = u.n /\ b = u.d /\ c = w.n /\ d = w.d /\ k = q.d /\ l = -q.n
    BY <1>1 DEF Frac
  <2>2. a * d = c * b
    BY <2>1 DEF Same
  <2>3. Ahead(u, q) = [n |-> a * k, d |-> b * l] /\ Ahead(w, q) = [n |-> c * k, d |-> d * l]
    BY <2>1 DEF Ahead, Q
  <2>4. (a * k) * (d * l) = (a * d) * (k * l) /\ (c * k) * (b * l) = (c * b) * (k * l)
    OBVIOUS
  <2> QED
    BY <2>2, <2>3, <2>4 DEF Same
<1>5. Same(Ahead(u, p), Ahead(w, q))
  BY <1>2, <1>3, <1>4, SameIsLeq, LeqTransitive
<1> QED
  BY <1>2, <1>3, <1>5

LEMMA SameCrossing ==
  ASSUME NEW w \in Frac, NEW x \in Frac, Same(w, x), NEW p \in Frac, NEW q \in Frac, Same(p, q),
         NEW target \in Int, NEW anchor
  PROVE  crossing(w, target, p, anchor) = crossing(x, target, q, anchor)
<1> DEFINE u == Minus(w, Q(target, 1))
           y == Minus(x, Q(target, 1))
<1>1. u \in Frac /\ y \in Frac /\ Same(u, y)
  BY MinusIsFrac, SameAbove DEF Q, Frac
<1>2. \A s : HoursAhead(w, target, s) = IF u.n <= 0 THEN 0 ELSE Rounded(Ahead(u, s))
  BY DEF HoursAhead, Ahead
<1>3. \A s : HoursAhead(x, target, s) = IF y.n <= 0 THEN 0 ELSE Rounded(Ahead(y, s))
  BY DEF HoursAhead, Ahead
<1> HIDE DEF u, y
<1>4. (u.n > 0 <=> y.n > 0) /\ (p.n < 0 <=> q.n < 0)
  BY <1>1, SameSign
<1>5. u.n \in Int /\ y.n \in Int /\ p.n \in Int /\ q.n \in Int
  BY <1>1 DEF Frac
<1>6. ASSUME p.n < 0 PROVE HoursAhead(w, target, p) = HoursAhead(x, target, q)
  <2>1. CASE u.n > 0
    <3>1. Ahead(u, p) \in Frac /\ Ahead(y, q) \in Frac /\ Same(Ahead(u, p), Ahead(y, q))
      BY <1>1, <1>6, <2>1, SameAhead
    <3>2. /\ Rounded(Ahead(u, p)) \in Int /\ Rounded(Ahead(y, q)) \in Int
          /\ Rounded(Ahead(u, p)) <= Rounded(Ahead(y, q))
          /\ Rounded(Ahead(y, q)) <= Rounded(Ahead(u, p))
      BY <3>1, SameIsLeq, RoundedGrows
    <3>3. Rounded(Ahead(u, p)) = Rounded(Ahead(y, q))
      BY <3>2
    <3> QED
      BY <1>2, <1>3, <1>4, <1>5, <2>1, <3>3
  <2>2. CASE ~(u.n > 0)
    BY <1>2, <1>3, <1>4, <1>5, <2>2
  <2> QED
    BY <2>1, <2>2
<1>7. Never(p) <=> Never(q)
  BY <1>4, <1>5 DEF Never
<1>8. ~Never(p) => p.n < 0
  BY <1>5 DEF Never
<1> QED
  BY <1>6, <1>7, <1>8 DEF crossing

(* What more than half of a family agree on is its median.                 *)
LEMMA Majority ==
  ASSUME NEW v, IsFamily(v), NEW x \in Frac, NEW E \in SUBSET DOMAIN v,
         \A i \in E : Same(v[i], x),
         Cardinality((DOMAIN v) \ E) < Cardinality(E)
  PROVE  median(v) \in Frac /\ Same(median(v), x)
<1> DEFINE O == (DOMAIN v) \ E
           c == Cardinality(O)
           e == Cardinality(E)
<1>1. /\ IsFiniteSet(E) /\ IsFiniteSet(O) /\ c \in Nat /\ e \in Nat
      /\ Count(v) = c + e
  <2>1. IsFiniteSet(DOMAIN v) /\ Cardinality(DOMAIN v) \in Nat
    BY FS_CardinalityType DEF IsFamily
  <2>2. IsFiniteSet(E) /\ IsFiniteSet(O)
    BY <2>1, FS_Subset
  <2>3. c \in Nat /\ e \in Nat
    BY <2>2, FS_CardinalityType
  <2>4. c = Cardinality(DOMAIN v) - Cardinality((DOMAIN v) \cap E)
    BY <2>1, FS_Difference
  <2>5. (DOMAIN v) \cap E = E
    OBVIOUS
  <2> QED
    BY <2>1, <2>2, <2>3, <2>4, <2>5 DEF Count
<1>2. c < e
  OBVIOUS
<1>3. \A i \in E : v[i] \in Frac /\ Leq(v[i], x) /\ Leq(x, v[i])
  BY SameIsLeq DEF IsFamily
<1>4. O \in SUBSET DOMAIN v /\ \A i \in DOMAIN v : i \in E \/ i \in O
  OBVIOUS
<1> HIDE DEF O, c, e
<1>5. ASSUME NEW k \in Nat, c <= k, k < e
      PROVE  Ranked(v, k) \in Frac /\ Leq(Ranked(v, k), x) /\ Leq(x, Ranked(v, k))
  <2> DEFINE r == Ranked(v, k)
  <2>1. /\ r \in Frac /\ Cardinality(Below(v, r)) <= k /\ Cardinality(UpTo(v, r)) > k
    <3>1. k < Count(v)
      BY <1>1, <1>5
    <3> QED
      BY <3>1, RankedIs
  <2> HIDE DEF r
  <2>2. /\ IsFiniteSet(Below(v, r)) /\ Cardinality(Below(v, r)) \in Nat
        /\ Cardinality(UpTo(v, r)) \in Nat
    BY Counts
  <2>3. ASSUME Less(r, x) PROVE FALSE
    <3>1. \A i \in E : ~Leq(v[i], r)
      BY <1>3, <2>1, <2>3, LessIsNotLeq, LeqTransitive
    <3>2. UpTo(v, r) \in SUBSET O
      BY <1>4, <3>1 DEF UpTo
    <3>3. Cardinality(UpTo(v, r)) <= c
      BY <1>1, <3>2, FS_Subset DEF c
    <3> QED
      BY <1>1, <1>5, <2>1, <2>2, <3>3
  <2>4. ASSUME Less(x, r) PROVE FALSE
    <3>1. \A i \in E : Less(v[i], r)
      BY <1>3, <2>1, <2>4, LessLeqTransitive
    <3>2. E \in SUBSET Below(v, r)
      BY <3>1 DEF Below
    <3>3. e <= Cardinality(Below(v, r))
      BY <2>2, <3>2, FS_Subset DEF e
    <3> QED
      BY <1>1, <1>5, <2>1, <2>2, <3>3
  <2>5. Leq(r, x) /\ Leq(x, r)
    BY <2>1, <2>3, <2>4, LessIsNotLeq
  <2> QED
    BY <2>1, <2>5 DEF r
<1>6. c \in Nat /\ e - 1 \in Nat /\ c < e /\ e - 1 < e /\ c <= e - 1
      /\ 2 * c < Count(v) /\ 2 * (e - 1) >= Count(v) - 1 /\ e - 1 < Count(v)
  BY <1>1, <1>2
<1>7. median(v) \in Frac /\ Leq(Ranked(v, c), median(v)) /\ Leq(median(v), Ranked(v, e - 1))
  BY <1>6, MedianBetween
<1>8. /\ Ranked(v, c) \in Frac /\ Leq(x, Ranked(v, c))
      /\ Ranked(v, e - 1) \in Frac /\ Leq(Ranked(v, e - 1), x)
  <2>1. c <= c
    BY <1>6
  <2> QED
    BY <1>5, <1>6, <2>1
<1> QED
  BY <1>7, <1>8, SameIsLeq, LeqTransitive
-------------------------------------------------------------------------------
(* A ramp with one glitch: most slopes, and most offsets, are the ramp's.  *)

Ramp(s, i, j) == {k \in DOMAIN s : Collinear(s, i, j, k)}

PairsIn(n, R) == {q \in (1 .. n) \X (1 .. n) : q[1] < q[2] /\ q[1] \in R /\ q[2] \in R}
PairsAll(n)   == {q \in (1 .. n) \X (1 .. n) : q[1] < q[2]}

(* More pairs lie inside than touch the one point outside. *)
LEMMA PairsCounted ==
  ASSUME NEW n \in Nat, n >= 5, NEW g \in 1 .. n
  PROVE  Cardinality(PairsAll(n) \ PairsIn(n, (1 .. n) \ {g}))
           < Cardinality(PairsIn(n, (1 .. n) \ {g}))
<1> DEFINE R == (1 .. n) \ {g}
           E == PairsIn(n, R)
           O == PairsAll(n) \ E
           Pair(x, y) == IF x < y THEN <<x, y>> ELSE <<y, x>>
<1>1. IsFiniteSet(R) /\ IsFiniteSet(E) /\ IsFiniteSet(O)
  <2>1. IsFiniteSet(1 .. n)
    BY FS_Interval
  <2>2. IsFiniteSet((1 .. n) \X (1 .. n))
    BY <2>1, FS_Product
  <2>3. R \in SUBSET (1 .. n) /\ E \in SUBSET ((1 .. n) \X (1 .. n)) /\ O \in SUBSET ((1 .. n) \X (1 .. n))
    BY DEF PairsIn, PairsAll
  <2> QED
    BY <2>1, <2>2, <2>3, FS_Subset
<1>2. Cardinality(O) <= Cardinality(R)
  <2> DEFINE f == [q \in O |-> IF q[1] = g THEN q[2] ELSE q[1]]
  <2>1. \A q \in O : \E x, y \in 1 .. n : q = <<x, y>> /\ x < y /\ (x = g \/ y = g)
    BY DEF PairsIn, PairsAll
  <2>2. f \in [O -> R]
    <3>1. ASSUME NEW q \in O PROVE (IF q[1] = g THEN q[2] ELSE q[1]) \in R
      <4>1. PICK x \in 1 .. n, y \in 1 .. n : q = <<x, y>> /\ x < y /\ (x = g \/ y = g)
        BY <2>1
      <4> QED
        BY <4>1
    <3> QED
      BY <3>1
  <2>3. \A q, r \in O : f[q] = f[r] => q = r
    <3>1. ASSUME NEW q \in O, NEW r \in O, f[q] = f[r] PROVE q = r
      <4>1. PICK x \in 1 .. n, y \in 1 .. n : q = <<x, y>> /\ x < y /\ (x = g \/ y = g)
        BY <2>1
      <4>2. PICK z \in 1 .. n, w \in 1 .. n : r = <<z, w>> /\ z < w /\ (z = g \/ w = g)
        BY <2>1
      <4>3. f[q] = (IF x = g THEN y ELSE x) /\ f[r] = (IF z = g THEN w ELSE z)
        BY <4>1, <4>2
      <4>4. x = z /\ y = w
        BY <3>1, <4>1, <4>2, <4>3
      <4> QED
        BY <4>1, <4>2, <4>4
    <3> QED
      BY <3>1
  <2>4. f \in Injection(O, R)
    BY <2>2, <2>3 DEF Injection, IsInjective
  <2> QED
    BY <1>1, <2>4, FS_Injection
<1>3. PICK a \in R, b \in R, c \in R, d \in R :
        a # b /\ a # c /\ a # d /\ b # c /\ b # d /\ c # d
  <2>1. 1 \in 1 .. n /\ 2 \in 1 .. n /\ 3 \in 1 .. n /\ 4 \in 1 .. n /\ 5 \in 1 .. n
    OBVIOUS
  <2>2. CASE g = 1
    <3>1. 2 \in R /\ 3 \in R /\ 4 \in R /\ 5 \in R
      BY <2>1, <2>2
    <3> QED
      BY <3>1
  <2>3. CASE g = 2
    <3>1. 1 \in R /\ 3 \in R /\ 4 \in R /\ 5 \in R
      BY <2>1, <2>3
    <3> QED
      BY <3>1
  <2>4. CASE g = 3
    <3>1. 1 \in R /\ 2 \in R /\ 4 \in R /\ 5 \in R
      BY <2>1, <2>4
    <3> QED
      BY <3>1
  <2>5. CASE g = 4
    <3>1. 1 \in R /\ 2 \in R /\ 3 \in R /\ 5 \in R
      BY <2>1, <2>5
    <3> QED
      BY <3>1
  <2>6. CASE g \notin {1, 2, 3, 4}
    <3>1. 1 \in R /\ 2 \in R /\ 3 \in R /\ 4 \in R
      BY <2>1, <2>6
    <3> QED
      BY <3>1
  <2> QED
    BY <2>2, <2>3, <2>4, <2>5, <2>6
<1>4. \A x, y \in R : x # y => Pair(x, y) \in E
  BY DEF PairsIn
<1>5. \A x, y, z, w \in R : Pair(x, y) = Pair(z, w) => (x = z /\ y = w) \/ (x = w /\ y = z)
  OBVIOUS
<1> HIDE DEF E, O, R, Pair
<1> DEFINE P == Pair(b, d)
           h == [k \in R |-> IF k = a THEN Pair(b, c) ELSE Pair(a, k)]
<1>6. Cardinality(R) <= Cardinality(E \ {P})
  <2>1. h \in [R -> E \ {P}]
    <3>1. ASSUME NEW k \in R PROVE (IF k = a THEN Pair(b, c) ELSE Pair(a, k)) \in E \ {P}
      BY <1>3, <1>4, <1>5
    <3> QED
      BY <3>1
  <2>2. ASSUME NEW k \in R, NEW l \in R, h[k] = h[l] PROVE k = l
    BY <1>3, <1>5, <2>2
  <2>3. h \in Injection(R, E \ {P})
    BY <2>1, <2>2 DEF Injection, IsInjective
  <2>4. IsFiniteSet(E \ {P})
    BY <1>1, FS_RemoveElement
  <2> QED
    BY <2>3, <2>4, FS_Injection
<1>7. Cardinality(E \ {P}) = Cardinality(E) - 1
  <2>1. P \in E
    BY <1>3, <1>4
  <2> QED
    BY <1>1, <2>1, FS_RemoveElement
<1>8. Cardinality(E) \in Nat /\ Cardinality(O) \in Nat /\ Cardinality(R) \in Nat
  BY <1>1, FS_CardinalityType
<1>9. Cardinality(O) < Cardinality(E)
  BY <1>2, <1>6, <1>7, <1>8
<1> QED
  BY <1>9 DEF E, O, R

(* At most one point lies off the ramp. *)
LEMMA OneOff ==
  ASSUME NEW n \in Nat, n >= 5, NEW R \in SUBSET (1 .. n), Cardinality(R) >= n - 1
  PROVE  /\ Cardinality(PairsAll(n) \ PairsIn(n, R)) < Cardinality(PairsIn(n, R))
         /\ Cardinality((1 .. n) \ R) < Cardinality(R)
<1>1. IsFiniteSet(1 .. n) /\ Cardinality(1 .. n) = n
  BY FS_Interval
<1> DEFINE G == (1 .. n) \ R
<1>2. IsFiniteSet(R) /\ Cardinality(R) \in Nat /\ IsFiniteSet(G) /\ Cardinality(G) \in Nat
  <2>1. IsFiniteSet(R) /\ IsFiniteSet(G)
    BY <1>1, FS_Subset
  <2> QED
    BY <2>1, FS_CardinalityType
<1>3. Cardinality(G) = n - Cardinality(R)
  <2>1. Cardinality(G) = n - Cardinality((1 .. n) \cap R) /\ (1 .. n) \cap R = R
    BY <1>1, FS_Difference
  <2> QED
    BY <2>1
<1>4. R = (1 .. n) \ G
  OBVIOUS
<1>5. Cardinality(G) < Cardinality(R)
  BY <1>2, <1>3
<1>6. CASE G = {}
  <2>1. R = 1 .. n
    BY <1>6
  <2>2. PairsAll(n) \ PairsIn(n, R) = {}
    BY <2>1 DEF PairsAll, PairsIn
  <2>3. Cardinality(PairsAll(n) \ PairsIn(n, R)) = 0
    BY <2>2, FS_EmptySet
  <2>4. PairsIn(n, R) # {}
    <3>1. 1 \in 1 .. n /\ 2 \in 1 .. n
      OBVIOUS
    <3>2. <<1, 2>> \in PairsIn(n, R)
      BY <2>1, <3>1 DEF PairsIn
    <3> QED
      BY <3>2
  <2>5. IsFiniteSet(PairsIn(n, R))
    <3>1. IsFiniteSet((1 .. n) \X (1 .. n))
      BY <1>1, FS_Product
    <3>2. PairsIn(n, R) \in SUBSET ((1 .. n) \X (1 .. n))
      BY DEF PairsIn
    <3> QED
      BY <3>1, <3>2, FS_Subset
  <2>6. Cardinality(PairsIn(n, R)) \in Nat /\ Cardinality(PairsIn(n, R)) # 0
    BY <2>4, <2>5, FS_CardinalityType, FS_EmptySet
  <2> QED
    BY <1>5, <2>3, <2>6
<1>7. CASE G # {}
  <2>1. Cardinality(G) = 1
    BY <1>2, <1>3, <1>7, FS_EmptySet
  <2>2. PICK g : G = {g}
    BY <1>2, <2>1, FS_Singleton
  <2>3. g \in 1 .. n /\ R = (1 .. n) \ {g}
    BY <1>4, <2>2
  <2> QED
    BY <1>5, <2>3, PairsCounted
<1> QED
  BY <1>6, <1>7

LEMMA RampAlgebra ==
  ASSUME NEW V \in Int, NEW T \in Int, NEW x \in Int, NEW y \in Int, NEW p \in Int, NEW q \in Int,
         x * T = V * p, y * T = V * q
  PROVE  (y - x) * T = V * (q - p)
<1>1. (y - x) * T = y * T - x * T /\ V * (q - p) = V * q - V * p
  OBVIOUS
<1> QED
  BY <1>1

LEMMA RampSlopes ==
  ASSUME NEW s, IsSeries(s), NEW i \in DOMAIN s, NEW j \in DOMAIN s, i < j,
         NEW k \in Ramp(s, i, j), NEW l \in Ramp(s, i, j), k < l
  PROVE  Same(Slope(s[k], s[l]), Slope(s[i], s[j]))
<1>1. /\ s[i].at \in Int /\ s[j].at \in Int /\ s[k].at \in Int /\ s[l].at \in Int
      /\ s[i].value \in Int /\ s[j].value \in Int /\ s[k].value \in Int /\ s[l].value \in Int
  BY PointsOf DEF IsSeries, Ramp
<1> DEFINE V == s[j].value - s[i].value
           T == s[j].at - s[i].at
           x == s[k].value - s[i].value
           y == s[l].value - s[i].value
           p == s[k].at - s[i].at
           q == s[l].at - s[i].at
<1>2. V \in Int /\ T \in Int /\ x \in Int /\ y \in Int /\ p \in Int /\ q \in Int
  BY <1>1
<1>3. x * T = V * p /\ y * T = V * q
  BY DEF Ramp, Collinear
<1>4. y - x = s[l].value - s[k].value /\ q - p = s[l].at - s[k].at
  BY <1>1
<1>5. Slope(s[k], s[l]) = Q(y - x, q - p) /\ Slope(s[i], s[j]) = Q(V, T)
  BY <1>4 DEF Slope
<1> HIDE DEF V, T, x, y, p, q
<1>6. (y - x) * T = V * (q - p)
  BY <1>2, <1>3, RampAlgebra
<1> QED
  BY <1>5, <1>6 DEF Same, Q

LEMMA OffsetAlgebra ==
  ASSUME NEW a \in Int, NEW b \in Int, NEW V \in Int, NEW T \in Int, NEW e \in Int, NEW f \in Int,
         NEW u \in Int, NEW w \in Int, a * T = V * b, (u - w) * T = V * (e - f)
  PROVE  (u * b - (a * e) * 1) * (1 * T) = (w * T - (V * f) * 1) * (1 * b)
<1>1. (u * b - (a * e) * 1) * (1 * T) = (u * T) * b - (a * T) * e
  OBVIOUS
<1>2. (u - w) * T = u * T - w * T /\ V * (e - f) = V * e - V * f
  OBVIOUS
<1>3. u * T = w * T + (V * e - V * f)
  BY <1>2
<1>4. (u * T) * b = (w * T + (V * e - V * f)) * b
  BY <1>3
<1>5. (w * T + (V * e - V * f)) * b = (w * T - (V * f) * 1) * (1 * b) + (V * b) * e
  OBVIOUS
<1>6. (a * T) * e = (V * b) * e
  OBVIOUS
<1>7. (V * b) * e \in Int /\ (w * T - (V * f) * 1) * (1 * b) \in Int
  OBVIOUS
<1> QED
  BY <1>1, <1>4, <1>5, <1>6, <1>7

LEMMA RampOffsets ==
  ASSUME NEW s, IsSeries(s), NEW i \in DOMAIN s, NEW j \in DOMAIN s, i < j,
         NEW slope \in Frac, Same(slope, Slope(s[i], s[j])), NEW k \in Ramp(s, i, j)
  PROVE  Same(Offsets(s, slope)[k],
              Minus(Q(s[i].value, 1), Times(Slope(s[i], s[j]), s[i].at - s[Len(s)].at)))
<1>0. /\ s[i].at \in Int /\ s[j].at \in Int /\ s[k].at \in Int /\ s[Len(s)].at \in Int
      /\ s[i].value \in Int /\ s[j].value \in Int /\ s[k].value \in Int
      /\ k \in DOMAIN s
  <2>1. Len(s) \in 1 .. Len(s)
    BY PointsOf DEF IsSeries
  <2> QED
    BY <2>1, PointsOf DEF IsSeries, Ramp
<1> DEFINE a == slope.n
           b == slope.d
           V == s[j].value - s[i].value
           T == s[j].at - s[i].at
           e == s[k].at - s[Len(s)].at
           f == s[i].at - s[Len(s)].at
           u == s[k].value
           w == s[i].value
<1>1. /\ a \in Int /\ b \in Int /\ V \in Int /\ T \in Int /\ e \in Int /\ f \in Int
      /\ u \in Int /\ w \in Int
  <2>1. a \in Int /\ b \in Int
    BY DEF Frac
  <2>2. \A x, y \in Int : x - y \in Int
    OBVIOUS
  <2>3. V \in Int /\ T \in Int /\ e \in Int /\ f \in Int
    BY <1>0, <2>2, Zenon
  <2>4. u \in Int /\ w \in Int
    BY <1>0
  <2> QED
    BY <2>1, <2>3, <2>4
<1>2. a * T = V * b
  BY DEF Same, Slope, Q
<1>3. (u - w) * T = V * (e - f)
  <2>1. s[k].at - s[i].at = e - f
    BY <1>0
  <2> QED
    BY <2>1 DEF Ramp, Collinear
<1>4. Offsets(s, slope)[k] = [n |-> u * b - (a * e) * 1, d |-> 1 * b]
  BY <1>0 DEF Offsets, Minus, Times, Q
<1>5. Minus(Q(w, 1), Times(Slope(s[i], s[j]), f)) = [n |-> w * T - (V * f) * 1, d |-> 1 * T]
  BY DEF Slope, Minus, Times, Q
<1> DEFINE goal == Same(Offsets(s, slope)[k], Minus(Q(w, 1), Times(Slope(s[i], s[j]), f)))
<1> SUFFICES goal
  OBVIOUS
<1> HIDE DEF a, b, V, T, e, f, u, w
<1>6. (u * b - (a * e) * 1) * (1 * T) = (w * T - (V * f) * 1) * (1 * b)
  BY <1>1, <1>2, <1>3, OffsetAlgebra
<1> QED
  BY <1>4, <1>5, <1>6 DEF Same

(* The fit of a ramp with at most one glitch is the ramp.                  *)
LEMMA GlitchFit ==
  ASSUME NEW s, IsSeries(s), Len(s) >= 5, NEW i \in DOMAIN s, NEW j \in DOMAIN s, i < j,
         Cardinality(Ramp(s, i, j)) >= Len(s) - 1
  PROVE  LET ramp == Slope(s[i], s[j])
             here == Minus(Q(s[i].value, 1), Times(ramp, s[i].at - s[Len(s)].at))
         IN  /\ ramp \in Frac /\ here \in Frac
             /\ theil_sen(s).slope \in Frac /\ Same(theil_sen(s).slope, ramp)
             /\ theil_sen(s).value_at_anchor \in Frac /\ Same(theil_sen(s).value_at_anchor, here)
<1> DEFINE ramp == Slope(s[i], s[j])
           here == Minus(Q(s[i].value, 1), Times(ramp, s[i].at - s[Len(s)].at))
           v == Slopes(s)
           R == Ramp(s, i, j)
           E == PairsIn(Len(s), R)
           slope == median(v)
           o == Offsets(s, slope)
<1>1. /\ Len(s) \in Nat /\ DOMAIN s = 1 .. Len(s) /\ Ascending(s)
      /\ \A k \in 1 .. Len(s) : s[k].at \in Int /\ s[k].value \in Int
  BY PointsOf DEF IsSeries
<1>2. ramp \in Frac
  <2>1. s[j].at - s[i].at \in Nat \ {0} /\ s[j].value - s[i].value \in Int
    BY <1>1 DEF Ascending
  <2> QED
    BY <2>1 DEF Slope, Q, Frac
<1>3. here \in Frac
  <2>1. s[i].at - s[Len(s)].at \in Int /\ Q(s[i].value, 1) \in Frac
    <3>1. Len(s) \in 1 .. Len(s)
      BY <1>1
    <3> QED
      BY <1>1, <3>1 DEF Q, Frac
  <2> HIDE DEF ramp
  <2> QED
    BY <1>2, <2>1, MinusIsFrac, TimesIsFrac
<1>4. R \in SUBSET (1 .. Len(s))
  BY <1>1 DEF Ramp
<1>5. DOMAIN v = PairsAll(Len(s))
  <2>1. DOMAIN v = PairsOf(s)
    BY DEF Slopes, PairsOf
  <2>2. \A q \in (1 .. Len(s)) \X (1 .. Len(s)) : q[1] < q[2] => s[q[1]].at # s[q[2]].at
    <3>1. ASSUME NEW k \in 1 .. Len(s), NEW l \in 1 .. Len(s), k < l PROVE s[k].at # s[l].at
      <4>1. s[k].at < s[l].at
        BY <1>1, <3>1 DEF Ascending
      <4>2. s[k].at \in Int
        BY <1>1
      <4> QED
        BY <4>1, <4>2
    <3> QED
      BY <3>1
  <2> QED
    BY <1>1, <2>1, <2>2 DEF PairsOf, PairsAll
<1>6. /\ Cardinality(PairsAll(Len(s)) \ E) < Cardinality(E)
      /\ Cardinality((1 .. Len(s)) \ R) < Cardinality(R)
  BY <1>1, <1>4, OneOff
<1>7. slope \in Frac /\ Same(slope, ramp)
  <2>1. E \in SUBSET DOMAIN v
    BY <1>5 DEF PairsIn, PairsAll
  <2>2. ASSUME NEW q \in E PROVE Same(v[q], ramp)
    <3>1. q \in PairsOf(s) /\ v[q] = Slope(s[q[1]], s[q[2]])
      BY <2>1 DEF Slopes, PairsOf
    <3>2. q[1] \in R /\ q[2] \in R /\ q[1] < q[2]
      BY DEF PairsIn
    <3> QED
      BY <3>1, <3>2, RampSlopes
  <2>3. IsFamily(v)
    BY SlopesAreFamily
  <2>4. Cardinality((DOMAIN v) \ E) < Cardinality(E)
    BY <1>5, <1>6
  <2> HIDE DEF v, E, ramp
  <2> QED
    BY <1>2, <2>1, <2>2, <2>3, <2>4, Majority
<1> HIDE DEF slope
<1>8. median(o) \in Frac /\ Same(median(o), here)
  <2>1. IsFamily(o)
    BY <1>7, OffsetsAreFamily
  <2>2. DOMAIN o = 1 .. Len(s)
    BY <1>1 DEF Offsets
  <2>3. ASSUME NEW k \in R PROVE Same(o[k], here)
    BY <1>7, <2>3, RampOffsets
  <2>4. R \in SUBSET DOMAIN o /\ Cardinality((DOMAIN o) \ R) < Cardinality(R)
    BY <1>4, <1>6, <2>2
  <2> HIDE DEF o, R, here
  <2> QED
    BY <1>3, <2>1, <2>3, <2>4, Majority
<1>9. theil_sen(s).slope = slope /\ theil_sen(s).value_at_anchor = median(o)
  BY DEF theil_sen, Intercept, Offsets, slope
<1> QED
  BY <1>2, <1>3, <1>7, <1>8, <1>9

LEMMA LineDates ==
  ASSUME NEW f, NEW s, NEW metric, NEW ws,
         Extrapolated(f, s, metric, ws).status \in {"ok", "beyond_horizon"}
  PROVE  LET fc == Extrapolated(f, s, metric, ws)
             fit == theil_sen(f)
         IN  /\ fc.as_of = s[Len(s)].at
             /\ fc.crosses_at = crossing(fit.value_at_anchor, metric.target, fit.slope, s[Len(s)].at)
<1> DEFINE fit == theil_sen(f)
           anchor == s[Len(s)].at
           At(slope) == crossing(fit.value_at_anchor, metric.target, slope, anchor)
           cut == Truncated(s, metric, ws)
           fc == Extrapolated(f, s, metric, ws)
<1>1. \/ fc = Dated("not_depleting", anchor, None, None, None, cut)
      \/ fc = Overflow
      \/ fc = Dated("beyond_horizon", anchor, At(fit.slope), At(fit.low), At(fit.high), cut)
      \/ fc = Dated("ok", anchor, At(fit.slope), At(fit.low), At(fit.high), cut)
  BY DEF Extrapolated
<1>2. fc.status \in {"ok", "beyond_horizon"}
  OBVIOUS
<1> HIDE DEF fc, fit, anchor, At, cut
<1>3. fc.as_of = anchor /\ fc.crosses_at = At(fit.slope)
  BY <1>1, <1>2 DEF Dated, Overflow, no_crossing
<1> QED
  BY <1>3 DEF fc, fit, anchor, At

(* One glitch in a falling ramp of any length from five moves the crossing *)
(* not at all, as long as it is not taken for a refill (model.py,          *)
(* theil_sen, "tolerates ~29 % contamination and still answers             *)
(* correctly").                                                            *)
THEOREM GlitchesTolerated == Spec => []GlitchTolerated
<1>1. SeriesInv => GlitchTolerated
  <2> DEFINE w == Window
  <2> SUFFICES ASSUME SeriesInv, Len(w) >= 5, Fc.status \in {"ok", "beyond_horizon"},
                      SegmentStarts(w, Metric) = {1}, Len(w) <= Metric.max_fit_points,
                      NEW i \in DOMAIN w, NEW j \in DOMAIN w, i < j,
                      Cardinality(Ramp(w, i, j)) >= Len(w) - 1
               PROVE  Fc.crosses_at = crossing(Minus(Q(w[i].value, 1),
                                                     Times(Slope(w[i], w[j]), w[i].at - Fc.as_of)),
                                               Metric.target, Slope(w[i], w[j]), Fc.as_of)
    BY DEF GlitchTolerated, Ramp
  <2>1. w \in Seq(Point) /\ Len(w) \in Nat /\ w # <<>> /\ Len(w) >= 1
    BY WindowIs
  <2>2. Metric.target \in Int /\ Metric.max_fit_points \in Nat \ {0}
    BY SeriesAssumption
  <2>3. Fc = forecast(w, Metric, now, WindowStart)
    BY DEF Fc
  <2> HIDE DEF w
  <2>4. Fitted(w, Metric) = w
    <3>1. Largest({1}) = 1
      BY DEF Largest
    <3>2. NewestSegment(w, Metric) = SubSeq(w, 1, Len(w))
      BY <3>1 DEF NewestSegment
    <3>3. SubSeq(w, 1, Len(w)) = w
      <4>1. 1 \in 1 .. Len(w) + 1
        BY <2>1
      <4>2. /\ SubSeq(w, 1, Len(w)) \in Seq(Point) /\ Len(SubSeq(w, 1, Len(w))) = Len(w) - 1 + 1
            /\ \A k \in 1 .. Len(SubSeq(w, 1, Len(w))) : SubSeq(w, 1, Len(w))[k] = w[1 + k - 1]
        BY <2>1, <4>1, Suffix
      <4>3. Len(w) - 1 + 1 = Len(w) /\ \A k \in 1 .. Len(w) : 1 + k - 1 = k
        BY <2>1
      <4> QED
        BY <2>1, <4>2, <4>3, SameElements
    <3>4. Largest({1, Len(w) - Metric.max_fit_points + 1}) = 1
      <4>1. Len(w) - Metric.max_fit_points + 1 \in Int /\ 1 >= Len(w) - Metric.max_fit_points + 1
        BY <2>1, <2>2
      <4> QED
        BY <4>1, LargerOfTwo
    <3> QED
      BY <3>2, <3>3, <3>4 DEF Fitted
  <2>5. ValidSeries(w) /\ Fc = Extrapolated(w, w, Metric, WindowStart)
    <3>1. HasFit(Fc)
      BY DEF HasFit
    <3> QED
      BY <2>1, <2>3, <2>4, <3>1, WhoSays
  <2>6. IsSeries(w)
    BY <2>1, <2>5, ValidAscends DEF IsSeries
  <2> DEFINE ramp == Slope(w[i], w[j])
             here == Minus(Q(w[i].value, 1), Times(ramp, w[i].at - w[Len(w)].at))
             fit  == theil_sen(w)
  <2>7. /\ ramp \in Frac /\ here \in Frac /\ fit.slope \in Frac /\ fit.value_at_anchor \in Frac
        /\ Same(fit.slope, ramp) /\ Same(fit.value_at_anchor, here)
    BY <2>6, GlitchFit
  <2>8. /\ Fc.as_of = w[Len(w)].at
        /\ Fc.crosses_at = crossing(fit.value_at_anchor, Metric.target, fit.slope, w[Len(w)].at)
    BY <2>5, LineDates
  <2> HIDE DEF ramp, here, fit
  <2>9. crossing(fit.value_at_anchor, Metric.target, fit.slope, w[Len(w)].at)
          = crossing(here, Metric.target, ramp, w[Len(w)].at)
    BY <2>2, <2>7, SameCrossing
  <2> QED
    BY <2>8, <2>9 DEF ramp, here
<1> QED
  BY <1>1, SeriesInvariant, PTL
===============================================================================
