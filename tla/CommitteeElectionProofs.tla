------------------------ MODULE CommitteeElectionProofs ------------------------
(***************************************************************************)
(* What rounding can do to a committee: the sum that one node has for a    *)
(* target is within the slack of the exact one, for every precision, every *)
(* number of evaluations and every order in which they are added up.       *)
(***************************************************************************)
EXTENDS CommitteeElection, FiniteSetTheorems, WellFoundedInduction, TLAPS

-------------------------------------------------------------------------------
(* Powers of two: as many as a set of so many elements has subsets. *)

LEMMA Powers ==
  ASSUME NEW n \in Nat
  PROVE  IsFiniteSet(1..n) /\ Cardinality(SUBSET (1..n)) = 2^n /\ 2^n \in Nat
<1>1. n \in Int /\ 1 \in Int
  OBVIOUS
<1>2. IsFiniteSet(1..n) /\ Cardinality(1..n) = IF 1 > n THEN 0 ELSE n - 1 + 1
  BY <1>1, FS_Interval
<1>3. Cardinality(1..n) = n
  BY <1>1, <1>2
<1>4. IsFiniteSet(SUBSET (1..n)) /\ Cardinality(SUBSET (1..n)) = 2^Cardinality(1..n)
  BY <1>2, FS_SUBSET
<1> QED
  BY <1>2, <1>3, <1>4, FS_CardinalityType

LEMMA PowerZero == 2^0 = 1
<1>1. SUBSET (1..0) = {{}}
  OBVIOUS
<1>2. Cardinality({{}}) = 1
  BY FS_Singleton
<1> QED
  BY <1>1, <1>2, Powers

\* One more element: every subset is there without it and with it.
LEMMA SubsetsDouble ==
  ASSUME NEW U, IsFiniteSet(U), NEW x, x \notin U
  PROVE  Cardinality(SUBSET (U \cup {x})) = 2 * Cardinality(SUBSET U)
<1> DEFINE S == SUBSET U
           B == SUBSET (U \cup {x})
           T == B \ S
           f == [s \in S |-> s \cup {x}]
<1>1. IsFiniteSet(S) /\ Cardinality(S) \in Nat
  BY FS_SUBSET, FS_CardinalityType
<1>2. f \in Bijection(S, T)
  <2>1. \A s \in S : s \cup {x} \in T
    <3> TAKE s \in S
    <3>1. s \cup {x} \in B
      OBVIOUS
    <3>2. ~(s \cup {x} \subseteq U)
      OBVIOUS
    <3> QED
      BY <3>1, <3>2
  <2>2. ASSUME NEW s \in S, NEW t \in S, f[s] = f[t] PROVE s = t
    BY <2>2
  <2>3. ASSUME NEW t \in T PROVE \E s \in S : f[s] = t
    <3>1. t \subseteq U \cup {x} /\ ~(t \subseteq U)
      OBVIOUS
    <3>2. t \ {x} \in S /\ x \in t
      BY <3>1
    <3>3. (t \ {x}) \cup {x} = t
      BY <3>2
    <3> QED
      BY <3>2, <3>3
  <2>4. f \in [S -> T]
    <3> HIDE DEF S, B, T
    <3> QED
      BY <2>1
  <2> HIDE DEF f, S, B, T
  <2> QED
    BY <2>2, <2>3, <2>4 DEF Bijection, Injection, Surjection, IsInjective
<1>3. IsFiniteSet(T) /\ Cardinality(T) = Cardinality(S)
  <2>1. ExistsBijection(S, T)
    BY <1>2 DEF ExistsBijection
  <2> HIDE DEF S, B, T
  <2> QED
    BY <1>1, <2>1, FS_Bijection
<1>4. S \subseteq B
  OBVIOUS
<1>5. S \cup T = B /\ S \cap T = {}
  <2> HIDE DEF S, B
  <2> QED
    BY <1>4
<1>6. Cardinality(S \cap T) = 0
  BY <1>5, FS_EmptySet
<1> HIDE DEF S, B, T
<1>7. Cardinality(S \cup T) = Cardinality(S) + Cardinality(T) - 0
  BY <1>1, <1>3, <1>6, FS_Union
<1>8. Cardinality(S \cup T) = 2 * Cardinality(S)
  BY <1>1, <1>3, <1>7
<1> QED
  BY <1>5, <1>8 DEF S, B

LEMMA PowerNext ==
  ASSUME NEW n \in Nat
  PROVE  2^(n + 1) = 2 * 2^n
<1>1. 1..(n + 1) = (1..n) \cup {n + 1} /\ n + 1 \notin 1..n /\ n + 1 \in Nat
  OBVIOUS
<1>2. IsFiniteSet(1..n) /\ Cardinality(SUBSET (1..n)) = 2^n
      /\ Cardinality(SUBSET (1..(n + 1))) = 2^(n + 1)
  BY <1>1, Powers
<1>3. Cardinality(SUBSET ((1..n) \cup {n + 1})) = 2 * Cardinality(SUBSET (1..n))
  BY <1>1, <1>2, SubsetsDouble
<1> QED
  BY <1>1, <1>2, <1>3

LEMMA PowerMonotone ==
  ASSUME NEW m \in Nat, NEW n \in Nat, m <= n
  PROVE  2^m <= 2^n
<1>1. SUBSET (1..m) \in SUBSET (SUBSET (1..n))
  OBVIOUS
<1>2. IsFiniteSet(SUBSET (1..n))
  BY Powers, FS_SUBSET
<1>3. Cardinality(SUBSET (1..m)) <= Cardinality(SUBSET (1..n))
  BY <1>1, <1>2, FS_Subset
<1> QED
  BY <1>3, Powers

\* Every n has a power of two beyond it: its own.
LEMMA SubsetsOutnumber ==
  ASSUME NEW U, IsFiniteSet(U)
  PROVE  Cardinality(U) < Cardinality(SUBSET U)
<1> DEFINE all == SUBSET U
           T == all \ {{}}
           f == [k \in U |-> {k}]
<1>1. IsFiniteSet(all) /\ Cardinality(all) \in Nat /\ Cardinality(U) \in Nat
  BY FS_SUBSET, FS_CardinalityType
<1>2. {} \in all
  OBVIOUS
<1>3. \A k \in U : {k} \in T
  OBVIOUS
<1>4. IsFiniteSet(T) /\ Cardinality(T) = Cardinality(all) - 1
  <2> HIDE DEF all
  <2> QED
    BY <1>1, <1>2, FS_RemoveElement
<1> HIDE DEF all, T
<1>5. f \in Injection(U, T)
  <2>1. f \in [U -> T]
    BY <1>3
  <2>2. \A k, l \in U : f[k] = f[l] => k = l
    OBVIOUS
  <2> HIDE DEF f
  <2> QED
    BY <2>1, <2>2 DEF Injection, IsInjective
<1>6. Cardinality(U) <= Cardinality(T)
  <2> HIDE DEF f
  <2> QED
    BY <1>4, <1>5, FS_Injection
<1> QED
  BY <1>1, <1>4, <1>6 DEF all

LEMMA PowerBeyond ==
  ASSUME NEW n \in Nat
  PROVE  n < 2^n
<1>1. Cardinality(1..n) = n
  <2>1. n \in Int /\ 1 \in Int
    OBVIOUS
  <2>2. Cardinality(1..n) = IF 1 > n THEN 0 ELSE n - 1 + 1
    BY <2>1, FS_Interval
  <2> QED
    BY <2>1, <2>2
<1> QED
  BY <1>1, Powers, SubsetsOutnumber

LEMMA LeastNat ==
  ASSUME NEW S, S \subseteq Nat, S # {}
  PROVE  \E n \in S : \A m \in S : n <= m
<1>1. IsWellFoundedOn(OpToRel(<, Nat), Nat)
  BY NatLessThanWellFounded
<1>2. PICK n \in S : \A m \in S : ~(<<m, n>> \in OpToRel(<, Nat))
  BY <1>1, WFMin
<1>3. ASSUME NEW m \in S PROVE n <= m
  <2>1. m \in Nat /\ n \in Nat
    OBVIOUS
  <2>2. ~(m < n)
    BY <1>2, <2>1 DEF OpToRel
  <2>3. \A i, j \in Nat : ~(i < j) => j <= i
    OBVIOUS
  <2> QED
    BY <2>1, <2>2, <2>3
<1> QED
  BY <1>3

\* A higher power of two is a multiple of a lower one.
LEMMA PowerDivides ==
  ASSUME NEW e \in Nat, NEW j \in Nat
  PROVE  \E k \in Nat : 2^(e + j) = k * 2^e
<1> DEFINE Wrong == {i \in Nat : ~\E k \in Nat : 2^(e + i) = k * 2^e}
<1>1. CASE Wrong = {}
  BY <1>1
<1>2. ASSUME Wrong # {} PROVE FALSE
  <2>1. PICK i \in Wrong : \A m \in Wrong : i <= m
    <3>1. Wrong \subseteq Nat
      OBVIOUS
    <3> HIDE DEF Wrong
    <3> QED
      BY <1>2, <3>1, LeastNat
  <2>2. i \in Nat /\ 2^e \in Nat
    BY Powers
  <2>3. i # 0
    <3>1. 2^(e + 0) = 1 * 2^e
      BY <2>2
    <3> QED
      BY <2>1, <3>1
  <2>4. i - 1 \in Nat /\ i - 1 \notin Wrong
    BY <2>1, <2>2, <2>3
  <2>5. PICK k \in Nat : 2^(e + (i - 1)) = k * 2^e
    BY <2>4
  <2>6. 2^((e + (i - 1)) + 1) = 2 * 2^(e + (i - 1))
    BY <2>4, PowerNext
  <2>7. (e + (i - 1)) + 1 = e + i
    BY <2>2
  <2>8. 2^(e + i) = (2 * k) * 2^e /\ 2 * k \in Nat
    BY <2>2, <2>5, <2>6, <2>7
  <2>9. i \notin Wrong
    BY <2>8
  <2> QED
    BY <2>1, <2>9
<1> QED
  BY <1>1, <1>2

-------------------------------------------------------------------------------
(* Floats. *)

Fits(v, e) == v < 2^(Precision + e) /\ (e > 0 => v >= 2^(Precision + e - 1))

Exponent(v) == CHOOSE e \in 0..v : Fits(v, e)

LEMMA UlpIsPower ==
  ASSUME NEW v \in Nat
  PROVE  /\ Exponent(v) \in Nat /\ Fits(v, Exponent(v))
         /\ Ulp(v) = 2^Exponent(v) /\ Ulp(v) \in Nat /\ Ulp(v) > 0
<1>1. Precision \in Nat
  BY PrecisionAssumption
<1> DEFINE beyond == {e \in Nat : v < 2^(Precision + e)}
<1>2. v \in beyond
  <2>1. v < 2^v
    BY PowerBeyond
  <2>2. v <= Precision + v /\ Precision + v \in Nat
    BY <1>1
  <2>3. 2^v <= 2^(Precision + v) /\ 2^v \in Nat /\ 2^(Precision + v) \in Nat
    BY <2>2, PowerMonotone, Powers
  <2> QED
    BY <2>1, <2>3
<1>3. PICK e \in beyond : \A m \in beyond : e <= m
  <2>1. beyond \subseteq Nat
    OBVIOUS
  <2> HIDE DEF beyond
  <2> QED
    BY <1>2, <2>1, LeastNat
<1>4. e \in 0..v /\ Fits(v, e)
  <2>1. e \in Nat /\ e <= v /\ v < 2^(Precision + e)
    BY <1>2, <1>3
  <2>2. ASSUME e > 0 PROVE v >= 2^(Precision + e - 1)
    <3>1. e - 1 \in Nat /\ e - 1 \notin beyond
      BY <1>3, <2>1, <2>2
    <3>2. Precision + (e - 1) = Precision + e - 1 /\ Precision + (e - 1) \in Nat
      BY <1>1, <3>1
    <3>3. 2^(Precision + (e - 1)) \in Nat
      BY <3>2, Powers
    <3>4. ~(v < 2^(Precision + (e - 1)))
      BY <3>1
    <3> QED
      BY <3>2, <3>3, <3>4
  <2> QED
    BY <2>1, <2>2 DEF Fits
<1>5. Exponent(v) \in 0..v /\ Fits(v, Exponent(v))
  BY <1>4 DEF Exponent
<1>6. Ulp(v) = 2^Exponent(v)
  BY DEF Ulp, Exponent, Fits
<1>7. Exponent(v) \in Nat
  BY <1>5
<1>8. 2^Exponent(v) \in Nat /\ 0 < 2^Exponent(v)
  BY <1>7, Powers, PowerBeyond
<1> QED
  BY <1>5, <1>6, <1>7, <1>8

LEMMA ExponentMonotone ==
  ASSUME NEW v \in Nat, NEW w \in Nat, v <= w
  PROVE  Exponent(v) <= Exponent(w) /\ Ulp(v) <= Ulp(w)
<1> DEFINE d == Exponent(v)
           e == Exponent(w)
<1>1. d \in Nat /\ e \in Nat /\ Fits(v, d) /\ Fits(w, e) /\ Precision \in Nat
      /\ Ulp(v) = 2^d /\ Ulp(w) = 2^e
  BY UlpIsPower, PrecisionAssumption
<1> HIDE DEF d, e
<1>2. d <= e
  <2> SUFFICES ASSUME d > e PROVE FALSE
    BY <1>1
  <2>1. Precision + e \in Nat /\ Precision + d - 1 \in Nat /\ Precision + e <= Precision + d - 1
    BY <1>1
  <2>2. 2^(Precision + e) <= 2^(Precision + d - 1)
        /\ 2^(Precision + e) \in Nat /\ 2^(Precision + d - 1) \in Nat
    BY <2>1, PowerMonotone, Powers
  <2>3. w < 2^(Precision + e) /\ v >= 2^(Precision + d - 1)
    BY <1>1 DEF Fits
  <2> QED
    BY <2>2, <2>3
<1>3. 2^d <= 2^e
  BY <1>1, <1>2, PowerMonotone
<1> QED
  BY <1>1, <1>2, <1>3 DEF d, e

LEMMA Division ==
  ASSUME NEW v \in Nat, NEW u \in Nat, u > 0
  PROVE  /\ v \div u \in Nat /\ (v % u) \in Nat /\ (v % u) < u
         /\ v = ((v \div u) * u) + (v % u)
         /\ (v \div u) * u \in Nat
         /\ \A k \in Nat : k * u <= v => k * u <= (v \div u) * u
<1> DEFINE q == v \div u
           r == (v % u)
<1>1. q \in Nat /\ r \in Nat /\ r < u
  OBVIOUS
<1>2. v = q * u + r
  OBVIOUS
<1> HIDE DEF q, r
<1>3. q * u \in Nat
  BY <1>1
<1>4. ASSUME NEW k \in Nat, k * u <= v, k > q PROVE FALSE
  <2>1. k >= q + 1
    BY <1>1, <1>4
  <2>2. k * u >= (q + 1) * u
    BY <1>1, <2>1
  <2>3. (q + 1) * u = q * u + u
    BY <1>1
  <2>4. k * u \in Nat
    BY <1>1
  <2> QED
    BY <1>1, <1>2, <1>3, <1>4, <2>2, <2>3, <2>4
<1>5. ASSUME NEW k \in Nat, k <= q PROVE k * u <= q * u
  BY <1>1, <1>5
<1>6. ASSUME NEW k \in Nat, k * u <= v PROVE k * u <= q * u
  BY <1>1, <1>4, <1>5, <1>6
<1>7. q \in Nat /\ r \in Nat /\ r < u /\ v = q * u + r
  BY <1>1, <1>2
<1> QED
  BY <1>3, <1>6, <1>7 DEF q, r

\* The float at or below v, and the numbers that rounding never goes below.
Down(v)   == (v \div Ulp(v)) * Ulp(v)
Steady(x) == \A v \in Nat : x <= v => x <= Down(v)

LEMMA DownFacts ==
  ASSUME NEW v \in Nat
  PROVE  /\ v \div Ulp(v) \in Nat /\ Down(v) \in Nat /\ Down(v) <= v /\ v < Down(v) + Ulp(v)
         /\ \A k \in Nat : k * Ulp(v) <= v => k * Ulp(v) <= Down(v)
<1> DEFINE u == Ulp(v)
           q == v \div u
           r == (v % u)
<1>1. u \in Nat /\ u > 0
  BY UlpIsPower
<1> HIDE DEF u
<1>2. /\ q \in Nat /\ r \in Nat /\ r < u /\ v = (q * u) + r /\ q * u \in Nat
      /\ \A k \in Nat : k * u <= v => k * u <= q * u
  BY <1>1, Division
<1>3. Down(v) = q * u
  BY DEF Down, u
<1> DEFINE qu == q * u
<1>4. qu \in Nat /\ qu <= v /\ v < qu + u
  <2>1. qu \in Nat /\ v = qu + r /\ r \in Nat /\ r < u
    BY <1>2
  <2> HIDE DEF qu, r
  <2> QED
    BY <1>1, <2>1
<1> QED
  BY <1>2, <1>3, <1>4 DEF u

LEMMA RoundFacts ==
  ASSUME NEW v \in Nat
  PROVE  /\ Round(v) \in Nat
         /\ \E k \in Nat : Round(v) = k * Ulp(v)
         /\ \/ Round(v) = Down(v)
            \/ Round(v) = Down(v) + Ulp(v) /\ v <= Round(v)
         /\ 2 * (Round(v) - v) <= Ulp(v) /\ 2 * (v - Round(v)) <= Ulp(v)
         /\ Round(v) - v <= v - Down(v)
<1> DEFINE u == Ulp(v)
           q == v \div u
           r == (v % u)
           up == 2 * r > u \/ (2 * r = u /\ (q % 2) = 1)
<1>1. u \in Nat /\ u > 0
  BY UlpIsPower
<1>2. Round(v) = IF up THEN (q + 1) * u ELSE q * u
  BY DEF Round
<1>3. Down(v) = q * u
  BY DEF Down
<1> HIDE DEF u
<1>4. q \in Nat /\ r \in Nat /\ r < u /\ v = (q * u) + r /\ q * u \in Nat
  BY <1>1, Division
<1>5. up => 2 * r >= u
  BY <1>1, <1>4
<1>6. ~up => 2 * r <= u
  BY <1>1, <1>4
<1>7. (q + 1) * u = q * u + u
  <2> HIDE DEF q
  <2> QED
    BY <1>1, <1>4
<1>8. \E k \in Nat : Round(v) = k * u
  <2>1. q + 1 \in Nat
    BY <1>4
  <2> HIDE DEF q, up
  <2> QED
    BY <1>2, <1>4, <2>1
<1> DEFINE qu == q * u
<1>9. /\ qu \in Nat /\ v = qu + r /\ r \in Nat /\ r < u /\ Down(v) = qu
      /\ up => Round(v) = qu + u
      /\ ~up => Round(v) = qu
  BY <1>2, <1>3, <1>4, <1>7
<1> HIDE DEF qu, r, q, up
<1>10. CASE up
  BY <1>1, <1>5, <1>8, <1>9, <1>10 DEF u
<1>11. CASE ~up
  BY <1>1, <1>6, <1>8, <1>9, <1>11 DEF u
<1> QED
  BY <1>10, <1>11

\* The powers of two in the binade of v are floats of that binade.
LEMMA BinadeEnds ==
  ASSUME NEW e \in Nat
  PROVE  /\ \E k \in Nat : 2^(Precision + e) = k * 2^e
         /\ \E k \in Nat : 2^(Precision + e - 1) = k * 2^e
<1>1. Precision \in Nat /\ Precision > 0
  BY PrecisionAssumption
<1>2. Precision + e = e + Precision /\ Precision + e - 1 = e + (Precision - 1)
      /\ Precision - 1 \in Nat
  BY <1>1
<1>3. \E k \in Nat : 2^(e + Precision) = k * 2^e
  BY <1>1, PowerDivides
<1>4. \E k \in Nat : 2^(e + (Precision - 1)) = k * 2^e
  BY <1>2, PowerDivides
<1> QED
  BY <1>2, <1>3, <1>4

\* What was rounded once is not rounded below by a later rounding.
LEMMA RoundSteady ==
  ASSUME NEW v \in Nat
  PROVE  Steady(Round(v))
<1> SUFFICES ASSUME NEW w \in Nat, Round(v) <= w PROVE Round(v) <= Down(w)
  BY DEF Steady
<1> DEFINE e == Exponent(v)
           d == Exponent(w)
           u == 2^e
           x == 2^d
           y == Round(v)
           q == v \div u
<1>1. /\ e \in Nat /\ d \in Nat /\ Fits(v, e) /\ Fits(w, d)
      /\ Ulp(v) = u /\ Ulp(w) = x /\ u \in Nat /\ u > 0 /\ x \in Nat /\ x > 0
      /\ Precision \in Nat /\ Precision > 0
  BY UlpIsPower, PrecisionAssumption
<1>2. /\ y \in Nat
      /\ \E k \in Nat : y = k * u
      /\ y = Down(v) \/ (y = Down(v) + u /\ v <= y)
  BY <1>1, RoundFacts
<1>3. /\ q \in Nat /\ Down(v) \in Nat /\ Down(v) = q * u /\ Down(v) <= v /\ v < Down(v) + u
      /\ \A k \in Nat : k * u <= v => k * u <= Down(v)
  BY <1>1, DownFacts DEF Down
<1>4. Down(w) \in Nat /\ \A k \in Nat : k * x <= w => k * x <= Down(w)
  BY <1>1, DownFacts
<1>5. v <= w => e <= d
  BY ExponentMonotone
<1>6. ~(v <= w) => d <= e
  <2>1. ~(v <= w) => w <= v
    OBVIOUS
  <2> QED
    BY <2>1, ExponentMonotone
<1>7. CASE d = e
  BY <1>2, <1>4, <1>7
<1>8. CASE d > e
  <2> DEFINE top == 2^(Precision + e)
             low == 2^(Precision + d - 1)
  <2>1. Precision + e \in Nat /\ Precision + d - 1 \in Nat /\ Precision + e <= Precision + d - 1
    BY <1>1, <1>8
  <2>2. top <= low /\ top \in Nat /\ low \in Nat
    BY <2>1, PowerMonotone, Powers
  <2>3. v < top /\ low <= w
    BY <1>1, <1>8 DEF Fits
  <2>4. PICK k \in Nat : top = k * u
    BY <1>1, BinadeEnds
  <2>5. PICK l \in Nat : low = l * x
    BY <1>1, BinadeEnds
  <2>6. low <= Down(w)
    BY <1>4, <2>3, <2>5
  <2>7. y <= top
    <3>1. q < k
      <4> SUFFICES ASSUME k <= q PROVE FALSE
        BY <1>3
      <4>1. k * u <= q * u
        <5> HIDE DEF u, q
        <5> QED
          BY <1>1, <1>3
      <4> HIDE DEF u, q, top
      <4> QED
        BY <1>1, <1>3, <2>2, <2>3, <2>4, <4>1
    <3>2. (q + 1) * u <= k * u
      <4> HIDE DEF u, q
      <4> QED
        BY <1>1, <1>3, <3>1
    <3>3. (q + 1) * u = q * u + u
      <4> HIDE DEF u, q
      <4> QED
        BY <1>1, <1>3
    <3>4. Down(v) + u <= top
      BY <1>3, <2>4, <3>2, <3>3
    <3> HIDE DEF u, q, top, y
    <3> QED
      BY <1>1, <1>2, <1>3, <2>2, <3>4
  <2> HIDE DEF top, low, y
  <2>8. y <= Down(w)
    BY <1>2, <1>4, <2>2, <2>6, <2>7
  <2> QED
    BY <2>8 DEF y
<1>9. CASE d < e
  <2> DEFINE low == 2^(Precision + e - 1)
             top == 2^(Precision + d)
  <2>1. Precision + d \in Nat /\ Precision + e - 1 \in Nat /\ Precision + d <= Precision + e - 1
    BY <1>1, <1>9
  <2>2. top <= low /\ top \in Nat /\ low \in Nat
    BY <2>1, PowerMonotone, Powers
  <2>3. w < top /\ low <= v
    BY <1>1, <1>9 DEF Fits
  <2>4. PICK k \in Nat : low = k * u
    BY <1>1, BinadeEnds
  <2>5. low <= Down(v)
    BY <1>3, <2>3, <2>4
  <2>6. Down(v) <= y
    <3> HIDE DEF u, y
    <3> QED
      BY <1>1, <1>2, <1>3
  <2>7. y <= w /\ y \in Nat
    BY <1>2
  <2> HIDE DEF top, low, y
  <2> QED
    BY <1>3, <2>2, <2>3, <2>5, <2>6, <2>7
<1>10. d = e \/ d > e \/ d < e
  BY <1>1
<1> QED
  BY <1>7, <1>8, <1>9, <1>10

\* One addition to a sum that was rounded before.
LEMMA AddRounds ==
  ASSUME NEW old \in Nat, Steady(old), NEW s \in Nat
  PROVE  LET r == Round(old + s) IN
         /\ r \in Nat /\ Steady(r) /\ r <= old + 2 * s
         /\ 2 * (r - (old + s)) <= Ulp(old + s)
         /\ 2 * ((old + s) - r) <= Ulp(old + s)
<1> DEFINE v == old + s
           r == Round(v)
<1>1. v \in Nat /\ old <= v
  OBVIOUS
<1>2. old <= Down(v)
  BY <1>1 DEF Steady
<1>3. Down(v) \in Nat /\ Down(v) <= v
  BY <1>1, DownFacts
<1>4. /\ r \in Nat /\ 2 * (r - v) <= Ulp(v) /\ 2 * (v - r) <= Ulp(v)
      /\ r - v <= v - Down(v)
  BY <1>1, RoundFacts
<1>5. Steady(r)
  BY <1>1, RoundSteady
<1>6. r <= old + 2 * s
  <2>1. v = old + s
    OBVIOUS
  <2> HIDE DEF v, r
  <2> QED
    BY <1>1, <1>2, <1>3, <1>4, <2>1
<1> QED
  BY <1>4, <1>5, <1>6

-------------------------------------------------------------------------------
(* The exact sum over a set of evaluations, and as many units as it has. *)

Total(S) == MapThenSumSet(LAMBDA e : e.score, S)
Units(S) == UNION {{e} \X (1 .. e.score) : e \in S}

Scored(S) == IsFiniteSet(S) /\ \A e \in S : e.score \in Nat

\* One column of n units: as many as n.
LEMMA Column ==
  ASSUME NEW x, NEW n \in Nat
  PROVE  IsFiniteSet({x} \X (1..n)) /\ Cardinality({x} \X (1..n)) = n
<1> DEFINE I == 1..n
           E == {x}
<1>1. IsFiniteSet(E) /\ Cardinality(E) = 1
  BY FS_Singleton
<1>2. n \in Int /\ 1 \in Int
  OBVIOUS
<1>3. IsFiniteSet(I) /\ Cardinality(I) = IF 1 > n THEN 0 ELSE n - 1 + 1
  BY <1>2, FS_Interval
<1>4. Cardinality(I) = n
  <2> HIDE DEF I
  <2> QED
    BY <1>3
<1> HIDE DEF I, E
<1>5. IsFiniteSet(E \X I)
  BY <1>1, <1>3, FS_Product
<1>6. Cardinality(E \X I) = Cardinality(E) * Cardinality(I)
  BY <1>1, <1>3, FS_Product
<1>7. Cardinality(E \X I) = n
  <2> DEFINE c == Cardinality(E \X I)
  <2>1. c = 1 * n
    BY <1>1, <1>4, <1>6
  <2> HIDE DEF c
  <2>2. c = n
    BY <2>1
  <2> QED
    BY <2>2 DEF c
<1> QED
  BY <1>5, <1>7 DEF I, E

LEMMA FiniteUnits ==
  ASSUME NEW S, Scored(S)
  PROVE  IsFiniteSet(Units(S))
<1> DEFINE part(e) == {e} \X (1 .. e.score)
           parts == {part(e) : e \in S}
<1>1. IsFiniteSet(parts)
  <2> DEFINE f == [e \in S |-> part(e)]
  <2>1. f \in Surjection(S, parts)
    BY DEF Surjection
  <2> QED
    BY <2>1, FS_Surjection DEF Scored
<1>2. \A e \in S : IsFiniteSet(part(e))
  <2> TAKE e \in S
  <2> QED
    BY Column DEF Scored
<1>3. \A T \in parts : IsFiniteSet(T)
  BY <1>2
<1> QED
  BY <1>1, <1>3, FS_UNION DEF Units

LEMMA OneLess ==
  ASSUME NEW S, Scored(S), NEW e \in S
  PROVE  /\ Cardinality(Units(S)) = e.score + Cardinality(Units(S \ {e}))
         /\ Cardinality(Units(S \ {e})) \in Nat
<1> DEFINE n == e.score
           part == {e} \X (1 .. n)
           rest == Units(S \ {e})
<1>0. n \in Nat
  BY DEF Scored
<1>1. Scored(S \ {e})
  BY FS_RemoveElement DEF Scored
<1>2. IsFiniteSet(rest)
  BY <1>1, FiniteUnits
<1>3. IsFiniteSet(part) /\ Cardinality(part) = n
  <2> HIDE DEF n
  <2> QED
    BY <1>0, Column
<1>4. part \cap rest = {}
  BY DEF Units
<1>5. Units(S) = part \cup rest
  BY DEF Units
<1>6. Cardinality(part \cap rest) = 0
  BY <1>4, FS_EmptySet
<1> HIDE DEF part, rest
<1>7. Cardinality(part \cup rest) = Cardinality(part) + Cardinality(rest) - 0
  BY <1>2, <1>3, <1>6, FS_Union
<1>8. Cardinality(part) \in Nat /\ Cardinality(rest) \in Nat
  BY <1>2, <1>3, FS_CardinalityType
<1> HIDE DEF n
<1>9. Cardinality(part \cup rest) = n + Cardinality(rest)
  BY <1>3, <1>7, <1>8
<1> QED
  BY <1>5, <1>8, <1>9 DEF rest, n

\* The fold counts the units: nothing else satisfies its recursion.
LEMMA TotalIsCount ==
  ASSUME NEW S, Scored(S)
  PROVE  Total(S) = Cardinality(Units(S))
<1> DEFINE first(s) == CHOOSE e \in s : TRUE
           Adds(f) == f = [s \in SUBSET S |-> IF s = {} THEN 0
                                ELSE first(s).score + f[s \ {first(s)}]]
           count == [s \in SUBSET S |-> Cardinality(Units(s))]
           iter == CHOOSE f : Adds(f)
<1>1. Total(S) = iter[S]
  BY DEF Total, MapThenSumSet, MapThenFoldSet
<1>2. Adds(count)
  <2>1. ASSUME NEW s \in SUBSET S, s # {}
        PROVE  count[s] = first(s).score + count[s \ {first(s)}]
    <3>1. first(s) \in s /\ s \ {first(s)} \in SUBSET S
      BY <2>1
    <3>2. Scored(s)
      BY FS_Subset DEF Scored
    <3> HIDE DEF first
    <3> QED
      BY <3>1, <3>2, OneLess
  <2>2. Cardinality(Units({})) = 0
    BY FS_EmptySet DEF Units
  <2> HIDE DEF first
  <2>3. \A s \in SUBSET S : count[s] = IF s = {} THEN 0
                                       ELSE first(s).score + count[s \ {first(s)}]
    BY <2>1, <2>2
  <2> QED
    BY <2>3
<1> HIDE DEF count
<1>3. Adds(iter)
  <2> HIDE DEF Adds
  <2> QED
    BY <1>2
<1> HIDE DEF iter
<1>4. \A s \in SUBSET S : iter[s] = count[s]
  <2> SUFFICES ASSUME NEW s0 \in SUBSET S, iter[s0] # count[s0] PROVE FALSE
    OBVIOUS
  <2> DEFINE Wrong == {s \in SUBSET S : iter[s] # count[s]}
             R == StrictSubsetOrdering(S)
  <2>1. IsWellFoundedOn(R, SUBSET S)
    BY FS_StrictSubsetOrderingWellFounded, FS_FiniteSubsetsOfFinite DEF Scored
  <2>2. Wrong \subseteq SUBSET S /\ Wrong # {}
    OBVIOUS
  <2>3. PICK s \in Wrong : \A t \in Wrong : ~(<<t, s>> \in R)
    <3> HIDE DEF Wrong, R
    <3> QED
      BY <2>1, <2>2, WFMin
  <2>4. s # {} /\ first(s) \in s
    <3>1. s # {}
      BY <1>2, <1>3, <2>3
    <3> QED
      BY <3>1
  <2> HIDE DEF first
  <2>5. iter[s \ {first(s)}] = count[s \ {first(s)}]
    <3>1. <<s \ {first(s)}, s>> \in R
      BY <2>3, <2>4 DEF StrictSubsetOrdering
    <3> QED
      BY <2>3, <3>1
  <2> QED
    BY <1>2, <1>3, <2>3, <2>4, <2>5
<1> QED
  BY <1>1, <1>4 DEF count

LEMMA TotalGrows ==
  ASSUME NEW S, Scored(S), NEW e, e.score \in Nat, e \notin S
  PROVE  /\ Scored(S \cup {e}) /\ Total(S) \in Nat
         /\ Total(S \cup {e}) = Total(S) + e.score
         /\ Cardinality(S) \in Nat
         /\ Cardinality(S \cup {e}) = Cardinality(S) + 1
<1> DEFINE T == S \cup {e}
<1>1. Scored(T) /\ T \ {e} = S /\ e \in T
  BY FS_AddElement DEF Scored
<1>2. /\ Cardinality(Units(T)) = e.score + Cardinality(Units(S))
      /\ Cardinality(Units(S)) \in Nat
  <2> HIDE DEF T
  <2> QED
    BY <1>1, OneLess
<1>3. Total(T) = Cardinality(Units(T)) /\ Total(S) = Cardinality(Units(S))
  BY <1>1, TotalIsCount
<1>4. Cardinality(S) \in Nat /\ Cardinality(T) = Cardinality(S) + 1
  BY FS_AddElement, FS_CardinalityType DEF Scored
<1> QED
  BY <1>1, <1>2, <1>3, <1>4

LEMMA TotalNone == Total({}) = 0 /\ Cardinality({}) = 0
<1>1. Scored({}) /\ Units({}) = {} /\ Cardinality({}) = 0
  BY FS_EmptySet DEF Scored, Units
<1> QED
  BY <1>1, TotalIsCount

-------------------------------------------------------------------------------
(* The count of one node. *)

Evaluations == [author : Node, target : Node, score : Score, serial : Nat]

TypeOK ==
  /\ ledger \subseteq Evaluations /\ IsFiniteSet(ledger)
  /\ counting \in BOOLEAN
  /\ pending \subseteq ledger
  /\ current \subseteq Node

Idle == ~counting => pending = {} /\ reputation = << >>

\* What was added for t, and what it came to.
Added(t) == {e \in ledger \ pending : e.target = t}
SumOf(t) == IF t \in DOMAIN reputation THEN reputation[t] ELSE 0

\* A rounded sum r of n scores that are x together.
Near(n, x, r) ==
  IF n = 0 THEN r = 0
  ELSE /\ 2 * (r - x) <= (n - 1) * Ulp(2 * x)
       /\ 2 * (x - r) <= (n - 1) * Ulp(2 * x)

Sound(n, x, r) == r \in Nat /\ Steady(r) /\ r <= 2 * x /\ Near(n, x, r)

Sums ==
  counting => /\ DOMAIN reputation = {e.target : e \in ledger \ pending}
              /\ \A t \in Node : Sound(Cardinality(Added(t)), Total(Added(t)), SumOf(t))

IInv == TypeOK /\ Idle /\ Sums

\* One more score makes at most half a unit of the larger sum.
LEMMA AddSound ==
  ASSUME NEW n \in Nat, NEW x \in Nat, n = 0 => x = 0, NEW r, Sound(n, x, r),
         NEW s \in Nat, Round(s) = s
  PROVE  Sound(n + 1, x + s, Round(r + s))
<1> DEFINE y == x + s
           v == r + s
           z == Round(v)
           c == Ulp(2 * y)
<1>1. r \in Nat /\ Steady(r) /\ r <= 2 * x
  BY DEF Sound
<1>2. /\ z \in Nat /\ Steady(z) /\ z <= r + 2 * s
      /\ 2 * (z - v) <= Ulp(v) /\ 2 * (v - z) <= Ulp(v)
  BY <1>1, AddRounds
<1>3. v \in Nat /\ y \in Nat /\ 2 * y \in Nat /\ 2 * x \in Nat
  BY <1>1
<1>4. v <= 2 * y /\ 2 * x <= 2 * y
  BY <1>1
<1>5. z <= 2 * y
  <2> HIDE DEF z
  <2> QED
    BY <1>1, <1>2
<1>6. CASE n = 0
  <2>1. r = 0 /\ x = 0
    BY <1>1, <1>6
  <2>2. z = s /\ y = s
    BY <2>1
  <2>3. Near(n + 1, y, z)
    <3>1. (n + 1) # 0 /\ (n + 1) - 1 = 0
      BY <1>6
    <3>2. c \in Nat
      BY <1>3, UlpIsPower
    <3>3. 0 * c = 0
      BY <3>2
    <3>4. 2 * (z - y) <= 0 /\ 2 * (y - z) <= 0
      BY <2>2
    <3> HIDE DEF y, z
    <3> QED
      BY <3>1, <3>3, <3>4 DEF Near, c
  <2> QED
    BY <1>2, <1>5, <2>3 DEF Sound
<1>7. CASE n # 0
  <2> DEFINE a == Ulp(2 * x)
             b == Ulp(v)
             m == n - 1
  <2>1. /\ a \in Nat /\ b \in Nat /\ c \in Nat /\ a <= c /\ b <= c /\ m \in Nat
    BY <1>3, <1>4, <1>7, UlpIsPower, ExponentMonotone, SMTT(30)
  <2>2. 2 * (r - x) <= m * a /\ 2 * (x - r) <= m * a
    BY <1>7 DEF Sound, Near
  <2>3. m * a <= m * c /\ m * a \in Nat /\ m * c \in Nat
    <3> HIDE DEF a, c, m
    <3> QED
      BY <2>1
  <2>4. n * c = m * c + c
    <3>1. n = m + 1
      OBVIOUS
    <3> HIDE DEF c, m
    <3> QED
      BY <2>1, <3>1
  <2>5. 2 * (z - y) <= n * c /\ 2 * (y - z) <= n * c
    <3> DEFINE ma == m * a
               mc == m * c
               nc == n * c
    <3>1. /\ ma <= mc /\ ma \in Nat /\ mc \in Nat /\ nc = mc + c
          /\ 2 * (r - x) <= ma /\ 2 * (x - r) <= ma
          /\ 2 * (z - v) <= b /\ 2 * (v - z) <= b
          /\ v = r + s /\ y = x + s
      BY <1>2, <2>2, <2>3, <2>4
    <3> HIDE DEF ma, mc, nc, a, b, c, m, v, y, z
    <3>2. 2 * (z - y) <= nc /\ 2 * (y - z) <= nc
      BY <1>1, <1>2, <1>3, <2>1, <3>1
    <3> QED
      BY <3>2 DEF nc
  <2>6. Near(n + 1, y, z)
    <3>1. (n + 1) # 0 /\ (n + 1) - 1 = n
      OBVIOUS
    <3> HIDE DEF y, z
    <3> QED
      BY <2>5, <3>1 DEF Near, c
  <2> QED
    BY <1>2, <1>5, <2>6 DEF Sound
<1> QED
  BY <1>6, <1>7

LEMMA NothingAdded == Sound(0, 0, 0)
<1>1. Steady(0)
  BY DownFacts DEF Steady
<1> QED
  BY <1>1 DEF Sound, Near

LEMMA ScoredSets ==
  ASSUME TypeOK, NEW S, S \subseteq ledger
  PROVE  Scored(S)
BY ScoreAssumption, FS_Subset DEF TypeOK, Evaluations, Scored

LEMMA TypesKept == TypeOK /\ [Next]_vars => TypeOK'
<1> SUFFICES ASSUME TypeOK, [Next]_vars PROVE TypeOK'
  OBVIOUS
<1>1. ASSUME NEW a \in Node, NEW t \in Node, NEW s \in Score, Record(a, t, s)
      PROVE  TypeOK'
  <2>1. Cardinality(ledger) \in Nat
    BY FS_CardinalityType DEF TypeOK
  <2> DEFINE e == [author |-> a, target |-> t, score |-> s, serial |-> Cardinality(ledger)]
  <2>2. e \in Evaluations
    BY <2>1 DEF Evaluations
  <2>3. ledger' = ledger \cup {e} /\ UNCHANGED <<counting, pending, current, reputation>>
    BY <1>1 DEF Record
  <2>4. IsFiniteSet(ledger \cup {e})
    BY FS_AddElement DEF TypeOK
  <2> HIDE DEF e
  <2> QED
    BY <2>2, <2>3, <2>4 DEF TypeOK
<1>2. CASE StartCount
  BY <1>2 DEF StartCount, TypeOK
<1>3. ASSUME NEW e \in pending, Accumulate(e) PROVE TypeOK'
  <2>1. e.author \in Node
    BY DEF TypeOK, Evaluations
  <2> QED
    BY <1>3, <2>1 DEF Accumulate, TypeOK
<1>4. CASE Elected
  BY <1>4 DEF Elected, TypeOK
<1>5. CASE UNCHANGED vars
  BY <1>5 DEF vars, TypeOK
<1> QED
  BY <1>1, <1>2, <1>3, <1>4, <1>5 DEF Next

\* One turn of the inner loop adds one score to the sum of its target.
LEMMA SumsAccumulate ==
  ASSUME TypeOK, Idle, Sums, NEW e \in pending, Accumulate(e)
  PROVE  Sums'
<1>1. counting
  BY DEF Idle
<1>2. /\ DOMAIN reputation = {f.target : f \in ledger \ pending}
      /\ \A t \in Node : Sound(Cardinality(Added(t)), Total(Added(t)), SumOf(t))
  BY <1>1 DEF Sums
<1>3. /\ e \in ledger /\ e.target \in Node /\ e.score \in Score /\ e.score \in Nat
  BY ScoreAssumption DEF TypeOK, Evaluations
<1>4. /\ pending' = pending \ {e} /\ ledger' = ledger /\ counting' = counting
      /\ reputation' = [t \in DOMAIN reputation \cup {e.target} |->
           IF t = e.target THEN Round(SumOf(t) + e.score) ELSE SumOf(t)]
  BY DEF Accumulate, SumOf
<1>5. DOMAIN reputation' = {f.target : f \in ledger' \ pending'}
  <2>1. DOMAIN reputation' = DOMAIN reputation \cup {e.target}
    BY <1>4
  <2>2. ledger' \ pending' = (ledger \ pending) \cup {e}
    BY <1>3, <1>4
  <2> QED
    BY <1>2, <2>1, <2>2
<1>6. ASSUME NEW t \in Node
      PROVE  Sound(Cardinality(Added(t)'), Total(Added(t)'), SumOf(t)')
  <2>1. CASE t = e.target
    <3> DEFINE S == Added(t)
    <3>1. Added(t)' = S \cup {e} /\ e \notin S /\ S \subseteq ledger
      BY <1>3, <1>4, <2>1 DEF Added
    <3>2. SumOf(t)' = Round(SumOf(t) + e.score)
      BY <1>4, <2>1 DEF SumOf
    <3>3. Scored(S)
      BY <3>1, ScoredSets
    <3> HIDE DEF S
    <3>4. /\ Total(S) \in Nat /\ Total(S \cup {e}) = Total(S) + e.score
          /\ Cardinality(S) \in Nat /\ Cardinality(S \cup {e}) = Cardinality(S) + 1
      BY <1>3, <3>1, <3>3, TotalGrows
    <3>5. Cardinality(S) = 0 => Total(S) = 0
      BY <3>3, FS_EmptySet, TotalNone DEF Scored
    <3>6. Sound(Cardinality(S), Total(S), SumOf(t))
      BY <1>2 DEF S
    <3>7. Round(e.score) = e.score
      BY <1>3, ScoresAreFloats
    <3>8. Sound(Cardinality(S) + 1, Total(S) + e.score, Round(SumOf(t) + e.score))
      BY <1>3, <3>4, <3>5, <3>6, <3>7, AddSound
    <3> QED
      BY <3>1, <3>2, <3>4, <3>8
  <2>2. CASE t # e.target
    <3>1. Added(t)' = Added(t)
      BY <1>4, <2>2 DEF Added
    <3>2. SumOf(t)' = SumOf(t)
      BY <1>4, <2>2 DEF SumOf
    <3> QED
      BY <1>2, <3>1, <3>2
  <2> QED
    BY <2>1, <2>2
<1> QED
  BY <1>5, <1>6 DEF Sums

LEMMA StepInvariant == IInv /\ [Next]_vars => IInv'
<1> SUFFICES ASSUME TypeOK, Idle, Sums, [Next]_vars PROVE Idle' /\ Sums'
  BY TypesKept DEF IInv
<1>1. ASSUME NEW a \in Node, NEW t \in Node, NEW s \in Score, Record(a, t, s)
      PROVE  Idle' /\ Sums'
  BY <1>1 DEF Record, Idle, Sums
<1>2. CASE StartCount
  <2>1. reputation' = << >> /\ ledger' \ pending' = {}
    BY <1>2 DEF StartCount, Idle
  <2>2. DOMAIN reputation' = {}
    BY <2>1
  <2>3. \A t : Added(t)' = {} /\ SumOf(t)' = 0
    BY <2>1, <2>2 DEF Added, SumOf
  <2>4. \A t \in Node : Sound(Cardinality(Added(t)'), Total(Added(t)'), SumOf(t)')
    BY <2>3, NothingAdded, TotalNone
  <2>5. Sums'
    BY <2>1, <2>2, <2>4 DEF Sums
  <2> QED
    BY <1>2, <2>5 DEF StartCount, Idle
<1>3. ASSUME NEW e \in pending, Accumulate(e) PROVE Idle' /\ Sums'
  <2>1. Idle'
    BY <1>3 DEF Accumulate, Idle
  <2> QED
    BY <1>3, <2>1, SumsAccumulate
<1>4. CASE Elected
  BY <1>4 DEF Elected, Counted, Idle, Sums
<1>5. CASE UNCHANGED vars
  BY <1>5 DEF vars, Idle, Sums, Added, SumOf
<1> QED
  BY <1>1, <1>2, <1>3, <1>4, <1>5 DEF Next

\* Types, and every sum within half a unit for every addition but the first
\* of what it should be, however the evaluations were ordered.
THEOREM InductiveInvariant == Spec => []IInv
<1>1. Init => IInv
  <2> SUFFICES ASSUME Init PROVE IInv
    OBVIOUS
  <2>1. TypeOK
    BY FS_EmptySet DEF Init, TypeOK
  <2> QED
    BY <2>1 DEF Init, IInv, Idle, Sums
<1> QED
  BY <1>1, StepInvariant, PTL DEF Spec

\* At the end of a count the sum of a target is within its slack.
LEMMA WithinSlack ==
  ASSUME IInv, Counted, NEW t \in Targets
  PROVE  /\ reputation[t] \in Nat /\ Exact(t) \in Nat /\ Slack(t) \in Nat
         /\ reputation[t] <= Exact(t) + Slack(t)
         /\ Exact(t) <= reputation[t] + Slack(t)
<1> DEFINE S == EvaluationsFor(t)
           n == Cardinality(S)
           x == Exact(t)
           r == reputation[t]
           d == (n - 1) * Ulp(2 * x)
<1>1. t \in Node /\ S # {} /\ S \subseteq ledger
  BY DEF IInv, TypeOK, Evaluations, Targets, EvaluationsFor
<1>2. Added(t) = S /\ SumOf(t) = r
  BY DEF IInv, Sums, Counted, Added, EvaluationsFor, SumOf, Targets
<1>3. x = Total(S)
  BY DEF Exact, Total
<1>4. Sound(n, x, r)
  BY <1>1, <1>2, <1>3 DEF IInv, Sums, Counted
<1>5. Scored(S)
  BY <1>1, ScoredSets DEF IInv
<1>6. n \in Nat /\ n # 0 /\ x \in Nat
  <2>1. n \in Nat /\ n # 0
    BY <1>1, <1>5, FS_EmptySet, FS_CardinalityType DEF Scored
  <2>2. IsFiniteSet(Units(S))
    BY <1>5, FiniteUnits
  <2> QED
    BY <1>3, <1>5, <2>1, <2>2, TotalIsCount, FS_CardinalityType
<1> HIDE DEF n, x, r
<1>7. d \in Nat
  <2>1. Ulp(2 * x) \in Nat /\ n - 1 \in Nat
    BY <1>6, UlpIsPower
  <2> QED
    BY <2>1
<1>8. Slack(t) = d \div 2
  BY <1>6 DEF Slack, n, x
<1>9. r \in Nat /\ 2 * (r - x) <= d /\ 2 * (x - r) <= d
  BY <1>4, <1>6 DEF Sound, Near
<1> HIDE DEF d
<1>10. d \div 2 \in Nat /\ r <= x + (d \div 2) /\ x <= r + (d \div 2)
  BY <1>6, <1>7, <1>9
<1> QED
  BY <1>6, <1>8, <1>9, <1>10 DEF x, r

\* GapDecides for any nodes, scores, precision and number of evaluations: a
\* lead beyond what rounding can move decides the order of the two at every
\* node, in whatever order that node adds the scores up (chain.rs 104-117).
THEOREM LeadsDecide == Spec => []GapDecides
<1>1. IInv => GapDecides
  <2> SUFFICES ASSUME IInv, Counted, NEW t \in Targets, NEW u \in Targets,
                      Exact(t) > Exact(u) + Slack(t) + Slack(u)
               PROVE  Outranks(reputation, t, u)
    BY DEF GapDecides
  <2>1. /\ reputation[t] \in Nat /\ Exact(t) \in Nat /\ Slack(t) \in Nat
        /\ Exact(t) <= reputation[t] + Slack(t)
    BY WithinSlack
  <2>2. /\ reputation[u] \in Nat /\ Exact(u) \in Nat /\ Slack(u) \in Nat
        /\ reputation[u] <= Exact(u) + Slack(u)
    BY WithinSlack
  <2>3. reputation[t] > reputation[u]
    BY <2>1, <2>2
  <2> QED
    BY <2>3 DEF Outranks
<1> QED
  BY <1>1, InductiveInvariant, PTL

\* The committee of the exact sums, and a ledger in which rounding cannot
\* change the order of any two targets.
ExactReputation == [t \in Targets |-> Exact(t)]
Decided ==
  \A t, u \in Targets : t # u =>
    \/ Exact(t) > Exact(u) + Slack(t) + Slack(u)
    \/ Exact(u) > Exact(t) + Slack(t) + Slack(u)

\* Then every node elects the committee that exact sums would have elected,
\* so all of them elect the same (chain.rs 101-119).
THEOREM CommitteeIsExact ==
  Spec => [](Counted /\ Decided => Committee = TopRanked(ExactReputation, CommitteeSize))
<1>1. IInv /\ Counted /\ Decided => Committee = TopRanked(ExactReputation, CommitteeSize)
  <2> SUFFICES ASSUME IInv, Counted, Decided
               PROVE  Committee = TopRanked(ExactReputation, CommitteeSize)
    OBVIOUS
  <2>1. DOMAIN reputation = Targets /\ DOMAIN ExactReputation = Targets
    BY DEF IInv, Sums, Counted, Targets, ExactReputation
  <2>2. ASSUME NEW t \in Targets, NEW u \in Targets,
               Exact(t) > Exact(u) + Slack(t) + Slack(u)
        PROVE  /\ reputation[t] > reputation[u] /\ ~(reputation[u] > reputation[t])
               /\ reputation[u] # reputation[t]
               /\ Exact(t) > Exact(u) /\ ~(Exact(u) > Exact(t)) /\ Exact(u) # Exact(t)
    <3>1. /\ reputation[t] \in Nat /\ Exact(t) \in Nat /\ Slack(t) \in Nat
          /\ Exact(t) <= reputation[t] + Slack(t)
      BY WithinSlack
    <3>2. /\ reputation[u] \in Nat /\ Exact(u) \in Nat /\ Slack(u) \in Nat
          /\ reputation[u] <= Exact(u) + Slack(u)
      BY WithinSlack
    <3> QED
      BY <2>2, <3>1, <3>2
  <2>3. ASSUME NEW t \in Targets, NEW u \in Targets, t # u
        PROVE  Outranks(reputation, u, t) <=> Outranks(ExactReputation, u, t)
    <3>1. CASE Exact(t) > Exact(u) + Slack(t) + Slack(u)
      BY <2>2, <3>1 DEF Outranks, ExactReputation
    <3>2. CASE Exact(u) > Exact(t) + Slack(t) + Slack(u)
      <4>1. Exact(u) > Exact(t) + Slack(u) + Slack(t)
        BY <3>2, WithinSlack
      <4> QED
        BY <2>2, <4>1 DEF Outranks, ExactReputation
    <3> QED
      BY <2>3, <3>1, <3>2 DEF Decided
  <2>4. \A t \in Targets :
          {u \in DOMAIN reputation \ {t} : Outranks(reputation, u, t)}
            = {u \in DOMAIN ExactReputation \ {t} : Outranks(ExactReputation, u, t)}
    BY <2>1, <2>3
  <2> QED
    BY <2>1, <2>4 DEF Committee, TopRanked
<1> QED
  BY <1>1, InductiveInvariant, PTL
================================================================================
