------------------------- MODULE BatchScoringProofs -------------------------
(* Theorems about BatchScoring, for any conversations, queues, budgets, rates *)
(* and window sizes.                                                          *)
EXTENDS BatchScoring, WellFoundedInduction, FiniteSetTheorems, SequenceTheorems, TLAPS

-----------------------------------------------------------------------------
(* Smallest members, quotients and products of numbers.                        *)

\* A set of naturals that is not empty has a smallest member.
LEMMA MinOfNats ==
  ASSUME NEW S, S \subseteq Nat, S # {}
  PROVE  Min(S) \in S /\ \A y \in S : Min(S) <= y
<1>1. PICK x \in S : \A y \in S : <<y, x>> \notin OpToRel(<, Nat)
  BY NatLessThanWellFounded, WFMin, Zenon
<1>2. ASSUME NEW y \in S PROVE x <= y
  <2>1. y < x => <<y, x>> \in OpToRel(<, Nat)
    <3>1. <<y, x>> \in Nat \X Nat
      OBVIOUS
    <3>2. y < x => <<y, x>>[1] < <<y, x>>[2]
      OBVIOUS
    <3> QED BY <3>1, <3>2, Zenon DEF OpToRel
  <2>2. ~(y < x)
    BY <1>1, <2>1, Zenon
  <2> QED BY <2>2
<1> QED BY <1>2 DEF Min

\* The smaller of two numbers.
LEMMA MinOfTwo ==
  ASSUME NEW a \in Nat, NEW b \in Nat
  PROVE  Min({a, b}) = IF a <= b THEN a ELSE b
<1>1. Min({a, b}) \in {a, b} /\ \A y \in {a, b} : Min({a, b}) <= y
  BY MinOfNats
<1> QED BY <1>1

\* What division leaves is smaller than the divisor.
LEMMA Division ==
  ASSUME NEW a \in Nat, NEW b \in Nat \ {0}
  PROVE  a \div b \in Nat /\ a % b \in 0..(b - 1) /\ a = b * (a \div b) + (a % b)
OBVIOUS

\* Products grow with their factors.
LEMMA Products ==
  ASSUME NEW a \in Nat, NEW b \in Nat, NEW c \in Nat, a <= b
  PROVE  a * c \in Nat /\ a * c <= b * c
OBVIOUS

\* The quotient is the only number with a remainder below the divisor.
LEMMA Quotient ==
  ASSUME NEW b \in Nat \ {0}, NEW q \in Nat, NEW r \in 0..(b - 1)
  PROVE  (b * q + r) \div b = q
<1> DEFINE d == (b * q + r) \div b
           e == (b * q + r) % b
<1>1. b * q + r \in Nat
  OBVIOUS
<1>2. d \in Nat /\ e \in 0..(b - 1) /\ b * q + r = b * d + e
  BY <1>1, Division
<1> HIDE DEF d, e
<1>3. CASE d < q
  <2>1. b * (d + 1) <= b * q
    BY <1>2, <1>3, Products
  <2>2. b * (d + 1) = b * d + b
    BY <1>2
  <2> QED BY <1>2, <2>1, <2>2
<1>4. CASE d > q
  <2>1. b * (q + 1) <= b * d
    BY <1>2, <1>4, Products
  <2>2. b * (q + 1) = b * q + b
    OBVIOUS
  <2> QED BY <1>2, <2>1, <2>2
<1> QED BY <1>2, <1>3, <1>4 DEF d

\* Quotients grow with the number that is divided.
LEMMA Quotients ==
  ASSUME NEW x \in Nat, NEW y \in Nat, NEW b \in Nat \ {0}, x <= y
  PROVE  x \div b <= y \div b
<1> DEFINE d == x \div b
           f == x % b
           e == y \div b
           g == y % b
<1>1. d \in Nat /\ f \in 0..(b - 1) /\ x = b * d + f
  BY Division
<1>2. e \in Nat /\ g \in 0..(b - 1) /\ y = b * e + g
  BY Division
<1> HIDE DEF d, e, f, g
<1>3. CASE e < d
  <2>1. b * (e + 1) <= b * d
    BY <1>1, <1>2, <1>3, Products
  <2>2. b * (e + 1) = b * e + b
    BY <1>2
  <2> QED BY <1>1, <1>2, <2>1, <2>2
<1> QED BY <1>1, <1>2, <1>3 DEF d, e

-----------------------------------------------------------------------------
(* The threshold.                                                             *)

\* Parts of a window are finite, and no larger than it is.
LEMMA Counted ==
  ASSUME NEW s, NEW n \in Nat, DOMAIN s = 1..n, NEW A, A \subseteq DOMAIN s
  PROVE  IsFiniteSet(A) /\ Cardinality(A) \in 0..n
<1>1. IsFiniteSet(1..n) /\ Cardinality(1..n) = n
  BY FS_Interval
<1>2. IsFiniteSet(A) /\ Cardinality(A) <= Cardinality(1..n)
  BY <1>1, FS_Subset
<1>3. Cardinality(A) \in Nat
  BY <1>2, FS_CardinalityType
<1> QED BY <1>1, <1>2, <1>3

\* The k-th smallest sample is a score that k samples do not exceed, and fewer
\* than k are below it.
LEMMA RankedIs ==
  ASSUME NEW s \in Seq(Probability), NEW k \in 1..Len(s)
  PROVE  /\ Ranked(s, k) \in Probability
         /\ Cardinality({i \in DOMAIN s : s[i] < Ranked(s, k)}) < k
<1> DEFINE To(v) == {i \in DOMAIN s : s[i] <= v}
           S == {v \in Probability : Cardinality(To(v)) >= k}
           r == Ranked(s, k)
<1>1. Unit \in Nat /\ Len(s) \in Nat /\ k \in Nat /\ DOMAIN s = 1..Len(s)
      /\ \A i \in DOMAIN s : s[i] \in 0..Unit
  BY ScoresAssumption DEF Probability
<1>2. Unit \in S
  <2>1. To(Unit) = 1..Len(s)
    BY <1>1
  <2>2. Cardinality(1..Len(s)) = Len(s)
    BY <1>1, FS_Interval
  <2>3. Cardinality(To(Unit)) = Len(s)
    <3> HIDE DEF To
    <3> QED BY <2>1, <2>2
  <2>4. Unit \in Probability /\ Len(s) >= k
    BY <1>1 DEF Probability
  <2> HIDE DEF To
  <2> QED BY <2>3, <2>4
<1>3. r = Min(S)
  BY DEF Ranked
<1>4. r \in S /\ \A v \in S : r <= v
  <2>1. S \subseteq Nat /\ S # {}
    <3>1. S \subseteq Probability
      BY Zenon
    <3> HIDE DEF S
    <3> QED BY <1>1, <1>2, <3>1 DEF Probability
  <2> HIDE DEF S, r
  <2> QED BY <1>3, <2>1, MinOfNats
<1>5. r \in 0..Unit
  BY <1>4 DEF Probability
<1> DEFINE B == {i \in DOMAIN s : s[i] < r}
<1>6. Cardinality(B) \in Nat
  BY <1>1, Counted
<1>7. CASE r = 0
  <2>1. B = {}
    BY <1>1, <1>7
  <2>2. Cardinality(B) = 0
    BY <2>1, FS_EmptySet
  <2> QED BY <1>1, <1>5, <2>2 DEF Probability
<1>8. CASE r > 0
  <2>1. r - 1 \in Probability /\ r - 1 \notin S
    <3>1. r - 1 \in Probability /\ ~(r <= r - 1)
      BY <1>1, <1>5, <1>8 DEF Probability
    <3> QED BY <1>4, <3>1
  <2>2. ~(Cardinality(To(r - 1)) >= k)
    BY <2>1
  <2>3. B = To(r - 1)
    BY <1>1, <1>5
  <2>4. Cardinality(B) < k
    <3> HIDE DEF B
    <3> QED BY <1>1, <1>6, <2>2, <2>3
  <2> QED BY <1>5, <2>4 DEF Probability
<1> QED BY <1>5, <1>7, <1>8

\* Rounding up.
LEMMA UpType == ASSUME NEW n \in Nat PROVE Up(n) \in Nat
<1>1. n + Unit - 1 \in Nat /\ Unit \in Nat \ {0}
  BY ScoresAssumption
<1> QED BY <1>1, Division DEF Up

LEMMA UpGrows ==
  ASSUME NEW m \in Nat, NEW n \in Nat, m <= n
  PROVE  Up(m) <= Up(n)
<1>1. m + Unit - 1 \in Nat /\ n + Unit - 1 \in Nat /\ m + Unit - 1 <= n + Unit - 1
      /\ Unit \in Nat \ {0}
  BY ScoresAssumption
<1> DEFINE x == m + Unit - 1
           y == n + Unit - 1
<1>2. x \div Unit <= y \div Unit
  <2> HIDE DEF x, y
  <2>1. x \in Nat /\ y \in Nat /\ x <= y
    BY <1>1 DEF x, y
  <2> QED BY <1>1, <2>1, Quotients
<1> QED BY <1>2 DEF Up

LEMMA UpOf ==
  ASSUME NEW l \in Nat, NEW f \in 0..(Unit - 1)
  PROVE  Up(Unit * l + f) = IF f = 0 THEN l ELSE l + 1
<1>1. Unit \in Nat \ {0}
  BY ScoresAssumption
<1>2. CASE f = 0
  <2>1. (Unit * l + (Unit - 1)) \div Unit = l
    BY <1>1, Quotient
  <2>2. Unit * l + f + Unit - 1 = Unit * l + (Unit - 1)
    BY <1>1, <1>2
  <2> QED BY <1>2, <2>1, <2>2 DEF Up
<1>3. CASE f # 0
  <2>1. f - 1 \in 0..(Unit - 1)
    BY <1>1, <1>3
  <2>2. (Unit * (l + 1) + (f - 1)) \div Unit = l + 1
    BY <1>1, <2>1, Quotient
  <2>3. Unit * l + f + Unit - 1 = Unit * (l + 1) + (f - 1)
    BY <1>1, <1>3
  <2> QED BY <1>3, <2>2, <2>3 DEF Up
<1> QED BY <1>2, <1>3

\* A number between two scores, weighed, is between them.
LEMMA Weighed ==
  ASSUME NEW low \in Probability, NEW high \in Probability, NEW f \in 0..(Unit - 1)
  PROVE  LET w == low * Unit + (high - low) * f
             top == IF low <= high THEN high ELSE low
         IN  w \in 0..(Unit * Unit) /\ w <= top * Unit /\ (f = 0 => w = low * Unit)
<1> DEFINE w == low * Unit + (high - low) * f
           top == IF low <= high THEN high ELSE low
           g == Unit - f
<1>1. Unit \in Nat /\ low \in 0..Unit /\ high \in 0..Unit /\ f \in Nat /\ g \in Nat
      /\ top \in 0..Unit /\ low <= top /\ high <= top /\ f + g = Unit
  BY ScoresAssumption DEF Probability
<1>2. w = low * g + high * f
  BY <1>1
<1>3. low * g \in Nat /\ low * g <= top * g /\ high * f \in Nat /\ high * f <= top * f
  BY <1>1, Products
<1>4. top * g + top * f = top * Unit
  BY <1>1
<1>5. top * Unit <= Unit * Unit
  BY <1>1, Products
<1>6. f = 0 => w = low * Unit
  BY <1>1
<1>7. w \in Nat /\ w <= top * Unit
  <2> HIDE DEF w, top, g
  <2>1. top * g \in Nat /\ top * f \in Nat
    BY <1>1
  <2> DEFINE a == low * g
             b == high * f
             c == top * g
             d == top * f
             e == top * Unit
  <2>2. a \in Nat /\ b \in Nat /\ c \in Nat /\ d \in Nat /\ a <= c /\ b <= d
        /\ w = a + b /\ c + d = e
    BY <1>2, <1>3, <1>4, <2>1
  <2> HIDE DEF a, b, c, d, e
  <2>3. w \in Nat /\ w <= e
    BY <2>2
  <2> QED BY <2>3 DEF e
<1>8. top * Unit \in Nat /\ Unit * Unit \in Nat
  BY <1>1
<1> HIDE DEF w, top
<1>9. w \in 0..(Unit * Unit)
  BY <1>5, <1>7, <1>8
<1> QED BY <1>6, <1>7, <1>9 DEF w, top

\* A quantile is a threshold, and no more samples are below it than its place
\* in the window says, rounded up.
LEMMA QuantileIs ==
  ASSUME NEW s \in Seq(Probability), Len(s) # 0, NEW q \in Probability
  PROVE  /\ (Len(s) - 1) * q \in Nat
         /\ Quantile(s, q) \in 0..(Unit * Unit)
         /\ Cardinality({i \in DOMAIN s : s[i] * Unit < Quantile(s, q)})
              <= Up((Len(s) - 1) * q)
<1> DEFINE n == Len(s)
           p == (n - 1) * q
           lo == p \div Unit
           f == p % Unit
           h == Min({lo + 2, n})
           low == Ranked(s, lo + 1)
           high == Ranked(s, h)
           w == low * Unit + (high - low) * f
           top == IF low <= high THEN high ELSE low
           B == {i \in DOMAIN s : s[i] * Unit < w}
<1>1. /\ n \in Nat \ {0} /\ Unit \in Nat \ {0} /\ q \in 0..Unit
      /\ DOMAIN s = 1..n /\ \A i \in DOMAIN s : s[i] \in 0..Unit
  BY ScoresAssumption DEF Probability
<1>2. p \in Nat /\ p <= (n - 1) * Unit
  <2>1. n - 1 \in Nat /\ q \in Nat /\ q <= Unit
    BY <1>1
  <2> DEFINE m == n - 1
  <2> HIDE DEF m
  <2>2. m \in Nat
    BY <2>1 DEF m
  <2>3. q * m \in Nat /\ q * m <= Unit * m
    BY <1>1, <2>1, <2>2, Products
  <2>4. m * q \in Nat /\ m * q <= m * Unit
    BY <1>1, <2>1, <2>2, <2>3
  <2> QED BY <2>4 DEF m
<1>3. lo \in Nat /\ f \in 0..(Unit - 1) /\ p = Unit * lo + f
  <2> HIDE DEF p
  <2> QED BY <1>1, <1>2, Division
<1>w. Quantile(s, q) = w
  BY DEF Quantile
<1> HIDE DEF p, lo, f, low, high, w, B
<1>4. lo + 1 \in 1..n
  <2>1. CASE lo >= n
    <3>1. n * Unit <= lo * Unit
      BY <1>1, <1>3, <2>1, Products
    <3>2. (n - 1) * Unit = n * Unit - Unit
      BY <1>1
    <3>3. Unit * lo = lo * Unit
      BY <1>1, <1>3
    <3> DEFINE a == n * Unit
               b == lo * Unit
               c == (n - 1) * Unit
    <3>4. a \in Nat /\ b \in Nat /\ c = a - Unit /\ a <= b /\ p <= c /\ p = b + f
      BY <1>1, <1>2, <1>3, <3>1, <3>2, <3>3
    <3> HIDE DEF a, b, c, n
    <3> QED BY <1>1, <1>3, <3>4
  <2> QED BY <1>1, <1>3, <2>1
<1>5. h \in 1..n /\ h <= lo + 2
  BY <1>1, <1>3, MinOfTwo
<1> HIDE DEF h, n
<1>6. /\ low \in Probability /\ high \in Probability
      /\ Cardinality({i \in DOMAIN s : s[i] < low}) < lo + 1
      /\ Cardinality({i \in DOMAIN s : s[i] < high}) < h
  BY <1>4, <1>5, RankedIs DEF low, high, n
<1>7. w \in 0..(Unit * Unit) /\ w <= top * Unit /\ (f = 0 => w = low * Unit)
  BY <1>3, <1>6, Weighed DEF w
<1>8. Up(p) = IF f = 0 THEN lo ELSE lo + 1
  BY <1>3, UpOf
<1>9. ASSUME NEW v \in Probability, w <= v * Unit
      PROVE  Cardinality(B) <= Cardinality({i \in DOMAIN s : s[i] < v})
  <2> DEFINE C == {i \in DOMAIN s : s[i] < v}
  <2>1. ASSUME NEW i \in B PROVE i \in C
    <3>1. i \in DOMAIN s /\ s[i] \in 0..Unit /\ s[i] * Unit < w
      BY <1>1, <2>1 DEF B
    <3>2. v \in Nat /\ Unit \in Nat /\ w \in Int
      BY <1>1, <1>7, <1>9 DEF Probability
    <3>3. CASE v <= s[i]
      <4>1. v * Unit <= s[i] * Unit
        BY <3>1, <3>2, <3>3, Products
      <4>2. v * Unit \in Nat /\ s[i] * Unit \in Nat
        BY <3>1, <3>2
      <4> QED BY <1>9, <3>1, <3>2, <4>1, <4>2
    <3> QED BY <3>1, <3>2, <3>3
  <2>2. IsFiniteSet(C)
    BY <1>1, Counted
  <2> HIDE DEF C
  <2>3. B \subseteq C
    BY <2>1
  <2> QED BY <2>2, <2>3, FS_Subset DEF C
<1>10. Cardinality(B) \in Nat /\ Cardinality({i \in DOMAIN s : s[i] < low}) \in Nat
       /\ Cardinality({i \in DOMAIN s : s[i] < high}) \in Nat
  BY <1>1, Counted DEF B
<1>11. CASE f = 0 \/ high <= low
  <2>1. w <= low * Unit
    <3>1. low * Unit \in Int
      BY <1>1, <1>6 DEF Probability
    <3>2. CASE f = 0
      BY <1>7, <3>1, <3>2
    <3>3. CASE high <= low
      <4>1. top = low
        BY <1>6, <3>3 DEF Probability
      <4> HIDE DEF top
      <4> QED BY <1>7, <4>1
    <3> QED BY <1>11, <3>2, <3>3
  <2>2. Cardinality(B) <= Cardinality({i \in DOMAIN s : s[i] < low})
    BY <1>6, <1>9, <2>1
  <2>3. Cardinality(B) <= lo
    BY <1>3, <1>6, <1>10, <2>2
  <2>4. Cardinality(B) <= Up(p)
    BY <1>3, <1>8, <1>10, <2>3
  <2> QED BY <1>2, <1>7, <1>w, <2>4 DEF B, p, n
<1>12. CASE f # 0 /\ ~(high <= low)
  <2>1. w <= high * Unit
    <3>1. top = high
      BY <1>6, <1>12 DEF Probability
    <3> HIDE DEF top
    <3> QED BY <1>7, <3>1
  <2>2. Cardinality(B) <= Cardinality({i \in DOMAIN s : s[i] < high})
    BY <1>6, <1>9, <2>1
  <2>3. Cardinality(B) <= lo + 1
    BY <1>3, <1>5, <1>6, <1>10, <2>2
  <2>4. Cardinality(B) <= Up(p)
    BY <1>8, <1>12, <2>3
  <2> QED BY <1>2, <1>7, <1>w, <2>4 DEF B, p, n
<1> QED BY <1>11, <1>12

Settings == [rate : Rates, conservative : BOOLEAN, enabled : BOOLEAN]

\* The threshold is one, and follows the window.
LEMMA ThresholdIs ==
  ASSUME mode \in Settings, NEW s \in Seq(Probability), Len(s) <= Window
  PROVE  /\ Threshold(s) \in 0..(Unit * Unit)
         /\ mode.enabled /\ Len(s) >= Minimum =>
              Cardinality({i \in DOMAIN s : s[i] * Unit < Threshold(s)})
                <= Up((Len(s) - 1) * mode.rate)
<1> DEFINE n == Len(s)
           t == Threshold(s)
           B == {i \in DOMAIN s : s[i] * Unit < t}
           q == Share(n)
<1>1. /\ n \in Nat /\ Unit \in Nat \ {0} /\ mode.rate \in 0..Unit
      /\ DOMAIN s = 1..n /\ \A i \in DOMAIN s : s[i] \in 0..Unit
      /\ Minimum \in Nat \ {0} /\ Fallback \in 0..Unit /\ Ceiling \in 0..Unit
  <2>1. mode.rate \in Probability
    BY ScoresAssumption DEF Settings
  <2>2. n \in Nat /\ DOMAIN s = 1..n /\ \A i \in DOMAIN s : s[i] \in Probability
    OBVIOUS
  <2> HIDE DEF n
  <2> QED BY <2>1, <2>2, ScoresAssumption DEF Probability
<1>2. /\ Fallback * Unit \in 0..(Unit * Unit)
      /\ Ceiling * Unit \in 0..(Unit * Unit)
      /\ 0 \in 0..(Unit * Unit)
  <2>1. /\ Fallback * Unit \in Nat /\ Fallback * Unit <= Unit * Unit
        /\ Ceiling * Unit \in Nat /\ Ceiling * Unit <= Unit * Unit
    BY <1>1, Products
  <2>2. Unit * Unit \in Nat
    BY <1>1
  <2> QED BY <2>1, <2>2
<1>3. CASE ~mode.enabled \/ n < Minimum
  <2>1. t = Fallback * Unit
    BY <1>3 DEF Threshold
  <2> QED BY <1>1, <1>2, <1>3, <2>1
<1>4. CASE mode.enabled /\ n >= Minimum
  <2>1. n \in 1..Window
    BY <1>1, <1>4, ScoresAssumption
  <2>2. q \in Int /\ q <= mode.rate
    <3>1. Margin(n) \in Nat
      BY <2>1, ScoresAssumption
    <3> QED BY <1>1, <3>1 DEF Share
  <2>3. CASE q < 0
    <3>1. t = 0
      BY <1>1, <1>4, <2>3 DEF Threshold
    <3>2. B = {}
      BY <1>1, <3>1
    <3>3. Cardinality(B) = 0
      BY <3>2, FS_EmptySet
    <3>4. (n - 1) * mode.rate \in Nat
      BY <1>1, <2>1
    <3>5. Up((n - 1) * mode.rate) \in Nat
      BY <3>4, UpType
    <3> QED BY <1>2, <3>1, <3>3, <3>5
  <2>4. CASE q >= 0
    <3> DEFINE u == Quantile(s, q)
               C == {i \in DOMAIN s : s[i] * Unit < u}
    <3>1. q \in Probability
      BY <1>1, <2>2, <2>4 DEF Probability
    <3>2. /\ (n - 1) * q \in Nat
          /\ u \in 0..(Unit * Unit)
          /\ Cardinality(C) <= Up((n - 1) * q)
      <4>1. Len(s) # 0
        BY <2>1
      <4> HIDE DEF q
      <4> QED BY <3>1, <4>1, QuantileIs, Zenon
    <3>3. t = Min({Ceiling * Unit, u})
      <4>1. ~(q < 0)
        BY <2>2, <2>4
      <4>2. ~(~mode.enabled \/ n < Minimum)
        BY <1>1, <1>4
      <4> QED BY <4>1, <4>2 DEF Threshold
    <3> HIDE DEF u, t, q
    <3>4. t \in 0..(Unit * Unit) /\ t <= u
      <4> DEFINE a == Ceiling * Unit
                 b == Unit * Unit
      <4>1. a \in 0..b /\ u \in 0..b /\ t = Min({a, u})
        BY <1>2, <3>2, <3>3
      <4> HIDE DEF a, b
      <4>2. a \in Nat /\ u \in Nat
        BY <4>1
      <4>3. t \in 0..b /\ t <= u
        BY <4>1, <4>2, MinOfTwo
      <4> QED BY <4>3 DEF b
    <3>5. B \subseteq C
      <4>1. ASSUME NEW i \in DOMAIN s, s[i] * Unit < t PROVE s[i] * Unit < u
        <5> DEFINE z == s[i] * Unit
                   b == Unit * Unit
        <5>1. z \in Nat
          BY <1>1
        <5>2. z < t /\ t \in 0..b /\ t <= u /\ u \in 0..b
          BY <3>2, <3>4, <4>1
        <5> HIDE DEF z, b
        <5>3. z < u
          BY <5>1, <5>2
        <5> QED BY <5>3 DEF z
      <4> QED BY <4>1
    <3>6. Cardinality(B) <= Cardinality(C) /\ Cardinality(B) \in Nat /\ Cardinality(C) \in Nat
      <4>1. IsFiniteSet(C) /\ Cardinality(B) \in Nat /\ Cardinality(C) \in Nat
        BY <1>1, Counted
      <4> HIDE DEF B, C
      <4> QED BY <3>5, <4>1, FS_Subset
    <3>7. Up((n - 1) * q) <= Up((n - 1) * mode.rate)
      <4> DEFINE m == n - 1
      <4>1. m \in Nat
        BY <2>1
      <4>2. q \in Nat /\ mode.rate \in Nat
        BY <1>1, <3>1 DEF Probability
      <4> HIDE DEF m
      <4>3. q * m <= mode.rate * m /\ q * m \in Nat
        BY <2>2, <4>1, <4>2, Products
      <4>4. m * q \in Nat /\ m * mode.rate \in Nat /\ m * q <= m * mode.rate
        BY <4>1, <4>2, <4>3
      <4>5. Up(m * q) <= Up(m * mode.rate)
        BY <4>4, UpGrows
      <4> QED BY <4>5 DEF m
    <3>8. Up((n - 1) * q) \in Nat /\ Up((n - 1) * mode.rate) \in Nat
      <4>1. (n - 1) * mode.rate \in Nat
        BY <1>1, <2>1
      <4> QED BY <3>2, <4>1, UpType
    <3>9. Cardinality(B) <= Up((n - 1) * mode.rate)
      <4> HIDE DEF B, C, n
      <4> QED BY <3>2, <3>6, <3>7, <3>8
    <3> QED BY <3>4, <3>9 DEF t
  <2> QED BY <2>2, <2>3, <2>4
<1> QED BY <1>1, <1>3, <1>4

\* The window keeps scores, and no more than it holds.
LEMMA NewestIs ==
  ASSUME NEW s \in Seq(Probability)
  PROVE  Newest(s) \in Seq(Probability) /\ Len(Newest(s)) <= Window
<1> DEFINE k == Min({Window, Len(s)})
           a == Len(s) - k + 1
<1>1. Window \in Nat /\ Len(s) \in Nat
  BY ScoresAssumption
<1>2. k \in 0..Len(s) /\ k <= Window
  BY <1>1, MinOfTwo
<1>3. a \in 1..(Len(s) + 1)
  BY <1>1, <1>2
<1> HIDE DEF k
<1>4. /\ SubSeq(s, a, Len(s)) \in Seq(Probability)
      /\ Len(SubSeq(s, a, Len(s))) = IF a <= Len(s) THEN Len(s) - a + 1 ELSE 0
  BY <1>1, <1>2, <1>3, SubSeqProperties
<1>5. Len(SubSeq(s, a, Len(s))) <= Window
  BY <1>1, <1>2, <1>4
<1> QED BY <1>4, <1>5 DEF Newest, k

-----------------------------------------------------------------------------
(* The candidates of a batch.                                                 *)

Conversation == [tier : [Tiers -> Nat], parts : Seq(Nat)]

\* What TypeOK says of the inputs, by the assumptions on the constants.
LEMMA TypesOf ==
  ASSUME TypeOK
  PROVE  /\ mode \in Settings /\ mode.rate \in Probability
         /\ hist \in Conversation /\ queue \in Seq(Candidate)
         /\ used \in Nat /\ at \in Nat /\ asks \in Nat
<1>1. NoHistory \in Conversation
  <2>1. <<>> \in Seq(Nat) /\ [t \in Tiers |-> 0] \in [Tiers -> Nat]
    OBVIOUS
  <2> QED BY <2>1 DEF NoHistory, Conversation
<1>2. hist \in Conversation
  BY <1>1, InputsAssumption DEF TypeOK, Conversation
<1>3. queue \in Seq(Candidate)
  <2>1. <<>> \in Seq(Candidate)
    OBVIOUS
  <2> QED BY <2>1, InputsAssumption DEF TypeOK
<1>4. mode \in Settings /\ mode.rate \in Probability
  <2>1. mode \in Settings
    BY DEF TypeOK, Settings
  <2>2. mode.rate \in Rates
    BY <2>1 DEF Settings
  <2> QED BY <2>1, <2>2, ScoresAssumption
<1> QED BY <1>2, <1>3, <1>4 DEF TypeOK

\* The batch is a finite set of positions of the queue.
LEMMA SlotsAre ==
  ASSUME NEW q \in Seq(Candidate)
  PROVE  Min({Cap, Len(q)}) \in 0..Len(q) /\ Min({Cap, Len(q)}) \in Nat
<1>1. Cap \in Nat /\ Len(q) \in Nat
  BY SizesAssumption
<1> QED BY <1>1, MinOfTwo

LEMMA Selected ==
  ASSUME TypeOK
  PROVE  /\ Slots \in Nat /\ Slots <= Len(queue)
         /\ sel \subseteq 1..Slots /\ sel \subseteq Nat /\ IsFiniteSet(sel)
         /\ Tools \subseteq sel
         /\ Cardinality(sel) \in Nat
         /\ \A i \in 1..Slots : queue[i].text \in Nat /\ queue[i].asks \in Nat
<1>1. queue \in Seq(Candidate)
  BY TypesOf
<1>2. Slots \in Nat /\ Slots <= Len(queue) /\ Len(queue) \in Nat
  BY <1>1, SlotsAre DEF Slots
<1>3. sel \subseteq 1..Slots
  BY DEF TypeOK
<1>4. IsFiniteSet(1..Slots)
  BY <1>2, FS_Interval
<1>5. IsFiniteSet(sel) /\ Cardinality(sel) \in Nat
  BY <1>3, <1>4, FS_Subset, FS_CardinalityType
<1>6. \A i \in 1..Slots : queue[i] \in Candidate
  BY <1>1, <1>2
<1>7. \A i \in 1..Slots : queue[i].text \in Nat /\ queue[i].asks \in Nat
  BY <1>6 DEF Candidate
<1> QED BY <1>2, <1>3, <1>5, <1>7 DEF Tools

\* Each candidate of the batch has its answers.
LEMMA Places ==
  ASSUME TypeOK, NEW i \in sel
  PROVE  /\ At(i) \in 1..Answers
         /\ i \in Tools => At(i) - 1 \in 1..Answers
<1> DEFINE A == {j \in sel : j <= i}
           B == {j \in Tools : j <= i}
<1>1. IsFiniteSet(sel) /\ IsFiniteSet(Tools) /\ i \in Nat
  BY Selected, FS_Subset
<1>2. A \subseteq sel /\ B \subseteq Tools /\ i \in A /\ (i \in Tools => i \in B)
  BY <1>1
<1>3. At(i) = Cardinality(A) + Cardinality(B)
  BY DEF At
<1> HIDE DEF A, B
<1>4. /\ IsFiniteSet(A) /\ IsFiniteSet(B)
      /\ Cardinality(A) <= Cardinality(sel) /\ Cardinality(B) <= Cardinality(Tools)
  BY <1>1, <1>2, FS_Subset
<1>5. /\ Cardinality(A) \in Nat /\ Cardinality(B) \in Nat
      /\ Cardinality(sel) \in Nat /\ Cardinality(Tools) \in Nat
  BY <1>1, <1>4, FS_CardinalityType
<1>6. Cardinality(A) # 0 /\ (i \in Tools => Cardinality(B) # 0)
  BY <1>2, <1>4, FS_EmptySet
<1> QED BY <1>3, <1>4, <1>5, <1>6 DEF Answers

\* So every one has its score, and its call's.
LEMMA ScoresOf ==
  ASSUME TypeOK, NEW scores \in [1..Answers -> Probability]
  PROVE  Main(scores) \in [sel -> Probability] /\ Call(scores) \in [Tools -> Probability]
<1>1. ASSUME NEW i \in sel PROVE scores[At(i)] \in Probability
  BY Places
<1>2. ASSUME NEW i \in Tools PROVE scores[At(i) - 1] \in Probability
  <2>1. i \in sel
    BY DEF Tools
  <2>2. At(i) - 1 \in 1..Answers
    BY <2>1, Places
  <2> QED BY <2>2
<1> QED BY <1>1, <1>2 DEF Main, Call

\* What is better than one of the best is one of the best.
LEMMA BestFirst ==
  ASSUME TypeOK, NEW main \in [sel -> Probability], NEW i \in Best(main), NEW j \in sel,
         main[j] > main[i]
  PROVE  j \in Best(main)
<1>1. i \in sel /\ Cardinality(Better(main, i)) < Quota
  BY DEF Best
<1>2. \A k \in sel : main[k] \in Int
  BY ScoresAssumption DEF Probability
<1>3. Better(main, j) \subseteq Better(main, i)
  BY <1>1, <1>2 DEF Better
<1>4. /\ IsFiniteSet(Better(main, i)) /\ IsFiniteSet(Better(main, j))
      /\ Cardinality(Better(main, j)) <= Cardinality(Better(main, i))
  <2>1. Better(main, i) \subseteq sel
    BY DEF Better
  <2> QED BY <1>3, <2>1, Selected, FS_Subset
<1>5. Quota \in Nat
  <2>1. Cardinality(sel) * mode.rate \in Nat
    BY Selected, TypesOf, ScoresAssumption DEF Probability
  <2> QED BY <2>1, UpType DEF Quota
<1>6. Cardinality(Better(main, j)) < Quota
  BY <1>1, <1>4, <1>5, FS_CardinalityType
<1> QED BY <1>6 DEF Best

\* There are as many as the share says.
LEMMA BestEnough ==
  ASSUME TypeOK, NEW main \in [sel -> Probability]
  PROVE  /\ Quota \in Nat /\ IsFiniteSet(Best(main))
         /\ Cardinality(Best(main)) \in Nat /\ Quota <= Cardinality(Best(main))
<1> DEFINE c == Cardinality(sel)
           N == {Cardinality(Better(main, i)) : i \in sel \ Best(main)}
<1>1. /\ c \in Nat /\ IsFiniteSet(sel) /\ sel \subseteq Nat
      /\ \A i \in sel : main[i] \in Int
  BY Selected, ScoresAssumption DEF Probability
<1>2. Best(main) \subseteq sel /\ \A i : Better(main, i) \subseteq sel
  BY DEF Best, Better
<1>3. IsFiniteSet(Best(main)) /\ Cardinality(Best(main)) \in Nat
  BY <1>1, <1>2, FS_Subset, FS_CardinalityType
<1>4. Quota \in Nat /\ Quota <= c
  <2>1. /\ Unit \in Nat \ {0} /\ mode.rate \in Nat /\ mode.rate <= Unit
    BY TypesOf, ScoresAssumption DEF Probability
  <2> HIDE DEF c
  <2>2. mode.rate * c \in Nat /\ mode.rate * c <= Unit * c
    BY <1>1, <2>1, Products
  <2>3. c * mode.rate \in Nat /\ Unit * c + 0 \in Nat /\ c * mode.rate <= Unit * c + 0
    BY <1>1, <2>1, <2>2
  <2>4. Up(c * mode.rate) <= Up(Unit * c + 0)
    BY <2>3, UpGrows
  <2>5. Up(Unit * c + 0) = c
    <3>1. 0 \in 0..(Unit - 1)
      BY <2>1
    <3>2. Up(Unit * c + 0) = IF 0 = 0 THEN c ELSE c + 1
      BY <1>1, <3>1, UpOf, Zenon
    <3> QED BY <3>2
  <2>6. Up(c * mode.rate) \in Nat
    BY <2>3, UpType
  <2> QED BY <2>4, <2>5, <2>6 DEF Quota, c
<1> SUFFICES ASSUME Cardinality(Best(main)) < Quota PROVE FALSE
  BY <1>3, <1>4
<1>5. sel \ Best(main) # {}
  <2>1. CASE sel \ Best(main) = {}
    <3>1. Best(main) = sel
      BY <1>2, <2>1
    <3> QED BY <1>1, <1>4, <3>1
  <2> QED BY <2>1
<1>6. Min(N) \in N /\ \A y \in N : Min(N) <= y
  <2>1. N # {}
    BY <1>5
  <2>2. ASSUME NEW i \in sel \ Best(main) PROVE Cardinality(Better(main, i)) \in Nat
    BY <1>1, <1>2, FS_Subset, FS_CardinalityType
  <2>3. N \subseteq Nat
    BY <2>2
  <2> HIDE DEF N
  <2> QED BY <2>1, <2>3, MinOfNats
<1>7. PICK x \in sel \ Best(main) : \A y \in sel \ Best(main) :
          Cardinality(Better(main, x)) <= Cardinality(Better(main, y))
  <2>1. PICK x \in sel \ Best(main) : Min(N) = Cardinality(Better(main, x))
    BY <1>6
  <2>2. \A y \in sel \ Best(main) : Cardinality(Better(main, y)) \in N
    OBVIOUS
  <2> HIDE DEF N
  <2> QED BY <1>6, <2>1, <2>2
<1>8. ASSUME NEW y \in Better(main, x) PROVE y \in Best(main)
  <2>1. y \in sel /\ x \in sel
    BY <1>2
  <2>2. ASSUME NEW k \in Better(main, y) PROVE k \in Better(main, x)
    <3>1. k \in sel /\ (main[k] > main[y] \/ (main[k] = main[y] /\ k < y))
      BY <2>2 DEF Better
    <3>2. main[y] > main[x] \/ (main[y] = main[x] /\ y < x)
      BY <1>8 DEF Better
    <3>3. /\ main[k] \in Int /\ main[y] \in Int /\ main[x] \in Int
          /\ k \in Int /\ y \in Int /\ x \in Int
      BY <1>1, <2>1, <3>1
    <3>4. main[k] > main[x] \/ (main[k] = main[x] /\ k < x)
      BY <3>1, <3>2, <3>3
    <3> QED BY <3>1, <3>4 DEF Better
  <2>3. y \in Better(main, x) /\ y \notin Better(main, y)
    BY <1>1, <2>1, <1>8 DEF Better
  <2>4. IsFiniteSet(Better(main, x)) /\ IsFiniteSet(Better(main, y))
    BY <1>1, <1>2, FS_Subset
  <2>5. Cardinality(Better(main, y)) < Cardinality(Better(main, x))
    <3>1. /\ Cardinality(Better(main, y)) <= Cardinality(Better(main, x))
          /\ Cardinality(Better(main, y)) = Cardinality(Better(main, x))
               => Better(main, y) = Better(main, x)
      BY <2>2, <2>4, FS_Subset
    <3>2. Cardinality(Better(main, y)) \in Nat /\ Cardinality(Better(main, x)) \in Nat
      BY <2>4, FS_CardinalityType
    <3> QED BY <2>3, <3>1, <3>2
  <2>6. Cardinality(Better(main, y)) \in Nat /\ Cardinality(Better(main, x)) \in Nat
    BY <2>4, FS_CardinalityType
  <2> QED BY <1>7, <2>1, <2>5, <2>6
<1>9. Cardinality(Better(main, x)) <= Cardinality(Best(main))
      /\ Cardinality(Better(main, x)) \in Nat
  <2>1. Better(main, x) \subseteq Best(main)
    BY <1>8
  <2> QED BY <1>3, <2>1, FS_Subset, FS_CardinalityType
<1>10. Cardinality(Better(main, x)) < Quota
  BY <1>3, <1>4, <1>9
<1> QED BY <1>10 DEF Best

-----------------------------------------------------------------------------
(* Shaping: what is packed so far.                                            *)

Packed ==
    /\ \A i \in sel : i < at
    /\ \A i \in (1..Slots) \ sel : i < at => ~Room(queue[i])
    /\ sel = {} => asks = 0 /\ (folded => used <= MaxState \div 2)
    /\ sel # {} => Envelope + used + asks <= MaxRequest

ShapePart ==
    /\ pc = "shrink" => sel = {} /\ asks = 0 /\ at = 1
    /\ pc = "fold" => sel = {} /\ asks = 0 /\ used <= MaxState \div 2
                      /\ at <= Len(hist.parts)
    /\ pc \in {"admit", "asked"} => used <= MaxState /\ Packed
    /\ pc = "shrink" => ~folded
    /\ pc = "admit" => at # 0
    /\ pc = "asked" => at > Slots /\ sel # {}

ShapeInv == TypeOK /\ ShapePart

LEMMA ShapeInit == Init => ShapeInv
<1> SUFFICES ASSUME Init PROVE ShapeInv
  OBVIOUS
<1>1. current \in 0..(Unit * Unit)
  <2>1. Fallback \in Nat /\ Fallback <= Unit /\ Unit \in Nat
    BY ScoresAssumption DEF Probability
  <2>2. Fallback * Unit \in Nat /\ Fallback * Unit <= Unit * Unit
    BY <2>1, Products
  <2>3. Unit * Unit \in Nat
    BY <2>1
  <2> QED BY <2>2, <2>3 DEF Init
<1>2. samples \in Seq(Probability) /\ Len(samples) <= Window
  <2>1. <<>> \in Seq(Probability) /\ Len(<<>>) = 0
    OBVIOUS
  <2> QED BY <2>1, ScoresAssumption DEF Init
<1>3. TypeOK
  <2>1. sel \subseteq 1..Slots /\ queue \in Queues \cup {<<>>}
    BY DEF Init
  <2>2. tier \in Tiers /\ {used, at, asks} \subseteq Nat
    BY DEF Init, Tiers
  <2> QED BY <1>1, <1>2, <2>1, <2>2 DEF Init, TypeOK
<1> QED BY <1>3 DEF Init, ShapeInv, ShapePart

LEMMA BeginShape == ShapeInv /\ Begin => ShapeInv'
<1> SUFFICES ASSUME ShapeInv, Begin PROVE ShapeInv'
  OBVIOUS
<1>1. TypeOK
  BY DEF ShapeInv
<1>2. hist' \in Conversation
  BY InputsAssumption DEF Begin, Conversation
<1>3. used' \in Nat
  BY <1>2 DEF Begin, Conversation, Tiers
<1>4. TypeOK'
  <2>1. sel' \subseteq (1..Slots)' /\ queue' \in Queues /\ hist' \in Histories
    BY DEF Begin
  <2>2. tier' \in Tiers /\ {used', at', asks'} \subseteq Nat
    BY <1>3 DEF Begin, Tiers
  <2> QED BY <1>1, <2>1, <2>2 DEF Begin, TypeOK
<1> QED BY <1>4 DEF Begin, ShapeInv, ShapePart

LEMMA ShrinkShape == ShapeInv /\ Shrink => ShapeInv'
<1> SUFFICES ASSUME ShapeInv, Shrink PROVE ShapeInv'
  OBVIOUS
<1>1. TypeOK /\ hist \in Conversation
  BY TypesOf DEF ShapeInv
<1>2. tier \in 0..4 /\ tier < 4
  BY <1>1 DEF Shrink, TypeOK, Tiers
<1>3. tier + 1 \in Tiers
  BY <1>2 DEF Tiers
<1>4. tier' \in Tiers /\ used' \in Nat
  BY <1>1, <1>3 DEF Shrink, Conversation
<1>5. TypeOK'
  BY <1>1, <1>4 DEF Shrink, TypeOK, scoring, Slots
<1> QED BY <1>5 DEF Shrink, ShapeInv, ShapePart

LEMMA FitsShape == ShapeInv /\ Fits => ShapeInv'
<1> SUFFICES ASSUME ShapeInv, Fits PROVE ShapeInv'
  OBVIOUS
<1>1. TypeOK /\ UNCHANGED <<mode, shaping, scoring>> /\ Slots' = Slots
  BY DEF Fits, ShapeInv, Slots, shaping
<1>2. TypeOK'
  BY <1>1 DEF Fits, TypeOK, scoring, shaping
<1>3. sel = {} /\ asks = 0 /\ at = 1 /\ ~folded /\ used <= MaxState /\ Slots \in Nat
  BY <1>1, Selected DEF Fits, ShapeInv, ShapePart
<1>4. Packed
  BY <1>3 DEF Packed
<1>5. Packed'
  BY <1>1, <1>4 DEF Packed, Room, shaping, Slots
<1> QED BY <1>1, <1>2, <1>3, <1>5 DEF Fits, ShapeInv, ShapePart, shaping

LEMMA FoldShape == ShapeInv /\ Fold => ShapeInv'
<1> SUFFICES ASSUME ShapeInv, Fold PROVE ShapeInv'
  OBVIOUS
<1>1. TypeOK /\ hist \in Conversation
  BY TypesOf DEF ShapeInv
<1>2. used' \in Nat /\ used' <= MaxState \div 2
  BY SizesAssumption DEF Fold
<1>3. at' \in Nat /\ at' = Len(hist'.parts)
  BY <1>1 DEF Fold, Conversation
<1>4. TypeOK'
  BY <1>1, <1>2, <1>3 DEF Fold, TypeOK, scoring, Slots
<1> QED BY <1>2, <1>3, <1>4 DEF Fold, ShapeInv, ShapePart

LEMMA TakeBackShape == ShapeInv /\ TakeBack => ShapeInv'
<1> SUFFICES ASSUME ShapeInv, TakeBack PROVE ShapeInv'
  OBVIOUS
<1>1. TypeOK /\ hist \in Conversation /\ at \in Nat /\ used \in Nat
  BY TypesOf DEF ShapeInv
<1>2. at > 0 /\ at <= Len(hist.parts) /\ hist.parts \in Seq(Nat)
  BY <1>1 DEF TakeBack, ShapeInv, ShapePart, Conversation
<1>3. hist.parts[at] \in Nat
  BY <1>1, <1>2
<1>4. used' \in Nat /\ used' <= MaxState \div 2
  BY <1>1, <1>3 DEF TakeBack, Half
<1>5. at' \in Nat /\ at' <= Len(hist'.parts)
  BY <1>1, <1>2 DEF TakeBack
<1>6. TypeOK'
  BY <1>1, <1>4, <1>5 DEF TakeBack, TypeOK, scoring, Slots
<1> QED BY <1>4, <1>5, <1>6 DEF TakeBack, ShapeInv, ShapePart

LEMMA FoldedShape == ShapeInv /\ Folded => ShapeInv'
<1> SUFFICES ASSUME ShapeInv, Folded PROVE ShapeInv'
  OBVIOUS
<1>1. TypeOK /\ used \in Nat /\ Slots' = Slots /\ Slots \in Nat
  BY TypesOf, Selected DEF ShapeInv, Folded, Slots
<1>2. sel = {} /\ asks = 0 /\ used <= MaxState \div 2
  BY DEF Folded, ShapeInv, ShapePart
<1>3. used <= MaxState
  BY <1>1, <1>2, SizesAssumption
<1>4. TypeOK'
  BY <1>1 DEF Folded, TypeOK, scoring
<1>5. sel' = {} /\ asks' = 0 /\ used' <= MaxState \div 2 /\ at' = 1 /\ used' <= MaxState
  BY <1>2, <1>3 DEF Folded
<1>6. Packed'
  BY <1>1, <1>5 DEF Packed
<1> QED BY <1>4, <1>5, <1>6 DEF Folded, ShapeInv, ShapePart

\* What is admitted fits, and what did not fit before fits even less.
LEMMA AdmitShape == ShapeInv /\ Admit => ShapeInv'
<1> SUFFICES ASSUME ShapeInv, Admit PROVE ShapeInv'
  OBVIOUS
<1> DEFINE c == queue[at]
<1>1. /\ TypeOK /\ used \in Nat /\ asks \in Nat /\ at \in Nat /\ at # 0
      /\ used <= MaxState /\ Packed
  BY TypesOf DEF ShapeInv, ShapePart, Admit
<1>2. /\ Slots \in Nat /\ Slots' = Slots /\ at \in 1..Slots
      /\ \A i \in 1..Slots : queue[i].text \in Nat /\ queue[i].asks \in Nat
  <2>1. /\ Slots \in Nat
        /\ \A i \in 1..Slots : queue[i].text \in Nat /\ queue[i].asks \in Nat
    BY <1>1, Selected
  <2>2. Slots' = Slots
    BY DEF Admit, Slots
  <2>3. at \in 1..Slots
    BY <1>1, <2>1 DEF Admit
  <2> QED BY <2>1, <2>2, <2>3
<1>3. c.text \in Nat /\ c.asks \in Nat
  BY <1>2
<1>4. /\ used' = used + c.text /\ asks' = asks + c.asks /\ at' = at + 1
      /\ sel' = sel \cup {at} /\ queue' = queue /\ folded' = folded
      /\ Room(c)
  BY DEF Admit
<1> HIDE DEF c
<1>5. used' \in Nat /\ asks' \in Nat /\ used' <= MaxState /\ used <= used' /\ asks <= asks'
      /\ Envelope + used' + asks' <= MaxRequest
  BY <1>1, <1>3, <1>4, SizesAssumption DEF Room
<1>6. TypeOK'
  <2>1. sel' \subseteq (1..Slots)'
    BY <1>1, <1>2, <1>4 DEF TypeOK
  <2>2. {used', at', asks'} \subseteq Nat
    BY <1>1, <1>4, <1>5
  <2> QED BY <1>1, <2>1, <2>2 DEF Admit, TypeOK, scoring
<1>7. ASSUME NEW i \in (1..Slots) \ sel', i < at' PROVE ~Room(queue[i])'
  <2>1. i \in (1..Slots) \ sel /\ i # at /\ i < at + 1
    BY <1>4, <1>7
  <2>2. i < at
    BY <1>1, <2>1
  <2>3. ~Room(queue[i])
    BY <1>1, <2>1, <2>2 DEF Packed
  <2>4. queue[i].text \in Nat /\ queue[i].asks \in Nat
    BY <1>2, <2>1
  <2> QED BY <1>1, <1>4, <1>5, <2>3, <2>4, SizesAssumption DEF Room
<1>8. \A i \in sel' : i < at'
  <2>1. \A i \in sel : i < at /\ i \in Nat
    BY <1>1, Selected DEF Packed
  <2> QED BY <1>1, <1>4, <2>1
<1>9. Packed'
  BY <1>2, <1>4, <1>5, <1>7, <1>8 DEF Packed
<1> QED BY <1>1, <1>4, <1>5, <1>6, <1>9 DEF Admit, ShapeInv, ShapePart

LEMMA PassOverShape == ShapeInv /\ PassOver => ShapeInv'
<1> SUFFICES ASSUME ShapeInv, PassOver PROVE ShapeInv'
  OBVIOUS
<1>1. /\ TypeOK /\ at \in Nat /\ at # 0 /\ used <= MaxState /\ Packed
      /\ Slots' = Slots /\ sel \subseteq Nat
  BY TypesOf, Selected DEF ShapeInv, ShapePart, PassOver, Slots
<1>2. at' = at + 1 /\ UNCHANGED <<queue, used, asks, sel, folded>> /\ ~Room(queue[at])
  BY DEF PassOver
<1>3. TypeOK'
  <2>1. {used', at', asks'} \subseteq Nat /\ sel' \subseteq (1..Slots)'
    BY <1>1, <1>2 DEF TypeOK
  <2> QED BY <1>1, <2>1 DEF PassOver, TypeOK, scoring
<1>4. ASSUME NEW i \in (1..Slots) \ sel, i < at + 1 PROVE ~Room(queue[i])'
  <2>1. ~Room(queue[i])
    BY <1>1, <1>2, <1>4 DEF Packed
  <2> QED BY <1>2, <2>1 DEF Room
<1>5. \A i \in sel : i < at + 1
  BY <1>1 DEF Packed
<1>6. Packed'
  BY <1>1, <1>2, <1>4, <1>5 DEF Packed
<1> QED BY <1>1, <1>2, <1>3, <1>6 DEF PassOver, ShapeInv, ShapePart

\* Asking, and giving up, change no size.
LEMMA AskShape == ShapeInv /\ (Ask \/ Nothing \/ Unanswered) => ShapeInv'
<1> SUFFICES ASSUME ShapeInv, Ask \/ Nothing \/ Unanswered PROVE ShapeInv'
  OBVIOUS
<1>1. TypeOK /\ UNCHANGED <<mode, shaping, scoring>> /\ Slots' = Slots
  BY DEF Ask, Nothing, Unanswered, ShapeInv, Slots, shaping
<1>2. TypeOK'
  BY <1>1 DEF Ask, Nothing, Unanswered, TypeOK, scoring, shaping
<1>3. Packed => Packed'
  BY <1>1 DEF Packed, Room, shaping, Slots
<1> QED BY <1>1, <1>2, <1>3
        DEF Ask, Nothing, Unanswered, Shaped, ShapeInv, ShapePart, shaping

-----------------------------------------------------------------------------
(* Scoring.                                                                   *)

\* What the scores of a batch lead to.
LEMMA ScoredParts ==
  ASSUME TypeOK, Scored
  PROVE  /\ samples' \in Seq(Probability) /\ Len(samples') <= Window
         /\ current' = Threshold(samples')
         /\ \E main \in [sel -> Probability] :
               /\ DOMAIN result' = sel
               /\ \A i \in sel :
                     /\ result'[i].score = main[i]
                     /\ result'[i].action = "keep" <=> i \in Retained(main)
<1>1. PICK scores \in [1..Answers -> Probability] :
          /\ samples' = Newest(samples \o scores)
          /\ current' = Threshold(samples')
          /\ result' = [i \in sel |->
                 [score |-> Main(scores)[i],
                  action |-> Decision(i, Main(scores), Call(scores))]]
  BY DEF Scored
<1>2. Answers \in Nat
  <2>1. IsFiniteSet(sel) /\ IsFiniteSet(Tools)
    BY Selected, FS_Subset
  <2> QED BY <2>1, FS_CardinalityType DEF Answers
<1>3. samples \o scores \in Seq(Probability)
  <2>1. scores \in Seq(Probability)
    BY <1>2
  <2> QED BY <2>1 DEF TypeOK
<1>4. samples' \in Seq(Probability) /\ Len(samples') <= Window
  BY <1>1, <1>3, NewestIs
<1>5. Main(scores) \in [sel -> Probability]
  BY ScoresOf
<1>6. ASSUME NEW i \in sel
      PROVE  /\ result'[i].score = Main(scores)[i]
             /\ result'[i].action = "keep" <=> i \in Retained(Main(scores))
  <2>1. result'[i] = [score |-> Main(scores)[i],
                      action |-> Decision(i, Main(scores), Call(scores))]
    BY <1>1
  <2>2. Decision(i, Main(scores), Call(scores)) = "keep" <=> i \in Retained(Main(scores))
    BY DEF Decision
  <2> QED BY <2>1, <2>2
<1>7. DOMAIN result' = sel
  BY <1>1
<1> QED BY <1>1, <1>4, <1>5, <1>6, <1>7

LEMMA ScoredShape == ShapeInv /\ Scored => ShapeInv'
<1> SUFFICES ASSUME ShapeInv, Scored PROVE ShapeInv'
  OBVIOUS
<1>1. TypeOK /\ mode \in Settings
  BY TypesOf DEF ShapeInv
<1>2. /\ samples' \in Seq(Probability) /\ Len(samples') <= Window
      /\ current' = Threshold(samples')
  BY <1>1, ScoredParts
<1>3. current' \in 0..(Unit * Unit)
  BY <1>1, <1>2, ThresholdIs
<1>4. UNCHANGED <<mode, shaping>> /\ Slots' = Slots
  BY DEF Scored, Slots, shaping
<1>5. TypeOK'
  BY <1>1, <1>2, <1>3, <1>4 DEF Scored, TypeOK, shaping
<1> QED BY <1>5 DEF Scored, ShapeInv, ShapePart

LEMMA ShapeStep == ShapeInv /\ [Next]_vars => ShapeInv'
<1> SUFFICES ASSUME ShapeInv, [Next]_vars PROVE ShapeInv'
  OBVIOUS
<1>1. CASE UNCHANGED vars
  <2>1. UNCHANGED <<pc, mode, shaping, scoring>> /\ Slots' = Slots
    BY <1>1 DEF vars, Slots, shaping
  <2>2. Packed => Packed'
    BY <2>1 DEF Packed, Room, shaping
  <2>3. TypeOK'
    BY <2>1 DEF ShapeInv, TypeOK, shaping, scoring
  <2> QED BY <2>1, <2>2, <2>3 DEF ShapeInv, ShapePart, shaping
<1> QED BY <1>1, BeginShape, ShrinkShape, FitsShape, FoldShape, TakeBackShape, FoldedShape,
           AdmitShape, PassOverShape, AskShape, ScoredShape DEF Next

\* The variables stay in their ranges, the threshold among the thresholds and
\* the window within its bound.
THEOREM BatchTypeOK == Spec => []TypeOK
<1>1. ShapeInv => TypeOK
  BY DEF ShapeInv
<1> QED BY <1>1, ShapeInit, ShapeStep, PTL DEF Spec

\* A batch that is sent is within both budgets.
THEOREM BatchWithinBudgets == Spec => []WithinBudgets
<1>1. ShapeInv => WithinBudgets
  BY DEF ShapeInv, ShapePart, Packed, WithinBudgets
<1> QED BY <1>1, ShapeInit, ShapeStep, PTL DEF Spec

\* What the cap lets through and was not admitted does not fit.
THEOREM BatchNothingElseFits == Spec => []NothingElseFits
<1>1. ShapeInv => NothingElseFits
  <2> SUFFICES ASSUME ShapeInv, Shaped \/ pc = "asked", NEW i \in (1..Slots) \ sel
               PROVE  ~Room(queue[i])
    BY DEF NothingElseFits
  <2>1. TypeOK /\ Packed /\ at > Slots /\ at \in Nat
    BY TypesOf DEF ShapeInv, ShapePart, Shaped
  <2>2. Slots \in Nat
    BY <2>1, Selected
  <2>3. i < at
    BY <2>1, <2>2
  <2> QED BY <2>1, <2>3 DEF Packed
<1> QED BY <1>1, ShapeInit, ShapeStep, PTL DEF Spec

\* A folded conversation leaves half of the state to a candidate.
THEOREM BatchFoldMakesRoom == Spec => []FoldMakesRoom
<1>1. ShapeInv => FoldMakesRoom
  <2> SUFFICES ASSUME ShapeInv, Shaped \/ pc = "asked", folded, sel = {},
                      NEW i \in 1..Slots, queue[i].text <= MaxState \div 2
               PROVE  Envelope + (MaxState \div 2) + queue[i].text + queue[i].asks > MaxRequest
    <3>1. TypeOK => \A i \in 1..Slots : queue[i].text \in Nat
      BY Selected
    <3>2. ShapeInv => \A i \in 1..Slots : queue[i].text \in Nat
      BY <3>1 DEF ShapeInv
    <3>3. MaxState \div 2 \in Nat
      BY SizesAssumption
    <3> QED BY <3>2, <3>3 DEF FoldMakesRoom
  <2>1. /\ TypeOK /\ Packed /\ at > Slots /\ at \in Nat /\ used \in Nat
        /\ asks = 0 /\ used <= MaxState \div 2
    BY TypesOf DEF ShapeInv, ShapePart, Shaped, Packed
  <2>2. Slots \in Nat /\ queue[i].text \in Nat /\ queue[i].asks \in Nat
    BY <2>1, Selected
  <2>3. ~Room(queue[i])
    BY <2>1, <2>2 DEF Packed
  <2> DEFINE half == MaxState \div 2
  <2>4. half \in Nat /\ half + half <= MaxState
    BY SizesAssumption
  <2> QED BY <2>1, <2>2, <2>3, <2>4, SizesAssumption DEF Room
<1> QED BY <1>1, ShapeInit, ShapeStep, PTL DEF Spec

-----------------------------------------------------------------------------
(* The last batch and the window.                                             *)

ScoreInv == ShapeInv /\ MinimumKept /\ BestKept /\ ThresholdFollows

\* No batch, no result.
LEMMA NoneKept ==
  ASSUME TypeOK, result = <<>>
  PROVE  MinimumKept /\ BestKept
<1>1. DOMAIN result = {} /\ KeptOf = {}
  BY DEF KeptOf
<1>2. Cardinality({}) = 0
  BY FS_EmptySet
<1>3. mode.rate \in Nat
  BY TypesOf, ScoresAssumption DEF Probability
<1>4. Up(0 * mode.rate) = 0
  <2>1. 0 \in 0..(Unit - 1) /\ Unit * 0 + 0 = 0 /\ 0 * mode.rate = 0
    BY <1>3, ScoresAssumption
  <2>2. Up(Unit * 0 + 0) = 0
    BY <2>1, UpOf
  <2> QED BY <2>1, <2>2
<1>5. MinimumKept
  BY <1>1, <1>2, <1>4 DEF MinimumKept
<1> QED BY <1>1, <1>5 DEF BestKept

LEMMA ScoreInit == Init => ScoreInv
<1> SUFFICES ASSUME Init PROVE ScoreInv
  OBVIOUS
<1>1. ShapeInv /\ TypeOK
  BY ShapeInit DEF ShapeInv
<1>2. MinimumKept /\ BestKept
  BY <1>1, NoneKept DEF Init
<1>3. ThresholdFollows
  <2>1. Len(samples) = 0 /\ Minimum \in Nat \ {0}
    BY ScoresAssumption DEF Init
  <2> QED BY <2>1 DEF ThresholdFollows
<1> QED BY <1>1, <1>2, <1>3 DEF ScoreInv

\* What is above the threshold and what is among the best, together: a better
\* score is in as well, and they are as many as the share says.
LEMMA RetainedBest ==
  ASSUME TypeOK, current' \in 0..(Unit * Unit), NEW main \in [sel -> Probability]
  PROVE  /\ \A i \in Retained(main), j \in sel : main[j] > main[i] => j \in Retained(main)
         /\ Retained(main) \subseteq sel
         /\ Quota <= Cardinality(Retained(main))
<1>1. \A i \in sel : main[i] \in Nat
  BY ScoresAssumption DEF Probability
<1>2. Unit \in Nat /\ current' \in Int
  BY ScoresAssumption
<1>3. ASSUME NEW i \in Retained(main), NEW j \in sel, main[j] > main[i]
      PROVE  j \in Retained(main)
  <2>1. CASE i \in Best(main)
    <3>1. j \in Best(main)
      BY <1>3, <2>1, BestFirst
    <3> QED BY <3>1 DEF Retained
  <2>2. CASE i \in sel /\ Above(main[i])
    <3> DEFINE a == main[i]
               b == main[j]
    <3>1. a \in Nat /\ b \in Nat /\ a <= b /\ a * Unit >= current'
      BY <1>1, <1>3, <2>2 DEF Above
    <3> HIDE DEF a, b
    <3>2. a * Unit \in Nat /\ b * Unit \in Nat /\ a * Unit <= b * Unit
      BY <1>2, <3>1, Products
    <3>3. b * Unit >= current'
      BY <1>2, <3>1, <3>2
    <3> QED BY <3>3 DEF b, Above, Retained
  <2> QED BY <1>3, <2>1, <2>2 DEF Retained
<1>4. Retained(main) \subseteq sel /\ Best(main) \subseteq Retained(main)
  BY DEF Retained, Best
<1>5. IsFiniteSet(Retained(main))
  BY <1>4, Selected, FS_Subset
<1>6. /\ Cardinality(Retained(main)) \in Nat
      /\ Cardinality(Best(main)) <= Cardinality(Retained(main))
  BY <1>4, <1>5, FS_Subset, FS_CardinalityType
<1>7. /\ Quota \in Nat /\ Cardinality(Best(main)) \in Nat
      /\ Quota <= Cardinality(Best(main))
  BY BestEnough
<1>8. Quota <= Cardinality(Retained(main))
  BY <1>6, <1>7
<1> QED BY <1>3, <1>4, <1>8

LEMMA ScoreStep == ScoreInv /\ [Next]_vars => ScoreInv'
<1> SUFFICES ASSUME ScoreInv, [Next]_vars PROVE ScoreInv'
  OBVIOUS
<1>1. /\ ShapeInv /\ TypeOK /\ ShapeInv' /\ TypeOK'
      /\ MinimumKept /\ BestKept /\ ThresholdFollows
  BY ShapeStep DEF ScoreInv, ShapeInv
<1>2. CASE UNCHANGED <<mode, scoring>>
  <2>1. UNCHANGED <<mode, samples, current, result>>
    BY <1>2 DEF scoring
  <2>2. MinimumKept'
    BY <1>1, <2>1 DEF MinimumKept, KeptOf
  <2>3. BestKept'
    BY <1>1, <2>1 DEF BestKept, KeptOf
  <2>4. ThresholdFollows'
    BY <1>1, <2>1 DEF ThresholdFollows, Below
  <2> QED BY <1>1, <2>2, <2>3, <2>4 DEF ScoreInv
<1>3. CASE Begin
  <2>1. UNCHANGED <<mode, samples, current>> /\ result' = <<>>
    BY <1>3 DEF Begin
  <2>2. (TypeOK /\ result = <<>> => MinimumKept /\ BestKept)'
    BY NoneKept, PTL
  <2>3. ThresholdFollows'
    BY <1>1, <2>1 DEF ThresholdFollows, Below
  <2> QED BY <1>1, <2>1, <2>2, <2>3 DEF ScoreInv
<1>4. CASE Scored
  <2>1. /\ samples' \in Seq(Probability) /\ Len(samples') <= Window
        /\ current' = Threshold(samples')
    BY <1>1, <1>4, ScoredParts
  <2>2. PICK main \in [sel -> Probability] :
            /\ DOMAIN result' = sel
            /\ \A i \in sel :
                  /\ result'[i].score = main[i]
                  /\ result'[i].action = "keep" <=> i \in Retained(main)
    BY <1>1, <1>4, ScoredParts
  <2>3. mode' = mode /\ mode \in Settings
    BY <1>1, <1>4, TypesOf DEF Scored
  <2>4. /\ current' \in 0..(Unit * Unit)
        /\ mode.enabled /\ Len(samples') >= Minimum =>
             Cardinality({i \in DOMAIN samples' : samples'[i] * Unit < Threshold(samples')})
               <= Up((Len(samples') - 1) * mode.rate)
    BY <2>1, <2>3, ThresholdIs
  <2>5. ThresholdFollows'
    BY <2>1, <2>3, <2>4 DEF ThresholdFollows, Below, Up
  <2>6. /\ \A i \in Retained(main), j \in sel : main[j] > main[i] => j \in Retained(main)
        /\ Retained(main) \subseteq sel
        /\ Quota <= Cardinality(Retained(main))
    BY <1>1, <2>4, RetainedBest
  <2>7. KeptOf' = Retained(main)
    <3>1. KeptOf' = {i \in sel : i \in Retained(main)}
      BY <2>2 DEF KeptOf
    <3> QED BY <2>6, <3>1
  <2>8. MinimumKept'
    BY <2>2, <2>3, <2>6, <2>7 DEF MinimumKept, Quota, Up
  <2>9. BestKept'
    BY <2>2, <2>6, <2>7 DEF BestKept
  <2> QED BY <1>1, <2>5, <2>8, <2>9 DEF ScoreInv
<1>5. [Next]_vars => UNCHANGED <<mode, scoring>> \/ Begin \/ Scored
  BY DEF Next, vars, shaping, scoring, Shrink, Fits, Fold, TakeBack, Folded, Admit, PassOver,
         Nothing, Ask, Unanswered
<1> QED BY <1>2, <1>3, <1>4, <1>5

\* A batch keeps its share of the best.
THEOREM BatchMinimumKept == Spec => []MinimumKept
<1>1. ScoreInv => MinimumKept
  BY DEF ScoreInv
<1> QED BY <1>1, ScoreInit, ScoreStep, PTL DEF Spec

\* What is better than something kept is kept.
THEOREM BatchBestKept == Spec => []BestKept
<1>1. ScoreInv => BestKept
  BY DEF ScoreInv
<1> QED BY <1>1, ScoreInit, ScoreStep, PTL DEF Spec

\* No more of the window is below the threshold than the share, rounded up.
THEOREM BatchThresholdFollows == Spec => []ThresholdFollows
<1>1. ScoreInv => ThresholdFollows
  BY DEF ScoreInv
<1> QED BY <1>1, ScoreInit, ScoreStep, PTL DEF Spec

=============================================================================
