------------------------- MODULE ModeRoutingProofs -------------------------
(***************************************************************************)
(* Theorems about ModeRouting, for any fallback orders and written pins.   *)
(***************************************************************************)
EXTENDS ModeRouting, WellFoundedInduction, FiniteSetTheorems, SequenceTheorems, TLAPS

-----------------------------------------------------------------------------
(* The members of an order that have a key.                                *)

\* A set with 0 and the successor of each number in it holds every number.
LEMMA Successors ==
  ASSUME NEW S, 0 \in S, \A n \in Nat : n \in S => n + 1 \in S
  PROVE  Nat \subseteq S
<1> DEFINE T == Nat \ S
<1> SUFFICES ASSUME T # {} PROVE FALSE
  OBVIOUS
<1>1. T \subseteq Nat
  OBVIOUS
<1>2. PICK x \in T : \A y \in T : <<y, x>> \notin OpToRel(<, Nat)
  <2> HIDE DEF T
  <2> QED BY <1>1, NatLessThanWellFounded, WFMin, Zenon
<1>3. x \in Nat /\ x # 0 /\ x - 1 \in Nat /\ x - 1 < x
  OBVIOUS
<1>4. x - 1 \notin T
  <2>1. x - 1 < x => <<x - 1, x>> \in OpToRel(<, Nat)
    <3>1. <<x - 1, x>> \in Nat \X Nat
      BY <1>3
    <3>2. x - 1 < x => <<x - 1, x>>[1] < <<x - 1, x>>[2]
      OBVIOUS
    <3> QED BY <3>1, <3>2, Zenon DEF OpToRel
  <2> QED BY <1>2, <1>3, <2>1, Zenon
<1>5. x - 1 \in S
  BY <1>3, <1>4
<1> QED BY <1>3, <1>5

\* g runs the loop of Keyed over the first n positions of f.
Loop(f, K, n, g) ==
    g = [i \in 0..n |-> IF i = 0 THEN << >>
                        ELSE IF f[i] \in K THEN Append(g[i - 1], f[i])
                        ELSE g[i - 1]]

\* The loop over an order has a value at each of its positions.
LEMMA LoopExists ==
  ASSUME NEW f, NEW K, NEW n \in Nat
  PROVE  \E g : Loop(f, K, n, g)
<1> DEFINE S == {m \in Nat : \E g : Loop(f, K, m, g)}
<1>1. 0 \in S
  <2> DEFINE g == [i \in 0..0 |-> << >>]
  <2>1. Loop(f, K, 0, g)
    BY DEF Loop
  <2> HIDE DEF g
  <2> QED BY <2>1
<1>2. ASSUME NEW m \in Nat, m \in S PROVE m + 1 \in S
  <2>1. PICK g : Loop(f, K, m, g)
    BY <1>2
  <2> DEFINE h == [i \in 0..(m + 1) |-> IF i <= m THEN g[i]
                                        ELSE IF f[i] \in K THEN Append(g[i - 1], f[i])
                                        ELSE g[i - 1]]
  <2>2. ASSUME NEW i \in 0..(m + 1)
        PROVE  h[i] = IF i = 0 THEN << >>
                      ELSE IF f[i] \in K THEN Append(h[i - 1], f[i]) ELSE h[i - 1]
    <3>1. i = 0 \/ (i - 1 \in 0..m /\ h[i - 1] = g[i - 1])
      OBVIOUS
    <3>2. i \in 0..m => g[i] = IF i = 0 THEN << >>
                               ELSE IF f[i] \in K THEN Append(g[i - 1], f[i]) ELSE g[i - 1]
      BY <2>1 DEF Loop
    <3>3. CASE i <= m
      <4>1. h[i] = g[i] /\ i \in 0..m
        BY <3>3
      <4> HIDE DEF h
      <4> QED BY <3>1, <3>2, <4>1
    <3>4. CASE i = m + 1
      <4>1. h[i] = IF f[i] \in K THEN Append(g[i - 1], f[i]) ELSE g[i - 1]
        BY <3>4
      <4>2. i # 0
        BY <3>4
      <4> HIDE DEF h
      <4> QED BY <3>1, <4>1, <4>2
    <3> QED BY <3>3, <3>4
  <2>3. Loop(f, K, m + 1, h)
    <3>1. h = [i \in 0..(m + 1) |-> h[i]]
      OBVIOUS
    <3> HIDE DEF h
    <3> QED BY <2>2, <3>1 DEF Loop
  <2> HIDE DEF h
  <2> QED BY <2>3
<1> HIDE DEF S
<1>3. n \in S
  BY <1>1, <1>2, Successors
<1> QED BY <1>3 DEF S

\* Two members of a list without repetition are at the same place.
Distinct(f) == \A i, j \in DOMAIN f : f[i] = f[j] => i = j

\* What has a key is in the order of the settings, and nothing twice.
LEMMA KeyedIs ==
  ASSUME settings.order \in Seq(Hosted), Distinct(settings.order)
  PROVE  /\ Keyed \in Seq(Hosted \cap env.keys)
         /\ Distinct(Keyed)
         /\ \A a \in DOMAIN Keyed : Keyed[a] \in Listed
<1> DEFINE f == settings.order
           n == Len(f)
           K == env.keys
           A == Hosted \cap K
           g == CHOOSE h : Loop(f, K, n, h)
<1>1. Keyed = g[n]
  BY Zenon DEF Keyed, Loop
<1>2. n \in Nat /\ DOMAIN f = 1..n /\ \A i \in 1..n : f[i] \in Hosted
  BY LenProperties, ElementOfSeq
<1>3. \A i \in 0..n : g[i] = IF i = 0 THEN << >>
                             ELSE IF f[i] \in K THEN Append(g[i - 1], f[i])
                             ELSE g[i - 1]
  <2>1. n \in Nat
    BY <1>2
  <2> HIDE DEF n, f, K, g
  <2>2. g = CHOOSE h : Loop(f, K, n, h)
    BY DEF g
  <2>3. \E h : Loop(f, K, n, h)
    BY <2>1, LoopExists, Zenon
  <2>4. Loop(f, K, n, g)
    BY <2>2, <2>3, Zenon
  <2> QED BY <2>4, Zenon DEF Loop
<1> HIDE DEF g
<1> DEFINE Good(i) == /\ g[i] \in Seq(A)
                      /\ Distinct(g[i])
                      /\ \A a \in DOMAIN g[i] : \E j \in 1..i : g[i][a] = f[j]
           S == {i \in Nat : i <= n => Good(i)}
<1>4. 0 \in S
  <2>1. g[0] = << >>
    BY <1>2, <1>3
  <2>2. Good(0)
    BY <2>1 DEF Distinct
  <2> QED BY <2>2
<1>5. ASSUME NEW i \in Nat, i \in S PROVE i + 1 \in S
  <2> SUFFICES ASSUME i + 1 <= n PROVE Good(i + 1)
    OBVIOUS
  <2>1. Good(i) /\ i + 1 \in 1..n /\ 1..i \subseteq 1..(i + 1)
    BY <1>2, <1>5
  <2>2. g[i + 1] = IF f[i + 1] \in K THEN Append(g[i], f[i + 1]) ELSE g[i]
    BY <1>2, <1>3, <2>1
  <2>3. CASE f[i + 1] \notin K
    BY <2>1, <2>2, <2>3
  <2>4. CASE f[i + 1] \in K
    <3> DEFINE s == g[i]
               e == f[i + 1]
               t == Append(s, e)
    <3>1. s \in Seq(A) /\ e \in A /\ Len(s) \in Nat /\ DOMAIN s = 1..Len(s)
      BY <1>2, <2>1, <2>4, LenProperties
    <3>2. \A a \in DOMAIN s : s[a] # e
      <4> SUFFICES ASSUME NEW a \in DOMAIN s, s[a] = e PROVE FALSE
        OBVIOUS
      <4>1. PICK j \in 1..i : s[a] = f[j]
        BY <2>1
      <4>2. j \in DOMAIN f /\ i + 1 \in DOMAIN f /\ j # i + 1
        BY <1>2, <2>1
      <4> QED BY <4>1, <4>2 DEF Distinct
    <3> HIDE DEF s, e
    <3>3. /\ t \in Seq(A) /\ Len(t) = Len(s) + 1 /\ DOMAIN t = 1..(Len(s) + 1)
          /\ \A a \in 1..Len(s) : t[a] = s[a]
          /\ t[Len(s) + 1] = e
      BY <3>1, AppendProperties, LenProperties
    <3> HIDE DEF t
    <3>4. ASSUME NEW a \in DOMAIN t 
          PROVE  (a \in DOMAIN s /\ t[a] = s[a]) \/ (a = Len(s) + 1 /\ t[a] = e)
      BY <3>1, <3>3
    <3>5. Distinct(t)
      BY <2>1, <3>2, <3>4 DEF Distinct, s
    <3>6. \A a \in DOMAIN t : \E j \in 1..(i + 1) : t[a] = f[j]
      <4> SUFFICES ASSUME NEW a \in DOMAIN t PROVE \E j \in 1..(i + 1) : t[a] = f[j]
        OBVIOUS
      <4>1. CASE a \in DOMAIN s /\ t[a] = s[a]
        <5>1. PICK j \in 1..i : s[a] = f[j]
          BY <2>1, <4>1 DEF s
        <5> QED BY <2>1, <4>1, <5>1
      <4>2. CASE t[a] = e
        BY <1>2, <2>1, <4>2 DEF e
      <4> QED BY <3>4, <4>1, <4>2
    <3> QED BY <2>2, <2>4, <3>3, <3>5, <3>6 DEF s, e, t
  <2> QED BY <2>3, <2>4
<1> HIDE DEF Good
<1>6. n \in S
  <2> HIDE DEF S
  <2> QED BY <1>2, <1>4, <1>5, Successors
<1>7. Good(n)
  BY <1>2, <1>6
<1>8. \A a \in DOMAIN g[n] : g[n][a] \in Listed
  BY <1>2, <1>7 DEF Good, Listed
<1> QED BY <1>1, <1>7, <1>8 DEF Good

-----------------------------------------------------------------------------
(* The order of a chain that the constructor accepts.                      *)

Configured == [mode : Modes, pin : Hosted \cup {None},
               order : FallbackOrders, enabled : BOOLEAN]

\* Pigeonhole: a list without repetition over three providers has at most three.
LEMMA AtMostThree ==
  ASSUME NEW f, f \in Seq(Hosted), Distinct(f)
  PROVE  Len(f) \in 0..3
<1>1. Len(f) \in Nat /\ f \in [1..Len(f) -> Hosted]
  BY LenProperties
<1>2. IsFiniteSet(Hosted) /\ Cardinality(Hosted) = 3
  <2>1. IsFiniteSet(({Typesafe} \cup {Openrouter}) \cup {Clef})
    BY FS_Singleton, FS_AddElement
  <2>2. ({Typesafe} \cup {Openrouter}) \cup {Clef} = {Typesafe, Openrouter, Clef}
    OBVIOUS
  <2> QED BY <2>1, <2>2, HostedAssumption
<1>3. f \in Injection(1..Len(f), Hosted)
  BY <1>1 DEF Injection, IsInjective, Distinct
<1>4. Cardinality(1..Len(f)) <= Cardinality(Hosted)
  BY <1>2, <1>3, FS_Injection
<1>5. Cardinality(1..Len(f)) = Len(f)
  BY <1>1, FS_Interval
<1> QED BY <1>1, <1>2, <1>4, <1>5

\* What the whole order of a mode is, before a chain without fallback is cut.
Full(o, mode, pin, e) ==
    /\ o \in Orders
    /\ \A i \in DOMAIN o : IF o[i] = Laya THEN i \in {1, Len(o)} ELSE o[i] \in e.keys
    /\ mode = "local_only" => o = <<Laya>>
    /\ mode = "api_only" => \A i \in DOMAIN o : o[i] # Laya
    /\ mode = "local_with_api_fallback" => o[1] = Laya /\ \E i \in DOMAIN o : o[i] \in Hosted
    /\ mode = "api_with_local_fallback" => o[1] # Laya /\ \E i \in DOMAIN o : o[i] = Laya
    /\ (mode # "api_only" \/ pin # None) => o # << >>
    /\ mode = "api_only" /\ pin # None =>
          o = <<pin>> /\ pin \in e.keys /\ (pin = Clef => e.account)
    /\ (mode # "api_only" \/ pin = None) =>
          \A i \in DOMAIN o : o[i] # Laya => o[i] \in Listed

\* A list of at most four providers without repetition is an order.
LEMMA IsOrder ==
  ASSUME NEW n \in 0..4, NEW o \in [1..n -> Hosted \cup {Laya}],
         \A i, j \in 1..n : o[i] = o[j] => i = j
  PROVE  o \in Orders /\ DOMAIN o = 1..n /\ Len(o) = n /\ (o = << >> <=> n = 0)
<1>1. DOMAIN o = 1..n /\ o \in Seq(Hosted \cup {Laya})
  BY IsASeq
<1>2. Len(o) = n
  BY <1>1, LenProperties
<1>3. o \in Orders
  BY <1>1 DEF Orders
<1>4. o = << >> <=> n = 0
  BY <1>1, <1>2, EmptySeq
<1> QED BY <1>1, <1>2, <1>3, <1>4

LEMMA FullIs ==
  ASSUME settings \in Configured, env \in Environments, ~Rejected
  PROVE  Full(FullOrder, settings.mode, settings.pin, env)
<1> DEFINE k == Keyed
           n == Len(Keyed)
           m == settings.mode
           p == settings.pin
<1>1. settings.order \in Seq(Hosted) /\ Distinct(settings.order)
  BY FallbackAssumption DEF Configured, Distinct
<1>2. /\ k \in Seq(Hosted \cap env.keys) /\ Distinct(k)
      /\ \A i \in DOMAIN k : k[i] \in Listed
  BY <1>1, KeyedIs, Zenon
<1>3. n \in 0..3 /\ DOMAIN k = 1..n /\ k \in [1..n -> Hosted]
  <2>1. k \in Seq(Hosted)
    BY <1>2
  <2> QED BY <1>2, <2>1, AtMostThree, LenProperties
<1>4. /\ \A i \in 1..n : k[i] \in Hosted /\ k[i] \in env.keys /\ k[i] # Laya
      /\ \A i \in 1..n : k[i] \in Listed
  <2>1. k \in [1..n -> Hosted \cap env.keys]
    BY <1>2, LenProperties
  <2> HIDE DEF k, n
  <2> QED BY <1>2, <1>3, <2>1, HostedAssumption
<1>5. \A i, j \in 1..n : k[i] = k[j] => i = j
  <2> HIDE DEF k, n
  <2> QED BY <1>2, <1>3 DEF Distinct
<1>6. k \in Orders /\ (k = << >> <=> n = 0)
  <2> HIDE DEF k, n
  <2>1. n \in 0..4 /\ k \in [1..n -> Hosted \cup {Laya}]
    BY <1>3
  <2> QED BY <1>5, <2>1, IsOrder
<1>m. m \in Modes /\ p \in Hosted \cup {None}
  BY DEF Configured
<1>r. /\ m = "local_with_api_fallback" => k # << >>
      /\ m = "api_with_local_fallback" => k # << >>
      /\ m = "api_only" /\ p # None =>
            p \in env.keys /\ (p = Clef => env.account)
  BY DEF Rejected, HasRoute
<1> HIDE DEF k, n
<1>7. CASE m = "local_only"
  <2>1. <<Laya>> \in Orders
    <3>1. <<Laya>> \in [1..1 -> Hosted \cup {Laya}]
      OBVIOUS
    <3> QED BY <3>1, IsOrder
  <2>2. FullOrder = <<Laya>>
    BY <1>7 DEF FullOrder
  <2> QED BY <1>7, <2>1, <2>2 DEF Full
<1>8. CASE m = "local_with_api_fallback"
  <2> DEFINE o == <<Laya>> \o k
  <2>1. FullOrder = o
    BY <1>8 DEF FullOrder, k
  <2>2. o \in [1..(n + 1) -> Hosted \cup {Laya}] /\ o[1] = Laya
        /\ \A i \in 2..(n + 1) : o[i] = k[i - 1]
    <3>1. k \in Seq(Hosted \cup {Laya}) /\ Len(k) = n
      BY <1>2 DEF n, k
    <3>2. <<Laya>> \in Seq(Hosted \cup {Laya}) /\ Len(<<Laya>>) = 1
      OBVIOUS
    <3>3. o \in Seq(Hosted \cup {Laya}) /\ Len(o) = n + 1
      BY <1>3, <3>1, <3>2, ConcatProperties
    <3>4. o \in [1..(n + 1) -> Hosted \cup {Laya}]
      BY <3>3, LenProperties, Zenon
    <3>5. \A i \in 1..(Len(<<Laya>>) + Len(k)) :
             o[i] = IF i <= Len(<<Laya>>) THEN <<Laya>>[i] ELSE k[i - Len(<<Laya>>)]
      BY <3>1, <3>2, ConcatProperties
    <3> HIDE DEF o
    <3> QED BY <1>3, <3>1, <3>2, <3>4, <3>5
  <2> HIDE DEF o
  <2>3. \A i \in 2..(n + 1) : /\ o[i] \in Hosted /\ o[i] \in env.keys
                              /\ o[i] # Laya /\ o[i] \in Listed
    BY <1>3, <1>4, <2>2
  <2>4. \A i, j \in 1..(n + 1) : o[i] = o[j] => i = j
    <3> SUFFICES ASSUME NEW i \in 1..(n + 1), NEW j \in 1..(n + 1), o[i] = o[j]
                 PROVE  i = j
      OBVIOUS
    <3>1. i = 1 \/ i \in 2..(n + 1)
      BY <1>3
    <3>2. j = 1 \/ j \in 2..(n + 1)
      BY <1>3
    <3>3. CASE i = 1 \/ j = 1
      BY <2>2, <2>3, <3>1, <3>2, <3>3
    <3>4. CASE i \in 2..(n + 1) /\ j \in 2..(n + 1)
      <4>1. i - 1 \in 1..n /\ j - 1 \in 1..n /\ k[i - 1] = k[j - 1]
        BY <1>3, <2>2, <3>4
      <4>2. i - 1 = j - 1
        BY <1>5, <4>1
      <4> QED BY <1>3, <4>2
    <3> QED BY <3>1, <3>2, <3>3, <3>4
  <2>5. n + 1 \in 0..4 /\ n + 1 # 0 /\ 2 \in 2..(n + 1)
    BY <1>3, <1>6, <1>8, <1>r
  <2>6. o \in Orders /\ DOMAIN o = 1..(n + 1) /\ o # << >>
    BY <2>2, <2>4, <2>5, IsOrder
  <2>7. \A i \in DOMAIN o : IF o[i] = Laya THEN i \in {1, Len(o)}
                            ELSE o[i] \in env.keys /\ o[i] \in Listed
    BY <1>3, <2>2, <2>3, <2>6
  <2>8. o[2] \in Hosted /\ 2 \in DOMAIN o
    BY <2>3, <2>5, <2>6
  <2> QED BY <1>8, <2>1, <2>2, <2>6, <2>7, <2>8 DEF Full
<1>9. CASE m = "api_with_local_fallback"
  <2> DEFINE o == k \o <<Laya>>
  <2>1. FullOrder = o
    BY <1>9 DEF FullOrder, k
  <2>2. o \in [1..(n + 1) -> Hosted \cup {Laya}] /\ o[n + 1] = Laya
        /\ \A i \in 1..n : o[i] = k[i]
    <3>1. k \in Seq(Hosted \cup {Laya}) /\ Len(k) = n
      BY <1>2 DEF n, k
    <3>2. <<Laya>> \in Seq(Hosted \cup {Laya}) /\ Len(<<Laya>>) = 1
      OBVIOUS
    <3>3. o \in Seq(Hosted \cup {Laya}) /\ Len(o) = n + 1
      BY <1>3, <3>1, <3>2, ConcatProperties
    <3>4. o \in [1..(n + 1) -> Hosted \cup {Laya}]
      BY <3>3, LenProperties, Zenon
    <3>5. \A i \in 1..(Len(k) + Len(<<Laya>>)) :
             o[i] = IF i <= Len(k) THEN k[i] ELSE <<Laya>>[i - Len(k)]
      BY <3>1, <3>2, ConcatProperties
    <3> HIDE DEF o
    <3> QED BY <1>3, <3>1, <3>2, <3>4, <3>5
  <2> HIDE DEF o
  <2>3. \A i \in 1..n : /\ o[i] \in Hosted /\ o[i] \in env.keys
                        /\ o[i] # Laya /\ o[i] \in Listed
    BY <1>3, <1>4, <2>2
  <2>4. \A i, j \in 1..(n + 1) : o[i] = o[j] => i = j
    <3> SUFFICES ASSUME NEW i \in 1..(n + 1), NEW j \in 1..(n + 1), o[i] = o[j]
                 PROVE  i = j
      OBVIOUS
    <3>1. i = n + 1 \/ i \in 1..n
      BY <1>3
    <3>2. j = n + 1 \/ j \in 1..n
      BY <1>3
    <3>3. CASE i = n + 1 \/ j = n + 1
      BY <2>2, <2>3, <3>1, <3>2, <3>3
    <3>4. CASE i \in 1..n /\ j \in 1..n
      BY <1>5, <2>2, <3>4
    <3> QED BY <3>1, <3>2, <3>3, <3>4
  <2>5. n + 1 \in 0..4 /\ n + 1 # 0 /\ 1 \in 1..n /\ n + 1 \in 1..(n + 1)
    BY <1>3, <1>6, <1>9, <1>r
  <2>6. o \in Orders /\ DOMAIN o = 1..(n + 1) /\ Len(o) = n + 1 /\ o # << >>
    BY <2>2, <2>4, <2>5, IsOrder
  <2>7. \A i \in DOMAIN o : IF o[i] = Laya THEN i \in {1, Len(o)}
                            ELSE o[i] \in env.keys /\ o[i] \in Listed
    BY <1>3, <2>2, <2>3, <2>6
  <2>8. o[1] # Laya /\ n + 1 \in DOMAIN o
    BY <2>3, <2>5, <2>6
  <2> QED BY <1>9, <2>1, <2>2, <2>6, <2>7, <2>8 DEF Full
<1>10. CASE m = "api_only" /\ p # None
  <2>1. FullOrder = <<p>>
    BY <1>10 DEF FullOrder
  <2>2. p \in Hosted /\ p \in env.keys /\ p # Laya
    BY <1>10, <1>m, <1>r, HostedAssumption
  <2>3. <<p>> \in Orders
    <3>1. <<p>> \in [1..1 -> Hosted \cup {Laya}]
      BY <2>2
    <3> QED BY <3>1, IsOrder
  <2> QED BY <1>10, <1>r, <2>1, <2>2, <2>3 DEF Full
<1>11. CASE m = "api_only" /\ p = None
  <2>1. FullOrder = k
    BY <1>11 DEF FullOrder, k
  <2> QED BY <1>3, <1>4, <1>6, <1>11, <2>1 DEF Full
<1> QED BY <1>7, <1>8, <1>9, <1>10, <1>11, <1>m DEF Modes

-----------------------------------------------------------------------------
(* The invariant.                                                          *)

\* A process without settings has no chain.
NoneYet == settings = None => chain = None

Inv == TypeOK /\ NoneYet /\ OrderSound /\ ModeDecides

\* Members of Orders are lists of at most four.
LEMMA OrderIs ==
  ASSUME NEW o \in Orders
  PROVE  \E n \in 0..4 : /\ o \in [1..n -> Hosted \cup {Laya}] /\ DOMAIN o = 1..n /\ Len(o) = n
                         /\ (o = << >> <=> n = 0)
                         /\ \A i, j \in 1..n : o[i] = o[j] => i = j
<1>1. PICK n \in 0..4 : o \in [1..n -> Hosted \cup {Laya}]
  BY Zenon DEF Orders
<1>2. \A i, j \in 1..n : o[i] = o[j] => i = j
  BY <1>1 DEF Orders
<1> QED BY <1>1, <1>2, IsOrder

\* A chain that is built, the first or a later one, has all the parts.
LEMMA BuiltStep ==
  ASSUME settings \in Configured, env \in Environments, ~Rejected,
         chain' = Built, settings' = settings, env' = env
  PROVE  TypeOK' /\ OrderSound' /\ ModeDecides'
<1> DEFINE o == FullOrder
           c == Truncated(FullOrder)
<1>1. Full(o, settings.mode, settings.pin, env)
  BY FullIs
<1>2. chain'.order = c /\ chain'.env = env
  BY DEF Built
<1>3. c = IF settings.enabled \/ o = << >> THEN o ELSE <<o[1]>>
  BY DEF Truncated
<1>m. settings.mode \in Modes /\ settings.enabled \in BOOLEAN
  BY DEF Configured
<1> HIDE DEF o, c
<1>4. PICK n \in 0..4 : /\ o \in [1..n -> Hosted \cup {Laya}] /\ DOMAIN o = 1..n /\ Len(o) = n
                       /\ (o = << >> <=> n = 0)
                       /\ \A i, j \in 1..n : o[i] = o[j] => i = j
  BY <1>1, OrderIs DEF Full
<1>5. CASE settings.enabled \/ o = << >>
  <2>1. c = o
    BY <1>3, <1>5
  <2>2. TypeOK'
    BY <1>1, <1>2, <2>1 DEF TypeOK, Full, Configured
  <2>3. OrderSound'
    BY <1>1, <1>2, <1>4, <2>1 DEF OrderSound, Full
  <2>4. ModeDecides'
    <3>1. Members' = {o[i] : i \in 1..n}
      BY <1>2, <1>4, <2>1 DEF Members
    <3>2. settings.mode # "api_only" => settings.enabled
      BY <1>1, <1>5 DEF Full
    <3>3. settings.mode = "local_only" => Members' = {Laya}
      <4> SUFFICES ASSUME settings.mode = "local_only" PROVE Members' = {Laya}
        OBVIOUS
      <4>1. o = <<Laya>>
        BY <1>1 DEF Full
      <4> QED BY <1>2, <2>1, <4>1 DEF Members
    <3>4. settings.mode = "api_only" => Laya \notin Members'
      BY <1>1, <1>4, <3>1 DEF Full
    <3>5. settings.mode = "local_with_api_fallback" =>
             o[1] = Laya /\ Members' \cap Hosted # {}
      BY <1>1, <1>4, <3>1 DEF Full
    <3>6. settings.mode = "api_with_local_fallback" => o[1] # Laya /\ Laya \in Members'
      BY <1>1, <1>4, <3>1 DEF Full
    <3>7. o = << >> => settings.mode = "api_only" /\ settings.pin = None
      BY <1>1 DEF Full
    <3>8. settings.mode = "api_only" /\ settings.pin # None =>
             /\ o = <<settings.pin>> /\ settings.pin \in env.keys
             /\ settings.pin = Clef => env.account
      BY <1>1 DEF Full
    <3>9. settings.mode # "api_only" \/ settings.pin = None =>
             Members' \ {Laya} \subseteq Listed
      BY <1>1, <1>4, <3>1 DEF Full
    <3>10. Listed' = Listed
      BY DEF Listed
    <3> QED BY <1>2, <1>m, <2>1, <3>2, <3>3, <3>4, <3>5, <3>6, <3>7, <3>8, <3>9, <3>10
            DEF ModeDecides
  <2> QED BY <2>2, <2>3, <2>4
<1>6. CASE ~settings.enabled /\ o # << >>
  <2>1. c = <<o[1]>>
    BY <1>3, <1>6
  <2>2. 1 \in 1..n /\ o[1] \in Hosted \cup {Laya}
    BY <1>4, <1>6
  <2>3. c \in Orders /\ DOMAIN c = 1..1 /\ Len(c) = 1 /\ c # << >> /\ c[1] = o[1]
    <3>1. c \in [1..1 -> Hosted \cup {Laya}]
      BY <2>1, <2>2
    <3> QED BY <2>1, <3>1, IsOrder
  <2>4. TypeOK'
    BY <1>2, <2>3 DEF TypeOK, Configured
  <2>5. OrderSound'
    <3>1. o[1] # Laya => o[1] \in env.keys
      BY <1>1, <1>4, <2>2 DEF Full
    <3> QED BY <1>2, <2>3, <3>1 DEF OrderSound
  <2>6. ModeDecides'
    <3>1. Members' = {o[1]}
      BY <1>2, <2>3 DEF Members
    <3>2. o[1] \in Hosted => o[1] # Laya
      BY HostedAssumption
    <3>3. settings.mode = "local_only" => o[1] = Laya
      <4> SUFFICES ASSUME settings.mode = "local_only" PROVE o[1] = Laya
        OBVIOUS
      <4>1. o = <<Laya>>
        BY <1>1 DEF Full
      <4> QED BY <4>1
    <3>4. /\ settings.mode = "api_only" => o[1] # Laya
          /\ settings.mode = "local_with_api_fallback" => o[1] = Laya
          /\ settings.mode = "api_with_local_fallback" => o[1] # Laya
      BY <1>1, <1>4, <2>2 DEF Full
    <3>5. Laya \notin Hosted
      BY HostedAssumption
    <3>6. settings.mode = "api_only" /\ settings.pin # None =>
             /\ c = <<settings.pin>> /\ settings.pin \in env.keys
             /\ settings.pin = Clef => env.account
      <4> SUFFICES ASSUME settings.mode = "api_only", settings.pin # None
                   PROVE  /\ c = <<settings.pin>> /\ settings.pin \in env.keys
                          /\ settings.pin = Clef => env.account
        OBVIOUS
      <4>1. /\ o = <<settings.pin>> /\ settings.pin \in env.keys
            /\ settings.pin = Clef => env.account
        BY <1>1 DEF Full
      <4> QED BY <2>1, <4>1
    <3>7. settings.mode # "api_only" \/ settings.pin = None =>
             Members' \ {Laya} \subseteq Listed
      BY <1>1, <1>4, <2>2, <3>1 DEF Full
    <3>8. Listed' = Listed
      BY DEF Listed
    <3> QED BY <1>2, <1>6, <2>3, <3>1, <3>3, <3>4, <3>5, <3>6, <3>7, <3>8
            DEF ModeDecides
  <2> QED BY <2>4, <2>5, <2>6
<1> QED BY <1>5, <1>6, <1>m

\* Every name stands for a mode and a pin the rest of the module knows.
LEMMA ResolvedType ==
  ASSUME NEW name \in Names
  PROVE  Resolved(name)[1] \in Modes /\ Resolved(name)[2] \in Hosted \cup {None}
BY HostedAssumption DEF Resolved, Names, Modes, Pins, Aliases

LEMMA InvInit == Init => Inv
BY DEF Init, Inv, TypeOK, NoneYet, OrderSound, ModeDecides

LEMMA InvNext == Inv /\ [Next]_vars => Inv'
<1> SUFFICES ASSUME Inv, [Next]_vars PROVE Inv'
  OBVIOUS
<1> USE DEF Inv
<1>1. ASSUME NEW name \in Names, NEW written \in WrittenPins, NEW order \in FallbackOrders,
             NEW enabled \in BOOLEAN, Load(name, written, order, enabled)
      PROVE  Inv'
  <2>1. chain' = None /\ env' = env
    BY <1>1 DEF Load, NoneYet
  <2>2. settings' \in Configured
    <3>1. written \in Hosted \cup {None}
      BY HostedAssumption
    <3> QED BY <1>1, <3>1, ResolvedType DEF Load, Configured
  <2> QED BY <2>1, <2>2 DEF TypeOK, NoneYet, OrderSound, ModeDecides, Configured
<1>2. CASE Build
  <2>1. CASE Rejected
    <3>1. settings' = None /\ chain' = None /\ env' = env
      BY <1>2, <2>1 DEF Build
    <3> QED BY <3>1 DEF TypeOK, NoneYet, OrderSound, ModeDecides
  <2>2. CASE ~Rejected
    <3>1. settings # None /\ chain' = Built /\ settings' = settings /\ env' = env
      BY <1>2, <2>2 DEF Build
    <3>2. settings \in Configured /\ env \in Environments
      BY <3>1 DEF TypeOK, Configured
    <3> QED BY <2>2, <3>1, <3>2, BuiltStep DEF NoneYet
  <2> QED BY <2>1, <2>2
<1>3. CASE Reset
  <2>1. /\ settings # None /\ chain' = Built /\ settings' = settings /\ env' = env
        /\ ~Rejected
    BY <1>3 DEF Reset, NoneYet
  <2>2. settings \in Configured /\ env \in Environments
    BY <2>1 DEF TypeOK, Configured
  <2> QED BY <2>1, <2>2, BuiltStep DEF NoneYet
<1>4. CASE Export
  <2>1. settings' = settings /\ chain' = chain /\ env' \in Environments /\ Members' = Members /\ Listed' = Listed
    BY <1>4 DEF Export, Members, Listed
  <2>2. TypeOK' /\ NoneYet' /\ OrderSound'
    BY <2>1 DEF TypeOK, NoneYet, OrderSound
  <2>3. ModeDecides'
    BY <2>1 DEF ModeDecides
  <2> QED BY <2>2, <2>3
<1>5. CASE Restart
  BY <1>5 DEF Restart, TypeOK, NoneYet, OrderSound, ModeDecides
<1>6. CASE UNCHANGED vars
  <2>1. settings' = settings /\ chain' = chain /\ env' = env /\ Members' = Members /\ Listed' = Listed
    BY <1>6 DEF vars, Members, Listed
  <2>2. TypeOK' /\ NoneYet' /\ OrderSound'
    BY <2>1 DEF TypeOK, NoneYet, OrderSound
  <2>3. ModeDecides'
    BY <2>1 DEF ModeDecides
  <2> QED BY <2>2, <2>3
<1> QED BY <1>1, <1>2, <1>3, <1>4, <1>5, <1>6 DEF Next

THEOREM InvHolds == Spec => []Inv
BY InvInit, InvNext, PTL DEF Spec

\* Type correctness: resolving, building, rebuilding and restarting stay in the
\* declared values, so that no order of any mode repeats a provider or is
\* longer than the four there are.
THEOREM Typed == Spec => []TypeOK
BY InvHolds, PTL DEF Inv

\* Whatever the environment was at each build, the order of every chain has no
\* provider twice, the local one first or last and no hosted one without the key
\* it was built with.
THEOREM Sound == Spec => []OrderSound
BY InvHolds, PTL DEF Inv

\* The mode alone decides which side of the machine a chain reaches, and which
\* side leads; a pin is the whole chain of api_only and nothing in other modes.
THEOREM Decided == Spec => []ModeDecides
BY InvHolds, PTL DEF Inv

\* No rebuild changes the side that leads, or empties a chain, of a mode that
\* names one.
THEOREM Stable == Spec => SideIsStable
<1> DEFINE A == chain # None /\ chain' # None =>
                  \/ settings.mode = "api_only" /\ Laya \notin Members \cup Members'
                  \/ /\ chain.order # << >> /\ chain'.order # << >>
                     /\ (chain.order[1] = Laya) <=> (chain'.order[1] = Laya)
<1>1. Inv /\ Inv' /\ [Next]_vars => [A]_vars
  <2> SUFFICES ASSUME Inv, Inv', Next, chain # None, chain' # None
               PROVE  \/ settings.mode = "api_only" /\ Laya \notin Members \cup Members'
                      \/ /\ chain.order # << >> /\ chain'.order # << >>
                         /\ (chain.order[1] = Laya) <=> (chain'.order[1] = Laya)
    OBVIOUS
  <2>1. settings # None /\ settings' = settings
    BY DEF Inv, NoneYet, Next, Load, Build, Reset, Export, Restart
  <2>2. settings.mode \in Modes
    BY <2>1 DEF Inv, TypeOK
  <2>3. settings.mode = "local_only" =>
           /\ chain.order # << >> /\ chain'.order # << >>
           /\ chain.order[1] = Laya /\ chain'.order[1] = Laya
    <3> SUFFICES ASSUME settings.mode = "local_only"
                 PROVE  /\ chain.order # << >> /\ chain'.order # << >>
                        /\ chain.order[1] = Laya /\ chain'.order[1] = Laya
      OBVIOUS
    <3>1. Members = {Laya} /\ Members' = {Laya} /\ chain.order # << >> /\ chain'.order # << >>
      BY <2>1 DEF Inv, ModeDecides
    <3>2. chain.order \in Orders /\ chain'.order \in Orders
      BY DEF Inv, TypeOK
    <3>3. \A o \in Orders : o # << >> => 1 \in DOMAIN o
      <4> SUFFICES ASSUME NEW o \in Orders, o # << >> PROVE 1 \in DOMAIN o
        OBVIOUS
      <4> QED BY OrderIs
    <3> QED BY <3>1, <3>2, <3>3 DEF Members
  <2> QED BY <2>1, <2>2, <2>3 DEF Inv, ModeDecides, Modes
<1> QED BY <1>1, InvHolds, PTL DEF Spec, SideIsStable
=============================================================================
