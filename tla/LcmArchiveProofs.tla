-------------------------- MODULE LcmArchiveProofs --------------------------
(* Theorems about LcmArchive, for any texts, fresh tail, fan-in, depths,      *)
(* sessions and number of messages.                                           *)
EXTENDS LcmArchive, WellFoundedInduction, FiniteSetTheorems, SequenceTheorems,
        TLAPS

-----------------------------------------------------------------------------
(* Smallest and largest members of sets of numbers.                            *)

\* A set of naturals that is not empty has a smallest member.
LEMMA MinOfNats ==
  ASSUME NEW S, S \subseteq Nat, S # {}
  PROVE  Min(S) \in S /\ \A y \in S : Min(S) <= y
<1>1. PICK x \in S : \A y \in S : <<y, x>> \notin OpToRel(<, Nat)
  BY NatLessThanWellFounded, WFMin, Zenon
<1>2. ASSUME NEW y \in S PROVE x <= y
  <2>1. y < x => <<y, x>> \in OpToRel(<, Nat)
    <3>1. <<y, x>> \in Nat \X Nat
      OBVIOUS
    <3>2. y < x => <<y, x>>[1] < <<y, x>>[2]
      OBVIOUS
    <3> QED BY <3>1, <3>2, Zenon DEF OpToRel
  <2>2. ~(y < x)
    BY <1>1, <2>1, Zenon
  <2> QED BY <2>2
<1> QED BY <1>2 DEF Min

\* A bounded one has a largest member.
LEMMA MaxOfNats ==
  ASSUME NEW N \in Nat, NEW S, S \subseteq 0..N, S # {}
  PROVE  Max(S) \in S /\ \A y \in S : y <= Max(S)
<1> DEFINE T == {y \in 0..N : N - y \in S}
<1>1. T \subseteq Nat /\ T # {}
  <2>1. PICK s \in S : s \in 0..N
    OBVIOUS
  <2>2. N - s \in T
    BY <2>1
  <2> QED BY <2>2
<1>2. Min(T) \in T /\ \A y \in T : Min(T) <= y
  <2> HIDE DEF T
  <2> QED BY <1>1, MinOfNats
<1>3. N - Min(T) \in S
  BY <1>2
<1>4. \A s \in S : s <= N - Min(T)
  <2> SUFFICES ASSUME NEW s \in S PROVE s <= N - Min(T)
    OBVIOUS
  <2>1. N - s \in T
    OBVIOUS
  <2>2. Min(T) <= N - s
    BY <1>2, <2>1
  <2>3. Min(T) \in 0..N
    BY <1>2
  <2> HIDE DEF T
  <2> QED BY <2>2, <2>3
<1> HIDE DEF T
<1> QED BY <1>3, <1>4 DEF Max

\* The smaller of two numbers.
LEMMA MinOfTwo ==
  ASSUME NEW a \in Nat, NEW b \in Nat
  PROVE  Min({a, b}) = IF a <= b THEN a ELSE b
<1>1. Min({a, b}) \in {a, b} /\ \A y \in {a, b} : Min({a, b}) <= y
  BY MinOfNats
<1> QED BY <1>1

\* Larger of two numbers.
LEMMA MaxOfTwo ==
  ASSUME NEW a \in Nat, NEW b \in Nat
  PROVE  Max({a, b}) \in {a, b} /\ a <= Max({a, b}) /\ b <= Max({a, b})
<1> DEFINE N == IF a <= b THEN b ELSE a
<1>1. N \in Nat /\ {a, b} \subseteq 0..N /\ {a, b} # {}
  OBVIOUS
<1> HIDE DEF N
<1> QED BY <1>1, MaxOfNats

-----------------------------------------------------------------------------
(* Type correctness.                                                          *)

Messages == [kind : {"sys", "turn", "note", "sum"}, text : Texts \cup {NoText},
             uid : Nat, nodes : SUBSET Nat]
RowType == [sess : Nat, msg : Messages]
NodeType == [sess : Nat, depth : Nat, src : SUBSET Nat, said : SUBSET Nat]

Types ==
    /\ host \in [ctx : Seq(Messages), log : Seq(Messages), sess : Nat,
                 since : Nat, said : Seq(Texts)]
    /\ rows \in Seq(RowType)
    /\ nodes \in Seq(NodeType)
    /\ life \in [cur : Nat, fr : Nat, lastfr : Nat]
    /\ mem \in [bound : Nat, cursor : Nat, needs : BOOLEAN, last : Nat]
    /\ job \in [pc : {"idle", "leaf", "frontier", "condense"},
                work : Seq(Messages), ids : SUBSET Nat, depth : Nat]

(* A compaction has a session and something to work on.                       *)
Working == job.pc # "idle" => mem.bound # 0 /\ job.work # <<>>

(* A summary message only names nodes that exist.                             *)
Mentioned(ms) == UNION {ms[i].nodes : i \in DOMAIN ms}
Refers(ms) == Mentioned(ms) \subseteq DOMAIN nodes
Referring == Refers(host.ctx) /\ Refers(host.log) /\ Refers(job.work)

TypeInv == Types /\ TypeOK /\ Working /\ Referring

\* Where the new messages of a list begin.
LEMMA FromRange ==
  ASSUME Types, NEW ms \in Seq(Messages)
  PROVE  /\ From(ms) \in 0..Len(ms)
         /\ mem.needs => Replays(ms, From(ms))
<1>1. CASE mem.needs
  <2> DEFINE S == {c \in 0..Len(ms) : Replays(ms, c)}
  <2>1. Len(ms) \in Nat
    OBVIOUS
  <2>2. 0 \in S
    <3>1. Shown(ms, 0) = {}
      BY DEF Shown
    <3> QED BY <2>1, <3>1 DEF Replays
  <2>3. Max(S) \in S
    <3>1. S \subseteq 0..Len(ms)
      OBVIOUS
    <3> HIDE DEF S
    <3> QED BY <2>1, <2>2, <3>1, MaxOfNats
  <2> HIDE DEF S
  <2>4. Reconciled(ms) = Max(S)
    BY DEF Reconciled, S
  <2> QED BY <1>1, <2>3, <2>4 DEF From, S
<1>2. CASE ~mem.needs
  <2>1. mem.cursor \in Nat /\ Len(ms) \in Nat
    BY DEF Types
  <2>2. Min({mem.cursor, Len(ms)}) =
            IF mem.cursor <= Len(ms) THEN mem.cursor ELSE Len(ms)
    BY <2>1, MinOfTwo
  <2>3. From(ms) = Min({mem.cursor, Len(ms)})
    BY <1>2 DEF From
  <2> QED BY <1>2, <2>1, <2>2, <2>3
<1> QED BY <1>1, <1>2

\* What an ingest writes, and where it leaves the cursor.
LEMMA IngestType ==
  ASSUME Types, NEW ms \in Seq(Messages)
  PROVE  /\ Appended(ms) \in Seq(RowType)
         /\ Len(Appended(ms)) = Len(rows) + Len(ms) - From(ms)
         /\ \A i \in 1..Len(Appended(ms)) : Appended(ms)[i] =
              IF i <= Len(rows) THEN rows[i]
              ELSE [sess |-> mem.bound, msg |-> ms[From(ms) + i - Len(rows)]]
         /\ Advanced(ms) \in [bound : Nat, cursor : Nat, needs : BOOLEAN, last : Nat]
         /\ Advanced(ms).bound = mem.bound /\ Advanced(ms).last = mem.last
<1> DEFINE n == Len(ms) - From(ms)
           tail == [i \in 1..n |-> [sess |-> mem.bound, msg |-> ms[From(ms) + i]]]
<1>1. From(ms) \in 0..Len(ms) /\ Len(ms) \in Nat /\ n \in Nat
  BY FromRange
<1>2. \A i \in 1..n : ms[From(ms) + i] \in Messages
  BY <1>1, ElementOfSeq
<1>3. tail \in Seq(RowType) /\ Len(tail) = n
  <2>1. \A i \in 1..n : [sess |-> mem.bound, msg |-> ms[From(ms) + i]] \in RowType
    BY <1>2 DEF RowType, Types
  <2> QED BY <1>1, <2>1
<1>4. Appended(ms) = rows \o tail
  BY DEF Appended
<1>5. rows \in Seq(RowType)
  BY DEF Types
<1>6. /\ Appended(ms) \in Seq(RowType)
      /\ Len(Appended(ms)) = Len(rows) + n
      /\ \A i \in 1..(Len(rows) + n) :
            Appended(ms)[i] = IF i <= Len(rows) THEN rows[i] ELSE tail[i - Len(rows)]
  <2> HIDE DEF tail, n
  <2>1. /\ rows \o tail \in Seq(RowType)
        /\ Len(rows \o tail) = Len(rows) + Len(tail)
        /\ \A i \in 1..(Len(rows) + Len(tail)) :
              (rows \o tail)[i] = IF i <= Len(rows) THEN rows[i] ELSE tail[i - Len(rows)]
    BY <1>3, <1>5, ConcatProperties, Zenon
  <2> QED BY <2>1, <1>3, <1>4, Zenon
<1>7. \A i \in 1..(Len(rows) + n) : i > Len(rows) =>
        tail[i - Len(rows)] = [sess |-> mem.bound, msg |-> ms[From(ms) + i - Len(rows)]]
  BY <1>1, <1>5
<1>8. /\ Advanced(ms) \in [bound : Nat, cursor : Nat, needs : BOOLEAN, last : Nat]
      /\ Advanced(ms).bound = mem.bound /\ Advanced(ms).last = mem.last
  BY <1>1 DEF Advanced, Types
<1>9. Len(rows) + n = Len(rows) + Len(ms) - From(ms)
  BY <1>1, <1>5
<1>a. \A i \in 1..(Len(rows) + n) : Appended(ms)[i] =
        IF i <= Len(rows) THEN rows[i]
        ELSE [sess |-> mem.bound, msg |-> ms[From(ms) + i - Len(rows)]]
  <2> SUFFICES ASSUME NEW i \in 1..(Len(rows) + n)
               PROVE  Appended(ms)[i] =
                        IF i <= Len(rows) THEN rows[i]
                        ELSE [sess |-> mem.bound, msg |-> ms[From(ms) + i - Len(rows)]]
    OBVIOUS
  <2>1. i \in Int /\ Len(rows) \in Nat
    BY <1>1, <1>5
  <2> HIDE DEF tail, n
  <2>2. CASE i <= Len(rows)
    BY <1>6, <2>2
  <2>3. CASE i > Len(rows)
    BY <1>6, <1>7, <2>1, <2>3
  <2> QED BY <2>1, <2>2, <2>3
<1> HIDE DEF tail, n
<1> QED BY <1>6, <1>8, <1>9, <1>a, Zenon

\* An element of a sequence of messages is one.
LEMMA MessageAt ==
  ASSUME NEW ms \in Seq(Messages), NEW i \in DOMAIN ms
  PROVE  /\ ms[i] \in Messages
         /\ ms[i].uid \in Nat /\ ms[i].nodes \subseteq Nat
<1>1. ms[i] \in Messages
  BY LenProperties, ElementOfSeq
<1> QED BY <1>1 DEF Messages

\* The texts said under a list of messages are numbered.
LEMMA CoversType ==
  ASSUME Types, NEW ms \in Seq(Messages), Refers(ms)
  PROVE  Covers(ms) \subseteq Nat
<1>1. UidsOf(ms) \subseteq Nat
  BY MessageAt DEF UidsOf
<1>2. ASSUME NEW n \in DOMAIN nodes PROVE nodes[n].said \subseteq Nat
  <2>1. nodes[n] \in NodeType
    BY LenProperties, ElementOfSeq DEF Types
  <2> QED BY <2>1 DEF NodeType
<1>3. UNION {ms[i].nodes : i \in DOMAIN ms} \subseteq DOMAIN nodes
  BY DEF Refers, Mentioned
<1> QED BY <1>1, <1>2, <1>3 DEF Covers

\* A system prompt in front is one message at most.
LEMMA AnchorRange ==
  ASSUME NEW w \in Seq(Messages)
  PROVE  /\ Anchor(w) \in 0..1 /\ Anchor(w) <= Len(w) /\ Len(w) \in Nat
         /\ Anchor(w) = 1 <=> w # <<>> /\ w[1].kind \in {"sys", "note"}
<1>1. Len(w) \in Nat /\ (w # <<>> => Len(w) >= 1)
  BY EmptySeq
<1> QED BY <1>1 DEF Anchor

\* A message more keeps the anchor, or is one.
LEMMA AnchorAppend ==
  ASSUME NEW w \in Seq(Messages), NEW m \in Messages
  PROVE  /\ Append(w, m) \in Seq(Messages) /\ Append(w, m) # <<>>
         /\ Anchor(w) \in 0..1 /\ Anchor(Append(w, m)) \in 0..1
         /\ Anchor(w) <= Anchor(Append(w, m))
         /\ w # <<>> => Anchor(Append(w, m)) = Anchor(w)
         /\ w = <<>> => Anchor(w) = 0
         /\ w = <<>> /\ m.kind \notin {"sys", "note"} => Anchor(Append(w, m)) = 0
<1>1. /\ Append(w, m) \in Seq(Messages) /\ Len(Append(w, m)) = Len(w) + 1 /\ Len(w) \in Nat
      /\ \A i \in 1..Len(w) : Append(w, m)[i] = w[i]
      /\ Append(w, m)[Len(w) + 1] = m
  BY AppendProperties
<1>2. Append(w, m) # <<>>
  BY <1>1, EmptySeq
<1>3. CASE w = <<>>
  <2>1. Len(w) = 0 /\ Append(w, m)[1] = m
    BY <1>1, <1>3
  <2> QED BY <1>1, <1>2, <1>3, <2>1 DEF Anchor
<1>4. CASE w # <<>>
  <2>1. Append(w, m)[1] = w[1]
    BY <1>1, <1>4, EmptySeq
  <2> QED BY <1>1, <1>2, <1>4, <2>1 DEF Anchor
<1> QED BY <1>3, <1>4

\* The scaffolding behind the anchor ends before the fresh tail.
LEMMA LeadRange ==
  ASSUME NEW w \in Seq(Messages), w # <<>>
  PROVE  /\ Lead(w) \in 0..(Len(w) - 1) /\ Anchor(w) + Lead(w) <= Len(w)
         /\ \A i \in (Anchor(w) + 1)..(Anchor(w) + Lead(w)) : Scaffold(w[i])
<1> DEFINE a == Anchor(w)
           S == {t \in 0..Len(w) : \A i \in (a + 1)..(a + t) :
                                     i <= Len(w) - Fresh /\ Scaffold(w[i])}
<1>1. Len(w) \in Nat /\ Len(w) >= 1 /\ a \in 0..1
  BY EmptySeq, AnchorRange
<1>2. 0 \in S /\ S \subseteq 0..Len(w)
  <2>1. (a + 1)..(a + 0) = {}
    <3> HIDE DEF a
    <3> QED BY <1>1
  <2> QED BY <1>1, <2>1
<1>3. Lead(w) = Max(S)
  BY DEF Lead
<1>4. Lead(w) \in S
  <2> HIDE DEF S
  <2> QED BY <1>1, <1>2, <1>3, MaxOfNats
<1> HIDE DEF a
<1>5. /\ Lead(w) \in 0..Len(w)
      /\ \A i \in (a + 1)..(a + Lead(w)) : i <= Len(w) - Fresh /\ Scaffold(w[i])
  BY <1>4
<1>6. Lead(w) >= 1 => a + Lead(w) <= Len(w) - Fresh
  <2>1. Lead(w) >= 1 => a + Lead(w) \in (a + 1)..(a + Lead(w))
    BY <1>1, <1>5
  <2> QED BY <1>5, <2>1
<1>7. a <= Len(w)
  BY <1>1
<1> QED BY <1>1, <1>5, <1>6, <1>7, NumbersAssumption DEF a

\* Two lists, one after the other.
LEMMA Concat ==
  ASSUME NEW s \in Seq(Messages), NEW t \in Seq(Messages)
  PROVE  /\ s \o t \in Seq(Messages)
         /\ Len(s \o t) = Len(s) + Len(t)
         /\ \A i \in 1..Len(s) : (s \o t)[i] = s[i]
         /\ \A i \in 1..Len(t) : (s \o t)[Len(s) + i] = t[i]
         /\ UidsOf(s \o t) = UidsOf(s) \cup UidsOf(t)
         /\ Mentioned(s \o t) = Mentioned(s) \cup Mentioned(t)
<1>0. Len(s) \in Nat /\ Len(t) \in Nat
  OBVIOUS
<1>1. /\ s \o t \in Seq(Messages)
      /\ Len(s \o t) = Len(s) + Len(t)
      /\ \A i \in 1..(Len(s) + Len(t)) :
           (s \o t)[i] = IF i <= Len(s) THEN s[i] ELSE t[i - Len(s)]
  BY ConcatProperties, Zenon
<1>2. \A i \in 1..Len(s) : (s \o t)[i] = s[i]
  BY <1>0, <1>1
<1>3. \A i \in 1..Len(t) : (s \o t)[Len(s) + i] = t[i]
  <2> SUFFICES ASSUME NEW i \in 1..Len(t) PROVE (s \o t)[Len(s) + i] = t[i]
    OBVIOUS
  <2>1. /\ Len(s) + i \in 1..(Len(s) + Len(t)) /\ ~(Len(s) + i <= Len(s))
        /\ (Len(s) + i) - Len(s) = i
    BY <1>0
  <2> QED BY <1>1, <2>1
<1>4. /\ DOMAIN (s \o t) = 1..(Len(s) + Len(t))
      /\ DOMAIN s = 1..Len(s) /\ DOMAIN t = 1..Len(t)
  BY <1>1, LenProperties
<1>5. \A i \in 1..(Len(s) + Len(t)) :
        i \in 1..Len(s) \/ \E j \in 1..Len(t) : i = Len(s) + j
  <2> SUFFICES ASSUME NEW i \in 1..(Len(s) + Len(t)), i \notin 1..Len(s)
               PROVE  \E j \in 1..Len(t) : i = Len(s) + j
    OBVIOUS
  <2>1. i - Len(s) \in 1..Len(t) /\ i = Len(s) + (i - Len(s))
    BY <1>0
  <2> QED BY <2>1
<1>6. \A j \in 1..Len(t) : Len(s) + j \in 1..(Len(s) + Len(t))
  BY <1>0
<1>7. 1..Len(s) \subseteq 1..(Len(s) + Len(t))
  BY <1>0
<1> DEFINE c == s \o t
<1>a. /\ \A i \in DOMAIN c : (\E j \in DOMAIN s : c[i] = s[j]) \/ (\E j \in DOMAIN t : c[i] = t[j])
      /\ \A j \in DOMAIN s : \E i \in DOMAIN c : c[i] = s[j]
      /\ \A j \in DOMAIN t : \E i \in DOMAIN c : c[i] = t[j]
  <2>1. DOMAIN c = 1..(Len(s) + Len(t)) /\ DOMAIN s = 1..Len(s) /\ DOMAIN t = 1..Len(t)
    BY <1>4
  <2>2. (\A i \in 1..Len(s) : c[i] = s[i]) /\ (\A i \in 1..Len(t) : c[Len(s) + i] = t[i])
    BY <1>2, <1>3
  <2> HIDE DEF c
  <2>3. ASSUME NEW i \in DOMAIN c
        PROVE  (\E j \in DOMAIN s : c[i] = s[j]) \/ (\E j \in DOMAIN t : c[i] = t[j])
    <3>1. CASE i \in 1..Len(s)
      BY <2>1, <2>2, <3>1
    <3>2. CASE \E j \in 1..Len(t) : i = Len(s) + j
      BY <2>1, <2>2, <3>2
    <3> QED BY <1>5, <2>1, <3>1, <3>2
  <2>4. ASSUME NEW j \in DOMAIN s PROVE \E i \in DOMAIN c : c[i] = s[j]
    BY <1>7, <2>1, <2>2
  <2>5. ASSUME NEW j \in DOMAIN t PROVE \E i \in DOMAIN c : c[i] = t[j]
    BY <1>6, <2>1, <2>2
  <2> QED BY <2>3, <2>4, <2>5
<1> HIDE DEF c
<1>8. UidsOf(c) = UidsOf(s) \cup UidsOf(t)
  <2>1. \A u : u \in {c[i].uid : i \in DOMAIN c} <=>
               u \in {s[i].uid : i \in DOMAIN s} \cup {t[i].uid : i \in DOMAIN t}
    BY <1>a
  <2> QED BY <2>1 DEF UidsOf
<1>9. Mentioned(c) = Mentioned(s) \cup Mentioned(t)
  <2>1. \A x : x \in Mentioned(c) <=> \E i \in DOMAIN c : x \in c[i].nodes
    BY DEF Mentioned
  <2>2. \A x : x \in Mentioned(s) <=> \E i \in DOMAIN s : x \in s[i].nodes
    BY DEF Mentioned
  <2>3. \A x : x \in Mentioned(t) <=> \E i \in DOMAIN t : x \in t[i].nodes
    BY DEF Mentioned
  <2>4. \A x : x \in Mentioned(c) <=> x \in Mentioned(s) \/ x \in Mentioned(t)
    BY <1>a, <2>1, <2>2, <2>3
  <2> QED BY <2>4
<1> QED BY <1>1, <1>2, <1>3, <1>8, <1>9 DEF c

\* One message.
LEMMA One ==
  ASSUME NEW m \in Messages
  PROVE  /\ <<m>> \in Seq(Messages) /\ Len(<<m>>) = 1 /\ <<m>>[1] = m
         /\ UidsOf(<<m>>) = {m.uid} \ {0}
         /\ Mentioned(<<m>>) = m.nodes
<1>1. <<m>> \in Seq(Messages) /\ Len(<<m>>) = 1 /\ <<m>>[1] = m /\ DOMAIN <<m>> = {1}
  OBVIOUS
<1>2. UidsOf(<<m>>) = {m.uid} \ {0}
  BY <1>1 DEF UidsOf
<1>3. Mentioned(<<m>>) = m.nodes
  BY <1>1 DEF Mentioned
<1> QED BY <1>1, <1>2, <1>3

\* A part of a list.
LEMMA Part ==
  ASSUME NEW w \in Seq(Messages), NEW p \in 1..(Len(w) + 1), NEW q \in (p - 1)..Len(w)
  PROVE  /\ SubSeq(w, p, q) \in Seq(Messages)
         /\ Len(SubSeq(w, p, q)) = q - p + 1
         /\ \A i \in 1..(q - p + 1) : SubSeq(w, p, q)[i] = w[p + i - 1]
         /\ UidsOf(SubSeq(w, p, q)) = {w[i].uid : i \in p..q} \ {0}
         /\ Mentioned(SubSeq(w, p, q)) = UNION {w[i].nodes : i \in p..q}
<1> DEFINE r == SubSeq(w, p, q)
<1>1. Len(w) \in Nat /\ p \in Int /\ q \in Int /\ p..q \subseteq 1..Len(w)
  OBVIOUS
<1>2. \A i \in p..q : w[i] \in Messages
  BY <1>1, ElementOfSeq
<1>3. /\ r \in Seq(Messages)
      /\ Len(r) = IF p <= q THEN q - p + 1 ELSE 0
      /\ \A i \in 1..(q - p + 1) : r[i] = w[p + i - 1]
  BY <1>1, <1>2, SubSeqProperties
<1>4. Len(r) = q - p + 1
  <2> HIDE DEF r
  <2> QED BY <1>1, <1>3
<1>5. DOMAIN r = 1..(q - p + 1)
  <2> HIDE DEF r
  <2> QED BY <1>3, <1>4, LenProperties
<1>6. \A i \in 1..(q - p + 1) : p + i - 1 \in p..q
  BY <1>1
<1>7. ASSUME NEW i \in p..q PROVE i - p + 1 \in 1..(q - p + 1) /\ r[i - p + 1] = w[i]
  <2>1. i - p + 1 \in 1..(q - p + 1) /\ p + (i - p + 1) - 1 = i
    BY <1>1
  <2> HIDE DEF r
  <2> QED BY <1>3, <2>1
<1> HIDE DEF r
<1>8. UidsOf(r) = {w[i].uid : i \in p..q} \ {0}
  <2>1. \A i \in DOMAIN r : \E j \in p..q : r[i] = w[j]
    BY <1>3, <1>5, <1>6
  <2>2. \A j \in p..q : \E i \in DOMAIN r : r[i] = w[j]
    BY <1>5, <1>7
  <2>3. {r[i].uid : i \in DOMAIN r} = {w[i].uid : i \in p..q}
    BY <2>1, <2>2
  <2> QED BY <2>3 DEF UidsOf
<1>9. Mentioned(r) = UNION {w[i].nodes : i \in p..q}
  BY <1>3, <1>5, <1>6, <1>7 DEF Mentioned
<1> QED BY <1>3, <1>4, <1>8, <1>9 DEF r

\* The first a messages of a list and what is left of it from position p on.
LEMMA Without ==
  ASSUME NEW w \in Seq(Messages), NEW a \in 0..Len(w), NEW p \in (a + 1)..(Len(w) + 1)
  PROVE  LET v == SubSeq(w, 1, a) \o SubSeq(w, p, Len(w))
         IN  /\ v \in Seq(Messages)
             /\ Len(v) = Len(w) - p + 1 + a
             /\ \A i \in 1..a : v[i] = w[i]
             /\ \A i \in (a + 1)..Len(v) : v[i] = w[p + i - a - 1]
             /\ UidsOf(v) = {w[i].uid : i \in 1..a \cup p..Len(w)} \ {0}
             /\ Mentioned(v) = UNION {w[i].nodes : i \in 1..a \cup p..Len(w)}
<1> DEFINE f == SubSeq(w, 1, a)
           r == SubSeq(w, p, Len(w))
<1>1. Len(w) \in Nat
  OBVIOUS
<1>2. /\ f \in Seq(Messages) /\ Len(f) = a /\ \A i \in 1..a : f[i] = w[i]
      /\ UidsOf(f) = {w[i].uid : i \in 1..a} \ {0}
      /\ Mentioned(f) = UNION {w[i].nodes : i \in 1..a}
  <2>1. 1 \in 1..(Len(w) + 1) /\ a \in (1 - 1)..Len(w)
    BY <1>1
  <2>2. /\ f \in Seq(Messages) /\ Len(f) = a - 1 + 1
        /\ \A i \in 1..(a - 1 + 1) : f[i] = w[1 + i - 1]
        /\ UidsOf(f) = {w[i].uid : i \in 1..a} \ {0}
        /\ Mentioned(f) = UNION {w[i].nodes : i \in 1..a}
    BY <2>1, Part
  <2>3. a - 1 + 1 = a /\ \A i \in 1..a : 1 + i - 1 = i
    BY <2>1
  <2> HIDE DEF f
  <2> QED BY <2>2, <2>3
<1>3. /\ r \in Seq(Messages) /\ Len(r) = Len(w) - p + 1
      /\ \A i \in 1..(Len(w) - p + 1) : r[i] = w[p + i - 1]
      /\ UidsOf(r) = {w[i].uid : i \in p..Len(w)} \ {0}
      /\ Mentioned(r) = UNION {w[i].nodes : i \in p..Len(w)}
  <2>1. p \in 1..(Len(w) + 1) /\ Len(w) \in (p - 1)..Len(w)
    BY <1>1
  <2> QED BY <2>1, Part
<1> HIDE DEF f, r
<1>4. /\ f \o r \in Seq(Messages)
      /\ Len(f \o r) = Len(f) + Len(r)
      /\ \A i \in 1..Len(f) : (f \o r)[i] = f[i]
      /\ \A i \in 1..Len(r) : (f \o r)[Len(f) + i] = r[i]
      /\ UidsOf(f \o r) = UidsOf(f) \cup UidsOf(r)
      /\ Mentioned(f \o r) = Mentioned(f) \cup Mentioned(r)
  BY <1>2, <1>3, Concat
<1>5. Len(f \o r) = Len(w) - p + 1 + a
  BY <1>1, <1>2, <1>3, <1>4
<1>6. ASSUME NEW i \in (a + 1)..Len(f \o r) PROVE (f \o r)[i] = w[p + i - a - 1]
  <2>1. i - a \in 1..Len(r) /\ a + (i - a) = i /\ p + (i - a) - 1 = p + i - a - 1
    BY <1>1, <1>3, <1>5
  <2>2. (f \o r)[a + (i - a)] = r[i - a]
    BY <1>2, <1>4, <2>1
  <2> QED BY <1>3, <2>1, <2>2
<1>7. \A i \in 1..a : (f \o r)[i] = w[i]
  BY <1>2, <1>4
<1>8. UidsOf(f \o r) = {w[i].uid : i \in 1..a \cup p..Len(w)} \ {0}
  <2>1. {w[i].uid : i \in 1..a \cup p..Len(w)}
          = {w[i].uid : i \in 1..a} \cup {w[i].uid : i \in p..Len(w)}
    OBVIOUS
  <2> QED BY <1>2, <1>3, <1>4, <2>1
<1>9. Mentioned(f \o r) = UNION {w[i].nodes : i \in 1..a \cup p..Len(w)}
  <2>1. UNION {w[i].nodes : i \in 1..a \cup p..Len(w)}
          = (UNION {w[i].nodes : i \in 1..a}) \cup (UNION {w[i].nodes : i \in p..Len(w)})
    OBVIOUS
  <2> QED BY <1>2, <1>3, <1>4, <2>1
<1> QED BY <1>4, <1>5, <1>6, <1>7, <1>8, <1>9 DEF f, r

\* A compaction drops known scaffolding only.
LEMMA TrimmedType ==
  ASSUME NEW w \in Seq(Messages), w # <<>>
  PROVE  /\ Trimmed(w) \in Seq(Messages) /\ Trimmed(w) # <<>>
         /\ Len(Trimmed(w)) = Len(w) - Lead(w)
         /\ \A i \in 1..Anchor(w) : Trimmed(w)[i] = w[i]
         /\ Anchor(w) <= Anchor(Trimmed(w))
         /\ \A i \in (Anchor(w) + 1)..Len(Trimmed(w)) : Trimmed(w)[i] = w[Lead(w) + i]
         /\ UidsOf(Trimmed(w)) =
              {w[i].uid : i \in 1..Anchor(w) \cup (Anchor(w) + Lead(w) + 1)..Len(w)} \ {0}
         /\ Mentioned(Trimmed(w)) =
              UNION {w[i].nodes : i \in 1..Anchor(w) \cup (Anchor(w) + Lead(w) + 1)..Len(w)}
<1> DEFINE a == Anchor(w)
           p == a + Lead(w) + 1
           v == SubSeq(w, 1, a) \o SubSeq(w, p, Len(w))
<1>1. /\ Len(w) \in Nat /\ Lead(w) \in 0..(Len(w) - 1) /\ a + Lead(w) <= Len(w)
      /\ a \in 0..1 /\ a <= Len(w) /\ Len(w) >= 1
  BY LeadRange, AnchorRange, EmptySeq
<1>4. Trimmed(w) = v
  BY DEF Trimmed
<1>0. a = 1 <=> w[1].kind \in {"sys", "note"}
  BY AnchorRange
<1> HIDE DEF a
<1>p. a \in 0..Len(w) /\ p \in (a + 1)..(Len(w) + 1)
  BY <1>1
<1>2. /\ v \in Seq(Messages)
      /\ Len(v) = Len(w) - p + 1 + a
      /\ \A i \in 1..a : v[i] = w[i]
      /\ \A i \in (a + 1)..Len(v) : v[i] = w[p + i - a - 1]
      /\ UidsOf(v) = {w[i].uid : i \in 1..a \cup p..Len(w)} \ {0}
      /\ Mentioned(v) = UNION {w[i].nodes : i \in 1..a \cup p..Len(w)}
  <2> HIDE DEF p
  <2> QED BY <1>p, Without
<1> HIDE DEF v
<1>3. Len(v) = Len(w) - Lead(w) /\ v # <<>>
  <2>1. Len(w) - p + 1 + a = Len(w) - Lead(w) /\ Len(w) - Lead(w) >= 1
    BY <1>1
  <2> QED BY <1>2, <2>1, EmptySeq
<1>5. ASSUME NEW i \in (a + 1)..Len(v) PROVE v[i] = w[Lead(w) + i]
  <2>1. v[i] = w[p + i - a - 1]
    BY <1>2
  <2>2. p + i - a - 1 = Lead(w) + i
    BY <1>1
  <2> HIDE DEF p
  <2> QED BY <2>1, <2>2
<1>6. a <= Anchor(v)
  <2>1. CASE a = 1
    <3>1. v[1] = w[1]
      BY <1>2, <2>1
    <3> QED BY <1>0, <1>2, <1>3, <2>1, <3>1, AnchorRange
  <2>2. CASE a = 0
    BY <1>2, <2>2, AnchorRange
  <2> QED BY <1>1, <2>1, <2>2
<1> QED BY <1>2, <1>3, <1>4, <1>5, <1>6 DEF a

\* The assembled prompt.
LEMMA AssembledType ==
  ASSUME Types, NEW w \in Seq(Messages), w # <<>>
  PROVE  /\ Assembled(w) \in Seq(Messages) /\ Assembled(w) # <<>>
         /\ Visible(mem.bound) \subseteq DOMAIN nodes
         /\ UidsOf(Assembled(w)) = UidsOf(w)
         /\ Mentioned(Assembled(w)) = Mentioned(w) \cup Visible(mem.bound)
         /\ Anchor(Assembled(w)) = Anchor(w)
         /\ \E d \in 0..1 :
               /\ Len(Assembled(w)) = Len(w) + d
               /\ \A i \in 1..Anchor(w) : /\ Assembled(w)[i].uid = w[i].uid
                                          /\ Assembled(w)[i].text = w[i].text
               /\ \A i \in (Anchor(w) + 1)..(Anchor(w) + d) :
                     Assembled(w)[i].kind = "sum" /\ Assembled(w)[i].uid = 0
               /\ \A i \in (Anchor(w) + 1 + d)..Len(Assembled(w)) :
                     Assembled(w)[i] = w[i - d]
<1> DEFINE a == Anchor(w)
           f == [i \in 1..a |-> [w[i] EXCEPT !.kind = IF @ = "sys" THEN "note" ELSE @]]
           V == Visible(mem.bound)
           m == IF V = {} THEN <<>> ELSE <<Summary(V)>>
           r == SubSeq(w, a + 1, Len(w))
<1>8. Assembled(w) = (f \o m) \o r
  BY DEF Assembled
<1>1. /\ Len(w) \in Nat /\ Len(w) >= 1 /\ \A i \in 1..Len(w) : w[i] \in Messages
      /\ a \in 0..1 /\ a <= Len(w) /\ (a = 1 <=> w[1].kind \in {"sys", "note"})
  BY EmptySeq, ElementOfSeq, AnchorRange
<1> HIDE DEF a
<1>2. V \subseteq DOMAIN nodes /\ DOMAIN nodes \subseteq Nat
  BY DEF Visible, NodesOf, Types
<1>3. /\ f \in Seq(Messages) /\ Len(f) = a
      /\ \A i \in 1..a : /\ f[i].nodes = w[i].nodes /\ f[i].uid = w[i].uid
                         /\ f[i].text = w[i].text /\ f[i].kind = "note"
  <2>1. ASSUME NEW i \in 1..a
        PROVE  /\ f[i] \in Messages
               /\ f[i].nodes = w[i].nodes /\ f[i].uid = w[i].uid
               /\ f[i].text = w[i].text /\ f[i].kind = "note"
    <3>1. i = 1 /\ i \in 1..Len(w) /\ w[i] \in Messages /\ w[i].kind \in {"sys", "note"}
      BY <1>1
    <3>2. f[i] = [w[i] EXCEPT !.kind = IF @ = "sys" THEN "note" ELSE @]
      OBVIOUS
    <3> HIDE DEF f
    <3> QED BY <3>1, <3>2 DEF Messages
  <2>2. f = [i \in 1..a |-> f[i]]
    OBVIOUS
  <2>3. DOMAIN f = 1..a
    OBVIOUS
  <2> HIDE DEF f
  <2>4. f \in [1..a -> Messages] /\ a \in Nat
    BY <1>1, <2>1, <2>2
  <2>5. f \in Seq(Messages)
    BY <2>4, SeqDef
  <2>6. Len(f) = a
    BY <2>3, <2>4, <2>5, LenProperties
  <2> QED BY <2>1, <2>5, <2>6
<1>4. Summary(V) \in Messages /\ Summary(V).nodes = V /\ Summary(V).uid = 0
      /\ Summary(V).kind = "sum"
  BY <1>2 DEF Summary, Messages
<1>5. /\ m \in Seq(Messages) /\ Len(m) \in 0..1
      /\ \A i \in 1..Len(m) : m[i].uid = 0 /\ m[i].kind = "sum"
      /\ UidsOf(m) = {} /\ Mentioned(m) = V
  <2>1. CASE V = {}
    <3>1. m = <<>>
      BY <2>1
    <3> HIDE DEF m
    <3>2. DOMAIN m = {} /\ Len(m) = 0 /\ m \in Seq(Messages)
      BY <3>1
    <3> QED BY <2>1, <3>2 DEF UidsOf, Mentioned
  <2>2. CASE V # {}
    <3> DEFINE b == Summary(V)
    <3>1. m = <<b>>
      BY <2>2
    <3> HIDE DEF m, V, b
    <3>2. b \in Messages /\ b.nodes = V /\ b.uid = 0 /\ b.kind = "sum"
      BY <1>4 DEF b
    <3> QED BY <3>1, <3>2, One
  <2> QED BY <2>1, <2>2
<1>6. /\ r \in Seq(Messages) /\ Len(r) = Len(w) - a
      /\ \A i \in 1..(Len(w) - a) : r[i] = w[a + i]
      /\ UidsOf(r) = {w[i].uid : i \in (a + 1)..Len(w)} \ {0}
      /\ Mentioned(r) = UNION {w[i].nodes : i \in (a + 1)..Len(w)}
  <2> DEFINE p == a + 1
  <2>1. /\ p \in 1..(Len(w) + 1) /\ Len(w) \in (p - 1)..Len(w)
        /\ Len(w) - p + 1 = Len(w) - a
    BY <1>1
  <2>2. \A i \in Int : p + i - 1 = a + i
    BY <1>1
  <2> HIDE DEF p
  <2>3. r = SubSeq(w, p, Len(w))
    BY DEF p
  <2> HIDE DEF r
  <2>4. /\ r \in Seq(Messages) /\ Len(r) = Len(w) - p + 1
        /\ \A i \in 1..(Len(w) - p + 1) : r[i] = w[p + i - 1]
        /\ UidsOf(r) = {w[i].uid : i \in p..Len(w)} \ {0}
        /\ Mentioned(r) = UNION {w[i].nodes : i \in p..Len(w)}
    BY <2>1, <2>3, Part
  <2>5. ASSUME NEW i \in 1..(Len(w) - a) PROVE r[i] = w[a + i]
    <3>1. i \in 1..(Len(w) - p + 1) /\ p + i - 1 = a + i
      BY <1>1, <2>1 DEF p
    <3>2. r[i] = w[p + i - 1]
      BY <2>4, <3>1
    <3> QED BY <3>1, <3>2
  <2>6. (a + 1)..Len(w) = p..Len(w)
    BY DEF p
  <2> QED BY <2>1, <2>4, <2>5, <2>6
<1> HIDE DEF f, V, m, r
<1> DEFINE hm == f \o m
           c == hm \o r
<1>9. /\ hm \in Seq(Messages) /\ Len(hm) = a + Len(m)
      /\ \A i \in 1..a : hm[i] = f[i]
      /\ \A i \in 1..Len(m) : hm[a + i] = m[i]
      /\ UidsOf(hm) = UidsOf(f) \cup UidsOf(m)
      /\ Mentioned(hm) = Mentioned(f) \cup Mentioned(m)
  BY <1>3, <1>5, Concat
<1> HIDE DEF hm
<1>10. /\ c \in Seq(Messages)
       /\ Len(c) = Len(hm) + Len(r)
       /\ \A i \in 1..Len(hm) : c[i] = hm[i]
       /\ \A i \in 1..Len(r) : c[Len(hm) + i] = r[i]
       /\ UidsOf(c) = UidsOf(hm) \cup UidsOf(r)
       /\ Mentioned(c) = Mentioned(hm) \cup Mentioned(r)
  BY <1>6, <1>9, Concat
<1> HIDE DEF c
<1> DEFINE d == Len(m)
           l == Len(w)
           k == Len(c)
<1>11. d \in 0..1 /\ l \in Nat /\ l >= 1 /\ Len(hm) = a + d /\ Len(r) = l - a /\ k = l + d
  BY <1>1, <1>5, <1>6, <1>9, <1>10
<1>12. c # <<>>
  BY <1>10, <1>11, EmptySeq
<1>13. /\ DOMAIN w = 1..a \cup (a + 1)..Len(w) /\ DOMAIN f = 1..a
       /\ UidsOf(f) = {w[i].uid : i \in 1..a} \ {0}
       /\ Mentioned(f) = UNION {w[i].nodes : i \in 1..a}
  <2>1. DOMAIN w = 1..Len(w) /\ DOMAIN f = 1..a
    BY <1>3, LenProperties
  <2>2. 1..Len(w) = 1..a \cup (a + 1)..Len(w)
    BY <1>1
  <2> QED BY <1>3, <2>1, <2>2 DEF UidsOf, Mentioned
<1>14. UidsOf(c) = UidsOf(w)
  <2>1. UidsOf(w) = ({w[i].uid : i \in 1..a} \cup {w[i].uid : i \in (a + 1)..Len(w)}) \ {0}
    BY <1>13 DEF UidsOf
  <2> QED BY <1>5, <1>6, <1>9, <1>10, <1>13, <2>1
<1>15. Mentioned(c) = Mentioned(w) \cup V
  <2>1. Mentioned(w) = (UNION {w[i].nodes : i \in 1..a})
                         \cup UNION {w[i].nodes : i \in (a + 1)..Len(w)}
    BY <1>13 DEF Mentioned
  <2> QED BY <1>5, <1>6, <1>9, <1>10, <1>13, <2>1
<1> HIDE DEF d, l, k
<1>16. ASSUME NEW i \in 1..a
       PROVE  c[i].uid = w[i].uid /\ c[i].text = w[i].text /\ c[i].kind = "note"
  <2>1. i \in 1..(a + d)
    BY <1>1, <1>11
  <2>2. c[i] = f[i]
    BY <1>9, <1>10, <1>11, <2>1
  <2> QED BY <1>3, <2>2
<1>17. ASSUME NEW i \in (a + 1)..(a + d)
       PROVE  c[i].kind = "sum" /\ c[i].uid = 0
  <2>1. i - a \in 1..d /\ a + (i - a) = i /\ i \in 1..(a + d)
    BY <1>1, <1>11
  <2>2. c[i] = hm[a + (i - a)] /\ hm[a + (i - a)] = m[i - a]
    BY <1>9, <1>10, <1>11, <2>1 DEF d
  <2> QED BY <1>5, <2>1, <2>2 DEF d
<1>18. ASSUME NEW i \in (a + 1 + d)..k
       PROVE  c[i] = w[i - d]
  <2>1. i - (a + d) \in 1..(l - a) /\ (a + d) + (i - (a + d)) = i /\ a + (i - (a + d)) = i - d
    BY <1>1, <1>11
  <2>2. c[i] = r[i - (a + d)]
    BY <1>10, <1>11, <2>1
  <2> QED BY <1>6, <2>1, <2>2 DEF l
<1>19. Anchor(c) = a
  <2>1. CASE a = 1
    <3>1. c[1].kind = "note"
      BY <1>16, <2>1
    <3> QED BY <1>10, <1>12, <2>1, <3>1, AnchorRange
  <2>2. CASE a = 0
    <3>1. CASE d = 1
      <4>1. c[1].kind = "sum"
        BY <1>17, <2>2, <3>1
      <4> QED BY <1>10, <1>12, <2>2, <4>1, AnchorRange
    <3>2. CASE d = 0
      <4>1. c[1] = w[1]
        <5>1. 1 \in (a + 1 + d)..k /\ 1 - d = 1
          BY <1>11, <2>2, <3>2
        <5> QED BY <1>18, <5>1
      <4> QED BY <1>1, <1>10, <1>12, <2>2, <4>1, AnchorRange
    <3> QED BY <1>11, <3>1, <3>2
  <2> QED BY <1>1, <2>1, <2>2
<1>20. /\ Len(c) = Len(w) + d /\ d \in 0..1
       /\ \A i \in 1..a : c[i].uid = w[i].uid /\ c[i].text = w[i].text
       /\ \A i \in (a + 1)..(a + d) : c[i].kind = "sum" /\ c[i].uid = 0
       /\ \A i \in (a + 1 + d)..Len(c) : c[i] = w[i - d]
  BY <1>11, <1>16, <1>17, <1>18 DEF k, l
<1>21. Assembled(w) = c
  BY <1>8 DEF c, hm
<1> QED BY <1>2, <1>10, <1>12, <1>14, <1>15, <1>19, <1>20, <1>21 DEF a, V

\* The store ids of a chunk are rows.
LEMMA IdsType == \A chunk : IdsOf(chunk) \subseteq DOMAIN rows
BY DEF IdsOf, RowsOf

\* A new node is well typed.
LEMMA AppendNode ==
  ASSUME Types, NEW d \in Nat, NEW src \in SUBSET Nat, NEW said \in SUBSET Nat
  PROVE  LET after == Append(nodes, Node(d, src, said))
         IN  /\ after \in Seq(NodeType)
             /\ Len(after) = Len(nodes) + 1 /\ Len(nodes) \in Nat
             /\ DOMAIN nodes = 1..Len(nodes) /\ DOMAIN after = 1..(Len(nodes) + 1)
             /\ \A n \in DOMAIN nodes : after[n] = nodes[n]
             /\ after[Len(nodes) + 1]
                   = [sess |-> mem.bound, depth |-> d, src |-> src, said |-> said]
<1>1. Node(d, src, said) \in NodeType
  BY DEF Node, NodeType, Types
<1>2. nodes \in Seq(NodeType) /\ Len(nodes) \in Nat /\ DOMAIN nodes = 1..Len(nodes)
  BY DEF Types
<1> DEFINE e == Node(d, src, said)
           after == Append(nodes, e)
<1>3. e = [sess |-> mem.bound, depth |-> d, src |-> src, said |-> said]
  BY DEF Node
<1>4. e \in NodeType
  BY <1>1
<1> HIDE DEF e
<1>5. /\ after \in Seq(NodeType) /\ Len(after) = Len(nodes) + 1
      /\ \A n \in 1..Len(nodes) : after[n] = nodes[n]
      /\ after[Len(nodes) + 1] = e
  BY <1>2, <1>4, AppendProperties
<1>6. DOMAIN after = 1..(Len(nodes) + 1)
  BY <1>5, LenProperties
<1> HIDE DEF after
<1>7. /\ after \in Seq(NodeType)
      /\ Len(after) = Len(nodes) + 1 /\ Len(nodes) \in Nat
      /\ DOMAIN nodes = 1..Len(nodes) /\ DOMAIN after = 1..(Len(nodes) + 1)
      /\ \A n \in DOMAIN nodes : after[n] = nodes[n]
      /\ after[Len(nodes) + 1]
            = [sess |-> mem.bound, depth |-> d, src |-> src, said |-> said]
  BY <1>2, <1>3, <1>5, <1>6
<1> QED BY <1>7 DEF after, e

\* What moves the sessions of nodes leaves the rest of them.
LEMMA MoveNodes ==
  ASSUME Types, NEW to \in [DOMAIN nodes -> Nat],
         nodes' = [n \in DOMAIN nodes |-> [nodes[n] EXCEPT !.sess = to[n]]]
  PROVE  /\ nodes' \in Seq(NodeType)
         /\ DOMAIN nodes' = DOMAIN nodes
         /\ \A n \in DOMAIN nodes : nodes'[n].sess = to[n] /\ nodes'[n].depth = nodes[n].depth
               /\ nodes'[n].src = nodes[n].src /\ nodes'[n].said = nodes[n].said
<1>1. nodes \in Seq(NodeType) /\ Len(nodes) \in Nat /\ DOMAIN nodes = 1..Len(nodes)
  BY DEF Types
<1>2. ASSUME NEW n \in DOMAIN nodes
      PROVE  /\ nodes'[n] \in NodeType /\ nodes'[n].sess = to[n]
             /\ nodes'[n].depth = nodes[n].depth /\ nodes'[n].src = nodes[n].src
             /\ nodes'[n].said = nodes[n].said
  <2>1. nodes[n] \in NodeType
    BY <1>1, ElementOfSeq
  <2>2. to[n] \in Nat
    OBVIOUS
  <2>3. nodes'[n] = [nodes[n] EXCEPT !.sess = to[n]]
    OBVIOUS
  <2> QED BY <2>1, <2>2, <2>3 DEF NodeType
<1>3. nodes' \in [1..Len(nodes) -> NodeType]
  <2>1. /\ nodes' = [n \in 1..Len(nodes) |-> [nodes[n] EXCEPT !.sess = to[n]]]
        /\ \A n \in 1..Len(nodes) : [nodes[n] EXCEPT !.sess = to[n]] \in NodeType
    BY <1>1, <1>2
  <2> QED BY <2>1
<1>4. nodes' \in Seq(NodeType)
  BY <1>1, <1>3, SeqDef
<1> QED BY <1>1, <1>2, <1>4

\* The beginning.
LEMMA TypeInit == Init => TypeInv
<1> SUFFICES ASSUME Init PROVE TypeInv
  OBVIOUS
<1>1. Types
  <2>1. /\ <<>> \in Seq(Messages) /\ <<>> \in Seq(Texts)
        /\ <<>> \in Seq(RowType) /\ <<>> \in Seq(NodeType)
    OBVIOUS
  <2> QED BY <2>1 DEF Init, Types, Idle, Unbound
<1>2. TypeOK
  BY NumbersAssumption DEF Init, TypeOK, Unbound, Idle, Troubles
<1>3. Working /\ Referring
  BY DEF Init, Working, Referring, Refers, Mentioned, Idle
<1> QED BY <1>1, <1>2, <1>3 DEF TypeInv

\* What is written between two messages of the host keeps every type.
LEMMA WriteType ==
  ASSUME TypeInv, mem.bound # 0, NEW ms \in Seq(Messages), rows' = Appended(ms)
  PROVE  /\ rows' \in Seq(RowType)
         /\ Len(rows') \in Nat /\ Len(rows) \in Nat /\ Len(rows) <= Len(rows')
         /\ DOMAIN rows = 1..Len(rows) /\ DOMAIN rows' = 1..Len(rows')
         /\ \A i \in DOMAIN rows' : rows'[i].sess \in 1..host.sess
<1>1. /\ Appended(ms) \in Seq(RowType)
      /\ Len(Appended(ms)) = Len(rows) + Len(ms) - From(ms)
      /\ \A i \in 1..Len(Appended(ms)) : Appended(ms)[i] =
           IF i <= Len(rows) THEN rows[i]
           ELSE [sess |-> mem.bound, msg |-> ms[From(ms) + i - Len(rows)]]
  BY IngestType DEF TypeInv
<1>2. /\ rows \in Seq(RowType) /\ Len(rows) \in Nat /\ DOMAIN rows = 1..Len(rows)
      /\ Len(ms) \in Nat
  BY DEF TypeInv, Types
<1>3. From(ms) \in 0..Len(ms)
  BY FromRange DEF TypeInv
<1>4. DOMAIN rows' = 1..Len(rows')
  BY <1>1, LenProperties
<1>5. Len(rows') \in Nat /\ Len(rows) <= Len(rows')
  BY <1>1, <1>2, <1>3
<1>6. mem.bound \in 1..host.sess /\ \A i \in DOMAIN rows : rows[i].sess \in 1..host.sess
  BY DEF TypeInv, TypeOK, Types
<1>7. ASSUME NEW i \in DOMAIN rows' PROVE rows'[i].sess \in 1..host.sess
  <2>1. CASE i <= Len(rows)
    <3>1. rows'[i] = rows[i] /\ i \in DOMAIN rows
      BY <1>1, <1>2, <1>4, <1>5, <2>1
    <3> QED BY <1>6, <3>1
  <2>2. CASE ~(i <= Len(rows))
    <3>1. rows'[i] = [sess |-> mem.bound, msg |-> ms[From(ms) + i - Len(rows)]]
      BY <1>1, <1>4, <2>2
    <3> QED BY <1>6, <3>1
  <2> QED BY <2>1, <2>2
<1> QED BY <1>1, <1>2, <1>4, <1>5, <1>7

\* A message of the host.
LEMMA SayType ==
  ASSUME TypeInv, NEW k \in {"sys", "turn"}, NEW t \in Texts, Say(k, t)
  PROVE  TypeInv'
<1> DEFINE m == Message(k, t, Len(host.said) + 1)
<1>1. m \in Messages /\ m.nodes = {}
  BY DEF Message, Messages, TypeInv, Types
<1>2. /\ host.ctx \in Seq(Messages) /\ host.log \in Seq(Messages)
      /\ host.said \in Seq(Texts) /\ Len(host.said) \in Nat
  BY DEF TypeInv, Types
<1> HIDE DEF m
<1>3. /\ Append(host.ctx, m) \in Seq(Messages) /\ Append(host.log, m) \in Seq(Messages)
      /\ Append(host.said, t) \in Seq(Texts)
      /\ Len(Append(host.said, t)) = Len(host.said) + 1
  BY <1>1, <1>2, AppendProperties
<1>4. /\ host' = [host EXCEPT !.ctx = Append(host.ctx, m),
                              !.log = Append(host.log, m),
                              !.said = Append(host.said, t)]
      /\ UNCHANGED <<rows, nodes, life, mem, job, trouble>>
  BY DEF Say, m
<1>5. host.ctx \o <<m>> = Append(host.ctx, m) /\ host.log \o <<m>> = Append(host.log, m)
  BY <1>1, <1>2, AppendIsConcat
<1>6. /\ Mentioned(host.ctx \o <<m>>) = Mentioned(host.ctx)
      /\ Mentioned(host.log \o <<m>>) = Mentioned(host.log)
  <2> DEFINE f == <<m>>
  <2>1. f \in Seq(Messages) /\ Mentioned(f) = {}
    BY <1>1, One
  <2> HIDE DEF f
  <2>2. /\ Mentioned(host.ctx \o f) = Mentioned(host.ctx) \cup Mentioned(f)
        /\ Mentioned(host.log \o f) = Mentioned(host.log) \cup Mentioned(f)
    BY <1>2, <2>1, Concat
  <2> QED BY <2>1, <2>2 DEF f
<1>7. /\ host'.ctx = Append(host.ctx, m) /\ host'.log = Append(host.log, m)
      /\ host'.said = Append(host.said, t) /\ host'.sess = host.sess
      /\ host'.since = host.since
  BY <1>4 DEF TypeInv, Types
<1>8. Types'
  <2>1. host' \in [ctx : Seq(Messages), log : Seq(Messages), sess : Nat,
                   since : Nat, said : Seq(Texts)]
    BY <1>3, <1>4 DEF TypeInv, Types
  <2> QED BY <1>4, <2>1 DEF TypeInv, Types
<1>9. TypeOK'
  BY <1>2, <1>3, <1>4, <1>7 DEF TypeInv, TypeOK
<1>10. Working' /\ Referring'
  BY <1>4, <1>5, <1>6, <1>7 DEF TypeInv, Working, Referring, Refers
<1> QED BY <1>8, <1>9, <1>10 DEF TypeInv

\* An ingest that the engine does for messages of its own or of a child.
LEMMA IngestStep ==
  ASSUME TypeInv, mem.bound # 0, NEW ms \in Seq(Messages), Ingest(ms)
  PROVE  /\ rows' \in Seq(RowType) /\ Len(rows) <= Len(rows')
         /\ Len(rows') \in Nat /\ Len(rows) \in Nat
         /\ DOMAIN rows \subseteq DOMAIN rows'
         /\ mem' \in [bound : Nat, cursor : Nat, needs : BOOLEAN, last : Nat]
         /\ mem'.bound = mem.bound /\ mem'.last = mem.last
         /\ \A i \in DOMAIN rows' : rows'[i].sess \in 1..host.sess
<1>1. rows' = Appended(ms) /\ mem' = Advanced(ms)
  BY DEF Ingest
<1>2. /\ Advanced(ms) \in [bound : Nat, cursor : Nat, needs : BOOLEAN, last : Nat]
      /\ Advanced(ms).bound = mem.bound /\ Advanced(ms).last = mem.last
  BY IngestType DEF TypeInv
<1>3. /\ rows' \in Seq(RowType)
      /\ Len(rows') \in Nat /\ Len(rows) \in Nat /\ Len(rows) <= Len(rows')
      /\ DOMAIN rows = 1..Len(rows) /\ DOMAIN rows' = 1..Len(rows')
      /\ \A i \in DOMAIN rows' : rows'[i].sess \in 1..host.sess
  BY <1>1, WriteType
<1> QED BY <1>1, <1>2, <1>3

LEMMA TurnType == TypeInv /\ Turn => TypeInv'
<1> SUFFICES ASSUME TypeInv, Turn PROVE TypeInv'
  OBVIOUS
<1>1. /\ host.ctx \in Seq(Messages) /\ mem.bound # 0 /\ Ingest(host.ctx)
      /\ UNCHANGED <<host, nodes, life, job, trouble>>
  BY DEF Turn, Quiet, TypeInv, Types
<1>2. /\ rows' \in Seq(RowType) /\ Len(rows) <= Len(rows')
      /\ Len(rows') \in Nat /\ Len(rows) \in Nat
      /\ DOMAIN rows \subseteq DOMAIN rows'
      /\ mem' \in [bound : Nat, cursor : Nat, needs : BOOLEAN, last : Nat]
      /\ mem'.bound = mem.bound /\ mem'.last = mem.last
      /\ \A i \in DOMAIN rows' : rows'[i].sess \in 1..host.sess
  BY <1>1, IngestStep
<1>3. Types'
  BY <1>1, <1>2 DEF TypeInv, Types
<1>4. TypeOK'
  BY <1>1, <1>2 DEF TypeInv, TypeOK, Types
<1>5. Working' /\ Referring'
  BY <1>1, <1>2 DEF TypeInv, Working, Referring, Refers
<1> QED BY <1>3, <1>4, <1>5 DEF TypeInv

LEMMA CompressType == TypeInv /\ Compress => TypeInv'
<1> SUFFICES ASSUME TypeInv, Compress PROVE TypeInv'
  OBVIOUS
<1>1. /\ host.ctx \in Seq(Messages) /\ host.ctx # <<>> /\ mem.bound # 0 /\ Ingest(host.ctx)
      /\ job' = [Idle EXCEPT !.pc = "leaf", !.work = host.ctx]
      /\ UNCHANGED <<host, nodes, life, trouble>>
  BY DEF Compress, Quiet, TypeInv, Types
<1>2. /\ rows' \in Seq(RowType) /\ Len(rows) <= Len(rows')
      /\ Len(rows') \in Nat /\ Len(rows) \in Nat
      /\ DOMAIN rows \subseteq DOMAIN rows'
      /\ mem' \in [bound : Nat, cursor : Nat, needs : BOOLEAN, last : Nat]
      /\ mem'.bound = mem.bound /\ mem'.last = mem.last
      /\ \A i \in DOMAIN rows' : rows'[i].sess \in 1..host.sess
  BY <1>1, IngestStep
<1>3. job' = [pc |-> "leaf", work |-> host.ctx, ids |-> {}, depth |-> 0]
  BY <1>1 DEF Idle
<1>4. Types'
  BY <1>1, <1>2, <1>3 DEF TypeInv, Types
<1>5. TypeOK'
  <2>1. job'.ids = {} /\ mem'.cursor \in Nat /\ mem'.needs \in BOOLEAN
    BY <1>2, <1>3
  <2>2. /\ {mem'.last, life'.fr, life'.lastfr} \subseteq 0..Len(rows')
        /\ mem'.bound \in {0, host'.sess}
    BY <1>1, <1>2 DEF TypeInv, TypeOK, Types
  <2> QED BY <1>1, <1>2, <2>1, <2>2 DEF TypeInv, TypeOK
<1>6. Working' /\ Referring'
  BY <1>1, <1>2, <1>3 DEF TypeInv, Working, Referring, Refers
<1> QED BY <1>4, <1>5, <1>6 DEF TypeInv

LEMMA ChildEndType ==
  ASSUME TypeInv, NEW n \in 1..2, NEW t \in Texts,
         ChildEnd([i \in 1..n |-> Message("turn", t, 0)])
  PROVE  TypeInv'
<1> DEFINE ms == [i \in 1..n |-> Message("turn", t, 0)]
<1>0. ms \in Seq(Messages)
  <2>1. Message("turn", t, 0) \in Messages
    BY DEF Message, Messages
  <2> QED BY <2>1
<1> HIDE DEF ms
<1>1. /\ mem.bound # 0 /\ Ingest(ms) /\ trouble' = trouble \cup {"child"}
      /\ UNCHANGED <<host, nodes, life, job>>
  BY DEF ChildEnd, Quiet, Befalls, Known, ms
<1>2. /\ rows' \in Seq(RowType) /\ Len(rows) <= Len(rows')
      /\ Len(rows') \in Nat /\ Len(rows) \in Nat
      /\ DOMAIN rows \subseteq DOMAIN rows'
      /\ mem' \in [bound : Nat, cursor : Nat, needs : BOOLEAN, last : Nat]
      /\ mem'.bound = mem.bound /\ mem'.last = mem.last
      /\ \A i \in DOMAIN rows' : rows'[i].sess \in 1..host.sess
  BY <1>0, <1>1, IngestStep
<1>3. Types'
  BY <1>1, <1>2 DEF TypeInv, Types
<1>4. TypeOK'
  <2>0. TypeOK
    BY DEF TypeInv
  <2>1. {mem'.last, life'.fr, life'.lastfr} \subseteq 0..Len(rows')
    <3>1. {mem.last, life.fr, life.lastfr} \subseteq 0..Len(rows)
      BY <2>0 DEF TypeOK
    <3>2. 0..Len(rows) \subseteq 0..Len(rows')
      BY <1>2
    <3> QED BY <1>1, <1>2, <3>1, <3>2
  <2>2. mem'.bound \in {0, host'.sess} /\ mem'.cursor \in Nat /\ mem'.needs \in BOOLEAN
    BY <1>1, <1>2, <2>0 DEF TypeOK
  <2>3. job'.ids \subseteq DOMAIN rows' /\ trouble' \subseteq Troubles
    BY <1>1, <1>2, <2>0 DEF TypeOK, Troubles
  <2>4. \A i \in DOMAIN rows' : rows'[i].sess \in 1..host'.sess
    BY <1>1, <1>2
  <2> QED BY <1>1, <2>0, <2>1, <2>2, <2>3, <2>4 DEF TypeOK
<1>5. Working' /\ Referring'
  BY <1>1, <1>2 DEF TypeInv, Working, Referring, Refers
<1> QED BY <1>3, <1>4, <1>5 DEF TypeInv

LEMMA FrontierType == TypeInv /\ Frontier => TypeInv'
<1> SUFFICES ASSUME TypeInv, Frontier PROVE TypeInv'
  OBVIOUS
<1> DEFINE f == Max(job.ids \cup {0})
<1>1. f \in 0..Len(rows) /\ Len(rows) \in Nat
  <2>1. Len(rows) \in Nat /\ DOMAIN rows = 1..Len(rows)
    BY LenProperties DEF TypeInv, Types
  <2>2. job.ids \cup {0} \subseteq 0..Len(rows)
    BY <2>1 DEF TypeInv, TypeOK
  <2>3. f \in job.ids \cup {0}
    BY <2>1, <2>2, MaxOfNats
  <2> HIDE DEF f
  <2> QED BY <2>1, <2>2, <2>3
<1> DEFINE g == IF life.cur = mem.bound THEN Max({life.fr, f}) ELSE life.fr
<1>2. g \in 0..Len(rows)
  <2> HIDE DEF f
  <2>1. life.fr \in Nat /\ f \in Nat /\ {life.fr, f} \subseteq 0..Len(rows)
    BY <1>1 DEF TypeInv, TypeOK, Types
  <2>2. Max({life.fr, f}) \in {life.fr, f}
    BY <2>1, MaxOfTwo
  <2> QED BY <2>1, <2>2
<1>3. /\ mem' = [mem EXCEPT !.last = f]
      /\ life' = [life EXCEPT !.fr = g]
      /\ job' = [job EXCEPT !.pc = "condense"] /\ job.pc = "frontier"
      /\ UNCHANGED <<host, rows, nodes, trouble>>
  BY DEF Frontier
<1> HIDE DEF f, g
<1>4. Types'
  <2>0. f \in Nat /\ g \in Nat
    BY <1>1, <1>2
  <2>1. mem' \in [bound : Nat, cursor : Nat, needs : BOOLEAN, last : Nat]
    BY <1>3, <2>0 DEF TypeInv, Types
  <2>2. life' \in [cur : Nat, fr : Nat, lastfr : Nat]
    BY <1>3, <2>0 DEF TypeInv, Types
  <2>3. job' \in [pc : {"idle", "leaf", "frontier", "condense"},
                  work : Seq(Messages), ids : SUBSET Nat, depth : Nat]
    BY <1>3 DEF TypeInv, Types
  <2> QED BY <1>3, <2>1, <2>2, <2>3 DEF TypeInv, Types
<1>5. TypeOK'
  BY <1>1, <1>2, <1>3 DEF TypeInv, TypeOK, Types
<1>6. Working' /\ Referring'
  BY <1>1, <1>2, <1>3 DEF TypeInv, Types, Working, Referring, Refers
<1> QED BY <1>4, <1>5, <1>6 DEF TypeInv

\* A leaf: its chunk and what it leaves to do.
LEMMA LeafParts ==
  ASSUME TypeInv, job.pc = "leaf",
         NEW k, k \in (Anchor(Trimmed(job.work)) + 1)..(Len(Trimmed(job.work)) - Fresh)
  PROVE  LET w == Trimmed(job.work)
             rest == SubSeq(w, 1, Anchor(w)) \o SubSeq(w, k + 1, Len(w))
             chunk == SubSeq(w, Anchor(w) + 1, k)
         IN  /\ w \in Seq(Messages) /\ k \in (Anchor(w) + 1)..Len(w) /\ Len(w) \in Nat
             /\ chunk \in Seq(Messages) /\ rest \in Seq(Messages) /\ rest # <<>>
             /\ Refers(w) /\ Refers(chunk) /\ Refers(rest)
             /\ Anchor(w) <= Anchor(rest) /\ Len(rest) = Anchor(w) + Len(w) - k
             /\ \A i \in 1..Anchor(w) : rest[i] = w[i]
             /\ \A i \in (Anchor(w) + 1)..Len(rest) : rest[i] = w[k + i - Anchor(w)]
             /\ \A i \in (Anchor(rest) + 1)..Len(rest) :
                   \E j \in (Anchor(w) + 1)..Len(w) : rest[i] = w[j]
             /\ UidsOf(w) = UidsOf(chunk) \cup UidsOf(rest)
             /\ Mentioned(w) = Mentioned(chunk) \cup Mentioned(rest)
<1> DEFINE w == Trimmed(job.work)
           a == Anchor(w)
           rest == SubSeq(w, 1, a) \o SubSeq(w, k + 1, Len(w))
           chunk == SubSeq(w, a + 1, k)
           o == Anchor(job.work)
           P == 1..o \cup (o + Lead(job.work) + 1)..Len(job.work)
<1>1. job.work \in Seq(Messages) /\ job.work # <<>> /\ Refers(job.work)
  BY DEF TypeInv, Types, Working, Referring
<1>2. /\ w \in Seq(Messages) /\ w # <<>>
      /\ Mentioned(w) = UNION {job.work[i].nodes : i \in P}
  BY <1>1, TrimmedType
<1>3. Mentioned(w) \subseteq Mentioned(job.work)
  <2>1. /\ Lead(job.work) \in 0..(Len(job.work) - 1) /\ Len(job.work) \in Nat
        /\ Len(job.work) >= 1 /\ DOMAIN job.work = 1..Len(job.work)
        /\ o \in 0..1 /\ o <= Len(job.work)
    BY <1>1, LeadRange, AnchorRange, EmptySeq, LenProperties
  <2> HIDE DEF w, o
  <2>2. P \subseteq DOMAIN job.work
    BY <2>1
  <2> HIDE DEF P
  <2> QED BY <1>2, <2>2 DEF Mentioned
<1> HIDE DEF P, o
<1>0. a \in 0..1 /\ a <= Len(w) /\ (a = 1 <=> w[1].kind \in {"sys", "note"})
  BY <1>2, AnchorRange
<1>k. k \in (a + 1)..(Len(w) - Fresh)
  OBVIOUS
<1> HIDE DEF w, a
<1>4. Len(w) \in Nat /\ k \in (a + 1)..Len(w) /\ k + 1 \in (a + 1)..(Len(w) + 1)
      /\ k + 1 <= Len(w) /\ a \in 0..Len(w)
  BY <1>2, <1>0, <1>k, NumbersAssumption
<1>5. /\ chunk \in Seq(Messages)
      /\ UidsOf(chunk) = {w[i].uid : i \in (a + 1)..k} \ {0}
      /\ Mentioned(chunk) = UNION {w[i].nodes : i \in (a + 1)..k}
  <2> DEFINE q == a + 1
  <2>1. q \in 1..(Len(w) + 1) /\ k \in (q - 1)..Len(w)
    BY <1>0, <1>4
  <2> HIDE DEF q
  <2>2. chunk = SubSeq(w, q, k)
    BY DEF q
  <2> HIDE DEF chunk
  <2>3. /\ chunk \in Seq(Messages)
        /\ UidsOf(chunk) = {w[i].uid : i \in q..k} \ {0}
        /\ Mentioned(chunk) = UNION {w[i].nodes : i \in q..k}
    BY <1>2, <2>1, <2>2, Part
  <2> QED BY <2>3 DEF q
<1> DEFINE p == k + 1
           v == SubSeq(w, 1, a) \o SubSeq(w, p, Len(w))
<1>6. /\ v \in Seq(Messages)
      /\ Len(v) = Len(w) - p + 1 + a
      /\ \A i \in 1..a : v[i] = w[i]
      /\ \A i \in (a + 1)..Len(v) : v[i] = w[p + i - a - 1]
      /\ UidsOf(v) = {w[i].uid : i \in 1..a \cup p..Len(w)} \ {0}
      /\ Mentioned(v) = UNION {w[i].nodes : i \in 1..a \cup p..Len(w)}
  <2>1. p \in (a + 1)..(Len(w) + 1)
    BY <1>4
  <2> HIDE DEF p
  <2> QED BY <1>2, <1>4, <2>1, Without
<1>7. rest = v
  OBVIOUS
<1> HIDE DEF v, rest, chunk
<1>a. Len(v) = a + Len(w) - k /\ v # <<>>
  <2>1. Len(v) = a + Len(w) - k /\ Len(v) >= 1
    BY <1>0, <1>4, <1>6
  <2> QED BY <1>6, <2>1, EmptySeq
<1>b. ASSUME NEW i \in (a + 1)..Len(v) PROVE v[i] = w[k + i - a]
  <2>1. p + i - a - 1 = k + i - a
    BY <1>0, <1>4
  <2> HIDE DEF p
  <2> QED BY <1>6, <2>1
<1>c. a <= Anchor(v) /\ Anchor(v) \in 0..1
  <2>1. CASE a = 1
    <3>1. v[1] = w[1]
      BY <1>6, <2>1
    <3> QED BY <1>0, <1>6, <1>a, <2>1, <3>1, AnchorRange
  <2>2. CASE a = 0
    BY <1>6, <2>2, AnchorRange
  <2> QED BY <1>0, <2>1, <2>2
<1>8. ASSUME NEW i \in (Anchor(v) + 1)..Len(v) PROVE \E j \in (a + 1)..Len(w) : v[i] = w[j]
  <2>1. i \in (a + 1)..Len(v) /\ k + i - a \in (a + 1)..Len(w)
    BY <1>0, <1>4, <1>a, <1>c
  <2> QED BY <1>b, <2>1
<1>9. 1..Len(w) = (a + 1)..k \cup (1..a \cup p..Len(w)) /\ DOMAIN w = 1..Len(w)
  BY <1>0, <1>2, <1>4, LenProperties
<1> HIDE DEF p
<1>10. UidsOf(w) = UidsOf(chunk) \cup UidsOf(v)
  <2>1. UidsOf(w) = {w[i].uid : i \in 1..Len(w)} \ {0}
    BY <1>9 DEF UidsOf
  <2>2. {w[i].uid : i \in 1..Len(w)}
          = {w[i].uid : i \in (a + 1)..k} \cup {w[i].uid : i \in 1..a \cup p..Len(w)}
    BY <1>9
  <2> QED BY <1>5, <1>6, <2>1, <2>2
<1>11. Mentioned(w) = Mentioned(chunk) \cup Mentioned(v)
  <2>1. Mentioned(w) = UNION {w[i].nodes : i \in 1..Len(w)}
    BY <1>9 DEF Mentioned
  <2>2. UNION {w[i].nodes : i \in 1..Len(w)}
          = (UNION {w[i].nodes : i \in (a + 1)..k})
              \cup (UNION {w[i].nodes : i \in 1..a \cup p..Len(w)})
    BY <1>9
  <2> QED BY <1>5, <1>6, <2>1, <2>2
<1>12. Refers(w) /\ Refers(chunk) /\ Refers(v)
  BY <1>1, <1>3, <1>11 DEF Refers
<1>13. /\ w \in Seq(Messages) /\ k \in (a + 1)..Len(w) /\ Len(w) \in Nat
       /\ chunk \in Seq(Messages) /\ rest \in Seq(Messages) /\ rest # <<>>
       /\ Refers(w) /\ Refers(chunk) /\ Refers(rest)
       /\ a <= Anchor(rest) /\ Len(rest) = a + Len(w) - k
       /\ \A i \in 1..a : rest[i] = w[i]
       /\ \A i \in (a + 1)..Len(rest) : rest[i] = w[k + i - a]
       /\ \A i \in (Anchor(rest) + 1)..Len(rest) :
             \E j \in (a + 1)..Len(w) : rest[i] = w[j]
       /\ UidsOf(w) = UidsOf(chunk) \cup UidsOf(rest)
       /\ Mentioned(w) = Mentioned(chunk) \cup Mentioned(rest)
  BY <1>2, <1>4, <1>5, <1>6, <1>7, <1>8, <1>10, <1>11, <1>12, <1>a, <1>b, <1>c
<1> QED BY <1>13, Zenon DEF w, a, rest, chunk

\* A leaf appends one node and leaves the rest of the work.
LEMMA LeafStep ==
  ASSUME TypeInv, Leaf
  PROVE  \E k \in (Anchor(Trimmed(job.work)) + 1)..(Len(Trimmed(job.work)) - Fresh) :
           LET w == Trimmed(job.work)
               rest == SubSeq(w, 1, Anchor(w)) \o SubSeq(w, k + 1, Len(w))
               chunk == SubSeq(w, Anchor(w) + 1, k)
           IN  /\ nodes' \in Seq(NodeType)
               /\ DOMAIN nodes = 1..Len(nodes) /\ DOMAIN nodes' = 1..(Len(nodes) + 1)
               /\ DOMAIN nodes \subseteq DOMAIN nodes' /\ Len(nodes) \in Nat
               /\ \A n \in DOMAIN nodes : nodes'[n] = nodes[n]
               /\ nodes'[Len(nodes) + 1].sess = mem.bound
               /\ nodes'[Len(nodes) + 1].depth = 0
               /\ nodes'[Len(nodes) + 1].said = Covers(chunk)
               /\ nodes'[Len(nodes) + 1].src = IdsOf(chunk)
               /\ job' = [pc |-> "frontier", work |-> rest,
                          ids |-> IdsOf(chunk), depth |-> 0]
               /\ IdsOf(chunk) \subseteq DOMAIN rows /\ IdsOf(chunk) \subseteq Nat
               /\ job.pc = "leaf" /\ UNCHANGED <<host, rows, life, mem, trouble>>
<1> DEFINE w == Trimmed(job.work)
<1>1. PICK k \in (Anchor(w) + 1)..(Len(w) - Fresh) :
        LET chunk == SubSeq(w, Anchor(w) + 1, k)
        IN  /\ nodes' = Append(nodes, Node(0, IdsOf(chunk), Covers(chunk)))
            /\ job' = [pc |-> "frontier",
                       work |-> SubSeq(w, 1, Anchor(w)) \o SubSeq(w, k + 1, Len(w)),
                       ids |-> IdsOf(chunk), depth |-> 0]
  BY DEF Leaf
<1> DEFINE rest == SubSeq(w, 1, Anchor(w)) \o SubSeq(w, k + 1, Len(w))
           chunk == SubSeq(w, Anchor(w) + 1, k)
<1>2. job.pc = "leaf" /\ UNCHANGED <<host, rows, life, mem, trouble>>
  BY DEF Leaf
<1>3. /\ chunk \in Seq(Messages) /\ rest \in Seq(Messages) /\ rest # <<>>
      /\ Refers(chunk) /\ Refers(rest)
  <2>1. job.pc = "leaf" /\ k \in (Anchor(Trimmed(job.work)) + 1)..(Len(Trimmed(job.work)) - Fresh)
    BY <1>2
  <2> HIDE DEF w
  <2> QED BY <2>1, LeafParts, Zenon DEF w
<1> HIDE DEF rest, chunk
<1> DEFINE src == IdsOf(chunk)
           said == Covers(chunk)
<1>4. src \subseteq DOMAIN rows /\ DOMAIN rows \subseteq Nat
  BY IdsType, LenProperties DEF TypeInv, Types
<1>5. said \subseteq Nat
  BY <1>3, CoversType DEF TypeInv
<1>6. /\ nodes' = Append(nodes, Node(0, src, said))
      /\ job' = [pc |-> "frontier", work |-> rest, ids |-> src, depth |-> 0]
  BY <1>1 DEF rest, chunk
<1> HIDE DEF src, said
<1>7. src \subseteq Nat
  BY <1>4
<1>8. /\ nodes' \in Seq(NodeType)
      /\ DOMAIN nodes = 1..Len(nodes) /\ DOMAIN nodes' = 1..(Len(nodes) + 1)
      /\ DOMAIN nodes \subseteq DOMAIN nodes' /\ Len(nodes) \in Nat
      /\ \A n \in DOMAIN nodes : nodes'[n] = nodes[n]
      /\ nodes'[Len(nodes) + 1]
            = [sess |-> mem.bound, depth |-> 0, src |-> src, said |-> said]
  <2>1. Types /\ src \in SUBSET Nat /\ said \in SUBSET Nat
    BY <1>5, <1>7 DEF TypeInv
  <2> DEFINE after == Append(nodes, Node(0, src, said))
  <2>2. /\ after \in Seq(NodeType)
        /\ Len(after) = Len(nodes) + 1 /\ Len(nodes) \in Nat
        /\ DOMAIN nodes = 1..Len(nodes) /\ DOMAIN after = 1..(Len(nodes) + 1)
        /\ \A n \in DOMAIN nodes : after[n] = nodes[n]
        /\ after[Len(nodes) + 1]
              = [sess |-> mem.bound, depth |-> 0, src |-> src, said |-> said]
    BY <2>1, AppendNode
  <2>3. nodes' = after
    BY <1>6
  <2> HIDE DEF after
  <2>4. 1..Len(nodes) \subseteq 1..(Len(nodes) + 1)
    BY <2>2
  <2> QED BY <2>2, <2>3, <2>4
<1>9. /\ nodes'[Len(nodes) + 1].sess = mem.bound
      /\ nodes'[Len(nodes) + 1].depth = 0
      /\ nodes'[Len(nodes) + 1].said = said
      /\ nodes'[Len(nodes) + 1].src = src
  BY <1>8
<1> QED BY <1>2, <1>4, <1>6, <1>7, <1>8, <1>9, Zenon DEF rest, chunk, src, said

LEMMA LeafType == TypeInv /\ Leaf => TypeInv'
<1> SUFFICES ASSUME TypeInv, Leaf PROVE TypeInv'
  OBVIOUS
<1> DEFINE w == Trimmed(job.work)
<1>1. PICK k \in (Anchor(w) + 1)..(Len(w) - Fresh) :
        LET rest == SubSeq(w, 1, Anchor(w)) \o SubSeq(w, k + 1, Len(w))
            chunk == SubSeq(w, Anchor(w) + 1, k)
        IN  /\ nodes' \in Seq(NodeType)
            /\ DOMAIN nodes = 1..Len(nodes) /\ DOMAIN nodes' = 1..(Len(nodes) + 1)
            /\ DOMAIN nodes \subseteq DOMAIN nodes' /\ Len(nodes) \in Nat
            /\ \A n \in DOMAIN nodes : nodes'[n] = nodes[n]
            /\ nodes'[Len(nodes) + 1].sess = mem.bound
            /\ job' = [pc |-> "frontier", work |-> rest,
                       ids |-> IdsOf(chunk), depth |-> 0]
            /\ IdsOf(chunk) \subseteq DOMAIN rows /\ IdsOf(chunk) \subseteq Nat
            /\ job.pc = "leaf" /\ UNCHANGED <<host, rows, life, mem, trouble>>
  BY LeafStep, Zenon
<1> DEFINE rest == SubSeq(w, 1, Anchor(w)) \o SubSeq(w, k + 1, Len(w))
           src == IdsOf(SubSeq(w, Anchor(w) + 1, k))
<1>2. /\ nodes' \in Seq(NodeType)
      /\ DOMAIN nodes = 1..Len(nodes) /\ DOMAIN nodes' = 1..(Len(nodes) + 1)
      /\ DOMAIN nodes \subseteq DOMAIN nodes' /\ Len(nodes) \in Nat
      /\ \A n \in DOMAIN nodes : nodes'[n] = nodes[n]
      /\ nodes'[Len(nodes) + 1].sess = mem.bound
      /\ job' = [pc |-> "frontier", work |-> rest, ids |-> src, depth |-> 0]
      /\ src \subseteq DOMAIN rows /\ src \subseteq Nat
      /\ job.pc = "leaf" /\ UNCHANGED <<host, rows, life, mem, trouble>>
  BY <1>1, Zenon
<1>3. rest \in Seq(Messages) /\ rest # <<>> /\ Refers(rest)
  BY <1>2, LeafParts
<1> HIDE DEF rest, src
<1>4. Types'
  BY <1>2, <1>3 DEF TypeInv, Types
<1>5. TypeOK'
  <2>1. ASSUME NEW n \in DOMAIN nodes' PROVE nodes'[n].sess \in 0..host.sess
    <3>1. n \in DOMAIN nodes \/ n = Len(nodes) + 1
      BY <1>2
    <3>2. mem.bound \in 0..host.sess
      BY DEF TypeInv, TypeOK, Types
    <3> QED BY <1>2, <3>1, <3>2 DEF TypeInv, TypeOK
  <2> QED BY <1>2, <2>1 DEF TypeInv, TypeOK
<1>6. Working' /\ Referring'
  BY <1>2, <1>3 DEF TypeInv, Working, Referring, Refers
<1> QED BY <1>4, <1>5, <1>6 DEF TypeInv

\* A condensation appends one node.
LEMMA CondenseStep ==
  ASSUME TypeInv, NEW d \in 0..MaxDepth, Condense(d)
  PROVE  LET src == FirstOf(AtDepth(d))
             said == UNION {nodes[n].said : n \in src}
         IN  /\ nodes' \in Seq(NodeType)
             /\ Len(nodes) \in Nat
             /\ DOMAIN nodes = 1..Len(nodes) /\ DOMAIN nodes' = 1..(Len(nodes) + 1)
             /\ \A n \in DOMAIN nodes : nodes'[n] = nodes[n]
             /\ nodes'[Len(nodes) + 1].sess = mem.bound
             /\ nodes'[Len(nodes) + 1].depth = d + 1
             /\ nodes'[Len(nodes) + 1].src = src
             /\ nodes'[Len(nodes) + 1].said = said
             /\ src \subseteq Visible(mem.bound) /\ Visible(mem.bound) \subseteq DOMAIN nodes
             /\ \A n \in src : nodes[n].depth = d /\ nodes[n].sess = mem.bound
             /\ job.pc = "condense" /\ job' = [job EXCEPT !.depth = d + 1]
             /\ UNCHANGED <<host, rows, life, mem, trouble>>
<1> DEFINE src == FirstOf(AtDepth(d))
           said == UNION {nodes[n].said : n \in src}
<1>1. nodes \in Seq(NodeType) /\ DOMAIN nodes = 1..Len(nodes) /\ Len(nodes) \in Nat
  BY DEF TypeInv, Types
<1>2. /\ src \subseteq Visible(mem.bound) /\ Visible(mem.bound) \subseteq DOMAIN nodes
      /\ \A n \in src : nodes[n].depth = d /\ nodes[n].sess = mem.bound
  BY DEF FirstOf, AtDepth, Visible, NodesOf
<1>3. src \in SUBSET Nat
  BY <1>1, <1>2
<1>4. said \in SUBSET Nat
  <2>1. ASSUME NEW n \in src PROVE nodes[n].said \subseteq Nat
    <3>1. nodes[n] \in NodeType
      BY <1>1, <1>2, ElementOfSeq
    <3> QED BY <3>1 DEF NodeType
  <2> HIDE DEF src
  <2> QED BY <2>1
<1>5. /\ nodes' = Append(nodes, Node(d + 1, src, said))
      /\ job.pc = "condense" /\ job' = [job EXCEPT !.depth = d + 1]
      /\ UNCHANGED <<host, rows, life, mem, trouble>>
  BY DEF Condense
<1> HIDE DEF src, said
<1> DEFINE e == d + 1
           after == Append(nodes, Node(e, src, said))
<1>6. e \in Nat /\ Types
  BY NumbersAssumption DEF TypeInv
<1> HIDE DEF e
<1>7. /\ after \in Seq(NodeType)
      /\ DOMAIN after = 1..(Len(nodes) + 1)
      /\ \A n \in DOMAIN nodes : after[n] = nodes[n]
      /\ after[Len(nodes) + 1]
            = [sess |-> mem.bound, depth |-> e, src |-> src, said |-> said]
  BY <1>3, <1>4, <1>6, AppendNode
<1>8. nodes' = after
  BY <1>5 DEF e
<1> HIDE DEF after
<1>9. /\ nodes' \in Seq(NodeType)
      /\ DOMAIN nodes' = 1..(Len(nodes) + 1)
      /\ \A n \in DOMAIN nodes : nodes'[n] = nodes[n]
      /\ nodes'[Len(nodes) + 1].sess = mem.bound
      /\ nodes'[Len(nodes) + 1].depth = d + 1
      /\ nodes'[Len(nodes) + 1].src = src
      /\ nodes'[Len(nodes) + 1].said = said
  BY <1>7, <1>8 DEF e
<1> QED BY <1>1, <1>2, <1>5, <1>9, Zenon DEF src, said

LEMMA CondenseType ==
  ASSUME TypeInv, NEW d \in 0..MaxDepth, Condense(d)
  PROVE  TypeInv'
<1>1. /\ nodes' \in Seq(NodeType) /\ Len(nodes) \in Nat
      /\ DOMAIN nodes = 1..Len(nodes) /\ DOMAIN nodes' = 1..(Len(nodes) + 1)
      /\ \A n \in DOMAIN nodes : nodes'[n] = nodes[n]
      /\ nodes'[Len(nodes) + 1].sess = mem.bound
      /\ job.pc = "condense" /\ job' = [job EXCEPT !.depth = d + 1]
      /\ UNCHANGED <<host, rows, life, mem, trouble>>
  BY CondenseStep, Zenon
<1>2. Types'
  <2>1. d + 1 \in Nat
    BY NumbersAssumption
  <2> QED BY <1>1, <2>1 DEF TypeInv, Types
<1>3. TypeOK'
  <2>1. ASSUME NEW n \in DOMAIN nodes' PROVE nodes'[n].sess \in 0..host.sess
    <3>1. n \in DOMAIN nodes \/ n = Len(nodes) + 1
      BY <1>1
    <3>2. mem.bound \in 0..host.sess
      BY DEF TypeInv, TypeOK, Types
    <3> QED BY <1>1, <3>1, <3>2 DEF TypeInv, TypeOK
  <2>2. job'.ids = job.ids
    BY <1>1 DEF TypeInv, Types
  <2> QED BY <1>1, <2>1, <2>2 DEF TypeInv, TypeOK
<1>4. job'.work = job.work /\ job'.pc = job.pc
  BY <1>1 DEF TypeInv, Types
<1>5. Working'
  BY <1>1, <1>4 DEF TypeInv, Working
<1>6. Referring'
  <2>1. DOMAIN nodes \subseteq DOMAIN nodes'
    BY <1>1
  <2> QED BY <1>1, <1>4, <2>1 DEF TypeInv, Referring, Refers
<1> QED BY <1>2, <1>3, <1>5, <1>6 DEF TypeInv

\* What the host goes on with after a compaction.
LEMMA PublishedType ==
  ASSUME TypeInv, NEW w \in Seq(Messages), w # <<>>, Refers(w),
         host' = [host EXCEPT !.ctx = Assembled(w)],
         mem' \in [bound : {mem.bound}, cursor : {Len(Assembled(w))},
                   needs : BOOLEAN, last : {mem.last}],
         job' = Idle, UNCHANGED <<rows, nodes, life, trouble>>
  PROVE  TypeInv'
<1>1. /\ Assembled(w) \in Seq(Messages)
      /\ Visible(mem.bound) \subseteq DOMAIN nodes
      /\ Mentioned(Assembled(w)) = Mentioned(w) \cup Visible(mem.bound)
  BY AssembledType DEF TypeInv
<1>2. Len(Assembled(w)) \in Nat
  BY <1>1
<1>3. /\ host'.ctx = Assembled(w) /\ host'.log = host.log /\ host'.sess = host.sess
      /\ host'.since = host.since /\ host'.said = host.said
  BY DEF TypeInv, Types
<1>4. Types'
  <2>1. host' \in [ctx : Seq(Messages), log : Seq(Messages), sess : Nat,
                   since : Nat, said : Seq(Texts)]
    BY <1>1 DEF TypeInv, Types
  <2>2. mem' \in [bound : Nat, cursor : Nat, needs : BOOLEAN, last : Nat]
    BY <1>2 DEF TypeInv, Types
  <2>3. job' \in [pc : {"idle", "leaf", "frontier", "condense"},
                  work : Seq(Messages), ids : SUBSET Nat, depth : Nat]
    <3>1. <<>> \in Seq(Messages)
      OBVIOUS
    <3> QED BY <3>1 DEF Idle
  <2> QED BY <2>1, <2>2, <2>3 DEF TypeInv, Types
<1>5. TypeOK'
  BY <1>2, <1>3 DEF TypeInv, TypeOK, Types, Idle
<1>6. Working' /\ Referring'
  <2>1. Mentioned(<<>>) = {}
    BY DEF Mentioned
  <2> QED BY <1>1, <1>3, <2>1 DEF TypeInv, Working, Referring, Refers, Idle
<1> QED BY <1>4, <1>5, <1>6 DEF TypeInv

LEMMA PublishType == TypeInv /\ Publish => TypeInv'
<1> SUFFICES ASSUME TypeInv, Publish PROVE TypeInv'
  OBVIOUS
<1>1. job.work \in Seq(Messages) /\ job.work # <<>> /\ Refers(job.work)
  BY DEF TypeInv, Types, Working, Referring, Publish
<1>2. /\ host' = [host EXCEPT !.ctx = Assembled(job.work)]
      /\ mem' = [mem EXCEPT !.cursor = Len(Assembled(job.work)), !.needs = FALSE]
      /\ job' = Idle /\ UNCHANGED <<rows, nodes, life, trouble>>
  BY DEF Publish
<1>3. mem' \in [bound : {mem.bound}, cursor : {Len(Assembled(job.work))},
                needs : BOOLEAN, last : {mem.last}]
  BY <1>2 DEF TypeInv, Types
<1> QED BY <1>1, <1>2, <1>3, PublishedType

LEMMA NoopType == TypeInv /\ Noop => TypeInv'
<1> SUFFICES ASSUME TypeInv, Noop PROVE TypeInv'
  OBVIOUS
<1>1. CASE Lead(job.work) > 0
  <2> DEFINE w == Trimmed(job.work)
  <2>1. job.work \in Seq(Messages) /\ job.work # <<>> /\ Refers(job.work)
    BY DEF TypeInv, Types, Working, Referring, Noop
  <2> DEFINE o == Anchor(job.work)
             P == 1..o \cup (o + Lead(job.work) + 1)..Len(job.work)
  <2>2. /\ w \in Seq(Messages) /\ w # <<>>
        /\ Mentioned(w) = UNION {job.work[i].nodes : i \in P}
    BY <2>1, TrimmedType
  <2>3. P \subseteq DOMAIN job.work
    <3>1. /\ Lead(job.work) \in 0..(Len(job.work) - 1) /\ Len(job.work) \in Nat
          /\ Len(job.work) >= 1 /\ DOMAIN job.work = 1..Len(job.work)
          /\ o \in 0..1 /\ o <= Len(job.work)
      BY <2>1, LeadRange, AnchorRange, EmptySeq, LenProperties
    <3> HIDE DEF o
    <3> QED BY <3>1
  <2> HIDE DEF P
  <2>4. /\ host' = [host EXCEPT !.ctx = Assembled(w)]
        /\ mem' = [mem EXCEPT !.cursor = Len(Assembled(w))]
        /\ job' = Idle /\ UNCHANGED <<rows, nodes, life, trouble>>
    BY <1>1 DEF Noop
  <2> HIDE DEF w
  <2>5. Refers(w)
    BY <2>1, <2>2, <2>3 DEF Refers, Mentioned
  <2>6. mem' \in [bound : {mem.bound}, cursor : {Len(Assembled(w))},
                  needs : BOOLEAN, last : {mem.last}]
    BY <2>4 DEF TypeInv, Types
  <2> QED BY <2>2, <2>4, <2>5, <2>6, PublishedType
<1>2. CASE ~(Lead(job.work) > 0)
  <2>1. UNCHANGED <<host, rows, nodes, life, mem, trouble>> /\ job' = Idle
    BY <1>2 DEF Noop
  <2>2. Types'
    BY <2>1 DEF TypeInv, Types, Idle
  <2>3. TypeOK'
    BY <2>1 DEF TypeInv, TypeOK, Idle
  <2>4. Working' /\ Referring'
    <3>1. Mentioned(<<>>) = {}
      BY DEF Mentioned
    <3> QED BY <2>1, <3>1 DEF TypeInv, Working, Referring, Refers, Idle
  <2> QED BY <2>2, <2>3, <2>4 DEF TypeInv
<1> QED BY <1>1, <1>2

\* A compaction given up, and a process killed, leave the tables.
LEMMA StopType ==
  ASSUME TypeInv, job' = Idle, mem' \in {mem, Unbound}, trouble' \subseteq Troubles,
         UNCHANGED <<host, rows, nodes, life>>
  PROVE  TypeInv'
<1>1. Types'
  <2>1. job' \in [pc : {"idle", "leaf", "frontier", "condense"},
                  work : Seq(Messages), ids : SUBSET Nat, depth : Nat]
    <3>1. <<>> \in Seq(Messages)
      OBVIOUS
    <3> QED BY <3>1 DEF Idle
  <2>2. mem' \in [bound : Nat, cursor : Nat, needs : BOOLEAN, last : Nat]
    <3>1. CASE mem' = mem
      BY <3>1 DEF TypeInv, Types
    <3>2. CASE mem' = Unbound
      BY <3>2 DEF Unbound
    <3> QED BY <3>1, <3>2
  <2> QED BY <2>1, <2>2 DEF TypeInv, Types
<1>2. TypeOK'
  <2>1. /\ mem'.bound \in {0, host.sess} /\ mem'.cursor \in Nat /\ mem'.needs \in BOOLEAN
        /\ mem'.last \in 0..Len(rows)
    <3>1. Len(rows) \in Nat
      BY DEF TypeInv, Types
    <3>2. CASE mem' = mem
      BY <3>2 DEF TypeInv, TypeOK
    <3>3. CASE mem' = Unbound
      BY <3>1, <3>3 DEF Unbound
    <3> QED BY <3>2, <3>3
  <2>2. job'.ids = {}
    BY DEF Idle
  <2> QED BY <2>1, <2>2 DEF TypeInv, TypeOK
<1>3. Working' /\ Referring'
  <2>1. Mentioned(<<>>) = {}
    BY DEF Mentioned
  <2> QED BY <2>1 DEF TypeInv, Working, Referring, Refers, Idle
<1> QED BY <1>1, <1>2, <1>3 DEF TypeInv

LEMMA AbortType == TypeInv /\ Abort => TypeInv'
<1> SUFFICES ASSUME TypeInv, Abort PROVE TypeInv'
  OBVIOUS
<1>1. job' = Idle /\ mem' = mem /\ UNCHANGED <<host, rows, nodes, life>>
  BY DEF Abort
<1>2. trouble' \subseteq Troubles
  BY DEF Abort, Befalls, Known, TypeInv, TypeOK, Troubles
<1> QED BY <1>1, <1>2, StopType

LEMMA CrashType == TypeInv /\ Crash => TypeInv'
<1> SUFFICES ASSUME TypeInv, Crash PROVE TypeInv'
  OBVIOUS
<1>1. job' = Idle /\ mem' = Unbound /\ UNCHANGED <<host, rows, nodes, life>>
  BY DEF Crash
<1>2. trouble' \subseteq Troubles
  BY DEF Crash, Befalls, Known, TypeInv, TypeOK, Troubles
<1> QED BY <1>1, <1>2, StopType

\* The lifecycle row of a session that ended.
LEMMA FinalizedType ==
  ASSUME TypeInv
  PROVE  /\ Finalized(mem.last) \in [cur : {0}, fr : {0}, lastfr : 0..Len(rows)]
         /\ Len(rows) \in Nat
<1>1. life.lastfr \in Nat /\ mem.last \in Nat /\ {life.lastfr, mem.last} \subseteq 0..Len(rows)
  BY DEF TypeInv, Types, TypeOK
<1>2. Max({life.lastfr, mem.last}) \in {life.lastfr, mem.last}
  BY <1>1, MaxOfTwo
<1>3. Len(rows) \in Nat
  BY DEF TypeInv, Types
<1> QED BY <1>1, <1>2, <1>3 DEF Finalized

LEMMA ExitType == TypeInv /\ Exit => TypeInv'
<1> SUFFICES ASSUME TypeInv, Exit PROVE TypeInv'
  OBVIOUS
<1>1. /\ mem.bound # 0 /\ job.pc = "idle" /\ rows' = Appended(host.ctx)
      /\ life' = Finalized(mem.last)
      /\ mem' = Unbound /\ trouble' = trouble \cup {"exit"}
      /\ UNCHANGED <<host, nodes, job>>
  BY DEF Exit, Quiet, Befalls, Known
<1>2. /\ rows' \in Seq(RowType) /\ Len(rows') \in Nat /\ Len(rows) <= Len(rows')
      /\ DOMAIN rows = 1..Len(rows) /\ DOMAIN rows' = 1..Len(rows')
      /\ \A i \in DOMAIN rows' : rows'[i].sess \in 1..host.sess
  <2>1. host.ctx \in Seq(Messages)
    BY DEF TypeInv, Types
  <2> QED BY <1>1, <2>1, WriteType
<1>3. life' \in [cur : {0}, fr : {0}, lastfr : 0..Len(rows)] /\ Len(rows) \in Nat
  BY <1>1, FinalizedType
<1>4. mem' \in [bound : Nat, cursor : Nat, needs : BOOLEAN, last : Nat]
  BY <1>1 DEF Unbound
<1>5. Types'
  <2>1. life' \in [cur : Nat, fr : Nat, lastfr : Nat]
    BY <1>3
  <2> QED BY <1>1, <1>2, <1>4, <2>1 DEF TypeInv, Types
<1>6. TypeOK'
  <2>1. /\ life'.cur = 0 /\ life'.fr \in 0..Len(rows') /\ life'.lastfr \in 0..Len(rows')
    BY <1>2, <1>3
  <2>2. mem'.bound = 0 /\ mem'.cursor = 0 /\ mem'.needs = FALSE /\ mem'.last = 0
    BY <1>1 DEF Unbound
  <2>3. job'.ids \subseteq DOMAIN rows'
    BY <1>1, <1>2, <1>3 DEF TypeInv, TypeOK
  <2>4. 0 \in 0..Len(rows')
    BY <1>2
  <2>5. trouble' \subseteq Troubles
    BY <1>1 DEF TypeInv, TypeOK, Troubles
  <2>6. /\ host.sess \in 1..(MaxSessions + 1) /\ host.said \in Seq(Texts)
        /\ host.since \in 1..(Len(host.said) + 1)
        /\ \A n \in DOMAIN nodes : nodes[n].sess \in 0..host.sess
    BY DEF TypeInv, TypeOK
  <2>7. {mem'.last, life'.fr, life'.lastfr} \subseteq 0..Len(rows')
    BY <2>1, <2>2, <2>4
  <2>8. mem'.cursor \in Nat /\ mem'.needs \in BOOLEAN
    BY <1>4
  <2> QED BY <1>1, <1>2, <2>1, <2>2, <2>3, <2>5, <2>6, <2>7, <2>8 DEF TypeOK
<1>7. Working' /\ Referring'
  BY <1>1 DEF TypeInv, Working, Referring, Refers
<1> QED BY <1>5, <1>6, <1>7 DEF TypeInv

\* A process binds the session of the host again.
LEMMA ResumeType ==
  ASSUME TypeInv, NEW how \in {"transcript", "prompt", "delta"}, Resume(how)
  PROVE  TypeInv'
<1>1. /\ mem.bound = 0
      /\ host' = [host EXCEPT !.ctx = CASE how = "transcript" -> host.log
                                        [] how = "prompt" -> host.ctx
                                        [] how = "delta" -> <<>>]
      /\ life' = IF life.cur = host.sess THEN life
                 ELSE [life EXCEPT !.cur = host.sess, !.fr = 0]
      /\ mem' = [bound |-> host.sess, cursor |-> 0,
                 needs |-> RowsOf(host.sess) # {}, last |-> life'.fr]
      /\ UNCHANGED <<rows, nodes, job>>
  BY DEF Resume
<1>2. trouble' \subseteq Troubles
  <2>1. ({how} \ {"transcript"}) \cup {"single"} \subseteq Troubles
    BY DEF Troubles
  <2> QED BY <2>1 DEF Resume, Known, TypeInv, TypeOK
<1>3. /\ host'.ctx \in {host.ctx, host.log, <<>>}
      /\ host' = [host EXCEPT !.ctx = host'.ctx]
      /\ host'.sess = host.sess /\ host'.log = host.log
      /\ host'.since = host.since /\ host'.said = host.said
  BY <1>1 DEF TypeInv, Types
<1>4. host'.ctx \in Seq(Messages) /\ Mentioned(host'.ctx) \subseteq DOMAIN nodes
  <2>1. Mentioned(<<>>) = {} /\ <<>> \in Seq(Messages)
    BY DEF Mentioned
  <2> QED BY <1>3, <2>1 DEF TypeInv, Types, Referring, Refers
<1>5. /\ life' \in [cur : {host.sess}, fr : 0..Len(rows), lastfr : 0..Len(rows)]
      /\ Len(rows) \in Nat /\ host.sess \in Nat
  <2>1. /\ Len(rows) \in Nat /\ host.sess \in Nat
        /\ life \in [cur : Nat, fr : 0..Len(rows), lastfr : 0..Len(rows)]
    BY DEF TypeInv, TypeOK, Types
  <2>2. CASE life.cur = host.sess
    BY <1>1, <2>1, <2>2
  <2>3. CASE life.cur # host.sess
    <3>1. 0 \in 0..Len(rows)
      BY <2>1
    <3>2. life' = [life EXCEPT !.cur = host.sess, !.fr = 0]
      BY <1>1, <2>3
    <3> QED BY <2>1, <3>1, <3>2
  <2> QED BY <2>1, <2>2, <2>3
<1>6. job.pc = "idle"
  BY <1>1 DEF TypeInv, Working
<1>7. Types'
  <2>1. host' \in [ctx : Seq(Messages), log : Seq(Messages), sess : Nat,
                   since : Nat, said : Seq(Texts)]
    BY <1>3, <1>4 DEF TypeInv, Types
  <2>2. life' \in [cur : Nat, fr : Nat, lastfr : Nat]
    BY <1>5
  <2>3. mem' \in [bound : Nat, cursor : Nat, needs : BOOLEAN, last : Nat]
    BY <1>1, <1>5
  <2> QED BY <1>1, <2>1, <2>2, <2>3 DEF TypeInv, Types
<1>8. TypeOK'
  <2>1. /\ mem'.bound = host.sess /\ mem'.cursor \in Nat /\ mem'.needs \in BOOLEAN
        /\ {mem'.last, life'.fr, life'.lastfr} \subseteq 0..Len(rows)
        /\ life'.cur = host.sess
    BY <1>1, <1>5
  <2> QED BY <1>1, <1>2, <1>3, <2>1 DEF TypeInv, TypeOK
<1>9. Working' /\ Referring'
  BY <1>1, <1>3, <1>4, <1>6 DEF TypeInv, Working, Referring, Refers
<1> QED BY <1>7, <1>8, <1>9 DEF TypeInv

\* Where the nodes are after a session changed.
LEMMA MovedStep ==
  ASSUME TypeInv
  PROVE  /\ [n \in DOMAIN nodes |-> IF nodes[n].sess = host.sess
                                    THEN host.sess + 1 ELSE nodes[n].sess]
                \in [DOMAIN nodes -> 0..(host.sess + 1)]
         /\ Moved = [n \in DOMAIN nodes |->
                [nodes[n] EXCEPT !.sess = IF nodes[n].sess = host.sess
                                          THEN host.sess + 1 ELSE nodes[n].sess]]
<1>1. host.sess \in Nat /\ \A n \in DOMAIN nodes : nodes[n].sess \in 0..host.sess
  BY DEF TypeInv, Types, TypeOK
<1>2. ASSUME NEW n \in DOMAIN nodes
      PROVE  [nodes[n] EXCEPT !.sess = nodes[n].sess] = nodes[n]
  <2>1. nodes[n] \in NodeType
    BY LenProperties, ElementOfSeq DEF TypeInv, Types
  <2> QED BY <2>1 DEF NodeType
<1> QED BY <1>1, <1>2 DEF Moved

LEMMA BoundaryType == TypeInv /\ Boundary => TypeInv'
<1> SUFFICES ASSUME TypeInv, Boundary PROVE TypeInv'
  OBVIOUS
<1> DEFINE f == Max({mem.last, life.fr, life.lastfr})
           to == [n \in DOMAIN nodes |-> IF nodes[n].sess = host.sess
                                         THEN host.sess + 1 ELSE nodes[n].sess]
<1>1. /\ life' = [cur |-> host.sess + 1, fr |-> f, lastfr |-> f]
      /\ mem' = [[mem EXCEPT !.bound = host.sess + 1] EXCEPT !.last = f]
      /\ nodes' = Moved
      /\ host' = [host EXCEPT !.sess = host.sess + 1, !.log = host.ctx]
      /\ host.sess < MaxSessions /\ job.pc = "idle"
      /\ trouble' = trouble \cup {"boundary"} /\ UNCHANGED <<rows, job>>
  BY DEF Boundary, Crossed, Befalls, Known, Quiet, TypeInv, Types
<1>2. f \in 0..Len(rows) /\ Len(rows) \in Nat
  <2>1. {mem.last, life.fr, life.lastfr} \subseteq 0..Len(rows) /\ Len(rows) \in Nat
    BY DEF TypeInv, TypeOK, Types
  <2>2. f \in {mem.last, life.fr, life.lastfr}
    BY <2>1, MaxOfNats
  <2> HIDE DEF f
  <2> QED BY <2>1, <2>2
<1> HIDE DEF f
<1>3. /\ nodes' \in Seq(NodeType) /\ DOMAIN nodes' = DOMAIN nodes
      /\ \A n \in DOMAIN nodes : nodes'[n].sess \in 0..(host.sess + 1)
  <2>1. /\ to \in [DOMAIN nodes -> 0..(host.sess + 1)]
        /\ nodes' = [n \in DOMAIN nodes |-> [nodes[n] EXCEPT !.sess = to[n]]]
    BY <1>1, MovedStep
  <2> HIDE DEF to
  <2>2. to \in [DOMAIN nodes -> Nat] /\ Types
    BY <2>1 DEF TypeInv
  <2> QED BY <2>1, <2>2, MoveNodes
<1>4. /\ host'.ctx = host.ctx /\ host'.log = host.ctx /\ host'.sess = host.sess + 1
      /\ host'.since = host.since /\ host'.said = host.said
  BY <1>1 DEF TypeInv, Types
<1>5. f \in Nat /\ host.sess \in Nat /\ host.sess + 1 \in Nat
  BY <1>2 DEF TypeInv, Types
<1>6. Types'
  <2>1. host' \in [ctx : Seq(Messages), log : Seq(Messages), sess : Nat,
                   since : Nat, said : Seq(Texts)]
    BY <1>1, <1>5 DEF TypeInv, Types
  <2>2. mem' \in [bound : Nat, cursor : Nat, needs : BOOLEAN, last : Nat]
    BY <1>1, <1>5 DEF TypeInv, Types
  <2>3. life' \in [cur : Nat, fr : Nat, lastfr : Nat]
    BY <1>1, <1>5
  <2> QED BY <1>1, <1>3, <2>1, <2>2, <2>3 DEF TypeInv, Types
<1>7. TypeOK'
  <2>1. /\ mem'.bound = host.sess + 1 /\ mem'.last = f
        /\ mem'.cursor = mem.cursor /\ mem'.needs = mem.needs
    BY <1>1 DEF TypeInv, Types
  <2>2. life'.cur = host.sess + 1 /\ life'.fr = f /\ life'.lastfr = f
    BY <1>1
  <2>3. host.sess + 1 \in 1..(MaxSessions + 1)
    BY <1>1, <1>5, NumbersAssumption
  <2>4. \A i \in DOMAIN rows : rows[i].sess \in 1..(host.sess + 1)
    BY <1>5 DEF TypeInv, TypeOK
  <2>5. trouble' \subseteq Troubles
    BY <1>1 DEF TypeInv, TypeOK, Troubles
  <2>6. mem.cursor \in Nat /\ mem.needs \in BOOLEAN /\ job.ids \subseteq DOMAIN rows
        /\ host.said \in Seq(Texts) /\ host.since \in 1..(Len(host.said) + 1)
    BY DEF TypeInv, TypeOK
  <2> QED BY <1>1, <1>2, <1>3, <1>4, <2>1, <2>2, <2>3, <2>4, <2>5, <2>6 DEF TypeOK
<1>8. Working' /\ Referring'
  BY <1>1, <1>3, <1>4 DEF TypeInv, Working, Referring, Refers
<1> QED BY <1>6, <1>7, <1>8 DEF TypeInv

LEMMA NewSessionType ==
  ASSUME TypeInv, NEW carry \in BOOLEAN, NewSession(carry)
  PROVE  TypeInv'
<1> DEFINE Reset(n) == IF nodes[n].sess # host.sess THEN nodes[n].sess
                       ELSE IF nodes[n].depth < Retain THEN 0
                       ELSE IF carry THEN host.sess + 1 ELSE host.sess
           to == [n \in DOMAIN nodes |-> Reset(n)]
<1>1. /\ mem.bound # 0 /\ job.pc = "idle" /\ host.sess < MaxSessions
      /\ rows' = Appended(host.ctx)
      /\ life' = [Finalized(mem.last) EXCEPT !.cur = host.sess + 1]
      /\ mem' = [Unbound EXCEPT !.bound = host.sess + 1]
      /\ host' = [host EXCEPT !.sess = host.sess + 1, !.ctx = <<>>, !.log = <<>>,
                              !.since = Len(host.said) + 1]
      /\ UNCHANGED <<job, trouble>>
  BY DEF NewSession, Quiet, TypeInv, Types
<1>2. nodes' = [n \in DOMAIN nodes |-> [nodes[n] EXCEPT !.sess = to[n]]]
  BY DEF NewSession
<1>3. /\ rows' \in Seq(RowType) /\ Len(rows') \in Nat /\ Len(rows) <= Len(rows')
      /\ DOMAIN rows = 1..Len(rows) /\ DOMAIN rows' = 1..Len(rows')
      /\ \A i \in DOMAIN rows' : rows'[i].sess \in 1..host.sess
  <2>1. host.ctx \in Seq(Messages)
    BY DEF TypeInv, Types
  <2> QED BY <1>1, <2>1, WriteType
<1>4. /\ host.sess \in Nat /\ Len(host.said) \in Nat
      /\ \A n \in DOMAIN nodes : nodes[n].sess \in 0..host.sess
  BY DEF TypeInv, Types, TypeOK
<1>5. /\ nodes' \in Seq(NodeType) /\ DOMAIN nodes' = DOMAIN nodes
      /\ \A n \in DOMAIN nodes : nodes'[n].sess \in 0..(host.sess + 1)
  <2>1. to \in [DOMAIN nodes -> 0..(host.sess + 1)]
    BY <1>4
  <2> HIDE DEF to
  <2>2. to \in [DOMAIN nodes -> Nat] /\ Types
    BY <1>4, <2>1 DEF TypeInv
  <2> QED BY <1>2, <2>1, <2>2, MoveNodes
<1> HIDE DEF to, Reset
<1>6. /\ life' \in [cur : {host.sess + 1}, fr : {0}, lastfr : 0..Len(rows)]
      /\ Len(rows) \in Nat
  BY <1>1, FinalizedType
<1>7. mem' = [bound |-> host.sess + 1, cursor |-> 0, needs |-> FALSE, last |-> 0]
  BY <1>1 DEF Unbound
<1>8. /\ host'.ctx = <<>> /\ host'.log = <<>> /\ host'.sess = host.sess + 1
      /\ host'.since = Len(host.said) + 1 /\ host'.said = host.said
  BY <1>1 DEF TypeInv, Types
<1>9. Types'
  <2>1. <<>> \in Seq(Messages) /\ Len(host.said) + 1 \in Nat /\ host.sess + 1 \in Nat
    BY <1>4
  <2>2. host' \in [ctx : Seq(Messages), log : Seq(Messages), sess : Nat,
                   since : Nat, said : Seq(Texts)]
    BY <1>1, <2>1 DEF TypeInv, Types
  <2>3. mem' \in [bound : Nat, cursor : Nat, needs : BOOLEAN, last : Nat]
    BY <1>4, <1>7
  <2>4. life' \in [cur : Nat, fr : Nat, lastfr : Nat]
    BY <1>4, <1>6
  <2> QED BY <1>1, <1>3, <1>5, <2>2, <2>3, <2>4 DEF TypeInv, Types
<1>10. TypeOK'
  <2>1. {mem'.last, life'.fr, life'.lastfr} \subseteq 0..Len(rows')
    BY <1>3, <1>6, <1>7
  <2>2. /\ mem'.bound = host.sess + 1 /\ life'.cur = host.sess + 1
        /\ mem'.cursor \in Nat /\ mem'.needs \in BOOLEAN
    BY <1>6, <1>7
  <2>3. host.sess + 1 \in 1..(MaxSessions + 1)
    BY <1>1, <1>4, NumbersAssumption
  <2>4. \A i \in DOMAIN rows' : rows'[i].sess \in 1..(host.sess + 1)
    BY <1>3, <1>4
  <2>5. /\ trouble \subseteq Troubles /\ job.ids \subseteq DOMAIN rows'
        /\ host.said \in Seq(Texts)
    BY <1>3, <1>6 DEF TypeInv, TypeOK
  <2>6. Len(host.said) + 1 \in 1..(Len(host.said) + 1)
    BY <1>4
  <2> QED BY <1>1, <1>5, <1>8, <2>1, <2>2, <2>3, <2>4, <2>5, <2>6 DEF TypeOK
<1>11. Working' /\ Referring'
  <2>1. Mentioned(<<>>) = {}
    BY DEF Mentioned
  <2> QED BY <1>1, <1>5, <1>8, <2>1 DEF TypeInv, Working, Referring, Refers
<1> QED BY <1>9, <1>10, <1>11 DEF TypeInv

\* Every step keeps the types.
LEMMA TypeStep == TypeInv /\ [Next]_vars => TypeInv'
<1> SUFFICES ASSUME TypeInv, [Next]_vars PROVE TypeInv'
  OBVIOUS
<1>1. CASE UNCHANGED vars
  BY <1>1 DEF vars, TypeInv, Types, TypeOK, Working, Referring, Refers
<1>2. ASSUME NEW k \in {"sys", "turn"}, NEW t \in Texts, Say(k, t) PROVE TypeInv'
  BY <1>2, SayType
<1>3. ASSUME NEW d \in 0..MaxDepth, Condense(d) PROVE TypeInv'
  BY <1>3, CondenseType
<1>4. ASSUME NEW how \in {"transcript", "prompt", "delta"}, Resume(how) PROVE TypeInv'
  BY <1>4, ResumeType
<1>5. ASSUME NEW carry \in BOOLEAN, NewSession(carry) PROVE TypeInv'
  BY <1>5, NewSessionType
<1>6. ASSUME NEW n \in 1..2, NEW t \in Texts,
             ChildEnd([i \in 1..n |-> Message("turn", t, 0)])
      PROVE  TypeInv'
  BY <1>6, ChildEndType
<1>7. Turn \/ Compress \/ Leaf \/ Frontier \/ Noop \/ Publish => TypeInv'
  BY TurnType, CompressType, LeafType, FrontierType, NoopType, PublishType
<1>8. Abort \/ Crash \/ Exit \/ Boundary => TypeInv'
  BY AbortType, CrashType, ExitType, BoundaryType
<1> QED BY <1>1, <1>2, <1>3, <1>4, <1>5, <1>6, <1>7, <1>8 DEF Next

\* The tables, the lifecycle row, the engine's memory and the job stay well
\* typed, and every counter points into the table it counts.
THEOREM LcmTypeOK == Spec => []TypeOK
<1>1. TypeInv => TypeOK
  BY DEF TypeInv
<1> QED BY TypeInit, TypeStep, <1>1, PTL DEF Spec

-----------------------------------------------------------------------------
(* The forest of nodes.                                                       *)

(* The sources of a deep node are nodes.                                      *)
Rooted == \A n \in DOMAIN nodes :
            nodes[n].depth > 0 => nodes[n].src \subseteq DOMAIN nodes

ForestInv == TypeInv /\ Forest /\ Rooted

\* A new leaf is the source of nothing.
LEMMA LeafForest == ForestInv /\ Leaf => Forest' /\ Rooted'
<1> SUFFICES ASSUME ForestInv, Leaf PROVE Forest' /\ Rooted'
  OBVIOUS
<1>1. /\ DOMAIN nodes = 1..Len(nodes) /\ DOMAIN nodes' = 1..(Len(nodes) + 1)
      /\ DOMAIN nodes \subseteq DOMAIN nodes' /\ Len(nodes) \in Nat
      /\ \A n \in DOMAIN nodes : nodes'[n] = nodes[n]
      /\ nodes'[Len(nodes) + 1].depth = 0
  <2>1. TypeInv
    BY DEF ForestInv
  <2> QED BY <2>1, LeafStep, Zenon
<1>2. \A n \in DOMAIN nodes' : nodes'[n].depth > 0 => n \in DOMAIN nodes
  BY <1>1
<1> QED BY <1>1, <1>2 DEF ForestInv, Forest, Rooted

\* A node that condenses visible nodes of its session condenses none twice.
LEMMA CondenseForest ==
  ASSUME ForestInv, NEW d \in 0..MaxDepth, Condense(d)
  PROVE  Forest' /\ Rooted'
<1> DEFINE src == FirstOf(AtDepth(d))
           new == Len(nodes) + 1
<1>1. /\ Len(nodes) \in Nat
      /\ DOMAIN nodes = 1..Len(nodes) /\ DOMAIN nodes' = 1..(Len(nodes) + 1)
      /\ \A n \in DOMAIN nodes : nodes'[n] = nodes[n]
      /\ nodes'[Len(nodes) + 1].sess = mem.bound
      /\ nodes'[Len(nodes) + 1].depth = d + 1
      /\ nodes'[Len(nodes) + 1].src = src
      /\ src \subseteq Visible(mem.bound) /\ Visible(mem.bound) \subseteq DOMAIN nodes
      /\ \A n \in src : nodes[n].depth = d /\ nodes[n].sess = mem.bound
      /\ job.pc = "condense"
  <2>1. TypeInv
    BY DEF ForestInv
  <2> QED BY <2>1, CondenseStep, Zenon
<1> HIDE DEF src
<1>2. mem.bound # 0
  BY <1>1 DEF ForestInv, TypeInv, Working
<1>3. ASSUME NEW c \in src, NEW m \in DOMAIN nodes, nodes[m].depth > 0
      PROVE  c \notin nodes[m].src
  <2> SUFFICES ASSUME c \in nodes[m].src PROVE FALSE
    OBVIOUS
  <2>1. c \in Visible(mem.bound) /\ c \in DOMAIN nodes /\ nodes[c].sess = mem.bound
    BY <1>1
  <2>2. nodes[c].sess \in {0, nodes[m].sess} /\ nodes[c].depth = nodes[m].depth - 1
    BY <1>3 DEF ForestInv, Forest
  <2>3. nodes[m].sess = mem.bound /\ m \in NodesOf(nodes[c].sess)
    BY <1>2, <2>1, <2>2 DEF NodesOf
  <2>4. nodes[m].depth \in Nat
    <3>1. nodes[m] \in NodeType
      BY <1>1, ElementOfSeq DEF ForestInv, TypeInv, Types
    <3> QED BY <3>1 DEF NodeType
  <2>5. m \in Parents(c)
    BY <2>2, <2>3, <2>4 DEF Parents
  <2> QED BY <2>1, <2>5 DEF Visible
<1>4. ASSUME NEW n \in DOMAIN nodes', nodes'[n].depth > 0
      PROVE  /\ nodes'[n].src \subseteq DOMAIN nodes'
             /\ \A c \in nodes'[n].src :
                  /\ c < n /\ nodes'[c].depth = nodes'[n].depth - 1
                  /\ nodes'[c].sess \in {0, nodes'[n].sess}
             /\ \A m \in DOMAIN nodes' : nodes'[m].depth > 0 /\ m # n =>
                    nodes'[m].src \cap nodes'[n].src = {}
  <2>1. CASE n \in DOMAIN nodes
    <3>1. /\ nodes[n].src \subseteq DOMAIN nodes
          /\ \A c \in nodes[n].src :
               /\ c < n /\ nodes[c].depth = nodes[n].depth - 1
               /\ nodes[c].sess \in {0, nodes[n].sess}
          /\ \A m \in DOMAIN nodes : nodes[m].depth > 0 /\ m # n =>
                 nodes[m].src \cap nodes[n].src = {}
      BY <1>1, <1>4, <2>1 DEF ForestInv, Forest, Rooted
    <3>2. src \cap nodes[n].src = {}
      BY <1>1, <1>3, <1>4, <2>1
    <3>3. DOMAIN nodes \subseteq DOMAIN nodes'
      BY <1>1
    <3>4. \A m \in DOMAIN nodes' : m \in DOMAIN nodes \/ m = new
      BY <1>1
    <3>5. \A m \in DOMAIN nodes' : nodes'[m].depth > 0 /\ m # n =>
             nodes'[m].src \cap nodes'[n].src = {}
      BY <1>1, <2>1, <3>1, <3>2, <3>4
    <3> QED BY <1>1, <2>1, <3>1, <3>3, <3>5
  <2>2. CASE n \notin DOMAIN nodes
    <3>1. n = new
      BY <1>1, <2>2
    <3>2. \A c \in src : c \in DOMAIN nodes /\ c < new
      BY <1>1
    <3>3. \A c \in src : nodes'[c].depth = (d + 1) - 1 /\ nodes'[c].sess = mem.bound
      BY <1>1, NumbersAssumption
    <3>4. \A m \in DOMAIN nodes' : m # n => m \in DOMAIN nodes
      BY <1>1, <3>1
    <3>5. \A m \in DOMAIN nodes : nodes[m].depth > 0 => nodes[m].src \cap src = {}
      BY <1>3
    <3>6. DOMAIN nodes \subseteq DOMAIN nodes'
      BY <1>1
    <3> QED BY <1>1, <3>1, <3>2, <3>3, <3>4, <3>5, <3>6
  <2> QED BY <2>1, <2>2
<1> QED BY <1>4 DEF Forest, Rooted

\* Moving nodes between sessions keeps the forest when sources follow their
\* parents or are deleted.
LEMMA MovedForest ==
  ASSUME ForestInv, NEW to \in [DOMAIN nodes -> Nat],
         nodes' = [n \in DOMAIN nodes |-> [nodes[n] EXCEPT !.sess = to[n]]],
         \A n, c \in DOMAIN nodes :
            /\ nodes[c].sess \in {0, nodes[n].sess}
            /\ nodes[n].depth > 0 /\ nodes[c].depth = nodes[n].depth - 1
            => to[c] \in {0, to[n]}
  PROVE  Forest' /\ Rooted'
<1>1. /\ DOMAIN nodes' = DOMAIN nodes
      /\ \A n \in DOMAIN nodes : nodes'[n].sess = to[n] /\ nodes'[n].depth = nodes[n].depth
            /\ nodes'[n].src = nodes[n].src
  <2>1. Types
    BY DEF ForestInv, TypeInv
  <2> QED BY <2>1, MoveNodes
<1>2. ASSUME NEW n \in DOMAIN nodes, nodes[n].depth > 0, NEW c \in nodes[n].src
      PROVE  /\ c \in DOMAIN nodes /\ c < n /\ nodes[c].depth = nodes[n].depth - 1
             /\ to[c] \in {0, to[n]}
  BY <1>2 DEF ForestInv, Forest, Rooted
<1> QED BY <1>1, <1>2 DEF ForestInv, Forest, Rooted

LEMMA BoundaryForest == ForestInv /\ Boundary => Forest' /\ Rooted'
<1> SUFFICES ASSUME ForestInv, Boundary PROVE Forest' /\ Rooted'
  OBVIOUS
<1> DEFINE to == [n \in DOMAIN nodes |-> IF nodes[n].sess = host.sess
                                         THEN host.sess + 1 ELSE nodes[n].sess]
<1>1. /\ to \in [DOMAIN nodes -> 0..(host.sess + 1)]
      /\ nodes' = [n \in DOMAIN nodes |-> [nodes[n] EXCEPT !.sess = to[n]]]
  <2>1. nodes' = Moved
    BY DEF Boundary, Crossed
  <2> QED BY <2>1, MovedStep DEF ForestInv
<1>2. host.sess \in Nat \ {0}
  BY DEF ForestInv, TypeInv, Types, TypeOK
<1>3. ASSUME NEW n \in DOMAIN nodes, NEW c \in DOMAIN nodes,
             nodes[c].sess \in {0, nodes[n].sess}
      PROVE  to[c] \in {0, to[n]}
  BY <1>2, <1>3
<1> HIDE DEF to
<1>4. to \in [DOMAIN nodes -> Nat]
  BY <1>1, <1>2
<1> QED BY <1>1, <1>3, <1>4, MovedForest

LEMMA NewSessionForest ==
  ASSUME ForestInv, NEW carry \in BOOLEAN, NewSession(carry)
  PROVE  Forest' /\ Rooted'
<1> DEFINE to == [n \in DOMAIN nodes |->
                    IF nodes[n].sess # host.sess THEN nodes[n].sess
                    ELSE IF nodes[n].depth < Retain THEN 0
                    ELSE IF carry THEN host.sess + 1 ELSE host.sess]
<1>1. nodes' = [n \in DOMAIN nodes |-> [nodes[n] EXCEPT !.sess = to[n]]]
  BY DEF NewSession
<1>2. /\ host.sess \in Nat \ {0} /\ Retain \in Nat
      /\ \A n \in DOMAIN nodes : nodes[n].sess \in Nat /\ nodes[n].depth \in Nat
  <2>1. ASSUME NEW n \in DOMAIN nodes PROVE nodes[n].sess \in Nat /\ nodes[n].depth \in Nat
    <3>1. nodes[n] \in NodeType
      BY LenProperties, ElementOfSeq DEF ForestInv, TypeInv, Types
    <3> QED BY <3>1 DEF NodeType
  <2> QED BY <2>1, NumbersAssumption DEF ForestInv, TypeInv, Types, TypeOK
<1>3. ASSUME NEW n \in DOMAIN nodes, NEW c \in DOMAIN nodes,
             nodes[c].sess \in {0, nodes[n].sess},
             nodes[n].depth > 0, nodes[c].depth = nodes[n].depth - 1
      PROVE  to[c] \in {0, to[n]}
  BY <1>2, <1>3
<1>4. to \in [DOMAIN nodes -> Nat]
  BY <1>2
<1> HIDE DEF to
<1> QED BY <1>1, <1>3, <1>4, MovedForest

LEMMA ForestStep == ForestInv /\ [Next]_vars => ForestInv'
<1> SUFFICES ASSUME ForestInv, [Next]_vars PROVE Forest' /\ Rooted'
  BY TypeStep DEF ForestInv
<1>1. CASE UNCHANGED nodes
  BY <1>1 DEF ForestInv, Forest, Rooted
<1>2. ASSUME NEW d \in 0..MaxDepth, Condense(d) PROVE Forest' /\ Rooted'
  BY <1>2, CondenseForest
<1>3. ASSUME NEW carry \in BOOLEAN, NewSession(carry) PROVE Forest' /\ Rooted'
  BY <1>3, NewSessionForest
<1>4. Leaf \/ Boundary => Forest' /\ Rooted'
  BY LeafForest, BoundaryForest
<1>5. /\ \A k, t : Say(k, t) => UNCHANGED nodes
      /\ \A how : Resume(how) => UNCHANGED nodes
      /\ \A ms : ChildEnd(ms) => UNCHANGED nodes
      /\ Turn \/ Compress \/ Frontier \/ Noop \/ Publish \/ Abort \/ Crash \/ Exit
            => UNCHANGED nodes
  BY DEF Say, Resume, ChildEnd, Turn, Compress, Frontier, Noop, Publish, Abort, Crash, Exit
<1> QED BY <1>1, <1>2, <1>3, <1>4, <1>5 DEF Next, vars

\* However compactions, failed ones, crashes, boundaries and resets follow one
\* another, the nodes form a forest and no node is condensed twice.
THEOREM LcmForest == Spec => []Forest
<1>1. Init => ForestInv
  BY TypeInit DEF Init, ForestInv, Forest, Rooted
<1>2. ForestInv => Forest
  BY DEF ForestInv
<1> QED BY <1>1, <1>2, ForestStep, PTL DEF Spec

-----------------------------------------------------------------------------
(* One process: the store is the transcript, and what is behind the cursor is *)
(* what has been said since.                                                  *)

StoredInOrder == \A i \in DOMAIN rows : rows[i].msg.uid = i /\ ~Scaffold(rows[i].msg)
Behind ==
    /\ mem.cursor <= Len(host.ctx)
    /\ Len(rows) + Len(host.ctx) = Len(host.said) + mem.cursor
    /\ \A i \in (mem.cursor + 1)..Len(host.ctx) :
          /\ host.ctx[i].uid = Len(rows) + i - mem.cursor
          /\ ~Scaffold(host.ctx[i])
Straight == Clean({"crash", "exit", "child"}) =>
    /\ ~mem.needs /\ mem.bound # 0
    /\ Behind
    /\ StoredInOrder
    /\ job.pc # "idle" => mem.cursor = Len(host.ctx)

StoreInv == TypeInv /\ Straight

\* An ingest stores what is behind the cursor, in order.
LEMMA StraightWrite ==
  ASSUME TypeInv, ~mem.needs, mem.bound # 0, Behind, StoredInOrder,
         rows' = Appended(host.ctx)
  PROVE  /\ From(host.ctx) = mem.cursor
         /\ Len(rows') = Len(host.said)
         /\ StoredInOrder'
<1>1. /\ host.ctx \in Seq(Messages) /\ Len(host.ctx) \in Nat
      /\ mem.cursor \in Nat /\ Len(rows) \in Nat /\ Len(host.said) \in Nat
      /\ mem.cursor <= Len(host.ctx)
      /\ DOMAIN rows = 1..Len(rows)
  BY DEF TypeInv, Types, Behind
<1>2. From(host.ctx) = mem.cursor
  <2>1. Min({mem.cursor, Len(host.ctx)}) = mem.cursor
    BY <1>1, MinOfTwo
  <2> QED BY <2>1 DEF From
<1>3. /\ rows' \in Seq(RowType)
      /\ Len(rows') = Len(rows) + Len(host.ctx) - mem.cursor
      /\ \A i \in 1..Len(rows') : rows'[i] =
           IF i <= Len(rows) THEN rows[i]
           ELSE [sess |-> mem.bound, msg |-> host.ctx[mem.cursor + i - Len(rows)]]
  <2>1. Types
    BY DEF TypeInv
  <2> QED BY <1>1, <1>2, <2>1, IngestType
<1>4. DOMAIN rows' = 1..Len(rows') /\ Len(rows') \in Nat
  BY <1>3, LenProperties
<1>5. Len(rows') = Len(host.said)
  BY <1>1, <1>3 DEF Behind
<1>6. ASSUME NEW i \in DOMAIN rows'
      PROVE  rows'[i].msg.uid = i /\ ~Scaffold(rows'[i].msg)
  <2>0. i \in 1..Len(rows')
    BY <1>4
  <2>1. CASE i <= Len(rows)
    <3>1. rows'[i] = rows[i]
      BY <1>3, <2>0, <2>1
    <3>2. i \in DOMAIN rows
      BY <1>1, <1>4, <2>0, <2>1
    <3> QED BY <3>1, <3>2 DEF StoredInOrder
  <2>2. CASE ~(i <= Len(rows))
    <3> DEFINE j == mem.cursor + i - Len(rows)
    <3>1. rows'[i] = [sess |-> mem.bound, msg |-> host.ctx[j]]
      BY <1>3, <2>0, <2>2
    <3>3. rows'[i].msg = host.ctx[j]
      BY <3>1
    <3>2. j \in (mem.cursor + 1)..Len(host.ctx) /\ Len(rows) + j - mem.cursor = i
      BY <1>1, <1>3, <1>4, <2>2
    <3> HIDE DEF j
    <3> QED BY <3>2, <3>3 DEF Behind
  <2> QED BY <2>1, <2>2
<1> QED BY <1>2, <1>5, <1>6 DEF StoredInOrder

\* An ingest leaves nothing behind the cursor.
LEMMA StraightIngest ==
  ASSUME TypeInv, ~mem.needs, mem.bound # 0, Behind, StoredInOrder,
         Ingest(host.ctx), UNCHANGED host
  PROVE  /\ ~mem'.needs /\ mem'.bound # 0 /\ mem'.cursor = Len(host.ctx)
         /\ Behind' /\ StoredInOrder'
<1>1. rows' = Appended(host.ctx) /\ mem' = Advanced(host.ctx)
  BY DEF Ingest
<1>2. From(host.ctx) = mem.cursor /\ Len(rows') = Len(host.said) /\ StoredInOrder'
  BY <1>1, StraightWrite
<1>3. mem.cursor \in Nat /\ Len(host.ctx) \in Nat /\ mem.cursor <= Len(host.ctx)
      /\ Len(host.said) \in Nat
  BY DEF TypeInv, Types, Behind
<1>4. mem'.cursor = Len(host.ctx) /\ mem'.needs = FALSE /\ mem'.bound = mem.bound
  BY <1>1, <1>2, <1>3 DEF Advanced, TypeInv, Types
<1>5. Behind'
  <2>1. /\ mem'.cursor <= Len(host'.ctx)
        /\ Len(rows') + Len(host'.ctx) = Len(host'.said) + mem'.cursor
    BY <1>2, <1>3, <1>4
  <2>2. (mem'.cursor + 1)..Len(host'.ctx) = {}
    BY <1>3, <1>4
  <2> QED BY <2>1, <2>2 DEF Behind
<1> QED BY <1>2, <1>4, <1>5

\* A compacted prompt has everything in front of the cursor.
LEMMA StraightPublish ==
  ASSUME TypeInv, NEW w \in Seq(Messages), w # <<>>,
         Behind, StoredInOrder, mem.cursor = Len(host.ctx),
         host' = [host EXCEPT !.ctx = Assembled(w)],
         mem'.cursor = Len(Assembled(w)), UNCHANGED rows
  PROVE  Behind' /\ StoredInOrder'
<1>1. Len(Assembled(w)) \in Nat
  BY AssembledType DEF TypeInv
<1>2. /\ Len(host.ctx) \in Nat /\ Len(rows) \in Nat /\ Len(host.said) \in Nat
      /\ host'.ctx = Assembled(w) /\ host'.said = host.said
  BY DEF TypeInv, Types
<1>3. Len(rows) = Len(host.said)
  <2> DEFINE r == Len(rows)
             c == Len(host.ctx)
             d == Len(host.said)
  <2>1. r + c = d + c
    BY DEF Behind
  <2>2. r \in Nat /\ c \in Nat /\ d \in Nat
    BY <1>2
  <2> HIDE DEF r, c, d
  <2>3. r = d
    BY <2>1, <2>2
  <2> QED BY <2>3 DEF r, d
<1>4. /\ mem'.cursor <= Len(host'.ctx)
      /\ Len(rows') + Len(host'.ctx) = Len(host'.said) + mem'.cursor
      /\ (mem'.cursor + 1)..Len(host'.ctx) = {}
  BY <1>1, <1>2, <1>3
<1> QED BY <1>4 DEF Behind, StoredInOrder

\* A message of the host goes behind the cursor.
LEMMA StraightSay ==
  ASSUME TypeInv, NEW k \in {"sys", "turn"}, NEW t \in Texts, Say(k, t),
         Behind, StoredInOrder
  PROVE  Behind' /\ StoredInOrder'
<1> DEFINE m == Message(k, t, Len(host.said) + 1)
<1>1. m \in Messages /\ m.uid = Len(host.said) + 1 /\ ~Scaffold(m)
  BY DEF Message, Messages, TypeInv, Types, Scaffold
<1>2. /\ host.ctx \in Seq(Messages) /\ host.said \in Seq(Texts)
      /\ Len(host.said) \in Nat /\ Len(host.ctx) \in Nat
      /\ Len(rows) \in Nat /\ mem.cursor \in Nat
  BY DEF TypeInv, Types
<1>3. /\ host'.ctx = Append(host.ctx, m) /\ host'.said = Append(host.said, t)
      /\ UNCHANGED <<rows, mem>>
  BY DEF Say, TypeInv, Types
<1> HIDE DEF m
<1>4. /\ Len(Append(host.ctx, m)) = Len(host.ctx) + 1
      /\ \A i \in 1..Len(host.ctx) : Append(host.ctx, m)[i] = host.ctx[i]
      /\ Append(host.ctx, m)[Len(host.ctx) + 1] = m
      /\ Len(Append(host.said, t)) = Len(host.said) + 1
  BY <1>1, <1>2, AppendProperties
<1>5. /\ mem.cursor <= Len(host.ctx)
      /\ Len(rows) + Len(host.ctx) = Len(host.said) + mem.cursor
  BY DEF Behind
<1>6. ASSUME NEW i \in (mem.cursor + 1)..(Len(host.ctx) + 1)
      PROVE  /\ Append(host.ctx, m)[i].uid = Len(rows) + i - mem.cursor
             /\ ~Scaffold(Append(host.ctx, m)[i])
  <2>1. CASE i = Len(host.ctx) + 1
    <3>1. Append(host.ctx, m)[i] = m
      BY <1>4, <2>1
    <3> DEFINE r == Len(rows)
               c == Len(host.ctx)
               d == Len(host.said)
               p == mem.cursor
    <3>2. r \in Nat /\ c \in Nat /\ d \in Nat /\ p \in Nat /\ r + c = d + p /\ i = c + 1
      BY <1>2, <1>5, <2>1
    <3> HIDE DEF r, c, d, p
    <3>3. d + 1 = r + i - p
      BY <3>2
    <3> QED BY <1>1, <3>1, <3>3 DEF r, d, p
  <2>2. CASE i # Len(host.ctx) + 1
    <3>1. i \in 1..Len(host.ctx) /\ i \in (mem.cursor + 1)..Len(host.ctx)
      BY <1>2, <2>2
    <3>2. Append(host.ctx, m)[i] = host.ctx[i]
      BY <1>4, <3>1
    <3> QED BY <3>1, <3>2 DEF Behind
  <2> QED BY <2>1, <2>2
<1>7. /\ mem.cursor <= Len(host.ctx) + 1
      /\ Len(rows) + (Len(host.ctx) + 1) = (Len(host.said) + 1) + mem.cursor
  <2> DEFINE r == Len(rows)
             c == Len(host.ctx)
             d == Len(host.said)
             p == mem.cursor
  <2>1. r \in Nat /\ c \in Nat /\ d \in Nat /\ p \in Nat /\ p <= c /\ r + c = d + p
    BY <1>2, <1>5
  <2> HIDE DEF r, c, d, p
  <2>2. p <= c + 1 /\ r + (c + 1) = (d + 1) + p
    BY <2>1
  <2> QED BY <2>2 DEF r, c, d, p
<1> QED BY <1>3, <1>4, <1>6, <1>7 DEF Behind, StoredInOrder

\* Every step of one process keeps the store in order.
LEMMA StraightStep == StoreInv /\ [Next]_vars => StoreInv'
<1> SUFFICES ASSUME StoreInv, [Next]_vars PROVE Straight'
  BY TypeStep DEF StoreInv
<1> SUFFICES ASSUME Clean({"crash", "exit", "child"})'
             PROVE  /\ ~mem'.needs /\ mem'.bound # 0
                    /\ Behind' /\ StoredInOrder'
                    /\ job'.pc # "idle" => mem'.cursor = Len(host'.ctx)
  BY DEF Straight
<1> DEFINE Goal == /\ ~mem'.needs /\ mem'.bound # 0
                   /\ Behind' /\ StoredInOrder'
                   /\ job'.pc # "idle" => mem'.cursor = Len(host'.ctx)
<1>0. TypeInv
  BY DEF StoreInv
<1>1. trouble \subseteq trouble'
  BY DEF Next, vars, Say, Turn, Compress, Leaf, Frontier, Noop, Condense, Publish,
         Abort, Crash, Exit, Resume, Boundary, Crossed, NewSession, ChildEnd, Befalls, Known
<1>2. /\ ~mem.needs /\ mem.bound # 0 /\ Behind /\ StoredInOrder
      /\ job.pc # "idle" => mem.cursor = Len(host.ctx)
  BY <1>1 DEF StoreInv, Straight, Clean
<1>3. ASSUME NEW k \in {"sys", "turn"}, NEW t \in Texts, Say(k, t) PROVE Goal
  <2>1. job'.pc = "idle" /\ mem' = mem
    BY <1>3 DEF Say, Quiet
  <2>2. Behind' /\ StoredInOrder'
    BY <1>0, <1>2, <1>3, StraightSay
  <2> QED BY <1>2, <2>1, <2>2
<1>4. CASE Turn \/ Compress
  <2>1. Ingest(host.ctx) /\ UNCHANGED host
    BY <1>4 DEF Turn, Compress
  <2> QED BY <1>0, <1>2, <2>1, StraightIngest
<1>5. CASE Leaf \/ Frontier \/ Abort \/ (\E d \in 0..MaxDepth : Condense(d)) \/ UNCHANGED vars
  <2>1. /\ UNCHANGED <<host, rows>> /\ mem'.needs = mem.needs /\ mem'.bound = mem.bound
        /\ mem'.cursor = mem.cursor
    BY <1>0, <1>5 DEF Leaf, Frontier, Abort, Condense, vars, TypeInv, Types
  <2>2. job'.pc # "idle" => job.pc # "idle"
    BY <1>5 DEF Leaf, Frontier, Abort, Condense, vars, Idle
  <2>3. Behind' /\ StoredInOrder'
    BY <1>2, <2>1 DEF Behind, StoredInOrder
  <2> QED BY <1>2, <2>1, <2>2, <2>3
<1>6. CASE Publish
  <2>1. job.work \in Seq(Messages) /\ job.work # <<>> /\ job.pc = "condense"
    BY <1>0, <1>6 DEF TypeInv, Types, Working, Publish
  <2>2. /\ host' = [host EXCEPT !.ctx = Assembled(job.work)]
        /\ mem' = [mem EXCEPT !.cursor = Len(Assembled(job.work)), !.needs = FALSE]
        /\ job' = Idle /\ UNCHANGED rows
    BY <1>6 DEF Publish
  <2>3. mem'.cursor = Len(Assembled(job.work)) /\ mem'.needs = FALSE /\ mem'.bound = mem.bound
    BY <1>0, <2>2 DEF TypeInv, Types
  <2>4. Behind' /\ StoredInOrder'
    BY <1>0, <1>2, <2>1, <2>2, <2>3, StraightPublish
  <2>5. job'.pc = "idle"
    BY <2>2 DEF Idle
  <2> QED BY <1>2, <2>3, <2>4, <2>5
<1>7. CASE Noop
  <2>1. job.work \in Seq(Messages) /\ job.work # <<>> /\ job.pc = "leaf"
    BY <1>0, <1>7 DEF TypeInv, Types, Working, Noop
  <2>2. job'.pc = "idle" /\ UNCHANGED rows
    BY <1>7 DEF Noop, Idle
  <2>3. CASE Lead(job.work) > 0
    <3> DEFINE w == Trimmed(job.work)
    <3>1. w \in Seq(Messages) /\ w # <<>>
      BY <2>1, TrimmedType
    <3>2. /\ host' = [host EXCEPT !.ctx = Assembled(w)]
          /\ mem' = [mem EXCEPT !.cursor = Len(Assembled(w))]
      BY <1>7, <2>3 DEF Noop
    <3> HIDE DEF w
    <3>3. mem'.cursor = Len(Assembled(w)) /\ mem'.needs = mem.needs /\ mem'.bound = mem.bound
      BY <1>0, <3>2 DEF TypeInv, Types
    <3>4. Behind' /\ StoredInOrder'
      BY <1>0, <1>2, <2>1, <2>2, <3>1, <3>2, <3>3, StraightPublish
    <3> QED BY <1>2, <2>2, <3>3, <3>4
  <2>4. CASE ~(Lead(job.work) > 0)
    <3>1. UNCHANGED <<host, mem>>
      BY <1>7, <2>4 DEF Noop
    <3>2. Behind' /\ StoredInOrder'
      BY <1>2, <2>2, <3>1 DEF Behind, StoredInOrder
    <3> QED BY <1>2, <2>2, <3>1, <3>2
  <2> QED BY <2>3, <2>4
<1>8. CASE Boundary
  <2>1. /\ host'.ctx = host.ctx /\ host'.said = host.said
        /\ mem'.bound = host.sess + 1 /\ mem'.cursor = mem.cursor /\ mem'.needs = mem.needs
        /\ UNCHANGED <<rows, job>> /\ job.pc = "idle" /\ host.sess + 1 # 0
    BY <1>0, <1>8 DEF Boundary, Crossed, Quiet, TypeInv, Types
  <2>2. Behind' /\ StoredInOrder'
    BY <1>2, <2>1 DEF Behind, StoredInOrder
  <2> QED BY <1>2, <2>1, <2>2
<1>9. ASSUME NEW carry \in BOOLEAN, NewSession(carry) PROVE Goal
  <2>1. /\ rows' = Appended(host.ctx) /\ job' = job /\ job.pc = "idle"
        /\ host'.ctx = <<>> /\ host'.said = host.said
        /\ mem' = [bound |-> host.sess + 1, cursor |-> 0, needs |-> FALSE, last |-> 0]
        /\ host.sess + 1 # 0
    <3>1. /\ rows' = Appended(host.ctx) /\ job' = job /\ job.pc = "idle"
          /\ host' = [host EXCEPT !.sess = host.sess + 1, !.ctx = <<>>, !.log = <<>>,
                                  !.since = Len(host.said) + 1]
          /\ mem' = [Unbound EXCEPT !.bound = host.sess + 1]
      BY <1>9 DEF NewSession, Quiet
    <3>2. host'.ctx = <<>> /\ host'.said = host.said /\ host.sess + 1 # 0
      BY <1>0, <3>1 DEF TypeInv, Types
    <3>3. mem' = [bound |-> host.sess + 1, cursor |-> 0, needs |-> FALSE, last |-> 0]
      BY <3>1 DEF Unbound
    <3> QED BY <3>1, <3>2, <3>3
  <2>2. Len(rows') = Len(host.said) /\ StoredInOrder'
    BY <1>0, <1>2, <2>1, StraightWrite
  <2>3. Len(host.said) \in Nat /\ Len(<<>>) = 0
    BY <1>0 DEF TypeInv, Types
  <2>4. Behind'
    <3>1. /\ mem'.cursor <= Len(host'.ctx) /\ (mem'.cursor + 1)..Len(host'.ctx) = {}
          /\ Len(rows') + Len(host'.ctx) = Len(host'.said) + mem'.cursor
      BY <2>1, <2>2, <2>3
    <3> QED BY <3>1 DEF Behind
  <2> QED BY <2>1, <2>2, <2>4
<1>10. CASE Crash \/ Exit
  BY <1>10 DEF Crash, Exit, Befalls, Known, Clean
<1>11. ASSUME NEW how \in {"transcript", "prompt", "delta"}, Resume(how) PROVE Goal
  BY <1>2, <1>11 DEF Resume
<1>12. ASSUME NEW ms, ChildEnd(ms) PROVE Goal
  BY <1>12 DEF ChildEnd, Befalls, Known, Clean
<1> QED BY <1>3, <1>4, <1>5, <1>6, <1>7, <1>8, <1>9, <1>10, <1>11, <1>12 DEF Next

LEMMA StraightInit == Init => StoreInv
<1> SUFFICES ASSUME Init PROVE Straight
  BY TypeInit DEF StoreInv
<1>1. /\ mem.needs = FALSE /\ mem.bound = 1 /\ mem.cursor = 0
      /\ host.ctx = <<>> /\ host.said = <<>> /\ rows = <<>> /\ job.pc = "idle"
  BY DEF Init, Unbound, Idle
<1>2. Behind /\ StoredInOrder
  BY <1>1 DEF Behind, StoredInOrder
<1> QED BY <1>1, <1>2 DEF Straight

\* As long as the process lives, what is not stored is behind the cursor.
LEMMA StraightKeeps ==
  ASSUME StoreInv, Clean({"crash", "exit", "child"})
  PROVE  Lost = {}
<1>1. /\ ~mem.needs /\ mem.bound # 0 /\ Behind /\ StoredInOrder
  BY DEF StoreInv, Straight
<1>2. /\ host.ctx \in Seq(Messages) /\ Len(host.ctx) \in Nat /\ Len(rows) \in Nat
      /\ mem.cursor \in Nat /\ Len(host.said) \in Nat
      /\ DOMAIN rows = 1..Len(rows) /\ DOMAIN host.said = 1..Len(host.said)
  BY LenProperties DEF StoreInv, TypeInv, Types
<1>3. /\ mem.cursor <= Len(host.ctx)
      /\ Len(rows) + Len(host.ctx) = Len(host.said) + mem.cursor
  BY <1>1 DEF Behind
<1>4. Waiting = {host.ctx[i].uid : i \in (mem.cursor + 1)..Len(host.ctx)} \ {0}
  <2> DEFINE p == mem.cursor + 1
             q == Len(host.ctx)
  <2>1. p \in 1..(Len(host.ctx) + 1) /\ q \in (p - 1)..Len(host.ctx)
    BY <1>2, <1>3
  <2> HIDE DEF p, q
  <2>2. UidsOf(SubSeq(host.ctx, p, q)) = {host.ctx[i].uid : i \in p..q} \ {0}
    BY <1>2, <2>1, Part
  <2>3. Waiting = UidsOf(SubSeq(host.ctx, p, q))
    BY <1>1 DEF Waiting, p, q
  <2> QED BY <2>2, <2>3 DEF p, q
<1>5. ASSUME NEW u \in DOMAIN host.said, u > Len(rows) PROVE u \in Waiting
  <2> DEFINE i == mem.cursor + u - Len(rows)
  <2>1. i \in (mem.cursor + 1)..Len(host.ctx) /\ Len(rows) + i - mem.cursor = u /\ u # 0
    <3> DEFINE r == Len(rows)
               c == Len(host.ctx)
               d == Len(host.said)
               p == mem.cursor
    <3>1. r \in Nat /\ c \in Nat /\ d \in Nat /\ p \in Nat /\ r + c = d + p /\ u \in 1..d /\ u > r
      BY <1>2, <1>3, <1>5
    <3> HIDE DEF r, c, d, p
    <3>2. p + u - r \in (p + 1)..c /\ r + (p + u - r) - p = u /\ u # 0
      BY <3>1
    <3> QED BY <3>2 DEF r, c, p
  <2> HIDE DEF i
  <2>2. host.ctx[i].uid = u
    BY <1>1, <2>1 DEF Behind
  <2> QED BY <1>4, <2>1, <2>2
<1>6. ASSUME NEW u \in 1..Len(rows) PROVE u \in Stored
  <2>1. u \in DOMAIN rows /\ rows[u].msg.uid = u /\ u # 0
    BY <1>1, <1>2 DEF StoredInOrder
  <2> DEFINE ms == [i \in DOMAIN rows |-> rows[i].msg]
  <2>2. ms[u].uid = u /\ u \in DOMAIN ms
    BY <2>1
  <2> QED BY <2>1, <2>2 DEF Stored, UidsOf
<1>7. ASSUME NEW u \in DOMAIN host.said PROVE u \in Stored \cup Waiting
  <2>1. u > Len(rows) \/ u \in 1..Len(rows)
    BY <1>2
  <2> QED BY <1>5, <1>6, <2>1
<1> QED BY <1>7 DEF Lost

-----------------------------------------------------------------------------
(* The prompt: every message said in the session is in it or under a summary. *)

Since == host.since..Len(host.said)
SaidOf(N) == UNION {nodes[n].said : n \in N}
Under == SaidOf(Visible(host.sess))

(* Behind the anchor scaffolding says nothing of its own, and what the        *)
(* summaries of a list stand for is under the visible nodes.                  *)
Holds(ms) ==
    /\ \A i \in (Anchor(ms) + 1)..Len(ms) : Scaffold(ms[i]) => ms[i].uid = 0
    /\ SaidOf(Mentioned(ms)) \subseteq Under

Whole(ms) == Holds(ms) /\ Since \subseteq Covers(ms)
PromptPart == Clean({"delta"}) =>
    /\ Whole(host.ctx) /\ Whole(host.log)
    /\ job.pc # "idle" => Holds(job.work) /\ Since \subseteq UidsOf(job.work) \cup Under

PromptInv == ForestInv /\ PromptPart

LEMMA CoversIs == \A ms : Covers(ms) = UidsOf(ms) \cup SaidOf(Mentioned(ms))
BY DEF Covers, SaidOf, Mentioned

\* A new node that is no leaf's or node's source hides nothing but its sources.
LEMMA UnderGrows ==
  ASSUME ForestInv, mem.bound # 0, NEW new \in Nat,
         Len(nodes) \in Nat, new = Len(nodes) + 1,
         DOMAIN nodes = 1..Len(nodes), DOMAIN nodes' = 1..new,
         \A n \in DOMAIN nodes : nodes'[n] = nodes[n],
         nodes'[new].sess = mem.bound, nodes'[new].depth \in Nat,
         UNCHANGED host, NEW hidden,
         \A n \in DOMAIN nodes :
            nodes'[new].depth > nodes[n].depth /\ n \in nodes'[new].src => n \in hidden,
         \A n \in hidden : nodes[n].said \subseteq nodes'[new].said
  PROVE  /\ Under \subseteq Under'
         /\ nodes'[new].said \subseteq Under'
<1>1. mem.bound = host.sess
  BY DEF ForestInv, TypeInv, TypeOK
<1>2. new \in DOMAIN nodes' /\ new \notin DOMAIN nodes /\ DOMAIN nodes \subseteq DOMAIN nodes'
      /\ \A n \in DOMAIN nodes' : n \in DOMAIN nodes \/ n = new
  OBVIOUS
<1>3. nodes'[new].sess = host'.sess
  BY <1>1
<1>4. new \in Visible(host.sess)'
  <2>0. new \in NodesOf(host.sess)'
    BY <1>2, <1>3 DEF NodesOf
  <2> SUFFICES ASSUME NEW p \in Parents(new)' PROVE FALSE
    BY <2>0 DEF Visible
  <2>1. p \in DOMAIN nodes' /\ nodes'[p].depth > nodes'[new].depth /\ new \in nodes'[p].src
    BY DEF Parents, NodesOf
  <2>2. CASE p = new
    BY <2>1, <2>2
  <2>3. CASE p \in DOMAIN nodes
    <3>1. nodes[p].depth > nodes'[new].depth /\ new \in nodes[p].src
      BY <2>1, <2>3
    <3>2. nodes[p].depth \in Nat
      <4>1. nodes[p] \in NodeType
        BY <2>3, ElementOfSeq DEF ForestInv, TypeInv, Types
      <4> QED BY <4>1 DEF NodeType
    <3>3. nodes[p].depth > 0
      BY <3>1, <3>2
    <3> QED BY <1>2, <3>1, <3>3, <2>3 DEF ForestInv, Rooted
  <2> QED BY <1>2, <2>1, <2>2, <2>3
<1>5. ASSUME NEW n \in Visible(host.sess) PROVE n \in Visible(host.sess)' \/ n \in hidden
  <2> SUFFICES ASSUME n \notin hidden, NEW p \in Parents(n)' PROVE FALSE
    BY <1>2 DEF Visible, NodesOf
  <2>1. n \in DOMAIN nodes /\ nodes[n].sess = host.sess /\ Parents(n) = {}
    BY DEF Visible, NodesOf
  <2>2. /\ p \in DOMAIN nodes' /\ nodes'[p].sess = nodes[n].sess
        /\ nodes'[p].depth > nodes[n].depth /\ n \in nodes'[p].src
    BY <2>1 DEF Parents, NodesOf
  <2>3. CASE p = new
    BY <2>1, <2>2, <2>3
  <2>4. CASE p \in DOMAIN nodes
    BY <2>1, <2>2, <2>4 DEF Parents, NodesOf
  <2> QED BY <1>2, <2>2, <2>3, <2>4
<1>6. nodes'[new].said \subseteq Under'
  BY <1>4 DEF Under, SaidOf
<1>7. ASSUME NEW u \in Under PROVE u \in Under'
  <2>1. PICK n \in Visible(host.sess) : u \in nodes[n].said
    BY DEF Under, SaidOf
  <2>2. n \in DOMAIN nodes
    BY DEF Visible, NodesOf
  <2>3. CASE n \in Visible(host.sess)'
    BY <2>1, <2>2, <2>3 DEF Under, SaidOf
  <2>4. CASE n \in hidden
    BY <1>6, <2>1, <2>4
  <2> QED BY <1>5, <2>3, <2>4
<1> QED BY <1>6, <1>7

\* Nodes keep what they stand for.
Keeping == \A n \in DOMAIN nodes : nodes'[n].said = nodes[n].said

LEMMA SaidKept ==
  ASSUME Keeping, NEW N, N \subseteq DOMAIN nodes
  PROVE  UNION {nodes'[n].said : n \in N} = SaidOf(N)
<1>1. \A n \in N : nodes'[n].said = nodes[n].said
  BY DEF Keeping
<1> QED BY <1>1 DEF SaidOf

\* What leaves the host keeps its two lists whole.
LEMMA HostWhole ==
  ASSUME ForestInv, Whole(host.ctx), Whole(host.log), Keeping, Under \subseteq Under',
         UNCHANGED host
  PROVE  Whole(host.ctx)' /\ Whole(host.log)'
<1>1. /\ UNION {nodes'[n].said : n \in Mentioned(host.ctx)} = SaidOf(Mentioned(host.ctx))
      /\ UNION {nodes'[n].said : n \in Mentioned(host.log)} = SaidOf(Mentioned(host.log))
  BY SaidKept DEF ForestInv, TypeInv, Referring, Refers
<1>2. /\ SaidOf(Mentioned(host.ctx))' = SaidOf(Mentioned(host.ctx))
      /\ SaidOf(Mentioned(host.log))' = SaidOf(Mentioned(host.log))
  BY <1>1 DEF SaidOf
<1>3. Since' = Since /\ UidsOf(host.ctx)' = UidsOf(host.ctx) /\ UidsOf(host.log)' = UidsOf(host.log)
  BY DEF Since
<1>4. Covers(host.ctx)' = Covers(host.ctx) /\ Covers(host.log)' = Covers(host.log)
  BY <1>2, <1>3 DEF Covers, SaidOf, Mentioned
<1> QED BY <1>2, <1>3, <1>4 DEF Whole, Holds

\* A new message is in both lists.
LEMMA SayPrompt ==
  ASSUME PromptInv, Clean({"delta"}), NEW k \in {"sys", "turn"}, NEW t \in Texts, Say(k, t)
  PROVE  PromptPart'
<1> DEFINE m == Message(k, t, Len(host.said) + 1)
<1>0. TypeInv /\ ForestInv /\ Whole(host.ctx) /\ Whole(host.log)
  BY DEF PromptInv, ForestInv, PromptPart
<1>1. /\ m \in Messages /\ m.uid = Len(host.said) + 1 /\ m.nodes = {} /\ ~Scaffold(m)
      /\ Len(host.said) + 1 # 0
  BY <1>0 DEF Message, Messages, TypeInv, Types, Scaffold
<1>2. /\ host.ctx \in Seq(Messages) /\ host.log \in Seq(Messages)
      /\ host.said \in Seq(Texts) /\ Len(host.said) \in Nat /\ host.since \in Nat
  BY <1>0 DEF TypeInv, Types
<1>3. /\ host'.ctx = Append(host.ctx, m) /\ host'.log = Append(host.log, m)
      /\ host'.said = Append(host.said, t) /\ host'.since = host.since
      /\ host'.sess = host.sess
      /\ UNCHANGED <<nodes, job>> /\ job.pc = "idle"
  BY <1>0 DEF Say, Quiet, TypeInv, Types
<1> HIDE DEF m
<1>4. Since' = Since \cup {m.uid}
  <2>1. Len(Append(host.said, t)) = Len(host.said) + 1
    BY <1>2, AppendProperties
  <2>2. host.since <= Len(host.said) + 1
    BY <1>0 DEF TypeInv, TypeOK
  <2> QED BY <1>1, <1>2, <1>3, <2>1, <2>2 DEF Since
<1>5. ASSUME NEW ms \in Seq(Messages), Whole(ms)
      PROVE  /\ \A i \in (Anchor(Append(ms, m)) + 1)..Len(Append(ms, m)) :
                   Scaffold(Append(ms, m)[i]) => Append(ms, m)[i].uid = 0
             /\ UidsOf(Append(ms, m)) = UidsOf(ms) \cup {m.uid}
             /\ Mentioned(Append(ms, m)) = Mentioned(ms)
  <2> DEFINE f == <<m>>
  <2>1. /\ f \in Seq(Messages) /\ UidsOf(f) = {m.uid} /\ Mentioned(f) = {}
        /\ Append(ms, m) = ms \o f
    <3>1. UidsOf(f) = {m.uid} \ {0}
      BY <1>1, One
    <3> QED BY <1>1, <3>1, One, AppendIsConcat
  <2> HIDE DEF f
  <2>2. UidsOf(ms \o f) = UidsOf(ms) \cup UidsOf(f)
        /\ Mentioned(ms \o f) = Mentioned(ms) \cup Mentioned(f)
    BY <2>1, Concat
  <2>3. ASSUME NEW i \in (Anchor(Append(ms, m)) + 1)..Len(Append(ms, m)),
               Scaffold(Append(ms, m)[i])
        PROVE  Append(ms, m)[i].uid = 0
    <3>1. /\ Len(ms) \in Nat /\ Len(Append(ms, m)) = Len(ms) + 1
          /\ \A j \in 1..Len(ms) : Append(ms, m)[j] = ms[j]
          /\ Append(ms, m)[Len(ms) + 1] = m
          /\ Append(ms, m) \in Seq(Messages)
      BY <1>1, AppendProperties
    <3>2. i # Len(ms) + 1
      BY <1>1, <2>3, <3>1
    <3>4. Anchor(ms) <= Anchor(Append(ms, m)) /\ Anchor(ms) \in 0..1
          /\ Anchor(Append(ms, m)) \in 0..1
      BY <1>1, AnchorAppend
    <3> DEFINE a == Anchor(ms)
               b == Anchor(Append(ms, m))
               n == Len(ms)
    <3>5. i \in (b + 1)..(n + 1) /\ a <= b /\ a \in 0..1 /\ b \in 0..1 /\ n \in Nat /\ i # n + 1
      BY <2>3, <3>1, <3>2, <3>4
    <3> HIDE DEF a, b, n
    <3>6. i \in (a + 1)..n /\ i \in 1..n
      BY <3>5
    <3>3. i \in (Anchor(ms) + 1)..Len(ms) /\ Append(ms, m)[i] = ms[i]
      BY <3>1, <3>6 DEF a, n
    <3> QED BY <1>5, <2>3, <3>3 DEF Whole, Holds
  <2> QED BY <2>1, <2>2, <2>3
<1>6. Under' = Under
  BY <1>3 DEF Under, SaidOf, Visible, NodesOf, Parents
<1>8. Whole(host.ctx)'
  <2>1. Mentioned(host'.ctx) = Mentioned(host.ctx) /\ UidsOf(host'.ctx) = UidsOf(host.ctx) \cup {m.uid}
    BY <1>0, <1>2, <1>3, <1>5
  <2>2. SaidOf(Mentioned(host.ctx))' = SaidOf(Mentioned(host.ctx))
    BY <1>3, <2>1 DEF SaidOf
  <2>3. Covers(host.ctx)' = UidsOf(host'.ctx) \cup SaidOf(Mentioned(host.ctx))
    BY <2>2 DEF Covers, SaidOf, Mentioned
  <2>4. Covers(host.ctx) = UidsOf(host.ctx) \cup SaidOf(Mentioned(host.ctx))
    BY CoversIs
  <2>5. Holds(host.ctx)'
    BY <1>0, <1>2, <1>3, <1>5, <1>6, <2>2 DEF Holds, Whole
  <2> QED BY <1>0, <1>4, <2>1, <2>3, <2>4, <2>5 DEF Whole
<1>9. Whole(host.log)'
  <2>1. Mentioned(host'.log) = Mentioned(host.log) /\ UidsOf(host'.log) = UidsOf(host.log) \cup {m.uid}
    BY <1>0, <1>2, <1>3, <1>5
  <2>2. SaidOf(Mentioned(host.log))' = SaidOf(Mentioned(host.log))
    BY <1>3, <2>1 DEF SaidOf
  <2>3. Covers(host.log)' = UidsOf(host'.log) \cup SaidOf(Mentioned(host.log))
    BY <2>2 DEF Covers, SaidOf, Mentioned
  <2>4. Covers(host.log) = UidsOf(host.log) \cup SaidOf(Mentioned(host.log))
    BY CoversIs
  <2>5. Holds(host.log)'
    BY <1>0, <1>2, <1>3, <1>5, <1>6, <2>2 DEF Holds, Whole
  <2> QED BY <1>0, <1>4, <2>1, <2>3, <2>4, <2>5 DEF Whole
<1> QED BY <1>3, <1>8, <1>9 DEF PromptPart

\* What holds of a value of the prompt holds of the prompt that becomes it.
LEMMA WholeCtx ==
  ASSUME NEW c, host'.ctx = c, UNCHANGED nodes, Since' = Since, host'.sess = host.sess, Whole(c)
  PROVE  Whole(host.ctx)'
<1>1. Under' = Under
  BY DEF Under, SaidOf, Visible, NodesOf, Parents
<1>2. Covers(host.ctx)' = Covers(c)
  BY DEF Covers, UidsOf
<1>3. SaidOf(Mentioned(host.ctx))' = SaidOf(Mentioned(c))
  BY DEF SaidOf, Mentioned
<1> QED BY <1>1, <1>2, <1>3 DEF Whole, Holds

LEMMA WholeLog ==
  ASSUME NEW c, host'.log = c, UNCHANGED nodes, Since' = Since, host'.sess = host.sess, Whole(c)
  PROVE  Whole(host.log)'
<1>1. Under' = Under
  BY DEF Under, SaidOf, Visible, NodesOf, Parents
<1>2. Covers(host.log)' = Covers(c)
  BY DEF Covers, UidsOf
<1>3. SaidOf(Mentioned(host.log))' = SaidOf(Mentioned(c))
  BY DEF SaidOf, Mentioned
<1> QED BY <1>1, <1>2, <1>3 DEF Whole, Holds

\* Steps that leave the host and the nodes.
LEMMA StillPrompt ==
  ASSUME PromptInv, Clean({"delta"}), UNCHANGED <<host, nodes>>,
         \/ job'.pc = "idle"
         \/ job.pc # "idle" /\ job'.work = job.work
         \/ job'.work = host.ctx
  PROVE  PromptPart'
<1>0. Whole(host.ctx) /\ Whole(host.log)
  BY DEF PromptInv, PromptPart
<1>1. Under' = Under /\ Since' = Since
  BY DEF Under, SaidOf, Visible, NodesOf, Parents, Since
<1>2. Whole(host.ctx)' /\ Whole(host.log)'
  <2>1. /\ Covers(host.ctx)' = Covers(host.ctx) /\ Covers(host.log)' = Covers(host.log)
        /\ SaidOf(Mentioned(host.ctx))' = SaidOf(Mentioned(host.ctx))
        /\ SaidOf(Mentioned(host.log))' = SaidOf(Mentioned(host.log))
    BY DEF Covers, UidsOf, SaidOf, Mentioned
  <2> QED BY <1>0, <1>1, <2>1 DEF Whole, Holds
<1>3. ASSUME job'.pc # "idle"
      PROVE  Holds(job.work)' /\ Since' \subseteq UidsOf(job.work)' \cup Under'
  <2>1. CASE job.pc # "idle" /\ job'.work = job.work
    <3>1. Holds(job.work) /\ Since \subseteq UidsOf(job.work) \cup Under
      BY <2>1 DEF PromptInv, PromptPart
    <3>2. /\ UidsOf(job.work)' = UidsOf(job.work)
          /\ SaidOf(Mentioned(job.work))' = SaidOf(Mentioned(job.work))
      BY <2>1 DEF UidsOf, SaidOf, Mentioned
    <3> QED BY <1>1, <2>1, <3>1, <3>2 DEF Holds
  <2>2. CASE job'.work = host.ctx
    <3>1. /\ UidsOf(job.work)' = UidsOf(host.ctx)
          /\ SaidOf(Mentioned(job.work))' = SaidOf(Mentioned(host.ctx))
      BY <2>2 DEF UidsOf, SaidOf, Mentioned
    <3>2. Holds(job.work)'
      BY <1>0, <1>1, <2>2, <3>1 DEF Holds, Whole
    <3>3. Since \subseteq UidsOf(host.ctx) \cup SaidOf(Mentioned(host.ctx))
          /\ SaidOf(Mentioned(host.ctx)) \subseteq Under
      BY <1>0, CoversIs DEF Whole, Holds
    <3> QED BY <1>1, <3>1, <3>2, <3>3
  <2> QED BY <1>3, <2>1, <2>2
<1> QED BY <1>2, <1>3 DEF PromptPart

\* What a compaction drops before it starts says nothing, and what is left holds.
LEMMA TrimmedHolds ==
  ASSUME NEW w \in Seq(Messages), w # <<>>, Holds(w)
  PROVE  Holds(Trimmed(w)) /\ UidsOf(w) = UidsOf(Trimmed(w))
<1> DEFINE v == Trimmed(w)
           k == Lead(w)
           n == Len(w)
           a == Anchor(w)
           b == Anchor(v)
           P == 1..a \cup (a + k + 1)..n
<1>1. k \in 0..(n - 1) /\ n \in Nat /\ n >= 1 /\ DOMAIN w = 1..n /\ a \in 0..1 /\ a + k <= n
  BY LeadRange, AnchorRange, EmptySeq, LenProperties
<1>2. \A i \in (a + 1)..(a + k) : Scaffold(w[i])
  BY LeadRange
<1>3. /\ Len(v) = n - k /\ a <= b /\ \A i \in (a + 1)..Len(v) : v[i] = w[k + i]
      /\ UidsOf(v) = {w[i].uid : i \in P} \ {0}
      /\ Mentioned(v) = UNION {w[i].nodes : i \in P}
  BY TrimmedType
<1>b. b \in 0..1
  BY TrimmedType, AnchorRange
<1>h. \A i \in (a + 1)..n : Scaffold(w[i]) => w[i].uid = 0
  BY DEF Holds
<1> HIDE DEF v, k, n, a, b
<1>4. P \subseteq 1..n /\ \A i \in 1..n : i \in P \/ i \in (a + 1)..(a + k)
  BY <1>1
<1>5. \A i \in (a + 1)..(a + k) : w[i].uid = 0
  <2>1. (a + 1)..(a + k) \subseteq (a + 1)..n
    BY <1>1
  <2> QED BY <1>2, <1>h, <2>1
<1> HIDE DEF P
<1>6. UidsOf(w) = UidsOf(v)
  <2>1. UidsOf(w) = {w[i].uid : i \in 1..n} \ {0}
    BY <1>1 DEF UidsOf
  <2> QED BY <1>3, <1>4, <1>5, <2>1
<1>7. Mentioned(v) \subseteq Mentioned(w)
  <2>1. Mentioned(w) = UNION {w[i].nodes : i \in 1..n}
    BY <1>1 DEF Mentioned
  <2> QED BY <1>3, <1>4, <2>1
<1>8. SaidOf(Mentioned(v)) \subseteq Under
  BY <1>7 DEF Holds, SaidOf
<1>9. ASSUME NEW i \in (b + 1)..Len(v), Scaffold(v[i]) PROVE v[i].uid = 0
  <2>1. i \in (a + 1)..Len(v) /\ k + i \in (a + 1)..n
    BY <1>1, <1>3, <1>b
  <2> QED BY <1>3, <1>9, <1>h, <2>1
<1> QED BY <1>6, <1>8, <1>9 DEF Holds, v, b

\* The assembled prompt covers what the work and the visible nodes cover.
LEMMA AssembledWhole ==
  ASSUME TypeInv, mem.bound # 0, NEW w \in Seq(Messages), w # <<>>, Holds(w),
         Since \subseteq UidsOf(w) \cup Under
  PROVE  Whole(Assembled(w))
<1> DEFINE c == Assembled(w)
<1>1. /\ UidsOf(c) = UidsOf(w)
      /\ Mentioned(c) = Mentioned(w) \cup Visible(mem.bound)
      /\ Anchor(c) = Anchor(w)
  BY AssembledType DEF TypeInv
<1>d. PICK d \in 0..1 :
         /\ Len(c) = Len(w) + d
         /\ \A i \in (Anchor(w) + 1)..(Anchor(w) + d) : c[i].uid = 0
         /\ \A i \in (Anchor(w) + 1 + d)..Len(c) : c[i] = w[i - d]
  BY AssembledType DEF TypeInv
<1>2. mem.bound = host.sess
  BY DEF TypeInv, TypeOK
<1> HIDE DEF c
<1> DEFINE a == Anchor(w)
           l == Len(w)
           n == Len(c)
<1>a. a \in 0..1 /\ l \in Nat /\ n = l + d
  BY <1>d, AnchorRange
<1>h. \A i \in (a + 1)..l : Scaffold(w[i]) => w[i].uid = 0
  BY DEF Holds
<1>i. /\ \A i \in (a + 1)..(a + d) : c[i].uid = 0
      /\ \A i \in (a + 1 + d)..n : c[i] = w[i - d]
  BY <1>d
<1> HIDE DEF a, l, n
<1>j. ASSUME NEW i \in (a + 1)..n, Scaffold(c[i]) PROVE c[i].uid = 0
  <2>1. CASE i \in (a + 1)..(a + d)
    BY <1>i, <2>1
  <2>2. CASE i \in (a + 1 + d)..n
    <3>1. i - d \in (a + 1)..l
      BY <1>a, <2>2
    <3> QED BY <1>h, <1>i, <1>j, <2>2, <3>1
  <2> QED BY <1>a, <2>1, <2>2
<1>3. SaidOf(Mentioned(c)) = SaidOf(Mentioned(w)) \cup Under
  BY <1>1, <1>2 DEF SaidOf, Under
<1>4. Holds(c)
  BY <1>1, <1>3, <1>j DEF Holds, a, n
<1>5. Since \subseteq Covers(c)
  BY <1>1, <1>3, CoversIs
<1> QED BY <1>4, <1>5 DEF Whole, c

\* What the host goes on with.
LEMMA PublishedPrompt ==
  ASSUME PromptInv, Clean({"delta"}), NEW w \in Seq(Messages), w # <<>>, Holds(w),
         Since \subseteq UidsOf(w) \cup Under, mem.bound # 0,
         host' = [host EXCEPT !.ctx = Assembled(w)], job'.pc = "idle", UNCHANGED nodes
  PROVE  PromptPart'
<1>0. TypeInv /\ Whole(host.log)
  BY DEF PromptInv, ForestInv, PromptPart
<1>1. PICK c : c = Assembled(w)
  OBVIOUS
<1>2. PICK l : l = host.log
  OBVIOUS
<1>3. Whole(c) /\ Whole(l)
  BY <1>0, <1>1, <1>2, AssembledWhole
<1>4. /\ host'.ctx = c /\ host'.log = l /\ host'.sess = host.sess
      /\ host'.since = host.since /\ host'.said = host.said
  BY <1>0, <1>1, <1>2 DEF TypeInv, Types
<1>5. Since' = Since
  BY <1>4 DEF Since
<1>6. Whole(host.ctx)' /\ Whole(host.log)'
  BY <1>3, <1>4, <1>5, WholeCtx, WholeLog
<1> QED BY <1>6 DEF PromptPart

LEMMA PublishPrompt == PromptInv /\ Clean({"delta"}) /\ Publish => PromptPart'
<1> SUFFICES ASSUME PromptInv, Clean({"delta"}), Publish PROVE PromptPart'
  OBVIOUS
<1>1. TypeInv /\ job.pc = "condense" /\ job.pc # "idle"
  BY DEF PromptInv, ForestInv, Publish
<1>2. /\ job.work \in Seq(Messages) /\ job.work # <<>> /\ mem.bound # 0
      /\ Holds(job.work) /\ Since \subseteq UidsOf(job.work) \cup Under
  BY <1>1 DEF PromptInv, PromptPart, TypeInv, Types, Working
<1>3. host' = [host EXCEPT !.ctx = Assembled(job.work)] /\ job'.pc = "idle" /\ UNCHANGED nodes
  BY DEF Publish, Idle
<1> QED BY <1>2, <1>3, PublishedPrompt

LEMMA NoopPrompt == PromptInv /\ Clean({"delta"}) /\ Noop => PromptPart'
<1> SUFFICES ASSUME PromptInv, Clean({"delta"}), Noop PROVE PromptPart'
  OBVIOUS
<1>1. TypeInv /\ job.pc = "leaf" /\ job.pc # "idle"
  BY DEF PromptInv, ForestInv, Noop
<1>2. /\ job.work \in Seq(Messages) /\ job.work # <<>> /\ mem.bound # 0
      /\ Holds(job.work) /\ Since \subseteq UidsOf(job.work) \cup Under
  BY <1>1 DEF PromptInv, PromptPart, TypeInv, Types, Working
<1>3. job'.pc = "idle" /\ UNCHANGED nodes
  BY DEF Noop, Idle
<1>4. CASE Lead(job.work) > 0
  <2>1. host' = [host EXCEPT !.ctx = Assembled(Trimmed(job.work))]
    BY <1>4 DEF Noop
  <2>2. /\ Trimmed(job.work) \in Seq(Messages) /\ Trimmed(job.work) # <<>>
        /\ Holds(Trimmed(job.work)) /\ Since \subseteq UidsOf(Trimmed(job.work)) \cup Under
    BY <1>2, TrimmedType, TrimmedHolds
  <2> QED BY <1>2, <1>3, <2>1, <2>2, PublishedPrompt
<1>5. CASE ~(Lead(job.work) > 0)
  <2>1. UNCHANGED <<host, nodes>>
    BY <1>3, <1>5 DEF Noop
  <2> QED BY <1>3, <2>1, StillPrompt
<1> QED BY <1>4, <1>5

\* A new node that stands for the part of the work that leaves it, or for the
\* nodes that it hides, keeps everything covered.
LEMMA NodePrompt ==
  ASSUME PromptInv, Clean({"delta"}), UNCHANGED host, Keeping, Under \subseteq Under',
         Holds(job.work)', Since \subseteq UidsOf(job.work)' \cup Under'
  PROVE  PromptPart'
<1>1. ForestInv /\ Whole(host.ctx) /\ Whole(host.log)
  BY DEF PromptInv, PromptPart
<1>2. Whole(host.ctx)' /\ Whole(host.log)'
  BY <1>1, HostWhole
<1>3. Since' = Since
  BY DEF Since
<1> QED BY <1>2, <1>3 DEF PromptPart

LEMMA CondensePrompt ==
  ASSUME PromptInv, Clean({"delta"}), NEW d \in 0..MaxDepth, Condense(d)
  PROVE  PromptPart'
<1> DEFINE src == FirstOf(AtDepth(d))
           new == Len(nodes) + 1
<1>0. TypeInv /\ ForestInv
  BY DEF PromptInv, ForestInv
<1>1. /\ Len(nodes) \in Nat
      /\ DOMAIN nodes = 1..Len(nodes) /\ DOMAIN nodes' = 1..new
      /\ \A n \in DOMAIN nodes : nodes'[n] = nodes[n]
      /\ nodes'[new].sess = mem.bound
      /\ nodes'[new].depth = d + 1
      /\ nodes'[new].src = src
      /\ nodes'[new].said = UNION {nodes[n].said : n \in src}
      /\ job.pc = "condense" /\ job' = [job EXCEPT !.depth = d + 1]
      /\ UNCHANGED <<host, rows, life, mem, trouble>>
  BY <1>0, CondenseStep, Zenon
<1>2. job.pc # "idle" /\ job'.work = job.work /\ mem.bound # 0
  BY <1>0, <1>1 DEF TypeInv, Types, Working
<1>3. Holds(job.work) /\ Since \subseteq UidsOf(job.work) \cup Under
  BY <1>2 DEF PromptInv, PromptPart
<1> HIDE DEF src
<1>4. Under \subseteq Under'
  <2>1. new \in Nat /\ d + 1 \in Nat
    BY <1>1, NumbersAssumption
  <2>2. \A n \in src : nodes[n].said \subseteq nodes'[new].said
    BY <1>1
  <2>3. PICK m : m = new
    OBVIOUS
  <2>4. PICK hidden : hidden = src
    OBVIOUS
  <2> HIDE DEF new
  <2> QED BY <1>0, <1>1, <1>2, <2>1, <2>2, <2>3, <2>4, UnderGrows DEF new
<1>5. Keeping
  BY <1>1 DEF Keeping
<1>6. SaidOf(Mentioned(job.work))' = SaidOf(Mentioned(job.work))
  <2>1. Mentioned(job.work) \subseteq DOMAIN nodes
    BY <1>0 DEF TypeInv, Referring, Refers
  <2>2. UNION {nodes'[n].said : n \in Mentioned(job.work)} = SaidOf(Mentioned(job.work))
    BY <1>5, <2>1, SaidKept
  <2>3. Mentioned(job.work)' = Mentioned(job.work)
    BY <1>2 DEF Mentioned
  <2> QED BY <2>2, <2>3 DEF SaidOf
<1>7. UidsOf(job.work)' = UidsOf(job.work)
  BY <1>2 DEF UidsOf
<1>8. Holds(job.work)'
  BY <1>2, <1>3, <1>4, <1>6 DEF Holds
<1> QED BY <1>1, <1>3, <1>4, <1>5, <1>7, <1>8, NodePrompt

LEMMA LeafPrompt == PromptInv /\ Clean({"delta"}) /\ Leaf => PromptPart'
<1> SUFFICES ASSUME PromptInv, Clean({"delta"}), Leaf PROVE PromptPart'
  OBVIOUS
<1>0. TypeInv /\ ForestInv
  BY DEF PromptInv, ForestInv
<1> DEFINE w == Trimmed(job.work)
           new == Len(nodes) + 1
<1>1. PICK k \in (Anchor(w) + 1)..(Len(w) - Fresh) :
        LET rest == SubSeq(w, 1, Anchor(w)) \o SubSeq(w, k + 1, Len(w))
            chunk == SubSeq(w, Anchor(w) + 1, k)
        IN  /\ DOMAIN nodes = 1..Len(nodes) /\ DOMAIN nodes' = 1..new
            /\ Len(nodes) \in Nat
            /\ \A n \in DOMAIN nodes : nodes'[n] = nodes[n]
            /\ nodes'[new].sess = mem.bound
            /\ nodes'[new].depth = 0
            /\ nodes'[new].said = Covers(chunk)
            /\ job' = [pc |-> "frontier", work |-> rest,
                       ids |-> IdsOf(chunk), depth |-> 0]
            /\ job.pc = "leaf" /\ UNCHANGED <<host, rows, life, mem, trouble>>
  BY <1>0, LeafStep, Zenon
<1> DEFINE rest == SubSeq(w, 1, Anchor(w)) \o SubSeq(w, k + 1, Len(w))
           chunk == SubSeq(w, Anchor(w) + 1, k)
<1>2. /\ DOMAIN nodes = 1..Len(nodes) /\ DOMAIN nodes' = 1..new
      /\ Len(nodes) \in Nat
      /\ \A n \in DOMAIN nodes : nodes'[n] = nodes[n]
      /\ nodes'[new].sess = mem.bound
      /\ nodes'[new].depth = 0
      /\ nodes'[new].said = Covers(chunk)
      /\ job'.work = rest
      /\ job.pc = "leaf" /\ job.pc # "idle" /\ UNCHANGED <<host, rows, life, mem, trouble>>
  BY <1>1
<1>3. /\ w \in Seq(Messages) /\ rest \in Seq(Messages)
      /\ Refers(w) /\ Refers(rest)
      /\ \A i \in (Anchor(rest) + 1)..Len(rest) :
            \E j \in (Anchor(w) + 1)..Len(w) : rest[i] = w[j]
      /\ UidsOf(w) = UidsOf(chunk) \cup UidsOf(rest)
      /\ Mentioned(w) = Mentioned(chunk) \cup Mentioned(rest)
  BY <1>0, <1>2, LeafParts
<1> HIDE DEF rest, chunk
<1>4. /\ job.work \in Seq(Messages) /\ job.work # <<>> /\ mem.bound # 0
      /\ Holds(job.work) /\ Since \subseteq UidsOf(job.work) \cup Under
  BY <1>0, <1>2 DEF PromptInv, PromptPart, TypeInv, Types, Working
<1>5. Holds(w) /\ UidsOf(job.work) = UidsOf(w)
  BY <1>4, TrimmedHolds
<1> HIDE DEF w
<1>6. Under \subseteq Under' /\ nodes'[new].said \subseteq Under'
  <2>1. new \in Nat /\ 0 \in Nat
    BY <1>2
  <2>2. \A n \in DOMAIN nodes : ~(nodes'[new].depth > nodes[n].depth)
    <3> SUFFICES ASSUME NEW n \in DOMAIN nodes PROVE ~(nodes'[new].depth > nodes[n].depth)
      OBVIOUS
    <3>1. nodes[n] \in NodeType
      BY <1>0, ElementOfSeq DEF TypeInv, Types
    <3> QED BY <1>2, <3>1 DEF NodeType
  <2>3. PICK m : m = new
    OBVIOUS
  <2>4. PICK hidden : hidden = {}
    OBVIOUS
  <2>5. /\ \A n \in DOMAIN nodes :
              nodes'[new].depth > nodes[n].depth /\ n \in nodes'[new].src => n \in hidden
        /\ \A n \in hidden : nodes[n].said \subseteq nodes'[new].said
    BY <2>2, <2>4
  <2>6. nodes'[new].depth \in Nat
    BY <1>2
  <2> HIDE DEF new
  <2> QED BY <1>0, <1>2, <1>4, <2>1, <2>3, <2>5, <2>6, UnderGrows DEF new
<1>7. Keeping
  BY <1>2 DEF Keeping
<1>8. SaidOf(Mentioned(job.work))' = SaidOf(Mentioned(rest))
  <2>1. PICK r : r = rest
    OBVIOUS
  <2>2. Mentioned(r) \subseteq DOMAIN nodes
    BY <1>3, <2>1 DEF Refers
  <2>3. UNION {nodes'[n].said : n \in Mentioned(r)} = SaidOf(Mentioned(r))
    BY <1>7, <2>2, SaidKept
  <2>4. Mentioned(job.work)' = Mentioned(r)
    BY <1>2, <2>1 DEF Mentioned
  <2> QED BY <2>1, <2>3, <2>4 DEF SaidOf
<1>9. SaidOf(Mentioned(rest)) \subseteq Under
  BY <1>3, <1>5 DEF Holds, SaidOf
<1>10. ASSUME NEW i \in (Anchor(rest) + 1)..Len(rest), Scaffold(rest[i]) PROVE rest[i].uid = 0
  BY <1>3, <1>5, <1>10 DEF Holds
<1>11. Holds(job.work)'
  BY <1>2, <1>6, <1>8, <1>9, <1>10 DEF Holds
<1>12. UidsOf(job.work)' = UidsOf(rest)
  BY <1>2 DEF UidsOf
<1>13. UidsOf(chunk) \subseteq nodes'[new].said
  BY <1>2 DEF Covers
<1>14. Since \subseteq UidsOf(job.work)' \cup Under'
  BY <1>3, <1>4, <1>5, <1>6, <1>12, <1>13
<1> QED BY <1>2, <1>6, <1>7, <1>11, <1>14, NodePrompt

\* The nodes of the session go with it.
LEMMA BoundaryPrompt == PromptInv /\ Clean({"delta"}) /\ Boundary => PromptPart'
<1> SUFFICES ASSUME PromptInv, Clean({"delta"}), Boundary PROVE PromptPart'
  OBVIOUS
<1>0. TypeInv /\ Whole(host.ctx)
  BY DEF PromptInv, ForestInv, PromptPart
<1>1. /\ nodes' = Moved /\ job.pc = "idle" /\ job' = job
      /\ host' = [host EXCEPT !.sess = host.sess + 1, !.log = host.ctx]
  BY <1>0 DEF Boundary, Crossed, Quiet, TypeInv, Types
<1>2. /\ host'.ctx = host.ctx /\ host'.log = host.ctx /\ host'.sess = host.sess + 1
      /\ host'.since = host.since /\ host'.said = host.said
  BY <1>0, <1>1 DEF TypeInv, Types
<1>3. /\ host.sess \in Nat \ {0}
      /\ \A n \in DOMAIN nodes : nodes[n].sess \in 0..host.sess
  BY <1>0 DEF TypeInv, TypeOK, Types
<1>4. /\ DOMAIN nodes' = DOMAIN nodes
      /\ \A n \in DOMAIN nodes : /\ nodes'[n].depth = nodes[n].depth
            /\ nodes'[n].src = nodes[n].src /\ nodes'[n].said = nodes[n].said
            /\ nodes'[n].sess = IF nodes[n].sess = host.sess THEN host.sess + 1
                                ELSE nodes[n].sess
  <2> DEFINE to == [n \in DOMAIN nodes |-> IF nodes[n].sess = host.sess
                                           THEN host.sess + 1 ELSE nodes[n].sess]
  <2>1. /\ to \in [DOMAIN nodes -> 0..(host.sess + 1)]
        /\ nodes' = [n \in DOMAIN nodes |-> [nodes[n] EXCEPT !.sess = to[n]]]
    BY <1>0, <1>1, MovedStep
  <2>2. to \in [DOMAIN nodes -> Nat] /\ Types
    <3> HIDE DEF to
    <3> QED BY <1>0, <2>1 DEF TypeInv
  <2>3. \A n \in DOMAIN nodes : to[n] = IF nodes[n].sess = host.sess THEN host.sess + 1
                                         ELSE nodes[n].sess
    OBVIOUS
  <2> HIDE DEF to
  <2> QED BY <2>1, <2>2, <2>3, MoveNodes
<1>5. ASSUME NEW n \in Visible(host.sess) PROVE n \in Visible(host.sess)'
  <2>1. n \in DOMAIN nodes /\ nodes[n].sess = host.sess /\ Parents(n) = {}
    BY DEF Visible, NodesOf
  <2>2. n \in NodesOf(host.sess)'
    BY <1>2, <1>4, <2>1 DEF NodesOf
  <2> SUFFICES ASSUME NEW p \in Parents(n)' PROVE FALSE
    BY <2>2 DEF Visible
  <2>3. /\ p \in DOMAIN nodes /\ nodes'[p].sess = nodes'[n].sess
        /\ nodes[p].depth > nodes[n].depth /\ n \in nodes[p].src
    BY <1>4, <2>1 DEF Parents, NodesOf
  <2>4. nodes[p].sess = host.sess
    BY <1>3, <1>4, <2>1, <2>3
  <2> QED BY <2>1, <2>3, <2>4 DEF Parents, NodesOf
<1>6. Under \subseteq Under'
  <2> SUFFICES ASSUME NEW u \in Under PROVE u \in Under'
    OBVIOUS
  <2>1. PICK n \in Visible(host.sess) : u \in nodes[n].said
    BY DEF Under, SaidOf
  <2>2. n \in Visible(host.sess)' /\ u \in nodes'[n].said
    BY <1>4, <1>5, <2>1 DEF Visible, NodesOf
  <2> QED BY <2>2 DEF Under, SaidOf
<1>7. Keeping
  BY <1>4 DEF Keeping
<1>8. UNION {nodes'[n].said : n \in Mentioned(host.ctx)} = SaidOf(Mentioned(host.ctx))
  BY <1>0, <1>7, SaidKept DEF TypeInv, Referring, Refers
<1>9. /\ SaidOf(Mentioned(host.ctx))' = SaidOf(Mentioned(host.ctx))
      /\ SaidOf(Mentioned(host.log))' = SaidOf(Mentioned(host.ctx))
  BY <1>2, <1>8 DEF SaidOf, Mentioned
<1>10. /\ UidsOf(host.ctx)' = UidsOf(host.ctx) /\ UidsOf(host.log)' = UidsOf(host.ctx)
       /\ Since' = Since
  BY <1>2 DEF UidsOf, Since
<1>11. /\ Covers(host.ctx)' = Covers(host.ctx) /\ Covers(host.log)' = Covers(host.ctx)
  BY <1>9, <1>10 DEF Covers, SaidOf, Mentioned
<1>12. Whole(host.ctx)' /\ Whole(host.log)'
  BY <1>0, <1>2, <1>6, <1>9, <1>10, <1>11 DEF Whole, Holds
<1> QED BY <1>1, <1>12 DEF PromptPart

\* Nothing is said yet in a new session.
LEMMA NewSessionPrompt ==
  ASSUME PromptInv, NEW carry \in BOOLEAN, NewSession(carry)
  PROVE  PromptPart'
<1>0. TypeInv
  BY DEF PromptInv, ForestInv
<1>1. /\ host'.ctx = <<>> /\ host'.log = <<>> /\ host'.since = Len(host.said) + 1
      /\ host'.said = host.said /\ Len(host.said) \in Nat /\ job'.pc = "idle"
  BY <1>0 DEF NewSession, Quiet, TypeInv, Types
<1>2. Since' = {}
  BY <1>1 DEF Since
<1>3. SaidOf(Mentioned(host.ctx))' = {} /\ SaidOf(Mentioned(host.log))' = {}
  BY <1>1 DEF SaidOf, Mentioned
<1>4. Len(<<>>) = 0 /\ Anchor(<<>>) = 0 /\ (0 + 1)..0 = {}
  BY DEF Anchor
<1>5. Holds(host.ctx)' /\ Holds(host.log)'
  BY <1>1, <1>3, <1>4 DEF Holds
<1> QED BY <1>1, <1>2, <1>5 DEF PromptPart, Whole

\* A process comes back with the transcript or the prompt.
LEMMA ResumePrompt ==
  ASSUME PromptInv, Clean({"delta"}), NEW how \in {"transcript", "prompt"}, Resume(how)
  PROVE  PromptPart'
<1>0. TypeInv /\ Whole(host.ctx) /\ Whole(host.log) /\ job.pc = "idle"
  BY DEF PromptInv, ForestInv, PromptPart, Resume, TypeInv, Working
<1>1. /\ host'.ctx \in {host.ctx, host.log} /\ host'.log = host.log /\ host'.sess = host.sess
      /\ host'.since = host.since /\ host'.said = host.said
      /\ UNCHANGED <<nodes, job>>
  BY <1>0 DEF Resume, TypeInv, Types
<1>2. PICK c, l : c = host'.ctx /\ l = host.log
  OBVIOUS
<1>3. Whole(c) /\ Whole(l) /\ Since' = Since
  BY <1>0, <1>1, <1>2 DEF Since
<1>4. Whole(host.ctx)' /\ Whole(host.log)'
  BY <1>1, <1>2, <1>3, WholeCtx, WholeLog
<1> QED BY <1>0, <1>1, <1>4 DEF PromptPart

LEMMA PromptStep == PromptInv /\ [Next]_vars => PromptInv'
<1> SUFFICES ASSUME PromptInv, [Next]_vars, Clean({"delta"})' PROVE PromptPart'
  BY ForestStep DEF PromptInv, PromptPart
<1>0. Clean({"delta"}) /\ (Next => \A how \in {"delta"} : ~Resume(how))
  <2>1. trouble \subseteq trouble'
    BY DEF Next, vars, Say, Turn, Compress, Leaf, Frontier, Noop, Condense, Publish, Abort,
           Crash, Exit, Resume, Boundary, Crossed, NewSession, ChildEnd, Befalls, Known
  <2>2. Resume("delta") => "delta" \in trouble'
    BY DEF Resume, Known
  <2> QED BY <2>1, <2>2 DEF Clean
<1>1. CASE UNCHANGED vars
  <2>1. \/ job'.pc = "idle"
        \/ job.pc # "idle" /\ job'.work = job.work
    BY <1>1 DEF vars
  <2> QED BY <1>0, <1>1, <2>1, StillPrompt DEF vars
<1>2. ASSUME NEW k \in {"sys", "turn"}, NEW t \in Texts, Say(k, t) PROVE PromptPart'
  BY <1>0, <1>2, SayPrompt
<1>3. ASSUME NEW d \in 0..MaxDepth, Condense(d) PROVE PromptPart'
  BY <1>0, <1>3, CondensePrompt
<1>4. ASSUME NEW how \in {"transcript", "prompt", "delta"}, Resume(how) PROVE PromptPart'
  <2>1. how \in {"transcript", "prompt"}
    <3>1. Resume("delta") => "delta" \in trouble'
      BY DEF Resume, Known
    <3> QED BY <1>4, <3>1 DEF Clean
  <2> QED BY <1>0, <1>4, <2>1, ResumePrompt
<1>5. ASSUME NEW carry \in BOOLEAN, NewSession(carry) PROVE PromptPart'
  BY <1>5, NewSessionPrompt
<1>6. ASSUME NEW n \in 1..2, NEW t \in Texts,
             ChildEnd([i \in 1..n |-> Message("turn", t, 0)])
      PROVE  PromptPart'
  <2>1. UNCHANGED <<host, nodes>> /\ job'.pc = "idle"
    BY <1>6 DEF ChildEnd, Quiet
  <2> QED BY <1>0, <2>1, StillPrompt
<1>7. Turn \/ Exit => PromptPart'
  <2> SUFFICES ASSUME Turn \/ Exit PROVE PromptPart'
    OBVIOUS
  <2>1. UNCHANGED <<host, nodes>> /\ job'.pc = "idle"
    BY DEF Turn, Exit, Quiet
  <2> QED BY <1>0, <2>1, StillPrompt
<1>8. Abort \/ Crash => PromptPart'
  <2> SUFFICES ASSUME Abort \/ Crash PROVE PromptPart'
    OBVIOUS
  <2>1. UNCHANGED <<host, nodes>> /\ job'.pc = "idle"
    BY DEF Abort, Crash, Idle
  <2> QED BY <1>0, <2>1, StillPrompt
<1>9. Compress => PromptPart'
  <2> SUFFICES ASSUME Compress PROVE PromptPart'
    OBVIOUS
  <2>1. UNCHANGED <<host, nodes>> /\ job'.work = host.ctx
    BY DEF Compress, Idle
  <2> QED BY <1>0, <2>1, StillPrompt
<1>10. Frontier => PromptPart'
  <2> SUFFICES ASSUME Frontier PROVE PromptPart'
    OBVIOUS
  <2>1. UNCHANGED <<host, nodes>> /\ job'.work = job.work /\ job.pc # "idle"
    BY DEF Frontier, PromptInv, ForestInv, TypeInv, Types
  <2> QED BY <1>0, <2>1, StillPrompt
<1>11. Leaf \/ Noop \/ Publish \/ Boundary => PromptPart'
  BY <1>0, LeafPrompt, NoopPrompt, PublishPrompt, BoundaryPrompt
<1> QED BY <1>1, <1>2, <1>3, <1>4, <1>5, <1>6, <1>7, <1>8, <1>9, <1>10, <1>11 DEF Next

LEMMA PromptInit == Init => PromptInv
<1> SUFFICES ASSUME Init PROVE PromptInv
  OBVIOUS
<1>1. ForestInv
  BY TypeInit DEF Init, ForestInv, Forest, Rooted
<1>2. host.ctx = <<>> /\ host.log = <<>> /\ host.since = 1 /\ Len(host.said) = 0
      /\ job.pc = "idle" /\ Len(<<>>) = 0
  BY DEF Init, Idle
<1>3. Since = {}
  BY <1>2 DEF Since
<1>4. SaidOf(Mentioned(host.ctx)) = {} /\ SaidOf(Mentioned(host.log)) = {}
  BY <1>2 DEF SaidOf, Mentioned
<1>6. Len(<<>>) = 0 /\ Anchor(<<>>) = 0 /\ (0 + 1)..0 = {}
  BY DEF Anchor
<1>7. Holds(host.ctx) /\ Holds(host.log)
  BY <1>2, <1>4, <1>6 DEF Holds
<1>5. PromptPart
  BY <1>2, <1>3, <1>7 DEF PromptPart, Whole
<1> QED BY <1>1, <1>5 DEF PromptInv

-----------------------------------------------------------------------------
(* A summary is behind the anchor: no turn stands in front of it.             *)

Plain(ms) == \A i \in DOMAIN ms : ms[i].kind # "sum"
Headed(ms) == \A i \in DOMAIN ms : ms[i].kind = "sum" => i <= Anchor(ms) + 1
Heads ==
    /\ Headed(host.ctx) /\ Headed(host.log)
    /\ job.pc = "leaf" => Headed(job.work)
    /\ job.pc \in {"frontier", "condense"} => Plain(job.work)
HeadInv == TypeInv /\ Heads

\* A message of the host is no summary.
LEMMA HeadedAppend ==
  ASSUME NEW w \in Seq(Messages), NEW m \in Messages, m.kind # "sum", Headed(w)
  PROVE  Headed(Append(w, m))
<1> DEFINE c == Append(w, m)
<1>1. /\ DOMAIN c = 1..(Len(w) + 1) /\ Len(w) \in Nat /\ DOMAIN w = 1..Len(w)
      /\ \A i \in 1..Len(w) : c[i] = w[i]
      /\ c[Len(w) + 1] = m /\ Anchor(w) <= Anchor(c)
      /\ Anchor(w) \in 0..1 /\ Anchor(c) \in 0..1
  BY AppendProperties, LenProperties, AnchorAppend
<1> HIDE DEF c
<1>2. ASSUME NEW i \in DOMAIN c, c[i].kind = "sum" PROVE i <= Anchor(c) + 1
  <2>1. i \in 1..Len(w) /\ c[i] = w[i]
    BY <1>1, <1>2
  <2>2. i <= Anchor(w) + 1
    BY <1>1, <1>2, <2>1 DEF Headed
  <2> QED BY <1>1, <2>1, <2>2
<1> QED BY <1>2 DEF Headed, c

\* A summary that stands outside the tail is dropped before a compaction.
LEMMA TrimmedPlain ==
  ASSUME NEW w \in Seq(Messages), w # <<>>, Headed(w),
         Lead(w) > 0 \/ Len(Trimmed(w)) >= Fresh + Anchor(Trimmed(w)) + 1
  PROVE  Plain(Trimmed(w))
<1> DEFINE v == Trimmed(w)
           l == Lead(w)
           n == Len(w)
           a == Anchor(w)
           b == Anchor(v)
           S == {t \in 0..n : \A i \in (a + 1)..(a + t) : i <= n - Fresh /\ Scaffold(w[i])}
<1>1. /\ v \in Seq(Messages) /\ v # <<>> /\ Len(v) = n - l /\ a <= b
      /\ \A i \in 1..a : v[i] = w[i]
      /\ \A i \in (a + 1)..Len(v) : v[i] = w[l + i]
  BY TrimmedType
<1>2. /\ l \in 0..(n - 1) /\ n \in Nat /\ Fresh \in Nat \ {0} /\ a \in 0..1 /\ b \in 0..1
      /\ DOMAIN w = 1..n /\ a <= n /\ (a = 1 => w[1].kind \in {"sys", "note"})
  BY <1>1, LeadRange, AnchorRange, LenProperties, NumbersAssumption
<1>m. l = Max(S)
  BY DEF Lead
<1>h. \A i \in 1..n : w[i].kind = "sum" => i <= a + 1
  BY <1>2 DEF Headed
<1>3. Len(v) \in Nat /\ DOMAIN v = 1..Len(v)
  BY <1>1, LenProperties
<1> HIDE DEF v, l, n, a, b
<1>4. ASSUME l = 0, Len(v) >= Fresh + b + 1, NEW i \in 1..n, w[i].kind = "sum" PROVE FALSE
  <2>1. i = a + 1 /\ a + 1 <= n - Fresh /\ 1 \in 0..n
    <3>1. i <= a + 1 /\ i # 0 /\ (a = 1 => i # 1)
      BY <1>2, <1>h, <1>4
    <3>2. a = 0 \/ a = 1
      BY <1>2
    <3> QED BY <1>1, <1>2, <1>3, <1>4, <3>1, <3>2
  <2>2. (a + 1)..(a + 1) = {a + 1}
    BY <1>2
  <2>3. 1 \in S
    BY <1>4, <2>1, <2>2 DEF Scaffold
  <2>4. S \subseteq 0..n
    OBVIOUS
  <2> HIDE DEF S
  <2>5. 1 <= Max(S)
    BY <1>2, <2>3, <2>4, MaxOfNats
  <2> QED BY <1>4, <1>m, <2>5
<1>5. ASSUME NEW i \in 1..Len(v), v[i].kind = "sum" PROVE FALSE
  <2>1. CASE i \in 1..a
    <3>1. a = 1 /\ i = 1
      BY <1>2, <2>1
    <3> QED BY <1>1, <1>2, <1>5, <3>1
  <2>2. CASE i \in (a + 1)..Len(v)
    <3>1. l + i \in 1..n /\ v[i] = w[l + i]
      BY <1>1, <1>2, <1>3, <2>2
    <3>2. l + i <= a + 1
      BY <1>5, <1>h, <3>1
    <3>3. l = 0
      BY <1>2, <2>2, <3>2
    <3>4. Len(v) >= Fresh + b + 1
      BY <3>3 DEF v, l, b
    <3> QED BY <1>4, <1>5, <3>1, <3>3, <3>4
  <2> QED BY <1>2, <1>3, <2>1, <2>2
<1> QED BY <1>3, <1>5 DEF Plain, v

\* The assembled prompt has its one summary behind the anchor.
LEMMA AssembledHeaded ==
  ASSUME TypeInv, NEW w \in Seq(Messages), w # <<>>, Plain(w)
  PROVE  Headed(Assembled(w))
<1> DEFINE c == Assembled(w)
           a == Anchor(w)
           l == Len(w)
           n == Len(c)
<1>1. PICK d \in 0..1 :
         /\ Len(c) = Len(w) + d
         /\ \A i \in (Anchor(w) + 1 + d)..Len(c) : c[i] = w[i - d]
  BY AssembledType DEF TypeInv
<1>2. /\ Anchor(c) = a /\ DOMAIN c = 1..n /\ n \in Nat /\ l \in Nat /\ DOMAIN w = 1..l /\ a \in 0..1
      /\ n = l + d /\ \A i \in (a + 1 + d)..n : c[i] = w[i - d]
  BY <1>1, AssembledType, AnchorRange, LenProperties DEF TypeInv
<1>p. \A i \in 1..l : w[i].kind # "sum"
  BY <1>2 DEF Plain
<1> HIDE DEF c, a, l, n
<1>3. ASSUME NEW i \in 1..n, c[i].kind = "sum" PROVE i <= a + 1
  <2> SUFFICES ASSUME i > a + 1 PROVE FALSE
    BY <1>2
  <2>1. i \in (a + 1 + d)..n /\ i - d \in 1..l
    BY <1>2
  <2> QED BY <1>2, <1>3, <1>p, <2>1
<1> QED BY <1>2, <1>3 DEF Headed, c

\* What holds of a value of a list holds of the list that becomes it.
LEMMA HeadsAre ==
  ASSUME NEW c, NEW l, NEW w, host'.ctx = c, host'.log = l, Headed(c), Headed(l),
         \/ job'.pc = "idle"
         \/ job'.pc = "leaf" /\ job'.work = w /\ Headed(w)
         \/ job'.pc \in {"frontier", "condense"} /\ job'.work = w /\ Plain(w)
  PROVE  Heads'
BY DEF Heads, Headed, Plain

LEMMA PublishedHeads ==
  ASSUME HeadInv, NEW w \in Seq(Messages), w # <<>>, Plain(w),
         host' = [host EXCEPT !.ctx = Assembled(w)], job'.pc = "idle"
  PROVE  Heads'
<1>1. PICK c, l : c = Assembled(w) /\ l = host.log
  OBVIOUS
<1>2. Headed(c) /\ Headed(l)
  BY <1>1, AssembledHeaded DEF HeadInv, Heads
<1>3. host'.ctx = c /\ host'.log = l
  BY <1>1 DEF HeadInv, TypeInv, Types
<1> QED BY <1>2, <1>3, HeadsAre

LEMMA LeafHeads == HeadInv /\ Leaf => Heads'
<1> SUFFICES ASSUME HeadInv, Leaf PROVE Heads'
  OBVIOUS
<1> DEFINE w == Trimmed(job.work)
<1>1. PICK k \in (Anchor(w) + 1)..(Len(w) - Fresh) :
        job' = [pc |-> "frontier",
                work |-> SubSeq(w, 1, Anchor(w)) \o SubSeq(w, k + 1, Len(w)),
                ids |-> IdsOf(SubSeq(w, Anchor(w) + 1, k)), depth |-> 0]
  BY DEF Leaf
<1>0. job.pc = "leaf" /\ UNCHANGED host /\ job'.pc = "frontier"
  BY <1>1 DEF Leaf
<1> DEFINE rest == SubSeq(w, 1, Anchor(w)) \o SubSeq(w, k + 1, Len(w))
           a == Anchor(w)
<1>2. /\ TypeInv /\ job.pc = "leaf" /\ Headed(job.work) /\ Headed(host.ctx) /\ Headed(host.log)
      /\ job.work \in Seq(Messages) /\ job.work # <<>>
  BY <1>0 DEF HeadInv, Heads, TypeInv, Types, Working
<1>3. /\ w \in Seq(Messages) /\ Len(w) \in Nat /\ k \in (a + 1)..Len(w)
      /\ rest \in Seq(Messages) /\ Len(rest) = a + Len(w) - k
      /\ \A i \in 1..a : rest[i] = w[i]
      /\ \A i \in (a + 1)..Len(rest) : rest[i] = w[k + i - a]
  BY <1>1, <1>2, LeafParts, Zenon
<1>4. a \in 0..1
  BY <1>3, AnchorRange
<1>5. Plain(w)
  <2>1. Len(w) >= Fresh + Anchor(w) + 1
    <3>1. k \in (a + 1)..(Len(w) - Fresh)
      OBVIOUS
    <3> HIDE DEF w, a
    <3>2. Len(w) >= Fresh + a + 1
      BY <1>3, <1>4, <3>1, NumbersAssumption
    <3> QED BY <3>2 DEF a
  <2> QED BY <1>2, <2>1, TrimmedPlain
<1>6. DOMAIN w = 1..Len(w) /\ DOMAIN rest = 1..Len(rest)
  BY <1>3, LenProperties
<1>7. job'.work = rest
  BY <1>1
<1> HIDE DEF w, rest, a
<1>8. ASSUME NEW i \in DOMAIN rest PROVE rest[i].kind # "sum"
  <2>1. CASE i \in 1..a
    BY <1>3, <1>4, <1>5, <1>6, <2>1 DEF Plain
  <2>2. CASE i \in (a + 1)..Len(rest)
    <3>1. k + i - a \in DOMAIN w
      BY <1>3, <1>4, <1>6, <2>2
    <3> QED BY <1>3, <1>5, <2>2, <3>1 DEF Plain
  <2> QED BY <1>3, <1>4, <1>6, <2>1, <2>2
<1>9. PICK c, l, r : c = host.ctx /\ l = host.log /\ r = rest
  OBVIOUS
<1>10. Plain(r) /\ job'.work = r
  BY <1>7, <1>8, <1>9 DEF Plain
<1> QED BY <1>0, <1>2, <1>9, <1>10, HeadsAre

LEMMA HeadStep == HeadInv /\ [Next]_vars => HeadInv'
<1> SUFFICES ASSUME HeadInv, [Next]_vars PROVE Heads'
  BY TypeStep DEF HeadInv
<1>0. /\ TypeInv /\ Types /\ Headed(host.ctx) /\ Headed(host.log)
  BY DEF HeadInv, Heads, TypeInv
<1>s. ASSUME UNCHANGED host,
             \/ job'.pc = "idle" \/ UNCHANGED job
             \/ job'.pc = "leaf" /\ job'.work = host.ctx
             \/ job.pc \in {"frontier", "condense"} /\ job'.pc = "condense" /\ job'.work = job.work
      PROVE  Heads'
  <2>1. PICK c, l, w : c = host.ctx /\ l = host.log /\ w = job.work
    OBVIOUS
  <2>2. host'.ctx = c /\ host'.log = l /\ Headed(c) /\ Headed(l)
    BY <1>0, <1>s, <2>1
  <2>3. job.pc \in {"idle", "leaf", "frontier", "condense"}
    BY <1>0 DEF Types
  <2>4. CASE job'.pc = "idle"
    BY <2>2, <2>4, HeadsAre
  <2>5. CASE UNCHANGED job
    BY <2>1, <2>2, <2>3, <2>5, HeadsAre DEF HeadInv, Heads
  <2>6. CASE job'.pc = "leaf" /\ job'.work = host.ctx
    BY <2>1, <2>2, <2>6, HeadsAre
  <2>7. CASE job.pc \in {"frontier", "condense"} /\ job'.pc = "condense" /\ job'.work = job.work
    BY <2>1, <2>2, <2>7, HeadsAre DEF HeadInv, Heads
  <2> QED BY <1>s, <2>4, <2>5, <2>6, <2>7
<1>1. CASE UNCHANGED vars
  BY <1>1, <1>s DEF vars
<1>2. ASSUME NEW k \in {"sys", "turn"}, NEW t \in Texts, Say(k, t) PROVE Heads'
  <2>1. PICK m : m = Message(k, t, Len(host.said) + 1)
    OBVIOUS
  <2>2. m \in Messages /\ m.kind # "sum"
    BY <1>0, <2>1 DEF Message, Messages, Types
  <2>3. /\ host.ctx \in Seq(Messages) /\ host.log \in Seq(Messages)
        /\ host'.ctx = Append(host.ctx, m) /\ host'.log = Append(host.log, m)
        /\ job'.pc = "idle"
    BY <1>0, <1>2, <2>1 DEF Say, Quiet, Types
  <2>4. PICK c, l : c = Append(host.ctx, m) /\ l = Append(host.log, m)
    OBVIOUS
  <2>5. Headed(c) /\ Headed(l)
    BY <1>0, <2>2, <2>3, <2>4, HeadedAppend
  <2> QED BY <2>3, <2>4, <2>5, HeadsAre
<1>3. ASSUME NEW d \in 0..MaxDepth, Condense(d) PROVE Heads'
  BY <1>0, <1>3, <1>s DEF Condense, Types
<1>4. ASSUME NEW how \in {"transcript", "prompt", "delta"}, Resume(how) PROVE Heads'
  <2>1. /\ host'.ctx \in {host.log, host.ctx, <<>>} /\ host'.log = host.log /\ job'.pc = "idle"
    <3>1. job.pc = "idle"
      BY <1>0, <1>4 DEF Resume, TypeInv, Working
    <3> QED BY <1>0, <1>4, <3>1 DEF Resume, Types
  <2>2. PICK c, l : c = host'.ctx /\ l = host.log
    OBVIOUS
  <2>3. Headed(<<>>)
    BY DEF Headed
  <2> QED BY <1>0, <2>1, <2>2, <2>3, HeadsAre
<1>5. ASSUME NEW carry \in BOOLEAN, NewSession(carry) PROVE Heads'
  <2>1. host'.ctx = <<>> /\ host'.log = <<>> /\ job'.pc = "idle"
    BY <1>0, <1>5 DEF NewSession, Quiet, Types
  <2>2. PICK c : c = <<>>
    OBVIOUS
  <2>3. Headed(c)
    BY <2>2 DEF Headed
  <2> QED BY <2>1, <2>2, <2>3, HeadsAre
<1>6. ASSUME NEW n \in 1..2, NEW t \in Texts,
             ChildEnd([i \in 1..n |-> Message("turn", t, 0)])
      PROVE  Heads'
  BY <1>6, <1>s DEF ChildEnd
<1>7. Turn \/ Exit => Heads'
  BY <1>s DEF Turn, Exit
<1>8. Abort \/ Crash => Heads'
  BY <1>s DEF Abort, Crash, Idle
<1>9. Compress => Heads'
  BY <1>s DEF Compress, Idle
<1>10. Frontier => Heads'
  BY <1>0, <1>s DEF Frontier, Types
<1>11. Publish => Heads'
  <2> SUFFICES ASSUME Publish PROVE Heads'
    OBVIOUS
  <2>1. /\ job.work \in Seq(Messages) /\ job.work # <<>> /\ Plain(job.work)
        /\ host' = [host EXCEPT !.ctx = Assembled(job.work)] /\ job'.pc = "idle"
    BY <1>0 DEF Publish, HeadInv, Heads, TypeInv, Types, Working, Idle
  <2> QED BY <2>1, PublishedHeads
<1>12. Noop => Heads'
  <2> SUFFICES ASSUME Noop PROVE Heads'
    OBVIOUS
  <2>1. /\ job.work \in Seq(Messages) /\ job.work # <<>> /\ Headed(job.work) /\ job'.pc = "idle"
    BY <1>0 DEF Noop, HeadInv, Heads, TypeInv, Types, Working, Idle
  <2>2. CASE Lead(job.work) > 0
    <3>1. host' = [host EXCEPT !.ctx = Assembled(Trimmed(job.work))]
      BY <2>2 DEF Noop
    <3>2. /\ Trimmed(job.work) \in Seq(Messages) /\ Trimmed(job.work) # <<>>
          /\ Plain(Trimmed(job.work))
      BY <2>1, <2>2, TrimmedType, TrimmedPlain
    <3> QED BY <2>1, <3>1, <3>2, PublishedHeads
  <2>3. CASE ~(Lead(job.work) > 0)
    BY <1>s, <2>1, <2>3 DEF Noop
  <2> QED BY <2>2, <2>3
<1>13. Boundary => Heads'
  <2> SUFFICES ASSUME Boundary PROVE Heads'
    OBVIOUS
  <2>1. host'.ctx = host.ctx /\ host'.log = host.ctx /\ job'.pc = "idle"
    BY <1>0 DEF Boundary, Crossed, Quiet, Types
  <2>2. PICK c : c = host.ctx
    OBVIOUS
  <2> QED BY <1>0, <2>1, <2>2, HeadsAre
<1> QED BY <1>1, <1>2, <1>3, <1>4, <1>5, <1>6, <1>7, <1>8, <1>9, <1>10, <1>11, <1>12, <1>13,
           LeafHeads DEF Next

LEMMA HeadInit == Init => HeadInv
BY TypeInit DEF Init, HeadInv, Heads, Headed, Idle

\* Whatever is compacted, given up, killed, resumed with the transcript or with
\* the compressed prompt, moved to a new session or reset: each message said in
\* the session is in the prompt or under a summary that the prompt carries, and
\* only a system prompt stands in front of the summaries.
THEOREM LcmPromptCovers == Spec => []PromptCovers
<1>1. PromptInv /\ HeadInv => PromptCovers
  <2> SUFFICES ASSUME PromptInv, HeadInv PROVE PromptCovers
    OBVIOUS
  <2>1. Clean({"delta"}) => host.since..Len(host.said) \subseteq Covers(host.ctx)
    BY DEF PromptInv, PromptPart, Whole, Since
  <2>2. host.ctx \in Seq(Messages) /\ Headed(host.ctx)
    BY DEF HeadInv, Heads, TypeInv, Types
  <2>3. ASSUME NEW i \in DOMAIN host.ctx, host.ctx[i].kind = "sum", NEW j \in 1..(i - 1)
        PROVE  host.ctx[j].kind \in {"sys", "note"}
    <3>1. /\ i <= Anchor(host.ctx) + 1 /\ i \in Nat
          /\ Anchor(host.ctx) \in 0..1
          /\ Anchor(host.ctx) = 1 => host.ctx[1].kind \in {"sys", "note"}
      <4>1. i <= Anchor(host.ctx) + 1
        BY <2>2, <2>3 DEF Headed
      <4>2. i \in Nat
        BY <2>2, <2>3, LenProperties
      <4> QED BY <2>2, <4>1, <4>2, AnchorRange
    <3>2. j = 1 /\ Anchor(host.ctx) = 1
      BY <2>3, <3>1
    <3> QED BY <3>1, <3>2
  <2> QED BY <2>1, <2>3 DEF PromptCovers
<1> QED BY PromptInit, PromptStep, HeadInit, HeadStep, <1>1, PTL DEF Spec

-----------------------------------------------------------------------------
(* The sources of a leaf.                                                     *)

\* A set with 0 and the successor of each number in it holds every number.
LEMMA Successors ==
  ASSUME NEW S, 0 \in S, \A n \in Nat : n \in S => n + 1 \in S
  PROVE  Nat \subseteq S
<1> DEFINE T == Nat \ S
<1> SUFFICES ASSUME T # {} PROVE FALSE
  OBVIOUS
<1>1. T \subseteq Nat
  OBVIOUS
<1>2. Min(T) \in T /\ \A y \in T : Min(T) <= y
  <2> HIDE DEF T
  <2> QED BY <1>1, MinOfNats
<1> DEFINE x == Min(T)
<1>3. x \in Nat /\ x \notin S /\ \A y \in Nat : y \notin S => x <= y
  BY <1>2
<1> HIDE DEF x, T
<1>4. x # 0 /\ x - 1 \in Nat /\ ~(x <= x - 1) /\ (x - 1) + 1 = x
  BY <1>3
<1>5. x - 1 \in S
  BY <1>3, <1>4
<1> QED BY <1>3, <1>4, <1>5

(* The parts of IdsOf.                                                        *)
Open == {r \in RowsOf(mem.bound) : r > mem.last}
SameRows(chunk, i) == {r \in Open : Identity(rows[r].msg) = Identity(chunk[i])}
AlikeIn(chunk, i) == {j \in DOMAIN chunk : Identity(chunk[j]) = Identity(chunk[i])}
SurplusIn(chunk, i) ==
    Cardinality({j \in AlikeIn(chunk, i) : j <= i})
      <= Cardinality(AlikeIn(chunk, i)) - Cardinality(SameRows(chunk, i))
IdAfter(chunk, i, x) ==
    LET free == {r \in SameRows(chunk, i) : r > x}
    IN  IF SurplusIn(chunk, i) \/ free = {} THEN x ELSE Min(free)
IdLoop(chunk, n, at) ==
    at = [i \in 0..n |-> IF i = 0 THEN mem.last ELSE IdAfter(chunk, i, at[i - 1])]

LEMMA IdsLoop ==
  ASSUME NEW chunk
  PROVE  IdsOf(chunk) = LET at == CHOOSE f : IdLoop(chunk, Len(chunk), f)
                        IN  {r \in Open : \E i \in DOMAIN chunk : at[i] = r}
BY Zenon DEF IdsOf, IdLoop, IdAfter, Open, SameRows, AlikeIn, SurplusIn

\* The loop has a value at every position.
LEMMA IdLoopExists ==
  ASSUME NEW chunk, NEW n \in Nat
  PROVE  \E at : IdLoop(chunk, n, at)
<1> DEFINE S == {m \in Nat : \E at : IdLoop(chunk, m, at)}
<1>1. 0 \in S
  <2> DEFINE g == [i \in 0..0 |-> mem.last]
  <2>1. IdLoop(chunk, 0, g)
    BY DEF IdLoop
  <2> HIDE DEF g
  <2> QED BY <2>1
<1>2. ASSUME NEW m \in Nat, m \in S PROVE m + 1 \in S
  <2>1. PICK g : IdLoop(chunk, m, g)
    BY <1>2
  <2> DEFINE h == [i \in 0..(m + 1) |-> IF i <= m THEN g[i] ELSE IdAfter(chunk, i, g[i - 1])]
  <2>2. ASSUME NEW i \in 0..(m + 1)
        PROVE  h[i] = IF i = 0 THEN mem.last ELSE IdAfter(chunk, i, h[i - 1])
    <3>1. i = 0 \/ (i - 1 \in 0..m /\ h[i - 1] = g[i - 1])
      OBVIOUS
    <3>2. i \in 0..m => g[i] = IF i = 0 THEN mem.last ELSE IdAfter(chunk, i, g[i - 1])
      BY <2>1 DEF IdLoop
    <3>3. CASE i <= m
      <4>1. h[i] = g[i] /\ i \in 0..m
        BY <3>3
      <4> HIDE DEF h
      <4> QED BY <3>1, <3>2, <4>1
    <3>4. CASE i = m + 1
      <4>1. h[i] = IdAfter(chunk, i, g[i - 1])
        BY <3>4
      <4>2. i # 0
        BY <3>4
      <4> HIDE DEF h
      <4> QED BY <3>1, <4>1, <4>2
    <3> QED BY <3>3, <3>4
  <2>3. IdLoop(chunk, m + 1, h)
    <3>1. h = [i \in 0..(m + 1) |-> h[i]]
      OBVIOUS
    <3> HIDE DEF h
    <3> QED BY <2>2, <3>1 DEF IdLoop
  <2> HIDE DEF h
  <2> QED BY <2>3
<1> HIDE DEF S
<1>3. n \in S
  BY <1>1, <1>2, Successors
<1> QED BY <1>3 DEF S

\* A chunk of turns that are stored behind the frontier, oldest first.
Placed(chunk) ==
    /\ \A i \in 1..Len(chunk) :
          /\ chunk[i].uid \in DOMAIN rows /\ chunk[i].uid > mem.last
          /\ rows[chunk[i].uid].sess = mem.bound
          /\ Identity(rows[chunk[i].uid].msg) = Identity(chunk[i])
    /\ \A i, j \in 1..Len(chunk) : i < j => chunk[i].uid < chunk[j].uid

\* The store has of every identity at least as many rows as the chunk.
LEMMA NoSurplus ==
  ASSUME TypeInv, NEW chunk \in Seq(Messages), Placed(chunk), NEW i \in 1..Len(chunk)
  PROVE  ~SurplusIn(chunk, i) /\ chunk[i].uid \in SameRows(chunk, i)
<1> DEFINE n == Len(chunk)
           A == AlikeIn(chunk, i)
           B == SameRows(chunk, i)
           f == [j \in A |-> chunk[j].uid]
<1>1. n \in Nat /\ DOMAIN chunk = 1..n /\ Len(rows) \in Nat /\ DOMAIN rows = 1..Len(rows)
  BY LenProperties DEF TypeInv, Types
<1>2. ASSUME NEW j \in A PROVE f[j] \in B
  <2>1. j \in 1..n /\ Identity(chunk[j]) = Identity(chunk[i]) /\ f[j] = chunk[j].uid
    BY <1>1 DEF AlikeIn
  <2> HIDE DEF f
  <2> QED BY <2>1 DEF Placed, SameRows, Open, RowsOf
<1>3. i \in A
  BY <1>1 DEF AlikeIn
<1>4. chunk[i].uid \in B
  BY <1>2, <1>3
<1>5. \A j, k \in A : f[j] = f[k] => j = k
  <2> SUFFICES ASSUME NEW j \in A, NEW k \in A, f[j] = f[k] PROVE j = k
    OBVIOUS
  <2>1. j \in 1..n /\ k \in 1..n /\ chunk[j].uid = chunk[k].uid
    BY <1>1 DEF AlikeIn
  <2>2. chunk[j].uid \in Nat /\ chunk[k].uid \in Nat
    BY <1>1, <2>1 DEF Placed
  <2>3. ~(j < k) /\ ~(k < j)
    BY <2>1, <2>2 DEF Placed
  <2> QED BY <2>1, <2>3
<1>6. f \in Injection(A, B)
  BY <1>2, <1>5 DEF Injection, IsInjective
<1>7. IsFiniteSet(A) /\ IsFiniteSet(B)
  <2>1. A \subseteq 1..n /\ B \subseteq 1..Len(rows)
    BY <1>1 DEF AlikeIn, SameRows, Open, RowsOf
  <2>2. IsFiniteSet(1..n) /\ IsFiniteSet(1..Len(rows))
    <3> HIDE DEF n
    <3> QED BY <1>1, FS_Interval
  <2> HIDE DEF A, B, n
  <2> QED BY <2>1, <2>2, FS_Subset
<1> HIDE DEF f, A, B
<1>8. Cardinality(A) <= Cardinality(B) /\ Cardinality(A) \in Nat /\ Cardinality(B) \in Nat
  BY <1>6, <1>7, FS_Injection, FS_CardinalityType
<1>9. Cardinality({j \in A : j <= i}) \in Nat /\ Cardinality({j \in A : j <= i}) >= 1
  <2> DEFINE C == {j \in A : j <= i}
  <2>1. C \subseteq A /\ {i} \subseteq C
    BY <1>1, <1>3
  <2> HIDE DEF C
  <2>2. IsFiniteSet(C) /\ Cardinality({i}) <= Cardinality(C)
    BY <1>7, <2>1, FS_Subset
  <2>3. Cardinality({i}) = 1 /\ Cardinality(C) \in Nat
    BY <2>2, FS_Singleton, FS_CardinalityType
  <2> QED BY <2>2, <2>3 DEF C
<1>10. ~SurplusIn(chunk, i)
  <2> DEFINE a == Cardinality(A)
             b == Cardinality(B)
             c == Cardinality({j \in A : j <= i})
  <2>1. a \in Nat /\ b \in Nat /\ a <= b /\ c \in Nat /\ c >= 1
    BY <1>8, <1>9
  <2>2. SurplusIn(chunk, i) <=> c <= a - b
    BY DEF SurplusIn, A, B
  <2> HIDE DEF a, b, c
  <2> QED BY <2>1, <2>2
<1> QED BY <1>4, <1>10 DEF B

\* Each turn of such a chunk takes a row of its own, no later than its own row
\* and with its identity.
LEMMA IdsExact ==
  ASSUME TypeInv, NEW chunk \in Seq(Messages), Placed(chunk)
  PROVE  \E at \in [1..Len(chunk) -> Open] :
            /\ IdsOf(chunk) = {at[i] : i \in 1..Len(chunk)}
            /\ \A i \in 1..Len(chunk) : /\ at[i] <= chunk[i].uid
                                        /\ Identity(rows[at[i]].msg) = Identity(chunk[i])
            /\ \A i, j \in 1..Len(chunk) : i < j => at[i] < at[j]
<1> DEFINE n == Len(chunk)
           at == CHOOSE f : IdLoop(chunk, n, f)
<1>1. /\ n \in Nat /\ DOMAIN chunk = 1..n /\ Len(rows) \in Nat /\ DOMAIN rows = 1..Len(rows)
      /\ mem.last \in Nat
  BY LenProperties DEF TypeInv, Types
<1>2. IdLoop(chunk, n, at)
  <2>1. \E f : IdLoop(chunk, n, f)
    <3> HIDE DEF n
    <3> QED BY <1>1, IdLoopExists
  <2> QED BY <2>1, Zenon
<1>3. IdsOf(chunk) = {r \in Open : \E i \in 1..n : at[i] = r}
  BY <1>1, IdsLoop, Zenon
<1> HIDE DEF at
<1>4. at[0] = mem.last /\ \A i \in 1..n : at[i] = IdAfter(chunk, i, at[i - 1])
  <2>1. \A i \in 0..n : at[i] = IF i = 0 THEN mem.last ELSE IdAfter(chunk, i, at[i - 1])
    <3> HIDE DEF n
    <3> QED BY <1>2 DEF IdLoop
  <2>2. 0 \in 0..n /\ \A i \in 1..n : i \in 0..n /\ i # 0
    <3> HIDE DEF n
    <3> QED BY <1>1
  <2> QED BY <2>1, <2>2
<1>5. \A i \in 1..n : SameRows(chunk, i) \subseteq Open
  BY DEF SameRows
<1>6. Open \subseteq Nat
  BY <1>1 DEF Open, RowsOf
<1>7. \A i \in 1..n : chunk[i].uid \in Nat /\ chunk[i].uid > mem.last
  BY <1>1 DEF Placed
<1> DEFINE Good(i) == /\ at[i] \in Nat
                      /\ i >= 1 => /\ at[i] <= chunk[i].uid /\ at[i] \in SameRows(chunk, i)
                                   /\ at[i] > at[i - 1]
           S == {i \in Nat : i <= n => Good(i)}
<1>8. 0 \in S
  BY <1>1, <1>4
<1>9. ASSUME NEW i \in Nat, i \in S PROVE i + 1 \in S
  <2> SUFFICES ASSUME i + 1 <= n PROVE Good(i + 1)
    OBVIOUS
  <2> HIDE DEF n
  <2>1. Good(i) /\ i + 1 \in 1..n /\ (i + 1) - 1 = i /\ (i >= 1 => i \in 1..n /\ i < i + 1)
    BY <1>1, <1>9
  <2> DEFINE k == i + 1
             x == at[i]
             free == {r \in SameRows(chunk, k) : r > x}
  <2>2. at[k] = IdAfter(chunk, k, x)
    BY <1>4, <2>1
  <2>3. x \in Nat /\ x < chunk[k].uid /\ chunk[k].uid \in Nat
    <3>1. CASE i = 0
      BY <1>4, <1>7, <2>1, <3>1
    <3>2. CASE i >= 1
      <4>1. chunk[i].uid < chunk[k].uid
        BY <2>1, <3>2 DEF Placed, n
      <4> QED BY <1>7, <2>1, <3>2, <4>1
    <3> QED BY <3>1, <3>2
  <2>4. ~SurplusIn(chunk, k) /\ chunk[k].uid \in SameRows(chunk, k)
    <3> HIDE DEF k
    <3> QED BY <2>1, NoSurplus DEF n, k
  <2> HIDE DEF k, x, Good
  <2>5. chunk[k].uid \in free /\ free \subseteq Nat /\ free # {}
    BY <1>5, <1>6, <2>1, <2>3, <2>4 DEF k
  <2>6. at[k] = Min(free)
    BY <2>2, <2>4, <2>5 DEF IdAfter
  <2> HIDE DEF free
  <2>7. Min(free) \in free /\ Min(free) <= chunk[k].uid
    BY <2>5, MinOfNats
  <2>8. at[k] \in Nat /\ at[k] <= chunk[k].uid /\ at[k] \in SameRows(chunk, k) /\ at[k] > x
    BY <2>5, <2>6, <2>7 DEF free
  <2> QED BY <2>1, <2>8 DEF Good, k, x
<1> HIDE DEF Good
<1>10. \A i \in 0..n : Good(i)
  <2>1. Nat \subseteq S
    <3> HIDE DEF S
    <3> QED BY <1>8, <1>9, Successors
  <2> HIDE DEF n
  <2> QED BY <1>1, <2>1
<1> HIDE DEF S
<1>11. \A i \in 1..n : /\ at[i] \in Nat /\ at[i] <= chunk[i].uid /\ at[i] \in SameRows(chunk, i)
                      /\ at[i] > at[i - 1] /\ at[i - 1] \in Nat
  <2> HIDE DEF n
  <2>1. \A i \in 1..n : i \in 0..n /\ i - 1 \in 0..n /\ i >= 1
    BY <1>1
  <2> QED BY <1>10, <2>1 DEF Good
<1>12. \A i, j \in 1..n : i < j => at[i] < at[j]
  <2> DEFINE R == {j \in Nat : j <= n => \A i \in 1..n : i < j => at[i] < at[j]}
  <2>1. 0 \in R
    BY <1>1
  <2>2. ASSUME NEW j \in Nat, j \in R PROVE j + 1 \in R
    <3> SUFFICES ASSUME j + 1 <= n, NEW i \in 1..n, i < j + 1 PROVE at[i] < at[j + 1]
      OBVIOUS
    <3> HIDE DEF n
    <3>1. j + 1 \in 1..n /\ (j + 1) - 1 = j /\ j <= n
      BY <1>1
    <3>2. at[j + 1] > at[j] /\ at[j] \in Nat /\ at[j + 1] \in Nat
      BY <1>11, <3>1
    <3>3. CASE i = j
      BY <3>2, <3>3
    <3>4. CASE i < j
      <4>1. at[i] < at[j]
        BY <2>2, <3>1, <3>4
      <4>2. at[i] \in Nat
        BY <1>11
      <4> QED BY <3>2, <4>1, <4>2
    <3> QED BY <3>3, <3>4
  <2>3. Nat \subseteq R
    <3> HIDE DEF R
    <3> QED BY <2>1, <2>2, Successors
  <2> QED BY <1>1, <2>3
<1> DEFINE b == [i \in 1..n |-> at[i]]
<1>13. /\ b \in [1..n -> Open] /\ \A i \in 1..n : b[i] = at[i]
  BY <1>5, <1>11
<1> HIDE DEF b
<1>14. IdsOf(chunk) = {b[i] : i \in 1..n}
  BY <1>3, <1>5, <1>11, <1>13
<1>15. \A i \in 1..n : b[i] <= chunk[i].uid /\ Identity(rows[b[i]].msg) = Identity(chunk[i])
  BY <1>11, <1>13 DEF SameRows
<1>16. \A i, j \in 1..n : i < j => b[i] < b[j]
  BY <1>12, <1>13
<1> QED BY <1>13, <1>14, <1>15, <1>16

(* What a turn of the session is: its text is what was said, it is behind the *)
(* frontier, and the row under its number, if there is one, is its own.       *)
OwnRow(m) ==
    /\ m.nodes = {} /\ m.uid \in DOMAIN host.said /\ m.text = host.said[m.uid]
    /\ m.uid > mem.last
    /\ m.uid \in DOMAIN rows => rows[m.uid] = [sess |-> host.sess, msg |-> m]

(* Behind the anchor: a summary at most, then turns in their order.           *)
Lined(ms) ==
    /\ \A i \in (Anchor(ms) + 1)..Len(ms) :
          IF Scaffold(ms[i]) THEN i = Anchor(ms) + 1 ELSE OwnRow(ms[i])
    /\ \A i, j \in (Anchor(ms) + 1)..Len(ms) :
          i < j /\ ~Scaffold(ms[i]) => ms[i].uid < ms[j].uid
Filed(ms, n) ==
    \A i \in (Anchor(ms) + 1)..n : ~Scaffold(ms[i]) => ms[i].uid \in DOMAIN rows
Bare(ms) == \A i \in (Anchor(ms) + 1)..Len(ms) : ~Scaffold(ms[i])

Exact(n) ==
    /\ nodes[n].src \subseteq DOMAIN rows /\ nodes[n].said \subseteq DOMAIN host.said
    /\ \A t \in Texts :
         Cardinality({r \in nodes[n].src : rows[r].msg.text = t})
           = Cardinality({u \in nodes[n].said : host.said[u] = t})
Settled(n) == \A r \in nodes[n].src : rows[r].sess < host.sess \/ r <= mem.last

LinePrompt == job.pc \in {"idle", "leaf"} => Lined(host.ctx) /\ Filed(host.ctx, mem.cursor)
LineWork ==
    /\ job.pc # "idle" => Lined(job.work) /\ Filed(job.work, Len(job.work))
    /\ job.pc \in {"frontier", "condense"} => Bare(job.work)
LineLeaves ==
    /\ \A n \in Leaves : Exact(n) /\ ((job.pc = "frontier" /\ n = Len(nodes)) \/ Settled(n))
    /\ \A m, n \in Leaves : m # n => nodes[m].src \cap nodes[n].src = {}
LinePending == job.pc = "frontier" =>
    /\ Len(nodes) \in Leaves /\ job.ids # {}
    /\ nodes[Len(nodes)].src = job.ids
    /\ \A r \in job.ids : /\ r > mem.last
                          /\ \A i \in (Anchor(job.work) + 1)..Len(job.work) :
                                r < job.work[i].uid
Lineage == trouble = {} => LinePrompt /\ LineWork /\ LineLeaves /\ LinePending

LineInv == StoreInv /\ Lineage

\* What one undisturbed process is.
LEMMA Undisturbed ==
  ASSUME LineInv, trouble = {}
  PROVE  /\ TypeInv /\ ~mem.needs /\ mem.bound # 0 /\ mem.bound = host.sess
         /\ Behind /\ StoredInOrder
         /\ job.pc # "idle" => mem.cursor = Len(host.ctx)
         /\ LinePrompt /\ LineWork /\ LineLeaves /\ LinePending
         /\ Len(rows) \in Nat /\ Len(host.said) \in Nat /\ mem.last \in Nat
         /\ mem.cursor \in Nat /\ host.sess \in Nat
         /\ mem.last <= Len(rows) /\ Len(rows) <= Len(host.said)
         /\ DOMAIN rows = 1..Len(rows) /\ DOMAIN host.said = 1..Len(host.said)
         /\ host.ctx \in Seq(Messages) /\ Len(host.ctx) \in Nat
         /\ DOMAIN nodes = 1..Len(nodes) /\ Len(nodes) \in Nat
<1>1. /\ TypeInv /\ ~mem.needs /\ mem.bound # 0 /\ Behind /\ StoredInOrder
      /\ job.pc # "idle" => mem.cursor = Len(host.ctx)
      /\ LinePrompt /\ LineWork /\ LineLeaves /\ LinePending
  BY DEF LineInv, StoreInv, Straight, Clean, Lineage
<1>2. /\ Len(rows) \in Nat /\ Len(host.said) \in Nat /\ mem.last \in Nat
      /\ mem.cursor \in Nat /\ host.sess \in Nat
      /\ host.ctx \in Seq(Messages) /\ Len(host.ctx) \in Nat
      /\ DOMAIN rows = 1..Len(rows) /\ DOMAIN host.said = 1..Len(host.said)
      /\ DOMAIN nodes = 1..Len(nodes) /\ Len(nodes) \in Nat
  BY <1>1, LenProperties DEF TypeInv, Types
<1>3. mem.bound = host.sess /\ mem.last <= Len(rows)
  BY <1>1, <1>2 DEF TypeInv, TypeOK
<1>4. Len(rows) <= Len(host.said)
  <2>1. Len(rows) + Len(host.ctx) = Len(host.said) + mem.cursor /\ mem.cursor <= Len(host.ctx)
    BY <1>1 DEF Behind
  <2> DEFINE r == Len(rows)
             c == Len(host.ctx)
             s == Len(host.said)
  <2>2. r \in Nat /\ c \in Nat /\ s \in Nat /\ r + c = s + mem.cursor /\ mem.cursor <= c
    BY <1>2, <2>1
  <2> HIDE DEF r, c, s
  <2>3. r <= s
    BY <1>2, <2>2
  <2> QED BY <2>3 DEF r, s
<1> QED BY <1>1, <1>2, <1>3, <1>4

RowsKept == \A r \in DOMAIN rows : r \in DOMAIN rows' /\ rows'[r] = rows[r]
TextsKept == \A u \in DOMAIN host.said : u \in DOMAIN host'.said /\ host'.said[u] = host.said[u]

LEMMA ExactKept ==
  ASSUME NEW n, Exact(n), nodes'[n].src = nodes[n].src, nodes'[n].said = nodes[n].said,
         RowsKept, TextsKept
  PROVE  Exact(n)'
<1>1. nodes'[n].src \subseteq DOMAIN rows' /\ nodes'[n].said \subseteq DOMAIN host'.said
  BY DEF Exact, RowsKept, TextsKept
<1>2. ASSUME NEW t \in Texts
      PROVE  /\ {r \in nodes'[n].src : rows'[r].msg.text = t}
                  = {r \in nodes[n].src : rows[r].msg.text = t}
             /\ {u \in nodes'[n].said : host'.said[u] = t}
                  = {u \in nodes[n].said : host.said[u] = t}
  BY DEF Exact, RowsKept, TextsKept
<1> QED BY <1>1, <1>2 DEF Exact

\* Steps that change no leaf.
LEMMA LeavesKept ==
  ASSUME LineLeaves, RowsKept, TextsKept,
         Leaves' = Leaves,
         \A n \in Leaves : nodes'[n].src = nodes[n].src /\ nodes'[n].said = nodes[n].said,
         \A n \in Leaves : ((job.pc = "frontier" /\ n = Len(nodes)) \/ Settled(n))
                              => ((job'.pc = "frontier" /\ n = Len(nodes')) \/ Settled(n)')
  PROVE  LineLeaves'
<1>1. ASSUME NEW n \in Leaves'
      PROVE  Exact(n)' /\ ((job'.pc = "frontier" /\ n = Len(nodes')) \/ Settled(n)')
  <2>1. Exact(n) /\ ((job.pc = "frontier" /\ n = Len(nodes)) \/ Settled(n))
    BY <1>1 DEF LineLeaves
  <2>2. nodes'[n].src = nodes[n].src /\ nodes'[n].said = nodes[n].said
    BY <1>1
  <2>3. Exact(n)'
    BY <2>1, <2>2, ExactKept
  <2> QED BY <1>1, <2>1, <2>3
<1>2. \A m, n \in Leaves' : m # n => nodes'[m].src \cap nodes'[n].src = {}
  BY DEF LineLeaves
<1> QED BY <1>1, <1>2 DEF LineLeaves

LEMMA SettledKept ==
  ASSUME NEW n \in Leaves, Exact(n), Settled(n), RowsKept, nodes'[n].src = nodes[n].src,
         host'.sess = host.sess, mem'.last = mem.last
  PROVE  Settled(n)'
BY DEF Settled, Exact, RowsKept

\* What an ingest of the prompt writes.
LEMMA RowsAfter ==
  ASSUME TypeInv, ~mem.needs, mem.bound # 0, Behind, StoredInOrder,
         rows' = Appended(host.ctx)
  PROVE  /\ RowsKept /\ DOMAIN rows' = 1..Len(host.said)
         /\ \A i \in (mem.cursor + 1)..Len(host.ctx) :
              /\ host.ctx[i].uid \in DOMAIN rows'
              /\ rows'[host.ctx[i].uid] = [sess |-> mem.bound, msg |-> host.ctx[i]]
<1>1. /\ host.ctx \in Seq(Messages) /\ Len(host.ctx) \in Nat
      /\ mem.cursor \in Nat /\ Len(rows) \in Nat /\ Len(host.said) \in Nat
      /\ mem.cursor <= Len(host.ctx) /\ DOMAIN rows = 1..Len(rows)
      /\ Len(rows) + Len(host.ctx) = Len(host.said) + mem.cursor
  BY LenProperties DEF TypeInv, Types, Behind
<1>2. From(host.ctx) = mem.cursor /\ Len(rows') = Len(host.said)
  BY StraightWrite
<1>3. /\ rows' \in Seq(RowType)
      /\ \A i \in 1..Len(rows') : rows'[i] =
           IF i <= Len(rows) THEN rows[i]
           ELSE [sess |-> mem.bound, msg |-> host.ctx[mem.cursor + i - Len(rows)]]
  <2>1. Types
    BY DEF TypeInv
  <2> QED BY <1>1, <1>2, <2>1, IngestType
<1>4. DOMAIN rows' = 1..Len(host.said)
  BY <1>2, <1>3, LenProperties
<1> DEFINE r == Len(rows)
           c == Len(host.ctx)
           s == Len(host.said)
           p == mem.cursor
<1>5. r \in Nat /\ c \in Nat /\ s \in Nat /\ p \in Nat /\ r + c = s + p /\ p <= c
  BY <1>1
<1>6. \A i \in 1..s : rows'[i] = IF i <= r THEN rows[i]
                                 ELSE [sess |-> mem.bound, msg |-> host.ctx[p + i - r]]
  BY <1>2, <1>3
<1>7. DOMAIN rows = 1..r /\ DOMAIN rows' = 1..s
  BY <1>1, <1>4
<1>8. \A i \in (p + 1)..c : host.ctx[i].uid = r + i - p
  BY DEF Behind
<1> HIDE DEF r, c, s, p
<1>9. ASSUME NEW q \in DOMAIN rows
      PROVE  q \in DOMAIN rows' /\ rows'[q] = rows[q]
  <2>1. r <= s
    BY <1>5
  <2>2. q \in 1..s /\ q <= r
    BY <1>5, <1>7, <2>1
  <2> QED BY <1>6, <1>7, <2>2
<1>10. ASSUME NEW i \in (p + 1)..c
       PROVE  /\ host.ctx[i].uid \in DOMAIN rows'
              /\ rows'[host.ctx[i].uid] = [sess |-> mem.bound, msg |-> host.ctx[i]]
  <2>1. r + i - p \in 1..s /\ ~(r + i - p <= r) /\ p + (r + i - p) - r = i
    BY <1>5
  <2> QED BY <1>6, <1>7, <1>8, <2>1
<1> QED BY <1>4, <1>9, <1>10 DEF p, c, RowsKept

\* After an ingest everything in the prompt has its row.
LEMMA LineIngest ==
  ASSUME LineInv, trouble = {}, job.pc = "idle", Ingest(host.ctx), UNCHANGED host
  PROVE  /\ Lined(host.ctx)' /\ Filed(host.ctx, Len(host.ctx))'
         /\ RowsKept /\ mem'.cursor = Len(host.ctx) /\ mem'.last = mem.last
<1>1. /\ TypeInv /\ ~mem.needs /\ mem.bound # 0 /\ Behind /\ StoredInOrder
      /\ Lined(host.ctx) /\ Filed(host.ctx, mem.cursor) /\ mem.bound = host.sess
      /\ Len(host.ctx) \in Nat /\ mem.cursor \in Nat
      /\ Len(rows) <= Len(host.said) /\ DOMAIN rows = 1..Len(rows) /\ Len(rows) \in Nat
      /\ host.ctx \in Seq(Messages)
  BY Undisturbed DEF LinePrompt
<1>2. rows' = Appended(host.ctx)
  BY DEF Ingest
<1>3. /\ RowsKept
      /\ \A i \in (mem.cursor + 1)..Len(host.ctx) :
              /\ host.ctx[i].uid \in DOMAIN rows'
              /\ rows'[host.ctx[i].uid] = [sess |-> mem.bound, msg |-> host.ctx[i]]
  BY <1>1, <1>2, RowsAfter
<1>4. mem'.cursor = Len(host.ctx)
  BY <1>1, StraightIngest
<1>5. mem'.last = mem.last
  BY <1>1, IngestStep
<1>6. ASSUME NEW i \in (Anchor(host.ctx) + 1)..Len(host.ctx), ~Scaffold(host.ctx[i])
      PROVE  OwnRow(host.ctx[i])' /\ host.ctx[i].uid \in DOMAIN rows'
  <2>1. OwnRow(host.ctx[i])
    BY <1>1, <1>6 DEF Lined
  <2>2. /\ host.ctx[i].uid \in DOMAIN rows'
        /\ rows'[host.ctx[i].uid] = [sess |-> host.sess, msg |-> host.ctx[i]]
    <3>1. CASE i \in (mem.cursor + 1)..Len(host.ctx)
      BY <1>1, <1>3, <3>1
    <3>2. CASE i \in (Anchor(host.ctx) + 1)..mem.cursor
      <4>1. host.ctx[i].uid \in DOMAIN rows
        BY <1>1, <1>6, <3>2 DEF Filed
      <4> QED BY <1>3, <2>1, <4>1 DEF OwnRow, RowsKept
    <3>3. Anchor(host.ctx) \in 0..1
      BY <1>1, AnchorRange
    <3> QED BY <1>1, <3>1, <3>2, <3>3
  <2> QED BY <1>5, <2>1, <2>2 DEF OwnRow
<1>7. Lined(host.ctx)'
  BY <1>1, <1>6 DEF Lined
<1>8. Filed(host.ctx, Len(host.ctx))'
  BY <1>6 DEF Filed
<1> QED BY <1>3, <1>4, <1>5, <1>7, <1>8

\* A turn keeps its row while rows, texts and the frontier are kept.
LEMMA OwnKept ==
  ASSUME NEW m, OwnRow(m), UNCHANGED rows, TextsKept,
         host'.sess = host.sess, mem'.last = mem.last
  PROVE  OwnRow(m)'
BY DEF OwnRow, TextsKept

\* What holds of a value of the prompt holds of the prompt that becomes it.
LEMMA LinedIs ==
  ASSUME NEW c, host'.ctx = c, Lined(c)'
  PROVE  Lined(host.ctx)'
BY DEF Lined, OwnRow

\* A message of the host.
LEMMA LineSay ==
  ASSUME LineInv, trouble = {}, NEW k \in {"sys", "turn"}, NEW t \in Texts, Say(k, t)
  PROVE  Lineage'
<1>a. PICK u : u = Len(host.said) + 1
  OBVIOUS
<1>b. PICK m : m = Message(k, t, u)
  OBVIOUS
<1>c. PICK c : c = host.ctx
  OBVIOUS
<1>d. PICK d : d = host'.ctx
  OBVIOUS
<1> DEFINE n == Len(c)
           a == Anchor(c)
           b == Anchor(d)
<1>1. /\ TypeInv /\ LineLeaves /\ job.pc = "idle" /\ Len(host.said) \in Nat /\ n \in Nat
      /\ mem.last <= Len(rows) /\ Len(rows) <= Len(host.said) /\ Len(rows) \in Nat
      /\ mem.last \in Nat /\ mem.cursor \in Nat /\ mem.cursor <= n
      /\ DOMAIN rows = 1..Len(rows) /\ DOMAIN host.said = 1..Len(host.said)
      /\ Lined(c) /\ Filed(c, mem.cursor) /\ c \in Seq(Messages)
  BY <1>c, Undisturbed DEF Say, Quiet, LinePrompt, Behind
<1>2. /\ d = Append(c, m) /\ host'.said = Append(host.said, t)
      /\ host'.sess = host.sess /\ UNCHANGED <<rows, nodes, life, mem, job, trouble>>
  BY <1>1, <1>a, <1>b, <1>c, <1>d DEF Say, TypeInv, Types
<1>3. /\ m.uid = u /\ m.nodes = {} /\ m.text = t /\ ~Scaffold(m)
  BY <1>b DEF Message, Scaffold
<1>4. /\ Len(d) = n + 1 /\ d[n + 1] = m
      /\ \A i \in 1..n : d[i] = c[i]
      /\ a \in 0..1 /\ b \in 0..1 /\ a <= b /\ (n # 0 => b = a)
  <2>1. m \in Messages
    BY <1>1, <1>a, <1>b DEF Message, Messages
  <2>2. n # 0 => c # <<>>
    BY <1>1, EmptySeq
  <2> QED BY <1>1, <1>2, <2>1, <2>2, AppendProperties, AnchorAppend
<1>5. /\ DOMAIN host'.said = 1..u /\ host'.said[u] = t
      /\ \A i \in 1..Len(host.said) : host'.said[i] = host.said[i]
  <2>1. host.said \in Seq(Texts)
    BY <1>1 DEF TypeInv, Types
  <2> QED BY <1>1, <1>2, <1>a, <2>1, AppendProperties, LenProperties
<1>6. TextsKept /\ RowsKept
  BY <1>1, <1>2, <1>5, <1>a DEF TextsKept, RowsKept
<1>7. OwnRow(m)'
  BY <1>1, <1>2, <1>3, <1>5, <1>a DEF OwnRow
<1>8. ASSUME NEW i \in (a + 1)..n, ~Scaffold(c[i])
      PROVE  OwnRow(c[i])' /\ c[i].uid < u
  <2>1. OwnRow(c[i])
    BY <1>1, <1>8 DEF Lined
  <2>2. OwnRow(c[i])'
    BY <1>2, <1>6, <2>1, OwnKept
  <2> QED BY <1>1, <1>a, <2>1, <2>2 DEF OwnRow
<1> HIDE DEF n, a, b
<1>9. ASSUME NEW i \in (b + 1)..(n + 1)
      PROVE  IF Scaffold(d[i]) THEN i = b + 1 ELSE OwnRow(d[i])'
  <2>1. CASE i = n + 1
    BY <1>3, <1>4, <1>7, <2>1
  <2>2. CASE i \in (b + 1)..n
    <3>1. i \in (a + 1)..n /\ i \in 1..n /\ b = a
      BY <1>1, <1>4, <2>2
    <3>2. IF Scaffold(c[i]) THEN i = a + 1 ELSE OwnRow(c[i])'
      BY <1>1, <1>8, <3>1 DEF Lined, n, a
    <3> QED BY <1>4, <3>1, <3>2
  <2> QED BY <1>1, <1>4, <2>1, <2>2
<1>10. ASSUME NEW i \in (b + 1)..(n + 1), NEW j \in (b + 1)..(n + 1), i < j, ~Scaffold(d[i])
       PROVE  d[i].uid < d[j].uid
  <2>1. i \in (a + 1)..n /\ i \in 1..n /\ d[i] = c[i]
    BY <1>1, <1>4, <1>10
  <2>2. CASE j = n + 1
    BY <1>3, <1>4, <1>8, <1>10, <2>1, <2>2
  <2>3. CASE j \in (b + 1)..n
    <3>1. j \in (a + 1)..n /\ d[j] = c[j]
      BY <1>1, <1>4, <2>3
    <3> QED BY <1>1, <1>10, <2>1, <3>1 DEF Lined, n, a
  <2> QED BY <1>1, <1>4, <2>2, <2>3
<1>11. Lined(host.ctx)'
  <2>1. Lined(d)'
    BY <1>4, <1>9, <1>10 DEF Lined, b
  <2> QED BY <1>d, <2>1, LinedIs
<1>12. Filed(host.ctx, mem.cursor)'
  <2>1. ASSUME NEW i \in (b + 1)..mem.cursor
        PROVE  d[i] = c[i] /\ i \in (a + 1)..mem.cursor
    BY <1>1, <1>4
  <2>2. \A i \in (b + 1)..mem.cursor : ~Scaffold(d[i]) => d[i].uid \in DOMAIN rows
    BY <1>1, <2>1 DEF Filed, a
  <2> QED BY <1>2, <1>d, <2>2 DEF Filed, b
<1>13. LineLeaves'
  <2>1. Leaves' = Leaves /\ \A l \in Leaves : nodes'[l].src = nodes[l].src /\ nodes'[l].said = nodes[l].said
    BY <1>2 DEF Leaves
  <2>2. \A l \in Leaves : ((job.pc = "frontier" /\ l = Len(nodes)) \/ Settled(l))
                              => ((job'.pc = "frontier" /\ l = Len(nodes')) \/ Settled(l)')
    BY <1>2 DEF Settled
  <2> QED BY <1>1, <1>6, <2>1, <2>2, LeavesKept
<1> QED BY <1>1, <1>2, <1>11, <1>12, <1>13 DEF Lineage, LinePrompt, LineWork, LinePending

\* Ingest of the prompt between two messages, and before a compaction.
LEMMA LineTurn == LineInv /\ trouble = {} /\ (Turn \/ Compress) => Lineage'
<1> SUFFICES ASSUME LineInv, trouble = {}, Turn \/ Compress
             PROVE  Lineage'
  OBVIOUS
<1>1. /\ Quiet /\ Ingest(host.ctx) /\ UNCHANGED <<host, nodes, life, trouble>>
      /\ job' = job \/ job' = [Idle EXCEPT !.pc = "leaf", !.work = host.ctx]
  BY DEF Turn, Compress
<1>2. job.pc = "idle" /\ LineLeaves /\ TypeInv /\ mem.bound = host.sess
  BY <1>1, Undisturbed DEF Quiet
<1>3. /\ Lined(host.ctx)' /\ Filed(host.ctx, Len(host.ctx))'
      /\ RowsKept /\ mem'.cursor = Len(host.ctx) /\ mem'.last = mem.last
  BY <1>1, <1>2, LineIngest
<1>4. TextsKept
  BY <1>1 DEF TextsKept
<1>5. LineLeaves'
  <2>1. Leaves' = Leaves /\ \A l \in Leaves : nodes'[l].src = nodes[l].src /\ nodes'[l].said = nodes[l].said
    BY <1>1 DEF Leaves
  <2>2. \A l \in Leaves : ((job.pc = "frontier" /\ l = Len(nodes)) \/ Settled(l))
                              => ((job'.pc = "frontier" /\ l = Len(nodes')) \/ Settled(l)')
    BY <1>1, <1>2, <1>3, <2>1, SettledKept DEF LineLeaves
  <2> QED BY <1>2, <1>3, <1>4, <2>1, <2>2, LeavesKept
<1>6. job'.pc # "idle" => job'.pc = "leaf" /\ job'.work = host.ctx
  BY <1>1, <1>2 DEF Idle
<1>7. job'.pc \in {"idle", "leaf"}
  BY <1>1, <1>2 DEF Idle
<1>8. LinePrompt'
  BY <1>1, <1>3 DEF LinePrompt
<1>9. LineWork'
  <2>1. ASSUME job'.pc # "idle"
        PROVE  Lined(job.work)' /\ Filed(job.work, Len(job.work))'
    BY <1>1, <1>3, <1>6, <2>1 DEF Lined, Filed, OwnRow
  <2> QED BY <1>7, <2>1 DEF LineWork
<1> QED BY <1>5, <1>7, <1>8, <1>9 DEF Lineage, LinePending

\* A list without messages right behind its anchor.
LEMMA LinedShift ==
  ASSUME NEW w \in Seq(Messages), NEW v \in Seq(Messages), NEW s \in Nat,
         Len(w) = Len(v) + s, Anchor(w) <= s + Anchor(v),
         \A i \in (Anchor(v) + 1)..Len(v) : v[i] = w[s + i],
         Lined(w), Filed(w, Len(w))
  PROVE  /\ Lined(v) /\ Filed(v, Len(v))
         /\ Anchor(w) < s + Anchor(v) \/ Bare(w) => Bare(v)
<1> DEFINE n == Len(v)
           l == Len(w)
           a == Anchor(w)
           b == Anchor(v)
<1>1. n \in Nat /\ l \in Nat /\ l = n + s /\ a \in 0..1 /\ b \in 0..1 /\ a <= s + b
  BY LenProperties, AnchorRange
<1> HIDE DEF n, l, a, b
<1>2. ASSUME NEW i \in (b + 1)..n
      PROVE  /\ s + i \in (a + 1)..l /\ v[i] = w[s + i]
             /\ s + i = a + 1 => i = b + 1 /\ a = s + b
  <2>1. s + i \in (a + 1)..l /\ (s + i = a + 1 => i = b + 1 /\ a = s + b)
    BY <1>1
  <2> QED BY <2>1 DEF n, b
<1>3. ASSUME NEW i \in (b + 1)..n, NEW j \in (b + 1)..n, i < j, ~Scaffold(v[i])
      PROVE  v[i].uid < v[j].uid
  <2>1. s + i < s + j
    BY <1>1, <1>3
  <2> QED BY <1>2, <1>3, <2>1 DEF Lined, l, a
<1>4. Lined(v) /\ Filed(v, n)
  <2>1. \A i \in (b + 1)..n : IF Scaffold(v[i]) THEN i = b + 1 ELSE OwnRow(v[i])
    BY <1>2 DEF Lined, l, a
  <2>2. \A i \in (b + 1)..n : ~Scaffold(v[i]) => v[i].uid \in DOMAIN rows
    BY <1>2 DEF Filed, l, a
  <2> QED BY <1>3, <2>1, <2>2 DEF Lined, Filed, n, b
<1>5. ASSUME a < s + b \/ Bare(w)
      PROVE  Bare(v)
  <2>1. CASE Bare(w)
    BY <1>2, <2>1 DEF Bare, n, l, a, b
  <2>2. CASE a < s + b
    <3>1. \A i \in (b + 1)..n : s + i # a + 1
      BY <1>1, <1>2, <2>2
    <3>2. \A i \in (b + 1)..n : ~Scaffold(v[i])
      BY <1>2, <3>1 DEF Lined, l, a
    <3> QED BY <3>2 DEF Bare, n, b
  <2> QED BY <1>5, <2>1, <2>2
<1> QED BY <1>4, <1>5 DEF n, a, b

\* What a compaction starts with, when it has something to summarise.
LEMMA LinedTrimmed ==
  ASSUME NEW w \in Seq(Messages), w # <<>>, Lined(w), Filed(w, Len(w))
  PROVE  /\ Lined(Trimmed(w)) /\ Filed(Trimmed(w), Len(Trimmed(w)))
         /\ Lead(w) > 0 \/ Len(Trimmed(w)) >= Fresh + Anchor(Trimmed(w)) + 1
              => Bare(Trimmed(w))
<1> DEFINE v == Trimmed(w)
           l == Lead(w)
           n == Len(w)
           a == Anchor(w)
           b == Anchor(v)
           S == {t \in 0..n : \A i \in (a + 1)..(a + t) : i <= n - Fresh /\ Scaffold(w[i])}
<1>1. /\ v \in Seq(Messages) /\ v # <<>> /\ Len(v) = n - l /\ a <= b
      /\ \A i \in (a + 1)..Len(v) : v[i] = w[l + i]
  BY TrimmedType
<1>2. /\ l \in 0..(n - 1) /\ n \in Nat /\ Fresh \in Nat \ {0} /\ a \in 0..1 /\ b \in 0..1
  BY <1>1, LeadRange, AnchorRange, LenProperties, NumbersAssumption
<1>m. l = Max(S)
  BY DEF Lead
<1>3. Len(v) \in Nat
  BY <1>1, LenProperties
<1> HIDE DEF v, l, n, a, b
<1>4. /\ l \in Nat /\ n = Len(v) + l /\ a <= l + b /\ (l > 0 => a < l + b)
      /\ \A i \in (b + 1)..Len(v) : i \in (a + 1)..Len(v)
  BY <1>1, <1>2, <1>3
<1>5. Lined(v) /\ Filed(v, Len(v)) /\ (l > 0 \/ Bare(w) => Bare(v))
  BY <1>1, <1>4, LinedShift DEF n, a, b
<1>6. ASSUME Len(v) >= Fresh + b + 1, l = 0
      PROVE  Bare(w)
  <2>1. ASSUME NEW i \in (a + 1)..n, Scaffold(w[i])
        PROVE  FALSE
    <3>1. i = a + 1
      BY <2>1 DEF Lined, n, a
    <3>2. 1 \in 0..n /\ a + 1 <= n - Fresh
      BY <1>1, <1>2, <1>3, <1>4, <1>6
    <3>3. (a + 1)..(a + 1) = {a + 1}
      BY <1>2
    <3>4. 1 \in S
      BY <2>1, <3>1, <3>2, <3>3
    <3>5. S \subseteq 0..n
      OBVIOUS
    <3> HIDE DEF S
    <3>6. 1 <= Max(S)
      BY <1>2, <3>4, <3>5, MaxOfNats
    <3> QED BY <1>m, <1>6, <3>6
  <2> QED BY <2>1 DEF Bare, n, a
<1>7. l > 0 \/ l = 0
  BY <1>4
<1> QED BY <1>5, <1>6, <1>7 DEF v, l, b

\* As many values as arguments.
LEMMA ImageSize ==
  ASSUME NEW I, IsFiniteSet(I), NEW f, \A i, j \in I : f[i] = f[j] => i = j
  PROVE  Cardinality({f[i] : i \in I}) = Cardinality(I)
<1> DEFINE T == {f[i] : i \in I}
           g == [i \in I |-> f[i]]
<1>1. g \in [I -> T] /\ \A i \in I : g[i] = f[i]
  OBVIOUS
<1>2. \A y \in T : \E i \in I : f[i] = y
  OBVIOUS
<1> HIDE DEF g, T
<1>3. \A a, b \in I : g[a] = g[b] => a = b
  BY <1>1
<1>4. \A y \in T : \E i \in I : g[i] = y
  BY <1>1, <1>2
<1>5. g \in Bijection(I, T)
  BY <1>1, <1>3, <1>4 DEF Bijection, Injection, Surjection, IsInjective
<1>6. ExistsBijection(I, T)
  BY <1>5 DEF ExistsBijection
<1> QED BY <1>6, FS_Bijection DEF T

\* The sources of a leaf hold what it summarises.
LEMMA LeafExact ==
  ASSUME TypeInv, mem.bound = host.sess, NEW chunk \in Seq(Messages), Len(chunk) # 0,
         \A i \in 1..Len(chunk) : OwnRow(chunk[i]) /\ chunk[i].uid \in DOMAIN rows,
         \A i, j \in 1..Len(chunk) : i < j => chunk[i].uid < chunk[j].uid
  PROVE  /\ IdsOf(chunk) \subseteq Open /\ IdsOf(chunk) # {}
         /\ \A r \in IdsOf(chunk) : \E i \in 1..Len(chunk) : r <= chunk[i].uid
         /\ Covers(chunk) \subseteq DOMAIN host.said
         /\ \A t \in Texts :
               Cardinality({r \in IdsOf(chunk) : rows[r].msg.text = t})
                 = Cardinality({u \in Covers(chunk) : host.said[u] = t})
<1> DEFINE n == Len(chunk)
<1>1. n \in Nat /\ DOMAIN chunk = 1..n /\ n # 0
      /\ Len(rows) \in Nat /\ DOMAIN rows = 1..Len(rows) /\ mem.last \in Nat
  BY LenProperties DEF TypeInv, Types
<1>2. Placed(chunk)
  <2>1. ASSUME NEW i \in 1..n
        PROVE  /\ chunk[i].uid \in DOMAIN rows /\ chunk[i].uid > mem.last
               /\ rows[chunk[i].uid].sess = mem.bound /\ rows[chunk[i].uid].msg = chunk[i]
    <3>1. OwnRow(chunk[i]) /\ chunk[i].uid \in DOMAIN rows
      BY <2>1
    <3>2. chunk[i].uid > mem.last
          /\ rows[chunk[i].uid] = [sess |-> host.sess, msg |-> chunk[i]]
      BY <3>1 DEF OwnRow
    <3> QED BY <3>1, <3>2
  <2> QED BY <2>1 DEF Placed
<1>3. PICK at \in [1..n -> Open] :
            /\ IdsOf(chunk) = {at[i] : i \in 1..n}
            /\ \A i \in 1..n : /\ at[i] <= chunk[i].uid
                               /\ Identity(rows[at[i]].msg) = Identity(chunk[i])
            /\ \A i, j \in 1..n : i < j => at[i] < at[j]
  BY <1>2, IdsExact
<1>4. Open \subseteq Nat
  BY <1>1 DEF Open, RowsOf
<1>5. \A i \in 1..n : /\ chunk[i].uid \in DOMAIN host.said /\ chunk[i].uid \in Nat
                      /\ chunk[i].uid # 0 /\ chunk[i].nodes = {}
                      /\ chunk[i].text = host.said[chunk[i].uid]
  <2> TAKE i \in 1..n
  <2>1. OwnRow(chunk[i]) /\ chunk[i].uid \in DOMAIN rows
    OBVIOUS
  <2> QED BY <1>1, <2>1 DEF OwnRow
<1>6. Covers(chunk) = {chunk[i].uid : i \in 1..n}
  <2>1. Mentioned(chunk) = {}
    BY <1>1, <1>5 DEF Mentioned
  <2>2. SaidOf({}) = {}
    BY DEF SaidOf
  <2>3. Covers(chunk) = UidsOf(chunk)
    BY <2>1, <2>2, CoversIs
  <2>4. UidsOf(chunk) = {chunk[i].uid : i \in 1..n} \ {0}
    BY <1>1 DEF UidsOf
  <2> QED BY <1>5, <2>3, <2>4
<1>7. \A i \in 1..n : rows[at[i]].msg.text = chunk[i].text
  BY <1>3 DEF Identity
<1>8. ASSUME NEW i \in 1..n, NEW j \in 1..n, at[i] = at[j] \/ chunk[i].uid = chunk[j].uid
      PROVE  i = j
  <2>1. at[i] \in Nat /\ at[j] \in Nat
    BY <1>3, <1>4
  <2>2. i < j => at[i] < at[j] /\ chunk[i].uid < chunk[j].uid
    BY <1>3
  <2>3. j < i => at[j] < at[i] /\ chunk[j].uid < chunk[i].uid
    BY <1>3
  <2>4. chunk[i].uid \in Nat /\ chunk[j].uid \in Nat
    BY <1>5
  <2>5. i \in Nat /\ j \in Nat
    BY <1>1
  <2> QED BY <1>8, <2>1, <2>2, <2>3, <2>4, <2>5
<1>9. ASSUME NEW t \in Texts
      PROVE  Cardinality({r \in IdsOf(chunk) : rows[r].msg.text = t})
               = Cardinality({u \in Covers(chunk) : host.said[u] = t})
  <2> DEFINE I == {i \in 1..n : chunk[i].text = t}
             uid == [i \in 1..n |-> chunk[i].uid]
  <2>1. IsFiniteSet(1..n)
    <3> HIDE DEF n
    <3> QED BY <1>1, FS_Interval
  <2>2. I \subseteq 1..n
    OBVIOUS
  <2>3. \A i \in 1..n : uid[i] = chunk[i].uid
    OBVIOUS
  <2>4. \A i \in 1..n : i \in I <=> chunk[i].text = t
    OBVIOUS
  <2> HIDE DEF I, uid, n
  <2>5. IsFiniteSet(I)
    BY <2>1, <2>2, FS_Subset
  <2>6. {r \in IdsOf(chunk) : rows[r].msg.text = t} = {at[i] : i \in I}
    BY <1>3, <1>7, <2>2, <2>4
  <2>7. {u \in Covers(chunk) : host.said[u] = t} = {uid[i] : i \in I}
    BY <1>5, <1>6, <2>2, <2>3, <2>4
  <2>8. \A i, j \in I : at[i] = at[j] => i = j
    BY <1>8, <2>2
  <2>9. \A i, j \in I : uid[i] = uid[j] => i = j
    BY <1>8, <2>2, <2>3
  <2>10. Cardinality({at[i] : i \in I}) = Cardinality(I)
    BY <2>5, <2>8, ImageSize
  <2>11. Cardinality({uid[i] : i \in I}) = Cardinality(I)
    BY <2>5, <2>9, ImageSize
  <2> QED BY <2>6, <2>7, <2>10, <2>11
<1>10. IdsOf(chunk) \subseteq Open /\ IdsOf(chunk) # {}
  <2>1. 1 \in 1..n
    BY <1>1
  <2> QED BY <1>3, <2>1
<1>11. \A r \in IdsOf(chunk) : \E i \in 1..n : r <= chunk[i].uid
  BY <1>3
<1> QED BY <1>5, <1>6, <1>9, <1>10, <1>11

\* Steps that keep the rows, the texts and the frontier keep a list lined.
LEMMA LinedKept ==
  ASSUME NEW c, Lined(c), UNCHANGED rows, TextsKept,
         host'.sess = host.sess, mem'.last = mem.last
  PROVE  Lined(c)'
<1>1. \A i \in (Anchor(c) + 1)..Len(c) : OwnRow(c[i]) => OwnRow(c[i])'
  BY OwnKept
<1> QED BY <1>1 DEF Lined

\* What holds of a value of the work holds of the work that becomes it.
LEMMA WorkIs ==
  ASSUME NEW c, job'.work = c, Lined(c)', Filed(c, Len(c))'
  PROVE  Lined(job.work)' /\ Filed(job.work, Len(job.work))'
BY DEF Lined, Filed, OwnRow

\* The two parts of the work that a leaf makes.
LEMMA LineParts ==
  ASSUME LineInv, trouble = {}, job.pc = "leaf",
         NEW k, k \in (Anchor(Trimmed(job.work)) + 1)..(Len(Trimmed(job.work)) - Fresh),
         NEW chunk, chunk = SubSeq(Trimmed(job.work), Anchor(Trimmed(job.work)) + 1, k),
         NEW rest, rest = SubSeq(Trimmed(job.work), 1, Anchor(Trimmed(job.work)))
                            \o SubSeq(Trimmed(job.work), k + 1, Len(Trimmed(job.work)))
  PROVE  /\ chunk \in Seq(Messages) /\ rest \in Seq(Messages) /\ Len(chunk) # 0
         /\ \A i \in 1..Len(chunk) : OwnRow(chunk[i]) /\ chunk[i].uid \in DOMAIN rows
         /\ \A i, j \in 1..Len(chunk) : i < j => chunk[i].uid < chunk[j].uid
         /\ \A i \in 1..Len(chunk), j \in (Anchor(rest) + 1)..Len(rest) :
               chunk[i].uid < rest[j].uid
         /\ Lined(rest) /\ Filed(rest, Len(rest)) /\ Bare(rest)
<1>a. PICK w : w = job.work
  OBVIOUS
<1>b. PICK v : v = Trimmed(w)
  OBVIOUS
<1> DEFINE n == Len(v)
           a == Anchor(v)
           b == Anchor(rest)
<1>1. /\ TypeInv /\ Lined(w) /\ Filed(w, Len(w)) /\ w \in Seq(Messages) /\ w # <<>>
  BY <1>a, Undisturbed DEF LineWork, TypeInv, Types, Working
<1>2. /\ v \in Seq(Messages) /\ v # <<>> /\ n \in Nat /\ k \in (a + 1)..(n - Fresh)
      /\ rest \in Seq(Messages) /\ Len(rest) = a + n - k /\ a <= b
      /\ \A i \in (a + 1)..Len(rest) : rest[i] = v[k + i - a]
      /\ chunk = SubSeq(v, a + 1, k)
      /\ Fresh \in Nat \ {0} /\ a \in 0..1 /\ b \in 0..1
  <2>1. v \in Seq(Messages) /\ v # <<>>
    BY <1>b, <1>1, TrimmedType
  <2>2. /\ n \in Nat /\ k \in (a + 1)..(n - Fresh) /\ chunk = SubSeq(v, a + 1, k)
        /\ rest = SubSeq(v, 1, a) \o SubSeq(v, k + 1, n)
    BY <1>a, <1>b, <2>1, LenProperties
  <2>3. /\ rest \in Seq(Messages) /\ Len(rest) = a + n - k /\ a <= b
        /\ \A i \in (a + 1)..Len(rest) : rest[i] = v[k + i - a]
    <3>1. PICK u : u = Trimmed(job.work)
      OBVIOUS
    <3>2. k \in (Anchor(Trimmed(job.work)) + 1)..(Len(Trimmed(job.work)) - Fresh)
      OBVIOUS
    <3>3. LET r == SubSeq(u, 1, Anchor(u)) \o SubSeq(u, k + 1, Len(u))
          IN  /\ r \in Seq(Messages) /\ Len(r) = Anchor(u) + Len(u) - k
              /\ Anchor(u) <= Anchor(r)
              /\ \A i \in (Anchor(u) + 1)..Len(r) : r[i] = u[k + i - Anchor(u)]
      BY <1>1, <3>1, <3>2, LeafParts
    <3>4. u = v
      BY <1>a, <1>b, <3>1
    <3> QED BY <2>2, <3>3, <3>4
  <2>4. a \in 0..1 /\ b \in 0..1
    BY <2>1, <2>3, AnchorRange
  <2> QED BY <2>1, <2>2, <2>3, <2>4, NumbersAssumption
<1>3. Lined(v) /\ Filed(v, n) /\ Bare(v)
  <2>1. n >= Fresh + a + 1
    <3> HIDE DEF n, a
    <3> QED BY <1>2
  <2> QED BY <1>b, <1>1, <2>1, LinedTrimmed
<1> HIDE DEF n, a, b
<1>4. /\ a + 1 \in 1..(n + 1) /\ k \in a..n /\ (a + 1) - 1 = a
      /\ k \in Int /\ k - a \in Nat /\ k - a # 0
  BY <1>2
<1>5. /\ chunk \in Seq(Messages) /\ Len(chunk) = k - a
      /\ \A i \in 1..(k - a) : chunk[i] = v[a + i]
  <2>1. /\ SubSeq(v, a + 1, k) \in Seq(Messages) /\ Len(SubSeq(v, a + 1, k)) = k - (a + 1) + 1
        /\ \A i \in 1..(k - (a + 1) + 1) : SubSeq(v, a + 1, k)[i] = v[(a + 1) + i - 1]
    BY <1>2, <1>4, Part DEF n
  <2>2. k - (a + 1) + 1 = k - a /\ \A i \in 1..(k - a) : (a + 1) + i - 1 = a + i
    BY <1>2, <1>4
  <2> QED BY <1>2, <2>1, <2>2
<1>6. /\ n = Len(rest) + (k - a) /\ Len(rest) \in Nat
      /\ a < (k - a) + b
      /\ \A i \in (b + 1)..Len(rest) : rest[i] = v[(k - a) + i]
  <2>1. Len(rest) \in Nat
    BY <1>2, LenProperties
  <2>2. n = Len(rest) + (k - a) /\ a < (k - a) + b
    BY <1>2, <1>4, <2>1
  <2>3. \A i \in (b + 1)..Len(rest) : i \in (a + 1)..Len(rest) /\ k + i - a = (k - a) + i
    BY <1>2, <1>4, <2>1
  <2> QED BY <1>2, <2>1, <2>2, <2>3
<1>7. ASSUME NEW i \in 1..(k - a)
      PROVE  /\ a + i \in (a + 1)..n /\ a + i \in (a + 1)..k /\ chunk[i] = v[a + i]
             /\ OwnRow(chunk[i]) /\ chunk[i].uid \in DOMAIN rows
  <2>1. a + i \in (a + 1)..n /\ a + i \in (a + 1)..k
    BY <1>2, <1>4
  <2>2. chunk[i] = v[a + i] /\ ~Scaffold(v[a + i])
    BY <1>3, <1>5, <2>1 DEF Bare, n, a
  <2>3. OwnRow(v[a + i]) /\ v[a + i].uid \in DOMAIN rows
    BY <1>3, <2>1, <2>2 DEF Lined, Filed, n, a
  <2> QED BY <2>1, <2>2, <2>3
<1>8. \A i, j \in (a + 1)..n : i < j => v[i].uid < v[j].uid
  BY <1>3 DEF Lined, Bare, n, a
<1>9. ASSUME NEW i \in 1..(k - a), NEW j \in 1..(k - a), i < j
      PROVE  chunk[i].uid < chunk[j].uid
  <2>1. a + i < a + j
    BY <1>2, <1>9
  <2> QED BY <1>7, <1>8, <2>1
<1>10. ASSUME NEW i \in 1..(k - a), NEW j \in (b + 1)..Len(rest)
       PROVE  chunk[i].uid < rest[j].uid
  <2>1. a + i < (k - a) + j /\ (k - a) + j \in (a + 1)..n
    BY <1>2, <1>4, <1>6
  <2> QED BY <1>6, <1>7, <1>8, <2>1
<1>11. Lined(rest) /\ Filed(rest, Len(rest)) /\ Bare(rest)
  <2>1. a <= (k - a) + b
    BY <1>2, <1>4, <1>6
  <2> QED BY <1>2, <1>3, <1>4, <1>6, <2>1, LinedShift DEF n, a, b
<1>13. \A i \in 1..Len(chunk) : OwnRow(chunk[i]) /\ chunk[i].uid \in DOMAIN rows
  BY <1>5, <1>7
<1>14. \A i, j \in 1..Len(chunk) : i < j => chunk[i].uid < chunk[j].uid
  BY <1>5, <1>9
<1>15. \A i \in 1..Len(chunk), j \in (Anchor(rest) + 1)..Len(rest) : chunk[i].uid < rest[j].uid
  BY <1>5, <1>10 DEF b
<1> QED BY <1>2, <1>4, <1>5, <1>11, <1>13, <1>14, <1>15

LEMMA LineLeaf == LineInv /\ trouble = {} /\ Leaf => Lineage'
<1> SUFFICES ASSUME LineInv, trouble = {}, Leaf
             PROVE  Lineage'
  OBVIOUS
<1>1. /\ TypeInv /\ LineLeaves /\ mem.bound = host.sess /\ Len(nodes) \in Nat
      /\ DOMAIN nodes = 1..Len(nodes) /\ Len(rows) \in Nat /\ DOMAIN rows = 1..Len(rows)
      /\ mem.last \in Nat
  BY Undisturbed
<1> DEFINE w == Trimmed(job.work)
<1>n. PICK new : new = Len(nodes) + 1
  OBVIOUS
<1>2. PICK k \in (Anchor(w) + 1)..(Len(w) - Fresh) :
           LET rest == SubSeq(w, 1, Anchor(w)) \o SubSeq(w, k + 1, Len(w))
               chunk == SubSeq(w, Anchor(w) + 1, k)
           IN  /\ nodes' \in Seq(NodeType)
               /\ DOMAIN nodes' = 1..(new)
               /\ \A n \in DOMAIN nodes : nodes'[n] = nodes[n]
               /\ nodes'[new].depth = 0
               /\ nodes'[new].said = Covers(chunk)
               /\ nodes'[new].src = IdsOf(chunk)
               /\ job' = [pc |-> "frontier", work |-> rest,
                          ids |-> IdsOf(chunk), depth |-> 0]
               /\ job.pc = "leaf" /\ UNCHANGED <<host, rows, life, mem, trouble>>
  BY <1>1, <1>n, LeafStep
<1>a. PICK chunk : chunk = SubSeq(w, Anchor(w) + 1, k)
  OBVIOUS
<1>b. PICK rest : rest = SubSeq(w, 1, Anchor(w)) \o SubSeq(w, k + 1, Len(w))
  OBVIOUS
<1>c. PICK ids : ids = IdsOf(chunk)
  OBVIOUS
<1>3. /\ job'.pc = "frontier" /\ job'.work = rest /\ job'.ids = ids
      /\ DOMAIN nodes' = 1..(new) /\ \A n \in DOMAIN nodes : nodes'[n] = nodes[n]
      /\ nodes'[new].depth = 0 /\ nodes'[new].said = Covers(chunk)
      /\ nodes'[new].src = ids
      /\ job.pc = "leaf" /\ UNCHANGED <<host, rows, mem, trouble>>
  BY <1>2, <1>a, <1>b, <1>c
<1>4. Len(nodes') = new
  BY <1>1, <1>2, <1>n, LenProperties
<1>5. /\ chunk \in Seq(Messages) /\ rest \in Seq(Messages) /\ Len(chunk) # 0
      /\ \A i \in 1..Len(chunk) : OwnRow(chunk[i]) /\ chunk[i].uid \in DOMAIN rows
      /\ \A i, j \in 1..Len(chunk) : i < j => chunk[i].uid < chunk[j].uid
      /\ \A i \in 1..Len(chunk), j \in (Anchor(rest) + 1)..Len(rest) : chunk[i].uid < rest[j].uid
      /\ Lined(rest) /\ Filed(rest, Len(rest)) /\ Bare(rest)
  <2>1. job.pc = "leaf" /\ k \in (Anchor(Trimmed(job.work)) + 1)..(Len(Trimmed(job.work)) - Fresh)
    BY <1>2
  <2>2. /\ chunk = SubSeq(Trimmed(job.work), Anchor(Trimmed(job.work)) + 1, k)
        /\ rest = SubSeq(Trimmed(job.work), 1, Anchor(Trimmed(job.work)))
                    \o SubSeq(Trimmed(job.work), k + 1, Len(Trimmed(job.work)))
    BY <1>a, <1>b
  <2> HIDE DEF w
  <2> QED BY <2>1, <2>2, LineParts, Zenon
<1>6. /\ ids \subseteq Open /\ ids # {}
      /\ \A r \in ids : \E i \in 1..Len(chunk) : r <= chunk[i].uid
      /\ Covers(chunk) \subseteq DOMAIN host.said
      /\ \A t \in Texts :
            Cardinality({r \in ids : rows[r].msg.text = t})
              = Cardinality({u \in Covers(chunk) : host.said[u] = t})
  BY <1>1, <1>5, <1>c, LeafExact
<1> HIDE DEF w
<1>7. TextsKept /\ RowsKept
  BY <1>3 DEF TextsKept, RowsKept
<1>8. Leaves' = Leaves \cup {new} /\ new \notin Leaves
  BY <1>1, <1>3, <1>n DEF Leaves
<1>9. Exact(new)'
  <2>1. PICK c : c = Covers(chunk)
    OBVIOUS
  <2>2. /\ nodes'[new].said = c /\ nodes'[new].src = ids /\ c \subseteq DOMAIN host.said
        /\ ids \subseteq DOMAIN rows
        /\ \A t \in Texts : Cardinality({r \in ids : rows[r].msg.text = t})
              = Cardinality({u \in c : host.said[u] = t})
    BY <1>3, <1>6, <2>1 DEF Open, RowsOf
  <2> QED BY <1>3, <2>2 DEF Exact
<1>10. ASSUME NEW l \in Leaves
       PROVE  /\ nodes'[l] = nodes[l] /\ Exact(l)' /\ Settled(l)'
              /\ nodes'[l].src \cap ids = {} /\ nodes[l] = nodes'[l]
  <2>1. l \in DOMAIN nodes /\ nodes'[l] = nodes[l] /\ Exact(l) /\ Settled(l)
    BY <1>1, <1>3 DEF Leaves, LineLeaves
  <2>2. Exact(l)'
    BY <1>7, <2>1, ExactKept
  <2>3. Settled(l)'
    BY <1>3, <2>1 DEF Settled
  <2>4. ASSUME NEW r \in nodes[l].src, r \in ids
        PROVE  FALSE
    <3>1. rows[r].sess = host.sess /\ r > mem.last /\ r \in 1..Len(rows)
      BY <1>1, <1>6, <2>4 DEF Open, RowsOf
    <3>2. rows[r].sess < host.sess \/ r <= mem.last
      BY <2>1 DEF Settled
    <3>3. host.sess \in Nat
      BY <1>1 DEF TypeInv, Types
    <3> QED BY <1>1, <3>1, <3>2, <3>3
  <2> QED BY <2>1, <2>2, <2>3, <2>4
<1>11. LineLeaves'
  <2>1. ASSUME NEW l \in Leaves'
        PROVE  Exact(l)' /\ ((job'.pc = "frontier" /\ l = Len(nodes')) \/ Settled(l)')
    BY <1>3, <1>4, <1>8, <1>9, <1>10
  <2>2. ASSUME NEW l \in Leaves', NEW m \in Leaves', m # l
        PROVE  nodes'[m].src \cap nodes'[l].src = {}
    <3>1. CASE m \in Leaves /\ l \in Leaves
      BY <1>1, <1>10, <2>2, <3>1 DEF LineLeaves
    <3>2. CASE m = new
      BY <1>3, <1>8, <1>10, <2>2, <3>2
    <3>3. CASE l = new
      BY <1>3, <1>8, <1>10, <2>2, <3>3
    <3> QED BY <1>8, <3>1, <3>2, <3>3
  <2> QED BY <2>1, <2>2 DEF LineLeaves
<1>12. LineWork'
  <2>1. Lined(rest)' /\ Filed(rest, Len(rest))'
    BY <1>3, <1>5, <1>7, LinedKept DEF Filed
  <2>2. Lined(job.work)' /\ Filed(job.work, Len(job.work))'
    BY <1>3, <2>1, WorkIs
  <2>3. Bare(job.work)'
    BY <1>3, <1>5 DEF Bare
  <2> QED BY <2>2, <2>3 DEF LineWork
<1>13. LinePending'
  <2>1. ASSUME NEW r \in ids
        PROVE  r > mem.last /\ \A i \in (Anchor(rest) + 1)..Len(rest) : r < rest[i].uid
    <3>1. r \in Nat /\ r > mem.last
      BY <1>1, <1>6 DEF Open, RowsOf
    <3>2. PICK i \in 1..Len(chunk) : r <= chunk[i].uid
      BY <1>6
    <3>3. chunk[i].uid \in Nat
      BY <1>1, <1>5
    <3>4. ASSUME NEW j \in (Anchor(rest) + 1)..Len(rest)
          PROVE  r < rest[j].uid
      <4>1. rest[j] \in Messages /\ rest[j].uid \in Nat
        <5>1. rest \in Seq(Messages)
          BY <1>5
        <5>2. j \in DOMAIN rest
          BY <5>1, LenProperties, AnchorRange
        <5> QED BY <5>1, <5>2, MessageAt
      <4> QED BY <1>5, <3>1, <3>2, <3>3, <4>1
    <3> QED BY <3>1, <3>4
  <2> QED BY <1>3, <1>4, <1>6, <1>8, <2>1 DEF LinePending
<1>14. LinePrompt'
  BY <1>3 DEF LinePrompt
<1> QED BY <1>11, <1>12, <1>13, <1>14 DEF Lineage

\* The frontier moves to the last source of the new leaf.
LEMMA LineFrontier == LineInv /\ trouble = {} /\ Frontier => Lineage'
<1> SUFFICES ASSUME LineInv, trouble = {}, Frontier
             PROVE  Lineage'
  OBVIOUS
<1>a. PICK w : w = job.work
  OBVIOUS
<1>b. PICK f : f = Max(job.ids \cup {0})
  OBVIOUS
<1>1. /\ job.pc = "frontier" /\ mem' = [mem EXCEPT !.last = f]
      /\ job' = [job EXCEPT !.pc = "condense"] /\ UNCHANGED <<host, rows, nodes, trouble>>
  BY <1>b DEF Frontier
<1>2. /\ TypeInv /\ LineLeaves /\ mem.last \in Nat /\ Len(rows) \in Nat
      /\ DOMAIN rows = 1..Len(rows) /\ host.sess \in Nat
      /\ Lined(w) /\ Filed(w, Len(w)) /\ Bare(w)
      /\ Len(nodes) \in Leaves /\ job.ids # {} /\ nodes[Len(nodes)].src = job.ids
      /\ \A r \in job.ids : r > mem.last /\ \A i \in (Anchor(w) + 1)..Len(w) : r < w[i].uid
  BY <1>1, <1>a, Undisturbed DEF LineWork, LinePending
<1>3. mem'.last = f /\ job'.pc = "condense" /\ job'.work = w
  BY <1>1, <1>2, <1>a DEF TypeInv, Types
<1>4. f \in job.ids /\ f > mem.last /\ f \in Nat /\ \A r \in job.ids : r \in Nat /\ r <= f
  <2>1. job.ids \subseteq 1..Len(rows)
    BY <1>2 DEF TypeInv, TypeOK
  <2>2. job.ids \cup {0} \subseteq 0..Len(rows) /\ job.ids \cup {0} # {}
    BY <1>2, <2>1
  <2>3. f \in job.ids \cup {0} /\ \A y \in job.ids \cup {0} : y <= f
    BY <1>2, <1>b, <2>2, MaxOfNats
  <2>4. PICK r \in job.ids : r > mem.last
    BY <1>2
  <2>5. r <= f /\ r \in Nat /\ f \in Nat
    BY <1>2, <2>1, <2>2, <2>3, <2>4
  <2>6. f # 0
    BY <1>2, <2>4, <2>5
  <2> QED BY <1>2, <2>1, <2>3, <2>4, <2>5, <2>6
<1>5. TextsKept /\ RowsKept
  BY <1>1 DEF TextsKept, RowsKept
<1>6. Lined(w)'
  <2>1. ASSUME NEW i \in (Anchor(w) + 1)..Len(w)
        PROVE  OwnRow(w[i])'
    <3>1. OwnRow(w[i]) /\ f < w[i].uid
      BY <1>2, <1>4 DEF Lined, Bare
    <3> QED BY <1>1, <1>3, <3>1 DEF OwnRow
  <2> QED BY <1>2, <2>1 DEF Lined, Bare
<1>7. LineWork'
  <2>1. Filed(w, Len(w))'
    BY <1>1, <1>2 DEF Filed
  <2>2. Lined(job.work)' /\ Filed(job.work, Len(job.work))'
    BY <1>3, <1>6, <2>1, WorkIs
  <2>3. Bare(job.work)'
    BY <1>2, <1>3 DEF Bare
  <2> QED BY <2>2, <2>3 DEF LineWork
<1>8. LineLeaves'
  <2>1. ASSUME NEW n \in Leaves
        PROVE  Settled(n)'
    <3>1. CASE n = Len(nodes)
      BY <1>1, <1>2, <1>3, <1>4, <3>1 DEF Settled
    <3>2. CASE n # Len(nodes)
      <4>1. Settled(n) /\ nodes[n].src \subseteq DOMAIN rows
        BY <1>2, <3>2 DEF LineLeaves, Exact
      <4>2. ASSUME NEW r \in nodes[n].src
            PROVE  rows[r].sess < host.sess \/ r <= f
        <5>1. r \in Nat /\ (rows[r].sess < host.sess \/ r <= mem.last)
          BY <1>2, <4>1 DEF Settled
        <5> QED BY <1>2, <1>4, <5>1
      <4> QED BY <1>1, <1>3, <4>2 DEF Settled
    <3> QED BY <3>1, <3>2
  <2>2. Leaves' = Leaves /\ \A n \in Leaves : nodes'[n].src = nodes[n].src /\ nodes'[n].said = nodes[n].said
    BY <1>1 DEF Leaves
  <2> QED BY <1>2, <1>5, <2>1, <2>2, LeavesKept
<1> QED BY <1>3, <1>7, <1>8 DEF Lineage, LinePrompt, LinePending

\* A deeper node is no leaf.
LEMMA LineCondense ==
  ASSUME LineInv, trouble = {}, NEW d \in 0..MaxDepth, Condense(d)
  PROVE  Lineage'
<1>a. PICK w : w = job.work
  OBVIOUS
<1>1. TypeInv /\ LineLeaves
  BY Undisturbed
<1>2. /\ Len(nodes) \in Nat
      /\ DOMAIN nodes = 1..Len(nodes) /\ DOMAIN nodes' = 1..(Len(nodes) + 1)
      /\ \A n \in DOMAIN nodes : nodes'[n] = nodes[n]
      /\ nodes'[Len(nodes) + 1].depth = d + 1
      /\ job.pc = "condense" /\ job' = [job EXCEPT !.depth = d + 1]
      /\ UNCHANGED <<host, rows, life, mem, trouble>>
  BY <1>1, CondenseStep
<1>3. job'.pc = "condense" /\ job'.work = w
  BY <1>1, <1>2, <1>a DEF TypeInv, Types
<1>4. Lined(w) /\ Filed(w, Len(w)) /\ Bare(w)
  BY <1>2, <1>a, Undisturbed DEF LineWork
<1>5. TextsKept /\ RowsKept
  BY <1>2 DEF TextsKept, RowsKept
<1>6. LineWork'
  <2>1. Lined(w)' /\ Filed(w, Len(w))'
    BY <1>2, <1>4, <1>5, LinedKept DEF Filed
  <2>2. Lined(job.work)' /\ Filed(job.work, Len(job.work))'
    BY <1>3, <2>1, WorkIs
  <2>3. Bare(job.work)'
    BY <1>3, <1>4 DEF Bare
  <2> QED BY <2>2, <2>3 DEF LineWork
<1>7. LineLeaves'
  <2>1. Leaves' = Leaves
    <3>1. d + 1 # 0
      BY NumbersAssumption
    <3> QED BY <1>2, <3>1 DEF Leaves
  <2>2. \A n \in Leaves : nodes'[n].src = nodes[n].src /\ nodes'[n].said = nodes[n].said
    BY <1>2 DEF Leaves
  <2>3. \A n \in Leaves : Settled(n)'
    BY <1>1, <1>2, <2>2 DEF LineLeaves, Settled
  <2> QED BY <1>1, <1>5, <2>1, <2>2, <2>3, LeavesKept
<1> QED BY <1>3, <1>6, <1>7 DEF Lineage, LinePrompt, LinePending

\* The assembled prompt.
LEMMA LinedAssembled ==
  ASSUME TypeInv, NEW w \in Seq(Messages), w # <<>>, Lined(w), Filed(w, Len(w)), Bare(w)
  PROVE  Lined(Assembled(w)) /\ Filed(Assembled(w), Len(Assembled(w)))
<1> DEFINE c == Assembled(w)
           a == Anchor(w)
<1>1. PICK d \in 0..1 : /\ Len(c) = Len(w) + d
                        /\ \A i \in (a + 1)..(a + d) : c[i].kind = "sum"
                        /\ \A i \in (a + 1 + d)..Len(c) : c[i] = w[i - d]
  BY AssembledType DEF TypeInv
<1>a. Anchor(c) = a /\ a \in 0..1
  BY AssembledType, AnchorRange DEF TypeInv
<1> HIDE DEF c, a
<1> DEFINE l == Len(w)
           k == Len(c)
<1>2. l \in Nat /\ k = l + d /\ d \in 0..1
  BY <1>1, LenProperties
<1> HIDE DEF l, k
<1>3. ASSUME NEW i \in (a + 1 + d)..k
      PROVE  i - d \in (a + 1)..l /\ c[i] = w[i - d] /\ ~Scaffold(c[i])
  <2>1. i - d \in (a + 1)..l
    BY <1>a, <1>2
  <2> QED BY <1>1, <2>1 DEF k, l, a, Bare
<1>4. ASSUME NEW i \in (a + 1)..k, Scaffold(c[i])
      PROVE  i = a + 1
  <2>1. ~(i \in (a + 1 + d)..k)
    BY <1>3, <1>4
  <2> QED BY <1>a, <1>2, <2>1
<1>5. ASSUME NEW i \in (a + 1)..k, ~Scaffold(c[i])
      PROVE  i \in (a + 1 + d)..k
  <2>1. ~(i \in (a + 1)..(a + d))
    BY <1>1, <1>5 DEF Scaffold
  <2> QED BY <1>a, <1>2, <2>1
<1>6. ASSUME NEW i \in (a + 1)..k, ~Scaffold(c[i])
      PROVE  OwnRow(c[i]) /\ c[i].uid \in DOMAIN rows
  <2>1. i - d \in (a + 1)..l /\ c[i] = w[i - d] /\ ~Scaffold(w[i - d])
    BY <1>3, <1>5, <1>6
  <2> QED BY <2>1 DEF Lined, Filed, l, a
<1>7. ASSUME NEW i \in (a + 1)..k, NEW j \in (a + 1)..k, i < j, ~Scaffold(c[i])
      PROVE  c[i].uid < c[j].uid
  <2>1. i \in (a + 1 + d)..k
    BY <1>5, <1>7
  <2>2. j \in (a + 1 + d)..k /\ i - d < j - d
    BY <1>a, <1>2, <1>7, <2>1
  <2> QED BY <1>3, <2>1, <2>2 DEF Lined, Bare, l, a
<1>8. Lined(c) /\ Filed(c, k)
  BY <1>a, <1>4, <1>6, <1>7 DEF Lined, Filed, k
<1> QED BY <1>8 DEF c, k

\* What the host goes on with.
LEMMA LinePublished ==
  ASSUME LineInv, trouble = {}, job.pc \in {"leaf", "condense"},
         NEW w \in Seq(Messages), w # <<>>, Lined(w), Filed(w, Len(w)), Bare(w),
         host' = [host EXCEPT !.ctx = Assembled(w)],
         mem'.cursor = Len(Assembled(w)), mem'.last = mem.last,
         job'.pc = "idle", UNCHANGED <<rows, nodes, trouble>>
  PROVE  Lineage'
<1>a. PICK c : c = Assembled(w)
  OBVIOUS
<1>1. TypeInv /\ LineLeaves
  BY Undisturbed
<1>2. Lined(c) /\ Filed(c, Len(c))
  BY <1>1, <1>a, LinedAssembled
<1>3. host'.ctx = c /\ host'.said = host.said /\ host'.sess = host.sess /\ mem'.cursor = Len(c)
  BY <1>1, <1>a DEF TypeInv, Types
<1>4. TextsKept /\ RowsKept
  BY <1>3 DEF TextsKept, RowsKept
<1>5. Lined(host.ctx)'
  BY <1>2, <1>3, <1>4, LinedKept, LinedIs
<1>6. Filed(host.ctx, mem.cursor)'
  BY <1>2, <1>3 DEF Filed
<1>7. LineLeaves'
  <2>1. Leaves' = Leaves /\ \A n \in Leaves : nodes'[n].src = nodes[n].src /\ nodes'[n].said = nodes[n].said
    BY DEF Leaves
  <2>2. \A n \in Leaves : Settled(n)'
    BY <1>1, <1>3 DEF LineLeaves, Settled
  <2> QED BY <1>1, <1>4, <2>1, <2>2, LeavesKept
<1> QED BY <1>5, <1>6, <1>7 DEF Lineage, LinePrompt, LineWork, LinePending

LEMMA LinePublish == LineInv /\ trouble = {} /\ Publish => Lineage'
<1> SUFFICES ASSUME LineInv, trouble = {}, Publish
             PROVE  Lineage'
  OBVIOUS
<1>a. PICK w : w = job.work
  OBVIOUS
<1>1. /\ job.pc = "condense" /\ host' = [host EXCEPT !.ctx = Assembled(w)]
      /\ mem' = [mem EXCEPT !.cursor = Len(Assembled(w)), !.needs = FALSE]
      /\ job'.pc = "idle" /\ UNCHANGED <<rows, nodes, trouble>>
  BY <1>a DEF Publish, Idle
<1>2. /\ TypeInv /\ w \in Seq(Messages) /\ w # <<>>
      /\ Lined(w) /\ Filed(w, Len(w)) /\ Bare(w)
  BY <1>1, <1>a, Undisturbed DEF LineWork, TypeInv, Types, Working
<1>3. mem'.cursor = Len(Assembled(w)) /\ mem'.last = mem.last
  BY <1>1, <1>2 DEF TypeInv, Types
<1> QED BY <1>1, <1>2, <1>3, LinePublished

LEMMA LineNoop == LineInv /\ trouble = {} /\ Noop => Lineage'
<1> SUFFICES ASSUME LineInv, trouble = {}, Noop
             PROVE  Lineage'
  OBVIOUS
<1>a. PICK w : w = job.work
  OBVIOUS
<1>1. job.pc = "leaf" /\ job'.pc = "idle" /\ UNCHANGED <<rows, nodes, trouble>>
  BY DEF Noop, Idle
<1>2. /\ TypeInv /\ w \in Seq(Messages) /\ w # <<>> /\ Lined(w) /\ Filed(w, Len(w))
      /\ LinePrompt /\ LineLeaves
  BY <1>1, <1>a, Undisturbed DEF LineWork, TypeInv, Types, Working
<1>3. CASE Lead(w) > 0
  <2>a. PICK v : v = Trimmed(w)
    OBVIOUS
  <2>1. /\ host' = [host EXCEPT !.ctx = Assembled(v)]
        /\ mem' = [mem EXCEPT !.cursor = Len(Assembled(v))]
    BY <1>3, <1>a, <2>a DEF Noop
  <2>2. v \in Seq(Messages) /\ v # <<>> /\ Lined(v) /\ Filed(v, Len(v)) /\ Bare(v)
    BY <1>2, <1>3, <2>a, TrimmedType, LinedTrimmed
  <2>3. mem'.cursor = Len(Assembled(v)) /\ mem'.last = mem.last
    BY <1>2, <2>1 DEF TypeInv, Types
  <2> QED BY <1>1, <2>1, <2>2, <2>3, LinePublished
<1>4. CASE ~(Lead(w) > 0)
  <2>1. UNCHANGED <<host, mem>>
    BY <1>4, <1>a DEF Noop
  <2>2. LinePrompt'
    BY <1>1, <1>2, <2>1 DEF LinePrompt, Lined, Filed, OwnRow
  <2>3. LineLeaves'
    BY <1>1, <1>2, <2>1 DEF LineLeaves, Leaves, Exact, Settled
  <2> QED BY <1>1, <2>2, <2>3 DEF Lineage, LineWork, LinePending
<1> QED BY <1>3, <1>4

\* /new stores the rest of the session, whose rows the next one has passed.
LEMMA LineNewSession ==
  ASSUME LineInv, trouble = {}, NEW carry \in BOOLEAN, NewSession(carry)
  PROVE  Lineage'
<1> DEFINE Reset(n) == IF nodes[n].sess # host.sess THEN nodes[n].sess
                       ELSE IF nodes[n].depth < Retain THEN 0
                       ELSE IF carry THEN host.sess + 1 ELSE host.sess
           to == [n \in DOMAIN nodes |-> Reset(n)]
<1>1. /\ TypeInv /\ ~mem.needs /\ mem.bound # 0 /\ Behind /\ StoredInOrder /\ LineLeaves
      /\ host.sess \in Nat /\ host.ctx \in Seq(Messages)
  BY Undisturbed
<1>2. /\ job.pc = "idle" /\ rows' = Appended(host.ctx)
      /\ mem' = [Unbound EXCEPT !.bound = host.sess + 1]
      /\ host' = [host EXCEPT !.sess = host.sess + 1, !.ctx = <<>>, !.log = <<>>,
                              !.since = Len(host.said) + 1]
      /\ UNCHANGED <<job, trouble>>
      /\ nodes' = [n \in DOMAIN nodes |-> [nodes[n] EXCEPT !.sess = to[n]]]
  BY <1>1 DEF NewSession, Quiet
<1>3. to \in [DOMAIN nodes -> Nat]
  <2>1. \A n \in DOMAIN nodes : nodes[n].sess \in 0..host.sess
    BY <1>1 DEF TypeInv, TypeOK
  <2> QED BY <1>1, <2>1
<1> HIDE DEF to, Reset
<1>4. /\ DOMAIN nodes' = DOMAIN nodes
      /\ \A n \in DOMAIN nodes : /\ nodes'[n].depth = nodes[n].depth
                                 /\ nodes'[n].src = nodes[n].src /\ nodes'[n].said = nodes[n].said
  BY <1>1, <1>2, <1>3, MoveNodes DEF TypeInv
<1>5. RowsKept
  BY <1>1, <1>2, RowsAfter
<1>6. \A r \in DOMAIN rows' : rows'[r].sess \in 1..host.sess
  BY <1>1, <1>2, WriteType
<1>7. host'.sess = host.sess + 1 /\ host'.ctx = <<>> /\ host'.said = host.said
  BY <1>1, <1>2 DEF TypeInv, Types
<1>8. TextsKept
  BY <1>7 DEF TextsKept
<1>9. LineLeaves'
  <2>1. Leaves' = Leaves /\ \A n \in Leaves : nodes'[n].src = nodes[n].src /\ nodes'[n].said = nodes[n].said
    BY <1>4 DEF Leaves
  <2>2. ASSUME NEW n \in Leaves
        PROVE  Settled(n)'
    <3>1. nodes'[n].src \subseteq DOMAIN rows'
      BY <1>1, <1>5, <2>1 DEF LineLeaves, Exact, RowsKept
    <3>2. ASSUME NEW r \in nodes'[n].src
          PROVE  rows'[r].sess < host'.sess
      <4>1. rows'[r].sess \in 1..host.sess
        BY <1>6, <3>1
      <4> QED BY <1>1, <1>7, <4>1
    <3> QED BY <3>2 DEF Settled
  <2> QED BY <1>1, <1>5, <1>8, <2>1, <2>2, LeavesKept
<1>10. LinePrompt'
  <2>1. /\ mem'.cursor = 0 /\ Len(host'.ctx) = 0
        /\ (Anchor(host.ctx)' + 1)..0 = {}
    BY <1>2, <1>7 DEF Unbound, Anchor
  <2> QED BY <2>1 DEF LinePrompt, Lined, Filed
<1> QED BY <1>2, <1>9, <1>10 DEF Lineage, LineWork, LinePending

LEMMA LineStep == LineInv /\ [Next]_vars => LineInv'
<1> SUFFICES ASSUME LineInv, [Next]_vars PROVE Lineage'
  BY StraightStep DEF LineInv
<1> SUFFICES ASSUME trouble' = {} PROVE Lineage'
  BY DEF Lineage
<1>1. trouble = {}
  BY DEF Next, vars, Say, Turn, Compress, Leaf, Frontier, Noop, Condense, Publish,
         Abort, Crash, Exit, Resume, Boundary, Crossed, NewSession, ChildEnd, Befalls, Known
<1>2. ASSUME NEW k \in {"sys", "turn"}, NEW t \in Texts, Say(k, t) PROVE Lineage'
  BY <1>1, <1>2, LineSay
<1>3. CASE Turn \/ Compress
  BY <1>1, <1>3, LineTurn
<1>4. CASE Leaf
  BY <1>1, <1>4, LineLeaf
<1>5. CASE Frontier
  BY <1>1, <1>5, LineFrontier
<1>6. CASE Noop
  BY <1>1, <1>6, LineNoop
<1>7. ASSUME NEW d \in 0..MaxDepth, Condense(d) PROVE Lineage'
  BY <1>1, <1>7, LineCondense
<1>8. CASE Publish
  BY <1>1, <1>8, LinePublish
<1>9. CASE Abort \/ Crash \/ Exit \/ Boundary
  BY <1>9 DEF Abort, Crash, Exit, Boundary, Crossed, Befalls, Known
<1>10. ASSUME NEW how \in {"transcript", "prompt", "delta"}, Resume(how) PROVE Lineage'
  BY <1>1, <1>10, Undisturbed DEF Resume
<1>11. ASSUME NEW carry \in BOOLEAN, NewSession(carry) PROVE Lineage'
  BY <1>1, <1>11, LineNewSession
<1>12. ASSUME NEW ms, ChildEnd(ms) PROVE Lineage'
  BY <1>12 DEF ChildEnd, Befalls, Known
<1>13. CASE UNCHANGED vars
  BY <1>13 DEF vars, LineInv, Lineage, LinePrompt, LineWork, LineLeaves, LinePending,
               Leaves, Lined, Filed, Bare, OwnRow, Exact, Settled
<1> QED BY <1>2, <1>3, <1>4, <1>5, <1>6, <1>7, <1>8, <1>9, <1>10, <1>11, <1>12, <1>13 DEF Next

LEMMA LineInit == Init => LineInv
<1> SUFFICES ASSUME Init PROVE Lineage
  BY StraightInit DEF LineInv
<1>1. host.ctx = <<>> /\ nodes = <<>> /\ mem.cursor = 0 /\ job.pc = "idle"
  BY DEF Init, Unbound, Idle
<1>2. Leaves = {} /\ Len(host.ctx) = 0 /\ (Anchor(host.ctx) + 1)..0 = {}
  BY <1>1 DEF Leaves, Anchor
<1> QED BY <1>1, <1>2 DEF Lineage, LinePrompt, LineWork, LineLeaves, LinePending, Lined, Filed

\* In an undisturbed process every leaf's sources are rows that hold the texts
\* it summarises, each as often as it was said, whatever texts repeat and
\* wherever the frontier is, and no row is a source of two leaves.
THEOREM LcmLineageExact == Spec => []LineageExact
<1>1. LineInv => LineageExact
  BY DEF LineInv, Lineage, LineLeaves, LineageExact, Exact
<1> QED BY LineInit, LineStep, <1>1, PTL DEF Spec

-----------------------------------------------------------------------------
(* The replay check.                                                          *)

\* Of consecutive numbers the i-th is i steps from the first.
LEMMA InOrderRange ==
  ASSUME NEW a \in Nat, NEW b \in Nat, NEW i \in Nat, 1 <= i, i + a <= b + 1
  PROVE  InOrder(a..b, i) = a + i - 1
<1> DEFINE S == a..b
           n == a + i - 1
           R(r) == Cardinality({q \in S : q <= r})
<1>1. ASSUME NEW r \in S
      PROVE  R(r) = r - a + 1
  <2>1. {q \in S : q <= r} = a..r /\ r \in Int /\ a <= r
    OBVIOUS
  <2>2. Cardinality(a..r) = r - a + 1
    <3>1. a \in Int /\ r \in Int
      BY <2>1
    <3> HIDE DEF S
    <3>2. Cardinality(a..r) = IF a > r THEN 0 ELSE r - a + 1
      BY <3>1, FS_Interval
    <3> QED BY <2>1, <3>1, <3>2
  <2> QED BY <2>1, <2>2
<1>2. n \in S
  OBVIOUS
<1>3. \A r \in S : R(r) = i <=> r = n
  <2> SUFFICES ASSUME NEW r \in S PROVE R(r) = i <=> r = n
    OBVIOUS
  <2>1. R(r) = r - a + 1
    BY <1>1
  <2>2. r \in Int
    OBVIOUS
  <2> HIDE DEF R, S
  <2> QED BY <2>1, <2>2
<1> HIDE DEF n, S, R
<1>4. (CHOOSE r \in S : R(r) = i) = n
  BY <1>2, <1>3
<1> QED BY <1>4 DEF InOrder, S, R, n

\* Each member of a set has its place, and each place a member.
LEMMA InOrderMember ==
  ASSUME NEW N \in Nat, NEW S, S \subseteq 1..N
  PROVE  /\ IsFiniteSet(S) /\ Cardinality(S) \in Nat
         /\ \A i \in 1..Cardinality(S) : InOrder(S, i) \in S
         /\ \A r \in S : \E i \in 1..Cardinality(S) : InOrder(S, i) = r
<1> DEFINE n == Cardinality(S)
           U(r) == {q \in S : q <= r}
           f == [r \in S |-> Cardinality(U(r))]
<1>1. IsFiniteSet(S) /\ n \in Nat
  <2>1. IsFiniteSet(1..N)
    BY FS_Interval
  <2> QED BY <2>1, FS_Subset, FS_CardinalityType
<1>2. ASSUME NEW r \in S
      PROVE  /\ IsFiniteSet(U(r)) /\ Cardinality(U(r)) \in 1..n
  <2>1. U(r) \subseteq S /\ {r} \subseteq U(r)
    BY DEF U
  <2> HIDE DEF U
  <2>2. IsFiniteSet(U(r)) /\ Cardinality(U(r)) \in Nat /\ Cardinality(U(r)) <= n
    BY <1>1, <2>1, FS_Subset, FS_CardinalityType
  <2>3. Cardinality({r}) = 1 /\ Cardinality({r}) <= Cardinality(U(r))
    BY <2>1, <2>2, FS_Singleton, FS_Subset
  <2> QED BY <1>1, <2>2, <2>3
<1>3. ASSUME NEW r \in S, NEW q \in S, q < r
      PROVE  Cardinality(U(q)) < Cardinality(U(r))
  <2>1. U(q) \subseteq U(r) /\ r \in U(r) /\ r \notin U(q)
    <3>1. r \in Int /\ q \in Int /\ \A x \in S : x \in Int
      OBVIOUS
    <3>2. \A x \in S : x <= q => x <= r
      BY <1>3, <3>1
    <3>3. r <= r /\ ~(r <= q)
      BY <1>3, <3>1
    <3> QED BY <3>2, <3>3 DEF U
  <2>2. U(q) # U(r) /\ IsFiniteSet(U(r))
    BY <1>2, <2>1
  <2> HIDE DEF U
  <2> QED BY <2>1, <2>2, FS_Subset, FS_CardinalityType
<1>4. \A r \in S : f[r] = Cardinality(U(r))
  OBVIOUS
<1>5. f \in [S -> 1..n]
  BY <1>2
<1> HIDE DEF f, U, n
<1>6. \A r, q \in S : f[r] = f[q] => r = q
  <2> SUFFICES ASSUME NEW r \in S, NEW q \in S, f[r] = f[q] PROVE r = q
    OBVIOUS
  <2>1. r \in Nat /\ q \in Nat /\ f[r] \in Nat
    BY <1>1, <1>5
  <2>2. ~(q < r) /\ ~(r < q)
    BY <1>1, <1>3, <1>4, <1>5, <2>1
  <2> QED BY <2>1, <2>2
<1>7. f \in Injection(S, 1..n)
  BY <1>5, <1>6 DEF Injection, IsInjective
<1>8. IsFiniteSet(1..n) /\ Cardinality(1..n) = n
  <2>1. Cardinality(1..n) = IF 1 > n THEN 0 ELSE n - 1 + 1
    BY <1>1, FS_Interval
  <2>2. IsFiniteSet(1..n)
    BY <1>1, FS_Interval
  <2> QED BY <1>1, <2>1, <2>2
<1>9. f \in Surjection(S, 1..n)
  BY <1>7, <1>8, FS_Injection DEF n
<1>10. \A i \in 1..n : \E r \in S : f[r] = i
  BY <1>9 DEF Surjection
<1>11. ASSUME NEW i \in 1..n
       PROVE  InOrder(S, i) \in S /\ f[InOrder(S, i)] = i
  <2>1. PICK r \in S : f[r] = i
    BY <1>10
  <2>2. \E q \in S : Cardinality({x \in S : x <= q}) = i
    BY <1>4, <2>1 DEF U
  <2> QED BY <1>4, <2>2 DEF InOrder, U
<1>12. ASSUME NEW r \in S
       PROVE  InOrder(S, f[r]) = r /\ f[r] \in 1..n
  <2>1. f[r] \in 1..n
    BY <1>5
  <2> QED BY <1>6, <1>11, <2>1
<1> QED BY <1>1, <1>11, <1>12 DEF n

\* A known message is scaffolding or has the identity of a stored row.
LEMMA KnownRow ==
  ASSUME Types, NEW ms \in Seq(Messages), NEW c \in 0..Len(ms), Replays(ms, c),
         NEW i \in 1..c, ~Scaffold(ms[i])
  PROVE  \E r \in RowsOf(mem.bound) : Identity(rows[r].msg) = Identity(ms[i])
<1> DEFINE A == Shown(ms, c)
           B == RowsOf(mem.bound)
<1>1. Len(ms) \in Nat /\ Len(rows) \in Nat /\ c \in Nat
  BY LenProperties DEF Types
<1>2. A \subseteq 1..c /\ B \subseteq 1..Len(rows) /\ i \in A
  BY LenProperties DEF Shown, RowsOf, Types
<1>3. /\ Cardinality(A) = Cardinality(B)
      /\ \A k \in 1..Cardinality(A) :
            Identity(ms[InOrder(A, k)]) = Identity(rows[InOrder(B, k)].msg)
  BY <1>2 DEF Replays
<1> HIDE DEF A, B
<1>4. PICK k \in 1..Cardinality(A) : InOrder(A, k) = i
  BY <1>1, <1>2, InOrderMember
<1>5. InOrder(B, k) \in B
  BY <1>1, <1>2, <1>3, <1>4, InOrderMember
<1> QED BY <1>3, <1>4, <1>5 DEF B

\* A transcript whose front is the whole session, row by row, and more than one
\* turn, is known as far as that and no further.
LEMMA ReconciledWhole ==
  ASSUME Types, NEW ms \in Seq(Messages), NEW a \in Nat, NEW s \in Nat, 1 <= s, s <= Len(ms),
         1 <= a, a + s = Len(rows) + 1,
         RowsOf(mem.bound) = a..Len(rows),
         \A i \in 1..Len(ms) : ~Scaffold(ms[i]),
         \A i \in 1..s : rows[a + i - 1].msg = ms[i],
         s = 1 => ms[1].kind = "sys"
  PROVE  Reconciled(ms) = s
<1> DEFINE n == Len(ms)
           L == Len(rows)
           S == {c \in 0..n : Replays(ms, c)}
<1>1. n \in Nat /\ L \in Nat
  BY LenProperties DEF Types
<1>2. \A c \in 0..n : Shown(ms, c) = 1..c
  BY <1>1 DEF Shown
<1>3. RowsOf(mem.bound) = a..L /\ s <= n /\ a + s = L + 1
  OBVIOUS
<1> HIDE DEF n, L
<1>4. \A c \in 0..n : Cardinality(1..c) = c
  <2> SUFFICES ASSUME NEW c \in 0..n PROVE Cardinality(1..c) = c
    OBVIOUS
  <2>1. c \in Nat /\ 1 \in Int /\ c \in Int
    BY <1>1
  <2>2. Cardinality(1..c) = IF 1 > c THEN 0 ELSE c - 1 + 1
    BY <2>1, FS_Interval
  <2> QED BY <2>1, <2>2
<1>5. Cardinality(a..L) = s
  <2>1. Cardinality(a..L) = IF a > L THEN 0 ELSE L - a + 1
    BY <1>1, FS_Interval
  <2> QED BY <1>1, <1>3, <2>1
<1>6. s \in 0..n
  BY <1>1, <1>3
<1>7. Replays(ms, s)
  <2>1. ASSUME NEW k \in 1..s
        PROVE  Identity(ms[InOrder(1..s, k)]) = Identity(rows[InOrder(a..L, k)].msg)
    <3>1. 1 \in Nat /\ k \in Nat /\ 1 <= k /\ k + 1 <= s + 1 /\ k + a <= L + 1 /\ 1 + k - 1 = k
      BY <1>1, <1>3
    <3>2. InOrder(1..s, k) = 1 + k - 1
      BY <3>1, InOrderRange
    <3>3. InOrder(a..L, k) = a + k - 1
      BY <1>1, <3>1, InOrderRange
    <3> QED BY <3>1, <3>2, <3>3
  <2>2. s > 1 \/ \E i \in 1..s : ms[i].kind = "sys"
    OBVIOUS
  <2>3. Shown(ms, s) = 1..s /\ Cardinality(1..s) = s
    BY <1>2, <1>4, <1>6
  <2> QED BY <1>3, <1>5, <2>1, <2>2, <2>3 DEF Replays
<1>8. ASSUME NEW c \in 0..n, Replays(ms, c)
      PROVE  c = 0 \/ c = s
  <2>1. Shown(ms, c) = 1..c /\ Cardinality(1..c) = c
    BY <1>2, <1>4
  <2>2. 1..c = {} \/ Cardinality(1..c) = Cardinality(a..L)
    BY <1>3, <1>8, <2>1 DEF Replays
  <2>3. 1..c = {} => c = 0
    BY <1>1
  <2> QED BY <1>5, <2>1, <2>2, <2>3
<1>9. s \in S /\ S \subseteq 0..n /\ \A c \in S : c = 0 \/ c = s
  BY <1>6, <1>7, <1>8
<1> HIDE DEF S
<1>10. Max(S) \in S /\ s <= Max(S)
  BY <1>1, <1>9, MaxOfNats
<1>11. Max(S) = s
  BY <1>9, <1>10
<1> QED BY <1>11 DEF Reconciled, S, n

-----------------------------------------------------------------------------
(* Processes that end and are resumed with the transcript.                    *)

(* The host's transcript is what was said in the session.                     *)
Spoken ==
    /\ Len(host.log) + host.since = Len(host.said) + 1
    /\ \A i \in 1..Len(host.log) : /\ host.log[i].kind \in {"sys", "turn"}
                                   /\ host.log[i].uid + 1 = host.since + i
(* The session's rows are the last ones and the front of its transcript.      *)
Filing ==
    /\ StoredInOrder
    /\ host.since <= Len(rows) + 1 /\ Len(rows) <= Len(host.said)
    /\ \A r \in DOMAIN rows : rows[r].sess = host.sess <=> r >= host.since
    /\ \A r \in host.since..Len(rows) : rows[r].msg = host.log[r + 1 - host.since]
Waits == mem.bound = 0 \/ mem.needs => job.pc = "idle"
(* A process that has not ingested yet has the transcript, and it is evidence. *)
Returned == mem.bound # 0 /\ mem.needs =>
    /\ host.ctx = host.log /\ host.since <= Len(rows)
    /\ host.since = Len(rows) => rows[Len(rows)].msg.kind = "sys"
OnCourse == mem.bound # 0 /\ ~mem.needs =>
    /\ Behind
    /\ \A i \in (mem.cursor + 1)..Len(host.ctx) :
          host.ctx[i] = host.log[host.ctx[i].uid + 1 - host.since]
    /\ job.pc # "idle" => mem.cursor = Len(host.ctx)

Replayed == Spoken /\ Filing /\ Waits /\ Returned /\ OnCourse
ReplayInv ==
    TypeInv /\ (Clean({"prompt", "delta", "single", "child", "boundary"}) => Replayed)

\* The numbers of a replayed conversation.
LEMMA ReplayNumbers ==
  ASSUME TypeInv, Replayed
  PROVE  /\ Len(rows) \in Nat /\ Len(host.said) \in Nat /\ Len(host.log) \in Nat
         /\ Len(host.ctx) \in Nat /\ mem.cursor \in Nat
         /\ host.since \in Nat /\ 1 <= host.since /\ host.since <= Len(host.said) + 1
         /\ host.since <= Len(rows) + 1 /\ Len(rows) <= Len(host.said)
         /\ Len(host.log) + host.since = Len(host.said) + 1
         /\ DOMAIN rows = 1..Len(rows) /\ host.sess \in Nat /\ mem.bound \in {0, host.sess}
         /\ host.ctx \in Seq(Messages) /\ host.log \in Seq(Messages)
         /\ \A i \in 1..Len(host.log) : ~Scaffold(host.log[i])
<1>1. /\ Len(rows) \in Nat /\ Len(host.said) \in Nat /\ Len(host.log) \in Nat
      /\ Len(host.ctx) \in Nat /\ mem.cursor \in Nat /\ DOMAIN rows = 1..Len(rows)
      /\ host.ctx \in Seq(Messages) /\ host.log \in Seq(Messages) /\ host.sess \in Nat
  BY LenProperties DEF TypeInv, Types
<1>2. host.since \in Nat /\ 1 <= host.since /\ host.since <= Len(host.said) + 1
      /\ mem.bound \in {0, host.sess}
  BY <1>1 DEF TypeInv, TypeOK
<1>3. \A i \in 1..Len(host.log) : ~Scaffold(host.log[i])
  BY DEF Replayed, Spoken, Scaffold
<1> QED BY <1>1, <1>2, <1>3 DEF Replayed, Spoken, Filing

\* Any ingest of the prompt completes the store.
LEMMA WholeWrite ==
  ASSUME TypeInv, Replayed, mem.bound # 0, rows' = Appended(host.ctx)
  PROVE  /\ Len(rows') = Len(host.said) /\ DOMAIN rows' = 1..Len(host.said)
         /\ RowsKept /\ StoredInOrder'
         /\ \A r \in (Len(rows) + 1)..Len(host.said) :
               /\ rows'[r].sess = host.sess
               /\ rows'[r].msg = host.log[r + 1 - host.since]
<1> DEFINE L == Len(rows)
           N == Len(host.said)
           a == host.since
           l == Len(host.log)
           p == From(host.ctx)
           q == Len(host.ctx)
<1>1. /\ L \in Nat /\ N \in Nat /\ a \in Nat /\ l \in Nat /\ 1 <= a /\ a <= L + 1 /\ L <= N
      /\ l + a = N + 1 /\ q \in Nat /\ DOMAIN rows = 1..L
      /\ host.ctx \in Seq(Messages) /\ host.log \in Seq(Messages)
      /\ mem.bound = host.sess /\ mem.cursor \in Nat
  BY ReplayNumbers
<1>2. /\ rows' \in Seq(RowType)
      /\ Len(rows') = L + q - p
      /\ \A r \in 1..Len(rows') : rows'[r] =
           IF r <= L THEN rows[r] ELSE [sess |-> host.sess, msg |-> host.ctx[p + r - L]]
      /\ p \in 0..q
  BY <1>1, IngestType, FromRange DEF TypeInv
<1>3. DOMAIN rows' = 1..Len(rows')
  BY <1>2, LenProperties
<1>7. Len(rows') = L + q - p /\ p \in 0..q
  BY <1>2
<1>8. ASSUME NEW r \in 1..Len(rows')
      PROVE  /\ r <= L => rows'[r] = rows[r]
             /\ ~(r <= L) => /\ rows'[r].sess = host.sess
                             /\ rows'[r].msg = host.ctx[p + r - L]
  <2> HIDE DEF L, p
  <2> DEFINE new == [sess |-> host.sess, msg |-> host.ctx[p + r - L]]
  <2>1. rows'[r] = IF r <= L THEN rows[r] ELSE new
    BY <1>2, Zenon
  <2>2. new.sess = host.sess /\ new.msg = host.ctx[p + r - L]
    OBVIOUS
  <2> HIDE DEF new
  <2> QED BY <2>1, <2>2
<1>4. /\ Len(rows') = N
      /\ \A r \in (L + 1)..N : host.ctx[p + r - L] = host.log[r + 1 - a]
      /\ StoredInOrder'
  <2>1. CASE ~mem.needs
    <3>1. Behind /\ StoredInOrder
      BY <1>1, <2>1 DEF Replayed, OnCourse, Filing
    <3>2. p = mem.cursor /\ Len(rows') = N /\ StoredInOrder'
      BY <2>1, <3>1, StraightWrite
    <3>3. /\ L + q = N + mem.cursor /\ mem.cursor <= q
          /\ \A i \in (mem.cursor + 1)..q : /\ host.ctx[i].uid = L + i - mem.cursor
                                            /\ host.ctx[i] = host.log[host.ctx[i].uid + 1 - a]
      BY <1>1, <2>1, <3>1 DEF Replayed, OnCourse, Behind
    <3> HIDE DEF p, q, L, N, a
    <3>4. ASSUME NEW r \in (L + 1)..N
          PROVE  host.ctx[p + r - L] = host.log[r + 1 - a]
      <4>1. p + r - L \in (mem.cursor + 1)..q /\ L + (p + r - L) - mem.cursor = r
        BY <1>1, <3>2, <3>3
      <4> QED BY <3>3, <4>1
    <3> QED BY <3>2, <3>4 DEF N
  <2>2. CASE mem.needs
    <3> DEFINE s == L + 1 - a
    <3>1. /\ host.ctx = host.log /\ a <= L
          /\ a = L => rows[L].msg.kind = "sys"
      BY <1>1, <2>2 DEF Replayed, Returned
    <3>2. /\ s \in Nat /\ 1 <= s /\ s <= l /\ a + s = L + 1
          /\ \A i \in 1..s : a + i - 1 \in a..L /\ (a + i - 1) + 1 - a = i
      <4> HIDE DEF L, N, a, l
      <4>1. s \in Nat /\ 1 <= s /\ s <= l /\ a + s = L + 1
        BY <1>1, <3>1
      <4> HIDE DEF s
      <4>2. ASSUME NEW i \in 1..s
            PROVE  a + i - 1 \in a..L /\ (a + i - 1) + 1 - a = i
        BY <1>1, <4>1
      <4> QED BY <4>1, <4>2
    <3>3. /\ \A r \in a..L : rows[r].msg = host.log[r + 1 - a]
          /\ \A r \in DOMAIN rows : rows[r].sess = host.sess <=> r >= a
      BY DEF Replayed, Filing
    <3>4. \A i \in 1..s : rows[a + i - 1].msg = host.log[i]
      <4> HIDE DEF L, a, s
      <4> QED BY <3>2, <3>3
    <3>5. RowsOf(mem.bound) = a..L
      <4>1. \A r \in 1..L : r >= a <=> r \in a..L
        BY <1>1
      <4>2. a..L \subseteq 1..L
        BY <1>1
      <4> HIDE DEF L, a
      <4> QED BY <1>1, <3>3, <4>1, <4>2 DEF RowsOf
    <3>6. s = 1 => host.log[1].kind = "sys"
      <4>1. s = 1 => a = L /\ a + 1 - 1 = L
        <5> HIDE DEF L, a
        <5> QED BY <1>1
      <4>2. s = 1 => rows[a + 1 - 1].msg = host.log[1]
        BY <3>2, <3>4
      <4> QED BY <3>1, <4>1, <4>2
    <3>7. \A i \in 1..l : ~Scaffold(host.log[i])
      BY ReplayNumbers
    <3>8. Types
      BY DEF TypeInv
    <3> HIDE DEF a, s
    <3>9. Reconciled(host.log) = s
      BY <1>1, <3>2, <3>4, <3>5, <3>6, <3>7, <3>8, ReconciledWhole
    <3>10. p = s /\ q = l
      BY <2>2, <3>1, <3>9 DEF From
    <3> HIDE DEF p, q, L, N, l
    <3>11. Len(rows') = N
      <4>1. a + s = L + 1 /\ s \in Nat
        BY <3>2
      <4> QED BY <1>1, <1>7, <3>10, <4>1
    <3>12. ASSUME NEW r \in (L + 1)..N
           PROVE  host.ctx[p + r - L] = host.log[r + 1 - a]
      <4>1. p + r - L = r + 1 - a
        BY <1>1, <3>2, <3>10
      <4> QED BY <3>1, <4>1
    <3>13. StoredInOrder'
      <4>1. ASSUME NEW r \in 1..N
            PROVE  rows'[r].msg.uid = r /\ ~Scaffold(rows'[r].msg)
        <5>1. CASE r <= L
          <6>1. r \in DOMAIN rows /\ rows'[r] = rows[r]
            BY <1>1, <1>8, <3>11, <5>1
          <6> QED BY <6>1 DEF Replayed, Filing, StoredInOrder
        <5>2. CASE r > L
          <6>1. r \in (L + 1)..N /\ r + 1 - a \in 1..l /\ ~(r <= L)
            BY <1>1, <3>2, <5>2
          <6>2. rows'[r].msg = host.log[r + 1 - a]
            BY <1>8, <3>11, <3>12, <6>1
          <6>3. host.log[r + 1 - a].uid + 1 = a + (r + 1 - a)
            BY <6>1 DEF Replayed, Spoken, l, a
          <6>4. host.log[r + 1 - a].uid \in Nat
            <7>1. r + 1 - a \in DOMAIN host.log
              BY <1>1, <6>1, LenProperties DEF l
            <7> QED BY <1>1, <7>1, MessageAt
          <6>5. host.log[r + 1 - a].uid = r
            BY <1>1, <6>3, <6>4
          <6> QED BY <3>7, <6>1, <6>2, <6>5 DEF l
        <5> QED BY <1>1, <5>1, <5>2
      <4> QED BY <1>3, <3>11, <4>1 DEF StoredInOrder
    <3> QED BY <3>11, <3>12, <3>13 DEF N, L, p, a
  <2> QED BY <2>1, <2>2
<1> HIDE DEF L, N, a, p, q, l
<1>5. ASSUME NEW r \in (L + 1)..N
      PROVE  rows'[r].sess = host.sess /\ rows'[r].msg = host.log[r + 1 - a]
  <2>1. r \in 1..N /\ ~(r <= L)
    BY <1>1
  <2> QED BY <1>4, <1>8, <2>1
<1>6. RowsKept
  <2> SUFFICES ASSUME NEW r \in 1..L PROVE r \in DOMAIN rows' /\ rows'[r] = rows[r]
    BY <1>1 DEF RowsKept
  <2>1. r \in 1..N /\ r <= L
    BY <1>1
  <2> QED BY <1>3, <1>4, <1>8, <2>1
<1> QED BY <1>3, <1>4, <1>5, <1>6 DEF L, N, a

\* What is in the store after an ingest is the front of the transcript.
LEMMA WholeFiled ==
  ASSUME TypeInv, Replayed, mem.bound # 0, rows' = Appended(host.ctx), UNCHANGED host
  PROVE  Filing' /\ Spoken' /\ Len(rows') = Len(host.said)
<1>1. /\ Len(rows') = Len(host.said) /\ DOMAIN rows' = 1..Len(host.said)
      /\ RowsKept /\ StoredInOrder'
      /\ \A r \in (Len(rows) + 1)..Len(host.said) :
               /\ rows'[r].sess = host.sess
               /\ rows'[r].msg = host.log[r + 1 - host.since]
  BY WholeWrite
<1> DEFINE L == Len(rows)
           N == Len(host.said)
           a == host.since
<1>2. /\ L \in Nat /\ N \in Nat /\ a \in Nat /\ 1 <= a /\ a <= N + 1
      /\ a <= L + 1 /\ L <= N /\ DOMAIN rows = 1..L
  BY ReplayNumbers
<1>3. /\ \A r \in DOMAIN rows : rows[r].sess = host.sess <=> r >= host.since
      /\ \A r \in host.since..Len(rows) : rows[r].msg = host.log[r + 1 - host.since]
  BY DEF Replayed, Filing
<1> HIDE DEF L, N, a
<1>4. ASSUME NEW r \in 1..N
      PROVE  /\ rows'[r].sess = host.sess <=> r >= a
             /\ r >= a => rows'[r].msg = host.log[r + 1 - a]
  <2>1. CASE r <= L
    <3>1. r \in DOMAIN rows /\ rows'[r] = rows[r] /\ (r >= a => r \in a..L)
      BY <1>1, <1>2, <2>1 DEF RowsKept
    <3> QED BY <1>3, <3>1 DEF a, L
  <2>2. CASE r > L
    <3>1. r \in (L + 1)..N /\ r >= a
      BY <1>2, <2>2
    <3> QED BY <1>1, <3>1 DEF L, N, a
  <2> QED BY <1>2, <2>1, <2>2
<1>5. \A r \in a..N : r \in 1..N /\ r >= a
  BY <1>2
<1>6. Filing'
  BY <1>1, <1>2, <1>4, <1>5 DEF Filing, N, a
<1> QED BY <1>1, <1>6 DEF Replayed, Spoken, N

LEMMA ReplayIngest ==
  ASSUME TypeInv, Replayed, mem.bound # 0, Ingest(host.ctx), UNCHANGED host
  PROVE  Replayed'
<1>1. rows' = Appended(host.ctx) /\ mem' = Advanced(host.ctx)
  BY DEF Ingest
<1>2. Filing' /\ Spoken' /\ Len(rows') = Len(host.said)
  BY <1>1, WholeFiled
<1>3. mem'.bound = mem.bound /\ mem'.needs = FALSE /\ mem'.cursor = Len(host.ctx)
  <2>1. CASE mem.needs
    BY <1>1, <2>1 DEF Advanced, TypeInv, Types
  <2>2. CASE ~mem.needs
    <3>1. Behind /\ StoredInOrder
      BY <2>2 DEF Replayed, OnCourse, Filing
    <3>2. ~mem'.needs /\ mem'.cursor = Len(host.ctx)
      BY <2>2, <3>1, StraightIngest
    <3> QED BY <1>1, <3>2 DEF Advanced, TypeInv, Types
  <2> QED BY <2>1, <2>2
<1>4. Len(host.ctx) \in Nat /\ Len(host.said) \in Nat
  BY ReplayNumbers
<1>5. (mem'.cursor + 1)..Len(host'.ctx) = {}
  BY <1>3, <1>4
<1>6. Behind'
  <2> DEFINE q == Len(host.ctx)
             N == Len(host.said)
  <2>1. q \in Nat /\ N \in Nat
    BY <1>4
  <2>2. N + q = N + q /\ q <= q /\ (q + 1)..q = {}
    <3> HIDE DEF q, N
    <3> QED BY <2>1
  <2> QED BY <1>2, <1>3, <2>2 DEF Behind
<1>7. OnCourse'
  BY <1>3, <1>5, <1>6 DEF OnCourse
<1> QED BY <1>2, <1>3, <1>7 DEF Replayed, Waits, Returned

\* Steps within a compaction.
LEMMA ReplayWork ==
  ASSUME TypeInv, Replayed, UNCHANGED <<host, rows>>,
         mem'.bound = mem.bound, mem'.needs = mem.needs, mem'.cursor = mem.cursor,
         job'.pc # "idle" => job.pc # "idle"
  PROVE  Replayed'
<1>1. Spoken' /\ Filing'
  BY DEF Replayed, Spoken, Filing, StoredInOrder
<1>2. Waits' /\ Returned'
  BY DEF Replayed, Waits, Returned
<1>3. OnCourse'
  BY DEF Replayed, OnCourse, Behind
<1> QED BY <1>1, <1>2, <1>3 DEF Replayed

\* The assembled prompt has everything in front of the cursor.
LEMMA ReplayPublish ==
  ASSUME TypeInv, Replayed, job.pc # "idle", NEW w \in Seq(Messages), w # <<>>,
         host' = [host EXCEPT !.ctx = Assembled(w)],
         mem'.cursor = Len(Assembled(w)), mem'.needs = FALSE, mem'.bound = mem.bound,
         job'.pc = "idle", UNCHANGED rows
  PROVE  Replayed'
<1>1. mem.bound # 0 /\ ~mem.needs /\ Behind /\ StoredInOrder /\ mem.cursor = Len(host.ctx)
  BY DEF Replayed, Waits, OnCourse, Filing
<1>2. Behind' /\ StoredInOrder'
  BY <1>1, StraightPublish
<1>3. host'.log = host.log /\ host'.since = host.since /\ host'.said = host.said
      /\ host'.sess = host.sess /\ host'.ctx = Assembled(w)
  BY DEF TypeInv, Types
<1>4. Spoken'
  BY <1>3 DEF Replayed, Spoken
<1>5. Filing'
  BY <1>2, <1>3 DEF Replayed, Filing
<1>6. (mem'.cursor + 1)..Len(host'.ctx) = {}
  <2>1. Assembled(w) \in Seq(Messages)
    BY AssembledType DEF TypeInv
  <2>2. Len(Assembled(w)) \in Nat
    BY <2>1, LenProperties
  <2> QED BY <1>3, <2>2
<1>7. OnCourse'
  BY <1>2, <1>6 DEF OnCourse
<1> QED BY <1>4, <1>5, <1>7 DEF Replayed, Waits, Returned

\* A message of the host is in its prompt and in its transcript.
LEMMA ReplaySay ==
  ASSUME TypeInv, Replayed, NEW k \in {"sys", "turn"}, NEW t \in Texts, Say(k, t)
  PROVE  Replayed'
<1>a. PICK m : m = Message(k, t, Len(host.said) + 1)
  OBVIOUS
<1> DEFINE N == Len(host.said)
           l == Len(host.log)
           q == Len(host.ctx)
           a == host.since
           L == Len(rows)
<1>1. /\ host'.ctx = Append(host.ctx, m) /\ host'.log = Append(host.log, m)
      /\ host'.said = Append(host.said, t) /\ host'.since = a /\ host'.sess = host.sess
      /\ UNCHANGED <<rows, mem, job>> /\ mem.bound # 0 /\ job.pc = "idle"
  BY <1>a DEF Say, Quiet, TypeInv, Types
<1>2. /\ N \in Nat /\ l \in Nat /\ q \in Nat /\ a \in Nat /\ L \in Nat /\ l + a = N + 1
      /\ a <= L + 1 /\ L <= N /\ DOMAIN rows = 1..L /\ mem.cursor \in Nat
      /\ host.ctx \in Seq(Messages) /\ host.log \in Seq(Messages) /\ host.said \in Seq(Texts)
  BY ReplayNumbers DEF TypeInv, Types
<1>3. m \in Messages /\ m.kind = k /\ m.uid = N + 1 /\ ~Scaffold(m)
  BY <1>a, <1>2 DEF Message, Messages, Scaffold
<1>4. /\ Len(host'.log) = l + 1 /\ host'.log[l + 1] = m
      /\ \A i \in 1..l : host'.log[i] = host.log[i]
  BY <1>1, <1>2, <1>3, AppendProperties
<1>5. /\ Len(host'.ctx) = q + 1 /\ host'.ctx[q + 1] = m
      /\ \A i \in 1..q : host'.ctx[i] = host.ctx[i]
  BY <1>1, <1>2, <1>3, AppendProperties
<1>6. Len(host'.said) = N + 1
  BY <1>1, <1>2, AppendProperties
<1>7. Spoken'
  <2>1. ASSUME NEW i \in 1..(l + 1)
        PROVE  host'.log[i].kind \in {"sys", "turn"} /\ host'.log[i].uid + 1 = a + i
    <3>1. CASE i = l + 1
      <4> HIDE DEF N, l, a
      <4> QED BY <1>2, <1>3, <1>4, <3>1
    <3>2. CASE i \in 1..l
      BY <1>4, <3>2 DEF Replayed, Spoken
    <3> QED BY <1>2, <3>1, <3>2
  <2>2. (l + 1) + a = (N + 1) + 1
    <3> HIDE DEF N, l, a
    <3> QED BY <1>2
  <2> QED BY <1>1, <1>4, <1>6, <2>1, <2>2 DEF Spoken
<1>8. Filing'
  <2>1. ASSUME NEW r \in a..L
        PROVE  rows[r].msg = host'.log[r + 1 - a]
    <3>1. r + 1 - a \in 1..l
      <4> HIDE DEF N, l, a, L
      <4> QED BY <1>2
    <3> QED BY <1>4, <3>1 DEF Replayed, Filing
  <2>2. L <= N + 1
    BY <1>2
  <2> QED BY <1>1, <1>6, <2>1, <2>2 DEF Replayed, Filing, StoredInOrder
<1>9. Waits'
  BY <1>1 DEF Waits
<1>10. Returned'
  <2> SUFFICES ASSUME mem.needs
               PROVE  /\ host'.ctx = host'.log /\ a <= L
                      /\ a = L => rows[L].msg.kind = "sys"
    BY <1>1 DEF Returned
  <2>1. host.ctx = host.log /\ a <= L /\ (a = L => rows[L].msg.kind = "sys")
    BY <1>1 DEF Replayed, Returned
  <2> QED BY <1>1, <2>1
<1>11. OnCourse'
  <2> SUFFICES ASSUME ~mem.needs
               PROVE  /\ Behind'
                      /\ \A i \in (mem.cursor + 1)..Len(host'.ctx) :
                            host'.ctx[i] = host'.log[host'.ctx[i].uid + 1 - a]
    BY <1>1 DEF OnCourse
  <2>1. /\ Behind /\ StoredInOrder
        /\ \A i \in (mem.cursor + 1)..q : /\ host.ctx[i] = host.log[host.ctx[i].uid + 1 - a]
                                          /\ host.ctx[i].uid = L + i - mem.cursor
        /\ L + q = N + mem.cursor /\ mem.cursor <= q
    BY <1>1 DEF Replayed, OnCourse, Filing, Behind
  <2>2. Behind'
    BY <2>1, StraightSay
  <2>3. ASSUME NEW i \in (mem.cursor + 1)..(q + 1)
        PROVE  host'.ctx[i] = host'.log[host'.ctx[i].uid + 1 - a]
    <3>1. CASE i = q + 1
      <4>1. (N + 1) + 1 - a = l + 1
        <5> HIDE DEF N, l, a
        <5> QED BY <1>2
      <4> QED BY <1>3, <1>4, <1>5, <3>1, <4>1
    <3>2. CASE i \in (mem.cursor + 1)..q
      <4>1. i \in 1..q /\ (L + i - mem.cursor) + 1 - a \in 1..l
        <5> DEFINE p == mem.cursor
                   u == L + i - p
        <5>1. L + q = N + p /\ i \in Int /\ p < i /\ i <= q /\ p \in Nat
          BY <1>2, <2>1, <3>2
        <5> HIDE DEF N, l, a, q, L, p
        <5>2. u \in Int /\ u <= N /\ L + 1 <= u
          BY <1>2, <5>1
        <5>3. i \in 1..q
          BY <1>2, <5>1
        <5> HIDE DEF u
        <5>4. u + 1 - a \in 1..l
          BY <1>2, <5>2
        <5> QED BY <5>3, <5>4 DEF u, p
      <4>2. host.ctx[i] = host.log[(L + i - mem.cursor) + 1 - a] /\ host'.ctx[i] = host.ctx[i]
            /\ host.ctx[i].uid = L + i - mem.cursor
        BY <1>5, <2>1, <3>2, <4>1
      <4> HIDE DEF L, l, q, a
      <4> QED BY <1>4, <4>1, <4>2
    <3> QED BY <1>2, <2>1, <3>1, <3>2
  <2> QED BY <1>5, <2>2, <2>3
<1> QED BY <1>7, <1>8, <1>9, <1>10, <1>11 DEF Replayed

\* A failed compaction, or the end of a process.
LEMMA ReplayStop ==
  ASSUME TypeInv, Replayed, UNCHANGED <<host, rows>>, mem' \in {mem, Unbound},
         job'.pc = "idle"
  PROVE  Replayed'
<1>1. Spoken' /\ Filing'
  BY DEF Replayed, Spoken, Filing, StoredInOrder
<1>2. Waits'
  BY DEF Waits
<1>3. CASE mem' = mem
  <2>1. Returned' /\ OnCourse'
    BY <1>3 DEF Replayed, Returned, OnCourse, Behind
  <2> QED BY <1>1, <1>2, <2>1 DEF Replayed
<1>4. CASE mem' = Unbound
  <2>1. mem'.bound = 0
    BY <1>4 DEF Unbound
  <2>2. Returned' /\ OnCourse'
    BY <2>1 DEF Returned, OnCourse
  <2> QED BY <1>1, <1>2, <2>2 DEF Replayed
<1> QED BY <1>3, <1>4

\* A process that ends well has stored the whole transcript.
LEMMA ReplayExit ==
  ASSUME TypeInv, Replayed, Exit
  PROVE  Replayed'
<1>1. /\ mem.bound # 0 /\ rows' = Appended(host.ctx) /\ UNCHANGED host
      /\ mem'.bound = 0 /\ job'.pc = "idle"
  BY DEF Exit, Quiet, Unbound
<1>2. Filing' /\ Spoken'
  BY <1>1, WholeFiled
<1> QED BY <1>1, <1>2 DEF Replayed, Waits, Returned, OnCourse

\* The rows of the session that goes on.
LEMMA SessionRows ==
  ASSUME TypeInv, Replayed
  PROVE  RowsOf(host.sess) = host.since..Len(rows)
<1> DEFINE L == Len(rows)
           a == host.since
<1>1. L \in Nat /\ a \in Nat /\ 1 <= a /\ DOMAIN rows = 1..L
  BY ReplayNumbers
<1>2. \A r \in 1..L : rows[r].sess = host.sess <=> r >= a
  BY <1>1 DEF Replayed, Filing
<1> HIDE DEF L, a
<1>3. (\A r \in 1..L : r >= a <=> r \in a..L) /\ a..L \subseteq 1..L
  BY <1>1
<1>4. RowsOf(host.sess) = a..L
  BY <1>1, <1>2, <1>3 DEF RowsOf
<1> QED BY <1>4 DEF L, a

\* The host resumes with its transcript.
LEMMA ReplayResume ==
  ASSUME TypeInv, Replayed, Resume("transcript"), Clean({"single"})'
  PROVE  Replayed'
<1> DEFINE of == RowsOf(host.sess)
           L == Len(rows)
           N == Len(host.said)
           a == host.since
           l == Len(host.log)
<1>1. /\ host'.ctx = host.log /\ host'.log = host.log /\ host'.said = host.said
      /\ host'.since = host.since /\ host'.sess = host.sess
  BY DEF Resume, TypeInv, Types
<1>2. /\ mem'.bound = host.sess /\ mem'.cursor = 0 /\ mem'.needs = (of # {})
      /\ UNCHANGED <<rows, job>> /\ mem.bound = 0
  BY DEF Resume
<1>3. ~(Cardinality(of) = 1 /\ \A r \in of : rows[r].msg.kind = "turn")
  BY DEF Resume, Known, Clean
<1>4. job.pc = "idle"
  BY <1>2 DEF Replayed, Waits
<1>5. /\ L \in Nat /\ N \in Nat /\ a \in Nat /\ l \in Nat /\ 1 <= a /\ a <= L + 1 /\ L <= N
      /\ l + a = N + 1 /\ of = a..L /\ host.log \in Seq(Messages)
      /\ DOMAIN rows = 1..L
      /\ \A i \in 1..l : ~Scaffold(host.log[i])
  BY ReplayNumbers, SessionRows
<1>6. Spoken' /\ Filing'
  BY <1>1, <1>2 DEF Replayed, Spoken, Filing, StoredInOrder
<1>7. Waits'
  BY <1>2, <1>4 DEF Waits
<1>8. Returned'
  <2> SUFFICES ASSUME of # {}
               PROVE  a <= L /\ (a = L => rows[L].msg.kind = "sys")
    BY <1>1, <1>2 DEF Returned
  <2>1. a <= L
    <3> HIDE DEF L, a, N, l
    <3> QED BY <1>5
  <2>2. ASSUME a = L PROVE rows[L].msg.kind = "sys"
    <3>1. of = {L} /\ L \in a..L /\ L + 1 - a = 1 /\ 1 \in 1..l
      <4> HIDE DEF L, a, N, l, of
      <4> QED BY <1>5, <2>2
    <3>2. Cardinality(of) = 1
      BY <3>1, FS_Singleton
    <3>3. rows[L].msg.kind # "turn"
      BY <1>3, <3>1, <3>2
    <3>4. rows[L].msg = host.log[1]
      BY <3>1 DEF Replayed, Filing
    <3>5. host.log[1].kind \in {"sys", "turn"}
      BY <3>1 DEF Replayed, Spoken
    <3> QED BY <3>3, <3>4, <3>5
  <2> QED BY <2>1, <2>2
<1>9. OnCourse'
  <2> SUFFICES ASSUME of = {}
               PROVE  /\ Behind'
                      /\ \A i \in (mem'.cursor + 1)..Len(host'.ctx) :
                            host'.ctx[i] = host'.log[host'.ctx[i].uid + 1 - host'.since]
    BY <1>2, <1>4 DEF OnCourse
  <2>1. a = L + 1 /\ L + l = N + 0 /\ 0 <= l
    <3> HIDE DEF L, a, N, l
    <3> QED BY <1>5
  <2>2. ASSUME NEW i \in 1..l
        PROVE  host.log[i].uid = L + i - 0 /\ host.log[i].uid + 1 - a = i
    <3>1. host.log[i].uid + 1 = a + i
      BY DEF Replayed, Spoken
    <3>2. host.log[i].uid \in Nat
      <4>1. i \in DOMAIN host.log
        BY <1>5, LenProperties
      <4> QED BY <1>5, <4>1, MessageAt
    <3> DEFINE u == host.log[i].uid
    <3>3. u \in Nat /\ u + 1 = a + i
      BY <3>1, <3>2
    <3> HIDE DEF L, a, N, l, u
    <3>4. u = L + i - 0 /\ u + 1 - a = i
      BY <1>5, <2>1, <3>3
    <3> QED BY <3>4 DEF u
  <2>3. (mem'.cursor + 1)..Len(host'.ctx) = 1..l
    BY <1>1, <1>2
  <2>4. Behind'
    BY <1>1, <1>2, <1>5, <2>1, <2>2, <2>3 DEF Behind
  <2> QED BY <1>1, <2>2, <2>3, <2>4
<1> QED BY <1>6, <1>7, <1>8, <1>9 DEF Replayed

\* A new session starts with the whole of the old one stored.
LEMMA ReplayNew ==
  ASSUME TypeInv, Replayed, NEW carry \in BOOLEAN, NewSession(carry)
  PROVE  Replayed'
<1> DEFINE L == Len(rows)
           N == Len(host.said)
           s == host.sess
<1>1. /\ mem.bound # 0 /\ rows' = Appended(host.ctx) /\ job.pc = "idle"
      /\ mem'.bound = s + 1 /\ mem'.cursor = 0 /\ mem'.needs = FALSE
      /\ host'.sess = s + 1 /\ host'.ctx = <<>> /\ host'.log = <<>>
      /\ host'.since = N + 1 /\ host'.said = host.said /\ UNCHANGED job
  BY DEF NewSession, Quiet, Unbound, TypeInv, Types
<1>2. /\ Len(rows') = N /\ DOMAIN rows' = 1..N /\ RowsKept /\ StoredInOrder'
      /\ \A r \in (L + 1)..N : rows'[r].sess = s
  BY <1>1, WholeWrite
<1>3. /\ L \in Nat /\ N \in Nat /\ L <= N /\ s \in Nat /\ DOMAIN rows = 1..L
  BY ReplayNumbers
<1>4. \A r \in 1..L : rows[r].sess \in 1..s
  BY <1>3 DEF TypeInv, TypeOK
<1> HIDE DEF L, N, s
<1>5. ASSUME NEW r \in 1..N
      PROVE  ~(r >= N + 1) /\ rows'[r].sess # s + 1
  <2>1. CASE r <= L
    <3>1. r \in 1..L /\ rows'[r] = rows[r]
      BY <1>2, <1>3, <2>1 DEF RowsKept
    <3> QED BY <1>3, <1>4, <3>1
  <2>2. CASE r > L
    <3>1. r \in (L + 1)..N
      BY <1>3, <2>2
    <3> QED BY <1>2, <1>3, <3>1
  <2> QED BY <1>3, <2>1, <2>2
<1>6. Len(host'.ctx) = 0 /\ Len(host'.log) = 0 /\ Len(host'.said) = N
  BY <1>1 DEF N
<1>7. (N + 1)..N = {} /\ 1..0 = {} /\ (0 + 1)..0 = {} /\ 0 + (N + 1) = N + 1
      /\ N + 1 <= N + 1 /\ N <= N /\ 0 <= 0 /\ N + 0 = N + 0
  BY <1>3
<1>8. Spoken'
  BY <1>1, <1>6, <1>7 DEF Spoken
<1>9. Filing'
  BY <1>1, <1>2, <1>5, <1>6, <1>7 DEF Filing
<1>10. Waits' /\ Returned'
  <2>1. mem'.bound # 0
    BY <1>1, <1>3
  <2> QED BY <1>1, <2>1 DEF Waits, Returned
<1>11. Behind'
  BY <1>1, <1>2, <1>6, <1>7 DEF Behind
<1>12. OnCourse'
  BY <1>1, <1>6, <1>7, <1>11 DEF OnCourse
<1> QED BY <1>8, <1>9, <1>10, <1>12 DEF Replayed

LEMMA ReplayInit == Init => ReplayInv
<1> SUFFICES ASSUME Init PROVE Replayed
  BY TypeInit DEF ReplayInv
<1>1. /\ host.ctx = <<>> /\ host.log = <<>> /\ host.sess = 1 /\ host.since = 1
      /\ host.said = <<>> /\ rows = <<>>
      /\ mem.bound = 1 /\ mem.cursor = 0 /\ mem.needs = FALSE /\ job.pc = "idle"
  BY DEF Init, Unbound, Idle
<1>2. 1..0 = {} /\ (0 + 1)..0 = {} /\ Len(<<>>) = 0 /\ DOMAIN <<>> = {}
  OBVIOUS
<1>3. Spoken
  BY <1>1, <1>2 DEF Spoken
<1>4. Filing
  BY <1>1, <1>2 DEF Filing, StoredInOrder
<1>5. Waits /\ Returned
  BY <1>1 DEF Waits, Returned
<1>6. OnCourse
  BY <1>1, <1>2 DEF OnCourse, Behind
<1> QED BY <1>3, <1>4, <1>5, <1>6 DEF Replayed

LEMMA ReplayStep == ReplayInv /\ [Next]_vars => ReplayInv'
<1> SUFFICES ASSUME ReplayInv, [Next]_vars,
                    Clean({"prompt", "delta", "single", "child", "boundary"})'
             PROVE  Replayed'
  BY TypeStep DEF ReplayInv
<1>0. TypeInv
  BY DEF ReplayInv
<1>1. trouble \subseteq trouble'
  BY DEF Next, vars, Say, Turn, Compress, Leaf, Frontier, Noop, Condense, Publish,
         Abort, Crash, Exit, Resume, Boundary, Crossed, NewSession, ChildEnd, Befalls, Known
<1>2. Replayed
  BY <1>1 DEF ReplayInv, Clean
<1>3. ASSUME NEW k \in {"sys", "turn"}, NEW t \in Texts, Say(k, t) PROVE Replayed'
  BY <1>0, <1>2, <1>3, ReplaySay
<1>4. CASE Turn \/ Compress
  <2>1. Ingest(host.ctx) /\ UNCHANGED host /\ mem.bound # 0
    BY <1>4 DEF Turn, Compress, Quiet
  <2> QED BY <1>0, <1>2, <2>1, ReplayIngest
<1>5. CASE Leaf \/ Frontier \/ (\E d \in 0..MaxDepth : Condense(d)) \/ UNCHANGED vars
  <2>1. /\ UNCHANGED <<host, rows>> /\ mem'.needs = mem.needs /\ mem'.bound = mem.bound
        /\ mem'.cursor = mem.cursor
    BY <1>0, <1>5 DEF Leaf, Frontier, Condense, vars, TypeInv, Types
  <2>2. job'.pc # "idle" => job.pc # "idle"
    BY <1>5 DEF Leaf, Frontier, Condense, vars
  <2> QED BY <1>0, <1>2, <2>1, <2>2, ReplayWork
<1>6. CASE Publish
  <2>1. job.work \in Seq(Messages) /\ job.work # <<>> /\ job.pc # "idle"
    BY <1>0, <1>6 DEF TypeInv, Types, Working, Publish
  <2>2. /\ host' = [host EXCEPT !.ctx = Assembled(job.work)]
        /\ mem' = [mem EXCEPT !.cursor = Len(Assembled(job.work)), !.needs = FALSE]
        /\ job' = Idle /\ UNCHANGED rows
    BY <1>6 DEF Publish
  <2>3. mem'.cursor = Len(Assembled(job.work)) /\ mem'.needs = FALSE /\ mem'.bound = mem.bound
    BY <1>0, <2>2 DEF TypeInv, Types
  <2>4. job'.pc = "idle"
    BY <2>2 DEF Idle
  <2> QED BY <1>0, <1>2, <2>1, <2>2, <2>3, <2>4, ReplayPublish
<1>7. CASE Noop
  <2>1. job.work \in Seq(Messages) /\ job.work # <<>> /\ job.pc # "idle"
    BY <1>0, <1>7 DEF TypeInv, Types, Working, Noop
  <2>2. job'.pc = "idle" /\ UNCHANGED rows
    BY <1>7 DEF Noop, Idle
  <2>3. CASE Lead(job.work) > 0
    <3> DEFINE w == Trimmed(job.work)
    <3>1. w \in Seq(Messages) /\ w # <<>>
      BY <2>1, TrimmedType
    <3>2. /\ host' = [host EXCEPT !.ctx = Assembled(w)]
          /\ mem' = [mem EXCEPT !.cursor = Len(Assembled(w))]
      BY <1>7, <2>3 DEF Noop
    <3>3. ~mem.needs
      BY <1>2, <2>1 DEF Replayed, Waits
    <3> HIDE DEF w
    <3>4. mem'.cursor = Len(Assembled(w)) /\ mem'.needs = FALSE /\ mem'.bound = mem.bound
      BY <1>0, <3>2, <3>3 DEF TypeInv, Types
    <3> QED BY <1>0, <1>2, <2>1, <2>2, <3>1, <3>2, <3>4, ReplayPublish
  <2>4. CASE ~(Lead(job.work) > 0)
    <3>1. UNCHANGED <<host, mem>>
      BY <1>7, <2>4 DEF Noop
    <3> QED BY <1>0, <1>2, <2>2, <3>1, ReplayStop
  <2> QED BY <2>3, <2>4
<1>8. CASE Abort \/ Crash
  <2>1. UNCHANGED <<host, rows>> /\ mem' \in {mem, Unbound} /\ job'.pc = "idle"
    BY <1>8 DEF Abort, Crash, Idle
  <2> QED BY <1>0, <1>2, <2>1, ReplayStop
<1>9. CASE Exit
  BY <1>0, <1>2, <1>9, ReplayExit
<1>10. ASSUME NEW how \in {"transcript", "prompt", "delta"}, Resume(how) PROVE Replayed'
  <2>1. how = "transcript"
    BY <1>10 DEF Resume, Known, Clean
  <2>2. Clean({"single"})'
    BY DEF Clean
  <2> QED BY <1>0, <1>2, <1>10, <2>1, <2>2, ReplayResume
<1>11. CASE Boundary
  BY <1>11 DEF Boundary, Crossed, Befalls, Known, Clean
<1>12. ASSUME NEW carry \in BOOLEAN, NewSession(carry) PROVE Replayed'
  BY <1>0, <1>2, <1>12, ReplayNew
<1>13. ASSUME NEW ms, ChildEnd(ms) PROVE Replayed'
  BY <1>13 DEF ChildEnd, Befalls, Known, Clean
<1> QED BY <1>3, <1>4, <1>5, <1>6, <1>7, <1>8, <1>9, <1>10, <1>11, <1>12, <1>13 DEF Next

\* The store is the transcript: through failed and finished compactions, resets,
\* crashes and exits, and boundaries in one process, no row is written twice,
\* missing, out of order or scaffolding.
THEOREM LcmStoreIsTranscript == Spec => []StoreIsTranscript
<1>1. StoreInv /\ ReplayInv => StoreIsTranscript
  <2> SUFFICES ASSUME StoreInv, ReplayInv, Certain PROVE StoredInOrder
    BY DEF StoreIsTranscript, StoredInOrder
  <2>1. CASE Clean({"crash", "exit"})
    BY <2>1 DEF StoreInv, Straight, Certain, Clean
  <2>2. CASE Clean({"boundary"})
    BY <2>2 DEF ReplayInv, Replayed, Filing, Certain, Clean
  <2> QED BY <2>1, <2>2 DEF Certain
<1> QED BY <1>1, StraightInit, StraightStep, ReplayInit, ReplayStep, PTL DEF Spec

\* What is not stored is behind the cursor, or in the transcript of a process
\* that has not ingested yet.
LEMMA ReplayKeeps ==
  ASSUME TypeInv, Replayed
  PROVE  Lost = {}
<1> DEFINE L == Len(rows)
           N == Len(host.said)
           a == host.since
           l == Len(host.log)
<1>1. /\ L \in Nat /\ N \in Nat /\ a \in Nat /\ l \in Nat /\ 1 <= a /\ a <= L + 1 /\ L <= N
      /\ l + a = N + 1 /\ host.log \in Seq(Messages) /\ host.ctx \in Seq(Messages)
      /\ DOMAIN rows = 1..L /\ DOMAIN host.said = 1..N /\ mem.cursor \in Nat
      /\ Len(host.ctx) \in Nat
  BY ReplayNumbers, LenProperties DEF TypeInv, Types
<1>2. ASSUME NEW u \in 1..L PROVE u \in Stored
  <2>1. u \in DOMAIN rows /\ rows[u].msg.uid = u /\ u # 0
    BY <1>1 DEF Replayed, Filing, StoredInOrder
  <2> DEFINE ms == [i \in DOMAIN rows |-> rows[i].msg]
  <2>2. ms[u].uid = u /\ u \in DOMAIN ms
    BY <2>1
  <2> QED BY <2>1, <2>2 DEF Stored, UidsOf
<1>3. ASSUME NEW u \in (L + 1)..N PROVE u \in Waiting
  <2>1. CASE mem.bound = 0 \/ mem.needs
    <3>1. Waiting = UidsOf(host.ctx) \cup UidsOf(host.log)
      BY <1>1, <2>1, Concat DEF Waiting
    <3>2. u + 1 - a \in 1..l /\ a + (u + 1 - a) = u + 1 /\ u # 0
      <4> HIDE DEF L, N, a, l
      <4> QED BY <1>1
    <3>3. u + 1 - a \in DOMAIN host.log
      BY <1>1, <3>2, LenProperties
    <3>4. host.log[u + 1 - a].uid + 1 = u + 1
      BY <3>2 DEF Replayed, Spoken
    <3>5. host.log[u + 1 - a].uid \in Nat
      BY <1>1, <3>3, MessageAt
    <3>6. u \in Nat
      BY <1>1
    <3>7. host.log[u + 1 - a].uid = u
      BY <3>4, <3>5, <3>6
    <3> QED BY <3>1, <3>2, <3>3, <3>7 DEF UidsOf
  <2>2. CASE ~(mem.bound = 0 \/ mem.needs)
    <3>1. Behind
      BY <2>2 DEF Replayed, OnCourse
    <3> DEFINE p == mem.cursor
               q == Len(host.ctx)
               i == p + u - L
    <3>2. p <= q /\ L + q = N + p
      BY <3>1 DEF Behind
    <3>3. i \in (p + 1)..q /\ L + i - p = u /\ u # 0
      <4>1. p \in Nat /\ q \in Nat
        BY <1>1
      <4> HIDE DEF p, q, L, N
      <4> QED BY <1>1, <3>2, <4>1
    <3> HIDE DEF i
    <3>4. host.ctx[i].uid = u
      BY <3>1, <3>3 DEF Behind
    <3>5. UidsOf(SubSeq(host.ctx, p + 1, q)) = {host.ctx[j].uid : j \in (p + 1)..q} \ {0}
      <4>1. p + 1 \in 1..(Len(host.ctx) + 1) /\ q \in ((p + 1) - 1)..Len(host.ctx)
        BY <1>1, <3>2
      <4> QED BY <1>1, <4>1, Part
    <3>6. Waiting = UidsOf(SubSeq(host.ctx, p + 1, q))
      BY <2>2 DEF Waiting
    <3> QED BY <3>3, <3>4, <3>5, <3>6
  <2> QED BY <2>1, <2>2
<1>4. ASSUME NEW u \in DOMAIN host.said PROVE u \in Stored \cup Waiting
  <2>1. u \in 1..L \/ u \in (L + 1)..N
    <3> HIDE DEF L, N
    <3> QED BY <1>1
  <2> QED BY <1>2, <1>3, <2>1
<1> QED BY <1>4 DEF Lost

-----------------------------------------------------------------------------
(* Whatever happens to the process, what was said is in the store, or in what *)
(* will be ingested, or has the text of a row.                                *)

HasRow(u) == \E r \in DOMAIN rows : rows[r].msg.text = host.said[u]
(* A message repeats what was said under its number, and scaffolding that     *)
(* carries something said is not all that is left of it.                      *)
Tells(m) == m.uid # 0 => m.uid \in DOMAIN host.said /\ m.text = host.said[m.uid]
Backed(m) == Scaffold(m) /\ m.uid # 0 => HasRow(m.uid)
Truthful(ms) == \A i \in DOMAIN ms : Tells(ms[i]) /\ Backed(ms[i])
AllSaved == \A u \in DOMAIN host.said : HasRow(u)

Saved ==
    /\ Truthful(host.ctx) /\ Truthful(host.log) /\ Truthful(job.work)
    /\ \A r \in DOMAIN rows : Tells(rows[r].msg)
    /\ \A u \in DOMAIN host.said : HasRow(u) \/ u \in UidsOf(host.ctx) \cap UidsOf(host.log)
    /\ mem.bound # 0 /\ ~mem.needs =>
          /\ mem.cursor <= Len(host.ctx)
          /\ \A i \in 1..mem.cursor : host.ctx[i].uid # 0 => HasRow(host.ctx[i].uid)
    /\ job.pc # "idle" => mem.bound # 0 /\ ~mem.needs /\ AllSaved

SavedInv == TypeInv /\ (Clean({"child"}) => Saved)

LEMMA HasRowKept ==
  ASSUME NEW u \in DOMAIN host.said, HasRow(u), RowsKept, TextsKept
  PROVE  HasRow(u)'
BY DEF HasRow, RowsKept, TextsKept

LEMMA TruthKept ==
  ASSUME NEW ms, Truthful(ms), RowsKept, TextsKept
  PROVE  Truthful(ms)'
<1> SUFFICES ASSUME NEW i \in DOMAIN ms PROVE Tells(ms[i])' /\ Backed(ms[i])'
  BY DEF Truthful
<1>1. Tells(ms[i]) /\ Backed(ms[i])
  BY DEF Truthful
<1>2. Tells(ms[i])'
  BY <1>1 DEF Tells, TextsKept
<1>3. Backed(ms[i])'
  BY <1>1, HasRowKept DEF Tells, Backed, Scaffold
<1> QED BY <1>2, <1>3

LEMMA RowsTell ==
  ASSUME \A r \in DOMAIN rows : Tells(rows[r].msg), UNCHANGED rows, TextsKept
  PROVE  \A r \in DOMAIN rows' : Tells(rows[r].msg)'
BY DEF Tells, TextsKept

\* When everything has a row after a step.
LEMMA SavedWhole ==
  ASSUME Truthful(host.ctx)', Truthful(host.log)', Truthful(job.work)',
         \A r \in DOMAIN rows' : Tells(rows[r].msg)',
         AllSaved', host'.ctx \in Seq(Messages),
         mem'.cursor \in Nat, mem'.cursor <= Len(host'.ctx),
         job'.pc # "idle" => mem'.bound # 0 /\ ~mem'.needs
  PROVE  Saved'
<1>1. Len(host'.ctx) \in Nat /\ DOMAIN host'.ctx = 1..Len(host'.ctx)
  BY LenProperties
<1>2. \A i \in 1..mem'.cursor : host'.ctx[i].uid # 0 => HasRow(host.ctx[i].uid)'
  <2> SUFFICES ASSUME NEW i \in 1..mem'.cursor, host'.ctx[i].uid # 0
               PROVE  HasRow(host.ctx[i].uid)'
    OBVIOUS
  <2>1. i \in DOMAIN host'.ctx
    BY <1>1
  <2>2. host'.ctx[i].uid \in DOMAIN host'.said
    BY <2>1 DEF Truthful, Tells
  <2> QED BY <2>2 DEF AllSaved, HasRow
<1> QED BY <1>2 DEF Saved, AllSaved, HasRow

\* An ingest of the prompt gives everything a row of its text.
LEMMA SavedWrite ==
  ASSUME TypeInv, Saved, mem.bound # 0, rows' = Appended(host.ctx), host'.said = host.said
  PROVE  /\ RowsKept /\ TextsKept /\ AllSaved'
         /\ \A r \in DOMAIN rows' : Tells(rows[r].msg)'
<1> DEFINE L == Len(rows)
           q == Len(host.ctx)
           p == From(host.ctx)
<1>1. /\ L \in Nat /\ q \in Nat /\ DOMAIN rows = 1..L /\ DOMAIN host.ctx = 1..q
      /\ host.ctx \in Seq(Messages) /\ mem.cursor \in Nat /\ Types
  BY LenProperties DEF TypeInv, Types
<1>2. /\ rows' \in Seq(RowType) /\ Len(rows') = L + q - p /\ p \in 0..q
      /\ \A r \in 1..Len(rows') : rows'[r] =
           IF r <= L THEN rows[r] ELSE [sess |-> mem.bound, msg |-> host.ctx[p + r - L]]
  BY <1>1, IngestType, FromRange
<1>3. DOMAIN rows' = 1..Len(rows')
  BY <1>2, LenProperties
<1>4. ASSUME NEW r \in 1..Len(rows')
      PROVE  /\ r <= L => rows'[r] = rows[r]
             /\ ~(r <= L) => rows'[r].msg = host.ctx[p + r - L]
  <2> HIDE DEF L, p
  <2> DEFINE new == [sess |-> mem.bound, msg |-> host.ctx[p + r - L]]
  <2>1. rows'[r] = IF r <= L THEN rows[r] ELSE new
    BY <1>2, Zenon
  <2>2. new.msg = host.ctx[p + r - L]
    OBVIOUS
  <2> HIDE DEF new
  <2> QED BY <2>1, <2>2
<1>5. TextsKept
  BY DEF TextsKept
<1> HIDE DEF L, q
<1>6. RowsKept
  <2>1. p \in Nat
    BY <1>1, <1>2
  <2> HIDE DEF p
  <2> SUFFICES ASSUME NEW r \in 1..L PROVE r \in DOMAIN rows' /\ rows'[r] = rows[r]
    BY <1>1 DEF RowsKept
  <2>2. r \in 1..Len(rows') /\ r <= L
    BY <1>1, <1>2, <2>1
  <2> QED BY <1>3, <1>4, <2>2
<1>7. \A r \in DOMAIN rows' : Tells(rows[r].msg)'
  <2> SUFFICES ASSUME NEW r \in 1..Len(rows') PROVE Tells(rows[r].msg)'
    BY <1>3
  <2>1. p \in Nat
    BY <1>1, <1>2
  <2> HIDE DEF p
  <2>2. CASE r <= L
    <3>1. r \in DOMAIN rows /\ rows'[r] = rows[r]
      BY <1>1, <1>4, <2>2
    <3>2. Tells(rows[r].msg)
      BY <3>1 DEF Saved
    <3> QED BY <1>5, <3>1, <3>2 DEF Tells, TextsKept
  <2>3. CASE ~(r <= L)
    <3>1. p + r - L \in DOMAIN host.ctx /\ rows'[r].msg = host.ctx[p + r - L]
      BY <1>1, <1>2, <1>4, <2>1, <2>3
    <3>2. Tells(host.ctx[p + r - L])
      BY <3>1 DEF Saved, Truthful
    <3> QED BY <1>5, <3>1, <3>2 DEF Tells, TextsKept
  <2> QED BY <2>2, <2>3
<1>8. ASSUME NEW i \in 1..q, host.ctx[i].uid # 0
      PROVE  HasRow(host.ctx[i].uid) \/ \E r \in DOMAIN rows' : rows'[r].msg = host.ctx[i]
  <2>0. Tells(host.ctx[i]) /\ Backed(host.ctx[i])
    BY <1>1 DEF Saved, Truthful
  <2>1. CASE i <= p
    <3>1. CASE mem.needs
      <4>1. CASE Scaffold(host.ctx[i])
        BY <1>8, <2>0, <4>1 DEF Backed
      <4>2. CASE ~Scaffold(host.ctx[i])
        <5>1. Replays(host.ctx, p) /\ p \in 0..Len(host.ctx) /\ i \in 1..p
          BY <1>1, <1>2, <2>1, <3>1, FromRange DEF q
        <5>2. PICK r \in RowsOf(mem.bound) : Identity(rows[r].msg) = Identity(host.ctx[i])
          BY <1>1, <4>2, <5>1, KnownRow
        <5>3. r \in DOMAIN rows /\ rows[r].msg.text = host.ctx[i].text
          BY <5>2 DEF RowsOf, Identity
        <5> QED BY <1>8, <2>0, <5>3 DEF Tells, HasRow
      <4> QED BY <4>1, <4>2
    <3>2. CASE ~mem.needs
      <4>1. i \in 1..mem.cursor
        <5>1. p = mem.cursor
          <6>1. mem.cursor <= q
            BY <3>2 DEF Saved, q
          <6>2. Min({mem.cursor, q}) = mem.cursor
            BY <1>1, <6>1, MinOfTwo
          <6> QED BY <3>2, <6>2 DEF From, q
        <5> QED BY <1>1, <2>1, <5>1
      <4> QED BY <1>8, <3>2, <4>1 DEF Saved
    <3> QED BY <3>1, <3>2
  <2>2. CASE ~(i <= p)
    <3>0. p \in Nat
      BY <1>1, <1>2
    <3> HIDE DEF p
    <3> DEFINE r == L + i - p
    <3>1. r \in 1..Len(rows') /\ ~(r <= L) /\ p + r - L = i
      BY <1>1, <1>2, <2>2, <3>0
    <3> HIDE DEF r
    <3> QED BY <1>3, <1>4, <3>1
  <2> QED BY <2>1, <2>2
<1>9. ASSUME NEW u \in DOMAIN host.said PROVE HasRow(u)'
  <2>1. CASE HasRow(u)
    BY <1>5, <1>6, <2>1, HasRowKept
  <2>2. CASE u \in UidsOf(host.ctx)
    <3>1. PICK i \in 1..q : host.ctx[i].uid = u /\ u # 0
      BY <1>1, <2>2 DEF UidsOf
    <3>2. CASE HasRow(host.ctx[i].uid)
      BY <1>5, <1>6, <3>1, <3>2, HasRowKept
    <3>3. CASE \E r \in DOMAIN rows' : rows'[r].msg = host.ctx[i]
      <4>1. host.ctx[i].text = host.said[u]
        BY <1>1, <3>1 DEF Saved, Truthful, Tells
      <4> QED BY <3>3, <4>1 DEF HasRow
    <3> QED BY <1>8, <3>1, <3>2, <3>3
  <2> QED BY <2>1, <2>2 DEF Saved
<1> QED BY <1>5, <1>6, <1>7, <1>9 DEF AllSaved

\* What holds of a value holds of the list that becomes it.
LEMMA TruthIs ==
  ASSUME NEW c, Truthful(c)'
  PROVE  /\ host'.ctx = c => Truthful(host.ctx)'
         /\ host'.log = c => Truthful(host.log)'
         /\ job'.work = c => Truthful(job.work)'
BY DEF Truthful

\* Lists a step leaves alone.
LEMMA TruthStays ==
  ASSUME RowsKept, TextsKept
  PROVE  /\ Truthful(host.ctx) /\ host'.ctx = host.ctx => Truthful(host.ctx)'
         /\ Truthful(host.log) /\ host'.log = host.log => Truthful(host.log)'
         /\ Truthful(job.work) /\ job'.work = job.work => Truthful(job.work)'
<1>1. PICK c : c = host.ctx
  OBVIOUS
<1>2. PICK l : l = host.log
  OBVIOUS
<1>3. PICK w : w = job.work
  OBVIOUS
<1>4. /\ Truthful(c) => Truthful(c)'
      /\ Truthful(l) => Truthful(l)'
      /\ Truthful(w) => Truthful(w)'
  BY TruthKept
<1>5. ASSUME Truthful(host.ctx), host'.ctx = host.ctx PROVE Truthful(host.ctx)'
  <2>1. Truthful(c)'
    BY <1>1, <1>4, <1>5
  <2> QED BY <1>1, <1>5, <2>1, TruthIs
<1>6. ASSUME Truthful(host.log), host'.log = host.log PROVE Truthful(host.log)'
  <2>1. Truthful(l)'
    BY <1>2, <1>4, <1>6
  <2> QED BY <1>2, <1>6, <2>1, TruthIs
<1>7. ASSUME Truthful(job.work), job'.work = job.work PROVE Truthful(job.work)'
  <2>1. Truthful(w)'
    BY <1>3, <1>4, <1>7
  <2> QED BY <1>3, <1>7, <2>1, TruthIs
<1> QED BY <1>5, <1>6, <1>7

\* No list is an honest one.
LEMMA NothingTold ==
  /\ host'.ctx = <<>> => Truthful(host.ctx)'
  /\ host'.log = <<>> => Truthful(host.log)'
  /\ job'.work = <<>> => Truthful(job.work)'
BY DEF Truthful

LEMMA SavedIngest ==
  ASSUME TypeInv, Saved, job.pc = "idle", mem.bound # 0, Ingest(host.ctx), UNCHANGED host,
         job'.work = job.work \/ job'.work = host.ctx
  PROVE  Saved'
<1>1. rows' = Appended(host.ctx) /\ mem' = Advanced(host.ctx) /\ host'.said = host.said
  BY DEF Ingest
<1>2. /\ RowsKept /\ TextsKept /\ AllSaved'
      /\ \A r \in DOMAIN rows' : Tells(rows[r].msg)'
  BY <1>1, SavedWrite
<1>3. Truthful(host.ctx)' /\ Truthful(host.log)'
  BY <1>2, TruthStays DEF Saved
<1>4. Truthful(job.work)'
  <2>1. CASE job'.work = job.work
    BY <1>2, <2>1, TruthStays DEF Saved
  <2>2. CASE job'.work = host.ctx
    BY <1>3, <2>2 DEF Truthful
  <2> QED BY <2>1, <2>2
<1>5. /\ host.ctx \in Seq(Messages) /\ Len(host.ctx) \in Nat /\ mem.cursor \in Nat
      /\ mem \in [bound : Nat, cursor : Nat, needs : BOOLEAN, last : Nat]
      /\ host'.ctx = host.ctx
  BY LenProperties DEF TypeInv, Types
<1>6. From(host.ctx) \in 0..Len(host.ctx)
  BY FromRange, <1>5 DEF TypeInv
<1>7. /\ mem'.bound = mem.bound /\ mem'.needs = FALSE
      /\ mem'.cursor = IF mem.needs \/ From(host.ctx) < Len(host.ctx)
                       THEN Len(host.ctx) ELSE mem.cursor
  BY <1>1, <1>5 DEF Advanced
<1>8. mem'.cursor \in Nat /\ mem'.cursor <= Len(host'.ctx)
  <2>1. CASE mem.needs \/ From(host.ctx) < Len(host.ctx)
    BY <1>5, <1>7, <2>1
  <2>2. CASE ~(mem.needs \/ From(host.ctx) < Len(host.ctx))
    <3>1. mem.cursor <= Len(host.ctx)
      BY <2>2 DEF Saved
    <3> QED BY <1>5, <1>7, <2>2, <3>1
  <2> QED BY <2>1, <2>2
<1> QED BY <1>2, <1>3, <1>4, <1>5, <1>7, <1>8, SavedWhole

\* Steps within a compaction.
LEMMA SavedWork ==
  ASSUME TypeInv, Saved, job.pc # "idle", UNCHANGED <<host, rows>>,
         NEW w, Truthful(w), job'.work = w,
         mem'.bound = mem.bound, mem'.needs = mem.needs, mem'.cursor = mem.cursor
  PROVE  Saved'
<1>1. RowsKept /\ TextsKept
  BY DEF RowsKept, TextsKept
<1>2. Truthful(host.ctx)' /\ Truthful(host.log)'
  BY <1>1, TruthStays DEF Saved
<1>3. Truthful(job.work)'
  <2>1. Truthful(w)'
    BY <1>1, TruthKept
  <2> QED BY <2>1, TruthIs
<1>4. \A r \in DOMAIN rows' : Tells(rows[r].msg)'
  BY <1>1, RowsTell DEF Saved
<1>5. AllSaved /\ mem.bound # 0 /\ ~mem.needs /\ mem.cursor <= Len(host.ctx)
  BY DEF Saved
<1>6. AllSaved'
  BY <1>5 DEF AllSaved, HasRow
<1>7. host.ctx \in Seq(Messages) /\ mem.cursor \in Nat
  BY DEF TypeInv, Types
<1> QED BY <1>2, <1>3, <1>4, <1>5, <1>6, <1>7, SavedWhole

\* What is left of the work, and the prompt made of it.
LEMMA TrimmedTells ==
  ASSUME NEW w \in Seq(Messages), w # <<>>, Truthful(w)
  PROVE  Truthful(Trimmed(w))
<1> DEFINE v == Trimmed(w)
           a == Anchor(w)
<1>1. /\ v \in Seq(Messages) /\ Len(v) = Len(w) - Lead(w)
      /\ \A i \in 1..a : v[i] = w[i]
      /\ \A i \in (a + 1)..Len(v) : v[i] = w[Lead(w) + i]
      /\ Lead(w) \in 0..(Len(w) - 1) /\ Len(w) \in Nat /\ a \in 0..Len(w)
  <2>1. a \in 0..1 /\ a <= Len(w) /\ Len(w) \in Nat
    BY AnchorRange
  <2> HIDE DEF v, a
  <2>2. a \in 0..Len(w)
    BY <2>1
  <2> QED BY <2>1, <2>2, TrimmedType, LeadRange DEF v, a
<1> HIDE DEF v, a
<1>2. DOMAIN v = 1..Len(v) /\ DOMAIN w = 1..Len(w) /\ Len(v) \in Nat
  BY <1>1, LenProperties
<1>3. ASSUME NEW i \in 1..Len(v) PROVE \E j \in DOMAIN w : v[i] = w[j]
  <2>1. CASE i <= a
    <3>1. i \in 1..a /\ i \in DOMAIN w
      BY <1>1, <1>2, <2>1
    <3> QED BY <1>1, <3>1
  <2>2. CASE ~(i <= a)
    <3>1. i \in (a + 1)..Len(v) /\ Lead(w) + i \in DOMAIN w
      BY <1>1, <1>2, <2>2
    <3> QED BY <1>1, <3>1
  <2> QED BY <2>1, <2>2
<1> QED BY <1>2, <1>3 DEF Truthful, v

LEMMA WithoutTells ==
  ASSUME NEW w \in Seq(Messages), NEW a \in 0..Len(w), NEW p \in (a + 1)..(Len(w) + 1),
         Truthful(w)
  PROVE  Truthful(SubSeq(w, 1, a) \o SubSeq(w, p, Len(w)))
<1> DEFINE v == SubSeq(w, 1, a) \o SubSeq(w, p, Len(w))
<1>1. /\ v \in Seq(Messages) /\ Len(v) = Len(w) - p + 1 + a
      /\ \A i \in 1..a : v[i] = w[i]
      /\ \A i \in (a + 1)..Len(v) : v[i] = w[p + i - a - 1]
  BY Without
<1> HIDE DEF v
<1>2. DOMAIN v = 1..Len(v) /\ DOMAIN w = 1..Len(w) /\ Len(v) \in Nat /\ Len(w) \in Nat
  BY <1>1, LenProperties
<1>3. ASSUME NEW i \in 1..Len(v) PROVE \E j \in DOMAIN w : v[i] = w[j]
  <2>1. CASE i <= a
    <3>1. i \in 1..a /\ i \in DOMAIN w
      BY <1>2, <2>1
    <3> QED BY <1>1, <3>1
  <2>2. CASE ~(i <= a)
    <3>1. i \in (a + 1)..Len(v) /\ p + i - a - 1 \in DOMAIN w
      BY <1>1, <1>2, <2>2
    <3> QED BY <1>1, <3>1
  <2> QED BY <2>1, <2>2
<1> QED BY <1>2, <1>3 DEF Truthful, v

LEMMA AssembledTells ==
  ASSUME TypeInv, AllSaved, NEW w \in Seq(Messages), w # <<>>, Truthful(w)
  PROVE  Truthful(Assembled(w))
<1> DEFINE v == Assembled(w)
           a == Anchor(w)
<1>1. PICK d \in 0..1 :
         /\ Len(v) = Len(w) + d
         /\ \A i \in 1..a : v[i].uid = w[i].uid /\ v[i].text = w[i].text
         /\ \A i \in (a + 1)..(a + d) : v[i].kind = "sum" /\ v[i].uid = 0
         /\ \A i \in (a + 1 + d)..Len(v) : v[i] = w[i - d]
  BY AssembledType DEF TypeInv
<1>2. /\ v \in Seq(Messages) /\ a \in 0..1 /\ a <= Len(w)
      /\ Len(w) \in Nat /\ DOMAIN w = 1..Len(w)
      /\ Len(v) \in Nat /\ DOMAIN v = 1..Len(v)
  BY AssembledType, AnchorRange, LenProperties DEF TypeInv
<1> HIDE DEF v, a
<1>3. ASSUME NEW i \in 1..Len(v) PROVE Tells(v[i]) /\ Backed(v[i])
  <2>1. CASE i \in 1..a
    <3>1. i \in DOMAIN w
      BY <1>2, <2>1
    <3>2. Tells(w[i])
      BY <3>1 DEF Truthful
    <3>3. v[i].uid = w[i].uid /\ v[i].text = w[i].text
      BY <1>1, <2>1
    <3>4. Tells(v[i])
      BY <3>2, <3>3 DEF Tells
    <3>5. v[i].uid # 0 => HasRow(v[i].uid)
      BY <3>4 DEF Tells, AllSaved
    <3> QED BY <3>4, <3>5 DEF Backed
  <2>2. CASE i \in (a + 1)..(a + d)
    BY <1>1, <2>2 DEF Tells, Backed
  <2>3. CASE i \in (a + 1 + d)..Len(v)
    <3>1. i - d \in 1..Len(w)
      BY <1>1, <1>2, <2>3
    <3>2. v[i] = w[i - d]
      BY <1>1, <2>3
    <3>3. i - d \in DOMAIN w
      BY <1>2, <3>1
    <3> QED BY <3>2, <3>3 DEF Truthful
  <2> QED BY <1>1, <1>2, <2>1, <2>2, <2>3
<1> QED BY <1>2, <1>3 DEF Truthful, v

\* What the host goes on with after a compaction.
LEMMA SavedPublish ==
  ASSUME TypeInv, Saved, job.pc # "idle", NEW w \in Seq(Messages), w # <<>>, Truthful(w),
         host' = [host EXCEPT !.ctx = Assembled(w)],
         mem'.cursor = Len(Assembled(w)), job' = Idle, UNCHANGED rows
  PROVE  Saved'
<1>1. host'.ctx = Assembled(w) /\ host'.log = host.log /\ host'.said = host.said
  BY DEF TypeInv, Types
<1>2. RowsKept /\ TextsKept
  BY <1>1 DEF RowsKept, TextsKept
<1>3. AllSaved
  BY DEF Saved
<1>4. Truthful(host.ctx)'
  <2>1. PICK c : c = Assembled(w)
    OBVIOUS
  <2>2. Truthful(c)
    BY <1>3, <2>1, AssembledTells
  <2>3. Truthful(c)'
    BY <1>2, <2>2, TruthKept
  <2> QED BY <1>1, <2>1, <2>3, TruthIs
<1>5. Truthful(host.log)'
  BY <1>1, <1>2, TruthStays DEF Saved
<1>6. job'.work = <<>> /\ job'.pc = "idle"
  BY DEF Idle
<1>7. \A r \in DOMAIN rows' : Tells(rows[r].msg)'
  BY <1>2, RowsTell DEF Saved
<1>8. AllSaved'
  BY <1>1, <1>3 DEF AllSaved, HasRow
<1>9. Assembled(w) \in Seq(Messages)
  BY AssembledType DEF TypeInv
<1>10. Len(Assembled(w)) \in Nat
  BY <1>9, LenProperties
<1>11. Truthful(job.work)'
  BY <1>6, NothingTold
<1> QED BY <1>1, <1>4, <1>5, <1>6, <1>7, <1>8, <1>9, <1>10, <1>11, SavedWhole

LEMMA AppendTells ==
  ASSUME NEW c \in Seq(Messages), NEW m \in Messages,
         Truthful(c)', Tells(m)', ~Scaffold(m)
  PROVE  Truthful(Append(c, m))' /\ UidsOf(Append(c, m)) = UidsOf(c) \cup ({m.uid} \ {0})
<1> DEFINE d == Append(c, m)
           n == Len(c)
<1>1. /\ n \in Nat /\ d \in Seq(Messages) /\ Len(d) = n + 1 /\ d[n + 1] = m
      /\ \A i \in 1..n : d[i] = c[i]
      /\ DOMAIN c = 1..n
  BY AppendProperties, LenProperties
<1> HIDE DEF d
<1>2. DOMAIN d = 1..(n + 1)
  BY <1>1, LenProperties
<1> HIDE DEF n
<1>3. ASSUME NEW i \in 1..(n + 1) PROVE Tells(d[i])' /\ Backed(d[i])'
  <2>1. CASE i = n + 1
    <3>1. d[i] = m
      BY <1>1, <2>1
    <3> QED BY <3>1 DEF Backed, Scaffold
  <2>2. CASE i \in 1..n
    <3>1. d[i] = c[i] /\ i \in DOMAIN c
      BY <1>1, <2>2
    <3>2. Tells(c[i])' /\ Backed(c[i])'
      BY <3>1 DEF Truthful
    <3> QED BY <3>1, <3>2
  <2> QED BY <1>1, <2>1, <2>2
<1>4. Truthful(d)'
  BY <1>2, <1>3 DEF Truthful
<1>5. UidsOf(d) = UidsOf(c) \cup ({m.uid} \ {0})
  <2>1. 1..(n + 1) = 1..n \cup {n + 1}
    BY <1>1
  <2>2. {d[i].uid : i \in 1..(n + 1)} = {c[i].uid : i \in 1..n} \cup {m.uid}
    BY <1>1, <2>1
  <2> QED BY <1>1, <1>2, <2>2 DEF UidsOf
<1> QED BY <1>4, <1>5 DEF d

LEMMA SavedSay ==
  ASSUME TypeInv, Saved, NEW k \in {"sys", "turn"}, NEW t \in Texts, Say(k, t)
  PROVE  Saved'
<1>a. PICK m : m = Message(k, t, Len(host.said) + 1)
  OBVIOUS
<1>b. PICK c : c = host.ctx
  OBVIOUS
<1>c. PICK l : l = host.log
  OBVIOUS
<1> DEFINE N == Len(host.said)
           q == Len(c)
<1>1. /\ host'.ctx = Append(c, m) /\ host'.log = Append(l, m)
      /\ host'.said = Append(host.said, t)
      /\ UNCHANGED <<rows, mem, job>> /\ mem.bound # 0 /\ job.pc = "idle"
  BY <1>a, <1>b, <1>c DEF Say, Quiet, TypeInv, Types
<1>2. /\ N \in Nat /\ c \in Seq(Messages) /\ l \in Seq(Messages) /\ host.said \in Seq(Texts)
      /\ mem.cursor \in Nat /\ q \in Nat /\ DOMAIN host.said = 1..N /\ DOMAIN c = 1..q
  BY <1>b, <1>c, LenProperties DEF TypeInv, Types
<1>3. m \in Messages /\ m.text = t /\ m.uid = N + 1 /\ ~Scaffold(m) /\ m.uid # 0
  BY <1>a, <1>2 DEF Message, Messages, Scaffold
<1>4. /\ DOMAIN host'.said = 1..(N + 1) /\ host'.said[N + 1] = t
      /\ \A u \in 1..N : host'.said[u] = host.said[u]
  BY <1>1, <1>2, AppendProperties, LenProperties
<1> HIDE DEF N, q
<1>5. TextsKept /\ RowsKept
  BY <1>1, <1>2, <1>4 DEF TextsKept, RowsKept
<1>6. Tells(m)'
  <2>1. N + 1 \in 1..(N + 1)
    BY <1>2
  <2> QED BY <1>3, <1>4, <2>1 DEF Tells
<1>7. Truthful(c) /\ Truthful(l)
  BY <1>b, <1>c DEF Saved
<1>8. Truthful(c)' /\ Truthful(l)'
  BY <1>5, <1>7, TruthKept
<1>9. /\ Truthful(Append(c, m))' /\ UidsOf(Append(c, m)) = UidsOf(c) \cup ({m.uid} \ {0})
      /\ Truthful(Append(l, m))' /\ UidsOf(Append(l, m)) = UidsOf(l) \cup ({m.uid} \ {0})
  BY <1>2, <1>3, <1>6, <1>8, AppendTells
<1>10. Truthful(host.ctx)' /\ Truthful(host.log)'
  <2>1. PICK x : x = Append(c, m)
    OBVIOUS
  <2>2. PICK y : y = Append(l, m)
    OBVIOUS
  <2>3. Truthful(x)' /\ Truthful(y)'
    BY <1>9, <2>1, <2>2
  <2> QED BY <1>1, <2>1, <2>2, <2>3, TruthIs
<1>11. Truthful(job.work)'
  BY <1>1, <1>5, TruthStays DEF Saved
<1>12. \A r \in DOMAIN rows' : Tells(rows[r].msg)'
  BY <1>1, <1>5, RowsTell DEF Saved
<1>13. UidsOf(host.ctx)' = UidsOf(host.ctx) \cup {N + 1}
       /\ UidsOf(host.log)' = UidsOf(host.log) \cup {N + 1}
  <2>1. UidsOf(host.ctx)' = UidsOf(Append(c, m)) /\ UidsOf(host.log)' = UidsOf(Append(l, m))
    BY <1>1 DEF UidsOf
  <2>2. {m.uid} \ {0} = {N + 1}
    BY <1>3
  <2> QED BY <1>b, <1>c, <1>9, <2>1, <2>2
<1>14. ASSUME NEW u \in DOMAIN host'.said
       PROVE  HasRow(u)' \/ (u \in UidsOf(host.ctx)' /\ u \in UidsOf(host.log)')
  <2>1. CASE u = N + 1
    BY <1>13, <2>1
  <2>2. CASE u \in 1..N
    <3>1. HasRow(u) \/ u \in UidsOf(host.ctx) \cap UidsOf(host.log)
      BY <1>2, <2>2 DEF Saved
    <3> QED BY <1>2, <1>5, <1>13, <2>2, <3>1, HasRowKept
  <2> QED BY <1>2, <1>4, <2>1, <2>2
<1>15. ASSUME ~mem.needs
       PROVE  /\ mem'.cursor <= Len(host'.ctx)
              /\ \A i \in 1..mem'.cursor : host'.ctx[i].uid # 0 => HasRow(host.ctx[i].uid)'
  <2>1. mem.cursor <= q /\ \A i \in 1..mem.cursor : c[i].uid # 0 => HasRow(c[i].uid)
    BY <1>b, <1>1, <1>15 DEF Saved, q
  <2>2. Len(host'.ctx) = q + 1 /\ \A i \in 1..q : host'.ctx[i] = c[i]
    BY <1>1, <1>2, <1>3, AppendProperties DEF q
  <2>3. mem.cursor <= q + 1
    BY <1>2, <2>1
  <2>4. ASSUME NEW i \in 1..mem.cursor, c[i].uid # 0 PROVE HasRow(c[i].uid)'
    <3>1. i \in DOMAIN c
      BY <1>2, <2>1
    <3>2. c[i].uid \in DOMAIN host.said /\ HasRow(c[i].uid)
      BY <1>7, <2>1, <2>4, <3>1 DEF Truthful, Tells
    <3>3. PICK u : u = c[i].uid
      OBVIOUS
    <3>4. HasRow(u)'
      BY <1>5, <3>2, <3>3, HasRowKept
    <3> QED BY <3>3, <3>4
  <2>5. ASSUME NEW i \in 1..mem.cursor, host'.ctx[i].uid # 0 PROVE HasRow(host.ctx[i].uid)'
    <3>1. i \in 1..q /\ host'.ctx[i] = c[i]
      BY <1>2, <2>1, <2>2
    <3> QED BY <2>4, <2>5, <3>1 DEF HasRow
  <2> QED BY <1>1, <2>2, <2>3, <2>5
<1> QED BY <1>1, <1>10, <1>11, <1>12, <1>14, <1>15 DEF Saved

\* A failed compaction, or the end of a process.
LEMMA SavedStop ==
  ASSUME TypeInv, Saved, UNCHANGED <<host, rows>>, mem' \in {mem, Unbound}, job' = Idle
  PROVE  Saved'
<1>1. RowsKept /\ TextsKept
  BY DEF RowsKept, TextsKept
<1>2. Truthful(host.ctx)' /\ Truthful(host.log)'
  BY <1>1, TruthStays DEF Saved
<1>3. Truthful(job.work)' /\ job'.pc = "idle"
  BY NothingTold DEF Idle
<1>4. \A r \in DOMAIN rows' : Tells(rows[r].msg)'
  BY <1>1, RowsTell DEF Saved
<1>5. \A u \in DOMAIN host'.said :
        HasRow(u)' \/ (u \in UidsOf(host.ctx)' /\ u \in UidsOf(host.log)')
  BY DEF Saved, HasRow
<1>6. mem'.bound # 0 => mem' = mem
  BY DEF Unbound
<1>7. mem'.bound # 0 /\ ~mem'.needs =>
        /\ mem'.cursor <= Len(host'.ctx)
        /\ \A i \in 1..mem'.cursor : host'.ctx[i].uid # 0 => HasRow(host.ctx[i].uid)'
  BY <1>6 DEF Saved, HasRow
<1> QED BY <1>2, <1>3, <1>4, <1>5, <1>7 DEF Saved

LEMMA SavedExit ==
  ASSUME TypeInv, Saved, Exit
  PROVE  Saved'
<1>1. /\ mem.bound # 0 /\ rows' = Appended(host.ctx) /\ UNCHANGED <<host, job>>
      /\ mem'.bound = 0 /\ mem'.cursor = 0 /\ job'.pc = "idle"
  BY DEF Exit, Quiet, Unbound
<1>2. /\ RowsKept /\ TextsKept /\ AllSaved'
      /\ \A r \in DOMAIN rows' : Tells(rows[r].msg)'
  BY <1>1, SavedWrite
<1>3. Truthful(host.ctx)' /\ Truthful(host.log)' /\ Truthful(job.work)'
  BY <1>1, <1>2, TruthStays DEF Saved
<1>4. host'.ctx \in Seq(Messages) /\ 0 <= Len(host'.ctx)
  BY <1>1, LenProperties DEF TypeInv, Types
<1> QED BY <1>1, <1>2, <1>3, <1>4, SavedWhole

\* The transcript or the prompt has what is not stored; a host that brings
\* neither has seen everything stored.
LEMMA SavedResume ==
  ASSUME TypeInv, Saved, NEW how \in {"transcript", "prompt", "delta"}, Resume(how)
  PROVE  Saved'
<1>1. /\ host'.log = host.log /\ host'.said = host.said
      /\ host'.ctx \in {host.log, host.ctx, <<>>}
      /\ host'.ctx = <<>> => how = "delta" \/ host'.ctx \in {host.log, host.ctx}
      /\ mem'.cursor = 0 /\ UNCHANGED <<rows, job>> /\ mem.bound = 0
      /\ how = "delta" => UidsOf(host.log) \subseteq Stored
  BY DEF Resume, TypeInv, Types
<1>2. RowsKept /\ TextsKept
  BY <1>1 DEF RowsKept, TextsKept
<1>3. job'.pc = "idle"
  BY <1>1 DEF Saved
<1>4. Truthful(host.log)' /\ Truthful(job.work)'
  BY <1>1, <1>2, TruthStays DEF Saved
<1>5. Truthful(host.ctx)'
  <2>1. CASE host'.ctx = host.ctx
    BY <1>2, <2>1, TruthStays DEF Saved
  <2>2. CASE host'.ctx = host.log
    BY <1>1, <1>4, <2>2 DEF Truthful
  <2>3. CASE host'.ctx = <<>>
    BY <2>3, NothingTold
  <2> QED BY <1>1, <2>1, <2>2, <2>3
<1>6. \A r \in DOMAIN rows' : Tells(rows[r].msg)'
  BY <1>1, <1>2, RowsTell DEF Saved
<1>7. ASSUME NEW u \in DOMAIN host'.said
      PROVE  HasRow(u)' \/ (u \in UidsOf(host.ctx)' /\ u \in UidsOf(host.log)')
  <2>1. HasRow(u) \/ (u \in UidsOf(host.ctx) /\ u \in UidsOf(host.log))
    BY <1>1 DEF Saved
  <2>2. CASE HasRow(u)
    BY <1>1, <2>2 DEF HasRow
  <2>3. CASE host'.ctx \in {host.log, host.ctx} /\ u \in UidsOf(host.ctx) /\ u \in UidsOf(host.log)
    BY <1>1, <2>3 DEF UidsOf
  <2>4. CASE how = "delta" /\ u \in UidsOf(host.log)
    <3>1. u \in Stored
      BY <1>1, <2>4
    <3>2. PICK r \in DOMAIN rows : rows[r].msg.uid = u /\ u # 0
      BY <3>1 DEF Stored, UidsOf
    <3>3. rows[r].msg.text = host.said[u]
      BY <3>2 DEF Saved, Tells
    <3> QED BY <1>1, <3>2, <3>3 DEF HasRow
  <2> QED BY <1>1, <2>1, <2>2, <2>3, <2>4
<1>8. mem'.cursor <= Len(host'.ctx) /\ 1..mem'.cursor = {}
  <2>1. host'.ctx \in Seq(Messages)
    <3>1. host.log \in Seq(Messages) /\ host.ctx \in Seq(Messages)
      BY DEF TypeInv, Types
    <3>2. <<>> \in Seq(Messages)
      OBVIOUS
    <3> QED BY <1>1, <3>1, <3>2
  <2>2. Len(host'.ctx) \in Nat
    BY <2>1, LenProperties
  <2> QED BY <1>1, <2>2
<1> QED BY <1>3, <1>4, <1>5, <1>6, <1>7, <1>8 DEF Saved

\* The prompt becomes the transcript of the new session.
LEMMA SavedBoundary ==
  ASSUME TypeInv, Saved, Boundary
  PROVE  Saved'
<1>1. /\ host'.ctx = host.ctx /\ host'.log = host.ctx /\ host'.said = host.said
      /\ mem'.cursor = mem.cursor /\ mem'.needs = mem.needs /\ mem.bound # 0
      /\ UNCHANGED <<rows, job>> /\ job.pc = "idle"
  BY DEF Boundary, Crossed, Quiet, TypeInv, Types
<1>2. RowsKept /\ TextsKept
  BY <1>1 DEF RowsKept, TextsKept
<1>3. Truthful(host.ctx)' /\ Truthful(job.work)'
  BY <1>1, <1>2, TruthStays DEF Saved
<1>4. Truthful(host.log)'
  BY <1>1, <1>3 DEF Truthful
<1>5. \A r \in DOMAIN rows' : Tells(rows[r].msg)'
  BY <1>1, <1>2, RowsTell DEF Saved
<1>6. \A u \in DOMAIN host'.said :
        HasRow(u)' \/ (u \in UidsOf(host.ctx)' /\ u \in UidsOf(host.log)')
  BY <1>1 DEF Saved, HasRow, UidsOf
<1>7. mem'.bound # 0 /\ ~mem'.needs =>
        /\ mem'.cursor <= Len(host'.ctx)
        /\ \A i \in 1..mem'.cursor : host'.ctx[i].uid # 0 => HasRow(host.ctx[i].uid)'
  BY <1>1 DEF Saved, HasRow
<1> QED BY <1>1, <1>3, <1>4, <1>5, <1>6, <1>7 DEF Saved

\* /new stores the prompt first.
LEMMA SavedNew ==
  ASSUME TypeInv, Saved, NEW carry \in BOOLEAN, NewSession(carry)
  PROVE  Saved'
<1>1. /\ mem.bound # 0 /\ rows' = Appended(host.ctx) /\ job.pc = "idle"
      /\ mem'.cursor = 0 /\ host'.ctx = <<>> /\ host'.log = <<>>
      /\ host'.said = host.said /\ UNCHANGED job
  BY DEF NewSession, Quiet, Unbound, TypeInv, Types
<1>2. /\ RowsKept /\ TextsKept /\ AllSaved'
      /\ \A r \in DOMAIN rows' : Tells(rows[r].msg)'
  BY <1>1, SavedWrite
<1>3. Truthful(host.ctx)' /\ Truthful(host.log)'
  BY <1>1, NothingTold
<1>4. Truthful(job.work)'
  BY <1>1, <1>2, TruthStays DEF Saved
<1>5. host'.ctx \in Seq(Messages) /\ 0 <= Len(host'.ctx)
  BY <1>1
<1> QED BY <1>1, <1>2, <1>3, <1>4, <1>5, SavedWhole

LEMMA SavedStep == SavedInv /\ [Next]_vars => SavedInv'
<1> SUFFICES ASSUME SavedInv, [Next]_vars, Clean({"child"})'
             PROVE  Saved'
  BY TypeStep DEF SavedInv
<1>0. TypeInv
  BY DEF SavedInv
<1>1. trouble \subseteq trouble'
  BY DEF Next, vars, Say, Turn, Compress, Leaf, Frontier, Noop, Condense, Publish,
         Abort, Crash, Exit, Resume, Boundary, Crossed, NewSession, ChildEnd, Befalls, Known
<1>2. Saved
  BY <1>1 DEF SavedInv, Clean
<1>3. ASSUME NEW k \in {"sys", "turn"}, NEW t \in Texts, Say(k, t) PROVE Saved'
  BY <1>0, <1>2, <1>3, SavedSay
<1>4. CASE Turn \/ Compress
  <2>1. Ingest(host.ctx) /\ UNCHANGED host /\ mem.bound # 0 /\ job.pc = "idle"
    BY <1>4 DEF Turn, Compress, Quiet
  <2>2. job'.work = job.work \/ job'.work = host.ctx
    BY <1>4 DEF Turn, Compress, Idle
  <2> QED BY <1>0, <1>2, <2>1, <2>2, SavedIngest
<1>5. CASE Frontier \/ (\E d \in 0..MaxDepth : Condense(d))
  <2>1. /\ UNCHANGED <<host, rows>> /\ mem'.needs = mem.needs /\ mem'.bound = mem.bound
        /\ mem'.cursor = mem.cursor
    BY <1>0, <1>5 DEF Frontier, Condense, TypeInv, Types
  <2>2. job.pc # "idle" /\ job'.work = job.work
    BY <1>0, <1>5 DEF Frontier, Condense, TypeInv, Types
  <2>3. PICK w : w = job.work
    OBVIOUS
  <2>4. Truthful(w) /\ job'.work = w
    BY <1>2, <2>2, <2>3 DEF Saved
  <2> QED BY <1>0, <1>2, <2>1, <2>2, <2>4, SavedWork
<1>6. CASE Leaf
  <2>1. PICK k \in (Anchor(Trimmed(job.work)) + 1)..(Len(Trimmed(job.work)) - Fresh) :
           /\ job'.work = SubSeq(Trimmed(job.work), 1, Anchor(Trimmed(job.work)))
                            \o SubSeq(Trimmed(job.work), k + 1, Len(Trimmed(job.work)))
           /\ UNCHANGED <<host, rows, mem>> /\ job.pc = "leaf"
    <3>1. PICK k \in (Anchor(Trimmed(job.work)) + 1)..(Len(Trimmed(job.work)) - Fresh) :
             /\ job' = [pc |-> "frontier",
                        work |-> SubSeq(Trimmed(job.work), 1, Anchor(Trimmed(job.work)))
                                   \o SubSeq(Trimmed(job.work), k + 1, Len(Trimmed(job.work))),
                        ids |-> IdsOf(SubSeq(Trimmed(job.work), Anchor(Trimmed(job.work)) + 1, k)), depth |-> 0]
             /\ UNCHANGED <<host, rows, mem>> /\ job.pc = "leaf"
      BY <1>0, <1>6, LeafStep, Zenon
    <3> QED BY <3>1
  <2>2. job.work \in Seq(Messages) /\ job.work # <<>> /\ Truthful(job.work)
    BY <1>0, <1>2, <2>1 DEF TypeInv, Types, Working, Saved
  <2>3. PICK v : v = Trimmed(job.work)
    OBVIOUS
  <2>4. v \in Seq(Messages) /\ v # <<>> /\ Truthful(v) /\ Len(v) \in Nat
    BY <2>2, <2>3, TrimmedType, TrimmedTells, LenProperties
  <2>a. PICK a : a = Anchor(v)
    OBVIOUS
  <2>5. a \in 0..Len(v) /\ k + 1 \in (a + 1)..(Len(v) + 1)
    <3>1. a \in 0..1 /\ a <= Len(v) /\ k \in (a + 1)..(Len(v) - Fresh)
      BY <2>1, <2>3, <2>4, <2>a, AnchorRange
    <3> QED BY <2>4, <3>1, NumbersAssumption
  <2>6. PICK w : w = SubSeq(v, 1, a) \o SubSeq(v, k + 1, Len(v))
    OBVIOUS
  <2>7. Truthful(w) /\ job'.work = w
    BY <2>1, <2>3, <2>4, <2>5, <2>6, <2>a, WithoutTells
  <2>8. job.pc # "idle"
    BY <2>1
  <2> QED BY <1>0, <1>2, <2>1, <2>7, <2>8, SavedWork
<1>7. CASE Publish
  <2>1. job.work \in Seq(Messages) /\ job.work # <<>> /\ job.pc # "idle" /\ Truthful(job.work)
    BY <1>0, <1>2, <1>7 DEF TypeInv, Types, Working, Publish, Saved
  <2>2. /\ host' = [host EXCEPT !.ctx = Assembled(job.work)]
        /\ mem' = [mem EXCEPT !.cursor = Len(Assembled(job.work)), !.needs = FALSE]
        /\ job' = Idle /\ UNCHANGED rows
    BY <1>7 DEF Publish
  <2>3. mem'.cursor = Len(Assembled(job.work))
    BY <1>0, <2>2 DEF TypeInv, Types
  <2> QED BY <1>0, <1>2, <2>1, <2>2, <2>3, SavedPublish
<1>8. CASE Noop
  <2>1. job.work \in Seq(Messages) /\ job.work # <<>> /\ job.pc # "idle" /\ Truthful(job.work)
    BY <1>0, <1>2, <1>8 DEF TypeInv, Types, Working, Noop, Saved
  <2>2. job' = Idle /\ UNCHANGED rows
    BY <1>8 DEF Noop
  <2>3. CASE Lead(job.work) > 0
    <3> DEFINE w == Trimmed(job.work)
    <3>1. w \in Seq(Messages) /\ w # <<>> /\ Truthful(w)
      BY <2>1, TrimmedType, TrimmedTells
    <3>2. /\ host' = [host EXCEPT !.ctx = Assembled(w)]
          /\ mem' = [mem EXCEPT !.cursor = Len(Assembled(w))]
      BY <1>8, <2>3 DEF Noop
    <3> HIDE DEF w
    <3>3. mem'.cursor = Len(Assembled(w))
      BY <1>0, <3>2 DEF TypeInv, Types
    <3> QED BY <1>0, <1>2, <2>1, <2>2, <3>1, <3>2, <3>3, SavedPublish
  <2>4. CASE ~(Lead(job.work) > 0)
    <3>1. UNCHANGED <<host, mem>>
      BY <1>8, <2>4 DEF Noop
    <3> QED BY <1>0, <1>2, <2>2, <3>1, SavedStop
  <2> QED BY <2>3, <2>4
<1>9. CASE Abort \/ Crash
  <2>1. UNCHANGED <<host, rows>> /\ mem' \in {mem, Unbound} /\ job' = Idle
    BY <1>9 DEF Abort, Crash
  <2> QED BY <1>0, <1>2, <2>1, SavedStop
<1>10. CASE Exit
  BY <1>0, <1>2, <1>10, SavedExit
<1>11. ASSUME NEW how \in {"transcript", "prompt", "delta"}, Resume(how) PROVE Saved'
  BY <1>0, <1>2, <1>11, SavedResume
<1>12. CASE Boundary
  BY <1>0, <1>2, <1>12, SavedBoundary
<1>13. ASSUME NEW carry \in BOOLEAN, NewSession(carry) PROVE Saved'
  BY <1>0, <1>2, <1>13, SavedNew
<1>14. ASSUME NEW ms, ChildEnd(ms) PROVE Saved'
  BY <1>14 DEF ChildEnd, Befalls, Known, Clean
<1>15. CASE UNCHANGED vars
  <2>1. UNCHANGED <<host, rows, mem, job>>
    BY <1>15 DEF vars
  <2> QED BY <1>2, <2>1 DEF Saved, Truthful, Tells, Backed, AllSaved, HasRow, UidsOf
<1> QED BY <1>3, <1>4, <1>5, <1>6, <1>7, <1>8, <1>9, <1>10, <1>11, <1>12, <1>13, <1>14, <1>15 DEF Next

LEMMA SavedInit == Init => SavedInv
<1> SUFFICES ASSUME Init PROVE Saved
  BY TypeInit DEF SavedInv
<1>1. /\ host.ctx = <<>> /\ host.log = <<>> /\ job.work = <<>> /\ job.pc = "idle"
      /\ host.said = <<>> /\ rows = <<>> /\ mem.cursor = 0
  BY DEF Init, Unbound, Idle
<1>2. DOMAIN <<>> = {} /\ Len(<<>>) = 0 /\ 1..0 = {}
  OBVIOUS
<1> QED BY <1>1, <1>2 DEF Saved, Truthful

\* What is neither stored nor waiting has the text of a row.
LEMMA SavedTexts ==
  ASSUME TypeInv, Saved, NEW u \in Lost
  PROVE  \E r \in DOMAIN rows : rows[r].msg.text = host.said[u]
<1>1. /\ host.ctx \in Seq(Messages) /\ host.log \in Seq(Messages) /\ Len(host.ctx) \in Nat
      /\ DOMAIN host.ctx = 1..Len(host.ctx) /\ mem.cursor \in Nat
  BY LenProperties DEF TypeInv, Types
<1>2. u \in DOMAIN host.said /\ u \notin Waiting
  BY DEF Lost
<1>3. CASE HasRow(u)
  BY <1>3 DEF HasRow
<1>4. CASE u \in UidsOf(host.ctx)
  <2>1. CASE mem.bound = 0 \/ mem.needs
    BY <1>1, <1>2, <1>4, <2>1, Concat DEF Waiting
  <2>2. CASE ~(mem.bound = 0 \/ mem.needs)
    <3> DEFINE q == Len(host.ctx)
               p == mem.cursor + 1
    <3>1. PICK i \in 1..q : host.ctx[i].uid = u /\ u # 0
      BY <1>1, <1>4 DEF UidsOf
    <3>2. mem.cursor <= q
      BY <2>2 DEF Saved
    <3>3. i \in 1..mem.cursor \/ i \in p..q
      BY <1>1
    <3>4. p \in 1..(q + 1) /\ q \in (p - 1)..q
      BY <1>1, <3>2
    <3> HIDE DEF p, q
    <3>5. CASE i \in p..q
      <4>1. UidsOf(SubSeq(host.ctx, p, q)) = {host.ctx[j].uid : j \in p..q} \ {0}
        BY <1>1, <3>4, Part DEF q
      <4>2. u \in UidsOf(SubSeq(host.ctx, p, q))
        BY <3>1, <3>5, <4>1
      <4> QED BY <1>2, <2>2, <4>2 DEF Waiting, p, q
    <3>6. CASE i \in 1..mem.cursor
      BY <2>2, <3>1, <3>6 DEF Saved, HasRow
    <3> QED BY <3>3, <3>5, <3>6
  <2> QED BY <2>1, <2>2
<1> QED BY <1>2, <1>3, <1>4 DEF Saved

\* Nothing said is lost. A process that can tell what is new has every message
\* stored or in front of it; whatever else crashes, exits, resumes with, crosses
\* or resets, every message is stored, in front of it, or has the text of a row.
THEOREM LcmNothingLost == Spec => []NothingLost
<1>1. StoreInv /\ ReplayInv /\ SavedInv => NothingLost
  <2> SUFFICES ASSUME StoreInv, ReplayInv, SavedInv PROVE NothingLost
    OBVIOUS
  <2>1. ASSUME Certain PROVE Lost = {}
    <3>1. CASE Clean({"crash", "exit"})
      <4>1. Clean({"crash", "exit", "child"})
        BY <2>1, <3>1 DEF Certain, Clean
      <4> QED BY <4>1, StraightKeeps
    <3>2. CASE Clean({"boundary"})
      <4>1. TypeInv /\ Replayed
        BY <2>1, <3>2 DEF ReplayInv, Certain, Clean
      <4> QED BY <4>1, ReplayKeeps
    <3> QED BY <2>1, <3>1, <3>2 DEF Certain
  <2>2. ASSUME Clean({"child"}), NEW u \in Lost
        PROVE  \E r \in DOMAIN rows : rows[r].msg.text = host.said[u]
    <3>1. TypeInv /\ Saved
      BY <2>2 DEF SavedInv
    <3> QED BY <2>2, <3>1, SavedTexts
  <2> QED BY <2>1, <2>2 DEF NothingLost
<1> QED BY <1>1, StraightInit, StraightStep, ReplayInit, ReplayStep, SavedInit, SavedStep,
           PTL DEF Spec
=============================================================================
