--------------------------- MODULE RollupsProofs ---------------------------
(* Theorems about Rollups, for any number of days, weeks and months, nodes,   *)
(* builders, passes and budgets.                                              *)
EXTENDS Rollups, FiniteSetTheorems, SequenceTheorems, TLAPS

-----------------------------------------------------------------------------
(* The inductive invariant.                                                   *)

Events == [from : Days, to : Days, next : Days]

Outbox ==
    \A i \in DOMAIN outbox :
        outbox[i].from <= outbox[i].next /\ outbox[i].next <= outbox[i].to

Placed(b) ==
    /\ pc[b] = "read" => Job(b) \in Days
    /\ pc[b] \in {"statuses", "content", "collect", "canon"} => Job(b) \in Aggregates
    /\ pc[b] \in {"content", "collect"} => noted[b] \subseteq Covers[Job(b)]

Steps == {"rest", "read", "statuses", "content", "collect", "canon", "write",
          "resolve", "defer", "spread"}

TypeInv ==
    /\ TypeOK /\ Outbox
    /\ pc \in [Builders -> Steps]
    /\ \A b \in Builders : Placed(b)

(* A builder only holds the lease of the row it is building.                  *)
Leases ==
    \A b \in Builders : \A p \in Periods :
        lease[p] = b => /\ todo[b] # <<>> /\ Job(b) = p
                        /\ pc[b] \notin {"rest", "spread"}

(* What a builder that still owns its row knows.                              *)
Informed(b) ==
    /\ pc[b] = "resolve" => Front(live, Job(b)) = {}
    /\ pc[b] \in {"canon", "write"} => found[b] = Front(live, Job(b))
    /\ pc[b] \in {"content", "collect"} =>
          \A d \in noted[b] : sources[d] = Front(live, d)
    /\ pc[b] = "collect" =>
          \A d \in Covers[Job(b)] \ noted[b] : Front(live, d) = {}

Building ==
    \A b \in Builders :
        pc[b] # "rest" /\ Owns(b) /\ ~Owed(Job(b)) => Informed(b)

(* A ready row matches one of a reader's moments, the present among them.     *)
Reading ==
    moments # {} =>
        /\ live \in moments
        /\ \A p \in In("ready") : \E N \in moments : sources[p] = Front(N, p)

Current ==
    /\ Leases /\ Building /\ ReadyIsCurrent /\ NothingForgotten /\ Reading

-----------------------------------------------------------------------------
(* Periods and frontiers.                                                     *)

\* Every period is a set of days, and a row per period is named by no day twice.
LEMMA PeriodFacts ==
  /\ \A p \in Periods : DaysOf(p) \subseteq Days
  /\ \A a \in Aggregates : a \notin Days /\ a \in Periods /\ DaysOf(a) = Covers[a]
  /\ \A d \in Days : d \in Periods /\ DaysOf(d) = {d}
BY NamesAssumption, CoversAssumption DEF Periods, DaysOf

\* The frontier of a period is blind to nodes that do not meet it.
LEMMA FrontLocal ==
  ASSUME NEW N \in SUBSET Nodes, NEW M \in SUBSET Nodes, NEW p \in Periods,
         \A n \in (N \ M) \cup (M \ N) : SpanOf(n) \cap DaysOf(p) = {}
  PROVE  Front(N, p) = Front(M, p)
<1>1. ASSUME NEW A \in SUBSET Nodes, NEW B \in SUBSET Nodes,
             \A n \in (A \ B) \cup (B \ A) : SpanOf(n) \cap DaysOf(p) = {},
             NEW x \in Front(A, p)
      PROVE  x \in Front(B, p)
  <2>1. x \in A /\ x \in Nodes /\ SpanOf(x) \cap DaysOf(p) # {}
    BY <1>1 DEF Front
  <2>2. x \in B
    BY <1>1, <2>1
  <2>3. ASSUME NEW m \in B, x \in Under[m]
        PROVE  FALSE
    <3>1. m \notin A
      BY <2>3, <1>1 DEF Front
    <3>2. SpanOf(m) \cap DaysOf(p) = {}
      BY <3>1, <1>1, <2>3
    <3>3. SpanOf(x) \subseteq SpanOf(m)
      BY <2>3, SpansAssumption
    <3> QED BY <2>1, <3>2, <3>3
  <2> QED BY <2>1, <2>2, <2>3 DEF Front
<1>2. Front(N, p) \subseteq Front(M, p)
  BY <1>1
<1>3. Front(M, p) \subseteq Front(N, p)
  BY <1>1
<1> QED BY <1>2, <1>3

\* The frontier of a week is the frontiers of its days.
LEMMA FrontOfDays ==
  ASSUME NEW N \in SUBSET Nodes, NEW a \in Aggregates
  PROVE  Front(N, a) = UNION {Front(N, d) : d \in Covers[a]}
<1>1. \A d \in Covers[a] : d \in Days
  BY CoversAssumption
<1>2. ASSUME NEW x \in Front(N, a)
      PROVE  \E d \in Covers[a] : x \in Front(N, d)
  <2>1. PICK d \in Covers[a] : d \in SpanOf(x)
    BY <1>2, PeriodFacts DEF Front
  <2>2. x \in Front(N, d)
    BY <2>1, <1>1, <1>2, PeriodFacts DEF Front
  <2> QED BY <2>2
<1>3. ASSUME NEW d \in Covers[a], NEW x \in Front(N, d)
      PROVE  x \in Front(N, a)
  <2>1. d \in SpanOf(x)
    BY <1>1, <1>3, PeriodFacts DEF Front
  <2> QED BY <2>1, <1>3, PeriodFacts DEF Front
<1> QED BY <1>2, <1>3

\* A change that is owed to a day is owed to its week.
LEMMA OwedAbove ==
  ASSUME NEW a \in Aggregates, NEW d \in Covers[a]
  PROVE  /\ d \in Days
         /\ Owed(d) => Owed(a)
         /\ Owed(d)' => Owed(a)'
<1>1. d \in Days /\ DaysOf(d) = {d} /\ DaysOf(a) = Covers[a]
  BY CoversAssumption, PeriodFacts
<1>2. Owed(d) => Owed(a)
  BY <1>1 DEF Owed
<1>3. Owed(d)' => Owed(a)'
  BY <1>1 DEF Owed, DaysOf
<1> QED BY <1>1, <1>2, <1>3

-----------------------------------------------------------------------------
(* The outbox.                                                                *)

\* The days of an event are days.
LEMMA EventFacts ==
  ASSUME NEW e \in Events
  PROVE  /\ e.from \in Days /\ e.to \in Days /\ e.next \in Days
         /\ e.from \in Int /\ e.to \in Int /\ e.next \in Int
BY NumbersAssumption DEF Events, Days

\* An event that has days left reaches what those days reach.
LEMMA OwedIsTouched ==
  ASSUME TypeInv, NEW p \in Periods, Owed(p)
  PROVE  Touched(p)
<1>1. PICK i \in DOMAIN outbox :
        (outbox[i].next..outbox[i].to) \cap DaysOf(p) # {}
  BY DEF Owed
<1>a. outbox \in Seq(Events)
  BY DEF TypeInv, TypeOK, Events
<1>2. outbox[i] \in Events /\ outbox[i].from <= outbox[i].next
  BY <1>1, <1>a DEF TypeInv, Outbox
<1>3. outbox[i].next..outbox[i].to \subseteq outbox[i].from..outbox[i].to
  BY <1>2, NumbersAssumption DEF Events, Days
<1> QED BY <1>1, <1>3 DEF Touched

\* Adding events keeps what is owed and owes the days of the new ones.
LEMMA MoreEvents ==
  ASSUME TypeInv, NEW more \in Seq(Events), outbox' = outbox \o more,
         \A j \in DOMAIN more : more[j].from = more[j].next /\ more[j].next <= more[j].to
  PROVE  /\ outbox' \in Seq(Events) /\ Outbox'
         /\ \A p \in Periods : Owed(p) => Owed(p)'
         /\ \A p \in Periods : \A j \in DOMAIN more :
              (more[j].next..more[j].to) \cap DaysOf(p) # {} => Owed(p)'
<1>1. outbox \in Seq(Events)
  BY DEF TypeInv, TypeOK, Events
<1>2. /\ outbox' \in Seq(Events)
      /\ DOMAIN outbox' = 1..(Len(outbox) + Len(more))
      /\ \A i \in DOMAIN outbox : i \in DOMAIN outbox' /\ outbox'[i] = outbox[i]
      /\ \A j \in DOMAIN more : /\ Len(outbox) + j \in DOMAIN outbox'
                                /\ outbox'[Len(outbox) + j] = more[j]
      /\ \A i \in DOMAIN outbox' : i \notin DOMAIN outbox =>
              i - Len(outbox) \in DOMAIN more /\ outbox'[i] = more[i - Len(outbox)]
  BY <1>1
<1>3. Outbox'
  <2> SUFFICES ASSUME NEW i \in DOMAIN outbox'
               PROVE  /\ outbox'[i].from <= outbox'[i].next
                      /\ outbox'[i].next <= outbox'[i].to
    BY DEF Outbox
  <2>1. CASE i \in DOMAIN outbox
    BY <2>1, <1>2 DEF TypeInv, Outbox
  <2>2. CASE i \notin DOMAIN outbox
    <3>1. i - Len(outbox) \in DOMAIN more /\ outbox'[i] = more[i - Len(outbox)]
      BY <2>2, <1>2
    <3>2. more[i - Len(outbox)] \in Events
      BY <3>1
    <3>3. more[i - Len(outbox)].from \in Nat
      BY <3>2, NumbersAssumption DEF Events, Days
    <3> QED BY <3>1, <3>3
  <2> QED BY <2>1, <2>2
<1>4. \A p \in Periods : Owed(p) => Owed(p)'
  BY <1>2 DEF Owed, DaysOf
<1>5. \A p \in Periods : \A j \in DOMAIN more :
        (more[j].next..more[j].to) \cap DaysOf(p) # {} => Owed(p)'
  BY <1>2 DEF Owed, DaysOf
<1> QED BY <1>2, <1>3, <1>4, <1>5

\* The days of the events that a drain finishes.
LEMMA DrainedWhole ==
  ASSUME NEW k \in Nat, NEW m \in Nat, NEW i \in Nat, 1 <= i, i <= k,
         NEW d \in outbox[i].next..outbox[i].to
  PROVE  d \in DrainedDays(k, m)
<1> DEFINE whole == {outbox[j].next..outbox[j].to : j \in 1..k}
<1>1. outbox[i].next..outbox[i].to \in whole
  OBVIOUS
<1>2. d \in UNION whole
  BY <1>1, Zenon
<1> QED BY <1>2 DEF DrainedDays

\* A drain forgets no day: what it does not reach is owed still.
LEMMA DrainFacts ==
  ASSUME TypeInv, NEW k \in 0..Len(outbox), NEW m \in 0..LastDay, Drains(k, m)
  PROVE  /\ outbox' \in Seq(Events) /\ Outbox'
         /\ \A p \in Periods : Owed(p) => Owed(p)' \/ p \in Hit(DrainedDays(k, m))
<1> DEFINE rest == SubSeq(outbox, k + 1, Len(outbox))
<1>1. outbox \in Seq(Events) /\ Len(outbox) \in Nat /\ k \in Nat /\ m \in Nat
  BY NumbersAssumption DEF TypeInv, TypeOK, Events
<1>2. \/ k = Len(outbox) /\ m = 0
      \/ k < Len(outbox) /\ m < Left(outbox[k + 1])
  BY DEF Drains, Spends
<1>3. /\ rest \in Seq(Events) /\ Len(rest) = Len(outbox) - k
      /\ \A i \in 1..(Len(outbox) - k) : rest[i] = outbox[k + i]
  <2>1. rest \in Seq(Events)
    BY <1>1
  <2>2. Len(rest) = Len(outbox) - k
    BY <1>1
  <2> QED BY <1>1, <2>1, <2>2
<1> HIDE DEF rest
<1>4. outbox' = IF m = 0 THEN rest ELSE [rest EXCEPT ![1].next = @ + m]
  BY DEF Drains, Drained, rest
<1>5. CASE m = 0
  <2>1. outbox' = rest
    BY <1>4, <1>5
  <2>2. Outbox'
    <3> SUFFICES ASSUME NEW i \in DOMAIN outbox'
                 PROVE  /\ outbox'[i].from <= outbox'[i].next
                        /\ outbox'[i].next <= outbox'[i].to
      BY DEF Outbox
    <3>1. k + i \in DOMAIN outbox /\ outbox'[i] = outbox[k + i]
      BY <1>1, <1>3, <2>1
    <3> QED BY <3>1 DEF TypeInv, Outbox
  <2>3. ASSUME NEW p \in Periods, Owed(p)
        PROVE  Owed(p)' \/ p \in Hit(DrainedDays(k, m))
    <3>1. PICK i \in DOMAIN outbox, d \in DaysOf(p) :
            d \in outbox[i].next..outbox[i].to
      BY <2>3 DEF Owed
    <3>2. CASE i <= k
      <4>1. d \in DrainedDays(k, m)
        BY <3>1, <3>2, <1>1, DrainedWhole
      <4> QED BY <4>1, <3>1 DEF Hit
    <3>3. CASE i > k
      <4>1. i - k \in DOMAIN outbox' /\ outbox'[i - k] = outbox[i]
        BY <3>3, <1>1, <1>3, <2>1
      <4> QED BY <4>1, <3>1 DEF Owed, DaysOf
    <3> QED BY <3>2, <3>3, <1>1
  <2> QED BY <1>3, <2>1, <2>2, <2>3
<1>6. CASE m # 0
  <2>1. k < Len(outbox) /\ m < Left(outbox[k + 1])
    BY <1>2, <1>6
  <2>2. /\ outbox[k + 1] \in Events /\ outbox[k + 1] = rest[1]
        /\ outbox[k + 1].from <= outbox[k + 1].next
        /\ outbox[k + 1].next + m <= outbox[k + 1].to
    <3>1. k + 1 \in DOMAIN outbox
      BY <1>1, <2>1
    <3>2. outbox[k + 1] \in Events /\ outbox[k + 1] = rest[1]
      BY <1>1, <1>3, <2>1, <3>1
    <3>3. outbox[k + 1].from <= outbox[k + 1].next
      BY <3>1 DEF TypeInv, Outbox
    <3>4. m < outbox[k + 1].to - outbox[k + 1].next + 1
      BY <2>1 DEF Left
    <3>5. outbox[k + 1].to \in Int /\ outbox[k + 1].next \in Int
      BY <3>2, EventFacts
    <3>6. outbox[k + 1].next + m <= outbox[k + 1].to
      BY <1>1, <3>4, <3>5
    <3> QED BY <3>2, <3>3, <3>6
  <2>3. outbox' = [rest EXCEPT ![1] = [rest[1] EXCEPT !.next = rest[1].next + m]]
    BY <1>4, <1>6
  <2>4. [rest[1] EXCEPT !.next = rest[1].next + m] \in Events
    <3>1. rest[1].next + m \in Days
      <4>1. rest[1].next \in Days /\ rest[1].to \in Days
        BY <2>2, EventFacts
      <4>2. rest[1].next + m <= rest[1].to
        BY <2>2
      <4> QED BY <1>1, <4>1, <4>2, NumbersAssumption DEF Days
    <3>2. rest[1] \in [from : Days, to : Days, next : Days]
      BY <2>2 DEF Events
    <3> QED BY <3>1, <3>2 DEF Events
  <2>5. /\ outbox' \in Seq(Events) /\ Len(outbox') = Len(rest)
        /\ outbox'[1] = [rest[1] EXCEPT !.next = rest[1].next + m]
        /\ \A i \in DOMAIN outbox' : i # 1 => outbox'[i] = outbox[k + i]
    BY <1>1, <1>3, <2>1, <2>3, <2>4
  <2>6. /\ outbox'[1].next = outbox[k + 1].next + m
        /\ outbox'[1].to = outbox[k + 1].to /\ outbox'[1].from = outbox[k + 1].from
    BY <2>2, <2>5 DEF Events
  <2>7. Outbox'
    <3> SUFFICES ASSUME NEW i \in DOMAIN outbox'
                 PROVE  /\ outbox'[i].from <= outbox'[i].next
                        /\ outbox'[i].next <= outbox'[i].to
      BY DEF Outbox
    <3>1. CASE i = 1
      BY <3>1, <2>2, <2>6, <1>1, NumbersAssumption DEF Events, Days
    <3>2. CASE i # 1
      <4>1. k + i \in DOMAIN outbox
        BY <1>1, <1>3, <2>5
      <4> QED BY <4>1, <3>2, <2>5 DEF TypeInv, Outbox
    <3> QED BY <3>1, <3>2
  <2>8. ASSUME NEW p \in Periods, Owed(p)
        PROVE  Owed(p)' \/ p \in Hit(DrainedDays(k, m))
    <3>1. PICK i \in DOMAIN outbox, d \in DaysOf(p) :
            d \in outbox[i].next..outbox[i].to
      BY <2>8 DEF Owed
    <3>2. CASE i <= k
      <4>1. i \in Nat /\ 1 <= i
        BY <1>1
      <4>2. d \in DrainedDays(k, m)
        BY <3>1, <3>2, <4>1, <1>1, DrainedWhole
      <4> QED BY <4>2, <3>1 DEF Hit
    <3>3. CASE i = k + 1
      <4>1. d \in Nat
        BY <3>1, PeriodFacts, NumbersAssumption DEF Days
      <4>2. CASE d < outbox[k + 1].next + m
        <5>1. d \in outbox[k + 1].next..(outbox[k + 1].next + m - 1)
          <6>1. outbox[k + 1].next \in Int /\ outbox[k + 1].next <= d
            BY <2>2, <3>1, <3>3, EventFacts
          <6> QED BY <1>1, <4>1, <4>2, <6>1
        <5>2. d \in DrainedDays(k, m)
          BY <5>1, <1>6 DEF DrainedDays
        <5> QED BY <5>2, <3>1 DEF Hit
      <4>3. CASE ~(d < outbox[k + 1].next + m)
        <5>1. d \in outbox'[1].next..outbox'[1].to
          <6>1. /\ outbox[k + 1].next \in Int /\ outbox[k + 1].to \in Int
                /\ d <= outbox[k + 1].to
            BY <2>2, <3>1, <3>3, EventFacts
          <6> QED BY <1>1, <2>6, <4>1, <4>3, <6>1
        <5>2. 1 \in DOMAIN outbox'
          BY <1>1, <1>3, <2>1, <2>5
        <5> QED BY <5>1, <5>2, <3>1 DEF Owed, DaysOf
      <4> QED BY <4>2, <4>3
    <3>4. CASE i > k + 1
      <4>1. i - k \in DOMAIN outbox' /\ outbox'[i - k] = outbox[i]
        BY <3>4, <1>1, <1>3, <2>5
      <4> QED BY <4>1, <3>1 DEF Owed, DaysOf
    <3> QED BY <3>2, <3>3, <3>4, <1>1
  <2> QED BY <2>5, <2>7, <2>8
<1> QED BY <1>5, <1>6

-----------------------------------------------------------------------------
(* Type correctness.                                                          *)

\* Rows that turn stale keep the types and lose their leases.
LEMMA StaleType ==
  ASSUME TypeInv, NEW P, status' = Put(status, P, "stale"),
         lease' = Put(lease, P, Nobody)
  PROVE  /\ status' \in [Periods -> {"none", "stale", "building", "ready", "failed"}]
         /\ lease' \in [Periods -> Builders \cup {Nobody, Orphan}]
         /\ \A p \in Periods : status'[p] = "building" <=> lease'[p] # Nobody
BY DEF TypeInv, TypeOK, Put

\* A build that ends leaves the builder between two builds.
LEMMA NextJobType ==
  ASSUME TypeInv, NEW b \in Builders, todo[b] # <<>>, NextJob(b)
  PROVE  /\ todo' \in [Builders -> Seq(Periods)]
         /\ pc' \in [Builders -> Steps]
         /\ \A c \in Builders : pc'[c] # "rest" => todo'[c] # <<>>
         /\ noted' \in [Builders -> SUBSET Days]
         /\ found' \in [Builders -> SUBSET Nodes]
         /\ \A c \in Builders : Placed(c)'
<1>1. Tail(todo[b]) \in Seq(Periods)
  BY DEF TypeInv, TypeOK
<1>2. pc' = [pc EXCEPT ![b] = "rest"] /\ todo' = [todo EXCEPT ![b] = Tail(@)]
  BY DEF NextJob
<1>3. \A c \in Builders : Placed(c)'
  <2> SUFFICES ASSUME NEW c \in Builders PROVE Placed(c)'
    OBVIOUS
  <2>1. CASE c = b
    BY <1>2, <2>1 DEF Placed, TypeInv
  <2>2. CASE c # b
    BY <2>2 DEF Placed, Job, TypeInv, TypeOK, NextJob
  <2> QED BY <2>1, <2>2
<1> QED BY <1>1, <1>3 DEF NextJob, TypeInv, TypeOK, Steps

\* Another builder's place does not depend on what this one does.
LEMMA PlacedElsewhere ==
  ASSUME TypeInv, NEW b \in Builders, NEW c \in Builders, c # b,
         pc'[c] = pc[c], todo'[c] = todo[c], noted'[c] = noted[c]
  PROVE  Placed(c)'
BY DEF TypeInv, Placed, Job

\* The job of a builder that has one is a period.
LEMMA JobType ==
  ASSUME TypeInv, NEW b \in Builders, todo[b] # <<>>
  PROVE  Job(b) \in Periods
BY DEF TypeInv, TypeOK, Job

\* How a build ends without a rollup.
LEMMA SettleType ==
  ASSUME TypeInv, NEW b \in Builders, NEW s \in {"none", "stale", "failed"},
         todo[b] # <<>>, Settle(b, s)
  PROVE  TypeInv'
<1>1. Job(b) \in Periods
  BY JobType
<1>2. /\ status' \in [Periods -> {"none", "stale", "building", "ready", "failed"}]
      /\ lease' \in [Periods -> Builders \cup {Nobody, Orphan}]
      /\ sources' \in [Periods -> SUBSET Nodes]
      /\ \A p \in Periods : status'[p] = "building" <=> lease'[p] # Nobody
  <2>1. CASE Owns(b)
    BY <2>1, <1>1 DEF Settle, TypeInv, TypeOK
  <2>2. CASE ~Owns(b)
    BY <2>2 DEF Settle, TypeInv, TypeOK, rollups
  <2> QED BY <2>1, <2>2
<1>3. NextJob(b) /\ UNCHANGED <<table, outbox, moments>>
  BY DEF Settle
<1>4. Outbox' /\ outbox' \in Seq([from : Days, to : Days, next : Days])
  BY <1>3 DEF TypeInv, TypeOK, Outbox
<1> QED BY <1>2, <1>3, <1>4, NextJobType DEF TypeInv, TypeOK, table

LEMMA TypeStep ==
  ASSUME TypeInv, [Next]_vars
  PROVE  TypeInv'
<1> USE DEF Events
<1>1. ASSUME NEW n \in Nodes, Publish(n)
      PROVE  TypeInv'
  <2> DEFINE more == <<Event(n)>>
  <2>1. Event(n) \in Events
    BY SpansAssumption DEF Event
  <2>2. more \in Seq(Events) /\ outbox' = outbox \o more
    BY <1>1, <2>1 DEF Publish, TypeInv, TypeOK
  <2>3. \A j \in DOMAIN more : more[j].from = more[j].next /\ more[j].next <= more[j].to
    BY SpansAssumption DEF Event
  <2> HIDE DEF more
  <2>4. outbox' \in Seq(Events) /\ Outbox'
    BY <2>2, <2>3, MoreEvents
  <2>5. /\ live' \subseteq Nodes /\ ahead' \subseteq Nodes \ live'
        /\ moments' \subseteq SUBSET Nodes
    BY <1>1 DEF Publish, Watched, TypeInv, TypeOK
  <2>6. UNCHANGED <<rollups, building>>
    BY <1>1 DEF Publish
  <2>7. \A b \in Builders : Placed(b)'
    BY <2>6 DEF TypeInv, Placed, Job, building
  <2> QED BY <2>4, <2>5, <2>6, <2>7 DEF TypeInv, TypeOK, rollups, building
<1>2. ASSUME NEW g \in Batches, Withdraw(g)
      PROVE  TypeInv'
  <2> DEFINE more == [i \in DOMAIN g |-> Event(g[i])]
  <2>1. PICK k \in 1..Cardinality(Nodes) : g \in [1..k -> Nodes]
    BY DEF Batches
  <2>2. Cardinality(Nodes) \in Nat
    BY NumbersAssumption, FS_CardinalityType
  <2>3. \A i \in 1..k : Event(g[i]) \in Events
    BY <2>1, SpansAssumption DEF Event
  <2>4. more \in Seq(Events) /\ outbox' = outbox \o more /\ DOMAIN more = 1..k
    <3>1. k \in Nat /\ DOMAIN g = 1..k
      BY <2>1, <2>2
    <3>2. more \in [1..k -> Events]
      BY <2>3, <3>1
    <3>3. outbox' = outbox \o more
      BY <1>2 DEF Withdraw
    <3> HIDE DEF more
    <3>4. DOMAIN more = 1..k
      BY <3>2
    <3>5. more \in Seq(Events)
      <4>1. Seq(Events) = UNION {[1..n -> Events] : n \in Nat}
        BY SeqDef
      <4> QED BY <3>1, <3>2, <4>1, Zenon
    <3> QED BY <3>3, <3>4, <3>5
  <2>5. \A j \in DOMAIN more : more[j].from = more[j].next /\ more[j].next <= more[j].to
    BY <2>1, SpansAssumption DEF Event
  <2> HIDE DEF more
  <2>6. outbox' \in Seq(Events) /\ Outbox'
    BY <2>4, <2>5, MoreEvents
  <2>7. /\ live' \subseteq Nodes /\ ahead' \subseteq Nodes \ live'
        /\ moments' \subseteq SUBSET Nodes
    BY <1>2 DEF Withdraw, Watched, TypeInv, TypeOK
  <2>8. UNCHANGED <<rollups, building>>
    BY <1>2 DEF Withdraw
  <2>9. \A b \in Builders : Placed(b)'
    BY <2>8 DEF TypeInv, Placed, Job, building
  <2> QED BY <2>6, <2>7, <2>8, <2>9 DEF TypeInv, TypeOK, rollups, building
<1>3. ASSUME Reconcile
      PROVE  TypeInv'
  <2>1. PICK k \in 0..Len(outbox), m \in 0..LastDay :
          /\ Drains(k, m)
          /\ status' = Put(status, Hit(DrainedDays(k, m)), "stale")
          /\ lease' = Put(lease, Hit(DrainedDays(k, m)), Nobody)
    BY <1>3 DEF Reconcile
  <2>2. outbox' \in Seq(Events) /\ Outbox'
    BY <2>1, DrainFacts
  <2>3. UNCHANGED <<table, sources, building, moments>>
    BY <1>3 DEF Reconcile
  <2>4. \A b \in Builders : Placed(b)'
    BY <2>3 DEF TypeInv, Placed, Job, building
  <2> QED BY <2>1, <2>2, <2>3, <2>4, StaleType DEF TypeInv, TypeOK, table, building
<1>4. ASSUME NEW b \in Builders, NEW expired \in SUBSET In("building"),
             NEW due \in SUBSET In("failed"), Pass(b, expired, due)
      PROVE  TypeInv'
  <2>1. PICK k \in 0..Len(outbox), m \in 0..LastDay :
          /\ Drains(k, m)
          /\ status' = Put(status, Hit(DrainedDays(k, m)) \cup expired, "stale")
          /\ lease' = Put(lease, Hit(DrainedDays(k, m)) \cup expired, Nobody)
    BY <1>4 DEF Pass
  <2>2. outbox' \in Seq(Events) /\ Outbox'
    BY <2>1, DrainFacts
  <2>3. PICK jobs \in Passes : todo' = [todo EXCEPT ![b] = jobs]
    BY <1>4 DEF Pass
  <2>4. jobs \in Seq(Periods)
    BY NumbersAssumption DEF Passes
  <2>5. UNCHANGED <<table, sources, pc, noted, found, moments>> /\ todo[b] = <<>>
    BY <1>4 DEF Pass
  <2>6. \A c \in Builders : Placed(c)'
    <3> SUFFICES ASSUME NEW c \in Builders PROVE Placed(c)'
      OBVIOUS
    <3>1. CASE c = b
      BY <2>5, <3>1 DEF Placed, TypeInv, TypeOK
    <3>2. CASE c # b
      BY <2>3, <2>5, <3>2, PlacedElsewhere DEF TypeInv, TypeOK
    <3> QED BY <3>1, <3>2
  <2> QED BY <2>1, <2>2, <2>3, <2>4, <2>5, <2>6, StaleType DEF TypeInv, TypeOK, table
<1>5. ASSUME NEW b \in Builders, NEW targets \in Requests, Rebuild(b, targets)
      PROVE  TypeInv'
  <2> DEFINE jobs == SubSeq(targets, 1, IF Len(targets) < Limit THEN Len(targets) ELSE Limit)
  <2>1. targets \in Seq(Periods)
    BY CoversAssumption
  <2>2. jobs \in Seq(Periods)
    BY <2>1, NumbersAssumption
  <2>3. PICK P : status' = Put(status, P, "stale") /\ lease' = Put(lease, P, Nobody)
    BY <1>5 DEF Rebuild
  <2>4. /\ todo' = [todo EXCEPT ![b] = jobs] /\ todo[b] = <<>>
        /\ UNCHANGED <<table, outbox, sources, pc, noted, found, moments>>
    BY <1>5 DEF Rebuild
  <2>5. /\ status' \in [Periods -> {"none", "stale", "building", "ready", "failed"}]
        /\ lease' \in [Periods -> Builders \cup {Nobody, Orphan}]
        /\ \A p \in Periods : status'[p] = "building" <=> lease'[p] # Nobody
    BY <2>3, StaleType
  <2>6. \A c \in Builders : Placed(c)'
    <3> SUFFICES ASSUME NEW c \in Builders PROVE Placed(c)'
      OBVIOUS
    <3>1. CASE c = b
      BY <2>4, <3>1 DEF Placed, TypeInv, TypeOK
    <3>2. CASE c # b
      BY <2>4, <3>2, PlacedElsewhere DEF TypeInv, TypeOK
    <3> QED BY <3>1, <3>2
  <2>7. Outbox'
    BY <2>4 DEF TypeInv, Outbox
  <2> HIDE DEF jobs
  <2> QED BY <2>2, <2>4, <2>5, <2>6, <2>7 DEF TypeInv, TypeOK, table
<1>6. ASSUME NEW b \in Builders, Claim(b)
      PROVE  TypeInv'
  <2>1. PICK k \in 0..Len(outbox), m \in 0..LastDay :
          /\ Drains(k, m)
          /\ status' = [Put(status, Hit(DrainedDays(k, m)), "stale")
                          EXCEPT ![Job(b)] = "building"]
          /\ lease' = [Put(lease, Hit(DrainedDays(k, m)), Nobody)
                         EXCEPT ![Job(b)] = b]
    BY <1>6 DEF Claim
  <2>2. outbox' \in Seq(Events) /\ Outbox'
    BY <2>1, DrainFacts
  <2>3. /\ todo[b] # <<>> /\ Goto(b, IF Job(b) \in Days THEN "read" ELSE "statuses")
        /\ UNCHANGED <<table, sources, todo, noted, found, moments>>
        /\ pc[b] = "rest"
    BY <1>6 DEF Claim
  <2>4. Job(b) \in Periods
    BY <2>3, JobType
  <2>5. /\ status' \in [Periods -> {"none", "stale", "building", "ready", "failed"}]
        /\ lease' \in [Periods -> Builders \cup {Nobody, Orphan}]
        /\ \A p \in Periods : status'[p] = "building" <=> lease'[p] # Nobody
    BY <2>1, <2>4, NamesAssumption DEF TypeInv, TypeOK, Put
  <2>6. pc' \in [Builders -> Steps] /\ \A c \in Builders : pc'[c] # "rest" => todo'[c] # <<>>
    BY <2>3 DEF Goto, TypeInv, TypeOK, Steps
  <2>7. \A c \in Builders : Placed(c)'
    <3> SUFFICES ASSUME NEW c \in Builders PROVE Placed(c)'
      OBVIOUS
    <3>1. CASE c = b
      <4>1. Job(b)' = Job(b) /\ pc'[b] = IF Job(b) \in Days THEN "read" ELSE "statuses"
        BY <2>3 DEF Goto, TypeInv, Job
      <4>2. Job(b) \notin Days => Job(b) \in Aggregates
        BY <2>4 DEF Periods
      <4> QED BY <3>1, <4>1, <4>2 DEF Placed
    <3>2. CASE c # b
      BY <2>3, <3>2, PlacedElsewhere DEF Goto, TypeInv
    <3> QED BY <3>1, <3>2
  <2> QED BY <2>2, <2>3, <2>5, <2>6, <2>7 DEF TypeInv, TypeOK, table
<1>7. ASSUME NEW b \in Builders, Read(b)
      PROVE  TypeInv'
  <2>1. /\ found' = [found EXCEPT ![b] = Front(live, Job(b))] /\ pc[b] = "read"
        /\ pc' = [pc EXCEPT ![b] = IF found'[b] = {} THEN "resolve" ELSE "write"]
        /\ UNCHANGED <<table, outbox, rollups, todo, noted, moments>>
    BY <1>7 DEF Read, Goto
  <2>2. found' \in [Builders -> SUBSET Nodes]
    BY <2>1 DEF TypeInv, TypeOK, Front
  <2>3. pc' \in [Builders -> Steps] /\ \A c \in Builders : pc'[c] # "rest" => todo'[c] # <<>>
    BY <2>1 DEF TypeInv, TypeOK, Steps
  <2>4. \A c \in Builders : Placed(c)'
    BY <2>1 DEF Placed, Job, TypeInv
  <2>5. Outbox'
    BY <2>1 DEF TypeInv, Outbox
  <2> QED BY <2>1, <2>2, <2>3, <2>4, <2>5 DEF TypeInv, TypeOK, table, rollups
<1>8. ASSUME NEW b \in Builders, Statuses(b)
      PROVE  TypeInv'
  <2>1. /\ noted' = [noted EXCEPT ![b] = {d \in Covers[Job(b)] : status[d] = "ready"}]
        /\ pc[b] = "statuses" /\ pc' = [pc EXCEPT ![b] = "content"]
        /\ UNCHANGED <<table, outbox, rollups, todo, found, moments>>
    BY <1>8 DEF Statuses, Goto
  <2>2. Job(b) \in Aggregates
    BY <2>1 DEF TypeInv, Placed
  <2>3. noted' \in [Builders -> SUBSET Days]
    BY <2>1, <2>2, CoversAssumption DEF TypeInv, TypeOK
  <2>4. pc' \in [Builders -> Steps] /\ \A c \in Builders : pc'[c] # "rest" => todo'[c] # <<>>
    BY <2>1 DEF TypeInv, TypeOK, Steps
  <2>5. \A c \in Builders : Placed(c)'
    <3> SUFFICES ASSUME NEW c \in Builders PROVE Placed(c)'
      OBVIOUS
    <3>1. CASE c = b
      BY <2>1, <2>2, <3>1 DEF Placed, Job, TypeInv, TypeOK
    <3>2. CASE c # b
      BY <2>1, <3>2, PlacedElsewhere DEF TypeInv, TypeOK
    <3> QED BY <3>1, <3>2
  <2>6. Outbox'
    BY <2>1 DEF TypeInv, Outbox
  <2> QED BY <2>1, <2>3, <2>4, <2>5, <2>6 DEF TypeInv, TypeOK, table, rollups
<1>9. ASSUME NEW b \in Builders, Content(b)
      PROVE  TypeInv'
  <2>1. PICK l \in {"defer", "resolve", "collect"} : pc' = [pc EXCEPT ![b] = l]
    BY <1>9 DEF Content, Goto
  <2>2. pc[b] = "content" /\ UNCHANGED <<table, outbox, rollups, todo, noted, found, moments>>
    BY <1>9 DEF Content
  <2>3. pc' \in [Builders -> Steps] /\ \A c \in Builders : pc'[c] # "rest" => todo'[c] # <<>>
    BY <2>1, <2>2 DEF TypeInv, TypeOK, Steps
  <2>4. \A c \in Builders : Placed(c)'
    BY <2>1, <2>2 DEF Placed, Job, TypeInv
  <2>5. Outbox'
    BY <2>2 DEF TypeInv, Outbox
  <2> QED BY <2>2, <2>3, <2>4, <2>5 DEF TypeInv, TypeOK, table, rollups
<1>10. ASSUME NEW b \in Builders, Collect(b)
       PROVE  TypeInv'
  <2>1. /\ found' = [found EXCEPT ![b] = UNION {sources[d] : d \in noted[b]}]
        /\ pc[b] = "collect" /\ pc' = [pc EXCEPT ![b] = "canon"]
        /\ UNCHANGED <<table, outbox, rollups, todo, noted, moments>>
    BY <1>10 DEF Collect, Goto
  <2>2. \A d \in noted[b] : sources[d] \subseteq Nodes
    BY DEF TypeInv, TypeOK, Periods
  <2>3. UNION {sources[d] : d \in noted[b]} \subseteq Nodes
    BY <2>2
  <2>4. found' \in [Builders -> SUBSET Nodes]
    BY <2>1, <2>3 DEF TypeInv, TypeOK
  <2>5. pc' \in [Builders -> Steps] /\ \A c \in Builders : pc'[c] # "rest" => todo'[c] # <<>>
    BY <2>1 DEF TypeInv, TypeOK, Steps
  <2>6. \A c \in Builders : Placed(c)'
    BY <2>1 DEF Placed, Job, TypeInv
  <2>7. Outbox'
    BY <2>1 DEF TypeInv, Outbox
  <2> QED BY <2>1, <2>4, <2>5, <2>6, <2>7 DEF TypeInv, TypeOK, table, rollups
<1>11. ASSUME NEW b \in Builders, Canon(b)
       PROVE  TypeInv'
  <2>1. PICK N \in SUBSET live : found' = [found EXCEPT ![b] = N]
    BY <1>11 DEF Canon
  <2>2. PICK l \in {"defer", "write"} : pc' = [pc EXCEPT ![b] = l]
    BY <1>11 DEF Canon, Goto
  <2>3. pc[b] = "canon" /\ UNCHANGED <<table, outbox, rollups, todo, noted, moments>>
    BY <1>11 DEF Canon
  <2>4. found' \in [Builders -> SUBSET Nodes]
    BY <2>1 DEF TypeInv, TypeOK
  <2>5. pc' \in [Builders -> Steps] /\ \A c \in Builders : pc'[c] # "rest" => todo'[c] # <<>>
    BY <2>2, <2>3 DEF TypeInv, TypeOK, Steps
  <2>6. \A c \in Builders : Placed(c)'
    BY <2>2, <2>3 DEF Placed, Job, TypeInv
  <2>7. Outbox'
    BY <2>3 DEF TypeInv, Outbox
  <2> QED BY <2>3, <2>4, <2>5, <2>6, <2>7 DEF TypeInv, TypeOK, table, rollups
<1>12. ASSUME NEW b \in Builders, Resolve(b) \/ Defer(b) \/ Fail(b) \/ Refuse(b)
       PROVE  TypeInv'
  <2>1. PICK s \in {"none", "stale", "failed"} : Settle(b, s)
    BY <1>12 DEF Resolve, Defer, Fail, Refuse
  <2>2. todo[b] # <<>>
    BY <1>12 DEF Resolve, Defer, Fail, Refuse, TypeInv, TypeOK
  <2> QED BY <2>1, <2>2, SettleType
<1>13. ASSUME NEW b \in Builders, MarkReady(b)
       PROVE  TypeInv'
  <2>1. todo[b] # <<>> /\ pc[b] = "write"
    BY <1>13 DEF MarkReady, TypeInv, TypeOK
  <2>2. Job(b) \in Periods
    BY <2>1, JobType
  <2>3. /\ status' = [status EXCEPT ![Job(b)] = "ready"]
        /\ lease' = [lease EXCEPT ![Job(b)] = Nobody]
        /\ sources' = [sources EXCEPT ![Job(b)] = found[b]]
        /\ UNCHANGED <<table, outbox, moments>>
    BY <1>13 DEF MarkReady
  <2>4. /\ status' \in [Periods -> {"none", "stale", "building", "ready", "failed"}]
        /\ lease' \in [Periods -> Builders \cup {Nobody, Orphan}]
        /\ sources' \in [Periods -> SUBSET Nodes]
        /\ \A p \in Periods : status'[p] = "building" <=> lease'[p] # Nobody
    BY <2>2, <2>3 DEF TypeInv, TypeOK
  <2>5. Outbox'
    BY <2>3 DEF TypeInv, Outbox
  <2>6. CASE Job(b) \in Days
    <3>1. pc' = [pc EXCEPT ![b] = "spread"] /\ UNCHANGED <<todo, noted, found>>
      BY <1>13, <2>6 DEF MarkReady, Goto
    <3>2. pc' \in [Builders -> Steps] /\ \A c \in Builders : pc'[c] # "rest" => todo'[c] # <<>>
      BY <2>1, <3>1 DEF TypeInv, TypeOK, Steps
    <3>3. \A c \in Builders : Placed(c)'
      BY <2>1, <3>1 DEF Placed, Job, TypeInv
    <3> QED BY <2>3, <2>4, <2>5, <3>1, <3>2, <3>3 DEF TypeInv, TypeOK, table
  <2>7. CASE Job(b) \notin Days
    <3>1. NextJob(b)
      BY <1>13, <2>7 DEF MarkReady
    <3> QED BY <2>1, <2>3, <2>4, <2>5, <3>1, NextJobType DEF TypeInv, TypeOK, table
  <2> QED BY <2>6, <2>7
<1>14. ASSUME NEW b \in Builders, Spread(b)
       PROVE  TypeInv'
  <2>1. /\ status' = Put(status, Above(Job(b)), "stale")
        /\ lease' = Put(lease, Above(Job(b)), Nobody)
        /\ NextJob(b) /\ UNCHANGED <<table, outbox, sources, moments>>
    BY <1>14 DEF Spread
  <2>2. todo[b] # <<>>
    BY <1>14 DEF Spread, TypeInv, TypeOK
  <2>3. Outbox'
    BY <2>1 DEF TypeInv, Outbox
  <2> QED BY <2>1, <2>2, <2>3, StaleType, NextJobType DEF TypeInv, TypeOK, table
<1>15. ASSUME NEW b \in Builders, Crash(b)
       PROVE  TypeInv'
  <2>1. /\ lease' = Put(lease, {p \in Periods : lease[p] = b}, Orphan)
        /\ todo' = [todo EXCEPT ![b] = <<>>]
        /\ pc' = [pc EXCEPT ![b] = "rest"]
        /\ noted' = [noted EXCEPT ![b] = {}]
        /\ found' = [found EXCEPT ![b] = {}]
        /\ UNCHANGED <<table, outbox, status, sources, moments>>
    BY <1>15 DEF Crash
  <2>2. /\ lease' \in [Periods -> Builders \cup {Nobody, Orphan}]
        /\ \A p \in Periods : status'[p] = "building" <=> lease'[p] # Nobody
    BY <2>1, NamesAssumption DEF TypeInv, TypeOK, Put
  <2>3. /\ todo' \in [Builders -> Seq(Periods)] /\ pc' \in [Builders -> Steps]
        /\ \A c \in Builders : pc'[c] # "rest" => todo'[c] # <<>>
        /\ noted' \in [Builders -> SUBSET Days] /\ found' \in [Builders -> SUBSET Nodes]
    BY <2>1 DEF TypeInv, TypeOK, Steps
  <2>4. \A c \in Builders : Placed(c)'
    BY <2>1 DEF Placed, Job, TypeInv, TypeOK
  <2>5. Outbox'
    BY <2>1 DEF TypeInv, Outbox
  <2> QED BY <2>1, <2>2, <2>3, <2>4, <2>5 DEF TypeInv, TypeOK, table
<1>16. ASSUME Ask \/ Fetch
       PROVE  TypeInv'
  <2>1. moments' \subseteq SUBSET Nodes /\ UNCHANGED <<table, outbox, rollups, building>>
    BY <1>16 DEF Ask, Fetch, TypeInv, TypeOK
  <2>2. Outbox' /\ \A c \in Builders : Placed(c)'
    BY <2>1 DEF TypeInv, Outbox, Placed, Job, building
  <2> QED BY <2>1, <2>2 DEF TypeInv, TypeOK, table, rollups, building
<1>17. ASSUME UNCHANGED vars
       PROVE  TypeInv'
  <2>1. Outbox' /\ \A c \in Builders : Placed(c)'
    BY <1>17 DEF vars, TypeInv, Outbox, Placed, Job, building
  <2> QED BY <1>17, <2>1 DEF TypeInv, TypeOK, vars, table, rollups, building
<1> QED BY <1>1, <1>2, <1>3, <1>4, <1>5, <1>6, <1>7, <1>8, <1>9, <1>10, <1>11,
           <1>12, <1>13, <1>14, <1>15, <1>16, <1>17 DEF Next, Build

LEMMA TypeInit == Init => TypeInv
<1> SUFFICES ASSUME Init PROVE TypeInv
  OBVIOUS
<1>1. Outbox /\ \A b \in Builders : Placed(b)
  BY DEF Init, Outbox, Placed
<1> QED BY <1>1, NamesAssumption, NumbersAssumption
        DEF Init, TypeInv, TypeOK, Steps

\* In every run the rows and the builders have their types, and a row carries a
\* nonce exactly while it is being built (upsert_building, mark_ready and the
\* other transitions of rollup_store.py).
THEOREM RollupTypes == Spec => []TypeOK
<1>1. TypeInv /\ [Next]_vars => TypeInv'
  BY TypeStep
<1>2. TypeInv => TypeOK
  BY DEF TypeInv
<1> QED BY <1>1, <1>2, TypeInit, PTL DEF Spec

-----------------------------------------------------------------------------
(* Safety.                                                                    *)

\* Rows that do not become ready or vanish stay right.
LEMMA RowsKept ==
  ASSUME TypeInv, Current, UNCHANGED <<live, moments>>,
         \A p \in Periods :
            status'[p] \in {"ready", "none"} =>
                /\ status'[p] = status[p]
                /\ status[p] = "ready" => sources'[p] = sources[p]
                /\ Owed(p) => Owed(p)'
  PROVE  ReadyIsCurrent' /\ NothingForgotten' /\ Reading'
<1>1. ReadyIsCurrent'
  BY DEF Current, ReadyIsCurrent, Front, DaysOf, SpanOf
<1>2. NothingForgotten'
  BY DEF Current, NothingForgotten, Front, DaysOf, SpanOf
<1>3. Reading'
  BY DEF Current, Reading, In, Front, DaysOf, SpanOf
<1> QED BY <1>1, <1>2, <1>3

\* What the invariant says of one builder.
Sound(c) ==
    /\ \A p \in Periods :
          lease[p] = c => todo[c] # <<>> /\ Job(c) = p /\ pc[c] \notin {"rest", "spread"}
    /\ pc[c] # "rest" /\ Owns(c) /\ ~Owed(Job(c)) => Informed(c)

\* A builder stays informed while the nodes stay and no lease is given to it.
LEMMA BuilderKept ==
  ASSUME TypeInv, Current, NEW c \in Builders,
         live' = live, pc'[c] = pc[c], todo'[c] = todo[c],
         noted'[c] = noted[c], found'[c] = found[c],
         \A p \in Periods : lease'[p] = c => lease[p] = c /\ (Owed(p) => Owed(p)'),
         \A d \in Days : sources'[d] = sources[d] \/ Owed(d)'
                            \/ sources'[d] = Front(live, d)
  PROVE  Sound(c)'
<1>0. \A p \in Periods : lease'[p] = c =>
          todo'[c] # <<>> /\ Job(c)' = p /\ pc'[c] \notin {"rest", "spread"}
  BY DEF Current, Leases, Job
<1> SUFFICES ASSUME pc'[c] # "rest", Owns(c)', ~Owed(Job(c))'
             PROVE  Informed(c)'
  BY <1>0 DEF Sound
<1>1. Job(c)' = Job(c) /\ Job(c) \in Periods
  BY JobType DEF Job, TypeInv, TypeOK
<1>2. Informed(c)
  <2>1. Owns(c) /\ (Owed(Job(c)) => Owed(Job(c))')
    BY <1>1 DEF Owns, Owed, DaysOf
  <2> QED BY <2>1 DEF Current, Building
<1>3. ASSUME pc[c] \in {"content", "collect"}, NEW d \in noted[c]
      PROVE  sources'[d] = Front(live, d)
  <2>1. Job(c) \in Aggregates /\ d \in Covers[Job(c)]
    BY <1>3 DEF TypeInv, Placed
  <2>2. d \in Days /\ ~Owed(d)'
    BY <1>1, <2>1, OwedAbove DEF Owed, DaysOf
  <2> QED BY <1>2, <1>3, <2>2 DEF Informed
<1>4. /\ pc[c] = "resolve" => Front(live, Job(c)) = {}
      /\ pc[c] \in {"canon", "write"} => found[c] = Front(live, Job(c))
      /\ pc[c] = "collect" =>
          \A d \in Covers[Job(c)] \ noted[c] : Front(live, d) = {}
  BY <1>2 DEF Informed
<1>5. /\ Front(live, Job(c))' = Front(live, Job(c))
      /\ \A d : Front(live, d)' = Front(live, d)
  BY <1>1 DEF Front, DaysOf, SpanOf
<1>6. /\ pc'[c] = "resolve" => Front(live, Job(c))' = {}
      /\ pc'[c] \in {"canon", "write"} => found'[c] = Front(live, Job(c))'
      /\ pc'[c] = "collect" =>
          \A d \in Covers[Job(c)'] \ noted'[c] : Front(live, d)' = {}
      /\ pc'[c] \in {"content", "collect"} =>
          \A d \in noted'[c] : sources'[d] = Front(live, d)'
  BY <1>1, <1>3, <1>4, <1>5
<1> QED BY <1>6 DEF Informed

\* The invariant, builder by builder.
LEMMA AllSound ==
  ASSUME \A c \in Builders : Sound(c)', ReadyIsCurrent', NothingForgotten', Reading'
  PROVE  Current'
BY DEF Current, Leases, Building, Sound

\* What is owed only depends on the outbox.
LEMMA OwedKept ==
  ASSUME outbox' = outbox, NEW p
  PROVE  Owed(p)' <=> Owed(p)
BY DEF Owed, DaysOf

\* Nodes come and go; the event of each reaches what it meets.
LEMMA NodesChange ==
  ASSUME TypeInv, Current, live' \in SUBSET Nodes,
         UNCHANGED <<rollups, building>>, Watched(live'),
         \A p \in Periods : ~Owed(p)' =>
            /\ ~Owed(p)
            /\ \A n \in (live' \ live) \cup (live \ live') : SpanOf(n) \cap DaysOf(p) = {}
  PROVE  Current'
<1>1. live \in SUBSET Nodes
  BY DEF TypeInv, TypeOK
<1>2. \A p \in Periods : ~Owed(p)' => ~Owed(p) /\ Front(live', p) = Front(live, p)
  BY <1>1, FrontLocal
<1>3. \A p : Front(live, p)' = Front(live', p)
  BY DEF Front, DaysOf, SpanOf
<1>4. UNCHANGED <<status, lease, sources, todo, pc, noted, found>>
  BY DEF rollups, building
<1>5. Leases'
  BY <1>4 DEF Current, Leases, Job
<1>6. Building'
  <2> SUFFICES ASSUME NEW c \in Builders, pc'[c] # "rest", Owns(c)', ~Owed(Job(c))'
               PROVE  Informed(c)'
    BY DEF Building
  <2>1. Job(c)' = Job(c) /\ Job(c) \in Periods /\ Owns(c) /\ pc[c] # "rest"
    BY <1>4, JobType DEF Job, TypeInv, TypeOK, Owns
  <2>2. ~Owed(Job(c)) /\ Front(live', Job(c)) = Front(live, Job(c))
    BY <1>2, <2>1 DEF Owed, DaysOf
  <2>3. Informed(c)
    BY <2>1, <2>2 DEF Current, Building
  <2>4. ASSUME pc[c] \in {"content", "collect"}, NEW d \in Covers[Job(c)]
        PROVE  Front(live', d) = Front(live, d)
    <3>1. Job(c) \in Aggregates
      BY <2>4 DEF TypeInv, Placed
    <3>2. d \in Days /\ ~Owed(d)'
      BY <2>1, <3>1, OwedAbove DEF Owed, DaysOf
    <3> QED BY <1>2, <3>2, PeriodFacts
  <2>5. pc[c] \in {"content", "collect"} => noted[c] \subseteq Covers[Job(c)]
    BY DEF TypeInv, Placed
  <2>6. /\ pc[c] = "resolve" => Front(live', Job(c)) = {}
        /\ pc[c] \in {"canon", "write"} => found[c] = Front(live', Job(c))
        /\ pc[c] \in {"content", "collect"} =>
              \A d \in noted[c] : sources[d] = Front(live', d)
        /\ pc[c] = "collect" =>
              \A d \in Covers[Job(c)] \ noted[c] : Front(live', d) = {}
    BY <2>2, <2>3, <2>4, <2>5 DEF Informed
  <2> QED BY <1>3, <1>4, <2>1, <2>6 DEF Informed
<1>7. ReadyIsCurrent'
  BY <1>2, <1>3, <1>4 DEF Current, ReadyIsCurrent
<1>8. NothingForgotten'
  BY <1>2, <1>3, <1>4 DEF Current, NothingForgotten
<1>9. Reading'
  <2>1. \A N, p : Front(N, p)' = Front(N, p)
    OBVIOUS
  <2>2. CASE moments = {}
    BY <2>2 DEF Watched, Reading
  <2>3. CASE moments # {}
    <3>1. moments' = moments \cup {live'}
      BY <2>3 DEF Watched
    <3>2. \A p \in In("ready") : \E N \in moments : sources[p] = Front(N, p)
      BY <2>3 DEF Current, Reading
    <3>3. In("ready")' = In("ready")
      BY <1>4 DEF In
    <3> QED BY <1>4, <3>1, <3>2, <3>3 DEF Reading, Front, DaysOf, SpanOf
  <2> QED BY <2>2, <2>3
<1> QED BY <1>5, <1>6, <1>7, <1>8, <1>9 DEF Current

\* Rows that turn stale leave everything right, if all that is drained is among
\* them.
LEMMA StaleKeeps ==
  ASSUME TypeInv, Current, NEW P,
         status' = Put(status, P, "stale"), lease' = Put(lease, P, Nobody),
         UNCHANGED <<live, sources, moments>>,
         \A p \in Periods : Owed(p) => Owed(p)' \/ p \in P
  PROVE  /\ ReadyIsCurrent' /\ NothingForgotten' /\ Reading'
         /\ \A p \in Periods, c \in Builders :
               lease'[p] = c => lease[p] = c /\ (Owed(p) => Owed(p)')
<1>1. \A p \in Periods : status'[p] = IF p \in P THEN "stale" ELSE status[p]
  BY DEF Put, TypeInv, TypeOK
<1>2. \A p \in Periods : lease'[p] = IF p \in P THEN Nobody ELSE lease[p]
  BY DEF Put, TypeInv, TypeOK
<1>3. ReadyIsCurrent' /\ NothingForgotten' /\ Reading'
  BY <1>1, RowsKept
<1> QED BY <1>2, <1>3, NamesAssumption

\* A build that ends without a rollup leaves everything right; only one that saw
\* no content clears its row.
LEMMA SettleKeeps ==
  ASSUME TypeInv, Current, NEW b \in Builders, NEW s \in {"none", "stale", "failed"},
         todo[b] # <<>>, Settle(b, s),
         s = "none" /\ Owns(b) /\ ~Owed(Job(b)) => Front(live, Job(b)) = {}
  PROVE  Current'
<1>1. Job(b) \in Periods
  BY JobType
<1>2. UNCHANGED <<live, outbox, moments>> /\ NextJob(b)
  BY DEF Settle, table
<1>3. \A p : Owed(p)' <=> Owed(p)
  BY <1>2, OwedKept
<1>4. ASSUME NEW c \in Builders, c # b
      PROVE  Sound(c)'
  <2>1. /\ pc'[c] = pc[c] /\ todo'[c] = todo[c]
        /\ noted'[c] = noted[c] /\ found'[c] = found[c]
    BY <1>2, <1>4 DEF NextJob, TypeInv, TypeOK
  <2>2. \A p \in Periods : lease'[p] = c => lease[p] = c
    BY <1>1, NamesAssumption DEF Settle, TypeInv, TypeOK, rollups
  <2>3. \A d \in Days : sources'[d] = sources[d] \/ Owed(d)'
                          \/ sources'[d] = Front(live, d)
    <3>1. CASE Owns(b) /\ s = "none"
      <4>1. sources' = [sources EXCEPT ![Job(b)] = {}]
        BY <3>1 DEF Settle
      <4> QED BY <1>1, <1>3, <3>1, <4>1 DEF TypeInv, TypeOK
    <3>2. CASE ~(Owns(b) /\ s = "none")
      BY <3>2 DEF Settle, rollups
    <3> QED BY <3>1, <3>2
  <2> QED BY <1>2, <1>3, <2>1, <2>2, <2>3, BuilderKept
<1>5. Sound(b)'
  <2>1. ASSUME NEW p \in Periods, lease'[p] = b
        PROVE  FALSE
    <3>1. lease[p] = b /\ (Owns(b) => p # Job(b))
      BY <1>1, <2>1, NamesAssumption DEF Settle, Owns, TypeInv, TypeOK, rollups
    <3> QED BY <3>1 DEF Current, Leases, Owns
  <2> QED BY <1>2, <2>1 DEF Sound, NextJob, TypeInv
<1>6. ReadyIsCurrent' /\ Reading'
  <2>1. \A p \in Periods : status'[p] = "ready" =>
            status[p] = "ready" /\ sources'[p] = sources[p]
    BY <1>1 DEF Settle, Owns, TypeInv, TypeOK, rollups
  <2> QED BY <1>2, <1>3, <2>1
          DEF Current, ReadyIsCurrent, Reading, In, Front, DaysOf, SpanOf
<1>7. NothingForgotten'
  <2>1. \A p \in Periods : status'[p] = "none" =>
            \/ status[p] = "none"
            \/ p = Job(b) /\ s = "none" /\ Owns(b)
    BY <1>1 DEF Settle, Owns, TypeInv, TypeOK, rollups
  <2> QED BY <1>2, <1>3, <2>1 DEF Current, NothingForgotten, Front, DaysOf, SpanOf
<1> QED BY <1>4, <1>5, <1>6, <1>7, AllSound

\* A read of a build.
LEMMA LookKeeps ==
  ASSUME TypeInv, Current, NEW b \in Builders,
         UNCHANGED <<live, outbox, status, lease, sources, todo, moments>>,
         \A c \in Builders \ {b} :
            pc'[c] = pc[c] /\ noted'[c] = noted[c] /\ found'[c] = found[c],
         pc[b] # "rest", pc'[b] \notin {"rest", "spread"},
         Owns(b) /\ ~Owed(Job(b)) => Informed(b)'
  PROVE  Current'
<1>1. \A p : Owed(p)' <=> Owed(p)
  BY OwedKept
<1>2. ReadyIsCurrent' /\ NothingForgotten' /\ Reading'
  BY <1>1, RowsKept
<1>3. ASSUME NEW c \in Builders, c # b
      PROVE  Sound(c)'
  BY <1>1, <1>3, BuilderKept
<1>4. Sound(b)'
  <2>1. Job(b)' = Job(b) /\ (Owns(b)' <=> Owns(b)) /\ (Owed(Job(b))' <=> Owed(Job(b)))
    BY DEF Job, Owns, Owed, DaysOf
  <2>2. \A p \in Periods : lease'[p] = b => todo'[b] # <<>> /\ Job(b)' = p
    BY <2>1 DEF Current, Leases
  <2> QED BY <2>1, <2>2 DEF Sound
<1> QED BY <1>2, <1>3, <1>4, AllSound

LEMMA CurrentStep ==
  ASSUME TypeInv, TypeInv', Current, [Next]_vars
  PROVE  Current'
<1>1. ASSUME NEW n \in Nodes, Publish(n)
      PROVE  Current'
  <2> DEFINE more == <<Event(n)>>
  <2>1. Event(n) \in Events /\ Event(n).from = From[n] /\ Event(n).next = From[n]
        /\ Event(n).to = To[n]
    BY SpansAssumption DEF Event, Events
  <2>2. /\ more \in Seq(Events) /\ outbox' = outbox \o more
        /\ \A j \in DOMAIN more : more[j].from = more[j].next /\ more[j].next <= more[j].to
        /\ 1 \in DOMAIN more /\ more[1] = Event(n)
    <3>1. /\ more \in Seq(Events) /\ DOMAIN more = {1} /\ more[1] = Event(n)
      BY <2>1
    <3>2. outbox' = outbox \o more
      BY <1>1, <2>1 DEF Publish, TypeInv, TypeOK
    <3>3. From[n] <= To[n]
      BY SpansAssumption
    <3> QED BY <2>1, <3>1, <3>2, <3>3
  <2> HIDE DEF more
  <2>3. \A p \in Periods : /\ Owed(p) => Owed(p)'
                           /\ SpanOf(n) \cap DaysOf(p) # {} => Owed(p)'
    BY <2>1, <2>2, MoreEvents DEF SpanOf
  <2>4. ASSUME NEW p \in Periods, ~Owed(p)', NEW x \in (live' \ live) \cup (live \ live')
        PROVE  SpanOf(x) \cap DaysOf(p) = {}
    <3>1. x \in Under[n] \/ x = n
      BY <1>1, <2>4 DEF Publish
    <3> QED BY <2>3, <2>4, <3>1, SpansAssumption
  <2>5. live' \in SUBSET Nodes /\ Watched(live') /\ UNCHANGED <<rollups, building>>
    BY <1>1 DEF Publish, TypeInv, TypeOK
  <2> QED BY <2>3, <2>4, <2>5, NodesChange
<1>2. ASSUME NEW g \in Batches, Withdraw(g)
      PROVE  Current'
  <2> DEFINE more == [i \in DOMAIN g |-> Event(g[i])]
  <2>1. PICK k \in 1..Cardinality(Nodes) : g \in [1..k -> Nodes]
    BY DEF Batches
  <2>2. Cardinality(Nodes) \in Nat
    BY NumbersAssumption, FS_CardinalityType
  <2>3. k \in Nat /\ DOMAIN g = 1..k
    BY <2>1, <2>2
  <2>4. \A i \in 1..k : /\ g[i] \in Nodes /\ Event(g[i]) \in Events
                        /\ Event(g[i]).from = From[g[i]] /\ Event(g[i]).next = From[g[i]]
                        /\ Event(g[i]).to = To[g[i]]
    BY <2>1, SpansAssumption DEF Event, Events
  <2>5. more \in [1..k -> Events] /\ \A i \in 1..k : more[i] = Event(g[i])
    BY <2>3, <2>4
  <2>6. outbox' = outbox \o more
    BY <1>2 DEF Withdraw
  <2> HIDE DEF more
  <2>7. more \in Seq(Events) /\ DOMAIN more = 1..k
    <3>1. Seq(Events) = UNION {[1..n -> Events] : n \in Nat}
      BY SeqDef
    <3> QED BY <2>3, <2>5, <3>1, Zenon
  <2>8. \A j \in DOMAIN more : more[j].from = more[j].next /\ more[j].next <= more[j].to
    BY <2>4, <2>5, <2>7, SpansAssumption
  <2>9. \A p \in Periods : Owed(p) => Owed(p)'
    BY <2>6, <2>7, <2>8, MoreEvents
  <2>10. \A p \in Periods : \A j \in 1..k : SpanOf(g[j]) \cap DaysOf(p) # {} => Owed(p)'
    <3>1. \A p \in Periods : \A j \in DOMAIN more :
            (more[j].next..more[j].to) \cap DaysOf(p) # {} => Owed(p)'
      BY <2>6, <2>7, <2>8, MoreEvents
    <3> QED BY <2>4, <2>5, <2>7, <3>1 DEF SpanOf
  <2>11. ASSUME NEW p \in Periods, ~Owed(p)', NEW x \in (live' \ live) \cup (live \ live')
         PROVE  SpanOf(x) \cap DaysOf(p) = {}
    <3>1. PICK j \in 1..k : x = g[j]
      BY <1>2, <2>3, <2>11 DEF Withdraw
    <3> QED BY <2>10, <2>11, <3>1
  <2>12. live' \in SUBSET Nodes /\ Watched(live') /\ UNCHANGED <<rollups, building>>
    BY <1>2 DEF Withdraw, TypeInv, TypeOK
  <2> QED BY <2>9, <2>11, <2>12, NodesChange
<1>3. ASSUME Reconcile
      PROVE  Current'
  <2>1. PICK k \in 0..Len(outbox), m \in 0..LastDay :
          /\ Drains(k, m)
          /\ status' = Put(status, Hit(DrainedDays(k, m)), "stale")
          /\ lease' = Put(lease, Hit(DrainedDays(k, m)), Nobody)
    BY <1>3 DEF Reconcile
  <2>2. UNCHANGED <<live, sources, todo, pc, noted, found, moments>>
    BY <1>3 DEF Reconcile, table, building
  <2>3. /\ ReadyIsCurrent' /\ NothingForgotten' /\ Reading'
        /\ \A p \in Periods, c \in Builders :
              lease'[p] = c => lease[p] = c /\ (Owed(p) => Owed(p)')
    BY <2>1, <2>2, DrainFacts, StaleKeeps
  <2>4. \A c \in Builders : Sound(c)'
    BY <2>2, <2>3, BuilderKept
  <2> QED BY <2>3, <2>4, AllSound
<1>4. ASSUME NEW b \in Builders, NEW expired \in SUBSET In("building"),
             NEW due \in SUBSET In("failed"), Pass(b, expired, due)
      PROVE  Current'
  <2>1. PICK k \in 0..Len(outbox), m \in 0..LastDay :
          /\ Drains(k, m)
          /\ status' = Put(status, Hit(DrainedDays(k, m)) \cup expired, "stale")
          /\ lease' = Put(lease, Hit(DrainedDays(k, m)) \cup expired, Nobody)
    BY <1>4 DEF Pass
  <2>2. UNCHANGED <<live, sources, pc, noted, found, moments>> /\ todo[b] = <<>>
    BY <1>4 DEF Pass, table
  <2>3. \A p \in Periods : Owed(p) => Owed(p)' \/ p \in Hit(DrainedDays(k, m)) \cup expired
    BY <2>1, DrainFacts
  <2>4. /\ ReadyIsCurrent' /\ NothingForgotten' /\ Reading'
        /\ \A p \in Periods, c \in Builders :
              lease'[p] = c => lease[p] = c /\ (Owed(p) => Owed(p)')
    BY <2>1, <2>2, <2>3, StaleKeeps
  <2>5. ASSUME NEW c \in Builders, c # b
        PROVE  Sound(c)'
    <3>1. todo'[c] = todo[c]
      BY <1>4, <2>5 DEF Pass, TypeInv, TypeOK
    <3> QED BY <2>2, <2>4, <3>1, BuilderKept
  <2>6. Sound(b)'
    <3>1. pc'[b] = "rest"
      BY <2>2 DEF TypeInv, TypeOK
    <3>2. \A p \in Periods : lease'[p] # b
      BY <2>2, <2>4 DEF Current, Leases
    <3> QED BY <3>1, <3>2 DEF Sound
  <2> QED BY <2>4, <2>5, <2>6, AllSound
<1>5. ASSUME NEW b \in Builders, NEW targets \in Requests, Rebuild(b, targets)
      PROVE  Current'
  <2>1. UNCHANGED <<live, outbox, sources, pc, noted, found, moments>> /\ todo[b] = <<>>
    BY <1>5 DEF Rebuild, table
  <2>2. \A p : Owed(p)' <=> Owed(p)
    BY <2>1, OwedKept
  <2>3. PICK P : status' = Put(status, P, "stale") /\ lease' = Put(lease, P, Nobody)
    BY <1>5 DEF Rebuild
  <2>5. /\ ReadyIsCurrent' /\ NothingForgotten' /\ Reading'
        /\ \A p \in Periods, c \in Builders :
              lease'[p] = c => lease[p] = c /\ (Owed(p) => Owed(p)')
    BY <2>1, <2>2, <2>3, StaleKeeps
  <2>6. ASSUME NEW c \in Builders, c # b
        PROVE  Sound(c)'
    <3>1. todo'[c] = todo[c]
      BY <1>5, <2>6 DEF Rebuild, TypeInv, TypeOK
    <3> QED BY <2>1, <2>5, <3>1, BuilderKept
  <2>7. Sound(b)'
    <3>1. pc'[b] = "rest"
      BY <2>1 DEF TypeInv, TypeOK
    <3>2. \A p \in Periods : lease'[p] # b
      BY <2>1, <2>5 DEF Current, Leases
    <3> QED BY <3>1, <3>2 DEF Sound
  <2> QED BY <2>5, <2>6, <2>7, AllSound
<1>6. ASSUME NEW b \in Builders, Claim(b)
      PROVE  Current'
  <2>1. PICK k \in 0..Len(outbox), m \in 0..LastDay :
          /\ Drains(k, m)
          /\ status' = [Put(status, Hit(DrainedDays(k, m)), "stale")
                          EXCEPT ![Job(b)] = "building"]
          /\ lease' = [Put(lease, Hit(DrainedDays(k, m)), Nobody)
                         EXCEPT ![Job(b)] = b]
    BY <1>6 DEF Claim
  <2>2. /\ UNCHANGED <<live, sources, todo, noted, found, moments>>
        /\ todo[b] # <<>> /\ pc[b] = "rest"
        /\ pc' = [pc EXCEPT ![b] = IF Job(b) \in Days THEN "read" ELSE "statuses"]
    BY <1>6 DEF Claim, Goto, table
  <2>3. Job(b) \in Periods
    BY <2>2, JobType
  <2> DEFINE P == Hit(DrainedDays(k, m))
  <2>4. \A p \in Periods : Owed(p) => Owed(p)' \/ p \in P
    BY <2>1, DrainFacts
  <2> HIDE DEF P
  <2>5. \A p \in Periods :
          /\ status'[p] = IF p = Job(b) THEN "building"
                          ELSE IF p \in P THEN "stale" ELSE status[p]
          /\ lease'[p] = IF p = Job(b) THEN b
                         ELSE IF p \in P THEN Nobody ELSE lease[p]
    BY <2>1, <2>3 DEF Put, TypeInv, TypeOK, P
  <2>6. ReadyIsCurrent' /\ NothingForgotten' /\ Reading'
    BY <2>2, <2>4, <2>5, RowsKept
  <2>7. ASSUME NEW c \in Builders, c # b
        PROVE  Sound(c)'
    <3>1. pc'[c] = pc[c]
      BY <2>2, <2>7 DEF TypeInv
    <3>2. \A p \in Periods : lease'[p] = c => lease[p] = c /\ (Owed(p) => Owed(p)')
      BY <2>4, <2>5, <2>7, NamesAssumption
    <3> QED BY <2>2, <3>1, <3>2, BuilderKept
  <2>8. Sound(b)'
    <3>1. pc'[b] \in {"read", "statuses"} /\ Job(b)' = Job(b)
      BY <2>2 DEF TypeInv, Job
    <3>2. \A p \in Periods : lease'[p] = b => p = Job(b)
      BY <2>2, <2>5, NamesAssumption DEF Current, Leases
    <3> QED BY <2>2, <3>1, <3>2 DEF Sound, Informed
  <2> QED BY <2>6, <2>7, <2>8, AllSound
<1>7. ASSUME NEW b \in Builders, Read(b)
      PROVE  Current'
  <2>1. /\ found' = [found EXCEPT ![b] = Front(live, Job(b))] /\ pc[b] = "read"
        /\ pc' = [pc EXCEPT ![b] = IF found'[b] = {} THEN "resolve" ELSE "write"]
        /\ UNCHANGED <<live, outbox, status, lease, sources, todo, noted, moments>>
    BY <1>7 DEF Read, Goto, table, rollups
  <2>2. /\ found'[b] = Front(live, Job(b)) /\ Job(b)' = Job(b)
        /\ pc'[b] = IF found'[b] = {} THEN "resolve" ELSE "write"
        /\ \A c \in Builders \ {b} :
              pc'[c] = pc[c] /\ noted'[c] = noted[c] /\ found'[c] = found[c]
    BY <2>1 DEF TypeInv, TypeOK, Job
  <2>3. Front(live, Job(b))' = Front(live, Job(b))
    BY <2>1, <2>2 DEF Front, DaysOf, SpanOf
  <2>4. Informed(b)'
    BY <2>2, <2>3 DEF Informed
  <2> QED BY <2>1, <2>2, <2>4, LookKeeps
<1>8. ASSUME NEW b \in Builders, Statuses(b)
      PROVE  Current'
  <2>1. /\ noted' = [noted EXCEPT ![b] = {d \in Covers[Job(b)] : status[d] = "ready"}]
        /\ pc[b] = "statuses" /\ pc' = [pc EXCEPT ![b] = "content"]
        /\ UNCHANGED <<live, outbox, status, lease, sources, todo, found, moments>>
    BY <1>8 DEF Statuses, Goto, table, rollups
  <2>2. /\ noted'[b] = {d \in Covers[Job(b)] : status[d] = "ready"}
        /\ pc'[b] = "content"
        /\ \A c \in Builders \ {b} :
              pc'[c] = pc[c] /\ noted'[c] = noted[c] /\ found'[c] = found[c]
    BY <2>1 DEF TypeInv, TypeOK
  <2>3. ASSUME ~Owed(Job(b)), NEW d \in noted'[b]
        PROVE  sources'[d] = Front(live, d)'
    <3>1. Job(b) \in Aggregates
      BY <2>1 DEF TypeInv, Placed
    <3>2. d \in Covers[Job(b)] /\ status[d] = "ready"
      BY <2>2, <2>3
    <3>3. d \in Periods /\ ~Owed(d)
      BY <2>3, <3>1, <3>2, OwedAbove DEF Periods
    <3>4. sources[d] = Front(live, d)
      BY <3>2, <3>3 DEF Current, ReadyIsCurrent
    <3> QED BY <2>1, <3>4 DEF Front, DaysOf, SpanOf
  <2>4. ~Owed(Job(b)) => Informed(b)'
    BY <2>2, <2>3 DEF Informed
  <2> QED BY <2>1, <2>2, <2>4, LookKeeps
<1>9. ASSUME NEW b \in Builders, Content(b)
      PROVE  Current'
  <2>1. /\ pc[b] = "content"
        /\ pc' = [pc EXCEPT ![b] = IF \E d \in Covers[Job(b)] \ noted[b] : Front(live, d) # {}
                                     THEN "defer"
                                   ELSE IF noted[b] = {} THEN "resolve" ELSE "collect"]
        /\ UNCHANGED <<live, outbox, status, lease, sources, todo, noted, found, moments>>
    BY <1>9 DEF Content, Goto, table, rollups
  <2>2. \A c \in Builders \ {b} :
          pc'[c] = pc[c] /\ noted'[c] = noted[c] /\ found'[c] = found[c]
    BY <2>1 DEF TypeInv
  <2>3. Job(b)' = Job(b) /\ \A N, p : Front(N, p)' = Front(N, p)
    BY <2>1 DEF Job
  <2>4. \A p : Front(live, p)' = Front(live, p)
    BY <2>1 DEF Front, DaysOf, SpanOf
  <2>5. CASE \E d \in Covers[Job(b)] \ noted[b] : Front(live, d) # {}
    <3>1. pc'[b] = "defer"
      BY <2>1, <2>5 DEF TypeInv
    <3>2. Informed(b)'
      BY <3>1 DEF Informed
    <3> QED BY <2>1, <2>2, <3>1, <3>2, LookKeeps
  <2>6. CASE \A d \in Covers[Job(b)] \ noted[b] : Front(live, d) = {}
    <3>1. pc'[b] = IF noted[b] = {} THEN "resolve" ELSE "collect"
      BY <2>1, <2>6 DEF TypeInv
    <3>2. Job(b) \in Aggregates /\ live \in SUBSET Nodes
      BY <2>1 DEF TypeInv, TypeOK, Placed
    <3>3. noted[b] = {} => Front(live, Job(b)) = {}
      BY <2>6, <3>2, FrontOfDays
    <3>4. Front(live, Job(b))' = Front(live, Job(b))
      BY <2>1, <2>3 DEF Front, DaysOf, SpanOf
    <3>5. Owns(b) /\ ~Owed(Job(b)) => \A d \in noted[b] : sources[d] = Front(live, d)
      BY <2>1 DEF Current, Building, Informed
    <3>6. Owns(b) /\ ~Owed(Job(b)) => Informed(b)'
      BY <2>1, <2>3, <2>4, <2>6, <3>1, <3>3, <3>4, <3>5 DEF Informed
    <3> QED BY <2>1, <2>2, <3>1, <3>6, LookKeeps
  <2> QED BY <2>5, <2>6
<1>10. ASSUME NEW b \in Builders, Collect(b)
       PROVE  Current'
  <2>1. /\ found' = [found EXCEPT ![b] = UNION {sources[d] : d \in noted[b]}]
        /\ pc[b] = "collect" /\ pc' = [pc EXCEPT ![b] = "canon"]
        /\ UNCHANGED <<live, outbox, status, lease, sources, todo, noted, moments>>
    BY <1>10 DEF Collect, Goto, table, rollups
  <2>2. /\ found'[b] = UNION {sources[d] : d \in noted[b]} /\ pc'[b] = "canon"
        /\ \A c \in Builders \ {b} :
              pc'[c] = pc[c] /\ noted'[c] = noted[c] /\ found'[c] = found[c]
    BY <2>1 DEF TypeInv, TypeOK
  <2>3. ASSUME Owns(b), ~Owed(Job(b))
        PROVE  Informed(b)'
    <3>1. Job(b) \in Aggregates /\ live \in SUBSET Nodes /\ noted[b] \subseteq Covers[Job(b)]
      BY <2>1 DEF TypeInv, TypeOK, Placed
    <3>2. /\ \A d \in noted[b] : sources[d] = Front(live, d)
          /\ \A d \in Covers[Job(b)] \ noted[b] : Front(live, d) = {}
      BY <2>1, <2>3 DEF Current, Building, Informed
    <3>3. Front(live, Job(b)) = UNION {Front(live, d) : d \in Covers[Job(b)]}
      BY <3>1, FrontOfDays
    <3>4. found'[b] = Front(live, Job(b))
      BY <2>2, <3>1, <3>2, <3>3
    <3>5. Front(live, Job(b))' = Front(live, Job(b))
      BY <2>1 DEF Front, DaysOf, SpanOf, Job
    <3> QED BY <2>2, <3>4, <3>5 DEF Informed
  <2> QED BY <2>1, <2>2, <2>3, LookKeeps
<1>11. ASSUME NEW b \in Builders, Canon(b)
       PROVE  Current'
  <2> DEFINE N == found[b] \cap live
             top == {n \in N : \A m \in N : n \notin Under[m]}
  <2>1. /\ found' = [found EXCEPT ![b] = top] /\ pc[b] = "canon"
        /\ pc' = [pc EXCEPT ![b] = IF found'[b] = {} THEN "defer" ELSE "write"]
        /\ UNCHANGED <<live, outbox, status, lease, sources, todo, noted, moments>>
    BY <1>11 DEF Canon, Goto, table, rollups
  <2> HIDE DEF top
  <2>2. /\ found'[b] = top /\ pc'[b] = IF top = {} THEN "defer" ELSE "write"
        /\ \A c \in Builders \ {b} :
              pc'[c] = pc[c] /\ noted'[c] = noted[c] /\ found'[c] = found[c]
    BY <2>1 DEF TypeInv, TypeOK
  <2>3. ASSUME Owns(b), ~Owed(Job(b))
        PROVE  Informed(b)'
    <3>1. found[b] = Front(live, Job(b))
      BY <2>1, <2>3 DEF Current, Building, Informed
    <3>2. top = Front(live, Job(b))
      BY <3>1 DEF top, Front
    <3>3. Front(live, Job(b))' = Front(live, Job(b))
      BY <2>1 DEF Front, DaysOf, SpanOf, Job
    <3> QED BY <2>2, <3>2, <3>3 DEF Informed
  <2> QED BY <2>1, <2>2, <2>3, LookKeeps
<1>12. ASSUME NEW b \in Builders, Resolve(b)
       PROVE  Current'
  <2>1. pc[b] = "resolve" /\ Settle(b, "none") /\ todo[b] # <<>>
    BY <1>12 DEF Resolve, TypeInv, TypeOK
  <2>2. Owns(b) /\ ~Owed(Job(b)) => Front(live, Job(b)) = {}
    BY <2>1 DEF Current, Building, Informed
  <2> QED BY <2>1, <2>2, SettleKeeps
<1>13. ASSUME NEW b \in Builders, Defer(b) \/ Fail(b) \/ Refuse(b)
       PROVE  Current'
  <2>1. PICK s \in {"stale", "failed"} : Settle(b, s)
    BY <1>13 DEF Defer, Fail, Refuse
  <2>2. todo[b] # <<>>
    BY <1>13 DEF Defer, Fail, Refuse, TypeInv, TypeOK
  <2> QED BY <2>1, <2>2, SettleKeeps
<1>14. ASSUME NEW b \in Builders, MarkReady(b)
       PROVE  Current'
  <2>1. todo[b] # <<>> /\ pc[b] = "write" /\ Owns(b) /\ ~Touched(Job(b))
    BY <1>14 DEF MarkReady, TypeInv, TypeOK
  <2>2. Job(b) \in Periods
    BY <2>1, JobType
  <2>3. ~Owed(Job(b))
    BY <2>1, <2>2, OwedIsTouched
  <2>4. found[b] = Front(live, Job(b))
    BY <2>1, <2>3 DEF Current, Building, Informed
  <2>5. /\ status' = [status EXCEPT ![Job(b)] = "ready"]
        /\ lease' = [lease EXCEPT ![Job(b)] = Nobody]
        /\ sources' = [sources EXCEPT ![Job(b)] = Front(live, Job(b))]
        /\ UNCHANGED <<live, outbox, moments>>
    BY <1>14, <2>4 DEF MarkReady, table
  <2>6. \A p \in Periods :
          /\ status'[p] = IF p = Job(b) THEN "ready" ELSE status[p]
          /\ lease'[p] = IF p = Job(b) THEN Nobody ELSE lease[p]
          /\ sources'[p] = IF p = Job(b) THEN Front(live, p) ELSE sources[p]
    BY <2>2, <2>5 DEF TypeInv, TypeOK
  <2>7. (\A p : Owed(p)' <=> Owed(p)) /\ \A p : Front(live, p)' = Front(live, p)
    BY <2>5, OwedKept DEF Front, DaysOf, SpanOf
  <2>8. ReadyIsCurrent' /\ NothingForgotten'
    BY <2>6, <2>7 DEF Current, ReadyIsCurrent, NothingForgotten
  <2>9. Reading'
    <3>1. \A N, p : Front(N, p)' = Front(N, p)
      OBVIOUS
    <3> SUFFICES ASSUME moments # {}
                 PROVE  \A p \in Periods : status'[p] = "ready" =>
                            \E N \in moments : sources'[p] = Front(N, p)
      BY <2>5 DEF Current, Reading, In, Front, DaysOf, SpanOf
    <3>2. live \in moments
      BY DEF Current, Reading
    <3>3. \A p \in Periods : status[p] = "ready" =>
            \E N \in moments : sources[p] = Front(N, p)
      BY DEF Current, Reading, In
    <3> QED BY <2>6, <3>2, <3>3
  <2>10. ASSUME NEW c \in Builders, c # b
         PROVE  Sound(c)'
    <3>1. /\ pc'[c] = pc[c] /\ todo'[c] = todo[c]
          /\ noted'[c] = noted[c] /\ found'[c] = found[c]
      BY <1>14, <2>10 DEF MarkReady, Goto, NextJob, TypeInv, TypeOK
    <3>2. \A p \in Periods : lease'[p] = c => lease[p] = c
      BY <2>6, NamesAssumption
    <3>3. \A d \in Days : sources'[d] = sources[d] \/ sources'[d] = Front(live, d)
      BY <2>6 DEF Periods
    <3> QED BY <2>5, <2>7, <3>1, <3>2, <3>3, BuilderKept
  <2>11. Sound(b)'
    <3>1. \A p \in Periods : lease'[p] # b
      BY <2>6, NamesAssumption DEF Current, Leases
    <3>2. pc'[b] \in {"rest", "spread"}
      BY <1>14 DEF MarkReady, Goto, NextJob, TypeInv
    <3> QED BY <3>1, <3>2 DEF Sound, Informed
  <2> QED BY <2>8, <2>9, <2>10, <2>11, AllSound
<1>15. ASSUME NEW b \in Builders, Spread(b)
       PROVE  Current'
  <2>1. /\ status' = Put(status, Above(Job(b)), "stale")
        /\ lease' = Put(lease, Above(Job(b)), Nobody)
        /\ NextJob(b) /\ UNCHANGED <<live, outbox, sources, moments>>
        /\ pc[b] = "spread"
    BY <1>15 DEF Spread, table
  <2>2. \A p : Owed(p)' <=> Owed(p)
    BY <2>1, OwedKept
  <2>3. /\ ReadyIsCurrent' /\ NothingForgotten' /\ Reading'
        /\ \A p \in Periods, c \in Builders :
              lease'[p] = c => lease[p] = c /\ (Owed(p) => Owed(p)')
    BY <2>1, <2>2, StaleKeeps
  <2>4. ASSUME NEW c \in Builders, c # b
        PROVE  Sound(c)'
    <3>1. /\ pc'[c] = pc[c] /\ todo'[c] = todo[c]
          /\ noted'[c] = noted[c] /\ found'[c] = found[c]
      BY <2>1, <2>4 DEF NextJob, TypeInv, TypeOK
    <3> QED BY <2>1, <2>3, <3>1, BuilderKept
  <2>5. Sound(b)'
    <3>1. \A p \in Periods : lease'[p] # b
      BY <2>1, <2>3 DEF Current, Leases
    <3>2. pc'[b] = "rest"
      BY <2>1 DEF NextJob, TypeInv
    <3> QED BY <3>1, <3>2 DEF Sound
  <2> QED BY <2>3, <2>4, <2>5, AllSound
<1>16. ASSUME NEW b \in Builders, Crash(b)
       PROVE  Current'
  <2>1. /\ lease' = Put(lease, {p \in Periods : lease[p] = b}, Orphan)
        /\ todo' = [todo EXCEPT ![b] = <<>>]
        /\ pc' = [pc EXCEPT ![b] = "rest"]
        /\ noted' = [noted EXCEPT ![b] = {}]
        /\ found' = [found EXCEPT ![b] = {}]
        /\ UNCHANGED <<live, outbox, status, sources, moments>>
    BY <1>16 DEF Crash, table
  <2>2. \A p : Owed(p)' <=> Owed(p)
    BY <2>1, OwedKept
  <2>3. ReadyIsCurrent' /\ NothingForgotten' /\ Reading'
    BY <2>1, <2>2, RowsKept
  <2>4. \A p \in Periods : lease'[p] = IF lease[p] = b THEN Orphan ELSE lease[p]
    BY <2>1 DEF Put, TypeInv, TypeOK
  <2>5. ASSUME NEW c \in Builders, c # b
        PROVE  Sound(c)'
    <3>1. /\ pc'[c] = pc[c] /\ todo'[c] = todo[c]
          /\ noted'[c] = noted[c] /\ found'[c] = found[c]
      BY <2>1, <2>5 DEF TypeInv, TypeOK
    <3>2. \A p \in Periods : lease'[p] = c => lease[p] = c
      BY <2>4, NamesAssumption
    <3> QED BY <2>1, <2>2, <3>1, <3>2, BuilderKept
  <2>6. Sound(b)'
    <3>1. \A p \in Periods : lease'[p] # b
      BY <2>4, NamesAssumption
    <3>2. pc'[b] = "rest"
      BY <2>1 DEF TypeInv
    <3> QED BY <3>1, <3>2 DEF Sound
  <2> QED BY <2>3, <2>5, <2>6, AllSound
<1>17. ASSUME Ask \/ Fetch \/ UNCHANGED vars
       PROVE  Current'
  <2>1. UNCHANGED <<live, outbox, status, lease, sources, todo, pc, noted, found>>
    BY <1>17 DEF Ask, Fetch, vars, table, rollups, building
  <2>2. (\A p : Owed(p)' <=> Owed(p)) /\ \A p : Front(live, p)' = Front(live, p)
    BY <2>1, OwedKept DEF Front, DaysOf, SpanOf
  <2>3. ReadyIsCurrent' /\ NothingForgotten'
    BY <2>1, <2>2 DEF Current, ReadyIsCurrent, NothingForgotten
  <2>4. \A c \in Builders : Sound(c)'
    BY <2>1, <2>2, BuilderKept
  <2>5. Reading'
    <3>1. CASE Ask
      <4>1. moments' = {live} /\ outbox = <<>>
        BY <3>1 DEF Ask
      <4>2. \A p \in Periods : ~Owed(p)
        BY <4>1 DEF Owed
      <4> QED BY <2>1, <4>1, <4>2
              DEF Current, ReadyIsCurrent, Reading, In, Front, DaysOf, SpanOf
    <3>2. CASE Fetch
      BY <3>2 DEF Fetch, Reading
    <3>3. CASE UNCHANGED vars
      BY <2>1, <3>3 DEF vars, Current, Reading, In, Front, DaysOf, SpanOf
    <3> QED BY <1>17, <3>1, <3>2, <3>3
  <2> QED BY <2>3, <2>4, <2>5, AllSound
<1> QED BY <1>1, <1>2, <1>3, <1>4, <1>5, <1>6, <1>7, <1>8, <1>9, <1>10, <1>11,
           <1>12, <1>13, <1>14, <1>15, <1>16, <1>17 DEF Next, Build

LEMMA CurrentInit == Init => Current
<1> SUFFICES ASSUME Init PROVE Current
  OBVIOUS
<1>1. Leases /\ Building
  BY NamesAssumption DEF Init, Leases, Building
<1>2. ReadyIsCurrent /\ NothingForgotten /\ Reading
  BY DEF Init, ReadyIsCurrent, NothingForgotten, Reading, In, Front
<1> QED BY <1>1, <1>2 DEF Current

\* The inductive invariant holds of every run.
LEMMA RollupInvariant == Spec => [](TypeInv /\ Current)
<1>1. TypeInv /\ [Next]_vars => TypeInv'
  BY TypeStep
<1>2. TypeInv /\ TypeInv' /\ Current /\ [Next]_vars => Current'
  BY CurrentStep
<1> QED BY <1>1, <1>2, TypeInit, CurrentInit, PTL DEF Spec

\* No ready rollup is built from anything but the nodes of its period, unless a
\* change of them is still to be drained (mark_ready's compare-and-set, the
\* triggers and the drain), whatever the builders, crashes and lost leases.
THEOREM RollupsCurrent == Spec => []ReadyIsCurrent
<1>1. TypeInv /\ Current => ReadyIsCurrent
  BY DEF Current
<1> QED BY <1>1, RollupInvariant, PTL

\* A row that is cleared for want of sources (resolve_no_source) had none.
THEOREM RollupsKept == Spec => []NothingForgotten
<1>1. TypeInv /\ Current => NothingForgotten
  BY DEF Current
<1> QED BY <1>1, RollupInvariant, PTL

\* What lcm_recent reads was right at some moment while it looked.
THEOREM RollupsServed == Spec => []ServesCurrent
<1>1. TypeInv /\ Current => ServesCurrent
  BY DEF Current, Reading, ServesCurrent
<1> QED BY <1>1, RollupInvariant, PTL
=============================================================================
