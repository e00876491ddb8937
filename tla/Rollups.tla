------------------------------ MODULE Rollups ------------------------------
(* Temporal rollups of the vendored archive: a row per day, week and month    *)
(* holds a summary of the summary nodes of that period. Nodes are published   *)
(* and deleted by the engine while builders (the maintenance worker, an       *)
(* operator's rebuild, the same of another process on the database) work on   *)
(* rows; nothing but the transactions of the database orders them. Every      *)
(* change of a node leaves an event in an outbox in the same transaction, a   *)
(* drain of the outbox turns the rows of the event's days stale, and a        *)
(* builder publishes only under the lease it claimed before it read.          *)
(*                                                                            *)
(* One scope (session) of one database. Summaries are what they are built     *)
(* from: a row's text is the nodes in lcm_rollup_sources. A node may condense *)
(* nodes that condense others, to any depth.                                  *)
EXTENDS Naturals, Sequences, FiniteSets

CONSTANTS
    LastDay,      \* the days are 1..LastDay
    Aggregates,   \* weeks and months
    Covers,       \* the days of each
    Place,        \* order of periods: by start, then by kind
    Requests,     \* target lists of an operator's rebuild
    Nodes,        \* node ids, in the order of the table
    From, To,     \* first and last day of each node
    Under,        \* the nodes it condenses, theirs, and so on
    Old,          \* nodes published before the feature was enabled
    Builders,
    Nobody,       \* lease_nonce ''
    Orphan,       \* the lease of a builder that died
    Limit,        \* rollup_builds_per_pass
    DayBudget     \* day_budget of a drain

Days == 1..LastDay
Periods == Days \cup Aggregates
DaysOf(p) == IF p \in Days THEN {p} ELSE Covers[p]
SpanOf(n) == From[n]..To[n]

ASSUME NamesAssumption ==
    /\ Aggregates \cap Days = {}
    /\ Nobody \notin Builders /\ Orphan \notin Builders /\ Nobody # Orphan
ASSUME NumbersAssumption ==
    /\ {LastDay, Limit, DayBudget} \subseteq Nat \ {0}
    /\ Nodes \subseteq Nat /\ IsFiniteSet(Nodes) /\ Old \subseteq Nodes
ASSUME CoversAssumption ==
    /\ Covers \in [Aggregates -> SUBSET Days]
    /\ Place \in [Periods -> Nat]
    /\ Requests \subseteq Seq(Periods)
ASSUME SpansAssumption ==
    /\ From \in [Nodes -> Days] /\ To \in [Nodes -> Days]
    /\ Under \in [Nodes -> SUBSET Nodes]
    /\ \A n \in Nodes : From[n] <= To[n]
    /\ \A n \in Nodes : \A k \in Under[n] : SpanOf(k) \subseteq SpanOf(n)
ASSUME LineageAssumption ==
    /\ \A n \in Nodes : n \notin Under[n]
    /\ \A n \in Nodes : \A k \in Under[n] : Under[k] \subseteq Under[n]
    /\ \A n \in Old : Under[n] \subseteq Old
\* LcmArchive's Forest; the builders refuse lineages that overlap.
ASSUME ForestAssumption ==
    \A m, n \in Nodes :
        Under[m] \cap Under[n] # {} => m = n \/ m \in Under[n] \/ n \in Under[m]

(* The sources of a node.                                                     *)
Kids(n) == {k \in Under[n] : \A m \in Under[n] : k \notin Under[m]}

VARIABLES
    live,      \* summary_nodes of the scope
    ahead,     \* nodes that are not written yet
    outbox,    \* lcm_rollup_invalidations, by event_id
    status,    \* lcm_rollups.status; "none" is no row
    lease,     \* whose nonce the row carries
    sources,   \* lcm_rollup_sources
    todo,      \* per builder: the periods of its pass, the first being built
    pc,        \* per builder: the next step of that build
    noted,     \* per builder: days whose rollup it saw ready
    found,     \* per builder: nodes it summarises
    moments    \* a reader between its two looks: the node sets since the first

table == <<live, ahead>>
rollups == <<status, lease, sources>>
building == <<todo, pc, noted, found>>
vars == <<table, outbox, rollups, building, moments>>

(* A node feeds every day of its span unless a node above it is there too.    *)
Front(N, p) ==
    {n \in N : /\ \A m \in N : n \notin Under[m]
               /\ SpanOf(n) \cap DaysOf(p) # {}}

Put(f, P, v) == [p \in DOMAIN f |-> IF p \in P THEN v ELSE f[p]]

In(s) == {p \in Periods : status[p] = s}

(* Aggregates a change of a day reaches, and periods a set of days reaches.   *)
Above(d) == {a \in Aggregates : d \in Covers[a]}
Hit(D) == {p \in Periods : DaysOf(p) \cap D # {}}

-----------------------------------------------------------------------------
(* The outbox.                                                                *)

(* Mutant: keyed on the newest day of the node alone. *)
Event_newestDay(n) == [from |-> To[n], to |-> To[n], next |-> To[n]]
Event(n) == [from |-> From[n], to |-> To[n], next |-> From[n]]
Left(e) == e.to - e.next + 1

(* A drain with this budget ends after k events and m days of the next.       *)
Spends(k, m) ==
    LET cost[i \in 0..Len(outbox)] ==
            IF i = 0 THEN 0 ELSE cost[i - 1] + Left(outbox[i])
    IN  \/ k = Len(outbox) /\ m = 0 /\ cost[k] <= DayBudget
        \/ k < Len(outbox) /\ m < Left(outbox[k + 1]) /\ cost[k] + m = DayBudget

DrainedDays(k, m) ==
    (UNION {outbox[i].next..outbox[i].to : i \in 1..k})
      \cup (IF m = 0 THEN {} ELSE outbox[k + 1].next..(outbox[k + 1].next + m - 1))

Drained(k, m) ==
    LET rest == SubSeq(outbox, k + 1, Len(outbox))
    IN  IF m = 0 THEN rest ELSE [rest EXCEPT ![1].next = @ + m]

Drains(k, m) == Spends(k, m) /\ outbox' = Drained(k, m)

(* Events that reach a period, and those that have days of it left to drain.  *)
Touched(p) == \E i \in DOMAIN outbox :
                  (outbox[i].from..outbox[i].to) \cap DaysOf(p) # {}
Owed(p) == \E i \in DOMAIN outbox :
               (outbox[i].next..outbox[i].to) \cap DaysOf(p) # {}

-----------------------------------------------------------------------------
Init ==
    /\ live = Old
    /\ ahead = Nodes \ Old
    /\ outbox = <<>>
    /\ status = [p \in Periods |-> "none"]
    /\ lease = [p \in Periods |-> Nobody]
    /\ sources = [p \in Periods |-> {}]
    /\ todo = [b \in Builders |-> <<>>]
    /\ pc = [b \in Builders |-> "rest"]
    /\ noted = [b \in Builders |-> {}]
    /\ found = [b \in Builders |-> {}]
    /\ moments = {}

-----------------------------------------------------------------------------
(* The engine.                                                                *)

Watched(N) == moments' = IF moments = {} THEN {} ELSE moments \cup {N}

(* add_node; its trigger.                                                     *)
Publish(n) ==
    /\ n \in ahead
    /\ Kids(n) \subseteq live
    /\ live' = live \cup {n}
    /\ ahead' = ahead \ {n}
    /\ outbox' = Append(outbox, Event(n))
    /\ Watched(live')
    /\ UNCHANGED <<rollups, building>>

(* A batch of deletes, or a reassignment to another session: an event each.   *)
Batches ==
    {g \in UNION {[1..k -> Nodes] : k \in 1..Cardinality(Nodes)} :
        \A i, j \in DOMAIN g : i < j => g[i] < g[j]}

Withdraw(g) ==
    LET gone == {g[i] : i \in DOMAIN g}
    IN  /\ gone \subseteq live
        /\ \A n \in gone : Under[n] \cap live \subseteq gone
        /\ live' = live \ gone
        /\ outbox' = outbox \o [i \in DOMAIN g |-> Event(g[i])]
        /\ Watched(live')
        /\ UNCHANGED <<ahead, rollups, building>>

(* The drain after a change: at once, late, or never.                         *)
Reconcile ==
    /\ outbox # <<>>
    /\ \E k \in 0..Len(outbox), m \in 0..LastDay :
          /\ Drains(k, m)
          /\ status' = Put(status, Hit(DrainedDays(k, m)), "stale")
          /\ lease' = Put(lease, Hit(DrainedDays(k, m)), Nobody)
    /\ UNCHANGED <<table, sources, building, moments>>

-----------------------------------------------------------------------------
(* Builders.                                                                  *)

Job(b) == Head(todo[b])
Owns(b) == lease[Job(b)] = b

Goto(b, l) == pc' = [pc EXCEPT ![b] = l]

NextJob(b) ==
    /\ todo' = [todo EXCEPT ![b] = Tail(@)]
    /\ pc' = [pc EXCEPT ![b] = "rest"]
    /\ noted' = [noted EXCEPT ![b] = {}]
    /\ found' = [found EXCEPT ![b] = {}]

(* Stale days come first, then failed ones, then aggregates the same way;     *)
(* stale ones by place, failed ones in the order they failed in, any here.    *)
Turn(p) == (IF p \in Days THEN 1 ELSE 3) + (IF status'[p] = "failed" THEN 1 ELSE 0)
Before(p, q) ==
    \/ Turn(p) < Turn(q)
    \/ Turn(p) = Turn(q) /\ status'[p] = "stale" /\ Place[p] < Place[q]

(* The first Limit of the rows that wait, in their order.                     *)
Passes == UNION {[1..k -> Periods] : k \in 0..Limit}
Selects(jobs, waiting) ==
    /\ Len(jobs) = Limit \/ Len(jobs) = Cardinality(waiting)
    /\ \A i \in DOMAIN jobs :
          LET rest == waiting \ {jobs[j] : j \in 1..(i - 1)}
          IN  jobs[i] \in rest /\ \A q \in rest : ~Before(q, jobs[i])

(* run_rollup_maintenance: drain, reclaim the leases that ran out, select.    *)
Pass(b, expired, due) ==
    /\ todo[b] = <<>>
    /\ \E k \in 0..Len(outbox), m \in 0..LastDay :
          LET hit == Hit(DrainedDays(k, m)) \cup expired
          IN  /\ Drains(k, m)
              /\ status' = Put(status, hit, "stale")
              /\ lease' = Put(lease, hit, Nobody)
    /\ \E jobs \in Passes :
          /\ Selects(jobs, {p \in Periods : status'[p] = "stale"} \cup due)
          /\ todo' = [todo EXCEPT ![b] = jobs]
    /\ UNCHANGED <<table, sources, pc, noted, found, moments>>

(* `/lcm rollups rebuild`: seeds its targets and what is above them, but no   *)
(* row that is building.                                                      *)
Seeds(targets) ==
    LET asked == {targets[i] : i \in DOMAIN targets}
    IN  {p \in asked \cup UNION {Above(d) : d \in asked \cap Days} :
            status[p] # "building"}

Rebuild(b, targets) ==
    /\ todo[b] = <<>>
    /\ status' = Put(status, Seeds(targets), "stale")
    /\ lease' = Put(lease, Seeds(targets), Nobody)
    /\ todo' = [todo EXCEPT ![b] = SubSeq(targets, 1,
                                IF Len(targets) < Limit THEN Len(targets) ELSE Limit)]
    /\ UNCHANGED <<table, outbox, sources, pc, noted, found, moments>>

(* A build drains and claims its row, whatever the row is by now.             *)
Claim(b) ==
    /\ todo[b] # <<>> /\ pc[b] = "rest"
    /\ \E k \in 0..Len(outbox), m \in 0..LastDay :
          /\ Drains(k, m)
          /\ status' = [Put(status, Hit(DrainedDays(k, m)), "stale")
                          EXCEPT ![Job(b)] = "building"]
          /\ lease' = [Put(lease, Hit(DrainedDays(k, m)), Nobody)
                         EXCEPT ![Job(b)] = b]
    /\ Goto(b, IF Job(b) \in Days THEN "read" ELSE "statuses")
    /\ UNCHANGED <<table, sources, todo, noted, found, moments>>

(* A day: the frontier nodes that meet it.                                    *)
Read(b) ==
    /\ pc[b] = "read"
    /\ found' = [found EXCEPT ![b] = Front(live, Job(b))]
    /\ Goto(b, IF found'[b] = {} THEN "resolve" ELSE "write")
    /\ UNCHANGED <<table, outbox, rollups, todo, noted, moments>>

(* An aggregate: its ready days, its days with content (all of them ready, or *)
(* it waits), the sources of the ready days, the frontier among those.        *)
Statuses(b) ==
    /\ pc[b] = "statuses"
    /\ noted' = [noted EXCEPT ![b] = {d \in Covers[Job(b)] : status[d] = "ready"}]
    /\ Goto(b, "content")
    /\ UNCHANGED <<table, outbox, rollups, todo, found, moments>>

Content(b) ==
    /\ pc[b] = "content"
    /\ Goto(b, IF \E d \in Covers[Job(b)] \ noted[b] : Front(live, d) # {}
                 THEN "defer"
               ELSE IF noted[b] = {} THEN "resolve" ELSE "collect")
    /\ UNCHANGED <<table, outbox, rollups, todo, noted, found, moments>>

Collect(b) ==
    /\ pc[b] = "collect"
    /\ found' = [found EXCEPT ![b] = UNION {sources[d] : d \in noted[b]}]
    /\ Goto(b, "canon")
    /\ UNCHANGED <<table, outbox, rollups, todo, noted, moments>>

Canon(b) ==
    /\ pc[b] = "canon"
    /\ LET N == found[b] \cap live
       IN  found' = [found EXCEPT ![b] = {n \in N : \A m \in N : n \notin Under[m]}]
    /\ Goto(b, IF found'[b] = {} THEN "defer" ELSE "write")
    /\ UNCHANGED <<table, outbox, rollups, todo, noted, moments>>

(* Mutant: the nonce stays when the row leaves `building`. *)
Settle_keepsNonce(b, s) ==
    /\ IF Owns(b)
       THEN /\ status' = [status EXCEPT ![Job(b)] = s]
            /\ sources' = IF s = "none" THEN [sources EXCEPT ![Job(b)] = {}] ELSE sources
            /\ UNCHANGED lease
       ELSE UNCHANGED rollups
    /\ NextJob(b)
    /\ UNCHANGED <<table, outbox, moments>>

(* Mutant: the row is found by its period, not by the lease. *)
Settle_unleased(b, s) ==
    /\ status' = [status EXCEPT ![Job(b)] = s]
    /\ lease' = [lease EXCEPT ![Job(b)] = Nobody]
    /\ sources' = IF s = "none" THEN [sources EXCEPT ![Job(b)] = {}] ELSE sources
    /\ NextJob(b)
    /\ UNCHANGED <<table, outbox, moments>>

(* resolve_no_source, defer_incomplete, mark_failed: under the lease or not   *)
(* at all.                                                                    *)
Settle(b, s) ==
    /\ IF Owns(b)
       THEN /\ status' = [status EXCEPT ![Job(b)] = s]
            /\ lease' = [lease EXCEPT ![Job(b)] = Nobody]
            /\ sources' = IF s = "none" THEN [sources EXCEPT ![Job(b)] = {}] ELSE sources
       ELSE UNCHANGED rollups
    /\ NextJob(b)
    /\ UNCHANGED <<table, outbox, moments>>

Resolve(b) == pc[b] = "resolve" /\ Settle(b, "none")
Defer(b) == pc[b] = "defer" /\ Settle(b, "stale")
Fail(b) == todo[b] # <<>> /\ Settle(b, "failed")

(* mark_ready: not the owner any more, or a change is pending or a source is  *)
(* gone, or published.                                                        *)
Refuse(b) ==
    /\ pc[b] = "write"
    /\ Owns(b) => Touched(Job(b)) \/ ~(found[b] \subseteq live)
    /\ Settle(b, "stale")

MarkReady(b) ==
    /\ pc[b] = "write"
    /\ Owns(b) /\ ~Touched(Job(b)) /\ found[b] \subseteq live
    /\ status' = [status EXCEPT ![Job(b)] = "ready"]
    /\ lease' = [lease EXCEPT ![Job(b)] = Nobody]
    /\ sources' = [sources EXCEPT ![Job(b)] = found[b]]
    /\ IF Job(b) \in Days
       THEN Goto(b, "spread") /\ UNCHANGED <<todo, noted, found>>
       ELSE NextJob(b)
    /\ UNCHANGED <<table, outbox, moments>>

(* stale_aggregates_for_day, in a transaction of its own.                     *)
Spread(b) ==
    /\ pc[b] = "spread"
    /\ status' = Put(status, Above(Job(b)), "stale")
    /\ lease' = Put(lease, Above(Job(b)), Nobody)
    /\ NextJob(b)
    /\ UNCHANGED <<table, outbox, sources, moments>>

(* The process dies, or a pass stops between two builds: its time is up.      *)
Crash(b) ==
    /\ todo[b] # <<>>
    /\ lease' = Put(lease, {p \in Periods : lease[p] = b}, Orphan)
    /\ todo' = [todo EXCEPT ![b] = <<>>]
    /\ pc' = [pc EXCEPT ![b] = "rest"]
    /\ noted' = [noted EXCEPT ![b] = {}]
    /\ found' = [found EXCEPT ![b] = {}]
    /\ UNCHANGED <<table, outbox, status, sources, moments>>

-----------------------------------------------------------------------------
(* Mutant: rows are served without a look at the outbox. *)
Ask_unchecked ==
    /\ moments = {}
    /\ moments' = {live}
    /\ UNCHANGED <<table, outbox, rollups, building>>

(* lcm_recent: no change is pending ...                                       *)
Ask ==
    /\ moments = {} /\ outbox = <<>>
    /\ moments' = {live}
    /\ UNCHANGED <<table, outbox, rollups, building>>

(* ... and then the ready rows of a window are served. (A count in between    *)
(* turns some windows away.)                                                  *)
Fetch ==
    /\ moments # {}
    /\ moments' = {}
    /\ UNCHANGED <<table, outbox, rollups, building>>

-----------------------------------------------------------------------------
Build(b) ==
    \/ Claim(b) \/ Read(b) \/ Statuses(b) \/ Content(b) \/ Collect(b) \/ Canon(b)
    \/ Resolve(b) \/ Defer(b) \/ Refuse(b) \/ MarkReady(b) \/ Spread(b)

Next ==
    \/ \E n \in Nodes : Publish(n)
    \/ \E g \in Batches : Withdraw(g)
    \/ Reconcile
    \/ \E b \in Builders :
          \/ \E expired \in SUBSET In("building"), due \in SUBSET In("failed") :
                Pass(b, expired, due)
          \/ \E targets \in Requests : Rebuild(b, targets)
          \/ Build(b) \/ Fail(b) \/ Crash(b)
    \/ Ask \/ Fetch

Spec == Init /\ [][Next]_vars

-----------------------------------------------------------------------------
(* Properties.                                                                *)

(* Types; a row carries a nonce exactly while it is being built.              *)
TypeOK ==
    /\ live \subseteq Nodes /\ ahead \subseteq Nodes \ live
    /\ outbox \in Seq([from : Days, to : Days, next : Days])
    /\ status \in [Periods -> {"none", "stale", "building", "ready", "failed"}]
    /\ lease \in [Periods -> Builders \cup {Nobody, Orphan}]
    /\ \A p \in Periods : status[p] = "building" <=> lease[p] # Nobody
    /\ sources \in [Periods -> SUBSET Nodes]
    /\ todo \in [Builders -> Seq(Periods)]
    /\ \A b \in Builders : pc[b] # "rest" => todo[b] # <<>>
    /\ noted \in [Builders -> SUBSET Days]
    /\ found \in [Builders -> SUBSET Nodes]
    /\ moments \subseteq SUBSET Nodes

(* A published rollup that no undrained change reaches is built from exactly  *)
(* the nodes a build would read now: no late builder, lost lease, second      *)
(* process, half-drained event or deleted source leaves an older rollup ready *)
(* ("the generation compare-and-set ... never a wrong publish",               *)
(* rollup_store.py:29-34). For a week or month too, though it is put together *)
(* from four reads of what others rebuild meanwhile.                          *)
ReadyIsCurrent ==
    \A p \in Periods :
        status[p] = "ready" /\ ~Owed(p) => sources[p] = Front(live, p)

(* A period that has no row and no change left to drain has no content, but   *)
(* for nodes from before the feature: clearing a row for want of sources      *)
(* never loses a node that is published meanwhile.                            *)
NothingForgotten ==
    \A p \in Periods :
        status[p] = "none" /\ ~Owed(p) => Front(live, p) \subseteq Old

(* What lcm_recent serves was right at some moment between its look at the    *)
(* outbox and its read of the rows, which share no transaction.               *)
ServesCurrent ==
    moments # {} =>
        \A p \in In("ready") : \E N \in moments : sources[p] = Front(N, p)
=============================================================================
