------------------------------- MODULE Prepass -------------------------------
(***************************************************************************)
(* The ranking prepass of one engine (prepass.py, batcher.py,               *)
(* state_shaper.py, decisions.py) under the handlers that drive it          *)
(* (compressor.py) and above the protected-anchor index of the store        *)
(* (_vendor/lcm/store.py).                                                  *)
(*                                                                         *)
(* Evidence is an assistant span (an anchor) or a paired tool result.  It   *)
(* is ahead of the conversation, live in the active backlog, or condensed   *)
(* into a summary.  A handler collects the live evidence as candidates and  *)
(* then runs the flushes in `todo`; it holds the engine's lock throughout,  *)
(* so only a session start, which takes no lock, and a crash come between   *)
(* its steps.                                                               *)
(***************************************************************************)
EXTENDS Naturals, Sequences, FiniteSets

CONSTANTS
    Anchors, Tools,  \* the evidence of a conversation
    Sessions,
    Bypassed,        \* ignored or stateless sessions
    NoSession,
    Owner,           \* the session whose stored message holds the evidence, or
                     \* NoSession: text of an assembled summary or anchor block,
                     \* which maps to no stored row
    Rank,            \* message recency and offset, larger is later
    Size,            \* tokens of the candidate's entry
    Room,            \* tokens the shaped history leaves for candidates
    Cap,             \* jev_max_candidates_per_batch
    BatchWindow,     \* jev_batch_window_turns
    MaxDropped,      \* bound of jev_dropped_batches in the model
    StoreMayFail     \* whether an index write may fail for no fault of its rows

Evidence == Anchors \cup Tools

ASSUME PrepassNumbers ==
    /\ Cap \in Nat \ {0} /\ BatchWindow \in Nat \ {0} /\ MaxDropped \in Nat
    /\ StoreMayFail \in BOOLEAN
    /\ Room \in Nat /\ Size \in [Evidence -> Nat]
    /\ Rank \in [Evidence -> Nat]

ASSUME PrepassNames ==
    /\ IsFiniteSet(Evidence) /\ Anchors \cap Tools = {}
    /\ \A e, f \in Evidence : Rank[e] = Rank[f] => e = f
    /\ Bypassed \subseteq Sessions /\ NoSession \notin Sessions
    /\ Owner \in [Evidence -> Sessions \cup {NoSession}]

VARIABLES
    where,     \* "ahead", "live" or "condensed"
    moved,     \* message positions shifted since the last collect
    sid,       \* the engine's _session_id
    index,     \* the store's protected_anchor_index, per session
    held,      \* self.candidates
    action,    \* Candidate.action; "unscored" while jev_unscored
    dropped,   \* Candidate.jev_dropped_batches
    turns,     \* Batcher.turns, up to the window
    bound,     \* Prepass._session_id
    latch,     \* Prepass._index_write_failed
    unscored,  \* metrics["jev_unscored_count"]
    torn,      \* history: a collect died since the counts were taken last
    stage,     \* "idle", "flush" or "scoring" (a request is in flight)
    todo,      \* the `force` arguments of the flushes still to run
    after,     \* what the handler does when they are done
    batch,     \* the candidates of the request in flight
    prompt     \* the evidence in the last assembled anchor block

world == <<where, moved, sid>>
ranking == <<held, action, dropped>>
diagnostics == <<unscored, torn>>
binding == <<bound, latch>>
handler == <<stage, todo, after, batch>>
vars == <<world, index, ranking, turns, binding, diagnostics, handler, prompt>>

Fresh == [e \in Evidence |-> "unscored"]
NoDrops == [e \in Evidence |-> 0]

TypeOK ==
    /\ where \in [Evidence -> {"ahead", "live", "condensed"}]
    /\ moved \in BOOLEAN
    /\ sid \in Sessions
    /\ index \in [Sessions -> SUBSET Anchors]
    /\ held \subseteq Evidence
    /\ action \in [Evidence -> {"unscored", "keep", "truncate", "drop"}]
    /\ dropped \in [Evidence -> 0..MaxDropped]
    /\ turns \in 0..BatchWindow
    /\ bound \in Sessions \cup {NoSession}
    /\ latch \in BOOLEAN
    /\ unscored \in Nat /\ torn \in BOOLEAN
    /\ stage \in {"idle", "flush", "scoring"}
    /\ todo \in Seq(BOOLEAN)
    /\ after \in {"none", "reset", "compact"}
    /\ batch \subseteq held
    /\ prompt \subseteq Anchors

Init ==
    /\ where = [e \in Evidence |-> "ahead"]
    /\ moved = FALSE
    /\ sid \in Sessions
    /\ index = [s \in Sessions |-> {}]
    /\ held = {} /\ action = Fresh /\ dropped = NoDrops
    /\ turns = 0
    /\ bound = NoSession /\ latch = FALSE
    /\ unscored = 0 /\ torn = FALSE
    /\ stage = "idle" /\ todo = <<>> /\ after = "none" /\ batch = {}
    /\ prompt = {}

-----------------------------------------------------------------------------
(* Which candidates a request carries: state_shaper.shape. *)

Pending == {e \in held : action[e] = "unscored"}

\* candidate_priority: longest-starved, then anchors, then the latest.
Before(e, f) ==
    \/ dropped[e] > dropped[f]
    \/ /\ dropped[e] = dropped[f]
       /\ \/ e \in Anchors /\ f \in Tools
          \/ (e \in Anchors <=> f \in Anchors) /\ Rank[e] > Rank[f]

Place(e) == Cardinality({f \in Pending : Before(f, e)}) + 1
Slots == {e \in Pending : Place(e) <= Cap}
Nth(n) == CHOOSE e \in Slots : Place(e) = n

\* Tokens used once the first n slots have been tried; what does not fit is
\* skipped and the scan goes on.
Used ==
    LET u[n \in 0..Cardinality(Slots)] ==
          IF n = 0 THEN 0
          ELSE IF u[n - 1] + Size[Nth(n)] <= Room
               THEN u[n - 1] + Size[Nth(n)]
               ELSE u[n - 1]
    IN u

\* Mutant: the scan stops at the first candidate that does not fit.
Selected_bug ==
    {e \in Slots : \A n \in 1..Place(e) : Used[n - 1] + Size[Nth(n)] <= Room}

Selected == {e \in Slots : Used[Place(e) - 1] + Size[e] <= Room}

-----------------------------------------------------------------------------
(* Candidates: Prepass.collect, _starve, _counts. *)

Live(s) == {e \in Evidence : where[e] = "live" /\ Owner[e] \in {s, NoSession}}
Kept(H, a) == {e \in H : a[e] \in {"keep", "truncate"}}
KeptAnchors == Kept(held, action) \cap Anchors

\* A candidate whose id is unchanged keeps its score; the id hashes the message
\* position, so after a shift every candidate is a new one.
Known(e) == e \in held /\ ~moved
Holding(H) ==
    /\ held' = H
    /\ action' = [e \in Evidence |-> IF e \in H /\ Known(e) THEN action[e] ELSE "unscored"]
    /\ dropped' = [e \in Evidence |-> IF e \in H /\ Known(e) THEN dropped[e] ELSE 0]
    /\ moved' = FALSE

\* Mutant: the count of the waiting is left to the flush.
Collect_bug ==
    /\ Holding(Live(sid))
    /\ torn' = FALSE
    /\ UNCHANGED unscored

Collect ==
    /\ Holding(Live(sid))
    /\ unscored' = Cardinality({e \in held' : action'[e] = "unscored"})
    /\ torn' = FALSE

\* The order in which collect comes to the evidence.
Sooner(f, e) == \/ f \in Anchors /\ e \in Tools
                \/ (f \in Anchors <=> e \in Anchors) /\ Rank[f] < Rank[e]

\* An exception inside collect: the candidates it came to are held, none if it
\* came before the first, and the counts are the old ones.
CollectFails ==
    /\ \E H \in SUBSET Live(sid) :
          /\ \A e \in H, f \in Live(sid) : Sooner(f, e) => f \in H
          /\ Holding(H)
    /\ torn' = TRUE
    /\ UNCHANGED unscored

\* Every pending candidate the batch left out has waited once more.  Only the
\* order of the counts decides anything: at the bound of the model the others
\* count down instead.
AtBound(S) == \E e \in Pending \ S : dropped[e] = MaxDropped
Starve(S) ==
    dropped' = [e \in Evidence |->
        CASE ~AtBound(S) /\ e \in Pending \ S -> dropped[e] + 1
          [] AtBound(S) /\ e \in Pending \cap S /\ dropped[e] > 1 -> dropped[e] - 1
          [] OTHER -> dropped[e]]

Counts(a) ==
    /\ unscored' = Cardinality({e \in held : a[e] = "unscored"})
    /\ torn' = FALSE

\* Mutant: rows of another session are written.
Writable_bug(K) == \A e \in K : Owner[e] # NoSession

\* write_protected_anchor_index: every row must point into the session's own
\* messages or nothing is written; the failure is latched.
Writable(K) == \A e \in K : Owner[e] = bound
Persist(K, ok) ==
    IF bound = NoSession
      THEN UNCHANGED <<index, latch>>
      ELSE IF ok /\ Writable(K)
             THEN index' = [index EXCEPT ![bound] = K] /\ UNCHANGED latch
             ELSE latch' = TRUE /\ UNCHANGED index

-----------------------------------------------------------------------------
(* The handlers of compressor.py. *)

\* _ingest_messages: nothing for a bypassed session; otherwise bind and
\* collect, and flush once; an exception in between skips the flush.
Ingest(force, rest) ==
    \/ /\ sid \in Bypassed
       /\ todo' = rest
       /\ UNCHANGED <<moved, ranking, binding, diagnostics>>
    \/ /\ sid \notin Bypassed
       /\ bound' = sid /\ UNCHANGED latch
       /\ Collect
       /\ todo' = <<force>> \o rest
    \/ /\ sid \notin Bypassed
       /\ bound' \in {bound, sid} /\ UNCHANGED latch
       /\ todo' = rest
       /\ UNCHANGED <<moved, ranking, diagnostics>>
    \/ /\ sid \notin Bypassed
       /\ bound' = sid /\ UNCHANGED latch
       /\ CollectFails
       /\ todo' = rest

Enter(then) ==
    /\ stage = "idle"
    /\ stage' = "flush" /\ after' = then

\* on_turn_complete: tick, ingest, and a flush that is forced under pressure.
Turn(urgent) ==
    /\ Enter("none")
    /\ turns' = IF turns < BatchWindow THEN turns + 1 ELSE turns
    /\ Ingest(FALSE, <<urgent>>)
    /\ UNCHANGED <<where, sid, index, batch, prompt>>

\* on_session_end.
End ==
    /\ Enter("none")
    /\ Ingest(FALSE, <<TRUE>>)
    /\ UNCHANGED <<where, sid, index, turns, batch, prompt>>

\* on_session_reset: the old ranking is flushed to the session it is bound to.
Reset ==
    /\ Enter("reset")
    /\ todo' = <<TRUE>>
    /\ UNCHANGED <<world, index, ranking, turns, binding, diagnostics, batch, prompt>>

\* compress; a bypassed session never reaches the prepass.
Compress ==
    /\ sid \notin Bypassed
    /\ Enter("compact")
    /\ Ingest(TRUE, <<>>)
    /\ UNCHANGED <<where, sid, index, turns, batch, prompt>>

\* flush, up to the request: not due; nothing pending; nothing fits; sent.
Due == Head(todo) \/ turns >= BatchWindow
Skip ==
    /\ stage = "flush" /\ todo # <<>>
    /\ ~Due \/ Pending = {}
    /\ turns' = IF Due THEN 0 ELSE turns
    /\ todo' = Tail(todo)
    /\ UNCHANGED <<world, index, ranking, binding, diagnostics, stage, after,
                   batch, prompt>>

NothingFits ==
    /\ stage = "flush" /\ todo # <<>>
    /\ Due /\ Pending # {} /\ Selected = {}
    /\ turns' = 0
    /\ Starve({}) /\ Counts(action)
    /\ todo' = Tail(todo)
    /\ UNCHANGED <<world, index, held, action, binding, stage, after, batch, prompt>>

Request ==
    /\ stage = "flush" /\ todo # <<>>
    /\ Due /\ Selected # {}
    /\ turns' = 0
    /\ stage' = "scoring" /\ batch' = Selected
    /\ UNCHANGED <<world, index, ranking, binding, diagnostics, todo, after, prompt>>

Resume ==
    /\ stage' = "flush" /\ todo' = Tail(todo) /\ batch' = {}
    /\ UNCHANGED <<world, held, turns, bound, after, prompt>>

\* Scores arrived: decide the batch, write the index, charge the others.
Decisions ==
    {d \in [batch -> {"keep", "truncate", "drop"}] :
       \A e \in batch \cap Anchors : d[e] # "truncate"}
Decided(d) == [e \in Evidence |-> IF e \in batch THEN d[e] ELSE action[e]]

\* Mutant: only the anchors of this batch are written.
Score_bug(d, ok) ==
    /\ stage = "scoring"
    /\ action' = Decided(d)
    /\ Persist(Kept(batch, Decided(d)) \cap Anchors, ok)
    /\ Starve(batch) /\ Counts(Decided(d))
    /\ Resume

Score(d, ok) ==
    /\ stage = "scoring"
    /\ action' = Decided(d)
    /\ Persist(Kept(held, Decided(d)) \cap Anchors, ok)
    /\ Starve(batch) /\ Counts(Decided(d))
    /\ Resume
Writes == IF StoreMayFail THEN BOOLEAN ELSE {TRUE}
Scored == \E d \in Decisions, ok \in Writes : Score(d, ok)

\* ProviderError: no decision is invented; the batch is not charged.
Unanswered ==
    /\ stage = "scoring"
    /\ Starve(batch) /\ Counts(action)
    /\ Resume
    /\ UNCHANGED <<index, action, latch>>

Leave == stage = "flush" /\ todo = <<>> /\ stage' = "idle" /\ after' = "none"

Done ==
    /\ Leave /\ after = "none"
    /\ UNCHANGED <<world, index, ranking, turns, binding, diagnostics, todo, batch, prompt>>

\* A new Prepass; the store and its index stay.
Blank ==
    /\ held' = {} /\ action' = Fresh /\ dropped' = NoDrops
    /\ turns' = 0 /\ bound' = NoSession /\ latch' = FALSE
    /\ unscored' = 0 /\ torn' = FALSE

DoReset ==
    /\ Leave /\ after = "reset"
    /\ Blank
    /\ UNCHANGED <<world, index, todo, batch, prompt>>

\* persisted_protected_anchors, or the volatile ones when it returns no row.
Rows(s, readable) ==
    IF latch \/ ~readable \/ index[s] = {} THEN KeptAnchors ELSE index[s]

\* Nothing to compact: no assembly.
CompactNoop ==
    /\ Leave /\ after = "compact"
    /\ UNCHANGED <<world, index, ranking, turns, binding, diagnostics, todo, batch, prompt>>

\* Mutant: the assembly does not bind the current session.
Compact_bug(C, U, readable) ==
    /\ Leave /\ after = "compact"
    /\ C # {}
    /\ \E s \in {sid, bound} :
          /\ C \subseteq Live(s)
          /\ \A e \in C, f \in Live(s) \ C : Rank[e] < Rank[f]
    /\ U \subseteq {e \in Evidence : Owner[e] = NoSession /\ where[e] = "ahead"}
    /\ where' = [e \in Evidence |-> CASE e \in C -> "condensed"
                                      [] e \in U -> "live"
                                      [] OTHER -> where[e]]
    /\ moved' \in BOOLEAN
    /\ prompt' = IF bound = NoSession THEN KeptAnchors ELSE Rows(bound, readable)
    /\ UNCHANGED <<sid, index, ranking, turns, binding, diagnostics, todo, batch>>

\* The evidence in C, the oldest of the messages at hand, is condensed; what
\* follows it moves unless as many summaries as messages took its place; the
\* active context is assembled with the anchor block of the current session,
\* and U of the assembled text is evidence of its own.
Compact(C, U, readable) ==
    /\ Leave /\ after = "compact"
    /\ C # {}
    /\ \E s \in {sid, bound} :
          /\ C \subseteq Live(s)
          /\ \A e \in C, f \in Live(s) \ C : Rank[e] < Rank[f]
    /\ U \subseteq {e \in Evidence : Owner[e] = NoSession /\ where[e] = "ahead"}
    /\ where' = [e \in Evidence |-> CASE e \in C -> "condensed"
                                      [] e \in U -> "live"
                                      [] OTHER -> where[e]]
    /\ moved' \in BOOLEAN
    /\ bound' = sid
    /\ prompt' = Rows(sid, readable)
    /\ UNCHANGED <<sid, index, ranking, turns, latch, diagnostics, todo, batch>>

-----------------------------------------------------------------------------
(* The host. *)

\* A message with evidence leaves the fresh tail and becomes rankable.
Chat(e) ==
    /\ stage = "idle"
    /\ where[e] = "ahead" /\ Owner[e] = sid
    /\ \A f \in Evidence : Owner[f] = Owner[e] /\ where[f] # "ahead"
                             => Rank[f] < Rank[e]
    /\ where' = [where EXCEPT ![e] = "live"]
    /\ UNCHANGED <<moved, sid, index, ranking, turns, binding, diagnostics, handler, prompt>>

\* on_session_start takes no lock and leaves the prepass alone.
Start(s) ==
    /\ s # sid /\ sid' = s
    /\ UNCHANGED <<where, moved, index, ranking, turns, binding, diagnostics, handler, prompt>>

\* The process dies at any point; the store survives it.
Crash ==
    /\ Blank
    /\ stage' = "idle" /\ todo' = <<>> /\ after' = "none" /\ batch' = {}
    /\ UNCHANGED <<world, index, prompt>>

Handler ==
    \/ Skip \/ NothingFits \/ Request \/ Scored \/ Unanswered
    \/ Done \/ DoReset \/ CompactNoop
    \/ \E C, U \in SUBSET Evidence, readable \in BOOLEAN : Compact(C, U, readable)

Step ==
    \/ \E urgent \in BOOLEAN : Turn(urgent)
    \/ End \/ Reset \/ Compress
    \/ Handler
    \/ \E e \in Evidence : Chat(e)
    \/ \E s \in Sessions : Start(s)

Next == Step \/ Crash

Spec == Init /\ [][Next]_vars

\* Turns keep coming and not every ingest fails, a handler goes on, and a
\* provider that is asked about a candidate again and again answers again and
\* again.
Collecting == \E urgent \in BOOLEAN : Turn(urgent) /\ Collect
Fairness ==
    /\ SF_vars(Collecting)
    /\ WF_vars(Handler)
    /\ \A e \in Evidence : SF_vars(e \in batch /\ Scored)

\* Liveness is asked of a process that stays up.
FairSpec == Init /\ [][Step]_vars /\ Fairness

-----------------------------------------------------------------------------
(* Properties. *)

\* While the write latch is off, every anchor Jev decided to keep is durable:
\* it is in the index of the session that stored it, whatever ingests failed,
\* sessions changed or requests were in flight since the decision.
KeptIsIndexed ==
    ~latch => \A e \in KeptAnchors : Owner[e] # NoSession /\ e \in index[Owner[e]]

\* The index of a session only points into that session's messages.
IndexIsOwn == \A s \in Sessions : \A e \in index[s] : Owner[e] = s

\* jev_stats reports the candidates that wait, between flushes too; a collect
\* that died leaves the old count, which the next collect or flush corrects.
UnscoredIsHonest == ~torn => unscored = Cardinality(Pending)

\* A message with evidence becomes part of a summary.
Condenses == \E e \in Evidence : where[e] = "live" /\ where'[e] = "condensed"

\* The prompt assembled now carries every kept anchor of the current session.
CarriesKept == {e \in KeptAnchors : Owner[e] = sid} \subseteq prompt'

\* "Evidence Jev decided to keep never reached the prompt" (CHANGELOG 1.2.0):
\* every assembly that condenses carries the kept anchors, from the index or
\* from memory, whatever writes or reads of the index failed before.
KeptReachesPrompt == [][Condenses => CarriesKept]_vars

\* Candidates that fit a request drain: none waits behind the cap forever
\* (candidate_priority: "the queue drains instead of freezing").
Drains ==
    \A e \in Evidence : Size[e] <= Room => (e \in Pending ~> e \notin Pending)

\* A kept anchor with a stored message is in the durable index.
StoredKeptIsIndexed ==
    stage = "idle" =>
        \A e \in KeptAnchors : Owner[e] # NoSession => e \in index[Owner[e]]
=============================================================================
