# Formal model of the Jev/LCM compaction engine

This directory holds TLA+ models of `jev-lcm-hermes-compaction`: the ranking
layer that decides which evidence of a long conversation stays visible, the
chain of scoring providers it asks, the text blocks it puts into the prompt,
and the lossless archive (the vendored LCM) underneath with its daily, weekly and
monthly rollups. TLC checks the models on small instances, TLAPS proves the
central invariants for every value of the constants. Paths below are relative to
`src/src/jev_lcm_hermes_compaction/` unless they say otherwise.

## The system

A host (Hermes) drives one *engine* per agent. The engine stores every message
in SQLite (the vendored LCM), ranks old evidence with a remote or local scoring
model (Jev), and replaces old messages by summaries plus a block of protected
evidence.

| Component | State | Operations | Interacts with |
|---|---|---|---|
| Compressor handlers (`compressor.py`) | the engine's lock, `_jev_compacting`, `_jev_assembling` | `on_turn_complete`, `on_session_end`, `on_session_reset`, `compress`, `clone_for_agent`, tool calls | called by the host; call LCM and the prepass under the engine's lock. `on_session_start` is LCM's own and takes no lock |
| Prepass (`prepass.py`, `batcher.py`) | candidates with their decision and wait count, turn counter, bound session, failed-write latch, metrics | `collect`, `flush`, `bind_storage`, the two blocks | called by the handlers; calls shaping, the chain, the calibrator and the store's index |
| Request shaping (`state_shaper.py`) | none | shrink ladder, fold, admission order, cap, two budgets | called by `flush` |
| Provider chain (`providers.py`) | order, cooldown map, error map, last provider; **per process**: the local failure count and the time of the last one | `score`, rebuild | called by `flush` from any thread; calls providers over HTTP |
| Provider wire formats (`jev_client.py`, `providers.py`) | none | Clef id mapping, answer validation | called by the chain |
| Calibrator (`calibration.py`) | rolling window of scores, current threshold | `observe`, `retained_indices` | called by `flush` |
| Decisions, anchors (`decisions.py`, `anchors.py`) | none | questions, `decide`, `extract` | called by `collect` and `flush` |
| Protected-anchor index (`_vendor/lcm/store.py`) | rows per session | all-or-nothing replacement, ordered read | survives the process |
| Mode routing (`settings.py`, `ProviderChain.__init__`) | frozen settings | alias, pin and keys to provider order | read once per chain |
| Metrics (`metrics.py`) | counters | `compaction` | written by prepass and compressor, read by tools |
| Archive engine (`_vendor/lcm/engine.py`, `compaction.py`, `reconcile.py`) | **memory**: bound session, ingest cursor, whether it must be reconciled, frontier; the compaction in progress | ingest, compaction, session start, end and rollover, compression boundary | base class of the compressor; called by the handlers |
| Archive storage (`_vendor/lcm/store.py`, `dag.py`, `lifecycle_state.py`) | messages by session, summary nodes with depth and sources, one lifecycle row per conversation | append, node insertion, moving and deleting of nodes, frontier | SQLite; survives the process |
| Temporal rollups (`_vendor/lcm/rollup_store.py`, `rollup_builder.py`, `rollup_periods.py`) | a row per day, week and month of a session with its status, lease and sources; an outbox of changed nodes, written by triggers | drain, claim, build of a day or an aggregate, publish, settle; maintenance pass, operator's rebuild; read by `lcm_recent` | the engine writes nodes; builders of one or more processes and readers share the database |
| Rest of the vendored LCM | vectors, trajectories, externalized payloads | retrieval, tools, maintenance | reads the archive |

What is hard about it:

- **Shared state with different lifetimes.** Cooldowns belong to a chain, the
  breaker count to the process; the ranking lives in memory, the index on disk;
  the session binding changes when an ingest or an assembly runs, the session
  itself changes without the lock.
- **Failure in the middle.** `collect` empties the candidates before it reads
  the messages, the index write is refused as a whole, a provider may answer for
  a batch that others wait behind.
- **Progress.** Candidates wait behind a cap and behind candidates that fit no
  request; a tripped breaker suppresses the calls that could clear it.
- **Two books of one conversation.** The host's list and the store are kept in
  step by a number, the ingest cursor. Compaction replaces the list, a boundary
  changes the session under it, a restart forgets the number, and a subagent
  hands in messages of its own.
- **Derived rows.** A rollup is built from reads that share no transaction, while
  nodes come and go and other processes build the same row. Leases, an outbox and
  checks at the moment of publication have to make up for it.
- **Budgets.** Rows of any size are packed under a token budget, with receipts
  and drop counts that must agree with what is shown.

## Modules

| Module | Models | Checked by | Proved in |
|---|---|---|---|
| `ProviderChain` | `ProviderChain.score`, the breaker, rebuilds, restarts, several chains in one process | `MCProviderChain` | `ProviderChainProofs` |
| `LocalBreaker` | abstract: what the breaker promises | (refined by `ProviderChain`) | |
| `Prepass` | `prepass.py`, `batcher.py`, the admission of `state_shaper.py`, the handlers of `compressor.py`, the index of `store.py` | `MCPrepass` | `PrepassProofs` |
| `EvidenceBlock` | `hint_block`, `active_context_block` | `MCEvidenceBlock` | `EvidenceBlockProofs` |
| `ModeRouting` | `resolve_mode`, `Settings.__post_init__`, `ProviderChain.__init__` | `MCModeRouting` | `ModeRoutingProofs` |
| `ClefWire` | `ClefProvider.score`, the id mapping and validation of `jev_client.py` | `MCClefWire` | `ClefWireProofs` |
| `BatchScoring` | `shape` of `state_shaper.py`, `calibration.py`, `decisions.py`, the path of a batch through `flush` | `MCBatchScoring` | `BatchScoringProofs` |
| `LcmArchive` | ingest, replay check, compaction, boundaries, session ends and restarts of the vendored LCM with its tables, and the compressor's calls of them | `MCLcmArchive` | `LcmArchiveProofs` |
| `Rollups` | the outbox and its triggers, leases, daily and aggregate builds, maintenance passes, rebuilds, crashes, `lcm_recent`'s reads | `MCRollups` | `RollupsProofs` |

Operators with a lower-case suffix (`_bug`, `_early`, `_staleCursor`, ...) are deliberately
wrong versions of a definition that follows them. They are never used by the
specifications; substituting one shows that the property it is meant for notices
the difference.

### ProviderChain

Each chain is a small process: `Start` reads the cooldown map once and fixes the
list of available positions (`providers.py:438`), `Send` puts the request on the
wire, `Receive` takes the answer or one of five kinds of failure. A failure
whose reason is no trigger ends the request (`FailHard`); a local failure with a
hosted successor is counted and asks the breaker (`LocalFail`); a hosted failure
with a successor falls through (`HostedFail`); the last available hop is retried
and then cooled down (`Retry`, `Exhaust`). Between `Send` and `Receive` any other
chain may move, time may pass and providers may go up or down: the lock of the
breaker covers only the count itself.

Time is relative. `left[c][p]` is what remains of a cooldown and `age` the
silence since the last counted failure, saturating at the window; the count
saturates one above the limit because nothing distinguishes larger counts. The
state space is finite without any bound on time. A cooldown is checked with the
same clock that set it, so `left = 0` is `cooldowns[p] <= clock()`.
A timeout is an ordinary failure: the provider was not up when the call ended.

`Rebuild` is `on_session_reset` and `clone_for_agent` (a new chain, the same
process); `Restart` is a new process at any moment, requests in flight included.

### LocalBreaker

Two variables, no clocks, no cooldowns, no order: a request may leave for a
hosted provider only while at most `Limit` failures are in the streak, and no
local failure is counted while a request is away. `ProviderChain` implements it
under the mapping `streak <- fails`, `away <- Away` when the process runs at most
one local-first chain. With two it does not; `chain_bypass` shows how.

### Prepass

A handler is a sequence of steps under the engine's lock: it collects, then runs
the flushes listed in `todo`, then resets or assembles (`after`). A flush is
skipped, finds nothing that fits, or puts a request in flight (`Request`) that
is answered (`Score`) or not (`Unanswered`). A session start (`Start`) and a
crash come between any two steps.

- Evidence is an anchor in an assistant message or a paired tool result. It is
  `ahead` of the rankable part of the conversation, `live`, or `condensed`.
  `Owner` says which session's stored message holds it; `NoSession` stands for
  text of an assembled summary or anchor block, which maps to no stored row.
- A candidate's id hashes the position of its message. `moved` records that
  positions shifted since the last `collect`, after which every candidate is new.
- `Selected` is the batch: the first `Cap` candidates of `candidate_priority`,
  those skipped that do not fit `Room` any more. `Size` and `Room` stand for the
  shaped request (its ladder and its two budgets are one number here;
  `BatchScoring` has them).
- `Decisions` are the outcomes `decide` can reach for any scores; the
  calibrator's threshold, in `BatchScoring` too, is abstracted into that choice.
- `Ingest` has four outcomes, those of the code: bypassed session; collected;
  an exception before or after the binding; an exception inside `collect`. `CollectFails`
  leaves what the loops had added when it came, anchors in the order of their messages before
  tool results (`Sooner`), and the counts of the collect before
  (`prepass.py:104-166`); `torn` remembers it. The candidates that are missing have lost
  their decisions, so the next write of the index drops them. After an exception the flush
  inside the ingest is skipped but the one of the handler still runs.
- `Persist` writes the index of the *bound* session and refuses all rows when
  one is not that session's; `Rows` is what an assembly shows: the index, or the
  volatile candidates when it is latched, unreadable or empty.
- `Compact` condenses the oldest messages of either the session the handler
  started with or the present one, since a session start may have come in
  between. Whether positions move depends on how many summaries replace how
  many messages, so it is a choice.

### EvidenceBlock

One step per row in order of the score. `Fits` is the test of both loops with
the line separator counted in the row's size (the JSON quotes of `tokens` are
part of `Header`, characters that escape are part of their row). `Unseen` is
`len(rows) - scanned`, added to the drop count when the cap ends the scan.

### ModeRouting

`Load` resolves a name to its mode and pin, with the fallback order, the switch
and the pin that a configuration may hold beside it. `Build` reads the
environment and either fixes the order of the chain or raises, in which case no
engine is registered; `Reset` does it again, and when it raises the old chain
stays. `Export` changes the environment at any moment. The order and the
environment it was built from are kept together, because a chain goes on using
the keys it found. The loop that keeps the providers with a key is a recursive function of the
position (`Keyed`), so that it can be reasoned about.

### ClefWire

One call of `ClefProvider.score` after the other. `Ask` fails without a token or
an account and above the limit; `MapOne` gives the next id its wire id, with
suffixes tried in order until one is free; `Send` builds the URL; Clef answers
with any subset of the ids and any value, or not at all. An id is its form with
two numbers, so a caller may use the very ids the code would generate. A scale is
its number of points: two for a probability, one per criterion otherwise. TLC's
deadlock check shows that a free suffix always exists.

### BatchScoring

One batch after another, each in four stages. `Begin` takes a conversation and the
candidates that wait, in the order of admission `Prepass` gives them. `Shrink`
climbs the five tiers until the state fits; at the last one `Fold` empties the
history and `TakeBack` returns the newest messages while they fit half of the
budget. `Admit` and `PassOver` walk the first `Cap` candidates: one is admitted
when its text fits the state's budget and its text and questions the request's.
Then the batch is asked about, and `Scored` is the rest of `flush`: the scores
enter the window (two of a tool result, one of an anchor), the threshold is taken
from the window, and each candidate is decided against it, the best `Quota` of the
batch being kept whatever it says.

A conversation is its size at each tier and the sizes of its messages at the
last one; a text is a size. `mode` holds the settings that do not change: the share,
whether the bound is conservative, and whether calibration is on at all. The answers are every
function from their positions into `0..Unit`; a candidate's own score stands at `At(i)`, its
call's just before. The
threshold is a number of `1/Unit^2`, so the interpolation between two samples is
exact, while the code rounds to floats. `Ranked(s, k)` is the k-th smallest sample
by counting, without sorting. `Margin` stands for
the square root of the confidence bound, rounded up to `1/Unit`.

### LcmArchive

The host is part of the model: what it was told (`said`), the messages it now
passes (`ctx`), its transcript (`log`), its session. Every message carries the
number under which it was said (`uid`), which only properties look at: the
program compares `Identity`, that is kind and text, and two messages may have
the same text.

- The host's conversation may begin with a system prompt or with a user turn. `Anchor` is
  `_leading_anchor_count`: only a system prompt stays in front of the summaries. Without one
  the leading user turn is scaffold-checked, compacted and mapped to its row like any other, and the
  compressed prompt begins with the summary.
- `From`, `Appended` and `Advanced` are `_ingest_messages`: everything behind the
  cursor is appended and the cursor moves to the end. After a restart the cursor is
  `Reconciled`: the longest prefix that replays the whole stored session and is more
  than one ambiguous turn. `Shown` are the positions of a prefix that are no scaffolding;
  the *i*-th of them is compared with the *i*-th stored row (`InOrder`).
- A compaction is a sequence of steps, as in the code: `Compress` ingests, `Leaf`
  writes a node for an oldest part of what is not fresh (how much is up to the
  summariser, which may give up messages at the end), `Frontier` sets the mark in
  memory and in the lifecycle row, `Condense` condenses the oldest `Fanin` nodes of each
  ripe depth, `Publish` hands the host the assembled prompt and recounts the cursor.
  `Abort` (an exception) and `Crash` may come between any two of them; the handlers
  hold the engine's lock, so no other handler does.
- `IdsOf` is `_get_store_id_map_for_messages`, which finds a leaf's source rows by
  text, in order, above the frontier.
- `Exit` is a session end with a process end; `Resume` a start in a new process, the
  host coming back with its transcript, its compressed prompt, or new messages only.
- `Boundary` carries the compressed conversation to a new session, `NewSession` is `/new`, and
  `ChildEnd` the end of a subagent's session as the compressor handles it.

`trouble` remembers what has gone wrong so far. It guards nothing, except that each
kind happens once, and lets a property say under which history it holds.

### Rollups

Rollups are opt-in (`temporal_rollups_enabled`). One session of one database. The engine publishes nodes (`Publish`) and deletes or
reassigns them in batches (`Withdraw`); each change appends the events its triggers
write. `Reconcile` is the drain after a change, which may come late or not at all. Every
builder is a process of its own: a pass (`Pass`) or an operator's rebuild (`Rebuild`)
gives it a list of periods, and each build is a sequence of steps, one per transaction
or read of the code:

- a day: `Claim`, `Read`, then `MarkReady` and `Spread`, or `Resolve`, or `Refuse`;
- an aggregate: `Claim`, `Statuses`, `Content`, `Collect`, `Canon`, then `MarkReady` or
  `Refuse`, or `Defer`, or `Resolve`.

`Fail` (an exception) and `Crash` may come at any of them. A lease is the name of its
builder; `Nobody` is the empty nonce and `Orphan` the nonce of a builder that died, which
only `Pass` can take back (`expired`). The generation counter changes
with the nonce, so it is not kept. A lease may expire at any moment, also while its
builder works: no clock is assumed.

- A summary is the set of nodes it is made of, in `sources`; a node is a span of days and what is
  under it: the nodes it condenses, the nodes they condense, and so on (`Under`, the lineage that
  `load_source_lineage` walks), to any depth. `Kids` are its sources. A node is written while
  its sources are there and goes only when all that is left under it goes too, because deletions
  take the lower depths. `ForestAssumption` restricts the model to nodes condensed once, as
  `LcmArchive`'s `Forest` has it (overlapping lineages make the code fail the build).
- A drain and the claim after it are two transactions, as are the drain, the reclaim and the
  selection of a pass. They are one step each: what comes between them could as well come before or
  after.
- A reassigned node counts as deleted. The code still finds it by its number, but
  then an event of it is waiting or the lease is gone, and nothing is published.
  Nodes enter a session one at a time and with the nodes they condense.
- The process-wide queue of maintenance jobs (`_RollupMaintenanceScheduler`) keeps two
  passes of one process apart. It is left out; a second builder is another
  process, and nothing proved here needs the queue.
- `due` is the set of failed rows whose backoff is over, any subset at any time.
- `purge_rollups_for_sources`, `mark_stale_for_day` and `upsert_stale` are called by nothing in the
  repository and are left out.

`moments` is a history of the reader: the sets of nodes there were since it looked at
the outbox. It guards only that the reader finishes one read before the next.

## Runs

| Run | Expectation | Question |
|---|---|---|
| `chain_single` | holds | does one local-first chain with two hosted hops, two reasons, retries, rebuilds and restarts keep the breaker's promise and its own books, and once restarts stop, do requests end and does the chain return to a local server that is back? |
| `chain_bypass` | violated | is nothing sent to a hosted API while the breaker is tripped, with two local-first chains? |
| `prepass_two` | holds | do three sessions, one bypassed, summary text, session starts at any moment, failed ingests, writes and reads, and crashes keep the indexes apart, what was kept durable (or the latch set) and in every condensed prompt, and the counts right? |
| `prepass_drain` | holds | is every candidate that fits eventually scored? |
| `prepass_stored` | violated | is every kept anchor that has a stored message in the index? |
| `block_render` | holds | are both blocks within the budget, without crowding out, with honest receipts? |
| `mode_routing` | holds | does every name, order, pin and environment lead to an order the chain may assume and the mode promises, rebuilds included? |
| `clef_wire` | holds | is every Clef request legal and complete, and does every score come back to its own question? |
| `batch_scoring` | holds | is each request within both budgets and as full as it can be, and does each batch keep its share, the best first, by a threshold that follows the window? |
| `lcm_archive` | holds | do the store, the prompt and the summaries account for everything said, through compactions that fail anywhere, restarts, boundaries and resets? |
| `rollups` | holds | is every rollup that counts as current built from what is there, is no period forgotten, and does a reader get what was right while it read? |
| `lcm_child_end` | violated | does the end of a subagent's session leave the foreground session's messages alone? |

The runs check no types of `ProviderChain`, `Prepass`, `EvidenceBlock` and `BatchScoring`: their
`TypeOK` is proved for every value of the constants.

### Properties

`ProviderChain`

- `NoEgressWhileTripped`: past the limit no request of a local-first chain is at
  a hosted hop. It depends on two mechanisms that know nothing of each other,
  the cooldown map and the count; a suppressed local failure must not cool the
  local hop down, or the next request would begin at a hosted one.
- `BreakerPromise`: the chain implements `LocalBreaker`.
- `CoolingExplained`: a provider in cooldown has its last error on record.
- `SkippedOnlyAfterError`: a request passes over a provider only if that
  provider's last call failed.
- `NeverCallsCooling`: the list of available providers, fixed at the start,
  never leads to a call of one that cools down.
- `RequestEnds`, `LocalReturns`, `BreakerHeals`: progress.
- `NoEgressPastTrip`: what a comment says, refuted.

`Prepass`

- `KeptIsIndexed`: without the latch, every kept anchor is in the index of the
  session that stored it.
- `IndexIsOwn`: an index holds only rows of its session.
- `KeptReachesPrompt`: an assembly that condenses carries every kept anchor of
  the current session, before the text budget of the block.
- `UnscoredIsHonest`: the reported number of waiting candidates is right between
  flushes too, unless a `collect` died since it was taken. After such a failure
  `jev_stats` goes on reporting the number of the collect before, until the next collect or
  flush that asks a provider.
- `Drains`: a candidate that fits a request does not wait forever.
- `StoredKeptIsIndexed`: `KeptIsIndexed` without the latch as an excuse, refuted.

`EvidenceBlock`

- `WithinBudget`, `NothingCrowdedOut`: the block fits, and no row displaces
  another that would have fitted.
- `HintAccounts`, `AnchorAccounts`: the drop counts and receipts against the rows
  walked. The anchor count is exact until the cap ends the scan and then may be
  too high: skipped rows are in it twice (`prepass.py:364`; `docs/reference.md:395`
  promises the exact number).

`ModeRouting`

- `OrderSound`: the assumption `ProviderChain` makes of every order, and no
  hosted hop without a key at the time of the build.
- `ModeDecides`: which side may be reached in each mode, and which leads; what a pin
  decides under `api_only` (the one hop, with its key and Clef's account) and that it has no
  say in any other mode, `clef_with_local_fallback` included.
- `SideIsStable`: the same across rebuilds while keys come and go.

`ClefWire`

- `WireIsLegal`: a request is legal, complete, within the limit, and renames no
  legal id.
- `RoundTrip`: every id asked about gets the score of its own question, on that
  question's scale.

`BatchScoring`

- `WithinBudgets`: what is sent is within both budgets, for every ladder and fold.
- `NothingElseFits`: no candidate the cap lets through waits while it would fit.
- `FoldMakesRoom`: a folded conversation never makes a candidate wait that takes
  half of the state and what the request has left. A conversation that just fits
  may: nothing reserves room for candidates before the fold.
- `MinimumKept`, `BestKept`: whatever the threshold, a batch keeps its share, and
  nothing is kept before something with a better score. Kept rows come from two
  rules, threshold and share, that rank by different things.
- `ThresholdFollows`: at most the configured share of the window is below the
  threshold, rounded up, through cap, confidence bound and interpolation.

`LcmArchive`

- `NothingLost`: each message said is stored or still in front of the cursor. A process that
  cannot be certain (it was resumed with a compressed prompt, with new messages
  only, or with a single turn) may take a message for a stored one of the same
  text; it loses no text.
- `StoreIsTranscript`: in a certain history row *i* is message *i*, no scaffolding, none twice.
- `PromptCovers`: every message of the session is in the prompt or under a summary in it, and
  nothing but a system prompt stands in front of a summary: no user turn stays raw for good
  ("replayed forever as fresh-looking intent", `compaction.py:536-539`).
- `LineageExact`: in an undisturbed history a leaf's source rows hold exactly the texts it
  summarises, and no row is under two leaves.
- `Forest`: no summary is condensed twice, and sources lie one depth below.
- `ChildLosesNothing`: what the vendored README promises of normal operation, refuted.

`Rollups`

- `ReadyIsCurrent`: a ready row with no waiting change of its days has exactly the sources
  a build would read now. Whoever built it, whenever it read, whatever was lost in
  between. A week or month is included, though it is assembled from days that others
  rebuild meanwhile.
- `NothingForgotten`: a period without a row and without a waiting change has no content, except for
  nodes older than the feature; a row cleared for want of sources would otherwise be
  the one nobody ever builds again.
- `ServesCurrent`: what a reader gets was right at some moment of its read.
- `TypeOK`: a row carries a nonce exactly while it is being built, which is what makes a
  lost lease visible.

### Bounds

- Chains: one or two chains, two or three providers, one or two reasons, one
  retry at most (none in `chain_bypass`), cooldowns of one or two ticks and windows of two or three,
  limits one or two. A cooldown shorter than the window, as in the shipped
  settings, with the limit reachable several times. Three providers give a middle
  hop (neither local nor last). Chains of other modes in the same process are
  covered by the theorems, which hold for any set of chains.
- Prepass: three pieces of evidence. In `prepass_two` one belongs to the session
  the engine starts with, one to another, one to no stored message, with `Cap` 1 so that
  something always waits; in `prepass_drain` one fits no request and one fits only alone.
  `BatchWindow` 2, so that an unforced flush can be not due; `MaxDropped` 2 (1 in
  `prepass_two`). Wait counts matter only by their order; at the bound, instead
  of counting a waiting candidate up, the chosen ones count down.
- Blocks: up to five rows of three sizes against a budget of eight and a cap of
  two rows, so every order of fitting, skipped and capped rows occurs.
- Modes: all 15 accepted names, all 15 fallback orders of three hosted providers,
  every set of keys; nothing is left out but the number of providers.
- Clef: up to four questions of six ids (two illegal, one plain, three of the
  generated form) against a limit of three, scales of one, two and three points.
- Batches: six conversations (fits; fills the budget exactly; fits at the second
  tier; folded to one message, to all but the oldest, to none), candidates that are
  small, half the budget, and too large, a cap of two with a longer queue; scores in
  thirds, keep rates of one and two thirds, a window of four with a minimum of three, so
  that the window is short, full and overwritten, with and without the bound and the
  calibration.
- Archive: two texts, two sessions, a fresh tail of one, a fanin of two, depths up to
  two, and six events: messages of the host and kinds of trouble together. Five messages fill two
  depths; four leave two troubles, in any order and place. Larger
  instances of the same run (five messages and two troubles, four and three) were
  also explored completely without a violation.

- Rollups: two days and their week; one node of the first day, older than the feature, and one of
  both days that condenses it, so that spans, suppression, deletion of a parent and of a
  child, and an event half drained (day budget 1) occur. Two builders that are
  interchangeable (symmetry: no property names one), a limit of one period a pass, and
  rebuilds of either day, which reach the week too. Two larger instances were explored once, completely and
  without a violation: a limit of two (7.6 million states), and a chain of three nodes, each
  condensed by the next, the first two older than the feature (7.4 million). The theorems hold
  for every depth.

### Fairness

- `ProviderChain`: the clock runs; a chain that can start, send or receive
  eventually does (a call ends because it has a timeout, `request_timeout_s`;
  batches keep coming). Nothing is assumed about providers: the properties name
  the provider that must be up. The properties speak of behaviours in which restarts come to
  an end (`Up`); two local-first chains that trip the breaker for each other were explored once too.
- `Prepass`: a handler that has begun goes on; turns whose ingest succeeds recur
  (strong fairness, because a session start or a handler in progress may disable
  one for a while); a provider that is asked again and again answers again and
  again, about each candidate that is in the requests again and again (strong fairness of
  `e \in batch /\ Scored` for each `e`). That is stronger than an answer now and then: a collect
  that dies loses scored candidates, the next one brings them back as new, and if the
  answers always came for those, another candidate whose requests always fail would wait for good. Nothing in
  the code ties an answer to what is asked, which is what the assumption says. Crashes are left
  out: after the last one the system is again in an initial state.

- `BatchScoring` and `LcmArchive` have no liveness properties: a batch and a
  compaction are straight-line code under a lock; what must eventually happen to a
  waiting candidate is `Drains`. `Rollups` has none either: a drain, a pass or a rebuild
  happens when the host binds a session, and the code promises no more.

## What the refuted runs show

All were reproduced on the Python code.

1. `chain_bypass`: the breaker is asked only when a local call fails. A chain
   whose local hop is still cooling down starts at the hosted provider even
   though another chain's failures have tripped the shared count
   (`providers.py:438` against the comment at 40-44).
2. `prepass_stored`: the anchor block that an assembly injects is itself an
   assistant message and is scanned for anchors. They have no `store_id`; once
   one is kept, the write of all rows is refused and the latch is set.
3. `lcm_child_end`: `on_session_end` of the compressor ingests before it calls the
   vendored handler, whose guard against ends of other sessions comes too late
   (`compressor.py:148`, `_vendor/lcm/engine.py:3224-3250`). The subagent's messages are
   stored under the foreground session and the cursor moves by their number; as many of
   the next foreground messages are never stored, and a later compaction summarises
   messages whose rows it cannot find.

Disagreements met on the way that have no run:

- A candidate that fits no request keeps its slot, because the cap takes its prefix before
  sizes are looked at (`state_shaper.py:57`): with as many of them as the cap allows the
  queue freezes, against the comment at 101-103. `prepass_drain` has fewer of them.
- `clef_with_local_fallback` resolves to a mode whose branch never
  reads the pin (`providers.py:379-390`, against `settings.py:31`). With the shipped fallback
  order the chain has no Clef in it; with only the Cloudflare variables set, loading fails
  and asks for the keys of TypeSafe and OpenRouter.
- Rows of the tail that a compression boundary carries stay under the old session, and a leaf
  looks for its sources under the new one: when they are compacted later the leaf has no
  source rows, although summaries are to "retain source lineage"
  (vendored `README.md:64`). `LineageExact` therefore speaks of undisturbed histories.
- In a resumed process a compressed prompt plus a new message that repeats a stored text is taken as a
  replay, and a single stored turn is stored again (`reconcile.py:581-600`). `Certain` excludes both.
- The end of the previous session, arriving after the start of the next one, is ingested into
  the next one, as a subagent's is.
- After a clean exit the lifecycle row has no current session and the resumed engine starts with
  a frontier of zero, so a leaf may take rows again that are summarised already.
- `/new` with a retain depth of two deletes the leaves a carried node could be expanded to
  (vendored `README.md:679-681`).
- An idle call of `compress` counts as a poor compaction (`metrics.py:70`; `README.md:234` says consecutive
  compactions).

- When rollups are enabled on a database that has nodes, the days of those nodes have no row and
  get none. A week or month that holds such a day and a newer one has a row and is deferred in every pass
  (`rollup_builder.py:579-590`), oldest first (27-67). With the shipped limit of
  two periods a pass, one such week and one such month keep every later week and month waiting
  for good, although rows are queued to "get built by later maintenance" (`rollup_store.py:469-472`).
  An operator's rebuild of the old day ends it.
- `lcm_recent` counts the ready rows of a window and then reads them in a second query
  (`tools.py:2021-2031`). A row that turns stale in between is missing from what is served,
  although a window is either covered or falls back as a whole (`tools.py:1931-1933`).

Smaller ones: a hosted answer does not clear the local count although
`docs/reference.md:344-345` says so; a suppressed or untriggered local failure is
not cooled down although the comment at `providers.py:50-51` says "every";
receipts are themselves dropped when they do not fit (`CHANGELOG.md:21`); the row
cap counts admitted rows, so it does not bound the scan (`prepass.py:16-20`);
`jev_starved_count` is written from two different sets (it is not in the model); the tools described as
session-local show the previous session until the first ingest; an anchor leaves
the index once its message is condensed (`docs/compliance.md:25`); the anchor
block's drop count may be too high (above); a suppressed failure renews the
breaker's window (`providers.py:77`), so an outage with steady traffic is never
over for it, although a test is named
`test_an_outage_that_outlives_the_window_rearms_the_breaker`.

## Proofs

`tlapm` checks `ProviderChainProofs`, `PrepassProofs`, `EvidenceBlockProofs`,
`ModeRoutingProofs`, `ClefWireProofs`, `BatchScoringProofs`, `LcmArchiveProofs` and
`RollupsProofs` to the last leaf, from the assumptions named in the modules (numbers
are natural, names are distinct, no provider occurs twice in an order, the local one
is first or last, ranks are unique, the folded state without a message takes at most
half of the budget, the smallest sample count is between one and the window).

| Theorem | Statement |
|---|---|
| `ProviderChainProofs!TypeCorrect` | `Spec => []TypeOK` |
| `CoolingIsExplained`, `SkipsOnlyAfterError`, `CallsNoCoolingProvider` | the three invariants of a chain's own books, for any number of chains |
| `TrippedMeansLocal` | `OneLocalFirst` and `Spec` imply `[]NoEgressWhileTripped` |
| `ImplementsBreaker` | `OneLocalFirst` and `Spec` imply `BreakerPromise` |
| `PrepassProofs!TypeCorrect`, `IndexStaysOwn`, `KeptStaysIndexed`, `CountIsHonest` | the prepass's invariants |
| `KeptIsPrompted` | the action property `KeptReachesPrompt` |
| `EvidenceBlockProofs!TypeCorrect`, `BlockIsBounded`, `NoRowCrowdsAnotherOut`, `HintAccountsForAll`, `AnchorAccountsForAll` | the blocks, for rows of any number and size |
| `ModeRoutingProofs!Typed`, `Sound`, `Decided` | `Spec` implies `[]TypeOK`, `[]OrderSound`, `[]ModeDecides`, for any fallback orders and pins |
| `Stable` | the action property `SideIsStable` |
| `ClefWireProofs!TypeCorrect`, `ScoresComeHome`, `RequestIsLegal` | the Clef request and the way back, for any ids, scales and limits |
| `BatchScoringProofs!BatchTypeOK`, `BatchWithinBudgets`, `BatchNothingElseFits`, `BatchFoldMakesRoom` | what is sent, for any conversations, candidates, caps and budgets |
| `BatchMinimumKept`, `BatchBestKept`, `BatchThresholdFollows` | what is kept and the threshold, for any scores, windows, rates and margins |
| `LcmArchiveProofs!LcmTypeOK` | `Spec => []TypeOK` |
| `LcmForest` | `Spec => []Forest`, through failures, crashes, boundaries and resets |
| `LcmStoreIsTranscript`, `LcmNothingLost` | `Spec` implies `[]StoreIsTranscript` and `[]NothingLost`, restarts included, for conversations of any length |
| `LcmPromptCovers` | `Spec => []PromptCovers`, through everything that happens to a process |
| `LcmLineageExact` | `Spec => []LineageExact`, whatever texts repeat |
| `RollupsProofs!RollupTypes` | `Spec => []TypeOK` |
| `RollupsCurrent`, `RollupsKept`, `RollupsServed` | `Spec` implies `[]ReadyIsCurrent`, `[]NothingForgotten` and `[]ServesCurrent`, for any days, periods, builders, limits and budgets, and nodes condensed to any depth |

The arguments:

- *Chain.* `ChainInv` adds to the two record-keeping invariants what a request
  knows of its own past (`RequestInv`): every position it has passed, or that was
  not available when it started, has its last error on record, and every available
  position from the current one on is free of a cooldown. The second half makes
  `NeverCallsCooling` inductive: a cooldown set by this request is always at a
  position it has passed.
- *Breaker.* `NoEgressWhileTripped` alone is not inductive: a request may begin at
  a hosted hop because the local one is cooling. `TripInv` says that while the
  count is past the limit, every local-first chain has its local hop free of a
  cooldown and a hosted hop to follow it, and a request under way is still at the
  local hop. A cooldown of the local hop is set only by a permitted failure
  (within the limit), and no further failure is counted before that cooldown has
  passed, because a failure is counted only when the local hop was tried. With a
  second local-first chain exactly this step fails.
- *Refinement.* Each step of `ProviderChain` maps to a step of `LocalBreaker` or
  to a stutter, using `TripInv` for the steps that send.
- *Prepass.* `TypeInv` adds that a batch exists only while a request is in flight.
  `IndexInv` adds to `IndexIsOwn` and `KeptIsIndexed` that an unbound prepass
  holds no candidates, which is what rules out a write-less decision without the
  latch. `KeptIsPrompted` follows from `IndexInv` in each step that condenses.
- *Blocks.* `NothingCrowdedOut` is inductive because `used` never decreases;
  `HintAccounts` needs that the row being rendered is in no set yet.
- *Wire.* `MapInv` says that wires and the ids done so far correspond one to one
  and that no wire is the id of another question. The second part is what keeps a
  legal id that comes later from finding its own name taken.
- *Batch.* `ShapeInv` adds to `TypeOK` what is packed so far: every position admitted
  is behind the scan, every position passed over has no room now (sizes only grow), and
  while nothing is admitted a folded state takes at most half. The three properties of
  the sizes follow from it where the scan ends. For the scores there are three facts about operators.
  `QuantileIs`: fewer than `k` samples are below the `k`-th smallest, and the number between two
  samples that `Quantile` returns is at most the higher, so at most as many samples
  are below it as its place says, rounded up. `BestFirst`: what is better than one
  of the best is one of them. `BestEnough`: the best are as many as the quota; if they were fewer,
  take among the others one with the fewest better ones (numbers are
  well ordered, no induction over the batch is needed): all that is better is among the best, so fewer than
  the quota are better, and it is one of the best itself.
- *Archive.* `TypeInv` adds to `TypeOK` that a compaction has a session and something to
  work on, and that summary messages name nodes there are. `ForestInv` adds to `Forest`
  that sources of deep nodes are nodes, so that a new node, whose number is
  new, is nobody's source. `StoreInv` is the accounting of the cursor: as many rows and messages of the
  host's list as messages said and messages behind the cursor, and the *i*-th message in
  front of the cursor is the *i*-th that has no row; while a compaction runs nothing is in front of
  the cursor. It is what makes `StoreIsTranscript` inductive, since each ingest appends
  exactly what comes next, and each assembly, which changes the length of the list, recounts.
- *Restart.* After a restart the cursor is rebuilt by comparing texts. `ReplayInv` says, of
  histories in which every process resumes with the transcript and no boundary compresses it, that the
  transcript is what was said in the session, that the session's rows are the last rows and
  the front of the transcript, and that a process which has not ingested has
  the transcript as its prompt and more than one turn stored. Then the comparison finds all
  of the session's rows and nothing longer (`ReconciledWhole`): a prefix without scaffolding that is
  known has as many messages as the session has rows. `StoreInv` and `ReplayInv` are the
  two cases of `Certain`.
- *Texts.* In all other histories the comparison may be wrong, and rows may be missing or
  repeated. `SavedInv` says what survives that: a message tells what was said under its number,
  everything said has a row of its text or is in the prompt and in the transcript, everything in front of the
  cursor and everything under scaffolding has such a row, and a compaction begins when all has. Each
  ingest restores the last (`SavedWrite`): what it takes as known has the identity of a row
  (`KnownRow`), for which each member of a set of numbers has its place in their order and each place
  a member (`InOrderMember`).
- *Prompt.* `HeadInv` is the second half of `PromptCovers` with what makes it inductive: in the
  prompt, in the transcript and in the messages a compaction works on (`Headed`) a summary stands first or behind
  the system prompt alone, and once the scaffolding is trimmed there is none. It gives
  the first half what it needs: a prompt has at most one summary message, and the trimmed one comes back with
  the next assembly. `PromptInv` adds to `ForestInv` that behind a system prompt scaffolding says nothing of its
  own, and that what the summaries of the prompt, of the transcript and of the work stand for
  is under the nodes now visible. A new node hides only its sources, and it stands for
  them (`UnderGrows`); a boundary moves nodes together with their session.
- *Lineage.* `LineInv` says of an undisturbed process that each turn of the prompt behind
  what is anchored is still to be stored or has its own row, in this session and above the
  frontier, in the order of the list. A chunk of such turns has at least as many rows of
  each identity above the frontier as it has turns, so none is surplus, and each takes a row of
  its own, no later than the one that was written for it (`IdsExact`). A leaf's sources are therefore
  as many of each text as it summarises, and they are below the frontier when the next leaf
  is written, or in an earlier session.
- *Modes.* `Inv` holds the three invariants together: a chain keeps what it was built from, so all there is
  to show is that what `Built` makes of any settings and environment is sound (`FullIs`, then the cut).
  `KeyedIs` is the part with a loop in it. Its recursive function is first shown to exist and then unfolded, and
  that it lists providers with a key, none twice, goes by induction over the position, taken
  from the well-ordering of the naturals (`Successors`), because the library's
  induction rule takes an operator. The loop of `IdsOf` is dealt with in the same way.
- *Rollups.* None of the three properties is inductive, since what is published now was read long
  ago. `Sound` says what a builder knows at each step, but only while it owns the
  lease of its row and no change of the row's days is left to drain: what it found is the frontier of its period
  (from `Read` or `Collect` on), and before that, in an aggregate, the days it noted are current and, from
  `Content` on, all the others have no content (`Informed`). A change of a node of those days makes the row
  owed (`EventFacts`), a drain that settles the debt takes the lease (`DrainFacts`, `DrainedWhole`), so both
  conditions are lost before the knowledge is wrong, and `~Touched` in `MarkReady` tests the stronger of
  the two. That a day's rebuild by somebody else cannot change what an aggregate collects needs that a ready day that
  owes nothing has one possible set of sources. `FrontOfDays` joins the days: the frontier of a
  week is the frontier among the sources of its days. The depth of condensation plays no part: a
  frontier is defined by what is under what, and a node that hides another spans its days.
  For the reader, each ready row was right in some remembered set of nodes (`Reading`); a step that makes
  one ready does so for the present nodes.

Only model-checked: the liveness properties (fairness and `ENABLED` are out of the
prover's reach) and the refuted properties. Every safety property of a passing run is a theorem.

## Not modelled

- Text: extraction of anchors by regular expressions, formatting of rows, log
  lines, HTTP. A row is its size, a message is the evidence in it.
- The command line and the registration of the plugin, which keep no state.
- What a compaction freed (`metrics.py`): an estimate over text within one call.
- Of the archive engine: ignore and stateless session patterns, quarantine,
  externalization of large payloads, assembly caps and sweeps, tool calls and their groups, several
  leaves in one compaction, several lifecycle rows. They are off or idle in the shipped
  configuration for a conversation of short user turns. Replays longer than the 64 rows the code
  looks at first, and the branch for a snapshot that turns out stale, need longer
  conversations than TLC can enumerate. A boundary and `/new` are one step each: both
  run inside one handler, and what a crash in their middle leaves is not explored.
- Of the rollups: what a summary says and how long it is, budgets of time, the queue of maintenance jobs of one
  process, and that a period is built in the end.
- Retrieval, tools, commands, vectors, trajectories, requirements, schema migrations,
  evaluation and benchmarks: about three quarters of the vendored lines. They read the archive
  or build derived tables next to it, and take no part in ranking, compaction or ingest. The share of all
  source lines that the models translate is therefore small, although every
  file of the ranking layer but three (`anchors.py`, `cli.py`, `plugin.py`) and the
  archive's write path and its rollups are covered.

## Plan

What would come next, in this order:

1. The crash inside a boundary and inside `/new`: the steps of `_continue_compression_boundary`
   and `rollover_session` one by one, with what the next start repairs.
2. Tool calls in `LcmArchive`: groups that must not be split by the fresh tail, and the
   replay of a transcript whose tool results were externalized.
3. `Prepass` composed with `ProviderChain`: several cloned engines in threads of one process, a
   request in flight while the breaker trips elsewhere.
4. Theorems about histories no property speaks of yet: `LineageExact` after a crash that comes between an
   ingest and the leaf, and what `Certain` promises of a process resumed with a compressed prompt.
5. `Rollups` under fairness: which rows are tried in the end, given that passes recur. The week and month
   that are deferred for good (above) are the counterexample to start from. Then the job queue
   (`_RollupMaintenanceScheduler`): an accepted request is followed by a pass that begins
   after it, and no session's passes keep another's waiting.
