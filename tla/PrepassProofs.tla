---------------------------- MODULE PrepassProofs ----------------------------
(***************************************************************************)
(* Theorems about Prepass, for any evidence, sessions, sizes, caps and      *)
(* batch windows.                                                           *)
(***************************************************************************)
EXTENDS Prepass, FiniteSetTheorems, SequenceTheorems, TLAPS

\* A request only carries held candidates.
LEMMA SelectedHeld == Selected \subseteq held
  BY DEF Selected, Slots, Pending

\* Counting evidence yields a number.
LEMMA CountIsNat ==
  ASSUME NEW H, H \subseteq Evidence
  PROVE  Cardinality(H) \in Nat
  BY PrepassNames, FS_Subset, FS_CardinalityType
-----------------------------------------------------------------------------
(* Type correctness; a batch exists only while its request is in flight. *)

TypeInv ==
    /\ TypeOK
    /\ stage # "scoring" => batch = {}
    /\ stage = "scoring" => todo # <<>>

\* A blank ranking is well typed.
LEMMA BlankType ==
  /\ Fresh \in [Evidence -> {"unscored", "keep", "truncate", "drop"}]
  /\ NoDrops \in [Evidence -> 0..MaxDropped]
  /\ 0 \in 0..MaxDropped /\ 0 \in 0..BatchWindow /\ 0 \in Nat
<1>1. 0 \in 0..MaxDropped /\ 0 \in 0..BatchWindow /\ 0 \in Nat
  BY PrepassNumbers
<1> QED BY <1>1 DEF Fresh, NoDrops

\* What a collect leaves, however far it came.
LEMMA HoldingType ==
  ASSUME TypeOK, NEW H, H \subseteq Evidence, Holding(H)
  PROVE  /\ held' \subseteq Evidence /\ moved' \in BOOLEAN
         /\ action' \in [Evidence -> {"unscored", "keep", "truncate", "drop"}]
         /\ dropped' \in [Evidence -> 0..MaxDropped]
         /\ \A e \in held' : action'[e] \in {"keep", "truncate"}
                             => e \in held /\ action[e] = action'[e]
<1>1. held' = H /\ moved' = FALSE
  BY DEF Holding
<1>2. action' \in [Evidence -> {"unscored", "keep", "truncate", "drop"}]
  BY DEF Holding, TypeOK
<1>3. dropped' \in [Evidence -> 0..MaxDropped]
  BY BlankType DEF Holding, TypeOK
<1>4. \A e \in held' : action'[e] \in {"keep", "truncate"}
                           => e \in held /\ action[e] = action'[e]
  BY <1>1 DEF Holding, Known
<1> QED BY <1>1, <1>2, <1>3, <1>4

\* What an ingest leaves, however far it came.
LEMMA IngestType ==
  ASSUME TypeOK, NEW force \in BOOLEAN, NEW rest \in Seq(BOOLEAN),
         Ingest(force, rest)
  PROVE  /\ moved' \in BOOLEAN /\ held' \subseteq Evidence
         /\ action' \in [Evidence -> {"unscored", "keep", "truncate", "drop"}]
         /\ dropped' \in [Evidence -> 0..MaxDropped]
         /\ bound' \in Sessions \cup {NoSession} /\ latch' \in BOOLEAN
         /\ unscored' \in Nat /\ torn' \in BOOLEAN
         /\ todo' \in Seq(BOOLEAN)
<1>0. <<force>> \in Seq(BOOLEAN) /\ <<force>> \o rest \in Seq(BOOLEAN)
  <2>1. <<force>> \in Seq(BOOLEAN)
    OBVIOUS
  <2> QED BY <2>1, ConcatProperties
<1>1. todo' \in Seq(BOOLEAN)
  BY <1>0 DEF Ingest
<1>5. latch' \in BOOLEAN /\ bound' \in Sessions \cup {NoSession}
  BY DEF Ingest, binding, TypeOK
<1>2. CASE Collect
  <2>1. Holding(Live(sid)) /\ Live(sid) \subseteq Evidence
    BY <1>2 DEF Collect, Live
  <2>2. unscored' \in Nat /\ torn' \in BOOLEAN
    BY <1>2, <2>1, HoldingType, CountIsNat DEF Collect
  <2> QED BY <1>1, <1>5, <2>1, <2>2, HoldingType
<1>3. CASE CollectFails
  <2>1. PICK H \in SUBSET Live(sid) : Holding(H)
    BY <1>3 DEF CollectFails
  <2>2. H \subseteq Evidence
    BY DEF Live
  <2>3. unscored' \in Nat /\ torn' \in BOOLEAN
    BY <1>3 DEF CollectFails, TypeOK
  <2> QED BY <1>1, <1>5, <2>1, <2>2, <2>3, HoldingType
<1>4. CASE UNCHANGED <<moved, ranking, diagnostics>>
  BY <1>1, <1>5, <1>4 DEF ranking, diagnostics, TypeOK
<1> QED BY <1>2, <1>3, <1>4 DEF Ingest

\* What the charge for waiting leaves.
LEMMA StarveType ==
  ASSUME TypeOK, NEW S, Starve(S)
  PROVE  dropped' \in [Evidence -> 0..MaxDropped]
<1>1. \A e \in Evidence : dropped[e] \in 0..MaxDropped
  BY DEF TypeOK
<1>2. \A e \in Evidence : ~AtBound(S) /\ e \in Pending \ S => dropped[e] + 1 \in 0..MaxDropped
  BY <1>1, PrepassNumbers DEF AtBound
<1>3. \A e \in Evidence : dropped[e] > 1 => dropped[e] - 1 \in 0..MaxDropped
  BY <1>1, PrepassNumbers
<1> QED BY <1>1, <1>2, <1>3 DEF Starve

\* What every step of a running handler needs of the list of flushes.
LEMMA TailType ==
  ASSUME TypeOK, todo # <<>>
  PROVE  Tail(todo) \in Seq(BOOLEAN)
  BY HeadTailProperties DEF TypeOK

\* The typing invariant holds at the start ...
LEMMA TypeInvInit == Init => TypeInv
<1>1. <<>> \in Seq(BOOLEAN)
  BY EmptySeq
<1> QED BY <1>1, BlankType DEF Init, TypeInv, TypeOK

\* ... and every step keeps it.
LEMMA TypeInvNext == TypeInv /\ [Next]_vars => TypeInv'
<1> USE PrepassNumbers DEF TypeInv
<1> SUFFICES ASSUME TypeInv, [Next]_vars PROVE TypeInv'
  OBVIOUS
<1>0. TypeOK /\ <<>> \in Seq(BOOLEAN)
  BY EmptySeq
<1>1. ASSUME NEW urgent \in BOOLEAN, Turn(urgent) PROVE TypeInv'
  <2>1. <<urgent>> \in Seq(BOOLEAN)
    OBVIOUS
  <2>2. turns' \in 0..BatchWindow
    BY <1>1 DEF Turn, TypeOK
  <2>3. batch = {} /\ batch' = {} /\ stage' = "flush" /\ after' = "none"
    BY <1>1 DEF Turn, Enter
  <2>4. Ingest(FALSE, <<urgent>>)
    BY <1>1 DEF Turn
  <2> QED BY <1>0, <1>1, <2>1, <2>2, <2>3, <2>4, IngestType DEF Turn, TypeOK
<1>2. CASE End
  <2>1. <<TRUE>> \in Seq(BOOLEAN)
    OBVIOUS
  <2>2. batch = {} /\ batch' = {} /\ stage' = "flush" /\ after' = "none"
    BY <1>2 DEF End, Enter
  <2>3. Ingest(FALSE, <<TRUE>>)
    BY <1>2 DEF End
  <2> QED BY <1>0, <1>2, <2>1, <2>2, <2>3, IngestType DEF End, TypeOK
<1>3. CASE Reset
  <2>1. <<TRUE>> \in Seq(BOOLEAN)
    OBVIOUS
  <2> QED BY <1>3, <2>1 DEF Reset, Enter, TypeOK, world, ranking, binding, diagnostics
<1>4. CASE Compress
  <2>1. batch = {} /\ batch' = {} /\ stage' = "flush" /\ after' = "compact"
    BY <1>4 DEF Compress, Enter
  <2>2. Ingest(TRUE, <<>>)
    BY <1>4 DEF Compress
  <2> QED BY <1>0, <1>4, <2>1, <2>2, IngestType DEF Compress, TypeOK
<1>5. CASE Skip
  <2>1. todo' \in Seq(BOOLEAN)
    BY <1>5, TailType DEF Skip
  <2> QED BY <1>5, <2>1 DEF Skip, TypeOK, world, ranking, binding, diagnostics
<1>6. CASE NothingFits
  <2>1. todo' \in Seq(BOOLEAN)
    BY <1>6, TailType DEF NothingFits
  <2>2. dropped' \in [Evidence -> 0..MaxDropped]
    BY <1>6, StarveType DEF NothingFits
  <2>3. unscored' \in Nat /\ torn' \in BOOLEAN
    BY <1>6, CountIsNat DEF NothingFits, Counts, TypeOK
  <2> QED BY <1>6, <2>1, <2>2, <2>3 DEF NothingFits, TypeOK, world, binding
<1>7. CASE Request
  <2>1. batch' \subseteq held
    BY <1>7, SelectedHeld DEF Request
  <2> QED BY <1>7, <2>1 DEF Request, TypeOK, world, ranking, binding, diagnostics
<1>8. ASSUME NEW d \in Decisions, NEW ok \in BOOLEAN, Score(d, ok) PROVE TypeInv'
  <2>1. todo' \in Seq(BOOLEAN) /\ batch' = {} /\ stage' = "flush"
    BY <1>8, TailType DEF Score, Resume
  <2>2. dropped' \in [Evidence -> 0..MaxDropped]
    BY <1>8, StarveType DEF Score
  <2>3. unscored' \in Nat /\ torn' \in BOOLEAN
    BY <1>8, CountIsNat DEF Score, Counts, TypeOK
  <2>4. action' \in [Evidence -> {"unscored", "keep", "truncate", "drop"}]
    BY <1>8 DEF Score, Decided, Decisions, TypeOK
  <2>5. index' \in [Sessions -> SUBSET Anchors] /\ latch' \in BOOLEAN
    BY <1>8 DEF Score, Persist, TypeOK
  <2> QED BY <1>8, <2>1, <2>2, <2>3, <2>4, <2>5 DEF Score, Resume, TypeOK, world
<1>9. CASE Unanswered
  <2>1. todo' \in Seq(BOOLEAN) /\ batch' = {} /\ stage' = "flush"
    BY <1>9, TailType DEF Unanswered, Resume
  <2>2. dropped' \in [Evidence -> 0..MaxDropped]
    BY <1>9, StarveType DEF Unanswered
  <2>3. unscored' \in Nat /\ torn' \in BOOLEAN
    BY <1>9, CountIsNat DEF Unanswered, Counts, TypeOK
  <2> QED BY <1>9, <2>1, <2>2, <2>3 DEF Unanswered, Resume, TypeOK, world
<1>10. CASE Done
  BY <1>10 DEF Done, Leave, TypeOK, world, ranking, binding, diagnostics
<1>11. CASE DoReset
  BY <1>11, BlankType DEF DoReset, Leave, Blank, TypeOK, world
<1>12. CASE CompactNoop
  BY <1>12 DEF CompactNoop, Leave, TypeOK, world, ranking, binding, diagnostics
<1>13. ASSUME NEW C, NEW U, NEW readable \in BOOLEAN, Compact(C, U, readable)
       PROVE  TypeInv'
  <2>1. where' \in [Evidence -> {"ahead", "live", "condensed"}]
    BY <1>13 DEF Compact, TypeOK
  <2>2. prompt' \subseteq Anchors /\ bound' \in Sessions
    BY <1>13 DEF Compact, Rows, KeptAnchors, TypeOK
  <2> QED BY <1>13, <2>1, <2>2 DEF Compact, Leave, TypeOK, ranking, diagnostics
<1>14. ASSUME NEW e \in Evidence, Chat(e) PROVE TypeInv'
  BY <1>14 DEF Chat, TypeOK, ranking, binding, diagnostics, handler
<1>15. ASSUME NEW s \in Sessions, Start(s) PROVE TypeInv'
  BY <1>15 DEF Start, TypeOK, ranking, binding, diagnostics, handler
<1>16. CASE Crash
  BY <1>0, <1>16, BlankType DEF Crash, Blank, TypeOK, world
<1>17. CASE UNCHANGED vars
  BY <1>17 DEF vars, TypeOK, world, ranking, binding, diagnostics, handler
<1> QED BY <1>1, <1>2, <1>3, <1>4, <1>5, <1>6, <1>7, <1>8, <1>9, <1>10, <1>11,
           <1>12, <1>13, <1>14, <1>15, <1>16, <1>17
        DEF Next, Step, Handler, Scored, Writes

\* Every variable keeps its type, whatever fails, restarts or rotates; a batch
\* consists of candidates the prepass holds until the answer arrives.
THEOREM TypeCorrect == Spec => []TypeOK
<1>1. TypeInv => TypeOK
  BY DEF TypeInv
<1> QED BY <1>1, TypeInvInit, TypeInvNext, PTL DEF Spec
-----------------------------------------------------------------------------
(* The durable index. *)

\* Nothing is held before a session is bound, the index of a session points
\* into that session, and while no write has failed it has every kept anchor.
IndexInv ==
    /\ bound = NoSession => held = {}
    /\ IndexIsOwn
    /\ KeptIsIndexed

\* Steps that decide nothing: no candidate is kept that was not kept before.
LEMMA NothingNewKept ==
  ASSUME IndexInv, index' = index, latch' = latch \/ held' = {},
         held' = {} \/ bound' # NoSession \/ bound' = bound,
         \A e \in held' : action'[e] \in {"keep", "truncate"}
                            => e \in held /\ action[e] = action'[e],
         bound' = NoSession => held' = {}
  PROVE  IndexInv'
<1>1. IndexIsOwn'
  BY DEF IndexInv, IndexIsOwn
<1>2. KeptAnchors' \subseteq KeptAnchors
  BY DEF KeptAnchors, Kept
<1>3. held' = {} => KeptAnchors' = {}
  BY DEF KeptAnchors, Kept
<1>4. KeptIsIndexed'
  BY <1>2, <1>3 DEF IndexInv, KeptIsIndexed
<1> QED BY <1>1, <1>4 DEF IndexInv

\* An ingest decides nothing, however far it comes.
LEMMA IngestKeeps ==
  ASSUME TypeOK, IndexInv, NEW force, NEW rest, Ingest(force, rest), index' = index
  PROVE  IndexInv'
<1>1. sid # NoSession
  BY PrepassNames DEF TypeOK
<1>2. CASE UNCHANGED <<ranking, binding>>
  BY <1>2, NothingNewKept DEF ranking, binding, IndexInv
<1>3. CASE bound' = sid /\ UNCHANGED latch /\ Collect
  <2>1. Holding(Live(sid)) /\ Live(sid) \subseteq Evidence
    BY <1>3 DEF Collect, Live
  <2> QED BY <1>1, <1>3, <2>1, HoldingType, NothingNewKept
<1>4. CASE bound' \in {bound, sid} /\ UNCHANGED <<latch, ranking>>
  BY <1>1, <1>4, NothingNewKept DEF ranking, IndexInv
<1>5. CASE bound' = sid /\ UNCHANGED latch /\ CollectFails
  <2>1. PICK H \in SUBSET Live(sid) : Holding(H)
    BY <1>5 DEF CollectFails
  <2>2. H \subseteq Evidence
    BY DEF Live
  <2> QED BY <1>1, <1>5, <2>1, <2>2, HoldingType, NothingNewKept
<1> QED BY <1>2, <1>3, <1>4, <1>5 DEF Ingest

\* A decision is written with every kept anchor, or the latch says otherwise.
LEMMA ScoreKeeps ==
  ASSUME TypeOK, IndexInv, NEW d \in Decisions, NEW ok \in BOOLEAN, Score(d, ok)
  PROVE  IndexInv'
<1> DEFINE K == Kept(held, Decided(d)) \cap Anchors
<1>1. held' = held /\ bound' = bound /\ action' = Decided(d) /\ Persist(K, ok)
  BY DEF Score, Resume
<1>2. KeptAnchors' = K
  BY <1>1 DEF KeptAnchors, Kept
<1>3. CASE bound = NoSession
  <2>1. held' = {} /\ index' = index /\ latch' = latch /\ KeptAnchors' = {}
    BY <1>1, <1>2, <1>3 DEF IndexInv, Persist, Kept
  <2> QED BY <2>1 DEF IndexInv, IndexIsOwn, KeptIsIndexed
<1>4. CASE bound # NoSession /\ ok /\ Writable(K)
  <2>1. bound \in Sessions /\ index' = [index EXCEPT ![bound] = K]
    BY <1>1, <1>4 DEF Persist, TypeOK
  <2>2. index'[bound] = K /\ \A s \in Sessions : s # bound => index'[s] = index[s]
    BY <2>1 DEF TypeOK
  <2>3. \A e \in K : Owner[e] = bound
    BY <1>4 DEF Writable
  <2>4. IndexIsOwn'
    BY <2>1, <2>2, <2>3 DEF IndexInv, IndexIsOwn
  <2>5. KeptIsIndexed'
    BY <1>2, <1>4, <2>2, <2>3 DEF KeptIsIndexed
  <2> QED BY <1>1, <1>4, <2>4, <2>5 DEF IndexInv
<1>5. CASE bound # NoSession /\ ~(ok /\ Writable(K))
  <2>1. latch' = TRUE /\ index' = index
    BY <1>1, <1>5 DEF Persist
  <2> QED BY <1>1, <1>5, <2>1 DEF IndexInv, IndexIsOwn, KeptIsIndexed
<1> QED BY <1>3, <1>4, <1>5

\* The index is empty and nothing is held at the start.
LEMMA IndexInvInit == Init => IndexInv
  BY DEF Init, IndexInv, IndexIsOwn, KeptIsIndexed, KeptAnchors, Kept

\* Every step keeps the invariant of the index.
LEMMA IndexInvNext == TypeInv /\ IndexInv /\ [Next]_vars => IndexInv'
<1> SUFFICES ASSUME TypeInv, IndexInv, [Next]_vars PROVE IndexInv'
  OBVIOUS
<1>0. TypeOK
  BY DEF TypeInv
<1>1. ASSUME UNCHANGED <<held, action, bound, latch, index>> PROVE IndexInv'
  BY <1>1, NothingNewKept DEF IndexInv
<1>2. ASSUME NEW urgent \in BOOLEAN, Turn(urgent) PROVE IndexInv'
  BY <1>0, <1>2, IngestKeeps DEF Turn
<1>3. CASE End
  BY <1>0, <1>3, IngestKeeps DEF End
<1>4. CASE Compress
  BY <1>0, <1>4, IngestKeeps DEF Compress
<1>5. CASE Reset \/ Skip \/ NothingFits \/ Request \/ Unanswered
  BY <1>1, <1>5 DEF Reset, Skip, NothingFits, Request, Unanswered, Resume, ranking, binding
<1>6. ASSUME NEW d \in Decisions, NEW ok \in BOOLEAN, Score(d, ok) PROVE IndexInv'
  BY <1>0, <1>6, ScoreKeeps
<1>7. CASE Done \/ CompactNoop
  BY <1>1, <1>7 DEF Done, CompactNoop, ranking, binding
<1>8. CASE DoReset \/ Crash
  BY <1>8, NothingNewKept DEF DoReset, Crash, Blank
<1>9. ASSUME NEW C, NEW U, NEW readable \in BOOLEAN, Compact(C, U, readable)
      PROVE  IndexInv'
  <2>1. bound' # NoSession
    BY <1>0, <1>9, PrepassNames DEF Compact, TypeOK
  <2> QED BY <1>9, <2>1, NothingNewKept DEF Compact, ranking
<1>10. ASSUME NEW e \in Evidence, Chat(e) PROVE IndexInv'
  BY <1>1, <1>10 DEF Chat, ranking, binding
<1>11. ASSUME NEW s \in Sessions, Start(s) PROVE IndexInv'
  BY <1>1, <1>11 DEF Start, ranking, binding
<1>12. CASE UNCHANGED vars
  BY <1>1, <1>12 DEF vars, ranking, binding
<1> QED BY <1>2, <1>3, <1>4, <1>5, <1>6, <1>7, <1>8, <1>9, <1>10, <1>11, <1>12
        DEF Next, Step, Handler, Scored, Writes

\* The two invariants hold together.
LEMMA IndexInvariant == Spec => [](TypeInv /\ IndexInv)
<1> QED BY TypeInvInit, TypeInvNext, IndexInvInit, IndexInvNext, PTL DEF Spec

\* No session's index points into another session's messages, although the
\* candidates of one session may still be held when the next one is bound.
THEOREM IndexStaysOwn == Spec => []IndexIsOwn
<1>1. IndexInv => IndexIsOwn
  BY DEF IndexInv
<1> QED BY <1>1, IndexInvariant, PTL

\* A kept anchor is durable, or the prepass knows that a write failed.
THEOREM KeptStaysIndexed == Spec => []KeptIsIndexed
<1>1. IndexInv => KeptIsIndexed
  BY DEF IndexInv
<1> QED BY <1>1, IndexInvariant, PTL

\* Whatever write or read of the index failed before, an assembly that
\* condenses evidence carries every kept anchor of the current session.
THEOREM KeptIsPrompted == Spec => KeptReachesPrompt
<1>1. TypeInv /\ IndexInv /\ [Next]_vars => [Condenses => CarriesKept]_vars
  <2> SUFFICES ASSUME TypeInv, IndexInv, Next, Condenses PROVE CarriesKept
    BY DEF vars, world, Condenses
  <2>1. PICK C, U \in SUBSET Evidence, readable \in BOOLEAN : Compact(C, U, readable)
    BY DEF Next, Step, Handler, Scored, Turn, End, Reset, Compress, Skip, NothingFits,
           Request, Score, Unanswered, Resume, Done, DoReset, CompactNoop, Chat,
           Start, Crash, world, TypeInv, TypeOK, Condenses
  <2>2. prompt' = Rows(sid, readable)
    BY <2>1 DEF Compact
  <2>3. CASE latch \/ ~readable \/ index[sid] = {}
    BY <2>2, <2>3 DEF Rows, CarriesKept
  <2>4. CASE ~latch /\ readable /\ index[sid] # {}
    BY <2>2, <2>4 DEF Rows, CarriesKept, IndexInv, KeptIsIndexed
  <2> QED BY <2>3, <2>4
<1> QED BY <1>1, IndexInvariant, PTL DEF Spec, KeptReachesPrompt
-----------------------------------------------------------------------------
(* The count of the waiting. *)

\* The reported count is the count of the pending, after every step.
LEMMA HonestNext == UnscoredIsHonest /\ [Next]_vars => UnscoredIsHonest'
<1> SUFFICES ASSUME UnscoredIsHonest, [Next]_vars PROVE UnscoredIsHonest'
  OBVIOUS
<1>1. ASSUME UNCHANGED <<held, action, unscored, torn>> PROVE UnscoredIsHonest'
  BY <1>1 DEF UnscoredIsHonest, Pending
<1>2. ASSUME held' = {}, unscored' = 0 PROVE UnscoredIsHonest'
  BY <1>2, FS_EmptySet DEF UnscoredIsHonest, Pending
<1>3. ASSUME NEW force, NEW rest, Ingest(force, rest) PROVE UnscoredIsHonest'
  <2>1. CASE Collect
    BY <2>1 DEF Collect, UnscoredIsHonest, Pending
  <2>2. CASE CollectFails
    BY <2>2 DEF CollectFails, UnscoredIsHonest
  <2>3. CASE UNCHANGED <<ranking, diagnostics>>
    BY <1>1, <2>3 DEF ranking, diagnostics
  <2> QED BY <1>3, <2>1, <2>2, <2>3 DEF Ingest
<1>4. ASSUME NEW a, held' = held, action' = a, Counts(a) PROVE UnscoredIsHonest'
  BY <1>4 DEF Counts, UnscoredIsHonest, Pending
<1>5. CASE (\E urgent \in BOOLEAN : Turn(urgent)) \/ End \/ Compress
  BY <1>3, <1>5 DEF Turn, End, Compress
<1>6. CASE NothingFits \/ Scored \/ Unanswered
  BY <1>4, <1>6 DEF NothingFits, Scored, Score, Unanswered, Resume
<1>7. CASE DoReset \/ Crash
  BY <1>2, <1>7 DEF DoReset, Crash, Blank
<1>8. CASE Reset \/ Skip \/ Request \/ Done \/ CompactNoop
  BY <1>1, <1>8 DEF Reset, Skip, Request, Done, CompactNoop, ranking, diagnostics
<1>9. CASE \E C, U \in SUBSET Evidence, readable \in BOOLEAN : Compact(C, U, readable)
  BY <1>1, <1>9 DEF Compact, ranking, diagnostics
<1>10. CASE \/ \E e \in Evidence : Chat(e)
            \/ \E s \in Sessions : Start(s)
            \/ UNCHANGED vars
  BY <1>1, <1>10 DEF Chat, Start, vars, ranking, diagnostics
<1> QED BY <1>5, <1>6, <1>7, <1>8, <1>9, <1>10 DEF Next, Step, Handler

\* Unless a collect has died since the counts were taken last, jev_stats never
\* reports fewer or more waiting candidates than there are.
THEOREM CountIsHonest == Spec => []UnscoredIsHonest
<1>1. Init => UnscoredIsHonest
  BY FS_EmptySet DEF Init, UnscoredIsHonest, Pending
<1> QED BY <1>1, HonestNext, PTL DEF Spec
=============================================================================
