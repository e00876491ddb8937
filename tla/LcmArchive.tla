----------------------------- MODULE LcmArchive -----------------------------
(* The lossless archive behind the compressor: every message the host shows   *)
(* is appended once to a store, a compaction replaces the oldest messages of  *)
(* the prompt by a summary node, nodes are condensed into deeper ones, and a  *)
(* frontier remembers which rows are summarised. What is in the store is told *)
(* from what is new by a cursor into the host's list, which is rebuilt by     *)
(* comparing texts when a process starts on a session it has rows of.         *)
(*                                                                            *)
(* Modelled in the shipped configuration: no ignore patterns, no              *)
(* externalization, no assembly cap, one leaf per compaction. A conversation  *)
(* is user turns behind an optional system prompt.                            *)
EXTENDS Integers, Sequences, FiniteSets, FiniteSetsExt

CONSTANTS
    Texts,        \* contents of messages; two messages may have the same
    NoText,       \* content of a summary, which its nodes determine
    Fresh,        \* fresh_tail_count: newest messages never summarised
    Fanin,        \* condensation_fanin
    MaxDepth,     \* incremental_max_depth
    Retain,       \* new_session_retain_depth
    MaxSessions,  \* bound: sessions
    MaxEvents     \* bound: messages of the host and kinds of trouble together

ASSUME NamesAssumption == NoText \notin Texts
ASSUME NumbersAssumption ==
    /\ Fresh \in Nat \ {0}
    /\ Fanin \in Nat \ {0}
    /\ {MaxDepth, Retain, MaxSessions, MaxEvents} \subseteq Nat

VARIABLES
    host,     \* the host: its prompt and transcript, the session, what was said
    rows,     \* messages table: the row's store_id is its position
    nodes,    \* summary_nodes table: the node_id is the position, session 0 deleted
    life,     \* lcm_lifecycle_state of the conversation
    mem,      \* the engine's memory: bound session, ingest cursor, frontier
    job,      \* the compaction in progress
    trouble   \* history: what went wrong so far

vars == <<host, rows, nodes, life, mem, job, trouble>>

Troubles ==
    {"crash", "exit", "prompt", "delta", "single", "abort", "boundary", "child"}

(* A message: a turn or a system prompt of the host, a system prompt with the *)
(* LCM note, or the message that carries summaries. `uid` is the number under *)
(* which the host said it, which the program never sees.                      *)
Message(k, t, u) == [kind |-> k, text |-> t, uid |-> u, nodes |-> {}]
Summary(N) == [kind |-> "sum", text |-> NoText, uid |-> 0, nodes |-> N]
Scaffold(m) == m.kind \in {"note", "sum"}
Identity(m) == <<m.kind, m.text, m.nodes>>

Idle == [pc |-> "idle", work |-> <<>>, ids |-> {}, depth |-> 0]
Unbound == [bound |-> 0, cursor |-> 0, needs |-> FALSE, last |-> 0]

RowsOf(s) == {i \in DOMAIN rows : rows[i].sess = s}
NodesOf(s) == {n \in DOMAIN nodes : nodes[n].sess = s}
UidsOf(ms) == {ms[i].uid : i \in DOMAIN ms} \ {0}

-----------------------------------------------------------------------------
(* The ingest cursor.                                                         *)

(* The positions in front that show something, and the i-th of a set of them. *)
Shown(ms, c) == {i \in 1..c : ~Scaffold(ms[i])}
InOrder(S, i) == CHOOSE r \in S : Cardinality({q \in S : q <= r}) = i

(* The prefix of length c is known: it shows nothing but scaffolding, or it   *)
(* replays the whole stored session and is more than one ambiguous turn.      *)
Replays(ms, c) ==
    LET seen == Shown(ms, c)
        stored == RowsOf(mem.bound)
    IN  \/ seen = {}
        \/ /\ Cardinality(seen) = Cardinality(stored)
           /\ \A k \in 1..Cardinality(seen) :
                 Identity(ms[InOrder(seen, k)]) = Identity(rows[InOrder(stored, k)].msg)
           /\ Cardinality(seen) > 1 \/ \E i \in seen : ms[i].kind = "sys"

Reconciled(ms) == Max({c \in 0..Len(ms) : Replays(ms, c)})

From(ms) == IF mem.needs THEN Reconciled(ms)
            ELSE Min({mem.cursor, Len(ms)})

(* Everything behind the cursor is appended, scaffolding included.            *)
Appended(ms) ==
    rows \o [i \in 1..(Len(ms) - From(ms)) |->
                [sess |-> mem.bound, msg |-> ms[From(ms) + i]]]
Advanced(ms) ==
    [mem EXCEPT !.cursor = IF mem.needs \/ From(ms) < Len(ms) THEN Len(ms) ELSE @,
                !.needs = FALSE]

Ingest(ms) == rows' = Appended(ms) /\ mem' = Advanced(ms)

-----------------------------------------------------------------------------
(* The store ids of a chunk: in order, each message takes the next row of the *)
(* session above the frontier with its identity; the earliest occurrences of  *)
(* an identity that the store has fewer of take none.                         *)
IdsOf(chunk) ==
    LET open == {r \in RowsOf(mem.bound) : r > mem.last}
        Same(i) == {r \in open : Identity(rows[r].msg) = Identity(chunk[i])}
        Alike(i) == {j \in DOMAIN chunk : Identity(chunk[j]) = Identity(chunk[i])}
        Surplus(i) == Cardinality({j \in Alike(i) : j <= i})
                        <= Cardinality(Alike(i)) - Cardinality(Same(i))
        at[i \in 0..Len(chunk)] ==
            IF i = 0 THEN mem.last
            ELSE LET free == {r \in Same(i) : r > at[i - 1]}
                 IN  IF Surplus(i) \/ free = {} THEN at[i - 1] ELSE Min(free)
    IN  {r \in open : \E i \in DOMAIN chunk : at[i] = r}

(* Nodes of a session that no node of it condenses; those an assembly shows.  *)
Parents(n) == {p \in NodesOf(nodes[n].sess) : nodes[p].depth > nodes[n].depth
                                              /\ n \in nodes[p].src}
Visible(s) == {n \in NodesOf(s) : Parents(n) = {}}
(* Mutant: a condensed node is a candidate again. *)
AtDepth_condensedToo(d) == {n \in NodesOf(mem.bound) : nodes[n].depth = d}
AtDepth(d) == {n \in Visible(mem.bound) : nodes[n].depth = d}
FirstOf(N) == {n \in N : Cardinality({m \in N : m <= n}) <= Fanin}

Node(d, src, said) == [sess |-> mem.bound, depth |-> d, src |-> src, said |-> said]

Stored == UidsOf([i \in DOMAIN rows |-> rows[i].msg])

(* What of the conversation a sequence of messages stands for.                *)
Covers(ms) == UidsOf(ms) \cup
    UNION {nodes[n].said : n \in UNION {ms[i].nodes : i \in DOMAIN ms}}

(* Mutant: the first message is pinned, whoever said it. *)
Anchor_pinsUserTurn(w) == IF w # <<>> THEN 1 ELSE 0

(* Only a system prompt is an anchor that is never compacted; a conversation  *)
(* that begins with a user turn has none.                                     *)
Anchor(w) == IF w # <<>> /\ w[1].kind \in {"sys", "note"} THEN 1 ELSE 0

(* The prompt: the anchor, the summaries, what is left.                       *)
Assembled(w) ==
    [i \in 1..Anchor(w) |-> [w[i] EXCEPT !.kind = IF @ = "sys" THEN "note" ELSE @]]
      \o (IF Visible(mem.bound) = {} THEN <<>> ELSE <<Summary(Visible(mem.bound))>>)
      \o SubSeq(w, Anchor(w) + 1, Len(w))

(* Scaffolding right behind the anchor is dropped, up to the tail.            *)
Lead(w) == Max({t \in 0..Len(w) : \A i \in (Anchor(w) + 1)..(Anchor(w) + t) :
                                     i <= Len(w) - Fresh /\ Scaffold(w[i])})
Trimmed(w) ==
    SubSeq(w, 1, Anchor(w)) \o SubSeq(w, Anchor(w) + Lead(w) + 1, Len(w))

-----------------------------------------------------------------------------
Init ==
    /\ host = [ctx |-> <<>>, log |-> <<>>, sess |-> 1, since |-> 1, said |-> <<>>]
    /\ rows = <<>>
    /\ nodes = <<>>
    /\ life = [cur |-> 1, fr |-> 0, lastfr |-> 0]
    /\ mem = [Unbound EXCEPT !.bound = 1]
    /\ job = Idle
    /\ trouble = {}

Quiet == job.pc = "idle" /\ mem.bound # 0

Known(kinds) == /\ Len(host.said) + Cardinality(trouble \cup kinds) <= MaxEvents
                /\ trouble' = trouble \cup kinds
Befalls(kind) == kind \notin trouble /\ Known({kind})

(* The conversation goes on; only its first message may be a system prompt.   *)
Say(k, t) ==
    /\ Quiet
    /\ Len(host.said) + Cardinality(trouble) < MaxEvents
    /\ k = "sys" => host.since = Len(host.said) + 1
    /\ LET m == Message(k, t, Len(host.said) + 1)
       IN  host' = [host EXCEPT !.ctx = Append(@, m), !.log = Append(@, m),
                                !.said = Append(@, t)]
    /\ UNCHANGED <<rows, nodes, life, mem, job, trouble>>

(* on_turn_complete.                                                          *)
Turn ==
    /\ Quiet
    /\ host.ctx # <<>>
    /\ Ingest(host.ctx)
    /\ UNCHANGED <<host, nodes, life, job, trouble>>

(* compress ingests first.                                                    *)
Compress ==
    /\ Quiet
    /\ host.ctx # <<>>
    /\ Ingest(host.ctx)
    /\ job' = [Idle EXCEPT !.pc = "leaf", !.work = host.ctx]
    /\ UNCHANGED <<host, nodes, life, trouble>>

(* An oldest part of the backlog becomes a node; how much of it is up to the  *)
(* summariser, which may give up messages at the end.                         *)
Leaf ==
    /\ job.pc = "leaf"
    /\ LET w == Trimmed(job.work)
       IN  \E k \in (Anchor(w) + 1)..(Len(w) - Fresh) :
              LET chunk == SubSeq(w, Anchor(w) + 1, k)
              IN  /\ nodes' = Append(nodes, Node(0, IdsOf(chunk), Covers(chunk)))
                  /\ job' = [pc |-> "frontier",
                             work |-> SubSeq(w, 1, Anchor(w)) \o SubSeq(w, k + 1, Len(w)),
                             ids |-> IdsOf(chunk), depth |-> 0]
    /\ UNCHANGED <<host, rows, life, mem, trouble>>

(* Mutant: only the stored frontier moves.                                    *)
Frontier_notInMemory ==
    /\ job.pc = "frontier"
    /\ life' = [life EXCEPT !.fr = IF life.cur = mem.bound
                                   THEN Max(job.ids \cup {@}) ELSE @]
    /\ job' = [job EXCEPT !.pc = "condense"]
    /\ UNCHANGED <<host, rows, nodes, mem, trouble>>

(* The frontier in memory becomes the newest source row, zero if none maps;   *)
(* the stored one only grows, and only while it is this session's.            *)
Frontier ==
    /\ job.pc = "frontier"
    /\ LET f == Max(job.ids \cup {0})
       IN  /\ mem' = [mem EXCEPT !.last = f]
           /\ life' = [life EXCEPT !.fr = IF life.cur = mem.bound
                                          THEN Max({@, f}) ELSE @]
    /\ job' = [job EXCEPT !.pc = "condense"]
    /\ UNCHANGED <<host, rows, nodes, trouble>>

(* Nothing to compact, or not enough of it yet.                               *)
Noop ==
    /\ job.pc = "leaf"
    /\ IF Lead(job.work) > 0
       THEN LET c == Assembled(Trimmed(job.work))
            IN  /\ host' = [host EXCEPT !.ctx = c]
                /\ mem' = [mem EXCEPT !.cursor = Len(c)]
       ELSE UNCHANGED <<host, mem>>
    /\ job' = Idle
    /\ UNCHANGED <<rows, nodes, life, trouble>>

(* One condensation for each depth with enough visible nodes, from below: the *)
(* oldest Fanin of them become the sources of a deeper node.                  *)
Ripe(d) == d < MaxDepth /\ Cardinality(AtDepth(d)) >= Fanin

Condense(d) ==
    /\ job.pc = "condense"
    /\ d >= job.depth
    /\ Ripe(d)
    /\ \A e \in job.depth..(d - 1) : ~Ripe(e)
    /\ LET src == FirstOf(AtDepth(d))
       IN  nodes' = Append(nodes,
                        Node(d + 1, src, UNION {nodes[n].said : n \in src}))
    /\ job' = [job EXCEPT !.depth = d + 1]
    /\ UNCHANGED <<host, rows, life, mem, trouble>>

(* Mutant: the cursor still counts the messages of the uncompressed prompt.   *)
Publish_staleCursor ==
    /\ job.pc = "condense"
    /\ \A d \in job.depth..MaxDepth : ~Ripe(d)
    /\ host' = [host EXCEPT !.ctx = Assembled(job.work)]
    /\ job' = Idle
    /\ UNCHANGED <<rows, nodes, life, mem, trouble>>

(* The host goes on with the assembled prompt; the cursor is its length.      *)
Publish ==
    /\ job.pc = "condense"
    /\ \A d \in job.depth..MaxDepth : ~Ripe(d)
    /\ LET c == Assembled(job.work)
       IN  /\ host' = [host EXCEPT !.ctx = c]
           /\ mem' = [mem EXCEPT !.cursor = Len(c), !.needs = FALSE]
    /\ job' = Idle
    /\ UNCHANGED <<rows, nodes, life, trouble>>

(* An exception leaves compress; the host keeps its messages.                 *)
Abort ==
    /\ job.pc # "idle"
    /\ job' = Idle
    /\ Befalls("abort")
    /\ UNCHANGED <<host, rows, nodes, life, mem>>

-----------------------------------------------------------------------------
(* Processes and sessions.                                                    *)

Finalized(f) == [cur |-> 0, fr |-> 0, lastfr |-> Max({life.lastfr, f})]

Crash ==
    /\ mem.bound # 0
    /\ Befalls("crash")
    /\ mem' = Unbound
    /\ job' = Idle
    /\ UNCHANGED <<host, rows, nodes, life>>

(* on_session_end, then the process goes.                                     *)
Exit ==
    /\ Quiet
    /\ host.ctx # <<>>
    /\ Befalls("exit")
    /\ rows' = Appended(host.ctx)
    /\ life' = Finalized(mem.last)
    /\ mem' = Unbound
    /\ UNCHANGED <<host, nodes, job>>

(* on_session_start in a new process: the host resumes with its transcript,   *)
(* with its compressed prompt, or with only what is said from now on, having  *)
(* seen the rest stored. A single stored turn is no evidence of a replay.     *)
Resume(how) ==
    /\ mem.bound = 0
    /\ how = "delta" => UidsOf(host.log) \subseteq Stored
    /\ LET of == RowsOf(host.sess)
           single == Cardinality(of) = 1 /\ \A r \in of : rows[r].msg.kind = "turn"
       IN  /\ Known(({how} \ {"transcript"}) \cup (IF single THEN {"single"} ELSE {}))
           /\ host' = [host EXCEPT !.ctx = CASE how = "transcript" -> host.log
                                             [] how = "prompt" -> host.ctx
                                             [] how = "delta" -> <<>>]
           /\ life' = IF life.cur = host.sess THEN life
                      ELSE [life EXCEPT !.cur = host.sess, !.fr = 0]
           /\ mem' = [bound |-> host.sess, cursor |-> 0,
                      needs |-> of # {}, last |-> life'.fr]
    /\ UNCHANGED <<rows, nodes, job>>

(* A compression boundary: what memory becomes, frontier apart, and where the *)
(* nodes go.                                                                  *)
Crossed(bind, moved) ==
    /\ Quiet
    /\ host.sess < MaxSessions
    /\ mem.cursor = Len(host.ctx) /\ ~mem.needs
    /\ NodesOf(host.sess) # {}
    /\ Befalls("boundary")
    /\ LET f == Max({mem.last, life.fr, life.lastfr})
       IN  /\ life' = [cur |-> host.sess + 1, fr |-> f, lastfr |-> f]
           /\ mem' = [bind EXCEPT !.last = f]
    /\ nodes' = moved
    /\ host' = [host EXCEPT !.sess = @ + 1, !.log = host.ctx]
    /\ UNCHANGED <<rows, job>>
Moved == [n \in DOMAIN nodes |->
             IF nodes[n].sess = host.sess
             THEN [nodes[n] EXCEPT !.sess = host.sess + 1] ELSE nodes[n]]

(* Mutants: the nodes stay behind, the cursor starts over, the engine stays    *)
(* bound to the old session.                                                  *)
Boundary_nodesStay == Crossed([mem EXCEPT !.bound = host.sess + 1], nodes)
Boundary_cursorReset ==
    Crossed([mem EXCEPT !.bound = host.sess + 1, !.cursor = 0], Moved)
Boundary_unbound == Crossed(mem, Moved)

(* The host gives the compressed conversation a new session: the nodes move   *)
(* to it, the rows stay, the frontier is carried.                             *)
Boundary == Crossed([mem EXCEPT !.bound = host.sess + 1], Moved)

(* /new: the session is ingested and finalized, shallow nodes are deleted,    *)
(* and the deep ones follow if the host carries them.                         *)
NewSession(carry) ==
    /\ Quiet
    /\ host.sess < MaxSessions
    /\ host.ctx # <<>>
    /\ rows' = Appended(host.ctx)
    /\ LET Reset(n) ==
               IF nodes[n].sess # host.sess THEN nodes[n].sess
               ELSE IF nodes[n].depth < Retain THEN 0
               ELSE IF carry THEN host.sess + 1 ELSE host.sess
       IN  nodes' = [n \in DOMAIN nodes |-> [nodes[n] EXCEPT !.sess = Reset(n)]]
    /\ life' = [Finalized(mem.last) EXCEPT !.cur = host.sess + 1]
    /\ mem' = [Unbound EXCEPT !.bound = host.sess + 1]
    /\ host' = [host EXCEPT !.sess = @ + 1, !.ctx = <<>>, !.log = <<>>,
                            !.since = Len(host.said) + 1]
    /\ UNCHANGED <<job, trouble>>

(* on_session_end of a subagent's session while this one is bound: what it    *)
(* passes is ingested before the bypass of such sessions is looked at.        *)
ChildEnd(ms) ==
    /\ Quiet
    /\ Befalls("child")
    /\ Ingest(ms)
    /\ UNCHANGED <<host, nodes, life, job>>

Next ==
    \/ \E k \in {"sys", "turn"}, t \in Texts : Say(k, t)
    \/ Turn \/ Compress \/ Leaf \/ Frontier \/ Noop
    \/ \E d \in 0..MaxDepth : Condense(d)
    \/ Publish \/ Abort \/ Crash \/ Exit
    \/ \E how \in {"transcript", "prompt", "delta"} : Resume(how)
    \/ Boundary
    \/ \E carry \in BOOLEAN : NewSession(carry)
    \/ \E n \in 1..2, t \in Texts : ChildEnd([i \in 1..n |-> Message("turn", t, 0)])

Spec == Init /\ [][Next]_vars

-----------------------------------------------------------------------------
TypeOK ==
    /\ host.sess \in 1..(MaxSessions + 1)
    /\ host.said \in Seq(Texts) /\ host.since \in 1..(Len(host.said) + 1)
    /\ mem.bound \in {0, host.sess}
    /\ mem.cursor \in Nat /\ mem.needs \in BOOLEAN
    /\ {mem.last, life.fr, life.lastfr} \subseteq 0..Len(rows)
    /\ life.cur \in {0, host.sess}
    /\ \A i \in DOMAIN rows : rows[i].sess \in 1..host.sess
    /\ \A n \in DOMAIN nodes : nodes[n].sess \in 0..host.sess
    /\ job.ids \subseteq DOMAIN rows
    /\ trouble \subseteq Troubles

Clean(kinds) == trouble \cap kinds = {}

(* The engine can tell what is new: one process, or resumed every time with a *)
(* transcript that no boundary has compressed and that is more than one turn. *)
Certain ==
    /\ Clean({"prompt", "delta", "single", "child"})
    /\ Clean({"crash", "exit"}) \/ Clean({"boundary"})

(* Nothing said is lost ("Nothing is lost in normal operation", README.md:63  *)
(* of the vendored LCM): each message is stored or in front of the cursor. A  *)
(* process that is not certain may take a message for a stored one of the     *)
(* same text, but it loses no text.                                           *)
Waiting == UidsOf(IF mem.bound = 0 \/ mem.needs THEN host.ctx \o host.log
                  ELSE SubSeq(host.ctx, mem.cursor + 1, Len(host.ctx)))
Lost == DOMAIN host.said \ (Stored \cup Waiting)

NothingLost ==
    /\ Certain => Lost = {}
    /\ Clean({"child"}) =>
         \A u \in Lost : \E r \in DOMAIN rows : rows[r].msg.text = host.said[u]

(* Nor when a subagent's session ends meanwhile: its messages are none of     *)
(* this session's ("Nothing is lost in normal operation", as above).          *)
ChildLosesNothing == trouble \subseteq {"child"} => Lost = {}

(* The store is the transcript, message for message and without scaffolding,  *)
(* through compactions and failed ones, session boundaries, crashes, exits.   *)
StoreIsTranscript ==
    Certain => \A i \in DOMAIN rows : rows[i].msg.uid = i /\ ~Scaffold(rows[i].msg)

(* Every message is in the prompt or under a summary in it, and no user turn  *)
(* is kept raw in front of the summaries ("replayed forever as fresh-looking  *)
(* intent", compaction.py:536-539).                                           *)
PromptCovers ==
    /\ Clean({"delta"}) =>
         host.since..Len(host.said) \subseteq Covers(host.ctx)
    /\ \A i \in DOMAIN host.ctx : host.ctx[i].kind = "sum" =>
         \A j \in 1..(i - 1) : host.ctx[j].kind \in {"sys", "note"}

(* Undisturbed, a leaf's sources hold exactly the texts it summarises, each as *)
(* often as it was said, and no row is under two leaves.                      *)
Leaves == {n \in DOMAIN nodes : nodes[n].depth = 0}
LineageExact ==
    trouble = {} =>
        /\ \A n \in Leaves, t \in Texts :
             Cardinality({r \in nodes[n].src : rows[r].msg.text = t})
               = Cardinality({u \in nodes[n].said : host.said[u] = t})
        /\ \A m, n \in Leaves : m # n => nodes[m].src \cap nodes[n].src = {}

(* The nodes form a forest: a deep node condenses older nodes of the depth    *)
(* below, no node is condensed twice, and only a reset removes sources.       *)
Forest ==
    \A n \in DOMAIN nodes : nodes[n].depth > 0 =>
        /\ \A c \in nodes[n].src :
             /\ c < n /\ nodes[c].depth = nodes[n].depth - 1
             /\ nodes[c].sess \in {0, nodes[n].sess}
        /\ \A m \in DOMAIN nodes : nodes[m].depth > 0 /\ m # n =>
               nodes[m].src \cap nodes[n].src = {}

=============================================================================
