----------------------------- MODULE ClefWire -----------------------------
(***************************************************************************)
(* One provider's wire format: what ClefProvider.score puts on the wire    *)
(* and reads back (providers.py, jev_client.py).  Clef accepts fewer       *)
(* question ids than callers use, so illegal ids are renamed one by one,   *)
(* the answers are validated in the wire's spelling, and the caller gets   *)
(* them under its own ids.                                                 *)
(*                                                                         *)
(* An id is <<form, n, k>>: "clefq" is the generated form, clefq<n> for    *)
(* k = 0 and clefq<n>_<k> otherwise, which a caller may use as well;       *)
(* "illegal" ids are those Clef does not accept (a colon, or too long).    *)
(***************************************************************************)
EXTENDS Integers, Sequences, FiniteSets

CONSTANTS
    Ids,           \* the ids callers use
    Points,        \* Points[id]: how many points its question's scale has
    Values,        \* the numbers an answer may carry
    MaxQuestions,  \* CLEF_MAX_QUESTIONS
    MaxAsked       \* how many questions callers ask at most

Forms == {"clefq", "plain", "illegal"}
Wires == Forms \X Nat \X Nat

ASSUME IdsAssumption ==
    /\ Ids \subseteq Wires /\ Points \in [Ids -> Nat] /\ Values \subseteq Nat
    /\ MaxQuestions \in Nat /\ MaxAsked \in Nat
    /\ MaxAsked \in Nat
\* An answer that is no number.
Bad == -1

VARIABLES
    phase,      \* "idle", "map" while ids are renamed, "wire" while Clef works,
                \* "done" when the call has returned scores
    key,        \* is there a token?
    account,    \* the account id: "none", "odd" (of a wrong shape) or "good"
    names,      \* the ids of the caller's questions, in their order
    mapped,     \* how many of them have a wire id
    sent,       \* sent[w]: the caller's question that travels as w
    restore,    \* restore[w]: the caller's id for w
    result      \* result[id]: the question that was scored for id, and its score
vars == <<phase, key, account, names, mapped, sent, restore, result>>

Asked == {names[i] : i \in 1..Len(names)}
Empty == [w \in {} |-> w]
Extended(f, w, name) == [v \in DOMAIN f \cup {w} |-> IF v = w THEN name ELSE f[v]]

\* A mapping has no key twice.
Questions == {q \in UNION {[1..n -> Ids] : n \in 0..MaxAsked} :
                \A i, j \in DOMAIN q : q[i] = q[j] => i = j}

Init ==
    /\ phase = "idle" /\ names = << >> /\ mapped = 0
    /\ key \in BOOLEAN /\ account \in {"none", "odd", "good"}
    /\ sent = Empty /\ restore = Empty /\ result = Empty

\* A call that raises leaves no scores.
Raise ==
    /\ phase' = "idle"
    /\ UNCHANGED <<key, account, names, mapped, sent, restore, result>>

\* score: without token or account, or with too many questions, nothing is sent.
Ask(q) ==
    /\ phase \in {"idle", "done"}
    /\ names' = q /\ mapped' = 0 /\ sent' = Empty /\ restore' = Empty
    /\ result' = Empty
    /\ phase' = IF ~key \/ account = "none" \/ Len(q) > MaxQuestions
                THEN "idle" ELSE "map"
    /\ UNCHANGED <<key, account>>

Legal(id) == id[1] # "illegal"
Generated(k) == <<"clefq", Cardinality(DOMAIN restore), k>>

\* Mutant: a generated id that only looks at the ids handed out before it.
Free_bug(w) == w \notin DOMAIN restore

\* No caller's id, handed out or not, and no earlier generated one.
Free(w) == w \notin Asked /\ w \notin DOMAIN restore

\* The suffixes are tried in the order none, 2, 3, ...; the caller's ids cannot
\* block more of them than there are.
Suffixes == {0} \cup 2..(MaxAsked + 2)

\* The next caller id keeps its spelling or gets the first free generated one.
MapOne ==
    /\ phase = "map" /\ mapped < Len(names)
    /\ LET name == names[mapped + 1]
           Take(w) == /\ sent' = Extended(sent, w, name)
                      /\ restore' = Extended(restore, w, name)
       IN \/ Legal(name) /\ name \notin DOMAIN restore /\ Take(name)
          \/ /\ ~Legal(name) \/ name \in DOMAIN restore
             /\ \E k \in Suffixes :
                  /\ Free(Generated(k))
                  /\ \A j \in Suffixes : j < k => ~Free(Generated(j))
                  /\ Take(Generated(k))
    /\ mapped' = mapped + 1
    /\ UNCHANGED <<phase, key, account, names, result>>

\* The URL is built after the ids; an account of a wrong shape raises.
Send ==
    /\ phase = "map" /\ mapped = Len(names)
    /\ IF account = "good"
       THEN phase' = "wire" /\ UNCHANGED <<key, account, names, mapped, sent, restore, result>>
       ELSE Raise

\* The transport fails, Cloudflare refuses, or the body holds no answers.
Fail == phase = "wire" /\ Raise

\* Mutant: anything is taken for an answer of any scale.
Valid_bug(name, v) == TRUE

\* index_scale and answer_value: a number on the scale of its own question.
Valid(name, v) == v # Bad /\ Points[name] >= 2 /\ v <= Points[name] - 1

\* parse_answers and the way back: every id that was sent needs a valid answer,
\* others are ignored; then each score gets its caller's id.
Accepted(answers) ==
    \A w \in DOMAIN sent : w \in DOMAIN answers /\ Valid(sent[w], answers[w])

\* Mutant: the scores as they were parsed, under the ids of the wire.
Restored_bug(answers) == [w \in DOMAIN sent |-> <<sent[w], answers[w]>>]

Restored(answers) ==
    [name \in {restore[w] : w \in DOMAIN restore} |->
        LET w == CHOOSE w \in DOMAIN restore : restore[w] = name IN <<sent[w], answers[w]>>]

\* The answers come at the top of the body or inside its result; the first wins.
Answer(answers) ==
    /\ phase = "wire"
    /\ IF Accepted(answers)
       THEN /\ result' = Restored(answers) /\ phase' = "done"
            /\ UNCHANGED <<key, account, names, mapped, sent, restore>>
       ELSE Raise

Answers == UNION {[S -> Values \cup {Bad}] : S \in SUBSET DOMAIN sent}

Next ==
    \/ \E q \in Questions : Ask(q)
    \/ MapOne \/ Send \/ Fail
    \/ \E answers \in Answers : Answer(answers)

Spec == Init /\ [][Next]_vars

-----------------------------------------------------------------------------
(* Properties *)

TypeOK ==
    /\ phase \in {"idle", "map", "wire", "done"}
    /\ key \in BOOLEAN /\ account \in {"none", "odd", "good"}
    /\ names \in Seq(Ids) /\ mapped \in 0..Len(names)
    /\ DOMAIN sent \subseteq Wires /\ DOMAIN restore \subseteq Wires
    /\ \A w \in DOMAIN sent : sent[w] \in Ids
    /\ \A w \in DOMAIN restore : restore[w] \in Ids
    /\ \A id \in DOMAIN result : result[id] \in Ids \X Nat

\* No caller ever observes a rename: when a call returns, every id that was
\* asked about has a score, no other has, and it is the score of its own
\* question, on that question's scale (ClefProvider.score).
RoundTrip ==
    phase = "done" =>
        /\ DOMAIN result = Asked
        /\ \A id \in Asked : /\ result[id][1] = id
                             /\ result[id][2] \in 0..(Points[id] - 1)

\* What is on the wire is a request Clef accepts: no illegal id, at most
\* CLEF_MAX_QUESTIONS of them, none lost; and an id that is legal travels
\* unchanged, also when an earlier one was given a name of its form
\* (clef_question_ids).
WireIsLegal ==
    phase = "wire" =>
        /\ \A w \in DOMAIN sent : Legal(w)
        /\ Cardinality(DOMAIN sent) = Len(names) /\ Len(names) <= MaxQuestions
        /\ \A id \in Asked : Legal(id) => id \in DOMAIN restore /\ restore[id] = id
=============================================================================
