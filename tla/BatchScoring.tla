---------------------------- MODULE BatchScoring ----------------------------
(* One batch of the ranking after another: the state sent with it is shrunk   *)
(* until it fits, the candidates that wait are admitted in their order while   *)
(* two budgets last, the answers move a threshold that follows a quantile of   *)
(* a rolling window of scores, and each candidate is kept, truncated or        *)
(* dropped. Sizes are tokens; a probability is a number of 1/Unit, so that     *)
(* quantiles are exact where the code rounds to floats.                        *)
EXTENDS Integers, Sequences, FiniteSets, FiniteSetsExt

CONSTANTS
    Histories,   \* sizes of a conversation: at each tier, and by message
    Queues,      \* sequences of candidates that wait, first to be admitted first
    MaxState,    \* max_state_tokens
    MaxRequest,  \* max_request_tokens
    Empty,       \* size of the folded state without a message
    Envelope,    \* size of the request without state and questions
    Cap,         \* jev_max_candidates_per_batch
    Unit,
    Rates,       \* min_keep_rate
    Window,      \* jev_calibration_window
    Minimum,     \* jev_calibration_min_samples
    Fallback,    \* keep_threshold
    Ceiling,     \* keep_threshold_max
    Margin(_)    \* the confidence bound for so many samples

Tiers == 0..4
Candidate == [kind : {"anchor", "tool"}, text : Nat, asks : Nat]
Probability == 0..Unit

ASSUME InputsAssumption ==
    /\ Histories \subseteq [tier : [Tiers -> Nat], parts : Seq(Nat)]
    /\ Queues \subseteq Seq(Candidate)
ASSUME SizesAssumption ==
    /\ {MaxState, MaxRequest, Empty, Envelope} \subseteq Nat
    /\ Cap \in Nat \ {0}
    /\ Empty <= MaxState \div 2
ASSUME ScoresAssumption ==
    /\ Unit \in Nat \ {0}
    /\ Rates \subseteq Probability
    /\ Fallback \in Probability /\ Ceiling \in Probability
    /\ Window \in Nat /\ Minimum \in 1..Window
    /\ \A n \in 1..Window : Margin(n) \in Nat

VARIABLES
    pc,       \* "idle", "shrink", "fold", "admit" or "asked"
    mode,     \* settings: min_keep_rate, conservative, calibration enabled
    hist,     \* the conversation the batch is about
    queue,    \* the candidates that wait
    tier,     \* how far the conversation is shrunk
    used,     \* size of the state
    folded,   \* the state has lost messages
    at,       \* the next message to fold in, then the next candidate
    sel,      \* positions of the candidates admitted
    asks,     \* size of their questions
    samples,  \* the window of scores
    current,  \* the threshold, in 1/Unit of 1/Unit
    result    \* what became of the last batch scored

shaping == <<hist, queue, tier, used, folded, at, sel, asks>>
scoring == <<samples, current, result>>
vars == <<pc, mode, shaping, scoring>>

NoHistory == [tier |-> [t \in Tiers |-> 0], parts |-> <<>>]

Init ==
    /\ pc = "idle"
    /\ mode \in [rate : Rates, conservative : BOOLEAN, enabled : BOOLEAN]
    /\ hist = NoHistory /\ queue = <<>>
    /\ tier = 0 /\ used = 0 /\ folded = FALSE /\ at = 0 /\ sel = {} /\ asks = 0
    /\ samples = <<>> /\ current = Fallback * Unit /\ result = <<>>

-----------------------------------------------------------------------------
(* shape: the shrink ladder.                                                  *)

Begin ==
    /\ pc = "idle"
    /\ pc' = "shrink"
    /\ hist' \in Histories /\ queue' \in Queues
    /\ tier' = 0 /\ used' = hist'.tier[0] /\ folded' = FALSE
    /\ at' = 1 /\ sel' = {} /\ asks' = 0
    /\ result' = <<>>
    /\ UNCHANGED <<mode, samples, current>>

Shrink ==
    /\ pc = "shrink"
    /\ used > MaxState /\ tier < 4
    /\ tier' = tier + 1 /\ used' = hist.tier[tier + 1]
    /\ UNCHANGED <<pc, mode, hist, queue, folded, at, sel, asks, scoring>>

Fits ==
    /\ pc = "shrink"
    /\ used <= MaxState
    /\ pc' = "admit"
    /\ UNCHANGED <<mode, shaping, scoring>>

(* At the last tier a state that is still too large is folded: the newest     *)
(* messages are taken back while they fit half of the budget.                 *)
Fold ==
    /\ pc = "shrink"
    /\ used > MaxState /\ tier = 4
    /\ pc' = "fold"
    /\ used' = Empty /\ folded' = TRUE /\ at' = Len(hist.parts)
    /\ UNCHANGED <<mode, hist, queue, tier, sel, asks, scoring>>

(* Mutant: the fold may fill the whole budget.                                *)
Half_all(n) == n <= MaxState
Half(n) == n <= MaxState \div 2

TakeBack ==
    /\ pc = "fold"
    /\ at > 0 /\ Half(used + hist.parts[at])
    /\ used' = used + hist.parts[at] /\ at' = at - 1
    /\ UNCHANGED <<pc, mode, hist, queue, tier, folded, sel, asks, scoring>>

Folded ==
    /\ pc = "fold"
    /\ at > 0 => ~Half(used + hist.parts[at])
    /\ pc' = "admit" /\ at' = 1
    /\ UNCHANGED <<mode, hist, queue, tier, used, folded, sel, asks, scoring>>

-----------------------------------------------------------------------------
(* shape: admission.                                                          *)

Slots == Min({Cap, Len(queue)})

(* Mutant: the questions are not counted.                                     *)
Room_stateOnly(c) == used + c.text <= MaxState
Room(c) ==
    /\ used + c.text <= MaxState
    /\ Envelope + used + c.text + asks + c.asks <= MaxRequest

Admit ==
    /\ pc = "admit"
    /\ at <= Slots /\ Room(queue[at])
    /\ sel' = sel \cup {at} /\ at' = at + 1
    /\ used' = used + queue[at].text /\ asks' = asks + queue[at].asks
    /\ UNCHANGED <<pc, mode, hist, queue, tier, folded, scoring>>

(* Mutant: a candidate that does not fit ends the scan.                       *)
PassOver_stop ==
    /\ pc = "admit"
    /\ at <= Slots /\ ~Room(queue[at])
    /\ at' = Slots + 1
    /\ UNCHANGED <<pc, mode, hist, queue, tier, used, folded, sel, asks, scoring>>

PassOver ==
    /\ pc = "admit"
    /\ at <= Slots /\ ~Room(queue[at])
    /\ at' = at + 1
    /\ UNCHANGED <<pc, mode, hist, queue, tier, used, folded, sel, asks, scoring>>

Shaped == pc = "admit" /\ at > Slots

(* flush: nothing fits, nothing is asked.                                     *)
Nothing ==
    /\ Shaped /\ sel = {}
    /\ pc' = "idle"
    /\ UNCHANGED <<mode, shaping, scoring>>

Ask ==
    /\ Shaped /\ sel # {}
    /\ pc' = "asked"
    /\ UNCHANGED <<mode, shaping, scoring>>

(* flush: a ProviderError leaves the batch undecided.                         *)
Unanswered ==
    /\ pc = "asked"
    /\ pc' = "idle"
    /\ UNCHANGED <<mode, shaping, scoring>>

-----------------------------------------------------------------------------
(* observe: the threshold.                                                    *)

Tools == {i \in sel : queue[i].kind = "tool"}

(* The answers come in the order of the questions, two for a tool result and  *)
(* one for an anchor; where the candidate's own score stands, its call's just *)
(* before it.                                                                 *)
Answers == Cardinality(sel) + Cardinality(Tools)
At(i) == Cardinality({j \in sel : j <= i}) + Cardinality({j \in Tools : j <= i})
Main(scores) == [i \in sel |-> scores[At(i)]]
Call(scores) == [i \in Tools |-> scores[At(i) - 1]]

Newest(s) == SubSeq(s, Len(s) - Min({Window, Len(s)}) + 1, Len(s))

(* The k-th smallest: the least value that k samples do not exceed.           *)
Ranked(s, k) ==
    Min({v \in Probability : Cardinality({i \in DOMAIN s : s[i] <= v}) >= k})

(* Mutant: the position counts from one, the value is one too high.           *)
Quantile_offByOne(s, q) ==
    LET place == Len(s) * q
        lo == place \div Unit
        low == Ranked(s, Min({lo + 1, Len(s)}))
        high == Ranked(s, Min({lo + 2, Len(s)}))
    IN  low * Unit + (high - low) * (place % Unit)

(* Between the two samples around the position of the quantile.               *)
Quantile(s, q) ==
    LET place == (Len(s) - 1) * q
        lo == place \div Unit
        low == Ranked(s, lo + 1)
        high == Ranked(s, Min({lo + 2, Len(s)}))
    IN  low * Unit + (high - low) * (place % Unit)

Share(n) == IF mode.conservative THEN mode.rate - Margin(n) ELSE mode.rate
Threshold(s) ==
    IF ~mode.enabled \/ Len(s) < Minimum THEN Fallback * Unit
    ELSE IF Share(Len(s)) < 0 THEN 0
    ELSE Min({Ceiling * Unit, Quantile(s, Share(Len(s)))})

(* retained_indices: what is above the threshold, and a share of the best.    *)
(* Mutants: the share is rounded down; it is of the first in the batch.       *)
Up(n) == (n + Unit - 1) \div Unit
Quota_down == (Cardinality(sel) * mode.rate) \div Unit
Quota == Up(Cardinality(sel) * mode.rate)
Better(main, i) ==
    {j \in sel : main[j] > main[i] \/ (main[j] = main[i] /\ j < i)}
Best_first(main) == {i \in sel : Cardinality({j \in sel : j < i}) < Quota}
Best(main) == {i \in sel : Cardinality(Better(main, i)) < Quota}

Above(p) == p * Unit >= current'
Retained(main) == {i \in sel : Above(main[i])} \cup Best(main)

(* decide.                                                                    *)
Decision(i, main, call) ==
    IF i \in Retained(main) THEN "keep"
    ELSE IF i \in Tools /\ Above(call[i]) THEN "truncate" ELSE "drop"

Scored ==
    /\ pc = "asked"
    /\ \E scores \in [1..Answers -> Probability] :
          /\ samples' = Newest(samples \o scores)
          /\ current' = Threshold(samples')
          /\ result' = [i \in sel |->
                 [score |-> Main(scores)[i],
                  action |-> Decision(i, Main(scores), Call(scores))]]
    /\ pc' = "idle"
    /\ UNCHANGED <<mode, shaping>>

Next ==
    \/ Begin \/ Shrink \/ Fits \/ Fold \/ TakeBack \/ Folded
    \/ Admit \/ PassOver \/ Nothing \/ Ask \/ Unanswered \/ Scored

Spec == Init /\ [][Next]_vars

-----------------------------------------------------------------------------
TypeOK ==
    /\ pc \in {"idle", "shrink", "fold", "admit", "asked"}
    /\ mode \in [rate : Rates, conservative : BOOLEAN, enabled : BOOLEAN]
    /\ hist \in Histories \cup {NoHistory} /\ queue \in Queues \cup {<<>>}
    /\ tier \in Tiers /\ {used, at, asks} \subseteq Nat /\ folded \in BOOLEAN
    /\ sel \subseteq 1..Slots
    /\ samples \in Seq(Probability) /\ Len(samples) <= Window
    /\ current \in 0..(Unit * Unit)

(* What is sent stays within the budget of the state and of the request       *)
(* (settings max_state_tokens and max_request_tokens), for every ladder.      *)
WithinBudgets ==
    pc = "asked" =>
        /\ used <= MaxState
        /\ Envelope + used + asks <= MaxRequest

(* No candidate the cap lets through waits for another batch while it would   *)
(* still fit beside those that were admitted, however they came in order.     *)
NothingElseFits ==
    Shaped \/ pc = "asked" => \A i \in (1..Slots) \ sel : ~Room(queue[i])

(* After a fold there is room: a candidate that takes half of the state and   *)
(* what the request has left never waits because of a long conversation.      *)
FoldMakesRoom ==
    (Shaped \/ pc = "asked") /\ folded /\ sel = {} =>
        \A i \in 1..Slots :
            \/ queue[i].text > MaxState \div 2
            \/ Envelope + MaxState \div 2 + queue[i].text + queue[i].asks > MaxRequest

(* A batch keeps its share, whatever the threshold: no pass ends empty        *)
(* ("Quantile target that prevents an empty pass", docs/reference.md:46).     *)
KeptOf == {i \in DOMAIN result : result[i].action = "keep"}
MinimumKept ==
    Cardinality(KeptOf) >= Up(Cardinality(DOMAIN result) * mode.rate)

(* Nothing is kept before something with a better score.                      *)
BestKept ==
    \A i \in KeptOf, j \in DOMAIN result :
        result[j].score > result[i].score => j \in KeptOf

(* The threshold follows the window: once there are samples enough, at most   *)
(* the configured share of them is below it, rounded up                       *)
(* ("the live threshold follows the configured keep-rate quantile and cap",   *)
(* README.md:339).                                                            *)
Below == {i \in DOMAIN samples : samples[i] * Unit < current}
ThresholdFollows ==
    mode.enabled /\ Len(samples) >= Minimum =>
        Cardinality(Below) <= Up((Len(samples) - 1) * mode.rate)
=============================================================================
