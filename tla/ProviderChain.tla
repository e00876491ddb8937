---------------------------- MODULE ProviderChain ----------------------------
(***************************************************************************)
(* The scoring chains of one process (providers.py).  A chain tries its     *)
(* providers in order, one request at a time; several chains (one per       *)
(* cloned engine) run in threads of one process and share the local-hop     *)
(* breaker, which counts consecutive failures of the local provider Laya    *)
(* and suppresses the hosted fallback past Limit.                           *)
(*                                                                         *)
(* Time is relative: `left` is what remains of a cooldown (the code keeps   *)
(* the absolute deadline) and `age` the silence since the last counted      *)
(* local failure, saturating at Window, so the state space is finite        *)
(* without a bound on time.                                                 *)
(***************************************************************************)
EXTENDS Naturals, Sequences, FiniteSets

CONSTANTS
    Chains,      \* the chains (engines) of the process
    Providers,   \* every provider name
    Laya,        \* the keyless local provider
    Order,       \* [Chains -> Seq(Providers)], what __init__ resolved
    Reasons,     \* the reasons a ProviderError carries
    Triggers,    \* jev_fallback_on
    MaxRetries,  \* jev_fallback_max_retries
    Cooldown,    \* jev_fallback_cooldown_s, in ticks
    Window,      \* _LAYA_FALLBACK_WINDOW_S, in ticks
    Limit        \* _LAYA_FALLBACK_FAILURE_LIMIT

\* Settings.__post_init__ admits no other numbers.
ASSUME NumbersAssumption ==
    /\ MaxRetries \in Nat /\ Cooldown \in Nat /\ Limit \in Nat
    /\ Window \in Nat \ {0}

ASSUME NamesAssumption ==
    /\ Laya \in Providers /\ Triggers \subseteq Reasons
    /\ Order \in [Chains -> Seq(Providers)]

\* No provider twice; the local one is alone, first or last (the four modes).
ASSUME OrderAssumption ==
    \A c \in Chains : \A i, j \in 1..Len(Order[c]) :
        /\ Order[c][i] = Order[c][j] => i = j
        /\ Order[c][i] = Laya => i \in {1, Len(Order[c])}

VARIABLES
    up,       \* the providers that would answer now (the outside world)
    fails,    \* _laya_failure_count; Limit + 1 stands for every larger count
    age,      \* clock() - _laya_last_failure_at, up to Window
    left,     \* left[c][p]: what remains of c's cooldown of p
    errored,  \* the keys of self.errors
    last,     \* self.last_provider
    result,   \* how c's previous request ended
    pc,       \* "idle", "send" (about to call a provider) or "wait" (in flight)
    avail,    \* the positions of the order `available` holds, fixed at the start
    cur,      \* the position being tried
    tries     \* `attempt`

breaker == <<fails, age>>
chain == <<left, errored, last>>
request == <<result, pc, avail, cur, tries>>
vars == <<up, breaker, chain, request>>

NoProvider == "none"
Positions(c) == 1..Len(Order[c])
Current(c) == Order[c][cur[c]]

TypeOK ==
    /\ up \subseteq Providers
    /\ fails \in 0..(Limit + 1)
    /\ age \in 0..Window
    /\ left \in [Chains -> [Providers -> 0..Cooldown]]
    /\ errored \in [Chains -> SUBSET Providers]
    /\ last \in [Chains -> Providers \cup {NoProvider}]
    /\ result \in [Chains -> Reasons \cup {"none", "scores", "cooldown", "disabled"}]
    /\ pc \in [Chains -> {"idle", "send", "wait"}]
    /\ avail \in [Chains -> SUBSET Nat]
    /\ cur \in [Chains -> Nat]
    /\ tries \in [Chains -> 0..MaxRetries]
    /\ \A c \in Chains : avail[c] \subseteq Positions(c)
    /\ \A c \in Chains : pc[c] # "idle" => cur[c] \in avail[c]

Init ==
    /\ up \in SUBSET Providers
    /\ fails = 0 /\ age = 0
    /\ left = [c \in Chains |-> [p \in Providers |-> 0]]
    /\ errored = [c \in Chains |-> {}]
    /\ last = [c \in Chains |-> NoProvider]
    /\ result = [c \in Chains |-> "none"]
    /\ pc = [c \in Chains |-> "idle"]
    /\ avail = [c \in Chains |-> {}]
    /\ cur = [c \in Chains |-> 1]
    /\ tries = [c \in Chains |-> 0]

-----------------------------------------------------------------------------
(* The breaker. *)

\* _laya_failure_recorded: the count after one more local failure.
Rearmed == fails > 0 /\ age >= Window
Counted == IF Rearmed THEN 1 ELSE IF fails <= Limit THEN fails + 1 ELSE fails
Recorded == fails' = Counted /\ age' = 0
\* Mutant: one failure too many may follow.
Permitted_bug == Counted <= Limit + 1
Permitted == Counted <= Limit

\* _laya_failure_cleared.
Cleared == fails' = 0 /\ age' = 0

-----------------------------------------------------------------------------
(* One request of a chain: ProviderChain.score. *)

\* Mutants: a cooldown that ends early; a local hop left out while tripped.
Available_early(c) == {i \in Positions(c) : left[c][Order[c][i]] <= 1}
Available_tripped(c) ==
    {i \in Positions(c) : left[c][Order[c][i]] = 0
                          /\ ~(Order[c][i] = Laya /\ fails > Limit)}
Available(c) == {i \in Positions(c) : left[c][Order[c][i]] = 0}
\* Mutant: the hop itself counts as its successor.
Later_bug(c) == {i \in avail[c] : i >= cur[c]}
Later(c) == {i \in avail[c] : i > cur[c]}
First(S) == CHOOSE i \in S : \A j \in S : i <= j

\* The cooldown map is read once, before the first call.
Start(c) ==
    /\ pc[c] = "idle"
    /\ Available(c) # {}
    /\ avail' = [avail EXCEPT ![c] = Available(c)]
    /\ cur' = [cur EXCEPT ![c] = First(Available(c))]
    /\ tries' = [tries EXCEPT ![c] = 0]
    /\ pc' = [pc EXCEPT ![c] = "send"]
    /\ UNCHANGED <<up, breaker, chain, result>>

\* No provider at all, or every one cooling down: nothing is called.
Refuse(c) ==
    /\ pc[c] = "idle"
    /\ Available(c) = {}
    /\ result' = [result EXCEPT ![c] =
                    IF Order[c] = <<>> THEN "disabled" ELSE "cooldown"]
    /\ UNCHANGED <<up, breaker, chain, pc, avail, cur, tries>>

\* The HTTP request leaves the process.
Send(c) ==
    /\ pc[c] = "send"
    /\ pc' = [pc EXCEPT ![c] = "wait"]
    /\ UNCHANGED <<up, breaker, chain, result, avail, cur, tries>>

Finish(c, how) ==
    /\ pc' = [pc EXCEPT ![c] = "idle"]
    /\ result' = [result EXCEPT ![c] = how]
    /\ avail' = [avail EXCEPT ![c] = {}]
    /\ cur' = [cur EXCEPT ![c] = 1]
    /\ tries' = [tries EXCEPT ![c] = 0]

CoolDown(c) == left' = [left EXCEPT ![c][Current(c)] = Cooldown]

\* Cool the failed provider down and go on with the next available one.
FallThrough(c) ==
    /\ CoolDown(c)
    /\ cur' = [cur EXCEPT ![c] = First(Later(c))]
    /\ tries' = [tries EXCEPT ![c] = 0]
    /\ pc' = [pc EXCEPT ![c] = "send"]
    /\ UNCHANGED <<result, avail>>

\* Mutant: a local answer does not clear the breaker.
Answer_bug(c) ==
    /\ pc[c] = "wait"
    /\ Current(c) \in up
    /\ last' = [last EXCEPT ![c] = Current(c)]
    /\ errored' = [errored EXCEPT ![c] = @ \ {Current(c)}]
    /\ UNCHANGED breaker
    /\ Finish(c, "scores")
    /\ UNCHANGED <<up, left>>

Answer(c) ==
    /\ pc[c] = "wait"
    /\ Current(c) \in up
    /\ last' = [last EXCEPT ![c] = Current(c)]
    /\ errored' = [errored EXCEPT ![c] = @ \ {Current(c)}]
    /\ IF Current(c) = Laya THEN Cleared ELSE UNCHANGED breaker
    /\ Finish(c, "scores")
    /\ UNCHANGED <<up, left>>

\* Mutant: only the latest error is kept.
Failed_bug(c) ==
    /\ pc[c] = "wait"
    /\ Current(c) \notin up
    /\ errored' = [errored EXCEPT ![c] = {Current(c)}]
    /\ UNCHANGED <<up, last>>

\* What every failure starts with: self.errors[name] = last.reason.
Failed(c) ==
    /\ pc[c] = "wait"
    /\ Current(c) \notin up
    /\ errored' = [errored EXCEPT ![c] = @ \cup {Current(c)}]
    /\ UNCHANGED <<up, last>>

\* A reason that is no trigger stops the chain, without a cooldown.
FailHard(c, r) ==
    /\ Failed(c)
    /\ r \notin Triggers
    /\ Finish(c, r)
    /\ UNCHANGED <<breaker, left>>

\* Mutant: the suppressed local hop is cooled down like any other.
LocalFail_bug(c, r) ==
    /\ Failed(c)
    /\ r \in Triggers
    /\ Current(c) = Laya /\ Later(c) # {}
    /\ Recorded
    /\ IF Permitted
         THEN FallThrough(c)
         ELSE Finish(c, r) /\ CoolDown(c)

\* The local hop failed where a hosted one would follow: the breaker decides.
LocalFail(c, r) ==
    /\ Failed(c)
    /\ r \in Triggers
    /\ Current(c) = Laya /\ Later(c) # {}
    /\ Recorded
    /\ IF Permitted
         THEN FallThrough(c)
         ELSE Finish(c, r) /\ UNCHANGED left

\* A hosted hop with a successor has one attempt.
HostedFail(c, r) ==
    /\ Failed(c)
    /\ r \in Triggers
    /\ Current(c) # Laya /\ Later(c) # {}
    /\ FallThrough(c)
    /\ UNCHANGED breaker

\* The last available hop is retried at once ...
Retry(c, r) ==
    /\ Failed(c)
    /\ r \in Triggers
    /\ Later(c) = {} /\ tries[c] < MaxRetries
    /\ tries' = [tries EXCEPT ![c] = @ + 1]
    /\ pc' = [pc EXCEPT ![c] = "send"]
    /\ UNCHANGED <<breaker, left, result, avail, cur>>

\* ... and then cooled down; its last error ends the request.
Exhaust(c, r) ==
    /\ Failed(c)
    /\ r \in Triggers
    /\ Later(c) = {} /\ tries[c] >= MaxRetries
    /\ CoolDown(c)
    /\ Finish(c, r)
    /\ UNCHANGED breaker

-----------------------------------------------------------------------------
(* The surroundings. *)

\* Mutant: the cooldown map outlives the chain.
Rebuild_bug(c) ==
    /\ pc[c] = "idle"
    /\ errored' = [errored EXCEPT ![c] = {}]
    /\ last' = [last EXCEPT ![c] = NoProvider]
    /\ result' = [result EXCEPT ![c] = "none"]
    /\ UNCHANGED <<up, breaker, left, pc, avail, cur, tries>>

\* on_session_reset and clone_for_agent build a new chain; the count stays.
Rebuild(c) ==
    /\ pc[c] = "idle"
    /\ left' = [left EXCEPT ![c] = [p \in Providers |-> 0]]
    /\ errored' = [errored EXCEPT ![c] = {}]
    /\ last' = [last EXCEPT ![c] = NoProvider]
    /\ result' = [result EXCEPT ![c] = "none"]
    /\ UNCHANGED <<up, breaker, pc, avail, cur, tries>>

\* The process dies at any point and comes back.
Restart ==
    /\ Cleared
    /\ left' = [c \in Chains |-> [p \in Providers |-> 0]]
    /\ errored' = [c \in Chains |-> {}]
    /\ last' = [c \in Chains |-> NoProvider]
    /\ result' = [c \in Chains |-> "none"]
    /\ pc' = [c \in Chains |-> "idle"]
    /\ avail' = [c \in Chains |-> {}]
    /\ cur' = [c \in Chains |-> 1]
    /\ tries' = [c \in Chains |-> 0]
    /\ UNCHANGED up

\* time.monotonic() advances; a request may be in flight meanwhile.
Tick ==
    /\ left' = [c \in Chains |-> [p \in Providers |->
                  IF left[c][p] = 0 THEN 0 ELSE left[c][p] - 1]]
    /\ age' = IF fails > 0 /\ age < Window THEN age + 1 ELSE age
    /\ UNCHANGED <<up, fails, errored, last, request>>

\* A provider comes up or goes down.
Toggle(p) ==
    /\ up' = IF p \in up THEN up \ {p} ELSE up \cup {p}
    /\ UNCHANGED <<breaker, chain, request>>

Fail(c, r) ==
    \/ FailHard(c, r) \/ LocalFail(c, r) \/ HostedFail(c, r)
    \/ Retry(c, r) \/ Exhaust(c, r)

Receive(c) == Answer(c) \/ \E r \in Reasons : Fail(c, r)

Step ==
    \/ \E c \in Chains : Start(c) \/ Refuse(c) \/ Send(c) \/ Receive(c) \/ Rebuild(c)
    \/ Tick
    \/ \E p \in Providers : Toggle(p)

Next == Step \/ Restart

Spec == Init /\ [][Next]_vars

\* A call ends (it has a timeout), batches keep coming, the clock keeps running.
Fairness ==
    /\ WF_vars(Tick)
    /\ \A c \in Chains : WF_vars(Start(c)) /\ WF_vars(Send(c)) /\ WF_vars(Receive(c))

FairSpec == Spec /\ Fairness

\* Liveness is asked of a process that stays up: restarts come to an end.
Up == <>[][Step]_vars

-----------------------------------------------------------------------------
(* Properties. *)

\* local_with_api_fallback: the local slot leads and a hosted provider follows.
LocalFirst(c) == Len(Order[c]) > 1 /\ Order[c][1] = Laya

\* A request of a local-first chain is leaving, or has left, for a hosted API.
Egress(c) == LocalFirst(c) /\ pc[c] # "idle" /\ Current(c) # Laya

\* Past the limit nothing is sent to a hosted API: "the local error is
\* re-raised ... and no state leaves the machine" (providers.py:40-44).
\* Cooldowns and the breaker are independent in the code; the property needs
\* that a tripped breaker and a local hop skipped for its cooldown never meet.
NoEgressWhileTripped == \A c \in Chains : Egress(c) => fails <= Limit

\* The same for the moment a request starts: while the breaker is tripped no
\* request of any chain begins at a hosted provider.
NoEgressPastTrip ==
    [][\A c \in Chains :
         LocalFirst(c) /\ pc[c] = "idle" /\ pc'[c] = "send" /\ cur'[c] > 1
           => ~(fails > Limit /\ age < Window)]_vars

\* The process runs one local-first chain at most.
OneLocalFirst == \A c, d \in Chains : LocalFirst(c) /\ LocalFirst(d) => c = d

\* One local-first chain alone in its process keeps the breaker's promise: the
\* chain implements LocalBreaker.
Away == \E c \in Chains : LocalFirst(c) /\ pc[c] = "wait" /\ Current(c) # Laya
Promise == INSTANCE LocalBreaker WITH streak <- fails, away <- Away
BreakerPromise == Promise!Spec

\* diagnostics() can always say why a provider is cooling down: its last error
\* is on record (`cooldowns` and `errors` are two maps cleared at different
\* places).
CoolingExplained ==
    \A c \in Chains : \A p \in Providers : left[c][p] > 0 => p \in errored[c]

\* A request never passes a provider of the order over unless the last call of
\* that provider failed, whether in this request or in the one that cooled it.
SkippedOnlyAfterError ==
    \A c \in Chains : pc[c] # "idle" =>
        \A i \in Positions(c) : i < cur[c] => Order[c][i] \in errored[c]

\* No call goes to a provider that is cooling down, although `available` was
\* computed at the start of the request and hops cool providers since.
NeverCallsCooling ==
    \A c \in Chains : pc[c] # "idle" => left[c][Current(c)] = 0

\* Every request ends: no hop is tried forever and none waits for another.
RequestEnds == Up => \A c \in Chains : (pc[c] # "idle") ~> (pc[c] = "idle")

\* A local server that is back is used again by a local-first chain: neither
\* a cooldown nor the breaker keeps it out for good (providers.py:48-55).
LocalReturns ==
    Up => \A c \in Chains : LocalFirst(c) =>
        (<>[](Laya \in up) => []<>(last[c] = Laya))

\* ... and the breaker forgets the outage.
BreakerHeals ==
    Up => ((\E c \in Chains : LocalFirst(c)) => (<>[](Laya \in up) => <>[](fails = 0)))
=============================================================================
