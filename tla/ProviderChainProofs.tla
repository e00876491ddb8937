------------------------- MODULE ProviderChainProofs -------------------------
(***************************************************************************)
(* Theorems about ProviderChain, for any number of chains, any orders,      *)
(* cooldowns, windows, limits and retries.                                  *)
(***************************************************************************)
EXTENDS ProviderChain, WellFoundedInduction, TLAPS

\* First chooses a least element of a nonempty set of numbers.
LEMMA FirstIsLeast ==
  ASSUME NEW S, S \subseteq Nat, S # {}
  PROVE  First(S) \in S /\ \A j \in S : First(S) <= j
<1>1. \E x \in S : \A y \in S : ~ (<<y, x>> \in OpToRel(<, Nat))
  BY WFMin, NatLessThanWellFounded
<1>2. PICK x \in S : \A y \in S : ~ (<<y, x>> \in OpToRel(<, Nat))
  BY <1>1
<1>3. \A y \in S : x <= y
  <2> SUFFICES ASSUME NEW y \in S PROVE x <= y
    OBVIOUS
  <2>1. x \in Nat /\ y \in Nat
    OBVIOUS
  <2>2. ~ (<<y, x>> \in {ss \in Nat \X Nat : ss[1] < ss[2]})
    BY <1>2 DEF OpToRel
  <2> QED BY <2>1, <2>2
<1> QED BY <1>3 DEF First
-----------------------------------------------------------------------------
\* The positions a request has, and the hops it can still make.
LEMMA LaterFacts ==
  ASSUME TypeOK, NEW c \in Chains, pc[c] # "idle"
  PROVE  /\ cur[c] \in avail[c] /\ cur[c] \in Positions(c)
         /\ Current(c) \in Providers
         /\ Later(c) \subseteq avail[c] /\ Later(c) \subseteq Nat
         /\ Later(c) # {} => /\ First(Later(c)) \in avail[c]
                             /\ First(Later(c)) > cur[c]
                             /\ \A j \in Later(c) : First(Later(c)) <= j
<1>1. cur[c] \in avail[c] /\ avail[c] \subseteq Positions(c) /\ cur[c] \in Positions(c)
  BY DEF TypeOK
<1>2. Current(c) \in Providers
  BY <1>1, NamesAssumption DEF Current, Positions
<1>3. Later(c) \subseteq avail[c] /\ Later(c) \subseteq Nat
  BY <1>1 DEF Later, Positions
<1>4. ASSUME Later(c) # {}
      PROVE  First(Later(c)) \in Later(c) /\ \A j \in Later(c) : First(Later(c)) <= j
  BY <1>3, <1>4, FirstIsLeast
<1> QED BY <1>1, <1>2, <1>3, <1>4 DEF Later

\* A request starts at the first available position of the order.
LEMMA StartFacts ==
  ASSUME NEW c \in Chains, Available(c) # {}
  PROVE  /\ Available(c) \subseteq Positions(c)
         /\ First(Available(c)) \in Available(c)
         /\ \A j \in Available(c) : First(Available(c)) <= j
<1>1. Available(c) \subseteq Positions(c) /\ Available(c) \subseteq Nat
  BY DEF Available, Positions
<1> QED BY <1>1, FirstIsLeast
-----------------------------------------------------------------------------
(* Type correctness. *)

\* The four ways a failure ends, as far as types go.
LEMMA FailType ==
  ASSUME TypeOK, NEW c \in Chains, NEW r \in Reasons, Fail(c, r)
  PROVE  TypeOK'
<1> USE NumbersAssumption, NamesAssumption
<1>1. pc[c] = "wait" /\ Failed(c)
  BY DEF Fail, FailHard, LocalFail, HostedFail, Retry, Exhaust, Failed
<1>2. /\ cur[c] \in avail[c] /\ avail[c] \subseteq Positions(c)
      /\ Current(c) \in Providers
      /\ Later(c) # {} => First(Later(c)) \in avail[c]
  BY <1>1, LaterFacts DEF TypeOK
<1>3. /\ up' \subseteq Providers
      /\ errored' \in [Chains -> SUBSET Providers]
      /\ last' \in [Chains -> Providers \cup {NoProvider}]
  BY <1>1, <1>2 DEF Failed, TypeOK
<1>4. ASSUME CoolDown(c) PROVE left' \in [Chains -> [Providers -> 0..Cooldown]]
  BY <1>2, <1>4 DEF CoolDown, TypeOK
<1>5. ASSUME Recorded PROVE fails' \in 0..(Limit + 1) /\ age' \in 0..Window
  BY <1>5 DEF Recorded, Counted, TypeOK
<1>6. ASSUME NEW how \in Reasons, Finish(c, how)
      PROVE  /\ result' \in [Chains -> Reasons \cup {"none", "scores", "cooldown", "disabled"}]
             /\ pc' \in [Chains -> {"idle", "send", "wait"}]
             /\ avail' \in [Chains -> SUBSET Nat]
             /\ cur' \in [Chains -> Nat]
             /\ tries' \in [Chains -> 0..MaxRetries]
             /\ \A d \in Chains : avail'[d] \subseteq Positions(d)
             /\ \A d \in Chains : pc'[d] # "idle" => cur'[d] \in avail'[d]
  BY <1>6 DEF Finish, TypeOK
<1>7. ASSUME FallThrough(c), Later(c) # {}, UNCHANGED breaker \/ Recorded
      PROVE  TypeOK'
  <2>1. /\ result' \in [Chains -> Reasons \cup {"none", "scores", "cooldown", "disabled"}]
        /\ pc' \in [Chains -> {"idle", "send", "wait"}]
        /\ tries' \in [Chains -> 0..MaxRetries]
        /\ avail' \in [Chains -> SUBSET Nat]
        /\ \A d \in Chains : avail'[d] \subseteq Positions(d)
    BY <1>7 DEF FallThrough, TypeOK
  <2>2. First(Later(c)) \in Nat /\ First(Later(c)) \in avail[c]
    BY <1>2, <1>7 DEF TypeOK
  <2>3. cur' \in [Chains -> Nat]
    BY <1>7, <2>2 DEF FallThrough, TypeOK
  <2>4. \A d \in Chains : pc'[d] # "idle" => cur'[d] \in avail'[d]
    BY <1>7, <2>2 DEF FallThrough, TypeOK
  <2>5. left' \in [Chains -> [Providers -> 0..Cooldown]]
    BY <1>4, <1>7 DEF FallThrough
  <2>6. CASE UNCHANGED breaker
    BY <1>3, <2>1, <2>3, <2>4, <2>5, <2>6 DEF TypeOK, breaker, Positions
  <2>7. CASE Recorded
    BY <1>3, <1>5, <2>1, <2>3, <2>4, <2>5, <2>7 DEF TypeOK, Positions
  <2> QED BY <1>7, <2>6, <2>7
<1>8. CASE FailHard(c, r)
  BY <1>3, <1>6, <1>8 DEF FailHard, TypeOK, breaker, Positions
<1>9. CASE LocalFail(c, r)
  <2>1. CASE Permitted
    BY <1>7, <1>9, <2>1 DEF LocalFail
  <2>2. CASE ~ Permitted
    BY <1>3, <1>5, <1>6, <1>9, <2>2 DEF LocalFail, TypeOK, Positions
  <2> QED BY <2>1, <2>2
<1>10. CASE HostedFail(c, r)
  BY <1>7, <1>10 DEF HostedFail
<1>11. CASE Retry(c, r)
  <2>1. tries' \in [Chains -> 0..MaxRetries]
    BY <1>11 DEF Retry, TypeOK
  <2>2. pc' \in [Chains -> {"idle", "send", "wait"}]
        /\ \A d \in Chains : pc'[d] # "idle" => cur'[d] \in avail'[d]
    BY <1>1, <1>11 DEF Retry, TypeOK
  <2> QED BY <1>3, <1>11, <2>1, <2>2 DEF Retry, TypeOK, breaker, Positions
<1>12. CASE Exhaust(c, r)
  BY <1>3, <1>4, <1>6, <1>12 DEF Exhaust, TypeOK, breaker, Positions
<1> QED BY <1>8, <1>9, <1>10, <1>11, <1>12 DEF Fail

\* Every variable keeps its type: no hop is tried more than MaxRetries + 1
\* times, a request stays on the positions of its order.
THEOREM TypeCorrect == Spec => []TypeOK
<1> USE NumbersAssumption, NamesAssumption
<1>1. Init => TypeOK
  BY DEF Init, TypeOK
<1>2. TypeOK /\ [Next]_vars => TypeOK'
  <2> SUFFICES ASSUME TypeOK, [Next]_vars PROVE TypeOK'
    OBVIOUS
  <2>1. ASSUME NEW c \in Chains, Start(c) PROVE TypeOK'
    <3>1. First(Available(c)) \in Available(c) /\ Available(c) \subseteq Positions(c)
      BY <2>1, StartFacts DEF Start
    <3>2. First(Available(c)) \in Nat /\ Available(c) \in SUBSET Nat
      BY <3>1 DEF Positions
    <3>3. /\ avail' \in [Chains -> SUBSET Nat]
          /\ cur' \in [Chains -> Nat]
          /\ tries' \in [Chains -> 0..MaxRetries]
          /\ pc' \in [Chains -> {"idle", "send", "wait"}]
      BY <2>1, <3>2 DEF Start, TypeOK
    <3>4. /\ \A d \in Chains : avail'[d] \subseteq Positions(d)
          /\ \A d \in Chains : pc'[d] # "idle" => cur'[d] \in avail'[d]
      BY <2>1, <3>1 DEF Start, TypeOK
    <3> QED BY <2>1, <3>3, <3>4 DEF Start, TypeOK, breaker, chain, Positions
  <2>2. ASSUME NEW c \in Chains, Refuse(c) PROVE TypeOK'
    BY <2>2 DEF Refuse, TypeOK, breaker, chain, Positions
  <2>3. ASSUME NEW c \in Chains, Send(c) PROVE TypeOK'
    BY <2>3 DEF Send, TypeOK, breaker, chain, Positions
  <2>4. ASSUME NEW c \in Chains, Answer(c) PROVE TypeOK'
    <3>1. Current(c) \in Providers
      BY <2>4, LaterFacts DEF Answer
    <3>2. fails' \in 0..(Limit + 1) /\ age' \in 0..Window
      BY <2>4 DEF Answer, Cleared, breaker, TypeOK
    <3>3. last' \in [Chains -> Providers \cup {NoProvider}]
          /\ errored' \in [Chains -> SUBSET Providers]
      BY <2>4, <3>1 DEF Answer, TypeOK
    <3> QED BY <2>4, <3>2, <3>3 DEF Answer, Finish, TypeOK, Positions
  <2>5. ASSUME NEW c \in Chains, NEW r \in Reasons, Fail(c, r) PROVE TypeOK'
    BY <2>5, FailType
  <2>6. ASSUME NEW c \in Chains, Rebuild(c) PROVE TypeOK'
    BY <2>6 DEF Rebuild, TypeOK, breaker, Positions
  <2>7. CASE Restart
    BY <2>7 DEF Restart, Cleared, TypeOK, Positions
  <2>8. CASE Tick
    <3>1. left' \in [Chains -> [Providers -> 0..Cooldown]]
      BY <2>8 DEF Tick, TypeOK
    <3>2. age' \in 0..Window
      BY <2>8 DEF Tick, TypeOK
    <3> QED BY <2>8, <3>1, <3>2 DEF Tick, TypeOK, request, Positions
  <2>9. ASSUME NEW p \in Providers, Toggle(p) PROVE TypeOK'
    BY <2>9 DEF Toggle, TypeOK, breaker, chain, request, Positions
  <2>10. CASE UNCHANGED vars
    BY <2>10 DEF vars, TypeOK, breaker, chain, request, Positions
  <2> QED BY <2>1, <2>2, <2>3, <2>4, <2>5, <2>6, <2>7, <2>8, <2>9, <2>10
          DEF Next, Step, Receive
<1> QED BY <1>1, <1>2, PTL DEF Spec
-----------------------------------------------------------------------------
(* What a request relies on. *)

\* The request's own view: everything it has not reached is still warm, and
\* what it passed over has an error on record.
RequestInv ==
    \A c \in Chains : pc[c] # "idle" =>
        \A i \in Positions(c) :
            /\ i \in avail[c] /\ i >= cur[c] => left[c][Order[c][i]] = 0
            /\ i < cur[c] \/ i \notin avail[c] => Order[c][i] \in errored[c]

ChainInv == TypeOK /\ CoolingExplained /\ RequestInv

\* Positions name different providers.
LEMMA OrderFacts ==
  ASSUME NEW c \in Chains, NEW i \in Positions(c)
  PROVE  /\ Order[c][i] \in Providers
         /\ i \in Nat \ {0}
         /\ \A j \in Positions(c) : Order[c][i] = Order[c][j] => i = j
  BY OrderAssumption, NamesAssumption DEF Positions

\* A failure, however it ends, keeps the two parts of the invariant.
LEMMA FailKeeps ==
  ASSUME ChainInv, NEW c \in Chains, NEW r \in Reasons, Fail(c, r)
  PROVE  (CoolingExplained /\ RequestInv)'
<1>1. pc[c] = "wait" /\ Failed(c)
  BY DEF Fail, FailHard, LocalFail, HostedFail, Retry, Exhaust, Failed
<1>2. TypeOK /\ TypeOK'
  BY FailType DEF ChainInv
<1>3. /\ cur[c] \in avail[c] /\ cur[c] \in Positions(c) /\ Current(c) \in Providers
      /\ cur[c] \in Nat /\ Current(c) = Order[c][cur[c]]
  BY <1>1, <1>2, LaterFacts DEF TypeOK, Current
<1>4. /\ \A d \in Chains : errored[d] \subseteq errored'[d]
      /\ Current(c) \in errored'[c]
      /\ \A d \in Chains : d # c => errored'[d] = errored[d]
  BY <1>1, <1>2 DEF Failed, TypeOK
<1>5. ASSUME UNCHANGED left \/ CoolDown(c) PROVE CoolingExplained'
  <2> SUFFICES ASSUME NEW d \in Chains, NEW p \in Providers, left'[d][p] > 0
               PROVE  p \in errored'[d]
    BY DEF CoolingExplained
  <2>1. CASE left'[d][p] = left[d][p]
    BY <1>4, <2>1 DEF ChainInv, CoolingExplained
  <2>2. CASE left'[d][p] # left[d][p]
    <3>1. d = c /\ p = Current(c)
      BY <1>2, <1>3, <1>5, <2>2 DEF CoolDown, TypeOK
    <3> QED BY <1>4, <3>1
  <2> QED BY <2>1, <2>2
<1>6. ASSUME NEW d \in Chains, d # c
      PROVE  /\ pc'[d] = pc[d] /\ avail'[d] = avail[d] /\ cur'[d] = cur[d]
             /\ left'[d] = left[d] /\ errored'[d] = errored[d]
  <2>1. errored'[d] = errored[d]
    BY <1>4, <1>6
  <2>2. CASE FailHard(c, r)
    BY <1>2, <1>6, <2>1, <2>2 DEF FailHard, Finish, TypeOK
  <2>3. CASE LocalFail(c, r)
    BY <1>2, <1>6, <2>1, <2>3 DEF LocalFail, FallThrough, CoolDown, Finish, TypeOK
  <2>4. CASE HostedFail(c, r)
    BY <1>2, <1>6, <2>1, <2>4 DEF HostedFail, FallThrough, CoolDown, TypeOK
  <2>5. CASE Retry(c, r)
    BY <1>2, <1>6, <2>1, <2>5 DEF Retry, TypeOK
  <2>6. CASE Exhaust(c, r)
    BY <1>2, <1>6, <2>1, <2>6 DEF Exhaust, CoolDown, Finish, TypeOK
  <2> QED BY <2>2, <2>3, <2>4, <2>5, <2>6 DEF Fail
<1>7. ASSUME pc'[c] = "idle" PROVE RequestInv'
  BY <1>6, <1>7 DEF RequestInv, ChainInv, Positions
<1>8. ASSUME FallThrough(c), Later(c) # {} PROVE RequestInv'
  <2> SUFFICES ASSUME NEW d \in Chains, pc'[d] # "idle", NEW i \in Positions(d)
               PROVE  /\ i \in avail'[d] /\ i >= cur'[d] => left'[d][Order[d][i]] = 0
                      /\ i < cur'[d] \/ i \notin avail'[d] => Order[d][i] \in errored'[d]
    BY DEF RequestInv, Positions
  <2>1. CASE d # c
    BY <1>6, <2>1 DEF ChainInv, RequestInv
  <2>2. CASE d = c
    <3>1. /\ avail'[c] = avail[c] /\ cur'[c] = First(Later(c))
          /\ left' = [left EXCEPT ![c][Current(c)] = Cooldown]
      BY <1>2, <1>8 DEF FallThrough, CoolDown, TypeOK
    <3>2. /\ cur'[c] \in avail[c] /\ cur'[c] > cur[c] /\ cur'[c] \in Nat
          /\ \A j \in Later(c) : cur'[c] <= j
      BY <1>1, <1>2, <1>8, <3>1, LaterFacts DEF TypeOK
    <3>3. i \in Nat /\ Order[c][i] \in Providers
          /\ (Order[c][i] = Current(c) => i = cur[c])
      BY <1>3, <2>2, OrderFacts DEF Current
    <3>4. ASSUME i \in avail'[c], i >= cur'[c] PROVE left'[c][Order[c][i]] = 0
      <4>1. Order[c][i] # Current(c) /\ i >= cur[c] /\ i \in avail[c]
        BY <1>3, <3>1, <3>2, <3>3, <3>4
      <4>2. left[c][Order[c][i]] = 0
        BY <1>1, <2>2, <4>1 DEF ChainInv, RequestInv
      <4> QED BY <1>2, <3>1, <3>3, <4>1, <4>2 DEF TypeOK
    <3>5. ASSUME i < cur'[c] \/ i \notin avail'[c] PROVE Order[c][i] \in errored'[c]
      <4>1. CASE i = cur[c]
        BY <1>3, <1>4, <4>1
      <4>2. CASE i # cur[c]
        <5>1. i < cur[c] \/ i \notin avail[c]
          BY <1>3, <3>1, <3>2, <3>3, <3>5, <4>2 DEF Later
        <5> QED BY <1>1, <1>4, <2>2, <5>1 DEF ChainInv, RequestInv
      <4> QED BY <4>1, <4>2
    <3> QED BY <2>2, <3>4, <3>5
  <2> QED BY <2>1, <2>2
<1>9. CASE FailHard(c, r)
  BY <1>2, <1>5, <1>7, <1>9 DEF FailHard, Finish, TypeOK
<1>10. CASE LocalFail(c, r)
  <2>1. CASE Permitted
    BY <1>5, <1>8, <1>10, <2>1 DEF LocalFail, FallThrough
  <2>2. CASE ~ Permitted
    BY <1>2, <1>5, <1>7, <1>10, <2>2 DEF LocalFail, Finish, TypeOK
  <2> QED BY <2>1, <2>2
<1>11. CASE HostedFail(c, r)
  BY <1>5, <1>8, <1>11 DEF HostedFail, FallThrough
<1>12. CASE Retry(c, r)
  <2>1. UNCHANGED <<left, avail, cur>>
    BY <1>12 DEF Retry
  <2>2. pc[c] # "idle"
    BY <1>1
  <2>3. RequestInv'
    <3> SUFFICES ASSUME NEW d \in Chains, pc'[d] # "idle", NEW i \in Positions(d)
                 PROVE  /\ i \in avail[d] /\ i >= cur[d] => left[d][Order[d][i]] = 0
                        /\ i < cur[d] \/ i \notin avail[d] => Order[d][i] \in errored'[d]
      BY <2>1 DEF RequestInv, Positions
    <3>1. pc[d] # "idle"
      BY <1>6, <2>2
    <3> QED BY <1>4, <3>1 DEF ChainInv, RequestInv
  <2> QED BY <1>5, <2>1, <2>3
<1>13. CASE Exhaust(c, r)
  BY <1>2, <1>5, <1>7, <1>13 DEF Exhaust, Finish, TypeOK
<1> QED BY <1>9, <1>10, <1>11, <1>12, <1>13 DEF Fail

\* The invariant holds at the start ...
LEMMA ChainInvInit == Init => ChainInv
<1>1. Init => TypeOK
  BY NumbersAssumption, NamesAssumption DEF Init, TypeOK
<1>2. Init => CoolingExplained /\ RequestInv
  BY DEF Init, CoolingExplained, RequestInv
<1> QED BY <1>1, <1>2 DEF ChainInv

\* ... every step keeps it ...
LEMMA ChainInvNext == ChainInv /\ TypeOK' /\ [Next]_vars => ChainInv'
<1> SUFFICES ASSUME ChainInv, TypeOK', [Next]_vars
             PROVE  CoolingExplained' /\ RequestInv'
  BY DEF ChainInv
<1> USE DEF ChainInv
<1>1. ASSUME NEW c \in Chains, Start(c) PROVE CoolingExplained' /\ RequestInv'
  <2>1. CoolingExplained'
    BY <1>1 DEF Start, chain, CoolingExplained
  <2>2. ASSUME NEW i \in Positions(c)
        PROVE  /\ i \in avail'[c] /\ i >= cur'[c] => left'[c][Order[c][i]] = 0
               /\ i < cur'[c] \/ i \notin avail'[c] => Order[c][i] \in errored'[c]
    <3>1. /\ avail'[c] = Available(c) /\ cur'[c] = First(Available(c))
          /\ left' = left /\ errored' = errored
      BY <1>1 DEF Start, chain, TypeOK
    <3>2. /\ \A j \in Available(c) : cur'[c] <= j
          /\ Order[c][i] \in Providers /\ i \in Nat /\ cur'[c] \in Nat
      <4>1. Available(c) # {} /\ left = left
        BY <1>1 DEF Start
      <4>2. \A j \in Available(c) : First(Available(c)) <= j
        BY <4>1, StartFacts
      <4>3. Order[c][i] \in Providers /\ i \in Nat
        BY OrderFacts
      <4>4. cur'[c] \in Nat
        BY DEF TypeOK
      <4> QED BY <3>1, <4>2, <4>3, <4>4
    <3>3. i \in Available(c) <=> left[c][Order[c][i]] = 0
      BY DEF Available
    <3>4. i < cur'[c] => i \notin Available(c)
      BY <3>2
    <3>5. left[c][Order[c][i]] \in Nat
      BY <3>2, NumbersAssumption DEF TypeOK
    <3> QED BY <3>1, <3>2, <3>3, <3>4, <3>5 DEF CoolingExplained
  <2>3. ASSUME NEW d \in Chains, d # c
        PROVE  /\ pc'[d] = pc[d] /\ avail'[d] = avail[d] /\ cur'[d] = cur[d]
               /\ left' = left /\ errored' = errored
    BY <1>1, <2>3 DEF Start, chain, TypeOK
  <2>4. RequestInv'
    BY <2>2, <2>3 DEF RequestInv, Positions
  <2> QED BY <2>1, <2>4
<1>2. ASSUME NEW c \in Chains, Refuse(c) PROVE CoolingExplained' /\ RequestInv'
  BY <1>2 DEF Refuse, chain, CoolingExplained, RequestInv, Positions
<1>3. ASSUME NEW c \in Chains, Send(c) PROVE CoolingExplained' /\ RequestInv'
  <2>1. \A d \in Chains : pc'[d] # "idle" => pc[d] # "idle"
    BY <1>3 DEF Send, TypeOK
  <2> QED BY <1>3, <2>1 DEF Send, chain, CoolingExplained, RequestInv, Positions
<1>4. ASSUME NEW c \in Chains, Answer(c) PROVE CoolingExplained' /\ RequestInv'
  <2>1. cur[c] \in Positions(c) /\ cur[c] \in avail[c] /\ pc[c] # "idle"
    BY <1>4, LaterFacts DEF Answer
  <2>2. left[c][Current(c)] = 0
    BY <2>1 DEF RequestInv, Current, Positions
  <2>3. /\ left' = left /\ pc'[c] = "idle"
        /\ errored'[c] = errored[c] \ {Current(c)}
        /\ \A d \in Chains : d # c => /\ errored'[d] = errored[d] /\ pc'[d] = pc[d]
                                      /\ avail'[d] = avail[d] /\ cur'[d] = cur[d]
    BY <1>4 DEF Answer, Finish, TypeOK
  <2>4. CoolingExplained'
    BY <2>2, <2>3 DEF CoolingExplained
  <2>5. RequestInv'
    BY <2>3 DEF RequestInv, Positions
  <2> QED BY <2>4, <2>5
<1>5. ASSUME NEW c \in Chains, NEW r \in Reasons, Fail(c, r)
      PROVE  CoolingExplained' /\ RequestInv'
  BY <1>5, FailKeeps
<1>6. ASSUME NEW c \in Chains, Rebuild(c) PROVE CoolingExplained' /\ RequestInv'
  <2>1. /\ left'[c] = [p \in Providers |-> 0] /\ pc[c] = "idle"
        /\ pc' = pc /\ avail' = avail /\ cur' = cur
        /\ \A d \in Chains : d # c => left'[d] = left[d] /\ errored'[d] = errored[d]
    BY <1>6 DEF Rebuild, TypeOK
  <2>2. CoolingExplained'
    BY <2>1 DEF CoolingExplained
  <2>3. RequestInv'
    BY <2>1 DEF RequestInv, Positions
  <2> QED BY <2>2, <2>3
<1>7. CASE Restart
  BY <1>7 DEF Restart, CoolingExplained, RequestInv
<1>8. CASE Tick
  <2>1. \A d \in Chains, p \in Providers :
          /\ left[d][p] \in Nat
          /\ left'[d][p] = IF left[d][p] = 0 THEN 0 ELSE left[d][p] - 1
    BY <1>8, NumbersAssumption DEF Tick, TypeOK
  <2>2. errored' = errored /\ pc' = pc /\ avail' = avail /\ cur' = cur
    BY <1>8 DEF Tick, request
  <2>3. CoolingExplained'
    BY <2>1, <2>2 DEF CoolingExplained
  <2>4. RequestInv'
    BY <2>1, <2>2, OrderFacts DEF RequestInv, Positions
  <2> QED BY <2>3, <2>4
<1>9. ASSUME NEW p \in Providers, Toggle(p) PROVE CoolingExplained' /\ RequestInv'
  BY <1>9 DEF Toggle, chain, request, CoolingExplained, RequestInv, Positions
<1>10. CASE UNCHANGED vars
  BY <1>10 DEF vars, chain, request, CoolingExplained, RequestInv, Positions
<1> QED BY <1>1, <1>2, <1>3, <1>4, <1>5, <1>6, <1>7, <1>8, <1>9, <1>10
        DEF Next, Step, Receive

\* ... and so every reachable state has it.
LEMMA ChainInvariant == Spec => []ChainInv
<1> QED BY ChainInvInit, ChainInvNext, TypeCorrect, PTL DEF Spec

\* A provider that is cooling down has its error on record, in every chain and
\* whatever the other chains do.
THEOREM CoolingIsExplained == Spec => []CoolingExplained
<1>1. ChainInv => CoolingExplained
  BY DEF ChainInv
<1> QED BY <1>1, ChainInvariant, PTL

\* A request reaches a provider only past failed ones: in a local-first chain
\* nothing leaves the machine unless the local provider's last call failed.
THEOREM SkipsOnlyAfterError == Spec => []SkippedOnlyAfterError
<1>1. ChainInv => SkippedOnlyAfterError
  BY DEF ChainInv, RequestInv, SkippedOnlyAfterError
<1> QED BY <1>1, ChainInvariant, PTL

\* No call goes to a provider that is cooling down.
THEOREM CallsNoCoolingProvider == Spec => []NeverCallsCooling
<1>1. ChainInv => NeverCallsCooling
  <2> SUFFICES ASSUME ChainInv, NEW c \in Chains, pc[c] # "idle"
               PROVE  left[c][Current(c)] = 0
    BY DEF NeverCallsCooling
  <2>1. cur[c] \in Positions(c) /\ cur[c] \in avail[c] /\ cur[c] >= cur[c]
    BY LaterFacts DEF ChainInv, Positions
  <2> QED BY <2>1 DEF ChainInv, RequestInv, Current
<1> QED BY <1>1, ChainInvariant, PTL
-----------------------------------------------------------------------------
(* The breaker, for a process with at most one local-first chain. *)

\* While the breaker is tripped the local hop is warm (a suppressed failure
\* sets no cooldown), a hosted provider behind it is warm too (else the local
\* failure would not be counted, and the last hop would be cooled), and the
\* chain is at its local hop if it is anywhere.
TripInv ==
    fails > Limit => \A c \in Chains : LocalFirst(c) =>
        /\ left[c][Laya] = 0
        /\ \E i \in Positions(c) : i > 1 /\ left[c][Order[c][i]] = 0
        /\ pc[c] # "idle" => cur[c] = 1 /\ Later(c) # {}

\* A local hop with a successor is the first of a local-first chain.
LEMMA LocalHop ==
  ASSUME TypeOK, NEW c \in Chains, pc[c] # "idle", Current(c) = Laya, Later(c) # {}
  PROVE  LocalFirst(c) /\ cur[c] = 1
<1>1. cur[c] \in Positions(c) /\ avail[c] \subseteq Positions(c)
  BY LaterFacts DEF TypeOK
<1>2. PICK j \in Positions(c) : j > cur[c]
  BY <1>1 DEF Later
<1>3. Len(Order[c]) \in Nat
  BY NamesAssumption
<1>4. cur[c] \in {1, Len(Order[c])}
  BY <1>1, OrderAssumption DEF Current, Positions
<1>5. cur[c] = 1 /\ Len(Order[c]) > 1
  BY <1>1, <1>2, <1>3, <1>4 DEF Positions
<1> QED BY <1>5 DEF LocalFirst, Current

\* Every step keeps what holds while the breaker is tripped.
LEMMA TripStep ==
  ASSUME OneLocalFirst, ChainInv, TripInv, ChainInv', [Next]_vars
  PROVE  TripInv'
<1> USE NumbersAssumption, NamesAssumption
<1> SUFFICES ASSUME fails' > Limit, NEW c \in Chains, LocalFirst(c)
             PROVE  /\ left'[c][Laya] = 0
                    /\ \E i \in Positions(c) : i > 1 /\ left'[c][Order[c][i]] = 0
                    /\ pc'[c] # "idle" => cur'[c] = 1 /\ Later(c)' # {}
  BY DEF TripInv, LocalFirst, Positions
<1>1. TypeOK /\ TypeOK'
  BY DEF ChainInv
<1>2. 1 \in Positions(c) /\ Order[c][1] = Laya /\ Len(Order[c]) \in Nat
  BY DEF LocalFirst, Positions
<1>3. ASSUME fails > Limit
      PROVE  /\ left[c][Laya] = 0
             /\ \E i \in Positions(c) : i > 1 /\ left[c][Order[c][i]] = 0
             /\ pc[c] # "idle" => cur[c] = 1 /\ Later(c) # {} /\ Current(c) = Laya
  BY <1>2, <1>3 DEF TripInv, Current
<1>4. ASSUME fails > Limit, left'[c] = left[c],
             pc'[c] = pc[c] \/ pc'[c] = "idle" \/ (pc[c] # "idle" /\ pc'[c] # "idle"),
             avail'[c] = avail[c] \/ pc'[c] = "idle", cur'[c] = cur[c] \/ pc'[c] = "idle"
      PROVE  /\ left'[c][Laya] = 0
             /\ \E i \in Positions(c) : i > 1 /\ left'[c][Order[c][i]] = 0
             /\ pc'[c] # "idle" => cur'[c] = 1 /\ Later(c)' # {}
  BY <1>3, <1>4 DEF Later
<1>5. ASSUME NEW d \in Chains, Start(d)
      PROVE  /\ left'[c][Laya] = 0
             /\ \E i \in Positions(c) : i > 1 /\ left'[c][Order[c][i]] = 0
             /\ pc'[c] # "idle" => cur'[c] = 1 /\ Later(c)' # {}
  <2>1. fails > Limit /\ left' = left
    BY <1>5 DEF Start, breaker, chain
  <2>2. CASE d # c
    BY <1>1, <1>4, <1>5, <2>1, <2>2 DEF Start, TypeOK
  <2>3. CASE d = c
    <3>1. 1 \in Available(c)
      BY <1>2, <1>3, <2>1 DEF Available
    <3>2. PICK i \in Available(c) : i > 1
      BY <1>3, <2>1 DEF Available
    <3>3. First(Available(c)) = 1
      BY <1>5, <2>3, <3>1, StartFacts DEF Start, Positions
    <3>4. cur'[c] = 1 /\ avail'[c] = Available(c)
      BY <1>1, <1>5, <2>3, <3>3 DEF Start, TypeOK
    <3>5. Later(c)' # {}
      BY <3>2, <3>4 DEF Later
    <3> QED BY <1>3, <2>1, <3>4, <3>5
  <2> QED BY <2>2, <2>3
<1>6. ASSUME NEW d \in Chains, NEW r \in Reasons, Fail(d, r), fails > Limit
      PROVE  /\ left'[c][Laya] = 0
             /\ \E i \in Positions(c) : i > 1 /\ left'[c][Order[c][i]] = 0
             /\ pc'[c] # "idle" => cur'[c] = 1 /\ Later(c)' # {}
  <2>1. pc[d] = "wait"
    BY <1>6 DEF Fail, FailHard, LocalFail, HostedFail, Retry, Exhaust, Failed
  <2>2. CASE d # c
    <3>1. FailHard(d, r) => UNCHANGED left /\ avail'[c] = avail[c] /\ cur'[c] = cur[c] /\ pc'[c] = pc[c]
      BY <1>1, <2>2 DEF FailHard, Finish, TypeOK
    <3>2. LocalFail(d, r) => d = c
      BY <1>1, <2>1, LocalHop DEF LocalFail, OneLocalFirst
    <3>3. HostedFail(d, r) =>
            left'[c] = left[c] /\ avail'[c] = avail[c] /\ cur'[c] = cur[c] /\ pc'[c] = pc[c]
      BY <1>1, <2>2 DEF HostedFail, FallThrough, CoolDown, TypeOK
    <3>4. Retry(d, r) => UNCHANGED left /\ avail'[c] = avail[c] /\ cur'[c] = cur[c] /\ pc'[c] = pc[c]
      BY <1>1, <2>2 DEF Retry, TypeOK
    <3>5. Exhaust(d, r) =>
            left'[c] = left[c] /\ avail'[c] = avail[c] /\ cur'[c] = cur[c] /\ pc'[c] = pc[c]
      BY <1>1, <2>2 DEF Exhaust, Finish, CoolDown, TypeOK
    <3> QED BY <1>4, <1>6, <2>2, <3>1, <3>2, <3>3, <3>4, <3>5 DEF Fail
  <2>3. CASE d = c
    <3>1. Later(c) # {} /\ Current(c) = Laya
      BY <1>3, <1>6, <2>1, <2>3
    <3>2. CASE FailHard(c, r)
      BY <1>1, <1>4, <1>6, <3>2 DEF FailHard, Finish, TypeOK
    <3>3. CASE LocalFail(c, r)
      <4>1. ~ Permitted
        BY <1>1, <3>3 DEF LocalFail, Recorded, Permitted, TypeOK
      <4> QED BY <1>1, <1>4, <1>6, <3>3, <4>1 DEF LocalFail, Finish, TypeOK
    <3> QED BY <1>6, <2>3, <3>1, <3>2, <3>3 DEF Fail, HostedFail, Retry, Exhaust
  <2> QED BY <2>2, <2>3
<1>7. ASSUME NEW d \in Chains, NEW r \in Reasons, Fail(d, r), ~ (fails > Limit)
      PROVE  /\ left'[c][Laya] = 0
             /\ \E i \in Positions(c) : i > 1 /\ left'[c][Order[c][i]] = 0
             /\ pc'[c] # "idle" => cur'[c] = 1 /\ Later(c)' # {}
  <2>1. LocalFail(d, r)
    BY <1>7 DEF Fail, FailHard, HostedFail, Retry, Exhaust, breaker
  <2>2. pc[d] = "wait" /\ Current(d) = Laya /\ Later(d) # {}
    BY <2>1 DEF LocalFail, Failed
  <2>3. d = c /\ cur[c] = 1
    BY <1>1, <2>2, LocalHop DEF OneLocalFirst
  <2>4. ~ Permitted
    BY <1>1, <2>1 DEF LocalFail, Recorded, Permitted, TypeOK
  <2>5. UNCHANGED left /\ pc'[c] = "idle"
    BY <1>1, <2>1, <2>3, <2>4 DEF LocalFail, Finish, TypeOK
  <2>6. 1 \in avail[c] /\ avail[c] \subseteq Positions(c)
    BY <1>1, <2>2, <2>3 DEF TypeOK
  <2>7. left[c][Laya] = 0
    BY <1>2, <2>2, <2>3, <2>6 DEF ChainInv, RequestInv
  <2>8. PICK i \in Later(c) : TRUE
    BY <2>2, <2>3
  <2>9. i \in Positions(c) /\ i > 1 /\ left[c][Order[c][i]] = 0
    BY <2>2, <2>3, <2>6, <2>8 DEF Later, ChainInv, RequestInv, Positions
  <2> QED BY <2>5, <2>7, <2>9
<1>8. ASSUME NEW d \in Chains, Answer(d)
      PROVE  /\ left'[c][Laya] = 0
             /\ \E i \in Positions(c) : i > 1 /\ left'[c][Order[c][i]] = 0
             /\ pc'[c] # "idle" => cur'[c] = 1 /\ Later(c)' # {}
  <2>1. fails > Limit /\ left' = left
    BY <1>8 DEF Answer, Cleared, breaker
  <2> QED BY <1>1, <1>4, <1>8, <2>1 DEF Answer, Finish, TypeOK
<1>9. ASSUME NEW d \in Chains, Refuse(d) \/ Send(d)
      PROVE  /\ left'[c][Laya] = 0
             /\ \E i \in Positions(c) : i > 1 /\ left'[c][Order[c][i]] = 0
             /\ pc'[c] # "idle" => cur'[c] = 1 /\ Later(c)' # {}
  BY <1>1, <1>4, <1>9 DEF Refuse, Send, breaker, chain, TypeOK
<1>10. ASSUME NEW d \in Chains, Rebuild(d)
      PROVE  /\ left'[c][Laya] = 0
             /\ \E i \in Positions(c) : i > 1 /\ left'[c][Order[c][i]] = 0
             /\ pc'[c] # "idle" => cur'[c] = 1 /\ Later(c)' # {}
  <2>1. fails > Limit /\ pc' = pc /\ avail' = avail /\ cur' = cur
    BY <1>10 DEF Rebuild, breaker
  <2>2. CASE d # c
    BY <1>1, <1>4, <1>10, <2>1, <2>2 DEF Rebuild, TypeOK
  <2>3. CASE d = c
    <3>1. left'[c] = [p \in Providers |-> 0] /\ pc[c] = "idle"
      BY <1>1, <1>10, <2>3 DEF Rebuild, TypeOK
    <3>2. PICK i \in Positions(c) : i > 1
      BY <1>3, <2>1
    <3> QED BY <2>1, <3>1, <3>2, OrderFacts
  <2> QED BY <2>2, <2>3
<1>11. CASE Tick
  <2>1. fails > Limit /\ pc' = pc /\ avail' = avail /\ cur' = cur
    BY <1>11 DEF Tick, request
  <2>2. \A p \in Providers : left[c][p] = 0 => left'[c][p] = 0
    BY <1>11 DEF Tick
  <2> QED BY <1>3, <2>1, <2>2, OrderFacts DEF Later
<1>12. CASE Restart
  BY <1>12 DEF Restart, Cleared
<1>13. CASE (\E p \in Providers : Toggle(p)) \/ UNCHANGED vars
  BY <1>4, <1>13 DEF Toggle, vars, breaker, chain, request
<1> QED BY <1>5, <1>6, <1>7, <1>8, <1>9, <1>10, <1>11, <1>12, <1>13
        DEF Next, Step, Receive

\* The breaker's invariant, for one local-first chain.
LEMMA TripInvariant ==
  ASSUME OneLocalFirst
  PROVE  Spec => []TripInv
<1>1. Init => TripInv
  BY NumbersAssumption DEF Init, TripInv
<1>2. ChainInv /\ TripInv /\ ChainInv' /\ [Next]_vars => TripInv'
  BY TripStep
<1> QED BY <1>1, <1>2, ChainInvariant, PTL DEF Spec

\* With one local-first chain in the process, cooldowns never get around the
\* breaker: while it is tripped nothing is on its way to a hosted API.
LEMMA TripGates ==
  ASSUME TypeOK, TripInv
  PROVE  NoEgressWhileTripped
<1> SUFFICES ASSUME NEW c \in Chains, Egress(c), ~ (fails <= Limit) PROVE FALSE
  BY DEF NoEgressWhileTripped
<1>1. fails > Limit
  BY NumbersAssumption DEF TypeOK
<1>2. cur[c] = 1
  BY <1>1 DEF TripInv, Egress
<1> QED BY <1>2 DEF Egress, LocalFirst, Current

\* The theorem behind "past three the fallback is suppressed", for every limit,
\* window, cooldown, retry count and list of hosted providers.
THEOREM TrippedMeansLocal ==
  ASSUME OneLocalFirst
  PROVE  Spec => []NoEgressWhileTripped
<1>1. TypeOK /\ TripInv => NoEgressWhileTripped
  BY TripGates
<1> QED BY <1>1, TypeCorrect, TripInvariant, PTL

\* Away, when the only local-first chain is known.
LEMMA AwayFacts ==
  ASSUME OneLocalFirst, NEW c \in Chains, LocalFirst(c)
  PROVE  /\ Away <=> pc[c] = "wait" /\ Current(c) # Laya
         /\ Away' <=> pc'[c] = "wait" /\ Current(c)' # Laya
  BY DEF Away, OneLocalFirst, LocalFirst, Current

\* A step that leaves the local-first chain alone leaves Away alone.
LEMMA AwayKept ==
  ASSUME OneLocalFirst, \A c \in Chains : LocalFirst(c) => pc'[c] = pc[c] /\ cur'[c] = cur[c]
  PROVE  Away' = Away
  BY Zenon DEF Away, LocalFirst, Current

\* What a failure of chain c does to the abstract breaker.
LEMMA FailRefines ==
  ASSUME OneLocalFirst, TypeOK, NEW c \in Chains, NEW r \in Reasons, Fail(c, r)
  PROVE  [Promise!Next]_Promise!vars
<1> USE NumbersAssumption
<1>1. pc[c] = "wait"
  BY DEF Fail, FailHard, LocalFail, HostedFail, Retry, Exhaust, Failed
<1>2. pc'[c] # "wait"
  BY <1>1 DEF Fail, FailHard, LocalFail, HostedFail, Retry, Exhaust, FallThrough, Finish, TypeOK
<1>3. \A d \in Chains : d # c => pc'[d] = pc[d] /\ cur'[d] = cur[d]
  BY DEF Fail, FailHard, LocalFail, HostedFail, Retry, Exhaust, FallThrough, Finish, TypeOK
<1>4. CASE LocalFail(c, r)
  <2>1. LocalFirst(c) /\ Current(c) = Laya
    BY <1>1, <1>4, LocalHop DEF LocalFail
  <2>2. ~ Away /\ ~ Away'
    BY <1>2, <2>1, AwayFacts
  <2>3. fails' = Counted
    BY <1>4 DEF LocalFail, Recorded
  <2>4. fails' = 1 \/ fails' = fails + 1 \/ (fails > Limit /\ fails' = fails)
    BY <2>3 DEF Counted, TypeOK
  <2>5. fails' <= Limit + 1
    BY <2>3 DEF Counted, TypeOK
  <2>6. Promise!LocalFailure
    <3>1. Away' = Away
      BY <2>2 DEF Away
    <3> QED BY <2>2, <2>4, <2>5, <3>1 DEF Promise!LocalFailure
  <2> QED BY <2>6 DEF Promise!Next
<1>5. CASE ~ LocalFail(c, r)
  <2>1. fails' = fails
    BY <1>5 DEF Fail, FailHard, HostedFail, Retry, Exhaust, breaker
  <2>2. CASE LocalFirst(c)
    <3>1. ~ Away'
      BY <1>2, <2>2, AwayFacts
    <3>2. CASE Away
      <4>1. Promise!Return
        BY <2>1, <3>1, <3>2 DEF Promise!Return
      <4> QED BY <4>1 DEF Promise!Next
    <3>3. CASE ~ Away
      BY <2>1, <3>1, <3>3 DEF Promise!vars, Away
    <3> QED BY <3>2, <3>3
  <2>3. CASE ~ LocalFirst(c)
    <3>1. Away' = Away
      BY <1>3, <2>3, AwayKept
    <3> QED BY <2>1, <3>1 DEF Promise!vars
  <2> QED BY <2>2, <2>3
<1> QED BY <1>4, <1>5

\* Every step of the process is a step of the abstract breaker, or none.
LEMMA NextRefines ==
  ASSUME OneLocalFirst, TypeOK, NoEgressWhileTripped, [Next]_vars
  PROVE  [Promise!Next]_Promise!vars
<1>1. ASSUME UNCHANGED <<fails, pc, cur>> PROVE [Promise!Next]_Promise!vars
  <2>1. Away' = Away
    BY <1>1, AwayKept
  <2> QED BY <1>1, <2>1 DEF Promise!vars
<1>2. ASSUME NEW c \in Chains, Start(c) PROVE [Promise!Next]_Promise!vars
  <2>1. fails' = fails /\ pc[c] # "wait" /\ pc'[c] # "wait"
    BY <1>2 DEF Start, breaker, TypeOK
  <2>2. \A d \in Chains : d # c => pc'[d] = pc[d] /\ cur'[d] = cur[d]
    BY <1>2 DEF Start, TypeOK
  <2>3. Away' = Away
    BY <2>1, <2>2 DEF Away, LocalFirst, Current
  <2> QED BY <2>1, <2>3 DEF Promise!vars
<1>3. ASSUME NEW c \in Chains, Send(c) PROVE [Promise!Next]_Promise!vars
  <2>1. fails' = fails /\ cur' = cur /\ pc[c] = "send" /\ pc'[c] = "wait"
    BY <1>3 DEF Send, breaker, TypeOK
  <2>2. \A d \in Chains : d # c => pc'[d] = pc[d]
    BY <1>3 DEF Send, TypeOK
  <2>3. CASE LocalFirst(c) /\ Current(c) # Laya
    <3>1. ~ Away /\ Away'
      BY <2>1, <2>3, AwayFacts DEF Current
    <3>2. fails <= Limit
      BY <2>1, <2>3 DEF NoEgressWhileTripped, Egress
    <3>3. Promise!Leave
      BY <2>1, <3>1, <3>2 DEF Promise!Leave
    <3> QED BY <3>3 DEF Promise!Next
  <2>4. CASE ~ (LocalFirst(c) /\ Current(c) # Laya)
    <3>1. Away' = Away
      BY <2>1, <2>2, <2>4 DEF Away, LocalFirst, Current
    <3> QED BY <2>1, <3>1 DEF Promise!vars
  <2> QED BY <2>3, <2>4
<1>4. ASSUME NEW c \in Chains, Answer(c) PROVE [Promise!Next]_Promise!vars
  <2>1. pc[c] = "wait" /\ pc'[c] # "wait"
    BY <1>4 DEF Answer, Finish, TypeOK
  <2>2. \A d \in Chains : d # c => pc'[d] = pc[d] /\ cur'[d] = cur[d]
    BY <1>4 DEF Answer, Finish, TypeOK
  <2>3. CASE LocalFirst(c) /\ Current(c) # Laya
    <3>1. Away /\ ~ Away' /\ fails' = fails
      BY <1>4, <2>1, <2>3, AwayFacts DEF Answer, breaker
    <3>2. Promise!Return
      BY <3>1 DEF Promise!Return
    <3> QED BY <3>2 DEF Promise!Next
  <2>4. CASE ~ (LocalFirst(c) /\ Current(c) # Laya)
    <3>1. Away' = Away
      BY <2>1, <2>2, <2>4 DEF Away, LocalFirst, Current
    <3>2. CASE Current(c) = Laya
      <4>1. Promise!LocalSuccess
        BY <1>4, <3>1, <3>2 DEF Answer, Cleared, Promise!LocalSuccess
      <4> QED BY <4>1 DEF Promise!Next
    <3>3. CASE Current(c) # Laya
      BY <1>4, <3>1, <3>3 DEF Answer, breaker, Promise!vars
    <3> QED BY <3>2, <3>3
  <2> QED BY <2>3, <2>4
<1>5. ASSUME NEW c \in Chains, NEW r \in Reasons, Fail(c, r)
      PROVE  [Promise!Next]_Promise!vars
  BY <1>5, FailRefines
<1>6. CASE Restart
  <2>1. ~ Away'
    BY <1>6 DEF Restart, Away
  <2>2. Promise!Forget
    BY <1>6, <2>1 DEF Restart, Cleared, Promise!Forget
  <2> QED BY <2>2 DEF Promise!Next
<1>7. ASSUME NEW c \in Chains, Refuse(c) \/ Rebuild(c) PROVE [Promise!Next]_Promise!vars
  BY <1>1, <1>7 DEF Refuse, Rebuild, breaker
<1>8. CASE Tick \/ (\E p \in Providers : Toggle(p)) \/ UNCHANGED vars
  BY <1>1, <1>8 DEF Tick, Toggle, vars, breaker, request
<1> QED BY <1>2, <1>3, <1>4, <1>5, <1>6, <1>7, <1>8 DEF Next, Step, Receive

\* The chain with its cooldowns, retries, clock and crashes implements the
\* abstract breaker, in a process with one local-first chain.
THEOREM ImplementsBreaker ==
  ASSUME OneLocalFirst
  PROVE  Spec => BreakerPromise
<1>1. Init => Promise!Init
  BY DEF Init, Away, Promise!Init
<1>2. TypeOK /\ NoEgressWhileTripped /\ [Next]_vars => [Promise!Next]_Promise!vars
  BY NextRefines
<1> QED BY <1>1, <1>2, TypeCorrect, TrippedMeansLocal, PTL
        DEF Spec, BreakerPromise, Promise!Spec
=============================================================================
