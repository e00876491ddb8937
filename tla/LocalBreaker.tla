----------------------------- MODULE LocalBreaker -----------------------------
(***************************************************************************)
(* What the local-hop breaker promises a local-first chain, without         *)
(* cooldowns, retries, orders or clocks (providers.py:40-55): a request may *)
(* leave for a hosted API only while at most Limit local failures are in    *)
(* the current streak, and no local failure is counted while it is away.    *)
(***************************************************************************)
EXTENDS Naturals

CONSTANT Limit

VARIABLES
    streak,   \* consecutive local failures, Limit + 1 for every larger number
    away      \* a scored state is on its way to a hosted API

vars == <<streak, away>>

Init == streak = 0 /\ away = FALSE

\* A local failure prolongs the streak, or starts one after a silence.
LocalFailure ==
    /\ ~away
    /\ streak' = 1 \/ streak' = streak + 1 \/ (streak > Limit /\ streak' = streak)
    /\ streak' <= Limit + 1
    /\ UNCHANGED away

\* A local answer, perhaps to another chain, ends the streak.
LocalSuccess == streak' = 0 /\ UNCHANGED away

Leave == ~away /\ streak <= Limit /\ away' = TRUE /\ UNCHANGED streak
Return == away /\ away' = FALSE /\ UNCHANGED streak

\* The process restarts, whatever was in flight.
Forget == streak' = 0 /\ away' = FALSE

Next == LocalFailure \/ LocalSuccess \/ Leave \/ Return \/ Forget

Spec == Init /\ [][Next]_vars
=============================================================================
