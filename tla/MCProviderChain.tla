--------------------------- MODULE MCProviderChain ---------------------------
(* Instances of ProviderChain for TLC: what __init__ resolves in each mode. *)
EXTENDS ProviderChain, TLC

CONSTANTS a, b, laya, h1, h2

LocalThenTwo == a :> <<laya, h1, h2>>
TwoLocalFirst == a :> <<laya, h1>> @@ b :> <<laya, h1>>
=============================================================================
