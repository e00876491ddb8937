---------------------------- MODULE ModeRouting ----------------------------
(***************************************************************************)
(* How a configuration becomes the order of a provider chain               *)
(* (settings.py: resolve_mode and Settings.__post_init__; providers.py:    *)
(* ProviderChain.__init__).  The settings are resolved once and frozen;    *)
(* the environment is read whenever a chain is built, which a session      *)
(* reset does again.                                                       *)
(***************************************************************************)
EXTENDS Integers, Sequences, FiniteSets

CONSTANTS
    Hosted,      \* the hosted providers
    Laya,        \* the local provider
    Typesafe, Openrouter, Clef,
    FallbackOrders,  \* the values of jev_fallback_order that are tried
    WrittenPins,     \* the values of jev_provider_pin a configuration may hold
    None         \* no settings, no chain, no pin

ASSUME HostedAssumption ==
    /\ Hosted = {Typesafe, Openrouter, Clef}
    /\ Cardinality(Hosted) = 3
    /\ Laya \notin Hosted /\ None \notin Hosted \cup {Laya}
    /\ WrittenPins \subseteq Hosted \cup {None}
ASSUME FallbackAssumption ==
    \A f \in FallbackOrders :
        /\ f \in Seq(Hosted) /\ f # << >>
        /\ \A i, j \in DOMAIN f : f[i] = f[j] => i = j

VARIABLES
    settings,    \* the frozen settings of the process, or None
    env,         \* the providers with a key, and whether there is an account
    chain        \* the chain of the engine with the environment it read, or None
vars == <<settings, env, chain>>

Modes == {"api_with_local_fallback", "api_only", "local_only",
          "local_with_api_fallback"}

\* The two tables of names, one entry per name an earlier release accepted.
Aliases == [auto |-> "api_only", jev_api |-> "api_only",
            laya |-> "local_only", laya_local |-> "local_only",
            laya_then_hosted |-> "local_with_api_fallback",
            laya_with_jev_fallback |-> "local_with_api_fallback"]
Pins == [typesafe |-> <<"api_only", Typesafe>>,
         openrouter |-> <<"api_only", Openrouter>>,
         clef |-> <<"api_only", Clef>>,
         clef_api |-> <<"api_only", Clef>>,
         clef_with_local_fallback |-> <<"api_with_local_fallback", Clef>>]

Names == Modes \cup DOMAIN Aliases \cup DOMAIN Pins

\* Mutant: an alias that reaches the settings as it was written.
Resolved_bug(name) == IF name \in DOMAIN Pins THEN Pins[name] ELSE <<name, None>>

\* The mode and the pin a name stands for.
Resolved(name) ==
    IF name \in Modes THEN <<name, None>>
    ELSE IF name \in DOMAIN Pins THEN Pins[name]
    ELSE <<Aliases[name], None>>

Environments == [keys : SUBSET Hosted, account : BOOLEAN]

Init == settings = None /\ env \in Environments /\ chain = None

\* __post_init__: a pin of the name replaces the one written beside it, which
\* stays where the name has none.
Load(name, written, order, enabled) ==
    /\ settings = None
    /\ LET r == Resolved(name) IN
       settings' = [mode |-> r[1],
                    pin |-> IF r[2] # None THEN r[2] ELSE written,
                    order |-> order, enabled |-> enabled]
    /\ UNCHANGED <<env, chain>>

\* Mutant: the whole order when at least one of its members has a key.
Keyed_bug == IF \E i \in DOMAIN settings.order : settings.order[i] \in env.keys
             THEN settings.order ELSE << >>

\* The members of the fallback order that have a key.
Keyed ==
    LET kept[i \in 0..Len(settings.order)] ==
            IF i = 0 THEN << >>
            ELSE IF settings.order[i] \in env.keys
                 THEN Append(kept[i - 1], settings.order[i])
                 ELSE kept[i - 1]
    IN  kept[Len(settings.order)]

\* A pinned provider needs its key, and Clef its account, at load.
HasRoute(p) == p \in env.keys /\ (p = Clef => env.account)

\* What makes the constructor raise ValueError.
Rejected ==
    \/ settings.mode \in {"local_with_api_fallback", "api_with_local_fallback"}
       /\ Keyed = << >>
    \/ settings.mode = "api_only" /\ settings.pin # None /\ ~HasRoute(settings.pin)

\* The order of each mode.
FullOrder ==
    CASE settings.mode = "local_only" -> <<Laya>>
      [] settings.mode = "local_with_api_fallback" -> <<Laya>> \o Keyed
      [] settings.mode = "api_only" ->
            IF settings.pin # None THEN <<settings.pin>> ELSE Keyed
      [] settings.mode = "api_with_local_fallback" -> Keyed \o <<Laya>>

\* Mutant: a chain without fallback that keeps its last hop instead of its first.
Truncated_bug(order) ==
    IF settings.enabled \/ order = << >> THEN order ELSE <<order[Len(order)]>>

\* A chain without fallback keeps the first hop of its order.
Truncated(order) ==
    IF settings.enabled \/ order = << >> THEN order ELSE <<order[1]>>

Built == [order |-> Truncated(FullOrder), env |-> env]

\* The first chain of the process; when it raises, no engine is registered.
Build ==
    /\ settings # None /\ chain = None
    /\ IF Rejected THEN settings' = None /\ UNCHANGED chain
                   ELSE chain' = Built /\ UNCHANGED settings
    /\ UNCHANGED env

\* Mutant: a rebuild that skips the checks of the first build.
Reset_bug ==
    /\ chain # None
    /\ chain' = Built
    /\ UNCHANGED <<settings, env>>

\* on_session_reset: a constructor that raises leaves the old chain in place.
Reset ==
    /\ chain # None /\ ~Rejected
    /\ chain' = Built
    /\ UNCHANGED <<settings, env>>

\* os.environ changes, by the host or by whoever restarts the process.
Export == env' \in Environments /\ UNCHANGED <<settings, chain>>

Restart == settings' = None /\ chain' = None /\ UNCHANGED env

Next ==
    \/ \E name \in Names, written \in WrittenPins,
          order \in FallbackOrders, enabled \in BOOLEAN :
            Load(name, written, order, enabled)
    \/ Build \/ Reset \/ Export \/ Restart

Spec == Init /\ [][Next]_vars

-----------------------------------------------------------------------------
(* Properties *)

Orders == {o \in UNION {[1..n -> Hosted \cup {Laya}] : n \in 0..4} :
             \A i, j \in DOMAIN o : o[i] = o[j] => i = j}

TypeOK ==
    /\ settings \in {None} \cup [mode : Modes, pin : Hosted \cup {None},
                                order : FallbackOrders, enabled : BOOLEAN]
    /\ env \in Environments
    /\ chain = None \/ (chain.order \in Orders /\ chain.env \in Environments)

Members == {chain.order[i] : i \in DOMAIN chain.order}
Listed == {settings.order[i] : i \in DOMAIN settings.order}

\* What ProviderChain assumes of every order, whatever the environment was: no
\* provider twice, the local one first or last, no hosted one without a key.
OrderSound ==
    chain # None =>
        /\ \A i, j \in DOMAIN chain.order : chain.order[i] = chain.order[j] => i = j
        /\ \A i \in DOMAIN chain.order :
              IF chain.order[i] = Laya THEN i \in {1, Len(chain.order)}
                                       ELSE chain.order[i] \in chain.env.keys

\* "The mode alone says what leaves the machine" (settings.py:14): a local mode
\* never reaches a hosted hop and a hosted mode never the local one; a mode that
\* names a fallback has both sides, in its order, unless fallbacks are off. A pin
\* names the whole chain of api_only, with its key and account as they were when
\* the chain was built, and has no say in any other mode, where each hosted hop
\* is of the fallback order; only an unpinned api_only chain can be empty.
ModeDecides ==
    chain # None =>
        /\ settings.mode = "local_only" => Members = {Laya}
        /\ settings.mode = "api_only" => Laya \notin Members
        /\ settings.mode = "local_with_api_fallback" =>
              chain.order[1] = Laya /\ (settings.enabled <=> Members \cap Hosted # {})
        /\ settings.mode = "api_with_local_fallback" =>
              chain.order[1] # Laya /\ (settings.enabled <=> Laya \in Members)
        /\ settings.mode = "api_only" /\ settings.pin # None =>
              /\ chain.order = <<settings.pin>> /\ settings.pin \in chain.env.keys
              /\ settings.pin = Clef => chain.env.account
        /\ settings.mode # "api_only" \/ settings.pin = None =>
              Members \ {Laya} \subseteq Listed
        /\ chain.order = << >> => settings.mode = "api_only" /\ settings.pin = None

\* Keys may come and go and chains be rebuilt, but which side of the machine
\* leads, and that a chain with a hop keeps one unless its mode is api_only, is
\* settled for the life of a process: a rebuild that would break it raises
\* and leaves the old chain.
SideIsStable ==
    [][ chain # None /\ chain' # None =>
          \/ settings.mode = "api_only" /\ Laya \notin Members \cup Members'
          \/ /\ chain.order # << >> /\ chain'.order # << >>
             /\ (chain.order[1] = Laya) <=> (chain'.order[1] = Laya) ]_vars
=============================================================================
