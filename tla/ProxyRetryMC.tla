---------------------------- MODULE ProxyRetryMC ----------------------------
(***************************************************************************)
(* Small instances of ProxyRetry.  In "Mixed" one request works through    *)
(* two pools of its model, the first of which falls back on a pool of      *)
(* another model, and the cluster moves cooldowns under it; in "Twins" two *)
(* requests compete for one pool of two keys.                              *)
(***************************************************************************)
EXTENDS ProxyRetry, TLC

CONSTANTS r1, r2, p1, p2, p3, a, b, x, y, none, llama, gemma

Plain(statuses) == [status : statuses, body : {"plain"}]

(* Tick: about 5 s.  Shorter durations are one tick, 10 s and more are two.*)
MCTicks == [d \in Durations |-> IF d >= 10000 THEN 2 ELSE 1]

MixedRing == (p1 :> <<a, a, b>>) @@ (p2 :> <<x>>) @@ (p3 :> <<y>>)

\* The rings are those NewBalancedPool builds; a weight below 1 counts as 1.
ASSUME RingsAreBuilt ==
    /\ MixedRing[p1] = NewBalancedPool(<<a, b>>, (a :> 2) @@ (b :> 1))
    /\ MixedRing[p2] = NewBalancedPool(<<x>>, x :> 0)

MixedFallback == (p1 :> p2) @@ (p2 :> none) @@ (p3 :> none)
MixedProvider == (a :> "puter") @@ (b :> "puter") @@ (x :> "gemini") @@ (y :> "gemini")
MixedReplies ==
    Plain({200, 400, 401, 429, 503})
        \cup {[status |-> 403, body |-> "agreement"], [status |-> 503, body |-> "depleted"]}

\* The configured fallback hosts another model than the one asked for.
MixedCore == (p1 :> llama) @@ (p2 :> gemma) @@ (p3 :> llama)
MixedRoutes == {<<llama, p1>>}

TwinRing == p1 :> <<a, b>>
TwinCore == p1 :> llama
TwinFallback == p1 :> none
TwinProvider == (a :> "nvidia") @@ (b :> "nvidia")
TwinReplies == Plain({200, 400, 503})
=============================================================================
