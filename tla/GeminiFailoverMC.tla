-------------------------- MODULE GeminiFailoverMC --------------------------
(***************************************************************************)
(* A streaming request over a pool of two Gemini keys and another pool of  *)
(* the same model, first without and then with a configured fallback.      *)
(***************************************************************************)
EXTENDS GeminiFailover, TLC

CONSTANTS r1, p1, p2, a, b, x, none, flash

(* Tick: about 5 s.  Shorter durations are one tick, 10 s and more are two.*)
MCTicks == [d \in Durations |-> IF d >= 10000 THEN 2 ELSE 1]

MCRing == (p1 :> <<a, b>>) @@ (p2 :> <<x>>)
NoFallback == (p1 :> none) @@ (p2 :> none)
Cascade == (p1 :> p2) @@ (p2 :> none)
MCCore == [p \in {p1, p2} |-> flash]
MCRoutes == {<<flash, p1>>}
MCProvider == [c \in {a, b, x} |-> "gemini"]
=============================================================================
