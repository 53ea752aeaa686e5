-------------------------- MODULE CredentialPoolMC --------------------------
(***************************************************************************)
(* Two callers on a pool of two credentials that falls back on a third.    *)
(***************************************************************************)
EXTENDS CredentialPool, TLC

CONSTANTS k1, k2, p1, p2, a, b, x, none

MCRing == (p1 :> <<a, b>>) @@ (p2 :> <<x>>)
MCFallback == (p1 :> p2) @@ (p2 :> none)
MCTicks == [d \in Durations |-> 1]
=============================================================================
