------------------------------ MODULE PoolRing ------------------------------
(***************************************************************************)
(* The data a credential pool is made of and the read-only questions that  *)
(* internal/credentials/pool.go asks of it.  A pool is a ring of slots; a  *)
(* credential of weight w owns w slots of the ring and one cooldown, so    *)
(* penalising one of its slots cools all of them.                          *)
(*                                                                         *)
(* Time is relative: cool[c] is the time left until CooldownUntil, in      *)
(* ticks, and 0 when the credential is available.  The cursor is kept      *)
(* modulo the ring size, the only thing the code reads of it.  Slots are   *)
(* numbered from 0, as in the code.                                        *)
(***************************************************************************)
EXTENDS Integers, Sequences, FiniteSets

LOCAL INSTANCE SequencesExt

CONSTANTS
    Pools,      \* the pools of one routing snapshot
    Creds,      \* the credentials, each of one pool
    Ring,       \* Ring[p]: the slots of pool p, in order
    Fallback,   \* Fallback[p]: the pool p's fallback_pool_id names, or NoPool
    NoPool,
    Ticks       \* Ticks[ms]: the model's ticks for a duration of the code

\* Every duration of the retry loop and of its cooldowns, in milliseconds.
Durations == {300, 600, 1000, 2000, 3000, 5000, 10000, 15000, 30000}

\* sync.go skips a pool without credentials, so a routed ring is never empty.
ASSUME PoolAssumption ==
    /\ NoPool \notin Pools
    /\ Ring \in [Pools -> Seq(Creds)]
    /\ \A p \in Pools : Len(Ring[p]) > 0
    /\ Fallback \in [Pools -> Pools \cup {NoPool}]

\* A duration is at least a tick, and a longer one is never fewer ticks.
ASSUME TicksAssumption ==
    /\ Ticks \in [Durations -> Nat \ {0}]
    /\ \A d, e \in Durations : d <= e => Ticks[d] <= Ticks[e]

-----------------------------------------------------------------------------
(* NewBalancedPool: each credential, in order, as many times as it weighs, *)
(* at least once.                                                          *)
NewBalancedPool(creds, weight) ==
    FlattenSeq([k \in 1..Len(creds) |->
        [i \in 1..(IF weight[creds[k]] < 1 THEN 1 ELSE weight[creds[k]]) |->
            creds[k]]])

TotalCount(p) == Len(Ring[p])

Slots(p) == 0 .. TotalCount(p) - 1

\* The credential in slot i of pool p.
At(p, i) == Ring[p][i + 1]

\* The credentials of pool p.
CredsOf(p) == {At(p, i) : i \in Slots(p)}

(* The pools AcquireActiveToken may take a credential from when it is      *)
(* called on p: p and what the configured fallbacks lead to, each set that *)
(* holds p and the fallbacks of its members.                               *)
Chain(p) ==
    {q \in Pools :
        \A S \in SUBSET Pools :
            p \in S /\ (\A s \in S : Fallback[s] # NoPool => Fallback[s] \in S) =>
                q \in S}

(* Where AcquireActiveToken's scan stops when it starts at slot base: the  *)
(* first slot, going round, whose credential is available.                 *)
Open(p, cl) == {i \in Slots(p) : cl[At(p, i)] = 0}

FirstOpen(p, base, cl) ==
    {i \in Open(p, cl) :
        \A j \in Open(p, cl) :
            (i - base) % TotalCount(p) <= (j - base) % TotalCount(p)}

(* AcquireLeastPenalizedToken: the first slot of a credential that is      *)
(* soonest ready.  Timestamps the ticks do not tell apart are a choice.    *)
LeastPenalized(p, cl) ==
    {i \in Slots(p) :
        \A j \in Slots(p) : /\ cl[At(p, i)] <= cl[At(p, j)]
                            /\ At(p, i) = At(p, j) => i <= j}

\* HealthyCount: credentials past their cooldown, each counted once.
HealthyCount(p, cl) == Cardinality({c \in CredsOf(p) : cl[c] = 0})

\* PenalizeToken and ResetCooldown by slot, no effect when out of range.
SetSlot(p, i, ticks, cl) ==
    IF i \in Slots(p) THEN [cl EXCEPT ![At(p, i)] = ticks] ELSE cl

\* PenalizeByCredID and ResetByCredID, no effect on a credential not in p.
SetCred(p, c, ticks, cl) ==
    IF c \in CredsOf(p) THEN [cl EXCEPT ![c] = ticks] ELSE cl

\* Mutant of Cooler: a cooldown does not stop at its end.
CoolerPastZero(cl) == [c \in Creds |-> cl[c] - 1]

\* Time passes for every credential that is cooling down.
Cooler(cl) == [c \in Creds |-> IF cl[c] = 0 THEN 0 ELSE cl[c] - 1]
=============================================================================
