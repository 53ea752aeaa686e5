----------------------------- MODULE PoolPromise -----------------------------
(***************************************************************************)
(* What AcquireActiveToken promises a caller, whatever other callers, the  *)
(* clock and the cluster do to the cooldowns during the call: a credential *)
(* that was available at some moment of the call, or nothing if every      *)
(* credential of the fallback chain was cooling down at some moment of it; *)
(* and nothing of a fallback pool while a pool before it had a credential  *)
(* available throughout (doc comment of AcquireActiveToken, pool.go:75-83).*)
(***************************************************************************)
EXTENDS PoolRing

CONSTANTS
    Callers,    \* goroutines that acquire credentials
    Entry,      \* the pools a call can start at
    Nobody      \* the nil result

VARIABLES
    avail,      \* the credentials past their cooldown
    calling,    \* the callers inside AcquireActiveToken
    home,       \* the pool each call started at
    got,        \* what each caller's last call returned
    free,       \* free[k]: credentials available at some moment of k's call
    cooled      \* cooled[k]: credentials cooling down at some moment of it

promiseVars == <<avail, calling, home, got, free, cooled>>

(* Every pool of k's fallback chain before q, or before its end if q is    *)
(* NoPool, was cooling: each of its credentials at some moment of the call.*)
(* (A chain has an end, so that a set closed in this way leads to q.)      *)
Passed(k, q) ==
    \E before \in SUBSET Pools :
        /\ home[k] \in before \cup {q}
        /\ \A p \in before : /\ Fallback[p] \in before \cup {q}
                             /\ CredsOf(p) \subseteq cooled[k]

PromiseInit ==
    /\ avail = Creds
    /\ calling = {}
    /\ home \in [Callers -> Entry]
    /\ got = [k \in Callers |-> Nobody]
    /\ free = [k \in Callers |-> {}]
    /\ cooled = [k \in Callers |-> {}]

Begin(k) ==
    /\ k \notin calling
    /\ calling' = calling \cup {k}
    /\ \E p \in Entry : home' = [home EXCEPT ![k] = p]
    /\ got' = [got EXCEPT ![k] = Nobody]
    /\ free' = [free EXCEPT ![k] = avail]
    /\ cooled' = [cooled EXCEPT ![k] = Creds \ avail]
    /\ UNCHANGED avail

\* A call returns.
End(k) ==
    /\ k \in calling
    /\ calling' = calling \ {k}
    /\ \/ /\ Passed(k, NoPool)
          /\ got' = [got EXCEPT ![k] = Nobody]
       \/ \E p \in Pools :
            /\ Passed(k, p)
            /\ \E c \in CredsOf(p) \cap free[k] : got' = [got EXCEPT ![k] = c]
    /\ free' = [free EXCEPT ![k] = {}]
    /\ cooled' = [cooled EXCEPT ![k] = {}]
    /\ UNCHANGED <<avail, home>>

\* Credentials become available or unavailable, for whatever reason.
Change ==
    /\ avail' \in SUBSET Creds
    /\ free' = [k \in Callers |-> IF k \in calling THEN free[k] \cup avail' ELSE {}]
    /\ cooled' = [k \in Callers |->
                    IF k \in calling THEN cooled[k] \cup (Creds \ avail') ELSE {}]
    /\ UNCHANGED <<calling, home, got>>

PromiseNext == Change \/ \E k \in Callers : Begin(k) \/ End(k)

PromiseSpec == PromiseInit /\ [][PromiseNext]_promiseVars
=============================================================================
