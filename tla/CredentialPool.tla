--------------------------- MODULE CredentialPool ---------------------------
(***************************************************************************)
(* internal/credentials/pool.go at the grain of its atomic operations.     *)
(* Callers scan the ring of a pool slot by slot while other goroutines     *)
(* penalise and reset the same credentials and time passes.                *)
(*                                                                         *)
(* A scan compares the cooldowns with the clock as it was when the scan    *)
(* began.  Time being relative (PoolRing), late[k] holds the credentials   *)
(* whose cooldown ended after that: the scan still takes them for cooling. *)
(***************************************************************************)
EXTENDS PoolRing

CONSTANTS Callers, Entry, Nobody, MaxCool

ASSUME CallerAssumption ==
    /\ Entry \subseteq Pools
    /\ Nobody \notin Creds
    /\ MaxCool \in Nat \ {0}

VARIABLES
    cool,       \* cool[c]: ticks until credential c is available again
    cursor,     \* cursor[p]: p.Cursor modulo the ring's size
    phase,      \* where each caller is in AcquireActiveToken
    on,         \* the pool it is scanning
    base,       \* baseIdx
    step,       \* i: the slots of this pool it has looked at
    late,       \* cooldowns that ended since its scan read the clock
    home,       \* the pool its call started at
    got,        \* what its last call returned
    free,       \* history: credentials available at some moment of the call
    cooled      \* history: credentials cooling down at some moment of it

scanVars == <<phase, on, base, step, home, got>>
poolVars == <<cool, cursor>>
vars == <<poolVars, scanVars, late, free, cooled>>

Avail == {c \in Creds : cool[c] = 0}

Calling == {k \in Callers : phase[k] # "idle"}

Init ==
    /\ cool = [c \in Creds |-> 0]
    /\ cursor = [p \in Pools |-> 0]
    /\ phase = [k \in Callers |-> "idle"]
    /\ home \in [Callers -> Entry]
    /\ on = home
    /\ base = [k \in Callers |-> 0]
    /\ step = [k \in Callers |-> 0]
    /\ late = [k \in Callers |-> {}]
    /\ got = [k \in Callers |-> Nobody]
    /\ free = [k \in Callers |-> {}]
    /\ cooled = [k \in Callers |-> {}]

\* The call reads the clock.
Call(k) ==
    /\ phase[k] = "idle"
    /\ \E p \in Entry :
        /\ home' = [home EXCEPT ![k] = p]
        /\ on' = [on EXCEPT ![k] = p]
    /\ phase' = [phase EXCEPT ![k] = "add"]
    /\ late' = [late EXCEPT ![k] = {}]
    /\ got' = [got EXCEPT ![k] = Nobody]
    /\ free' = [free EXCEPT ![k] = Avail]
    /\ cooled' = [cooled EXCEPT ![k] = Creds \ Avail]
    /\ UNCHANGED <<poolVars, base, step>>

\* Mutant of Add: the cursor is read and not moved.
AddUnstored(k) ==
    /\ phase[k] = "add"
    /\ base' = [base EXCEPT ![k] = (cursor[on[k]] + 1) % TotalCount(on[k])]
    /\ step' = [step EXCEPT ![k] = 0]
    /\ phase' = [phase EXCEPT ![k] = "look"]
    /\ UNCHANGED <<poolVars, on, home, got, late, free, cooled>>

\* atomic.AddUint64(&p.Cursor, 1).
Add(k) ==
    LET next == (cursor[on[k]] + 1) % TotalCount(on[k]) IN
    /\ phase[k] = "add"
    /\ cursor' = [cursor EXCEPT ![on[k]] = next]
    /\ base' = [base EXCEPT ![k] = next]
    /\ step' = [step EXCEPT ![k] = 0]
    /\ phase' = [phase EXCEPT ![k] = "look"]
    /\ UNCHANGED <<cool, on, home, got, late, free, cooled>>

\* Mutant of Candidate: the cursor other callers move, not this scan's base.
CandidateShared(k) == At(on[k], (cursor[on[k]] + step[k]) % TotalCount(on[k]))

\* The credential in the slot the scan has come to.
Candidate(k) == At(on[k], (base[k] + step[k]) % TotalCount(on[k]))

Cooling(k, c) == cool[c] > 0 \/ c \in late[k]

\* The call returns c, and its locals are gone.
Return(k, c) ==
    /\ got' = [got EXCEPT ![k] = c]
    /\ phase' = [phase EXCEPT ![k] = "idle"]
    /\ on' = [on EXCEPT ![k] = home[k]]
    /\ base' = [base EXCEPT ![k] = 0]
    /\ step' = [step EXCEPT ![k] = 0]
    /\ late' = [late EXCEPT ![k] = {}]
    /\ free' = [free EXCEPT ![k] = {}]
    /\ cooled' = [cooled EXCEPT ![k] = {}]
    /\ UNCHANGED <<poolVars, home>>

\* The slot is available.
Take(k) ==
    /\ phase[k] = "look"
    /\ ~Cooling(k, Candidate(k))
    /\ Return(k, Candidate(k))

\* The slot is cooling down: on to the next one.
Skip(k) ==
    /\ phase[k] = "look"
    /\ Cooling(k, Candidate(k))
    /\ step[k] + 1 < TotalCount(on[k])
    /\ step' = [step EXCEPT ![k] = @ + 1]
    /\ UNCHANGED <<poolVars, phase, on, base, home, got, late, free, cooled>>

\* Mutant of Cascade: the same ring is scanned again.
CascadeSelf(k) ==
    /\ phase[k] = "look"
    /\ Cooling(k, Candidate(k))
    /\ step[k] + 1 = TotalCount(on[k])
    /\ Fallback[on[k]] # NoPool
    /\ phase' = [phase EXCEPT ![k] = "add"]
    /\ late' = [late EXCEPT ![k] = {}]
    /\ UNCHANGED <<poolVars, on, base, step, home, got, free, cooled>>

\* The ring is cooling down: the fallback pool is scanned, by a clock read anew.
Cascade(k) ==
    /\ phase[k] = "look"
    /\ Cooling(k, Candidate(k))
    /\ step[k] + 1 = TotalCount(on[k])
    /\ Fallback[on[k]] # NoPool
    /\ on' = [on EXCEPT ![k] = Fallback[on[k]]]
    /\ phase' = [phase EXCEPT ![k] = "add"]
    /\ late' = [late EXCEPT ![k] = {}]
    /\ UNCHANGED <<poolVars, base, step, home, got, free, cooled>>

\* The last pool of the chain is cooling down: nil.
Fail(k) ==
    /\ phase[k] = "look"
    /\ Cooling(k, Candidate(k))
    /\ step[k] + 1 = TotalCount(on[k])
    /\ Fallback[on[k]] = NoPool
    /\ Return(k, Nobody)
-----------------------------------------------------------------------------
\* The history of a call is extended by what is available now.
Witness ==
    /\ free' = [k \in Callers |->
                    IF k \in Calling THEN free[k] \cup Avail' ELSE {}]
    /\ cooled' = [k \in Callers |->
                    IF k \in Calling THEN cooled[k] \cup (Creds \ Avail') ELSE {}]

(* PenalizeToken, and PenalizeByCredID for a deadline still to come: one   *)
(* store, whatever was there.                                              *)
Penalize(c) ==
    /\ \E t \in 1..MaxCool : cool' = [cool EXCEPT ![c] = t]
    /\ Witness
    /\ UNCHANGED <<cursor, scanVars, late>>

(* ResetCooldown, ResetByCredID, and PenalizeByCredID for a deadline that  *)
(* is past because the event was slow (past for the scans under way, too). *)
Reset(c) ==
    /\ cool' = [cool EXCEPT ![c] = 0]
    /\ late' = [k \in Callers |-> late[k] \ {c}]
    /\ Witness
    /\ UNCHANGED <<cursor, scanVars>>

Tick ==
    /\ cool' = Cooler(cool)
    /\ late' = [k \in Callers |->
                    IF k \in Calling THEN late[k] \cup {c \in Creds : cool[c] = 1}
                    ELSE {}]
    /\ Witness
    /\ UNCHANGED <<cursor, scanVars>>

Scan(k) == Add(k) \/ Take(k) \/ Skip(k) \/ Cascade(k) \/ Fail(k)

Next ==
    \/ \E k \in Callers : Call(k) \/ Scan(k)
    \/ \E c \in Creds : Penalize(c) \/ Reset(c)
    \/ Tick

Spec == Init /\ [][Next]_vars

\* Goroutines are scheduled, and calls keep coming.
FairSpec == Spec /\ \A k \in Callers : WF_vars(Scan(k)) /\ WF_vars(Call(k))
-----------------------------------------------------------------------------
Promise == INSTANCE PoolPromise WITH avail <- Avail, calling <- Calling

(* Every call keeps the promise of the doc comment, however the ring is    *)
(* penalised and reset under its scan.                                     *)
KeepsPromise == Promise!PromiseSpec

(* Every call returns: the scan of a ring and the cascade are finite,      *)
(* though other callers move the cursor and the cooldowns under them.      *)
CallReturns == \A k \in Callers : phase[k] = "add" ~> phase[k] = "idle"

(* Round robin starves no credential: one of an entry pool that stays      *)
(* available is handed out again and again, however the callers interleave *)
(* and the others cool down.                                               *)
NoStarvation ==
    \A p \in Entry : \A c \in CredsOf(p) :
        <>[](cool[c] = 0) => []<>(\E k \in Callers : got[k] = c)
=============================================================================
