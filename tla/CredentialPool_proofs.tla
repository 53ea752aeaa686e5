------------------------ MODULE CredentialPool_proofs ------------------------
(***************************************************************************)
(* Proofs about the two halves of internal/credentials: the scan of a pool *)
(* (CredentialPool) and the reloads of the tables a pool is found in       *)
(* (RoutingSync, from "what is still on its way").                         *)
(*                                                                         *)
(* CredentialPool implements PoolPromise, for any pools, weights, fallback *)
(* chains and callers.  The refinement mapping is that of the module: the  *)
(* credentials available are those whose cooldown has ended, the callers   *)
(* inside a call those not idle.  A step of a scan that does not end the   *)
(* call is a stutter, a penalty, a reset or a tick is a Change.            *)
(*                                                                         *)
(* What makes a returning step an End is ScanInv: the slots the scan has   *)
(* looked at, and the pools before the one it scans, were cooling down at  *)
(* some moment of the call.                                                *)
(***************************************************************************)
EXTENDS CredentialPool, RoutingSync, TLAPS

Phases == {"idle", "add", "look"}

PoolTypeOK ==
    /\ cool \in [Creds -> Nat]
    /\ cursor \in [Pools -> Nat]
    /\ phase \in [Callers -> Phases]
    /\ on \in [Callers -> Pools]
    /\ base \in [Callers -> Nat]
    /\ step \in [Callers -> Nat]
    /\ late \in [Callers -> SUBSET Creds]
    /\ home \in [Callers -> Pools]
    /\ got \in [Callers -> Creds \cup {Nobody}]
    /\ free \in [Callers -> SUBSET Creds]
    /\ cooled \in [Callers -> SUBSET Creds]

\* What k's call has seen of the cooldowns it compares with.
Witnessed(k) ==
    IF phase[k] = "idle"
    THEN free[k] = {} /\ cooled[k] = {}
    ELSE /\ Avail \subseteq free[k]
         /\ Creds \ Avail \subseteq cooled[k]
         /\ late[k] \subseteq cooled[k]

\* The scan is inside the ring, and has passed over nothing but what cooled.
Scanned(k) ==
    phase[k] = "look" =>
        /\ base[k] \in Slots(on[k])
        /\ step[k] \in Slots(on[k])
        /\ \A i \in 0 .. step[k] - 1 :
               At(on[k], (base[k] + i) % TotalCount(on[k])) \in cooled[k]

\* So have the pools before the one it scans.
Cascaded(k) == phase[k] # "idle" => Promise!Passed(k, on[k])

ScanInv == \A k \in Callers : Witnessed(k) /\ Scanned(k) /\ Cascaded(k)

PoolInv == PoolTypeOK /\ ScanInv
-----------------------------------------------------------------------------
(* Facts about rings. *)

\* Every slot of a ring holds a credential, and a ring has a slot.
LEMMA RingSlots ==
    ASSUME NEW p \in Pools
    PROVE  /\ TotalCount(p) \in Nat /\ TotalCount(p) > 0
           /\ Slots(p) = 0 .. TotalCount(p) - 1
           /\ \A i \in Slots(p) : At(p, i) \in Creds /\ At(p, i) \in CredsOf(p)
           /\ CredsOf(p) \subseteq Creds
<1>1. Ring[p] \in Seq(Creds) /\ Len(Ring[p]) > 0
  BY PoolAssumption
<1>2. \A i \in 0 .. Len(Ring[p]) - 1 : Ring[p][i + 1] \in Creds
  BY <1>1
<1> QED BY <1>1, <1>2 DEF TotalCount, Slots, At, CredsOf

\* A slot counted modulo the size of the ring is a slot of it.
LEMMA InRing ==
    ASSUME NEW n \in Nat, n > 0, NEW x \in Nat
    PROVE  x % n \in 0 .. n - 1
OBVIOUS

\* As many steps as a ring has slots lead to each of them.
LEMMA RoundTheRing ==
    ASSUME NEW n \in Nat, n > 0, NEW b \in 0 .. n - 1, NEW s \in 0 .. n - 1
    PROVE  \E i \in 0 .. n - 1 : (b + i) % n = s
<1>1. CASE s >= b
  <2>1. s - b \in 0 .. n - 1 /\ b + (s - b) = s /\ s % n = s
    BY <1>1
  <2> QED BY <2>1
<1>2. CASE s < b
  <2> DEFINE i == s - b + n
  <2>1. i \in 0 .. n - 1 /\ b + i = s + n
    BY <1>2
  <2>2. (s + n) % n = s
    OBVIOUS
  <2> QED BY <2>1, <2>2
<1> QED BY <1>1, <1>2

\* A scan that has looked at every slot and taken none has seen all cooling.
LEMMA RingPassed ==
    ASSUME PoolInv, NEW k \in Callers, phase[k] = "look",
           Cooling(k, Candidate(k)), step[k] + 1 = TotalCount(on[k])
    PROVE  CredsOf(on[k]) \subseteq cooled[k]
<1> DEFINE n == TotalCount(on[k])
<1>1. /\ on[k] \in Pools /\ n \in Nat /\ n > 0 /\ Slots(on[k]) = 0 .. n - 1
      /\ base[k] \in 0 .. n - 1 /\ step[k] \in 0 .. n - 1
  BY RingSlots DEF PoolInv, PoolTypeOK, ScanInv, Scanned
<1>2. Candidate(k) \in cooled[k]
  <2>1. (base[k] + step[k]) % n \in Slots(on[k])
    BY <1>1, InRing
  <2>2. Candidate(k) \in Creds
    BY <1>1, <2>1, RingSlots DEF Candidate
  <2> QED BY <2>2 DEF PoolInv, PoolTypeOK, ScanInv, Witnessed, Cooling, Avail
<1>3. \A i \in 0 .. n - 1 : At(on[k], (base[k] + i) % n) \in cooled[k]
  <2>1. \A i \in 0 .. n - 1 : i \in 0 .. step[k] - 1 \/ i = step[k]
    BY <1>1
  <2> QED BY <1>1, <1>2, <2>1 DEF PoolInv, ScanInv, Scanned, Candidate
<1>4. ASSUME NEW s \in 0 .. n - 1
      PROVE  At(on[k], s) \in cooled[k]
  <2>1. PICK i \in 0 .. n - 1 : (base[k] + i) % n = s
    BY <1>1, RoundTheRing
  <2> QED BY <1>3, <2>1
<1> QED BY <1>1, <1>4 DEF CredsOf
-----------------------------------------------------------------------------
(* Types. *)

LEMMA PoolTypesInit == Init => PoolTypeOK
BY CallerAssumption DEF Init, PoolTypeOK, Phases

LEMMA PoolTypesKept == PoolTypeOK /\ [Next]_vars => PoolTypeOK'
<1> SUFFICES ASSUME PoolTypeOK, [Next]_vars PROVE PoolTypeOK'
  OBVIOUS
<1>1. CASE UNCHANGED vars
  BY <1>1 DEF vars, poolVars, scanVars, PoolTypeOK
<1>2. ASSUME NEW k \in Callers, Call(k) PROVE PoolTypeOK'
  BY <1>2, CallerAssumption DEF Call, PoolTypeOK, Phases, poolVars, Avail
<1>3. ASSUME NEW k \in Callers, Add(k) PROVE PoolTypeOK'
  <2>1. on[k] \in Pools /\ cursor[on[k]] + 1 \in Nat
    BY DEF PoolTypeOK
  <2>2. (cursor[on[k]] + 1) % TotalCount(on[k]) \in Nat
    BY <2>1, RingSlots, InRing
  <2> QED BY <1>3, <2>2 DEF Add, PoolTypeOK, Phases
<1>4. ASSUME NEW k \in Callers, Take(k) \/ Fail(k) PROVE PoolTypeOK'
  <2>1. on[k] \in Pools /\ (base[k] + step[k]) \in Nat
    BY DEF PoolTypeOK
  <2>2. (base[k] + step[k]) % TotalCount(on[k]) \in Slots(on[k])
    BY <2>1, RingSlots, InRing
  <2>3. Candidate(k) \in Creds
    BY <2>1, <2>2, RingSlots DEF Candidate
  <2>4. PICK c \in Creds \cup {Nobody} : Return(k, c)
    BY <1>4, <2>3 DEF Take, Fail
  <2> QED BY <2>4 DEF Return, PoolTypeOK, Phases, poolVars
<1>5. ASSUME NEW k \in Callers, Skip(k) PROVE PoolTypeOK'
  BY <1>5 DEF Skip, PoolTypeOK, poolVars
<1>6. ASSUME NEW k \in Callers, Cascade(k) PROVE PoolTypeOK'
  <2>1. Fallback[on[k]] \in Pools
    BY <1>6, PoolAssumption DEF Cascade, PoolTypeOK
  <2> QED BY <1>6, <2>1 DEF Cascade, PoolTypeOK, poolVars, Phases
<1>7. ASSUME NEW c \in Creds, Penalize(c) PROVE PoolTypeOK'
  <2>1. PICK t \in 1 .. MaxCool : cool' = [cool EXCEPT ![c] = t]
    BY <1>7 DEF Penalize
  <2>2. cool' \in [Creds -> Nat]
    BY <2>1, CallerAssumption DEF PoolTypeOK
  <2> QED BY <1>7, <2>2 DEF Penalize, PoolTypeOK, Witness, scanVars, Avail
<1>8. ASSUME NEW c \in Creds, Reset(c) PROVE PoolTypeOK'
  BY <1>8 DEF Reset, PoolTypeOK, Witness, scanVars, Avail
<1>9. CASE Tick
  BY <1>9 DEF Tick, Cooler, PoolTypeOK, Witness, scanVars, Avail
<1> QED BY <1>1, <1>2, <1>3, <1>4, <1>5, <1>6, <1>7, <1>8, <1>9 DEF Next, Scan
-----------------------------------------------------------------------------
(* Scans. *)

\* A caller whose scan and history a step leaves alone is where it was.
LEMMA OthersKept ==
    ASSUME NEW k \in Callers, Witnessed(k) /\ Scanned(k) /\ Cascaded(k), cool' = cool,
           phase'[k] = phase[k], on'[k] = on[k], base'[k] = base[k], step'[k] = step[k],
           late'[k] = late[k], home'[k] = home[k], free'[k] = free[k], cooled'[k] = cooled[k]
    PROVE  (Witnessed(k) /\ Scanned(k) /\ Cascaded(k))'
<1>1. Avail' = Avail
  BY DEF Avail
<1>2. Witnessed(k)'
  BY <1>1 DEF Witnessed
<1>3. Scanned(k)'
  BY DEF Scanned
<1>4. Cascaded(k)'
  BY DEF Cascaded, Promise!Passed, Promise!CredsOf, Promise!At, Promise!Slots,
         Promise!TotalCount
<1> QED BY <1>2, <1>3, <1>4

\* A step of the world, which is witnessed, leaves every scan what it knows.
LEMMA WorldKeepsScans ==
    ASSUME PoolInv, PoolTypeOK', Witness, UNCHANGED scanVars,
           \A k \in Calling : late'[k] \subseteq cooled[k]
    PROVE  ScanInv'
<1> SUFFICES ASSUME NEW k \in Callers
             PROVE  (Witnessed(k) /\ Scanned(k) /\ Cascaded(k))'
  BY DEF ScanInv
<1>1. /\ phase' = phase /\ on' = on /\ base' = base /\ step' = step /\ home' = home
  BY DEF scanVars
<1>2. Witnessed(k) /\ Scanned(k) /\ Cascaded(k)
  BY DEF PoolInv, ScanInv
<1>3. CASE phase[k] = "idle"
  <2>1. free'[k] = {} /\ cooled'[k] = {}
    BY <1>3 DEF Witness, Calling
  <2> QED BY <1>1, <1>3, <2>1 DEF Witnessed, Scanned, Cascaded
<1>4. CASE phase[k] # "idle"
  <2>1. /\ free'[k] = free[k] \cup Avail'
        /\ cooled'[k] = cooled[k] \cup (Creds \ Avail')
    BY <1>4 DEF Witness, Calling
  <2>2. late'[k] \subseteq cooled[k]
    BY <1>4 DEF Calling
  <2>3. Witnessed(k)'
    BY <1>1, <1>4, <2>1, <2>2 DEF Witnessed
  <2>4. Scanned(k)'
    BY <1>1, <1>2, <2>1 DEF Scanned
  <2>5. Cascaded(k)'
    BY <1>1, <1>2, <2>1 DEF Cascaded, Promise!Passed, Promise!CredsOf, Promise!At,
         Promise!Slots, Promise!TotalCount
  <2> QED BY <2>3, <2>4, <2>5
<1> QED BY <1>3, <1>4

\* A step of one caller leaves the scans of the others what they know.
LEMMA CallerKeepsOthers ==
    ASSUME PoolInv, NEW k \in Callers, UNCHANGED cool,
           \A j \in Callers \ {k} :
               /\ phase'[j] = phase[j] /\ on'[j] = on[j] /\ base'[j] = base[j]
               /\ step'[j] = step[j] /\ late'[j] = late[j] /\ home'[j] = home[j]
               /\ free'[j] = free[j] /\ cooled'[j] = cooled[j],
           (Witnessed(k) /\ Scanned(k) /\ Cascaded(k))'
    PROVE  ScanInv'
BY OthersKept DEF PoolInv, ScanInv

LEMMA ScansKept == PoolInv /\ [Next]_vars => ScanInv'
<1> SUFFICES ASSUME PoolInv, [Next]_vars PROVE ScanInv'
  OBVIOUS
<1>0. PoolTypeOK /\ PoolTypeOK' /\ ScanInv
  BY PoolTypesKept DEF PoolInv
<1>1. CASE UNCHANGED vars
  BY <1>0, <1>1, OthersKept DEF vars, poolVars, scanVars, ScanInv
<1>2. ASSUME NEW k \in Callers, Call(k) PROVE ScanInv'
  <2>1. (Witnessed(k) /\ Scanned(k) /\ Cascaded(k))'
    <3>1. Witnessed(k)'
      BY <1>0, <1>2 DEF Call, PoolTypeOK, Witnessed, Avail, poolVars
    <3>2. Scanned(k)'
      BY <1>0, <1>2 DEF Call, PoolTypeOK, Scanned
    <3>3. on'[k] = home'[k]
      BY <1>0, <1>2 DEF Call, PoolTypeOK
    <3>4. (Promise!Passed(k, on[k]))'
      <4>1. home'[k] \in {} \cup {on'[k]} /\ {} \in SUBSET Pools
        BY <3>3
      <4> QED BY <4>1 DEF Promise!Passed
    <3>5. Cascaded(k)'
      BY <3>4 DEF Cascaded
    <3> QED BY <3>1, <3>2, <3>5
  <2> QED BY <1>0, <1>2, <2>1, CallerKeepsOthers DEF Call, PoolTypeOK, poolVars
<1>3. ASSUME NEW k \in Callers, Add(k) PROVE ScanInv'
  <2>1. on[k] \in Pools /\ cursor[on[k]] + 1 \in Nat
    BY <1>0 DEF PoolTypeOK
  <2>2. (cursor[on[k]] + 1) % TotalCount(on[k]) \in Slots(on[k]) /\ 0 \in Slots(on[k])
    BY <2>1, RingSlots, InRing
  <2>3. (Witnessed(k) /\ Scanned(k) /\ Cascaded(k))'
    <3>1. Witnessed(k)'
      BY <1>0, <1>3 DEF Add, PoolTypeOK, Witnessed, Avail, ScanInv
    <3>2. on' = on /\ base'[k] \in Slots(on[k]) /\ step'[k] = 0
      BY <1>0, <1>3, <2>2 DEF Add, PoolTypeOK
    <3>3. Scanned(k)'
      BY <2>2, <3>2 DEF Scanned, Slots, TotalCount
    <3>4. Cascaded(k)'
      BY <1>0, <1>3 DEF Add, Cascaded, ScanInv, Promise!Passed, Promise!CredsOf,
         Promise!At, Promise!Slots, Promise!TotalCount
    <3> QED BY <3>1, <3>3, <3>4
  <2> QED BY <1>0, <1>3, <2>3, CallerKeepsOthers DEF Add, PoolTypeOK
<1>4. ASSUME NEW k \in Callers, Take(k) \/ Fail(k) PROVE ScanInv'
  <2>1. PICK c : Return(k, c)
    BY <1>4 DEF Take, Fail
  <2>2. (Witnessed(k) /\ Scanned(k) /\ Cascaded(k))'
    BY <1>0, <2>1 DEF Return, PoolTypeOK, Witnessed, Scanned, Cascaded
  <2> QED BY <1>0, <2>1, <2>2, CallerKeepsOthers DEF Return, PoolTypeOK, poolVars
<1>5. ASSUME NEW k \in Callers, Skip(k) PROVE ScanInv'
  <2>0. Witnessed(k) /\ Scanned(k) /\ Cascaded(k) /\ phase[k] = "look"
    BY <1>0, <1>5 DEF ScanInv, Skip
  <2>1. /\ UNCHANGED <<cool, phase, on, base, home, late, free, cooled>>
        /\ step'[k] = step[k] + 1 /\ step[k] \in Nat /\ base[k] \in Nat /\ on[k] \in Pools
    BY <1>0, <1>5 DEF Skip, PoolTypeOK, poolVars
  <2>2. Candidate(k) \in cooled[k]
    <3>1. (base[k] + step[k]) % TotalCount(on[k]) \in Slots(on[k])
      BY <2>1, RingSlots, InRing
    <3>2. Candidate(k) \in Creds
      BY <2>1, <3>1, RingSlots DEF Candidate
    <3> QED BY <1>0, <1>5, <2>0, <3>2 DEF Skip, Witnessed, Cooling, Avail, PoolTypeOK
  <2>3. \A i \in 0 .. (step[k] + 1) - 1 : i \in 0 .. step[k] - 1 \/ i = step[k]
    BY <2>1
  <2>4. \A i \in 0 .. (step[k] + 1) - 1 :
            At(on[k], (base[k] + i) % TotalCount(on[k])) \in cooled[k]
    BY <2>0, <2>2, <2>3 DEF Scanned, Candidate
  <2>5. step[k] + 1 \in Slots(on[k])
    BY <1>5, <2>1, RingSlots DEF Skip
  <2>6. Scanned(k)'
    BY <2>0, <2>1, <2>4, <2>5 DEF Scanned
  <2>7. Witnessed(k)'
    BY <2>0, <2>1 DEF Witnessed, Avail
  <2>8. Cascaded(k)'
    BY <2>0, <2>1 DEF Cascaded, Promise!Passed, Promise!CredsOf, Promise!At,
       Promise!Slots, Promise!TotalCount
  <2> QED BY <1>0, <1>5, <2>6, <2>7, <2>8, CallerKeepsOthers DEF Skip, PoolTypeOK, poolVars
<1>6. ASSUME NEW k \in Callers, Cascade(k) PROVE ScanInv'
  <2>1. PICK before \in SUBSET Pools :
            /\ home[k] \in before \cup {on[k]}
            /\ \A p \in before : /\ Fallback[p] \in before \cup {on[k]}
                                 /\ CredsOf(p) \subseteq cooled[k]
    BY <1>0, <1>6 DEF Cascade, ScanInv, Cascaded, Promise!Passed, Promise!CredsOf,
       Promise!At, Promise!Slots, Promise!TotalCount, CredsOf, At, Slots, TotalCount
  <2>2. CredsOf(on[k]) \subseteq cooled[k]
    BY <1>6, RingPassed DEF Cascade
  <2>3. /\ UNCHANGED <<cool, home, free, cooled>> /\ phase'[k] = "add" /\ late'[k] = {}
        /\ on'[k] = Fallback[on[k]] /\ on[k] \in Pools
    BY <1>0, <1>6 DEF Cascade, PoolTypeOK, poolVars
  <2>4. Cascaded(k)'
    <3> DEFINE passed == before \cup {on[k]}
    <3>1. /\ passed \in SUBSET Pools
          /\ home[k] \in passed \cup {on'[k]}
          /\ \A p \in passed : /\ Fallback[p] \in passed \cup {on'[k]}
                               /\ CredsOf(p) \subseteq cooled[k]
      BY <2>1, <2>2, <2>3
    <3> QED BY <2>3, <3>1 DEF Cascaded, Promise!Passed, Promise!CredsOf, Promise!At,
            Promise!Slots, Promise!TotalCount, CredsOf, At, Slots, TotalCount
  <2>5. Witnessed(k)'
    BY <1>0, <1>6, <2>3 DEF Cascade, ScanInv, Witnessed, Avail
  <2>6. Scanned(k)'
    BY <2>3 DEF Scanned
  <2> QED BY <1>0, <1>6, <2>4, <2>5, <2>6, CallerKeepsOthers
          DEF Cascade, PoolTypeOK, poolVars
<1>7. ASSUME NEW c \in Creds, Penalize(c) PROVE ScanInv'
  <2>1. \A k \in Calling : late'[k] \subseteq cooled[k]
    BY <1>0, <1>7 DEF Penalize, ScanInv, Witnessed, Calling
  <2> QED BY <1>0, <1>7, <2>1, WorldKeepsScans DEF Penalize
<1>8. ASSUME NEW c \in Creds, Reset(c) PROVE ScanInv'
  <2>1. \A k \in Calling : late'[k] \subseteq cooled[k]
    BY <1>0, <1>8 DEF Reset, ScanInv, Witnessed, Calling
  <2> QED BY <1>0, <1>8, <2>1, WorldKeepsScans DEF Reset
<1>9. CASE Tick
  <2>1. \A k \in Calling : late'[k] \subseteq cooled[k]
    BY <1>0, <1>9 DEF Tick, ScanInv, Witnessed, Calling, Avail, PoolTypeOK
  <2> QED BY <1>0, <1>9, <2>1, WorldKeepsScans DEF Tick
<1> QED BY <1>1, <1>2, <1>3, <1>4, <1>5, <1>6, <1>7, <1>8, <1>9 DEF Next, Scan
-----------------------------------------------------------------------------
(* Refinement. *)

LEMMA InvInit == Init => PoolInv
<1> SUFFICES ASSUME Init PROVE ScanInv
  BY PoolTypesInit DEF PoolInv
<1> QED BY DEF Init, ScanInv, Witnessed, Scanned, Cascaded

LEMMA InvKept == PoolInv /\ [Next]_vars => PoolInv'
BY PoolTypesKept, ScansKept DEF PoolInv

LEMMA InitRefines == Init => Promise!PromiseInit
BY DEF Init, Promise!PromiseInit, Avail, Calling

\* A step that keeps the callers, results and histories is a stutter.
LEMMA StutterRefines ==
    ASSUME UNCHANGED <<cool, home, got, free, cooled>>, Calling' = Calling
    PROVE  UNCHANGED Promise!promiseVars
BY DEF Promise!promiseVars, Avail

\* A returning step is an End: it hands out what was free, or the chain is cooling.
LEMMA ReturnRefines ==
    ASSUME PoolInv, NEW k \in Callers, Take(k) \/ Fail(k)
    PROVE  Promise!End(k)
<1>0. PoolTypeOK /\ ScanInv /\ phase[k] = "look" /\ on[k] \in Pools
  BY DEF PoolInv, PoolTypeOK, Take, Fail
<1>1. Promise!Passed(k, on[k])
  BY <1>0 DEF ScanInv, Cascaded
<1>2. ASSUME NEW c, Return(k, c)
      PROVE  /\ k \in Calling /\ Calling' = Calling \ {k}
             /\ got' = [got EXCEPT ![k] = c]
             /\ free' = [free EXCEPT ![k] = {}] /\ cooled' = [cooled EXCEPT ![k] = {}]
             /\ UNCHANGED <<Avail, home>>
  BY <1>0, <1>2 DEF Return, Calling, Avail, poolVars, PoolTypeOK
<1>3. CASE Take(k)
  <2>1. (base[k] + step[k]) % TotalCount(on[k]) \in Slots(on[k])
    <3>1. base[k] + step[k] \in Nat
      BY <1>0 DEF PoolTypeOK
    <3> QED BY <1>0, <3>1, RingSlots, InRing
  <2>2. Candidate(k) \in CredsOf(on[k]) /\ Candidate(k) \in Creds
    BY <1>0, <2>1, RingSlots DEF Candidate
  <2>3. Candidate(k) \in free[k]
    BY <1>0, <1>3, <2>2 DEF Take, Cooling, PoolTypeOK, ScanInv, Witnessed, Avail
  <2>4. Candidate(k) \in Promise!CredsOf(on[k]) \cap free[k]
    BY <2>2, <2>3 DEF Promise!CredsOf, Promise!At, Promise!Slots, Promise!TotalCount,
       CredsOf, At, Slots, TotalCount
  <2> QED BY <1>0, <1>1, <1>2, <1>3, <2>4 DEF Take, Promise!End
<1>4. CASE Fail(k)
  <2>1. CredsOf(on[k]) \subseteq cooled[k] /\ Fallback[on[k]] = NoPool
    BY <1>4, RingPassed DEF Fail
  <2>2. PICK before \in SUBSET Pools :
            /\ home[k] \in before \cup {on[k]}
            /\ \A p \in before : /\ Fallback[p] \in before \cup {on[k]}
                                 /\ CredsOf(p) \subseteq cooled[k]
    BY <1>1 DEF Promise!Passed, Promise!CredsOf, Promise!At, Promise!Slots,
       Promise!TotalCount, CredsOf, At, Slots, TotalCount
  <2>3. Promise!Passed(k, NoPool)
    <3> DEFINE passed == before \cup {on[k]}
    <3>1. /\ passed \in SUBSET Pools
          /\ home[k] \in passed \cup {NoPool}
          /\ \A p \in passed : /\ Fallback[p] \in passed \cup {NoPool}
                               /\ CredsOf(p) \subseteq cooled[k]
      BY <1>0, <2>1, <2>2
    <3> QED BY <3>1 DEF Promise!Passed, Promise!CredsOf, Promise!At, Promise!Slots,
            Promise!TotalCount, CredsOf, At, Slots, TotalCount
  <2> QED BY <1>2, <1>4, <2>3 DEF Fail, Promise!End
<1> QED BY <1>3, <1>4

LEMMA StepRefines ==
    PoolInv /\ [Next]_vars => [Promise!PromiseNext]_(Promise!promiseVars)
<1> SUFFICES ASSUME PoolInv, [Next]_vars
             PROVE  Promise!PromiseNext \/ UNCHANGED Promise!promiseVars
  OBVIOUS
<1>0. PoolTypeOK /\ ScanInv
  BY DEF PoolInv
<1>1. CASE UNCHANGED vars
  BY <1>1, StutterRefines DEF vars, poolVars, scanVars, Calling
<1>2. ASSUME NEW k \in Callers, Call(k) PROVE Promise!PromiseNext
  <2>1. Calling' = Calling \cup {k} /\ k \notin Calling /\ UNCHANGED Avail
    BY <1>0, <1>2 DEF Call, Calling, PoolTypeOK, Avail, poolVars
  <2>2. Promise!Begin(k)
    BY <1>2, <2>1 DEF Call, Promise!Begin
  <2> QED BY <2>2 DEF Promise!PromiseNext
<1>3. ASSUME NEW k \in Callers, Add(k) \/ Skip(k) \/ Cascade(k)
      PROVE  UNCHANGED Promise!promiseVars
  <2>1. Calling' = Calling
    BY <1>0, <1>3 DEF Add, Skip, Cascade, Calling, PoolTypeOK
  <2> QED BY <1>3, <2>1, StutterRefines DEF Add, Skip, Cascade, poolVars
<1>4. ASSUME NEW k \in Callers, Take(k) \/ Fail(k) PROVE Promise!PromiseNext
  BY <1>4, ReturnRefines DEF Promise!PromiseNext
<1>5. ASSUME Witness, UNCHANGED scanVars PROVE Promise!PromiseNext
  <2>1. Calling' = Calling /\ UNCHANGED <<home, got>> /\ Avail' \in SUBSET Creds
    BY <1>5 DEF scanVars, Calling, Avail
  <2>2. Promise!Change
    BY <1>5, <2>1 DEF Witness, Promise!Change
  <2> QED BY <2>2 DEF Promise!PromiseNext
<1>6. ASSUME NEW c \in Creds, Penalize(c) \/ Reset(c) PROVE Promise!PromiseNext
  BY <1>5, <1>6 DEF Penalize, Reset
<1>7. CASE Tick
  BY <1>5, <1>7 DEF Tick
<1> QED BY <1>1, <1>2, <1>3, <1>4, <1>6, <1>7 DEF Next, Scan

(* AcquireActiveToken, slot by slot and without a lock, does what its doc  *)
(* comment says (pool.go:75-120): a caller gets what was available during  *)
(* its call, passes over a pool only when each of its credentials was      *)
(* cooling, and gets nothing only when the whole chain was.                *)
THEOREM PromiseIsKept == Spec => KeepsPromise
<1>1. Spec => []PoolInv
  BY InvInit, InvKept, PTL DEF Spec
<1>2. PoolInv /\ [Next]_vars => [Promise!PromiseNext]_(Promise!promiseVars)
  BY StepRefines
<1>3. Spec => Promise!PromiseSpec
  BY <1>1, <1>2, InitRefines, PTL DEF Spec, Promise!PromiseSpec
<1> QED BY <1>3 DEF KeepsPromise
-----------------------------------------------------------------------------
(* RoutingSync: what is still on its way to the tables of a node.          *)

Kinds == {"pools", "tenants"}

\* What a notification of this kind will still be worked off.
Queued(n, kind) ==
    \/ \E k \in DOMAIN inbox[n] : inbox[n][k] = kind
    \/ \E k \in DOMAIN reloadChan[n] : reloadChan[n][k] = kind
    \/ kind \in pending[n] /\ n \in timer

\* A reload of the pools is to come: there is something left to load for, or, with
\* Redis, one that publishes is under way, so that the subscriber loads again.
PoolNews(n) ==
    \/ Queued(n, "pools")
    \/ place[n]["admin"] = "changed"
    \/ /\ n \in wired
       /\ \/ place[n]["admin"] # "idle"
          \/ place[n]["debouncer"] \in {"cache", "store", "tenants"}
          \/ publishing > 0
          \/ renews[n] > 0

\* A reload of the tenants is to come, or under way.
TenantNews(n) ==
    \/ PoolNews(n)
    \/ Queued(n, "tenants")
    \/ \E x \in Loaders : place[n][x] # "idle"

\* With no pools to come, who still loads is one loader, and what it has read are
\* the pools there are: it is not stale, and nobody writes over it.
PoolsLast(n) ==
    /\ \A x \in Loaders : place[n][x] \in {"cache", "store"} => snap[n][x] = pools
    /\ (\A x \in Loaders : place[n][x] # "cache") =>
           \A m \in Patterns : pools[m] # 0 => cached[n][m] = pools[m]
    /\ \A x \in Loaders : place[n][x] = "store" => cacher[n] = x
    /\ (\A x \in Loaders : place[n][x] \notin {"cache", "store"}) =>
           table[n] = pools /\ n \in joined

TenantsLast(n) == \A t \in Tenants : tenants[t] # 0 => admitted[n][t] = tenants[t]

\* One load at a time, of those that nothing follows.
Alone(n) == \A x, y \in Loading(n) : x = y

NodeInv(n) ==
    /\ PoolNews(n) \/ PoolsLast(n)
    /\ TenantNews(n) \/ TenantsLast(n)
    /\ n \notin wired => Alone(n)

SyncInv == \A n \in Followed : NodeInv(n)

LEMMA FollowedStays ==
    ASSUME UNCHANGED <<wired, overlapped>>, missed \subseteq missed'
    PROVE  \A j \in Followed' : j \in Followed /\ j \in Nodes
BY DEF Followed

\* Which loader can be where; the window is shut while the debouncer loads.
Placed(n) ==
    /\ place[n]["subscriber"] \in {"idle", "cache", "store", "tenants"}
    /\ place[n]["admin"] \in {"idle", "changed", "cache", "store", "tenants"}
    /\ place[n]["debouncer"] # "changed"
    /\ place[n]["debouncer"] # "idle" => n \notin timer

SyncTypeOK ==
    /\ inbox \in [Nodes -> Seq(Kinds)] /\ reloadChan \in [Nodes -> Seq(Kinds)]
    /\ DOMAIN pending = Nodes /\ timer \subseteq Nodes
    /\ publishing \in Nat /\ renews \in [Nodes -> Nat]
    /\ place \in [Nodes -> [Loaders -> Places]]
    /\ DOMAIN snap = Nodes /\ \A n \in Nodes : DOMAIN snap[n] = Loaders
    /\ DOMAIN cached = Nodes /\ DOMAIN table = Nodes /\ DOMAIN admitted = Nodes
    /\ DOMAIN cacher = Nodes
    /\ \A n \in Nodes : Placed(n)

LEMMA SyncInitial == SyncInit => SyncTypeOK /\ SyncInv
<1> SUFFICES ASSUME SyncInit PROVE SyncTypeOK /\ SyncInv
  OBVIOUS
<1>1. \A n \in Nodes, x \in Loaders : place[n][x] = "idle"
  BY DEF SyncInit
<1>2. place \in [Nodes -> [Loaders -> Places]]
  BY DEF SyncInit, Places
<1>3. {"admin", "debouncer", "subscriber"} \subseteq Loaders
  BY DEF Loaders
<1>4. \A n \in Nodes : Placed(n)
  BY <1>1, <1>3 DEF Placed
<1>5. SyncTypeOK
  BY <1>2, <1>4 DEF SyncInit, SyncTypeOK
<1>6. ASSUME NEW n \in Nodes PROVE PoolsLast(n) /\ TenantsLast(n) /\ Alone(n)
  BY <1>1 DEF SyncInit, PoolsLast, TenantsLast, Alone, Loading
<1> QED BY <1>5, <1>6 DEF SyncInv, NodeInv, Followed

LEMMA GotoPlace ==
    ASSUME SyncTypeOK, NEW n \in Nodes, NEW x \in Loaders, NEW label \in Places, Goto(n, x, label)
    PROVE  /\ place' \in [Nodes -> [Loaders -> Places]]
           /\ place'[n][x] = label
           /\ \A y \in Loaders \ {x} : place'[n][y] = place[n][y]
           /\ \A j \in Nodes \ {n} : place'[j] = place[j]
BY DEF SyncTypeOK, Goto

LEMMA SnapSet ==
    ASSUME SyncTypeOK, NEW n \in Nodes, NEW x \in Loaders, NEW v, snap' = [snap EXCEPT ![n][x] = v]
    PROVE  /\ DOMAIN snap' = Nodes /\ \A j \in Nodes : DOMAIN snap'[j] = Loaders
           /\ snap'[n][x] = v
           /\ \A y \in Loaders \ {x} : snap'[n][y] = snap[n][y]
           /\ \A j \in Nodes \ {n} : snap'[j] = snap[j]
BY DEF SyncTypeOK

\* A node none of whose own has changed is as it was.
Unmoved(j) ==
    /\ inbox'[j] = inbox[j] /\ reloadChan'[j] = reloadChan[j] /\ pending'[j] = pending[j]
    /\ (j \in timer') <=> (j \in timer)
    /\ place'[j] = place[j] /\ snap'[j] = snap[j] /\ cached'[j] = cached[j]
    /\ table'[j] = table[j] /\ admitted'[j] = admitted[j] /\ cacher'[j] = cacher[j]
    /\ (j \in joined') <=> (j \in joined)
    /\ j \in wired => renews'[j] = renews[j]

LEMMA ElsewhereKept ==
    ASSUME NEW j, NodeInv(j), Unmoved(j), UNCHANGED <<pools, tenants, wired>>,
           j \in wired /\ publishing > 0 => publishing' > 0
    PROVE  NodeInv(j)'
<1>1. PoolNews(j) => PoolNews(j)'
  BY DEF PoolNews, Queued, Unmoved
<1>2. TenantNews(j) => TenantNews(j)'
  BY <1>1 DEF TenantNews, Queued, Unmoved
<1>3. PoolsLast(j) => PoolsLast(j)'
  BY DEF PoolsLast, Unmoved
<1>4. TenantsLast(j) => TenantsLast(j)'
  BY DEF TenantsLast, Unmoved
<1>5. Alone(j) => Alone(j)'
  BY DEF Alone, Loading, Unmoved
<1> QED BY <1>1, <1>2, <1>3, <1>4, <1>5 DEF NodeInv

LEMMA PlacedKept ==
    ASSUME NEW j, Placed(j), place'[j] = place[j], j \in timer' => j \in timer
    PROVE  Placed(j)'
BY DEF Placed

\* What is queued at j stays queued, where it was or one place further.
QueuedKept(j) == \A kind \in Kinds : Queued(j, kind) => Queued(j, kind)'

\* Nothing that j has loaded or is loading changes.
TablesKept(j) ==
    /\ place'[j] = place[j] /\ snap'[j] = snap[j] /\ cached'[j] = cached[j]
    /\ table'[j] = table[j] /\ admitted'[j] = admitted[j] /\ cacher'[j] = cacher[j]
    /\ (j \in joined') <=> (j \in joined)

\* News that travels on does not touch the tables.
LEMMA NewsTravels ==
    ASSUME NEW j, NodeInv(j), QueuedKept(j), TablesKept(j), UNCHANGED <<pools, tenants, wired>>,
           j \in wired /\ publishing > 0 => publishing' > 0 \/ renews'[j] > 0,
           j \in wired /\ renews[j] > 0 => renews'[j] > 0
    PROVE  NodeInv(j)'
<1>1. PoolNews(j) => PoolNews(j)'
  BY DEF PoolNews, QueuedKept, TablesKept, Kinds
<1>2. TenantNews(j) => TenantNews(j)'
  BY <1>1 DEF TenantNews, QueuedKept, TablesKept, Kinds
<1>3. PoolsLast(j) => PoolsLast(j)'
  BY DEF PoolsLast, TablesKept
<1>4. TenantsLast(j) => TenantsLast(j)'
  BY DEF TenantsLast, TablesKept
<1>5. Alone(j) => Alone(j)'
  BY DEF Alone, Loading, TablesKept
<1> QED BY <1>1, <1>2, <1>3, <1>4, <1>5 DEF NodeInv

\* A notification for each row comes after those before.
Longer(old, kind, rows) == old \o [k \in 1..rows |-> kind]

Told(new, old, kind) ==
    /\ \E k \in DOMAIN new : new[k] = kind
    /\ \A k \in DOMAIN old : k \in DOMAIN new /\ new[k] = old[k]

LEMMA RowsNotified ==
    ASSUME NEW old \in Seq(Kinds), NEW kind \in Kinds, NEW rows \in Nat \ {0}
    PROVE  /\ Longer(old, kind, rows) \in Seq(Kinds)
           /\ Told(Longer(old, kind, rows), old, kind)
<1> DEFINE more == [k \in 1..rows |-> kind]
<1>1. more \in Seq(Kinds) /\ Len(more) = rows
  OBVIOUS
<1>2. \A k \in 1..rows : more[k] = kind
  OBVIOUS
<1> HIDE DEF more
<1> DEFINE new == old \o more
<1>3. new \in Seq(Kinds) /\ Len(new) = Len(old) + rows
  BY <1>1
<1>4. \A k \in 1..Len(old) : new[k] = old[k]
  BY <1>1
<1>5. new[Len(old) + 1] = kind
  <2>1. new[Len(old) + 1] = more[1]
    BY <1>1
  <2> QED BY <2>1, <1>2
<1>6. Len(old) \in Nat /\ DOMAIN old = 1..Len(old) /\ DOMAIN new = 1..(Len(old) + rows)
  BY <1>1, <1>3
<1>7. Len(old) + 1 \in DOMAIN new
  BY <1>6
<1>8. \A k \in DOMAIN old : k \in DOMAIN new /\ new[k] = old[k]
  BY <1>4, <1>6
<1> HIDE DEF new
<1>9. new \in Seq(Kinds) /\ (\E k \in DOMAIN new : new[k] = kind)
  BY <1>3, <1>5, <1>7
<1>10. Longer(old, kind, rows) = new
  BY DEF new, more, Longer
<1> QED BY <1>8, <1>9, <1>10 DEF Told

LEMMA NotifyQueues ==
    ASSUME SyncTypeOK, NEW kind \in Kinds, NEW rows \in Nat \ {0}, Notify(kind, rows)
    PROVE  /\ inbox' \in [Nodes -> Seq(Kinds)]
           /\ \A j \in Nodes \ missed' :
                  j \notin missed /\ Queued(j, kind)' /\ QueuedKept(j)
<1>1. inbox' \in [Nodes -> Seq(Kinds)]
  <2>1. \A j \in Nodes : Longer(inbox[j], kind, rows) \in Seq(Kinds)
    BY RowsNotified DEF SyncTypeOK
  <2> QED BY <2>1 DEF SyncTypeOK, Notify, Longer
<1>2. ASSUME NEW j \in Nodes \ missed'
      PROVE  j \notin missed /\ Queued(j, kind)' /\ QueuedKept(j)
  <2>1. j \in listening /\ j \notin missed
    BY <1>2 DEF Notify
  <2> DEFINE more == Longer(inbox[j], kind, rows)
  <2>2. inbox'[j] = more
    BY <2>1 DEF Notify, Longer
  <2>3. inbox[j] \in Seq(Kinds)
    BY DEF SyncTypeOK
  <2>4. Told(more, inbox[j], kind)
    BY <2>3, RowsNotified
  <2> HIDE DEF more
  <2>5. Queued(j, kind)'
    BY <2>2, <2>4 DEF Queued, Told
  <2>6. QueuedKept(j)
    <3>1. UNCHANGED <<reloadChan, pending, timer>>
      BY DEF Notify
    <3> QED BY <2>2, <2>4, <3>1 DEF QueuedKept, Queued, Told
  <2> QED BY <2>1, <2>5, <2>6
<1> QED BY <1>1, <1>2

\* A change of the pools is news of the pools.
LEMMA PoolsChange ==
    ASSUME SyncTypeOK, SyncInv, NEW rows \in 1..MaxRows, Notify("pools", rows),
           UNCHANGED <<wired, overlapped>>,
           \A j \in Followed : j \notin wired /\ Alone(j) => Alone(j)'
    PROVE  inbox' \in [Nodes -> Seq(Kinds)] /\ SyncInv'
<1>1. rows \in Nat \ {0} /\ "pools" \in Kinds
  BY SyncAssumption DEF Kinds
<1>2. /\ inbox' \in [Nodes -> Seq(Kinds)]
      /\ \A j \in Nodes \ missed' : Queued(j, "pools")'
  BY <1>1, NotifyQueues
<1>3. \A j \in Nodes \ missed' : PoolNews(j)' /\ TenantNews(j)'
  BY <1>2 DEF PoolNews, TenantNews
<1>4. missed \subseteq missed'
  BY DEF Notify
<1>5. \A j \in Followed' : j \in Followed /\ j \in Nodes \ missed'
  BY <1>4, FollowedStays DEF Followed
<1>6. \A j \in Followed' : j \notin wired' => Alone(j)'
  BY <1>5 DEF SyncInv, NodeInv
<1> QED BY <1>2, <1>3, <1>5, <1>6 DEF SyncInv, NodeInv

LEMMA StepChangePools ==
    ASSUME SyncTypeOK, SyncInv, NEW n \in Admins, ChangePools(n)
    PROVE  SyncTypeOK' /\ SyncInv'
<1>1. n \in Nodes /\ "admin" \in Loaders /\ "changed" \in Places
  BY SyncAssumption DEF Loaders, Places
<1>2. Goto(n, "admin", "changed") /\ UNCHANGED <<redisVars, snap, overlapped, tableVars>>
  BY DEF ChangePools
<1>3. PICK rows \in 1..MaxRows : Notify("pools", rows)
  BY DEF ChangePools
<1>4. /\ place' \in [Nodes -> [Loaders -> Places]] /\ place'[n]["admin"] = "changed"
      /\ \A y \in Loaders \ {"admin"} : place'[n][y] = place[n][y]
      /\ \A j \in Nodes \ {n} : place'[j] = place[j]
  BY <1>1, <1>2, GotoPlace
<1>5. inbox' \in [Nodes -> Seq(Kinds)] /\ SyncInv'
  <2>1. \A j \in Nodes : Loading(j)' \subseteq Loading(j)
    BY <1>4 DEF Loading
  <2>2. \A j \in Nodes : Alone(j) => Alone(j)'
    BY <2>1 DEF Alone
  <2> QED BY <1>2, <1>3, <2>2, PoolsChange DEF redisVars, Followed
<1>6. UNCHANGED <<reloadChan, pending, timer>>
  BY <1>3 DEF Notify
<1>7. \A j \in Nodes : Placed(j)'
  BY <1>4, <1>6 DEF SyncTypeOK, Placed, Loaders
<1> QED BY <1>2, <1>4, <1>5, <1>6, <1>7 DEF SyncTypeOK, redisVars, tableVars

LEMMA StepJobChange ==
    ASSUME SyncTypeOK, SyncInv, JobChange PROVE SyncTypeOK' /\ SyncInv'
<1>1. UNCHANGED <<redisVars, loadVars, tableVars>>
  BY DEF JobChange
<1>2. PICK rows \in 1..MaxRows : Notify("pools", rows)
  BY DEF JobChange
<1>3. inbox' \in [Nodes -> Seq(Kinds)] /\ SyncInv'
  BY <1>1, <1>2, PoolsChange DEF Alone, Loading, redisVars, loadVars
<1>4. UNCHANGED <<reloadChan, pending, timer>>
  BY <1>2 DEF Notify
<1>5. \A j \in Nodes : Placed(j)'
  BY <1>1, <1>4 DEF SyncTypeOK, Placed, loadVars
<1> QED BY <1>1, <1>3, <1>4, <1>5 DEF SyncTypeOK, redisVars, tableVars, loadVars

LEMMA StepChangeTenant ==
    ASSUME SyncTypeOK, SyncInv, ChangeTenant PROVE SyncTypeOK' /\ SyncInv'
<1>1. UNCHANGED <<pools, redisVars, loadVars, tableVars>> /\ Notify("tenants", 1)
  BY DEF ChangeTenant
<1>2. UNCHANGED <<reloadChan, pending, timer>>
  BY <1>1 DEF Notify
<1>3. /\ inbox' \in [Nodes -> Seq(Kinds)]
      /\ \A j \in Nodes \ missed' :
             j \notin missed /\ Queued(j, "tenants")' /\ QueuedKept(j)
  <2>1. "tenants" \in Kinds /\ 1 \in Nat \ {0}
    BY DEF Kinds
  <2> QED BY <1>1, <2>1, NotifyQueues
<1>4. ASSUME NEW j \in Followed' PROVE NodeInv(j)'
  <2>0. j \in Followed /\ j \in Nodes \ missed'
    <3>1. missed \subseteq missed'
      BY <1>1 DEF Notify
    <3> QED BY <1>1, <3>1, FollowedStays DEF redisVars, loadVars, Followed
  <2>1. NodeInv(j) /\ QueuedKept(j) /\ TenantNews(j)'
    BY <2>0, <1>3 DEF SyncInv, TenantNews
  <2>2. PoolNews(j) => PoolNews(j)'
    BY <2>1, <1>1 DEF PoolNews, QueuedKept, Kinds, redisVars, loadVars
  <2>3. PoolsLast(j) => PoolsLast(j)'
    BY <1>1 DEF PoolsLast, loadVars, tableVars
  <2>4. wired' = wired /\ (Alone(j) => Alone(j)')
    BY <1>1 DEF Alone, Loading, redisVars, loadVars
  <2> QED BY <2>1, <2>2, <2>3, <2>4 DEF NodeInv
<1>5. \A j \in Nodes : Placed(j)'
  BY <1>1, <1>2 DEF SyncTypeOK, Placed, loadVars
<1>6. SyncTypeOK'
  BY <1>1, <1>2, <1>3, <1>5 DEF SyncTypeOK, redisVars, tableVars, loadVars
<1> QED BY <1>4, <1>6 DEF SyncInv

LEMMA StepListen ==
    ASSUME SyncTypeOK, SyncInv, NEW n \in Nodes, Listen(n) PROVE SyncTypeOK' /\ SyncInv'
<1>1. UNCHANGED <<dbVars, inbox, reloadChan, pending, timer, redisVars, loadVars, tableVars, missed>>
  BY DEF Listen
<1>2. SyncTypeOK'
  BY <1>1 DEF SyncTypeOK, Placed, redisVars, loadVars, tableVars
<1>3. \A j \in Nodes : Unmoved(j)
  BY <1>1 DEF Unmoved, redisVars, loadVars, tableVars
<1>4. UNCHANGED <<pools, tenants, wired, publishing, overlapped, missed>>
  BY <1>1 DEF dbVars, redisVars, loadVars
<1>5. \A j \in Followed' : NodeInv(j)'
  BY <1>3, <1>4, ElsewhereKept, FollowedStays DEF SyncInv
<1> QED BY <1>2, <1>5 DEF SyncInv

LEMMA StepSubscribe ==
    ASSUME SyncTypeOK, SyncInv, NEW n \in Nodes, Subscribe(n) PROVE SyncTypeOK' /\ SyncInv'
<1>1. UNCHANGED <<dbVars, notifyVars, wired, publishing, renews, loadVars, tableVars, missed>>
  BY DEF Subscribe
<1>2. SyncTypeOK'
  BY <1>1 DEF SyncTypeOK, Placed, notifyVars, loadVars, tableVars
<1>3. \A j \in Nodes : Unmoved(j)
  BY <1>1 DEF Unmoved, notifyVars, loadVars, tableVars
<1>4. UNCHANGED <<pools, tenants, wired, publishing, overlapped, missed>>
  BY <1>1 DEF dbVars, redisVars, loadVars
<1>5. \A j \in Followed' : NodeInv(j)'
  BY <1>3, <1>4, ElsewhereKept, FollowedStays DEF SyncInv
<1> QED BY <1>2, <1>5 DEF SyncInv

LEMMA StepDisconnect ==
    ASSUME SyncTypeOK, SyncInv, NEW n \in Nodes, Disconnect(n) PROVE SyncTypeOK' /\ SyncInv'
<1>1. /\ UNCHANGED <<dbVars, reloadChan, pending, timer, redisVars, loadVars, tableVars>>
      /\ inbox' = [inbox EXCEPT ![n] = <<>>]
      /\ missed' = IF inbox[n] = <<>> THEN missed ELSE missed \cup {n}
  BY DEF Disconnect
<1>2. SyncTypeOK'
  BY <1>1 DEF SyncTypeOK, Placed, redisVars, loadVars, tableVars
<1>3. ASSUME NEW j \in Followed' PROVE inbox'[j] = inbox[j]
  BY <1>1, <1>3 DEF SyncTypeOK, Followed
<1>4. \A j \in Followed' : Unmoved(j)
  BY <1>1, <1>3 DEF Unmoved, redisVars, loadVars, tableVars
<1>5. UNCHANGED <<pools, tenants, wired, publishing, overlapped>> /\ missed \subseteq missed'
  BY <1>1 DEF dbVars, redisVars, loadVars
<1>6. \A j \in Followed' : NodeInv(j)'
  BY <1>3, <1>4, <1>5, ElsewhereKept, FollowedStays DEF SyncInv
<1> QED BY <1>2, <1>6 DEF SyncInv

Says(s, kind) == \E k \in DOMAIN s : s[k] = kind

\* Appended, what was at the head of a queue is at the end of the other.
LEMMA HeadMoves ==
    ASSUME NEW p \in Seq(Kinds), p # <<>>, NEW q \in Seq(Kinds), NEW kind
    PROVE  /\ Tail(p) \in Seq(Kinds) /\ Head(p) \in Kinds /\ Append(q, Head(p)) \in Seq(Kinds)
           /\ Says(p, kind) => kind = Head(p) \/ Says(Tail(p), kind)
           /\ Says(Append(q, Head(p)), Head(p))
           /\ Says(q, kind) => Says(Append(q, Head(p)), kind)
<1> DEFINE r == Append(q, Head(p))
<1>1. Tail(p) \in Seq(Kinds) /\ Head(p) \in Kinds /\ r \in Seq(Kinds)
  OBVIOUS
<1>2. ASSUME NEW k \in DOMAIN p, k # 1 PROVE k - 1 \in DOMAIN Tail(p) /\ Tail(p)[k - 1] = p[k]
  BY <1>2
<1>3. Head(p) = p[1]
  OBVIOUS
<1>4. Len(q) + 1 \in DOMAIN r /\ r[Len(q) + 1] = Head(p)
  OBVIOUS
<1>5. \A k \in DOMAIN q : k \in DOMAIN r /\ r[k] = q[k]
  OBVIOUS
<1> HIDE DEF r
<1>6. (\E k \in DOMAIN p : p[k] = kind) => kind = Head(p) \/ \E k \in DOMAIN Tail(p) : Tail(p)[k] = kind
  BY <1>2, <1>3
<1>7. (\E k \in DOMAIN q : q[k] = kind) => \E k \in DOMAIN r : r[k] = kind
  BY <1>5
<1> QED BY <1>1, <1>4, <1>6, <1>7 DEF r, Says

LEMMA StepReceive ==
    ASSUME SyncTypeOK, SyncInv, NEW n \in Nodes, Receive(n) PROVE SyncTypeOK' /\ SyncInv'
<1> DEFINE p == inbox[n]  q == reloadChan[n]  r == Append(q, Head(p))
<1>1. /\ UNCHANGED <<dbVars, pending, timer, redisVars, loadVars, tableVars>>
      /\ p # <<>> /\ inbox' = [inbox EXCEPT ![n] = Tail(p)]
  BY DEF Receive
<1>2. p \in Seq(Kinds) /\ q \in Seq(Kinds)
  BY DEF SyncTypeOK
<1>3. Tail(p) \in Seq(Kinds) /\ Head(p) \in Kinds /\ r \in Seq(Kinds)
  BY <1>1, <1>2, HeadMoves
<1>4. \A kind : (\E k \in DOMAIN p : p[k] = kind)
                    => kind = Head(p) \/ \E k \in DOMAIN Tail(p) : Tail(p)[k] = kind
  <2>1. \A kind : Says(p, kind) => kind = Head(p) \/ Says(Tail(p), kind)
    BY <1>1, <1>2, HeadMoves
  <2> QED BY <2>1 DEF Says
<1>5. /\ \E k \in DOMAIN r : r[k] = Head(p)
      /\ \A kind : (\E k \in DOMAIN q : q[k] = kind) => \E k \in DOMAIN r : r[k] = kind
  <2>1. Says(r, Head(p)) /\ \A kind : Says(q, kind) => Says(r, kind)
    BY <1>1, <1>2, HeadMoves
  <2> HIDE DEF p, q, r
  <2> QED BY <2>1 DEF Says
<1> HIDE DEF p, q, r
<1>6. \/ reloadChan' = [reloadChan EXCEPT ![n] = r] /\ UNCHANGED missed
      \/ /\ reloadChan' = reloadChan
         /\ missed' = IF Covered(n, Head(p)) THEN missed ELSE missed \cup {n}
  BY DEF Receive, p, q, r
<1>7. /\ inbox' \in [Nodes -> Seq(Kinds)] /\ reloadChan' \in [Nodes -> Seq(Kinds)]
      /\ inbox'[n] = Tail(p)
      /\ \A j \in Nodes \ {n} : inbox'[j] = inbox[j] /\ reloadChan'[j] = reloadChan[j]
  BY <1>1, <1>3, <1>6 DEF SyncTypeOK
<1>8. SyncTypeOK'
  BY <1>1, <1>7 DEF SyncTypeOK, Placed, redisVars, loadVars, tableVars
<1>9. \A j \in Nodes \ {n} : Unmoved(j)
  BY <1>1, <1>7 DEF Unmoved, redisVars, loadVars, tableVars
<1>10. UNCHANGED <<pools, tenants, wired, publishing, renews, overlapped>> /\ missed \subseteq missed'
  BY <1>1, <1>6 DEF dbVars, redisVars, loadVars
<1>11. ASSUME n \in Followed' PROVE NodeInv(n)'
  <2>1. NodeInv(n)
    BY <1>10, <1>11, FollowedStays DEF SyncInv
  <2>2. TablesKept(n)
    BY <1>1 DEF TablesKept, loadVars, tableVars
  <2>3. CASE reloadChan' = [reloadChan EXCEPT ![n] = r]
    <3>1. reloadChan'[n] = r
      BY <2>3 DEF SyncTypeOK
    <3>2. \A kind : Queued(n, kind) => Queued(n, kind)'
      BY ZenonT(40), <3>1, <1>1, <1>4, <1>5, <1>7 DEF Queued, p, q
    <3> QED BY <2>1, <2>2, <3>2, <1>10, NewsTravels DEF QueuedKept
  <2>4. CASE reloadChan' = reloadChan /\ Covered(n, Head(p))
    <3>1. DOMAIN q = 1..Len(q)
      BY <1>2
    <3>2. \E k \in DOMAIN q : q[k] \in {Head(p), "pools"}
      BY <2>4, <3>1 DEF Covered, q
    <3>3. reloadChan'[n] = q
      BY <2>4 DEF q
    <3>4. Queued(n, "pools") => Queued(n, "pools")'
      BY <3>2, <3>3, <1>1, <1>4, <1>7 DEF Queued, p, q
    <3>5. Queued(n, "tenants") => Queued(n, "tenants")' \/ Queued(n, "pools")'
      BY <3>2, <3>3, <1>1, <1>4, <1>7 DEF Queued, p, q
    <3>6. PoolNews(n) => PoolNews(n)'
      BY <3>4, <1>10, <2>2 DEF PoolNews, TablesKept
    <3>7. TenantNews(n) => TenantNews(n)'
      BY <3>5, <3>6, <2>2 DEF TenantNews, PoolNews, TablesKept
    <3>8. PoolsLast(n) => PoolsLast(n)'
      BY <2>2, <1>10 DEF PoolsLast, TablesKept
    <3>9. TenantsLast(n) => TenantsLast(n)'
      BY <2>2, <1>10 DEF TenantsLast, TablesKept
    <3>10. Alone(n) => Alone(n)'
      BY <2>2 DEF Alone, Loading, TablesKept
    <3> QED BY <2>1, <1>10, <3>6, <3>7, <3>8, <3>9, <3>10 DEF NodeInv
  <2> QED BY <2>3, <2>4, <1>6, <1>11 DEF Followed
<1>12. \A j \in Followed' : NodeInv(j)'
  BY <1>9, <1>10, <1>11, ElsewhereKept, FollowedStays DEF SyncInv
<1> QED BY <1>8, <1>12 DEF SyncInv

LEMMA StepDebounce ==
    ASSUME SyncTypeOK, SyncInv, NEW n \in Nodes, Debounce(n) PROVE SyncTypeOK' /\ SyncInv'
<1> DEFINE p == reloadChan[n]
<1>1. /\ UNCHANGED <<dbVars, inbox, redisVars, loadVars, tableVars, missed>>
      /\ p # <<>> /\ reloadChan' = [reloadChan EXCEPT ![n] = Tail(p)]
      /\ pending' = [pending EXCEPT ![n] = pending[n] \cup {Head(p)}]
      /\ timer' = timer \cup {n} /\ place[n]["debouncer"] = "idle"
  BY DEF Debounce
<1>2. p \in Seq(Kinds)
  BY DEF SyncTypeOK
<1>3. Tail(p) \in Seq(Kinds)
  BY <1>1, <1>2, HeadMoves
<1>4. \A kind : (\E k \in DOMAIN p : p[k] = kind)
                    => kind = Head(p) \/ \E k \in DOMAIN Tail(p) : Tail(p)[k] = kind
  <2>1. \A kind : Says(p, kind) => kind = Head(p) \/ Says(Tail(p), kind)
    BY <1>1, <1>2, HeadMoves
  <2> QED BY <2>1 DEF Says
<1> HIDE DEF p
<1>5. /\ reloadChan' \in [Nodes -> Seq(Kinds)] /\ reloadChan'[n] = Tail(p)
      /\ DOMAIN pending' = Nodes /\ pending'[n] = pending[n] \cup {Head(p)}
      /\ \A j \in Nodes \ {n} : reloadChan'[j] = reloadChan[j] /\ pending'[j] = pending[j]
  BY <1>1, <1>3 DEF SyncTypeOK
<1>6. \A j \in Nodes : Placed(j)'
  BY <1>1 DEF SyncTypeOK, Placed, loadVars
<1>7. SyncTypeOK'
  BY <1>1, <1>5, <1>6 DEF SyncTypeOK, redisVars, loadVars, tableVars
<1>8. \A j \in Nodes \ {n} : Unmoved(j)
  BY <1>1, <1>5 DEF Unmoved, redisVars, loadVars, tableVars
<1>9. UNCHANGED <<pools, tenants, wired, publishing, renews, overlapped, missed>>
  BY <1>1 DEF dbVars, redisVars, loadVars
<1>10. ASSUME n \in Followed' PROVE NodeInv(n)'
  <2>1. NodeInv(n)
    BY <1>9, <1>10, FollowedStays DEF SyncInv
  <2>2. TablesKept(n)
    BY <1>1 DEF TablesKept, loadVars, tableVars
  <2>3. \A kind : Queued(n, kind) => Queued(n, kind)'
    BY <1>1, <1>4, <1>5 DEF Queued, p
  <2> QED BY <2>1, <2>2, <2>3, <1>9, NewsTravels DEF QueuedKept
<1>11. \A j \in Followed' : NodeInv(j)'
  BY <1>8, <1>9, <1>10, ElsewhereKept, FollowedStays DEF SyncInv
<1> QED BY <1>7, <1>11 DEF SyncInv

\* A load that starts reads the pools there are.
LEMMA ReadingPlaces ==
    ASSUME SyncTypeOK, NEW n \in Nodes, NEW x \in Loaders, ReadPools(n, x)
    PROVE  /\ place' \in [Nodes -> [Loaders -> Places]]
           /\ DOMAIN snap' = Nodes /\ \A j \in Nodes : DOMAIN snap'[j] = Loaders
           /\ place'[n][x] = "cache" /\ snap'[n][x] = pools
           /\ \A y \in Loaders \ {x} : place'[n][y] = place[n][y] /\ snap'[n][y] = snap[n][y]
           /\ \A j \in Nodes \ {n} : place'[j] = place[j] /\ snap'[j] = snap[j]
<1>1. Goto(n, x, "cache") /\ snap' = [snap EXCEPT ![n][x] = pools] /\ "cache" \in Places
  BY DEF ReadPools, Places
<1>2. /\ place' \in [Nodes -> [Loaders -> Places]] /\ place'[n][x] = "cache"
      /\ \A y \in Loaders \ {x} : place'[n][y] = place[n][y]
      /\ \A j \in Nodes \ {n} : place'[j] = place[j]
  BY <1>1, GotoPlace
<1>3. /\ DOMAIN snap' = Nodes /\ \A j \in Nodes : DOMAIN snap'[j] = Loaders
      /\ snap'[n][x] = pools
      /\ \A y \in Loaders \ {x} : snap'[n][y] = snap[n][y]
      /\ \A j \in Nodes \ {n} : snap'[j] = snap[j]
  BY <1>1, SnapSet
<1> QED BY <1>2, <1>3

\* A load that starts beside no other has the last word; with Redis, one that
\* starts beside another is published, or that other is.
LEMMA LoadStarts ==
    ASSUME SyncTypeOK, NEW n \in Nodes, NEW x \in Loaders, ReadPools(n, x),
           place[n][x] \in {"idle", "changed"}, UNCHANGED <<pools, wired>>, n \in Followed'
    PROVE  NodeInv(n)'
<1>1. /\ place'[n][x] = "cache" /\ snap'[n][x] = pools
      /\ \A y \in Loaders \ {x} : place'[n][y] = place[n][y] /\ snap'[n][y] = snap[n][y]
  BY ReadingPlaces
<1>2. overlapped' = IF Loading(n) = {} THEN overlapped \ {n} ELSE overlapped \cup {n}
  BY DEF ReadPools
<1>3. TenantNews(n)'
  BY <1>1 DEF TenantNews
<1>4. CASE Loading(n) = {}
  <2>1. \A y \in Loaders \ {x} : place'[n][y] \in {"idle", "changed"}
    BY <1>1, <1>4 DEF Loading
  <2>2. PoolsLast(n)'
    BY <1>1, <2>1 DEF PoolsLast
  <2>3. Alone(n)'
    BY <2>1 DEF Alone, Loading
  <2> QED BY <1>3, <2>2, <2>3 DEF NodeInv
<1>5. CASE Loading(n) # {}
  <2>1. n \in wired'
    BY <1>2, <1>5 DEF Followed
  <2>2. CASE \E y \in Loaders \ {x} : place[n][y] \in {"cache", "store"}
    <3>1. PICK y \in Loaders \ {x} : place'[n][y] \in {"cache", "store"}
      BY <1>1, <2>2
    <3>2. x \in {"admin", "debouncer"} \/ y \in {"admin", "debouncer"}
      BY DEF Loaders
    <3>3. PoolNews(n)'
      BY <1>1, <2>1, <3>1, <3>2 DEF PoolNews
    <3> QED BY <1>3, <2>1, <3>3 DEF NodeInv
  <2>3. CASE \A y \in Loaders \ {x} : place[n][y] \notin {"cache", "store"}
    <3>1. PoolsLast(n)'
      BY <1>1, <2>3 DEF PoolsLast
    <3> QED BY <1>3, <2>1, <3>1 DEF NodeInv
  <2> QED BY <2>2, <2>3
<1> QED BY <1>4, <1>5

LEMMA StepFire ==
    ASSUME SyncTypeOK, SyncInv, NEW n \in Nodes, Fire(n) PROVE SyncTypeOK' /\ SyncInv'
<1>1. /\ UNCHANGED <<dbVars, inbox, reloadChan, pending, redisVars, tableVars, missed>>
      /\ timer' = timer \ {n} /\ place[n]["debouncer"] = "idle"
      /\ IF "pools" \in pending[n]
         THEN ReadPools(n, "debouncer")
         ELSE /\ Goto(n, "debouncer", "tenantsOnly") /\ UNCHANGED snap
              /\ overlapped' = IF Loading(n) = {} THEN overlapped ELSE overlapped \cup {n}
  BY DEF Fire
<1>2. "debouncer" \in Loaders /\ "tenantsOnly" \in Places
  BY DEF Loaders, Places
<1>3. /\ place' \in [Nodes -> [Loaders -> Places]]
      /\ DOMAIN snap' = Nodes /\ \A j \in Nodes : DOMAIN snap'[j] = Loaders
      /\ place'[n]["debouncer"] = IF "pools" \in pending[n] THEN "cache" ELSE "tenantsOnly"
      /\ \A y \in Loaders \ {"debouncer"} : place'[n][y] = place[n][y] /\ snap'[n][y] = snap[n][y]
      /\ \A j \in Nodes \ {n} : place'[j] = place[j] /\ snap'[j] = snap[j]
  <2>1. CASE "pools" \in pending[n]
    BY <2>1, <1>1, <1>2, ReadingPlaces
  <2>2. CASE "pools" \notin pending[n]
    BY <2>2, <1>1, <1>2, GotoPlace DEF SyncTypeOK
  <2> QED BY <2>1, <2>2
<1>4. \A j \in Nodes : Placed(j)'
  BY <1>1, <1>3 DEF SyncTypeOK, Placed, Loaders
<1>5. SyncTypeOK'
  BY <1>1, <1>3, <1>4 DEF SyncTypeOK, redisVars, tableVars
<1>6. \A j \in Nodes \ {n} : Unmoved(j)
  BY <1>1, <1>3 DEF Unmoved, redisVars, tableVars
<1>7. UNCHANGED <<pools, tenants, wired, publishing, renews, missed>>
  BY <1>1 DEF dbVars, redisVars
<1>8. ASSUME n \in Followed' PROVE NodeInv(n)'
  <2>1. CASE "pools" \in pending[n]
    BY <2>1, <1>1, <1>2, <1>7, <1>8, LoadStarts
  <2>2. CASE "pools" \notin pending[n]
    <3>1. n \in Followed /\ (n \notin wired => Loading(n) = {})
      BY <2>2, <1>1, <1>7, <1>8 DEF Followed
    <3>2. NodeInv(n)
      BY <3>1 DEF SyncInv
    <3>3. /\ place'[n]["debouncer"] = "tenantsOnly" /\ snap' = snap
          /\ \A y \in Loaders \ {"debouncer"} : place'[n][y] = place[n][y]
      BY <2>2, <1>1, <1>3
    <3>4. "admin" \in Loaders \ {"debouncer"} /\ place'[n]["admin"] = place[n]["admin"]
      BY <3>3 DEF Loaders
    <3>5. Queued(n, "pools") => Queued(n, "pools")'
      BY <2>2, <1>1 DEF Queued
    <3>6. PoolNews(n) => PoolNews(n)'
      BY <3>4, <3>5, <1>1, <1>7 DEF PoolNews
    <3>7. TenantNews(n)'
      BY <3>3, <1>2 DEF TenantNews
    <3>8. PoolsLast(n) => PoolsLast(n)'
      BY <3>3, <1>1, <1>2, <1>7 DEF PoolsLast, tableVars
    <3>9. n \notin wired => Alone(n)'
      BY <3>1, <3>3 DEF Alone, Loading
    <3> QED BY <3>2, <3>6, <3>7, <3>8, <3>9, <1>7 DEF NodeInv
  <2> QED BY <2>1, <2>2
<1>9. \A j \in Followed' \ {n} : j \in Followed /\ j \in Nodes
  BY <1>1, <1>7 DEF Followed, ReadPools
<1>10. \A j \in Followed' : NodeInv(j)'
  BY <1>6, <1>7, <1>8, <1>9, ElsewhereKept DEF SyncInv
<1> QED BY <1>5, <1>10 DEF SyncInv

LEMMA StepUnsubscribe ==
    ASSUME SyncTypeOK, SyncInv, NEW n \in Nodes, Unsubscribe(n) PROVE SyncTypeOK' /\ SyncInv'
<1>1. /\ UNCHANGED <<dbVars, notifyVars, wired, publishing, loadVars, tableVars>>
      /\ renews' = [renews EXCEPT ![n] = 0]
      /\ missed' = IF renews[n] = 0 THEN missed ELSE missed \cup {n}
  BY DEF Unsubscribe
<1>2. SyncTypeOK'
  BY <1>1 DEF SyncTypeOK, Placed, notifyVars, loadVars, tableVars
<1>3. ASSUME NEW j \in Followed' PROVE renews'[j] = renews[j]
  BY <1>1, <1>3 DEF SyncTypeOK, Followed
<1>4. \A j \in Followed' : Unmoved(j)
  BY <1>1, <1>3 DEF Unmoved, notifyVars, loadVars, tableVars
<1>5. UNCHANGED <<pools, tenants, wired, publishing, overlapped>> /\ missed \subseteq missed'
  BY <1>1 DEF dbVars, redisVars, loadVars
<1>6. \A j \in Followed' : NodeInv(j)'
  BY <1>3, <1>4, <1>5, ElsewhereKept, FollowedStays DEF SyncInv
<1> QED BY <1>2, <1>6 DEF SyncInv

\* A publish reaches every node that will not have missed it.
LEMMA StepPublish ==
    ASSUME SyncTypeOK, SyncInv, Publish PROVE SyncTypeOK' /\ SyncInv'
<1>1. /\ UNCHANGED <<dbVars, notifyVars, wired, subscribed, loadVars, tableVars>>
      /\ publishing > 0 /\ publishing' = publishing - 1
      /\ renews' = [n \in Nodes |-> IF n \in subscribed /\ renews[n] < SubCap
                                    THEN renews[n] + 1 ELSE renews[n]]
      /\ missed' = missed \cup (wired \ subscribed)
  BY DEF Publish
<1>2. publishing' \in Nat /\ renews' \in [Nodes -> Nat]
  BY <1>1 DEF SyncTypeOK
<1>3. SyncTypeOK'
  BY <1>1, <1>2 DEF SyncTypeOK, Placed, notifyVars, loadVars, tableVars
<1>4. UNCHANGED <<pools, tenants, wired, overlapped>> /\ missed \subseteq missed'
  BY <1>1 DEF dbVars, loadVars
<1>5. ASSUME NEW j \in Followed' PROVE NodeInv(j)'
  <2>1. NodeInv(j) /\ j \in Nodes
    BY <1>4, FollowedStays DEF SyncInv, Followed
  <2>2. QueuedKept(j) /\ TablesKept(j)
    BY <1>1 DEF QueuedKept, Queued, TablesKept, notifyVars, loadVars, tableVars
  <2>3. j \in wired => renews'[j] > 0
    <3>1. j \in wired => j \in subscribed
      BY <1>1 DEF Followed
    <3>2. SubCap \in Nat \ {0} /\ renews[j] \in Nat
      BY <2>1, SyncAssumption DEF SyncTypeOK
    <3> QED BY <1>1, <2>1, <3>1, <3>2
  <2> QED BY <2>1, <2>2, <2>3, <1>4, NewsTravels
<1> QED BY <1>3, <1>5 DEF SyncInv

LEMMA StepLosePublish ==
    ASSUME SyncTypeOK, SyncInv, LosePublish PROVE SyncTypeOK' /\ SyncInv'
<1>1. /\ UNCHANGED <<dbVars, notifyVars, wired, subscribed, renews, loadVars, tableVars>>
      /\ publishing > 0 /\ publishing' = publishing - 1 /\ missed' = missed \cup wired
  BY DEF LosePublish
<1>2. publishing' \in Nat
  BY <1>1 DEF SyncTypeOK
<1>3. SyncTypeOK'
  BY <1>1, <1>2 DEF SyncTypeOK, Placed, notifyVars, loadVars, tableVars
<1>4. UNCHANGED <<pools, tenants, wired, overlapped>> /\ missed \subseteq missed'
  BY <1>1 DEF dbVars, loadVars
<1>5. \A j \in Followed' : Unmoved(j) /\ j \notin wired /\ j \in Followed
  BY <1>1, <1>4, FollowedStays DEF Unmoved, notifyVars, loadVars, tableVars, Followed
<1>6. \A j \in Followed' : NodeInv(j)'
  BY <1>4, <1>5, ElsewhereKept DEF SyncInv
<1> QED BY <1>3, <1>6 DEF SyncInv

LEMMA StepRenew ==
    ASSUME SyncTypeOK, SyncInv, NEW n \in Nodes, Renew(n) PROVE SyncTypeOK' /\ SyncInv'
<1>1. /\ UNCHANGED <<dbVars, notifyVars, wired, subscribed, publishing, tableVars, missed>>
      /\ renews[n] > 0 /\ renews' = [renews EXCEPT ![n] = @ - 1]
      /\ ReadPools(n, "subscriber") /\ place[n]["subscriber"] = "idle"
  BY DEF Renew
<1>2. "subscriber" \in Loaders
  BY DEF Loaders
<1>3. /\ place' \in [Nodes -> [Loaders -> Places]]
      /\ DOMAIN snap' = Nodes /\ \A j \in Nodes : DOMAIN snap'[j] = Loaders
      /\ place'[n]["subscriber"] = "cache" /\ snap'[n]["subscriber"] = pools
      /\ \A y \in Loaders \ {"subscriber"} : place'[n][y] = place[n][y] /\ snap'[n][y] = snap[n][y]
      /\ \A j \in Nodes \ {n} : place'[j] = place[j] /\ snap'[j] = snap[j]
  BY <1>1, <1>2, ReadingPlaces
<1>4. renews' \in [Nodes -> Nat] /\ \A j \in Nodes \ {n} : renews'[j] = renews[j]
  BY <1>1 DEF SyncTypeOK
<1>5. \A j \in Nodes : Placed(j)'
  <2>1. place'[n]["admin"] = place[n]["admin"] /\ place'[n]["debouncer"] = place[n]["debouncer"]
    BY <1>3 DEF Loaders
  <2>2. timer' = timer
    BY <1>1 DEF notifyVars
  <2>3. Placed(n)'
    BY <2>1, <2>2, <1>3 DEF SyncTypeOK, Placed
  <2>4. \A j \in Nodes \ {n} : Placed(j)'
    BY <2>2, <1>3, PlacedKept DEF SyncTypeOK
  <2> QED BY <2>3, <2>4
<1>6. SyncTypeOK'
  BY <1>1, <1>3, <1>4, <1>5 DEF SyncTypeOK, notifyVars, tableVars
<1>7. \A j \in Nodes \ {n} : Unmoved(j)
  BY <1>1, <1>3, <1>4 DEF Unmoved, notifyVars, tableVars
<1>8. UNCHANGED <<pools, tenants, wired, publishing, missed>>
  BY <1>1 DEF dbVars
<1>9. n \in Followed' => NodeInv(n)'
  BY <1>1, <1>2, <1>8, LoadStarts
<1>10. \A j \in Followed' \ {n} : j \in Followed /\ j \in Nodes
  BY <1>1, <1>8 DEF Followed, ReadPools
<1>11. \A j \in Followed' : NodeInv(j)'
  BY <1>7, <1>8, <1>9, <1>10, ElsewhereKept DEF SyncInv
<1> QED BY <1>6, <1>11 DEF SyncInv

LEMMA StepReloadSync ==
    ASSUME SyncTypeOK, SyncInv, NEW n \in Nodes, ReloadSync(n) PROVE SyncTypeOK' /\ SyncInv'
<1>1. /\ UNCHANGED <<dbVars, notifyVars, redisVars, tableVars, missed>>
      /\ ReadPools(n, "admin") /\ place[n]["admin"] = "changed"
  BY DEF ReloadSync
<1>2. "admin" \in Loaders
  BY DEF Loaders
<1>3. /\ place' \in [Nodes -> [Loaders -> Places]]
      /\ DOMAIN snap' = Nodes /\ \A j \in Nodes : DOMAIN snap'[j] = Loaders
      /\ place'[n]["admin"] = "cache"
      /\ \A y \in Loaders \ {"admin"} : place'[n][y] = place[n][y] /\ snap'[n][y] = snap[n][y]
      /\ \A j \in Nodes \ {n} : place'[j] = place[j] /\ snap'[j] = snap[j]
  BY <1>1, <1>2, ReadingPlaces
<1>4. \A j \in Nodes : Placed(j)'
  <2>1. place'[n]["debouncer"] = place[n]["debouncer"] /\ place'[n]["subscriber"] = place[n]["subscriber"]
    BY <1>3 DEF Loaders
  <2>2. timer' = timer
    BY <1>1 DEF notifyVars
  <2>3. Placed(n)'
    BY <2>1, <2>2, <1>3 DEF SyncTypeOK, Placed
  <2>4. \A j \in Nodes \ {n} : Placed(j)'
    BY <2>2, <1>3, PlacedKept DEF SyncTypeOK
  <2> QED BY <2>3, <2>4
<1>5. SyncTypeOK'
  BY <1>1, <1>3, <1>4 DEF SyncTypeOK, notifyVars, redisVars, tableVars
<1>6. \A j \in Nodes \ {n} : Unmoved(j)
  BY <1>1, <1>3 DEF Unmoved, notifyVars, redisVars, tableVars
<1>7. UNCHANGED <<pools, tenants, wired, publishing, missed>>
  BY <1>1 DEF dbVars, redisVars
<1>8. n \in Followed' => NodeInv(n)'
  BY <1>1, <1>2, <1>7, LoadStarts
<1>9. \A j \in Followed' \ {n} : j \in Followed /\ j \in Nodes
  BY <1>1, <1>7 DEF Followed, ReadPools
<1>10. \A j \in Followed' : NodeInv(j)'
  BY <1>6, <1>7, <1>8, <1>9, ElsewhereKept DEF SyncInv
<1> QED BY <1>5, <1>10 DEF SyncInv

LEMMA StepCachePools ==
    ASSUME SyncTypeOK, SyncInv, NEW n \in Nodes, NEW x \in Loaders, CachePools(n, x)
    PROVE  SyncTypeOK' /\ SyncInv'
<1>1. /\ UNCHANGED <<dbVars, notifyVars, redisVars, snap, overlapped, table, admitted, missed>>
      /\ place[n][x] = "cache" /\ Goto(n, x, "store")
      /\ cached' = [cached EXCEPT ![n] =
            [m \in Patterns |-> IF snap[n][x][m] = 0 THEN @[m] ELSE snap[n][x][m]]]
      /\ cacher' = [cacher EXCEPT ![n] = x] /\ joined' = joined \ {n}
  BY DEF CachePools
<1>2. "store" \in Places
  BY DEF Places
<1>3. /\ place' \in [Nodes -> [Loaders -> Places]] /\ place'[n][x] = "store"
      /\ \A y \in Loaders \ {x} : place'[n][y] = place[n][y]
      /\ \A j \in Nodes \ {n} : place'[j] = place[j]
  BY <1>1, <1>2, GotoPlace
<1>4. /\ DOMAIN cached' = Nodes /\ DOMAIN cacher' = Nodes /\ cacher'[n] = x
      /\ \A m \in Patterns : snap[n][x][m] # 0 => cached'[n][m] = snap[n][x][m]
      /\ \A j \in Nodes \ {n} : cached'[j] = cached[j] /\ cacher'[j] = cacher[j]
  BY <1>1 DEF SyncTypeOK
<1>5. timer' = timer /\ UNCHANGED <<pools, tenants, wired, publishing, renews, overlapped, missed>>
  BY <1>1 DEF notifyVars, dbVars, redisVars
<1>6. \A j \in Nodes : Placed(j)'
  <2>1. Placed(n)'
    BY <1>1, <1>3, <1>5 DEF SyncTypeOK, Placed, Loaders
  <2>2. \A j \in Nodes \ {n} : Placed(j)'
    BY <1>3, <1>5, PlacedKept DEF SyncTypeOK
  <2> QED BY <2>1, <2>2
<1>7. SyncTypeOK'
  BY <1>1, <1>3, <1>4, <1>6 DEF SyncTypeOK, notifyVars, redisVars
<1>8. \A j \in Nodes \ {n} : Unmoved(j)
  BY <1>1, <1>3, <1>4 DEF Unmoved, notifyVars, redisVars
<1>9. ASSUME n \in Followed' PROVE NodeInv(n)'
  <2>1. NodeInv(n)
    BY <1>5, <1>9, FollowedStays DEF SyncInv
  <2>2. TenantNews(n)' /\ (Alone(n) => Alone(n)')
    <3>1. Loading(n)' = Loading(n)
      BY <1>1, <1>3 DEF Loading
    <3> QED BY <1>3, <3>1 DEF TenantNews, Alone
  <2>3. PoolNews(n) => PoolNews(n)'
    <3>1. Queued(n, "pools") => Queued(n, "pools")'
      BY <1>1 DEF Queued, notifyVars
    <3> QED BY <3>1, <1>1, <1>3, <1>5 DEF PoolNews, Loaders
  <2>4. CASE PoolsLast(n) /\ Alone(n)
    <3>1. \A y \in Loaders \ {x} : place[n][y] \in {"idle", "changed"}
      BY <2>4, <1>1 DEF Alone, Loading
    <3>2. snap[n][x] = pools
      BY <2>4, <1>1 DEF PoolsLast
    <3>3. PoolsLast(n)'
      BY <3>1, <3>2, <1>1, <1>3, <1>4, <1>5 DEF PoolsLast
    <3> QED BY <2>1, <2>2, <3>3, <1>5 DEF NodeInv
  <2>5. CASE n \in wired /\ x = "subscriber" /\ ~ PoolNews(n)
    <3>1. \A y \in Loaders \ {x} : place[n][y] \notin {"cache", "store"}
      BY <2>5 DEF PoolNews, Loaders
    <3>2. PoolsLast(n) /\ snap[n][x] = pools
      BY <2>1, <2>5, <1>1 DEF NodeInv, PoolsLast
    <3>3. PoolsLast(n)'
      BY <3>1, <3>2, <1>1, <1>3, <1>4, <1>5 DEF PoolsLast
    <3> QED BY <2>2, <2>5, <3>3, <1>5 DEF NodeInv
  <2>6. CASE n \in wired /\ x # "subscriber"
    <3>1. PoolNews(n)'
      BY <2>6, <1>3, <1>5 DEF PoolNews, Loaders
    <3> QED BY <2>2, <2>6, <3>1, <1>5 DEF NodeInv
  <2> QED BY <2>1, <2>2, <2>3, <2>4, <2>5, <2>6, <1>5 DEF NodeInv
<1>10. \A j \in Followed' : NodeInv(j)'
  BY <1>5, <1>8, <1>9, ElsewhereKept, FollowedStays DEF SyncInv
<1> QED BY <1>7, <1>10 DEF SyncInv

LEMMA StepStorePools ==
    ASSUME SyncTypeOK, SyncInv, NEW n \in Nodes, NEW x \in Loaders, StorePools(n, x)
    PROVE  SyncTypeOK' /\ SyncInv'
<1>1. /\ UNCHANGED <<dbVars, notifyVars, redisVars, overlapped, cached, admitted, missed>>
      /\ place[n][x] = "store" /\ Goto(n, x, "tenants")
      /\ table' = [table EXCEPT ![n] = snap[n][x]]
      /\ snap' = [snap EXCEPT ![n][x] = Empty]
      /\ joined' = IF cacher[n] = x THEN joined \cup {n} ELSE joined \ {n}
      /\ cacher' = [cacher EXCEPT ![n] = IF @ = x THEN "none" ELSE @]
  BY DEF StorePools
<1>2. "tenants" \in Places
  BY DEF Places
<1>3. /\ place' \in [Nodes -> [Loaders -> Places]] /\ place'[n][x] = "tenants"
      /\ \A y \in Loaders \ {x} : place'[n][y] = place[n][y]
      /\ \A j \in Nodes \ {n} : place'[j] = place[j]
  BY <1>1, <1>2, GotoPlace
<1>4. /\ DOMAIN snap' = Nodes /\ \A j \in Nodes : DOMAIN snap'[j] = Loaders
      /\ \A j \in Nodes \ {n} : snap'[j] = snap[j]
  BY <1>1, SnapSet
<1>5. /\ DOMAIN table' = Nodes /\ DOMAIN cacher' = Nodes /\ table'[n] = snap[n][x]
      /\ \A j \in Nodes \ {n} : table'[j] = table[j] /\ cacher'[j] = cacher[j]
  BY <1>1 DEF SyncTypeOK
<1>6. timer' = timer /\ UNCHANGED <<pools, tenants, wired, publishing, renews, overlapped, missed>>
  BY <1>1 DEF notifyVars, dbVars, redisVars
<1>7. \A j \in Nodes : Placed(j)'
  <2>1. Placed(n)'
    BY <1>1, <1>3, <1>6 DEF SyncTypeOK, Placed, Loaders
  <2>2. \A j \in Nodes \ {n} : Placed(j)'
    BY <1>3, <1>6, PlacedKept DEF SyncTypeOK
  <2> QED BY <2>1, <2>2
<1>8. SyncTypeOK'
  BY <1>1, <1>3, <1>4, <1>5, <1>7 DEF SyncTypeOK, notifyVars, redisVars
<1>9. \A j \in Nodes \ {n} : Unmoved(j)
  <2>1. \A j \in Nodes \ {n} : (j \in joined') <=> (j \in joined)
    BY <1>1
  <2>2. UNCHANGED <<inbox, reloadChan, pending, timer, renews, cached, admitted>>
    BY <1>1 DEF notifyVars, redisVars
  <2> QED BY <2>1, <2>2, <1>3, <1>4, <1>5 DEF Unmoved
<1>10. ASSUME n \in Followed' PROVE NodeInv(n)'
  <2>1. NodeInv(n)
    BY <1>6, <1>10, FollowedStays DEF SyncInv
  <2>2. TenantNews(n)' /\ (Alone(n) => Alone(n)')
    <3>1. Loading(n)' = Loading(n)
      BY <1>1, <1>3 DEF Loading
    <3> QED BY <1>3, <3>1 DEF TenantNews, Alone
  <2>3. PoolNews(n) => PoolNews(n)'
    <3>1. Queued(n, "pools") => Queued(n, "pools")'
      BY <1>1 DEF Queued, notifyVars
    <3> QED BY <3>1, <1>1, <1>3, <1>6 DEF PoolNews, Loaders
  <2>4. ASSUME PoolsLast(n), \A y \in Loaders \ {x} : place[n][y] \notin {"cache", "store"}
        PROVE  PoolsLast(n)'
    <3>1. cacher[n] = x /\ snap[n][x] = pools
      BY <2>4, <1>1 DEF PoolsLast
    <3>2. \A m \in Patterns : pools[m] # 0 => cached[n][m] = pools[m]
      BY <2>4, <1>1 DEF PoolsLast
    <3>3. n \in joined' /\ table'[n] = pools /\ cached' = cached
      BY <3>1, <1>1, <1>5
    <3>4. \A y \in Loaders : place'[n][y] \notin {"cache", "store"}
      BY <2>4, <1>3
    <3> QED BY <3>2, <3>3, <3>4, <1>6 DEF PoolsLast
  <2>5. CASE PoolsLast(n) /\ Alone(n)
    <3>1. \A y \in Loaders \ {x} : place[n][y] \notin {"cache", "store"}
      BY <2>5, <1>1 DEF Alone, Loading
    <3> QED BY <3>1, <2>1, <2>2, <2>4, <2>5, <1>6 DEF NodeInv
  <2>6. CASE n \in wired /\ x = "subscriber" /\ ~ PoolNews(n)
    <3>1. \A y \in Loaders \ {x} : place[n][y] \notin {"cache", "store"}
      BY <2>6 DEF PoolNews, Loaders
    <3> QED BY <3>1, <2>1, <2>2, <2>4, <2>6, <1>6 DEF NodeInv
  <2>7. CASE n \in wired /\ x # "subscriber"
    <3>1. PoolNews(n)'
      BY <2>7, <1>3, <1>6 DEF PoolNews, Loaders
    <3> QED BY <2>2, <2>7, <3>1, <1>6 DEF NodeInv
  <2> QED BY <2>1, <2>2, <2>3, <2>5, <2>6, <2>7, <1>6 DEF NodeInv
<1>11. \A j \in Followed' : NodeInv(j)'
  BY <1>6, <1>9, <1>10, ElsewhereKept, FollowedStays DEF SyncInv
<1> QED BY <1>8, <1>11 DEF SyncInv

\* A load that is over, with the flags it cleared.
LEMMA OverPlaces ==
    ASSUME SyncTypeOK, NEW n \in Nodes, NEW x \in Loaders, Over(n, x), timer' = timer,
           place[n][x] \in {"cache", "tenants", "tenantsOnly"}
    PROVE  /\ place' \in [Nodes -> [Loaders -> Places]] /\ DOMAIN pending' = Nodes
           /\ \A y \in Loaders \ {x} : place'[n][y] = place[n][y]
           /\ \A j \in Nodes \ {n} : place'[j] = place[j] /\ pending'[j] = pending[j]
           /\ place'[n][x] \in {"idle", "tenantsOnly"}
           /\ x # "debouncer" => place'[n][x] = "idle" /\ pending' = pending
           /\ \A j \in Nodes : Placed(j)'
<1> DEFINE label == IF x = "debouncer" /\ place[n][x] # "tenantsOnly" /\ "tenants" \in pending[n]
                    THEN "tenantsOnly" ELSE "idle"
<1>1. Goto(n, x, label) /\ label \in Places
  BY DEF Over, Places
<1>2. /\ place' \in [Nodes -> [Loaders -> Places]] /\ place'[n][x] = label
      /\ \A y \in Loaders \ {x} : place'[n][y] = place[n][y]
      /\ \A j \in Nodes \ {n} : place'[j] = place[j]
  BY <1>1, GotoPlace
<1>3. /\ DOMAIN pending' = Nodes
      /\ \A j \in Nodes \ {n} : pending'[j] = pending[j]
      /\ x # "debouncer" => pending' = pending
  BY DEF Over, SyncTypeOK
<1>4. x # "debouncer" => label = "idle"
  OBVIOUS
<1>5. label \in {"idle", "tenantsOnly"}
  OBVIOUS
<1> HIDE DEF label
<1>6. Placed(n)'
  BY <1>2, <1>4, <1>5 DEF SyncTypeOK, Placed, Loaders
<1>7. \A j \in Nodes \ {n} : Placed(j)'
  BY <1>2, PlacedKept DEF SyncTypeOK
<1> QED BY <1>2, <1>3, <1>4, <1>5, <1>6, <1>7

LEMMA StepLoadTenants ==
    ASSUME SyncTypeOK, SyncInv, NEW n \in Nodes, NEW x \in Loaders, LoadTenants(n, x)
    PROVE  SyncTypeOK' /\ SyncInv'
<1>1. /\ UNCHANGED <<dbVars, listening, inbox, reloadChan, timer, wired, subscribed, renews,
                     snap, overlapped, cached, table, cacher, joined, missed, faults>>
      /\ place[n][x] \in {"tenants", "tenantsOnly"} /\ Over(n, x) /\ Admit(n)
      /\ publishing' = IF n \notin wired \/ x = "subscriber" \/ place[n][x] = "tenantsOnly"
                       THEN publishing ELSE publishing + 1
  BY DEF LoadTenants
<1>2. /\ place' \in [Nodes -> [Loaders -> Places]] /\ DOMAIN pending' = Nodes
      /\ \A y \in Loaders \ {x} : place'[n][y] = place[n][y]
      /\ \A j \in Nodes \ {n} : place'[j] = place[j] /\ pending'[j] = pending[j]
      /\ place'[n][x] \in {"idle", "tenantsOnly"}
      /\ x # "debouncer" => place'[n][x] = "idle" /\ pending' = pending
      /\ \A j \in Nodes : Placed(j)'
  BY <1>1, OverPlaces
<1>3. /\ DOMAIN admitted' = Nodes
      /\ \A t \in Tenants : tenants[t] # 0 => admitted'[n][t] = tenants[t]
      /\ \A j \in Nodes \ {n} : admitted'[j] = admitted[j]
  BY <1>1 DEF Admit, SyncTypeOK
<1>4. publishing' \in Nat /\ (publishing > 0 => publishing' > 0)
  BY <1>1 DEF SyncTypeOK
<1>5. SyncTypeOK'
  BY <1>1, <1>2, <1>3, <1>4 DEF SyncTypeOK
<1>6. \A j \in Nodes \ {n} : Unmoved(j)
  BY <1>1, <1>2, <1>3 DEF Unmoved
<1>7. UNCHANGED <<pools, tenants, wired, overlapped, missed>>
  BY <1>1 DEF dbVars, redisVars, loadVars
<1>8. ASSUME n \in Followed' PROVE NodeInv(n)'
  <2>1. NodeInv(n) /\ Placed(n)
    BY <1>7, <1>8, FollowedStays DEF SyncInv, SyncTypeOK, Followed
  <2>2. TenantsLast(n)'
    BY <1>3, <1>7 DEF TenantsLast
  <2>3. PoolsLast(n) => PoolsLast(n)'
    <3>1. \A y \in Loaders : \A p \in {"cache", "store"} : place'[n][y] = p <=> place[n][y] = p
      BY <1>1, <1>2
    <3> QED BY <3>1, <1>1, <1>7 DEF PoolsLast
  <2>4. Alone(n) => Alone(n)'
    <3>1. Loading(n)' \subseteq Loading(n)
      BY <1>1, <1>2 DEF Loading
    <3> QED BY <3>1 DEF Alone
  <2>5. CASE n \in wired /\ x # "subscriber" /\ place[n][x] = "tenants"
    <3>1. publishing' > 0
      BY <2>5, <1>1 DEF SyncTypeOK
    <3> QED BY <3>1, <2>2, <2>5, <1>7 DEF NodeInv, PoolNews
  <2>6. CASE ~ (n \in wired /\ x # "subscriber" /\ place[n][x] = "tenants")
    <3>1. Queued(n, "pools") => Queued(n, "pools")'
      <4>1. x = "debouncer" => n \notin timer
        BY <2>1, <1>1 DEF Placed
      <4> QED BY <4>1, <1>1, <1>2 DEF Queued
    <3>2. place[n]["admin"] = "changed" => place'[n]["admin"] = "changed"
      BY <1>1, <1>2 DEF Loaders
    <3>3. ASSUME n \in wired
          PROVE  /\ place[n]["admin"] # "idle" => place'[n]["admin"] # "idle"
                 /\ place[n]["debouncer"] \in {"cache", "store", "tenants"} =>
                        place'[n]["debouncer"] \in {"cache", "store", "tenants"}
      <4>1. x = "subscriber" \/ (x = "debouncer" /\ place[n][x] = "tenantsOnly")
        BY <3>3, <2>1, <2>6, <1>1 DEF Placed, Loaders
      <4> QED BY <4>1, <1>2 DEF Loaders
    <3>4. PoolNews(n) => PoolNews(n)'
      BY <3>1, <3>2, <3>3, <1>1, <1>4 DEF PoolNews
    <3> QED BY <2>1, <2>2, <2>3, <2>4, <3>4, <1>7 DEF NodeInv
  <2> QED BY <2>5, <2>6
<1>9. \A j \in Followed' : NodeInv(j)'
  BY <1>4, <1>6, <1>7, <1>8, ElsewhereKept, FollowedStays DEF SyncInv
<1> QED BY <1>5, <1>9 DEF SyncInv

LEMMA StepFailLoad ==
    ASSUME SyncTypeOK, SyncInv, NEW n \in Nodes, NEW x \in Loaders, FailLoad(n, x)
    PROVE  SyncTypeOK' /\ SyncInv'
<1>1. /\ UNCHANGED <<dbVars, listening, inbox, reloadChan, timer, redisVars, overlapped, tableVars>>
      /\ place[n][x] \in {"cache", "tenants", "tenantsOnly"} /\ Over(n, x)
      /\ snap' = [snap EXCEPT ![n][x] = Empty] /\ missed' = missed \cup {n}
  BY DEF FailLoad
<1>2. /\ place' \in [Nodes -> [Loaders -> Places]] /\ DOMAIN pending' = Nodes
      /\ \A j \in Nodes \ {n} : place'[j] = place[j] /\ pending'[j] = pending[j]
      /\ \A j \in Nodes : Placed(j)'
  BY <1>1, OverPlaces
<1>3. /\ DOMAIN snap' = Nodes /\ \A j \in Nodes : DOMAIN snap'[j] = Loaders
      /\ \A j \in Nodes \ {n} : snap'[j] = snap[j]
  BY <1>1, SnapSet
<1>4. SyncTypeOK'
  BY <1>1, <1>2, <1>3 DEF SyncTypeOK, redisVars, tableVars
<1>5. \A j \in Nodes \ {n} : Unmoved(j)
  BY <1>1, <1>2, <1>3 DEF Unmoved, redisVars, tableVars
<1>6. UNCHANGED <<pools, tenants, wired, publishing, overlapped>> /\ missed \subseteq missed'
  BY <1>1 DEF dbVars, redisVars
<1>7. \A j \in Followed' : j # n
  BY <1>1 DEF Followed
<1>8. \A j \in Followed' : NodeInv(j)'
  BY <1>5, <1>6, <1>7, ElsewhereKept, FollowedStays DEF SyncInv
<1> QED BY <1>4, <1>8 DEF SyncInv

LEMMA SyncStep == SyncTypeOK /\ SyncInv /\ [SyncNext]_syncVars => (SyncTypeOK /\ SyncInv)'
<1> SUFFICES ASSUME SyncTypeOK, SyncInv, [SyncNext]_syncVars
             PROVE  SyncTypeOK' /\ SyncInv'
  OBVIOUS
<1>1. CASE JobChange \/ ChangeTenant \/ Publish \/ LosePublish
  BY <1>1, StepJobChange, StepChangeTenant, StepPublish, StepLosePublish
<1>2. ASSUME NEW n \in Admins, ChangePools(n) PROVE SyncTypeOK' /\ SyncInv'
  BY <1>2, StepChangePools
<1>3. ASSUME NEW n \in Nodes, Work(n) \/ Disconnect(n) \/ Unsubscribe(n)
      PROVE  SyncTypeOK' /\ SyncInv'
  BY <1>3, StepListen, StepReceive, StepDebounce, StepFire, StepSubscribe, StepRenew,
     StepReloadSync, StepDisconnect, StepUnsubscribe DEF Work
<1>4. ASSUME NEW n \in Nodes, NEW x \in Loaders, Load(n, x) \/ FailLoad(n, x)
      PROVE  SyncTypeOK' /\ SyncInv'
  BY <1>4, StepCachePools, StepStorePools, StepLoadTenants, StepFailLoad DEF Load
<1>5. CASE UNCHANGED syncVars
  <2>1. UNCHANGED <<dbVars, notifyVars, redisVars, loadVars, tableVars, missed>>
    BY <1>5 DEF syncVars
  <2>2. SyncTypeOK'
    BY <2>1 DEF SyncTypeOK, Placed, notifyVars, redisVars, loadVars, tableVars
  <2>3. \A j \in Nodes : Unmoved(j)
    BY <2>1 DEF Unmoved, notifyVars, redisVars, loadVars, tableVars
  <2>4. UNCHANGED <<pools, tenants, wired, publishing, overlapped, missed>>
    BY <2>1 DEF dbVars, redisVars, loadVars
  <2>5. \A j \in Followed' : NodeInv(j)'
    BY <2>3, <2>4, ElsewhereKept, FollowedStays DEF SyncInv
  <2> QED BY <2>2, <2>5 DEF SyncInv
<1> QED BY <1>1, <1>2, <1>3, <1>4, <1>5 DEF SyncNext

\* A quiet node has nothing to come.
LEMMA QuietHasNoNews ==
    ASSUME NEW n, Quiet(n) PROVE ~ TenantNews(n) /\ ~ PoolNews(n)
<1>1. \A x \in Loaders : place[n][x] = "idle"
  BY DEF Quiet
<1>2. /\ place[n]["admin"] = "idle" /\ place[n]["debouncer"] = "idle"
      /\ place[n]["subscriber"] = "idle"
  BY <1>1 DEF Loaders
<1>3. \A kind : ~ Queued(n, kind)
  BY DEF Quiet, Queued
<1>4. ~ (publishing > 0) /\ ~ (renews[n] > 0)
  BY DEF Quiet
<1>5. ~ PoolNews(n)
  BY <1>2, <1>3, <1>4 DEF PoolNews
<1> QED BY <1>1, <1>3, <1>5 DEF TenantNews

LEMMA QuietNodes ==
    ASSUME SyncInv, NEW n \in Followed, Quiet(n)
    PROVE  /\ table[n] = pools /\ n \in joined
           /\ \A m \in Patterns : pools[m] # 0 => cached[n][m] = pools[m]
           /\ \A t \in Tenants : tenants[t] # 0 => admitted[n][t] = tenants[t]
<1>1. PoolsLast(n) /\ TenantsLast(n)
  BY QuietHasNoNews DEF SyncInv, NodeInv
<1>2. \A x \in Loaders : place[n][x] = "idle"
  BY DEF Quiet
<1> QED BY <1>1, <1>2 DEF PoolsLast, TenantsLast

THEOREM SyncTypes == SyncSpec => [](SyncTypeOK /\ SyncInv)
<1> QED BY SyncInitial, SyncStep, PTL DEF SyncSpec

(* A quiet node that lost no news routes and admits as PostgreSQL says,    *)
(* for any nodes, admins, buffers and rows, whatever loads interleave if   *)
(* it has Redis, and if it has none when its last load ran alone.          *)
THEOREM TablesConverge == SyncSpec => []ConvergedWhenQuiet
<1>1. SyncInv => ConvergedWhenQuiet
  BY QuietNodes DEF ConvergedWhenQuiet
<1> QED BY <1>1, SyncTypes, PTL

(* And requests get from L1 the pool objects the broadcaster cools.        *)
THEOREM PoolsAreOneObject == SyncSpec => []OnePoolObject
<1>1. SyncInv => OnePoolObject
  BY QuietNodes DEF OnePoolObject
<1> QED BY <1>1, SyncTypes, PTL
=============================================================================
