--------------------------- MODULE Admission_proofs ---------------------------
(***************************************************************************)
(* Proofs about Admission, for any requests, nodes, callers, limit and     *)
(* length of the window, and any number of calls of Redis that fail.       *)
(***************************************************************************)
EXTENDS Admission, FiniteSetTheorems, TLAPS

Steps == {"refused", "admitted", "asking", "counting", "allowed", "denied"}

Asked == [node : Nodes, at : Nat, read : Nat, by : {"none", "redis", "local"}, step : Steps]

AdmissionTypeOK ==
    /\ now \in Nat
    /\ req \in [Requests -> Asked \cup {[step |-> "new"]}]
    /\ local \in [Nodes -> [minute : Nat, count : Nat]]
    /\ setBack \in SUBSET Requests

LEMMA MinuteType == ASSUME NEW t \in Nat PROVE Minute(t) \in Nat
BY AdmissionAssumption DEF Minute

\* Those a node let in during a minute, and those that set its counter back.
LetIn(n, m) ==
    { r \in Requests : Admitted(r, "local") /\ req[r].node = n /\ Minute(req[r].read) = m }

SetBack(n) == { r \in setBack : req[r].node = n }

\* How many the counter shows of a minute: its count of its own, and at most
\* the limit of an earlier one.  Of a later one it knows nothing.
Shown(n, m) ==
    IF m = local[n].minute THEN local[n].count
    ELSE IF m < local[n].minute THEN Limit ELSE 0

\* Each time the counter is set back it forgets a minute's worth of requests.
Tally ==
    /\ \A n \in Nodes : local[n].count <= Limit
    /\ \A r \in setBack : Admitted(r, "local")
    /\ \A n \in Nodes : \A m \in Nat :
           Cardinality(LetIn(n, m)) <= Limit * Cardinality(SetBack(n)) + Shown(n, m)

LEMMA CountsFinite ==
    ASSUME AdmissionTypeOK, NEW n, NEW m
    PROVE  /\ IsFiniteSet(LetIn(n, m)) /\ Cardinality(LetIn(n, m)) \in Nat
           /\ IsFiniteSet(SetBack(n)) /\ Cardinality(SetBack(n)) \in Nat
<1>1. LetIn(n, m) \subseteq Requests /\ SetBack(n) \subseteq Requests
  BY DEF LetIn, SetBack, AdmissionTypeOK
<1>2. IsFiniteSet(LetIn(n, m)) /\ IsFiniteSet(SetBack(n))
  BY <1>1, FS_Subset, AdmissionAssumption
<1> QED BY <1>2, FS_CardinalityType

LEMMA AdmissionInit == Init => AdmissionTypeOK /\ Tally
<1> SUFFICES ASSUME Init PROVE AdmissionTypeOK /\ Tally
  OBVIOUS
<1>1. AdmissionTypeOK
  BY DEF Init, AdmissionTypeOK
<1>2. \A n, m : LetIn(n, m) = {} /\ SetBack(n) = {}
  BY DEF Init, LetIn, SetBack, Admitted, On
<1>3. \A n \in Nodes : local[n].minute = 0 /\ local[n].count = 0
  BY DEF Init
<1>4. Cardinality({}) = 0 /\ Limit \in Nat
  BY FS_EmptySet, AdmissionAssumption
<1>5. \A n \in Nodes : \A m \in Nat : 0 <= Limit * 0 + Shown(n, m)
  BY <1>3, <1>4 DEF Shown
<1>6. setBack = {}
  BY DEF Init
<1>7. \A n \in Nodes : \A m \in Nat :
          Cardinality(LetIn(n, m)) <= Limit * Cardinality(SetBack(n)) + Shown(n, m)
  BY <1>2, <1>4, <1>5
<1>8. \A n \in Nodes : local[n].count <= Limit
  BY <1>3, <1>4
<1> QED BY <1>1, <1>6, <1>7, <1>8 DEF Tally

\* A step that lets no one in by a counter.
LEMMA TallyKept ==
    ASSUME Tally, UNCHANGED <<local, setBack>>,
           \A r \in Requests :
               req'[r] = req[r] \/ (~Admitted(r, "local") /\ ~Admitted(r, "local")'),
           setBack \subseteq Requests
    PROVE  Tally'
<1>1. \A r \in Requests : Admitted(r, "local")' <=> Admitted(r, "local")
  BY DEF Admitted, On
<1>2. \A r \in Requests : Admitted(r, "local") => req'[r] = req[r]
  OBVIOUS
<1>3. \A n, m : LetIn(n, m)' = LetIn(n, m)
  BY <1>1, <1>2 DEF LetIn
<1>4. \A n : SetBack(n)' = SetBack(n)
  BY <1>2 DEF SetBack, Tally
<1>5. \A n, m : Shown(n, m)' = Shown(n, m)
  BY DEF Shown
<1> QED BY <1>1, <1>3, <1>4, <1>5 DEF Tally

LEMMA TypesKept ==
    ASSUME AdmissionTypeOK, [Next]_vars
    PROVE  AdmissionTypeOK'
<1>1. CASE UNCHANGED vars
  BY <1>1 DEF vars, AdmissionTypeOK
<1>2. CASE Tick
  BY <1>2 DEF Tick, AdmissionTypeOK, history
<1>3. ASSUME NEW r \in Requests, NEW n \in Nodes, NEW who \in Callers, Arrive(r, n, who)
      PROVE  AdmissionTypeOK'
  <2> DEFINE step == IF who \in {"stranger", "suspended"} THEN "refused"
                     ELSE IF who \in {"admin", "free"} THEN "admitted"
                     ELSE IF redis THEN "asking" ELSE "counting"
             it == [node |-> n, at |-> now, read |-> now, by |-> "none", step |-> step]
  <2>1. it \in Asked
    BY DEF Asked, Steps, AdmissionTypeOK
  <2>2. req' = [req EXCEPT ![r] = it]
    BY <1>3 DEF Arrive
  <2> HIDE DEF it
  <2> QED BY <1>3, <2>1, <2>2 DEF Arrive, AdmissionTypeOK, history
<1>4. ASSUME NEW r \in Requests, Script(r) PROVE AdmissionTypeOK'
  <2>1. \/ req' = req
        \/ On(r, "asking") /\ \E s \in Steps : req' = [req EXCEPT ![r].step = s]
    BY <1>4 DEF Script, Steps
  <2>2. req' \in [Requests -> Asked \cup {[step |-> "new"]}]
    BY <2>1 DEF AdmissionTypeOK, Asked, On
  <2> QED BY <1>4, <2>2 DEF Script, AdmissionTypeOK, history
<1>5. ASSUME NEW r \in Requests, Reply(r) PROVE AdmissionTypeOK'
  <2>1. req[r] \in Asked
    BY <1>5 DEF Reply, AdmissionTypeOK, On
  <2>2. \/ req' = [req EXCEPT ![r].step = "admitted", ![r].by = "redis"]
        \/ req' = [req EXCEPT ![r].step = "refused"]
    BY <1>5 DEF Reply
  <2>3. req' \in [Requests -> Asked \cup {[step |-> "new"]}]
    BY <2>1, <2>2 DEF AdmissionTypeOK, Asked, Steps
  <2> QED BY <1>5, <2>3 DEF Reply, AdmissionTypeOK, history
<1>6. ASSUME NEW r \in Requests, NoReply(r) PROVE AdmissionTypeOK'
  <2>1. req[r] \in Asked /\ now \in Nat
    BY <1>6 DEF NoReply, AdmissionTypeOK, On
  <2>2. req' = [req EXCEPT ![r].step = "counting", ![r].read = now]
    BY <1>6 DEF NoReply
  <2>3. req' \in [Requests -> Asked \cup {[step |-> "new"]}]
    BY <2>1, <2>2 DEF AdmissionTypeOK, Asked, Steps
  <2> QED BY <1>6, <2>3 DEF NoReply, AdmissionTypeOK, history
<1>7. ASSUME NEW r \in Requests, Count(r) PROVE AdmissionTypeOK'
  <2>0. req[r] \in Asked
    BY <1>7 DEF Count, AdmissionTypeOK, On
  <2>1. req' \in [Requests -> Asked \cup {[step |-> "new"]}]
    BY <1>7, <2>0 DEF Count, AdmissionTypeOK, Asked, Steps
  <2>2. Minute(req[r].read) \in Nat /\ req[r].node \in Nodes
    BY <2>0, MinuteType DEF Asked
  <2>3. local' \in [Nodes -> [minute : Nat, count : Nat]]
    BY <1>7, <2>2 DEF Count, AdmissionTypeOK, history
  <2> QED BY <1>7, <2>1, <2>3 DEF Count, AdmissionTypeOK, history
<1> QED BY <1>1, <1>2, <1>3, <1>4, <1>5, <1>6, <1>7 DEF Next

\* A request the counter lets in.
LEMMA TallyCount ==
    ASSUME AdmissionTypeOK, Tally, AdmissionTypeOK', NEW r \in Requests, Count(r),
           NEW n, NEW m, n = req[r].node, m = Minute(req[r].read)
    PROVE  Tally'
<1> DEFINE same == local[n].minute = m
<1>0. req[r] \in Asked /\ On(r, "counting") /\ ~Admitted(r, "local")
  BY DEF Count, AdmissionTypeOK, On, Admitted
<1>1. n \in Nodes /\ m \in Nat
  BY <1>0, MinuteType DEF Asked
<1>2. CASE same /\ Full(local[n])
  <2>1. /\ UNCHANGED <<local, setBack>>
        /\ req' = [req EXCEPT ![r].step = "refused"]
    BY <1>2 DEF Count
  <2>2. ~Admitted(r, "local")'
    BY <1>0, <2>1 DEF AdmissionTypeOK, Asked, Admitted, On
  <2>3. \A q \in Requests \ {r} : req'[q] = req[q]
    BY <2>1 DEF AdmissionTypeOK
  <2> QED BY <1>0, <2>1, <2>2, <2>3, TallyKept DEF AdmissionTypeOK
<1>3. CASE ~(same /\ Full(local[n]))
  <2> DEFINE count == IF same THEN local[n].count + 1 ELSE 1
             back == m < local[n].minute
  <2>1. /\ req' = [req EXCEPT ![r].step = "admitted", ![r].by = "local"]
        /\ local' = [local EXCEPT ![n] = [minute |-> m, count |-> count]]
        /\ setBack' = IF back THEN setBack \cup {r} ELSE setBack
    BY <1>1, <1>3 DEF Count, AdmissionTypeOK, history
  <2>2. /\ Admitted(r, "local")' /\ req'[r].node = n /\ req'[r].read = req[r].read
        /\ \A q \in Requests \ {r} : req'[q] = req[q]
    BY <1>0, <2>1 DEF AdmissionTypeOK, Asked, Admitted, On
  <2>3. /\ LetIn(n, m)' = LetIn(n, m) \cup {r} /\ r \notin LetIn(n, m)
        /\ \A o, k : o # n \/ k # m => LetIn(o, k)' = LetIn(o, k)
    BY <1>0, <2>2 DEF LetIn, Admitted, On
  <2>4. /\ SetBack(n)' = (IF back THEN SetBack(n) \cup {r} ELSE SetBack(n))
        /\ r \notin SetBack(n)
        /\ \A o : o # n => SetBack(o)' = SetBack(o)
    <3>1. r \notin setBack /\ setBack \subseteq Requests
      BY <1>0 DEF Tally, AdmissionTypeOK
    <3>2. \A q \in setBack : req'[q] = req[q]
      BY <2>2, <3>1
    <3> QED BY <2>1, <2>2, <3>1, <3>2 DEF SetBack
  <2>5. /\ local'[n].minute = m /\ local'[n].count = count
        /\ \A o \in Nodes \ {n} : local'[o] = local[o]
        /\ local[n].minute \in Nat /\ local[n].count \in Nat /\ local[n].count <= Limit
    BY <1>1, <2>1 DEF AdmissionTypeOK, Tally
  <2>6. count \in 1..Limit /\ Limit \in Nat /\ Limit > 0
    BY <1>3, <2>5, AdmissionAssumption DEF Full
  <2>7. \A q \in setBack' : Admitted(q, "local")'
    <3>1. \A q \in setBack : q \in Requests \ {r} /\ Admitted(q, "local")
      BY <1>0 DEF Tally, AdmissionTypeOK
    <3> QED BY <2>1, <2>2, <3>1 DEF Admitted, On
  <2>8. ASSUME NEW o \in Nodes, NEW k \in Nat
        PROVE  Cardinality(LetIn(o, k)') <= Limit * Cardinality(SetBack(o)') + Shown(o, k)'
    <3> DEFINE a == Cardinality(LetIn(o, k))
               b == Cardinality(SetBack(o))
    <3>1. a \in Nat /\ b \in Nat /\ a <= Limit * b + Shown(o, k)
      BY CountsFinite DEF Tally
    <3>2. CASE o # n
      <4>1. Shown(o, k)' = Shown(o, k)
        BY <2>5, <3>2 DEF Shown
      <4> QED BY <2>3, <2>4, <3>1, <3>2, <4>1
    <3>3. CASE o = n
      <4>1. Cardinality(LetIn(o, k)') = IF k = m THEN a + 1 ELSE a
        <5>1. CASE k = m
          <6>1. LetIn(o, k)' = LetIn(o, k) \cup {r} /\ r \notin LetIn(o, k)
            BY <2>3, <3>3, <5>1
          <6>2. IsFiniteSet(LetIn(o, k))
            BY CountsFinite
          <6>3. Cardinality(LetIn(o, k) \cup {r}) = a + 1
            BY <6>1, <6>2, FS_AddElement
          <6> QED BY <5>1, <6>1, <6>3
        <5>2. CASE k # m
          BY <2>3, <3>3, <5>2
        <5> QED BY <5>1, <5>2
      <4>2. Cardinality(SetBack(o)') = IF back THEN b + 1 ELSE b
        <5>1. CASE back
          <6>1. SetBack(o)' = SetBack(o) \cup {r} /\ r \notin SetBack(o)
            BY <2>4, <3>3, <5>1
          <6>2. IsFiniteSet(SetBack(o))
            BY CountsFinite
          <6>3. Cardinality(SetBack(o) \cup {r}) = b + 1
            BY <6>1, <6>2, FS_AddElement
          <6> QED BY <5>1, <6>1, <6>3
        <5>2. CASE ~back
          BY <2>4, <3>3, <5>2
        <5> QED BY <5>1, <5>2
      <4>3. Limit * (b + 1) = Limit * b + Limit /\ Limit * b \in Nat
        BY <2>6, <3>1
      <4> DEFINE lb == Limit * b
                 lb1 == Limit * (b + 1)
      <4>4. Shown(o, k)' = IF k = m THEN count ELSE IF k < m THEN Limit ELSE 0
        BY <2>5, <3>3 DEF Shown
      <4>5. Shown(o, k) = IF k = local[n].minute THEN local[n].count
                          ELSE IF k < local[n].minute THEN Limit ELSE 0
        BY <3>3 DEF Shown
      <4>6. /\ lb \in Nat /\ lb1 = lb + Limit /\ a <= lb + Shown(o, k)
            /\ Limit * Cardinality(SetBack(o)') = IF back THEN lb1 ELSE lb
        BY <3>1, <4>2, <4>3
      <4> HIDE DEF a, b, lb, lb1
      <4> QED BY <1>1, <2>5, <2>6, <3>1, <4>1, <4>4, <4>5, <4>6
    <3> QED BY <3>2, <3>3
  <2>9. \A o \in Nodes : local'[o].count <= Limit
    BY <2>5, <2>6 DEF Tally
  <2> QED BY <2>7, <2>8, <2>9 DEF Tally
<1> QED BY <1>2, <1>3

LEMMA TallyStep == AdmissionTypeOK /\ Tally /\ [Next]_vars => Tally'
<1> SUFFICES ASSUME AdmissionTypeOK, Tally, [Next]_vars PROVE Tally'
  OBVIOUS
<1>0. AdmissionTypeOK' /\ setBack \subseteq Requests
  BY TypesKept DEF AdmissionTypeOK
<1>1. CASE UNCHANGED vars \/ Tick
  <2>1. UNCHANGED <<req, local, setBack>>
    BY <1>1 DEF vars, Tick, history
  <2> QED BY <1>0, <2>1, TallyKept
<1>2. ASSUME NEW r \in Requests, NEW n \in Nodes, NEW who \in Callers, Arrive(r, n, who)
      PROVE  Tally'
  <2>1. /\ UNCHANGED <<local, setBack>> /\ On(r, "new")
        /\ req'[r].by = "none" /\ \A q \in Requests \ {r} : req'[q] = req[q]
    BY <1>2 DEF Arrive, AdmissionTypeOK, history
  <2> QED BY <1>0, <2>1, TallyKept DEF Admitted, On
<1>3. ASSUME NEW r \in Requests, Script(r) \/ Reply(r) \/ NoReply(r) PROVE Tally'
  <2>1. UNCHANGED <<local, setBack>>
    BY <1>3 DEF Script, Reply, NoReply, history
  <2>2. \A q \in Requests \ {r} : req'[q] = req[q]
    BY <1>3 DEF Script, Reply, NoReply, AdmissionTypeOK
  <2>3. \/ req'[r] = req[r]
        \/ ~On(r, "admitted") /\ (~On(r, "admitted")' \/ req'[r].by = "redis")
    BY <1>3 DEF Script, Reply, NoReply, AdmissionTypeOK, Asked, On
  <2> QED BY <1>0, <2>1, <2>2, <2>3, TallyKept DEF Admitted, On
<1>4. ASSUME NEW r \in Requests, Count(r) PROVE Tally'
  BY <1>0, <1>4, TallyCount
<1> QED BY <1>1, <1>2, <1>3, <1>4 DEF Next

LEMMA TallyKeepsMinute == AdmissionTypeOK /\ Tally => MinuteKept
<1> SUFFICES ASSUME AdmissionTypeOK, Tally, NEW n \in Nodes, NEW m \in 0..Minute(MaxTime)
             PROVE  Cardinality(LetIn(n, m)) <= Limit * (1 + Cardinality(SetBack(n)))
  BY DEF MinuteKept, LetIn, SetBack
<1> DEFINE a == Cardinality(LetIn(n, m))
           b == Cardinality(SetBack(n))
<1>1. m \in Nat
  BY MinuteType, AdmissionAssumption
<1>2. a \in Nat /\ b \in Nat /\ a <= Limit * b + Shown(n, m)
  BY <1>1, CountsFinite DEF Tally
<1>3. Shown(n, m) <= Limit /\ Shown(n, m) \in Nat /\ Limit \in Nat
  BY AdmissionAssumption DEF Shown, Tally, AdmissionTypeOK
<1>4. Limit * (1 + b) = Limit * b + Limit /\ Limit * b \in Nat
  BY <1>2, <1>3
<1> QED BY <1>2, <1>3, <1>4

(* However requests, clocks and failures of Redis interleave, a minute of  *)
(* a node has no more requests than the limit, and as many again for each  *)
(* that set the counter back.                                              *)
THEOREM MinuteIsKept == Spec => []MinuteKept
<1>1. Init => AdmissionTypeOK /\ Tally
  BY AdmissionInit
<1>2. AdmissionTypeOK /\ Tally /\ [Next]_vars => (AdmissionTypeOK /\ Tally)'
  BY TypesKept, TallyStep
<1> QED BY <1>1, <1>2, TallyKeepsMinute, PTL DEF Spec

-----------------------------------------------------------------------------
(* The window in Redis.  Scripts that come in the order of their clocks    *)
(* find in the set all that was let in during the window they look at; one *)
(* that comes late may miss what a later one has removed, and is counted.  *)

Granted(r) == On(r, "allowed") \/ Admitted(r, "redis")

\* Those Redis has let in, during the window that ends at t.
InWindow(t) == { q \in Requests : Granted(q) /\ req[q].at <= t /\ req[q].at + Window > t }

\* The set still has everyone let in during the window of the latest script.
WindowInv ==
    /\ sent \subseteq Requests /\ late \subseteq Requests /\ zset \subseteq Requests
    /\ latest \in Nat
    /\ sent \cap late = {} /\ \A r \in sent \cup late : ~On(r, "new")
    /\ \A r \in Requests : Granted(r) =>
          req[r].at <= latest /\ (req[r].at + Window > latest => r \in zset)
    /\ \A t \in Nat : Cardinality(InWindow(t)) <= Limit + Cardinality(late)


LEMMA WindowSets ==
    ASSUME WindowInv, NEW t
    PROVE  /\ IsFiniteSet(InWindow(t)) /\ Cardinality(InWindow(t)) \in Nat
           /\ IsFiniteSet(late) /\ Cardinality(late) \in Nat /\ IsFiniteSet(zset)
           /\ Limit \in Nat /\ Window \in Nat
<1>1. InWindow(t) \subseteq Requests /\ late \subseteq Requests /\ zset \subseteq Requests
  BY DEF InWindow, WindowInv
<1>2. IsFiniteSet(InWindow(t)) /\ IsFiniteSet(late) /\ IsFiniteSet(zset)
  BY <1>1, FS_Subset, AdmissionAssumption
<1> QED BY <1>2, FS_CardinalityType, AdmissionAssumption

\* A step in which no script runs.
LEMMA WindowOn ==
    ASSUME WindowInv, UNCHANGED <<zset, latest, late>>, sent' \subseteq Requests,
           \A r \in Requests : Granted(r)' => Granted(r) /\ req'[r].at = req[r].at,
           \A r \in sent' : ~On(r, "new")' /\ (r \in sent \/ On(r, "new")),
           \A r \in late : ~On(r, "new")'
    PROVE  WindowInv'
<1>1. ASSUME NEW t \in Nat
      PROVE  Cardinality(InWindow(t)') <= Limit + Cardinality(late')
  <2>1. InWindow(t)' \in SUBSET InWindow(t)
    BY DEF InWindow
  <2>2. IsFiniteSet(InWindow(t)') /\ Cardinality(InWindow(t)') <= Cardinality(InWindow(t))
    BY <2>1, WindowSets, FS_Subset
  <2>3. Cardinality(InWindow(t)') \in Nat
    BY <2>2, FS_CardinalityType
  <2>4. Cardinality(InWindow(t)) <= Limit + Cardinality(late) /\ late' = late
    BY DEF WindowInv
  <2> QED BY <2>2, <2>3, <2>4, WindowSets
<1>2. sent' \cap late' = {} /\ \A r \in sent' \cup late' : ~On(r, "new")'
  BY DEF WindowInv
<1>3. \A r \in Requests : Granted(r)' =>
          req'[r].at <= latest' /\ (req'[r].at + Window > latest' => r \in zset')
  BY DEF WindowInv
<1>4. /\ late' \subseteq Requests /\ zset' \subseteq Requests /\ latest' \in Nat
  BY DEF WindowInv
<1> QED BY <1>1, <1>2, <1>3, <1>4 DEF WindowInv

\* The script, in order or late.
LEMMA WindowScript ==
    ASSUME AdmissionTypeOK, WindowInv, NEW r \in Requests, Script(r)
    PROVE  WindowInv'
<1> DEFINE a == req[r].at
           seen == Counted(a)
<1>1. /\ r \in sent /\ sent' = sent \ {r} /\ r \notin late /\ req[r] \in Asked
      /\ a \in Nat /\ latest \in Nat /\ Window \in Nat /\ Limit \in Nat
  <2>1. r \in sent /\ sent' = sent \ {r} /\ ~On(r, "new")
    BY DEF Script, WindowInv
  <2>2. req[r] \in Asked
    BY <2>1 DEF AdmissionTypeOK, On
  <2> QED BY <2>1, <2>2, AdmissionAssumption DEF WindowInv, Asked
<1>2. /\ seen \subseteq zset
      /\ zset' = seen \cup (IF Cardinality(seen) < Limit THEN {r} ELSE {})
      /\ late' = IF a < latest THEN late \cup {r} ELSE late
      /\ latest' = IF a < latest THEN latest ELSE a
  BY DEF Script, Counted
<1>3. /\ \A q \in Requests \ {r} : req'[q] = req[q]
      /\ req'[r].at = a /\ ~On(r, "new")'
      /\ Granted(r)' => Granted(r) \/ Cardinality(seen) < Limit
  <2>1. \/ req' = req
        \/ On(r, "asking") /\ Cardinality(seen) < Limit /\ req' = [req EXCEPT ![r].step = "allowed"]
        \/ On(r, "asking") /\ req' = [req EXCEPT ![r].step = "denied"]
    BY DEF Script
  <2>2. CASE req' = req
    BY <1>1, <2>2 DEF WindowInv, Granted, Admitted, On
  <2>3. CASE On(r, "asking") /\ Cardinality(seen) < Limit /\ req' = [req EXCEPT ![r].step = "allowed"]
    BY <1>1, <2>3 DEF AdmissionTypeOK, Asked, On
  <2>4. CASE On(r, "asking") /\ req' = [req EXCEPT ![r].step = "denied"]
    BY <1>1, <2>4 DEF AdmissionTypeOK, Asked, Granted, Admitted, On
  <2> QED BY <2>1, <2>2, <2>3, <2>4
<1>4. \A q \in Requests \ {r} : Granted(q)' <=> Granted(q)
  BY <1>3 DEF Granted, Admitted, On
<1>5. \A q \in Requests : Granted(q) => req[q] \in Asked /\ req[q].at \in Nat
  BY DEF Granted, Admitted, On, AdmissionTypeOK, Asked
<1> HIDE DEF a
<1>6. \A q : q \in seen <=> q \in zset /\ req[q].at + Window > a
  BY DEF Counted
<1>7. Cardinality(seen) \in Nat /\ IsFiniteSet(seen)
  BY <1>2, WindowSets, FS_Subset, FS_CardinalityType
<1>8. \A q \in Requests : Granted(q)' =>
          req'[q].at <= latest' /\ (req'[q].at + Window > latest' => q \in zset')
  <2> SUFFICES ASSUME NEW q \in Requests, Granted(q)'
               PROVE  req'[q].at <= latest' /\ (req'[q].at + Window > latest' => q \in zset')
    OBVIOUS
  <2>1. CASE Granted(q) /\ req'[q].at = req[q].at
    <3>1. req[q].at <= latest /\ (req[q].at + Window > latest => q \in zset) /\ req[q].at \in Nat
      BY <1>5, <2>1 DEF WindowInv
    <3> QED BY <1>1, <1>2, <1>6, <2>1, <3>1
  <2>2. CASE q = r /\ Cardinality(seen) < Limit
    BY <1>1, <1>2, <1>3, <2>2
  <2> QED BY <1>3, <1>4, <2>1, <2>2 DEF a
<1>9. ASSUME NEW t \in Nat
      PROVE  Cardinality(InWindow(t)') <= Limit + Cardinality(late')
  <2> DEFINE W == InWindow(t)
  <2>1. /\ W \in SUBSET Requests /\ InWindow(t)' \in SUBSET (W \cup {r})
        /\ r \in InWindow(t)' => r \in W \/ (Cardinality(seen) < Limit /\ a <= t)
    <3>1. InWindow(t)' \subseteq W \cup {r}
      BY <1>3, <1>4 DEF InWindow
    <3>2. r \in InWindow(t)' => r \in W \/ (Cardinality(seen) < Limit /\ a <= t)
      BY <1>3 DEF InWindow, a
    <3> QED BY <3>1, <3>2 DEF InWindow
  <2>2. /\ IsFiniteSet(W) /\ Cardinality(W) \in Nat /\ Cardinality(W) <= Limit + Cardinality(late)
        /\ Cardinality(late) \in Nat /\ IsFiniteSet(late)
    BY WindowSets DEF WindowInv
  <2> DEFINE W2 == InWindow(t)'
  <2>3. CASE r \notin W2 \/ r \in W
    <3>1. W2 \in SUBSET W
      BY <2>1, <2>3
    <3>2. Cardinality(late) <= Cardinality(late')
      <4>1. IsFiniteSet(late \cup {r}) /\ Cardinality(late \cup {r}) = Cardinality(late) + 1
        BY <1>1, <2>2, FS_AddElement
      <4> QED BY <1>2, <2>2, <4>1
    <3>3. Cardinality(late') \in Nat
      <4>1. IsFiniteSet(late \cup {r})
        BY <2>2, FS_AddElement
      <4> QED BY <1>2, <2>2, <4>1, FS_CardinalityType
    <3> HIDE DEF W, W2
    <3>4. IsFiniteSet(W2) /\ Cardinality(W2) <= Cardinality(W)
      BY <2>2, <3>1, FS_Subset
    <3>5. Cardinality(W2) \in Nat
      BY <3>4, FS_CardinalityType
    <3>6. Cardinality(W2) <= Limit + Cardinality(late')
      BY <1>1, <2>2, <3>2, <3>3, <3>4, <3>5
    <3> QED BY <3>6 DEF W2
  <2>4. CASE r \in W2 /\ r \notin W
    <3>1. Cardinality(seen) < Limit /\ a <= t /\ W2 \in SUBSET (W \cup {r})
      BY <2>1, <2>4
    <3> HIDE DEF W2
    <3>2. /\ IsFiniteSet(W \cup {r}) /\ Cardinality(W \cup {r}) = Cardinality(W) + 1
      <4> HIDE DEF W
      <4> QED BY <2>2, <2>4, FS_AddElement
    <3>3. IsFiniteSet(W2) /\ Cardinality(W2) <= Cardinality(W) + 1
      <4> HIDE DEF W
      <4> QED BY <3>1, <3>2, FS_Subset
    <3>4. Cardinality(W2) \in Nat
      BY <3>3, FS_CardinalityType
    <3>5. CASE a < latest
      <4>1. late' = late \cup {r} /\ Cardinality(late \cup {r}) = Cardinality(late) + 1
        BY <1>1, <1>2, <2>2, <3>5, FS_AddElement
      <4> HIDE DEF W
      <4>2. Cardinality(W2) <= Limit + Cardinality(late')
        BY <1>1, <2>2, <3>3, <3>4, <4>1
      <4> QED BY <4>2 DEF W2
    <3>6. CASE latest <= a
      <4>1. W \in SUBSET seen
        <5> SUFFICES ASSUME NEW q \in W PROVE q \in seen
          OBVIOUS
        <5>1. q \in Requests /\ Granted(q) /\ req[q].at + Window > t
          BY DEF InWindow
        <5>2. req[q].at \in Nat /\ (req[q].at + Window > latest => q \in zset)
          BY <1>5, <5>1 DEF WindowInv
        <5> QED BY <1>1, <1>6, <3>1, <3>6, <5>1, <5>2
      <4>2. Cardinality(W) <= Cardinality(seen)
        <5> HIDE DEF W, seen
        <5> QED BY <1>7, <4>1, FS_Subset
      <4>3. late' = late
        BY <1>1, <1>2, <3>6
      <4> HIDE DEF W, seen
      <4>4. Cardinality(W2) <= Limit + Cardinality(late')
        BY <1>1, <1>7, <2>2, <3>1, <3>3, <3>4, <4>2, <4>3
      <4> QED BY <4>4 DEF W2
    <3> QED BY <1>1, <3>5, <3>6
  <2> QED BY <2>3, <2>4
<1>10. /\ sent' \subseteq Requests /\ late' \subseteq Requests /\ zset' \subseteq Requests
       /\ latest' \in Nat /\ sent' \cap late' = {}
  BY <1>1, <1>2 DEF WindowInv
<1>11. \A q \in sent' \cup late' : ~On(q, "new")'
  BY <1>1, <1>2, <1>3 DEF WindowInv, On
<1> QED BY <1>8, <1>9, <1>10, <1>11 DEF WindowInv


LEMMA WindowStep == AdmissionTypeOK /\ WindowInv /\ [Next]_vars => WindowInv'
<1> SUFFICES ASSUME AdmissionTypeOK, WindowInv, [Next]_vars PROVE WindowInv'
  OBVIOUS
<1>0. /\ sent \subseteq Requests /\ late \subseteq Requests
      /\ \A q \in sent \cup late : ~On(q, "new")
  BY DEF WindowInv
<1>1. CASE UNCHANGED vars \/ Tick
  <2>1. UNCHANGED <<req, zset, latest, late, sent>>
    BY <1>1 DEF vars, Tick, history
  <2> QED BY <1>0, <2>1, WindowOn DEF Granted, Admitted, On
<1>2. ASSUME NEW r \in Requests, NEW n \in Nodes, NEW who \in Callers, Arrive(r, n, who)
      PROVE  WindowInv'
  <2>1. /\ UNCHANGED <<zset, latest, late>> /\ On(r, "new")
        /\ sent' = sent \/ sent' = sent \cup {r}
        /\ req'[r].by = "none" /\ req'[r].step \notin {"new", "allowed"}
        /\ \A q \in Requests \ {r} : req'[q] = req[q]
    BY <1>2 DEF Arrive, AdmissionTypeOK, history
  <2>2. \A q \in Requests : Granted(q)' => Granted(q) /\ req'[q].at = req[q].at
    BY <2>1 DEF Granted, Admitted, On
  <2>3. \A q \in sent' : ~On(q, "new")' /\ (q \in sent \/ On(q, "new"))
    BY <1>0, <2>1 DEF On
  <2>4. \A q \in late : ~On(q, "new")'
    BY <1>0, <2>1 DEF On
  <2>5. sent' \subseteq Requests
    BY <1>0, <2>1
  <2> QED BY <2>1, <2>2, <2>3, <2>4, <2>5, WindowOn
<1>3. ASSUME NEW r \in Requests, Reply(r) \/ NoReply(r) \/ Count(r) PROVE WindowInv'
  <2>1. /\ UNCHANGED <<zset, latest, late>> /\ sent' \subseteq sent /\ ~On(r, "new")
    BY <1>3 DEF Reply, NoReply, Count, history, On
  <2>2. req[r] \in Asked
    BY <2>1 DEF AdmissionTypeOK, On
  <2>3. \A q \in Requests \ {r} : req'[q] = req[q]
    BY <1>3 DEF Reply, NoReply, Count, AdmissionTypeOK
  <2>4. ~On(r, "new")' /\ req'[r].at = req[r].at
    BY <1>3, <2>2 DEF Reply, NoReply, Count, AdmissionTypeOK, Asked, On
  <2>5. Granted(r)' => Granted(r)
    <3>1. CASE Reply(r)
      BY <2>2, <3>1 DEF Reply, AdmissionTypeOK, Asked, Granted, Admitted, On
    <3>2. CASE NoReply(r)
      BY <2>2, <3>2 DEF NoReply, AdmissionTypeOK, Asked, Granted, Admitted, On
    <3>3. CASE Count(r)
      BY <2>2, <3>3 DEF Count, AdmissionTypeOK, Asked, Granted, Admitted, On
    <3> QED BY <1>3, <3>1, <3>2, <3>3
  <2>6. \A q \in Requests : Granted(q)' => Granted(q) /\ req'[q].at = req[q].at
    BY <2>3, <2>4, <2>5 DEF Granted, Admitted, On
  <2>7. \A q \in sent' \cup late : ~On(q, "new")'
    BY <1>0, <2>1, <2>3, <2>4 DEF On
  <2>8. sent' \subseteq Requests /\ \A q \in sent' : q \in sent
    BY <1>0, <2>1
  <2> QED BY <2>1, <2>6, <2>7, <2>8, WindowOn
<1> QED BY <1>1, <1>2, <1>3, WindowScript DEF Next

LEMMA WindowInit == Init => WindowInv
<1> SUFFICES ASSUME Init PROVE WindowInv
  OBVIOUS
<1>1. \A r \in Requests : ~Granted(r)
  BY DEF Init, Granted, Admitted, On
<1>2. \A t : InWindow(t) = {}
  BY <1>1 DEF InWindow
<1>3. Cardinality({}) = 0 /\ Limit \in Nat
  BY FS_EmptySet, AdmissionAssumption
<1>4. \A t \in Nat : Cardinality(InWindow(t)) <= Limit + Cardinality(late)
  BY <1>2, <1>3 DEF Init
<1> QED BY <1>1, <1>4 DEF Init, WindowInv

(* Whatever the order in which scripts reach Redis and answers are lost,   *)
(* the requests it lets in during any window are no more than the limit,   *)
(* and one for each script that came later than its clock                  *)
(* (redis_ratelimit.go:95).                                                *)
THEOREM WindowIsKept == Spec => []WindowKept
<1>1. AdmissionTypeOK /\ WindowInv => WindowKept
  <2> SUFFICES ASSUME AdmissionTypeOK, WindowInv, NEW r \in Requests, Admitted(r, "redis")
               PROVE  Cardinality(Together(r)) <= Limit + Cardinality(late)
    BY DEF WindowKept
  <2>1. req[r].at \in Nat
    BY DEF AdmissionTypeOK, Asked, Admitted, On
  <2>2. Together(r) \in SUBSET InWindow(req[r].at)
    BY DEF Together, InWindow, Granted
  <2>3. IsFiniteSet(Together(r)) /\ Cardinality(Together(r)) <= Cardinality(InWindow(req[r].at))
    BY <2>2, WindowSets, FS_Subset
  <2>4. Cardinality(Together(r)) \in Nat
    BY <2>3, FS_CardinalityType
  <2>5. Cardinality(InWindow(req[r].at)) <= Limit + Cardinality(late)
    BY <2>1 DEF WindowInv
  <2>6. /\ Cardinality(InWindow(req[r].at)) \in Nat /\ Cardinality(late) \in Nat /\ Limit \in Nat
    BY WindowSets
  <2> QED BY <2>3, <2>4, <2>5, <2>6
<1>2. Init => AdmissionTypeOK /\ WindowInv
  BY AdmissionInit, WindowInit
<1>3. AdmissionTypeOK /\ WindowInv /\ [Next]_vars => (AdmissionTypeOK /\ WindowInv)'
  BY TypesKept, WindowStep
<1> QED BY <1>1, <1>2, <1>3, PTL DEF Spec
=============================================================================
