--------------------------- MODULE Telemetry_proofs ---------------------------
(***************************************************************************)
(* Proofs about Telemetry, for any requests, nodes, sizes of the queue and *)
(* the batches, and any number of failures.                                *)
(***************************************************************************)
EXTENDS Telemetry, TLAPS, FiniteSetTheorems

\* A request that is still served when main has stopped waiting is one main
\* has given up on: that is what keeps the others away from the closed queue.
Awaited ==
    /\ phase \in [Nodes -> {"up", "draining", "cancelled", "closed", "dead"}]
    /\ req = [r \in Requests |-> req[r]]
    /\ \A r \in Requests :
           On(r, "serving") =>
               /\ req[r] \in [step : {"serving"}, node : Nodes, who : Callers]
               /\ phase[req[r].node] \in {"up", "draining"} \/ req[r].node \in gaveUp
    /\ EmitSafe

LEMMA AwaitedInit == Init => Awaited
BY DEF Init, Awaited, On, EmitSafe

\* The worker and the consumer know nothing of requests.
LEMMA AwaitedKept == ASSUME Awaited, Still PROVE Awaited'
BY DEF Awaited, Still, On, EmitSafe

LEMMA AwaitedServe ==
    ASSUME Awaited, NEW r \in Requests, NEW n \in Nodes, NEW who \in Callers, Serve(r, n, who)
    PROVE  Awaited'
BY DEF Awaited, Serve, On, EmitSafe

LEMMA AwaitedEmit == ASSUME Awaited, NEW r \in Requests, Emit(r) PROVE Awaited'
<1>1. phase' = phase /\ gaveUp' = gaveUp
  BY DEF Emit
<1>2. req' = [req EXCEPT ![r].step =
                  IF phase[req[r].node] = "closed" THEN "panicked" ELSE "done"]
  BY DEF Emit
<1>3. \A q \in Requests \ {r} : req'[q] = req[q]
  BY <1>2 DEF Awaited
<1>4. CASE phase[req[r].node] = "closed"
  <2>1. req'[r] = [req[r] EXCEPT !.step = "panicked"]
    BY <1>2, <1>4 DEF Awaited
  <2>2. req[r].node \in gaveUp
    BY <1>4 DEF Awaited, Emit
  <2>3. req'[r].step = "panicked" /\ req'[r].node = req[r].node
    BY <2>1 DEF Awaited, Emit, On
  <2> QED BY <1>1, <1>2, <1>3, <2>2, <2>3 DEF Awaited, On, EmitSafe
<1>5. CASE phase[req[r].node] # "closed"
  <2>1. req'[r].step = "done"
    BY <1>2, <1>5 DEF Awaited, Emit, On
  <2> QED BY <1>1, <1>2, <1>3, <2>1 DEF Awaited, On, EmitSafe
<1> QED BY <1>4, <1>5

LEMMA AwaitedMain ==
    ASSUME Awaited, NEW n \in Nodes, Signal(n) \/ Cancel(n) \/ Close(n)
    PROVE  Awaited'
<1>1. CASE Signal(n)
  BY <1>1 DEF Awaited, Signal, On, EmitSafe
<1>2. CASE Cancel(n)
  BY <1>2 DEF Awaited, Cancel, Active, On, EmitSafe
<1>3. CASE Close(n)
  BY <1>3 DEF Awaited, Close, On, EmitSafe
<1> QED BY <1>1, <1>2, <1>3

LEMMA AwaitedDie == ASSUME Awaited, NEW n \in Nodes, Die(n) PROVE Awaited'
<1>1. /\ gaveUp' = gaveUp /\ phase' = [phase EXCEPT ![n] = "dead"]
      /\ req' = [r \in Requests |-> IF r \in Active(n) THEN [step |-> "cut"] ELSE req[r]]
  BY DEF Die
<1>2. \A r \in Requests :
          req'[r].step = "cut" \/ (req'[r] = req[r] /\ (On(r, "serving") => req[r].node # n))
  BY <1>1 DEF Active
<1> QED BY <1>1, <1>2 DEF Awaited, On, EmitSafe

LEMMA AwaitedStep == Awaited /\ [Next]_vars => Awaited'
<1> SUFFICES ASSUME Awaited, [Next]_vars PROVE Awaited'
  OBVIOUS
<1>1. CASE UNCHANGED vars
  BY <1>1 DEF vars, Awaited, On, EmitSafe
<1>2. ASSUME NEW r \in Requests,
             Emit(r) \/ \E n \in Nodes : \E who \in Callers : Serve(r, n, who)
      PROVE  Awaited'
  BY <1>2, AwaitedEmit, AwaitedServe
<1>3. ASSUME NEW n \in Nodes, Take(n) \/ Pipeline(n) \/ PopLost(n) PROVE Awaited'
  BY <1>3, AwaitedKept
     DEF Pipeline, Take, WorkerTick, WorkerEnd, Pop, LastPop, PopLost, ConsumerTick, ConsumerEnd
<1>4. ASSUME NEW n \in Nodes, Signal(n) \/ Cancel(n) \/ Close(n) PROVE Awaited'
  BY <1>4, AwaitedMain
<1>5. ASSUME NEW n \in Nodes, Return(n) \/ Crash(n) PROVE Awaited'
  BY <1>5, AwaitedDie DEF Return, Crash
<1> QED BY <1>1, <1>2, <1>3, <1>4, <1>5 DEF Next

(* Whenever a process is told to end, and however many requests it serves, *)
(* only a handler that main did not wait for runs into the closed queue.   *)
THEOREM EmitIsSafe == Spec => []EmitSafe
<1>1. Awaited => EmitSafe
  BY DEF Awaited
<1> QED BY <1>1, AwaitedInit, AwaitedStep, PTL DEF Spec

-----------------------------------------------------------------------------
(* Where an entry can wait: three boxes of a node's worker, one of its     *)
(* consumer, and the list in Redis that all nodes share.                   *)
Boxes == {"queue", "batch", "push", "taken"} \X Nodes \cup {<<"list", "shared">>}

Files == [b \in Boxes |->
    IF b[1] = "queue" THEN queue[b[2]]
    ELSE IF b[1] = "batch" THEN batch[b[2]]
    ELSE IF b[1] = "push" THEN push[b[2]]
    ELSE IF b[1] = "taken" THEN taken[b[2]]
    ELSE list]

Distinct(s) == \A i, j \in 1..Len(s) : s[i] = s[j] => i = j

Boxed ==
    /\ queue \in [Nodes -> Seq(Copies)]
    /\ batch \in [Nodes -> Seq(Copies)]
    /\ push \in [Nodes -> Seq(Copies)]
    /\ taken \in [Nodes -> Seq(Copies)]
    /\ list \in Seq(Copies)
    /\ rows \in [Copies -> Nat]

(* EntryAccounted needs that an entry is in one place of one box.          *)
Held == UNION { Entries(Files[b]) : b \in Boxes }

Filed ==
    /\ \A b \in Boxes : Distinct(Files[b])
    /\ \A b, c \in Boxes : b # c => Entries(Files[b]) \cap Entries(Files[c]) = {}
    /\ Held \cup Logged \cup lost = Made
    /\ Held \cap (Logged \cup lost) = {} /\ Logged \cap lost = {}
    /\ \A r \in Copies : rows[r] <= 1

FiledInv == Boxed /\ Filed

(* One of each entry is made when it is handed over, and more only by a    *)
(* push; what has not been pushed is the first of its entry and the only   *)
(* one.                                                                    *)
First(e) == e[2] = 1 /\ copies[e[1]] = 1

Waiting == UNION { Entries(queue[n]) \cup Entries(batch[n]) \cup Entries(push[n]) : n \in Nodes }

Counted ==
    /\ redis \in BOOLEAN /\ faults \in Nat
    /\ copies \in [Requests -> 0..MaxSends]
    /\ \A r \in Requests : (copies[r] > 0) = (r \in HandedOver)
    /\ \A r \in Requests : copies[r] > 1 => redis /\ faults > 0
    /\ \A e \in Waiting : First(e)

-----------------------------------------------------------------------------
(* What the operations on a box do to its entries.                         *)
LEMMA EntriesAppend ==
    ASSUME NEW s \in Seq(Copies), NEW r \in Copies
    PROVE  /\ Append(s, r) \in Seq(Copies)
           /\ Entries(Append(s, r)) = Entries(s) \cup {r}
           /\ Distinct(s) /\ r \notin Entries(s) => Distinct(Append(s, r))
<1>1. /\ Append(s, r) \in Seq(Copies) /\ Len(Append(s, r)) = Len(s) + 1
      /\ Len(s) \in Nat /\ Append(s, r)[Len(s) + 1] = r
      /\ \A i \in 1..Len(s) : Append(s, r)[i] = s[i]
  OBVIOUS
<1>2. 1..(Len(s) + 1) = 1..Len(s) \cup {Len(s) + 1}
  BY <1>1
<1>3. Entries(Append(s, r)) = Entries(s) \cup {r}
  BY <1>1, <1>2 DEF Entries
<1>4. ASSUME Distinct(s), r \notin Entries(s) PROVE Distinct(Append(s, r))
  BY <1>1, <1>2, <1>4 DEF Entries, Distinct
<1> QED BY <1>1, <1>3, <1>4

LEMMA EntriesTail ==
    ASSUME NEW s \in Seq(Copies), s # <<>>
    PROVE  /\ Tail(s) \in Seq(Copies) /\ Head(s) \in Copies
           /\ Head(s) \in Entries(s)
           /\ Distinct(s) => /\ Distinct(Tail(s))
                             /\ Entries(Tail(s)) = Entries(s) \ {Head(s)}
<1>1. /\ Tail(s) \in Seq(Copies) /\ Len(Tail(s)) = Len(s) - 1
      /\ Len(s) \in Nat \ {0} /\ Head(s) = s[1] /\ s[1] \in Copies
      /\ \A i \in 1..(Len(s) - 1) : Tail(s)[i] = s[i + 1]
  OBVIOUS
<1>2. Head(s) \in Entries(s) /\ Entries(Tail(s)) \subseteq Entries(s)
  BY <1>1 DEF Entries
<1>3. ASSUME Distinct(s) PROVE Distinct(Tail(s)) /\ Head(s) \notin Entries(Tail(s))
  BY <1>1, <1>3 DEF Entries, Distinct
<1>4. Entries(s) \subseteq Entries(Tail(s)) \cup {Head(s)}
  <2> SUFFICES ASSUME NEW i \in 1..Len(s), i # 1 PROVE s[i] \in Entries(Tail(s))
    BY <1>1 DEF Entries
  <2>1. i - 1 \in 1..(Len(s) - 1) /\ (i - 1) + 1 = i
    BY <1>1
  <2>2. Tail(s)[i - 1] = s[i]
    BY <1>1, <2>1
  <2> QED BY <1>1, <2>1, <2>2 DEF Entries
<1> QED BY <1>1, <1>2, <1>3, <1>4

LEMMA EntriesConcat ==
    ASSUME NEW s \in Seq(Copies), NEW t \in Seq(Copies)
    PROVE  /\ s \o t \in Seq(Copies)
           /\ Entries(s \o t) = Entries(s) \cup Entries(t)
           /\ Distinct(s) /\ Distinct(t) /\ Entries(s) \cap Entries(t) = {}
                => Distinct(s \o t)
<1>1. /\ s \o t \in Seq(Copies) /\ Len(s \o t) = Len(s) + Len(t)
      /\ Len(s) \in Nat /\ Len(t) \in Nat
      /\ \A i \in 1..Len(s) : (s \o t)[i] = s[i]
      /\ \A i \in 1..Len(t) : (s \o t)[Len(s) + i] = t[i]
  OBVIOUS
<1>2. ASSUME NEW i \in 1..(Len(s) + Len(t)), i \notin 1..Len(s)
      PROVE  i - Len(s) \in 1..Len(t) /\ (s \o t)[i] = t[i - Len(s)]
  <2>1. i - Len(s) \in 1..Len(t) /\ i = Len(s) + (i - Len(s))
    BY <1>1, <1>2
  <2> QED BY <1>1, <2>1
<1>3. Entries(s \o t) = Entries(s) \cup Entries(t)
  <2>1. Entries(s \o t) \subseteq Entries(s) \cup Entries(t)
    BY <1>1, <1>2 DEF Entries
  <2>2. Entries(s) \subseteq Entries(s \o t)
    BY <1>1 DEF Entries
  <2>3. Entries(t) \subseteq Entries(s \o t)
    <3> SUFFICES ASSUME NEW i \in 1..Len(t) PROVE t[i] \in Entries(s \o t)
      BY DEF Entries
    <3>1. Len(s) + i \in 1..Len(s \o t)
      BY <1>1
    <3> QED BY <1>1, <3>1 DEF Entries
  <2> QED BY <2>1, <2>2, <2>3
<1>4. ASSUME Distinct(s), Distinct(t), Entries(s) \cap Entries(t) = {},
             NEW i \in 1..Len(s \o t), NEW j \in 1..Len(s \o t),
             (s \o t)[i] = (s \o t)[j]
      PROVE  i = j
  <2>1. CASE i \in 1..Len(s) /\ j \in 1..Len(s)
    <3>1. s[i] = s[j]
      BY <1>1, <1>4, <2>1
    <3> QED BY <1>4, <2>1, <3>1 DEF Distinct
  <2>2. CASE i \notin 1..Len(s) /\ j \notin 1..Len(s)
    <3>1. /\ i - Len(s) \in 1..Len(t) /\ (s \o t)[i] = t[i - Len(s)]
          /\ j - Len(s) \in 1..Len(t) /\ (s \o t)[j] = t[j - Len(s)]
      BY <1>1, <1>2, <2>2
    <3>2. i - Len(s) = j - Len(s)
      BY <1>4, <3>1 DEF Distinct
    <3> QED BY <1>1, <3>2
  <2>3. CASE i \in 1..Len(s) /\ j \notin 1..Len(s)
    <3>1. (s \o t)[i] \in Entries(s)
      BY <1>1, <2>3 DEF Entries
    <3>2. j - Len(s) \in 1..Len(t) /\ (s \o t)[j] = t[j - Len(s)]
      BY <1>1, <1>2, <2>3
    <3>3. (s \o t)[j] \in Entries(t)
      BY <3>2 DEF Entries
    <3> QED BY <1>4, <3>1, <3>3
  <2>4. CASE i \notin 1..Len(s) /\ j \in 1..Len(s)
    <3>1. (s \o t)[j] \in Entries(s)
      BY <1>1, <2>4 DEF Entries
    <3>2. i - Len(s) \in 1..Len(t) /\ (s \o t)[i] = t[i - Len(s)]
      BY <1>1, <1>2, <2>4
    <3>3. (s \o t)[i] \in Entries(t)
      BY <3>2 DEF Entries
    <3> QED BY <1>4, <3>1, <3>3
  <2> QED BY <2>1, <2>2, <2>3, <2>4
<1> QED BY <1>1, <1>3, <1>4 DEF Distinct

LEMMA EntriesOfFour ==
    ASSUME NEW s \in Seq(Copies), NEW t \in Seq(Copies),
           NEW u \in Seq(Copies), NEW v \in Seq(Copies)
    PROVE  Entries(s \o t \o u \o v)
             = Entries(s) \cup Entries(t) \cup Entries(u) \cup Entries(v)
<1>1. s \o t \in Seq(Copies) /\ Entries(s \o t) = Entries(s) \cup Entries(t)
  BY EntriesConcat
<1>2. /\ s \o t \o u \in Seq(Copies)
      /\ Entries(s \o t \o u) = Entries(s \o t) \cup Entries(u)
  BY <1>1, EntriesConcat
<1>3. Entries(s \o t \o u \o v) = Entries(s \o t \o u) \cup Entries(v)
  BY <1>2, EntriesConcat
<1> QED BY <1>1, <1>2, <1>3

\* Nothing is in an empty box.
LEMMA EntriesEmpty ==
    <<>> \in Seq(Copies) /\ Entries(<<>>) = {} /\ Distinct(<<>>)
BY DEF Entries, Distinct

\* In a box of distinct entries each of them is there once.
LEMMA DistinctCount ==
    ASSUME NEW s \in Seq(Copies), Distinct(s), NEW r
    PROVE  Cardinality({ i \in 1..Len(s) : s[i] = r }) =
              IF r \in Entries(s) THEN 1 ELSE 0
<1>1. CASE r \in Entries(s)
  <2>1. PICK i \in 1..Len(s) : s[i] = r
    BY <1>1 DEF Entries
  <2>2. { j \in 1..Len(s) : s[j] = r } = {i}
    BY <2>1 DEF Distinct
  <2> QED BY <1>1, <2>2, FS_Singleton
<1>2. CASE r \notin Entries(s)
  <2>1. { j \in 1..Len(s) : s[j] = r } = {}
    BY <1>2 DEF Entries
  <2> QED BY <1>2, <2>1, FS_EmptySet
<1> QED BY <1>1, <1>2


-----------------------------------------------------------------------------
(* One step takes the entries M out of the boxes X, or off a request that  *)
(* ends: L are written to the database, G are lost, and the others, if     *)
(* any, are added to the box y.                                            *)
Move(X, y, M, L, G) ==
    /\ \A b \in Boxes : b \notin X /\ b # y => Files'[b] = Files[b]
    /\ \A b \in X : b # y =>
           Distinct(Files'[b]) /\ Entries(Files'[b]) = Entries(Files[b]) \ M
    /\ y \in Boxes =>
           /\ Distinct(Files'[y])
           /\ Entries(Files'[y]) = (Entries(Files[y]) \ M) \cup (M \ (L \cup G))
    /\ y \notin Boxes => M = L \cup G
    /\ \A r \in M : (\E b \in X : r \in Entries(Files[b])) \/ r \in Copies \ Made
    /\ Made' = Made \cup M
    /\ \A r \in Copies : rows'[r] = IF r \in L THEN rows[r] + 1 ELSE rows[r]
    /\ lost' = lost \cup G

LEMMA FilesTyped == ASSUME Boxed PROVE Files \in [Boxes -> Seq(Copies)]
BY DEF Boxed, Files, Boxes

LEMMA Refiled ==
    ASSUME FiledInv, Boxed', NEW X \in SUBSET Boxes, NEW y,
           NEW M, NEW L \in SUBSET M, NEW G \in SUBSET M, L \cap G = {},
           Move(X, y, M, L, G)
    PROVE  FiledInv'
<1> DEFINE F(b) == Entries(Files[b])
           H(b) == Entries(Files'[b])
<1> USE DEF Move
<1>0. Files \in [Boxes -> Seq(Copies)]
  BY FilesTyped DEF FiledInv
<1>1. \A b \in Boxes : F(b) \subseteq Copies
  BY <1>0 DEF Entries
<1>2. \A r \in M : r \in Copies /\ rows[r] = 0 /\ r \notin lost
  <2> SUFFICES ASSUME NEW r \in M PROVE r \in Copies /\ rows[r] = 0 /\ r \notin lost
    OBVIOUS
  <2>1. r \in Copies /\ r \notin Logged \cup lost
    <3>1. CASE \E b \in X : r \in F(b)
      BY <1>1, <3>1 DEF FiledInv, Filed, Held
    <3>2. CASE r \in Copies \ Made
      BY <3>2 DEF FiledInv, Filed
    <3> QED BY <3>1, <3>2
  <2> QED BY <2>1 DEF Logged, FiledInv, Boxed
<1>3. \A b \in Boxes : b # y => H(b) = F(b) \ M
  <2> SUFFICES ASSUME NEW b \in Boxes, b # y, b \notin X PROVE F(b) \cap M = {}
    OBVIOUS
  <2> SUFFICES ASSUME NEW r \in M, r \in F(b) PROVE FALSE
    OBVIOUS
  <2>1. CASE \E c \in X : r \in F(c)
    BY <2>1 DEF FiledInv, Filed
  <2>2. CASE r \in Copies \ Made
    BY <2>2 DEF FiledInv, Filed, Held
  <2> QED BY <2>1, <2>2
<1>4. \A b \in Boxes : Distinct(Files'[b])
  BY DEF FiledInv, Filed
<1>5. \A b, c \in Boxes : b # c => H(b) \cap H(c) = {}
  <2> SUFFICES ASSUME NEW b \in Boxes, NEW c \in Boxes, b # c PROVE H(b) \cap H(c) = {}
    OBVIOUS
  <2>1. F(b) \cap F(c) = {}
    BY DEF FiledInv, Filed
  <2>2. CASE b # y /\ c # y
    BY <1>3, <2>1, <2>2
  <2>3. CASE b = y
    BY <1>3, <2>1, <2>3
  <2>4. CASE c = y
    BY <1>3, <2>1, <2>4
  <2> QED BY <2>2, <2>3, <2>4
<1>6. Held' = (Held \ M) \cup (M \ (L \cup G))
  <2>1. Held' = UNION { H(b) : b \in Boxes } /\ Held = UNION { F(b) : b \in Boxes }
    BY DEF Held, Boxes
  <2>2. CASE y \in Boxes
    <3>1. H(y) = (F(y) \ M) \cup (M \ (L \cup G))
      BY <2>2
    <3> HIDE DEF H, F, Move
    <3> QED BY <1>3, <2>1, <2>2, <3>1
  <2>3. CASE y \notin Boxes
    <3>1. M \ (L \cup G) = {} /\ \A b \in Boxes : H(b) = F(b) \ M
      BY <1>3, <2>3
    <3> HIDE DEF H, F, Move
    <3> QED BY <2>1, <3>1
  <2> QED BY <2>2, <2>3
<1>7. /\ Logged' = Logged \cup L
      /\ \A r \in Copies : rows'[r] <= 1
  <2>1. \A r \in Copies : rows[r] \in Nat /\ rows[r] <= 1
    BY DEF FiledInv, Filed, Boxed
  <2> QED BY <1>2, <2>1 DEF Logged
<1>8. M \cap (Logged \cup lost) = {}
  BY <1>2 DEF Logged
<1>9. /\ Held \cup Logged \cup lost = Made
      /\ Held \cap (Logged \cup lost) = {} /\ Logged \cap lost = {}
  BY DEF FiledInv, Filed
<1>10. Made' = Made \cup M /\ lost' = lost \cup G
  OBVIOUS
<1>11. /\ Held' \cup Logged' \cup lost' = Made'
       /\ Held' \cap (Logged' \cup lost') = {} /\ Logged' \cap lost' = {}
  <2> HIDE DEF Move
  <2> QED BY <1>6, <1>7, <1>8, <1>9, <1>10
<1> QED BY <1>4, <1>5, <1>7, <1>11 DEF FiledInv, Filed


LEMMA FilesAt ==
    /\ \A k \in {"queue", "batch", "push", "taken"}, n \in Nodes : <<k, n>> \in Boxes
    /\ <<"list", "shared">> \in Boxes
    /\ \A n \in Nodes : /\ Files[<<"queue", n>>] = queue[n] /\ Files'[<<"queue", n>>] = queue'[n]
                        /\ Files[<<"batch", n>>] = batch[n] /\ Files'[<<"batch", n>>] = batch'[n]
                        /\ Files[<<"push", n>>] = push[n] /\ Files'[<<"push", n>>] = push'[n]
                        /\ Files[<<"taken", n>>] = taken[n] /\ Files'[<<"taken", n>>] = taken'[n]
    /\ Files[<<"list", "shared">>] = list /\ Files'[<<"list", "shared">>] = list'
<1>1. \A k \in {"queue", "batch", "push", "taken"}, n \in Nodes : <<k, n>> \in Boxes
  BY DEF Boxes
<1>2. <<"list", "shared">> \in Boxes
  BY DEF Boxes
<1> QED BY <1>1, <1>2 DEF Files

\* A box outside X is as it was where each of the five kinds is.
LEMMA FilesElsewhere ==
    ASSUME NEW X,
           \A n \in Nodes : <<"queue", n>> \in X \/ queue'[n] = queue[n],
           \A n \in Nodes : <<"batch", n>> \in X \/ batch'[n] = batch[n],
           \A n \in Nodes : <<"push", n>> \in X \/ push'[n] = push[n],
           \A n \in Nodes : <<"taken", n>> \in X \/ taken'[n] = taken[n],
           <<"list", "shared">> \in X \/ list' = list
    PROVE  \A b \in Boxes : b \notin X => Files'[b] = Files[b]
<1> SUFFICES ASSUME NEW b \in Boxes, b \notin X PROVE Files'[b] = Files[b]
  OBVIOUS
<1>1. CASE b = <<"list", "shared">>
  BY <1>1, FilesAt
<1>2. ASSUME NEW k \in {"queue", "batch", "push", "taken"}, NEW n \in Nodes, b = <<k, n>>
      PROVE  Files'[b] = Files[b]
  <2>1. CASE k = "queue"
    BY <1>2, <2>1, FilesAt
  <2>2. CASE k = "batch"
    BY <1>2, <2>2, FilesAt
  <2>3. CASE k = "push"
    BY <1>2, <2>3, FilesAt
  <2>4. CASE k = "taken"
    BY <1>2, <2>4, FilesAt
  <2> QED BY <2>1, <2>2, <2>3, <2>4
<1> QED BY <1>1, <1>2 DEF Boxes

\* A transaction writes each of its entries once more, or loses them all.
LEMMA FlushWrites ==
    ASSUME Boxed, NEW n, NEW s \in Seq(Copies), Distinct(s), Flush(n, s)
    PROVE  /\ rows' \in [Copies -> Nat]
           /\ \E L \in SUBSET Entries(s) :
                  /\ \A r \in Copies : rows'[r] = IF r \in L THEN rows[r] + 1 ELSE rows[r]
                  /\ lost' = lost \cup (Entries(s) \ L)
<1>1. CASE rows' = rows /\ lost' = lost \cup Entries(s)
  <2>1. \A r \in Copies : rows'[r] = IF r \in {} THEN rows[r] + 1 ELSE rows[r]
    BY <1>1
  <2>2. rows' \in [Copies -> Nat]
    BY <1>1 DEF Boxed
  <2>3. {} \in SUBSET Entries(s) /\ lost' = lost \cup (Entries(s) \ {})
    BY <1>1
  <2> QED BY <2>1, <2>2, <2>3
<1>2. CASE rows' = Written(s) /\ lost' = lost
  <2>1. \A r \in Copies : rows'[r] = IF r \in Entries(s) THEN rows[r] + 1 ELSE rows[r]
    <3> SUFFICES ASSUME NEW r \in Copies
                 PROVE  rows'[r] = IF r \in Entries(s) THEN rows[r] + 1 ELSE rows[r]
      OBVIOUS
    <3>1. Cardinality({ i \in 1..Len(s) : s[i] = r }) = IF r \in Entries(s) THEN 1 ELSE 0
      BY DistinctCount
    <3>2. rows[r] \in Nat /\ rows'[r] = rows[r] + Cardinality({ i \in 1..Len(s) : s[i] = r })
      BY <1>2 DEF Boxed, Written
    <3> QED BY <3>1, <3>2
  <2>2. rows' \in [Copies -> Nat]
    <3>1. \A r \in Copies : rows[r] \in Nat
      BY DEF Boxed
    <3>2. \A r \in Copies : rows'[r] \in Nat
      BY <2>1, <3>1
    <3> QED BY <3>2, <1>2 DEF Written
  <2>3. lost' = lost \cup (Entries(s) \ Entries(s))
    BY <1>2
  <2> QED BY <2>1, <2>2, <2>3
<1> QED BY <1>1, <1>2 DEF Flush

\* What waits has been handed over.
LEMMA HeldMade ==
    ASSUME FiledInv, NEW X \in SUBSET Boxes,
           NEW M, \A r \in M : \E b \in X : r \in Entries(Files[b])
    PROVE  Made = Made \cup M
<1>1. M \subseteq Held
  BY DEF Held
<1> QED BY <1>1 DEF FiledInv, Filed

\* What FiledInv says of one box.
LEMMA OneBox ==
    ASSUME FiledInv, NEW n \in Nodes
    PROVE  /\ queue[n] \in Seq(Copies) /\ Distinct(queue[n])
           /\ batch[n] \in Seq(Copies) /\ Distinct(batch[n])
           /\ push[n] \in Seq(Copies) /\ Distinct(push[n])
           /\ taken[n] \in Seq(Copies) /\ Distinct(taken[n])
           /\ list \in Seq(Copies) /\ Distinct(list)
           /\ Entries(queue[n]) \cap Entries(batch[n]) = {}
           /\ Entries(queue[n]) \cap Entries(push[n]) = {}
           /\ Entries(list) \cap Entries(push[n]) = {}
           /\ Entries(list) \cap Entries(queue[n]) = {}
           /\ Entries(list) \cap Entries(taken[n]) = {}
<1>1. \A b \in Boxes : Distinct(Files[b])
  BY DEF FiledInv, Filed
<1>2. \A b, c \in Boxes : b # c => Entries(Files[b]) \cap Entries(Files[c]) = {}
  BY DEF FiledInv, Filed
<1>3. /\ Distinct(queue[n]) /\ Distinct(batch[n]) /\ Distinct(push[n])
      /\ Distinct(taken[n]) /\ Distinct(list)
  BY <1>1, FilesAt
<1>4. Entries(queue[n]) \cap Entries(batch[n]) = {}
  BY <1>2, FilesAt
<1>5. Entries(queue[n]) \cap Entries(push[n]) = {}
  BY <1>2, FilesAt
<1>6. Entries(list) \cap Entries(push[n]) = {}
  BY <1>2, FilesAt
<1>7. Entries(list) \cap Entries(queue[n]) = {}
  BY <1>2, FilesAt
<1>8. Entries(list) \cap Entries(taken[n]) = {}
  BY <1>2, FilesAt
<1> QED BY <1>3, <1>4, <1>5, <1>6, <1>7, <1>8 DEF FiledInv, Boxed


Nowhere == <<"nowhere", "nowhere">>

LEMMA StillMade == ASSUME copies' = copies PROVE Made' = Made
BY DEF Made

\* The entries M of the boxes X go to the box y.
Hop(X, y, M) ==
    /\ \A b \in Boxes : b \notin X /\ b # y => Files'[b] = Files[b]
    /\ \A b \in X : b # y =>
           Distinct(Files'[b]) /\ Entries(Files'[b]) = Entries(Files[b]) \ M
    /\ Distinct(Files'[y]) /\ Entries(Files'[y]) = Entries(Files[y]) \cup M
    /\ \A r \in M : \E b \in X : r \in Entries(Files[b])

LEMMA MoveTo ==
    ASSUME FiledInv, Boxed', copies' = copies, rows' = rows, lost' = lost,
           NEW X \in SUBSET Boxes, NEW y \in Boxes, NEW M, Hop(X, y, M)
    PROVE  FiledInv'
<1> USE DEF Hop
<1>1. Made' = Made \cup M
  BY HeldMade, StillMade
<1>2. Move(X, y, M, {}, {})
  <2>1. \A r \in M : (\E b \in X : r \in Entries(Files[b])) \/ r \in Copies \ Made
    OBVIOUS
  <2>2. \A r \in Copies : rows'[r] = IF r \in {} THEN rows[r] + 1 ELSE rows[r]
    OBVIOUS
  <2>3. /\ y \in Boxes => /\ Distinct(Files'[y])
                           /\ Entries(Files'[y]) = (Entries(Files[y]) \ M) \cup (M \ ({} \cup {}))
        /\ y \notin Boxes => M = {} \cup {}
    OBVIOUS
  <2>4. lost' = lost \cup {}
    OBVIOUS
  <2> QED BY <1>1, <2>1, <2>2, <2>3, <2>4, Zenon DEF Move
<1>3. {} \in SUBSET M /\ {} \cap {} = {}
  OBVIOUS
<1> QED BY <1>2, <1>3, Refiled

LEMMA SomeSends == MaxSends \in 1..4
BY TelemetryAssumption

LEMMA CopyIs ==
    ASSUME NEW e \in Copies
    PROVE  e = <<e[1], e[2]>> /\ e[1] \in Requests /\ e[2] \in 1..MaxSends /\ e[2] \in Nat
BY SomeSends DEF Copies

LEMMA PairIs ==
    ASSUME NEW S, NEW e
    PROVE  e \in Requests \X S <=> e = <<e[1], e[2]>> /\ e[1] \in Requests /\ e[2] \in S
OBVIOUS

\* The k-th copies of first entries.
LEMMA OfCopy ==
    ASSUME NEW s \in Seq(Copies), \A e \in Entries(s) : e[2] = 1, Distinct(s),
           NEW j \in 2..4, NEW k \in 2..MaxSends
    PROVE  /\ Copy(s, j, k) \in Seq(Copies) /\ Distinct(Copy(s, j, k))
           /\ \A e : e \in Entries(Copy(s, j, k)) <=>
                  j <= k /\ e \in Requests \X {j} /\ <<e[1], 1>> \in Entries(s)
<1>1. CASE j > k
  <2>1. Copy(s, j, k) = <<>>
    BY <1>1 DEF Copy
  <2>2. ~(j <= k)
    BY <1>1
  <2> QED BY <2>1, <2>2, EntriesEmpty
<1>2. CASE j <= k
  <2> DEFINE t == [i \in 1..Len(s) |-> <<s[i][1], j>>]
  <2>1. Copy(s, j, k) = t /\ j \in 1..MaxSends
    BY <1>2, SomeSends DEF Copy
  <2>2. \A i \in 1..Len(s) : s[i] \in Copies /\ s[i] = <<s[i][1], 1>> /\ s[i][1] \in Requests
    BY DEF Entries, Copies
  <2>3. t \in Seq(Copies) /\ Len(t) = Len(s)
    <3>1. \A i \in 1..Len(s) : <<s[i][1], j>> \in Copies
      BY <2>1, <2>2 DEF Copies
    <3>2. Len(s) \in Nat
      OBVIOUS
    <3> QED BY <3>1, <3>2
  <2>4. Distinct(t)
    <3> SUFFICES ASSUME NEW i \in 1..Len(s), NEW l \in 1..Len(s), t[i] = t[l] PROVE i = l
      BY <2>3 DEF Distinct
    <3>1. s[i][1] = s[l][1]
      OBVIOUS
    <3>2. s[i] = s[l]
      BY <2>2, <3>1
    <3> QED BY <3>2 DEF Distinct
  <2>5. ASSUME NEW e, e \in Entries(t)
        PROVE  e \in Requests \X {j} /\ <<e[1], 1>> \in Entries(s)
    <3>1. PICK i \in 1..Len(s) : e = <<s[i][1], j>>
      BY <2>3, <2>5 DEF Entries
    <3> QED BY <2>2, <3>1 DEF Entries
  <2>6. ASSUME NEW e \in Requests \X {j}, <<e[1], 1>> \in Entries(s) PROVE e \in Entries(t)
    <3>1. PICK i \in 1..Len(s) : s[i] = <<e[1], 1>>
      BY <2>6 DEF Entries
    <3>2. t[i] = e
      BY <3>1
    <3> QED BY <2>3, <3>2 DEF Entries
  <2> QED BY <1>2, <2>1, <2>3, <2>4, <2>5, <2>6
<1> QED BY <1>1, <1>2

\* What Redis has of first entries that it got k times.
LEMMA OfSent ==
    ASSUME NEW s \in Seq(Copies), \A e \in Entries(s) : e[2] = 1, Distinct(s),
           NEW k \in 2..MaxSends
    PROVE  /\ Sent(s, k) \in Seq(Copies) /\ Distinct(Sent(s, k))
           /\ \A e : e \in Entries(Sent(s, k)) <=>
                  e \in Requests \X (1..k) /\ <<e[1], 1>> \in Entries(s)
<1> DEFINE c2 == Copy(s, 2, k)
           c3 == Copy(s, 3, k)
           c4 == Copy(s, 4, k)
           In(c, j) == \A e : e \in Entries(c) <=>
                           j <= k /\ e \in Requests \X {j} /\ <<e[1], 1>> \in Entries(s)
<1>1. /\ c2 \in Seq(Copies) /\ Distinct(c2) /\ In(c2, 2)
      /\ c3 \in Seq(Copies) /\ Distinct(c3) /\ In(c3, 3)
      /\ c4 \in Seq(Copies) /\ Distinct(c4) /\ In(c4, 4)
  BY OfCopy
<1>2. \A e : e \in Entries(s) <=> e \in Requests \X {1} /\ <<e[1], 1>> \in Entries(s)
  <2>1. Entries(s) \subseteq Copies
    BY DEF Entries
  <2>2. \A e \in Entries(s) : e = <<e[1], 1>> /\ e[1] \in Requests
    BY <2>1 DEF Copies
  <2>3. \A e \in Requests \X {1} : e = <<e[1], 1>>
    OBVIOUS
  <2> QED BY <2>2, <2>3
<1>3. /\ Entries(s) \cap Entries(c2) = {}
      /\ (Entries(s) \cup Entries(c2)) \cap Entries(c3) = {}
      /\ (Entries(s) \cup Entries(c2) \cup Entries(c3)) \cap Entries(c4) = {}
  <2>1. /\ \A e \in Entries(c2) : e \in Requests \X {2}
        /\ \A e \in Entries(c3) : e \in Requests \X {3}
        /\ \A e \in Entries(c4) : e \in Requests \X {4}
    BY <1>1
  <2>2. /\ \A e \in Entries(s) : e[2] = 1
        /\ \A e \in Entries(c2) : e[2] = 2
        /\ \A e \in Entries(c3) : e[2] = 3
        /\ \A e \in Entries(c4) : e[2] = 4
    BY <2>1
  <2> HIDE DEF c2, c3, c4
  <2> QED BY <2>2
<1> HIDE DEF c2, c3, c4
<1>4. /\ s \o c2 \in Seq(Copies) /\ Distinct(s \o c2)
      /\ Entries(s \o c2) = Entries(s) \cup Entries(c2)
  BY <1>1, <1>3, EntriesConcat
<1>5. /\ s \o c2 \o c3 \in Seq(Copies) /\ Distinct(s \o c2 \o c3)
      /\ Entries(s \o c2 \o c3) = Entries(s) \cup Entries(c2) \cup Entries(c3)
  BY <1>1, <1>3, <1>4, EntriesConcat
<1>6. /\ s \o c2 \o c3 \o c4 \in Seq(Copies) /\ Distinct(s \o c2 \o c3 \o c4)
      /\ Entries(s \o c2 \o c3 \o c4)
           = Entries(s) \cup Entries(c2) \cup Entries(c3) \cup Entries(c4)
  BY <1>1, <1>3, <1>5, EntriesConcat
<1>7. Sent(s, k) = s \o c2 \o c3 \o c4
  BY DEF Sent, c2, c3, c4
<1>8. \A e : e \in Requests \X (1..k) <=>
          \/ e \in Requests \X {1}
          \/ 2 <= k /\ e \in Requests \X {2}
          \/ 3 <= k /\ e \in Requests \X {3}
          \/ 4 <= k /\ e \in Requests \X {4}
  <2>1. k \in 2..4
    BY SomeSends
  <2>2. \A i : i \in 1..k <=> i = 1 \/ (2 <= k /\ i = 2) \/ (3 <= k /\ i = 3) \/ (4 <= k /\ i = 4)
    BY <2>1
  <2> SUFFICES ASSUME NEW e
               PROVE  e \in Requests \X (1..k) <=>
                        \/ e \in Requests \X {1}
                        \/ 2 <= k /\ e \in Requests \X {2}
                        \/ 3 <= k /\ e \in Requests \X {3}
                        \/ 4 <= k /\ e \in Requests \X {4}
    OBVIOUS
  <2>3. e \in Requests \X (1..k) <=> e = <<e[1], e[2]>> /\ e[1] \in Requests /\ e[2] \in 1..k
    BY PairIs
  <2>4. \A j : e \in Requests \X {j} <=> e = <<e[1], e[2]>> /\ e[1] \in Requests /\ e[2] = j
    <3>1. \A j : e[2] \in {j} <=> e[2] = j
      OBVIOUS
    <3>2. \A j : e \in Requests \X {j}
                   <=> e = <<e[1], e[2]>> /\ e[1] \in Requests /\ e[2] \in {j}
      BY PairIs
    <3> QED BY <3>1, <3>2
  <2>5. e[2] \in 1..k <=>
          \/ e[2] = 1
          \/ 2 <= k /\ e[2] = 2
          \/ 3 <= k /\ e[2] = 3
          \/ 4 <= k /\ e[2] = 4
    BY <2>2
  <2> DEFINE P == e = <<e[1], e[2]>> /\ e[1] \in Requests
             Of(S) == e \in Requests \X S
  <2>6. /\ Of(1..k) <=> P /\ e[2] \in 1..k
        /\ Of({1}) <=> P /\ e[2] = 1
        /\ Of({2}) <=> P /\ e[2] = 2
        /\ Of({3}) <=> P /\ e[2] = 3
        /\ Of({4}) <=> P /\ e[2] = 4
    <3>1. Of(1..k) <=> P /\ e[2] \in 1..k
      BY <2>3, Zenon
    <3>2. \A j : Of({j}) <=> P /\ e[2] = j
      BY <2>4, Zenon
    <3> HIDE DEF P, Of
    <3> QED BY <3>1, <3>2, Zenon
  <2>7. Of(1..k) <=> \/ Of({1})
                     \/ 2 <= k /\ Of({2})
                     \/ 3 <= k /\ Of({3})
                     \/ 4 <= k /\ Of({4})
    <3> HIDE DEF P, Of
    <3> QED BY <2>5, <2>6
  <2> QED BY <2>7
<1> QED BY <1>1, <1>2, <1>6, <1>7, <1>8

\* The entries s of the boxes X go to Redis, once or with copies, or are lost.
LEMMA PushKeeps ==
    ASSUME FiledInv, Counted, rows' = rows, NEW n \in Nodes,
           queue' \in [Nodes -> Seq(Copies)], batch' \in [Nodes -> Seq(Copies)],
           push' \in [Nodes -> Seq(Copies)], taken' \in [Nodes -> Seq(Copies)],
           NEW X \in SUBSET Boxes, <<"list", "shared">> \notin X,
           NEW s \in Seq(Copies), Distinct(s), Entries(s) \cap Entries(list) = {},
           \A e \in Entries(s) : First(e),
           Push(n, s),
           \A b \in Boxes : b \notin X /\ b # <<"list", "shared">> => Files'[b] = Files[b],
           \A b \in X :
               Distinct(Files'[b]) /\ Entries(Files'[b]) = Entries(Files[b]) \ Entries(s),
           \A r \in Entries(s) : \E b \in X : r \in Entries(Files[b])
    PROVE  FiledInv'
<1> DEFINE y == <<"list", "shared">>
<1>1. Files[y] = list /\ Files'[y] = list' /\ y \in Boxes
  BY FilesAt
<1>2. list \in Seq(Copies) /\ Distinct(list)
  BY OneBox
<1> DEFINE Pushed(M, G) ==
          /\ list' \in Seq(Copies) /\ Distinct(list') /\ lost' = lost \cup G
          /\ Entries(list') = Entries(list) \cup (M \ G)
          /\ Made' = Made \cup M
          /\ Entries(s) \subseteq M /\ M \ Entries(s) \subseteq Copies \ Made
<1>13. \E M : \E G \in SUBSET M : Pushed(M, G)
  <2>1. CASE list' = list \o s /\ lost' = lost /\ copies' = copies
    <3>1. /\ list' \in Seq(Copies) /\ Distinct(list')
          /\ Entries(list') = Entries(list) \cup (Entries(s) \ {}) /\ lost' = lost \cup {}
      BY <1>2, <2>1, EntriesConcat
    <3>2. Made' = Made \cup Entries(s)
      BY <2>1, HeldMade, StillMade
    <3>3. {} \in SUBSET Entries(s) /\ Entries(s) \ Entries(s) \subseteq Copies \ Made
      OBVIOUS
    <3> QED BY <3>1, <3>2, <3>3
  <2>2. CASE list' = list /\ lost' = lost \cup Entries(s) /\ copies' = copies
    <3>1. Entries(list') = Entries(list) \cup (Entries(s) \ Entries(s))
      BY <2>2
    <3>2. Made' = Made \cup Entries(s)
      BY <2>2, HeldMade, StillMade
    <3>3. Entries(s) \ Entries(s) \subseteq Copies \ Made
      OBVIOUS
    <3> QED BY <1>2, <2>2, <3>1, <3>2, <3>3
  <2>3. ASSUME NEW k \in 2..MaxSends,
               list' = list \o Sent(s, k), lost' = lost,
               copies' = [r \in Requests |->
                             IF <<r, 1>> \in Entries(s) THEN k ELSE copies[r]]
        PROVE  /\ list' \in Seq(Copies) /\ Distinct(list') /\ lost' = lost \cup {}
               /\ Entries(list') = Entries(list) \cup (Entries(Sent(s, k)) \ {})
               /\ Made' = Made \cup Entries(Sent(s, k))
               /\ Entries(s) \subseteq Entries(Sent(s, k))
               /\ Entries(Sent(s, k)) \ Entries(s) \subseteq Copies \ Made
    <3>1. /\ Sent(s, k) \in Seq(Copies) /\ Distinct(Sent(s, k))
          /\ \A e : e \in Entries(Sent(s, k)) <=>
                 e \in Requests \X (1..k) /\ <<e[1], 1>> \in Entries(s)
      BY OfSent DEF First
    <3>2. /\ k \in Nat /\ k >= 2 /\ 1..k \subseteq 1..MaxSends
          /\ copies \in [Requests -> 0..MaxSends] /\ MaxSends \in 1..4
      BY SomeSends DEF Counted
    <3>3. \A e \in Entries(s) : e \in Copies /\ e = <<e[1], 1>> /\ copies[e[1]] = 1
      <4>1. Entries(s) \subseteq Copies
        BY DEF Entries
      <4> QED BY <4>1, CopyIs DEF First
    <3>4. Entries(s) \subseteq Entries(Sent(s, k))
      <4>1. \A e \in Entries(s) : e \in Requests \X (1..k)
        BY <3>2, <3>3, CopyIs, PairIs
      <4> QED BY <3>1, <3>3, <4>1
    <3> DEFINE Second(e) ==
                 /\ e \in Copies /\ copies[e[1]] = 1 /\ e[1] \in Requests
                 /\ e[2] <= k /\ e[2] \in Nat
                 /\ e = <<e[1], 1>> \/ e[2] > 1
                 /\ <<e[1], 1>> \in Entries(s)
    <3>5. \A e \in Entries(Sent(s, k)) : Second(e)
      <4> SUFFICES ASSUME NEW e \in Entries(Sent(s, k)) PROVE Second(e)
        BY Zenon
      <4>1. e \in Requests \X (1..k) /\ <<e[1], 1>> \in Entries(s)
        BY <3>1
      <4>2. e = <<e[1], e[2]>> /\ e[1] \in Requests /\ e[2] \in 1..k
        BY <4>1
      <4>3. e \in Copies
        BY <3>2, <4>2 DEF Copies
      <4>4. copies[e[1]] = 1
        BY <3>3, <4>1
      <4>5. e[2] \in Nat /\ e[2] <= k /\ (e[2] = 1 \/ e[2] > 1)
        BY <3>2, <4>2
      <4>6. e = <<e[1], 1>> \/ e[2] > 1
        <5>1. CASE e[2] = 1
          BY <4>2, <5>1
        <5> QED BY <4>5, <5>1
      <4> QED BY <4>1, <4>2, <4>3, <4>4, <4>5, <4>6, Zenon
    <3>6. Entries(Sent(s, k)) \ Entries(s) \subseteq Copies \ Made
      <4> SUFFICES ASSUME NEW e \in Entries(Sent(s, k)), e \notin Entries(s)
                   PROVE  e \in Copies /\ ~(e[2] <= copies[e[1]])
        BY DEF Made
      <4>1. Second(e)
        BY <3>5, Zenon
      <4>2. e \in Copies /\ copies[e[1]] = 1 /\ e[2] > 1 /\ e[2] \in Nat
        BY <4>1
      <4> QED BY <4>2
    <3>7. Made' = Made \cup Entries(Sent(s, k))
      <4>1. ASSUME NEW e \in Copies, <<e[1], 1>> \in Entries(s)
            PROVE  /\ e \in Made' <=> e[2] <= k
                   /\ e \in Made => e \in Entries(Sent(s, k))
                   /\ e \in Entries(Sent(s, k)) <=> e[2] <= k
        <5>1. copies'[e[1]] = k /\ copies[e[1]] = 1 /\ e[1] \in Requests /\ e[2] \in 1..MaxSends
          BY <2>3, <3>3, <4>1 DEF Copies
        <5>2. e \in Requests \X (1..k) <=> e[2] <= k
          BY <3>2, <5>1 DEF Copies
        <5> QED BY <3>1, <3>2, <4>1, <5>1, <5>2 DEF Made
      <4>2. ASSUME NEW e \in Copies, <<e[1], 1>> \notin Entries(s)
            PROVE  /\ e \in Made' <=> e \in Made
                   /\ e \notin Entries(Sent(s, k))
        <5>1. copies'[e[1]] = copies[e[1]]
          BY <2>3, <4>2 DEF Copies
        <5> QED BY <3>1, <4>2, <5>1 DEF Made
      <4>3. Entries(Sent(s, k)) \subseteq Copies /\ Made \subseteq Copies /\ Made' \subseteq Copies
        BY <3>5 DEF Made, Copies
      <4> QED BY <4>1, <4>2, <4>3
    <3>8. Entries(Sent(s, k)) \cap Entries(list) = {}
      <4>1. Entries(list) \subseteq Made
        BY <1>1 DEF FiledInv, Filed, Held
      <4> QED BY <3>6, <4>1
    <3>9. /\ list' \in Seq(Copies) /\ Distinct(list')
          /\ Entries(list') = Entries(list) \cup Entries(Sent(s, k))
      BY <1>2, <2>3, <3>1, <3>8, EntriesConcat
    <3> QED BY <2>3, <3>4, <3>6, <3>7, <3>9
  <2>4. ASSUME NEW k \in 2..MaxSends,
               list' = list \o Sent(s, k), lost' = lost,
               copies' = [r \in Requests |->
                             IF <<r, 1>> \in Entries(s) THEN k ELSE copies[r]]
        PROVE  \E M : \E G \in SUBSET M : Pushed(M, G)
    <3>1. {} \in SUBSET Entries(Sent(s, k))
      OBVIOUS
    <3> QED BY <2>3, <2>4, <3>1, Zenon
  <2> QED BY <2>1, <2>2, <2>4, Zenon DEF Push
<1>14. PICK M : \E G \in SUBSET M : Pushed(M, G)
  BY <1>13
<1>3. PICK G \in SUBSET M : Pushed(M, G)
  BY <1>14
<1>4. \A r \in Copies : rows'[r] = IF r \in {} THEN rows[r] + 1 ELSE rows[r]
  OBVIOUS
<1>5. \A r \in M : (\E b \in X : r \in Entries(Files[b])) \/ r \in Copies \ Made
  BY <1>3
<1>6. \A b \in Boxes : Entries(Files[b]) \subseteq Made
  BY DEF FiledInv, Filed, Held
<1>7. /\ \A b \in Boxes : b \notin X /\ b # y => Files'[b] = Files[b]
      /\ \A b \in X : b # y =>
            Distinct(Files'[b]) /\ Entries(Files'[b]) = Entries(Files[b]) \ M
  <2>1. \A b \in X : Entries(Files[b]) \ Entries(s) = Entries(Files[b]) \ M
    BY <1>3, <1>6
  <2> QED BY <2>1
<1>8. Boxed'
  BY <1>3 DEF FiledInv, Boxed
<1>9. {} \in SUBSET M /\ {} \cap G = {}
  OBVIOUS
<1>10. /\ Distinct(Files'[y])
       /\ Entries(Files'[y]) = (Entries(Files[y]) \ M) \cup (M \ ({} \cup G))
  <2>1. Entries(list) \cap M = {}
    <3>1. Entries(list) \subseteq Made
      BY <1>1, <1>6
    <3> QED BY <1>3, <3>1
  <2> QED BY <1>1, <1>3, <2>1
<1>11. y \notin Boxes => M = {} \cup G
  BY <1>1
<1> HIDE DEF y
<1>12. Move(X, y, M, {}, G)
  BY <1>3, <1>4, <1>5, <1>7, <1>10, <1>11, Zenon DEF Move
<1> QED BY <1>3, <1>8, <1>9, <1>12, Refiled

\* ... or to the database in one transaction, or are lost.
LEMMA FlushKeeps ==
    ASSUME FiledInv, copies' = copies, NEW n \in Nodes,
           queue' \in [Nodes -> Seq(Copies)], batch' \in [Nodes -> Seq(Copies)],
           push' \in [Nodes -> Seq(Copies)], taken' \in [Nodes -> Seq(Copies)],
           list' \in Seq(Copies),
           NEW X \in SUBSET Boxes, NEW s \in Seq(Copies), Distinct(s), Flush(n, s),
           \A b \in Boxes : b \notin X => Files'[b] = Files[b],
           \A b \in X :
               Distinct(Files'[b]) /\ Entries(Files'[b]) = Entries(Files[b]) \ Entries(s),
           \A r \in Entries(s) : \E b \in X : r \in Entries(Files[b])
    PROVE  FiledInv'
<1> DEFINE M == Entries(s)
<1>1. PICK L \in SUBSET M :
          /\ \A r \in Copies : rows'[r] = IF r \in L THEN rows[r] + 1 ELSE rows[r]
          /\ lost' = lost \cup (M \ L)
  BY FlushWrites DEF FiledInv
<1>2. rows' \in [Copies -> Nat]
  BY FlushWrites DEF FiledInv
<1>3. Boxed'
  BY <1>2 DEF Boxed
<1>4. Made' = Made \cup M
  BY HeldMade, StillMade
<1>5. Nowhere \notin Boxes
  BY DEF Boxes, Nowhere
<1>6. \A r \in M : (\E b \in X : r \in Entries(Files[b])) \/ r \in Copies \ Made
  OBVIOUS
<1>7. /\ \A b \in Boxes : b \notin X /\ b # Nowhere => Files'[b] = Files[b]
      /\ \A b \in X : b # Nowhere =>
            Distinct(Files'[b]) /\ Entries(Files'[b]) = Entries(Files[b]) \ M
  OBVIOUS
<1>8. M = L \cup (M \ L) /\ M \ L \in SUBSET M /\ L \cap (M \ L) = {}
  OBVIOUS
<1> HIDE DEF M
<1>9. Move(X, Nowhere, M, L, M \ L)
  BY <1>1, <1>4, <1>5, <1>6, <1>7, <1>8, Zenon DEF Move
<1> QED BY <1>1, <1>3, <1>8, <1>9, Refiled

LEMMA TakeFiled == ASSUME FiledInv, Counted, NEW n \in Nodes, Take(n) PROVE FiledInv'
<1> DEFINE h == Head(queue[n])
           box == IF redis THEN <<"push", n>> ELSE <<"batch", n>>
           old == IF redis THEN push[n] ELSE batch[n]
           s == Append(old, h)
           X == {<<"queue", n>>, box}
<1>0. /\ queue[n] \in Seq(Copies) /\ Distinct(queue[n]) /\ queue[n] # <<>>
      /\ old \in Seq(Copies) /\ Distinct(old)
      /\ list \in Seq(Copies) /\ Distinct(list)
      /\ Entries(queue[n]) \cap Entries(old) = {}
      /\ Entries(queue[n]) \cap Entries(list) = {}
      /\ redis => Entries(old) \cap Entries(list) = {}
  BY OneBox DEF Take
<1>1. /\ Tail(queue[n]) \in Seq(Copies) /\ h \in Copies /\ h \in Entries(queue[n])
      /\ Entries(Tail(queue[n])) = Entries(queue[n]) \ {h}
      /\ Distinct(Tail(queue[n]))
  BY <1>0, EntriesTail
<1>2. /\ s \in Seq(Copies) /\ Entries(s) = Entries(old) \cup {h} /\ Distinct(s)
  BY <1>0, <1>1, EntriesAppend
<1>3. /\ queue' = [queue EXCEPT ![n] = Tail(queue[n])] /\ taken' = taken
      /\ redis => batch' = batch /\ rows' = rows
      /\ ~redis => push' = push /\ list' = list /\ copies' = copies
  BY DEF Take, Still
<1>4. /\ queue' \in [Nodes -> Seq(Copies)] /\ queue'[n] = Tail(queue[n])
      /\ \A m \in Nodes : m # n => queue'[m] = queue[m]
  BY <1>1, <1>3 DEF FiledInv, Boxed
<1>5. X \in SUBSET Boxes /\ <<"list", "shared">> \in Boxes /\ box \in Boxes
  BY FilesAt
<1>6. /\ Files[<<"queue", n>>] = queue[n] /\ Files'[<<"queue", n>>] = Tail(queue[n])
      /\ Files[box] = old
  BY <1>4, FilesAt
<1>7. /\ <<"queue", n>> # box /\ <<"list", "shared">> \notin X
  OBVIOUS
<1> HIDE DEF s, old, h
<1>10. CASE redis /\ Len(s) >= PushSize
  <2>1. Push(n, s) /\ push' = [push EXCEPT ![n] = <<>>] /\ batch' = batch /\ rows' = rows
    BY <1>10 DEF Take, s, old, h
  <2>2. /\ push' \in [Nodes -> Seq(Copies)] /\ push'[n] = <<>>
        /\ \A m \in Nodes : m # n => push'[m] = push[m]
    BY <2>1, EntriesEmpty DEF FiledInv, Boxed
  <2>3. Files'[box] = <<>>
    BY <1>10, <2>2, FilesAt
  <2>4. \A b \in X : Distinct(Files'[b]) /\ Entries(Files'[b]) = Entries(Files[b]) \ Entries(s)
    BY <1>0, <1>1, <1>2, <1>6, <2>3, EntriesEmpty
  <2>5. \A r \in Entries(s) : \E b \in X : r \in Entries(Files[b])
    BY <1>1, <1>2, <1>6
  <2>6. \A b \in Boxes : b \notin X /\ b # <<"list", "shared">> => Files'[b] = Files[b]
    <3>1. \A b \in Boxes : b \notin X \cup {<<"list", "shared">>} => Files'[b] = Files[b]
      BY ZenonT(40), <1>3, <1>4, <1>10, <2>1, <2>2, FilesElsewhere
    <3> QED BY <3>1
  <2>7. /\ queue' \in [Nodes -> Seq(Copies)] /\ batch' \in [Nodes -> Seq(Copies)]
        /\ push' \in [Nodes -> Seq(Copies)] /\ taken' \in [Nodes -> Seq(Copies)]
    BY <1>3, <1>4, <2>1, <2>2 DEF FiledInv, Boxed
  <2>8. Entries(s) \cap Entries(list) = {}
    BY <1>0, <1>1, <1>2, <1>10
  <2>9. \A e \in Entries(s) : First(e)
    BY <1>1, <1>2, <1>10 DEF Counted, Waiting, old
  <2> HIDE DEF X
  <2> QED BY ZenonT(40), <1>2, <1>5, <1>7, <2>1, <2>4, <2>5, <2>6, <2>7, <2>8, <2>9, PushKeeps
<1>11. CASE ~redis /\ Len(s) >= BatchSize
  <2>1. Flush(n, s) /\ batch' = [batch EXCEPT ![n] = <<>>] /\ push' = push /\ list' = list
    BY <1>11 DEF Take, s, old, h
  <2>2. /\ batch' \in [Nodes -> Seq(Copies)] /\ batch'[n] = <<>>
        /\ \A m \in Nodes : m # n => batch'[m] = batch[m]
    BY <2>1, EntriesEmpty DEF FiledInv, Boxed
  <2>3. Files'[box] = <<>>
    BY <1>11, <2>2, FilesAt
  <2>4. \A b \in X : Distinct(Files'[b]) /\ Entries(Files'[b]) = Entries(Files[b]) \ Entries(s)
    BY <1>0, <1>1, <1>2, <1>6, <2>3, EntriesEmpty
  <2>5. \A r \in Entries(s) : \E b \in X : r \in Entries(Files[b])
    BY <1>1, <1>2, <1>6
  <2>6. \A b \in Boxes : b \notin X => Files'[b] = Files[b]
    BY <1>3, <1>4, <1>11, <2>1, <2>2, FilesElsewhere
  <2>7. /\ queue' \in [Nodes -> Seq(Copies)] /\ batch' \in [Nodes -> Seq(Copies)]
        /\ push' \in [Nodes -> Seq(Copies)] /\ taken' \in [Nodes -> Seq(Copies)]
        /\ list' \in Seq(Copies)
    BY <1>3, <1>4, <2>1, <2>2 DEF FiledInv, Boxed
  <2>8. copies' = copies /\ Flush(n, s)
    BY <1>3, <1>11, <2>1
  <2> HIDE DEF X
  <2> QED BY ZenonT(40), <1>2, <1>5, <2>4, <2>5, <2>6, <2>7, <2>8, FlushKeeps
<1>12. CASE (redis /\ ~(Len(s) >= PushSize)) \/ (~redis /\ ~(Len(s) >= BatchSize))
  <2> DEFINE M == {h}
  <2>1. /\ IF redis THEN push' = [push EXCEPT ![n] = s] /\ batch' = batch
           ELSE batch' = [batch EXCEPT ![n] = s] /\ push' = push
        /\ list' = list /\ rows' = rows /\ lost' = lost /\ copies' = copies
    BY <1>12 DEF Take, s, old, h
  <2>2. /\ batch' \in [Nodes -> Seq(Copies)] /\ push' \in [Nodes -> Seq(Copies)]
        /\ \A m \in Nodes : m # n => batch'[m] = batch[m] /\ push'[m] = push[m]
        /\ IF redis THEN push'[n] = s /\ batch'[n] = batch[n]
           ELSE batch'[n] = s /\ push'[n] = push[n]
    BY <1>2, <2>1 DEF FiledInv, Boxed
  <2>3. Files'[box] = s
    BY <2>2, FilesAt
  <2>4. Boxed'
    BY <1>3, <1>4, <2>1, <2>2 DEF FiledInv, Boxed
  <2>5. \A b \in Boxes : b \notin X => Files'[b] = Files[b]
    BY <1>3, <1>4, <2>1, <2>2, FilesElsewhere
  <2>6. \A b \in X : b # box =>
            Distinct(Files'[b]) /\ Entries(Files'[b]) = Entries(Files[b]) \ M
    BY <1>1, <1>6
  <2>7. \A r \in M : \E b \in X : r \in Entries(Files[b])
    BY <1>1, <1>6
  <2>8. Distinct(Files'[box]) /\ Entries(Files'[box]) = Entries(Files[box]) \cup M
    BY <1>2, <1>6, <2>3
  <2>9. \A b \in Boxes : b \notin X /\ b # box => Files'[b] = Files[b]
    BY <2>5
  <2>10. rows' = rows /\ lost' = lost /\ copies' = copies
    BY <2>1
  <2> HIDE DEF X, box, M
  <2>11. Hop(X, box, M)
    BY <2>6, <2>7, <2>8, <2>9, Zenon DEF Hop
  <2> QED BY <1>5, <2>4, <2>10, <2>11, MoveTo
<1> QED BY <1>10, <1>11, <1>12


\* The entries M of the boxes X are lost, with nothing written.
LEMMA LoseKeeps ==
    ASSUME FiledInv, Boxed', rows' = rows, Made' = Made,
           NEW X \in SUBSET Boxes, \A b \in Boxes : b \notin X => Files'[b] = Files[b],
           NEW M, lost' = lost \cup M,
           \A b \in X : Distinct(Files'[b]) /\ Entries(Files'[b]) = Entries(Files[b]) \ M,
           \A r \in M : \E b \in X : r \in Entries(Files[b])
    PROVE  FiledInv'
<1>1. Nowhere \notin Boxes
  BY DEF Boxes, Nowhere
<1>2. /\ \A b \in Boxes : b \notin X /\ b # Nowhere => Files'[b] = Files[b]
      /\ \A b \in X : b # Nowhere =>
            Distinct(Files'[b]) /\ Entries(Files'[b]) = Entries(Files[b]) \ M
      /\ \A r \in M : (\E b \in X : r \in Entries(Files[b])) \/ r \in Copies \ Made
      /\ \A r \in Copies : rows'[r] = IF r \in {} THEN rows[r] + 1 ELSE rows[r]
      /\ M = {} \cup M
  OBVIOUS
<1>3. Made' = Made \cup M
  BY HeldMade
<1>4. Move(X, Nowhere, M, {}, M)
  BY <1>1, <1>2, <1>3, Zenon DEF Move
<1>5. {} \in SUBSET M /\ M \in SUBSET M /\ {} \cap M = {}
  OBVIOUS
<1> QED BY <1>4, <1>5, Refiled

\* Nothing is moved.
LEMMA UntouchedKeeps ==
    ASSUME FiledInv, Boxed', Files' = Files, rows' = rows, lost' = lost,
           Made' = Made
    PROVE  FiledInv'
BY DEF FiledInv, Filed, Held, Logged

\* With Redis nothing is kept for the database, without it nothing for Redis.
OneKind == \A n \in Nodes : IF redis THEN batch[n] = <<>> ELSE push[n] = <<>>

\* The worker, at its ticks and at its end, the consumer, and a handler.
LEMMA WorkerTickFiled ==
    ASSUME FiledInv, Counted, NEW n \in Nodes, WorkerTick(n) PROVE FiledInv'
<1>0. /\ push[n] \in Seq(Copies) /\ Distinct(push[n])
      /\ batch[n] \in Seq(Copies) /\ Distinct(batch[n])
      /\ Entries(push[n]) \cap Entries(list) = {}
  BY OneBox
<1>1. queue' = queue /\ taken' = taken
  BY DEF WorkerTick
<1>2. CASE /\ push' = [push EXCEPT ![n] = <<>>]
           /\ Push(n, push[n])
           /\ UNCHANGED <<batch, rows>>
  <2> DEFINE X == {<<"push", n>>}
  <2>1. push' \in [Nodes -> Seq(Copies)] /\ push'[n] = <<>>
        /\ \A m \in Nodes : m # n => push'[m] = push[m]
    BY <1>2, EntriesEmpty DEF FiledInv, Boxed
  <2>2. X \in SUBSET Boxes /\ <<"list", "shared">> \notin X
    BY FilesAt
  <2>3. \A b \in Boxes : b \notin X \cup {<<"list", "shared">>} => Files'[b] = Files[b]
    BY <1>1, <1>2, <2>1, FilesElsewhere
  <2>4. Files[<<"push", n>>] = push[n] /\ Files'[<<"push", n>>] = <<>>
    BY <2>1, FilesAt
  <2>5. \A b \in X :
            Distinct(Files'[b]) /\ Entries(Files'[b]) = Entries(Files[b]) \ Entries(push[n])
    BY <2>4, EntriesEmpty
  <2>6. \A r \in Entries(push[n]) : \E b \in X : r \in Entries(Files[b])
    BY <2>4
  <2>7. \A b \in Boxes : b \notin X /\ b # <<"list", "shared">> => Files'[b] = Files[b]
    BY <2>3
  <2>8. /\ queue' \in [Nodes -> Seq(Copies)] /\ batch' \in [Nodes -> Seq(Copies)]
        /\ taken' \in [Nodes -> Seq(Copies)]
    BY <1>1, <1>2 DEF FiledInv, Boxed
  <2>9. rows' = rows /\ Push(n, push[n])
    BY <1>2
  <2>10. \A e \in Entries(push[n]) : First(e)
    BY DEF Counted, Waiting
  <2> HIDE DEF X
  <2> QED BY ZenonT(40), <2>10, <1>0, <2>9, <2>1, <2>2, <2>5, <2>6, <2>7, <2>8, PushKeeps
<1>3. CASE /\ batch' = [batch EXCEPT ![n] = <<>>]
           /\ Flush(n, batch[n])
           /\ UNCHANGED <<push, list, copies>>
  <2> DEFINE X == {<<"batch", n>>}
  <2>1. batch' \in [Nodes -> Seq(Copies)] /\ batch'[n] = <<>>
        /\ \A m \in Nodes : m # n => batch'[m] = batch[m]
    BY <1>3, EntriesEmpty DEF FiledInv, Boxed
  <2>2. X \in SUBSET Boxes
    BY FilesAt
  <2>3. \A b \in Boxes : b \notin X => Files'[b] = Files[b]
    BY <1>1, <1>3, <2>1, FilesElsewhere
  <2>4. Files[<<"batch", n>>] = batch[n] /\ Files'[<<"batch", n>>] = <<>>
    BY <2>1, FilesAt
  <2>5. \A b \in X :
            Distinct(Files'[b]) /\ Entries(Files'[b]) = Entries(Files[b]) \ Entries(batch[n])
    BY <2>4, EntriesEmpty
  <2>6. \A r \in Entries(batch[n]) : \E b \in X : r \in Entries(Files[b])
    BY <2>4
  <2>7. /\ queue' \in [Nodes -> Seq(Copies)] /\ push' \in [Nodes -> Seq(Copies)]
        /\ taken' \in [Nodes -> Seq(Copies)] /\ list' \in Seq(Copies)
    BY <1>1, <1>3 DEF FiledInv, Boxed
  <2>8. copies' = copies /\ Flush(n, batch[n])
    BY <1>1, <1>3
  <2> HIDE DEF X
  <2> QED BY <1>0, <2>8, <2>1, <2>2, <2>3, <2>5, <2>6, <2>7, FlushKeeps
<1> QED BY <1>2, <1>3 DEF WorkerTick

LEMMA WorkerEndFiled ==
    ASSUME FiledInv, Counted, OneKind, NEW n \in Nodes, WorkerEnd(n) PROVE FiledInv'
<1> DEFINE X == {<<"push", n>>, <<"batch", n>>}
<1>0. /\ push[n] \in Seq(Copies) /\ Distinct(push[n])
      /\ batch[n] \in Seq(Copies) /\ Distinct(batch[n])
      /\ Entries(push[n]) \cap Entries(list) = {}
  BY OneBox
<1>1. /\ queue' = queue /\ taken' = taken
      /\ push' = [push EXCEPT ![n] = <<>>] /\ batch' = [batch EXCEPT ![n] = <<>>]
  BY DEF WorkerEnd
<1>2. /\ push' \in [Nodes -> Seq(Copies)] /\ push'[n] = <<>>
      /\ batch' \in [Nodes -> Seq(Copies)] /\ batch'[n] = <<>>
      /\ \A m \in Nodes : m # n => push'[m] = push[m] /\ batch'[m] = batch[m]
  BY <1>1, EntriesEmpty DEF FiledInv, Boxed
<1>3. /\ queue' \in [Nodes -> Seq(Copies)] /\ taken' \in [Nodes -> Seq(Copies)]
      /\ list \in Seq(Copies) /\ rows \in [Copies -> Nat]
  BY <1>1 DEF FiledInv, Boxed
<1>4. X \in SUBSET Boxes /\ <<"list", "shared">> \notin X
  BY FilesAt
<1>5. /\ Files[<<"push", n>>] = push[n] /\ Files'[<<"push", n>>] = <<>>
      /\ Files[<<"batch", n>>] = batch[n] /\ Files'[<<"batch", n>>] = <<>>
  BY <1>2, FilesAt
<1>6. \A b \in X : Distinct(Files'[b]) /\ Entries(Files'[b]) = {}
  BY <1>5, EntriesEmpty
<1>7. \A r \in Entries(push[n]) : \E b \in X : r \in Entries(Files[b])
  BY <1>5
<1>8. \A r \in Entries(batch[n]) : \E b \in X : r \in Entries(Files[b])
  BY <1>5
<1>9. \A b \in Boxes : b \notin X \cup {<<"list", "shared">>} => Files'[b] = Files[b]
  BY <1>1, <1>2, FilesElsewhere
<1>10. list' = list => \A b \in Boxes : b \notin X => Files'[b] = Files[b]
  <2>1. Files[<<"list", "shared">>] = list /\ Files'[<<"list", "shared">>] = list'
    BY FilesAt
  <2> QED BY <1>9, <2>1
<1> HIDE DEF X
<1>11. CASE /\ list' = list /\ copies' = copies /\ rows' = rows /\ lost' = lost
            /\ push[n] = <<>> /\ batch[n] = <<>>
  <2>1. Boxed'
    BY <1>2, <1>3, <1>11 DEF Boxed
  <2>2. Files' = Files
    BY <1>1, <1>2, <1>3, <1>11 DEF Files, FiledInv, Boxed
  <2> QED BY <1>1, <1>11, <2>1, <2>2, StillMade, UntouchedKeeps
<1>14. /\ queue' \in [Nodes -> Seq(Copies)] /\ batch' \in [Nodes -> Seq(Copies)]
       /\ push' \in [Nodes -> Seq(Copies)] /\ taken' \in [Nodes -> Seq(Copies)]
  BY <1>2, <1>3
<1>12. CASE Push(n, push[n]) /\ rows' = rows /\ batch[n] = <<>>
  <2>1. \A b \in X :
            Distinct(Files'[b]) /\ Entries(Files'[b]) = Entries(Files[b]) \ Entries(push[n])
    BY <1>5, <1>6, <1>12, EntriesEmpty DEF X
  <2>2. \A b \in Boxes : b \notin X /\ b # <<"list", "shared">> => Files'[b] = Files[b]
    BY <1>9
  <2>3. rows' = rows /\ Push(n, push[n])
    BY <1>12
  <2>4. \A e \in Entries(push[n]) : First(e)
    BY DEF Counted, Waiting
  <2> QED BY ZenonT(40), <2>4, <1>0, <1>14, <1>4, <1>7, <2>1, <2>2, <2>3, PushKeeps
<1>13. CASE Flush(n, batch[n]) /\ list' = list /\ copies' = copies /\ push[n] = <<>>
  <2>1. \A b \in X :
            Distinct(Files'[b]) /\ Entries(Files'[b]) = Entries(Files[b]) \ Entries(batch[n])
    BY <1>5, <1>6, <1>13, EntriesEmpty DEF X
  <2>2. \A b \in Boxes : b \notin X => Files'[b] = Files[b]
    BY <1>10, <1>13
  <2>3. list' \in Seq(Copies) /\ copies' = copies /\ Flush(n, batch[n])
    BY <1>3, <1>13
  <2> QED BY ZenonT(40), <1>0, <1>14, <1>4, <1>8, <2>1, <2>2, <2>3, FlushKeeps
<1> QED BY <1>11, <1>12, <1>13 DEF WorkerEnd, FlushTo, OneKind

LEMMA ConsumerFiled ==
    ASSUME FiledInv, NEW n \in Nodes, ConsumerTick(n) \/ ConsumerEnd(n) PROVE FiledInv'
<1> DEFINE X == {<<"taken", n>>}
<1>0. taken[n] \in Seq(Copies) /\ Distinct(taken[n])
  BY OneBox
<1>1. /\ queue' = queue /\ batch' = batch /\ push' = push /\ list' = list /\ copies' = copies
      /\ taken' = [taken EXCEPT ![n] = <<>>]
  BY DEF ConsumerTick, ConsumerEnd, ByConsumer
<1>2. /\ taken' \in [Nodes -> Seq(Copies)] /\ taken'[n] = <<>>
      /\ \A m \in Nodes : m # n => taken'[m] = taken[m]
  BY <1>1, EntriesEmpty DEF FiledInv, Boxed
<1>3. /\ queue' \in [Nodes -> Seq(Copies)] /\ batch' \in [Nodes -> Seq(Copies)]
      /\ push' \in [Nodes -> Seq(Copies)] /\ list' \in Seq(Copies)
      /\ rows \in [Copies -> Nat]
  BY <1>1 DEF FiledInv, Boxed
<1>4. X \in SUBSET Boxes
  BY FilesAt
<1>5. Files[<<"taken", n>>] = taken[n] /\ Files'[<<"taken", n>>] = <<>>
  BY <1>2, FilesAt
<1>6. \A b \in X : Distinct(Files'[b]) /\ Entries(Files'[b]) = {}
  BY <1>5, EntriesEmpty
<1>7. \A r \in Entries(taken[n]) : \E b \in X : r \in Entries(Files[b])
  BY <1>5
<1>8. \A b \in Boxes : b \notin X => Files'[b] = Files[b]
  BY <1>1, <1>2, FilesElsewhere
<1> HIDE DEF X
<1>9. CASE rows' = rows /\ lost' = lost /\ taken[n] = <<>>
  <2>1. Boxed'
    BY <1>2, <1>3, <1>9 DEF Boxed
  <2>2. Files' = Files
    BY <1>1, <1>2, <1>9 DEF Files, FiledInv, Boxed
  <2> QED BY <1>1, <1>9, <2>1, <2>2, StillMade, UntouchedKeeps
<1>10. CASE Flush(n, taken[n])
  <2>1. \A b \in X :
            Distinct(Files'[b]) /\ Entries(Files'[b]) = Entries(Files[b]) \ Entries(taken[n])
    BY <1>5, <1>6 DEF X
  <2> QED BY <1>0, <1>1, <1>2, <1>3, <1>4, <1>7, <1>8, <1>10, <2>1, FlushKeeps
<1> QED BY <1>9, <1>10 DEF ConsumerTick, ConsumerEnd, FlushTo

LEMMA PopFiled ==
    ASSUME FiledInv, NEW n \in Nodes, Pop(n) \/ LastPop(n) \/ PopLost(n) PROVE FiledInv'
<1> DEFINE h == Head(list)
           s == Append(taken[n], h)
           X == {<<"list", "shared">>, <<"taken", n>>}
<1>0. /\ taken[n] \in Seq(Copies) /\ Distinct(taken[n])
      /\ list \in Seq(Copies) /\ Distinct(list) /\ list # <<>>
      /\ Entries(list) \cap Entries(taken[n]) = {}
  BY OneBox DEF Pop, LastPop, PopLost
<1>1. /\ Tail(list) \in Seq(Copies) /\ h \in Copies /\ h \in Entries(list)
      /\ Entries(Tail(list)) = Entries(list) \ {h}
      /\ Distinct(Tail(list))
  BY <1>0, EntriesTail
<1>2. s \in Seq(Copies) /\ Entries(s) = Entries(taken[n]) \cup {h} /\ Distinct(s)
  BY <1>0, <1>1, EntriesAppend
<1>3. /\ queue' = queue /\ batch' = batch /\ push' = push /\ copies' = copies
      /\ list' = Tail(list)
  BY DEF Pop, LastPop, PopLost, ByConsumer
<1>4. /\ queue' \in [Nodes -> Seq(Copies)] /\ batch' \in [Nodes -> Seq(Copies)]
      /\ push' \in [Nodes -> Seq(Copies)] /\ list' \in Seq(Copies)
      /\ rows \in [Copies -> Nat]
  BY <1>1, <1>3 DEF FiledInv, Boxed
<1>5. X \in SUBSET Boxes
  BY FilesAt
<1>6. /\ Files[<<"list", "shared">>] = list /\ Files'[<<"list", "shared">>] = Tail(list)
      /\ Files[<<"taken", n>>] = taken[n] /\ Files'[<<"taken", n>>] = taken'[n]
  BY <1>3, FilesAt
<1> HIDE DEF s, h
<1>8. CASE Flush(n, s) /\ taken' = [taken EXCEPT ![n] = <<>>]
  <2>1. /\ taken' \in [Nodes -> Seq(Copies)] /\ taken'[n] = <<>>
        /\ \A m \in Nodes : m # n => taken'[m] = taken[m]
    BY <1>8, EntriesEmpty DEF FiledInv, Boxed
  <2>2. \A b \in X :
            Distinct(Files'[b]) /\ Entries(Files'[b]) = Entries(Files[b]) \ Entries(s)
    BY <1>0, <1>1, <1>2, <1>6, <2>1, EntriesEmpty
  <2>3. \A r \in Entries(s) : \E b \in X : r \in Entries(Files[b])
    BY <1>1, <1>2, <1>6
  <2>4. \A b \in Boxes : b \notin X => Files'[b] = Files[b]
    BY <1>3, <2>1, FilesElsewhere
  <2>5. copies' = copies /\ Flush(n, s)
    BY <1>3, <1>8
  <2> HIDE DEF X
  <2> QED BY <1>2, <1>4, <1>5, <2>1, <2>2, <2>3, <2>4, <2>5, FlushKeeps
<1>9. CASE rows' = rows /\ lost' = lost /\ taken' = [taken EXCEPT ![n] = s]
  <2> DEFINE Y == {<<"list", "shared">>}
             y == <<"taken", n>>
             M == {h}
  <2>1. /\ taken' \in [Nodes -> Seq(Copies)] /\ taken'[n] = s
        /\ \A m \in Nodes : m # n => taken'[m] = taken[m]
    BY <1>2, <1>9 DEF FiledInv, Boxed
  <2>2. \A b \in Boxes : b \notin X => Files'[b] = Files[b]
    BY <1>3, <2>1, FilesElsewhere
  <2>3. \A b \in Boxes : b \notin Y /\ b # y => Files'[b] = Files[b]
    BY <2>2
  <2>4. \A b \in Y : b # y =>
            Distinct(Files'[b]) /\ Entries(Files'[b]) = Entries(Files[b]) \ M
    BY <1>1, <1>6
  <2>5. Distinct(Files'[y]) /\ Entries(Files'[y]) = Entries(Files[y]) \cup M
    BY <1>2, <1>6, <2>1
  <2>6. \A r \in M : \E b \in Y : r \in Entries(Files[b])
    BY <1>1, <1>6
  <2>7. Y \in SUBSET Boxes /\ y \in Boxes
    BY FilesAt
  <2>8. Boxed'
    BY <1>4, <1>9, <2>1 DEF Boxed
  <2>9. copies' = copies /\ rows' = rows /\ lost' = lost
    BY <1>3, <1>9
  <2> HIDE DEF Y, y, M
  <2>10. Hop(Y, y, M)
    BY <2>3, <2>4, <2>5, <2>6, Zenon DEF Hop
  <2> QED BY <2>7, <2>8, <2>9, <2>10, MoveTo
<1>10. CASE rows' = rows /\ taken' = taken /\ lost' = lost \cup {h}
  <2> DEFINE Y == {<<"list", "shared">>}
  <2>1. \A b \in Boxes : b \notin Y => Files'[b] = Files[b]
    BY <1>3, <1>10, FilesElsewhere
  <2>2. \A b \in Y : Distinct(Files'[b]) /\ Entries(Files'[b]) = Entries(Files[b]) \ {h}
    BY <1>1, <1>6
  <2>3. Y \in SUBSET Boxes
    BY FilesAt
  <2>4. Boxed'
    BY <1>4, <1>10 DEF FiledInv, Boxed
  <2>5. \A r \in {h} : \E b \in Y : r \in Entries(Files[b])
    BY <1>1, <1>6
  <2> HIDE DEF Y
  <2> QED BY <1>3, <1>10, <2>1, <2>2, <2>3, <2>4, <2>5, StillMade, LoseKeeps
<1> QED BY <1>8, <1>9, <1>10 DEF Pop, LastPop, PopLost, s, h


LEMMA ServeFiled ==
    ASSUME FiledInv, Awaited, NEW r \in Requests, NEW n \in Nodes, NEW who \in Callers,
           Serve(r, n, who)
    PROVE  FiledInv'
<1>1. UNCHANGED <<queue, batch, push, taken, list, rows, lost>>
  BY DEF Serve, memory
<1>2. Made' = Made
  BY StillMade DEF Serve
<1>3. Boxed' /\ Files' = Files
  BY <1>1 DEF FiledInv, Boxed, Files
<1> QED BY <1>1, <1>2, <1>3, UntouchedKeeps

LEMMA MainFiled ==
    ASSUME FiledInv, NEW n \in Nodes, Signal(n) \/ Cancel(n) \/ Close(n)
    PROVE  FiledInv'
<1>1. UNCHANGED <<queue, batch, push, taken, list, rows, copies, lost>>
  BY DEF Signal, Cancel, Close, Logs, memory
<1>2. Made' = Made
  BY <1>1, StillMade
<1>3. Boxed' /\ Files' = Files
  BY <1>1 DEF FiledInv, Boxed, Files
<1> QED BY <1>1, <1>2, <1>3, UntouchedKeeps

LEMMA DieFiled == ASSUME FiledInv, NEW n \in Nodes, Die(n) PROVE FiledInv'
<1> DEFINE X == {<<"queue", n>>, <<"batch", n>>, <<"push", n>>, <<"taken", n>>}
           M == Entries(queue[n] \o batch[n] \o push[n] \o taken[n])
<1>1. /\ queue' = [queue EXCEPT ![n] = <<>>] /\ batch' = [batch EXCEPT ![n] = <<>>]
      /\ push' = [push EXCEPT ![n] = <<>>]   /\ taken' = [taken EXCEPT ![n] = <<>>]
      /\ list' = list /\ rows' = rows /\ lost' = lost \cup M
      /\ req' = [r \in Requests |-> IF r \in Active(n) THEN [step |-> "cut"] ELSE req[r]]
  BY DEF Die
<1>2. /\ queue'[n] = <<>> /\ batch'[n] = <<>> /\ push'[n] = <<>> /\ taken'[n] = <<>>
      /\ \A m \in Nodes : m # n => /\ queue'[m] = queue[m] /\ batch'[m] = batch[m]
                                   /\ push'[m] = push[m] /\ taken'[m] = taken[m]
  BY <1>1 DEF FiledInv, Boxed
<1>3. Boxed'
  BY <1>1, EntriesEmpty DEF FiledInv, Boxed
<1>4. Made' = Made
  BY StillMade DEF Die
<1>5. X \in SUBSET Boxes
  BY FilesAt
<1>6. \A b \in Boxes : b \notin X => Files'[b] = Files[b]
  BY <1>1, <1>2, FilesElsewhere
<1>7. M = Entries(queue[n]) \cup Entries(batch[n]) \cup Entries(push[n]) \cup Entries(taken[n])
  BY OneBox, EntriesOfFour
<1>8. /\ \A b \in X : Files'[b] = <<>> /\ Entries(Files[b]) \subseteq M
      /\ \A r \in M : \E b \in X : r \in Entries(Files[b])
  BY <1>2, <1>7, FilesAt
<1>9. \A b \in X : Distinct(Files'[b]) /\ Entries(Files'[b]) = Entries(Files[b]) \ M
  BY <1>8, EntriesEmpty
<1> HIDE DEF X, M
<1> QED BY <1>1, <1>3, <1>4, <1>5, <1>6, <1>8, <1>9, LoseKeeps

\* The handler ends, and what it hands over is in no box yet.
LEMMA EmitFiled ==
    ASSUME FiledInv, Awaited, Counted, NEW r \in Requests, Emit(r) PROVE FiledInv'
<1> DEFINE n == req[r].node
           y == <<"queue", n>>
           e == <<r, 1>>
<1>1. On(r, "serving") /\ n \in Nodes
  BY DEF Emit, Awaited
<1>2. Made' = Made \cup {e} /\ e \in Copies \ Made
  <2>1. /\ copies \in [Requests -> 0..MaxSends] /\ copies[r] = 0
        /\ copies' = [copies EXCEPT ![r] = 1] /\ MaxSends \in 1..4
    <3>1. r \notin HandedOver
      BY <1>1 DEF HandedOver, On
    <3>2. copies[r] \in 0..MaxSends /\ ~(copies[r] > 0)
      BY <3>1 DEF Counted
    <3> QED BY <3>2, SomeSends DEF Counted, Emit
  <2>2. e \in Copies /\ e \notin Made
    BY <2>1 DEF Copies, Made
  <2>3. ASSUME NEW f \in Copies PROVE f \in Made' <=> f \in Made \/ f = e
    <3>1. f = <<f[1], f[2]>> /\ f[1] \in Requests /\ f[2] \in 1..MaxSends
      BY DEF Copies
    <3>2. CASE f[1] = r
      <4>1. (f[2] <= copies'[f[1]] <=> f[2] = 1) /\ ~(f[2] <= copies[f[1]])
        BY <2>1, <3>1, <3>2
      <4>2. f[2] = 1 <=> f = e
        BY <3>1, <3>2
      <4> QED BY <4>1, <4>2 DEF Made
    <3>3. CASE f[1] # r
      BY <2>1, <3>1, <3>3 DEF Made
    <3> QED BY <3>2, <3>3
  <2>4. Made \subseteq Copies /\ Made' \subseteq Copies
    BY DEF Made, Copies
  <2> HIDE DEF e
  <2> QED BY <2>2, <2>3, <2>4
<1>3. UNCHANGED <<batch, push, taken, list, rows>>
  BY DEF Emit
<1>4. queue[n] \in Seq(Copies) /\ Distinct(queue[n])
  BY <1>1, OneBox
<1>5. e \notin Entries(queue[n])
  <2>1. e \notin Held
    BY <1>2 DEF FiledInv, Filed
  <2>2. e \notin Entries(Files[y])
    BY <1>1, <2>1, FilesAt DEF Held
  <2> QED BY <1>1, <2>2, FilesAt
<1>9. \/ queue' = queue /\ lost' = lost \cup {e}
      \/ queue' = [queue EXCEPT ![n] = Append(queue[n], e)] /\ lost' = lost
  BY DEF Emit
<1> HIDE DEF e
<1>6. /\ \A q \in {e} : (\E b \in {} : q \in Entries(Files[b])) \/ q \in Copies \ Made
      /\ \A q \in Copies : rows'[q] = IF q \in {} THEN rows[q] + 1 ELSE rows[q]
      /\ {} \in SUBSET {e} /\ {e} \in SUBSET {e} /\ {} \in SUBSET Boxes
      /\ {} \cap {} = {} /\ {} \cap {e} = {}
  BY <1>2, <1>3
<1>7. CASE queue' = queue /\ lost' = lost \cup {e}
  <2>1. Boxed' /\ Files' = Files
    BY <1>3, <1>7 DEF FiledInv, Boxed, Files
  <2>2. Nowhere \notin Boxes
    BY DEF Boxes, Nowhere
  <2>3. /\ \A b \in Boxes : b \notin {} /\ b # Nowhere => Files'[b] = Files[b]
        /\ \A b \in {} : b # Nowhere =>
              Distinct(Files'[b]) /\ Entries(Files'[b]) = Entries(Files[b]) \ {e}
        /\ {e} = {} \cup {e}
    BY <2>1
  <2>4. Move({}, Nowhere, {e}, {}, {e})
    BY <1>2, <1>6, <1>7, <2>2, <2>3, Zenon DEF Move
  <2> QED BY <1>6, <2>1, <2>4, Refiled
<1>8. CASE queue' = [queue EXCEPT ![n] = Append(queue[n], e)] /\ lost' = lost
  <2>1. /\ Append(queue[n], e) \in Seq(Copies) /\ Distinct(Append(queue[n], e))
        /\ Entries(Append(queue[n], e)) = Entries(queue[n]) \cup {e}
    BY <1>2, <1>4, <1>5, EntriesAppend
  <2>2. /\ queue' \in [Nodes -> Seq(Copies)] /\ queue'[n] = Append(queue[n], e)
        /\ \A m \in Nodes : m # n => queue'[m] = queue[m]
    BY <1>1, <1>8, <2>1 DEF FiledInv, Boxed
  <2>3. Boxed'
    BY <1>3, <2>2 DEF FiledInv, Boxed
  <2>4. \A b \in Boxes : b \notin {y} => Files'[b] = Files[b]
    BY <1>3, <2>2, FilesElsewhere
  <2>5. /\ \A b \in Boxes : b \notin {} /\ b # y => Files'[b] = Files[b]
        /\ \A b \in {} : b # y =>
              Distinct(Files'[b]) /\ Entries(Files'[b]) = Entries(Files[b]) \ {e}
        /\ lost' = lost \cup {}
    BY <1>8, <2>4
  <2>6. Files[y] = queue[n] /\ Files'[y] = queue'[n] /\ y \in Boxes
    BY <1>1, FilesAt
  <2>7. /\ Distinct(Files'[y])
        /\ Entries(Files'[y]) = (Entries(Files[y]) \ {e}) \cup ({e} \ ({} \cup {}))
    BY <2>1, <2>2, <2>6, <1>5
  <2>8. y \notin Boxes => {e} = {} \cup {}
    BY <2>6
  <2> HIDE DEF y
  <2>9. Move({}, y, {e}, {}, {})
    BY <1>2, <1>6, <2>5, <2>7, <2>8, Zenon DEF Move
  <2> QED BY <1>6, <2>3, <2>9, Refiled
<1> QED BY <1>7, <1>8, <1>9

-----------------------------------------------------------------------------
LEMMA CountedInit == Init => Counted
<1> SUFFICES ASSUME Init PROVE Counted
  OBVIOUS
<1>1. /\ redis \in BOOLEAN /\ faults = 0 /\ copies = [r \in Requests |-> 0]
      /\ HandedOver = {}
  BY DEF Init, HandedOver, On
<1>2. copies \in [Requests -> 0..MaxSends] /\ \A r \in Requests : copies[r] = 0
  BY <1>1, SomeSends
<1>3. Waiting = {}
  BY EntriesEmpty DEF Init, Waiting
<1> QED BY <1>1, <1>2, <1>3 DEF Counted

LEMMA WaitingElsewhere == FiledInv => Waiting \cap Entries(list) = {}
<1> SUFFICES ASSUME FiledInv, NEW m \in Nodes
             PROVE  (Entries(queue[m]) \cup Entries(batch[m]) \cup Entries(push[m]))
                      \cap Entries(list) = {}
  BY DEF Waiting
<1>1. Entries(queue[m]) \cap Entries(list) = {} /\ Entries(push[m]) \cap Entries(list) = {}
  BY OneBox
<1>2. Entries(batch[m]) \cap Entries(list) = {}
  BY FilesAt DEF FiledInv, Filed
<1> QED BY <1>1, <1>2

LEMMA WaitingElsewhereThen == FiledInv' => Waiting' \cap Entries(list') = {}
<1>1. (FiledInv => Waiting \cap Entries(list) = {})'
  BY WaitingElsewhere, PTL
<1> QED BY <1>1 DEF Entries

LEMMA WaitingCopies == FiledInv => Waiting \subseteq Copies
<1> SUFFICES ASSUME FiledInv PROVE Waiting \subseteq Copies
  OBVIOUS
<1>1. \A m \in Nodes : /\ queue[m] \in Seq(Copies) /\ batch[m] \in Seq(Copies)
                       /\ push[m] \in Seq(Copies)
  BY DEF FiledInv, Boxed
<1>2. \A s \in Seq(Copies) : Entries(s) \subseteq Copies
  BY DEF Entries
<1> QED BY <1>1, <1>2 DEF Waiting

LEMMA WaitingCopiesThen == FiledInv' => Waiting' \subseteq Copies
<1>1. (FiledInv => Waiting \subseteq Copies)'
  BY WaitingCopies, PTL
<1> QED BY <1>1 DEF Copies

\* The log is counted where no copy is made and no request ends.
LEMMA CountedKept ==
    ASSUME Counted, redis' = redis, copies' = copies, HandedOver' = HandedOver,
           faults' \in Nat, faults' >= faults, Waiting' \subseteq Waiting
    PROVE  Counted'
<1>1. \A e \in Waiting' : First(e)'
  BY DEF Counted, First
<1> QED BY <1>1 DEF Counted

LEMMA FaultsGrow ==
    ASSUME Counted, Fault \/ UNCHANGED faults PROVE faults' \in Nat /\ faults' >= faults
BY DEF Counted, Fault

LEMMA FlushFaults ==
    ASSUME Counted, NEW n, NEW s, Flush(n, s) \/ FlushTo(n, s)
    PROVE  faults' \in Nat /\ faults' >= faults
<1>1. Fault \/ UNCHANGED faults
  BY DEF Flush, FlushTo, MayFail
<1> QED BY <1>1, FaultsGrow

LEMMA StillHanded == ASSUME req' = req PROVE HandedOver' = HandedOver
BY DEF HandedOver, On

\* A push makes copies only of what no longer waits in a box of a worker.
LEMMA PushCounted ==
    ASSUME FiledInv, FiledInv', Counted, Still, redis, NEW n \in Nodes,
           NEW s \in Seq(Copies), Distinct(s), \A e \in Entries(s) : First(e),
           Push(n, s), Waiting' \subseteq Waiting
    PROVE  Counted'
<1>1. redis' = redis /\ HandedOver' = HandedOver
  BY StillHanded DEF Still
<1>2. CASE copies' = copies /\ (Fault \/ UNCHANGED faults)
  BY <1>1, <1>2, CountedKept, FaultsGrow
<1>3. ASSUME NEW k \in 2..MaxSends, Fault, list' = list \o Sent(s, k),
             copies' = [r \in Requests |->
                           IF <<r, 1>> \in Entries(s) THEN k ELSE copies[r]]
      PROVE  Counted'
  <2>1. /\ copies \in [Requests -> 0..MaxSends] /\ k \in 0..MaxSends /\ k > 0 /\ k > 1
        /\ \A r \in Requests : copies[r] \in 0..MaxSends
    BY SomeSends DEF Counted
  <2>2. copies' \in [Requests -> 0..MaxSends]
    BY <1>3, <2>1
  <2>3. faults' \in Nat /\ faults' > 0
    BY <1>3 DEF Fault, Counted
  <2>4. \A e \in Entries(s) : e \in Copies /\ e = <<e[1], 1>> /\ e[1] \in Requests /\ copies[e[1]] = 1
    <3>1. Entries(s) \subseteq Copies
      BY DEF Entries
    <3> QED BY <3>1, CopyIs DEF First
  <2>5. \A r \in Requests : (copies'[r] > 0) = (copies[r] > 0)
    <3> SUFFICES ASSUME NEW r \in Requests PROVE (copies'[r] > 0) = (copies[r] > 0)
      OBVIOUS
    <3>1. CASE <<r, 1>> \in Entries(s)
      <4>1. copies[r] = 1
        BY <2>4, <3>1
      <4> QED BY <1>3, <2>1, <3>1, <4>1
    <3>2. CASE <<r, 1>> \notin Entries(s)
      BY <1>3, <3>2
    <3> QED BY <3>1, <3>2
  <2>6. \A r \in Requests : (copies'[r] > 0) = (r \in HandedOver')
    BY <1>1, <2>5 DEF Counted
  <2>7. Entries(s) \subseteq Entries(list')
    <3>1. /\ Sent(s, k) \in Seq(Copies)
          /\ \A e : e \in Entries(Sent(s, k)) <=>
                 e \in Requests \X (1..k) /\ <<e[1], 1>> \in Entries(s)
      BY OfSent DEF First
    <3>2. \A e \in Entries(s) : e \in Requests \X (1..k)
      <4>1. 1 \in 1..k
        BY <2>1
      <4>2. \A e \in Entries(s) : e[2] = 1
        BY DEF First
      <4> QED BY <2>4, <4>1, <4>2, PairIs
    <3>3. Entries(s) \subseteq Entries(Sent(s, k))
      BY <2>4, <3>1, <3>2
    <3>4. list \in Seq(Copies)
      BY DEF FiledInv, Boxed
    <3> QED BY <1>3, <3>1, <3>3, <3>4, EntriesConcat
  <2>8. Waiting' \cap Entries(list') = {}
    BY WaitingElsewhereThen
  <2>9. \A e \in Waiting' : First(e)'
    <3> SUFFICES ASSUME NEW e \in Waiting' PROVE e[2] = 1 /\ copies'[e[1]] = 1
      BY DEF First
    <3>1. e[2] = 1 /\ copies[e[1]] = 1
      BY DEF Counted, First
    <3>2. e \in Copies
      BY WaitingCopiesThen
    <3>3. e = <<e[1], 1>> /\ e[1] \in Requests
      BY <3>1, <3>2, CopyIs
    <3>4. e \notin Entries(s)
      BY <2>7, <2>8
    <3> QED BY <1>3, <3>1, <3>3, <3>4
  <2> QED BY <1>1, <2>2, <2>3, <2>6, <2>9 DEF Counted
<1> QED BY <1>2, <1>3, Zenon DEF Push, MayFail

LEMMA CountedEmit ==
    ASSUME FiledInv, Awaited, Counted, NEW r \in Requests, Emit(r) PROVE Counted'
<1> DEFINE e == <<r, 1>>
           n == req[r].node
<1>1. On(r, "serving") /\ n \in Nodes
  BY DEF Emit, Awaited
<1>2. /\ redis' = redis /\ faults' = faults /\ copies' = [copies EXCEPT ![r] = 1]
      /\ batch' = batch /\ push' = push
  BY DEF Emit
<1>3. HandedOver' = HandedOver \cup {r} /\ r \notin HandedOver
  <2>1. \A q \in Requests : q # r => req'[q] = req[q]
    BY DEF Emit, Awaited
  <2>2. req'[r].step \in {"panicked", "done"}
    BY <1>1 DEF Emit, Awaited, On
  <2> QED BY <1>1, <2>1, <2>2 DEF HandedOver, On
<1>4. copies \in [Requests -> 0..MaxSends] /\ copies[r] = 0 /\ MaxSends \in 1..4
  <2>1. copies[r] \in 0..MaxSends /\ ~(copies[r] > 0)
    BY <1>3 DEF Counted
  <2> QED BY <2>1, SomeSends DEF Counted
<1>5. Waiting' \subseteq Waiting \cup {e}
  <2>1. queue' = queue \/ queue' = [queue EXCEPT ![n] = Append(queue[n], e)]
    BY DEF Emit
  <2>2. e \in Copies /\ queue[n] \in Seq(Copies) /\ queue \in [Nodes -> Seq(Copies)]
    BY <1>1, <1>4 DEF Copies, FiledInv, Boxed
  <2>3. Entries(Append(queue[n], e)) = Entries(queue[n]) \cup {e}
    BY <2>2, EntriesAppend
  <2>4. \A m \in Nodes : Entries(queue'[m]) \subseteq Entries(queue[m]) \cup {e}
    BY <2>1, <2>2, <2>3
  <2> QED BY <1>2, <2>4 DEF Waiting
<1>6. \A f \in Waiting' : First(f)'
  <2> SUFFICES ASSUME NEW f \in Waiting' PROVE f[2] = 1 /\ copies'[f[1]] = 1
    BY DEF First
  <2>1. CASE f = e
    BY <1>2, <1>4, <2>1
  <2>2. CASE f \in Waiting
    <3>1. f[2] = 1 /\ copies[f[1]] = 1 /\ f[1] \in Requests
      BY <2>2, WaitingCopies, CopyIs DEF Counted, First
    <3> QED BY <1>2, <1>4, <3>1
  <2> QED BY <1>5, <2>1, <2>2
<1>7. /\ copies' \in [Requests -> 0..MaxSends]
      /\ \A q \in Requests : (copies'[q] > 0) = (q \in HandedOver')
      /\ \A q \in Requests : copies'[q] > 1 => redis' /\ faults' > 0
  BY <1>2, <1>3, <1>4 DEF Counted
<1> QED BY <1>2, <1>6, <1>7 DEF Counted

\* What a worker takes or writes out waits no more, or in its other box.
LEMMA CountedWorker ==
    ASSUME FiledInv, FiledInv', Counted, OneKind, NEW n \in Nodes,
           Take(n) \/ WorkerTick(n) \/ WorkerEnd(n)
    PROVE  Counted'
<1> DEFINE s == Append(IF redis THEN push[n] ELSE batch[n], Head(queue[n]))
<1>1. Still /\ redis' = redis /\ HandedOver' = HandedOver
  BY StillHanded DEF Take, WorkerTick, WorkerEnd, Still
<1>2. /\ queue \in [Nodes -> Seq(Copies)] /\ batch \in [Nodes -> Seq(Copies)]
      /\ push \in [Nodes -> Seq(Copies)] /\ redis \in BOOLEAN
  BY DEF FiledInv, Boxed, Counted
<1>3. CASE Take(n)
  <2>1. /\ queue[n] # <<>> /\ queue' = [queue EXCEPT ![n] = Tail(queue[n])]
    BY <1>3 DEF Take
  <2>2. /\ Tail(queue[n]) \in Seq(Copies) /\ Head(queue[n]) \in Copies
        /\ Head(queue[n]) \in Entries(queue[n])
        /\ Entries(Tail(queue[n])) \subseteq Entries(queue[n])
        /\ Entries(queue[n]) \cap Entries(batch[n]) = {}
        /\ Entries(queue[n]) \cap Entries(push[n]) = {}
        /\ Distinct(push[n]) /\ Distinct(batch[n])
    BY <1>2, <2>1, EntriesTail, OneBox
  <2>3. /\ s \in Seq(Copies) /\ Distinct(s)
        /\ Entries(s) \subseteq Entries(queue[n]) \cup Entries(batch[n]) \cup Entries(push[n])
        /\ redis => Entries(s) = Entries(push[n]) \cup {Head(queue[n])}
    BY <1>2, <2>2, EntriesAppend
  <2>4. /\ batch' = batch \/ batch' = [batch EXCEPT ![n] = <<>>] \/ batch' = [batch EXCEPT ![n] = s]
        /\ push' = push \/ push' = [push EXCEPT ![n] = <<>>] \/ push' = [push EXCEPT ![n] = s]
    BY <1>3 DEF Take
  <2>5. \A e \in Entries(s) : redis => First(e)
    BY <2>2, <2>3 DEF Counted, Waiting
  <2> HIDE DEF s
  <2>6. /\ \A m \in Nodes \ {n} : queue'[m] = queue[m] /\ batch'[m] = batch[m] /\ push'[m] = push[m]
        /\ queue'[n] = Tail(queue[n])
        /\ batch'[n] \in {batch[n], <<>>, s} /\ push'[n] \in {push[n], <<>>, s}
    BY <1>2, <2>1, <2>4
  <2>7. Waiting' \subseteq Waiting
    <3> SUFFICES ASSUME NEW m \in Nodes
                 PROVE  Entries(queue'[m]) \cup Entries(batch'[m]) \cup Entries(push'[m])
                          \subseteq Entries(queue[m]) \cup Entries(batch[m]) \cup Entries(push[m])
      BY DEF Waiting
    <3>1. CASE m = n
      BY <2>2, <2>3, <2>6, <3>1, EntriesEmpty
    <3>2. CASE m # n
      BY <2>6, <3>2
    <3> QED BY <3>1, <3>2
  <2>8. CASE redis /\ Push(n, s)
    BY <1>1, <2>3, <2>5, <2>7, <2>8, PushCounted
  <2>9. CASE copies' = copies /\ (Flush(n, s) \/ UNCHANGED faults)
    BY <1>1, <2>7, <2>9, CountedKept, FaultsGrow, FlushFaults
  <2> QED BY <1>3, <2>8, <2>9 DEF Take, s
<1>4. CASE WorkerTick(n) \/ WorkerEnd(n)
  <2>1. /\ queue' = queue
        /\ batch' = batch \/ batch' = [batch EXCEPT ![n] = <<>>]
        /\ push' = push \/ push' = [push EXCEPT ![n] = <<>>]
    BY <1>4 DEF WorkerTick, WorkerEnd
  <2>2. /\ \A m \in Nodes \ {n} : batch'[m] = batch[m] /\ push'[m] = push[m]
        /\ batch'[n] \in {batch[n], <<>>} /\ push'[n] \in {push[n], <<>>}
    BY <1>2, <2>1
  <2>3. Waiting' \subseteq Waiting
    <3> SUFFICES ASSUME NEW m \in Nodes
                 PROVE  Entries(queue'[m]) \cup Entries(batch'[m]) \cup Entries(push'[m])
                          \subseteq Entries(queue[m]) \cup Entries(batch[m]) \cup Entries(push[m])
      BY DEF Waiting
    <3> QED BY <2>1, <2>2, EntriesEmpty
  <2>4. push[n] \in Seq(Copies) /\ Distinct(push[n]) /\ \A e \in Entries(push[n]) : First(e)
    BY OneBox DEF Counted, Waiting
  <2>5. CASE redis /\ Push(n, push[n])
    BY <1>1, <2>3, <2>4, <2>5, PushCounted
  <2>6. CASE /\ copies' = copies
             /\ Flush(n, batch[n]) \/ FlushTo(n, batch[n]) \/ UNCHANGED faults
    BY <1>1, <2>3, <2>6, CountedKept, FaultsGrow, FlushFaults
  <2>7. push[n] # <<>> => redis
    BY <1>2 DEF OneKind
  <2> QED BY <1>4, <2>5, <2>6, <2>7 DEF WorkerTick, WorkerEnd
<1> QED BY <1>3, <1>4

LEMMA CountedDie ==
    ASSUME FiledInv, Counted, NEW n \in Nodes, Die(n), Fault \/ UNCHANGED faults PROVE Counted'
<1>1. /\ redis' = redis /\ copies' = copies
      /\ queue' = [queue EXCEPT ![n] = <<>>] /\ batch' = [batch EXCEPT ![n] = <<>>]
      /\ push' = [push EXCEPT ![n] = <<>>]
      /\ req' = [r \in Requests |-> IF r \in Active(n) THEN [step |-> "cut"] ELSE req[r]]
  BY DEF Die
<1>2. HandedOver' = HandedOver
  <2>1. \A r \in Requests :
            req'[r] = req[r] \/ (req[r].step = "serving" /\ req'[r].step = "cut")
    BY <1>1 DEF Active, On
  <2> QED BY <2>1 DEF HandedOver, On
<1>3. Waiting' \subseteq Waiting
  <2>1. \A m \in Nodes : /\ queue'[m] \in {queue[m], <<>>} /\ batch'[m] \in {batch[m], <<>>}
                         /\ push'[m] \in {push[m], <<>>}
    BY <1>1 DEF FiledInv, Boxed
  <2> SUFFICES ASSUME NEW m \in Nodes
               PROVE  Entries(queue'[m]) \cup Entries(batch'[m]) \cup Entries(push'[m])
                        \subseteq Entries(queue[m]) \cup Entries(batch[m]) \cup Entries(push[m])
    BY DEF Waiting
  <2> QED BY <2>1, EntriesEmpty
<1> QED BY <1>1, <1>2, <1>3, CountedKept, FaultsGrow

\* The other steps touch no box of a worker.
LEMMA CountedOthers ==
    ASSUME Counted, Awaited, UNCHANGED <<redis, copies, queue, batch, push>>,
           HandedOver' = HandedOver, faults' \in Nat, faults' >= faults
    PROVE  Counted'
<1>1. Waiting' = Waiting
  BY DEF Waiting
<1> QED BY <1>1, CountedKept

LEMMA CountedStep ==
    Awaited /\ FiledInv /\ FiledInv' /\ OneKind /\ Counted /\ [Next]_vars => Counted'
<1> SUFFICES ASSUME Awaited, FiledInv, FiledInv', OneKind, Counted, [Next]_vars PROVE Counted'
  OBVIOUS
<1>0. UNCHANGED faults => faults' \in Nat /\ faults' >= faults
  BY FaultsGrow
<1>1. CASE UNCHANGED vars
  BY <1>0, <1>1, StillHanded, CountedOthers DEF vars, memory
<1>2. ASSUME NEW r \in Requests, Emit(r) PROVE Counted'
  BY <1>2, CountedEmit
<1>3. ASSUME NEW r \in Requests, NEW n \in Nodes, NEW who \in Callers, Serve(r, n, who)
      PROVE  Counted'
  <2>1. HandedOver' = HandedOver
    BY <1>3 DEF Serve, HandedOver, On, Awaited
  <2> QED BY <1>0, <1>3, <2>1, CountedOthers DEF Serve, memory
<1>4. ASSUME NEW n \in Nodes, Take(n) \/ WorkerTick(n) \/ WorkerEnd(n) PROVE Counted'
  BY <1>4, CountedWorker
<1>5. ASSUME NEW n \in Nodes, Pop(n) \/ LastPop(n) \/ PopLost(n) \/ ConsumerTick(n) \/ ConsumerEnd(n)
      PROVE  Counted'
  <2>1. UNCHANGED <<redis, copies, queue, batch, push>> /\ req' = req
    BY <1>5 DEF Pop, LastPop, PopLost, ConsumerTick, ConsumerEnd, ByConsumer, Still
  <2>2. faults' \in Nat /\ faults' >= faults
    <3>1. \/ \E s : Flush(n, s) \/ FlushTo(n, s)
          \/ Fault \/ UNCHANGED faults
      BY <1>5, Zenon DEF Pop, LastPop, PopLost, ConsumerTick, ConsumerEnd
    <3> QED BY <3>1, FaultsGrow, FlushFaults
  <2> QED BY <2>1, <2>2, StillHanded, CountedOthers
<1>6. ASSUME NEW n \in Nodes, Signal(n) \/ Cancel(n) \/ Close(n) PROVE Counted'
  <2>1. UNCHANGED <<redis, copies, queue, batch, push, req, faults>>
    BY <1>6 DEF Signal, Cancel, Close, Logs, memory
  <2> QED BY <1>0, <2>1, StillHanded, CountedOthers
<1>7. ASSUME NEW n \in Nodes, Return(n) \/ Crash(n) PROVE Counted'
  BY <1>7, CountedDie DEF Return, Crash
<1> QED BY <1>1, <1>2, <1>3, <1>4, <1>5, <1>6, <1>7 DEF Next, Pipeline

LEMMA FiledInit == Init => FiledInv /\ OneKind
<1> SUFFICES ASSUME Init PROVE FiledInv /\ OneKind
  OBVIOUS
<1>1. Boxed /\ \A b \in Boxes : Files[b] = <<>>
  BY EntriesEmpty DEF Init, Boxed, Boxes, Files
<1>2. \A b \in Boxes : Distinct(Files[b]) /\ Entries(Files[b]) = {}
  BY <1>1, EntriesEmpty
<1>3. (\A e \in Copies : rows[e] = 0) /\ lost = {} /\ Made = {}
  <2>1. \A e \in Copies : copies[e[1]] = 0 /\ e[2] \in 1..MaxSends
    BY DEF Init, Copies
  <2>2. \A e \in Copies : ~(e[2] <= copies[e[1]])
    BY <2>1, SomeSends
  <2> QED BY <2>2 DEF Init, Made
<1>4. Held = {} /\ Logged = {}
  BY <1>2, <1>3 DEF Held, Logged
<1>5. OneKind
  BY DEF Init, OneKind
<1> QED BY <1>1, <1>2, <1>3, <1>4, <1>5 DEF FiledInv, Filed

LEMMA OneKindStep == FiledInv /\ OneKind /\ [Next]_vars => OneKind'
<1> SUFFICES ASSUME FiledInv, OneKind, [Next]_vars PROVE OneKind'
  OBVIOUS
<1> USE DEF OneKind, FiledInv, Boxed
<1>1. CASE UNCHANGED vars
  BY <1>1 DEF vars, memory
<1>2. ASSUME NEW r \in Requests,
             Emit(r) \/ \E n \in Nodes : \E who \in Callers : Serve(r, n, who)
      PROVE  OneKind'
  BY <1>2 DEF Emit, Serve, memory
<1>3. ASSUME NEW n \in Nodes, Take(n) PROVE OneKind'
  BY <1>3 DEF Take, Still
<1>4. ASSUME NEW n \in Nodes, Pipeline(n) \/ PopLost(n) PROVE OneKind'
  BY <1>4 DEF Pipeline, WorkerTick, WorkerEnd, Pop, LastPop, PopLost, ConsumerTick,
              ConsumerEnd, ByConsumer, Still, memory
<1>5. ASSUME NEW n \in Nodes, Signal(n) \/ Cancel(n) \/ Close(n) PROVE OneKind'
  BY <1>5 DEF Signal, Cancel, Close, Logs, memory
<1>6. ASSUME NEW n \in Nodes, Return(n) \/ Crash(n) PROVE OneKind'
  BY <1>6 DEF Return, Crash, Die
<1> QED BY <1>1, <1>2, <1>3, <1>4, <1>5, <1>6 DEF Next

LEMMA FiledStep == Awaited /\ FiledInv /\ OneKind /\ Counted /\ [Next]_vars => FiledInv'
<1> SUFFICES ASSUME Awaited, FiledInv, OneKind, Counted, [Next]_vars PROVE FiledInv'
  OBVIOUS
<1>1. CASE UNCHANGED vars
  <2>1. Boxed' /\ Files' = Files /\ rows' = rows /\ lost' = lost /\ copies' = copies
    BY <1>1 DEF FiledInv, Boxed, Files, vars, memory
  <2> QED BY <2>1, StillMade, UntouchedKeeps
<1>2. ASSUME NEW r \in Requests,
             Emit(r) \/ \E n \in Nodes : \E who \in Callers : Serve(r, n, who)
      PROVE  FiledInv'
  BY <1>2, EmitFiled, ServeFiled
<1>3. ASSUME NEW n \in Nodes, Take(n) \/ Pipeline(n) \/ PopLost(n) PROVE FiledInv'
  BY <1>3, TakeFiled, WorkerTickFiled, WorkerEndFiled, PopFiled, ConsumerFiled DEF Pipeline
<1>4. ASSUME NEW n \in Nodes, Signal(n) \/ Cancel(n) \/ Close(n) PROVE FiledInv'
  BY <1>4, MainFiled
<1>5. ASSUME NEW n \in Nodes, Return(n) \/ Crash(n) PROVE FiledInv'
  BY <1>5, DieFiled DEF Return, Crash
<1> QED BY <1>1, <1>2, <1>3, <1>4, <1>5 DEF Next

\* What the boxes hold is what is in flight.
LEMMA HeldIsInFlight == FiledInv => Held = InFlight
<1> SUFFICES ASSUME FiledInv PROVE Held = InFlight
  OBVIOUS
<1>1. \A n \in Nodes :
          Entries(queue[n] \o batch[n] \o push[n] \o taken[n])
            = Entries(queue[n]) \cup Entries(batch[n]) \cup Entries(push[n]) \cup Entries(taken[n])
  BY OneBox, EntriesOfFour
<1>2. Held \subseteq InFlight
  <2> SUFFICES ASSUME NEW b \in Boxes PROVE Entries(Files[b]) \subseteq InFlight
    BY DEF Held
  <2>1. CASE b = <<"list", "shared">>
    BY <2>1, FilesAt DEF InFlight
  <2>2. ASSUME NEW k \in {"queue", "batch", "push", "taken"}, NEW n \in Nodes, b = <<k, n>>
        PROVE  Entries(Files[b]) \subseteq InFlight
    <3>1. Files[b] \in {queue[n], batch[n], push[n], taken[n]}
      BY <2>2, FilesAt
    <3> QED BY <1>1, <3>1 DEF InFlight
  <2> QED BY <2>1, <2>2 DEF Boxes
<1>3. InFlight \subseteq Held
  <2>1. Entries(list) \subseteq Held
    BY FilesAt DEF Held
  <2>2. ASSUME NEW n \in Nodes
        PROVE  Entries(queue[n] \o batch[n] \o push[n] \o taken[n]) \subseteq Held
    <3>1. /\ Entries(queue[n]) \subseteq Held /\ Entries(batch[n]) \subseteq Held
          /\ Entries(push[n]) \subseteq Held /\ Entries(taken[n]) \subseteq Held
      BY FilesAt DEF Held
    <3> QED BY <1>1, <3>1
  <2> QED BY <2>1, <2>2 DEF InFlight
<1> QED BY <1>2, <1>3

(* However many nodes share the queue in Redis, whatever the sizes of the  *)
(* queue and the batches, however often the client may send a push, and    *)
(* wherever a crash or a failure falls: every copy of what was handed over *)
(* is in flight, lost or in one row, and in one of them only; and there is *)
(* one copy of each entry, unless an unanswered push was sent again.       *)
THEOREM EntryIsAccounted == Spec => []EntryAccounted
<1>1. FiledInv /\ Counted => EntryAccounted
  <2> SUFFICES ASSUME FiledInv, Counted PROVE EntryAccounted
    OBVIOUS
  <2>1. Held = InFlight
    BY HeldIsInFlight
  <2>2. \A e \in Logged : rows[e] = 1
    <3>1. \A e \in Copies : rows[e] \in Nat /\ rows[e] <= 1
      BY DEF FiledInv, Filed, Boxed
    <3> QED BY <3>1 DEF Logged
  <2> QED BY <2>1, <2>2 DEF FiledInv, Filed, Counted, EntryAccounted
<1> QED BY <1>1, AwaitedInit, AwaitedStep, FiledInit, FiledStep, OneKindStep, CountedInit,
           CountedStep, PTL DEF Spec
=============================================================================
