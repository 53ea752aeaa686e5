--------------------------- MODULE JobQueue_proofs ---------------------------
(***************************************************************************)
(* That a run ends up recorded as it ended, for any runs, workers, nodes   *)
(* and number of retries, provided a retry is enqueued after the failure   *)
(* before it was written (DelayCovers); and, without that, that a run is   *)
(* carried by one until it ends and executed a bounded number of times.    *)
(*                                                                         *)
(* SettledStatus is not inductive: a second carrier of a run could write   *)
(* its row after the first has settled it.  Single says there is none: a   *)
(* run whose message was not doubled is in one place at a time.            *)
(*                                                                         *)
(* Nor is Accounted: a count of carriers says nothing of which one is left *)
(* and the executions done nothing of those ahead.  TrackInv names the     *)
(* carrier; BudgetInv adds to the executions done those that each message, *)
(* timer and worker still stands for, which no step but a fault increases. *)
(***************************************************************************)
EXTENDS JobQueue, TLAPS, FiniteSetTheorems

Statuses == {"absent", "pending", "running", "failed", "success"}

QueueTypeOK ==
    /\ trigger \in [Runs -> {"idle", "checked", "inserted", "over"}]
    /\ row \in [Runs -> Statuses]
    /\ queue \in Seq(Message)
    /\ dlq \subseteq Runs
    /\ step \in [Workers -> Steps]
    /\ DOMAIN holds = Workers
    /\ \A w \in Workers : At(w, "idle") \/ holds[w] \in Message
    /\ timers \subseteq Held
    /\ outcome \in [Runs -> {"open", "failed", "success"}]

Triggered(r) == trigger[r] = "over"

Queued(r) == \E i \in DOMAIN queue : queue[i].run = r

Once(r) == \A i, j \in DOMAIN queue : queue[i].run = r /\ queue[j].run = r => i = j

Sleeping(r) == \E t \in timers : t.run = r

Holds(w, r) == ~At(w, "idle") /\ holds[w].run = r

\* A worker that has begun to retry a run has set its timer.
Paired(w) ==
    At(w, "retrying") =>
        [run |-> holds[w].run, attempt |-> holds[w].attempt + 1, host |-> HostOf[w]] \in timers

\* What a worker holds is open until it has decided how it ends.
Decided(w) ==
    /\ step[w] \in {"taken", "running", "erred", "retrying"} => outcome[holds[w].run] = "open"
    /\ step[w] \in {"exhausted", "dead"} => outcome[holds[w].run] = "failed"
    /\ At(w, "succeeded") => outcome[holds[w].run] = "success"
    /\ At(w, "dead") /\ holds[w].run \notin unwritten => row[holds[w].run] = "failed"

Single(r) ==
    /\ Queued(r) => /\ Triggered(r) /\ outcome[r] = "open" /\ ~Sleeping(r)
                    /\ \A w \in Workers : ~Holds(w, r)
    /\ Sleeping(r) => /\ Triggered(r) /\ outcome[r] = "open"
                      /\ \A w \in Workers : Holds(w, r) => At(w, "retrying")
    /\ \A w \in Workers : Holds(w, r) => Triggered(r) /\ Paired(w) /\ Decided(w)
    /\ ~Triggered(r) => outcome[r] = "open"
    /\ Once(r)
    /\ \A t, u \in timers : t.run = r /\ u.run = r => t = u
    /\ \A w, v \in Workers : Holds(w, r) /\ Holds(v, r) => w = v

Settled(r) ==
    /\ r \in dlq => DLQEnabled /\ outcome[r] = "failed"
    /\ \/ r \in unwritten \/ outcome[r] = "open" \/ \E w \in Workers : Holds(w, r)
       \/ row[r] = outcome[r] /\ (DLQEnabled /\ outcome[r] = "failed" => r \in dlq)

RunInv == \A r \in Runs \ twice : Single(r) /\ Settled(r)

QueueInv == QueueTypeOK /\ RunInv
-----------------------------------------------------------------------------
(* Types. *)

LEMMA Attempts ==
    /\ MaxAttempt \in Nat /\ 1 \in 1 .. MaxAttempt /\ MaxRetries \in Nat
    /\ \A a \in 1 .. MaxAttempt : a < MaxRetries => a + 1 \in 1 .. MaxAttempt
BY JobAssumption DEF MaxAttempt

LEMMA Messages ==
    /\ \A r \in Runs : Msg(r, 1) \in Message
    /\ \A t \in Held : /\ Msg(t.run, t.attempt) \in Message
                       /\ t.run \in Runs /\ t.attempt \in 1 .. MaxAttempt
    /\ \A m \in Message : m.run \in Runs /\ m.attempt \in 1 .. MaxAttempt
<1>1. \A r \in Runs : Msg(r, 1) \in Message
  BY Attempts DEF Message, Msg
<1>2. ASSUME NEW t \in Held
      PROVE  /\ Msg(t.run, t.attempt) \in Message
             /\ t.run \in Runs /\ t.attempt \in 1 .. MaxAttempt
  <2>1. t.run \in Runs /\ t.attempt \in 1 .. MaxAttempt
    BY DEF Held
  <2> QED BY <2>1 DEF Message, Msg
<1> QED BY <1>1, <1>2 DEF Message

LEMMA EnqueueTypes ==
    ASSUME queue \in Seq(Message), NEW m \in Message, Enqueue(m)
    PROVE  queue' \in Seq(Message)
<1>1. queue' = Append(queue, m) \/ queue' = queue \o <<m, m>> \/ queue' = queue
  BY DEF Enqueue
<1>2. Append(queue, m) \in Seq(Message) /\ queue \o <<m, m>> \in Seq(Message)
  OBVIOUS
<1> QED BY <1>1, <1>2

LEMMA WriteTypes ==
    ASSUME row \in [Runs -> Statuses], NEW r \in Runs, NEW s \in Statuses, Write(r, s)
    PROVE  row' \in [Runs -> Statuses]
BY DEF Write

LEMMA WorkerTypes ==
    ASSUME QueueTypeOK, NEW w \in Workers, ~At(w, "idle")
    PROVE  holds[w] \in Message /\ holds[w].run \in Runs /\ HostOf[w] \in Hosts
BY Messages DEF QueueTypeOK, Hosts

\* A step that leaves the workers alone.
LEMMA IdleTypes ==
    ASSUME QueueTypeOK, UNCHANGED workerVars,
           trigger' \in [Runs -> {"idle", "checked", "inserted", "over"}],
           row' \in [Runs -> Statuses], queue' \in Seq(Message), dlq' \subseteq Runs,
           timers' \subseteq Held, outcome' = outcome
    PROVE  QueueTypeOK'
BY DEF QueueTypeOK, workerVars, At

\* A step of one worker.
LEMMA StepTypes ==
    ASSUME QueueTypeOK, NEW w \in Workers, NEW label \in Steps, Goto(w, label),
           \/ holds' = holds /\ ~At(w, "idle")
           \/ holds' = [holds EXCEPT ![w] = <<>>] /\ label = "idle"
           \/ \E m \in Message : holds' = [holds EXCEPT ![w] = m],
           trigger' = trigger, row' \in [Runs -> Statuses], queue' \in Seq(Message),
           dlq' \subseteq Runs, timers' \subseteq Held,
           outcome' \in [Runs -> {"open", "failed", "success"}]
    PROVE  QueueTypeOK'
<1>1. step' = [step EXCEPT ![w] = label]
  BY DEF Goto
<1>2. step' \in [Workers -> Steps] /\ DOMAIN holds' = Workers
  BY <1>1 DEF QueueTypeOK
<1>3. ASSUME NEW v \in Workers PROVE At(v, "idle")' \/ holds'[v] \in Message
  <2>1. CASE v # w
    BY <1>1, <2>1 DEF QueueTypeOK, At
  <2>2. CASE v = w
    BY <1>1, <2>2 DEF QueueTypeOK, At
  <2> QED BY <2>1, <2>2
<1> QED BY <1>2, <1>3 DEF QueueTypeOK

LEMMA TypesKept == QueueTypeOK /\ [Next]_vars => QueueTypeOK'
<1> SUFFICES ASSUME QueueTypeOK, [Next]_vars PROVE QueueTypeOK'
  OBVIOUS
<1> USE DEF Steps, Statuses
<1>0. /\ queue \in Seq(Message) /\ row \in [Runs -> Statuses] /\ timers \subseteq Held
      /\ dlq \subseteq Runs
  BY DEF QueueTypeOK
<1>1. CASE UNCHANGED vars
  BY <1>1, IdleTypes DEF vars, listVars, workerVars, QueueTypeOK
<1>2. ASSUME NEW r \in Runs, Ask(r) \/ InsertRun(r) \/ AbandonTrigger(r) PROVE QueueTypeOK'
  <2>1. UNCHANGED <<listVars, workerVars, timers, outcome>>
    BY <1>2 DEF Ask, InsertRun, AbandonTrigger
  <2>2. trigger' \in [Runs -> {"idle", "checked", "inserted", "over"}] /\ row' \in [Runs -> Statuses]
    BY <1>2 DEF Ask, InsertRun, AbandonTrigger, QueueTypeOK
  <2> QED BY <1>0, <2>1, <2>2, IdleTypes DEF listVars
<1>3. ASSUME NEW r \in Runs, EnqueueRun(r) PROVE QueueTypeOK'
  <2>1. queue' \in Seq(Message)
    BY <1>0, <1>3, EnqueueTypes, Messages DEF EnqueueRun
  <2> QED BY <1>0, <1>3, <2>1, IdleTypes DEF EnqueueRun, QueueTypeOK
<1>4. ASSUME NEW w \in Workers, Dequeue(w) PROVE QueueTypeOK'
  <2>1. Head(queue) \in Message /\ Tail(queue) \in Seq(Message)
    BY <1>0, <1>4 DEF Dequeue
  <2> QED BY <1>0, <1>4, <2>1, StepTypes DEF Dequeue, QueueTypeOK
<1>5. ASSUME NEW w \in Workers, RejectUnknown(w) \/ Succeed(w) \/ Fail(w) \/ TimeOut(w)
      PROVE  QueueTypeOK'
  <2>1. ~At(w, "idle") /\ UNCHANGED <<trigger, row, listVars, holds, timers>>
    BY <1>5 DEF RejectUnknown, Succeed, Fail, TimeOut, At
  <2>2. outcome' \in [Runs -> {"open", "failed", "success"}]
    BY <1>5 DEF RejectUnknown, Succeed, Fail, TimeOut, GiveUp, QueueTypeOK
  <2>3. Goto(w, "exhausted") \/ Goto(w, "succeeded") \/ Goto(w, "erred")
    BY <1>5 DEF RejectUnknown, Succeed, Fail, TimeOut, GiveUp
  <2> QED BY <1>0, <2>1, <2>2, <2>3, StepTypes DEF listVars
<1>6. ASSUME NEW w \in Workers, Begin(w) \/ MarkFailed(w) \/ MarkSuccess(w) \/ SendToDLQ(w)
      PROVE  QueueTypeOK'
  <2>1. ~At(w, "idle") /\ UNCHANGED <<trigger, queue, timers, outcome>>
    BY <1>6 DEF Begin, MarkFailed, MarkSuccess, SendToDLQ, At, listVars
  <2>2. row' \in [Runs -> Statuses]
    BY <1>0, <1>6, <2>1, WorkerTypes, WriteTypes DEF Begin, MarkFailed, MarkSuccess, SendToDLQ
  <2>3. dlq' \subseteq Runs
    BY <1>0, <1>6, <2>1, WorkerTypes DEF Begin, MarkFailed, MarkSuccess, SendToDLQ, listVars
  <2>4. outcome' \in [Runs -> {"open", "failed", "success"}]
    BY <2>1 DEF QueueTypeOK
  <2>5. CASE Leave(w)
    BY <1>0, <2>1, <2>2, <2>3, <2>4, <2>5, StepTypes DEF Leave
  <2>6. CASE Goto(w, "running") /\ holds' = holds
    BY <1>0, <2>1, <2>2, <2>3, <2>4, <2>6, StepTypes
  <2>7. CASE Goto(w, "dead") /\ holds' = holds
    BY <1>0, <2>1, <2>2, <2>3, <2>4, <2>7, StepTypes
  <2> QED BY <1>6, <2>5, <2>6, <2>7 DEF Begin, MarkFailed, MarkSuccess, SendToDLQ
<1>7. ASSUME NEW w \in Workers, AfterError(w) PROVE QueueTypeOK'
  <2>1. ~At(w, "idle") /\ UNCHANGED <<trigger, row, listVars, holds>>
    BY <1>7 DEF AfterError, At
  <2>2. timers' \subseteq Held
    <3>1. CASE holds[w].attempt < MaxRetries
      <4>1. Retry(w)
        BY <1>7, <3>1 DEF AfterError
      <4>2. /\ holds[w].run \in Runs /\ holds[w].attempt \in 1 .. MaxAttempt
            /\ HostOf[w] \in Hosts
        BY <2>1, WorkerTypes, Messages
      <4>3. holds[w].attempt + 1 \in 1 .. MaxAttempt
        BY <3>1, <4>2, Attempts
      <4> QED BY <1>0, <4>1, <4>2, <4>3 DEF Retry, Held
    <3>2. CASE ~(holds[w].attempt < MaxRetries)
      BY <1>0, <1>7, <3>2 DEF AfterError
    <3> QED BY <3>1, <3>2
  <2>3. outcome' \in [Runs -> {"open", "failed", "success"}]
    BY <1>7 DEF AfterError, Retry, GiveUp, QueueTypeOK
  <2>4. Goto(w, "retrying") \/ Goto(w, "exhausted")
    BY <1>7 DEF AfterError, Retry, GiveUp
  <2> QED BY <1>0, <2>1, <2>2, <2>3, <2>4, StepTypes DEF listVars
<1>8. ASSUME NEW t \in timers, TimerFires(t) PROVE QueueTypeOK'
  <2>1. queue' \in Seq(Message)
    BY <1>0, <1>8, EnqueueTypes, Messages DEF TimerFires
  <2> QED BY <1>0, <1>8, <2>1, IdleTypes DEF TimerFires, QueueTypeOK
<1>9. ASSUME (\E b \in bodies : BodyEnds(b)) \/ LosePopped PROVE QueueTypeOK'
  <2>1. queue' \in Seq(Message)
    BY <1>0, <1>9 DEF BodyEnds, LosePopped, listVars
  <2> QED BY <1>0, <1>9, <2>1, IdleTypes DEF BodyEnds, LosePopped, listVars, QueueTypeOK
<1>10. ASSUME NEW h \in Hosts, Crash(h) PROVE QueueTypeOK'
  <2>1. /\ step' \in [Workers -> Steps] /\ DOMAIN holds' = Workers /\ timers' \subseteq Held
        /\ UNCHANGED <<trigger, row, listVars, outcome>>
    BY <1>10 DEF Crash, QueueTypeOK
  <2>2. \A w \in Workers : At(w, "idle")' \/ holds'[w] \in Message
    BY <1>10 DEF Crash, QueueTypeOK, At
  <2> QED BY <2>1, <2>2 DEF QueueTypeOK, listVars
<1> QED BY <1>1, <1>2, <1>3, <1>4, <1>5, <1>6, <1>7, <1>8, <1>9, <1>10
        DEF Next, Handler, Work, Returns
-----------------------------------------------------------------------------
(* The list. *)

LEMMA ListTail ==
    ASSUME queue \in Seq(Message), queue # <<>>, queue' = Tail(queue), NEW r \in Runs, Once(r)
    PROVE  /\ Queued(r)' => Queued(r)
           /\ Head(queue).run = r => Queued(r) /\ ~Queued(r)'
           /\ Once(r)'
<1>1. /\ Len(queue) \in Nat /\ Len(queue) > 0 /\ DOMAIN queue = 1 .. Len(queue)
      /\ DOMAIN queue' = 1 .. Len(queue) - 1 /\ Head(queue) = queue[1]
      /\ \A i \in 1 .. Len(queue) - 1 : queue'[i] = queue[i + 1] /\ i + 1 \in 1 .. Len(queue)
  OBVIOUS
<1>2. Queued(r)' => Queued(r)
  BY <1>1 DEF Queued
<1>3. Head(queue).run = r => Queued(r)
  BY <1>1 DEF Queued
<1>4. Head(queue).run = r => ~Queued(r)'
  <2> SUFFICES ASSUME queue[1].run = r, NEW i \in 1 .. Len(queue) - 1, queue'[i].run = r
               PROVE  FALSE
    BY <1>1 DEF Queued
  <2>1. queue[i + 1].run = r /\ i + 1 # 1 /\ 1 \in DOMAIN queue /\ i + 1 \in DOMAIN queue
    BY <1>1
  <2> QED BY <2>1 DEF Once
<1>5. Once(r)'
  <2> SUFFICES ASSUME NEW i \in 1 .. Len(queue) - 1, NEW j \in 1 .. Len(queue) - 1,
                      queue'[i].run = r, queue'[j].run = r
               PROVE  i = j
    BY <1>1 DEF Once
  <2>1. i + 1 = j + 1
    BY <1>1 DEF Once
  <2> QED BY <2>1
<1> QED BY <1>2, <1>3, <1>4, <1>5

LEMMA ListAppend ==
    ASSUME queue \in Seq(Message), NEW m \in Message, queue' = Append(queue, m),
           NEW r \in Runs, Once(r), Queued(r) => m.run # r
    PROVE  (Queued(r)' => Queued(r) \/ m.run = r) /\ Once(r)'
<1>1. /\ Len(queue) \in Nat /\ DOMAIN queue = 1 .. Len(queue)
      /\ DOMAIN queue' = 1 .. Len(queue) + 1 /\ queue'[Len(queue) + 1] = m
      /\ \A i \in 1 .. Len(queue) : queue'[i] = queue[i]
      /\ \A i \in 1 .. Len(queue) + 1 : i \in 1 .. Len(queue) \/ i = Len(queue) + 1
  OBVIOUS
<1>2. Queued(r)' => Queued(r) \/ m.run = r
  BY <1>1 DEF Queued
<1>3. Once(r)'
  BY <1>1 DEF Queued, Once
<1> QED BY <1>2, <1>3

LEMMA ListTwice ==
    ASSUME queue \in Seq(Message), NEW m \in Message, queue' = queue \o <<m, m>>,
           NEW r \in Runs, Once(r), m.run # r
    PROVE  (Queued(r)' => Queued(r)) /\ Once(r)'
<1>1. /\ Len(queue) \in Nat /\ DOMAIN queue = 1 .. Len(queue)
      /\ DOMAIN queue' = 1 .. Len(queue) + 2
      /\ \A i \in 1 .. Len(queue) : queue'[i] = queue[i]
      /\ \A i \in 1 .. Len(queue) + 2 : i \in 1 .. Len(queue) \/ queue'[i] = m
  OBVIOUS
<1> QED BY <1>1 DEF Queued, Once

\* A message is put on the list at most once, unless its run counts as doubled.
LEMMA ListEnqueue ==
    ASSUME queue \in Seq(Message), NEW m \in Message, Enqueue(m),
           NEW r \in Runs \ twice', Once(r), Queued(r) => m.run # r
    PROVE  /\ Queued(r)' => Queued(r) \/ m.run = r
           /\ Once(r)'
           /\ twice \subseteq twice' /\ unwritten' = unwritten
<1>1. CASE queue' = Append(queue, m) /\ UNCHANGED faultVars
  BY <1>1, ListAppend DEF faultVars
<1>2. CASE /\ queue' = queue \o <<m, m>> /\ twice' = twice \cup {m.run}
           /\ UNCHANGED <<lost, unwritten>>
  BY <1>2, ListTwice
<1>3. CASE UNCHANGED <<queue, twice, unwritten>>
  BY <1>3 DEF Queued, Once
<1> QED BY <1>1, <1>2, <1>3 DEF Enqueue
-----------------------------------------------------------------------------
(* Runs a step leaves alone. *)

LEMMA Untouched ==
    ASSUME NEW r \in Runs, Single(r), Settled(r),
           Triggered(r)' <=> Triggered(r), outcome'[r] = outcome[r],
           row'[r] = row[r] \/ outcome[r] = "open",
           r \in dlq' <=> r \in dlq, unwritten \subseteq unwritten',
           Queued(r)' => Queued(r), Once(r)',
           \A t : t.run = r => (t \in timers' <=> t \in timers),
           \A w \in Workers :
               /\ Holds(w, r)' <=> Holds(w, r)
               /\ Holds(w, r) => step'[w] = step[w] /\ holds'[w] = holds[w]
    PROVE  (Single(r) /\ Settled(r))'
<1>1. Sleeping(r)' <=> Sleeping(r)
  BY DEF Sleeping
<1>2. ASSUME NEW w \in Workers, Holds(w, r)
      PROVE  Paired(w)' /\ Decided(w)'
  <2>1. Paired(w) /\ Decided(w) /\ holds[w].run = r /\ step'[w] = step[w] /\ holds'[w] = holds[w]
    BY <1>2 DEF Single, Holds
  <2>2. Paired(w)'
    BY <2>1 DEF Paired, At
  <2>3. Decided(w)'
    BY <2>1 DEF Decided, At
  <2> QED BY <2>2, <2>3
<1>3. Single(r)'
  BY <1>1, <1>2 DEF Single, At
<1>4. Settled(r)'
  BY DEF Settled
<1> QED BY <1>3, <1>4

\* A worker's step is none of the runs it does not hold.
LEMMA OtherRuns ==
    ASSUME QueueTypeOK, NEW w \in Workers, NEW r \in Runs, ~Holds(w, r), ~Holds(w, r)',
           NEW label, Goto(w, label), NEW m,
           holds' = holds \/ holds' = [holds EXCEPT ![w] = m]
    PROVE  \A v \in Workers :
               /\ Holds(v, r)' <=> Holds(v, r)
               /\ Holds(v, r) => step'[v] = step[v] /\ holds'[v] = holds[v]
<1>1. \A v \in Workers \ {w} : step'[v] = step[v] /\ holds'[v] = holds[v]
  BY DEF Goto, QueueTypeOK
<1> QED BY <1>1 DEF Holds, At

\* Where the run a worker holds is: nowhere else.
LEMMA OwnRun ==
    ASSUME QueueTypeOK, NEW w \in Workers, NEW r \in Runs, Holds(w, r), Single(r)
    PROVE  /\ ~Queued(r) /\ Triggered(r) /\ Paired(w) /\ Decided(w) /\ holds[w].run = r
           /\ ~At(w, "retrying") => ~Sleeping(r)
           /\ \A v \in Workers \ {w} : ~Holds(v, r)
BY DEF Single, Holds

\* The run stays in the hands of its worker.
LEMMA HeldOn ==
    ASSUME QueueTypeOK, NEW w \in Workers, NEW r \in Runs, Holds(w, r), Single(r), Settled(r),
           NEW label, label # "idle", Goto(w, label), UNCHANGED <<trigger, queue, holds>>,
           (Sleeping(r) => label = "retrying" /\ outcome[r] = "open")',
           \A t, u \in timers' : t.run = r /\ u.run = r => t = u,
           (r \in dlq => DLQEnabled /\ outcome[r] = "failed")',
           Paired(w)', Decided(w)'
    PROVE  (Single(r) /\ Settled(r))'
<1>1. /\ ~Queued(r) /\ Triggered(r) /\ holds[w].run = r
      /\ \A v \in Workers \ {w} : ~Holds(v, r)
  BY OwnRun
<1>2. /\ step'[w] = label /\ \A v \in Workers \ {w} : step'[v] = step[v]
  BY DEF Goto, QueueTypeOK
<1>3. Holds(w, r)' /\ \A v \in Workers \ {w} : ~Holds(v, r)'
  BY <1>1, <1>2 DEF Holds, At
<1>4. ~Queued(r)' /\ Triggered(r)' /\ Once(r)'
  BY <1>1 DEF Queued, Triggered, Single, Once
<1>5. Single(r)'
  BY <1>2, <1>3, <1>4 DEF Single, At
<1>6. Settled(r)'
  BY <1>3 DEF Settled
<1> QED BY <1>5, <1>6

\* The worker is through with the run.
LEMMA LetGo ==
    ASSUME QueueTypeOK, NEW w \in Workers, NEW r \in Runs, Holds(w, r), Single(r), Settled(r),
           Leave(w), UNCHANGED <<trigger, queue, timers, outcome>>,
           (\/ r \in unwritten \/ outcome[r] = "open"
            \/ row[r] = outcome[r] /\ (DLQEnabled /\ outcome[r] = "failed" => r \in dlq))',
           (r \in dlq => DLQEnabled /\ outcome[r] = "failed")'
    PROVE  (Single(r) /\ Settled(r))'
<1>1. /\ ~Queued(r) /\ Triggered(r) /\ Decided(w) /\ holds[w].run = r
      /\ \A v \in Workers \ {w} : ~Holds(v, r)
  BY OwnRun
<1>2. /\ step'[w] = "idle" /\ \A v \in Workers \ {w} : step'[v] = step[v] /\ holds'[v] = holds[v]
  BY DEF Leave, Goto, QueueTypeOK
<1>3. \A v \in Workers : ~Holds(v, r)'
  BY <1>1, <1>2 DEF Holds, At
<1>4. ~Queued(r)' /\ Triggered(r)' /\ Once(r)'
  BY <1>1 DEF Queued, Triggered, Single, Once
<1>5. Single(r)'
  BY <1>3, <1>4 DEF Single, Sleeping
<1>6. Settled(r)'
  BY DEF Settled
<1> QED BY <1>5, <1>6
-----------------------------------------------------------------------------
(* Every step. *)

LEMMA HandlerKeeps ==
    ASSUME QueueInv, NEW q \in Runs, Ask(q) \/ Handler(q) \/ AbandonTrigger(q),
           NEW r \in Runs \ twice', twice \subseteq twice'
    PROVE  (Single(r) /\ Settled(r))'
<1>0. QueueTypeOK /\ Single(r) /\ Settled(r) /\ Once(r) /\ queue \in Seq(Message)
  BY DEF QueueInv, RunInv, QueueTypeOK, Single
<1>1. CASE Ask(q) \/ InsertRun(q)
  <2>1. /\ UNCHANGED <<listVars, workerVars, timers, outcome, unwritten>>
        /\ Triggered(r)' <=> Triggered(r)
        /\ row'[r] = row[r] \/ ~Triggered(r)
    BY <1>0, <1>1 DEF Ask, InsertRun, faultVars, Triggered, QueueTypeOK
  <2>2. /\ row'[r] = row[r] \/ outcome[r] = "open"
        /\ Queued(r)' => Queued(r)
        /\ Once(r)'
    BY <1>0, <2>1 DEF Single, Queued, Once, listVars
  <2> QED BY <1>0, <2>1, <2>2, Untouched DEF listVars, workerVars, Holds, At
<1>2. CASE EnqueueRun(q) \/ AbandonTrigger(q)
  <2>1. /\ UNCHANGED <<row, dlq, workerVars, timers, outcome>>
        /\ trigger' = [trigger EXCEPT ![q] = "over"] /\ ~Triggered(q)
    BY <1>2 DEF EnqueueRun, AbandonTrigger, listVars, Triggered
  <2>2. Queued(r) => q # r
    BY <1>0, <2>1 DEF Single
  <2>3. /\ Queued(r)' => Queued(r) \/ q = r
        /\ Once(r)' /\ unwritten \subseteq unwritten'
    <3>1. CASE EnqueueRun(q)
      <4>1. Msg(q, 1) \in Message /\ Msg(q, 1).run = q
        BY Messages DEF Msg
      <4> QED BY <1>0, <2>2, <3>1, <4>1, ListEnqueue DEF EnqueueRun
    <3>2. CASE AbandonTrigger(q)
      BY <1>0, <3>2 DEF AbandonTrigger, listVars, Queued, Once
    <3> QED BY <1>2, <3>1, <3>2
  <2>4. CASE q = r
    <3>1. /\ outcome'[r] = "open" /\ ~Sleeping(r)' /\ \A w \in Workers : ~Holds(w, r)'
      BY <1>0, <2>1, <2>4 DEF Single, Sleeping, Holds, At, workerVars
    <3>2. Triggered(r)'
      BY <1>0, <2>1, <2>4 DEF QueueTypeOK, Triggered
    <3>3. Single(r)'
      BY <2>3, <3>1, <3>2 DEF Single, Sleeping
    <3>4. Settled(r)'
      BY <1>0, <2>1, <3>1 DEF Settled
    <3> QED BY <3>3, <3>4
  <2>5. CASE q # r
    <3>1. Triggered(r)' <=> Triggered(r)
      BY <1>0, <2>1, <2>5 DEF QueueTypeOK, Triggered
    <3> QED BY <1>0, <2>1, <2>3, <2>5, <3>1, Untouched DEF workerVars, Holds, At
  <2> QED BY <2>4, <2>5
<1> QED BY <1>1, <1>2 DEF Handler

LEMMA ListKeeps ==
    ASSUME QueueInv, LosePopped \/ \E w \in Workers : Dequeue(w),
           NEW r \in Runs \ twice', twice \subseteq twice'
    PROVE  (Single(r) /\ Settled(r))'
<1>0. QueueTypeOK /\ Single(r) /\ Settled(r) /\ Once(r) /\ queue \in Seq(Message)
  BY DEF QueueInv, RunInv, QueueTypeOK, Single
<1>1. queue # <<>> /\ queue' = Tail(queue)
  BY DEF LosePopped, Dequeue
<1>2. /\ Queued(r)' => Queued(r)
      /\ Head(queue).run = r => Queued(r) /\ ~Queued(r)'
      /\ Once(r)'
  BY <1>0, <1>1, ListTail
<1>3. CASE LosePopped
  <2>1. UNCHANGED <<trigger, row, dlq, workerVars, timers, outcome, unwritten>>
    BY <1>3 DEF LosePopped
  <2> QED BY <1>0, <1>2, <2>1, Untouched DEF workerVars, Holds, At, Triggered
<1>4. ASSUME NEW w \in Workers, Dequeue(w) PROVE (Single(r) /\ Settled(r))'
  <2>1. /\ UNCHANGED <<trigger, row, dlq, timers, outcome, unwritten>>
        /\ At(w, "idle") /\ Goto(w, "taken") /\ holds' = [holds EXCEPT ![w] = Head(queue)]
    BY <1>4 DEF Dequeue, faultVars
  <2>2. step'[w] = "taken" /\ holds'[w] = Head(queue)
    BY <1>0, <2>1 DEF Goto, QueueTypeOK
  <2>3. CASE Head(queue).run = r
    <3>1. /\ Triggered(r) /\ outcome[r] = "open" /\ ~Sleeping(r) /\ ~Queued(r)'
          /\ \A v \in Workers : ~Holds(v, r)
      BY <1>0, <1>2, <2>3 DEF Single
    <3>2. Holds(w, r)' /\ \A v \in Workers \ {w} : ~Holds(v, r)'
      <4>1. \A v \in Workers \ {w} : step'[v] = step[v] /\ holds'[v] = holds[v]
        BY <1>0, <2>1 DEF Goto, QueueTypeOK
      <4> QED BY <2>2, <2>3, <3>1, <4>1 DEF Holds, At
    <3>3. Paired(w)' /\ Decided(w)' /\ Triggered(r)' /\ ~Sleeping(r)' /\ outcome'[r] = "open"
      BY <2>1, <2>2, <2>3, <3>1 DEF Paired, Decided, At, Triggered, Sleeping
    <3>4. Single(r)'
      BY <1>2, <3>1, <3>2, <3>3 DEF Single, Sleeping
    <3>5. Settled(r)'
      BY <1>0, <2>1, <3>3 DEF Settled
    <3> QED BY <3>4, <3>5
  <2>4. CASE Head(queue).run # r
    <3>1. ~Holds(w, r) /\ ~Holds(w, r)'
      BY <2>1, <2>2, <2>4 DEF Holds
    <3> QED BY <1>0, <1>2, <2>1, <3>1, OtherRuns, Untouched DEF Triggered
  <2> QED BY <2>3, <2>4
<1> QED BY <1>3, <1>4

LEMMA TimerKeeps ==
    ASSUME QueueInv, DelayCovers, NEW t \in timers, TimerFires(t),
           NEW r \in Runs \ twice', twice \subseteq twice'
    PROVE  (Single(r) /\ Settled(r))'
<1>0. QueueTypeOK /\ Single(r) /\ Settled(r) /\ Once(r) /\ queue \in Seq(Message)
  BY DEF QueueInv, RunInv, QueueTypeOK, Single
<1>1. /\ t \in Held /\ Msg(t.run, t.attempt) \in Message /\ Msg(t.run, t.attempt).run = t.run
      /\ t.attempt \in Nat
  BY <1>0, Messages, Attempts DEF QueueTypeOK, Msg
<1>2. /\ UNCHANGED <<trigger, row, dlq, workerVars, outcome>> /\ timers' = timers \ {t}
      /\ Enqueue(Msg(t.run, t.attempt))
  BY DEF TimerFires
<1>3. t.run = r => ~Queued(r) /\ Triggered(r) /\ outcome[r] = "open"
  BY <1>0 DEF Single, Sleeping
<1>4. /\ Queued(r)' => Queued(r) \/ t.run = r
      /\ Once(r)' /\ unwritten' = unwritten
  BY <1>0, <1>1, <1>2, <1>3, ListEnqueue
<1>5. CASE t.run = r
  <2>1. \A w \in Workers : ~Holds(w, r)
    <3> SUFFICES ASSUME NEW w \in Workers, Holds(w, r) PROVE FALSE
      OBVIOUS
    <3>1. At(w, "retrying") /\ Paired(w) /\ holds[w] \in Message /\ holds[w].run = r
      BY <1>0, <1>5 DEF Single, Sleeping, Holds, QueueTypeOK
    <3>2. t.attempt = holds[w].attempt + 1
      BY <1>0, <1>5, <3>1 DEF Paired, Single
    <3>3. holds[w] = Msg(t.run, t.attempt - 1)
      <4>1. holds[w].attempt \in Nat /\ holds[w] = [run |-> holds[w].run, attempt |-> holds[w].attempt]
        BY <3>1, Messages, Attempts DEF Message
      <4>2. t.attempt - 1 = holds[w].attempt
        BY <3>2, <4>1
      <4> QED BY <1>5, <3>1, <4>1, <4>2 DEF Msg
    <3> QED BY <3>1, <3>3 DEF TimerFires, Waited
  <2>2. ~Sleeping(r)'
    BY <1>0, <1>2, <1>5 DEF Single, Sleeping
  <2>3. (\A w \in Workers : ~Holds(w, r)') /\ Triggered(r)' /\ outcome'[r] = "open"
    BY <1>2, <1>3, <1>5, <2>1 DEF workerVars, Holds, At, Triggered
  <2>4. Single(r)'
    BY <1>4, <2>2, <2>3 DEF Single, Sleeping
  <2>5. Settled(r)'
    BY <1>0, <1>2, <2>3 DEF Settled
  <2> QED BY <2>4, <2>5
<1>6. CASE t.run # r
  BY <1>0, <1>2, <1>4, <1>6, Untouched DEF workerVars, Holds, At, Triggered
<1> QED BY <1>5, <1>6

\* A worker's steps with the message it holds.
Process(w) ==
    \/ RejectUnknown(w) \/ Begin(w) \/ TimeOut(w) \/ AfterError(w) \/ MarkFailed(w)
    \/ SendToDLQ(w) \/ MarkSuccess(w) \/ Succeed(w) \/ Fail(w)

\* What they do to every run but the one it holds.
LEMMA ProcessOthers ==
    ASSUME QueueTypeOK, NEW w \in Workers, Process(w), NEW r \in Runs, holds[w].run # r,
           Single(r), Settled(r)
    PROVE  (Single(r) /\ Settled(r))'
<1>1. /\ UNCHANGED <<trigger, queue>> /\ ~At(w, "idle")
      /\ outcome'[r] = outcome[r] /\ row'[r] = row[r] /\ (r \in dlq' <=> r \in dlq)
      /\ unwritten \subseteq unwritten'
  <2>1. UNCHANGED <<trigger, queue>> /\ ~At(w, "idle")
    BY DEF Process, RejectUnknown, Begin, TimeOut, AfterError, MarkFailed, SendToDLQ,
       MarkSuccess, Succeed, Fail, listVars, At
  <2>2. outcome'[r] = outcome[r]
    BY DEF Process, RejectUnknown, Begin, TimeOut, AfterError, MarkFailed, SendToDLQ,
       MarkSuccess, Succeed, Fail, GiveUp, Retry, QueueTypeOK
  <2>3. row'[r] = row[r] /\ unwritten \subseteq unwritten'
    BY DEF Process, RejectUnknown, Begin, TimeOut, AfterError, MarkFailed, SendToDLQ,
       MarkSuccess, Succeed, Fail, Write, faultVars, QueueTypeOK
  <2>4. r \in dlq' <=> r \in dlq
    BY DEF Process, RejectUnknown, Begin, TimeOut, AfterError, MarkFailed, SendToDLQ,
       MarkSuccess, Succeed, Fail, listVars
  <2> QED BY <2>1, <2>2, <2>3, <2>4
<1>2. \A t : t.run = r => (t \in timers' <=> t \in timers)
  <2>1. timers' = timers \/ Retry(w)
    BY DEF Process, RejectUnknown, Begin, TimeOut, AfterError, MarkFailed, SendToDLQ,
       MarkSuccess, Succeed, Fail
  <2> QED BY <2>1 DEF Retry
<1>3. \E label : Goto(w, label)
  BY DEF Process, RejectUnknown, Begin, TimeOut, AfterError, MarkFailed, SendToDLQ,
     MarkSuccess, Succeed, Fail, GiveUp, Retry, Leave
<1>4. holds' = holds \/ (Leave(w) /\ holds' = [holds EXCEPT ![w] = <<>>])
  BY DEF Process, RejectUnknown, Begin, TimeOut, AfterError, MarkFailed, SendToDLQ,
     MarkSuccess, Succeed, Fail, Leave
<1>5. ~Holds(w, r) /\ ~Holds(w, r)'
  <2>1. CASE holds' = holds
    BY <2>1 DEF Holds
  <2>2. CASE Leave(w)
    BY <2>2 DEF Leave, Goto, Holds, At, QueueTypeOK
  <2> QED BY <1>4, <2>1, <2>2 DEF Holds
<1>6. (Queued(r)' => Queued(r)) /\ Once(r)' /\ (Triggered(r)' <=> Triggered(r))
  BY <1>1 DEF Queued, Once, Triggered, Single
<1>7. \A v \in Workers :
          /\ Holds(v, r)' <=> Holds(v, r)
          /\ Holds(v, r) => step'[v] = step[v] /\ holds'[v] = holds[v]
  BY <1>3, <1>4, <1>5, OtherRuns
<1> QED BY <1>1, <1>2, <1>6, <1>7, Untouched

\* And to that one.
LEMMA ProcessOwn ==
    ASSUME QueueTypeOK, NEW w \in Workers, Process(w), NEW r \in Runs, holds[w].run = r,
           Single(r), Settled(r)
    PROVE  (Single(r) /\ Settled(r))'
<1>0. Holds(w, r) /\ w \in DOMAIN step
  BY DEF Process, RejectUnknown, Begin, TimeOut, AfterError, MarkFailed, SendToDLQ,
     MarkSuccess, Succeed, Fail, At, Holds, QueueTypeOK
<1>1. /\ ~Queued(r) /\ Triggered(r) /\ Paired(w) /\ Decided(w)
      /\ ~At(w, "retrying") => ~Sleeping(r)
  BY <1>0, OwnRun
<1>2. /\ \A t, u \in timers : t.run = r /\ u.run = r => t = u
      /\ r \in dlq => DLQEnabled /\ outcome[r] = "failed"
  BY DEF Single, Settled
<1>3. ASSUME Begin(w) \/ TimeOut(w) \/ Fail(w) PROVE (Single(r) /\ Settled(r))'
  <2>1. /\ UNCHANGED <<trigger, queue, dlq, holds, timers, outcome>>
        /\ step[w] \in {"taken", "running"}
    BY <1>3 DEF Begin, TimeOut, Fail, listVars, At
  <2>2. PICK label \in {"running", "erred"} : Goto(w, label)
    BY <1>3 DEF Begin, TimeOut, Fail
  <2>3. outcome[r] = "open" /\ ~Sleeping(r)' /\ step'[w] = label
    BY <1>0, <1>1, <2>1, <2>2 DEF Decided, Sleeping, At, Goto
  <2>4. Paired(w)' /\ Decided(w)'
    BY <2>1, <2>2, <2>3 DEF Paired, Decided, At
  <2> QED BY <1>0, <1>2, <2>1, <2>2, <2>3, <2>4, HeldOn
<1>4. ASSUME NEW how \in {"failed", "success"}, NEW label \in {"exhausted", "succeeded"},
             Goto(w, label), label = "succeeded" <=> how = "success",
             outcome' = [outcome EXCEPT ![r] = how],
             UNCHANGED <<trigger, row, listVars, holds, timers>>,
             step[w] \in {"taken", "running", "erred"}
      PROVE  (Single(r) /\ Settled(r))'
  <2>1. outcome[r] = "open" /\ ~Sleeping(r)' /\ step'[w] = label /\ outcome'[r] = how
    BY <1>0, <1>1, <1>4 DEF Decided, Sleeping, At, Goto, QueueTypeOK
  <2>2. Paired(w)' /\ Decided(w)'
    BY <1>4, <2>1 DEF Paired, Decided, At
  <2>3. r \notin dlq'
    BY <1>2, <1>4, <2>1 DEF listVars
  <2> QED BY <1>0, <1>2, <1>4, <2>1, <2>2, <2>3, HeldOn DEF listVars
<1>5. CASE RejectUnknown(w)
  BY <1>4, <1>5 DEF RejectUnknown, GiveUp, At
<1>6. CASE Succeed(w)
  BY <1>4, <1>6 DEF Succeed, At
<1>7. CASE AfterError(w)
  <2>1. At(w, "erred") /\ UNCHANGED <<trigger, row, listVars, holds>>
    BY <1>7 DEF AfterError
  <2>2. CASE GiveUp(w) /\ UNCHANGED timers
    BY <1>4, <2>1, <2>2 DEF GiveUp, At
  <2>3. CASE Retry(w)
    <3> DEFINE t == [run |-> r, attempt |-> holds[w].attempt + 1, host |-> HostOf[w]]
    <3>1. /\ timers' = timers \cup {t} /\ Goto(w, "retrying") /\ outcome' = outcome
          /\ step'[w] = "retrying"
      BY <1>0, <2>3 DEF Retry, Goto
    <3>2. outcome[r] = "open" /\ ~Sleeping(r)
      BY <1>1, <2>1 DEF Decided, At
    <3>3. \A u, v \in timers' : u.run = r /\ v.run = r => u = v
      BY <3>1, <3>2 DEF Sleeping
    <3>4. Paired(w)' /\ Decided(w)'
      BY <2>1, <3>1, <3>2 DEF Paired, Decided, At
    <3> QED BY <1>0, <1>2, <2>1, <3>1, <3>2, <3>3, <3>4, HeldOn DEF listVars
  <2> QED BY <1>7, <2>2, <2>3 DEF AfterError
<1>8. CASE MarkFailed(w)
  <2>1. /\ UNCHANGED <<trigger, queue, dlq, timers, outcome>> /\ Write(r, "failed")
        /\ step[w] \in {"retrying", "exhausted"}
    BY <1>8 DEF MarkFailed, listVars
  <2>2. r \in unwritten' \/ row'[r] = "failed"
    BY <2>1 DEF Write, QueueTypeOK
  <2>3. CASE At(w, "exhausted")
    <3>1. Goto(w, "dead") /\ holds' = holds /\ step'[w] = "dead"
      BY <1>0, <1>8, <2>3 DEF MarkFailed, Goto
    <3>2. outcome[r] = "failed" /\ ~Sleeping(r)'
      BY <1>1, <2>1, <2>3 DEF Decided, At, Sleeping
    <3>3. Paired(w)' /\ Decided(w)'
      BY <2>1, <2>2, <3>1, <3>2 DEF Paired, Decided, At
    <3> QED BY <1>0, <1>2, <2>1, <3>1, <3>2, <3>3, HeldOn
  <2>4. CASE ~At(w, "exhausted")
    <3>1. Leave(w) /\ outcome[r] = "open"
      BY <1>1, <1>8, <2>1, <2>4 DEF MarkFailed, Decided, At
    <3> QED BY <1>0, <1>2, <2>1, <3>1, LetGo
  <2> QED BY <2>3, <2>4
<1>9. CASE SendToDLQ(w)
  <2>1. /\ UNCHANGED <<trigger, row, queue, timers, outcome>> /\ Leave(w) /\ At(w, "dead")
        /\ \/ dlq' = dlq \cup (IF DLQEnabled THEN {r} ELSE {}) /\ unwritten' = unwritten
           \/ dlq' = dlq /\ unwritten' = unwritten \cup {r}
    BY <1>9 DEF SendToDLQ, faultVars
  <2>2. outcome[r] = "failed" /\ (r \in unwritten \/ row[r] = "failed")
    BY <1>1, <2>1 DEF Decided, At
  <2> QED BY <1>0, <1>2, <2>1, <2>2, LetGo
<1>10. CASE MarkSuccess(w)
  <2>1. /\ UNCHANGED <<trigger, queue, dlq, timers, outcome>> /\ Leave(w) /\ At(w, "succeeded")
        /\ Write(r, "success")
    BY <1>10 DEF MarkSuccess, listVars
  <2>2. outcome[r] = "success" /\ (r \in unwritten' \/ row'[r] = "success")
    BY <1>1, <2>1 DEF Decided, At, Write, QueueTypeOK
  <2> QED BY <1>0, <1>2, <2>1, <2>2, LetGo
<1> QED BY <1>3, <1>5, <1>6, <1>7, <1>8, <1>9, <1>10 DEF Process

LEMMA CrashKeeps ==
    ASSUME QueueTypeOK, NEW h \in Hosts, Crash(h), NEW r \in Runs, Single(r), Settled(r)
    PROVE  (Single(r) /\ Settled(r))'
<1>1. /\ UNCHANGED <<trigger, row, listVars, outcome>> /\ unwritten \subseteq unwritten'
      /\ timers' = { t \in timers : t.host # h }
  BY DEF Crash
<1>2. ASSUME NEW w \in Workers, Holds(w, r)'
      PROVE  Holds(w, r) /\ HostOf[w] # h /\ step'[w] = step[w] /\ holds'[w] = holds[w]
  BY <1>2 DEF Crash, Holds, At, QueueTypeOK
<1>3. ASSUME NEW w \in Workers, Holds(w, r), ~Holds(w, r)'
      PROVE  r \in unwritten' \/ outcome[r] = "open"
  <2>1. ~At(w, "idle") /\ HostOf[w] = h /\ holds[w].run = r
    BY <1>3 DEF Crash, Holds, At, QueueTypeOK
  <2>2. CASE step[w] \in {"taken", "running", "erred"}
    <3>1. Decided(w)
      BY <1>3 DEF Single
    <3> QED BY <2>1, <2>2, <3>1 DEF Decided
  <2>3. CASE step[w] \notin {"taken", "running", "erred"}
    BY <2>1, <2>3 DEF Crash
  <2> QED BY <2>2, <2>3
<1>4. (Sleeping(r)' => Sleeping(r)) /\ (Queued(r)' <=> Queued(r)) /\ Once(r)'
  BY <1>1 DEF Sleeping, Queued, Once, listVars, Single
<1>5. ASSUME NEW w \in Workers, Holds(w, r)' PROVE Paired(w)' /\ Decided(w)'
  <2>1. /\ Paired(w) /\ Decided(w) /\ HostOf[w] # h /\ step'[w] = step[w]
        /\ holds'[w] = holds[w] /\ holds[w].run = r
    BY <1>2, <1>5 DEF Single, Holds
  <2>2. Paired(w)'
    BY <1>1, <2>1 DEF Paired, At
  <2>3. Decided(w)'
    BY <1>1, <2>1 DEF Decided, At
  <2> QED BY <2>2, <2>3
<1>6. Triggered(r)' <=> Triggered(r)
  BY <1>1 DEF Triggered
<1>7. \A t, u \in timers' : t.run = r /\ u.run = r => t = u
  BY <1>1 DEF Single
<1>8. Single(r)'
  BY <1>1, <1>2, <1>4, <1>5, <1>6, <1>7 DEF Single, At
<1>9. Settled(r)'
  BY <1>1, <1>3 DEF Settled, listVars
<1> QED BY <1>8, <1>9

LEMMA RunsKept == QueueInv /\ DelayCovers /\ [Next]_vars => RunInv'
<1> SUFFICES ASSUME QueueInv, DelayCovers, [Next]_vars, NEW r \in Runs \ twice'
             PROVE  (Single(r) /\ Settled(r))'
  BY DEF RunInv
<1>0. QueueTypeOK
  BY DEF QueueInv
<1>1. CASE UNCHANGED vars
  <2>1. r \in Runs \ twice
    BY <1>1 DEF vars, faultVars
  <2>2. Single(r) /\ Settled(r)
    BY <2>1 DEF QueueInv, RunInv
  <2>3. UNCHANGED <<trigger, row, queue, dlq, step, holds, timers, outcome, unwritten>>
    BY <1>1 DEF vars, listVars, workerVars, faultVars
  <2>4. /\ Triggered(r)' <=> Triggered(r)
        /\ Queued(r)' => Queued(r)
        /\ Once(r)'
    BY <2>2, <2>3 DEF Triggered, Queued, Once, Single
  <2> QED BY <2>2, <2>3, <2>4, Untouched DEF Holds, At
<1>2. twice \subseteq twice'
  <2>1. CASE Next
    BY <2>1 DEF Next, Handler, Work, Returns, Ask, InsertRun, EnqueueRun, AbandonTrigger,
       Dequeue, RejectUnknown, Begin, TimeOut, AfterError, MarkFailed, SendToDLQ,
       MarkSuccess, Succeed, Fail, TimerFires, BodyEnds, LosePopped, Crash, Enqueue,
       Write, faultVars
  <2>2. CASE UNCHANGED vars
    BY <2>2 DEF vars, faultVars
  <2> QED BY SMTT(30), <2>1, <2>2
<1>3. Single(r) /\ Settled(r)
  BY <1>2 DEF QueueInv, RunInv
<1>4. ASSUME NEW q \in Runs, Ask(q) \/ Handler(q) \/ AbandonTrigger(q)
      PROVE  (Single(r) /\ Settled(r))'
  BY <1>2, <1>4, HandlerKeeps
<1>5. ASSUME LosePopped \/ \E w \in Workers : Dequeue(w) PROVE (Single(r) /\ Settled(r))'
  BY <1>2, <1>5, ListKeeps
<1>6. ASSUME NEW w \in Workers, Process(w) PROVE (Single(r) /\ Settled(r))'
  BY <1>0, <1>3, <1>6, ProcessOthers, ProcessOwn
<1>7. ASSUME NEW t \in timers, TimerFires(t) PROVE (Single(r) /\ Settled(r))'
  BY <1>2, <1>7, TimerKeeps
<1>8. ASSUME NEW b \in bodies, BodyEnds(b) PROVE (Single(r) /\ Settled(r))'
  <2>1. UNCHANGED <<trigger, row, queue, dlq, step, holds, timers, outcome, unwritten>>
    BY <1>8 DEF BodyEnds, listVars, workerVars, faultVars
  <2>2. /\ Triggered(r)' <=> Triggered(r)
        /\ Queued(r)' => Queued(r)
        /\ Once(r)'
    BY <1>3, <2>1 DEF Triggered, Queued, Once, Single
  <2> QED BY <1>3, <2>1, <2>2, Untouched DEF Holds, At
<1>9. ASSUME NEW h \in Hosts, Crash(h) PROVE (Single(r) /\ Settled(r))'
  BY <1>0, <1>3, <1>9, CrashKeeps
<1>10. CASE Next
  <2>1. \/ \E q \in Runs : Ask(q) \/ Handler(q) \/ AbandonTrigger(q)
        \/ LosePopped \/ \E w \in Workers : Dequeue(w)
        \/ \E w \in Workers : Process(w)
        \/ \E t \in timers : TimerFires(t)
        \/ \E b \in bodies : BodyEnds(b)
        \/ \E h \in Hosts : Crash(h)
    BY <1>10 DEF Next, Work, Returns, Process
  <2> QED BY <2>1, <1>4, <1>5, <1>6, <1>7, <1>8, <1>9
<1> QED BY <1>1, <1>10

LEMMA QueueInit == Init => QueueInv
<1> SUFFICES ASSUME Init PROVE QueueInv
  OBVIOUS
<1>1. QueueTypeOK
  BY DEF Init, QueueTypeOK, Steps, Statuses, At
<1>2. ASSUME NEW r \in Runs PROVE Single(r) /\ Settled(r)
  <2>1. /\ ~Queued(r) /\ Once(r) /\ ~Sleeping(r) /\ ~Triggered(r)
        /\ \A w \in Workers : ~Holds(w, r)
    BY DEF Init, Queued, Once, Sleeping, Triggered, Holds, At
  <2>2. Single(r)
    BY <2>1 DEF Init, Single, Sleeping
  <2> QED BY <2>2 DEF Init, Settled
<1> QED BY <1>1, <1>2 DEF QueueInv, RunInv

LEMMA QueueInvSettles == QueueInv => SettledStatus
<1> SUFFICES ASSUME QueueInv, NEW r \in Runs \ (unwritten \cup twice),
                    outcome[r] # "open", Carriers(r) = {}
             PROVE  row[r] = outcome[r] /\ (r \in dlq <=> DLQEnabled /\ outcome[r] = "failed")
  BY DEF SettledStatus
<1>1. \A w \in Workers : ~Holds(w, r)
  BY DEF Carriers, Holds
<1> QED BY <1>1 DEF QueueInv, RunInv, Settled

(* When the work of a run has ended and no worker carries it, its row and  *)
(* the dead-letter list say how it ended, whatever crashed, timed out or   *)
(* was lost, in any number of runs, workers and retries: unless the very   *)
(* write failed, its message was doubled, or (DelayCovers) a retry may be  *)
(* enqueued before the failure is written (worker.go:139-166).             *)
THEOREM StatusIsSettled == DelayCovers => (Spec => []SettledStatus)
<1> SUFFICES ASSUME DelayCovers PROVE Spec => []SettledStatus
  OBVIOUS
<1>1. QueueInv /\ [Next]_vars => QueueInv'
  BY TypesKept, RunsKept DEF QueueInv
<1>2. Spec => []QueueInv
  BY <1>1, QueueInit, PTL DEF Spec
<1> QED BY <1>2, QueueInvSettles, PTL

-----------------------------------------------------------------------------
(* A run is carried by one, and executed a bounded number of times.  This  *)
(* part needs nothing of DelayCovers.                                      *)
Starting(r) == trigger[r] \in {"checked", "inserted"}

Alive(r) == trigger[r] # "idle" /\ outcome[r] = "open"

Decides(w, r) == step[w] \in {"taken", "running", "erred"} /\ holds[w].run = r

\* What carries the run, and that nothing else does.
Carried(r) == Starting(r) \/ Queued(r) \/ Sleeping(r) \/ \E w \in Workers : Decides(w, r)

Alone(r) ==
    /\ Starting(r) => ~Queued(r) /\ ~Sleeping(r) /\ \A w \in Workers : ~Decides(w, r)
    /\ Queued(r) => ~Sleeping(r) /\ \A w \in Workers : ~Decides(w, r)
    /\ Sleeping(r) => \A w \in Workers : ~Decides(w, r)
    /\ Once(r)
    /\ \A t, u \in timers : t.run = r /\ u.run = r => t = u
    /\ \A v, w \in Workers : Decides(v, r) /\ Decides(w, r) => v = w

Tracked(r) ==
    /\ Alone(r)
    /\ Carried(r) <=> Alive(r)
    /\ trigger[r] = "idle" => outcome[r] = "open"

TrackInv == \A r \in Runs \ (lost \cup twice) : Tracked(r)

(* The executions a run may still have: an attempt a in the list, in a     *)
(* timer or just taken stands for those from a on, one that runs for those *)
(* after it.                                                               *)
Ahead(r) == IF trigger[r] = "over" THEN 0 ELSE MaxAttempt

InQueue(r) ==
    { p \in (DOMAIN queue) \X (1 .. MaxAttempt) :
        queue[p[1]].run = r /\ queue[p[1]].attempt <= p[2] }

InTimers(r) ==
    { p \in timers \X (1 .. MaxAttempt) : p[1].run = r /\ p[1].attempt <= p[2] }

HandSlots(w, r) ==
    { k \in 1 .. MaxAttempt :
        /\ Decides(w, r)
        /\ IF At(w, "taken") THEN holds[w].attempt <= k ELSE holds[w].attempt < k }

InHands(r) == { p \in Workers \X (1 .. MaxAttempt) : p[2] \in HandSlots(p[1], r) }

Limit(r) == MaxAttempt * (1 + IF r \in twice THEN faults ELSE 0)

Counted(r) == IsFiniteSet(InQueue(r)) /\ IsFiniteSet(InTimers(r)) /\ IsFiniteSet(InHands(r))

Total(r) ==
    tries[r] + Ahead(r) + Cardinality(InQueue(r)) + Cardinality(InTimers(r))
        + Cardinality(InHands(r))

BudgetInv ==
    /\ tries \in [Runs -> Nat] /\ faults \in 0 .. MaxFaults
    /\ \A r \in Runs : Counted(r) /\ Total(r) <= Limit(r)


-----------------------------------------------------------------------------
LEMMA TailOthers ==
    ASSUME queue \in Seq(Message), queue # <<>>, queue' = Tail(queue),
           NEW r \in Runs, Head(queue).run # r
    PROVE  Queued(r)' <=> Queued(r)
<1>1. /\ Len(queue) \in Nat /\ Len(queue) > 0 /\ DOMAIN queue = 1 .. Len(queue)
      /\ DOMAIN queue' = 1 .. Len(queue) - 1 /\ Head(queue) = queue[1]
      /\ \A i \in 1 .. Len(queue) - 1 : queue'[i] = queue[i + 1] /\ i + 1 \in 1 .. Len(queue)
      /\ \A i \in 2 .. Len(queue) : queue'[i - 1] = queue[i] /\ i - 1 \in 1 .. Len(queue) - 1
      /\ \A i \in 1 .. Len(queue) : i = 1 \/ i \in 2 .. Len(queue)
  OBVIOUS
<1>2. Queued(r)' => Queued(r)
  BY <1>1 DEF Queued
<1>3. Queued(r) => Queued(r)'
  <2> SUFFICES ASSUME NEW i \in 1 .. Len(queue), queue[i].run = r PROVE Queued(r)'
    BY <1>1 DEF Queued
  <2>1. i \in 2 .. Len(queue)
    BY <1>1
  <2> QED BY <1>1, <2>1 DEF Queued
<1> QED BY <1>2, <1>3

LEMMA AppendQueued ==
    ASSUME queue \in Seq(Message), NEW m \in Message,
           queue' = Append(queue, m) \/ queue' = queue \o <<m, m>>, NEW r \in Runs
    PROVE  Queued(r)' <=> Queued(r) \/ m.run = r
<1>1. CASE queue' = Append(queue, m)
  <2>1. /\ Len(queue) \in Nat /\ DOMAIN queue = 1 .. Len(queue)
        /\ DOMAIN queue' = 1 .. Len(queue) + 1 /\ queue'[Len(queue) + 1] = m
        /\ \A i \in 1 .. Len(queue) : queue'[i] = queue[i] /\ i \in 1 .. Len(queue) + 1
        /\ Len(queue) + 1 \in 1 .. Len(queue) + 1
        /\ \A i \in 1 .. Len(queue) + 1 : i \in 1 .. Len(queue) \/ i = Len(queue) + 1
    BY <1>1
  <2> QED BY <2>1 DEF Queued
<1>2. CASE queue' = queue \o <<m, m>>
  <2>1. /\ Len(queue) \in Nat /\ DOMAIN queue = 1 .. Len(queue)
        /\ DOMAIN queue' = 1 .. Len(queue) + 2 /\ queue'[Len(queue) + 1] = m
        /\ \A i \in 1 .. Len(queue) : queue'[i] = queue[i] /\ i \in 1 .. Len(queue) + 2
        /\ Len(queue) + 1 \in 1 .. Len(queue) + 2
        /\ \A i \in 1 .. Len(queue) + 2 : i \in 1 .. Len(queue) \/ queue'[i] = m
    BY SMTT(30), <1>2
  <2> QED BY <2>1 DEF Queued
<1> QED BY <1>1, <1>2

\* A message reaches the list once, where the run counts neither as lost nor as
\* doubled.
LEMMA EnqueueQueued ==
    ASSUME queue \in Seq(Message), NEW m \in Message, Enqueue(m),
           NEW r \in Runs \ (lost' \cup twice'), Once(r), Queued(r) => m.run # r
    PROVE  (Queued(r)' <=> Queued(r) \/ m.run = r) /\ Once(r)'
<1>1. Once(r)'
  BY ListEnqueue
<1>2. CASE queue' = Append(queue, m) \/ queue' = queue \o <<m, m>>
  BY <1>1, <1>2, AppendQueued
<1>3. CASE lost' = lost \cup {m.run} /\ queue' = queue
  BY <1>1, <1>3 DEF Queued
<1> QED BY <1>2, <1>3 DEF Enqueue

\* A step that does not touch what carries r.
LEMMA TrackedOn ==
    ASSUME NEW r, Tracked(r), Once(r)',
           (Starting(r) <=> Starting(r)'), (trigger[r] = "idle" <=> trigger'[r] = "idle"),
           outcome'[r] = outcome[r], Queued(r)' <=> Queued(r),
           \A t : t.run = r => (t \in timers' <=> t \in timers),
           \A w \in Workers : Decides(w, r)' <=> Decides(w, r)
    PROVE  Tracked(r)'
<1>1. Sleeping(r)' <=> Sleeping(r)
  BY DEF Sleeping
<1>2. Alone(r)'
  BY <1>1 DEF Tracked, Alone
<1>3. Carried(r)' <=> Carried(r)
  BY <1>1 DEF Carried
<1>4. Alive(r)' <=> Alive(r)
  BY DEF Alive
<1> QED BY <1>2, <1>3, <1>4 DEF Tracked

LEMMA TrackedHandler ==
    ASSUME QueueTypeOK, NEW q \in Runs, Ask(q) \/ Handler(q) \/ AbandonTrigger(q),
           NEW r \in Runs \ (lost' \cup twice'), Tracked(r)
    PROVE  Tracked(r)'
<1>0. queue \in Seq(Message) /\ Once(r)
  BY DEF QueueTypeOK, Tracked, Alone
<1>1. UNCHANGED <<step, holds, timers, outcome>>
  BY DEF Ask, Handler, InsertRun, EnqueueRun, AbandonTrigger, workerVars
<1>2. \A w \in Workers : Decides(w, r)' <=> Decides(w, r)
  BY <1>1 DEF Decides
<1>3. CASE q # r
  <2>1. trigger'[r] = trigger[r]
    BY <1>3 DEF Ask, Handler, InsertRun, EnqueueRun, AbandonTrigger, QueueTypeOK
  <2>2. (Queued(r)' <=> Queued(r)) /\ Once(r)'
    <3>1. CASE EnqueueRun(q)
      <4>1. Msg(q, 1) \in Message /\ Msg(q, 1).run = q /\ Enqueue(Msg(q, 1))
        BY <3>1, Messages DEF Msg, EnqueueRun
      <4> QED BY <1>0, <1>3, <4>1, EnqueueQueued
    <3>2. CASE ~EnqueueRun(q)
      <4>1. queue' = queue
        BY <3>2 DEF Ask, Handler, InsertRun, AbandonTrigger, listVars
      <4> QED BY <1>0, <4>1 DEF Queued, Once
    <3> QED BY <3>1, <3>2
  <2> QED BY <1>1, <1>2, <2>1, <2>2, TrackedOn DEF Starting
<1>4. CASE q = r /\ Ask(q)
  <2>1. /\ trigger[r] = "idle" /\ trigger'[r] = "checked" /\ queue' = queue
    BY <1>4 DEF Ask, QueueTypeOK, listVars
  <2>2. ~Queued(r)' /\ ~Sleeping(r)' /\ \A w \in Workers : ~Decides(w, r)'
    BY <1>1, <1>2, <2>1 DEF Tracked, Carried, Alive, Queued, Sleeping
  <2>3. Once(r)' /\ Starting(r)' /\ outcome'[r] = "open"
    BY <1>0, <1>1, <2>1 DEF Once, Starting, Tracked
  <2>4. Alone(r)'
    BY <2>2, <2>3 DEF Alone, Sleeping
  <2> QED BY <2>1, <2>3, <2>4 DEF Tracked, Carried, Alive
<1>5. CASE q = r /\ InsertRun(q)
  <2>1. /\ trigger[r] = "checked" /\ trigger'[r] = "inserted" /\ queue' = queue
    BY <1>5 DEF InsertRun, QueueTypeOK, listVars
  <2>2. (Queued(r)' <=> Queued(r)) /\ Once(r)'
    BY <1>0, <2>1 DEF Queued, Once
  <2> QED BY <1>1, <1>2, <2>1, <2>2, TrackedOn DEF Starting
<1>6. CASE q = r /\ EnqueueRun(q)
  <2>1. /\ trigger[r] = "inserted" /\ trigger'[r] = "over" /\ Enqueue(Msg(r, 1))
        /\ Msg(r, 1) \in Message /\ Msg(r, 1).run = r
    BY <1>6, Messages DEF EnqueueRun, QueueTypeOK, Msg
  <2>2. /\ ~Queued(r) /\ ~Sleeping(r) /\ (\A w \in Workers : ~Decides(w, r))
        /\ outcome[r] = "open"
    BY <2>1 DEF Tracked, Alone, Carried, Alive, Starting
  <2>3. Queued(r)' /\ Once(r)'
    BY <1>0, <2>1, <2>2, EnqueueQueued
  <2>4. /\ ~Starting(r)' /\ ~Sleeping(r)' /\ (\A w \in Workers : ~Decides(w, r)')
        /\ outcome'[r] = "open" /\ trigger'[r] # "idle"
    BY <1>1, <1>2, <2>1, <2>2 DEF Starting, Sleeping
  <2>5. Alone(r)'
    BY <2>3, <2>4 DEF Alone, Sleeping
  <2> QED BY <2>3, <2>4, <2>5 DEF Tracked, Carried, Alive
<1>7. CASE q = r /\ AbandonTrigger(q)
  BY <1>7 DEF AbandonTrigger
<1> QED BY <1>3, <1>4, <1>5, <1>6, <1>7 DEF Handler

LEMMA TrackedList ==
    ASSUME QueueTypeOK, LosePopped \/ \E w \in Workers : Dequeue(w),
           NEW r \in Runs \ (lost' \cup twice'), Tracked(r)
    PROVE  Tracked(r)'
<1>0. queue \in Seq(Message) /\ Once(r) /\ queue # <<>> /\ queue' = Tail(queue)
  BY DEF QueueTypeOK, Tracked, Alone, LosePopped, Dequeue
<1>1. /\ Head(queue).run = r => Queued(r) /\ ~Queued(r)'
      /\ Once(r)'
  BY <1>0, ListTail
<1>2. Head(queue).run # r => (Queued(r)' <=> Queued(r))
  BY <1>0, TailOthers
<1>3. CASE LosePopped
  <2>1. UNCHANGED <<trigger, timers, outcome, step, holds>> /\ Head(queue).run # r
    BY <1>3 DEF LosePopped, workerVars
  <2> QED BY <1>1, <1>2, <2>1, TrackedOn DEF Starting, Decides
<1>4. ASSUME NEW w \in Workers, Dequeue(w) PROVE Tracked(r)'
  <2>1. /\ UNCHANGED <<trigger, timers, outcome>> /\ step[w] = "idle"
        /\ step'[w] = "taken" /\ holds'[w] = Head(queue)
        /\ \A v \in Workers : v # w => step'[v] = step[v] /\ holds'[v] = holds[v]
    BY <1>4 DEF Dequeue, At, Goto, QueueTypeOK
  <2>2. CASE Head(queue).run = r
    <3>1. /\ ~Starting(r) /\ ~Sleeping(r) /\ \A v \in Workers : ~Decides(v, r)
      BY <1>1, <2>2 DEF Tracked, Alone
    <3>2. Decides(w, r)' /\ \A v \in Workers : Decides(v, r)' => v = w
      BY <2>1, <2>2, <3>1 DEF Decides
    <3>3. ~Queued(r)' /\ ~Starting(r)' /\ ~Sleeping(r)'
      BY <1>1, <2>1, <2>2, <3>1 DEF Starting, Sleeping
    <3>4. Alone(r)'
      BY <1>1, <3>2, <3>3 DEF Alone, Sleeping
    <3>5. Alive(r)' /\ Carried(r)'
      BY <1>1, <2>1, <2>2, <3>2 DEF Tracked, Alive, Carried
    <3> QED BY <2>1, <3>4, <3>5 DEF Tracked
  <2>3. CASE Head(queue).run # r
    <3>1. \A v \in Workers : Decides(v, r)' <=> Decides(v, r)
      BY <2>1, <2>3 DEF Decides
    <3> QED BY <1>1, <1>2, <2>1, <2>3, <3>1, TrackedOn DEF Starting
  <2> QED BY <2>2, <2>3
<1> QED BY <1>3, <1>4

LEMMA TrackedTimer ==
    ASSUME QueueTypeOK, NEW t \in timers, TimerFires(t),
           NEW r \in Runs \ (lost' \cup twice'), Tracked(r)
    PROVE  Tracked(r)'
<1>0. queue \in Seq(Message) /\ Once(r)
  BY DEF QueueTypeOK, Tracked, Alone
<1>1. /\ Msg(t.run, t.attempt) \in Message /\ Msg(t.run, t.attempt).run = t.run
      /\ Enqueue(Msg(t.run, t.attempt))
  BY Messages DEF QueueTypeOK, Msg, TimerFires
<1>2. UNCHANGED <<trigger, step, holds, outcome>> /\ timers' = timers \ {t}
  BY DEF TimerFires, workerVars
<1>3. \A w \in Workers : Decides(w, r)' <=> Decides(w, r)
  BY <1>2 DEF Decides
<1>4. CASE t.run = r
  <2>1. /\ ~Starting(r) /\ ~Queued(r) /\ (\A w \in Workers : ~Decides(w, r)) /\ Alive(r)
        /\ \A u \in timers : u.run = r => u = t
    BY <1>4 DEF Tracked, Alone, Carried, Sleeping
  <2>2. Queued(r)' /\ Once(r)'
    BY <1>0, <1>1, <1>4, <2>1, EnqueueQueued
  <2>3. /\ ~Starting(r)' /\ ~Sleeping(r)' /\ (\A w \in Workers : ~Decides(w, r)') /\ Alive(r)'
    BY <1>2, <1>3, <2>1 DEF Starting, Sleeping, Alive
  <2>4. Alone(r)'
    BY <2>2, <2>3 DEF Alone, Sleeping
  <2> QED BY <2>2, <2>3, <2>4 DEF Tracked, Carried, Alive
<1>5. CASE t.run # r
  <2>1. (Queued(r)' <=> Queued(r)) /\ Once(r)'
    BY <1>0, <1>1, <1>5, EnqueueQueued
  <2> QED BY <1>2, <1>3, <1>5, <2>1, TrackedOn DEF Starting
<1> QED BY <1>4, <1>5

LEMMA TrackedProcess ==
    ASSUME QueueTypeOK, NEW w \in Workers, Process(w), NEW r \in Runs, Tracked(r)
    PROVE  Tracked(r)'
<1>0. Once(r) /\ UNCHANGED <<trigger, queue>> /\ step[w] # "idle" /\ holds[w].run \in Runs
  <2>1. UNCHANGED <<trigger, queue>> /\ step[w] # "idle"
    BY DEF Process, RejectUnknown, Begin, TimeOut, AfterError, MarkFailed,
       SendToDLQ, MarkSuccess, Succeed, Fail, At, listVars
  <2> QED BY <2>1, WorkerTypes DEF Tracked, Alone, At
<1>1. (Queued(r)' <=> Queued(r)) /\ Once(r)'
  BY <1>0 DEF Queued, Once
<1>2. \A v \in Workers : v # w => step'[v] = step[v] /\ holds'[v] = holds[v]
  BY DEF Process, RejectUnknown, Begin, TimeOut, AfterError, MarkFailed, SendToDLQ,
     MarkSuccess, Succeed, Fail, GiveUp, Retry, Leave, Goto, QueueTypeOK
<1>3. CASE Begin(w) \/ TimeOut(w) \/ Fail(w) \/ MarkFailed(w) \/ SendToDLQ(w) \/ MarkSuccess(w)
  <2>1. UNCHANGED <<timers, outcome>>
    BY <1>3 DEF Begin, TimeOut, Fail, MarkFailed, SendToDLQ, MarkSuccess
  <2>2. Decides(w, r)' <=> Decides(w, r)
    <3>1. CASE Begin(w) \/ TimeOut(w) \/ Fail(w)
      <4>1. /\ holds' = holds /\ step[w] \in {"taken", "running", "erred"}
            /\ step'[w] \in {"taken", "running", "erred"}
        BY <3>1 DEF Begin, TimeOut, Fail, Goto, At, QueueTypeOK
      <4> QED BY <4>1 DEF Decides
    <3>2. CASE MarkFailed(w) \/ SendToDLQ(w) \/ MarkSuccess(w)
      <4>1. /\ step[w] \in {"retrying", "exhausted", "dead", "succeeded"}
            /\ step'[w] \in {"idle", "dead"}
        BY <3>2 DEF MarkFailed, SendToDLQ, MarkSuccess, Leave, Goto, At, QueueTypeOK
      <4> QED BY <4>1 DEF Decides
    <3> QED BY <1>3, <3>1, <3>2
  <2>3. \A v \in Workers : Decides(v, r)' <=> Decides(v, r)
    BY <1>2, <2>2 DEF Decides
  <2> QED BY <1>0, <1>1, <2>1, <2>3, TrackedOn DEF Starting
<1>4. ASSUME NEW how \in {"failed", "success"}, NEW label \in {"exhausted", "succeeded"},
             step[w] \in {"taken", "running", "erred"}, step'[w] = label, holds' = holds,
             outcome' = [outcome EXCEPT ![holds[w].run] = how], timers' = timers
      PROVE  Tracked(r)'
  <2>1. CASE holds[w].run = r
    <3>1. Decides(w, r)
      BY <1>4, <2>1 DEF Decides
    <3>2. /\ ~Starting(r) /\ ~Queued(r) /\ ~Sleeping(r)
          /\ \A v \in Workers : Decides(v, r) => v = w
      BY <3>1 DEF Tracked, Alone
    <3>3. outcome'[r] = how /\ ~Starting(r)' /\ ~Queued(r)' /\ ~Sleeping(r)'
      BY <1>0, <1>1, <1>4, <2>1, <3>2 DEF QueueTypeOK, Starting, Sleeping
    <3>4. \A v \in Workers : ~Decides(v, r)'
      BY <1>2, <1>4, <3>2 DEF Decides
    <3>5. Alone(r)' /\ ~Carried(r)' /\ ~Alive(r)'
      BY <1>1, <3>3, <3>4 DEF Alone, Carried, Alive, Sleeping
    <3>6. trigger'[r] # "idle"
      BY <1>0, <3>1 DEF Tracked, Carried, Alive
    <3> QED BY <3>5, <3>6 DEF Tracked
  <2>2. CASE holds[w].run # r
    <3>1. \A v \in Workers : Decides(v, r)' <=> Decides(v, r)
      BY <1>2, <1>4, <2>2 DEF Decides
    <3>2. outcome'[r] = outcome[r]
      BY <1>4, <2>2 DEF QueueTypeOK
    <3> QED BY <1>0, <1>1, <1>4, <3>1, <3>2, TrackedOn DEF Starting
  <2> QED BY <2>1, <2>2
<1>5. CASE RejectUnknown(w) \/ Succeed(w) \/ (AfterError(w) /\ GiveUp(w) /\ timers' = timers)
  <2>1. CASE RejectUnknown(w) \/ (AfterError(w) /\ GiveUp(w) /\ timers' = timers)
    <3>1. /\ step[w] \in {"taken", "running", "erred"} /\ step'[w] = "exhausted"
          /\ holds' = holds /\ timers' = timers
          /\ outcome' = [outcome EXCEPT ![holds[w].run] = "failed"]
      BY <2>1 DEF RejectUnknown, AfterError, GiveUp, Goto, At, QueueTypeOK
    <3> QED BY <1>4, <3>1
  <2>2. CASE Succeed(w)
    <3>1. /\ step[w] \in {"taken", "running", "erred"} /\ step'[w] = "succeeded"
          /\ holds' = holds /\ timers' = timers
          /\ outcome' = [outcome EXCEPT ![holds[w].run] = "success"]
      BY <2>2 DEF Succeed, Goto, At, QueueTypeOK
    <3> QED BY <1>4, <3>1
  <2> QED BY <1>5, <2>1, <2>2
<1>6. CASE AfterError(w) /\ Retry(w)
  <2> DEFINE t == [run |-> holds[w].run, attempt |-> holds[w].attempt + 1, host |-> HostOf[w]]
  <2>1. /\ step[w] = "erred" /\ step'[w] = "retrying" /\ holds' = holds
        /\ outcome' = outcome /\ timers' = timers \cup {t} /\ t.run = holds[w].run
    BY <1>6 DEF AfterError, Retry, Goto, At, QueueTypeOK
  <2> HIDE DEF t
  <2>2. CASE holds[w].run = r
    <3>1. Decides(w, r)
      BY <2>1, <2>2 DEF Decides
    <3>2. /\ ~Starting(r) /\ ~Queued(r) /\ ~Sleeping(r) /\ Alive(r)
          /\ \A v \in Workers : Decides(v, r) => v = w
      BY <3>1 DEF Tracked, Alone, Carried
    <3>3. ~Starting(r)' /\ ~Queued(r)' /\ Sleeping(r)' /\ Alive(r)'
      BY <1>0, <1>1, <2>1, <2>2, <3>2 DEF Starting, Sleeping, Alive
    <3>4. \A v \in Workers : ~Decides(v, r)'
      BY <1>2, <2>1, <3>2 DEF Decides
    <3>5. \A u, v \in timers' : u.run = r /\ v.run = r => u = v
      BY <2>1, <3>2 DEF Sleeping
    <3>6. Alone(r)'
      BY <1>1, <3>3, <3>4, <3>5 DEF Alone
    <3> QED BY <3>3, <3>6 DEF Tracked, Carried, Alive
  <2>3. CASE holds[w].run # r
    <3>1. \A v \in Workers : Decides(v, r)' <=> Decides(v, r)
      BY <1>2, <2>1, <2>3 DEF Decides
    <3> QED BY <1>0, <1>1, <2>1, <2>3, <3>1, TrackedOn DEF Starting
  <2> QED BY <2>2, <2>3
<1>7. AfterError(w) => Retry(w) \/ (GiveUp(w) /\ timers' = timers)
  BY DEF AfterError
<1> QED BY <1>3, <1>5, <1>6, <1>7 DEF Process

LEMMA TrackedCrash ==
    ASSUME QueueTypeOK, NEW h \in Hosts, Crash(h),
           NEW r \in Runs \ (lost' \cup twice'), Tracked(r)
    PROVE  Tracked(r)'
<1>1. UNCHANGED <<trigger, queue, outcome>> /\ timers' = { t \in timers : t.host # h }
  BY DEF Crash, listVars
<1>2. \A t : t.run = r => (t \in timers' <=> t \in timers)
  BY <1>1 DEF Crash
<1>3. \A w \in Workers : Decides(w, r)' <=> Decides(w, r)
  <2> SUFFICES ASSUME NEW w \in Workers PROVE Decides(w, r)' <=> Decides(w, r)
    OBVIOUS
  <2>1. CASE HostOf[w] = h /\ step[w] # "idle"
    <3>1. step'[w] = "idle"
      BY <2>1 DEF Crash, At, QueueTypeOK
    <3>2. ~Decides(w, r)
      BY <2>1 DEF Crash, At, Decides
    <3> QED BY <3>1, <3>2 DEF Decides
  <2>2. CASE ~(HostOf[w] = h /\ step[w] # "idle")
    <3>1. step'[w] = step[w] /\ holds'[w] = holds[w]
      BY <2>2 DEF Crash, At, QueueTypeOK
    <3> QED BY <3>1 DEF Decides
  <2> QED BY <2>1, <2>2
<1>4. (Queued(r)' <=> Queued(r)) /\ Once(r)'
  BY <1>1 DEF Queued, Once, Tracked, Alone
<1> QED BY <1>1, <1>2, <1>3, <1>4, TrackedOn DEF Starting

LEMMA FaultsGrow == [Next]_vars => lost \subseteq lost' /\ twice \subseteq twice'
<1>1. CASE Next
  BY <1>1 DEF Next, Handler, Work, Returns, Ask, InsertRun, EnqueueRun, AbandonTrigger,
     Dequeue, RejectUnknown, Begin, TimeOut, AfterError, MarkFailed, SendToDLQ,
     MarkSuccess, Succeed, Fail, TimerFires, BodyEnds, LosePopped, Crash, Enqueue,
     Write, faultVars
<1>2. CASE UNCHANGED vars
  BY <1>2 DEF vars, faultVars
<1> QED BY SMTT(30), <1>1, <1>2

\* The actions of Next, those of a worker with its message taken together.
LEMMA NextSplit ==
    ASSUME Next
    PROVE  \/ \E q \in Runs : Ask(q) \/ Handler(q) \/ AbandonTrigger(q)
           \/ LosePopped \/ \E w \in Workers : Dequeue(w)
           \/ \E w \in Workers : Process(w)
           \/ \E t \in timers : TimerFires(t)
           \/ \E b \in bodies : BodyEnds(b)
           \/ \E h \in Hosts : Crash(h)
BY DEF Next, Work, Returns, Process

LEMMA TrackStep == QueueTypeOK /\ TrackInv /\ [Next]_vars => TrackInv'
<1> SUFFICES ASSUME QueueTypeOK, TrackInv, [Next]_vars, NEW r \in Runs \ (lost' \cup twice')
             PROVE  Tracked(r)'
  BY DEF TrackInv
<1>1. Tracked(r)
  BY FaultsGrow DEF TrackInv
<1>2. CASE UNCHANGED vars \/ \E b \in bodies : BodyEnds(b)
  <2>1. UNCHANGED <<trigger, queue, step, holds, timers, outcome>>
    BY <1>2 DEF vars, BodyEnds, listVars, workerVars
  <2>2. (Queued(r)' <=> Queued(r)) /\ Once(r)'
    BY <1>1, <2>1 DEF Queued, Once, Tracked, Alone
  <2> QED BY <1>1, <2>1, <2>2, TrackedOn DEF Starting, Decides
<1>3. CASE Next
  BY <1>1, <1>2, <1>3, NextSplit, TrackedHandler, TrackedList, TrackedProcess, TrackedTimer,
     TrackedCrash
<1> QED BY <1>2, <1>3


-----------------------------------------------------------------------------
\* One carrier is one token.
LEMMA TokensCount ==
    ASSUME QueueTypeOK, NEW r \in Runs, Tracked(r)
    PROVE  Tokens(r) = IF trigger[r] # "idle" /\ outcome[r] = "open" THEN 1 ELSE 0
<1> DEFINE Q == { i \in DOMAIN queue : queue[i].run = r }
           T == { t \in timers : t.run = r }
           W == { w \in Carriers(r) : step[w] \in {"taken", "running", "erred"} }
<1>1. Cardinality(Q) = IF Queued(r) THEN 1 ELSE 0
  <2>1. CASE Queued(r)
    <3>1. PICK i \in DOMAIN queue : queue[i].run = r
      BY <2>1 DEF Queued
    <3>2. Q = {i}
      BY <3>1 DEF Tracked, Alone, Once
    <3> HIDE DEF Q
    <3> QED BY <2>1, <3>2, FS_Singleton
  <2>2. CASE ~Queued(r)
    <3>1. Q = {}
      BY <2>2 DEF Queued
    <3> QED BY <2>2, <3>1, FS_EmptySet
  <2> QED BY <2>1, <2>2
<1>2. Cardinality(T) = IF Sleeping(r) THEN 1 ELSE 0
  <2>1. CASE Sleeping(r)
    <3>1. PICK t \in timers : t.run = r
      BY <2>1 DEF Sleeping
    <3>2. T = {t}
      BY <3>1 DEF Tracked, Alone
    <3> HIDE DEF T
    <3> QED BY <2>1, <3>2, FS_Singleton
  <2>2. CASE ~Sleeping(r)
    <3>1. T = {}
      BY <2>2 DEF Sleeping
    <3> QED BY <2>2, <3>1, FS_EmptySet
  <2> QED BY <2>1, <2>2
<1>3. \A w : w \in W <=> w \in Workers /\ Decides(w, r)
  BY DEF Carriers, Decides, At
<1>4. Cardinality(W) = IF \E w \in Workers : Decides(w, r) THEN 1 ELSE 0
  <2> HIDE DEF W
  <2>1. CASE \E w \in Workers : Decides(w, r)
    <3>1. PICK w \in Workers : Decides(w, r)
      BY <2>1
    <3>2. W = {w}
      BY <1>3, <3>1 DEF Tracked, Alone
    <3> QED BY <2>1, <3>2, FS_Singleton
  <2>2. CASE ~\E w \in Workers : Decides(w, r)
    <3>1. W = {}
      BY <1>3, <2>2
    <3> QED BY <2>2, <3>1, FS_EmptySet
  <2> QED BY <2>1, <2>2
<1>5. Tokens(r) = (IF Starting(r) THEN 1 ELSE 0) + Cardinality(Q) + Cardinality(T)
                      + Cardinality(W)
  BY DEF Tokens, Starting
<1> HIDE DEF Q, T, W
<1>6. CASE Alive(r)
  <2>1. Carried(r)
    BY <1>6 DEF Tracked
  <2> QED BY <1>1, <1>2, <1>4, <1>5, <1>6, <2>1 DEF Tracked, Alone, Carried, Alive
<1>7. CASE ~Alive(r)
  <2>1. ~Carried(r)
    BY <1>7 DEF Tracked
  <2> QED BY <1>1, <1>2, <1>4, <1>5, <1>7, <2>1 DEF Carried, Alive
<1> QED BY <1>6, <1>7
-----------------------------------------------------------------------------
(* Counting the executions ahead. *)

Cost(a) == MaxAttempt + 1 - a

\* The attempts from a on, of one thing x.
LEMMA Slots ==
    ASSUME NEW x, NEW a \in Nat, a >= 1, a <= MaxAttempt + 1
    PROVE  /\ IsFiniteSet({x} \X (a .. MaxAttempt))
           /\ Cardinality({x} \X (a .. MaxAttempt)) = Cost(a)
           /\ Cost(a) \in Nat
<1>1. MaxAttempt \in Nat /\ a \in Int /\ MaxAttempt \in Int
  BY Attempts
<1>2. IsFiniteSet(a .. MaxAttempt) /\ Cardinality(a .. MaxAttempt) = Cost(a)
  <2> DEFINE b == MaxAttempt
  <2>1. b \in Nat /\ a <= b + 1
    BY <1>1
  <2> HIDE DEF b
  <2>2. /\ IsFiniteSet(a .. b)
        /\ Cardinality(a .. b) = IF a > b THEN 0 ELSE b - a + 1
    BY <2>1, FS_Interval
  <2>3. Cardinality(a .. b) = b + 1 - a
    BY <2>1, <2>2
  <2> QED BY <2>2, <2>3 DEF b, Cost
<1>3. IsFiniteSet({x}) /\ Cardinality({x}) = 1
  BY FS_Singleton
<1>4. /\ IsFiniteSet({x} \X (a .. MaxAttempt))
      /\ Cardinality({x} \X (a .. MaxAttempt)) = 1 * Cost(a)
  BY ZenonT(40), <1>2, <1>3, FS_Product
<1>5. Cost(a) \in Nat
  BY <1>1 DEF Cost
<1> QED BY <1>4, <1>5

\* A set that another and the attempts of one thing cover.
LEMMA Covered ==
    ASSUME NEW S, IsFiniteSet(S), NEW x, NEW a \in Nat, a >= 1, a <= MaxAttempt + 1,
           NEW T, T \subseteq S \cup ({x} \X (a .. MaxAttempt))
    PROVE  IsFiniteSet(T) /\ Cardinality(T) <= Cardinality(S) + Cost(a)
<1> DEFINE X == {x} \X (a .. MaxAttempt)
<1>1. IsFiniteSet(X) /\ Cardinality(X) = Cost(a) /\ Cost(a) \in Nat
  BY Slots
<1> HIDE DEF X
<1>2. IsFiniteSet(S \cup X) /\ Cardinality(S \cup X) = Cardinality(S) + Cardinality(X) - Cardinality(S \cap X)
  BY <1>1, FS_Union
<1>3. IsFiniteSet(S \cap X)
  BY FS_Intersection
<1>4. T \in SUBSET (S \cup X)
  BY DEF X
<1>5. IsFiniteSet(T) /\ Cardinality(T) <= Cardinality(S \cup X)
  BY <1>2, <1>4, FS_Subset
<1>6. Cardinality(S) \in Nat /\ Cardinality(S \cap X) \in Nat /\ Cardinality(T) \in Nat
  BY <1>3, <1>5, FS_CardinalityType
<1> QED BY <1>1, <1>2, <1>5, <1>6

\* And one that has lost the attempts of one thing.
LEMMA Uncovered ==
    ASSUME NEW S, IsFiniteSet(S), NEW x, NEW a \in Nat, a >= 1, a <= MaxAttempt + 1,
           {x} \X (a .. MaxAttempt) \subseteq S,
           NEW T, T \subseteq S \ ({x} \X (a .. MaxAttempt))
    PROVE  IsFiniteSet(T) /\ Cardinality(T) + Cost(a) <= Cardinality(S)
<1> DEFINE X == {x} \X (a .. MaxAttempt)
<1>1. IsFiniteSet(X) /\ Cardinality(X) = Cost(a) /\ Cost(a) \in Nat
  BY Slots
<1>2. S \cap X = X /\ T \in SUBSET (S \ X)
  OBVIOUS
<1> HIDE DEF X
<1>3. IsFiniteSet(S \ X) /\ Cardinality(S \ X) = Cardinality(S) - Cardinality(X)
  BY <1>2, FS_Difference
<1>4. IsFiniteSet(T) /\ Cardinality(T) <= Cardinality(S \ X)
  BY <1>2, <1>3, FS_Subset
<1>5. Cardinality(S) \in Nat /\ Cardinality(T) \in Nat
  BY <1>4, FS_CardinalityType
<1> QED BY <1>1, <1>3, <1>4, <1>5

LEMMA QueueTail ==
    ASSUME queue \in Seq(Message), queue # <<>>, queue' = Tail(queue), NEW r \in Runs,
           IsFiniteSet(InQueue(r))
    PROVE  /\ IsFiniteSet(InQueue(r)')
           /\ Cardinality(InQueue(r)') + (IF Head(queue).run = r THEN Cost(Head(queue).attempt) ELSE 0)
                <= Cardinality(InQueue(r))
<1> DEFINE S == { p \in InQueue(r) : p[1] # 1 }
           f == [p \in S |-> <<p[1] - 1, p[2]>>]
<1>1. /\ Len(queue) \in Nat /\ Len(queue) > 0 /\ DOMAIN queue = 1 .. Len(queue)
      /\ DOMAIN queue' = 1 .. Len(queue) - 1 /\ Head(queue) = queue[1]
      /\ \A i \in 1 .. Len(queue) - 1 : queue'[i] = queue[i + 1] /\ i + 1 \in 1 .. Len(queue)
      /\ \A i \in 1 .. Len(queue) : i # 1 =>
             queue'[i - 1] = queue[i] /\ i - 1 \in 1 .. Len(queue) - 1
      /\ queue[1] \in Message
  OBVIOUS
<1>2. S \in SUBSET InQueue(r)
  OBVIOUS
<1>3. IsFiniteSet(S) /\ Cardinality(S) <= Cardinality(InQueue(r))
  BY <1>2, FS_Subset
<1>4. f \in Surjection(S, InQueue(r)')
  <2>1. ASSUME NEW p \in S PROVE f[p] \in InQueue(r)'
    BY <1>1, <2>1 DEF InQueue
  <2>2. ASSUME NEW p \in InQueue(r)' PROVE \E s \in S : f[s] = p
    <3>1. /\ p = <<p[1], p[2]>> /\ p[1] \in 1 .. Len(queue) - 1 /\ p[2] \in 1 .. MaxAttempt
          /\ queue'[p[1]].run = r /\ queue'[p[1]].attempt <= p[2]
      BY <1>1 DEF InQueue
    <3>2. <<p[1] + 1, p[2]>> \in S
      BY <1>1, <3>1 DEF InQueue
    <3>3. f[<<p[1] + 1, p[2]>>] = p
      BY <3>1, <3>2
    <3> QED BY <3>2, <3>3
  <2> QED BY <2>1, <2>2 DEF Surjection
<1> HIDE DEF f
<1>5. IsFiniteSet(InQueue(r)') /\ Cardinality(InQueue(r)') <= Cardinality(S)
  BY <1>3, <1>4, FS_Surjection
<1>6. Cardinality(S) \in Nat /\ Cardinality(InQueue(r)) \in Nat /\ Cardinality(InQueue(r)') \in Nat
  BY <1>3, <1>5, FS_CardinalityType
<1>7. CASE queue[1].run = r
  <2> DEFINE a == queue[1].attempt
  <2>1. a \in Nat /\ a >= 1 /\ a <= MaxAttempt + 1 /\ a \in 1 .. MaxAttempt
    BY <1>1, Messages, Attempts
  <2>2. {1} \X (a .. MaxAttempt) \subseteq InQueue(r)
    BY <1>1, <1>7, <2>1, Attempts DEF InQueue
  <2>3. S \subseteq InQueue(r) \ ({1} \X (a .. MaxAttempt))
    OBVIOUS
  <2> HIDE DEF S, a
  <2>4. Cardinality(S) + Cost(a) <= Cardinality(InQueue(r))
    BY <2>1, <2>2, <2>3, Uncovered
  <2>5. Cost(a) \in Nat
    BY <2>1, Slots
  <2> QED BY <1>1, <1>5, <1>6, <1>7, <2>4, <2>5 DEF a
<1>8. CASE queue[1].run # r
  BY <1>1, <1>3, <1>5, <1>6, <1>8
<1> QED BY <1>7, <1>8

LEMMA QueueMore ==
    ASSUME queue \in Seq(Message), NEW m \in Message, NEW r \in Runs, IsFiniteSet(InQueue(r)),
           queue' = Append(queue, m) \/ queue' = queue \o <<m, m>>
    PROVE  /\ IsFiniteSet(InQueue(r)')
           /\ m.run # r => Cardinality(InQueue(r)') <= Cardinality(InQueue(r))
           /\ m.run = r /\ queue' = Append(queue, m) =>
                Cardinality(InQueue(r)') <= Cardinality(InQueue(r)) + Cost(m.attempt)
           /\ m.run = r =>
                Cardinality(InQueue(r)') <= Cardinality(InQueue(r)) + 2 * Cost(m.attempt)
<1> DEFINE a == m.attempt
           n == Len(queue)
           X == {n + 1} \X (a .. MaxAttempt)
           Y == {n + 2} \X (a .. MaxAttempt)
<1>0. a \in Nat /\ a >= 1 /\ a <= MaxAttempt + 1 /\ a \in 1 .. MaxAttempt
  BY Messages, Attempts
<1>1. /\ n \in Nat /\ DOMAIN queue = 1 .. n
      /\ \A i \in 1 .. n : queue'[i] = queue[i]
      /\ \A i \in DOMAIN queue' : i \in 1 .. n \/ (i = n + 1 /\ queue'[i] = m)
                                     \/ (i = n + 2 /\ queue'[i] = m /\ queue' = queue \o <<m, m>>)
  <2>1. CASE queue' = Append(queue, m)
    BY <2>1
  <2>2. CASE queue' = queue \o <<m, m>>
    BY <2>2
  <2> QED BY <2>1, <2>2
<1>2. ASSUME NEW p \in InQueue(r)'
      PROVE  p \in InQueue(r) \/ (m.run = r /\ p \in X)
                 \/ (m.run = r /\ p \in Y /\ queue' = queue \o <<m, m>>)
  <2>1. /\ p = <<p[1], p[2]>> /\ p[1] \in DOMAIN queue' /\ p[2] \in 1 .. MaxAttempt
        /\ queue'[p[1]].run = r /\ queue'[p[1]].attempt <= p[2]
    BY <1>2 DEF InQueue
  <2>2. CASE p[1] \in 1 .. n
    BY <1>1, <2>1, <2>2 DEF InQueue
  <2>3. CASE p[1] = n + 1 /\ queue'[p[1]] = m
    <3>1. p[2] \in a .. MaxAttempt /\ m.run = r
      BY <1>0, <2>1, <2>3
    <3> QED BY <2>1, <2>3, <3>1
  <2>4. CASE p[1] = n + 2 /\ queue'[p[1]] = m /\ queue' = queue \o <<m, m>>
    <3>1. p[2] \in a .. MaxAttempt /\ m.run = r
      BY <1>0, <2>1, <2>4
    <3> QED BY <2>1, <2>4, <3>1
  <2> QED BY <1>1, <2>1, <2>2, <2>3, <2>4
<1>3. Cost(a) \in Nat /\ Cardinality(InQueue(r)) \in Nat
  BY <1>0, Slots, FS_CardinalityType
<1>4. CASE m.run # r
  <2>1. InQueue(r)' \in SUBSET InQueue(r)
    BY <1>2, <1>4
  <2> QED BY <1>4, <2>1, FS_Subset
<1>5. CASE m.run = r /\ queue' # queue \o <<m, m>>
  <2>1. InQueue(r)' \subseteq InQueue(r) \cup ({n + 1} \X (a .. MaxAttempt))
    BY <1>2, <1>5
  <2>2. IsFiniteSet(InQueue(r)') /\ Cardinality(InQueue(r)') <= Cardinality(InQueue(r)) + Cost(a)
    BY <1>0, <2>1, Covered
  <2>3. Cardinality(InQueue(r)') \in Nat
    BY <2>2, FS_CardinalityType
  <2> QED BY <1>3, <1>5, <2>2, <2>3
<1>6. CASE m.run = r /\ queue' = queue \o <<m, m>>
  <2> DEFINE S == InQueue(r) \cup ({n + 1} \X (a .. MaxAttempt))
  <2>1. IsFiniteSet(S) /\ Cardinality(S) <= Cardinality(InQueue(r)) + Cost(a)
    BY <1>0, Covered
  <2>2. InQueue(r)' \subseteq S \cup ({n + 2} \X (a .. MaxAttempt))
    BY <1>2
  <2> HIDE DEF S
  <2>3. IsFiniteSet(InQueue(r)') /\ Cardinality(InQueue(r)') <= Cardinality(S) + Cost(a)
    BY <1>0, <2>1, <2>2, Covered
  <2>4. Cardinality(InQueue(r)') \in Nat /\ Cardinality(S) \in Nat
    BY <2>1, <2>3, FS_CardinalityType
  <2>5. queue' # Append(queue, m)
    <3>1. Len(Append(queue, m)) # Len(queue \o <<m, m>>)
      OBVIOUS
    <3> QED BY <1>6, <3>1
  <2> QED BY <1>3, <1>6, <2>1, <2>3, <2>4, <2>5
<1> QED BY <1>4, <1>5, <1>6


-----------------------------------------------------------------------------
\* What may be executed at most grows with the faults.
LEMMA LimitGrows ==
    ASSUME NEW r, faults \in Nat, faults' \in Nat, faults <= faults', twice \subseteq twice'
    PROVE  /\ Limit(r) \in Nat /\ Limit(r)' \in Nat /\ Limit(r) <= Limit(r)'
           /\ r \in twice' /\ faults' = faults + 1 => Limit(r) + MaxAttempt <= Limit(r)'
<1> DEFINE M == MaxAttempt
           x == IF r \in twice THEN faults ELSE 0
           y == IF r \in twice' THEN faults' ELSE 0
<1>1. M \in Nat /\ x \in Nat /\ y \in Nat /\ x <= y
  BY Attempts
<1>2. r \in twice' /\ faults' = faults + 1 => x + 1 <= y
  OBVIOUS
<1>3. Limit(r) = M * (1 + x) /\ Limit(r)' = M * (1 + y)
  BY DEF Limit
<1> HIDE DEF M, x, y
<1>4. \A k \in Nat : M * (1 + x + k) = M * (1 + x) + M * k /\ M * k \in Nat
  BY <1>1
<1>5. PICK k \in Nat : y = x + k
  <2>1. y - x \in Nat /\ y = x + (y - x)
    BY <1>1
  <2> QED BY <2>1
<1>6. Limit(r)' = Limit(r) + M * k /\ M * k \in Nat /\ Limit(r) \in Nat
  <2>1. M * (1 + x) \in Nat
    BY <1>1
  <2>2. M * (1 + y) = M * (1 + x + k)
    BY <1>1, <1>5
  <2> QED BY <1>3, <1>4, <2>1, <2>2
<1>7. x + 1 <= y => M * k >= M
  <2> SUFFICES ASSUME x + 1 <= y PROVE M * k >= M
    OBVIOUS
  <2>1. PICK j \in Nat : k = j + 1
    <3>1. k - 1 \in Nat /\ k = (k - 1) + 1
      BY <1>1, <1>5
    <3> QED BY <3>1
  <2>2. M * k = M * j + M /\ M * j \in Nat
    BY <1>1, <2>1
  <2> QED BY <1>1, <2>2
<1> QED BY <1>1, <1>2, <1>6, <1>7 DEF M

\* A message on its way to the list, and the limit that its being doubled raises.
LEMMA EnqueueCost ==
    ASSUME queue \in Seq(Message), faults \in Nat, NEW m \in Message, Enqueue(m),
           NEW r \in Runs, IsFiniteSet(InQueue(r))
    PROVE  /\ IsFiniteSet(InQueue(r)')
           /\ Cardinality(InQueue(r)') + Limit(r)
                <= Cardinality(InQueue(r)) + (IF m.run = r THEN Cost(m.attempt) ELSE 0) + Limit(r)'
<1> DEFINE c == Cost(m.attempt)
<1>0. /\ m.attempt \in Nat /\ m.attempt >= 1 /\ m.attempt <= MaxAttempt + 1
      /\ m.attempt \in 1 .. MaxAttempt /\ MaxAttempt \in Nat
  BY Messages, Attempts
<1>1. c \in Nat /\ c <= MaxAttempt
  BY <1>0, Slots DEF Cost
<1>2. Cardinality(InQueue(r)) \in Nat
  BY FS_CardinalityType
<1>3. CASE queue' = Append(queue, m) /\ UNCHANGED faultVars
  <2>1. faults' = faults /\ twice' = twice
    BY <1>3 DEF faultVars
  <2>2. Limit(r) \in Nat /\ Limit(r)' \in Nat /\ Limit(r) <= Limit(r)'
    BY <2>1, LimitGrows
  <2>3. /\ IsFiniteSet(InQueue(r)')
        /\ m.run # r => Cardinality(InQueue(r)') <= Cardinality(InQueue(r))
        /\ m.run = r => Cardinality(InQueue(r)') <= Cardinality(InQueue(r)) + c
    BY <1>3, QueueMore
  <2>4. Cardinality(InQueue(r)') \in Nat
    BY <2>3, FS_CardinalityType
  <2> HIDE DEF c
  <2>5. CASE m.run = r
    BY <1>1, <1>2, <2>2, <2>3, <2>4, <2>5 DEF c
  <2>6. CASE m.run # r
    BY <1>1, <1>2, <2>2, <2>3, <2>4, <2>6
  <2> QED BY <2>5, <2>6
<1>4. CASE Fault /\ queue' = queue \o <<m, m>> /\ twice' = twice \cup {m.run}
  <2>1. faults' = faults + 1 /\ faults' \in Nat /\ faults <= faults' /\ twice \subseteq twice'
    BY <1>4 DEF Fault
  <2>2. /\ Limit(r) \in Nat /\ Limit(r)' \in Nat /\ Limit(r) <= Limit(r)'
        /\ m.run = r => Limit(r) + MaxAttempt <= Limit(r)'
    BY <1>4, <2>1, LimitGrows
  <2>3. /\ IsFiniteSet(InQueue(r)')
        /\ m.run # r => Cardinality(InQueue(r)') <= Cardinality(InQueue(r))
        /\ m.run = r => Cardinality(InQueue(r)') <= Cardinality(InQueue(r)) + 2 * c
    BY <1>4, QueueMore
  <2>4. Cardinality(InQueue(r)') \in Nat
    BY <2>3, FS_CardinalityType
  <2> HIDE DEF c
  <2>5. CASE m.run = r
    BY SMTT(30), <1>0, <1>1, <1>2, <2>2, <2>3, <2>4, <2>5 DEF c
  <2>6. CASE m.run # r
    BY <1>1, <1>2, <2>2, <2>3, <2>4, <2>6
  <2> QED BY <2>5, <2>6
<1>5. CASE Fault /\ UNCHANGED <<queue, twice>>
  <2>1. faults' = faults + 1 /\ faults' \in Nat /\ faults <= faults' /\ twice \subseteq twice'
    BY <1>5 DEF Fault
  <2>2. Limit(r) \in Nat /\ Limit(r)' \in Nat /\ Limit(r) <= Limit(r)'
    BY <2>1, LimitGrows
  <2>3. InQueue(r)' = InQueue(r)
    BY <1>5 DEF InQueue
  <2> QED BY <1>1, <1>2, <2>2, <2>3
<1> QED BY <1>3, <1>4, <1>5 DEF Enqueue

LEMMA TimersLess ==
    ASSUME timers \subseteq Held, NEW t \in timers, timers' = timers \ {t}, NEW r \in Runs,
           IsFiniteSet(InTimers(r))
    PROVE  /\ IsFiniteSet(InTimers(r)')
           /\ Cardinality(InTimers(r)') + (IF t.run = r THEN Cost(t.attempt) ELSE 0)
                <= Cardinality(InTimers(r))
<1>0. /\ t.attempt \in Nat /\ t.attempt >= 1 /\ t.attempt <= MaxAttempt + 1
      /\ t.attempt \in 1 .. MaxAttempt
  BY Messages, Attempts
<1>1. InTimers(r)' \in SUBSET InTimers(r)
  BY DEF InTimers
<1>2. CASE t.run = r
  <2>1. {t} \X (t.attempt .. MaxAttempt) \subseteq InTimers(r)
    BY <1>0, <1>2, Attempts DEF InTimers
  <2>2. InTimers(r)' \subseteq InTimers(r) \ ({t} \X (t.attempt .. MaxAttempt))
    BY DEF InTimers
  <2> QED BY <1>0, <1>2, <2>1, <2>2, Uncovered
<1>3. CASE t.run # r
  <2>1. IsFiniteSet(InTimers(r)') /\ Cardinality(InTimers(r)') <= Cardinality(InTimers(r))
    BY <1>1, FS_Subset
  <2>2. Cardinality(InTimers(r)') \in Nat
    BY <2>1, FS_CardinalityType
  <2> QED BY <1>3, <2>1, <2>2
<1> QED BY <1>2, <1>3

LEMMA TimersMore ==
    ASSUME NEW t \in Held, timers' = timers \cup {t}, NEW r \in Runs, IsFiniteSet(InTimers(r))
    PROVE  /\ IsFiniteSet(InTimers(r)')
           /\ Cardinality(InTimers(r)')
                <= Cardinality(InTimers(r)) + (IF t.run = r THEN Cost(t.attempt) ELSE 0)
<1>0. /\ t.attempt \in Nat /\ t.attempt >= 1 /\ t.attempt <= MaxAttempt + 1
      /\ t.attempt \in 1 .. MaxAttempt /\ MaxAttempt \in Nat
  BY Messages, Attempts
<1>1. CASE t.run = r
  <2>1. InTimers(r)' \subseteq InTimers(r) \cup ({t} \X (t.attempt .. MaxAttempt))
    <3> SUFFICES ASSUME NEW p \in InTimers(r)', p \notin InTimers(r)
                 PROVE  p \in {t} \X (t.attempt .. MaxAttempt)
      OBVIOUS
    <3>1. /\ p = <<p[1], p[2]>> /\ p[1] \in timers \cup {t} /\ p[2] \in 1 .. MaxAttempt
          /\ p[1].run = r /\ p[1].attempt <= p[2]
      BY DEF InTimers
    <3>2. p[1] = t
      BY <3>1 DEF InTimers
    <3>3. p[2] \in t.attempt .. MaxAttempt
      BY <1>0, <3>1, <3>2
    <3> QED BY <3>1, <3>2, <3>3
  <2> QED BY <1>0, <1>1, <2>1, Covered
<1>2. CASE t.run # r
  <2>1. InTimers(r)' = InTimers(r)
    BY <1>2 DEF InTimers
  <2>2. Cardinality(InTimers(r)) \in Nat
    BY FS_CardinalityType
  <2> QED BY <1>2, <2>1, <2>2
<1> QED BY <1>1, <1>2

\* One worker's part of InHands changes, that of the others does not.
LEMMA HandStep ==
    ASSUME NEW w \in Workers, NEW r \in Runs, IsFiniteSet(InHands(r)),
           \A v \in Workers : v # w => HandSlots(v, r)' = HandSlots(v, r)
    PROVE  /\ IsFiniteSet(InHands(r)')
           /\ Cardinality(InHands(r)') + Cardinality(HandSlots(w, r))
                = Cardinality(InHands(r)) + Cardinality(HandSlots(w, r)')
           /\ Cardinality(InHands(r)) \in Nat /\ Cardinality(InHands(r)') \in Nat
           /\ Cardinality(HandSlots(w, r)) \in Nat /\ Cardinality(HandSlots(w, r)') \in Nat
<1> DEFINE A == HandSlots(w, r)
           B == HandSlots(w, r)'
           Rest == { p \in InHands(r) : p[1] # w }
<1>1. A \in SUBSET (1 .. MaxAttempt) /\ B \in SUBSET (1 .. MaxAttempt)
  BY DEF HandSlots
<1>2. IsFiniteSet(1 .. MaxAttempt)
  BY Attempts, FS_Interval
<1>3. InHands(r) = Rest \cup ({w} \X A) /\ InHands(r)' = Rest \cup ({w} \X B)
  <2>1. InHands(r) = Rest \cup ({w} \X A)
    BY <1>1 DEF InHands
  <2>2. InHands(r)' = Rest \cup ({w} \X B)
    BY <1>1 DEF InHands
  <2> QED BY <2>1, <2>2
<1>4. Rest \in SUBSET InHands(r) /\ Rest \cap ({w} \X A) = {} /\ Rest \cap ({w} \X B) = {}
  OBVIOUS
<1> HIDE DEF A, B, Rest
<1>5. IsFiniteSet(A) /\ IsFiniteSet(B) /\ IsFiniteSet(Rest)
  BY <1>1, <1>2, <1>4, FS_Subset
<1>6. IsFiniteSet({w}) /\ Cardinality({w}) = 1
  BY FS_Singleton
<1>7. Cardinality(A) \in Nat /\ Cardinality(B) \in Nat /\ Cardinality(Rest) \in Nat
  BY <1>5, FS_CardinalityType
<1>8. IsFiniteSet({w} \X A) /\ Cardinality({w} \X A) = 1 * Cardinality(A)
  BY <1>5, <1>6, FS_Product
<1>9. IsFiniteSet({w} \X B) /\ Cardinality({w} \X B) = 1 * Cardinality(B)
  BY <1>5, <1>6, FS_Product
<1>10. Cardinality(InHands(r)) = Cardinality(Rest) + Cardinality(A)
  <2>1. Cardinality(Rest \cup ({w} \X A)) = Cardinality(Rest) + Cardinality({w} \X A) - Cardinality({})
    BY <1>4, <1>5, <1>8, FS_Union
  <2> QED BY <1>3, <1>7, <1>8, <2>1, FS_EmptySet
<1>11. /\ IsFiniteSet(InHands(r)')
       /\ Cardinality(InHands(r)') = Cardinality(Rest) + Cardinality(B)
  <2>1. /\ IsFiniteSet(Rest \cup ({w} \X B))
        /\ Cardinality(Rest \cup ({w} \X B)) = Cardinality(Rest) + Cardinality({w} \X B) - Cardinality({})
    BY SMTT(30), <1>4, <1>5, <1>9, FS_Union
  <2> QED BY <1>3, <1>7, <1>9, <2>1, FS_EmptySet
<1> QED BY <1>7, <1>10, <1>11 DEF A, B

\* How many executions a worker's message stands for.
LEMMA HandCount ==
    ASSUME NEW w, NEW r, holds[w].attempt \in 1 .. MaxAttempt
    PROVE  /\ ~Decides(w, r) => Cardinality(HandSlots(w, r)) = 0
           /\ Decides(w, r) /\ At(w, "taken") =>
                Cardinality(HandSlots(w, r)) = Cost(holds[w].attempt)
           /\ Decides(w, r) /\ ~At(w, "taken") =>
                Cardinality(HandSlots(w, r)) = Cost(holds[w].attempt) - 1
<1> DEFINE a == holds[w].attempt
<1>0. MaxAttempt \in Nat /\ a \in Nat /\ 1 <= a /\ a <= MaxAttempt
  BY Attempts
<1>1. CASE ~Decides(w, r)
  <2>1. HandSlots(w, r) = {}
    BY <1>1 DEF HandSlots
  <2> QED BY <1>1, <2>1, FS_EmptySet
<1>2. CASE Decides(w, r) /\ At(w, "taken")
  <2>1. HandSlots(w, r) = a .. MaxAttempt
    BY <1>0, <1>2 DEF HandSlots
  <2>2. Cardinality(a .. MaxAttempt) = MaxAttempt - a + 1
    BY <1>0, FS_Interval
  <2> QED BY <1>0, <1>2, <2>1, <2>2 DEF Cost
<1>3. CASE Decides(w, r) /\ ~At(w, "taken")
  <2>1. HandSlots(w, r) = (a + 1) .. MaxAttempt
    BY <1>0, <1>3 DEF HandSlots
  <2> DEFINE b == a + 1
             c == MaxAttempt
  <2>2. b \in Int /\ c \in Int /\ c >= b - 1
    BY <1>0
  <2> HIDE DEF b, c
  <2>3. Cardinality(b .. c) = IF b > c THEN 0 ELSE c - b + 1
    BY <2>2, FS_Interval
  <2>4. Cardinality(b .. c) = c - b + 1
    BY <2>2, <2>3
  <2> QED BY <1>0, <1>3, <2>1, <2>4 DEF Cost, b, c
<1> QED BY <1>1, <1>2, <1>3


-----------------------------------------------------------------------------
(* Every step keeps the executions done and ahead below the limit. *)

Budget(r) == Counted(r) /\ Total(r) <= Limit(r)

\* The parts of Total are numbers, and so are they after the step.
LEMMA TotalParts ==
    ASSUME NEW r \in Runs, tries \in [Runs -> Nat], Counted(r)
    PROVE  /\ tries[r] \in Nat /\ Ahead(r) \in Nat /\ Cardinality(InQueue(r)) \in Nat
           /\ Cardinality(InTimers(r)) \in Nat /\ Cardinality(InHands(r)) \in Nat
<1>1. tries[r] \in Nat /\ Ahead(r) \in Nat
  BY Attempts DEF Ahead
<1> QED BY <1>1, FS_CardinalityType DEF Counted

\* A step that only spends.
LEMMA BudgetSpends ==
    ASSUME NEW r \in Runs, tries \in [Runs -> Nat], tries' \in [Runs -> Nat],
           Budget(r), Counted(r)',
           faults \in Nat, faults' \in Nat, faults <= faults', twice \subseteq twice',
           tries'[r] <= tries[r], Ahead(r)' <= Ahead(r),
           Cardinality(InQueue(r)') <= Cardinality(InQueue(r)),
           Cardinality(InTimers(r)') <= Cardinality(InTimers(r)),
           Cardinality(InHands(r)') <= Cardinality(InHands(r))
    PROVE  Budget(r)'
<1>1. /\ tries[r] \in Nat /\ Ahead(r) \in Nat /\ Cardinality(InQueue(r)) \in Nat
      /\ Cardinality(InTimers(r)) \in Nat /\ Cardinality(InHands(r)) \in Nat
  BY TotalParts DEF Budget
<1>2. /\ tries'[r] \in Nat /\ Ahead(r)' \in Nat
  BY Attempts DEF Ahead
<1>3. /\ Cardinality(InQueue(r)') \in Nat
      /\ Cardinality(InTimers(r)') \in Nat /\ Cardinality(InHands(r)') \in Nat
  BY FS_CardinalityType DEF Counted
<1>4. Limit(r) \in Nat /\ Limit(r)' \in Nat /\ Limit(r) <= Limit(r)'
  BY LimitGrows
<1> QED BY <1>1, <1>2, <1>3, <1>4 DEF Budget, Total

LEMMA BudgetHandler ==
    ASSUME QueueTypeOK, NEW q \in Runs, Ask(q) \/ Handler(q) \/ AbandonTrigger(q),
           NEW r \in Runs, tries \in [Runs -> Nat], faults \in Nat, Budget(r)
    PROVE  Budget(r)'
<1>1. /\ UNCHANGED <<step, holds, timers, tries>> /\ queue \in Seq(Message)
      /\ faults' \in Nat /\ faults <= faults' /\ twice \subseteq twice'
  BY DEF Ask, Handler, InsertRun, EnqueueRun, AbandonTrigger, workerVars, QueueTypeOK,
     Enqueue, Fault, faultVars
<1>2. InTimers(r)' = InTimers(r) /\ InHands(r)' = InHands(r)
  BY <1>1 DEF InTimers, InHands, HandSlots, Decides, At
<1>3. /\ tries[r] \in Nat /\ Ahead(r) \in Nat /\ Cardinality(InQueue(r)) \in Nat
      /\ Cardinality(InTimers(r)) \in Nat /\ Cardinality(InHands(r)) \in Nat
  BY TotalParts DEF Budget
<1>4. CASE Ask(q) \/ InsertRun(q) \/ AbandonTrigger(q)
  <2>1. queue' = queue /\ Ahead(r)' <= Ahead(r)
    BY <1>4, Attempts DEF Ask, InsertRun, AbandonTrigger, listVars, Ahead, QueueTypeOK
  <2>2. InQueue(r)' = InQueue(r)
    BY <2>1 DEF InQueue
  <2>3. Counted(r)'
    BY <1>2, <2>2 DEF Budget, Counted
  <2> QED BY <1>1, <1>2, <1>3, <2>1, <2>2, <2>3, BudgetSpends
<1>5. CASE EnqueueRun(q)
  <2>1. /\ trigger[q] = "inserted" /\ trigger' = [trigger EXCEPT ![q] = "over"]
        /\ Enqueue(Msg(q, 1)) /\ Msg(q, 1) \in Message
        /\ Msg(q, 1).run = q /\ Msg(q, 1).attempt = 1
    BY <1>5, Messages DEF EnqueueRun, Msg
  <2>2. /\ IsFiniteSet(InQueue(r)')
        /\ Cardinality(InQueue(r)') + Limit(r)
             <= Cardinality(InQueue(r)) + (IF q = r THEN Cost(1) ELSE 0) + Limit(r)'
    BY <1>1, <2>1, EnqueueCost DEF Budget, Counted
  <2>3. Ahead(r)' + (IF q = r THEN Cost(1) ELSE 0) = Ahead(r) /\ Cost(1) \in Nat /\ Ahead(r)' \in Nat
    BY <2>1, Attempts DEF Ahead, Cost, QueueTypeOK
  <2>4. Cardinality(InQueue(r)') \in Nat
    BY <2>2, FS_CardinalityType
  <2>5. Limit(r) \in Nat /\ Limit(r)' \in Nat
    BY <1>1, LimitGrows
  <2>6. Counted(r)'
    BY <1>2, <2>2 DEF Budget, Counted
  <2>7. Total(r) <= Limit(r)
    BY DEF Budget
  <2>8. Total(r)' <= Limit(r)'
    <3>1. tries'[r] = tries[r]
      BY <1>1
    <3> DEFINE c == IF q = r THEN Cost(1) ELSE 0
    <3>2. c \in Nat /\ Ahead(r)' + c = Ahead(r)
          /\ Cardinality(InQueue(r)') + Limit(r) <= Cardinality(InQueue(r)) + c + Limit(r)'
      BY <2>2, <2>3
    <3> HIDE DEF c
    <3> QED BY <1>2, <1>3, <2>3, <2>4, <2>5, <2>7, <3>1, <3>2 DEF Total
  <2> QED BY <2>6, <2>8 DEF Budget
<1> QED BY <1>4, <1>5 DEF Handler

LEMMA BudgetTimer ==
    ASSUME QueueTypeOK, NEW t \in timers, TimerFires(t),
           NEW r \in Runs, tries \in [Runs -> Nat], faults \in Nat, Budget(r)
    PROVE  Budget(r)'
<1>1. /\ UNCHANGED <<step, holds, trigger, tries>> /\ queue \in Seq(Message)
      /\ timers \subseteq Held /\ timers' = timers \ {t}
      /\ faults' \in Nat /\ faults <= faults' /\ twice \subseteq twice'
  BY DEF TimerFires, workerVars, QueueTypeOK, Enqueue, Fault, faultVars
<1>2. InHands(r)' = InHands(r) /\ Ahead(r)' = Ahead(r) /\ tries'[r] = tries[r]
  BY <1>1 DEF Ahead, InHands, HandSlots, Decides, At
<1>3. /\ tries[r] \in Nat /\ Ahead(r) \in Nat /\ Cardinality(InQueue(r)) \in Nat
      /\ Cardinality(InTimers(r)) \in Nat /\ Cardinality(InHands(r)) \in Nat
  BY TotalParts DEF Budget
<1> DEFINE m == Msg(t.run, t.attempt)
           c == IF t.run = r THEN Cost(t.attempt) ELSE 0
<1>4. /\ m \in Message /\ m.run = t.run /\ m.attempt = t.attempt /\ Enqueue(m)
      /\ t.attempt \in 1 .. MaxAttempt
  BY <1>1, Messages DEF Msg, TimerFires
<1>5. /\ IsFiniteSet(InQueue(r)')
      /\ Cardinality(InQueue(r)') + Limit(r) <= Cardinality(InQueue(r)) + c + Limit(r)'
  <2> HIDE DEF m
  <2>1. /\ IsFiniteSet(InQueue(r)')
        /\ Cardinality(InQueue(r)') + Limit(r)
             <= Cardinality(InQueue(r)) + (IF m.run = r THEN Cost(m.attempt) ELSE 0) + Limit(r)'
    BY <1>1, <1>4, EnqueueCost DEF Budget, Counted
  <2> QED BY <1>4, <2>1
<1>6. /\ IsFiniteSet(InTimers(r)')
      /\ Cardinality(InTimers(r)') + c <= Cardinality(InTimers(r))
  BY <1>1, TimersLess DEF Budget, Counted
<1>7. c \in Nat /\ Cardinality(InQueue(r)') \in Nat /\ Cardinality(InTimers(r)') \in Nat
  BY <1>4, <1>5, <1>6, Attempts, FS_CardinalityType DEF Cost
<1>8. Limit(r) \in Nat /\ Limit(r)' \in Nat /\ Total(r) <= Limit(r)
  BY <1>1, LimitGrows DEF Budget
<1>9. Counted(r)'
  BY <1>2, <1>5, <1>6 DEF Budget, Counted
<1> HIDE DEF c
<1>10. Total(r)' <= Limit(r)'
  BY <1>2, <1>3, <1>5, <1>6, <1>7, <1>8 DEF Total
<1> QED BY <1>9, <1>10 DEF Budget

LEMMA BudgetList ==
    ASSUME QueueTypeOK, LosePopped \/ \E w \in Workers : Dequeue(w),
           NEW r \in Runs, tries \in [Runs -> Nat], faults \in Nat, Budget(r)
    PROVE  Budget(r)'
<1> DEFINE m == Head(queue)
           c == IF m.run = r THEN Cost(m.attempt) ELSE 0
<1>1. /\ UNCHANGED <<trigger, timers, tries>> /\ queue \in Seq(Message) /\ queue # <<>>
      /\ queue' = Tail(queue) /\ faults' \in Nat /\ faults <= faults' /\ twice \subseteq twice'
  BY DEF LosePopped, Dequeue, QueueTypeOK, Fault, faultVars
<1>2. InTimers(r)' = InTimers(r) /\ Ahead(r)' = Ahead(r) /\ tries'[r] = tries[r]
  BY <1>1 DEF Ahead, InTimers
<1>3. /\ tries[r] \in Nat /\ Ahead(r) \in Nat /\ Cardinality(InQueue(r)) \in Nat
      /\ Cardinality(InTimers(r)) \in Nat /\ Cardinality(InHands(r)) \in Nat
  BY TotalParts DEF Budget
<1>4. m \in Message /\ m.attempt \in 1 .. MaxAttempt
  <2>1. m \in Message
    BY <1>1
  <2> QED BY <2>1, Messages
<1>5. IsFiniteSet(InQueue(r)') /\ Cardinality(InQueue(r)') + c <= Cardinality(InQueue(r))
  BY <1>1, QueueTail DEF Budget, Counted
<1>6. c \in Nat /\ Cardinality(InQueue(r)') \in Nat
  BY <1>4, <1>5, Attempts, FS_CardinalityType DEF Cost
<1>7. /\ Limit(r) \in Nat /\ Limit(r)' \in Nat /\ Limit(r) <= Limit(r)' /\ Total(r) <= Limit(r)
  BY <1>1, LimitGrows DEF Budget
<1>8. /\ IsFiniteSet(InHands(r)') /\ Cardinality(InHands(r)') \in Nat
      /\ Cardinality(InHands(r)') <= Cardinality(InHands(r)) + c
  <2> HIDE DEF m
  <2>1. CASE LosePopped
    <3>1. InHands(r)' = InHands(r)
      BY <2>1 DEF LosePopped, workerVars, InHands, HandSlots, Decides, At
    <3> HIDE DEF c
    <3> QED BY <1>3, <1>6, <3>1 DEF Budget, Counted
  <2>2. ASSUME NEW w \in Workers, Dequeue(w)
        PROVE  /\ IsFiniteSet(InHands(r)') /\ Cardinality(InHands(r)') \in Nat
               /\ Cardinality(InHands(r)') <= Cardinality(InHands(r)) + c
    <3>1. /\ step[w] = "idle" /\ step'[w] = "taken" /\ holds'[w] = m
          /\ \A v \in Workers : v # w => step'[v] = step[v] /\ holds'[v] = holds[v]
      BY <2>2 DEF Dequeue, At, Goto, QueueTypeOK, m
    <3>2. \A v \in Workers : v # w => HandSlots(v, r)' = HandSlots(v, r)
      BY <3>1 DEF HandSlots, Decides, At
    <3>3. HandSlots(w, r) = {}
      BY <3>1 DEF HandSlots, Decides
    <3>4. Cardinality(HandSlots(w, r)) = 0
      BY <3>3, FS_EmptySet
    <3>5. Cardinality(HandSlots(w, r)') = c
      <4>1. HandSlots(w, r)' = IF m.run = r THEN m.attempt .. MaxAttempt ELSE {}
        BY <1>4, <3>1 DEF HandSlots, Decides, At
      <4>2. CASE m.run = r
        <5> DEFINE a == m.attempt
                   b == MaxAttempt
        <5>1. a \in Nat /\ b \in Nat /\ a <= b
          BY <1>4, Attempts
        <5> HIDE DEF a, b
        <5>2. Cardinality(a .. b) = IF a > b THEN 0 ELSE b - a + 1
          BY <5>1, FS_Interval
        <5>3. Cardinality(a .. b) = b + 1 - a
          BY <5>1, <5>2
        <5> QED BY <4>1, <4>2, <5>3 DEF Cost, a, b
      <4>3. CASE m.run # r
        BY <4>1, <4>3, FS_EmptySet
      <4> QED BY <4>2, <4>3
    <3>6. /\ IsFiniteSet(InHands(r)') /\ Cardinality(InHands(r)') \in Nat
          /\ Cardinality(InHands(r)') + Cardinality(HandSlots(w, r))
                = Cardinality(InHands(r)) + Cardinality(HandSlots(w, r)')
      BY <3>2, HandStep DEF Budget, Counted
    <3> HIDE DEF c
    <3> QED BY <1>3, <1>6, <3>4, <3>5, <3>6
  <2> QED BY <2>1, <2>2
<1>9. Counted(r)'
  BY <1>2, <1>5, <1>8 DEF Budget, Counted
<1> HIDE DEF c
<1>10. Total(r)' <= Limit(r)'
  BY <1>2, <1>3, <1>5, <1>6, <1>7, <1>8 DEF Total
<1> QED BY <1>9, <1>10 DEF Budget

LEMMA BudgetCrash ==
    ASSUME QueueTypeOK, NEW h \in Hosts, Crash(h),
           NEW r \in Runs, tries \in [Runs -> Nat], faults \in Nat, Budget(r)
    PROVE  Budget(r)'
<1>1. /\ UNCHANGED <<trigger, queue, tries, twice>> /\ timers' \subseteq timers
      /\ faults' \in Nat /\ faults <= faults'
  BY DEF Crash, listVars, Fault
<1>2. Ahead(r)' = Ahead(r) /\ InQueue(r)' = InQueue(r) /\ tries'[r] = tries[r]
  BY <1>1 DEF Ahead, InQueue
<1>3. InTimers(r)' \in SUBSET InTimers(r)
  BY <1>1 DEF InTimers
<1>4. InHands(r)' \in SUBSET InHands(r)
  <2>1. \A w \in Workers : (step'[w] = step[w] /\ holds'[w] = holds[w]) \/ step'[w] = "idle"
    BY DEF Crash, At, QueueTypeOK
  <2>2. \A w \in Workers : HandSlots(w, r)' \subseteq HandSlots(w, r)
    BY <2>1 DEF HandSlots, Decides, At
  <2> QED BY <2>2 DEF InHands
<1>5. /\ IsFiniteSet(InTimers(r)') /\ Cardinality(InTimers(r)') <= Cardinality(InTimers(r))
      /\ IsFiniteSet(InHands(r)') /\ Cardinality(InHands(r)') <= Cardinality(InHands(r))
  BY <1>3, <1>4, FS_Subset DEF Budget, Counted
<1>6. Counted(r)'
  BY <1>2, <1>5 DEF Budget, Counted
<1>7. /\ tries[r] \in Nat /\ Ahead(r) \in Nat /\ Cardinality(InQueue(r)) \in Nat
  BY TotalParts DEF Budget
<1> QED BY <1>1, <1>2, <1>5, <1>6, <1>7, BudgetSpends


LEMMA BudgetProcess ==
    ASSUME QueueTypeOK, NEW w \in Workers, Process(w),
           NEW r \in Runs, tries \in [Runs -> Nat], faults \in Nat, Budget(r)
    PROVE  Budget(r)'
<1>1. /\ UNCHANGED <<trigger, queue>> /\ ~At(w, "idle")
      /\ faults' \in Nat /\ faults <= faults' /\ twice \subseteq twice'
  BY DEF Process, RejectUnknown, Begin, TimeOut, AfterError, MarkFailed, SendToDLQ,
     MarkSuccess, Succeed, Fail, At, listVars, Write, Fault, faultVars
<1>2. Ahead(r)' = Ahead(r) /\ InQueue(r)' = InQueue(r)
  BY <1>1 DEF Ahead, InQueue
<1>3. /\ tries[r] \in Nat /\ Ahead(r) \in Nat /\ Cardinality(InQueue(r)) \in Nat
      /\ Cardinality(InTimers(r)) \in Nat /\ Cardinality(InHands(r)) \in Nat
  BY TotalParts DEF Budget
<1>4. /\ Limit(r) \in Nat /\ Limit(r)' \in Nat /\ Limit(r) <= Limit(r)' /\ Total(r) <= Limit(r)
  BY <1>1, LimitGrows DEF Budget
<1>5. \A v \in Workers : v # w => step'[v] = step[v] /\ holds'[v] = holds[v]
  BY DEF Process, RejectUnknown, Begin, TimeOut, AfterError, MarkFailed, SendToDLQ,
     MarkSuccess, Succeed, Fail, GiveUp, Retry, Leave, Goto, QueueTypeOK
<1>6. \A v \in Workers : v # w => HandSlots(v, r)' = HandSlots(v, r)
  BY <1>5 DEF HandSlots, Decides, At
<1>7. /\ IsFiniteSet(InHands(r)')
      /\ Cardinality(InHands(r)') + Cardinality(HandSlots(w, r))
            = Cardinality(InHands(r)) + Cardinality(HandSlots(w, r)')
      /\ Cardinality(InHands(r)') \in Nat
      /\ Cardinality(HandSlots(w, r)) \in Nat /\ Cardinality(HandSlots(w, r)') \in Nat
  BY <1>6, HandStep DEF Budget, Counted
<1>8. holds[w].run \in Runs /\ holds[w].attempt \in 1 .. MaxAttempt
  BY <1>1, WorkerTypes, Messages
<1> DEFINE a == holds[w].attempt
<1>9. CASE Begin(w) /\ holds[w].run = r
  <2>1. /\ step[w] = "taken" /\ step'[w] = "running" /\ holds' = holds /\ timers' = timers
        /\ tries'[r] = tries[r] + 1
    BY <1>9 DEF Begin, At, Goto, QueueTypeOK
  <2>2. a \in HandSlots(w, r) /\ HandSlots(w, r)' = HandSlots(w, r) \ {a}
    <3>1. HandSlots(w, r) = { k \in 1 .. MaxAttempt : a <= k }
      BY <1>9, <2>1 DEF HandSlots, Decides, At
    <3>2. HandSlots(w, r)' = { k \in 1 .. MaxAttempt : a < k }
      BY <1>9, <2>1 DEF HandSlots, Decides, At
    <3> QED BY <1>8, <3>1, <3>2, Attempts
  <2>3. IsFiniteSet(HandSlots(w, r))
    <3>1. HandSlots(w, r) \in SUBSET (1 .. MaxAttempt)
      BY DEF HandSlots
    <3>2. IsFiniteSet(1 .. MaxAttempt)
      BY FS_Interval, Attempts
    <3> QED BY <3>1, <3>2, FS_Subset
  <2>4. Cardinality(HandSlots(w, r)') = Cardinality(HandSlots(w, r)) - 1
    <3> DEFINE S == HandSlots(w, r)
               k == a
    <3>1. IsFiniteSet(S) /\ k \in S /\ HandSlots(w, r)' = S \ {k}
      BY <2>2, <2>3
    <3> HIDE DEF S, k
    <3>2. Cardinality(S \ {k}) = IF k \in S THEN Cardinality(S) - 1 ELSE Cardinality(S)
      BY <3>1, FS_RemoveElement
    <3> QED BY <3>1, <3>2 DEF S
  <2>5. InTimers(r)' = InTimers(r)
    BY <2>1 DEF InTimers
  <2>6. Counted(r)'
    BY <1>2, <1>7, <2>5 DEF Budget, Counted
  <2>7. Total(r)' <= Limit(r)'
    BY <1>2, <1>3, <1>4, <1>7, <2>1, <2>4, <2>5 DEF Total
  <2> QED BY <2>6, <2>7 DEF Budget
<1>10. CASE AfterError(w) /\ Retry(w) /\ a < MaxRetries
  <2> DEFINE t == [run |-> holds[w].run, attempt |-> a + 1, host |-> HostOf[w]]
  <2>1. /\ step[w] = "erred" /\ step'[w] = "retrying" /\ timers' = timers \cup {t}
        /\ tries' = tries
    BY <1>10 DEF AfterError, Retry, At, Goto, QueueTypeOK
  <2>2. a \in 1 .. MaxAttempt /\ a + 1 \in 1 .. MaxAttempt
    BY <1>8, <1>10, Attempts
  <2>3. t \in Held /\ t.run = holds[w].run /\ t.attempt = a + 1
    BY <1>1, <1>8, <2>2, WorkerTypes DEF Held
  <2> HIDE DEF t
  <2> DEFINE c == IF holds[w].run = r THEN Cost(a + 1) ELSE 0
  <2>4. IsFiniteSet(InTimers(r)') /\ Cardinality(InTimers(r)') <= Cardinality(InTimers(r)) + c
    BY <2>1, <2>3, TimersMore DEF Budget, Counted
  <2>5. HandSlots(w, r)' = {}
    BY <2>1 DEF HandSlots, Decides
  <2>6. Cardinality(HandSlots(w, r)') = 0
    BY <2>5, FS_EmptySet
  <2>7. Cardinality(HandSlots(w, r)) = c
    <3>1. CASE holds[w].run = r
      <4>1. Decides(w, r) /\ ~At(w, "taken")
        BY <2>1, <3>1 DEF Decides, At
      <4>2. Cardinality(HandSlots(w, r)) = Cost(a) - 1
        BY <1>8, <4>1, HandCount
      <4> QED BY <2>2, <3>1, <4>2, Attempts DEF Cost
    <3>2. CASE holds[w].run # r
      <4>1. HandSlots(w, r) = {}
        BY <3>2 DEF HandSlots, Decides
      <4> QED BY <3>2, <4>1, FS_EmptySet
    <3> QED BY <3>1, <3>2
  <2>8. c \in Nat /\ Cardinality(InTimers(r)') \in Nat
    BY <1>7, <2>4, <2>7, FS_CardinalityType
  <2> HIDE DEF c
  <2>9. Counted(r)'
    BY <1>2, <1>7, <2>4 DEF Budget, Counted
  <2>10. Total(r)' <= Limit(r)'
    BY <1>2, <1>3, <1>4, <1>7, <2>1, <2>4, <2>6, <2>7, <2>8 DEF Total
  <2> QED BY <2>9, <2>10 DEF Budget
<1>11. ASSUME timers' = timers, tries'[r] = tries[r], HandSlots(w, r)' \subseteq HandSlots(w, r)
       PROVE  Budget(r)'
  <2>1. InHands(r)' \in SUBSET InHands(r)
    BY <1>6, <1>11 DEF InHands
  <2>2. Cardinality(InHands(r)') <= Cardinality(InHands(r))
    BY <2>1, FS_Subset DEF Budget, Counted
  <2>3. InTimers(r)' = InTimers(r)
    BY <1>11 DEF InTimers
  <2>4. Counted(r)'
    BY <1>2, <1>7, <2>3 DEF Budget, Counted
  <2>5. Total(r)' <= Limit(r)'
    BY <1>2, <1>3, <1>4, <1>7, <1>11, <2>2, <2>3 DEF Total
  <2> QED BY <2>4, <2>5 DEF Budget
<1>12. CASE Begin(w) /\ holds[w].run # r
  <2>1. timers' = timers /\ tries'[r] = tries[r] /\ holds' = holds
    BY <1>12 DEF Begin
  <2>2. HandSlots(w, r)' \subseteq HandSlots(w, r)
    BY <1>12, <2>1 DEF HandSlots, Decides
  <2> QED BY <1>11, <2>1, <2>2
<1>13. CASE TimeOut(w) \/ Fail(w)
  <2>1. /\ timers' = timers /\ tries'[r] = tries[r] /\ holds' = holds
        /\ step[w] = "running" /\ step'[w] = "erred"
    BY <1>13 DEF TimeOut, Fail, Goto, At, QueueTypeOK
  <2>2. HandSlots(w, r)' \subseteq HandSlots(w, r)
    BY <2>1 DEF HandSlots, Decides, At
  <2> QED BY <1>11, <2>1, <2>2
<1>14. CASE \/ RejectUnknown(w) \/ Succeed(w) \/ MarkFailed(w) \/ SendToDLQ(w) \/ MarkSuccess(w)
            \/ (AfterError(w) /\ GiveUp(w) /\ timers' = timers)
  <2>1. /\ timers' = timers /\ tries'[r] = tries[r]
        /\ step'[w] \in {"idle", "exhausted", "succeeded", "dead"}
    BY <1>14 DEF RejectUnknown, Succeed, MarkFailed, SendToDLQ, MarkSuccess, AfterError,
       GiveUp, Leave, Goto, QueueTypeOK
  <2>2. HandSlots(w, r)' = {}
    BY <2>1 DEF HandSlots, Decides
  <2> QED BY <1>11, <2>1, <2>2
<1>15. AfterError(w) => \/ Retry(w) /\ a < MaxRetries
                        \/ GiveUp(w) /\ timers' = timers
  BY DEF AfterError
<1> QED BY <1>9, <1>10, <1>12, <1>13, <1>14, <1>15 DEF Process

-----------------------------------------------------------------------------
LEMMA CountersTyped ==
    ASSUME QueueTypeOK, tries \in [Runs -> Nat], faults \in 0 .. MaxFaults, [Next]_vars
    PROVE  tries' \in [Runs -> Nat] /\ faults' \in 0 .. MaxFaults
<1>1. tries' \in [Runs -> Nat]
  <2>1. tries' = tries \/ \E w \in Workers : Begin(w)
    BY DEF Next, vars, Handler, Work, Returns, Ask, InsertRun, EnqueueRun, AbandonTrigger,
       Dequeue, RejectUnknown, Begin, TimeOut, AfterError, MarkFailed, SendToDLQ,
       MarkSuccess, Succeed, Fail, TimerFires, BodyEnds, LosePopped, Crash
  <2> QED BY <2>1 DEF Begin
<1>2. faults' \in 0 .. MaxFaults
  <2>1. faults' = faults \/ Fault
    <3>1. \A m : Enqueue(m) => faults' = faults \/ Fault
      BY DEF Enqueue, faultVars
    <3>2. \A r, s : Write(r, s) => faults' = faults \/ Fault
      BY DEF Write, faultVars
    <3> QED BY <3>1, <3>2 DEF Next, vars, Handler, Work, Returns, Ask, InsertRun, EnqueueRun,
       AbandonTrigger, Dequeue, RejectUnknown, Begin, TimeOut, AfterError, MarkFailed,
       SendToDLQ, MarkSuccess, Succeed, Fail, TimerFires, BodyEnds, LosePopped, Crash, faultVars
  <2> QED BY <2>1, JobAssumption DEF Fault
<1> QED BY <1>1, <1>2

LEMMA BudgetStep == QueueTypeOK /\ BudgetInv /\ [Next]_vars => BudgetInv'
<1> SUFFICES ASSUME QueueTypeOK, BudgetInv, [Next]_vars PROVE BudgetInv'
  OBVIOUS
<1>1. tries \in [Runs -> Nat] /\ faults \in 0 .. MaxFaults /\ faults \in Nat
  BY JobAssumption DEF BudgetInv
<1>2. tries' \in [Runs -> Nat] /\ faults' \in 0 .. MaxFaults
  BY <1>1, CountersTyped
<1>3. ASSUME NEW r \in Runs PROVE Budget(r)'
  <2>1. Budget(r)
    BY DEF BudgetInv, Budget
  <2>2. CASE UNCHANGED vars \/ \E b \in bodies : BodyEnds(b)
    <3>1. UNCHANGED <<trigger, queue, step, holds, timers, tries, twice, faults>>
      BY <2>2 DEF vars, BodyEnds, listVars, workerVars, faultVars
    <3>2. /\ Ahead(r)' = Ahead(r) /\ InQueue(r)' = InQueue(r) /\ InTimers(r)' = InTimers(r)
          /\ InHands(r)' = InHands(r) /\ Limit(r)' = Limit(r)
      BY <3>1 DEF Ahead, InQueue, InTimers, InHands, HandSlots, Decides, At, Limit
    <3> QED BY <2>1, <3>1, <3>2 DEF Budget, Counted, Total
  <2>3. CASE Next
    BY <1>1, <2>1, <2>2, <2>3, NextSplit, BudgetHandler, BudgetList, BudgetProcess,
       BudgetTimer, BudgetCrash
  <2> QED BY <2>2, <2>3
<1> QED BY <1>2, <1>3 DEF BudgetInv, Budget

LEMMA AccountInit == Init => TrackInv /\ BudgetInv
<1> SUFFICES ASSUME Init PROVE TrackInv /\ BudgetInv
  OBVIOUS
<1>1. ASSUME NEW r \in Runs PROVE Tracked(r)
  BY DEF Init, Tracked, Alone, Carried, Alive, Starting, Queued, Sleeping, Once, Decides
<1>2. ASSUME NEW r \in Runs PROVE Budget(r)
  <2>1. InQueue(r) = {} /\ InTimers(r) = {} /\ InHands(r) = {}
    BY DEF Init, InQueue, InTimers, InHands, HandSlots, Decides
  <2>2. /\ IsFiniteSet(InQueue(r)) /\ Cardinality(InQueue(r)) = 0
        /\ IsFiniteSet(InTimers(r)) /\ Cardinality(InTimers(r)) = 0
        /\ IsFiniteSet(InHands(r)) /\ Cardinality(InHands(r)) = 0
    BY <2>1, FS_EmptySet
  <2>3. tries[r] = 0 /\ Ahead(r) = MaxAttempt /\ Limit(r) = MaxAttempt /\ MaxAttempt \in Nat
    BY Attempts DEF Init, Ahead, Limit
  <2> QED BY <2>2, <2>3 DEF Budget, Counted, Total
<1>3. tries \in [Runs -> Nat] /\ faults \in 0 .. MaxFaults
  BY JobAssumption DEF Init
<1> QED BY <1>1, <1>2, <1>3 DEF TrackInv, BudgetInv, Budget

LEMMA AccountHolds == QueueTypeOK /\ TrackInv /\ BudgetInv => Accounted
<1> SUFFICES ASSUME QueueTypeOK, TrackInv, BudgetInv PROVE Accounted
  OBVIOUS
<1>1. ASSUME NEW r \in Runs \ (lost \cup twice)
      PROVE  Tokens(r) = IF trigger[r] # "idle" /\ outcome[r] = "open" THEN 1 ELSE 0
  BY TokensCount DEF TrackInv
<1>2. ASSUME NEW r \in Runs
      PROVE  tries[r] <= MaxAttempt * (1 + IF r \in twice THEN MaxFaults ELSE 0)
  <2>1. tries \in [Runs -> Nat] /\ faults \in Nat /\ faults <= MaxFaults /\ MaxFaults \in Nat
    BY JobAssumption DEF BudgetInv
  <2>2. Counted(r) /\ Total(r) <= Limit(r)
    BY DEF BudgetInv
  <2>3. /\ tries[r] \in Nat /\ Ahead(r) \in Nat /\ Cardinality(InQueue(r)) \in Nat
        /\ Cardinality(InTimers(r)) \in Nat /\ Cardinality(InHands(r)) \in Nat
    BY <2>1, <2>2, TotalParts
  <2> DEFINE M == MaxAttempt
             x == IF r \in twice THEN faults ELSE 0
             y == IF r \in twice THEN MaxFaults ELSE 0
  <2>4. M \in Nat /\ x \in Nat /\ y \in Nat /\ x <= y
    BY <2>1, Attempts
  <2>5. Limit(r) = M * (1 + x)
    BY DEF Limit
  <2> HIDE DEF M, x, y
  <2>6. M * (1 + x) \in Nat /\ M * (1 + y) \in Nat /\ M * (1 + x) <= M * (1 + y)
    <3> DEFINE k == y - x
    <3>1. k \in Nat /\ y = x + k
      BY <2>4
    <3> HIDE DEF k
    <3>2. M * (1 + x + k) = M * (1 + x) + M * k /\ M * k \in Nat /\ M * (1 + x) \in Nat
      BY <2>4, <3>1
    <3>3. 1 + y = 1 + x + k
      BY <2>4, <3>1
    <3>4. M * (1 + y) = M * (1 + x + k)
      BY <3>3
    <3>5. M * (1 + y) = M * (1 + x) + M * k
      BY <3>2, <3>4
    <3> QED BY <3>2, <3>5
  <2>7. tries[r] <= M * (1 + y)
    BY <2>2, <2>3, <2>5, <2>6 DEF Total
  <2> QED BY <2>7 DEF M, y
<1> QED BY <1>1, <1>2 DEF Accounted

(* A run whose message is neither lost nor doubled is carried by exactly   *)
(* one handler, message, worker or timer until its work ends, and by none  *)
(* after that; and no run is executed more than max_retries times, once if *)
(* that is 0, for each time its message was doubled: for any runs, workers *)
(* and nodes, whatever crashes or is lost, and however short the delay     *)
(* (worker.go:87-167).                                                     *)
THEOREM RunIsAccounted == Spec => []Accounted
<1>1. Init => QueueTypeOK /\ TrackInv /\ BudgetInv
  BY QueueInit, AccountInit DEF QueueInv
<1>2. QueueTypeOK /\ TrackInv /\ BudgetInv /\ [Next]_vars => (QueueTypeOK /\ TrackInv /\ BudgetInv)'
  BY TypesKept, TrackStep, BudgetStep
<1> QED BY <1>1, <1>2, AccountHolds, PTL DEF Spec
=============================================================================
