------------------------------- MODULE JobQueue -------------------------------
(***************************************************************************)
(* The asynchronous job queue: the handlers that trigger a run             *)
(* (api/admin/credentials.go, internal/jobs/scheduler.go: TriggerNow), the *)
(* Redis list and its dead-letter list (queue.go), and the workers that    *)
(* execute, time out, retry and give up (worker.go).                       *)
(*                                                                         *)
(* A run is known by its row in job_runs and by the messages that stand    *)
(* for it; nothing ties the two but the code modelled here.                *)
(***************************************************************************)
EXTENDS Naturals, Sequences, FiniteSets

CONSTANTS
    Runs,         \* the runs that may be triggered
    Workers,      \* worker goroutines of all nodes
    HostOf,       \* the node of each worker
    JobOf,        \* the job of each run
    Guarded,      \* jobs triggered by the handler that refuses a second run
    Unknown,      \* jobs a node may have no executor for, being of a version
                  \* older than that of the node that created them
    MaxRetries,   \* the setting max_retries
    DelayCovers,  \* a retry is enqueued only after its failure is written: the
                  \* setting retry_delay is not 0 and PostgreSQL is no slower
    DLQEnabled,   \* the setting dlq_enabled, read when a node starts
    MaxBodies,    \* bound: executors that run on after their timeout
    MaxFaults     \* bound: crashes, lost or repeated commands, failed writes

ASSUME JobAssumption ==
    /\ DOMAIN JobOf = Runs
    /\ DOMAIN HostOf = Workers
    /\ MaxRetries \in Nat
    /\ DelayCovers \in BOOLEAN
    /\ DLQEnabled \in BOOLEAN
    /\ MaxBodies \in Nat
    /\ MaxFaults \in Nat

Hosts == { HostOf[w] : w \in Workers }

MaxAttempt == IF MaxRetries > 1 THEN MaxRetries ELSE 1

\* QueueMessage, with the node that holds it where one does.
Message == [run : Runs, attempt : 1..MaxAttempt]
Held == [run : Runs, attempt : 1..MaxAttempt, host : Hosts]

VARIABLES
    trigger,      \* where the handler that triggers each run is
    row,          \* job_runs.status
    queue,        \* the Redis list, oldest message first
    dlq,          \* runs in the dead-letter list
    step,         \* where each worker is in processMessage
    holds,        \* the message it processes
    timers,       \* goroutines that sleep before a retry
    bodies,       \* executors abandoned at the timeout that still run
    tries,        \* history: executions begun of each run
    outcome,      \* history: how the work of each run ended
    lost,         \* history: runs whose message a fault destroyed,
    twice,        \*          doubled,
    unwritten,    \*          or whose row or dead letter it failed to write
    faults

listVars == <<queue, dlq>>
workerVars == <<step, holds>>
faultVars == <<lost, twice, unwritten, faults>>
vars == <<trigger, row, listVars, workerVars, timers, bodies, tries, outcome, faultVars>>

Steps == {"idle", "taken", "running", "erred", "retrying", "exhausted", "dead", "succeeded"}

Init ==
    /\ trigger = [r \in Runs |-> "idle"]
    /\ row = [r \in Runs |-> "absent"]
    /\ queue = <<>>
    /\ dlq = {}
    /\ step = [w \in Workers |-> "idle"]
    /\ holds = [w \in Workers |-> <<>>]
    /\ timers = {}
    /\ bodies = {}
    /\ tries = [r \in Runs |-> 0]
    /\ outcome = [r \in Runs |-> "open"]
    /\ lost = {} /\ twice = {} /\ unwritten = {}
    /\ faults = 0

Msg(r, a) == [run |-> r, attempt |-> a]

At(w, label) == step[w] = label

Goto(w, label) == step' = [step EXCEPT ![w] = label]

Leave(w) == Goto(w, "idle") /\ holds' = [holds EXCEPT ![w] = <<>>]

Fault == faults < MaxFaults /\ faults' = faults + 1

(* LPUSH.  It may fail; or reach Redis and be sent again, because the      *)
(* answer took longer than the client waits (200 ms, MaxRetries 3).        *)
Enqueue(m) ==
    \/ /\ queue' = Append(queue, m)
       /\ UNCHANGED faultVars
    \/ /\ Fault
       /\ queue' = queue \o <<m, m>>
       /\ twice' = twice \cup {m.run}
       /\ UNCHANGED <<lost, unwritten>>
    \/ /\ Fault
       /\ lost' = lost \cup {m.run}
       /\ UNCHANGED <<queue, twice, unwritten>>

\* UPDATE job_runs SET status; a failed one is logged and passed over.
Write(r, status) ==
    \/ /\ row' = [row EXCEPT ![r] = status]
       /\ UNCHANGED faultVars
    \/ /\ Fault
       /\ unwritten' = unwritten \cup {r}
       /\ UNCHANGED <<row, lost, twice>>
-----------------------------------------------------------------------------
(* A handler asks for a run.  That of the re-discovery looks for a run of  *)
(* the job that is pending or running, and goes on only if there is none.  *)
Ask(r) ==
    /\ trigger[r] = "idle"
    /\ JobOf[r] \in Guarded =>
         \A s \in Runs : JobOf[s] = JobOf[r] => row[s] \notin {"pending", "running"}
    /\ trigger' = [trigger EXCEPT ![r] = "checked"]
    /\ UNCHANGED <<row, listVars, workerVars, timers, bodies, tries, outcome, faultVars>>

\* TriggerNow inserts the row,
InsertRun(r) ==
    /\ trigger[r] = "checked"
    /\ trigger' = [trigger EXCEPT ![r] = "inserted"]
    /\ row' = [row EXCEPT ![r] = "pending"]
    /\ UNCHANGED <<listVars, workerVars, timers, bodies, tries, outcome, faultVars>>

\* and then enqueues its first message.
EnqueueRun(r) ==
    /\ trigger[r] = "inserted"
    /\ trigger' = [trigger EXCEPT ![r] = "over"]
    /\ Enqueue(Msg(r, 1))
    /\ UNCHANGED <<row, dlq, workerVars, timers, bodies, tries, outcome>>
-----------------------------------------------------------------------------
\* Mutant of Dequeue: the message stays on the list while it is processed.
DequeuePeek(w) ==
    /\ At(w, "idle")
    /\ queue # <<>>
    /\ holds' = [holds EXCEPT ![w] = Head(queue)]
    /\ Goto(w, "taken")
    /\ UNCHANGED <<trigger, row, listVars, timers, bodies, tries, outcome, faultVars>>

(* BRPOP hands the oldest message to one worker and forgets it.            *)
Dequeue(w) ==
    /\ At(w, "idle")
    /\ queue # <<>>
    /\ queue' = Tail(queue)
    /\ holds' = [holds EXCEPT ![w] = Head(queue)]
    /\ Goto(w, "taken")
    /\ UNCHANGED <<trigger, row, dlq, timers, bodies, tries, outcome, faultVars>>

\* The connection breaks with the popped message on it.
LosePopped ==
    /\ Fault
    /\ queue # <<>>
    /\ queue' = Tail(queue)
    /\ lost' = lost \cup {Head(queue).run}
    /\ UNCHANGED <<trigger, row, dlq, workerVars, timers, bodies, tries, outcome,
                   twice, unwritten>>

\* The run ends in vain: no executor, or no attempt left.
GiveUp(w) ==
    /\ Goto(w, "exhausted")
    /\ outcome' = [outcome EXCEPT ![holds[w].run] = "failed"]

RejectUnknown(w) ==
    /\ At(w, "taken")
    /\ JobOf[holds[w].run] \in Unknown
    /\ GiveUp(w)
    /\ UNCHANGED <<trigger, row, listVars, holds, timers, bodies, tries, faultVars>>

\* markRunStarted, and the executor begins in a goroutine of its own.
Begin(w) ==
    /\ At(w, "taken")
    /\ Write(holds[w].run, "running")
    /\ tries' = [tries EXCEPT ![holds[w].run] = @ + 1]
    /\ Goto(w, "running")
    /\ UNCHANGED <<trigger, listVars, holds, timers, bodies, outcome>>

Succeed(w) ==
    /\ At(w, "running")
    /\ outcome' = [outcome EXCEPT ![holds[w].run] = "success"]
    /\ Goto(w, "succeeded")
    /\ UNCHANGED <<trigger, row, listVars, holds, timers, bodies, tries, faultVars>>

\* The executor returns an error or panics.
Fail(w) ==
    /\ At(w, "running")
    /\ Goto(w, "erred")
    /\ UNCHANGED <<trigger, row, listVars, holds, timers, bodies, tries, outcome, faultVars>>

\* Mutant of TimeOut: the worker waits for the executor for ever.
TimeOutNever(w) ==
    /\ FALSE
    /\ At(w, "running")
    /\ UNCHANGED vars

\* runWithContext: the timeout ends the waiting, and not the executor, which
\* was given no context.
TimeOut(w) ==
    /\ At(w, "running")
    /\ \/ UNCHANGED bodies                    \* it returns at that moment
       \/ /\ Cardinality(bodies) < MaxBodies
          /\ bodies' = bodies \cup {[run |-> holds[w].run, attempt |-> holds[w].attempt,
                                     host |-> HostOf[w]]}
    /\ Goto(w, "erred")
    /\ UNCHANGED <<trigger, row, listVars, holds, timers, tries, outcome, faultVars>>

BodyEnds(b) ==
    /\ b \in bodies
    /\ bodies' = bodies \ {b}
    /\ UNCHANGED <<trigger, row, listVars, workerVars, timers, tries, outcome, faultVars>>

Retry(w) ==
    /\ timers' = timers \cup {[run |-> holds[w].run, attempt |-> holds[w].attempt + 1,
                               host |-> HostOf[w]]}
    /\ Goto(w, "retrying")
    /\ UNCHANGED outcome

\* The goroutine that retries is started before the failure is written.
AfterError(w) ==
    /\ At(w, "erred")
    /\ IF holds[w].attempt < MaxRetries THEN Retry(w) ELSE GiveUp(w) /\ UNCHANGED timers
    /\ UNCHANGED <<trigger, row, listVars, holds, bodies, tries, faultVars>>

\* markRunFailed, then for an exhausted run sendToDLQ; markRunSuccess.
MarkFailed(w) ==
    /\ step[w] \in {"retrying", "exhausted"}
    /\ Write(holds[w].run, "failed")
    /\ IF At(w, "exhausted") THEN Goto(w, "dead") /\ UNCHANGED holds ELSE Leave(w)
    /\ UNCHANGED <<trigger, listVars, timers, bodies, tries, outcome>>

SendToDLQ(w) ==
    /\ At(w, "dead")
    /\ \/ dlq' = dlq \cup (IF DLQEnabled THEN {holds[w].run} ELSE {}) /\ UNCHANGED faultVars
       \/ DLQEnabled /\ Fault /\ unwritten' = unwritten \cup {holds[w].run} /\ UNCHANGED <<dlq, lost, twice>>
    /\ Leave(w)
    /\ UNCHANGED <<trigger, row, queue, timers, bodies, tries, outcome>>

MarkSuccess(w) ==
    /\ At(w, "succeeded")
    /\ Write(holds[w].run, "success")
    /\ Leave(w)
    /\ UNCHANGED <<trigger, listVars, timers, bodies, tries, outcome>>

\* Mutant of Waited: no delay.
WaitedNot(t) == t \in timers

(* The delay is over.  What it is depends on retry_backoff; that it        *)
(* outlasts the write of the failure, on DelayCovers.                      *)
Waited(t) ==
    /\ t \in timers
    /\ DelayCovers => \A w \in Workers :
                        ~(At(w, "retrying") /\ holds[w] = Msg(t.run, t.attempt - 1))

TimerFires(t) ==
    /\ Waited(t)
    /\ timers' = timers \ {t}
    /\ Enqueue(Msg(t.run, t.attempt))
    /\ UNCHANGED <<trigger, row, dlq, workerVars, bodies, tries, outcome>>

(* A node stops, by a crash or an orderly exit, which waits for none of    *)
(* this: main returns as soon as the HTTP server is down.                  *)
Crash(h) ==
    LET busy == { w \in Workers : HostOf[w] = h /\ ~At(w, "idle") }
        undecided == { w \in busy : step[w] \in {"taken", "running", "erred"} }
    IN /\ Fault
       /\ step' = [w \in Workers |-> IF w \in busy THEN "idle" ELSE step[w]]
       /\ holds' = [w \in Workers |-> IF w \in busy THEN <<>> ELSE holds[w]]
       /\ timers' = { t \in timers : t.host # h }
       /\ bodies' = { b \in bodies : b.host # h }
       /\ lost' = lost \cup { t.run : t \in timers \ timers' }
                       \cup { holds[w].run : w \in undecided }
       /\ unwritten' = unwritten \cup { holds[w].run : w \in busy \ undecided }
       /\ UNCHANGED <<trigger, row, listVars, tries, outcome, twice>>

\* The node of a handler stops before it has enqueued the run.
AbandonTrigger(r) ==
    /\ Fault
    /\ trigger[r] \in {"checked", "inserted"}
    /\ trigger' = [trigger EXCEPT ![r] = "over"]
    /\ lost' = lost \cup {r}
    /\ UNCHANGED <<row, listVars, workerVars, timers, bodies, tries, outcome,
                   twice, unwritten>>
-----------------------------------------------------------------------------
Handler(r) == InsertRun(r) \/ EnqueueRun(r)

Returns(w) == Succeed(w) \/ Fail(w)

Work(w) ==
    Dequeue(w) \/ RejectUnknown(w) \/ Begin(w) \/ TimeOut(w) \/ AfterError(w)
    \/ MarkFailed(w) \/ SendToDLQ(w) \/ MarkSuccess(w)

Next ==
    \/ \E r \in Runs : Ask(r) \/ Handler(r) \/ AbandonTrigger(r)
    \/ \E w \in Workers : Work(w) \/ Returns(w)
    \/ \E t \in timers : TimerFires(t)
    \/ \E b \in bodies : BodyEnds(b)
    \/ LosePopped
    \/ \E h \in Hosts : Crash(h)

Spec == Init /\ [][Next]_vars

(* Goroutines run, and the timeout ends every wait for an executor; an     *)
(* executor need not return, and nothing ends an abandoned one.            *)
FairSpec ==
    /\ Spec
    /\ \A r \in Runs : WF_vars(Handler(r))
    /\ \A w \in Workers : WF_vars(Work(w))
    /\ \A t \in Held : WF_vars(TimerFires(t))
-----------------------------------------------------------------------------
Carriers(r) == { w \in Workers : ~At(w, "idle") /\ holds[w].run = r }

\* Everything that may still lead to an execution or an end of run r.
Tokens(r) ==
    (IF trigger[r] \in {"checked", "inserted"} THEN 1 ELSE 0)
    + Cardinality({ i \in DOMAIN queue : queue[i].run = r })
    + Cardinality({ t \in timers : t.run = r })
    + Cardinality({ w \in Carriers(r) : step[w] \in {"taken", "running", "erred"} })

(* A run whose message was neither lost nor doubled is carried by exactly  *)
(* one handler, message, worker or timer until its work ends, and by none  *)
(* after that: no step of processMessage drops it or forks it, whatever    *)
(* happens to other runs (worker.go:87-167).  And however often its        *)
(* attempts fail, time out or are cut off, no run is executed more than    *)
(* max_retries times, or once if that is 0; a doubled message doubles this *)
(* (worker.go:139).                                                        *)
Accounted ==
    /\ \A r \in Runs \ (lost \cup twice) :
           Tokens(r) = IF trigger[r] # "idle" /\ outcome[r] = "open" THEN 1 ELSE 0
    /\ \A r \in Runs :
           tries[r] <= MaxAttempt * (1 + IF r \in twice THEN MaxFaults ELSE 0)

(* When the work of a run has ended and no worker carries it, its row says *)
(* how it ended, and it is a dead letter if and only if it failed and the  *)
(* nodes keep dead letters (queue.go:79): no write of an earlier attempt   *)
(* overtakes that of the last one (worker.go:139-166).                     *)
SettledStatus ==
    \A r \in Runs \ (unwritten \cup twice) :
        outcome[r] # "open" /\ Carriers(r) = {} =>
            row[r] = outcome[r] /\ (r \in dlq <=> DLQEnabled /\ outcome[r] = "failed")

(* A run that is pending settles, unless its message is destroyed: a       *)
(* worker that waits for a hung executor times out, and a run that has     *)
(* failed is tried again or given up (worker.go:87-188).                   *)
RunsSettle ==
    \A r \in Runs :
        row[r] = "pending" ~>
            r \in lost \/ (outcome[r] # "open" /\ Carriers(r) = {})

(* A singleton job does not overlap with itself: what began to execute has *)
(* ended before a run of the same job executes (007_jobs.sql:22, 80).      *)
NeverOverlaps ==
    \A j \in { JobOf[r] : r \in Runs } :
        Cardinality({ b \in bodies : JobOf[b.run] = j })
        + Cardinality({ w \in Workers : At(w, "running") /\ JobOf[holds[w].run] = j }) <= 1
=============================================================================
