------------------------------ MODULE Telemetry ------------------------------
(***************************************************************************)
(* The log of requests (telemetry/pipeline.go): a bounded queue at each    *)
(* node, the worker that sends its entries to Redis, or to the database    *)
(* where there is no Redis, and the consumer that takes them from Redis to *)
(* the database; and what the end of a process (cmd/server/main.go) leaves *)
(* of them.  The model starts where Admission ends.                        *)
(*                                                                         *)
(* An entry is the request it is about and a number: a push to Redis that  *)
(* is sent again makes copies of its entries, and the number tells them    *)
(* apart.                                                                  *)
(***************************************************************************)
EXTENDS Naturals, FiniteSets, Sequences

CONSTANTS
    Requests, Nodes,
    Callers,      \* whose requests are served: of tenants, and of the admin key
    QueueSize,    \* bound of the queue
    BatchSize,    \* entries of a transaction
    PushSize,     \* entries of a push to Redis, 50 in the code
    MaxSends,     \* how often the client may send one push, 4 in the code
    MaxFaults     \* bound: crashes, failures of Redis and of the database

ASSUME TelemetryAssumption ==
    /\ Callers \subseteq {"tenant", "admin"}
    /\ {QueueSize, BatchSize, PushSize} \subseteq Nat \ {0}
    /\ MaxSends \in 1..4
    /\ MaxFaults \in Nat

VARIABLES
    redis,     \* whether the gateway runs with a Redis
    req,       \* the requests
    phase,     \* main: up, draining, cancelled, closed, dead
    gaveUp,    \* history: nodes that did not wait for their requests to end
    queue,     \* internalQueue
    working,   \* nodes whose worker runs
    batch,     \* its dbBatch
    push,      \* redisBatch
    list,      \* the queue in Redis
    consuming, \* nodes whose consumer runs
    taken,     \* its batch
    rows,      \* request_logs: how often an entry is there
    copies,    \* history: how many there are of an entry
    lost,      \* history: entries that are nowhere any more
    faults

memory == <<queue, working, batch, push, consuming, taken>>
vars == <<redis, req, phase, gaveUp, memory, list, rows, copies, lost, faults>>

Copies == Requests \X (1..MaxSends)

Init ==
    /\ redis \in BOOLEAN
    /\ req = [r \in Requests |-> [step |-> "new"]]
    /\ phase = [n \in Nodes |-> "up"]
    /\ gaveUp = {}
    /\ queue = [n \in Nodes |-> <<>>]
    /\ working = Nodes
    /\ batch = [n \in Nodes |-> <<>>]
    /\ push = [n \in Nodes |-> <<>>]
    /\ list = <<>>
    /\ consuming = IF redis THEN Nodes ELSE {}
    /\ taken = [n \in Nodes |-> <<>>]
    /\ rows = [e \in Copies |-> 0]
    /\ copies = [r \in Requests |-> 0]
    /\ lost = {}
    /\ faults = 0

Fault == faults < MaxFaults /\ faults' = faults + 1

On(r, step) == req[r].step = step

Serve(r, n, who) ==
    /\ On(r, "new") /\ phase[n] = "up"
    /\ req' = [req EXCEPT ![r] = [step |-> "serving", node |-> n, who |-> who]]
    /\ UNCHANGED <<redis, phase, gaveUp, memory, list, rows, copies, lost, faults>>

Entries(s) == { s[i] : i \in 1..Len(s) }

Ended(n) == phase[n] \in {"cancelled", "closed"}

\* Redis or the database fails, or main has closed the connections to them.
MayFail(n) == Fault \/ (phase[n] = "closed" /\ UNCHANGED faults)

\* A row of a tenant that is none, "admin", is refused, and with it the whole
\* transaction, though the loop goes on.
Refused(e) == req[e[1]].who = "admin"

Written(s) == [e \in Copies |-> rows[e] + Cardinality({ i \in 1..Len(s) : s[i] = e })]

\* flush: all entries of s in one transaction, which is not tried again.  That
\* a commit has failed may be all that is known of one that was done: but for
\* what is logged about it, that is a success.
Flush(n, s) ==
    \/ /\ \A e \in Entries(s) : ~Refused(e)
       /\ rows' = Written(s)
       /\ UNCHANGED <<lost, faults>>
    \/ /\ \/ UNCHANGED faults /\ \E e \in Entries(s) : Refused(e)
          \/ MayFail(n)
       /\ lost' = lost \cup Entries(s)
       /\ UNCHANGED rows

\* The copies Redis makes of s when it gets it k times.
Copy(s, j, k) == IF j > k THEN <<>> ELSE [i \in 1..Len(s) |-> <<s[i][1], j>>]

Sent(s, k) == s \o Copy(s, 2, k) \o Copy(s, 3, k) \o Copy(s, 4, k)

\* flushRedisBatch: one LPUSH, which the client sends again after 200 ms without
\* an answer, to a Redis that may have done it.  Whether an answer comes in
\* the end is only logged.
Push(n, s) ==
    \/ list' = list \o s /\ UNCHANGED <<copies, lost, faults>>
    \/ /\ Fault
       /\ \E k \in 2..MaxSends :
              /\ list' = list \o Sent(s, k)
              /\ copies' = [r \in Requests |->
                                IF <<r, 1>> \in Entries(s) THEN k ELSE copies[r]]
       /\ UNCHANGED lost
    \/ MayFail(n) /\ lost' = lost \cup Entries(s) /\ UNCHANGED <<list, copies>>

\* What the worker or the consumer holds is written out, if there is any.
FlushTo(n, s) == IF s = <<>> THEN UNCHANGED <<rows, lost, faults>> ELSE Flush(n, s)

\* Nobody waits for room in the queue; a send on a closed channel panics.
Emit(r) ==
    /\ On(r, "serving")
    /\ LET n == req[r].node IN
       /\ req' = [req EXCEPT ![r].step = IF phase[n] = "closed" THEN "panicked" ELSE "done"]
       /\ IF phase[n] # "closed" /\ Len(queue[n]) < QueueSize
          THEN queue' = [queue EXCEPT ![n] = Append(@, <<r, 1>>)] /\ UNCHANGED lost
          ELSE lost' = lost \cup {<<r, 1>>} /\ UNCHANGED queue
    /\ copies' = [copies EXCEPT ![r] = 1]
    /\ UNCHANGED <<redis, phase, gaveUp, working, batch, push, list, consuming, taken, rows, faults>>

Still == UNCHANGED <<redis, req, phase, gaveUp>>

\* The worker takes an entry: to the batch for Redis, or to that for the
\* database, and a full batch goes out.
Take(n) ==
    /\ n \in working /\ queue[n] # <<>>
    /\ queue' = [queue EXCEPT ![n] = Tail(@)]
    /\ LET s == Append(IF redis THEN push[n] ELSE batch[n], Head(queue[n])) IN
       IF redis
       THEN /\ UNCHANGED <<batch, rows>>
            /\ IF Len(s) >= PushSize THEN Push(n, s) /\ push' = [push EXCEPT ![n] = <<>>]
               ELSE push' = [push EXCEPT ![n] = s] /\ UNCHANGED <<list, copies, lost, faults>>
       ELSE /\ UNCHANGED <<push, list, copies>>
            /\ IF Len(s) >= BatchSize THEN Flush(n, s) /\ batch' = [batch EXCEPT ![n] = <<>>]
               ELSE batch' = [batch EXCEPT ![n] = s] /\ UNCHANGED <<rows, lost, faults>>
    /\ UNCHANGED <<working, consuming, taken>>
    /\ Still

\* Mutant of WorkerTick: a batch that is not full waits on.
WorkerTickFull(n) ==
    /\ n \in working /\ Len(batch[n]) >= BatchSize
    /\ batch' = [batch EXCEPT ![n] = <<>>]
    /\ Flush(n, batch[n])
    /\ UNCHANGED <<queue, working, push, consuming, taken, list, copies>>
    /\ Still

\* The two tickers, each for its batch.
WorkerTick(n) ==
    /\ n \in working
    /\ \/ /\ push[n] # <<>>
          /\ push' = [push EXCEPT ![n] = <<>>]
          /\ Push(n, push[n])
          /\ UNCHANGED <<batch, rows>>
       \/ /\ batch[n] # <<>>
          /\ batch' = [batch EXCEPT ![n] = <<>>]
          /\ Flush(n, batch[n])
          /\ UNCHANGED <<push, list, copies>>
    /\ UNCHANGED <<queue, working, consuming, taken>>
    /\ Still

\* Mutant of WorkerEnd: only what is for Redis is written out.
WorkerEndDrops(n) ==
    /\ n \in working
    /\ Ended(n)
    /\ working' = working \ {n}
    /\ batch' = [batch EXCEPT ![n] = <<>>]
    /\ push' = [push EXCEPT ![n] = <<>>]
    /\ IF push[n] = <<>> THEN UNCHANGED <<list, copies, lost, faults>> ELSE Push(n, push[n])
    /\ UNCHANGED <<rows, queue, consuming, taken>>
    /\ Still

\* The worker sees the context done, which it may before it has emptied the
\* queue.  Of its two batches at most one holds anything.
WorkerEnd(n) ==
    /\ n \in working
    /\ Ended(n)
    /\ working' = working \ {n}
    /\ batch' = [batch EXCEPT ![n] = <<>>]
    /\ push' = [push EXCEPT ![n] = <<>>]
    /\ IF redis THEN UNCHANGED rows /\ (IF push[n] = <<>> THEN UNCHANGED <<list, copies, lost, faults>>
                                       ELSE Push(n, push[n]))
       ELSE FlushTo(n, batch[n]) /\ UNCHANGED <<list, copies>>
    /\ UNCHANGED <<queue, consuming, taken>>
    /\ Still

ByConsumer == UNCHANGED <<queue, working, batch, push, copies>>

\* The consumer pops an entry, and writes a full batch.
Pop(n) ==
    /\ n \in consuming /\ list # <<>> /\ ~Ended(n)
    /\ list' = Tail(list)
    /\ LET s == Append(taken[n], Head(list)) IN
       IF Len(s) >= BatchSize THEN Flush(n, s) /\ taken' = [taken EXCEPT ![n] = <<>>]
       ELSE taken' = [taken EXCEPT ![n] = s] /\ UNCHANGED <<rows, lost, faults>>
    /\ UNCHANGED consuming
    /\ ByConsumer
    /\ Still

\* A pop under way when the context ends may still bring an entry, which is
\* written with what there is: the last thing the consumer does.
LastPop(n) ==
    /\ n \in consuming /\ list # <<>> /\ Ended(n)
    /\ list' = Tail(list)
    /\ Flush(n, Append(taken[n], Head(list)))
    /\ taken' = [taken EXCEPT ![n] = <<>>]
    /\ consuming' = consuming \ {n}
    /\ ByConsumer
    /\ Still

\* What Redis pops for a client that no longer waits, or cannot be told, is gone.
PopLost(n) ==
    /\ n \in consuming /\ list # <<>>
    /\ Fault
    /\ list' = Tail(list)
    /\ lost' = lost \cup {Head(list)}
    /\ UNCHANGED <<consuming, taken, rows>>
    /\ ByConsumer
    /\ Still

ConsumerTick(n) ==
    /\ n \in consuming /\ taken[n] # <<>>
    /\ Flush(n, taken[n])
    /\ taken' = [taken EXCEPT ![n] = <<>>]
    /\ UNCHANGED <<consuming, list>>
    /\ ByConsumer
    /\ Still

ConsumerEnd(n) ==
    /\ n \in consuming /\ Ended(n)
    /\ FlushTo(n, taken[n])
    /\ taken' = [taken EXCEPT ![n] = <<>>]
    /\ consuming' = consuming \ {n}
    /\ UNCHANGED list
    /\ ByConsumer
    /\ Still

Pipeline(n) ==
    \/ WorkerTick(n) \/ WorkerEnd(n)
    \/ Pop(n) \/ LastPop(n) \/ ConsumerTick(n) \/ ConsumerEnd(n)
-----------------------------------------------------------------------------
(* The end of a process. *)

Active(n) == { r \in Requests : On(r, "serving") /\ req[r].node = n }

Logs == <<memory, list, rows, copies, lost, faults>>

Signal(n) ==
    /\ phase[n] = "up"
    /\ phase' = [phase EXCEPT ![n] = "draining"]
    /\ UNCHANGED <<redis, req, gaveUp, Logs>>

\* Mutant of Cancel: the pipeline is stopped before the server.
CancelAtOnce(n) ==
    /\ phase[n] = "draining"
    /\ phase' = [phase EXCEPT ![n] = "cancelled"]
    /\ UNCHANGED <<redis, req, gaveUp, Logs>>

\* Shutdown waits for the requests, 30 seconds at most; then Stop cancels.
Cancel(n) ==
    /\ phase[n] = "draining"
    /\ phase' = [phase EXCEPT ![n] = "cancelled"]
    /\ gaveUp' = IF Active(n) # {} THEN gaveUp \cup {n} ELSE gaveUp
    /\ UNCHANGED <<redis, req, Logs>>

\* ... and closes the queue.
Close(n) ==
    /\ phase[n] = "cancelled"
    /\ phase' = [phase EXCEPT ![n] = "closed"]
    /\ UNCHANGED <<redis, req, gaveUp, Logs>>

\* main returns, or the process is killed: nobody waits for the worker.
Die(n) ==
    /\ working' = working \ {n} /\ consuming' = consuming \ {n}
    /\ lost' = lost \cup Entries(queue[n] \o batch[n] \o push[n] \o taken[n])
    /\ phase' = [phase EXCEPT ![n] = "dead"]
    /\ queue' = [queue EXCEPT ![n] = <<>>] /\ batch' = [batch EXCEPT ![n] = <<>>]
    /\ push' = [push EXCEPT ![n] = <<>>]   /\ taken' = [taken EXCEPT ![n] = <<>>]
    /\ req' = [r \in Requests |-> IF r \in Active(n) THEN [step |-> "cut"] ELSE req[r]]
    /\ UNCHANGED <<redis, gaveUp, list, rows, copies>>

Return(n) == phase[n] = "closed" /\ UNCHANGED faults /\ Die(n)

Crash(n) == phase[n] # "dead" /\ Fault /\ Die(n)
-----------------------------------------------------------------------------
Next ==
    \/ \E r \in Requests :
          \/ Emit(r)
          \/ \E n \in Nodes : \E who \in Callers : Serve(r, n, who)
    \/ \E n \in Nodes :
          \/ Take(n) \/ Pipeline(n) \/ PopLost(n)
          \/ Signal(n) \/ Cancel(n) \/ Close(n) \/ Return(n) \/ Crash(n)

\* The goroutines of a node go on; main, once told to stop, does.
Fairness == \A n \in Nodes :
    WF_vars(Take(n)) /\ WF_vars(Pipeline(n)) /\ WF_vars(Close(n)) /\ WF_vars(Return(n))

Spec == Init /\ [][Next]_vars /\ Fairness
-----------------------------------------------------------------------------
HandedOver == { r \in Requests : On(r, "done") \/ On(r, "panicked") }

Made == { e \in Copies : e[2] <= copies[e[1]] }

InFlight ==
    Entries(list) \cup
    UNION { Entries(queue[n] \o batch[n] \o push[n] \o taken[n]) : n \in Nodes }

Logged == { e \in Copies : rows[e] > 0 }

\* Every copy of what has been handed over, and nothing else, is in flight, or in
\* one row, or lost for a cause, and only one of them: none is dropped unnoticed
\* and none written twice, although it passes three batches and a queue that all
\* nodes share, each emptied in one place and flushed in another
\* (pipeline.go:183, 282, 296); and there is one of each until a push is
\* sent again (pipeline.go:230).
EntryAccounted ==
    /\ \A r \in Requests : (copies[r] > 0) = (r \in HandedOver)
    /\ \A r \in Requests : copies[r] > 1 => redis /\ faults > 0
    /\ InFlight \cup Logged \cup lost = Made
    /\ InFlight \cap (Logged \cup lost) = {} /\ Logged \cap lost = {}
    /\ \A e \in Logged : rows[e] = 1

\* A handler runs into the closed queue only where the server was stopped
\* without its requests having ended (pipeline.go:138, main.go:287).
EmitSafe == \A r \in Requests : On(r, "panicked") => req[r].node \in gaveUp

Settled(e) ==
    \/ rows[e] > 0 \/ e \in lost
    \/ e \in Entries(list) /\ \A n \in Nodes : n \notin consuming

\* In the end every copy of an entry handed over is a row, or lost for a cause; or
\* it waits in Redis for a node that runs (pipeline.go:187, 289).
LogSettles == <>[](\A e \in Made : Settled(e))

\* "Stop gracefully shuts down the pipeline, flushing remaining entries"
\* (pipeline.go:135): without a fault, with room in the queue
\* and all requests ended, none is lost.
StopFlushes == gaveUp = {} => lost = {}
=============================================================================
