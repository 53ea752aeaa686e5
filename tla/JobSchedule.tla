----------------------------- MODULE JobSchedule -----------------------------
(***************************************************************************)
(* Scheduled jobs: the handlers that define them (api/admin/jobs.go), what *)
(* each node's scheduler has registered with gocron, and the task that     *)
(* runs one with a timeout (internal/jobs/scheduler.go).  A run asked for  *)
(* by hand is here too when there is no Redis; with Redis it is JobQueue's.*)
(*                                                                         *)
(* The table is shared by all nodes; what gocron fires is each node's own. *)
(* A job's counters and its last_run_status decide nothing: left out.      *)
(***************************************************************************)
EXTENDS Naturals, Sequences

CONSTANTS
    Nodes, Jobs,
    Timed,        \* jobs with a valid schedule; manual ones are never registered
    Calls,        \* requests of admins
    Runs,         \* executions
    Alone,        \* one admin at a time, who asks for what the page offers
    MaxEntries,   \* bound: registrations of a job at a node
    MaxFaults     \* bound: restarts, failed statements

ASSUME ScheduleAssumption ==
    /\ Timed \subseteq Jobs
    /\ Alone \in BOOLEAN
    /\ MaxEntries \in Nat /\ MaxFaults \in Nat

VARIABLES
    table,    \* jobs: whether a row is there, enabled, a singleton
    stored,   \* scheduler_settings: paused
    paused,   \* what each node has loaded of it
    live,     \* gocron's jobs at each node
    mapped,   \* jobMap
    made,     \* registrations so far, to tell them apart
    call,     \* the handlers
    run,      \* the executions
    row,      \* job_runs.status
    body,     \* the executor of each run
    verdict,  \* execErr
    lapsed,   \* history: the runs and the jobs a failed statement spoiled
    faults

admin == <<table, stored, call>>
gocron == <<live, mapped, made>>
exec == <<run, row, body, verdict>>
vars == <<admin, paused, gocron, exec, lapsed, faults>>

None == [job |-> "none"]
Hand == [job |-> "hand"]   \* what started a run that gocron did not

Init ==
    /\ table \in [Jobs -> [there : {FALSE}, on : {FALSE}, single : {FALSE}, used : {FALSE}]]
    /\ stored = FALSE
    /\ paused = [n \in Nodes |-> FALSE]
    /\ live = [n \in Nodes |-> {}]
    /\ mapped = [n \in Nodes |-> [j \in Jobs |-> None]]
    /\ made = [n \in Nodes |-> [j \in Jobs |-> 0]]
    /\ call = [c \in Calls |-> [todo |-> <<>>, asked |-> FALSE]]
    /\ run = [r \in Runs |-> [step |-> "idle"]]
    /\ row = [r \in Runs |-> "absent"]
    /\ body = [r \in Runs |-> "none"]
    /\ verdict = [r \in Runs |-> "none"]
    /\ lapsed = {}
    /\ faults = 0

Fault == faults < MaxFaults /\ faults' = faults + 1
-----------------------------------------------------------------------------
(* The handlers, step by step: a statement, or a call of the scheduler.    *)

\* Mutant of Program: an update registers beside what is registered.
ProgramUpdateAdds(op) ==
    CASE op = "create" -> <<"insert", "fetch", "add", "map">>
      [] op = "update" -> <<"update", "fetch", "add", "map">>
      [] op = "pause"  -> <<"disable", "take", "remove">>
      [] op = "resume" -> <<"enable", "fetch", "add", "map">>
      [] op = "delete" -> <<"take", "remove", "drop">>

Program(op) ==
    CASE op = "create" -> <<"insert", "fetch", "add", "map">>
      [] op = "update" -> <<"update", "take", "remove", "fetch", "add", "map">>
      [] op = "pause"  -> <<"disable", "take", "remove">>
      [] op = "resume" -> <<"enable", "fetch", "add", "map">>
      [] op = "delete" -> <<"take", "remove", "drop">>

Ops == {"create", "update", "pause", "resume", "delete"}

Busy(c) == call[c].todo # <<>>

\* What the page offers for a job; its list may be out of date.
Offered(op, j) ==
    CASE op = "create" -> TRUE
      [] op = "resume" -> table[j].there /\ ~table[j].on
      [] op = "pause"  -> table[j].there /\ table[j].on
      [] OTHER -> table[j].there

Ask(c, n, op, j, row1) ==
    /\ ~call[c].asked
    /\ (op = "create") # table[j].used
    /\ Alone => Offered(op, j) /\ \A d \in Calls : ~Busy(d)
    /\ call' = [call EXCEPT ![c] = [todo |-> Program(op), asked |-> TRUE, op |-> op,
                                    node |-> n, job |-> j, row |-> row1, entry |-> None]]
    /\ UNCHANGED <<table, stored, paused, gocron, exec, lapsed, faults>>

Answered == [todo |-> <<>>, asked |-> TRUE]
Leave(c) == call' = [call EXCEPT ![c] = Answered]
Next1(c) == IF Len(call[c].todo) = 1 THEN Leave(c) ELSE call' = [call EXCEPT ![c].todo = Tail(@)]
Now(c, s) == Busy(c) /\ Head(call[c].todo) = s

Insert(c) ==
    /\ Now(c, "insert")
    /\ LET j == call[c].job IN
       IF table[j].used THEN Leave(c) /\ UNCHANGED table
       ELSE /\ table' = [table EXCEPT ![j] = [there |-> TRUE, used |-> TRUE,
                                              on |-> call[c].row.on, single |-> call[c].row.single]]
            /\ IF call[c].row.on THEN Next1(c) ELSE Leave(c)
    /\ UNCHANGED <<stored, paused, gocron, exec, lapsed, faults>>

\* An UPDATE of the row; that of an update says when there is none.
Update(c) ==
    /\ \E s \in {"update", "enable", "disable"} : Now(c, s)
    /\ LET j == call[c].job IN
       /\ IF ~table[j].there THEN UNCHANGED table
          ELSE IF Now(c, "update")
            THEN table' = [table EXCEPT ![j].on = call[c].row.on, ![j].single = call[c].row.single]
          ELSE table' = [table EXCEPT ![j].on = Now(c, "enable")]
       /\ IF Now(c, "update") /\ ~table[j].there THEN Leave(c) ELSE Next1(c)
    /\ UNCHANGED <<stored, paused, gocron, exec, lapsed, faults>>

\* Deleting a job deletes its runs.
Drop(c) ==
    /\ Now(c, "drop")
    /\ LET j == call[c].job IN
       /\ table' = [table EXCEPT ![j].there = FALSE, ![j].on = FALSE]
       /\ row' = [r \in Runs |-> IF run[r].step # "idle" /\ run[r].job = j THEN "absent" ELSE row[r]]
    /\ Leave(c)
    /\ UNCHANGED <<stored, paused, gocron, run, body, verdict, lapsed, faults>>

\* The row is read again; only an update looks whether it is enabled.
Fetch(c) ==
    /\ Now(c, "fetch")
    /\ LET j == call[c].job IN
       IF table[j].there /\ j \in Timed /\ (call[c].op = "update" => table[j].on)
            THEN call' = [call EXCEPT ![c].todo = Tail(@),
                                      ![c].entry = [job |-> j, single |-> table[j].single, nth |-> 0]]
            ELSE Leave(c)
    /\ UNCHANGED <<table, stored, paused, gocron, exec, lapsed, faults>>

\* scheduleJob: a new job of gocron, and then the map.
Add(c) ==
    /\ Now(c, "add")
    /\ LET n == call[c].node
           j == call[c].job
           e == [call[c].entry EXCEPT !.nth = made[n][j] + 1]
       IN /\ made[n][j] < MaxEntries
          /\ live' = [live EXCEPT ![n] = @ \cup {e}]
          /\ made' = [made EXCEPT ![n][j] = @ + 1]
          /\ call' = [call EXCEPT ![c].todo = Tail(@), ![c].entry = e]
    /\ UNCHANGED <<table, stored, paused, mapped, exec, lapsed, faults>>

Map(c) ==
    /\ Now(c, "map")
    /\ mapped' = [mapped EXCEPT ![call[c].node][call[c].job] = call[c].entry]
    /\ Next1(c)
    /\ UNCHANGED <<table, stored, paused, live, made, exec, lapsed, faults>>

\* UnregisterJobFromGocron: out of the map, and then out of gocron.
Take(c) ==
    /\ Now(c, "take")
    /\ LET n == call[c].node
           j == call[c].job
       IN /\ mapped' = [mapped EXCEPT ![n][j] = None]
          /\ call' = [call EXCEPT ![c].todo = Tail(@), ![c].entry = mapped[n][j]]
    /\ UNCHANGED <<table, stored, paused, live, made, exec, lapsed, faults>>

Remove(c) ==
    /\ Now(c, "remove")
    /\ live' = [live EXCEPT ![call[c].node] = @ \ {call[c].entry}]
    /\ Next1(c)
    /\ UNCHANGED <<table, stored, paused, mapped, made, exec, lapsed, faults>>

\* A statement of a handler fails, or its client has gone.
Abandon(c) ==
    /\ \E s \in {"insert", "update", "enable", "disable", "drop", "fetch"} : Now(c, s)
    /\ Fault
    /\ Leave(c)
    /\ lapsed' = lapsed \cup {call[c].job}
    /\ UNCHANGED <<table, stored, paused, gocron, exec>>

\* Settings are saved for all and reloaded by one; or the reload fails.
SaveSettings(n, b) ==
    /\ stored' = b
    /\ \/ paused' = [paused EXCEPT ![n] = b] /\ UNCHANGED faults
       \/ Fault /\ UNCHANGED paused
    /\ UNCHANGED <<table, call, gocron, exec, lapsed>>

RestartScheduler(n) ==
    /\ paused' = [paused EXCEPT ![n] = stored]
    /\ UNCHANGED <<admin, gocron, exec, lapsed, faults>>
-----------------------------------------------------------------------------
(* An execution.                                                           *)

On(r, step) == run[r].step = step

Goto(r, step) == run' = [run EXCEPT ![r].step = step]

\* gocron's clock.  How many tasks it runs at a time, and that a singleton's
\* wait for one another, is gocron's and only delays.
Fire(r, n, e) ==
    /\ On(r, "idle")
    /\ e \in live[n]
    /\ ~paused[n]
    /\ run' = [run EXCEPT ![r] = [step |-> "fired", node |-> n, job |-> e.job, by |-> e]]
    /\ UNCHANGED <<admin, paused, gocron, row, body, verdict, lapsed, faults>>

\* A statement about run r that fails is logged and passed over.
Stated(r, done) ==
    \/ done /\ UNCHANGED <<lapsed, faults>>
    \/ /\ Fault
       /\ lapsed' = lapsed \cup {r}
       /\ UNCHANGED row

There(r) == table[run[r].job].there

\* The row of a run; none for a job that is gone, but the run goes on.
Record(r) ==
    /\ On(r, "fired")
    /\ Goto(r, "begun")
    /\ Stated(r, row' = [row EXCEPT ![r] = IF There(r) THEN "running" ELSE @])
    /\ UNCHANGED <<admin, paused, gocron, body, verdict>>

Execute(r) ==
    /\ On(r, "begun")
    /\ Goto(r, "running")
    /\ body' = [body EXCEPT ![r] = "runs"]
    /\ UNCHANGED <<admin, paused, gocron, row, verdict, lapsed, faults>>

\* TriggerNow without Redis.
Trigger(r, n, j) ==
    /\ On(r, "idle")
    /\ table[j].there
    /\ run' = [run EXCEPT ![r] = [step |-> "running", node |-> n, job |-> j, by |-> Hand]]
    /\ row' = [row EXCEPT ![r] = "pending"]
    /\ body' = [body EXCEPT ![r] = "runs"]
    /\ UNCHANGED <<admin, paused, gocron, verdict, lapsed, faults>>

\* The executor returns: at any time, or never.  What a scheduled one returns
\* lands in execErr even if the task has given up on it.
Return(r, v) ==
    /\ body[r] = "runs"
    /\ ~On(r, "dead")
    /\ body' = [body EXCEPT ![r] = v]
    /\ verdict' = [verdict EXCEPT ![r] =
                      IF run[r].by = Hand /\ ~On(r, "running") THEN @
                      ELSE IF v = "ok" THEN "none" ELSE "error"]
    /\ UNCHANGED <<admin, paused, gocron, run, row, lapsed, faults>>

\* Mutant of Timeout: the task waits for the executor.
TimeoutWaits(r) ==
    /\ On(r, "running")
    /\ body[r] # "runs"
    /\ verdict' = [verdict EXCEPT ![r] = "timeout"]
    /\ Goto(r, "judging")
    /\ UNCHANGED <<admin, paused, gocron, row, body, lapsed, faults>>

\* Mutant of Timeout: the error is forgotten.
TimeoutSilent(r) ==
    /\ On(r, "running")
    /\ Goto(r, "judging")
    /\ UNCHANGED <<admin, paused, gocron, row, body, verdict, lapsed, faults>>

Timeout(r) ==
    /\ On(r, "running")
    /\ verdict' = [verdict EXCEPT ![r] = "timeout"]
    /\ Goto(r, "judging")
    /\ UNCHANGED <<admin, paused, gocron, row, body, lapsed, faults>>

Finished(r) ==
    /\ On(r, "running")
    /\ body[r] # "runs"
    /\ Goto(r, "judging")
    /\ UNCHANGED <<admin, paused, gocron, row, body, verdict, lapsed, faults>>

Judge(r) ==
    /\ On(r, "judging")
    /\ Goto(r, IF verdict[r] = "none" THEN "winning" ELSE "failing")
    /\ UNCHANGED <<admin, paused, gocron, row, body, verdict, lapsed, faults>>

Settle(r) ==
    /\ \/ On(r, "winning")
       \/ On(r, "failing") /\ verdict[r] # "none"
    /\ Goto(r, "over")
    /\ Stated(r, row' = [row EXCEPT ![r] = IF @ = "absent" THEN @
                                           ELSE IF On(r, "winning") THEN "success" ELSE "failed"])
    /\ UNCHANGED <<admin, paused, gocron, body, verdict>>

\* A row of the history is deleted, by an admin or as too old.
DeleteRun(r) ==
    /\ row[r] # "absent"
    /\ row' = [row EXCEPT ![r] = "absent"]
    /\ UNCHANGED <<admin, paused, gocron, run, body, verdict, lapsed, faults>>

\* The process ends and starts again: Start registers every enabled job, and
\* settings that cannot be read are the defaults.
Restarted(n) ==
    LET jobs == { j \in Timed : table[j].on }
        first(j) == [job |-> j, single |-> table[j].single, nth |-> 1]
    IN  /\ live' = [live EXCEPT ![n] = { first(j) : j \in jobs }]
        /\ mapped' = [mapped EXCEPT ![n] = [j \in Jobs |-> IF j \in jobs THEN first(j) ELSE None]]
        /\ made' = [made EXCEPT ![n] = [j \in Jobs |-> IF j \in jobs THEN 1 ELSE 0]]
        /\ \E b \in {stored, FALSE} : paused' = [paused EXCEPT ![n] = b]
        /\ call' = [c \in Calls |-> IF Busy(c) /\ call[c].node = n THEN Answered
                                    ELSE call[c]]
        /\ run' = [r \in Runs |-> IF On(r, "idle") \/ run[r].node # n THEN run[r]
                                  ELSE [run[r] EXCEPT !.step = "dead"]]
        /\ UNCHANGED <<table, stored, row, body, verdict, lapsed>>

Restart(n) == Fault /\ Restarted(n)

\* execErr is nil by the time its message is asked for.
NilMessage(r) ==
    /\ On(r, "failing") /\ verdict[r] = "none"
    /\ Restarted(run[r].node)
    /\ UNCHANGED faults

\* A panic of an executor run by hand is nobody's to recover.
Panic(r) ==
    /\ body[r] = "runs" /\ ~On(r, "dead") /\ run[r].by = Hand
    /\ Fault
    /\ Restarted(run[r].node)

RunStep(r) == Record(r) \/ Execute(r) \/ Timeout(r) \/ Finished(r) \/ Judge(r) \/ Settle(r)
              \/ NilMessage(r)

CallStep(c) ==
    \/ Insert(c) \/ Update(c) \/ Drop(c) \/ Fetch(c)
    \/ Add(c) \/ Map(c) \/ Take(c) \/ Remove(c) \/ Abandon(c)

\* What a request says of the job, where it says anything.
Fields(op) == IF op \in {"create", "update"} THEN [on : BOOLEAN, single : BOOLEAN]
              ELSE {[on |-> TRUE, single |-> FALSE]}

Next ==
    \/ \E c \in Calls :
          \/ CallStep(c)
          \/ \E n \in Nodes : \E op \in Ops : \E j \in Jobs : \E f \in Fields(op) : Ask(c, n, op, j, f)
    \/ \E n \in Nodes :
          \/ Restart(n) \/ RestartScheduler(n)
          \/ \E b \in BOOLEAN : SaveSettings(n, b)
          \/ \E r \in Runs : (\E e \in live[n] : Fire(r, n, e)) \/ (\E j \in Jobs : Trigger(r, n, j))
    \/ \E r \in Runs :
          \/ RunStep(r) \/ DeleteRun(r) \/ Panic(r)
          \/ \E v \in {"ok", "error"} : Return(r, v)

\* The task's own steps are taken; the executor may hang.
Fairness == \A r \in Runs : WF_vars(RunStep(r))

Spec == Init /\ [][Next]_vars /\ Fairness
-----------------------------------------------------------------------------
\* A run is recorded as a success only if its executor returned without an
\* error, though execErr is written by the task at the timeout and by the
\* executor after it (scheduler.go:343-361).
SuccessEarned == \A r \in Runs : row[r] = "success" => body[r] = "ok"

\* A run on record comes to an end though its executor hangs: the row says
\* so, unless it is deleted, its statement failed or its node died
\* (scheduler.go:357, 497).
RunsEnd ==
    \A r \in Runs :
        row[r] \in {"running", "pending"} ~>
            row[r] \notin {"running", "pending"} \/ r \in lapsed \/ On(r, "dead")

\* Between requests of one admin the node schedules the enabled jobs and no
\* others, each once and as it is defined now, and jobMap knows them all, or
\* the next update could not remove them (scheduler.go:283, 521).
ScheduledAsDefined ==
    Alone /\ (\A c \in Calls : ~Busy(c)) =>
        \A n \in Nodes : \A j \in Jobs \ lapsed :
            LET here == { e \in live[n] : e.job = j } IN
            /\ here = {mapped[n][j]} \ {None}
            /\ { e.single : e \in here } = IF j \in Timed /\ table[j].on THEN {table[j].single} ELSE {}

\* "PauseJob disables a job without deleting it" (jobs.go:426): between
\* requests no node schedules a job that is not enabled.
PausedIsQuiet ==
    (\A c \in Calls : ~Busy(c)) => \A n \in Nodes : \A e \in live[n] : table[e.job].on
=============================================================================
