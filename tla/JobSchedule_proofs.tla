-------------------------- MODULE JobSchedule_proofs --------------------------
(***************************************************************************)
(* Proofs about JobSchedule, for any nodes, jobs, requests and runs, and   *)
(* any number of restarts and failed statements.                           *)
(***************************************************************************)
EXTENDS JobSchedule, TLAPS

IsRun(x) ==
    \/ x = [step |-> "idle"]
    \/ x = [step |-> x.step, node |-> x.node, job |-> x.job, by |-> x.by]

LEMMA StepSet ==
    ASSUME NEW x, IsRun(x), x.step # "idle", NEW s
    PROVE  [x EXCEPT !.step = s].step = s /\ IsRun([x EXCEPT !.step = s])
BY DEF IsRun

\* What execErr and the place of a run say of its executor.  The executor may
\* still write execErr when the task has timed out, so that "none" means a
\* success whoever wrote it last.
Honest(r) ==
    /\ IsRun(run[r])
    /\ run[r].step \in {"idle", "fired", "begun", "dead"} =>
           run[r].step = "dead" \/ (body[r] = "none" /\ verdict[r] = "none" /\ row[r] # "success")
    /\ run[r].step = "running" =>
           row[r] # "success" /\ (verdict[r] = "none" => body[r] \in {"runs", "ok"})
    /\ run[r].step = "judging" => row[r] # "success" /\ (verdict[r] = "none" => body[r] = "ok")
    /\ run[r].step = "winning" => body[r] = "ok"
    /\ run[r].step = "failing" => row[r] # "success"
    /\ row[r] = "success" => body[r] = "ok"

HonestRuns ==
    /\ run = [r \in Runs |-> run[r]] /\ row = [r \in Runs |-> row[r]]
    /\ body = [r \in Runs |-> body[r]] /\ verdict = [r \in Runs |-> verdict[r]]
    /\ \A r \in Runs : Honest(r)

LEMMA HonestInit == Init => HonestRuns
BY DEF Init, HonestRuns, Honest, IsRun

LEMMA Goes ==
    ASSUME HonestRuns, NEW r \in Runs, ~On(r, "idle"), NEW step, Goto(r, step)
    PROVE  /\ run' = [q \in Runs |-> run'[q]]
           /\ IsRun(run'[r]) /\ run'[r].step = step
           /\ \A q \in Runs \ {r} : run'[q] = run[q]
BY StepSet DEF HonestRuns, Honest, Goto, On

\* Handlers and settings leave executions alone.
LEMMA HonestKept == ASSUME HonestRuns, UNCHANGED exec PROVE HonestRuns'
BY DEF HonestRuns, Honest, exec

LEMMA HonestDrop == ASSUME HonestRuns, NEW c \in Calls, Drop(c) PROVE HonestRuns'
<1>1. /\ UNCHANGED <<run, body, verdict>>
      /\ \A r \in Runs : row'[r] = row[r] \/ row'[r] = "absent"
      /\ row' = [r \in Runs |-> row'[r]]
  BY DEF Drop
<1> QED BY <1>1 DEF HonestRuns, Honest

LEMMA HonestDelete == ASSUME HonestRuns, NEW r \in Runs, DeleteRun(r) PROVE HonestRuns'
<1>1. /\ UNCHANGED <<run, body, verdict>>
      /\ \A q \in Runs : row'[q] = row[q] \/ row'[q] = "absent"
      /\ row' = [q \in Runs |-> row'[q]]
  BY DEF DeleteRun, HonestRuns
<1> QED BY <1>1 DEF HonestRuns, Honest

\* A process that ends leaves its runs dead, with what is on record of them.
LEMMA HonestRestarted == ASSUME HonestRuns, NEW n, Restarted(n) PROVE HonestRuns'
<1>1. /\ UNCHANGED <<row, body, verdict>>
      /\ run' = [r \in Runs |-> IF On(r, "idle") \/ run[r].node # n THEN run[r]
                                ELSE [run[r] EXCEPT !.step = "dead"]]
  BY DEF Restarted
<1>2. \A r \in Runs : run'[r] = run[r] \/ (IsRun(run'[r]) /\ run'[r].step = "dead")
  <2> SUFFICES ASSUME NEW r \in Runs, run'[r] # run[r]
               PROVE  IsRun(run'[r]) /\ run'[r].step = "dead"
    OBVIOUS
  <2>1. run[r].step # "idle" /\ run'[r] = [run[r] EXCEPT !.step = "dead"]
    BY <1>1 DEF On
  <2>2. IsRun(run[r])
    BY DEF HonestRuns, Honest
  <2> QED BY <2>1, <2>2, StepSet
<1>3. run' = [r \in Runs |-> run'[r]]
  BY <1>1
<1> QED BY <1>1, <1>2, <1>3 DEF HonestRuns, Honest

LEMMA HonestBegins ==
    ASSUME HonestRuns, NEW r \in Runs, NEW n \in Nodes,
           (\E e \in live[n] : Fire(r, n, e)) \/ (\E j \in Jobs : Trigger(r, n, j))
    PROVE  HonestRuns'
<1>1. ASSUME NEW e, Fire(r, n, e) PROVE HonestRuns'
  BY <1>1 DEF HonestRuns, Honest, Fire, On, IsRun
<1>2. ASSUME NEW j, Trigger(r, n, j) PROVE HonestRuns'
  BY <1>2 DEF HonestRuns, Honest, Trigger, On, IsRun
<1> QED BY <1>1, <1>2

LEMMA HonestTask ==
    ASSUME HonestRuns, NEW r \in Runs, Record(r) \/ Execute(r) \/ Timeout(r) \/ Finished(r) \/ Judge(r)
    PROVE  HonestRuns'
<1>1. CASE Record(r)
  <2>1. /\ On(r, "fired") /\ Goto(r, "begun") /\ UNCHANGED <<body, verdict>>
        /\ \A q \in Runs \ {r} : row'[q] = row[q]
        /\ row'[r] = row[r] \/ row'[r] = "running"
        /\ row' = [q \in Runs |-> row'[q]]
    BY <1>1 DEF Record, Stated, HonestRuns
  <2> QED BY <2>1, Goes DEF HonestRuns, Honest, On
<1>2. CASE Execute(r)
  <2>1. On(r, "begun") /\ Goto(r, "running") /\ UNCHANGED <<row, verdict>>
    BY <1>2 DEF Execute
  <2> QED BY <1>2, <2>1, Goes DEF Execute, HonestRuns, Honest, On
<1>3. CASE Timeout(r)
  <2>1. On(r, "running") /\ Goto(r, "judging") /\ UNCHANGED <<row, body>>
    BY <1>3 DEF Timeout
  <2> QED BY <1>3, <2>1, Goes DEF Timeout, HonestRuns, Honest, On
<1>4. CASE Finished(r)
  <2>1. /\ On(r, "running") /\ Goto(r, "judging") /\ UNCHANGED <<row, body, verdict>>
        /\ body[r] # "runs"
    BY <1>4 DEF Finished
  <2> QED BY <2>1, Goes DEF HonestRuns, Honest, On
<1>5. CASE Judge(r)
  <2>1. On(r, "judging") /\ UNCHANGED <<row, body, verdict>>
    BY <1>5 DEF Judge
  <2>2. CASE verdict[r] = "none"
    <3>1. Goto(r, "winning")
      BY <1>5, <2>2 DEF Judge
    <3> QED BY <2>1, <2>2, <3>1, Goes DEF HonestRuns, Honest, On
  <2>3. CASE verdict[r] # "none"
    <3>1. Goto(r, "failing")
      BY <1>5, <2>3 DEF Judge
    <3> QED BY <2>1, <2>3, <3>1, Goes DEF HonestRuns, Honest, On
  <2> QED BY <2>2, <2>3
<1> QED BY <1>1, <1>2, <1>3, <1>4, <1>5

LEMMA HonestSettle == ASSUME HonestRuns, NEW r \in Runs, Settle(r) PROVE HonestRuns'
<1>1. UNCHANGED <<body, verdict>> /\ Goto(r, "over") /\ ~On(r, "idle")
  BY DEF Settle, On
<1>2. /\ \A q \in Runs \ {r} : row'[q] = row[q]
      /\ row'[r] = "success" => row[r] = "success" \/ On(r, "winning")
      /\ row' = [q \in Runs |-> row'[q]]
  BY DEF Settle, Stated, HonestRuns
<1> QED BY <1>1, <1>2, Goes DEF HonestRuns, Honest, On

LEMMA HonestReturn ==
    ASSUME HonestRuns, NEW r \in Runs, NEW v \in {"ok", "error"}, Return(r, v)
    PROVE  HonestRuns'
BY DEF HonestRuns, Honest, Return, On

LEMMA HonestStep == HonestRuns /\ [Next]_vars => HonestRuns'
<1> SUFFICES ASSUME HonestRuns, [Next]_vars PROVE HonestRuns'
  OBVIOUS
<1>1. CASE UNCHANGED vars
  BY <1>1, HonestKept DEF vars
<1>2. ASSUME NEW c \in Calls, CallStep(c) PROVE HonestRuns'
  BY <1>2, HonestKept, HonestDrop
     DEF CallStep, Insert, Update, Fetch, Add, Map, Take, Remove, Abandon
<1>3. ASSUME NEW c \in Calls, NEW n \in Nodes, NEW op, NEW j, NEW f, Ask(c, n, op, j, f)
      PROVE  HonestRuns'
  BY <1>3, HonestKept DEF Ask
<1>4. ASSUME NEW n \in Nodes,
             Restart(n) \/ RestartScheduler(n) \/ \E b \in BOOLEAN : SaveSettings(n, b)
      PROVE  HonestRuns'
  BY <1>4, HonestKept, HonestRestarted DEF Restart, RestartScheduler, SaveSettings
<1>5. ASSUME NEW n \in Nodes, NEW r \in Runs,
             (\E e \in live[n] : Fire(r, n, e)) \/ (\E j \in Jobs : Trigger(r, n, j))
      PROVE  HonestRuns'
  BY <1>5, HonestBegins
<1>6. ASSUME NEW r \in Runs, RunStep(r) \/ DeleteRun(r) \/ Panic(r) PROVE HonestRuns'
  BY <1>6, HonestTask, HonestSettle, HonestDelete, HonestRestarted DEF RunStep, NilMessage, Panic
<1>7. ASSUME NEW r \in Runs, NEW v \in {"ok", "error"}, Return(r, v) PROVE HonestRuns'
  BY <1>7, HonestReturn
<1> QED BY <1>1, <1>2, <1>3, <1>4, <1>5, <1>6, <1>7 DEF Next

(* Whatever times out, returns late, restarts or fails to be written, a    *)
(* run on record as a success is one whose executor returned no error.     *)
THEOREM SuccessIsEarned == Spec => []SuccessEarned
<1>1. HonestRuns => SuccessEarned
  BY DEF HonestRuns, Honest, SuccessEarned
<1> QED BY <1>1, HonestInit, HonestStep, PTL DEF Spec

-----------------------------------------------------------------------------
(* What a node schedules, while one admin at a time asks for what the page *)
(* offers.  Between two requests the node and the table agree (Right); in  *)
(* one, the step it is at says how they differ (Underway).                 *)

OneNode == \A m, n \in Nodes : m = n

IsEntry(e, j) == e = [job |-> j, single |-> e.single, nth |-> e.nth]

IsRow(x) == DOMAIN x = {"there", "on", "single", "used"}

Here(n, j) == { e \in live[n] : e.job = j }

Linked(n, j) == Here(n, j) = {mapped[n][j]} \ {None}

Right(n, j) ==
    /\ Linked(n, j)
    /\ { e.single : e \in Here(n, j) } = IF j \in Timed /\ table[j].on THEN {table[j].single} ELSE {}

Bare(n, j) == Here(n, j) = {} /\ mapped[n][j] = None

\* The table keeps to its columns, and a node to its jobs.
TableOK ==
    /\ table = [j \in Jobs |-> table[j]]
    /\ \A j \in Jobs : /\ IsRow(table[j])
                       /\ table[j].on => table[j].there
                       /\ table[j].there => table[j].used

GocronOK ==
    /\ live = [n \in Nodes |-> live[n]]
    /\ \A n \in Nodes : \A e \in live[n] : \E j \in Jobs : IsEntry(e, j)
    /\ mapped = [n \in Nodes |-> [j \in Jobs |-> mapped[n][j]]]
    /\ \A n \in Nodes, j \in Jobs : mapped[n][j] = None \/ IsEntry(mapped[n][j], j)

\* What may be left of a handler.
Left(op) ==
    CASE op = "create" -> { <<"insert", "fetch", "add", "map">>, <<"fetch", "add", "map">>,
                            <<"add", "map">>, <<"map">> }
      [] op = "update" -> { <<"update", "take", "remove", "fetch", "add", "map">>,
                            <<"take", "remove", "fetch", "add", "map">>,
                            <<"remove", "fetch", "add", "map">>, <<"fetch", "add", "map">>,
                            <<"add", "map">>, <<"map">> }
      [] op = "pause"  -> { <<"disable", "take", "remove">>, <<"take", "remove">>, <<"remove">> }
      [] op = "resume" -> { <<"enable", "fetch", "add", "map">>, <<"fetch", "add", "map">>,
                            <<"add", "map">>, <<"map">> }
      [] op = "delete" -> { <<"take", "remove", "drop">>, <<"remove", "drop">>, <<"drop">> }

IsCall(x) ==
    /\ x = [todo |-> x.todo, asked |-> x.asked, op |-> x.op, node |-> x.node, job |-> x.job,
            row |-> x.row, entry |-> x.entry]
    /\ x.op \in Ops /\ x.node \in Nodes /\ x.job \in Jobs /\ x.todo \in Left(x.op)
    /\ x.entry = None \/ IsEntry(x.entry, x.job)
    /\ Head(x.todo) \in {"add", "map"} => IsEntry(x.entry, x.job)

Underway(x) ==
    LET h == Head(x.todo)
        n == x.node
        j == x.job
    IN  /\ h \in {"insert", "update", "disable"} => Right(n, j)
        /\ h \in {"enable", "fetch", "add", "drop"} => Bare(n, j)
        /\ h = "take" => Linked(n, j)
        /\ h = "remove" => Here(n, j) = {x.entry} \ {None} /\ mapped[n][j] = None
        /\ h = "enable" => table[j].there
        /\ h \in {"take", "remove"} /\ x.op = "pause" => ~table[j].on
        /\ h = "fetch" /\ x.op # "update" => table[j].on
        /\ h \in {"add", "map"} => /\ table[j].on /\ j \in Timed
                                   /\ x.entry.single = table[j].single
        /\ h = "map" => Here(n, j) = {x.entry} /\ mapped[n][j] = None

CallsOK ==
    /\ call = [c \in Calls |-> call[c]]
    /\ \A c \in Calls : Busy(c) => IsCall(call[c])
    /\ \A c, d \in Calls : Busy(c) /\ Busy(d) => c = d

Agreed ==
    /\ \A c \in Calls : Busy(c) /\ call[c].job \notin lapsed => Underway(call[c])
    /\ \A n \in Nodes, j \in Jobs \ lapsed :
          (\A c \in Calls : Busy(c) => call[c].job # j) => Right(n, j)

ScheduleInv == TableOK /\ GocronOK /\ CallsOK /\ Agreed


\* What is left after what is done now.
Parts(t, h, rest) == t # <<>> /\ Head(t) = h /\ Tail(t) = rest /\ (Len(t) = 1 <=> rest = <<>>)

LEMMA AllParts ==
    /\ Parts(<<"insert", "fetch", "add", "map">>, "insert", <<"fetch", "add", "map">>)
    /\ Parts(<<"enable", "fetch", "add", "map">>, "enable", <<"fetch", "add", "map">>)
    /\ Parts(<<"update", "take", "remove", "fetch", "add", "map">>,
             "update", <<"take", "remove", "fetch", "add", "map">>)
    /\ Parts(<<"take", "remove", "fetch", "add", "map">>,
             "take", <<"remove", "fetch", "add", "map">>)
    /\ Parts(<<"remove", "fetch", "add", "map">>, "remove", <<"fetch", "add", "map">>)
    /\ Parts(<<"fetch", "add", "map">>, "fetch", <<"add", "map">>)
    /\ Parts(<<"add", "map">>, "add", <<"map">>)
    /\ Parts(<<"map">>, "map", <<>>)
    /\ Parts(<<"disable", "take", "remove">>, "disable", <<"take", "remove">>)
    /\ Parts(<<"take", "remove">>, "take", <<"remove">>)
    /\ Parts(<<"remove">>, "remove", <<>>)
    /\ Parts(<<"take", "remove", "drop">>, "take", <<"remove", "drop">>)
    /\ Parts(<<"remove", "drop">>, "remove", <<"drop">>)
    /\ Parts(<<"drop">>, "drop", <<>>)
BY DEF Parts

Follow(op, t) ==
    /\ t # <<>> /\ (Len(t) = 1 \/ Tail(t) \in Left(op))
    /\ Head(t) = "insert" => op = "create" /\ Len(t) # 1 /\ Head(Tail(t)) = "fetch"
    /\ Head(t) = "update" => op = "update" /\ Len(t) # 1 /\ Head(Tail(t)) = "take"
    /\ Head(t) = "enable" => op = "resume" /\ Len(t) # 1 /\ Head(Tail(t)) = "fetch"
    /\ Head(t) = "disable" => op = "pause" /\ Len(t) # 1 /\ Head(Tail(t)) = "take"
    /\ Head(t) = "take" => Len(t) # 1 /\ Head(Tail(t)) = "remove"
    /\ Head(t) = "remove" => \/ op = "update" /\ Len(t) # 1 /\ Head(Tail(t)) = "fetch"
                             \/ op = "delete" /\ Len(t) # 1 /\ Head(Tail(t)) = "drop"
                             \/ op = "pause" /\ Len(t) = 1
    /\ Head(t) = "fetch" => Len(t) # 1 /\ Head(Tail(t)) = "add"
    /\ Head(t) = "add" => Len(t) # 1 /\ Head(Tail(t)) = "map"
    /\ Head(t) = "map" => Len(t) = 1
    /\ Head(t) = "drop" => Len(t) = 1

LEMMA Follows == \A op \in Ops : \A t \in Left(op) : Follow(op, t)
<1> SUFFICES ASSUME NEW op \in Ops, NEW t \in Left(op) PROVE Follow(op, t)
  OBVIOUS
<1> USE DEF Follow
<1>1. CASE op = "create"
  BY <1>1, AllParts, Zenon DEF Left, Parts
<1>2. CASE op = "update"
  BY <1>2, AllParts DEF Left, Parts
<1>3. CASE op = "pause"
  BY <1>3, AllParts DEF Left, Parts
<1>4. CASE op = "resume"
  BY <1>4, AllParts DEF Left, Parts
<1>5. CASE op = "delete"
  BY <1>5, AllParts DEF Left, Parts
<1> QED BY <1>1, <1>2, <1>3, <1>4, <1>5 DEF Ops

\* A step of the call c, about job j: nothing of it touches the others.
Moves(c, j) ==
    /\ TableOK' /\ GocronOK' /\ lapsed \subseteq lapsed'
    /\ call' = [call EXCEPT ![c] = call'[c]]
    /\ \A k \in Jobs \ {j} :
          /\ table'[k] = table[k]
          /\ \A n \in Nodes : Here(n, k)' = Here(n, k) /\ mapped'[n][k] = mapped[n][k]
    /\ \/ call'[c].todo = <<>> /\ (j \in lapsed' \/ \A n \in Nodes : Right(n, j)')
       \/ IsCall(call'[c]) /\ call'[c].job = j /\ (j \in lapsed' \/ Underway(call[c])')

LEMMA MovesKeeps ==
    ASSUME ScheduleInv, NEW c \in Calls, Busy(c), NEW i \in Jobs, i = call[c].job, Moves(c, i)
    PROVE  ScheduleInv'
<1>1. /\ \A d \in Calls : d # c => call'[d] = call[d] /\ ~Busy(d) /\ ~Busy(d)'
      /\ call' = [d \in Calls |-> call'[d]]
  BY DEF ScheduleInv, CallsOK, Moves, Busy
<1>2. Busy(c)' => IsCall(call'[c]) /\ call'[c].job = i /\ (i \in lapsed' \/ Underway(call[c])')
  BY DEF Moves, Busy
<1>3. CallsOK'
  BY <1>1, <1>2 DEF CallsOK
<1>4. ASSUME NEW d \in Calls, Busy(d)', call'[d].job \notin lapsed' PROVE Underway(call[d])'
  <2>1. d = c
    BY <1>1, <1>4
  <2> QED BY <1>2, <1>4, <2>1
<1>5. ASSUME NEW n \in Nodes, NEW j \in Jobs \ lapsed',
             \A d \in Calls : Busy(d)' => call'[d].job # j
      PROVE  Right(n, j)'
  <2>1. CASE j = i
    <3>1. ~Busy(c)'
      BY <1>2, <1>5, <2>1
    <3>2. ~IsCall(call'[c])
      BY <3>1, Follows DEF IsCall, Busy, Follow
    <3> QED BY <1>5, <2>1, <3>2 DEF Moves
  <2>2. CASE j # i
    <3>1. Right(n, j)
      <4>1. j \notin lapsed
        BY <1>5 DEF Moves
      <4>2. \A d \in Calls : Busy(d) => call[d].job # j
        BY <1>1, <2>2
      <4> QED BY <4>1, <4>2 DEF ScheduleInv, Agreed
    <3>2. table'[j] = table[j] /\ Here(n, j)' = Here(n, j) /\ mapped'[n][j] = mapped[n][j]
      BY <2>2 DEF Moves
    <3> QED BY <3>1, <3>2 DEF Right, Linked
  <2> QED BY <2>1, <2>2
<1>6. Agreed'
  BY <1>4, <1>5 DEF Agreed
<1> QED BY <1>3, <1>6 DEF ScheduleInv, Moves

\* The ways a call goes on.
Goes1(c, e) ==
    /\ call' = [call EXCEPT ![c] = call'[c]]
    /\ call'[c] = [todo |-> Tail(call[c].todo), asked |-> call[c].asked, op |-> call[c].op,
                   node |-> call[c].node, job |-> call[c].job, row |-> call[c].row, entry |-> e]

Stops(c) == call' = [call EXCEPT ![c] = call'[c]] /\ call'[c].todo = <<>>

LEMMA CallSet ==
    ASSUME NEW x, IsCall(x), NEW t, NEW e
    PROVE  /\ [x EXCEPT !.todo = t] =
                 [todo |-> t, asked |-> x.asked, op |-> x.op, node |-> x.node, job |-> x.job,
                  row |-> x.row, entry |-> x.entry]
           /\ [x EXCEPT !.todo = t, !.entry = e] =
                 [todo |-> t, asked |-> x.asked, op |-> x.op, node |-> x.node, job |-> x.job,
                  row |-> x.row, entry |-> e]
<1>1. PICK a, b, o, n, j, f, d :
         x = [todo |-> a, asked |-> b, op |-> o, node |-> n, job |-> j, row |-> f, entry |-> d]
  BY DEF IsCall
<1>2. x.asked = b /\ x.op = o /\ x.node = n /\ x.job = j /\ x.row = f /\ x.entry = d
  BY <1>1
<1> DEFINE y == [todo |-> a, asked |-> b, op |-> o, node |-> n, job |-> j, row |-> f, entry |-> d]
<1>3. [y EXCEPT !.todo = t] =
         [todo |-> t, asked |-> b, op |-> o, node |-> n, job |-> j, row |-> f, entry |-> d]
  OBVIOUS
<1>4. [y EXCEPT !.todo = t, !.entry = e] =
         [todo |-> t, asked |-> b, op |-> o, node |-> n, job |-> j, row |-> f, entry |-> e]
  <2>1. [[todo |-> t, asked |-> b, op |-> o, node |-> n, job |-> j, row |-> f, entry |-> d]
            EXCEPT !.entry = e] =
           [todo |-> t, asked |-> b, op |-> o, node |-> n, job |-> j, row |-> f, entry |-> e]
    OBVIOUS
  <2> HIDE DEF y
  <2>2. [y EXCEPT !.todo = t, !.entry = e] = [[y EXCEPT !.todo = t] EXCEPT !.entry = e]
    OBVIOUS
  <2> QED BY <1>3, <2>1, <2>2
<1>5. x = y
  BY <1>1
<1> HIDE DEF y
<1> QED BY <1>2, <1>3, <1>4, <1>5

LEMMA Going ==
    ASSUME CallsOK, NEW c \in Calls, Busy(c)
    PROVE  /\ Leave(c) => Stops(c)
           /\ call' = [call EXCEPT ![c].todo = Tail(@)] => Goes1(c, call[c].entry)
           /\ \A e : call' = [call EXCEPT ![c].todo = Tail(@), ![c].entry = e] => Goes1(c, e)
           /\ Next1(c) /\ Len(call[c].todo) = 1 => Stops(c)
           /\ Next1(c) /\ Len(call[c].todo) # 1 => Goes1(c, call[c].entry)
<1>1. call = [d \in Calls |-> call[d]] /\ IsCall(call[c])
  BY DEF CallsOK
<1>2. Leave(c) => Stops(c)
  BY <1>1 DEF Leave, Answered, Stops
<1>3. ASSUME call' = [call EXCEPT ![c].todo = Tail(@)] PROVE Goes1(c, call[c].entry)
  <2>1. call' = [call EXCEPT ![c] = call'[c]] /\ call'[c] = [call[c] EXCEPT !.todo = Tail(@)]
    BY <1>1, <1>3
  <2> QED BY <1>1, <2>1, CallSet DEF Goes1
<1>4. ASSUME NEW e, call' = [call EXCEPT ![c].todo = Tail(@), ![c].entry = e] PROVE Goes1(c, e)
  <2>1. /\ call' = [call EXCEPT ![c] = call'[c]]
        /\ call'[c] = [call[c] EXCEPT !.todo = Tail(@), !.entry = e]
    BY <1>1, <1>4
  <2> QED BY <1>1, <2>1, CallSet DEF Goes1
<1> QED BY <1>2, <1>3, <1>4 DEF Next1

\* A call that goes on is still one.
LEMMA GoesIsCall ==
    ASSUME CallsOK, NEW c \in Calls, Busy(c), Len(call[c].todo) # 1, NEW e, Goes1(c, e),
           e = None \/ IsEntry(e, call[c].job),
           Head(Tail(call[c].todo)) \in {"add", "map"} => IsEntry(e, call[c].job)
    PROVE  /\ IsCall(call'[c]) /\ call'[c].job = call[c].job /\ call'[c].op = call[c].op
           /\ call'[c].node = call[c].node /\ call'[c].entry = e
           /\ call'[c].todo = Tail(call[c].todo)
<1>1. IsCall(call[c])
  BY DEF CallsOK
<1>2. Tail(call[c].todo) \in Left(call[c].op)
  BY <1>1, Follows DEF IsCall, Follow
<1>3. /\ call'[c].op = call[c].op /\ call'[c].node = call[c].node /\ call'[c].job = call[c].job
      /\ call'[c].todo = Tail(call[c].todo) /\ call'[c].entry = e
      /\ call'[c] = [todo |-> call'[c].todo, asked |-> call'[c].asked, op |-> call'[c].op,
                     node |-> call'[c].node, job |-> call'[c].job, row |-> call'[c].row,
                     entry |-> call'[c].entry]
  BY DEF Goes1
<1> HIDE DEF Goes1
<1> QED BY <1>1, <1>2, <1>3 DEF IsCall


\* A statement that gives a job another row.
LEMMA TableSet ==
    ASSUME TableOK, NEW j \in Jobs, NEW y, IsRow(y), y.on => y.there, y.there => y.used,
           table' = [table EXCEPT ![j] = y]
    PROVE  TableOK' /\ table'[j] = y /\ \A k \in Jobs \ {j} : table'[k] = table[k]
BY DEF TableOK

LEMMA GocronKept ==
    ASSUME GocronOK, UNCHANGED <<live, mapped>>
    PROVE  GocronOK' /\ \A n \in Nodes : \A j : Here(n, j)' = Here(n, j) /\ mapped'[n][j] = mapped[n][j]
BY DEF GocronOK, Here

\* What is known of a call that is busy with job j at node n.
At(c, n, j) == Busy(c) /\ call[c].node = n /\ call[c].job = j

LEMMA AtWork ==
    ASSUME ScheduleInv, NEW c \in Calls, NEW n, NEW j, At(c, n, j)
    PROVE  /\ IsCall(call[c]) /\ n \in Nodes /\ j \in Jobs /\ call[c].op \in Ops
           /\ call[c].todo \in Left(call[c].op)
           /\ TableOK /\ GocronOK /\ CallsOK
           /\ call[c].entry = None \/ IsEntry(call[c].entry, j)
           /\ j \notin lapsed => Underway(call[c])
BY DEF ScheduleInv, CallsOK, Agreed, IsCall, At

LEMMA InsertKeeps ==
    ASSUME OneNode, ScheduleInv, NEW c \in Calls, NEW n, NEW j, At(c, n, j), Insert(c)
    PROVE  Moves(c, j)
<1>1. Busy(c) /\ Head(call[c].todo) = "insert" /\ UNCHANGED <<live, mapped, lapsed>>
  BY DEF Insert, Now, gocron
<1>2. /\ n \in Nodes /\ j \in Jobs /\ IsCall(call[c]) /\ TableOK /\ CallsOK /\ GocronOK
      /\ call[c].entry = None \/ IsEntry(call[c].entry, j)
      /\ call[c].op = "create" /\ Len(call[c].todo) # 1 /\ Head(Tail(call[c].todo)) = "fetch"
  <2>1. call[c].op \in Ops /\ call[c].todo \in Left(call[c].op)
    BY AtWork
  <2>2. Follow(call[c].op, call[c].todo)
    BY <2>1, Follows, Zenon
  <2> QED BY <1>1, <2>2, AtWork DEF Follow
<1>3. j \notin lapsed => Right(n, j)
  BY <1>1, AtWork DEF Underway, At
<1>4. /\ GocronOK' /\ \A m \in Nodes : \A k : Here(m, k)' = Here(m, k) /\ mapped'[m][k] = mapped[m][k]
      /\ \A m \in Nodes : m = n
  BY <1>1, <1>2, GocronKept DEF OneNode
<1>5. CASE table[j].used
  <2>1. Stops(c) /\ table' = table
    BY <1>1, <1>2, <1>5, Going DEF Insert, At
  <2>2. \A m \in Nodes : j \notin lapsed => Right(m, j)'
    BY <1>3, <1>4, <2>1 DEF Right, Linked
  <2>3. TableOK'
    BY <1>2, <2>1 DEF TableOK
  <2> QED BY <1>1, <1>4, <2>1, <2>2, <2>3 DEF Moves, Stops
<1>6. CASE ~table[j].used
  <2> DEFINE y == [there |-> TRUE, used |-> TRUE, on |-> call[c].row.on, single |-> call[c].row.single]
  <2>1. /\ table' = [table EXCEPT ![j] = y]
        /\ IF call[c].row.on THEN Next1(c) ELSE Leave(c)
    BY <1>6 DEF Insert, At
  <2>2. IsRow(y) /\ y.there /\ y.used /\ y.on = call[c].row.on
    BY DEF IsRow
  <2>3. TableOK' /\ table'[j] = y /\ \A k \in Jobs \ {j} : table'[k] = table[k]
    <3> HIDE DEF y
    <3> QED BY <1>2, <2>1, <2>2, TableSet
  <2>4. ~table[j].on
    BY <1>2, <1>6 DEF TableOK
  <2>5. j \notin lapsed => Bare(n, j)
    BY <1>3, <2>4 DEF Right, Linked, Bare
  <2>6. j \notin lapsed => Bare(n, j)'
    BY <1>2, <1>4, <2>5 DEF Bare
  <2>7. CASE call[c].row.on
    <3>1. Goes1(c, call[c].entry)
      BY <1>1, <1>2, <2>1, <2>7, Going
    <3>2. /\ IsCall(call'[c]) /\ call'[c].job = j /\ call'[c].op = "create"
          /\ call'[c].node = n /\ Head(call'[c].todo) = "fetch"
      BY <1>1, <1>2, <3>1, GoesIsCall DEF At
    <3>3. j \notin lapsed => Underway(call[c])'
      BY <2>2, <2>3, <2>6, <2>7, <3>2 DEF Underway
    <3> QED BY <1>1, <1>4, <2>3, <3>1, <3>2, <3>3 DEF Moves, Goes1
  <2>8. CASE ~call[c].row.on
    <3>1. Stops(c)
      BY <1>1, <1>2, <2>1, <2>8, Going
    <3>2. \A m \in Nodes : j \notin lapsed => Right(m, j)'
      BY <1>4, <2>2, <2>3, <2>6, <2>8 DEF Right, Linked, Bare
    <3> QED BY <1>1, <1>4, <2>3, <3>1, <3>2 DEF Moves, Stops
  <2> QED BY <2>7, <2>8
<1> QED BY <1>5, <1>6


LEMMA UpdateKeeps ==
    ASSUME OneNode, ScheduleInv, NEW c \in Calls, NEW n, NEW j, At(c, n, j), Update(c)
    PROVE  Moves(c, j)
<1> DEFINE h == Head(call[c].todo)
           h2 == Head(Tail(call[c].todo))
           op == call[c].op
<1>1. /\ Busy(c) /\ h \in {"update", "enable", "disable"} /\ UNCHANGED <<live, mapped, lapsed>>
      /\ \A s : Now(c, s) <=> s = h
  BY DEF Update, Now, gocron
<1>2. /\ n \in Nodes /\ j \in Jobs /\ IsCall(call[c]) /\ TableOK /\ CallsOK /\ GocronOK
      /\ call[c].entry = None \/ IsEntry(call[c].entry, j)
      /\ op \in Ops /\ call[c].todo \in Left(op)
      /\ j \notin lapsed => Underway(call[c])
  BY AtWork
<1>3. /\ Len(call[c].todo) # 1
      /\ h = "update" => op = "update" /\ h2 = "take"
      /\ h = "enable" => op = "resume" /\ h2 = "fetch"
      /\ h = "disable" => op = "pause" /\ h2 = "take"
  <2>1. Follow(call[c].op, call[c].todo)
    BY <1>2, Follows, Zenon
  <2> QED BY <1>1, <2>1 DEF Follow
<1>4. /\ GocronOK' /\ \A m \in Nodes : \A k : Here(m, k)' = Here(m, k) /\ mapped'[m][k] = mapped[m][k]
      /\ \A m \in Nodes : m = n
  BY <1>1, <1>2, GocronKept DEF OneNode
<1>5. /\ j \notin lapsed /\ h = "enable" => Bare(n, j) /\ table[j].there
      /\ j \notin lapsed /\ h # "enable" => Right(n, j)
  BY <1>1, <1>2 DEF Underway, At
<1>6. ASSUME Next1(c)
      PROVE  /\ Goes1(c, call[c].entry) /\ IsCall(call'[c]) /\ call'[c].job = j
             /\ call'[c].op = op /\ call'[c].node = n /\ Head(call'[c].todo) = h2
  <2>1. Goes1(c, call[c].entry)
    BY <1>1, <1>2, <1>3, <1>6, Going
  <2>2. h2 \notin {"add", "map"}
    BY <1>1, <1>3
  <2> QED BY <1>1, <1>2, <1>3, <2>1, <2>2, GoesIsCall DEF At
<1>7. CASE ~table[j].there
  <2>1. table' = table /\ IF h = "update" THEN Stops(c) ELSE Next1(c)
    BY <1>1, <1>2, <1>7, Going DEF Update, At
  <2>2. TableOK' /\ ~table[j].on
    BY <1>2, <1>7, <2>1 DEF TableOK
  <2>3. CASE h = "update"
    <3>1. \A m \in Nodes : j \notin lapsed => Right(m, j)'
      BY <1>4, <1>5, <2>1, <2>3 DEF Right, Linked
    <3> QED BY <1>1, <1>4, <2>1, <2>2, <2>3, <3>1 DEF Moves, Stops
  <2>4. CASE h = "enable"
    <3>1. j \in lapsed
      BY <1>5, <1>7, <2>4
    <3> QED BY <1>1, <1>4, <1>6, <2>1, <2>2, <2>4, <3>1 DEF Moves, Goes1
  <2>5. CASE h = "disable"
    <3>1. j \notin lapsed => Linked(n, j)'
      BY <1>2, <1>4, <1>5, <2>5 DEF Right, Linked
    <3>2. j \notin lapsed => Underway(call[c])'
      BY <1>3, <1>6, <2>1, <2>2, <2>5, <3>1 DEF Underway
    <3> QED BY <1>1, <1>4, <1>6, <2>1, <2>2, <2>5, <3>2 DEF Moves, Goes1
  <2> QED BY <1>1, <2>3, <2>4, <2>5
<1>8. CASE table[j].there
  <2>0. Next1(c)
    BY <1>1, <1>8 DEF Update, At
  <2>1. /\ TableOK' /\ \A k \in Jobs \ {j} : table'[k] = table[k]
        /\ h = "enable" => table'[j].on
        /\ h = "disable" => ~table'[j].on
    <3>0. table[j].there /\ table[j].used /\ IsRow(table[j])
      BY <1>2, <1>8 DEF TableOK
    <3>1. CASE h = "update"
      <4> DEFINE y == [table[j] EXCEPT !.on = call[c].row.on, !.single = call[c].row.single]
      <4>1. table' = [table EXCEPT ![j] = y]
        BY <1>1, <1>2, <1>8, <3>1 DEF Update, At, TableOK
      <4>2. IsRow(y) /\ y.there = table[j].there /\ y.used = table[j].used
        BY <3>0 DEF IsRow
      <4> HIDE DEF y
      <4> QED BY <1>2, <3>0, <3>1, <4>1, <4>2, TableSet
    <3>2. CASE h \in {"enable", "disable"}
      <4> DEFINE b == Now(c, "enable")
                 y == [table[j] EXCEPT !.on = b]
      <4>1. table' = [table EXCEPT ![j] = y]
        BY <1>1, <1>2, <1>8, <3>2 DEF Update, At, TableOK
      <4>2. b <=> h = "enable"
        BY <1>1
      <4>3. IsRow(y) /\ y.there = table[j].there /\ y.used = table[j].used /\ y.on = b
        <5> HIDE DEF b
        <5> QED BY <3>0 DEF IsRow
      <4> HIDE DEF y, b
      <4> QED BY <1>2, <3>0, <3>2, <4>1, <4>2, <4>3, TableSet
    <3> QED BY <1>1, <3>1, <3>2
  <2>2. j \notin lapsed => IF h = "enable" THEN Bare(n, j)' ELSE Linked(n, j)'
    BY <1>2, <1>4, <1>5 DEF Right, Linked, Bare
  <2>3. j \notin lapsed => Underway(call[c])'
    BY <1>1, <1>3, <1>6, <2>0, <2>1, <2>2 DEF Underway
  <2> QED BY <1>1, <1>4, <1>6, <2>0, <2>1, <2>3 DEF Moves, Goes1
<1> QED BY <1>7, <1>8

LEMMA DropKeeps ==
    ASSUME OneNode, ScheduleInv, NEW c \in Calls, NEW n, NEW j, At(c, n, j), Drop(c)
    PROVE  Moves(c, j)
<1> DEFINE y == [table[j] EXCEPT !.there = FALSE, !.on = FALSE]
<1>1. Busy(c) /\ Head(call[c].todo) = "drop" /\ UNCHANGED <<live, mapped, lapsed>> /\ Leave(c)
  BY DEF Drop, Now, gocron
<1>2. /\ n \in Nodes /\ j \in Jobs /\ TableOK /\ CallsOK /\ GocronOK
      /\ j \notin lapsed => Underway(call[c])
  BY AtWork
<1>3. /\ GocronOK' /\ \A m \in Nodes : \A k : Here(m, k)' = Here(m, k) /\ mapped'[m][k] = mapped[m][k]
      /\ \A m \in Nodes : m = n
  BY <1>1, <1>2, GocronKept DEF OneNode
<1>4. Stops(c)
  BY <1>1, <1>2, Going
<1>5. table' = [table EXCEPT ![j] = y]
  BY <1>2 DEF Drop, At, TableOK
<1>6. IsRow(y) /\ y.there = FALSE /\ y.on = FALSE
  BY <1>2 DEF TableOK, IsRow
<1>7. TableOK' /\ table'[j] = y /\ \A k \in Jobs \ {j} : table'[k] = table[k]
  <2> HIDE DEF y
  <2> QED BY <1>2, <1>5, <1>6, TableSet
<1>8. j \notin lapsed => Bare(n, j)'
  BY <1>1, <1>2, <1>3 DEF Underway, Bare, At
<1>9. \A m \in Nodes : j \notin lapsed => Right(m, j)'
  BY <1>3, <1>6, <1>7, <1>8 DEF Right, Linked, Bare
<1> QED BY <1>1, <1>3, <1>4, <1>7, <1>9 DEF Moves, Stops

LEMMA FetchKeeps ==
    ASSUME OneNode, ScheduleInv, NEW c \in Calls, NEW n, NEW j, At(c, n, j), Fetch(c)
    PROVE  Moves(c, j)
<1>1. Busy(c) /\ Head(call[c].todo) = "fetch" /\ UNCHANGED <<live, mapped, lapsed, table>>
  BY DEF Fetch, Now, gocron
<1>2. /\ n \in Nodes /\ j \in Jobs /\ IsCall(call[c]) /\ TableOK /\ CallsOK /\ GocronOK
      /\ call[c].op \in Ops /\ call[c].todo \in Left(call[c].op)
      /\ j \notin lapsed => Underway(call[c])
  BY AtWork
<1>3. Len(call[c].todo) # 1 /\ Head(Tail(call[c].todo)) = "add"
  <2>1. Follow(call[c].op, call[c].todo)
    BY <1>2, Follows, Zenon
  <2> QED BY <1>1, <2>1 DEF Follow
<1>4. /\ GocronOK' /\ \A m \in Nodes : \A k : Here(m, k)' = Here(m, k) /\ mapped'[m][k] = mapped[m][k]
      /\ \A m \in Nodes : m = n
  BY <1>1, <1>2, GocronKept DEF OneNode
<1>5. TableOK'
  BY <1>1, <1>2 DEF TableOK
<1>6. j \notin lapsed => Bare(n, j) /\ Bare(n, j)' /\ (call[c].op # "update" => table[j].on)
  BY <1>1, <1>2, <1>4 DEF Underway, Bare, At
<1>7. table[j].on => table[j].there
  BY <1>2 DEF TableOK
<1>8. CASE table[j].there /\ j \in Timed /\ (call[c].op = "update" => table[j].on)
  <2> DEFINE e == [job |-> j, single |-> table[j].single, nth |-> 0]
  <2>1. Goes1(c, e)
    <3>1. call' = [call EXCEPT ![c].todo = Tail(@), ![c].entry = e]
      BY <1>8 DEF Fetch, At
    <3> HIDE DEF e
    <3> QED BY <1>1, <1>2, <3>1, Going
  <2>2. IsEntry(e, j) /\ e.single = table[j].single
    BY DEF IsEntry
  <2> HIDE DEF e
  <2>3. /\ IsCall(call'[c]) /\ call'[c].job = j /\ call'[c].entry = e
        /\ call'[c].node = n /\ Head(call'[c].todo) = "add"
    BY <1>1, <1>2, <1>3, <2>1, <2>2, GoesIsCall DEF At
  <2>4. j \notin lapsed => Underway(call[c])'
    BY <1>1, <1>6, <1>8, <2>2, <2>3 DEF Underway
  <2> QED BY <1>1, <1>4, <1>5, <2>1, <2>3, <2>4 DEF Moves, Goes1
<1>9. CASE ~(table[j].there /\ j \in Timed /\ (call[c].op = "update" => table[j].on))
  <2>1. Stops(c)
    BY <1>1, <1>2, <1>9, Going DEF Fetch, At
  <2>2. \A m \in Nodes : j \notin lapsed => Right(m, j)'
    BY <1>1, <1>4, <1>6, <1>7, <1>9 DEF Right, Linked, Bare
  <2> QED BY <1>1, <1>4, <1>5, <2>1, <2>2 DEF Moves, Stops
<1> QED BY <1>8, <1>9


LEMMA EntryIsOne ==
    ASSUME NEW j, NEW e, IsEntry(e, j)
    PROVE  e.job = j /\ e # None
<1>1. "single" \in DOMAIN e /\ e.job = j
  BY DEF IsEntry
<1>2. "single" \notin DOMAIN None
  BY DEF None
<1> QED BY <1>1, <1>2

\* A change of what node n has of job j.
LEMMA LiveSet ==
    ASSUME OneNode, GocronOK, NEW n \in Nodes, NEW j \in Jobs, NEW S, mapped' = mapped,
           live' = [live EXCEPT ![n] = S], \A e \in S : e \in live[n] \/ IsEntry(e, j),
           \A e \in live[n] : e \notin S => e.job = j
    PROVE  /\ GocronOK'
           /\ Here(n, j)' = { e \in S : e.job = j }
           /\ \A k \in Jobs \ {j} : \A m \in Nodes : Here(m, k)' = Here(m, k) /\ mapped'[m][k] = mapped[m][k]
<1>1. live'[n] = S /\ \A m \in Nodes : m = n
  BY DEF GocronOK, OneNode
<1>2. \A e \in S : \E k \in Jobs : IsEntry(e, k)
  BY DEF GocronOK
<1>3. GocronOK'
  BY <1>1, <1>2 DEF GocronOK
<1>4. \A k \in Jobs \ {j} : Here(n, k)' = Here(n, k)
  <2> SUFFICES ASSUME NEW k \in Jobs \ {j} PROVE { e \in S : e.job = k } = { e \in live[n] : e.job = k }
    BY <1>1 DEF Here
  <2>1. \A e \in S : e.job = k => e \in live[n]
    BY EntryIsOne
  <2> QED BY <2>1
<1> QED BY <1>1, <1>3, <1>4 DEF Here

LEMMA MappedSet ==
    ASSUME OneNode, GocronOK, NEW n \in Nodes, NEW j \in Jobs, NEW e, live' = live,
           mapped' = [mapped EXCEPT ![n][j] = e], e = None \/ IsEntry(e, j)
    PROVE  /\ GocronOK' /\ Here(n, j)' = Here(n, j) /\ mapped'[n][j] = e
           /\ \A k \in Jobs \ {j} : \A m \in Nodes : Here(m, k)' = Here(m, k) /\ mapped'[m][k] = mapped[m][k]
<1>1. /\ mapped'[n][j] = e /\ \A k \in Jobs \ {j} : mapped'[n][k] = mapped[n][k]
      /\ mapped' = [m \in Nodes |-> [k \in Jobs |-> mapped'[m][k]]]
      /\ \A m \in Nodes : m = n
  BY DEF GocronOK, OneNode
<1>2. GocronOK'
  BY <1>1 DEF GocronOK
<1> QED BY <1>1, <1>2 DEF Here

LEMMA AddKeeps ==
    ASSUME OneNode, ScheduleInv, NEW c \in Calls, NEW n, NEW j, At(c, n, j), Add(c)
    PROVE  Moves(c, j)
<1> DEFINE e == [call[c].entry EXCEPT !.nth = made[n][j] + 1]
<1>1. /\ Busy(c) /\ Head(call[c].todo) = "add" /\ UNCHANGED <<mapped, lapsed, table>>
      /\ live' = [live EXCEPT ![n] = @ \cup {e}]
      /\ call' = [call EXCEPT ![c].todo = Tail(@), ![c].entry = e]
  BY DEF Add, Now, At
<1>2. /\ n \in Nodes /\ j \in Jobs /\ IsCall(call[c]) /\ TableOK /\ CallsOK /\ GocronOK
      /\ call[c].op \in Ops /\ call[c].todo \in Left(call[c].op)
      /\ j \notin lapsed => Underway(call[c])
  BY AtWork
<1>3. Len(call[c].todo) # 1 /\ Head(Tail(call[c].todo)) = "map"
  <2>1. Follow(call[c].op, call[c].todo)
    BY <1>2, Follows, Zenon
  <2> QED BY <1>1, <2>1 DEF Follow
<1>4. IsEntry(e, j) /\ e.single = call[c].entry.single
  <2>1. IsEntry(call[c].entry, j)
    BY <1>1, <1>2 DEF IsCall, At
  <2> QED BY <2>1 DEF IsEntry
<1>5. TableOK'
  BY <1>1, <1>2 DEF TableOK
<1> HIDE DEF e
<1>6. e.job = j
  BY <1>4, EntryIsOne
<1>7. /\ GocronOK' /\ Here(n, j)' = { d \in live[n] \cup {e} : d.job = j }
      /\ \A k \in Jobs \ {j} : \A m \in Nodes : Here(m, k)' = Here(m, k) /\ mapped'[m][k] = mapped[m][k]
  <2> DEFINE S == live[n] \cup {e}
  <2>1. live' = [live EXCEPT ![n] = S]
    BY <1>1
  <2>2. (\A d \in S : d \in live[n] \/ IsEntry(d, j)) /\ (\A d \in live[n] : d \notin S => d.job = j)
    BY <1>4
  <2>3. mapped' = mapped
    BY <1>1
  <2> HIDE DEF S
  <2>4. /\ GocronOK' /\ Here(n, j)' = { d \in S : d.job = j }
        /\ \A k \in Jobs \ {j} : \A m \in Nodes : Here(m, k)' = Here(m, k) /\ mapped'[m][k] = mapped[m][k]
    BY <1>2, <2>1, <2>2, <2>3, LiveSet
  <2> QED BY <2>4 DEF S
<1>8. Goes1(c, e)
  BY <1>1, <1>2, Going
<1>9. /\ IsCall(call'[c]) /\ call'[c].job = j /\ call'[c].entry = e
      /\ call'[c].node = n /\ Head(call'[c].todo) = "map"
  BY <1>1, <1>2, <1>3, <1>4, <1>8, GoesIsCall DEF At
<1>10. ASSUME j \notin lapsed PROVE Underway(call[c])'
  <2>1. /\ Here(n, j) = {} /\ mapped[n][j] = None /\ table[j].on /\ j \in Timed
        /\ call[c].entry.single = table[j].single
    BY <1>1, <1>2, <1>10 DEF Underway, Bare, At
  <2>2. Here(n, j)' = {e}
    BY <1>6, <1>7, <2>1 DEF Here
  <2> QED BY <1>1, <1>4, <1>9, <2>1, <2>2 DEF Underway
<1> QED BY <1>1, <1>5, <1>7, <1>8, <1>9, <1>10 DEF Moves, Goes1

LEMMA MapKeeps ==
    ASSUME OneNode, ScheduleInv, NEW c \in Calls, NEW n, NEW j, At(c, n, j), Map(c)
    PROVE  Moves(c, j)
<1> DEFINE e == call[c].entry
<1>1. /\ Busy(c) /\ Head(call[c].todo) = "map" /\ UNCHANGED <<live, lapsed, table>>
      /\ mapped' = [mapped EXCEPT ![n][j] = e] /\ Next1(c)
  BY DEF Map, Now, At
<1>2. /\ n \in Nodes /\ j \in Jobs /\ IsCall(call[c]) /\ TableOK /\ CallsOK /\ GocronOK
      /\ call[c].op \in Ops /\ call[c].todo \in Left(call[c].op)
      /\ j \notin lapsed => Underway(call[c])
  BY AtWork
<1>3. Len(call[c].todo) = 1
  <2>1. Follow(call[c].op, call[c].todo)
    BY <1>2, Follows, Zenon
  <2> QED BY <1>1, <2>1 DEF Follow
<1>4. IsEntry(e, j)
  BY <1>1, <1>2 DEF IsCall, At
<1>5. TableOK'
  BY <1>1, <1>2 DEF TableOK
<1>6. Stops(c)
  BY <1>1, <1>2, <1>3, Going
<1>7. ASSUME j \notin lapsed
      PROVE  table[j].on /\ j \in Timed /\ e.single = table[j].single /\ Here(n, j) = {e}
  BY <1>1, <1>2, <1>7 DEF Underway, At
<1> HIDE DEF e
<1>8. /\ GocronOK' /\ Here(n, j)' = Here(n, j) /\ mapped'[n][j] = e
      /\ \A k \in Jobs \ {j} : \A m \in Nodes : Here(m, k)' = Here(m, k) /\ mapped'[m][k] = mapped[m][k]
  BY <1>1, <1>2, <1>4, MappedSet
<1>9. e # None /\ \A m \in Nodes : m = n
  BY <1>2, <1>4, EntryIsOne DEF OneNode
<1>10. \A m \in Nodes : j \notin lapsed => Right(m, j)'
  <2> SUFFICES ASSUME j \notin lapsed PROVE Right(n, j)'
    BY <1>9
  <2>1. Here(n, j)' = {e}
    BY <1>7, <1>8
  <2>2. Linked(n, j)'
    BY <1>8, <1>9, <2>1 DEF Linked
  <2>3. table' = table
    BY <1>1
  <2> QED BY <1>7, <2>1, <2>2, <2>3 DEF Right
<1> QED BY <1>1, <1>5, <1>6, <1>8, <1>10 DEF Moves, Stops

LEMMA TakeKeeps ==
    ASSUME OneNode, ScheduleInv, NEW c \in Calls, NEW n, NEW j, At(c, n, j), Take(c)
    PROVE  Moves(c, j)
<1> DEFINE e == mapped[n][j]
<1>1. /\ Busy(c) /\ Head(call[c].todo) = "take" /\ UNCHANGED <<live, lapsed, table>>
      /\ mapped' = [mapped EXCEPT ![n][j] = None]
      /\ call' = [call EXCEPT ![c].todo = Tail(@), ![c].entry = e]
  BY DEF Take, Now, At
<1>2. /\ n \in Nodes /\ j \in Jobs /\ IsCall(call[c]) /\ TableOK /\ CallsOK /\ GocronOK
      /\ call[c].op \in Ops /\ call[c].todo \in Left(call[c].op)
      /\ j \notin lapsed => Underway(call[c])
  BY AtWork
<1>3. Len(call[c].todo) # 1 /\ Head(Tail(call[c].todo)) = "remove"
  <2>1. Follow(call[c].op, call[c].todo)
    BY <1>2, Follows, Zenon
  <2> QED BY <1>1, <2>1 DEF Follow
<1>4. e = None \/ IsEntry(e, j)
  BY <1>2 DEF GocronOK
<1>5. TableOK'
  BY <1>1, <1>2 DEF TableOK
<1>6. j \notin lapsed => Here(n, j) = {e} \ {None} /\ (call[c].op = "pause" => ~table[j].on)
  BY <1>1, <1>2 DEF Underway, At, Linked
<1> HIDE DEF e
<1>7. /\ GocronOK' /\ Here(n, j)' = Here(n, j) /\ mapped'[n][j] = None
      /\ \A k \in Jobs \ {j} : \A m \in Nodes : Here(m, k)' = Here(m, k) /\ mapped'[m][k] = mapped[m][k]
  BY <1>1, <1>2, MappedSet
<1>8. Goes1(c, e)
  BY <1>1, <1>2, Going
<1>9. /\ IsCall(call'[c]) /\ call'[c].job = j /\ call'[c].entry = e /\ call'[c].op = call[c].op
      /\ call'[c].node = n /\ Head(call'[c].todo) = "remove"
  BY <1>1, <1>2, <1>3, <1>4, <1>8, GoesIsCall DEF At
<1>10. j \notin lapsed => Underway(call[c])'
  BY <1>1, <1>6, <1>7, <1>9 DEF Underway
<1> QED BY <1>1, <1>5, <1>7, <1>8, <1>9, <1>10 DEF Moves, Goes1

LEMMA RemoveKeeps ==
    ASSUME OneNode, ScheduleInv, NEW c \in Calls, NEW n, NEW j, At(c, n, j), Remove(c)
    PROVE  Moves(c, j)
<1> DEFINE e == call[c].entry
           op == call[c].op
<1>1. /\ Busy(c) /\ Head(call[c].todo) = "remove" /\ UNCHANGED <<mapped, lapsed, table>>
      /\ live' = [live EXCEPT ![n] = @ \ {e}] /\ Next1(c)
  BY DEF Remove, Now, At
<1>2. /\ n \in Nodes /\ j \in Jobs /\ IsCall(call[c]) /\ TableOK /\ CallsOK /\ GocronOK
      /\ op \in Ops /\ call[c].todo \in Left(op)
      /\ j \notin lapsed => Underway(call[c])
      /\ e = None \/ IsEntry(e, j)
  BY AtWork
<1>3. \/ op = "update" /\ Len(call[c].todo) # 1 /\ Head(Tail(call[c].todo)) = "fetch"
      \/ op = "delete" /\ Len(call[c].todo) # 1 /\ Head(Tail(call[c].todo)) = "drop"
      \/ op = "pause" /\ Len(call[c].todo) = 1
  <2>1. Follow(op, call[c].todo)
    BY <1>2, Follows, Zenon
  <2> QED BY <1>1, <2>1 DEF Follow
<1>4. TableOK' /\ \A m \in Nodes : m = n
  BY <1>1, <1>2 DEF TableOK, OneNode
<1>5. /\ j \notin lapsed => Here(n, j) = {e} \ {None} /\ mapped[n][j] = None
      /\ j \notin lapsed /\ op = "pause" => ~table[j].on
  BY <1>1, <1>2 DEF Underway, At
<1>6. \A d \in live[n] : d # None
  BY <1>2, EntryIsOne DEF GocronOK
<1>7. /\ GocronOK' /\ Here(n, j)' = { d \in live[n] \ {e} : d.job = j }
      /\ \A k \in Jobs \ {j} : \A m \in Nodes : Here(m, k)' = Here(m, k) /\ mapped'[m][k] = mapped[m][k]
  <2> DEFINE S == live[n] \ {e}
  <2>1. live' = [live EXCEPT ![n] = S] /\ mapped' = mapped
    BY <1>1
  <2>2. (\A d \in S : d \in live[n] \/ IsEntry(d, j)) /\ (\A d \in live[n] : d \notin S => d.job = j)
    BY <1>2, <1>6, EntryIsOne
  <2> HIDE DEF S
  <2>3. /\ GocronOK' /\ Here(n, j)' = { d \in S : d.job = j }
        /\ \A k \in Jobs \ {j} : \A m \in Nodes : Here(m, k)' = Here(m, k) /\ mapped'[m][k] = mapped[m][k]
    BY <1>2, <2>1, <2>2, LiveSet
  <2> QED BY <2>3 DEF S
<1>8. j \notin lapsed => Bare(n, j)'
  BY <1>1, <1>5, <1>7 DEF Here, Bare
<1>9. CASE op = "pause"
  <2>1. Stops(c)
    BY <1>1, <1>2, <1>3, <1>9, Going
  <2>2. \A m \in Nodes : j \notin lapsed => Right(m, j)'
    BY <1>1, <1>4, <1>5, <1>8, <1>9 DEF Right, Linked, Bare
  <2> QED BY <1>1, <1>4, <1>7, <2>1, <2>2 DEF Moves, Stops
<1>10. CASE op # "pause"
  <2>1. Goes1(c, e) /\ Len(call[c].todo) # 1
    BY <1>1, <1>2, <1>3, <1>10, Going
  <2>2. /\ IsCall(call'[c]) /\ call'[c].job = j /\ call'[c].op = op /\ call'[c].node = n
        /\ call'[c].todo = Tail(call[c].todo)
    BY <1>1, <1>2, <1>3, <1>10, <2>1, GoesIsCall DEF At
  <2>3. j \notin lapsed => Underway(call[c])'
    BY <1>3, <1>8, <1>10, <2>2 DEF Underway
  <2> QED BY <1>1, <1>4, <1>7, <2>1, <2>2, <2>3 DEF Moves, Goes1
<1> QED BY <1>9, <1>10

LEMMA AbandonKeeps ==
    ASSUME ScheduleInv, NEW c \in Calls, NEW n, NEW j, At(c, n, j), Abandon(c)
    PROVE  Moves(c, j)
<1>1. /\ Busy(c) /\ UNCHANGED <<live, mapped, table>> /\ Leave(c) /\ lapsed' = lapsed \cup {j}
  BY DEF Abandon, Now, gocron, At
<1>2. /\ j \in Jobs /\ TableOK /\ CallsOK /\ GocronOK
  BY AtWork
<1>3. /\ GocronOK' /\ \A m \in Nodes : \A k : Here(m, k)' = Here(m, k) /\ mapped'[m][k] = mapped[m][k]
  BY <1>1, <1>2, GocronKept
<1>4. Stops(c) /\ TableOK'
  BY <1>1, <1>2, Going DEF TableOK
<1> QED BY <1>1, <1>3, <1>4 DEF Moves, Stops


-----------------------------------------------------------------------------
\* A request is taken up between two others.
LEMMA AskKeeps ==
    ASSUME Alone, ScheduleInv, NEW c \in Calls, NEW n \in Nodes, NEW op \in Ops, NEW j \in Jobs,
           NEW f, Ask(c, n, op, j, f)
    PROVE  ScheduleInv'
<1> DEFINE x == [todo |-> Program(op), asked |-> TRUE, op |-> op,
                 node |-> n, job |-> j, row |-> f, entry |-> None]
<1>1. /\ Offered(op, j) /\ (\A d \in Calls : ~Busy(d)) /\ call' = [call EXCEPT ![c] = x]
      /\ UNCHANGED <<table, live, mapped, lapsed>>
  BY DEF Ask, gocron
<1>2. TableOK /\ GocronOK /\ CallsOK /\ \A m \in Nodes, k \in Jobs \ lapsed : Right(m, k)
  BY <1>1 DEF ScheduleInv, Agreed
<1>3. TableOK' /\ GocronOK' /\ \A m \in Nodes, k \in Jobs \ lapsed : Right(m, k)'
  <2>1. TableOK' /\ GocronOK'
    BY <1>1, <1>2 DEF TableOK, GocronOK
  <2>2. \A m \in Nodes, k \in Jobs : Right(m, k)' <=> Right(m, k)
    BY <1>1 DEF Right, Linked, Here
  <2> QED BY <1>2, <2>1, <2>2
<1>4. /\ call'[c] = x /\ call' = [d \in Calls |-> call'[d]]
      /\ \A d \in Calls : d # c => call'[d] = call[d]
  BY <1>1, <1>2 DEF CallsOK
<1>5. /\ x.todo = Program(op) /\ x.op = op /\ x.node = n /\ x.job = j /\ x.entry = None
      /\ x = [todo |-> x.todo, asked |-> x.asked, op |-> x.op, node |-> x.node, job |-> x.job,
              row |-> x.row, entry |-> x.entry]
  OBVIOUS
<1> HIDE DEF x
<1>6. /\ Program(op) \in Left(op)
      /\ op = "create" => Head(Program(op)) = "insert"
      /\ op = "update" => Head(Program(op)) = "update"
      /\ op = "pause" => Head(Program(op)) = "disable"
      /\ op = "resume" => Head(Program(op)) = "enable"
      /\ op = "delete" => Head(Program(op)) = "take"
  BY AllParts DEF Program, Left, Ops, Parts
<1>7. IsCall(x)
  BY <1>5, <1>6 DEF IsCall, Ops
<1>8. CallsOK'
  <2>1. \A d \in Calls : Busy(d)' => d = c
    BY <1>1, <1>4 DEF Busy
  <2> QED BY <1>4, <1>7, <2>1 DEF CallsOK
<1>9. ASSUME j \notin lapsed PROVE Underway(call[c])'
  <2>1. Right(n, j)'
    BY <1>3, <1>9
  <2>2. op = "resume" => table'[j].there /\ Bare(n, j)'
    BY <1>1, <1>3, <2>1 DEF Offered, Right, Linked, Bare
  <2>3. Linked(n, j)'
    BY <2>1 DEF Right
  <2> QED BY <1>4, <1>5, <1>6, <2>1, <2>2, <2>3 DEF Underway, Ops
<1>10. Agreed'
  <2>1. \A d \in Calls : Busy(d)' => d = c
    BY <1>1, <1>4 DEF Busy
  <2> QED BY <1>1, <1>3, <1>4, <1>5, <1>9, <2>1 DEF Agreed
<1> QED BY <1>3, <1>8, <1>10 DEF ScheduleInv

\* Executions and settings leave the schedule alone.
LEMMA QuietKeeps ==
    ASSUME ScheduleInv, UNCHANGED <<table, live, mapped, call>>, lapsed \subseteq lapsed'
    PROVE  ScheduleInv'
<1>1. TableOK' /\ GocronOK' /\ CallsOK'
  BY DEF ScheduleInv, TableOK, GocronOK, CallsOK, Busy
<1>2. \A n \in Nodes : \A j : Right(n, j)' <=> Right(n, j)
  BY DEF Right, Linked, Here
<1>3. ASSUME NEW c \in Calls PROVE Underway(call[c])' <=> Underway(call[c])
  BY DEF Underway, Right, Linked, Bare, Here
<1>4. Agreed'
  BY <1>2, <1>3 DEF ScheduleInv, Agreed, Busy
<1> QED BY <1>1, <1>4 DEF ScheduleInv

\* A process that starts again registers what the table says.
LEMMA RestartKeeps ==
    ASSUME OneNode, ScheduleInv, NEW n, Restarted(n)
    PROVE  ScheduleInv'
<1> DEFINE jobs == { j \in Timed : table[j].on }
           first(j) == [job |-> j, single |-> table[j].single, nth |-> 1]
<1>1. /\ live' = [live EXCEPT ![n] = { first(j) : j \in jobs }]
      /\ mapped' = [mapped EXCEPT ![n] = [j \in Jobs |-> IF j \in jobs THEN first(j) ELSE None]]
      /\ call' = [c \in Calls |-> IF Busy(c) /\ call[c].node = n THEN Answered ELSE call[c]]
      /\ UNCHANGED <<table, lapsed>>
  BY DEF Restarted
<1>2. TableOK /\ GocronOK /\ CallsOK
  BY DEF ScheduleInv
<1>3. CASE n \notin Nodes
  <2>1. live' = live /\ mapped' = mapped
    BY <1>1, <1>2, <1>3 DEF GocronOK
  <2>2. call' = call
    <3>1. \A c \in Calls : Busy(c) => call[c].node # n
      BY <1>2, <1>3 DEF CallsOK, IsCall
    <3> QED BY <1>1, <1>2, <3>1 DEF CallsOK
  <2> QED BY <1>1, <2>1, <2>2, QuietKeeps
<1>4. CASE n \in Nodes
  <2>1. \A m \in Nodes : m = n
    BY <1>4 DEF OneNode
  <2>2. /\ live'[n] = { first(j) : j \in jobs }
        /\ \A j \in Jobs : mapped'[n][j] = IF j \in jobs THEN first(j) ELSE None
        /\ live' = [m \in Nodes |-> live'[m]]
        /\ mapped' = [m \in Nodes |-> [j \in Jobs |-> mapped'[m][j]]]
    BY <1>1, <1>2, <1>4, <2>1 DEF GocronOK
  <2>3. \A j : IsEntry(first(j), j) /\ first(j).job = j /\ first(j).single = table[j].single
    BY DEF IsEntry
  <2>4. jobs \subseteq Jobs /\ \A j : j \in jobs <=> j \in Timed /\ table[j].on
    BY ScheduleAssumption
  <2> HIDE DEF jobs, first
  <2>5. GocronOK' /\ TableOK'
    BY <1>1, <1>2, <2>1, <2>2, <2>3, <2>4 DEF GocronOK, TableOK
  <2>6. \A c \in Calls : ~Busy(c)'
    <3> SUFFICES ASSUME NEW c \in Calls PROVE call'[c].todo = <<>>
      BY DEF Busy
    <3>1. CASE Busy(c)
      BY <1>1, <1>2, <2>1, <3>1 DEF CallsOK, IsCall, Answered
    <3>2. CASE ~Busy(c)
      BY <1>1, <3>2 DEF Busy
    <3> QED BY <3>1, <3>2
  <2>7. CallsOK'
    BY <1>1, <2>6 DEF CallsOK
  <2>8. ASSUME NEW j \in Jobs PROVE Right(n, j)'
    <3>1. CASE j \in jobs
      <4>1. Here(n, j)' = {first(j)}
        BY <2>2, <2>3, <3>1 DEF Here
      <4>2. mapped'[n][j] = first(j) /\ first(j) # None
        BY <2>2, <2>3, <3>1, EntryIsOne
      <4> QED BY <1>1, <2>3, <2>4, <3>1, <4>1, <4>2 DEF Right, Linked
    <3>2. CASE j \notin jobs
      <4>1. Here(n, j)' = {}
        BY <2>2, <2>3, <3>2 DEF Here
      <4>2. mapped'[n][j] = None
        BY <2>2, <3>2
      <4> QED BY <1>1, <2>4, <3>2, <4>1, <4>2 DEF Right, Linked
    <3> QED BY <3>1, <3>2
  <2>9. Agreed'
    BY <2>1, <2>6, <2>8 DEF Agreed
  <2> QED BY <2>5, <2>7, <2>9 DEF ScheduleInv
<1> QED BY <1>3, <1>4

LEMMA ScheduleStep == OneNode /\ Alone /\ ScheduleInv /\ [Next]_vars => ScheduleInv'
<1> SUFFICES ASSUME OneNode, Alone, ScheduleInv, [Next]_vars PROVE ScheduleInv'
  OBVIOUS
<1>1. CASE UNCHANGED vars
  BY <1>1, QuietKeeps DEF vars, admin, gocron
<1>2. ASSUME NEW c \in Calls, CallStep(c) PROVE ScheduleInv'
  <2>1. Busy(c)
    BY <1>2 DEF CallStep, Insert, Update, Drop, Fetch, Add, Map, Take, Remove, Abandon, Now
  <2>2. PICK n, j : At(c, n, j)
    BY <2>1 DEF At
  <2>3. j \in Jobs
    BY <2>2, AtWork
  <2>4. Moves(c, j)
    BY <1>2, <2>2, InsertKeeps, UpdateKeeps, DropKeeps, FetchKeeps, AddKeeps, MapKeeps,
       TakeKeeps, RemoveKeeps, AbandonKeeps DEF CallStep
  <2> QED BY SMTT(30), <2>1, <2>2, <2>3, <2>4, MovesKeeps DEF At
<1>3. ASSUME NEW c \in Calls, NEW n \in Nodes, NEW op \in Ops, NEW j \in Jobs, NEW f,
             Ask(c, n, op, j, f)
      PROVE  ScheduleInv'
  BY <1>3, AskKeeps
<1>4. ASSUME NEW n \in Nodes,
             Restart(n) \/ RestartScheduler(n) \/ \E b \in BOOLEAN : SaveSettings(n, b)
      PROVE  ScheduleInv'
  BY <1>4, QuietKeeps, RestartKeeps DEF Restart, RestartScheduler, SaveSettings, admin, gocron
<1>5. ASSUME NEW n \in Nodes, NEW r \in Runs,
             (\E e \in live[n] : Fire(r, n, e)) \/ (\E j \in Jobs : Trigger(r, n, j))
      PROVE  ScheduleInv'
  BY <1>5, QuietKeeps DEF Fire, Trigger, admin, gocron
<1>6. ASSUME NEW r \in Runs, RunStep(r) \/ DeleteRun(r) \/ Panic(r) PROVE ScheduleInv'
  <2>1. CASE NilMessage(r) \/ Panic(r)
    BY <2>1, RestartKeeps DEF NilMessage, Panic
  <2>2. CASE ~NilMessage(r) /\ ~Panic(r)
    <3>1. UNCHANGED <<table, live, mapped, call>> /\ lapsed \subseteq lapsed'
      BY <1>6, <2>2 DEF RunStep, Record, Execute, Timeout, Finished, Judge, Settle, DeleteRun,
         Stated, admin, gocron
    <3> QED BY <3>1, QuietKeeps
  <2> QED BY <2>1, <2>2
<1>7. ASSUME NEW r \in Runs, NEW v \in {"ok", "error"}, Return(r, v) PROVE ScheduleInv'
  BY <1>7, QuietKeeps DEF Return, admin, gocron
<1> QED BY <1>1, <1>2, <1>3, <1>4, <1>5, <1>6, <1>7 DEF Next

LEMMA ScheduleInit == Init => ScheduleInv
<1> SUFFICES ASSUME Init PROVE ScheduleInv
  OBVIOUS
<1>1. TableOK
  <2>1. /\ table = [j \in Jobs |-> table[j]]
        /\ \A j \in Jobs : table[j] \in [there : {FALSE}, on : {FALSE}, single : {FALSE}, used : {FALSE}]
    BY DEF Init
  <2>2. \A j \in Jobs : IsRow(table[j]) /\ ~table[j].on /\ ~table[j].there
    BY <2>1 DEF IsRow
  <2> QED BY <2>1, <2>2 DEF TableOK
<1>2. GocronOK
  BY DEF Init, GocronOK
<1>3. (\A c \in Calls : ~Busy(c)) /\ call = [c \in Calls |-> call[c]]
  BY DEF Init, Busy
<1>4. ASSUME NEW n \in Nodes, NEW j \in Jobs PROVE Right(n, j)
  <2>1. Here(n, j) = {} /\ mapped[n][j] = None
    BY DEF Init, Here
  <2>2. ~table[j].on
    BY DEF Init
  <2> QED BY <2>1, <2>2 DEF Right, Linked
<1> QED BY <1>1, <1>2, <1>3, <1>4 DEF ScheduleInv, CallsOK, Agreed

(* Between the requests of one admin, the one node there is schedules the  *)
(* enabled jobs and no others, each once and as it is defined now, and its *)
(* map knows them all: after any number of requests and restarts, for any  *)
(* jobs but those a failed statement left half done (scheduler.go:283,     *)
(* 521).                                                                   *)
THEOREM ScheduleIsAsDefined == OneNode => (Spec => []ScheduledAsDefined)
<1> SUFFICES ASSUME OneNode PROVE Spec => []ScheduledAsDefined
  OBVIOUS
<1>1. ScheduleInv => ScheduledAsDefined
  BY DEF ScheduleInv, Agreed, ScheduledAsDefined, Right, Linked, Here
<1>2. CASE Alone
  <2>1. ScheduleInv /\ [Next]_vars => ScheduleInv'
    BY <1>2, ScheduleStep
  <2> QED BY <1>1, <2>1, ScheduleInit, PTL DEF Spec
<1>3. CASE ~Alone
  <2>1. ScheduledAsDefined
    BY <1>3 DEF ScheduledAsDefined
  <2> QED BY <2>1, PTL
<1> QED BY <1>2, <1>3
=============================================================================
