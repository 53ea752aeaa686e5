------------------------------ MODULE Admission ------------------------------
(***************************************************************************)
(* Who is let in, and how often: the key of a request (middleware/auth.go),*)
(* the window in Redis (redis_ratelimit.go) and the counter of each node   *)
(* (ratelimit.go), which decides where there is no Redis, or none that     *)
(* answers.                                                                *)
(***************************************************************************)
EXTENDS Naturals, FiniteSets

CONSTANTS
    Requests, Nodes,
    Callers,      \* who may ask
    Limit,        \* rate_limit_rpm of the one tenant that has a limit
    Window,       \* a minute, in ticks
    MaxTime,      \* bound: ticks
    MaxFaults     \* bound: calls of Redis that fail or take too long

ASSUME AdmissionAssumption ==
    /\ Callers \subseteq {"stranger", "suspended", "admin", "free", "tenant"}
    /\ Limit \in Nat \ {0} /\ Window \in Nat \ {0}
    /\ MaxTime \in Nat /\ MaxFaults \in Nat
    /\ IsFiniteSet(Requests)

VARIABLES
    redis,    \* whether the gateway runs with a Redis
    now,      \* the clock of all nodes
    req,      \* the requests
    zset,     \* the tenant's sorted set: the requests Redis has counted
    sent,     \* the scripts under way
    local,    \* each node's counter: a minute and a count
    latest,   \* history: the latest clock a script was given
    late,     \* history: requests whose script was given an earlier one
    setBack,  \* history: requests that set a node's counter back a minute
    faults

vars == <<redis, now, req, zset, sent, local, latest, late, setBack, faults>>
history == <<latest, late, setBack>>

Minute(t) == t \div Window

Init ==
    /\ redis \in BOOLEAN
    /\ now = 0
    /\ req = [r \in Requests |-> [step |-> "new"]]
    /\ zset = {}
    /\ sent = {}
    /\ local = [n \in Nodes |-> [minute |-> 0, count |-> 0]]
    /\ latest = 0
    /\ late = {}
    /\ setBack = {}
    /\ faults = 0

Fault == faults < MaxFaults /\ faults' = faults + 1

On(r, step) == req[r].step = step

Tick ==
    /\ now < MaxTime
    /\ now' = now + 1
    /\ UNCHANGED <<redis, req, zset, sent, local, history, faults>>

\* The key is looked up; a caller without a limit is not counted, and the
\* limit of the admin key, 100000, is none here.
Arrive(r, n, who) ==
    /\ On(r, "new")
    /\ req' = [req EXCEPT ![r] =
                  [node |-> n, at |-> now, read |-> now, by |-> "none",
                   step |-> IF who \in {"stranger", "suspended"} THEN "refused"
                            ELSE IF who \in {"admin", "free"} THEN "admitted"
                            ELSE IF redis THEN "asking" ELSE "counting"]]
    /\ sent' = IF redis /\ who = "tenant" THEN sent \cup {r} ELSE sent
    /\ UNCHANGED <<redis, now, zset, local, history, faults>>

\* Mutant of Counted: the cutoff is the clock itself.
CountedNone(t) == { q \in zset : req[q].at > t }

\* What is left of the set once what is too old is removed.
Counted(t) == { q \in zset : req[q].at + Window > t }

\* The script runs, whether or not the node still waits for it.
Script(r) ==
    /\ r \in sent
    /\ sent' = sent \ {r}
    /\ LET inWindow == Counted(req[r].at)
           allowed  == Cardinality(inWindow) < Limit
       IN /\ zset' = inWindow \cup IF allowed THEN {r} ELSE {}
          /\ late' = IF req[r].at < latest THEN late \cup {r} ELSE late
          /\ latest' = IF req[r].at < latest THEN latest ELSE req[r].at
          /\ req' = IF On(r, "asking")
                    THEN [req EXCEPT ![r].step = IF allowed THEN "allowed" ELSE "denied"]
                    ELSE req
    /\ UNCHANGED <<redis, now, local, setBack, faults>>

Reply(r) ==
    /\ On(r, "allowed") \/ On(r, "denied")
    /\ req' = IF On(r, "allowed")
              THEN [req EXCEPT ![r].step = "admitted", ![r].by = "redis"]
              ELSE [req EXCEPT ![r].step = "refused"]
    /\ UNCHANGED <<redis, now, zset, sent, local, history, faults>>

\* No answer in 200 ms, or none at all: the node counts for itself, and reads
\* the clock again.
NoReply(r) ==
    /\ \E s \in {"asking", "allowed", "denied"} : On(r, s)
    /\ Fault
    /\ \E lost \in {sent, sent \ {r}} : sent' = lost
    /\ req' = [req EXCEPT ![r].step = "counting", ![r].read = now]
    /\ UNCHANGED <<redis, now, zset, local, history>>

\* Mutant of Full: one more than the limit.
FullAfter(c) == c.count > Limit

Full(c) == c.count >= Limit

\* The node's counter, of the minute the request has read: compare-and-swap
\* makes the reset and the count one step, but not the reading of the clock.
Count(r) ==
    /\ On(r, "counting")
    /\ LET n    == req[r].node
           m    == Minute(req[r].read)
           same == local[n].minute = m
       IN IF same /\ Full(local[n])
          THEN /\ req' = [req EXCEPT ![r].step = "refused"]
               /\ UNCHANGED <<local, setBack>>
          ELSE /\ req' = [req EXCEPT ![r].step = "admitted", ![r].by = "local"]
               /\ local' = [local EXCEPT ![n] =
                                [minute |-> m, count |-> IF same THEN @.count + 1 ELSE 1]]
               /\ setBack' = IF m < local[n].minute THEN setBack \cup {r} ELSE setBack
    /\ UNCHANGED <<redis, now, zset, sent, latest, late, faults>>

Admitted(r, by) == On(r, "admitted") /\ req[r].by = by

\* Those Redis let in during the minute up to r.
Together(r) == { q \in Requests : /\ Admitted(q, "redis")
                                  /\ req[q].at <= req[r].at
                                  /\ req[q].at + Window > req[r].at }

Next ==
    \/ Tick
    \/ \E r \in Requests :
          \/ Script(r) \/ Reply(r) \/ NoReply(r) \/ Count(r)
          \/ \E n \in Nodes : \E who \in Callers : Arrive(r, n, who)

Spec == Init /\ [][Next]_vars
-----------------------------------------------------------------------------
\* No window of a minute has more requests let in by Redis than the limit, and
\* one more for each script that came later than its clock (redis_ratelimit.go:95).
WindowKept ==
    \A r \in Requests : Admitted(r, "redis") =>
        Cardinality(Together(r)) <= Limit + Cardinality(late)

\* No minute has more requests let in by a node than the limit, and as many
\* again for each request that found the counter a minute ahead and set it back
\* (ratelimit.go:65, 105).
MinuteKept ==
    \A n \in Nodes : \A m \in 0..Minute(MaxTime) :
        Cardinality({ r \in Requests : /\ Admitted(r, "local")
                                       /\ req[r].node = n /\ Minute(req[r].read) = m })
            <= Limit * (1 + Cardinality({ r \in setBack : req[r].node = n }))

\* "This ensures exact enforcement across all horizontal gateway nodes without
\* any inter-node coordination overhead" (redis_ratelimit.go:14).
ExactQuota ==
    \A r \in Requests : Admitted(r, "redis") => Cardinality(Together(r)) <= Limit
=============================================================================
